------------------------------- MODULE RunPage -------------------------------
(***************************************************************************)
(* A run as the operator has it: the form of the console's page becomes a  *)
(* request, the request a command line, the command line the options of a  *)
(* run, and what the run streams back becomes the verdict on the page.     *)
(* The page's requests travel by themselves and the server answers them on *)
(* threads of its own, so a later click may be served before an earlier    *)
(* one; the page may be reloaded at any moment.                            *)
(*                                                                         *)
(* RunSession models the server's end of the child; here a child is what   *)
(* it says line by line, and --safe one that ends in one way or another:   *)
(* what it reaches of the rig is Preflight's and Rig's subject.             *)
(***************************************************************************)
EXTENDS CommandLine

CONSTANTS Tests,      \* the catalog's ids, in its order
          Default,    \* the criteria variant of the build
          MaxPasses,  \* bound: passes of a run without one
          MaxStarts, MaxTroubles, \* bounds: clicks of Run; of the other buttons, troubles and deaths
          Spare, Text, Huge \* a value for a text field, what is no number, a number past 64 bits

VARIABLES
  page,     \* state and model/run.js: what the page knows and says
  requests, \* on their way to the server: [kind, form, of]
  replies,  \* on their way back
  child,    \* the process the session runs, and what it was asked
  lines,    \* what it has said
  stream,   \* EventSource: how many lines this page has had, or None
  safing,   \* the --safe processes running, each with the request it answers
  starts, troubles

\* The page keeps a test's box and verdict by its id, and --select names one.
ASSUME PageAssumption ==
  /\ Tests # <<>> /\ Tests \in Seq(ToSet(Tests))
  /\ \A i, j \in DOMAIN Tests : Tests[i] = Tests[j] => i = j
  /\ Default \in Variants /\ "unknown" \notin Variants
  /\ None \notin Variants /\ None \notin ToSet(Tests) /\ None \notin {"unknown", "stop", "emergency", "--record", "--replay"}
  /\ None \notin BOOLEAN /\ None \notin Nat
  /\ None \notin {Spare, Text, Huge} /\ Text # Huge /\ Text \notin Nat /\ Huge \notin Nat
  /\ MaxPasses \in Nat \ {0} /\ MaxStarts \in Nat /\ MaxTroubles \in Nat

vars == <<page, requests, replies, child, lines, stream, safing, starts, troubles>>

Ids == ToSet(Tests)
SelectedIds(ids) == Picked(Tests, ids)

----------------------------------------------------------------------------
(* The form.  Only one of its panels differs from what it opens with.      *)

Blank == [ticked |-> Ids, mode |-> "once", count |-> None, source |-> "live", record |-> FALSE,
          path |-> None, operator |-> None, criteria |-> Default]

Panel ==
  [ticked : (SUBSET Ids) \ {{}}, mode : {"times", "until"}, count : {None, 2, Text, Huge}]
    \cup [ticked : (SUBSET Ids) \ {{}}]
    \cup [source : {"live", "replay"}, record : BOOLEAN, path : {None, Spare}]
    \cup [operator : {None, Spare}, criteria : Variants \cup {None, "unknown"}]
Filled(panel) == [field \in DOMAIN Blank |-> IF field \in DOMAIN panel THEN panel[field] ELSE Blank[field]]
Forms == {Filled(panel) : panel \in Panel}

\* selection: nothing at all when everything is ticked.
Selection(f) == IF f.ticked = Ids THEN <<>> ELSE SelectedIds(f.ticked)

\* readingsSettings and repeatSettings refuse the form; headerSettings leaves
\* out what says nothing new.
ReadingsFlag(f) == IF f.source = "replay" THEN "--replay" ELSE IF f.record THEN "--record" ELSE None
FormRefused(f) ==
  \/ ReadingsFlag(f) # None /\ f.path = None
  \/ f.mode # "once" /\ f.count = Text
  \/ f.mode = "times" /\ f.count = None

ReadingsSettings(f) == IF ReadingsFlag(f) = None THEN <<>> ELSE <<Setting(ReadingsFlag(f), f.path)>>
HeaderSettings(f) ==
  (IF f.operator = None THEN <<>> ELSE <<Setting("--operator", f.operator)>>)
    \o (IF f.criteria \in {None, Default} THEN <<>> ELSE <<Setting("--criteria", f.criteria)>>)

\* A number of passes left out of the request once the page has counted it.
RepeatOnlyTimes(f) ==
  (IF f.mode = "times" THEN <<Setting("--repeat", f.count)>> ELSE <<>>)
    \o (IF f.mode = "until" THEN <<Setting("--until-failure", None)>> ELSE <<>>)
RepeatSettings(f) ==
  (IF f.mode # "once" /\ f.count # None THEN <<Setting("--repeat", f.count)>> ELSE <<>>)
    \o (IF f.mode = "until" THEN <<Setting("--until-failure", None)>> ELSE <<>>)

Settings(f) == HeaderSettings(f) \o ReadingsSettings(f) \o RepeatSettings(f)

\* How many ends of tests the page waits for; None when there is no bound.
Passes(f) == IF f.mode = "once" THEN 1 ELSE f.count
ExpectedTests(f) == IF Passes(f) \in Nat THEN Cardinality(f.ticked) * Passes(f) ELSE None

----------------------------------------------------------------------------
(* What the run makes of it: isSelected and passCount.                     *)

Endless(options) == options.Repeat = None /\ options.UntilFailure
PassesOf(options) == IF options.Repeat # None THEN options.Repeat ELSE IF Endless(options) THEN MaxPasses ELSE 1

----------------------------------------------------------------------------
(* The server.                                                             *)

Gone == [alive |-> FALSE, form |-> Blank, options |-> Refused, of |-> 0, stage |-> "gone", pass |-> 0,
         next |-> 0, passed |-> TRUE, stop |-> FALSE, killed |-> FALSE]

TypeOK ==
  /\ {page.running, page.stopping, page.sawRunStart, page.pressed, child.alive, child.stop, child.killed}
       \subseteq BOOLEAN
  /\ page.of \in 0..starts /\ page.epoch \in 0..troubles
  /\ page.passed \in BOOLEAN \cup {None} /\ page.stopped \in {"stop", "emergency", None}
  /\ page.finished \in Nat /\ page.failed \in 0..page.finished /\ page.expected \in Nat \cup {None}
  /\ page.ticked \subseteq Ids /\ page.verdicts \in [Ids -> {"", "running", "pass", "fail"}]
  /\ \A r \in requests \cup {s.request : s \in safing} :
       r.kind \in {"run", "stop", "emergency", "safe"} /\ r.form \in Forms /\ r.of \in 0..starts
  /\ \A r \in replies : r.result \in {"200", "409", "failed", "killed", "safed"} /\ r.run \in 0..starts
  /\ child.form \in Forms /\ child.of \in 0..starts
  /\ child.stage \in {"gone", "parse", "between", "test", "ending"}
  /\ \A i \in DOMAIN lines : lines[i].kind \in {"stderr", "runStart", "testStart", "testEnd", "runEnd"}
  /\ stream \in Nat \cup {None}  \* past the end of a newer run's lines, too
  /\ starts \in 0..MaxStarts /\ troubles \in 0..MaxTroubles

Init ==
  /\ page = [running |-> FALSE, stopping |-> FALSE, status |-> "idle", of |-> 0, epoch |-> 0,
             sawRunStart |-> FALSE, passed |-> None, finished |-> 0, failed |-> 0,
             expected |-> None, stopped |-> None, pressed |-> FALSE, ticked |-> {}, verdicts |-> [t \in Ids |-> ""]]
  /\ requests = {} /\ replies = {} /\ safing = {}
  /\ child = Gone /\ lines = <<>> /\ stream = None
  /\ starts = 0 /\ troubles = 0

Trouble == troubles < MaxTroubles /\ troubles' = troubles + 1

\* run is the child it was answered about, which the page is not told.
Reply(r, result) == [kind |-> r.kind, of |-> r.of, epoch |-> r.epoch, run |-> child.of, result |-> result]

\* POST /api/run.
ServeRun(r) ==
  /\ r.kind = "run" /\ requests' = requests \ {r}
  /\ IF child.alive THEN replies' = replies \cup {Reply(r, "409")} /\ UNCHANGED <<child, lines>>
     ELSE /\ child' = [Gone EXCEPT !.alive = TRUE, !.form = r.form, !.of = r.of, !.stage = "parse",
                                   !.options = ParseOptions(BuildRunCommand(Selection(r.form), Settings(r.form)))]
          /\ lines' = <<>>
          /\ replies' = replies \cup {Reply(r, "200")}
  /\ UNCHANGED <<page, stream, safing, starts, troubles>>

\* POST /api/stop.
ServeStop(r) ==
  /\ r.kind = "stop" /\ requests' = requests \ {r}
  /\ child' = IF child.alive THEN [child EXCEPT !.stop = TRUE] ELSE child
  /\ replies' = replies \cup {Reply(r, IF child.alive THEN "200" ELSE "409")}
  /\ UNCHANGED <<page, lines, stream, safing, starts, troubles>>

\* The kill asked for and not made.
KilledLater(c) == c
Killed(c) == IF c.alive THEN [c EXCEPT !.alive = FALSE, !.stage = "gone", !.killed = TRUE] ELSE c
\* POST /api/emergency: the kill, and then the same binary with --safe.
ServeEmergency(r) ==
  /\ r.kind = "emergency" /\ requests' = requests \ {r}
  /\ child' = Killed(child)
  /\ safing' = safing \cup {[request |-> r, killed |-> child.alive, run |-> child.of]}
  /\ UNCHANGED <<page, replies, lines, stream, starts, troubles>>

\* POST /safe.
ServeSafe(r) ==
  /\ r.kind = "safe" /\ requests' = requests \ {r}
  /\ safing' = safing \cup {[request |-> r, killed |-> FALSE, run |-> child.of]}
  /\ UNCHANGED <<page, replies, child, lines, stream, starts, troubles>>

\* What the two handlers read of a --safe: the emergency that it ended well, the
\* button that it started.
Safed(s, end) == IF s.request.kind = "emergency" THEN end = "done" ELSE end # "unstarted"

\* --safe ends: it did not start, an instrument threw and it died, or it is done.
SafeEnds(s) ==
  /\ safing' = safing \ {s}
  /\ \E end \in {"unstarted", "died", "done"} :
       LET result == IF ~Safed(s, end) THEN "failed" ELSE IF s.killed THEN "killed" ELSE "safed"
       IN  replies' = replies \cup {[Reply(s.request, result) EXCEPT !.run = s.run]}
  /\ UNCHANGED <<page, requests, child, lines, stream, starts, troubles>>

----------------------------------------------------------------------------
(* The run.                                                                *)

Line(kind, test, ok) == [kind |-> kind, test |-> test, ok |-> ok]
Say(new) == lines' = lines \o new

\* A bad option, or a preflight that fails: a line on stderr and no run.
ChildRefuses ==
  /\ child.alive /\ child.stage = "parse"
  /\ Say(<<Line("stderr", None, FALSE)>>)
  /\ child' = [child EXCEPT !.alive = FALSE, !.stage = "gone"]
  /\ UNCHANGED <<page, requests, replies, stream, safing, starts, troubles>>

\* What the run goes on with: what was only checked or passed on is put away.
ChildBegins ==
  /\ child.alive /\ child.stage = "parse" /\ child.options # Refused
  /\ Say(<<Line("runStart", None, TRUE)>>)
  /\ child' = [child EXCEPT !.stage = "between", !.pass = 1, !.next = 1, !.form = Blank,
                   !.options = [m \in {"Selection", "Repeat", "UntilFailure"} |-> @[m]]]
  /\ UNCHANGED <<page, requests, replies, stream, safing, starts, troubles>>

BeginTest ==
  /\ child.alive /\ child.stage = "between" /\ ~child.stop /\ child.next <= Len(Selected(child.options, Tests))
  /\ Say(<<Line("testStart", Selected(child.options, Tests)[child.next], TRUE)>>)
  /\ child' = [child EXCEPT !.stage = "test"]
  /\ UNCHANGED <<page, requests, replies, stream, safing, starts, troubles>>

\* A test ends; one that a stop cuts short has failed.  Bound: the last pass of
\* a run that goes on until a failure has one.
EndTest ==
  /\ child.alive /\ child.stage = "test"
  /\ \E ok \in BOOLEAN :
       /\ ok => ~(Endless(child.options) /\ child.pass = MaxPasses)
       /\ Say(<<Line("testEnd", Selected(child.options, Tests)[child.next], ok)>>)
       /\ child' = [child EXCEPT !.stage = "between", !.next = @ + 1, !.passed = @ /\ ok]
  /\ UNCHANGED <<page, requests, replies, stream, safing, starts, troubles>>

\* A script throws: the run is over and did not pass.
Throws ==
  /\ child.alive /\ child.stage = "test"
  /\ child' = [child EXCEPT !.stage = "ending", !.passed = FALSE]
  /\ UNCHANGED <<page, requests, replies, lines, stream, safing, starts, troubles>>

PassEnds ==
  /\ child.alive /\ child.stage = "between" /\ ~child.stop /\ child.next > Len(Selected(child.options, Tests))
  /\ LET over == \/ child.pass = PassesOf(child.options) /\ ~Endless(child.options)
                 \/ ~child.passed /\ child.options.UntilFailure
     IN  child' = IF over THEN [child EXCEPT !.stage = "ending"] ELSE [child EXCEPT !.pass = @ + 1, !.next = 1]
  /\ UNCHANGED <<page, requests, replies, lines, stream, safing, starts, troubles>>

StopsBetween ==
  /\ child.alive /\ child.stage = "between" /\ child.stop
  /\ child' = [child EXCEPT !.stage = "ending", !.passed = FALSE]
  /\ UNCHANGED <<page, requests, replies, lines, stream, safing, starts, troubles>>

\* After the safing pass the last line is written; a teardown may still fail the run.
ChildEnds ==
  /\ child.alive /\ child.stage = "ending"
  /\ \E ok \in {FALSE, child.passed} : Say(<<Line("runEnd", None, ok)>>)
  /\ child' = [child EXCEPT !.alive = FALSE, !.stage = "gone"]
  /\ UNCHANGED <<page, requests, replies, stream, safing, starts, troubles>>

ChildDies ==
  /\ child.alive /\ Trouble
  /\ child' = [child EXCEPT !.alive = FALSE, !.stage = "gone"]
  /\ UNCHANGED <<page, requests, replies, lines, stream, safing, starts>>

----------------------------------------------------------------------------
(* The page.                                                               *)

Request(kind, form) == [kind |-> kind, form |-> form, of |-> page.of, epoch |-> page.epoch]

ClickRun(form) ==
  /\ ~page.running /\ starts < MaxStarts
  /\ starts > 0 => form = Blank
  /\ IF FormRefused(form) THEN page' = [page EXCEPT !.status = "form"] /\ UNCHANGED <<requests, stream, starts>>
     ELSE /\ starts' = starts + 1
          /\ page' = [page EXCEPT !.running = TRUE, !.stopping = FALSE, !.status = "starting", !.of = starts + 1,
                        !.sawRunStart = FALSE, !.passed = None, !.finished = 0, !.failed = 0, !.stopped = None, !.pressed = FALSE,
                        !.expected = ExpectedTests(form), !.ticked = form.ticked, !.verdicts = [t \in Ids |-> ""]]
          /\ requests' = requests \cup {[Request("run", form) EXCEPT !.of = starts + 1]}
          /\ stream' = stream
  /\ UNCHANGED <<replies, child, lines, safing, troubles>>

ClickStop ==
  /\ page.running /\ ~page.stopping /\ Trouble
  /\ page' = [page EXCEPT !.stopped = "stop", !.stopping = TRUE, !.status = "stopping"]
  /\ requests' = requests \cup {Request("stop", Blank)}
  /\ UNCHANGED <<replies, child, lines, stream, safing, starts>>

\* The button is disabled from the click to the next run.
ClickEmergency ==
  /\ page.running /\ ~page.pressed /\ Trouble
  /\ page' = [page EXCEPT !.stopped = "emergency", !.pressed = TRUE, !.status = "emergency"]
  /\ requests' = requests \cup {Request("emergency", Blank)}
  /\ UNCHANGED <<replies, child, lines, stream, safing, starts>>

\* The Safe button is never disabled.  Bound: it is pressed where it is called
\* for, and once at a time.
ClickSafe ==
  /\ \A r \in requests \cup replies : r.kind # "safe"
  /\ \A s \in safing : s.request.kind # "safe"
  /\ starts > 0 /\ page.status \in {"crashed", "emergencyFailed"} /\ Trouble
  /\ page' = [page EXCEPT !.status = "safing"]
  /\ requests' = requests \cup {Request("safe", Blank)}
  /\ UNCHANGED <<replies, child, lines, stream, safing, starts>>

\* A reply finds the page as it is now, whatever run it was about; one to a
\* page that has been reloaded finds nobody.
TakeReply(r) ==
  /\ replies' = replies \ {r}
  /\ LET ours == r.epoch = page.epoch
         refused == r.result = "409"
     IN  /\ page' =
              IF ~ours THEN page
              ELSE CASE r.kind = "run" /\ refused -> [page EXCEPT !.running = FALSE, !.stopping = FALSE, !.status = "active"]
                     [] r.kind = "run" /\ ~refused -> [page EXCEPT !.status = "running"]
                     [] r.kind = "stop" /\ refused ->
                          [page EXCEPT !.stopped = None, !.stopping = FALSE, !.status = IF page.running THEN "nothing" ELSE @]
                     [] r.kind = "emergency" -> [page EXCEPT !.status = CASE r.result = "failed" -> "emergencyFailed"
                                                                          [] r.result = "killed" -> "emergencyKilled"
                                                                          [] OTHER -> "emergencySafed"]
                     [] r.kind = "safe" -> [page EXCEPT !.status = IF r.result = "failed" THEN "safingFailed" ELSE "safed"]
                     [] OTHER -> page
         /\ stream' = IF ours /\ r.kind = "run" /\ ~refused THEN 0 ELSE stream
  /\ UNCHANGED <<requests, child, lines, safing, starts, troubles>>

\* applyEvent.
ApplyEvent(p, e) ==
  CASE e.kind = "runStart" -> [p EXCEPT !.sawRunStart = TRUE]
    [] e.kind = "testStart" -> [p EXCEPT !.verdicts[e.test] = "running"]
    [] e.kind = "testEnd" -> [p EXCEPT !.finished = @ + 1, !.failed = IF e.ok THEN @ ELSE @ + 1,
                                       !.verdicts[e.test] = IF e.ok THEN "pass" ELSE "fail"]
    [] e.kind = "runEnd" -> [p EXCEPT !.passed = e.ok]
    [] OTHER -> p

Watch ==
  /\ stream # None /\ stream < Len(lines)
  /\ page' = [ApplyEvent(page, lines[stream + 1]) EXCEPT !.status = IF lines[stream + 1].kind = "testEnd" THEN "running" ELSE @]
  /\ stream' = stream + 1
  /\ UNCHANGED <<requests, replies, child, lines, safing, starts, troubles>>

\* The four outcomes, and the stop that is neither.
\* One that goes by the verdict alone.
OutcomeByVerdict(p) ==
  IF ~p.sawRunStart THEN "neverStarted" ELSE IF p.passed = TRUE THEN "PASSED" ELSE "FAILED"
Outcome(p) ==
  IF p.stopped = "stop" /\ p.passed = FALSE THEN IF p.failed = 0 THEN "STOPPED" ELSE "STOPPED, failed"
  ELSE IF ~p.sawRunStart THEN "neverStarted"
  ELSE IF p.passed = None THEN "crashed"
  ELSE IF p.passed = TRUE THEN "PASSED" ELSE "FAILED"

\* runFinished: the stream is at its end.
RunFinished ==
  /\ stream # None /\ stream = Len(lines) /\ ~child.alive
  /\ stream' = None
  /\ LET p == [page EXCEPT !.running = FALSE, !.stopping = FALSE]
     IN  page' = IF page.stopped = "emergency" THEN p ELSE [p EXCEPT !.status = Outcome(page)]
  /\ UNCHANGED <<requests, replies, child, lines, safing, starts, troubles>>

\* A page that is loaded again knows of no run.
Reload ==
  /\ Trouble
  /\ page' = [page EXCEPT !.running = FALSE, !.stopping = FALSE, !.status = "idle", !.epoch = @ + 1, !.sawRunStart = FALSE,
                !.passed = None, !.finished = 0, !.failed = 0, !.expected = None, !.stopped = None,
                !.verdicts = [t \in Ids |-> ""]]
  /\ stream' = None
  /\ UNCHANGED <<requests, replies, child, lines, safing, starts>>

Quiet == ~child.alive /\ requests = {} /\ replies = {} /\ safing = {} /\ UNCHANGED vars

Next ==
  \/ \E r \in requests : ServeRun(r) \/ ServeStop(r) \/ ServeEmergency(r) \/ ServeSafe(r)
  \/ \E s \in safing : SafeEnds(s)
  \/ ChildRefuses \/ ChildBegins \/ BeginTest \/ EndTest \/ Throws \/ PassEnds \/ StopsBetween \/ ChildEnds \/ ChildDies
  \/ \E f \in Forms : ClickRun(f)
  \/ ClickStop \/ ClickEmergency \/ ClickSafe
  \/ \E r \in replies : TakeReply(r)
  \/ Watch \/ RunFinished \/ Reload \/ Quiet

Spec == Init /\ [][Next]_vars

----------------------------------------------------------------------------
(* What must hold.                                                         *)

\* The options of the run are those of the form: its tests, as often as it
\* says, to and from the files it names, for the operator and the criteria it
\* names, and nothing else (README.md of the console: a control not touched
\* contributes no flag).  What the page lets through, the run refuses only for
\* criteria it was not built with or a number past its 64 bits.
RunsWhatWasAsked ==
  child.stage = "parse" =>
    LET f == child.form
        o == child.options
        refused == f.criteria = "unknown" \/ (f.mode # "once" /\ f.count = Huge)
    IN  /\ (o = Refused) <=> refused
        /\ ~refused =>
             /\ Selected(o, Tests) = SelectedIds(f.ticked)
             /\ Endless(o) <=> (f.mode = "until" /\ f.count = None)
             /\ ~Endless(o) => PassesOf(o) = Passes(f)
             /\ o.RecordPath = (IF f.source = "live" /\ f.record THEN f.path ELSE None)
             /\ o.ReplayPath = (IF f.source = "replay" THEN f.path ELSE None)
             /\ o.OperatorName = f.operator
             /\ o.CriteriaVariant = (IF f.criteria = Default THEN None ELSE f.criteria)
             /\ \A m \in {"SkeletonPath", "InjectPath", "Addresses", "LogDir", "WriteLogs"} : o[m] = DefaultOf(m)

\* While the child the server had last is the one this page started: a page that
\* says PASSED has seen every test it asked for end well, in every pass it asked
\* for, and no other; one that says the run never started saw none begin.
PassedIsWhatWasAsked ==
  child.of = page.of =>
    /\ page.status = "PASSED" =>
         /\ page.failed = 0
         /\ page.expected # None /\ page.finished = page.expected
         /\ \A t \in Ids : page.verdicts[t] = (IF t \in page.ticked THEN "pass" ELSE "")
    /\ page.status = "neverStarted" => page.finished = 0 /\ ~child.alive

\* A page that calls a run over has one that is: the run it watched is gone, and
\* if it could not say how it ended, nobody reads that as a result.
OverMeansGone ==
  page.status \in {"PASSED", "FAILED", "STOPPED", "STOPPED, failed", "crashed", "neverStarted"} /\ child.of = page.of =>
    /\ ~child.alive
    /\ page.status \in {"PASSED", "FAILED", "STOPPED", "STOPPED, failed"} => lines[Len(lines)].kind = "runEnd"

\* What a page says of a run is so.
PageTellsTrue == PassedIsWhatWasAsked /\ OverMeansGone

\* An emergency kills before it safes: its --safe never runs beside the run it was
\* pressed for, and once it is answered with the run killed that run is gone by
\* that kill. Of a run that was started since neither is said (README.md of the
\* console: "It kills the process and runs --safe").
KilledBeforeSafed ==
  /\ \A s \in safing : s.request.kind = "emergency" /\ s.run = child.of => ~child.alive
  /\ \A r \in replies :
       r.kind = "emergency" /\ r.result = "killed" /\ r.run = child.of => child.killed /\ ~child.alive
=============================================================================
