---------------------------- MODULE PageInvariants ----------------------------
(***************************************************************************)
(* What the proofs about the page speak of: the inductive invariants of    *)
(* what it is told of the runs it starts (RunPage: Base, RunInv, PageInv), *)
(* and of the events of one run on their way to it and to the two logs     *)
(* (RunLogs: LogBase, RecordBase), part by part.                           *)
(***************************************************************************)
EXTENDS MCRunPage

-----------------------------------------------------------------------------
(* The places of a finite set of numbers, and the command line.             *)

UpTo(S, n) == {m \in S : m <= n}

\* The members that a run of the console's is given, and the flag of each.
FlagOf == [Quiet |-> "--quiet", Colour |-> "--no-color", EventsPath |-> "--events", StopOnStdin |-> "--stop-on-stdin",
           Selection |-> "--select", OperatorName |-> "--operator", CriteriaVariant |-> "--criteria",
           RecordPath |-> "--record", ReplayPath |-> "--replay", Repeat |-> "--repeat",
           UntilFailure |-> "--until-failure"]

\* One element or none.
If(c, x) == IF c THEN {x} ELSE {}

SettingsOf(f) ==
  If(f.operator # None, Setting("--operator", f.operator))
    \cup If(f.criteria \notin {None, Default}, Setting("--criteria", f.criteria))
    \cup If(ReadingsFlag(f) # None, Setting(ReadingsFlag(f), f.path))
    \cup If(f.mode # "once" /\ f.count # None, Setting("--repeat", f.count))
    \cup If(f.mode = "until", Setting("--until-failure", None))

\* What the command line gives a member: an argument of its flag, or nothing.
GivesTo(f, m) ==
  CASE m = "Quiet" -> {Bare("--quiet")}
    [] m = "Colour" -> {Bare("--no-color")}
    [] m = "EventsPath" -> {With("--events", "-")}
    [] m = "StopOnStdin" -> {Bare("--stop-on-stdin")}
    [] m = "Selection" -> If(f.ticked # Ids, With("--select", SelectedIds(f.ticked)))
    [] m = "OperatorName" -> If(f.operator # None, With("--operator", f.operator))
    [] m = "CriteriaVariant" -> If(f.criteria \notin {None, Default}, With("--criteria", f.criteria))
    [] m = "RecordPath" -> If(ReadingsFlag(f) = "--record", With("--record", f.path))
    [] m = "ReplayPath" -> If(ReadingsFlag(f) = "--replay", With("--replay", f.path))
    [] m = "Repeat" -> If(f.mode # "once" /\ f.count # None, With("--repeat", f.count))
    [] m = "UntilFailure" -> If(f.mode = "until", Bare("--until-failure"))

Arguments(f) == UNION {GivesTo(f, m) : m \in DOMAIN FlagOf}

CommandOf(f) == BuildRunCommand(Selection(f), Settings(f))

\* What a run makes of a form that the page lets through.
RefusedByRun(f) == f.criteria = "unknown" \/ (f.mode # "once" /\ f.count = Huge)

AskedOf(f, o) ==
  /\ Selected(o, Tests) = SelectedIds(f.ticked)
  /\ Endless(o) <=> (f.mode = "until" /\ f.count = None)
  /\ ~Endless(o) => PassesOf(o) = Passes(f)
  /\ o.RecordPath = (IF f.source = "live" /\ f.record THEN f.path ELSE None)
  /\ o.ReplayPath = (IF f.source = "replay" THEN f.path ELSE None)
  /\ o.OperatorName = f.operator
  /\ o.CriteriaVariant = (IF f.criteria = Default THEN None ELSE f.criteria)
  /\ \A m \in {"SkeletonPath", "InjectPath", "Addresses", "LogDir", "WriteLogs"} : o[m] = DefaultOf(m)

-----------------------------------------------------------------------------
(* What the page, the server and the run are, whatever has happened.        *)

Outcomes == {"PASSED", "FAILED", "STOPPED", "STOPPED, failed", "crashed", "neverStarted"}

Statuses == Outcomes \cup {"idle", "form", "starting", "running", "stopping", "emergency", "safing", "active", "nothing",
                           "emergencyFailed", "emergencyKilled", "emergencySafed", "safingFailed", "safed"}

Verdict == {"", "running", "pass", "fail"}

PageType ==
  [running : BOOLEAN, stopping : BOOLEAN, status : Statuses, of : Nat, epoch : Nat, sawRunStart : BOOLEAN,
   passed : BOOLEAN \cup {None}, finished : Nat, failed : Nat, expected : Nat \cup {None},
   stopped : {"stop", "emergency", None}, pressed : BOOLEAN, ticked : SUBSET Ids, verdicts : [Ids -> Verdict]]

Kinds == {"run", "stop", "emergency", "safe"}

RequestType == [kind : Kinds, form : Forms, of : Nat, epoch : Nat]

ReplyType == [kind : Kinds, of : Nat, epoch : Nat, run : Nat, result : {"200", "409", "failed", "killed", "safed"}]

SafingType == [request : RequestType, killed : BOOLEAN, run : Nat]

LineType == [kind : {"stderr", "runStart", "testStart", "testEnd", "runEnd"}, test : Ids \cup {None}, ok : BOOLEAN]

Stages == {"gone", "parse", "between", "test", "ending"}

IsChild(c) ==
  /\ c = [alive |-> c.alive, form |-> c.form, options |-> c.options, of |-> c.of, stage |-> c.stage, pass |-> c.pass,
          next |-> c.next, passed |-> c.passed, stop |-> c.stop, killed |-> c.killed]
  /\ c.alive \in BOOLEAN /\ c.form \in Forms /\ c.of \in Nat /\ c.stage \in Stages /\ c.pass \in Nat /\ c.next \in Nat
  /\ c.passed \in BOOLEAN /\ c.stop \in BOOLEAN /\ c.killed \in BOOLEAN

Catalog == Selected(child.options, Tests)

\* A run is at a test of its catalog.
AtTest ==
  /\ child.stage \in {"between", "test"} => child.next > 0
  /\ child.stage = "test" => child.next <= Len(Catalog)

Typed ==
  /\ page \in PageType /\ requests \subseteq RequestType /\ replies \subseteq ReplyType /\ safing \subseteq SafingType
  /\ IsChild(child) /\ lines \in Seq(LineType) /\ stream \in Nat \cup {None}
  /\ starts \in 0..MaxStarts /\ troubles \in 0..MaxTroubles
  /\ AtTest

Numbered ==
  /\ page.of <= starts /\ page.epoch <= troubles /\ page.failed <= page.finished /\ child.of <= starts
  /\ \A q \in requests : q.of <= starts /\ q.epoch <= page.epoch
  /\ \A r \in replies : r.of <= starts /\ r.run <= starts /\ r.epoch <= page.epoch
  /\ \A s \in safing : s.request.of <= starts /\ s.run <= starts /\ s.request.epoch <= page.epoch

\* A run is asked for once; while it is, nothing is about it yet.
Fresh ==
  /\ \A q \in requests : q.kind = "run" =>
       /\ q.of > 0 /\ q.of # child.of /\ ~FormRefused(q.form)
       /\ \A r \in replies : r.run # q.of
       /\ \A s \in safing : s.run # q.of
  /\ \A p, q \in requests : p.kind = "run" /\ q.kind = "run" /\ p.of = q.of => p = q

\* A rig is being safed after the run it was called for, if that is still the last.
Safings ==
  /\ \A s \in safing :
       /\ s.request.kind \in {"emergency", "safe"}
       /\ s.request.kind = "emergency" /\ s.run = child.of => child.alive = FALSE
       /\ s.request.kind = "emergency" /\ s.killed = TRUE /\ s.run = child.of => child.killed = TRUE
  /\ \A r \in replies : r.kind = "run" => r.result \in {"200", "409"}
  /\ \A r \in replies : r.kind = "emergency" /\ r.result = "killed" /\ r.run = child.of => child.killed = TRUE /\ child.alive = FALSE

Base == Typed /\ Numbered /\ Fresh /\ Safings

\* What the run does leaves what is on its way alone.
ChildMoves ==
  /\ page' = page /\ requests' = requests /\ replies' = replies /\ stream' = stream /\ safing' = safing /\ starts' = starts
  /\ child.alive = TRUE
  /\ troubles' \in 0..MaxTroubles /\ troubles <= troubles'

ChildNext ==
  ChildRefuses \/ ChildBegins \/ BeginTest \/ EndTest \/ Throws \/ PassEnds \/ StopsBetween \/ ChildEnds \/ ChildDies

\* What the page does leaves the run alone.
PageMoves ==
  /\ child' = child /\ lines' = lines /\ safing' = safing
  /\ starts' \in 0..MaxStarts /\ starts <= starts' /\ troubles' \in 0..MaxTroubles /\ troubles <= troubles'

PageNext ==
  \/ \E f \in Forms : ClickRun(f)
  \/ ClickStop \/ ClickEmergency \/ ClickSafe
  \/ \E r \in replies : TakeReply(r)
  \/ Watch \/ RunFinished \/ Reload

\* A page that was told keeps whose it is and what it has counted.
Keeps ==
  /\ page' \in PageType /\ page'.of = page.of /\ page'.epoch = page.epoch
  /\ page'.failed = page.failed /\ page'.finished = page.finished

\* A run that reads its command line was given that of a form the page let through.
Asking ==
  child.stage = "parse" => ~FormRefused(child.form) /\ child.options = ParseOptions(CommandOf(child.form))

-----------------------------------------------------------------------------
(* What the run says: every line in its place, and every test of every pass.*)

Begun == lines # <<>> /\ lines[1].kind = "runStart"

Ended(t) == \E i \in DOMAIN lines : lines[i].kind = "testEnd" /\ lines[i].test = t

Clean(n) == \A i \in 1..n : lines[i].kind = "testEnd" => lines[i].ok = TRUE

Odd(n) == \E k \in Nat : n = 2 * k + 1

Even(n) == \E k \in Nat : n = 2 * k

\* A line alone, the first one, a test's first and its last, and the last of all.
InPlace(i) ==
  /\ lines[i].kind = "stderr" => Len(lines) = 1 /\ child.alive = FALSE
  /\ lines[i].kind = "runStart" => i = 1
  /\ i = 1 => lines[i].kind \in {"stderr", "runStart"}
  /\ lines[i].kind = "testStart" => Even(i) /\ lines[i].test \in ToSet(Catalog)
  /\ lines[i].kind = "testEnd" => i > 1 /\ Odd(i) /\ lines[i - 1].kind = "testStart" /\ lines[i - 1].test = lines[i].test
  /\ lines[i].kind = "runEnd" => i > 1 /\ i = Len(lines) /\ child.alive = FALSE

LinesInOrder == \A i \in DOMAIN lines : InPlace(i)

\* How far a run has come, and that what its form asked for can be counted.
Steps == (child.pass - 1) * Len(Catalog) + (child.next - 1)

Counted ==
  /\ child.pass > 0 /\ child.next > 0 /\ Len(Catalog) > 0
  /\ PassesOf(child.options) \in Nat /\ PassesOf(child.options) > 0
  /\ ~Endless(child.options) => child.pass <= PassesOf(child.options)

Stepped ==
  /\ child.stage \in {"between", "test"} => \A m \in 1..Len(Catalog) : child.pass > 1 \/ m < child.next => Ended(Catalog[m])
  /\ child.stage = "between" => child.next <= Len(Catalog) + 1 /\ Len(lines) = 2 * Steps + 1 /\ lines[Len(lines)].kind # "testStart"
  /\ child.stage = "test" =>
       /\ child.next <= Len(Catalog) /\ Len(lines) = 2 * Steps + 2
       /\ lines[Len(lines)].kind = "testStart" /\ lines[Len(lines)].test = Catalog[child.next]

Stage ==
  /\ child.alive = TRUE <=> child.stage # "gone"
  /\ child.stage = "parse" => lines = <<>>
  /\ child.stage \in {"between", "test", "ending"} => Begun
  /\ Begun => Counted
  /\ Stepped
  /\ child.alive = TRUE /\ child.passed = TRUE => Clean(Len(lines))

\* A run that passed has said so of every test of every pass.
AllSaid == ~Endless(child.options) /\ \A m \in 1..Len(Catalog) : Ended(Catalog[m])

SaidAll(n) == 2 * (PassesOf(child.options) * Len(Catalog)) + n

Passing ==
  /\ child.stage = "ending" /\ child.passed = TRUE =>
       AllSaid /\ Len(lines) = SaidAll(1) /\ lines[Len(lines)].kind # "testStart"
  /\ Begun /\ lines[Len(lines)].kind = "runEnd" /\ lines[Len(lines)].ok = TRUE =>
       /\ AllSaid /\ Clean(Len(lines)) /\ Len(lines) = SaidAll(2) /\ lines[Len(lines) - 1].kind # "testStart"

RunInv == LinesInOrder /\ Stage /\ Passing

-----------------------------------------------------------------------------
(* What the page has of it.                                                 *)

\* What the next line has to be.
Fits(x, n) ==
  /\ x.kind = "stderr" => n = 1 /\ child'.alive = FALSE
  /\ x.kind = "runStart" => n = 1
  /\ n = 1 => x.kind \in {"stderr", "runStart"}
  /\ x.kind = "testStart" => Even(n) /\ x.test \in ToSet(Catalog')
  /\ x.kind = "testEnd" => n > 1 /\ Odd(n) /\ lines[n - 1].kind = "testStart" /\ lines[n - 1].test = x.test
  /\ x.kind = "runEnd" => n > 1 /\ child'.alive = FALSE

\* How many lines the page has of a run without its end, and what it shows by them.
Told(s) == IF s > 0 /\ lines[s].kind = "runEnd" THEN s - 1 ELSE s

Under(t, s) == Told(s) > 0 /\ lines[Told(s)].kind = "testStart" /\ lines[Told(s)].test = t

EndedBy(t, s) == \E i \in 1..s : lines[i].kind = "testEnd" /\ lines[i].test = t

Shown(t, s) == IF Under(t, s) THEN "running" ELSE IF EndedBy(t, s) THEN "pass" ELSE ""

Shows(p, s) ==
  /\ s <= Len(lines)
  /\ p.sawRunStart = (s > 0 /\ lines[1].kind = "runStart")
  /\ p.passed = IF s > 0 /\ lines[s].kind = "runEnd" THEN lines[s].ok ELSE None
  /\ IF Told(s) = 0 THEN p.finished = 0 ELSE Told(s) - 1 \in {2 * p.finished, 2 * p.finished + 1}
  /\ Clean(s) => p.failed = 0 /\ \A t \in Ids : p.verdicts[t] = Shown(t, s)

Untold(p) ==
  /\ p.sawRunStart = FALSE /\ p.passed = None /\ p.finished = 0 /\ p.failed = 0
  /\ \A t \in Ids : p.verdicts[t] = ""

Showing ==
  /\ page.running = TRUE /\ stream = None => Untold(page)
  /\ stream # None /\ child.of = page.of => Shows(page, stream)

\* A page waits for the one run that it asked for, until it watches it.
OfPage(q) == q.kind = "run" /\ q.epoch = page.epoch

NotAsked == \A q \in requests : q.kind = "run" => q.of # page.of

Waits ==
  /\ \A q \in requests : OfPage(q) => q.of = page.of /\ page.running = TRUE /\ stream = None
  /\ \A r \in replies : OfPage(r) =>
       /\ r.of = page.of /\ page.running = TRUE /\ stream = None
       /\ \A q \in requests : ~OfPage(q)
       /\ \A s \in replies : OfPage(s) => s = r
       /\ r.result = "200" => NotAsked
  /\ stream # None => page.running = TRUE
  /\ stream # None \/ page.status \in Outcomes => NotAsked
  /\ page.status \in Outcomes => page.running = FALSE

\* What it asked for is what the run will count, and has counted.
Asked(ticked, expected) == page.ticked = ticked /\ page.expected = expected

Expected(o) == IF Endless(o) THEN None ELSE Len(Selected(o, Tests)) * PassesOf(o)

AsAskedFor ==
  page.running = TRUE =>
    /\ \A q \in requests : q.kind = "run" /\ q.of = page.of => Asked(q.form.ticked, ExpectedTests(q.form))
    /\ child.of = page.of =>
         /\ child.stage = "parse" => Asked(child.form.ticked, ExpectedTests(child.form))
         /\ Begun => Asked(ToSet(Catalog), Expected(child.options))

\* An outcome is of the page's own run, or of none.
OverIsGone == page.status \in Outcomes /\ child.of = page.of => child.alive = FALSE

PageInv == Showing /\ Waits /\ AsAskedFor /\ OverIsGone /\ PageTellsTrue

-----------------------------------------------------------------------------
(* The hooks of a run, and the stream: what comes through the pipe in pieces.*)

Moved(S, T, m, n) == \A i \in Nat : i \in T <=> i + m \in S /\ i + m > n

HookKinds ==
  {"runStart", "groupStart", "groupEnd", "testStart", "testEnd", "phaseStart", "phaseEnd", "event", "runEnd"}

Hook ==
  [hook : HookKinds, group : Groups \cup {NoGroup}, test : LogTests \cup {NoTest},
   phase : {"setup", "teardown", NoPhase}, verb : {"Measure", "Verify", "Note", NoVerb},
   rule : {"Measure", "Criterion", "Note", NoVerb, Adhoc}, ok : BOOLEAN,
   number : Numbers \cup {"absent"}, sequence : Nat]

Journals ==
  [group : Groups \cup {NoGroup}, test : LogTests \cup {NoTest}, phase : {"setup", "teardown", NoPhase},
   open : BOOLEAN, checks : Nat, failures : Nat, next : Nat]

Piece == [text : {"json", "text"}, of : Hook, newline : BOOLEAN]

\* What the page has not had yet of the stream, and the lines of it that are hooks
\* and can be read.
Wire == reader.partial \o pipe

JsonEnds(w) == {i \in DOMAIN w : w[i].newline /\ w[i].text = "json" /\ G!Parses(w[i].of)}

InPairs(w) ==
  \A i \in DOMAIN w :
    IF w[i].newline THEN i > 1 /\ ~w[i - 1].newline /\ w[i] = [w[i - 1] EXCEPT !.newline = TRUE]
    ELSE i < Len(w) => w[i + 1].newline

WholeLines(w) == w # <<>> => w[Len(w)].newline

\* What the page has, and what is left of the wire, when the first n pieces of it are read.
Takes(w, n, events, t, v) ==
  /\ t \in [partial : Seq(Piece), events : Seq(Hook)]
  /\ v \in Seq(Piece) /\ InPairs(v) /\ (WholeLines(w) => WholeLines(v))
  /\ Len(t.events) = Len(events) + Rank(JsonEnds(w), n) /\ Rank(JsonEnds(w), n) \in Nat
  /\ Cardinality(JsonEnds(w)) = Rank(JsonEnds(w), n) + Cardinality(JsonEnds(v))
  /\ \A j \in JsonEnds(v) : \E k \in JsonEnds(w) :
       v[j].of = w[k].of /\ Rank(JsonEnds(w), k) = Rank(JsonEnds(w), n) + Rank(JsonEnds(v), j)
  /\ \A i \in DOMAIN t.events :
       \/ i \in DOMAIN events /\ t.events[i] = events[i]
       \/ \E k \in JsonEnds(w) : t.events[i] = w[k].of /\ i = Len(events) + Rank(JsonEnds(w), k)

\* The hooks the n-th sink has been told of.
ToldTo(n) == Len(hooks) - Len(queue) + (IF queue # <<>> /\ turn > n THEN 1 ELSE 0)

LogTyped ==
  /\ opt \in [quiet : BOOLEAN, logs : BOOLEAN, events : BOOLEAN]
  /\ stage \in {"starting", "open", "run", "ending", "exited", "dead"}
  /\ thrown \in BOOLEAN /\ passed \in BOOLEAN
  /\ journal \in Journals
  /\ hooks \in Seq(Hook) /\ queue \in Seq(Hook)
  /\ turn \in Nat \ {0} /\ turn <= Len(G!Sinks) + 1
  /\ pipe \in Seq(Piece) /\ reader \in [partial : Seq(Piece), events : Seq(Hook)]

QueueIsRest ==
  /\ Len(queue) <= Len(hooks)
  /\ \A i \in DOMAIN queue : queue[i] = hooks[Len(hooks) - Len(queue) + i]
  /\ stage \in {"starting", "open"} => hooks = <<>> /\ queue = <<>>

\* The places of the hooks that can be read, and those hooks.
Readable(hs) == {k \in DOMAIN hs : G!Parses(hs[k])}

Said == At(hooks, Readable(hooks))

\* Those of them the stream has been told of.
SaidTo == Rank(Readable(hooks), ToldTo(Len(G!Sinks)))

WireIsRest ==
  /\ InPairs(Wire) /\ (stage # "dead" => WholeLines(Wire))
  /\ ~opt.events => Wire = <<>> /\ reader.events = <<>>
  /\ opt.events => Len(reader.events) + Cardinality(JsonEnds(Wire)) = SaidTo
  /\ \A j \in JsonEnds(Wire) : Wire[j].of = Said[Len(reader.events) + Rank(JsonEnds(Wire), j)]
  /\ \A i \in DOMAIN reader.events : reader.events[i] = Said[i]
  /\ Len(reader.events) <= Len(Said)

LogBase == LogTyped /\ QueueIsRest /\ WireIsRest

-----------------------------------------------------------------------------
(* What a step hands out, and what it leaves as it is.                      *)

SinkNames == {"Console", "Sarif", "Rtf", "Events"}

Appends(new) ==
  /\ new \in Seq(Hook) /\ new # <<>> /\ queue = <<>>
  /\ queue' = new /\ turn' = 1 /\ hooks' = hooks \o new
  /\ UNCHANGED <<opt, sarif, rtf, pipe, reader>>

\* Nothing is told and nothing read.
Still == UNCHANGED <<opt, queue, turn, hooks, pipe, reader>>

StageMoves == /\ stage' \in {"starting", "open", "run", "ending", "exited", "dead"}
              /\ stage = "dead" => stage' = "dead"
              /\ stage' \in {"starting", "open"} => stage \in {"starting", "open"}

-----------------------------------------------------------------------------
(* The records: what the two logs have been told, and what a run comes to.  *)

SarifAt == (IF opt.quiet THEN 0 ELSE 1) + 1

RtfAt == (IF opt.quiet THEN 0 ELSE 1) + 2

SarifTold == ToldTo(SarifAt)

RtfTold == ToldTo(RtfAt)

\* The hooks from a to b are events of one test, and say that it went well.
Within(hs, a, b, group, test) ==
  \A k \in a..b : hs[k].hook = "event" /\ hs[k].group = group /\ hs[k].test = test

Checked(hs, a, b) == \E k \in a..b : hs[k].verb = "Verify"

NoneFailed(hs, a, b) == \A k \in a..b : hs[k].verb = "Verify" => hs[k].ok

EndIsLast(hs) == \A i \in 1..Len(hs) : hs[i].hook = "runEnd" => i = Len(hs)

NoEnd(hs) == \A i \in 1..Len(hs) : hs[i].hook # "runEnd"

\* The test that ended at i began at s, and has the verdict of what is between.
IsTest(hs, s, i) ==
  /\ hs[s].hook = "testStart" /\ Within(hs, s + 1, i - 1, hs[i].group, hs[i].test)
  /\ hs[i].ok <=> Checked(hs, s + 1, i - 1) /\ NoneFailed(hs, s + 1, i - 1)

TestsHold(hs) == \A i \in 1..Len(hs) : hs[i].hook = "testEnd" => \E s \in 1..(i - 1) : IsTest(hs, s, i)

\* The test that is open began at s, and the journal has counted what came since.
IsOpen(hs, s, j) ==
  /\ hs[s].hook = "testStart" /\ Within(hs, s + 1, Len(hs), j.group, j.test)
  /\ j.checks > 0 <=> Checked(hs, s + 1, Len(hs))
  /\ j.failures = 0 <=> NoneFailed(hs, s + 1, Len(hs))

OpenHolds(hs, j) ==
  j.group # NoGroup /\ j.test # NoTest /\ j.phase = NoPhase /\ \E s \in 1..Len(hs) : IsOpen(hs, s, j)

Story ==
  /\ EndIsLast(hooks) /\ TestsHold(hooks)
  /\ stage \notin {"ending", "exited", "dead"} => NoEnd(hooks)
  /\ journal.open /\ ~thrown => OpenHolds(hooks, journal)

RuleIds == {"Measure", "Criterion", "Note", "Group", "Test", "Phase", NoVerb, Adhoc}

ResultHook ==
  [hook : HookKinds, group : Groups \cup {NoGroup}, test : LogTests \cup {NoTest},
   phase : {"setup", "teardown", NoPhase}, verb : {"Measure", "Verify", "Note", NoVerb},
   rule : RuleIds, ok : BOOLEAN, number : Numbers \cup {"absent"}, sequence : Nat]

Document == [rules : Seq(RuleIds), results : Seq(ResultHook), allPassed : BOOLEAN]

SarifStates ==
  [group : Groups \cup {NoGroup}, rules : Seq(RuleIds), results : Seq(ResultHook), written : BOOLEAN, file : Seq(Document)]

RtfStates == [lines : Seq(Hook), closed : BOOLEAN, final : BOOLEAN]

DocumentsTyped == sarif \in SarifStates /\ rtf \in RtfStates

-----------------------------------------------------------------------------
(* What the machine log has, and the human log.                             *)

\* The places of the results, and of the lines, among the first n hooks.
ResultsIn(hs, n) == {k \in 1..n : G!IsResult(hs[k])}

LinesIn(hs, n) == {k \in 1..n : G!Composes(hs[k])}

\* A result is its hook, and a test's start names the group the hooks after it
\* name: as long as there are none, the journal's.
IsResultOf(r, hs, k, group) ==
  /\ r.hook = hs[k].hook /\ (hs[k].hook = "event" => r = hs[k])
  /\ hs[k].hook = "testStart" =>
       IF k = Len(hs) THEN r.group = group
       ELSE hs[k + 1].hook \in {"event", "testEnd"} => r.group = hs[k + 1].group

ResultsHold(results, hs, n, group) ==
  /\ Len(results) = Cardinality(ResultsIn(hs, n))
  /\ \A k \in ResultsIn(hs, n) : IsResultOf(results[Rank(ResultsIn(hs, n), k)], hs, k, group)

RulesHold(rules, results) ==
  /\ \A a, b \in DOMAIN rules : rules[a] = rules[b] => a = b
  /\ \A i \in DOMAIN results : \E a \in DOMAIN rules : rules[a] = results[i].rule

\* The sink's group is the journal's, unless the hook that changes it is still to come.
GroupHook(h) == h.hook \in {"groupStart", "groupEnd"}

GroupOf(h) == IF h.hook = "groupStart" THEN h.group ELSE NoGroup

GroupHolds(here, hs, n, group) ==
  \/ here = group /\ \A k \in (n + 1)..Len(hs) : ~GroupHook(hs[k]) /\ (hs[k].hook = "testStart" => k = Len(hs))
  \/ n + 1 = Len(hs) /\ GroupHook(hs[n + 1]) /\ group = GroupOf(hs[n + 1])

EndTold(hs, n) == n = Len(hs) /\ n > 0 /\ hs[n].hook = "runEnd"

Written(s, ok) == s.written /\ s.file = <<[rules |-> s.rules, results |-> s.results, allPassed |-> ok]>>

SarifHolds ==
  opt.logs =>
    /\ ResultsHold(sarif.results, hooks, SarifTold, journal.group)
    /\ RulesHold(sarif.rules, sarif.results)
    /\ GroupHolds(sarif.group, hooks, SarifTold, journal.group)
    /\ EndTold(hooks, SarifTold) => Written(sarif, hooks[SarifTold].ok)

RtfHolds ==
  opt.logs =>
    /\ stage = "starting" => rtf.lines = <<>> /\ ~rtf.final
    /\ stage # "starting" /\ (stage = "exited" => rtf.final) =>
         rtf.closed /\ rtf.lines = At(hooks, LinesIn(hooks, RtfTold))
    /\ rtf.final => stage \in {"ending", "exited", "dead"} /\ RtfTold = Len(hooks)
    /\ EndTold(hooks, RtfTold) => rtf.final

RecordBase == DocumentsTyped /\ Story /\ SarifHolds /\ RtfHolds

-----------------------------------------------------------------------------
(* How hooks are added, and told.                                           *)

\* What is told stays what it is.
LogsToldAsBefore == SarifTold' = SarifTold /\ RtfTold' = RtfTold

\* The first n hooks are the same.
Same(hs, ht, n) == \A i \in 1..n : ht[i] = hs[i]

Grown(hs, ht, new) ==
  /\ Len(hs) \in Nat /\ Len(new) \in Nat \ {0} /\ Len(ht) = Len(hs) + Len(new)
  /\ Same(hs, ht, Len(hs)) /\ \A i \in 1..Len(new) : ht[Len(hs) + i] = new[i]

\* What it is told of, it has: its lines are those of the first n hooks.
LinesTo(n) == At(hooks, LinesIn(hooks, n))

JournalTells(new) ==
  /\ Appends(new) /\ stage \in {"open", "run"} /\ stage' \in {"run", "ending"}
  /\ new[1].hook \in {"event", "testEnd"} => new[1].group = journal.group
  /\ \A i \in 1..Len(new) : new[i].hook = "testStart" => i = Len(new)
  /\ \/ journal'.group = journal.group /\ \A i \in 1..Len(new) : ~GroupHook(new[i])
     \/ Len(new) = 1 /\ GroupHook(new[1]) /\ journal'.group = GroupOf(new[1])

\* The first n hooks.
First(n) == SubSeq(hooks, 1, n)

=============================================================================
