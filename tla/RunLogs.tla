------------------------------- MODULE RunLogs -------------------------------
(***************************************************************************)
(* What a run writes about itself.  Every hook of the journal is handed to *)
(* its sinks in turn: the terminal, the machine log (SARIF), the human log *)
(* (RTF) and the event stream, whose other end is the console's reader     *)
(* and its page.  The process may be killed between any two writes and the  *)
(* page reads in whatever pieces the pipe gives it.                        *)
(*                                                                         *)
(* A written line of JSON or RTF is its hook; a line on a pipe is two      *)
(* pieces, the second with the newline, so that a reader may get half.     *)
(***************************************************************************)
EXTENDS Ordered, SequencesExt

CONSTANTS Groups, Tests,
          Numbers,   \* the values a reading may have, of "finite" and "nan"
          MaxHooks,  \* bound: hooks of one run
          PipeSize,  \* bound: pieces in the pipe before a writer waits for the reader
          NoGroup, NoTest, NoPhase, NoVerb, Adhoc

VARIABLES
  opt,      \* Options: Quiet, WriteLogs, EventsPath
  stage,    \* where main() is
  journal,  \* Journal: what it stamps and counts
  thrown,   \* an exception is unwinding the run
  passed,   \* allPassed, of the runner
  queue,    \* the hooks being handed out, the first to sink number `turn`
  turn,
  hooks,    \* every hook begun, in order
  sarif,    \* SarifSink, and the file it wrote, if it did
  rtf,      \* RtfSink: the lines on disk, whether the group is closed, the last word
  pipe,     \* what is written to standard output and not read yet
  page      \* the console's mPartialLine, and the events its lines gave the page

vars == <<opt, stage, journal, thrown, passed, queue, turn, hooks, sarif, rtf, pipe, page>>
sinkVars == <<sarif, rtf, pipe>>
runVars == <<opt, stage, journal, thrown, passed>>

----------------------------------------------------------------------------
(* The hooks.                                                              *)

Plain == [hook |-> "runStart", group |-> NoGroup, test |-> NoTest, phase |-> NoPhase,
          verb |-> NoVerb, rule |-> NoVerb, ok |-> TRUE, number |-> "absent", sequence |-> 0]

\* JournalRecord: a reading, a check against a table's criterion, an inline check, a note.
Records ==
  {[verb |-> "Measure", rule |-> "Measure", ok |-> TRUE, number |-> n] : n \in Numbers}
    \cup {[verb |-> "Verify", rule |-> "Criterion", ok |-> ok, number |-> n] : ok \in BOOLEAN, n \in Numbers}
    \cup {[verb |-> "Verify", rule |-> Adhoc, ok |-> TRUE, number |-> "absent"]}
    \cup {[verb |-> "Note", rule |-> "Note", ok |-> TRUE, number |-> "absent"]}

\* A NaN is less than any limit and greater than none: no check of it passes.
Postable == {r \in Records : ~(r.verb = "Verify" /\ r.number = "nan" /\ r.ok)}

Unchecked == [verb |-> "Verify", rule |-> Adhoc, ok |-> FALSE, number |-> "absent"]

\* What Journal::post makes of a record, n records after j.
Stamped(j, n, r) ==
  [Plain EXCEPT !.hook = "event", !.verb = r.verb, !.rule = r.rule, !.ok = r.ok, !.number = r.number,
                !.group = j.group, !.test = j.test, !.phase = j.phase, !.sequence = j.next + n]

Counted(j, r) ==
  LET counts == j.open /\ r.verb = "Verify" IN
  [j EXCEPT !.next = @ + 1,
            !.checks = IF counts THEN @ + 1 ELSE @,
            !.failures = IF counts /\ ~r.ok THEN @ + 1 ELSE @]

----------------------------------------------------------------------------
(* SarifSink: everything in memory until the last hook.                    *)

NoteRule(rules, id) == IF id \in ToSet(rules) THEN rules ELSE Append(rules, id)

Boundary == [groupStart |-> "Group", testStart |-> "Test", phaseStart |-> "Phase"]

IsResult(h) == h.hook \in DOMAIN Boundary \cup {"event"}

\* A boundary says which group it is in from what the sink itself has seen open.
Result(s, h) ==
  IF h.hook = "event" THEN h
  ELSE [h EXCEPT !.rule = Boundary[h.hook], !.group = IF h.hook = "phaseStart" THEN @ ELSE s.group]

Buffered(s, h) ==
  LET here == [s EXCEPT !.group = CASE h.hook = "groupStart" -> h.group
                                    [] h.hook = "groupEnd" -> NoGroup
                                    [] OTHER -> @]
  IN  IF IsResult(h)
      THEN LET r == Result(here, h) IN
           [here EXCEPT !.rules = NoteRule(@, r.rule), !.results = Append(@, r)]
      ELSE here

\* writeLog: one document, or an exception after mWritten is set.
WriteLog(s, ok) ==
  [s EXCEPT !.written = TRUE, !.file = <<[rules |-> s.rules, results |-> s.results, allPassed |-> ok]>>]
WriteLogFails(s) == [s EXCEPT !.written = TRUE]

\* numericValue is written as the number prints, and "nan" is not JSON.
Parses(h) == h.number # "nan"

----------------------------------------------------------------------------
(* RtfSink and ConsoleSink: the same lines, painted differently.            *)

IsHumanRelevant(h) == h.verb \in {"Measure", "Verify"}

\* The hooks that compose a line; groupEnd composes none.
Composes(h) == ~(h.hook = "groupEnd" \/ (h.hook = "event" /\ ~IsHumanRelevant(h)))
HumanLines(h) == IF Composes(h) THEN <<h>> ELSE <<>>

\* writeAll: the lines, the closing brace, flush, back over the brace.  One
\* hook's lines fit the stream's buffer, so nothing reaches the disk before.
FlushDocument(d, lines) == [d EXCEPT !.lines = @ \o lines, !.closed = TRUE]

WriteAll(d, lines) == IF lines = <<>> \/ d.final THEN d ELSE FlushDocument(d, lines)
FinishDocument(d) == [d EXCEPT !.final = TRUE, !.closed = TRUE]

----------------------------------------------------------------------------
(* EventSink, and at the other end the console's reader and the page.      *)

Line(kind, h) == <<[text |-> kind, of |-> h, newline |-> FALSE], [text |-> kind, of |-> h, newline |-> TRUE]>>

\* onmessage: one whole line of the event stream; a printed line, half a line
\* and two lines run together are dropped.
ParseEvent(line) ==
  /\ Len(line) = 2 /\ line[1].text = "json" /\ ~line[1].newline
  /\ line[2] = [line[1] EXCEPT !.newline = TRUE]
  /\ Parses(line[1].of)

\* readLoop: every whole line of what was kept and what came, and the rest kept.
EndOf(text) == {i \in DOMAIN text : text[i].newline}
LineTo(text, e) ==
  LET begin == CHOOSE b \in 1..e : (b > 1 => text[b - 1].newline) /\ \A i \in b..(e - 1) : ~text[i].newline
  IN  SubSeq(text, begin, e)

Taken(text, events) ==
  LET last == Max(EndOf(text) \cup {0})
      got == At(text, {e \in EndOf(text) : ParseEvent(LineTo(text, e))})
  IN  [partial |-> SubSeq(text, last + 1, Len(text)), events |-> events \o [i \in DOMAIN got |-> got[i].of]]

\* Each read stands by itself.
ConsumeAfresh(p, chunk) == Taken(chunk, p.events)
Consume(p, chunk) == Taken(p.partial \o chunk, p.events)

----------------------------------------------------------------------------
(* openLogs, and the refusals after it.                                    *)

Logs == IF opt.logs THEN <<"Sarif", "Rtf">> ELSE <<>>
Console == IF opt.quiet THEN <<>> ELSE <<"Console">>
Events == IF opt.events THEN <<"Events">> ELSE <<>>

\* The order sinks are told of a hook.
SinksEventsFirst == Console \o Events \o Logs
Sinks == Console \o Logs \o Events

TypeOK ==
  /\ opt \in [quiet : BOOLEAN, logs : BOOLEAN, events : BOOLEAN] /\ {thrown, passed} \subseteq BOOLEAN
  /\ stage \in {"starting", "open", "run", "ending", "exited", "dead"}
  /\ journal \in [group : Groups \cup {NoGroup}, test : Tests \cup {NoTest}, phase : {"setup", "teardown", NoPhase},
                   open : BOOLEAN, checks : 0..MaxHooks, failures : 0..MaxHooks, next : 0..MaxHooks]
  /\ journal.failures <= journal.checks /\ journal.checks <= journal.next
  /\ Len(hooks) <= MaxHooks + 1 /\ IsSuffix(queue, hooks) /\ turn \in 1..(Len(Sinks) + 1)
  /\ Len(pipe) <= PipeSize
  /\ sarif.written \in BOOLEAN /\ {rtf.closed, rtf.final} \subseteq BOOLEAN /\ Len(page.events) <= Len(hooks)

Init ==
  \* parseOptions: the stream on standard output wants the report off it
  /\ opt \in {o \in [quiet : BOOLEAN, logs : BOOLEAN, events : BOOLEAN] : o.events => o.quiet}
  /\ stage = "starting" /\ thrown = FALSE /\ passed = TRUE
  /\ journal = [group |-> NoGroup, test |-> NoTest, phase |-> NoPhase,
                open |-> FALSE, checks |-> 0, failures |-> 0, next |-> 0]
  /\ queue = <<>> /\ turn = 1 /\ hooks = <<>>
  /\ sarif = [group |-> NoGroup, rules |-> <<>>, results |-> <<>>, written |-> FALSE, file |-> <<>>]
  /\ rtf = [lines |-> <<>>, closed |-> FALSE, final |-> FALSE]
  /\ pipe = <<>> /\ page = [partial |-> <<>>, events |-> <<>>]

OpenLogs ==
  /\ stage = "starting"
  /\ \/ /\ stage' = "open" /\ rtf' = IF opt.logs THEN FlushDocument(rtf, <<>>) ELSE rtf
        /\ UNCHANGED sarif
     \/ /\ opt.logs /\ stage' = "exited" /\ UNCHANGED rtf  \* no directory, or the human log will not open
        /\ sarif' \in {sarif, WriteLog(sarif, FALSE)}
  /\ UNCHANGED <<opt, journal, thrown, passed, queue, turn, hooks, pipe, page>>

\* ~RunLogs: a machine log nobody wrote is written now, as a run that failed.
Destroy(ok) ==
  /\ rtf' = IF opt.logs THEN FinishDocument(rtf) ELSE rtf
  /\ sarif' = IF opt.logs /\ ~sarif.written THEN (IF ok THEN WriteLog(sarif, FALSE) ELSE WriteLogFails(sarif)) ELSE sarif
  /\ stage' = "exited"

\* openReadingStream or armReadings refuses, and main() returns.
RefuseReadings ==
  /\ stage = "open"
  /\ \E ok \in BOOLEAN : Destroy(ok)
  /\ UNCHANGED <<opt, journal, thrown, passed, queue, turn, hooks, pipe, page>>

----------------------------------------------------------------------------
(* The journal: a hook is begun when the one before has gone all the way.  *)

Room(n) == Len(hooks) + n <= MaxHooks
Ready == stage = "run" /\ queue = <<>>
Tell(new) == queue' = new /\ turn' = 1 /\ hooks' = hooks \o new
Hook(kind) == [Plain EXCEPT !.hook = kind]  \* and only what the hook is given

Begin ==
  /\ stage = "open" /\ stage' = "run"
  /\ Tell(<<Plain>>)
  /\ UNCHANGED <<opt, journal, thrown, passed, sinkVars, page>>

BeginGroup(g) ==
  /\ Ready /\ Room(1) /\ ~thrown /\ journal.group = NoGroup /\ journal.phase = NoPhase
  /\ journal' = [journal EXCEPT !.group = g]
  /\ Tell(<<[Hook("groupStart") EXCEPT !.group = g]>>)
  /\ UNCHANGED <<opt, stage, thrown, passed, sinkVars, page>>

EndGroup ==
  /\ Ready /\ Room(1) /\ ~thrown /\ journal.group # NoGroup /\ journal.test = NoTest /\ journal.phase = NoPhase
  /\ journal' = [journal EXCEPT !.group = NoGroup]
  /\ Tell(<<[Hook("groupEnd") EXCEPT !.group = journal.group]>>)
  /\ UNCHANGED <<opt, stage, thrown, passed, sinkVars, page>>

BeginTest(t) ==
  /\ Ready /\ Room(2) /\ ~thrown /\ journal.group # NoGroup /\ journal.test = NoTest /\ journal.phase = NoPhase
  /\ journal' = [journal EXCEPT !.test = t, !.open = TRUE, !.checks = 0, !.failures = 0]
  /\ Tell(<<[Hook("testStart") EXCEPT !.test = t]>>)
  /\ UNCHANGED <<opt, stage, thrown, passed, sinkVars, page>>

\* The counters as the verdict is formed: a test that checked nothing gets a
\* failing check first.
Closing(j) == IF j.open /\ j.checks = 0 THEN <<Unchecked>> ELSE <<>>
Verdict(j) == j.checks > 0 /\ j.failures = 0

EndTest ==
  LET last == Closing(journal)
      j == IF last = <<>> THEN journal ELSE Counted(journal, last[1])
      ok == Verdict(j)
  IN
  /\ Ready /\ Room(2) /\ ~thrown /\ journal.test # NoTest /\ journal.open /\ journal.phase = NoPhase
  /\ journal' = [j EXCEPT !.open = FALSE, !.test = NoTest]
  /\ passed' = (passed /\ ok)
  /\ Tell((IF last = <<>> THEN <<>> ELSE <<Stamped(journal, 0, last[1])>>)
            \o <<[Hook("testEnd") EXCEPT !.ok = ok, !.group = journal.group, !.test = journal.test]>>)
  /\ UNCHANGED <<opt, stage, thrown, sinkVars, page>>

\* A hook of the run or a group is bracketed by a phase; after a throw only
\* teardowns still run, with the test the exception left open.
BeginPhase ==
  /\ Ready /\ Room(2) /\ journal.phase = NoPhase /\ (journal.open => thrown)
  /\ \E p \in {"setup", "teardown"} :
       /\ thrown => p = "teardown"
       /\ journal' = [journal EXCEPT !.phase = p]
       /\ Tell(<<[Hook("phaseStart") EXCEPT !.group = journal.group, !.phase = p]>>)
  /\ UNCHANGED <<opt, stage, thrown, passed, sinkVars, page>>

EndPhase ==
  /\ Ready /\ Room(1) /\ journal.phase # NoPhase
  /\ journal' = [journal EXCEPT !.phase = NoPhase]
  /\ Tell(<<[Hook("phaseEnd") EXCEPT !.phase = journal.phase]>>)
  /\ UNCHANGED <<opt, stage, thrown, passed, sinkVars, page>>

Post(r) ==
  /\ Ready /\ Room(3)
  /\ r.verb # "Note" => (journal.open /\ ~thrown) \/ journal.phase # NoPhase
  /\ journal' = Counted(journal, r)
  /\ Tell(<<Stamped(journal, 0, r)>>)
  /\ UNCHANGED <<opt, stage, thrown, passed, sinkVars, page>>

\* A script throws, or a setup whose phase ends with it: no endTest, no endGroup.
Throw ==
  /\ Ready /\ Room(2) /\ ~thrown
  /\ \/ /\ journal.open /\ journal.phase = NoPhase
        /\ UNCHANGED <<journal, queue, turn, hooks>>
     \/ /\ journal.phase = "setup"
        /\ journal' = [journal EXCEPT !.phase = NoPhase]
        /\ Tell(<<[Hook("phaseEnd") EXCEPT !.phase = journal.phase]>>)
  /\ thrown' = TRUE /\ passed' = FALSE
  /\ UNCHANGED <<opt, stage, sinkVars, page>>

\* runTests is over, with any further reason to call the run a failed one.
End ==
  /\ Ready /\ journal.phase = NoPhase /\ (thrown \/ journal.group = NoGroup)
  /\ stage' = "ending"
  /\ \E ok \in {FALSE, passed} :
       /\ passed' = ok
       /\ Tell(<<[Plain EXCEPT !.hook = "runEnd", !.ok = ok]>>)
  /\ UNCHANGED <<opt, journal, thrown, sinkVars, page>>

----------------------------------------------------------------------------
(* The fan-out: one sink at a time, each flushing before it returns.       *)

Telling == stage \in {"run", "ending"} /\ queue # <<>> /\ turn <= Len(Sinks)
Told == queue[1]
Fits == Len(pipe) + 2 <= PipeSize

\* The terminal takes what it is given.
TellConsole ==
  /\ Telling /\ Sinks[turn] = "Console"
  /\ turn' = turn + 1
  /\ UNCHANGED <<runVars, queue, hooks, sinkVars, page>>

\* A script writes a line of its own on standard output, where the events go.
ScriptPrints ==
  /\ Ready /\ journal.open /\ ~thrown /\ opt.events /\ Fits
  /\ \A i \in DOMAIN pipe : pipe[i].text = "json"
  /\ pipe' = pipe \o Line("text", Plain)
  /\ UNCHANGED <<runVars, queue, turn, hooks, sarif, rtf, page>>

TellSarif ==
  /\ Telling /\ Sinks[turn] = "Sarif"
  /\ sarif' = IF Told.hook = "runEnd" THEN WriteLog(sarif, Told.ok) ELSE Buffered(sarif, Told)
  /\ turn' = turn + 1
  /\ UNCHANGED <<runVars, queue, hooks, rtf, pipe, page>>

\* The file will not open or the disk is full: the exception leaves
\* Journal::end, where nothing catches it, and the process is terminated.
SarifThrows ==
  /\ Telling /\ Sinks[turn] = "Sarif" /\ Told.hook = "runEnd"
  /\ sarif' = WriteLogFails(sarif)
  /\ stage' = "dead"
  /\ UNCHANGED <<opt, journal, thrown, passed, queue, turn, hooks, rtf, pipe, page>>

TellRtf ==
  /\ Telling /\ Sinks[turn] = "Rtf"
  /\ LET d == WriteAll(rtf, HumanLines(Told)) IN
     rtf' = IF Told.hook = "runEnd" THEN FinishDocument(d) ELSE d
  /\ turn' = turn + 1
  /\ UNCHANGED <<runVars, queue, hooks, sarif, pipe, page>>

TellEvents ==
  /\ Telling /\ Sinks[turn] = "Events"
  /\ Fits /\ pipe' = pipe \o Line("json", Told)
  /\ turn' = turn + 1
  /\ UNCHANGED <<runVars, queue, hooks, sarif, rtf, page>>

HookDone ==
  /\ stage \in {"run", "ending"} /\ queue # <<>> /\ turn > Len(Sinks)
  /\ queue' = Tail(queue) /\ turn' = 1
  /\ UNCHANGED <<runVars, hooks, sinkVars, page>>

Exit ==
  /\ stage = "ending" /\ queue = <<>>
  /\ \E ok \in BOOLEAN : Destroy(ok)
  /\ UNCHANGED <<opt, journal, thrown, passed, queue, turn, hooks, pipe, page>>

\* Killed, perhaps with half of a line already in the pipe.
Kill ==
  /\ stage \in {"open", "run", "ending"}
  /\ stage' = "dead"
  /\ \/ pipe' = pipe
     \/ /\ Telling /\ Sinks[turn] = "Events" /\ Fits
        /\ pipe' = pipe \o SubSeq(Line("json", Told), 1, 1)
  /\ UNCHANGED <<opt, journal, thrown, passed, queue, turn, hooks, sarif, rtf, page>>

\* The reader thread gets some of what is there.
Read ==
  /\ opt.events /\ pipe # <<>>
  /\ \E n \in 1..Len(pipe) :
       /\ page' = Consume(page, SubSeq(pipe, 1, n))
       /\ pipe' = SubSeq(pipe, n + 1, Len(pipe))
  /\ UNCHANGED <<runVars, queue, turn, hooks, sarif, rtf>>

Over == stage \in {"exited", "dead"} /\ (pipe = <<>> \/ ~opt.events) /\ UNCHANGED vars

Next ==
  \/ OpenLogs \/ RefuseReadings \/ Begin
  \/ \E g \in Groups : BeginGroup(g)
  \/ EndGroup
  \/ \E t \in Tests : BeginTest(t)
  \/ EndTest \/ BeginPhase \/ EndPhase
  \/ \E r \in Postable : Post(r)
  \/ Throw \/ End
  \/ ScriptPrints \/ TellConsole \/ TellSarif \/ SarifThrows \/ TellRtf \/ TellEvents \/ HookDone
  \/ Exit \/ Kill \/ Read \/ Over

Spec == Init /\ [][Next]_vars

----------------------------------------------------------------------------
(* What must hold.                                                         *)

\* The hooks a sink has been told of.
ToldOf(sink) ==
  LET before == \E i \in 1..(turn - 1) : i <= Len(Sinks) /\ Sinks[i] = sink
  IN  SubSeq(hooks, 1, Len(hooks) - Len(queue) + (IF queue # <<>> /\ before THEN 1 ELSE 0))

HumanPart(told) == At(told, {i \in DOMAIN told : Composes(told[i])})

\* The hooks a reader of the stream can make sense of: of a NaN it cannot.
Readable(told) == {i \in DOMAIN told : Parses(told[i])}
Said == At(hooks, Readable(hooks))

\* What the page has is what the run did, in its order and with nothing missing
\* in between but the lines that are no JSON, however the pipe cut it, wherever the
\* run was killed, and with whatever lines a script prints into the same pipe
\* (event_sink.hpp: "a whole number of valid events plus, at worst, one partial line").
PageIsPrefix == IsPrefix(page.events, Said)

\* A page that has the end of the run has all of it that can be read, and the logs it may now
\* offer are on disk, complete, and say of the run what the page says (main.cpp
\* of the console: "the SARIF document only exists once runEnd has been written").
EndMeansEverything ==
  \A i \in DOMAIN page.events :
    page.events[i].hook = "runEnd" =>
      /\ page.events = Said
      /\ opt.logs =>
           /\ rtf.final /\ rtf.lines = HumanPart(hooks)
           /\ \E file \in ToSet(sarif.file) :
                /\ file.allPassed = page.events[i].ok
                /\ Len(file.results) = Cardinality({k \in DOMAIN hooks : IsResult(hooks[k])})
                /\ \A r \in ToSet(file.results) : Cardinality({k \in DOMAIN file.rules : file.rules[k] = r.rule}) = 1

\* The human log on disk is a whole document of every hook the sink was told
\* of, at whatever hook the run is killed (rtf_sink.hpp: "a run killed at any
\* instant leaves a readable log").
HumanLogKeepsUp ==
  opt.logs /\ stage # "starting" /\ (stage = "exited" => rtf.final) =>
    rtf.closed /\ rtf.lines = HumanPart(ToldOf("Rtf"))

\* The verdict of a test in the stream is the one a reader of the machine log
\* derives from the results between the test's boundary and the next
\* (sarif_sink.hpp: "a second, separately-computed copy is the kind of thing
\* that ends up disagreeing"), and those results name the group of the boundary.
VerdictsAgree ==
  opt.logs =>
    \A i \in DOMAIN ToldOf("Events") :
      hooks[i].hook = "testEnd" =>
        LET upTo == Cardinality({k \in 1..i : IsResult(hooks[k])})
            start == CHOOSE k \in 1..upTo :
                       /\ sarif.results[k].hook = "testStart"
                       /\ \A l \in (k + 1)..upTo : sarif.results[l].hook # "testStart"
            inside == {sarif.results[k] : k \in (start + 1)..upTo}
            checks == {r \in inside : r.verb = "Verify"}
        IN  /\ hooks[i].ok = (checks # {} /\ \A r \in checks : r.ok)
            /\ \A r \in inside : r.group = sarif.results[start].group /\ r.test = hooks[i].test

\* The records of a run agree: the console's stream, the human log and the machine
\* log say the same of it, at any hook and at its end.
RecordsAgree == EndMeansEverything /\ HumanLogKeepsUp /\ VerdictsAgree

\* Both machine-read outputs can be read: the document parses and the page
\* misses no event (quantities are written as JSON numbers, and a reading an
\* instrument could not make is a NaN).
MachineLogParses == \A file \in ToSet(sarif.file) : \A r \in ToSet(file.results) : Parses(r)

=============================================================================
