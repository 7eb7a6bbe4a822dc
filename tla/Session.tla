------------------------------ MODULE Session ------------------------------
(***************************************************************************)
(* Where a run's readings come from and where they go: the session bank    *)
(* and the recording (framework/core/include/core/session/session.hpp,     *)
(* framework/core/src/session/), as run_scripts uses them                  *)
(* (framework/runner/src/main.cpp). One run records, live or as a skeleton *)
(* of placeholders, into a file and, for what is too long for a row, into  *)
(* the directory beside it, which earlier recordings to the same path have *)
(* used too. A second run replays the file, with or without injected       *)
(* readings on top; a run may also be given nothing but injected ones.     *)
(*                                                                         *)
(* A run is the sequence of hooks and tests its selection reaches. What    *)
(* one of them reads is any of its Paths, chosen anew each time: a script  *)
(* branches on what it read, and may be edited between the two runs. A     *)
(* reading stands for its row's number, a payload or a trace also for its  *)
(* content; a slot is a point and a kind of answer (a quantity kind,       *)
(* payload, flag or trace).                                                *)
(***************************************************************************)
EXTENDS Ordered, SequencesExt

CONSTANTS
  Tests, Slots,
  Payloads,    \* payloads and traces: their row may end before its value and still parse
  Contents,    \* what a payload may be
  Heavy,       \* those that do not fit a row
  Empty,       \* the payload of no octets; a reading that is no payload has no other
  Torn,        \* what is read back from a sidecar file that was cut short
  Suite,       \* the scopes of one pass, in order: group SETUP, tests, TEARDOWN
  Paths,       \* what a scope may read, as sequences of slots
  Requests,    \* what a run may be asked for: --select ({} is everything), --repeat
  Injections,  \* what a stimulus file may name: one value for a slot, or a list
  RunScope,    \* "<run>": no test
  Nobody

RunHook(role) == [test |-> RunScope, group |-> RunScope, role |-> role]
TeardownOf(group) == [test |-> RunScope, group |-> group, role |-> "teardown"]
Scopes == Range(Suite) \cup {RunHook("setup"), RunHook("teardown")}

ASSUME SessionAssumption ==
  /\ Suite \in Seq(Range(Suite))
  /\ \A s \in Range(Suite) : s.role \in {"setup", "test", "teardown"}
  /\ \A s \in Range(Suite) : s.role = "test" => s.test \in Tests
  /\ \A s \in Range(Suite) : s.role # "test" => s.test = RunScope
  /\ \A s \in Range(Suite) : TeardownOf(s.group) \in Range(Suite)
  /\ RunScope \notin Tests
  /\ Nobody \notin Scopes
  /\ Payloads \subseteq Slots
  /\ Heavy \subseteq Contents /\ Empty \notin Contents /\ Torn \notin Contents
  /\ \A s \in Scopes : Paths[s] \subseteq Seq(Slots)
  /\ \A q \in Requests : q.select \subseteq Tests /\ q.repeat \in Nat \ {0}
  /\ \A i \in Injections : i.one \subseteq Slots /\ i.list \subseteq Slots

VARIABLES
  stage,       \* recording; between the runs; replaying; ended or refused
  options,     \* of the run that runs: skeleton, selection, injected slots
  todo,        \* the scopes still to run
  now,         \* the scope that runs, or Nobody
  reading,     \* the slots it has still to read
  mTest,       \* the journal's open test, RunScope for none
  taken,       \* every row made, in order; its number is its place
  file,        \* the recording as it was left
  sidecar,     \* the file named after each heavy content: absent, short or whole
  mScripted,   \* the answers programmed for each slot
  served,      \* ghost: the answers the replay gave out
  threw        \* ghost: a test of the recorded run ended by an exception

runVars == <<todo, now, reading, mTest>>
fileVars == <<taken, file, sidecar>>
vars == <<stage, options, runVars, fileVars, mScripted, served, threw>>

Wanted(sel) == IF sel = {} THEN Tests ELSE sel
Reached(sel) == {s.group : s \in {r \in Range(Suite) : r.test \in Wanted(sel)}}
Included(s, sel) ==
  IF s.role = "test" THEN s.test \in Wanted(sel)
                     ELSE s.group \in Reached(sel) \cup {RunScope}

Itinerary(sel, passes) ==
  LET pass == InOrder({i \in DOMAIN Suite : Included(Suite[i], sel)})
  IN  <<RunHook("setup")>>
      \o [i \in 1..(passes * Len(pass)) |-> Suite[pass[1 + ((i - 1) % Len(pass))]]]
      \o <<RunHook("teardown")>>

\* A row whose value could not be written is not whole: it has no value and no
\* end of line, and the script that asked was given an exception.
Row == [by : Scopes, test : Tests \cup {RunScope}, slot : Slots,
        content : Contents \cup {Empty}, whole : BOOLEAN]
\* A row of the file: hollow if the file ends before its value.
Line == [row : Nat, hollow : BOOLEAN]
Answer == [row : Nat, hollow : BOOLEAN, content : Contents \cup {Empty, Torn}]
Injected == [row |-> 0, hollow |-> FALSE, content |-> Empty]
NoInjection == [one |-> {}, list |-> {}]

TypeOK ==
  /\ stage \in {"recording", "between", "replaying", "refused", "ended"}
  /\ options.selection \subseteq Tests /\ options.skeleton \in BOOLEAN
  /\ options.injected \in Injections \cup {NoInjection}
  /\ todo \in Seq(Scopes)
  /\ now \in Scopes \cup {Nobody}
  /\ reading \in Seq(Slots)
  /\ now = Nobody => reading = <<>>
  /\ mTest \in Tests \cup {RunScope}
  /\ taken \in Seq(Row)
  /\ options.replay \in BOOLEAN
  /\ sidecar \in [Heavy -> {"absent", "short", "whole"}]
  /\ file.rows \in Seq(Line) /\ file.malformed \in BOOLEAN /\ file.closed \in BOOLEAN
  /\ DOMAIN mScripted \subseteq Slots
  /\ \A sl \in DOMAIN mScripted :
       mScripted[sl].queue \in Seq(Answer) /\ mScripted[sl].constant \in BOOLEAN
  /\ served \in Seq([by : Scopes, slot : Slots, answer : Answer])
  /\ threw \in BOOLEAN

NoFile == [rows |-> <<>>, malformed |-> FALSE, closed |-> FALSE]

NoBlobs == [c \in Heavy |-> "absent"]

\* A stimulus file programs slots, whatever they were programmed with before:
\* one value answers for ever, a list once for each of its values.
Stimulus(inj) ==
  [sl \in inj.one \cup inj.list |->
     [queue |-> IF sl \in inj.one THEN <<Injected>> ELSE <<Injected, Injected>>,
      constant |-> sl \in inj.one]]

\* --record or --skeleton: the file is emptied, the directory is not. What is in
\* it makes no difference to a skeleton, whose payloads are empty.
StartRecording(q) ==
  /\ stage = "recording"
  /\ \E skeleton \in BOOLEAN :
       options = [selection |-> q.select, skeleton |-> skeleton, replay |-> FALSE,
                  injected |-> NoInjection]
  /\ mScripted = <<>>
  /\ sidecar \in [Heavy -> {"absent", "short", "whole"}]
  /\ options.skeleton => sidecar = NoBlobs

\* --inject alone: no bench is attached, so a slot that the file does not name
\* has no answer, whether the bank is scripted or, if it names none, live.
StartInjected(q) ==
  /\ stage = "replaying"
  /\ \E inj \in Injections :
       /\ options = [selection |-> q.select, skeleton |-> FALSE, replay |-> FALSE,
                     injected |-> inj]
       /\ mScripted = Stimulus(inj)
  /\ sidecar = NoBlobs

Init ==
  /\ \E q \in Requests :
       /\ StartRecording(q) \/ StartInjected(q)
       /\ todo = Itinerary(q.select, q.repeat)
  /\ now = Nobody /\ reading = <<>> /\ mTest = RunScope
  /\ taken = <<>> /\ file = NoFile
  /\ served = <<>>
  /\ threw = FALSE

Running == stage \in {"recording", "replaying"}
-----------------------------------------------------------------------------
(* The run: hooks and tests in order, and the ways out of one of them. *)

Enter ==
  /\ Running /\ now = Nobody /\ todo # <<>>
  /\ now' = Head(todo) /\ todo' = Tail(todo)
  /\ reading' \in Paths[Head(todo)]
  /\ mTest' = IF Head(todo).role = "test" THEN Head(todo).test ELSE mTest
  /\ UNCHANGED <<stage, options, fileVars, mScripted, served, threw>>

Out(rest, test) ==
  /\ now' = Nobody /\ reading' = <<>> /\ todo' = rest /\ mTest' = test
  /\ UNCHANGED <<stage, options, fileVars, mScripted, served>>

\* A hook returns inside no test, or inside the one that threw.
Leave ==
  /\ Running /\ now # Nobody /\ reading = <<>>
  /\ Out(todo, IF now.role = "test" THEN RunScope ELSE mTest)
  /\ UNCHANGED threw

TeardownsAfter(s) ==
  (IF s.group = RunScope THEN <<>> ELSE <<TeardownOf(s.group)>>)
  \o <<RunHook("teardown")>>

\* A setup that reports failure skips its tests; a skeleton run goes on.
SkipTests(s) ==
  IF s.group = RunScope
  THEN TeardownsAfter(s)
  ELSE LET ends == {i \in DOMAIN todo : todo[i].role = "teardown"}
       IN  SubSeq(todo, CHOOSE i \in ends : \A j \in ends : i <= j, Len(todo))

SetupFails ==
  /\ Running /\ now # Nobody
  /\ now.role = "setup"
  /\ Out(IF options.skeleton THEN todo ELSE SkipTests(now), mTest)
  /\ UNCHANGED threw

\* An exception leaves the journal's test open and unwinds through the
\* teardown hooks; one out of a teardown hook goes no further.
Unwind ==
  /\ Out(IF now.role = "teardown" THEN todo ELSE TeardownsAfter(now), mTest)
  /\ threw' = (threw \/ (stage = "recording" /\ now.role = "test"))

ScopeThrows ==
  /\ Running /\ now # Nobody
  /\ Unwind

\* A stop inside a test closes it; one between tests or groups is a return.
StopInTest ==
  /\ Running /\ now # Nobody
  /\ now.role = "test"
  /\ Out(TeardownsAfter(now), RunScope)
  /\ UNCHANGED threw

StopBetween ==
  /\ Running /\ now = Nobody /\ todo # <<>>
  /\ Head(todo).role # "teardown" /\ Head(todo) # RunHook("setup")
  /\ Out(IF Head(todo).role = "test" THEN TeardownsAfter(Head(todo))
                                     ELSE <<RunHook("teardown")>>, mTest)
  /\ UNCHANGED threw
-----------------------------------------------------------------------------
(* Recording: each reading is a row, written to a stream that keeps a      *)
(* buffer of its own, whose length the rows do not know.                   *)

Stamp == mTest

LiveReadings(sl) == IF sl \in Payloads THEN Contents ELSE {Empty}
Readings(sl) == IF options.skeleton THEN {Empty} ELSE LiveReadings(sl)

ReadBlob(c) == IF sidecar[c] = "whole" THEN c ELSE Torn

\* The file of a heavy payload is named after its octets. One that is there
\* must hold them, or the payload is refused; one that is not is written, and
\* left short if the disk refuses part of it.
WrittenBlob == {[blob |-> "whole", whole |-> TRUE], [blob |-> "short", whole |-> FALSE],
                [blob |-> "absent", whole |-> FALSE]}

\* Mutant: a name that is taken is referred to without reading the file.
SpillTrusts(c) ==
  IF sidecar[c] = "absent" THEN WrittenBlob ELSE {[blob |-> sidecar[c], whole |-> TRUE]}
Spill(c) ==
  IF sidecar[c] = "absent" THEN WrittenBlob
                           ELSE {[blob |-> sidecar[c], whole |-> ReadBlob(c) = c]}

RowOf(c, whole) ==
  [by |-> now, test |-> Stamp, slot |-> Head(reading), content |-> c, whole |-> whole]

Take ==
  /\ stage = "recording" /\ reading # <<>>
  /\ \E c \in Readings(Head(reading)) :
       /\ \/ c \notin Heavy /\ UNCHANGED sidecar
          \/ c \in Heavy /\ \E w \in Spill(c) : w.whole /\ sidecar' = [sidecar EXCEPT ![c] = w.blob]
       /\ taken' = Append(taken, RowOf(c, TRUE))
  /\ reading' = Tail(reading)
  /\ UNCHANGED <<stage, options, todo, now, mTest, file, mScripted, served, threw>>

\* The head of the row is in the stream when the payload is refused.
TakeThrows ==
  /\ stage = "recording" /\ reading # <<>>
  /\ \E c \in Readings(Head(reading)) \cap Heavy : \E w \in Spill(c) :
       /\ ~w.whole
       /\ sidecar' = [sidecar EXCEPT ![c] = w.blob]
       /\ taken' = Append(taken, RowOf(c, FALSE))
  /\ now' = Nobody /\ reading' = <<>> /\ UNCHANGED mTest
  /\ todo' = IF now.role = "teardown" THEN todo ELSE TeardownsAfter(now)
  /\ threw' = (threw \/ now.role = "test")
  /\ UNCHANGED <<stage, options, file, mScripted, served>>

AllWhole(n) == \A i \in 1..n : taken[i].whole
Rows(n) == [i \in 1..n |-> [row |-> i, hollow |-> ~taken[i].whole]]
Cut(rows, bad, closed) == [rows |-> IF bad THEN <<>> ELSE rows, malformed |-> bad, closed |-> closed]

\* A row that has no end runs on into the next one, which cannot be parsed.
FileOf(n, closed) == Cut(Rows(n), ~AllWhole(n - 1), closed)

CloseStream ==
  /\ stage = "recording" /\ now = Nobody /\ todo = <<>>
  /\ file' = FileOf(Len(taken), TRUE)
  /\ stage' = "between"
  /\ UNCHANGED <<options, runVars, taken, sidecar, mScripted, served, threw>>

\* The process is killed, or the last flush fails: what the file has is the
\* rows up to the last time the buffer ran over, and the head of the next one
\* if it ran over inside it. A head that lacks a column other than the value
\* fails the whole file.
LoseBuffer ==
  /\ stage = "recording"
  /\ \E n \in 0..Len(taken) :
       \/ file' = FileOf(n, FALSE)
       \/ n < Len(taken) /\ file' = Cut(<<>>, TRUE, FALSE)
       \/ /\ n < Len(taken) /\ taken[n + 1].slot \in Payloads /\ AllWhole(n)
          /\ file' = Cut(Append(Rows(n), [row |-> n + 1, hollow |-> TRUE]), FALSE, FALSE)
  /\ stage' = "between"
  /\ UNCHANGED <<options, runVars, taken, sidecar, mScripted, served, threw>>
-----------------------------------------------------------------------------
(* Replaying: the whole file is read and sorted into slots before the run. *)

TestOf(a) == taken[a.row].test
SlotOf(a) == taken[a.row].slot

\* Mutants: the selection ignored; the hooks' rows filtered out with the rest.
KeepsAll(a, sel) == TRUE
KeepsTestsOnly(a, sel) == TestOf(a) \in Wanted(sel)
Keeps(a, sel) == TestOf(a) = RunScope \/ TestOf(a) \in Wanted(sel)
Kept(sel) == {i \in DOMAIN file.rows : Keeps(file.rows[i], sel)}
HasSelected(sel) ==
  sel = {} \/ \E i \in DOMAIN file.rows : TestOf(file.rows[i]) \in sel

\* A row's value: its own, or what the file that it refers to holds.
Refers(a) == ~a.hollow /\ taken[a.row].content \in Heavy
ValueOf(a) ==
  CASE a.hollow -> Empty
    [] Refers(a) -> ReadBlob(taken[a.row].content)
    [] OTHER -> taken[a.row].content
AnswerOf(a) == [row |-> a.row, hollow |-> a.hollow, content |-> ValueOf(a)]
KeptAt(sl, sel) == {i \in Kept(sel) : SlotOf(file.rows[i]) = sl}
AnswersAt(sl, sel) ==
  LET places == InOrder(KeptAt(sl, sel))
  IN  [i \in DOMAIN places |-> AnswerOf(file.rows[places[i]])]

\* Mutant: the rows of a slot queued from the last one.
LoadedLastFirst(sel) ==
  [sl \in {SlotOf(file.rows[i]) : i \in Kept(sel)} |->
     [queue |-> Reverse(AnswersAt(sl, sel)), constant |-> FALSE]]
Loaded(sel) ==
  [sl \in {SlotOf(file.rows[i]) : i \in Kept(sel)} |->
     [queue |-> AnswersAt(sl, sel), constant |-> FALSE]]

\* A slot that is programmed again is replaced.
Programmed(sel, inj) ==
  [sl \in DOMAIN Loaded(sel) \cup DOMAIN Stimulus(inj) |->
     IF sl \in DOMAIN Stimulus(inj) THEN Stimulus(inj)[sl] ELSE Loaded(sel)[sl]]

ArmReplay ==
  /\ stage = "between" /\ ~file.malformed
  /\ \E q \in Requests, inj \in Injections :
       /\ HasSelected(q.select)
       /\ options' = [selection |-> q.select, skeleton |-> FALSE, replay |-> TRUE,
                      injected |-> inj]
       /\ mScripted' = Programmed(q.select, inj)
       /\ todo' = Itinerary(q.select, q.repeat)
  /\ stage' = "replaying"
  /\ now' = Nobody /\ reading' = <<>> /\ mTest' = RunScope
  /\ UNCHANGED <<fileVars, served, threw>>

\* A recording may have been moved without its directory.
RefuseReplay ==
  /\ stage = "between"
  /\ \/ file.malformed
     \/ \E i \in DOMAIN file.rows : Refers(file.rows[i])
     \/ \E q \in Requests : ~HasSelected(q.select)
  /\ stage' = "refused"
  /\ UNCHANGED <<options, runVars, fileVars, mScripted, served, threw>>

HasAnswer(sl) == sl \in DOMAIN mScripted /\ mScripted[sl].queue # <<>>
Spent(slot) == IF slot.constant THEN slot ELSE [slot EXCEPT !.queue = Tail(@)]

Fetch ==
  /\ stage = "replaying" /\ reading # <<>>
  /\ LET sl == Head(reading) IN
       /\ HasAnswer(sl)
       /\ served' = Append(served, [by |-> now, slot |-> sl, answer |-> Head(mScripted[sl].queue)])
       /\ mScripted' = [mScripted EXCEPT ![sl] = Spent(@)]
  /\ reading' = Tail(reading)
  /\ UNCHANGED <<stage, options, todo, now, mTest, fileVars, threw>>

\* Nothing programmed, nothing left, or programmed as another kind.
Starve ==
  /\ stage = "replaying" /\ reading # <<>>
  /\ ~HasAnswer(Head(reading))
  /\ Unwind

EndReplay ==
  /\ stage = "replaying" /\ now = Nobody /\ todo = <<>>
  /\ stage' = "ended"
  /\ UNCHANGED <<options, runVars, fileVars, mScripted, served, threw>>

Over ==
  /\ stage \in {"refused", "ended"}
  /\ UNCHANGED vars

Next ==
  \/ Enter \/ Leave \/ SetupFails \/ ScopeThrows \/ StopInTest \/ StopBetween
  \/ Take \/ TakeThrows \/ CloseStream \/ LoseBuffer
  \/ ArmReplay \/ RefuseReplay \/ Fetch \/ Starve \/ EndReplay
  \/ Over

Spec == Init /\ [][Next]_vars
-----------------------------------------------------------------------------
(* What a replay promises. *)

ServedAt(sl) == {i \in DOMAIN served : served[i].slot = sl}
FromFile(sl) == options.replay /\ sl \notin options.injected.one \cup options.injected.list

\* The row was taken at the slot, inside a selected test or in no test.
AskedFor(n, sl) == taken[n].slot = sl /\ taken[n].test \in Wanted(options.selection) \cup {RunScope}

\* A slot that the stimulus file does not name hands out rows taken at that
\* slot, inside a selected test or in no test: each at most once, in the
\* order they were taken, none skipped (loadFromFile, ScriptedSession::fetch).
\* A row that lost its value is handed out only if the recording was cut off,
\* or its payload could not be written and nothing was read after it.
ReplaysInOrder ==
  stage \in {"replaying", "ended"} =>
    \A i \in DOMAIN served :
      LET sl == served[i].slot
          n == served[i].answer.row IN
        /\ ~FromFile(sl) => served[i].answer = Injected
        /\ FromFile(sl) =>
             /\ n \in 1..Len(taken) /\ AskedFor(n, sl)
             /\ served[i].answer.hollow => ~file.closed \/ ~taken[n].whole
             /\ \A m \in 1..n : AskedFor(m, sl) => \E j \in ServedAt(sl) : j <= i /\ served[j].answer.row = m
             /\ \A j \in ServedAt(sl) : j < i => served[j].answer.row < n

\* The rows the replayed part of the suite made at a slot, and whether the
\* scopes that asked for it so far are those, in that order.
Replayed(sl) == {n \in DOMAIN taken : taken[n].slot = sl /\ Included(taken[n].by, options.selection)}
MadeBy(sl, place, scope) == \E n \in Replayed(sl) : Rank(Replayed(sl), n) = place /\ taken[n].by = scope
Aligned(sl) == \A i \in ServedAt(sl) : MadeBy(sl, Rank(ServedAt(sl), i), served[i].by)
\* A hook of a group that the selection does not reach read the slot too.
LentToOthers(sl) == \E n \in DOMAIN taken : taken[n].slot = sl /\ ~Included(taken[n].by, options.selection)
                                               /\ taken[n].by.role # "test"

\* As long as a replay asks for a slot in the order the recorded run did, and
\* no hook outside the selection read that slot, every test and every hook
\* is given the reading that it took itself, whatever else runs, was dropped
\* or was read in between (session.hpp, loadFromFile's comment).
OwnReadings ==
  stage \in {"replaying", "ended"} =>
    \A sl \in Slots :
      Aligned(sl) /\ FromFile(sl) /\ ~LentToOthers(sl) =>
        \A i \in ServedAt(sl) : taken[served[i].answer.row].by = served[i].by

\* Such a replay of a closed recording in which no test threw never runs out,
\* and neither does a slot injected with one value.
NoFalseStarvation ==
  stage = "replaying" /\ reading # <<>> =>
    LET sl == Head(reading) IN
      \/ HasAnswer(sl)
      \/ sl \in options.injected.list
      \/ /\ sl \notin options.injected.one
         /\ ~(options.replay /\ file.closed /\ ~threw
                /\ Aligned(sl) /\ MadeBy(sl, Cardinality(ServedAt(sl)) + 1, now))

\* A payload that a replay hands out with its value is the one the recorded
\* script was given, whatever an earlier run to the same path was killed at
\* and left in the directory (RecordingWriter::spill, readRecording).
PayloadsAsGiven ==
  \A r \in Range(served) :
    r.answer.row > 0 /\ ~r.answer.hollow =>
      taken[r.answer.row].whole /\ r.answer.content = taken[r.answer.row].content

\* recording.hpp:239 says that a payload that finds its name taken by other
\* octets "is therefore a loud error, not a corrupt recording": a recording
\* that was closed can be read, and has no row that lost its value.
LoudNotCorrupt ==
  file.closed => ~file.malformed /\ \A i \in DOMAIN file.rows : ~file.rows[i].hollow
=============================================================================
