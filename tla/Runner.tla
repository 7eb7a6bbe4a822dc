------------------------------- MODULE Runner -------------------------------
(***************************************************************************)
(* One run of the runner (framework/runner/src/main.cpp), from the moment  *)
(* the stop handlers are installed and the journal begun to the exit       *)
(* status: the run and group hooks, the passes over the selection, the     *)
(* scripts, the teardown guards and the safing guard that unwind them, and *)
(* the journal state (core/src/journal/journal.cpp) that turns checks into *)
(* verdicts. The main thread is a program counter; the stop sources of     *)
(* StopRequest run beside it.                                              *)
(*                                                                         *)
(* What a hook or a script does is open: any mix of checks, of energising  *)
(* and de-energising the rig, and any way of leaving it.                   *)
(***************************************************************************)
EXTENDS Naturals, Sequences, StopRequest

CONSTANTS
  TestNames,     \* the names a test can have, or be asked for by
  NoTest,        \* the empty test name
  Catalog,       \* the catalog: a sequence of groups, each a sequence of names
  Hooks,         \* which hooks are declared: pairs <<group, phase>>, group 0
                 \* standing for the run's own pair
  OptionSets,    \* the command lines considered
  ForeignThrows  \* whether a script or setup may throw outside std::exception

Groups == DOMAIN Catalog
TestIds == UNION {{Catalog[g][t] : t \in DOMAIN Catalog[g]} : g \in Groups}

\* The parsed options a run turns on. "repeat" is 0 when --repeat is absent
\* (0 itself is rejected by the parser), and an empty selection is everything.
\* "reading" is where readings come from: --record, --replay or --inject,
\* --skeleton, or the instruments alone.
OptionRecords ==
  [select : SUBSET TestNames, repeat : Nat, untilFailure : BOOLEAN,
   reading : {"live", "record", "replay", "skeleton"}, stopOnStdin : BOOLEAN]

ASSUME NoTestAssumption == NoTest \notin TestNames
ASSUME CatalogAssumption == Catalog \in Seq(Seq(TestNames))
\* TEST declares a member of its group's struct, named after the test's id: a
\* second one of the same id in a group is not compiled. Other groups may have it.
ASSUME IdsAssumption ==
  \A g \in Groups : \A t, u \in DOMAIN Catalog[g] : Catalog[g][t] = Catalog[g][u] => t = u
ASSUME HooksAssumption == Hooks \subseteq ({0} \cup Groups) \X {"setup", "teardown"}
ASSUME OptionsAssumption == OptionSets \subseteq OptionRecords
ASSUME ForeignAssumption == ForeignThrows \in BOOLEAN

VARIABLES
  opt,        \* the options of this run
  pc,         \* where the main thread is
  left,       \* passes still to make, the current one included
  grp,        \* index of the group the pass is at
  tst,        \* index of the test the group is at
  runOk,      \* allPassed of runTests, then of main
  passOk,     \* allPassed of runOnePass
  thrown,     \* whether an exception is unwinding the main thread
  armed,      \* gStopArmed is above zero
  owed,       \* the TeardownGuards alive: "run", "group"
  jrnl,       \* the journal's open group, test and phase, and the test's tally
  energised,  \* whether anything on the rig is energised
  verdicts,   \* history: the verdict of each test closed, by pass
  faults,     \* history: "hook" once a hook failed, "throw" once one escaped
  exit        \* how the process ended

runVars == <<opt, pc, left, grp, tst, runOk, passOk, thrown, armed, owed, jrnl,
             energised, verdicts, faults, exit>>
vars == <<runVars, stopVars>>

----------------------------------------------------------------------------
Endless == opt.repeat = 0 /\ opt.untilFailure
Passes == IF opt.repeat # 0 THEN opt.repeat ELSE 1   \* unless Endless
Skeleton == opt.reading = "skeleton"
Attached == opt.reading \in {"live", "record"}
Streaming == opt.reading \in {"record", "skeleton"}

IsSelected(id) == opt.select = {} \/ id \in opt.select
Chosen(g) == {t \in DOMAIN Catalog[g] : IsSelected(Catalog[g][t])}
AnySelected(g) == Chosen(g) # {}
Unmatched == opt.select \ TestIds

\* The places a hook runs: its bracket and its phase.
HookOf ==
  [runSetup |-> <<0, "setup">>, runTeardown |-> <<0, "teardown">>,
   groupSetup |-> <<grp, "setup">>, groupTeardown |-> <<grp, "teardown">>]
HookPlaces == DOMAIN HookOf
Declared(place) == HookOf[place] \in Hooks

Closed == [group |-> 0, test |-> NoTest, phase |-> "none", open |-> FALSE, tally |-> "empty"]

Ended == {"done", "killed", "terminated"}

Places ==
  {"start", "passLoop", "groupLoop", "testLoop", "script", "groupEnd", "passEnd",
   "passesDone", "safing", "closing", "runSetup", "groupSetup", "groupTeardown",
   "runTeardown"} \cup Ended

Journals ==
  [group : Nat, test : TestNames \cup {NoTest}, phase : {"none", "setup", "teardown"},
   open : BOOLEAN, tally : {"empty", "clean", "dirty"}]
Records ==
  [left : Nat, group : Groups, test : TestNames, verdict : {"pass", "fail", "cut"}]

TypeOK ==
  /\ StopTypeOK
  /\ opt \in OptionSets
  /\ pc \in Places
  /\ left \in Nat
  /\ grp \in Nat
  /\ tst \in Nat
  /\ runOk \in BOOLEAN
  /\ passOk \in BOOLEAN
  /\ thrown \in BOOLEAN
  /\ armed \in BOOLEAN
  /\ owed \subseteq {"run", "group"}
  /\ jrnl \in Journals
  /\ energised \in BOOLEAN
  /\ verdicts \subseteq Records
  /\ faults \subseteq {"hook", "throw"}
  /\ exit \in {"none", "zero", "nonzero"}

\* The journal has begun; nobody knows what an earlier run left energised.
Init ==
  /\ opt \in OptionSets
  /\ StopInit(opt.stopOnStdin)
  /\ pc = "start"
  /\ left = 0
  /\ grp = 0
  /\ tst = 0
  /\ runOk = FALSE
  /\ passOk = FALSE
  /\ thrown = FALSE
  /\ armed = FALSE
  /\ owed = {}
  /\ jrnl = Closed
  /\ energised \in BOOLEAN
  /\ verdicts = {}
  /\ faults = {}
  /\ exit = "none"

----------------------------------------------------------------------------
(* Hooks and scripts: what any of them may do while it runs.               *)

\* PhaseScope's constructor: the bracket opens only around a declared hook.
EnterHook(place) ==
  /\ pc = place
  /\ Declared(place)
  /\ jrnl.phase = "none"
  /\ jrnl' = [jrnl EXCEPT !.phase = HookOf[place][2]]
  /\ UNCHANGED <<opt, pc, left, grp, tst, runOk, passOk, thrown, armed, owed,
                 energised, verdicts, faults, exit, stopVars>>

InHook(place) == pc = place /\ jrnl.phase # "none"
InBody == pc = "script" \/ \E place \in HookPlaces : InHook(place)

\* Journal::post of an event that carries a verdict: it counts for the test
\* that is open, whoever posts it.
Tallied(j, ok) ==
  IF j.open THEN [j EXCEPT !.tally = IF ok /\ @ # "dirty" THEN "clean" ELSE "dirty"]
            ELSE j

PostCheck(ok) ==
  /\ InBody
  /\ jrnl' = Tallied(jrnl, ok)
  /\ UNCHANGED <<opt, pc, left, grp, tst, runOk, passOk, thrown, armed, owed,
                 energised, verdicts, faults, exit, stopVars>>

\* Apply, Remove and the rest: they reach a driver only on an attached bench.
DriveRig(on) ==
  /\ InBody
  /\ Attached
  /\ energised' = on
  /\ UNCHANGED <<opt, pc, left, grp, tst, runOk, passOk, thrown, armed, owed,
                 jrnl, verdicts, faults, exit, stopVars>>

\* A hook comes to its end with this result; an absent hook succeeds.
HookGives(place, ok) ==
  /\ pc = place
  /\ IF Declared(place) THEN jrnl.phase # "none" ELSE ok
  /\ faults' = IF ok THEN faults ELSE faults \cup {"hook"}

\* ~PhaseScope.
PhaseEnded == [jrnl EXCEPT !.phase = "none"]

\* A setup hook throws: its phase closes and unwinding reaches the teardown
\* guard that was constructed before it.
SetupThrows(place, teardown) ==
  /\ InHook(place)
  /\ jrnl' = PhaseEnded
  /\ thrown' = TRUE
  /\ faults' = faults \cup {"throw"}
  /\ pc' = teardown
  /\ UNCHANGED <<opt, left, grp, tst, runOk, passOk, armed, owed, energised,
                 verdicts, exit, stopVars>>

----------------------------------------------------------------------------
(* runTests                                                                *)

\* A selection naming a test the catalog lacks: nothing runs.
RefuseSelection ==
  /\ pc = "start"
  /\ Unmatched # {}
  /\ runOk' = FALSE
  /\ pc' = "safing"
  /\ UNCHANGED <<opt, left, grp, tst, passOk, thrown, armed, owed, jrnl,
                 energised, verdicts, faults, exit, stopVars>>

OpenRun ==
  /\ pc = "start"
  /\ Unmatched = {}
  /\ runOk' = TRUE
  /\ owed' = {"run"}
  /\ pc' = "runSetup"
  /\ UNCHANGED <<opt, left, grp, tst, passOk, thrown, armed, jrnl, energised,
                 verdicts, faults, exit, stopVars>>

\* A failing RUN_SETUP stops everything, except under --skeleton.
RunSetupReturns(ok) ==
  /\ HookGives("runSetup", ok)
  /\ jrnl' = PhaseEnded
  /\ runOk' = (runOk /\ ok)
  /\ IF ok \/ Skeleton
       THEN pc' = "passLoop" /\ left' = Passes
       ELSE pc' = "runTeardown" /\ UNCHANGED left
  /\ UNCHANGED <<opt, grp, tst, passOk, thrown, armed, owed, energised,
                 verdicts, exit, stopVars>>

(* runPasses                                                               *)

\* Mutant: one pass too many.
PassRemainsOnceMore == TRUE

PassRemains == left > 0

FailureEndsPasses == ~passOk /\ opt.untilFailure

\* An endless run has 2^64 passes to go, so its count never runs out.
Counted == IF Endless THEN left ELSE left - 1

NoPassLeft ==
  /\ pc = "passLoop"
  /\ left = 0
  /\ pc' = "passesDone"
  /\ UNCHANGED <<opt, left, grp, tst, runOk, passOk, thrown, armed, owed, jrnl,
                 energised, verdicts, faults, exit, stopVars>>

StopBeforePass ==
  /\ pc = "passLoop"
  /\ PassRemains
  /\ StopNow
  /\ pc' = "passesDone"
  /\ UNCHANGED <<opt, left, grp, tst, runOk, passOk, thrown, armed, owed, jrnl,
                 energised, verdicts, faults, exit>>

BeginPass ==
  /\ pc = "passLoop"
  /\ PassRemains
  /\ NoStopYet
  /\ passOk' = TRUE
  /\ grp' = 1
  /\ pc' = "groupLoop"
  /\ UNCHANGED <<opt, left, tst, runOk, thrown, armed, owed, jrnl, energised,
                 verdicts, faults, exit>>

\* The pass is folded into the run; --until-failure ends it at a failed one.
EndPass ==
  /\ pc = "passEnd"
  /\ runOk' = (runOk /\ passOk)
  /\ IF FailureEndsPasses
       THEN pc' = "passesDone" /\ UNCHANGED left
       ELSE /\ pc' = "passLoop"
            /\ left' = Counted
  /\ UNCHANGED <<opt, grp, tst, passOk, thrown, armed, owed, jrnl, energised,
                 verdicts, faults, exit, stopVars>>

\* A stopped run is never a pass.
ReportStop ==
  /\ pc = "passesDone"
  /\ runOk' = (runOk /\ ~honoured)
  /\ pc' = "runTeardown"
  /\ UNCHANGED <<opt, left, grp, tst, passOk, thrown, armed, owed, jrnl,
                 energised, verdicts, faults, exit, stopVars>>

(* runOnePass                                                              *)

NoGroupLeft ==
  /\ pc = "groupLoop"
  /\ grp > Len(Catalog)
  /\ pc' = "passEnd"
  /\ UNCHANGED <<opt, left, grp, tst, runOk, passOk, thrown, armed, owed, jrnl,
                 energised, verdicts, faults, exit, stopVars>>

SkipGroup ==
  /\ pc = "groupLoop"
  /\ grp <= Len(Catalog)
  /\ ~AnySelected(grp)
  /\ grp' = grp + 1
  /\ UNCHANGED <<opt, pc, left, tst, runOk, passOk, thrown, armed, owed, jrnl,
                 energised, verdicts, faults, exit, stopVars>>

StopBeforeGroup ==
  /\ pc = "groupLoop"
  /\ grp <= Len(Catalog)
  /\ AnySelected(grp)
  /\ StopNow
  /\ pc' = "passEnd"
  /\ UNCHANGED <<opt, left, grp, tst, runOk, passOk, thrown, armed, owed, jrnl,
                 energised, verdicts, faults, exit>>

\* beginGroup, then the group's guard, before its setup runs.
OpenGroup ==
  /\ pc = "groupLoop"
  /\ grp <= Len(Catalog)
  /\ AnySelected(grp)
  /\ NoStopYet
  /\ jrnl' = [jrnl EXCEPT !.group = grp]
  /\ owed' = owed \cup {"group"}
  /\ pc' = "groupSetup"
  /\ UNCHANGED <<opt, left, grp, tst, runOk, passOk, thrown, armed, energised,
                 verdicts, faults, exit>>

\* A failing SETUP skips this group's tests and no other's.
GroupSetupReturns(ok) ==
  /\ HookGives("groupSetup", ok)
  /\ jrnl' = PhaseEnded
  /\ passOk' = (passOk /\ ok)
  /\ IF ok \/ Skeleton
       THEN pc' = "testLoop" /\ tst' = 1
       ELSE pc' = "groupTeardown" /\ UNCHANGED tst
  /\ UNCHANGED <<opt, left, grp, runOk, thrown, armed, owed, energised,
                 verdicts, exit, stopVars>>

GroupEnded == [jrnl EXCEPT !.group = 0]

EndGroup ==
  /\ pc = "groupEnd"
  /\ jrnl' = GroupEnded
  /\ grp' = grp + 1
  /\ pc' = "groupLoop"
  /\ UNCHANGED <<opt, left, tst, runOk, passOk, thrown, armed, owed, energised,
                 verdicts, faults, exit, stopVars>>

(* runSelectedTests                                                        *)

NoTestLeft ==
  /\ pc = "testLoop"
  /\ tst > Len(Catalog[grp])
  /\ pc' = "groupTeardown"
  /\ UNCHANGED <<opt, left, grp, tst, runOk, passOk, thrown, armed, owed, jrnl,
                 energised, verdicts, faults, exit, stopVars>>

SkipTest ==
  /\ pc = "testLoop"
  /\ tst <= Len(Catalog[grp])
  /\ ~IsSelected(Catalog[grp][tst])
  /\ tst' = tst + 1
  /\ UNCHANGED <<opt, pc, left, grp, runOk, passOk, thrown, armed, owed, jrnl,
                 energised, verdicts, faults, exit, stopVars>>

StopBeforeTest ==
  /\ pc = "testLoop"
  /\ tst <= Len(Catalog[grp])
  /\ IsSelected(Catalog[grp][tst])
  /\ StopNow
  /\ pc' = "groupTeardown"
  /\ UNCHANGED <<opt, left, grp, tst, runOk, passOk, thrown, armed, owed, jrnl,
                 energised, verdicts, faults, exit>>

\* beginTest, then StopArmed, then the script.
BeginTest ==
  /\ pc = "testLoop"
  /\ tst <= Len(Catalog[grp])
  /\ IsSelected(Catalog[grp][tst])
  /\ NoStopYet
  /\ jrnl' = [jrnl EXCEPT !.test = Catalog[grp][tst], !.open = TRUE, !.tally = "empty"]
  /\ armed' = TRUE
  /\ pc' = "script"
  /\ UNCHANGED <<opt, left, grp, tst, runOk, passOk, thrown, owed, energised,
                 verdicts, faults, exit>>

\* What the record says of the open test: its pass, and the stamp of the journal.
Recorded(verdict) ==
  [left |-> left, group |-> jrnl.group, test |-> jrnl.test, verdict |-> verdict]

\* Journal::endTest: a test that checked nothing gets a failing check first.
Verdict(j) == IF j.tally = "clean" THEN "pass" ELSE "fail"
TestEnded == [jrnl EXCEPT !.test = NoTest, !.open = FALSE]

ScriptReturns ==
  /\ pc = "script"
  /\ armed' = FALSE
  /\ verdicts' = verdicts \cup {Recorded(Verdict(jrnl))}
  /\ passOk' = (passOk /\ Verdict(jrnl) = "pass")
  /\ jrnl' = TestEnded
  /\ tst' = tst + 1
  /\ pc' = "testLoop"
  /\ UNCHANGED <<opt, left, grp, runOk, thrown, owed, energised, faults, exit,
                 stopVars>>

\* A Delay in a script sees the stop and throws StopRequested, which is
\* caught at the call: the stop is noted, the test fails by core::Fail and is
\* closed, and no further test of the group begins.
DelayAbandons ==
  /\ pc = "script"
  /\ Attached
  /\ armed
  /\ StopNow
  /\ armed' = FALSE
  /\ verdicts' = verdicts \cup {Recorded("cut")}
  /\ passOk' = (passOk /\ Verdict(Tallied(jrnl, FALSE)) = "pass")
  /\ jrnl' = TestEnded
  /\ pc' = "groupTeardown"
  /\ UNCHANGED <<opt, left, grp, tst, runOk, thrown, owed, energised, faults, exit>>

\* Any other exception unwinds past endTest to the group's guard: the test
\* stays open in the journal.
ScriptThrows ==
  /\ pc = "script"
  /\ armed' = FALSE
  /\ thrown' = TRUE
  /\ faults' = faults \cup {"throw"}
  /\ pc' = "groupTeardown"
  /\ UNCHANGED <<opt, left, grp, tst, runOk, passOk, owed, jrnl, energised,
                 verdicts, exit, stopVars>>

\* Nothing between a script and main catches what is not a std::exception,
\* and an exception with no handler ends the process without unwinding.
ThrowsForeign ==
  /\ ForeignThrows
  /\ InBody
  /\ pc \notin {"groupTeardown", "runTeardown"}
  /\ pc' = "terminated"
  /\ UNCHANGED <<opt, left, grp, tst, runOk, passOk, thrown, armed, owed, jrnl,
                 energised, verdicts, faults, exit, stopVars>>

(* The guards                                                              *)

\* Mutant: an exception leaves past the run's guard.
AfterGroupUnguarded == IF thrown THEN "safing" ELSE "groupEnd"

AfterGroup == IF thrown THEN "runTeardown" ELSE "groupEnd"

\* ~TeardownGuard of a group. A hook that throws is one that failed. The
\* unwinding goes on past endGroup to the run's guard.
GroupTeardownEnds(ok) ==
  /\ HookGives("groupTeardown", ok)
  /\ jrnl' = PhaseEnded
  /\ passOk' = (passOk /\ ok)
  /\ owed' = owed \ {"group"}
  /\ pc' = AfterGroup
  /\ UNCHANGED <<opt, left, grp, tst, runOk, thrown, armed, energised,
                 verdicts, exit, stopVars>>

\* Mutant: the verdict is copied out before the guard's destructor runs.
CopiedVerdict(ok) == runOk /\ ~thrown

FinalVerdict(ok) == runOk /\ ok /\ ~thrown

\* ~TeardownGuard of the run, then main's handler if one is needed.
RunTeardownEnds(ok) ==
  /\ HookGives("runTeardown", ok)
  /\ jrnl' = PhaseEnded
  /\ runOk' = FinalVerdict(ok)
  /\ owed' = owed \ {"run"}
  /\ thrown' = FALSE
  /\ pc' = "safing"
  /\ UNCHANGED <<opt, left, grp, tst, passOk, armed, energised, verdicts, exit,
                 stopVars>>

\* What a safing pass may leave. It writes unchecked, down the sessions that
\* are open, and swallows what the transport throws: what it tells need not
\* have been obeyed, or heard. Rig follows it output by output.
SafingLeaves == IF Attached THEN {energised, FALSE} ELSE {energised}

\* ~RigSafingGuard: hal::safeRig, which leaves a detached bench alone.
SafeRig ==
  /\ pc = "safing"
  /\ energised' \in SafingLeaves
  /\ pc' = "closing"
  /\ UNCHANGED <<opt, left, grp, tst, runOk, passOk, thrown, armed, owed, jrnl,
                 verdicts, faults, exit, stopVars>>

\* closeReadingStream, Journal::end, and the status main returns. A skeleton
\* run reports on its file, not on the scripts.
CloseRun(written) ==
  /\ pc = "closing"
  /\ Streaming \/ written
  /\ runOk' = (runOk /\ written)
  /\ exit' = IF (IF Skeleton THEN written ELSE runOk /\ written) THEN "zero" ELSE "nonzero"
  /\ pc' = "done"
  /\ UNCHANGED <<opt, left, grp, tst, passOk, thrown, armed, owed, jrnl,
                 energised, verdicts, faults, stopVars>>

----------------------------------------------------------------------------
Body ==
  \/ \E place \in HookPlaces : EnterHook(place)
  \/ \E ok \in BOOLEAN : PostCheck(ok)
  \/ \E on \in BOOLEAN : DriveRig(on)

\* The main thread getting on with the run: the body of a hook or script is
\* not in it, its end is.
Progress ==
  \/ RefuseSelection \/ OpenRun
  \/ NoPassLeft \/ StopBeforePass \/ BeginPass \/ EndPass \/ ReportStop
  \/ NoGroupLeft \/ SkipGroup \/ StopBeforeGroup \/ OpenGroup \/ EndGroup
  \/ NoTestLeft \/ SkipTest \/ StopBeforeTest \/ BeginTest
  \/ ScriptReturns \/ DelayAbandons \/ ScriptThrows \/ ThrowsForeign
  \/ SetupThrows("runSetup", "runTeardown")
  \/ SetupThrows("groupSetup", "groupTeardown")
  \/ \E ok \in BOOLEAN :
       \/ RunSetupReturns(ok) \/ GroupSetupReturns(ok)
       \/ GroupTeardownEnds(ok) \/ RunTeardownEnds(ok)
       \/ CloseRun(ok)
  \/ SafeRig

\* Stop signals and stdin, while the process lives.
StopArrives ==
  /\ pc \notin Ended
  /\ StopSources
  /\ UNCHANGED runVars

Killed ==
  /\ pc \notin Ended
  /\ SignalKills
  /\ pc' = "killed"
  /\ UNCHANGED <<opt, left, grp, tst, runOk, passOk, thrown, armed, owed, jrnl,
                 energised, verdicts, faults, exit>>

\* The process is gone.
Gone == pc \in Ended /\ UNCHANGED vars

Next == Body \/ Progress \/ StopArrives \/ Killed \/ Gone

Spec == Init /\ [][Next]_vars

\* Hooks, scripts and the delays in them end, and the operating system runs
\* the main thread and the code of a requestStop already entered. Nothing
\* makes anyone ask for a stop.
Fairness ==
  /\ WF_vars((\E place \in HookPlaces : EnterHook(place)) \/ Progress)
  /\ WF_vars(SignalStores /\ pc \notin Ended /\ UNCHANGED runVars)
  /\ WF_vars(StdinStores /\ pc \notin Ended /\ UNCHANGED runVars)

FairSpec == Spec /\ Fairness

----------------------------------------------------------------------------
(* What a run promises.                                                    *)

\* Test t of group g passed in a pass, and got no verdict of its own in it.
Passed(p, g, t) ==
  [left |-> p, group |-> g, test |-> Catalog[g][t], verdict |-> "pass"] \in verdicts
Lost(p, g, t) ==
  \A v \in verdicts :
    v.left = p /\ v.group = g /\ v.test = Catalog[g][t] => v.verdict = "cut"

\* A run that exits with success ran every selected test to a passing verdict
\* in every pass it was asked for, no hook failed, nothing was thrown and no
\* stop cut it short. A skeleton run's status is about its file instead.
\* (runTests, runPasses, runOnePass, runSelectedTests and TeardownGuard each
\* fold their part of this into allPassed, main.cpp.)
ExitZeroMeansPassed ==
  exit = "zero" /\ ~Skeleton =>
    /\ Unmatched = {} /\ ~Endless
    /\ faults = {} /\ ~honoured
    /\ \A p \in 1..Passes, g \in Groups : \A t \in Chosen(g) : Passed(p, g, t)
    /\ \A v \in verdicts : v.verdict = "pass"

\* A stop is reported only if it cut work short: a request that arrives
\* during the last test does not make a complete run a stopped one
\* (stop_request.hpp on stopNow). If the catalog has anything to run, some
\* selected test did not get its verdict.
HonouredMeansWorkLost ==
  honoured /\ ~Endless /\ (\E g \in Groups : AnySelected(g)) =>
    \E p \in 1..Passes, g \in Groups : \E t \in Chosen(g) : Lost(p, g, t)

\* Under --until-failure a failing pass is the last: no test is run in a pass
\* after one in which a test failed.
UntilFailureStops ==
  opt.untilFailure /\ ~Endless =>
    \A v, w \in verdicts : v.verdict # "pass" => v.left <= w.left

\* A verb may abandon a script on a stop and nothing else: no hook, teardown
\* or safing pass ever runs with the stop armed, also when a script has left
\* by an exception or by the stop itself (stop_request.hpp, "Armed").
StopArmedOnlyInScripts == armed => pc \in {"script", "killed", "terminated"}

\* On a path no exception has left, the journal stamps what a hook or script
\* posts with the group and the test it belongs to, and only an open test
\* gathers a tally (Journal::post, beginTest, endTest, endGroup).
BracketAttribution ==
  InBody /\ ~thrown =>
    /\ jrnl.group = IF pc \in {"runSetup", "runTeardown"} THEN 0 ELSE grp
    /\ jrnl.test = IF pc = "script" THEN Catalog[grp][tst] ELSE NoTest
    /\ jrnl.open = (pc = "script")

\* What is on record of a run is what happened in it: of the tests that were cut,
\* of the pass that ended an --until-failure run, of who posted what.
RecordIsTrue == HonouredMeansWorkLost /\ UntilFailureStops /\ BracketAttribution

\* Once a stop is visible no group setup and no script starts; only what is
\* already running finishes, and teardowns run.
NoWorkAfterStop ==
  [][requested /\ pc' \in {"groupSetup", "script"} => pc' = pc]_vars

\* A run ends: by itself when its passes are bounded, and on a stop whichever
\* loop it is in, an endless --until-failure soak included.
RunEnds == (requested \/ ~Endless) ~> pc \in Ended

\* A stop is heeded: nothing new starts, and the run ends.
StopIsHeeded == NoWorkAfterStop /\ RunEnds

\* The two-step flag, read by the run and written by a signal handler and a
\* thread, is the latch stop_request.hpp describes.
Latch == INSTANCE StopContract
           WITH stop <- IF requested THEN reason ELSE "None", cut <- honoured
StopIsALatch == Latch!Spec

\* The run's stages as its caller sees them.
Stage ==
  CASE pc = "start"   -> "before"
    [] pc = "safing"  -> "after"
    [] pc = "closing" -> "safed"
    [] pc \in Ended   -> "ended"
    [] OTHER          -> "in"

OpenBrackets ==
  CASE owed = {}      -> <<>>
    [] owed = {"run"} -> <<"run">>
    [] OTHER          -> <<"run", "group">>

Contract == INSTANCE RunContract
              WITH attached <- Attached, stage <- Stage, brackets <- OpenBrackets,
                   live <- energised,
                   outcome <- IF pc \in {"killed", "terminated"} THEN "killed" ELSE exit

\* The program counter, the guards and the unwinding carry out RunContract:
\* teardowns nest, each bracket opened is closed exactly once, and safing
\* comes after the last of them on every path.
RunKeepsContract == Contract!Spec

============================================================================
