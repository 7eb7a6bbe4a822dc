---------------------------- MODULE RunnerProofs ----------------------------
(***************************************************************************)
(* Proofs about Runner, for every catalog, every set of hooks and every    *)
(* command line: the types, the stop latch, what exit status zero means,   *)
(* the brackets' contract, what is on record of a run, and a rig that is   *)
(* cold when it ends.                                                      *)
(***************************************************************************)
EXTENDS Runner, TLAPS

\* Where the main thread has a group of the catalog open.
GroupPlaces == {"groupSetup", "testLoop", "script"}

\* Where it is inside a pass.
PassPlaces == GroupPlaces \cup {"groupLoop", "groupTeardown", "groupEnd", "passEnd"}

\* The group and test indices are positions in the catalog wherever they are
\* used as such, and a pass under way is one that was left to make.
InGroup ==
  /\ pc \in GroupPlaces => grp \in Groups
  /\ pc \in {"testLoop", "script"} => tst > 0
  /\ pc \in PassPlaces => left > 0 /\ grp > 0

\* The journal has the group the index points at open, and while a script
\* runs the test too.
OpenTest ==
  /\ pc \in GroupPlaces => jrnl.group = grp
  /\ pc = "script" => /\ tst \in DOMAIN Catalog[grp]
                      /\ jrnl.test = Catalog[grp][tst]
                      /\ jrnl.open = TRUE

\* The half of requestStop that has happened: nobody raises the flag, or is
\* about to, before a reason is in place, and only a raised flag is honoured.
ReasonFirst ==
  /\ requested \/ handler = "storing" \/ watcher \in {"stopping", "leaving"}
       => reason # "None"
  /\ honoured => requested

\* The inductive part that everything else rests on.
Basic == TypeOK /\ InGroup /\ OpenTest /\ ReasonFirst /\ StopArmedOnlyInScripts

----------------------------------------------------------------------------
\* A test the catalog has is a name, and not the one that stands for none.
LEMMA CatalogTest ==
  ASSUME NEW g \in Groups, NEW t \in Nat, t > 0, t <= Len(Catalog[g])
  PROVE  Catalog[g][t] \in TestNames
BY CatalogAssumption DEF Groups

LEMMA BasicInit == Init => Basic
<1> SUFFICES ASSUME Init PROVE Basic
  OBVIOUS
<1> USE DEF Init
<1>1. StopTypeOK
  <2>1. opt.stopOnStdin \in BOOLEAN
    BY OptionsAssumption DEF OptionRecords
  <2>2. requested \in BOOLEAN /\ honoured \in BOOLEAN
    BY DEF StopInit
  <2>3. signals \in 0..2
    BY DEF StopInit
  <2> QED
    BY <2>1, <2>2, <2>3, Zenon DEF StopInit, StopTypeOK, Reasons
<1>2. jrnl \in Journals
  BY DEF Closed, Journals
<1>3. TypeOK
  BY <1>1, <1>2 DEF TypeOK, Places
<1>4. ReasonFirst
  BY DEF StopInit, ReasonFirst
<1> QED
  BY <1>3, <1>4 DEF Basic, InGroup, OpenTest, GroupPlaces, PassPlaces, StopArmedOnlyInScripts

\* Everything a step may do to the stop flag: the sources, a boundary check,
\* a fatal signal, or nothing.
StopStep == StopSources \/ SignalKills \/ StopNow \/ UNCHANGED stopVars

LEMMA StopStepKeeps ==
  ASSUME StopTypeOK, ReasonFirst, StopStep
  PROVE  StopTypeOK' /\ ReasonFirst'
<1> USE DEF StopTypeOK, ReasonFirst, Reasons, ClaimReason, RaiseFlag, CountSignal
<1>1. CASE SignalClaims
  BY <1>1 DEF SignalClaims
<1>2. CASE SignalStores
  BY <1>2 DEF SignalStores
<1>3. CASE StopLine \/ StdinEnds
  BY <1>3 DEF StopLine, StdinEnds, StdinClaims
<1>4. CASE StdinStores
  BY <1>4 DEF StdinStores
<1>5. CASE SignalKills
  BY <1>5 DEF SignalKills
<1>6. CASE StopNow
  BY <1>6 DEF StopNow
<1>7. CASE UNCHANGED stopVars
  BY <1>7 DEF stopVars
<1> QED
  BY <1>1, <1>2, <1>3, <1>4, <1>5, <1>6, <1>7 DEF StopStep, StopSources

\* Each step of the run changes the stop flag in one of those ways.
LEMMA NextIsStopStep == ASSUME [Next]_vars PROVE StopStep
<1> USE DEF StopStep
<1>1. CASE Body
  BY <1>1 DEF Body, EnterHook, PostCheck, DriveRig, stopVars
<1>2. CASE Progress
  <2> USE DEF stopVars, NoStopYet
  <2>1. CASE RefuseSelection \/ OpenRun \/ NoPassLeft \/ EndPass \/ ReportStop
    BY <2>1 DEF RefuseSelection, OpenRun, NoPassLeft, EndPass, ReportStop
  <2>2. CASE NoGroupLeft \/ SkipGroup \/ EndGroup \/ NoTestLeft \/ SkipTest \/ SafeRig
    BY <2>2 DEF NoGroupLeft, SkipGroup, EndGroup, NoTestLeft, SkipTest, SafeRig
  <2>3. CASE StopBeforePass \/ StopBeforeGroup \/ StopBeforeTest \/ DelayAbandons
    BY <2>3 DEF StopBeforePass, StopBeforeGroup, StopBeforeTest, DelayAbandons
  <2>4. CASE BeginPass \/ OpenGroup \/ BeginTest
    BY <2>4 DEF BeginPass, OpenGroup, BeginTest
  <2>5. CASE ScriptReturns \/ ScriptThrows \/ ThrowsForeign
    BY <2>5 DEF ScriptReturns, ScriptThrows, ThrowsForeign
  <2>6. CASE \/ SetupThrows("runSetup", "runTeardown")
             \/ SetupThrows("groupSetup", "groupTeardown")
    BY <2>6 DEF SetupThrows
  <2>7. ASSUME NEW ok \in BOOLEAN,
               \/ RunSetupReturns(ok) \/ GroupSetupReturns(ok)
               \/ GroupTeardownEnds(ok) \/ RunTeardownEnds(ok) \/ CloseRun(ok)
        PROVE  UNCHANGED stopVars
    BY <2>7 DEF RunSetupReturns, GroupSetupReturns, GroupTeardownEnds,
                RunTeardownEnds, CloseRun
  <2> QED
    BY <1>2, <2>1, <2>2, <2>3, <2>4, <2>5, <2>6, <2>7 DEF Progress
<1>3. CASE StopArrives
  BY <1>3 DEF StopArrives
<1>4. CASE Killed
  BY <1>4 DEF Killed
<1>5. CASE Gone \/ UNCHANGED vars
  BY <1>5 DEF Gone, vars
<1> QED
  BY <1>1, <1>2, <1>3, <1>4, <1>5 DEF Next

----------------------------------------------------------------------------
(* Types and indices.                                                      *)

LEMMA JournalTypes ==
  ASSUME jrnl \in Journals
  PROVE  /\ PhaseEnded \in Journals
         /\ GroupEnded \in Journals
         /\ TestEnded \in Journals
         /\ \A ok \in BOOLEAN : Tallied(jrnl, ok) \in Journals
         /\ \A place \in HookPlaces :
              [jrnl EXCEPT !.phase = HookOf[place][2]] \in Journals
<1> USE DEF Journals
<1>1. PhaseEnded \in Journals
  BY DEF PhaseEnded
<1>2. GroupEnded \in Journals
  BY DEF GroupEnded
<1>3. TestEnded \in Journals
  BY DEF TestEnded
<1>4. \A ok \in BOOLEAN : Tallied(jrnl, ok) \in Journals
  BY DEF Tallied
<1>5. \A place \in HookPlaces : [jrnl EXCEPT !.phase = HookOf[place][2]] \in Journals
  BY DEF HookPlaces, HookOf
<1> QED
  BY <1>1, <1>2, <1>3, <1>4, <1>5

LEMMA PassesType == ASSUME TypeOK PROVE Passes \in Nat /\ Passes > 0
BY OptionsAssumption DEF TypeOK, OptionRecords, Passes

LEMMA VerdictType == Verdict(jrnl) \in {"pass", "fail"}
BY DEF Verdict

LEMMA NewRecord ==
  ASSUME Basic, pc = "script", NEW v \in {"pass", "fail", "cut"}
  PROVE  Recorded(v) \in Records
<1>1. left \in Nat
  BY DEF Basic, TypeOK
<1>2. jrnl.test \in TestNames
  BY CatalogTest DEF Basic, TypeOK, InGroup, OpenTest, GroupPlaces, Groups
<1>3. jrnl.group \in Groups
  BY DEF Basic, InGroup, OpenTest, GroupPlaces
<1> QED
  BY <1>1, <1>2, <1>3 DEF Records, Recorded

\* Every step keeps the types.
LEMMA TypesStep ==
  ASSUME Basic, StopTypeOK', [Next]_vars
  PROVE  TypeOK'
<1> USE JournalTypes DEF Basic, TypeOK, Places, Ended, InGroup, GroupPlaces, PassPlaces,
            OpenTest
<1>1. CASE \E place \in HookPlaces : EnterHook(place)
  BY <1>1 DEF EnterHook, HookPlaces, HookOf
<1>2. CASE \E ok \in BOOLEAN : PostCheck(ok)
  BY <1>2 DEF PostCheck, Tallied, Journals
<1>3. CASE \E on \in BOOLEAN : DriveRig(on)
  BY <1>3 DEF DriveRig
<1>4. CASE RefuseSelection
  BY <1>4 DEF RefuseSelection
<1>5. CASE OpenRun
  BY <1>5 DEF OpenRun
<1>6. CASE NoPassLeft
  BY <1>6 DEF NoPassLeft
<1>7. CASE StopBeforePass
  BY <1>7 DEF StopBeforePass
<1>8. CASE BeginPass
  BY <1>8 DEF BeginPass, PassRemains
<1>9. CASE EndPass
  BY <1>9 DEF EndPass, Counted
<1>10. CASE ReportStop
  BY <1>10 DEF ReportStop
<1>11. CASE NoGroupLeft
  BY <1>11 DEF NoGroupLeft
<1>12. CASE SkipGroup
  BY <1>12 DEF SkipGroup
<1>13. CASE StopBeforeGroup
  BY <1>13 DEF StopBeforeGroup
<1>14. CASE OpenGroup
  BY <1>14 DEF OpenGroup, Groups, Journals
<1>15. CASE EndGroup
  BY <1>15 DEF EndGroup
<1>16. CASE NoTestLeft
  BY <1>16 DEF NoTestLeft
<1>17. CASE SkipTest
  BY <1>17 DEF SkipTest
<1>18. CASE StopBeforeTest
  BY <1>18 DEF StopBeforeTest
<1>19. CASE BeginTest
  BY <1>19, CatalogTest DEF BeginTest, Journals
<1>20. CASE ScriptReturns
  <2>1. verdicts' \subseteq Records
    BY <1>20, NewRecord, VerdictType DEF ScriptReturns
  <2>2. passOk' \in BOOLEAN
    BY <1>20, Zenon DEF ScriptReturns
  <2>3. jrnl' \in Journals /\ tst' \in Nat /\ pc' = "testLoop" /\ armed' = FALSE
    BY <1>20 DEF ScriptReturns
  <2>4. UNCHANGED <<opt, left, grp, runOk, thrown, owed, energised, faults, exit>>
    BY <1>20 DEF ScriptReturns
  <2> QED
    BY <2>1, <2>2, <2>3, <2>4
<1>21. CASE DelayAbandons
  BY <1>21, NewRecord DEF DelayAbandons
<1>22. CASE ScriptThrows
  BY <1>22 DEF ScriptThrows
<1>23. CASE ThrowsForeign
  BY <1>23 DEF ThrowsForeign
<1>24. CASE SafeRig
  BY <1>24 DEF SafeRig, SafingLeaves
<1>25. CASE \/ SetupThrows("runSetup", "runTeardown")
               \/ SetupThrows("groupSetup", "groupTeardown")
  BY <1>25 DEF SetupThrows, InHook
<1>26. ASSUME NEW ok \in BOOLEAN, RunSetupReturns(ok) PROVE TypeOK'
  BY <1>26, PassesType DEF RunSetupReturns, HookGives
<1>27. ASSUME NEW ok \in BOOLEAN, GroupSetupReturns(ok) PROVE TypeOK'
  BY <1>27 DEF GroupSetupReturns, HookGives
<1>28. ASSUME NEW ok \in BOOLEAN, GroupTeardownEnds(ok) PROVE TypeOK'
  BY <1>28 DEF GroupTeardownEnds, HookGives, AfterGroup
<1>29. ASSUME NEW ok \in BOOLEAN, RunTeardownEnds(ok) PROVE TypeOK'
  BY <1>29 DEF RunTeardownEnds, HookGives, FinalVerdict
<1>30. ASSUME NEW ok \in BOOLEAN, CloseRun(ok) PROVE TypeOK'
  BY <1>30 DEF CloseRun
<1>31. CASE StopArrives
  BY <1>31 DEF StopArrives, runVars
<1>32. CASE Killed
  BY <1>32 DEF Killed
<1>33. CASE Gone \/ UNCHANGED vars
  BY <1>33 DEF Gone, vars, runVars
<1> QED
  BY <1>1, <1>2, <1>3, <1>4, <1>5, <1>6, <1>7, <1>8, <1>9, <1>10, <1>11,
     <1>12, <1>13, <1>14, <1>15, <1>16, <1>17, <1>18, <1>19, <1>20, <1>21,
     <1>22, <1>23, <1>24, <1>25, <1>26, <1>27, <1>28, <1>29, <1>30, <1>31,
     <1>32, <1>33
     DEF Next, Body, Progress

\* Every step keeps the indices in the catalog and the stop disarmed elsewhere.
LEMMA PlacesStep ==
  ASSUME Basic, StopTypeOK', [Next]_vars
  PROVE  InGroup' /\ OpenTest' /\ StopArmedOnlyInScripts'
<1> USE DEF Basic, TypeOK, InGroup, OpenTest, GroupPlaces, PassPlaces, Groups,
            StopArmedOnlyInScripts
<1>1. CASE \E place \in HookPlaces : EnterHook(place)
  BY <1>1 DEF EnterHook, HookPlaces, HookOf
<1>2. CASE \E ok \in BOOLEAN : PostCheck(ok)
  BY <1>2 DEF PostCheck, Tallied, Journals
<1>3. CASE \E on \in BOOLEAN : DriveRig(on)
  BY <1>3 DEF DriveRig
<1>4. CASE RefuseSelection
  BY <1>4 DEF RefuseSelection
<1>5. CASE OpenRun
  BY <1>5 DEF OpenRun
<1>6. CASE NoPassLeft
  BY <1>6 DEF NoPassLeft
<1>7. CASE StopBeforePass
  BY <1>7 DEF StopBeforePass
<1>8. CASE BeginPass
  BY <1>8 DEF BeginPass, PassRemains
<1>9. CASE EndPass
  BY <1>9 DEF EndPass, Counted
<1>10. CASE ReportStop
  BY <1>10 DEF ReportStop
<1>11. CASE NoGroupLeft
  BY <1>11 DEF NoGroupLeft
<1>12. CASE SkipGroup
  BY <1>12 DEF SkipGroup
<1>13. CASE StopBeforeGroup
  BY <1>13 DEF StopBeforeGroup
<1>14. CASE OpenGroup
  BY <1>14 DEF OpenGroup, Groups, Journals
<1>15. CASE EndGroup
  BY <1>15 DEF EndGroup
<1>16. CASE NoTestLeft
  BY <1>16 DEF NoTestLeft
<1>17. CASE SkipTest
  BY <1>17 DEF SkipTest
<1>18. CASE StopBeforeTest
  BY <1>18 DEF StopBeforeTest
<1>19. CASE BeginTest
  BY <1>19, CatalogTest DEF BeginTest, Journals
<1>20. CASE ScriptReturns
  BY <1>20, CatalogTest DEF ScriptReturns, TestEnded, Journals
<1>21. CASE DelayAbandons
  BY <1>21, CatalogTest DEF DelayAbandons
<1>22. CASE ScriptThrows
  BY <1>22 DEF ScriptThrows
<1>23. CASE ThrowsForeign
  BY <1>23 DEF ThrowsForeign
<1>24. CASE SafeRig
  BY <1>24 DEF SafeRig, SafingLeaves
<1>25. CASE \/ SetupThrows("runSetup", "runTeardown")
               \/ SetupThrows("groupSetup", "groupTeardown")
  BY <1>25 DEF SetupThrows, InHook
<1>26. ASSUME NEW ok \in BOOLEAN, RunSetupReturns(ok) PROVE InGroup' /\ OpenTest' /\ StopArmedOnlyInScripts'
  BY <1>26, PassesType DEF RunSetupReturns, HookGives
<1>27. ASSUME NEW ok \in BOOLEAN, GroupSetupReturns(ok) PROVE InGroup' /\ OpenTest' /\ StopArmedOnlyInScripts'
  BY <1>27 DEF GroupSetupReturns, HookGives, PhaseEnded, Journals
<1>28. ASSUME NEW ok \in BOOLEAN, GroupTeardownEnds(ok) PROVE InGroup' /\ OpenTest' /\ StopArmedOnlyInScripts'
  BY <1>28 DEF GroupTeardownEnds, HookGives, AfterGroup
<1>29. ASSUME NEW ok \in BOOLEAN, RunTeardownEnds(ok) PROVE InGroup' /\ OpenTest' /\ StopArmedOnlyInScripts'
  BY <1>29 DEF RunTeardownEnds, HookGives, FinalVerdict
<1>30. ASSUME NEW ok \in BOOLEAN, CloseRun(ok) PROVE InGroup' /\ OpenTest' /\ StopArmedOnlyInScripts'
  BY <1>30 DEF CloseRun
<1>31. CASE StopArrives
  BY <1>31 DEF StopArrives, runVars
<1>32. CASE Killed
  BY <1>32 DEF Killed
<1>33. CASE Gone \/ UNCHANGED vars
  BY <1>33 DEF Gone, vars, runVars
<1> QED
  BY <1>1, <1>2, <1>3, <1>4, <1>5, <1>6, <1>7, <1>8, <1>9, <1>10, <1>11,
     <1>12, <1>13, <1>14, <1>15, <1>16, <1>17, <1>18, <1>19, <1>20, <1>21,
     <1>22, <1>23, <1>24, <1>25, <1>26, <1>27, <1>28, <1>29, <1>30, <1>31,
     <1>32, <1>33
     DEF Next, Body, Progress

LEMMA BasicStep == ASSUME Basic, [Next]_vars PROVE Basic'
<1>1. StopTypeOK' /\ ReasonFirst'
  BY StopStepKeeps, NextIsStopStep DEF Basic, TypeOK
<1> QED
  BY <1>1, TypesStep, PlacesStep DEF Basic

\* The state never leaves its types.
THEOREM TypeCorrect == Spec => []TypeOK
<1>1. Basic /\ [Next]_vars => Basic'
  BY BasicStep
<1>2. Basic => TypeOK
  BY DEF Basic
<1> QED
  BY BasicInit, <1>1, <1>2, PTL DEF Spec

\* A stop abandons scripts and nothing else, for every catalog and options.
THEOREM StopsOnlyScripts == Spec => []StopArmedOnlyInScripts
<1>1. Basic /\ [Next]_vars => Basic'
  BY BasicStep
<1>2. Basic => StopArmedOnlyInScripts
  BY DEF Basic
<1> QED
  BY BasicInit, <1>1, <1>2, PTL DEF Spec

----------------------------------------------------------------------------
(* The stop latch.                                                         *)

LEMMA LatchStep ==
  ASSUME Basic, StopStep
  PROVE  [Latch!Next]_<<IF requested THEN reason ELSE "None", honoured>>
<1> USE DEF Basic, TypeOK, StopTypeOK, ReasonFirst, Reasons, Latch!Next, Latch!Ask,
            Latch!CutShort, ClaimReason, RaiseFlag
<1>1. CASE SignalClaims
  BY <1>1 DEF SignalClaims
<1>2. CASE SignalStores
  BY <1>2 DEF SignalStores
<1>3. CASE StopLine \/ StdinEnds
  BY <1>3 DEF StopLine, StdinEnds, StdinClaims
<1>4. CASE StdinStores
  BY <1>4 DEF StdinStores
<1>5. CASE SignalKills
  BY <1>5 DEF SignalKills
<1>6. CASE StopNow
  BY <1>6 DEF StopNow
<1>7. CASE UNCHANGED stopVars
  BY <1>7 DEF stopVars
<1> QED
  BY <1>1, <1>2, <1>3, <1>4, <1>5, <1>6, <1>7 DEF StopStep, StopSources

\* The flag set in two steps by several writers is one latch with one reason,
\* and the run is cut short only after it is set.
THEOREM LatchImplemented == Spec => StopIsALatch
<1>1. Init => Latch!Init
  BY DEF Init, StopInit, Latch!Init
<1>2. Basic /\ [Next]_vars => [Latch!Next]_<<IF requested THEN reason ELSE "None", honoured>>
  BY LatchStep, NextIsStopStep
<1>3. Basic /\ [Next]_vars => Basic'
  BY BasicStep
<1> QED
  BY BasicInit, <1>1, <1>2, <1>3, PTL DEF Spec, StopIsALatch, Latch!Spec

----------------------------------------------------------------------------
(* What exit status zero means.                                            *)

\* Where the passes are over.
Late == {"runTeardown", "safing", "closing", "done"}

\* Nothing has gone wrong that allPassed knows of, at whichever level holds it.
Clean ==
  runOk /\ (pc \in PassPlaces => passOk) /\ ~thrown /\ pc \notin {"killed", "terminated"}

\* allPassed is false as soon as anything has gone wrong.
Folded ==
  Clean => /\ faults = {}
           /\ Unmatched = {}
           /\ \A v \in verdicts : v.verdict = "pass"

\* Before the run opens nothing has happened.
Fresh == pc = "start" => verdicts = {} /\ faults = {} /\ exit = "none" /\ ~thrown

\* An exception is in flight only on its way through the guards.
Unwinding == thrown => pc \in {"groupTeardown", "runTeardown", "killed", "terminated"}

\* How the loops are left: an endless run only by a stop or a failure, a pass
\* at its last group, and a stop never into a clean end.
LoopsLeft ==
  /\ Endless /\ pc \in {"passLoop"} \cup PassPlaces => left > 0
  /\ Endless /\ Clean /\ pc = "passesDone" => honoured
  /\ ~honoured /\ pc = "passEnd" => grp > Len(Catalog)
  /\ Clean /\ pc \in Late => ~honoured /\ ~Endless

\* Every selected test passed in pass p.
Finished(p) == \A g \in Groups : \A t \in Chosen(g) : Passed(p, g, t)

\* Test t of group g comes before where the pass is.
Before(g, t) ==
  \/ g < grp
  \/ g = grp /\ pc \in {"groupTeardown", "groupEnd"}
  \/ g = grp /\ pc \in {"testLoop", "script"} /\ t < tst

\* In a clean run that no stop has cut short, the passes over are finished
\* and so is the current one up to where it is.
EarlierPasses ==
  Clean /\ ~honoured /\ ~Endless =>
    /\ pc \in {"passLoop"} \cup PassPlaces => \A p \in (left + 1)..Passes : Finished(p)
    /\ pc \in {"passesDone"} \cup Late => \A p \in 1..Passes : Finished(p)

ThisPass ==
  Clean /\ ~honoured /\ pc \in PassPlaces =>
    \A g \in Groups : \A t \in Chosen(g) : Before(g, t) => Passed(left, g, t)

\* The status is what allPassed came to, a skeleton's apart.
Status == exit = "zero" => pc = "done" /\ (Skeleton \/ runOk)

IInv ==
  /\ Basic /\ Fresh /\ Folded /\ Unwinding /\ LoopsLeft
  /\ EarlierPasses /\ ThisPass /\ Status

\* What the main thread's control does not touch leaves the claims alone.
Still == UNCHANGED <<opt, pc, left, grp, tst, runOk, passOk, thrown, verdicts,
                     faults, exit, honoured>>

Claims ==
  /\ Fresh /\ Folded /\ Unwinding /\ LoopsLeft
  /\ EarlierPasses /\ ThisPass /\ Status

LEMMA StillKeeps == ASSUME Claims, Still PROVE Claims'
BY DEF Claims, Still, Fresh, Folded, Unwinding, LoopsLeft, EarlierPasses, ThisPass, Status,
       Clean, Late, Finished, Passed, Before, Endless, Passes, Skeleton, Unmatched,
       Chosen, IsSelected

LEMMA StillSteps ==
  ASSUME Body \/ StopArrives \/ Gone \/ UNCHANGED vars
  PROVE  Still
<1>1. CASE Body
  BY <1>1 DEF Body, EnterHook, PostCheck, DriveRig, Still, stopVars
<1>2. CASE StopArrives
  BY <1>2 DEF StopArrives, StopSources, SignalClaims, SignalStores, StopLine, StdinEnds,
              StdinClaims, StdinStores, runVars, Still
<1>3. CASE Gone \/ UNCHANGED vars
  BY <1>3 DEF Gone, vars, runVars, stopVars, Still
<1> QED
  BY <1>1, <1>2, <1>3

\* Only the first step leaves the start.
LEMMA FreshStep ==
  ASSUME IInv, Progress \/ Killed
  PROVE  Fresh'
<1> USE DEF IInv, Basic, TypeOK, StopTypeOK, InGroup, PassPlaces, GroupPlaces,
            Clean, Late, Fresh, Ended
<1>1. CASE RefuseSelection
  BY <1>1 DEF RefuseSelection, stopVars
<1>2. CASE OpenRun
  BY <1>2 DEF OpenRun, stopVars
<1>3. CASE NoPassLeft
  BY <1>3 DEF NoPassLeft, stopVars
<1>4. CASE StopBeforePass
  BY <1>4 DEF StopBeforePass, StopNow, PassRemains
<1>5. CASE BeginPass
  BY <1>5 DEF BeginPass, PassRemains, NoStopYet, stopVars
<1>6. CASE EndPass
  BY <1>6 DEF EndPass, Counted, FailureEndsPasses, stopVars
<1>7. CASE ReportStop
  BY <1>7 DEF ReportStop, stopVars
<1>8. CASE NoGroupLeft
  BY <1>8 DEF NoGroupLeft, stopVars
<1>9. CASE SkipGroup
  BY <1>9 DEF SkipGroup, stopVars
<1>10. CASE StopBeforeGroup
  BY <1>10 DEF StopBeforeGroup, StopNow
<1>11. CASE OpenGroup
  BY <1>11 DEF OpenGroup, NoStopYet, stopVars
<1>12. CASE EndGroup
  BY <1>12 DEF EndGroup, stopVars
<1>13. CASE NoTestLeft
  BY <1>13 DEF NoTestLeft, stopVars
<1>14. CASE SkipTest
  BY <1>14 DEF SkipTest, stopVars
<1>15. CASE StopBeforeTest
  BY <1>15 DEF StopBeforeTest, StopNow
<1>16. CASE BeginTest
  BY <1>16 DEF BeginTest, NoStopYet, stopVars
<1>17. CASE ScriptReturns
  BY <1>17 DEF ScriptReturns, Verdict, stopVars
<1>18. CASE DelayAbandons
  BY <1>18 DEF DelayAbandons, StopNow, Verdict, Tallied
<1>19. CASE ScriptThrows
  BY <1>19 DEF ScriptThrows, stopVars
<1>20. CASE ThrowsForeign
  BY <1>20 DEF ThrowsForeign, InBody, HookPlaces, HookOf, InHook, stopVars
<1>21. CASE SafeRig
  BY <1>21 DEF SafeRig, stopVars
<1>22. CASE Killed
  BY <1>22 DEF Killed, SignalKills, Ended
<1>23. CASE \/ SetupThrows("runSetup", "runTeardown")
               \/ SetupThrows("groupSetup", "groupTeardown")
  BY <1>23 DEF SetupThrows, InHook, stopVars
<1>24. ASSUME NEW ok \in BOOLEAN, RunSetupReturns(ok) PROVE Fresh'
  BY <1>24 DEF RunSetupReturns, HookGives, stopVars
<1>25. ASSUME NEW ok \in BOOLEAN, GroupSetupReturns(ok) PROVE Fresh'
  BY <1>25 DEF GroupSetupReturns, HookGives, stopVars
<1>26. ASSUME NEW ok \in BOOLEAN, GroupTeardownEnds(ok) PROVE Fresh'
  BY <1>26 DEF GroupTeardownEnds, HookGives, AfterGroup, stopVars
<1>27. ASSUME NEW ok \in BOOLEAN, RunTeardownEnds(ok) PROVE Fresh'
  BY <1>27 DEF RunTeardownEnds, HookGives, FinalVerdict, stopVars
<1>28. ASSUME NEW ok \in BOOLEAN, CloseRun(ok) PROVE Fresh'
  BY <1>28 DEF CloseRun, stopVars
<1> QED
  BY <1>1, <1>2, <1>3, <1>4, <1>5, <1>6, <1>7, <1>8, <1>9, <1>10, <1>11,
     <1>12, <1>13, <1>14, <1>15, <1>16, <1>17, <1>18, <1>19, <1>20, <1>21,
     <1>22, <1>23, <1>24, <1>25, <1>26, <1>27, <1>28 DEF Progress

\* An exception in flight stays on the way out through the guards.
LEMMA UnwindingStep ==
  ASSUME IInv, Progress \/ Killed
  PROVE  Unwinding'
<1> USE DEF IInv, Basic, TypeOK, StopTypeOK, InGroup, PassPlaces, GroupPlaces,
            Clean, Late, Unwinding, Fresh
<1>1. CASE RefuseSelection
  BY <1>1 DEF RefuseSelection, stopVars
<1>2. CASE OpenRun
  BY <1>2 DEF OpenRun, stopVars
<1>3. CASE NoPassLeft
  BY <1>3 DEF NoPassLeft, stopVars
<1>4. CASE StopBeforePass
  BY <1>4 DEF StopBeforePass, StopNow, PassRemains
<1>5. CASE BeginPass
  BY <1>5 DEF BeginPass, PassRemains, NoStopYet, stopVars
<1>6. CASE EndPass
  BY <1>6 DEF EndPass, Counted, FailureEndsPasses, stopVars
<1>7. CASE ReportStop
  BY <1>7 DEF ReportStop, stopVars
<1>8. CASE NoGroupLeft
  BY <1>8 DEF NoGroupLeft, stopVars
<1>9. CASE SkipGroup
  BY <1>9 DEF SkipGroup, stopVars
<1>10. CASE StopBeforeGroup
  BY <1>10 DEF StopBeforeGroup, StopNow
<1>11. CASE OpenGroup
  BY <1>11 DEF OpenGroup, NoStopYet, stopVars
<1>12. CASE EndGroup
  BY <1>12 DEF EndGroup, stopVars
<1>13. CASE NoTestLeft
  BY <1>13 DEF NoTestLeft, stopVars
<1>14. CASE SkipTest
  BY <1>14 DEF SkipTest, stopVars
<1>15. CASE StopBeforeTest
  BY <1>15 DEF StopBeforeTest, StopNow
<1>16. CASE BeginTest
  BY <1>16 DEF BeginTest, NoStopYet, stopVars
<1>17. CASE ScriptReturns
  BY <1>17 DEF ScriptReturns, Verdict, stopVars
<1>18. CASE DelayAbandons
  BY <1>18 DEF DelayAbandons, StopNow, Verdict, Tallied
<1>19. CASE ScriptThrows
  BY <1>19 DEF ScriptThrows, stopVars
<1>20. CASE ThrowsForeign
  BY <1>20 DEF ThrowsForeign, InBody, HookPlaces, HookOf, InHook, stopVars
<1>21. CASE SafeRig
  BY <1>21 DEF SafeRig, stopVars
<1>22. CASE Killed
  BY <1>22 DEF Killed, SignalKills, Ended
<1>23. CASE \/ SetupThrows("runSetup", "runTeardown")
               \/ SetupThrows("groupSetup", "groupTeardown")
  BY <1>23 DEF SetupThrows, InHook, stopVars
<1>24. ASSUME NEW ok \in BOOLEAN, RunSetupReturns(ok) PROVE Unwinding'
  BY <1>24 DEF RunSetupReturns, HookGives, stopVars
<1>25. ASSUME NEW ok \in BOOLEAN, GroupSetupReturns(ok) PROVE Unwinding'
  BY <1>25 DEF GroupSetupReturns, HookGives, stopVars
<1>26. ASSUME NEW ok \in BOOLEAN, GroupTeardownEnds(ok) PROVE Unwinding'
  BY <1>26 DEF GroupTeardownEnds, HookGives, AfterGroup, stopVars
<1>27. ASSUME NEW ok \in BOOLEAN, RunTeardownEnds(ok) PROVE Unwinding'
  BY <1>27 DEF RunTeardownEnds, HookGives, FinalVerdict, stopVars
<1>28. ASSUME NEW ok \in BOOLEAN, CloseRun(ok) PROVE Unwinding'
  BY <1>28 DEF CloseRun, stopVars
<1> QED
  BY <1>1, <1>2, <1>3, <1>4, <1>5, <1>6, <1>7, <1>8, <1>9, <1>10, <1>11,
     <1>12, <1>13, <1>14, <1>15, <1>16, <1>17, <1>18, <1>19, <1>20, <1>21,
     <1>22, <1>23, <1>24, <1>25, <1>26, <1>27, <1>28 DEF Progress

\* Whatever goes wrong is folded into allPassed, at one level or the other.
LEMMA FoldedStep ==
  ASSUME IInv, Progress \/ Killed
  PROVE  Folded'
<1> USE DEF IInv, Basic, TypeOK, StopTypeOK, InGroup, PassPlaces, GroupPlaces,
            Clean, Late, Unwinding, OpenTest, Folded, Unmatched, Fresh, Recorded
<1>1. CASE RefuseSelection
  BY <1>1 DEF RefuseSelection, stopVars
<1>2. CASE OpenRun
  BY <1>2 DEF OpenRun, stopVars
<1>3. CASE NoPassLeft
  BY <1>3 DEF NoPassLeft, stopVars
<1>4. CASE StopBeforePass
  BY <1>4 DEF StopBeforePass, StopNow, PassRemains
<1>5. CASE BeginPass
  BY <1>5 DEF BeginPass, PassRemains, NoStopYet, stopVars
<1>6. CASE EndPass
  BY <1>6 DEF EndPass, Counted, FailureEndsPasses, stopVars
<1>7. CASE ReportStop
  BY <1>7 DEF ReportStop, stopVars
<1>8. CASE NoGroupLeft
  BY <1>8 DEF NoGroupLeft, stopVars
<1>9. CASE SkipGroup
  BY <1>9 DEF SkipGroup, stopVars
<1>10. CASE StopBeforeGroup
  BY <1>10 DEF StopBeforeGroup, StopNow
<1>11. CASE OpenGroup
  BY <1>11 DEF OpenGroup, NoStopYet, stopVars
<1>12. CASE EndGroup
  BY <1>12 DEF EndGroup, stopVars
<1>13. CASE NoTestLeft
  BY <1>13 DEF NoTestLeft, stopVars
<1>14. CASE SkipTest
  BY <1>14 DEF SkipTest, stopVars
<1>15. CASE StopBeforeTest
  BY <1>15 DEF StopBeforeTest, StopNow
<1>16. CASE BeginTest
  BY <1>16 DEF BeginTest, NoStopYet, stopVars
<1>17. CASE ScriptReturns
  BY <1>17 DEF ScriptReturns, Verdict, stopVars
<1>18. CASE DelayAbandons
  BY <1>18 DEF DelayAbandons, StopNow, Verdict, Tallied
<1>19. CASE ScriptThrows
  BY <1>19 DEF ScriptThrows, stopVars
<1>20. CASE ThrowsForeign
  BY <1>20 DEF ThrowsForeign, InBody, HookPlaces, HookOf, InHook, stopVars
<1>21. CASE SafeRig
  BY <1>21 DEF SafeRig, stopVars
<1>22. CASE Killed
  BY <1>22 DEF Killed, SignalKills, Ended
<1>23. CASE \/ SetupThrows("runSetup", "runTeardown")
               \/ SetupThrows("groupSetup", "groupTeardown")
  BY <1>23 DEF SetupThrows, InHook, stopVars
<1>24. ASSUME NEW ok \in BOOLEAN, RunSetupReturns(ok) PROVE Folded'
  BY <1>24 DEF RunSetupReturns, HookGives, stopVars
<1>25. ASSUME NEW ok \in BOOLEAN, GroupSetupReturns(ok) PROVE Folded'
  BY <1>25 DEF GroupSetupReturns, HookGives, stopVars
<1>26. ASSUME NEW ok \in BOOLEAN, GroupTeardownEnds(ok) PROVE Folded'
  BY <1>26 DEF GroupTeardownEnds, HookGives, AfterGroup, stopVars
<1>27. ASSUME NEW ok \in BOOLEAN, RunTeardownEnds(ok) PROVE Folded'
  BY <1>27 DEF RunTeardownEnds, HookGives, FinalVerdict, stopVars
<1>28. ASSUME NEW ok \in BOOLEAN, CloseRun(ok) PROVE Folded'
  BY <1>28 DEF CloseRun, stopVars
<1> QED
  BY <1>1, <1>2, <1>3, <1>4, <1>5, <1>6, <1>7, <1>8, <1>9, <1>10, <1>11,
     <1>12, <1>13, <1>14, <1>15, <1>16, <1>17, <1>18, <1>19, <1>20, <1>21,
     <1>22, <1>23, <1>24, <1>25, <1>26, <1>27, <1>28 DEF Progress

\* The loops are left only in the ways they may be.
LEMMA LoopsLeftStep ==
  ASSUME IInv, Progress \/ Killed
  PROVE  LoopsLeft'
<1> USE DEF IInv, Basic, TypeOK, StopTypeOK, InGroup, PassPlaces, GroupPlaces,
            Clean, Late,
            Unwinding, LoopsLeft, Endless, Passes
<1>1. CASE RefuseSelection
  BY <1>1 DEF RefuseSelection, stopVars
<1>2. CASE OpenRun
  BY <1>2 DEF OpenRun, stopVars
<1>3. CASE NoPassLeft
  BY <1>3 DEF NoPassLeft, stopVars
<1>4. CASE StopBeforePass
  BY <1>4 DEF StopBeforePass, StopNow, PassRemains
<1>5. CASE BeginPass
  BY <1>5 DEF BeginPass, PassRemains, NoStopYet, stopVars
<1>6. CASE EndPass
  BY <1>6 DEF EndPass, Counted, FailureEndsPasses, stopVars
<1>7. CASE ReportStop
  BY <1>7 DEF ReportStop, stopVars
<1>8. CASE NoGroupLeft
  BY <1>8 DEF NoGroupLeft, stopVars
<1>9. CASE SkipGroup
  BY <1>9 DEF SkipGroup, stopVars
<1>10. CASE StopBeforeGroup
  BY <1>10 DEF StopBeforeGroup, StopNow
<1>11. CASE OpenGroup
  BY <1>11 DEF OpenGroup, NoStopYet, stopVars
<1>12. CASE EndGroup
  BY <1>12 DEF EndGroup, stopVars
<1>13. CASE NoTestLeft
  BY <1>13 DEF NoTestLeft, stopVars
<1>14. CASE SkipTest
  BY <1>14 DEF SkipTest, stopVars
<1>15. CASE StopBeforeTest
  BY <1>15 DEF StopBeforeTest, StopNow
<1>16. CASE BeginTest
  BY <1>16 DEF BeginTest, NoStopYet, stopVars
<1>17. CASE ScriptReturns
  BY <1>17 DEF ScriptReturns, Verdict, stopVars
<1>18. CASE DelayAbandons
  BY <1>18 DEF DelayAbandons, StopNow, Verdict, Tallied
<1>19. CASE ScriptThrows
  BY <1>19 DEF ScriptThrows, stopVars
<1>20. CASE ThrowsForeign
  BY <1>20 DEF ThrowsForeign, InBody, HookPlaces, HookOf, InHook, stopVars
<1>21. CASE SafeRig
  BY <1>21 DEF SafeRig, stopVars
<1>22. CASE Killed
  BY <1>22 DEF Killed, SignalKills, Ended
<1>23. CASE \/ SetupThrows("runSetup", "runTeardown")
               \/ SetupThrows("groupSetup", "groupTeardown")
  BY <1>23 DEF SetupThrows, InHook, stopVars
<1>24. ASSUME NEW ok \in BOOLEAN, RunSetupReturns(ok) PROVE LoopsLeft'
  BY <1>24 DEF RunSetupReturns, HookGives, stopVars
<1>25. ASSUME NEW ok \in BOOLEAN, GroupSetupReturns(ok) PROVE LoopsLeft'
  BY <1>25 DEF GroupSetupReturns, HookGives, stopVars
<1>26. ASSUME NEW ok \in BOOLEAN, GroupTeardownEnds(ok) PROVE LoopsLeft'
  BY <1>26 DEF GroupTeardownEnds, HookGives, AfterGroup, stopVars
<1>27. ASSUME NEW ok \in BOOLEAN, RunTeardownEnds(ok) PROVE LoopsLeft'
  BY <1>27 DEF RunTeardownEnds, HookGives, FinalVerdict, stopVars
<1>28. ASSUME NEW ok \in BOOLEAN, CloseRun(ok) PROVE LoopsLeft'
  BY <1>28 DEF CloseRun, stopVars
<1> QED
  BY <1>1, <1>2, <1>3, <1>4, <1>5, <1>6, <1>7, <1>8, <1>9, <1>10, <1>11,
     <1>12, <1>13, <1>14, <1>15, <1>16, <1>17, <1>18, <1>19, <1>20, <1>21,
     <1>22, <1>23, <1>24, <1>25, <1>26, <1>27, <1>28 DEF Progress

\* The status is set once, from allPassed.
LEMMA StatusStep ==
  ASSUME IInv, Progress \/ Killed
  PROVE  Status'
<1> USE DEF IInv, Basic, TypeOK, StopTypeOK, InGroup, PassPlaces, GroupPlaces,
            Clean, Late, Status, Skeleton
<1>1. CASE RefuseSelection
  BY <1>1 DEF RefuseSelection, stopVars
<1>2. CASE OpenRun
  BY <1>2 DEF OpenRun, stopVars
<1>3. CASE NoPassLeft
  BY <1>3 DEF NoPassLeft, stopVars
<1>4. CASE StopBeforePass
  BY <1>4 DEF StopBeforePass, StopNow, PassRemains
<1>5. CASE BeginPass
  BY <1>5 DEF BeginPass, PassRemains, NoStopYet, stopVars
<1>6. CASE EndPass
  BY <1>6 DEF EndPass, Counted, FailureEndsPasses, stopVars
<1>7. CASE ReportStop
  BY <1>7 DEF ReportStop, stopVars
<1>8. CASE NoGroupLeft
  BY <1>8 DEF NoGroupLeft, stopVars
<1>9. CASE SkipGroup
  BY <1>9 DEF SkipGroup, stopVars
<1>10. CASE StopBeforeGroup
  BY <1>10 DEF StopBeforeGroup, StopNow
<1>11. CASE OpenGroup
  BY <1>11 DEF OpenGroup, NoStopYet, stopVars
<1>12. CASE EndGroup
  BY <1>12 DEF EndGroup, stopVars
<1>13. CASE NoTestLeft
  BY <1>13 DEF NoTestLeft, stopVars
<1>14. CASE SkipTest
  BY <1>14 DEF SkipTest, stopVars
<1>15. CASE StopBeforeTest
  BY <1>15 DEF StopBeforeTest, StopNow
<1>16. CASE BeginTest
  BY <1>16 DEF BeginTest, NoStopYet, stopVars
<1>17. CASE ScriptReturns
  BY <1>17 DEF ScriptReturns, Verdict, stopVars
<1>18. CASE DelayAbandons
  BY <1>18 DEF DelayAbandons, StopNow, Verdict, Tallied
<1>19. CASE ScriptThrows
  BY <1>19 DEF ScriptThrows, stopVars
<1>20. CASE ThrowsForeign
  BY <1>20 DEF ThrowsForeign, InBody, HookPlaces, HookOf, InHook, stopVars
<1>21. CASE SafeRig
  BY <1>21 DEF SafeRig, stopVars
<1>22. CASE Killed
  BY <1>22 DEF Killed, SignalKills, Ended
<1>23. CASE \/ SetupThrows("runSetup", "runTeardown")
               \/ SetupThrows("groupSetup", "groupTeardown")
  BY <1>23 DEF SetupThrows, InHook, stopVars
<1>24. ASSUME NEW ok \in BOOLEAN, RunSetupReturns(ok) PROVE Status'
  BY <1>24 DEF RunSetupReturns, HookGives, stopVars
<1>25. ASSUME NEW ok \in BOOLEAN, GroupSetupReturns(ok) PROVE Status'
  BY <1>25 DEF GroupSetupReturns, HookGives, stopVars
<1>26. ASSUME NEW ok \in BOOLEAN, GroupTeardownEnds(ok) PROVE Status'
  BY <1>26 DEF GroupTeardownEnds, HookGives, AfterGroup, stopVars
<1>27. ASSUME NEW ok \in BOOLEAN, RunTeardownEnds(ok) PROVE Status'
  BY <1>27 DEF RunTeardownEnds, HookGives, FinalVerdict, stopVars
<1>28. ASSUME NEW ok \in BOOLEAN, CloseRun(ok) PROVE Status'
  BY <1>28 DEF CloseRun, stopVars
<1> QED
  BY <1>1, <1>2, <1>3, <1>4, <1>5, <1>6, <1>7, <1>8, <1>9, <1>10, <1>11,
     <1>12, <1>13, <1>14, <1>15, <1>16, <1>17, <1>18, <1>19, <1>20, <1>21,
     <1>22, <1>23, <1>24, <1>25, <1>26, <1>27, <1>28 DEF Progress

LEMMA CatalogPositions ==
  /\ \A g \in Groups : g \in 1..Len(Catalog)
  /\ \A g \in Groups : \A t \in DOMAIN Catalog[g] : t \in 1..Len(Catalog[g])
  /\ Len(Catalog) \in Nat
  /\ \A g \in Groups : Len(Catalog[g]) \in Nat
BY CatalogAssumption DEF Groups

\* The options stand and verdicts are only added.
LEMMA Grows ==
  ASSUME IInv, Progress \/ Killed
  PROVE  opt' = opt /\ verdicts \subseteq verdicts'
<1>1. CASE RefuseSelection
  BY <1>1 DEF RefuseSelection, stopVars
<1>2. CASE OpenRun
  BY <1>2 DEF OpenRun, stopVars
<1>3. CASE NoPassLeft
  BY <1>3 DEF NoPassLeft, stopVars
<1>4. CASE StopBeforePass
  BY <1>4 DEF StopBeforePass, StopNow, PassRemains
<1>5. CASE BeginPass
  BY <1>5 DEF BeginPass, PassRemains, NoStopYet, stopVars
<1>6. CASE EndPass
  BY <1>6 DEF EndPass, Counted, FailureEndsPasses, stopVars
<1>7. CASE ReportStop
  BY <1>7 DEF ReportStop, stopVars
<1>8. CASE NoGroupLeft
  BY <1>8 DEF NoGroupLeft, stopVars
<1>9. CASE SkipGroup
  BY <1>9 DEF SkipGroup, stopVars
<1>10. CASE StopBeforeGroup
  BY <1>10 DEF StopBeforeGroup, StopNow
<1>11. CASE OpenGroup
  BY <1>11 DEF OpenGroup, NoStopYet, stopVars
<1>12. CASE EndGroup
  BY <1>12 DEF EndGroup, stopVars
<1>13. CASE NoTestLeft
  BY <1>13 DEF NoTestLeft, stopVars
<1>14. CASE SkipTest
  BY <1>14 DEF SkipTest, stopVars
<1>15. CASE StopBeforeTest
  BY <1>15 DEF StopBeforeTest, StopNow
<1>16. CASE BeginTest
  BY <1>16 DEF BeginTest, NoStopYet, stopVars
<1>17. CASE ScriptReturns
  BY <1>17 DEF ScriptReturns, stopVars
<1>18. CASE DelayAbandons
  BY <1>18 DEF DelayAbandons, StopNow
<1>19. CASE ScriptThrows
  BY <1>19 DEF ScriptThrows, stopVars
<1>20. CASE ThrowsForeign
  BY <1>20 DEF ThrowsForeign, InBody, HookPlaces, HookOf, InHook, stopVars
<1>21. CASE SafeRig
  BY <1>21 DEF SafeRig, stopVars
<1>22. CASE Killed
  BY <1>22 DEF Killed, SignalKills, Ended
<1>23. CASE \/ SetupThrows("runSetup", "runTeardown")
               \/ SetupThrows("groupSetup", "groupTeardown")
  BY <1>23 DEF SetupThrows, InHook, stopVars
<1>24. ASSUME NEW ok \in BOOLEAN, RunSetupReturns(ok) PROVE opt' = opt /\ verdicts \subseteq verdicts'
  BY <1>24 DEF RunSetupReturns, HookGives, stopVars
<1>25. ASSUME NEW ok \in BOOLEAN, GroupSetupReturns(ok) PROVE opt' = opt /\ verdicts \subseteq verdicts'
  BY <1>25 DEF GroupSetupReturns, HookGives, stopVars
<1>26. ASSUME NEW ok \in BOOLEAN, GroupTeardownEnds(ok) PROVE opt' = opt /\ verdicts \subseteq verdicts'
  BY <1>26 DEF GroupTeardownEnds, HookGives, AfterGroup, stopVars
<1>27. ASSUME NEW ok \in BOOLEAN, RunTeardownEnds(ok) PROVE opt' = opt /\ verdicts \subseteq verdicts'
  BY <1>27 DEF RunTeardownEnds, HookGives, FinalVerdict, stopVars
<1>28. ASSUME NEW ok \in BOOLEAN, CloseRun(ok) PROVE opt' = opt /\ verdicts \subseteq verdicts'
  BY <1>28 DEF CloseRun, stopVars
<1> QED
  BY <1>1, <1>2, <1>3, <1>4, <1>5, <1>6, <1>7, <1>8, <1>9, <1>10, <1>11,
     <1>12, <1>13, <1>14, <1>15, <1>16, <1>17, <1>18, <1>19, <1>20, <1>21,
     <1>22, <1>23, <1>24, <1>25, <1>26, <1>27, <1>28 DEF Progress

\* A pass that is over was finished, and stays so.
LEMMA EarlierStep ==
  ASSUME IInv, Progress \/ Killed
  PROVE  EarlierPasses'
<1>a. \A p : Finished(p) => Finished(p)'
  BY Grows DEF Finished, Passed, Chosen, IsSelected
<1>b. Endless' = Endless /\ Passes' = Passes /\ Passes \in Nat
  BY Grows, PassesType DEF Endless, Passes, IInv, Basic
<1>c. Clean /\ ~honoured /\ pc = "passEnd" => Finished(left)
  BY CatalogPositions DEF IInv, Basic, InGroup, TypeOK, PassPlaces, ThisPass, LoopsLeft, Before, Finished
<1> USE <1>a, <1>b DEF IInv, Basic, TypeOK, StopTypeOK, InGroup, PassPlaces, GroupPlaces,
            Clean, Late,
            Unwinding, LoopsLeft, EarlierPasses
<1>1. CASE RefuseSelection
  BY <1>1 DEF RefuseSelection, stopVars
<1>2. CASE OpenRun
  BY <1>2 DEF OpenRun, stopVars
<1>3. CASE NoPassLeft
  BY <1>3 DEF NoPassLeft, stopVars
<1>4. CASE StopBeforePass
  BY <1>4 DEF StopBeforePass, StopNow, PassRemains
<1>5. CASE BeginPass
  BY <1>5 DEF BeginPass, PassRemains, NoStopYet, stopVars
<1>6. CASE EndPass
  BY <1>6, <1>c DEF EndPass, Counted, FailureEndsPasses, stopVars
<1>7. CASE ReportStop
  BY <1>7 DEF ReportStop, stopVars
<1>8. CASE NoGroupLeft
  BY <1>8 DEF NoGroupLeft, stopVars
<1>9. CASE SkipGroup
  BY <1>9 DEF SkipGroup, stopVars
<1>10. CASE StopBeforeGroup
  BY <1>10 DEF StopBeforeGroup, StopNow
<1>11. CASE OpenGroup
  BY <1>11 DEF OpenGroup, NoStopYet, stopVars
<1>12. CASE EndGroup
  BY <1>12 DEF EndGroup, stopVars
<1>13. CASE NoTestLeft
  BY <1>13 DEF NoTestLeft, stopVars
<1>14. CASE SkipTest
  BY <1>14 DEF SkipTest, stopVars
<1>15. CASE StopBeforeTest
  BY <1>15 DEF StopBeforeTest, StopNow
<1>16. CASE BeginTest
  BY <1>16 DEF BeginTest, NoStopYet, stopVars
<1>17. CASE ScriptReturns
  BY <1>17 DEF ScriptReturns, Verdict, stopVars
<1>18. CASE DelayAbandons
  BY <1>18 DEF DelayAbandons, StopNow, Verdict, Tallied
<1>19. CASE ScriptThrows
  BY <1>19 DEF ScriptThrows, stopVars
<1>20. CASE ThrowsForeign
  BY <1>20 DEF ThrowsForeign, InBody, HookPlaces, HookOf, InHook, stopVars
<1>21. CASE SafeRig
  BY <1>21 DEF SafeRig, stopVars
<1>22. CASE Killed
  BY <1>22 DEF Killed, SignalKills, Ended
<1>23. CASE \/ SetupThrows("runSetup", "runTeardown")
               \/ SetupThrows("groupSetup", "groupTeardown")
  BY <1>23 DEF SetupThrows, InHook, stopVars
<1>24. ASSUME NEW ok \in BOOLEAN, RunSetupReturns(ok) PROVE EarlierPasses'
  BY <1>24 DEF RunSetupReturns, HookGives, stopVars
<1>25. ASSUME NEW ok \in BOOLEAN, GroupSetupReturns(ok) PROVE EarlierPasses'
  BY <1>25 DEF GroupSetupReturns, HookGives, stopVars
<1>26. ASSUME NEW ok \in BOOLEAN, GroupTeardownEnds(ok) PROVE EarlierPasses'
  BY <1>26 DEF GroupTeardownEnds, HookGives, AfterGroup, stopVars
<1>27. ASSUME NEW ok \in BOOLEAN, RunTeardownEnds(ok) PROVE EarlierPasses'
  BY <1>27 DEF RunTeardownEnds, HookGives, FinalVerdict, stopVars
<1>28. ASSUME NEW ok \in BOOLEAN, CloseRun(ok) PROVE EarlierPasses'
  BY <1>28 DEF CloseRun, stopVars
<1> QED
  BY <1>1, <1>2, <1>3, <1>4, <1>5, <1>6, <1>7, <1>8, <1>9, <1>10, <1>11,
     <1>12, <1>13, <1>14, <1>15, <1>16, <1>17, <1>18, <1>19, <1>20, <1>21,
     <1>22, <1>23, <1>24, <1>25, <1>26, <1>27, <1>28 DEF Progress

\* In the pass under way, what lies behind has passed.
LEMMA ThisStep ==
  ASSUME IInv, Progress \/ Killed
  PROVE  ThisPass'
<1> SUFFICES ASSUME Clean', ~honoured', pc' \in PassPlaces,
                    NEW g \in Groups, NEW t \in Chosen(g), Before(g, t)'
             PROVE  Passed(left, g, t)'
  BY Grows DEF ThisPass, Chosen, IsSelected
<1>a. /\ g \in 1..Len(Catalog) /\ t \in 1..Len(Catalog[g])
      /\ t \in DOMAIN Catalog[g] /\ IsSelected(Catalog[g][t])
      /\ Len(Catalog) \in Nat /\ Len(Catalog[g]) \in Nat
  BY CatalogPositions DEF Chosen
<1> USE <1>a, Grows DEF IInv, Basic, TypeOK, StopTypeOK, InGroup, PassPlaces, GroupPlaces,
            Clean, Late,
            Unwinding, OpenTest, ThisPass, Before, Passed, Recorded
<1>1. CASE RefuseSelection
  BY <1>1 DEF RefuseSelection, stopVars
<1>2. CASE OpenRun
  BY <1>2 DEF OpenRun, stopVars
<1>3. CASE NoPassLeft
  BY <1>3 DEF NoPassLeft, stopVars
<1>4. CASE StopBeforePass
  BY <1>4 DEF StopBeforePass, StopNow, PassRemains
<1>5. CASE BeginPass
  BY <1>5 DEF BeginPass, PassRemains, NoStopYet, stopVars
<1>6. CASE EndPass
  BY <1>6 DEF EndPass, Counted, FailureEndsPasses, stopVars
<1>7. CASE ReportStop
  BY <1>7 DEF ReportStop, stopVars
<1>8. CASE NoGroupLeft
  BY <1>8 DEF NoGroupLeft, stopVars
<1>9. CASE SkipGroup
  BY <1>9 DEF SkipGroup, AnySelected, Chosen, stopVars
<1>10. CASE StopBeforeGroup
  BY <1>10 DEF StopBeforeGroup, StopNow
<1>11. CASE OpenGroup
  BY <1>11 DEF OpenGroup, NoStopYet, stopVars
<1>12. CASE EndGroup
  BY <1>12 DEF EndGroup, stopVars
<1>13. CASE NoTestLeft
  <2>1. grp = g => t < tst
    BY <1>13 DEF NoTestLeft
  <2> QED
    BY <1>13, <2>1 DEF NoTestLeft, stopVars
<1>14. CASE SkipTest
  <2>1. grp = g => t # tst
    BY <1>14 DEF SkipTest
  <2>2. grp = g /\ t < tst + 1 => t < tst
    BY <2>1
  <2> QED
    BY <1>14, <2>1, <2>2 DEF SkipTest, stopVars
<1>15. CASE StopBeforeTest
  BY <1>15 DEF StopBeforeTest, StopNow
<1>16. CASE BeginTest
  BY <1>16 DEF BeginTest, NoStopYet, stopVars
<1>17. CASE ScriptReturns
  BY <1>17 DEF ScriptReturns, Verdict, stopVars
<1>18. CASE DelayAbandons
  BY <1>18 DEF DelayAbandons, StopNow, Verdict, Tallied
<1>19. CASE ScriptThrows
  BY <1>19 DEF ScriptThrows, stopVars
<1>20. CASE ThrowsForeign
  BY <1>20 DEF ThrowsForeign, InBody, HookPlaces, HookOf, InHook, stopVars
<1>21. CASE SafeRig
  BY <1>21 DEF SafeRig, stopVars
<1>22. CASE Killed
  BY <1>22 DEF Killed, SignalKills, Ended
<1>23. CASE \/ SetupThrows("runSetup", "runTeardown")
               \/ SetupThrows("groupSetup", "groupTeardown")
  BY <1>23 DEF SetupThrows, InHook, stopVars
<1>24. ASSUME NEW ok \in BOOLEAN, RunSetupReturns(ok) PROVE Passed(left, g, t)'
  BY <1>24 DEF RunSetupReturns, HookGives, stopVars
<1>25. ASSUME NEW ok \in BOOLEAN, GroupSetupReturns(ok) PROVE Passed(left, g, t)'
  BY <1>25 DEF GroupSetupReturns, HookGives, stopVars
<1>26. ASSUME NEW ok \in BOOLEAN, GroupTeardownEnds(ok) PROVE Passed(left, g, t)'
  BY <1>26 DEF GroupTeardownEnds, HookGives, AfterGroup, stopVars
<1>27. ASSUME NEW ok \in BOOLEAN, RunTeardownEnds(ok) PROVE Passed(left, g, t)'
  BY <1>27 DEF RunTeardownEnds, HookGives, FinalVerdict, stopVars
<1>28. ASSUME NEW ok \in BOOLEAN, CloseRun(ok) PROVE Passed(left, g, t)'
  BY <1>28 DEF CloseRun, stopVars
<1> QED
  BY <1>1, <1>2, <1>3, <1>4, <1>5, <1>6, <1>7, <1>8, <1>9, <1>10, <1>11,
     <1>12, <1>13, <1>14, <1>15, <1>16, <1>17, <1>18, <1>19, <1>20, <1>21,
     <1>22, <1>23, <1>24, <1>25, <1>26, <1>27, <1>28 DEF Progress

LEMMA IInvStep == ASSUME IInv, [Next]_vars PROVE IInv'
<1>1. Basic'
  BY BasicStep DEF IInv
<1>2. CASE Progress \/ Killed
  BY <1>1, <1>2, FreshStep, FoldedStep, UnwindingStep, LoopsLeftStep, EarlierStep,
     ThisStep, StatusStep DEF IInv
<1>3. CASE Body \/ StopArrives \/ Gone \/ UNCHANGED vars
  BY <1>1, <1>3, StillSteps, StillKeeps DEF IInv, Claims
<1> QED
  BY <1>2, <1>3 DEF Next

LEMMA IInvInit == Init => IInv
<1> SUFFICES ASSUME Init PROVE IInv
  OBVIOUS
<1>1. Basic
  BY BasicInit
<1> QED
  BY <1>1 DEF Init, IInv, Fresh, Folded, Unwinding, LoopsLeft, EarlierPasses, ThisPass,
              Status, Clean, Late, PassPlaces, GroupPlaces

\* Success means what it says for every catalog, selection, number of passes
\* and set of hooks, whatever scripts, hooks and stop sources do.
THEOREM ExitZeroIsHonest == Spec => []ExitZeroMeansPassed
<1>1. IInv => ExitZeroMeansPassed
  <2> SUFFICES ASSUME IInv, exit = "zero", ~Skeleton
               PROVE  /\ Unmatched = {} /\ ~Endless
                      /\ faults = {} /\ ~honoured
                      /\ \A p \in 1..Passes, g \in Groups :
                           \A t \in Chosen(g) : Passed(p, g, t)
                      /\ \A v \in verdicts : v.verdict = "pass"
    BY DEF ExitZeroMeansPassed
  <2>1. pc = "done" /\ Clean
    BY DEF IInv, Status, Unwinding, Clean, PassPlaces, GroupPlaces
  <2>2. ~honoured /\ ~Endless /\ \A p \in 1..Passes : Finished(p)
    BY <2>1 DEF IInv, LoopsLeft, EarlierPasses, Late
  <2>3. Unmatched = {} /\ faults = {} /\ \A v \in verdicts : v.verdict = "pass"
    BY <2>1 DEF IInv, Folded
  <2> QED
    BY <2>2, <2>3 DEF Finished
<1>2. IInv /\ [Next]_vars => IInv'
  BY IInvStep
<1> QED
  BY IInvInit, <1>1, <1>2, PTL DEF Spec

----------------------------------------------------------------------------
(* The contract of a run.                                                *)

\* Which guards are alive at each place.
OwedThere ==
  /\ pc \in {"start", "safing", "closing", "done"} => owed = {}
  /\ pc \in {"runSetup", "passLoop", "groupLoop", "groupEnd", "passEnd", "passesDone",
             "runTeardown"} => owed = {"run"}
  /\ pc \in {"groupSetup", "testLoop", "script", "groupTeardown"} =>
       owed = {"run", "group"}

ContractStep == [Contract!Next]_<<Attached, Stage, OpenBrackets, energised,
                                  IF pc \in {"killed", "terminated"} THEN "killed" ELSE exit>>

\* Each step of the run's control is a step of the contract, or none.
LEMMA ControlKeepsContract ==
  ASSUME TypeOK, OwedThere, Progress \/ Killed
  PROVE  OwedThere' /\ ContractStep
<1> USE DEF TypeOK, OwedThere, ContractStep, Contract!Next, Contract!Refuse,
            Contract!OpenRun, Contract!OpenGroup, Contract!Work, Contract!CloseGroup,
            Contract!CloseRun, Contract!Safe, Contract!End, Contract!Kill, Attached,
            Stage, OpenBrackets, Ended
<1>1. CASE RefuseSelection
  BY <1>1 DEF RefuseSelection, stopVars
<1>2. CASE OpenRun
  BY <1>2 DEF OpenRun, stopVars
<1>3. CASE NoPassLeft
  BY <1>3 DEF NoPassLeft, stopVars
<1>4. CASE StopBeforePass
  BY <1>4 DEF StopBeforePass, StopNow, PassRemains
<1>5. CASE BeginPass
  BY <1>5 DEF BeginPass, PassRemains, NoStopYet, stopVars
<1>6. CASE EndPass
  BY <1>6 DEF EndPass, Counted, FailureEndsPasses, stopVars
<1>7. CASE ReportStop
  BY <1>7 DEF ReportStop, stopVars
<1>8. CASE NoGroupLeft
  BY <1>8 DEF NoGroupLeft, stopVars
<1>9. CASE SkipGroup
  BY <1>9 DEF SkipGroup, stopVars
<1>10. CASE StopBeforeGroup
  BY <1>10 DEF StopBeforeGroup, StopNow
<1>11. CASE OpenGroup
  BY <1>11 DEF OpenGroup, NoStopYet, stopVars
<1>12. CASE EndGroup
  BY <1>12 DEF EndGroup, stopVars
<1>13. CASE NoTestLeft
  BY <1>13 DEF NoTestLeft, stopVars
<1>14. CASE SkipTest
  BY <1>14 DEF SkipTest, stopVars
<1>15. CASE StopBeforeTest
  BY <1>15 DEF StopBeforeTest, StopNow
<1>16. CASE BeginTest
  BY <1>16 DEF BeginTest, NoStopYet, stopVars
<1>17. CASE ScriptReturns
  BY <1>17 DEF ScriptReturns, stopVars
<1>18. CASE DelayAbandons
  BY <1>18 DEF DelayAbandons, StopNow
<1>19. CASE ScriptThrows
  BY <1>19 DEF ScriptThrows, stopVars
<1>20. CASE ThrowsForeign
  <2>1. pc \in {"runSetup", "groupSetup", "script"} /\ pc' = "terminated"
    BY <1>20 DEF ThrowsForeign, InBody, InHook, HookPlaces, HookOf
  <2>2. OwedThere'
    BY <2>1
  <2>3. UNCHANGED <<opt, owed, energised>>
    BY <1>20 DEF ThrowsForeign
  <2>4. Contract!Kill
    BY <2>1, <2>3
  <2> QED
    BY <2>2, <2>4
<1>21. CASE SafeRig
  BY <1>21 DEF SafeRig, SafingLeaves, stopVars
<1>22. CASE Killed
  BY <1>22 DEF Killed, SignalKills
<1>23. CASE \/ SetupThrows("runSetup", "runTeardown")
               \/ SetupThrows("groupSetup", "groupTeardown")
  BY <1>23 DEF SetupThrows, InHook, stopVars
<1>24. ASSUME NEW ok \in BOOLEAN, RunSetupReturns(ok) PROVE OwedThere' /\ ContractStep
  BY <1>24 DEF RunSetupReturns, HookGives, stopVars
<1>25. ASSUME NEW ok \in BOOLEAN, GroupSetupReturns(ok) PROVE OwedThere' /\ ContractStep
  BY <1>25 DEF GroupSetupReturns, HookGives, stopVars
<1>26. ASSUME NEW ok \in BOOLEAN, GroupTeardownEnds(ok) PROVE OwedThere' /\ ContractStep
  BY <1>26 DEF GroupTeardownEnds, HookGives, AfterGroup, stopVars
<1>27. ASSUME NEW ok \in BOOLEAN, RunTeardownEnds(ok) PROVE OwedThere' /\ ContractStep
  BY <1>27 DEF RunTeardownEnds, HookGives, FinalVerdict, stopVars
<1>28. ASSUME NEW ok \in BOOLEAN, CloseRun(ok) PROVE OwedThere' /\ ContractStep
  BY <1>28 DEF CloseRun, stopVars
<1> QED
  BY <1>1, <1>2, <1>3, <1>4, <1>5, <1>6, <1>7, <1>8, <1>9, <1>10, <1>11,
     <1>12, <1>13, <1>14, <1>15, <1>16, <1>17, <1>18, <1>19, <1>20, <1>21,
     <1>22, <1>23, <1>24, <1>25, <1>26, <1>27, <1>28 DEF Progress

LEMMA BodyKeepsContract ==
  ASSUME TypeOK, OwedThere, Body \/ StopArrives \/ Gone \/ UNCHANGED vars
  PROVE  OwedThere' /\ ContractStep
<1> USE DEF TypeOK, OwedThere, ContractStep, Contract!Next, Contract!Work, Attached,
            Stage, OpenBrackets, Ended
<1>1. CASE \E place \in HookPlaces : EnterHook(place)
  BY <1>1 DEF EnterHook
<1>2. CASE \E ok \in BOOLEAN : PostCheck(ok)
  BY <1>2 DEF PostCheck
<1>3. CASE \E on \in BOOLEAN : DriveRig(on)
  BY <1>3 DEF DriveRig, InBody, InHook, HookPlaces, HookOf
<1>4. CASE StopArrives \/ Gone \/ UNCHANGED vars
  BY <1>4 DEF StopArrives, Gone, vars, runVars
<1> QED
  BY <1>1, <1>2, <1>3, <1>4 DEF Body

\* Whatever its scripts throw, every run nests
\* and closes its brackets, touches the rig only inside them, safes it after
\* the last and only then ends with a status, unless it is killed.
THEOREM ContractImplemented == Spec => RunKeepsContract
<1> DEFINE Held == Basic /\ OwedThere
<1>1. Init => Held /\ Contract!Init
  <2> SUFFICES ASSUME Init PROVE Held /\ Contract!Init
    OBVIOUS
  <2>1. Held
    BY BasicInit DEF Init, OwedThere
  <2>2. pc = "start" /\ exit = "none" /\ Stage = "before"
    BY DEF Init, Stage, Ended
  <2>3. OpenBrackets = <<>>
    BY DEF Init, OpenBrackets
  <2>4. Attached \in BOOLEAN /\ energised \in BOOLEAN
    BY DEF Init, Attached
  <2> QED
    BY <2>1, <2>2, <2>3, <2>4 DEF Contract!Init
<1>2. Held /\ [Next]_vars => Held' /\ ContractStep
  <2> SUFFICES ASSUME Held, [Next]_vars PROVE Held' /\ ContractStep
    OBVIOUS
  <2>1. Basic' /\ TypeOK
    BY BasicStep DEF Basic
  <2>2. CASE Progress \/ Killed
    BY <2>1, <2>2, ControlKeepsContract
  <2>3. CASE Body \/ StopArrives \/ Gone \/ UNCHANGED vars
    BY <2>1, <2>3, BodyKeepsContract
  <2> QED
    BY <2>2, <2>3 DEF Next
<1> HIDE DEF Held
<1> QED
  BY <1>1, <1>2, PTL
     DEF Spec, RunKeepsContract, Contract!Spec, Contract!contractVars, ContractStep

----------------------------------------------------------------------------
(* What is on record of a run.                                             *)

\* The verdict is of the pass under way and of a test behind where it is.
Behind(v) ==
  /\ v.left = left
  /\ \/ v.group < grp
     \/ v.group = grp /\ pc \in {"groupTeardown", "groupEnd"}
     \/ /\ v.group = grp /\ pc \in {"testLoop", "script"}
        /\ \E t \in 1..(tst - 1) : t \in DOMAIN Catalog[grp] /\ v.test = Catalog[grp][t]

\* Passes are counted down, so what is on record is of the passes over and of
\* the part of this one that lies behind.
PassesCountDown ==
  /\ pc \in {"start", "runSetup"} => verdicts = {}
  /\ ~Endless /\ pc \in {"passLoop"} \cup PassPlaces => left <= Passes
  /\ ~Endless /\ pc = "passLoop" => \A v \in verdicts : v.left > left
  /\ ~Endless /\ pc \in PassPlaces => \A v \in verdicts : v.left > left \/ Behind(v)

\* Nothing is run once a stop was honoured, and what it cut is lost.
CutIsLost == (honoured => pc # "script") /\ HonouredMeansWorkLost

\* Under --until-failure a failing verdict is of the pass under way, which
\* allPassed knows of, or of the last.
FailureIsLast ==
  opt.untilFailure /\ ~Endless =>
    /\ pc = "passLoop" => \A v \in verdicts : v.verdict = "pass"
    /\ pc \in PassPlaces =>
         \A v \in verdicts : v.verdict # "pass" => v.left = left /\ ~passOk
    /\ UntilFailureStops

\* Where a group is open in the journal.
OpenPlaces == GroupPlaces \cup {"groupTeardown", "groupEnd"}

\* Off the unwinding path the journal's open group and test are the ones the
\* indices point at.
JournalInStep ==
  ~thrown /\ pc \in {"start", "runSetup", "passLoop", "passesDone", "runTeardown"} \cup PassPlaces =>
    /\ jrnl.group = IF pc \in OpenPlaces THEN grp ELSE 0
    /\ jrnl.test = IF pc = "script" THEN Catalog[grp][tst] ELSE NoTest
    /\ jrnl.open = (pc = "script")

\* The test whose script runs is one that was asked for.
ScriptChosen == pc = "script" => IsSelected(Catalog[grp][tst])

OnRecord ==
  /\ PassesCountDown /\ CutIsLost /\ FailureIsLast /\ JournalInStep /\ ScriptChosen

\* The verdict a test closes with is of the pass under way and of the place
\* the run is at.
LEMMA RecordedHere ==
  ASSUME Basic, pc = "script", NEW w
  PROVE  /\ Recorded(w).left = left
         /\ Recorded(w).group = grp
         /\ Recorded(w).test = Catalog[grp][tst]
         /\ Recorded(w).verdict = w
BY DEF Basic, OpenTest, GroupPlaces, Recorded

LEMMA RecordTypes ==
  ASSUME TypeOK
  PROVE  \A v \in verdicts : v.left \in Nat /\ v.group \in Nat
<1>1. Groups \subseteq Nat
  BY CatalogPositions
<1> QED
  BY <1>1 DEF TypeOK, Records

\* What the main thread's control does not touch leaves the record alone.
LEMMA StillRecord ==
  ASSUME PassesCountDown, CutIsLost, FailureIsLast, Still
  PROVE  PassesCountDown' /\ CutIsLost' /\ FailureIsLast'
BY DEF PassesCountDown, CutIsLost, FailureIsLast, Still, Behind, HonouredMeansWorkLost,
       UntilFailureStops, Lost, AnySelected, Chosen, IsSelected, Endless, Passes

\* Every verdict stays behind the run.
LEMMA CountDownStep ==
  ASSUME IInv, PassesCountDown, Progress \/ Killed
  PROVE  PassesCountDown'
<1> USE Grows, PassesType, RecordTypes, CatalogPositions DEF IInv, Basic, TypeOK, StopTypeOK, InGroup, PassPlaces, GroupPlaces, PassesCountDown, Endless, Passes, Behind
<1>1. CASE RefuseSelection
  BY <1>1 DEF RefuseSelection, stopVars
<1>2. CASE OpenRun
  BY <1>2 DEF OpenRun, stopVars
<1>3. CASE NoPassLeft
  BY <1>3 DEF NoPassLeft, stopVars
<1>4. CASE StopBeforePass
  BY <1>4 DEF StopBeforePass, StopNow, PassRemains
<1>5. CASE BeginPass
  BY <1>5 DEF BeginPass, PassRemains, NoStopYet, stopVars
<1>6. CASE EndPass
  BY <1>6 DEF EndPass, Counted, FailureEndsPasses, stopVars
<1>7. CASE ReportStop
  BY <1>7 DEF ReportStop, stopVars
<1>8. CASE NoGroupLeft
  BY <1>8 DEF NoGroupLeft, stopVars
<1>9. CASE SkipGroup
  BY <1>9 DEF SkipGroup, stopVars
<1>10. CASE StopBeforeGroup
  BY <1>10 DEF StopBeforeGroup, StopNow
<1>11. CASE OpenGroup
  BY <1>11 DEF OpenGroup, NoStopYet, stopVars
<1>12. CASE EndGroup
  BY <1>12 DEF EndGroup, GroupEnded, stopVars
<1>13. CASE NoTestLeft
  BY <1>13 DEF NoTestLeft, stopVars
<1>14. CASE SkipTest
  BY <1>14 DEF SkipTest, stopVars
<1>15. CASE StopBeforeTest
  BY <1>15 DEF StopBeforeTest, StopNow
<1>16. CASE BeginTest
  BY <1>16 DEF BeginTest, NoStopYet, stopVars
<1>17. CASE ScriptReturns
  <2>1. PICK r : /\ verdicts' = verdicts \cup {r}
                 /\ r.left = left /\ r.group = grp /\ r.test = Catalog[grp][tst]
    BY <1>17, RecordedHere DEF ScriptReturns
  <2>2. UNCHANGED <<opt, left, grp>> /\ ~(pc' \in {"start", "runSetup", "passLoop"}) /\ pc = "script"
    BY <1>17 DEF ScriptReturns
  <2>3. \/ pc' = "testLoop" /\ tst' = tst + 1
        \/ pc' = "groupTeardown"
    BY <1>17 DEF ScriptReturns
  <2>4. \A v \in verdicts : Behind(v) => Behind(v)'
    BY <2>2, <2>3
  <2>5. Behind(r)'
    BY <2>1, <2>2, <2>3 DEF OpenTest
  <2> QED
    BY <2>1, <2>2, <2>4, <2>5
<1>18. CASE DelayAbandons
  <2>1. PICK r : /\ verdicts' = verdicts \cup {r}
                 /\ r.left = left /\ r.group = grp /\ r.test = Catalog[grp][tst]
    BY <1>18, RecordedHere DEF DelayAbandons
  <2>2. UNCHANGED <<opt, left, grp>> /\ ~(pc' \in {"start", "runSetup", "passLoop"}) /\ pc = "script"
    BY <1>18 DEF DelayAbandons
  <2>3. \/ pc' = "testLoop" /\ tst' = tst + 1
        \/ pc' = "groupTeardown"
    BY <1>18 DEF DelayAbandons
  <2>4. \A v \in verdicts : Behind(v) => Behind(v)'
    BY <2>2, <2>3
  <2>5. Behind(r)'
    BY <2>1, <2>2, <2>3 DEF OpenTest
  <2> QED
    BY <2>1, <2>2, <2>4, <2>5
<1>19. CASE ScriptThrows
  BY <1>19 DEF ScriptThrows, stopVars
<1>20. CASE ThrowsForeign
  BY <1>20 DEF ThrowsForeign, InBody, HookPlaces, HookOf, InHook, stopVars
<1>21. CASE SafeRig
  BY <1>21 DEF SafeRig, SafingLeaves, stopVars
<1>22. CASE Killed
  BY <1>22 DEF Killed, SignalKills, Ended
<1>23. CASE \/ SetupThrows("runSetup", "runTeardown")
               \/ SetupThrows("groupSetup", "groupTeardown")
  BY <1>23 DEF SetupThrows, PhaseEnded, InHook, stopVars
<1>24. ASSUME NEW ok \in BOOLEAN, RunSetupReturns(ok) PROVE PassesCountDown'
  BY <1>24 DEF RunSetupReturns, PhaseEnded, HookGives, stopVars
<1>25. ASSUME NEW ok \in BOOLEAN, GroupSetupReturns(ok) PROVE PassesCountDown'
  BY <1>25 DEF GroupSetupReturns, PhaseEnded, HookGives, stopVars
<1>26. ASSUME NEW ok \in BOOLEAN, GroupTeardownEnds(ok) PROVE PassesCountDown'
  BY <1>26 DEF GroupTeardownEnds, PhaseEnded, HookGives, AfterGroup, stopVars
<1>27. ASSUME NEW ok \in BOOLEAN, RunTeardownEnds(ok) PROVE PassesCountDown'
  BY <1>27 DEF RunTeardownEnds, PhaseEnded, HookGives, FinalVerdict, stopVars
<1>28. ASSUME NEW ok \in BOOLEAN, CloseRun(ok) PROVE PassesCountDown'
  BY <1>28 DEF CloseRun, stopVars
<1> QED
  BY <1>1, <1>2, <1>3, <1>4, <1>5, <1>6, <1>7, <1>8, <1>9, <1>10, <1>11,
     <1>12, <1>13, <1>14, <1>15, <1>16, <1>17, <1>18, <1>19, <1>20, <1>21, <1>22,
     <1>23, <1>24, <1>25, <1>26, <1>27, <1>28 DEF Progress

\* A stop is honoured where something is still to be run, and nothing is run after.
LEMMA CutStep ==
  ASSUME IInv, PassesCountDown, CutIsLost, ScriptChosen, Progress \/ Killed
  PROVE  CutIsLost'
<1>a. UNCHANGED <<honoured, verdicts>> => HonouredMeansWorkLost'
  BY Grows DEF CutIsLost, HonouredMeansWorkLost, Lost, AnySelected, Chosen, IsSelected, Endless, Passes
<1>b. UNCHANGED verdicts =>
        (HonouredMeansWorkLost' <=>
           (honoured' /\ ~Endless /\ (\E g \in Groups : AnySelected(g)) =>
              \E p \in 1..Passes, g \in Groups : \E t \in Chosen(g) : Lost(p, g, t)))
  BY Grows DEF HonouredMeansWorkLost, Lost, AnySelected, Chosen, IsSelected, Endless, Passes
<1> USE <1>a, PassesType DEF IInv, Basic, ReasonFirst, TypeOK, StopTypeOK, InGroup, PassPlaces, GroupPlaces, PassesCountDown, CutIsLost
<1>1. CASE RefuseSelection
  BY <1>1 DEF RefuseSelection, stopVars
<1>2. CASE OpenRun
  BY <1>2 DEF OpenRun, stopVars
<1>3. CASE NoPassLeft
  BY <1>3 DEF NoPassLeft, stopVars
<1>4. CASE StopBeforePass
  <2> SUFFICES ASSUME ~Endless, NEW g \in Groups, AnySelected(g)
               PROVE  \E p \in 1..Passes, h \in Groups : \E t \in Chosen(h) : Lost(p, h, t)
    BY <1>4, <1>b DEF StopBeforePass
  <2>1. PICK t \in Chosen(g) : TRUE
    BY DEF AnySelected
  <2>2. left \in 1..Passes /\ \A v \in verdicts : v.left # left
    BY <1>4 DEF StopBeforePass, PassRemains
  <2> QED
    BY <2>1, <2>2 DEF Lost
<1>5. CASE BeginPass
  BY <1>5 DEF BeginPass, PassRemains, NoStopYet, stopVars
<1>6. CASE EndPass
  BY <1>6 DEF EndPass, Counted, FailureEndsPasses, stopVars
<1>7. CASE ReportStop
  BY <1>7 DEF ReportStop, stopVars
<1>8. CASE NoGroupLeft
  BY <1>8 DEF NoGroupLeft, stopVars
<1>9. CASE SkipGroup
  BY <1>9 DEF SkipGroup, stopVars
<1>10. CASE StopBeforeGroup
  <2> SUFFICES ASSUME ~Endless
               PROVE  \E p \in 1..Passes, h \in Groups : \E t \in Chosen(h) : Lost(p, h, t)
    BY <1>10, <1>b DEF StopBeforeGroup
  <2>1. grp \in Groups /\ left \in 1..Passes /\ pc = "groupLoop"
    BY <1>10 DEF StopBeforeGroup, Groups
  <2>2. PICK t \in Chosen(grp) : TRUE
    BY <1>10 DEF StopBeforeGroup, AnySelected
  <2>3. \A v \in verdicts : ~(v.left = left /\ v.group = grp)
    BY <2>1 DEF Behind
  <2> QED
    BY <2>1, <2>2, <2>3 DEF Lost
<1>11. CASE OpenGroup
  BY <1>11 DEF OpenGroup, NoStopYet, stopVars
<1>12. CASE EndGroup
  BY <1>12 DEF EndGroup, GroupEnded, stopVars
<1>13. CASE NoTestLeft
  BY <1>13 DEF NoTestLeft, stopVars
<1>14. CASE SkipTest
  BY <1>14 DEF SkipTest, stopVars
<1>15. CASE StopBeforeTest
  <2> SUFFICES ASSUME ~Endless
               PROVE  \E p \in 1..Passes, h \in Groups : \E t \in Chosen(h) : Lost(p, h, t)
    BY <1>15, <1>b DEF StopBeforeTest
  <2>1. left \in 1..Passes /\ tst \in Chosen(grp) /\ pc = "testLoop"
    BY <1>15, CatalogPositions DEF StopBeforeTest, Chosen
  <2>2. \A v \in verdicts : ~(v.left = left /\ v.group = grp /\ v.test = Catalog[grp][tst])
    BY <2>1, IdsAssumption DEF Behind, Chosen
  <2> QED
    BY <2>1, <2>2 DEF Lost
<1>16. CASE BeginTest
  BY <1>16 DEF BeginTest, NoStopYet, stopVars
<1>17. CASE ScriptReturns
  BY <1>17 DEF ScriptReturns, HonouredMeansWorkLost, stopVars
<1>18. CASE DelayAbandons
  <2>1. PICK r : /\ verdicts' = verdicts \cup {r}
                 /\ r.left = left /\ r.group = grp /\ r.verdict = "cut"
    BY <1>18, RecordedHere DEF DelayAbandons
  <2> SUFFICES ASSUME ~Endless
               PROVE  \E p \in 1..Passes, h \in Groups : \E t \in Chosen(h) :
                        \A v \in verdicts' :
                          v.left = p /\ v.group = h /\ v.test = Catalog[h][t] => v.verdict = "cut"
    BY <1>18, Grows DEF DelayAbandons, HonouredMeansWorkLost, Lost, Endless, Passes, Chosen, IsSelected
  <2>2. left \in 1..Passes /\ tst \in Chosen(grp) /\ pc = "script"
    BY <1>18 DEF DelayAbandons, Chosen, OpenTest, ScriptChosen
  <2>3. \A v \in verdicts : ~(v.left = left /\ v.group = grp /\ v.test = Catalog[grp][tst])
    BY <2>2, IdsAssumption DEF Behind, Chosen
  <2> QED
    BY <2>1, <2>2, <2>3
<1>19. CASE ScriptThrows
  BY <1>19 DEF ScriptThrows, stopVars
<1>20. CASE ThrowsForeign
  BY <1>20 DEF ThrowsForeign, InBody, HookPlaces, HookOf, InHook, stopVars
<1>21. CASE SafeRig
  BY <1>21 DEF SafeRig, SafingLeaves, stopVars
<1>22. CASE Killed
  BY <1>22 DEF Killed, SignalKills, Ended
<1>23. CASE \/ SetupThrows("runSetup", "runTeardown")
               \/ SetupThrows("groupSetup", "groupTeardown")
  BY <1>23 DEF SetupThrows, PhaseEnded, InHook, stopVars
<1>24. ASSUME NEW ok \in BOOLEAN, RunSetupReturns(ok) PROVE CutIsLost'
  BY <1>24 DEF RunSetupReturns, PhaseEnded, HookGives, stopVars
<1>25. ASSUME NEW ok \in BOOLEAN, GroupSetupReturns(ok) PROVE CutIsLost'
  BY <1>25 DEF GroupSetupReturns, PhaseEnded, HookGives, stopVars
<1>26. ASSUME NEW ok \in BOOLEAN, GroupTeardownEnds(ok) PROVE CutIsLost'
  BY <1>26 DEF GroupTeardownEnds, PhaseEnded, HookGives, AfterGroup, stopVars
<1>27. ASSUME NEW ok \in BOOLEAN, RunTeardownEnds(ok) PROVE CutIsLost'
  BY <1>27 DEF RunTeardownEnds, PhaseEnded, HookGives, FinalVerdict, stopVars
<1>28. ASSUME NEW ok \in BOOLEAN, CloseRun(ok) PROVE CutIsLost'
  BY <1>28 DEF CloseRun, stopVars
<1> QED
  BY <1>1, <1>2, <1>3, <1>4, <1>5, <1>6, <1>7, <1>8, <1>9, <1>10, <1>11,
     <1>12, <1>13, <1>14, <1>15, <1>16, <1>17, <1>18, <1>19, <1>20, <1>21, <1>22,
     <1>23, <1>24, <1>25, <1>26, <1>27, <1>28 DEF Progress

\* A failing pass is not followed by another.
LEMMA FailureStep ==
  ASSUME IInv, PassesCountDown, FailureIsLast, Progress \/ Killed
  PROVE  FailureIsLast'
<1>a. UNCHANGED verdicts => (UntilFailureStops' <=> UntilFailureStops)
  BY Grows DEF UntilFailureStops, Endless
<1> USE <1>a, Grows, RecordTypes DEF IInv, Basic, TypeOK, StopTypeOK, InGroup, PassPlaces, GroupPlaces, PassesCountDown, FailureIsLast, Endless, Passes
<1>1. CASE RefuseSelection
  BY <1>1 DEF RefuseSelection, stopVars
<1>2. CASE OpenRun
  BY <1>2 DEF OpenRun, stopVars
<1>3. CASE NoPassLeft
  BY <1>3 DEF NoPassLeft, stopVars
<1>4. CASE StopBeforePass
  BY <1>4 DEF StopBeforePass, StopNow, PassRemains
<1>5. CASE BeginPass
  BY <1>5 DEF BeginPass, PassRemains, NoStopYet, stopVars
<1>6. CASE EndPass
  BY <1>6 DEF EndPass, Counted, FailureEndsPasses, stopVars
<1>7. CASE ReportStop
  BY <1>7 DEF ReportStop, stopVars
<1>8. CASE NoGroupLeft
  BY <1>8 DEF NoGroupLeft, stopVars
<1>9. CASE SkipGroup
  BY <1>9 DEF SkipGroup, stopVars
<1>10. CASE StopBeforeGroup
  BY <1>10 DEF StopBeforeGroup, StopNow
<1>11. CASE OpenGroup
  BY <1>11 DEF OpenGroup, NoStopYet, stopVars
<1>12. CASE EndGroup
  BY <1>12 DEF EndGroup, GroupEnded, stopVars
<1>13. CASE NoTestLeft
  BY <1>13 DEF NoTestLeft, stopVars
<1>14. CASE SkipTest
  BY <1>14 DEF SkipTest, stopVars
<1>15. CASE StopBeforeTest
  BY <1>15 DEF StopBeforeTest, StopNow
<1>16. CASE BeginTest
  BY <1>16 DEF BeginTest, NoStopYet, stopVars
<1>17. CASE ScriptReturns
  <2>1. PICK r : /\ verdicts' = verdicts \cup {r}
                 /\ r.left = left /\ r.verdict = Verdict(jrnl)
    BY <1>17, RecordedHere DEF ScriptReturns
  <2>2. UNCHANGED <<opt, left>> /\ pc = "script" /\ pc' \in {"testLoop", "groupTeardown"}
    BY <1>17 DEF ScriptReturns
  <2>3. passOk' => passOk /\ r.verdict = "pass"
    BY <1>17, <2>1 DEF ScriptReturns, OpenTest, Verdict
  <2>4. r.left \in Nat /\ \A v \in verdicts : v.left \in Nat /\ (~Endless => v.left >= r.left)
    BY <2>1, <2>2 DEF Behind
  <2>5. ASSUME NEW v \in verdicts', NEW u \in verdicts', v.verdict # "pass", opt.untilFailure, ~Endless
        PROVE  v.left <= u.left /\ v.left = left
    BY <2>1, <2>2, <2>4, <2>5
  <2>6. ASSUME NEW v \in verdicts', v.verdict # "pass", opt.untilFailure, ~Endless
        PROVE  ~passOk'
    BY <2>1, <2>2, <2>3, <2>6
  <2> QED
    BY <2>2, <2>5, <2>6 DEF UntilFailureStops
<1>18. CASE DelayAbandons
  <2>1. PICK r : /\ verdicts' = verdicts \cup {r}
                 /\ r.left = left /\ r.verdict = "cut"
    BY <1>18, RecordedHere DEF DelayAbandons
  <2>2. UNCHANGED <<opt, left>> /\ pc = "script" /\ pc' \in {"testLoop", "groupTeardown"}
    BY <1>18 DEF DelayAbandons
  <2>3. passOk' => passOk /\ r.verdict = "pass"
    BY <1>18, <2>1 DEF DelayAbandons, OpenTest, Verdict, Tallied, Journals
  <2>4. r.left \in Nat /\ \A v \in verdicts : v.left \in Nat /\ (~Endless => v.left >= r.left)
    BY <2>1, <2>2 DEF Behind
  <2>5. ASSUME NEW v \in verdicts', NEW u \in verdicts', v.verdict # "pass", opt.untilFailure, ~Endless
        PROVE  v.left <= u.left /\ v.left = left
    BY <2>1, <2>2, <2>4, <2>5
  <2>6. ASSUME NEW v \in verdicts', v.verdict # "pass", opt.untilFailure, ~Endless
        PROVE  ~passOk'
    BY <2>1, <2>2, <2>3, <2>6
  <2> QED
    BY <2>2, <2>5, <2>6 DEF UntilFailureStops
<1>19. CASE ScriptThrows
  BY <1>19 DEF ScriptThrows, stopVars
<1>20. CASE ThrowsForeign
  BY <1>20 DEF ThrowsForeign, InBody, HookPlaces, HookOf, InHook, stopVars
<1>21. CASE SafeRig
  BY <1>21 DEF SafeRig, SafingLeaves, stopVars
<1>22. CASE Killed
  BY <1>22 DEF Killed, SignalKills, Ended
<1>23. CASE \/ SetupThrows("runSetup", "runTeardown")
               \/ SetupThrows("groupSetup", "groupTeardown")
  BY <1>23 DEF SetupThrows, PhaseEnded, InHook, stopVars
<1>24. ASSUME NEW ok \in BOOLEAN, RunSetupReturns(ok) PROVE FailureIsLast'
  BY <1>24 DEF RunSetupReturns, PhaseEnded, HookGives, stopVars
<1>25. ASSUME NEW ok \in BOOLEAN, GroupSetupReturns(ok) PROVE FailureIsLast'
  BY <1>25 DEF GroupSetupReturns, PhaseEnded, HookGives, stopVars
<1>26. ASSUME NEW ok \in BOOLEAN, GroupTeardownEnds(ok) PROVE FailureIsLast'
  BY <1>26 DEF GroupTeardownEnds, PhaseEnded, HookGives, AfterGroup, stopVars
<1>27. ASSUME NEW ok \in BOOLEAN, RunTeardownEnds(ok) PROVE FailureIsLast'
  BY <1>27 DEF RunTeardownEnds, PhaseEnded, HookGives, FinalVerdict, stopVars
<1>28. ASSUME NEW ok \in BOOLEAN, CloseRun(ok) PROVE FailureIsLast'
  BY <1>28 DEF CloseRun, stopVars
<1> QED
  BY <1>1, <1>2, <1>3, <1>4, <1>5, <1>6, <1>7, <1>8, <1>9, <1>10, <1>11,
     <1>12, <1>13, <1>14, <1>15, <1>16, <1>17, <1>18, <1>19, <1>20, <1>21, <1>22,
     <1>23, <1>24, <1>25, <1>26, <1>27, <1>28 DEF Progress

\* The run opens and closes the journal's brackets as it goes, a throw apart; a
\* script starts only if selected.
LEMMA PlaceStep ==
  ASSUME IInv, JournalInStep, ScriptChosen, Progress \/ Killed
  PROVE  JournalInStep' /\ ScriptChosen'
<1> USE Grows DEF IInv, Basic, TypeOK, StopTypeOK, InGroup, PassPlaces, GroupPlaces, Unwinding, JournalInStep,
            OpenPlaces, Journals, ScriptChosen, IsSelected
<1>1. CASE RefuseSelection
  BY <1>1 DEF RefuseSelection, stopVars
<1>2. CASE OpenRun
  BY <1>2 DEF OpenRun, stopVars
<1>3. CASE NoPassLeft
  BY <1>3 DEF NoPassLeft, stopVars
<1>4. CASE StopBeforePass
  BY <1>4 DEF StopBeforePass, StopNow, PassRemains
<1>5. CASE BeginPass
  BY <1>5 DEF BeginPass, PassRemains, NoStopYet, stopVars
<1>6. CASE EndPass
  BY <1>6 DEF EndPass, Counted, FailureEndsPasses, stopVars
<1>7. CASE ReportStop
  BY <1>7 DEF ReportStop, stopVars
<1>8. CASE NoGroupLeft
  BY <1>8 DEF NoGroupLeft, stopVars
<1>9. CASE SkipGroup
  BY <1>9 DEF SkipGroup, stopVars
<1>10. CASE StopBeforeGroup
  BY <1>10 DEF StopBeforeGroup, StopNow
<1>11. CASE OpenGroup
  BY <1>11 DEF OpenGroup, NoStopYet, stopVars
<1>12. CASE EndGroup
  BY <1>12 DEF EndGroup, GroupEnded, stopVars
<1>13. CASE NoTestLeft
  BY <1>13 DEF NoTestLeft, stopVars
<1>14. CASE SkipTest
  BY <1>14 DEF SkipTest, stopVars
<1>15. CASE StopBeforeTest
  BY <1>15 DEF StopBeforeTest, StopNow
<1>16. CASE BeginTest
  BY <1>16 DEF BeginTest, NoStopYet, stopVars
<1>17. CASE ScriptReturns
  BY <1>17 DEF ScriptReturns, TestEnded, Verdict, stopVars
<1>18. CASE DelayAbandons
  BY <1>18 DEF DelayAbandons, TestEnded, StopNow, Verdict, Tallied
<1>19. CASE ScriptThrows
  BY <1>19 DEF ScriptThrows, stopVars
<1>20. CASE ThrowsForeign
  BY <1>20 DEF ThrowsForeign, InBody, HookPlaces, HookOf, InHook, stopVars
<1>21. CASE SafeRig
  BY <1>21 DEF SafeRig, SafingLeaves, stopVars
<1>22. CASE Killed
  BY <1>22 DEF Killed, SignalKills, Ended
<1>23. CASE \/ SetupThrows("runSetup", "runTeardown")
               \/ SetupThrows("groupSetup", "groupTeardown")
  BY <1>23 DEF SetupThrows, PhaseEnded, InHook, stopVars
<1>24. ASSUME NEW ok \in BOOLEAN, RunSetupReturns(ok) PROVE JournalInStep' /\ ScriptChosen'
  BY <1>24 DEF RunSetupReturns, PhaseEnded, HookGives, stopVars
<1>25. ASSUME NEW ok \in BOOLEAN, GroupSetupReturns(ok) PROVE JournalInStep' /\ ScriptChosen'
  BY <1>25 DEF GroupSetupReturns, PhaseEnded, HookGives, stopVars
<1>26. ASSUME NEW ok \in BOOLEAN, GroupTeardownEnds(ok) PROVE JournalInStep' /\ ScriptChosen'
  BY <1>26 DEF GroupTeardownEnds, PhaseEnded, HookGives, AfterGroup, stopVars
<1>27. ASSUME NEW ok \in BOOLEAN, RunTeardownEnds(ok) PROVE JournalInStep' /\ ScriptChosen'
  BY <1>27 DEF RunTeardownEnds, PhaseEnded, HookGives, FinalVerdict, stopVars
<1>28. ASSUME NEW ok \in BOOLEAN, CloseRun(ok) PROVE JournalInStep' /\ ScriptChosen'
  BY <1>28 DEF CloseRun, stopVars
<1> QED
  BY <1>1, <1>2, <1>3, <1>4, <1>5, <1>6, <1>7, <1>8, <1>9, <1>10, <1>11,
     <1>12, <1>13, <1>14, <1>15, <1>16, <1>17, <1>18, <1>19, <1>20, <1>21, <1>22,
     <1>23, <1>24, <1>25, <1>26, <1>27, <1>28 DEF Progress

\* The body of a hook or script posts and drives, and moves nothing else.
LEMMA BodyOnRecord ==
  ASSUME IInv, OnRecord, Body \/ StopArrives \/ Gone \/ UNCHANGED vars
  PROVE  OnRecord'
<1>1. PassesCountDown' /\ CutIsLost' /\ FailureIsLast'
  BY StillSteps, StillRecord DEF OnRecord
<1>2. ScriptChosen'
  BY StillSteps DEF OnRecord, ScriptChosen, Still, IsSelected
<1>3. JournalInStep'
  <2>1. UNCHANGED <<pc, thrown, grp, tst>>
    BY StillSteps DEF Still
  <2>2. jrnl'.group = jrnl.group /\ jrnl'.test = jrnl.test /\ jrnl'.open = jrnl.open
    BY DEF Body, EnterHook, PostCheck, DriveRig, Tallied, StopArrives, Gone, vars, runVars,
           IInv, Basic, TypeOK, Journals
  <2> QED
    BY <2>1, <2>2 DEF OnRecord, JournalInStep
<1> QED
  BY <1>1, <1>2, <1>3 DEF OnRecord

LEMMA OnRecordStep == ASSUME IInv, OnRecord, [Next]_vars PROVE OnRecord'
<1>1. CASE Progress \/ Killed
  BY <1>1, CountDownStep, CutStep, FailureStep, PlaceStep DEF OnRecord
<1>2. CASE Body \/ StopArrives \/ Gone \/ UNCHANGED vars
  BY <1>2, BodyOnRecord
<1> QED
  BY <1>1, <1>2 DEF Next

LEMMA OnRecordInit == Init => OnRecord
<1> SUFFICES ASSUME Init PROVE OnRecord
  OBVIOUS
<1> QED
  BY DEF Init, StopInit, OnRecord, PassesCountDown, CutIsLost, HonouredMeansWorkLost,
         FailureIsLast, UntilFailureStops, JournalInStep, ScriptChosen,
         PassPlaces, GroupPlaces, OpenPlaces, Closed

\* What is on record of a run is what happened in it, for every catalog and
\* every command line: a stop is on record only where it cost a test its
\* verdict, a failing pass under --until-failure is the last, and what a hook
\* or script posts carries the group and test it belongs to.
THEOREM RecordHolds == Spec => []RecordIsTrue
<1>1. IInv /\ OnRecord => RecordIsTrue
  <2> SUFFICES ASSUME IInv, OnRecord PROVE RecordIsTrue
    OBVIOUS
  <2>1. UntilFailureStops
    BY DEF OnRecord, FailureIsLast, UntilFailureStops
  <2>2. BracketAttribution
    BY DEF OnRecord, JournalInStep, BracketAttribution, InBody, InHook, HookPlaces, HookOf,
           OpenPlaces, PassPlaces, GroupPlaces
  <2> QED
    BY <2>1, <2>2 DEF OnRecord, CutIsLost, RecordIsTrue
<1>2. IInv /\ OnRecord /\ [Next]_vars => IInv' /\ OnRecord'
  BY IInvStep, OnRecordStep
<1> QED
  BY IInvInit, OnRecordInit, <1>1, <1>2, PTL DEF Spec

\* Once the flag is up no boundary check lets a group's setup or a test's
\* script begin, from whichever of the three loops it is read.
THEOREM StopsBeginNothing == Spec => NoWorkAfterStop
<1>1. ASSUME [Next]_vars, requested, pc' \in {"groupSetup", "script"}
      PROVE  pc' = pc
  <2>1. CASE Body \/ StopArrives \/ Gone \/ UNCHANGED vars
    BY <2>1, StillSteps DEF Still
  <2>2. CASE Killed
    BY <1>1, <2>2 DEF Killed
  <2>3. CASE Progress
    BY <1>1, <2>3
       DEF Progress, RefuseSelection, OpenRun, NoPassLeft, StopBeforePass, BeginPass,
           EndPass, ReportStop, NoGroupLeft, SkipGroup, StopBeforeGroup, OpenGroup,
           EndGroup, NoTestLeft, SkipTest, StopBeforeTest, BeginTest, ScriptReturns,
           DelayAbandons, ScriptThrows, ThrowsForeign, SetupThrows, RunSetupReturns,
           GroupSetupReturns, GroupTeardownEnds, AfterGroup, RunTeardownEnds, CloseRun,
           SafeRig, NoStopYet
  <2> QED
    BY <1>1, <2>1, <2>2, <2>3 DEF Next
<1> QED
  BY <1>1, PTL DEF Spec, NoWorkAfterStop

============================================================================
