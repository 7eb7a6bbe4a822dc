---------------------------- MODULE RunContract ----------------------------
(***************************************************************************)
(* What a run promises the rig and its caller (main.cpp on TeardownGuard   *)
(* and hal::RigSafingGuard): the run's bracket opens at most once, group   *)
(* brackets open inside it one at a time, every bracket opened is closed,  *)
(* the innermost first; the rig is touched only inside a bracket and is    *)
(* safed after the last has closed, which switches things off or fails to, *)
(* and never on; and only then does the run end with a status. The one     *)
(* other way out is being killed.                                          *)
(***************************************************************************)
EXTENDS Sequences

VARIABLES
  attached,  \* whether the bench is: settled before the run, which drives
             \* nothing on a detached one
  stage,     \* "before", "in", "after" the run's bracket, "safed", "ended"
  brackets,  \* the open brackets, innermost last
  live,      \* whether the rig is energised
  outcome    \* the status, or "killed"

contractVars == <<attached, stage, brackets, live, outcome>>

Init ==
  /\ attached \in BOOLEAN
  /\ stage = "before"
  /\ brackets = <<>>
  /\ live \in BOOLEAN
  /\ outcome = "none"

Refuse ==
  /\ stage = "before"
  /\ stage' = "after"
  /\ UNCHANGED <<attached, brackets, live, outcome>>

OpenRun ==
  /\ stage = "before"
  /\ stage' = "in"
  /\ brackets' = <<"run">>
  /\ UNCHANGED <<attached, live, outcome>>

OpenGroup ==
  /\ brackets = <<"run">>
  /\ brackets' = <<"run", "group">>
  /\ UNCHANGED <<attached, stage, live, outcome>>

Work ==
  /\ stage = "in"
  /\ attached
  /\ live' \in BOOLEAN
  /\ UNCHANGED <<attached, stage, brackets, outcome>>

CloseGroup ==
  /\ brackets = <<"run", "group">>
  /\ brackets' = <<"run">>
  /\ UNCHANGED <<attached, stage, live, outcome>>

CloseRun ==
  /\ brackets = <<"run">>
  /\ brackets' = <<>>
  /\ stage' = "after"
  /\ UNCHANGED <<attached, live, outcome>>

Safe ==
  /\ stage = "after"
  /\ stage' = "safed"
  /\ live' \in IF attached THEN {live, FALSE} ELSE {live}
  /\ UNCHANGED <<attached, brackets, outcome>>

End(status) ==
  /\ stage = "safed"
  /\ stage' = "ended"
  /\ outcome' = status
  /\ UNCHANGED <<attached, brackets, live>>

\* A signal, or an exception that nothing catches: nothing is unwound.
Kill ==
  /\ stage # "ended"
  /\ stage' = "ended"
  /\ outcome' = "killed"
  /\ UNCHANGED <<attached, brackets, live>>

Next ==
  \/ Refuse \/ OpenRun \/ OpenGroup \/ Work \/ CloseGroup \/ CloseRun
  \/ Safe \/ Kill
  \/ \E status \in {"zero", "nonzero"} : End(status)

Spec == Init /\ [][Next]_contractVars

============================================================================
