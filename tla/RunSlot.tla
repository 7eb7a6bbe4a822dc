------------------------------ MODULE RunSlot ------------------------------
(***************************************************************************)
(* What the console promises about the rig (framework/webui/src/           *)
(* run_session.hpp): one run at a time. A run claims the slot before it    *)
(* has a process, and the slot is free again only when that process is     *)
(* gone.                                                                   *)
(***************************************************************************)
CONSTANTS Runs, NoRun

VARIABLES
  slot,   \* the run that has been let in, or NoRun
  onRig   \* the runs whose process exists

vars == <<slot, onRig>>

Init == slot = NoRun /\ onRig = {}

Claim(r) == slot = NoRun /\ slot' = r /\ UNCHANGED onRig

Launch(r) == slot = r /\ onRig = {} /\ onRig' = {r} /\ UNCHANGED slot

End == onRig # {} /\ onRig' = {} /\ UNCHANGED slot

Release == slot # NoRun /\ onRig = {} /\ slot' = NoRun /\ UNCHANGED onRig

Next ==
  \/ \E r \in Runs : Claim(r) \/ Launch(r)
  \/ End
  \/ Release

Spec == Init /\ [][Next]_vars

============================================================================
