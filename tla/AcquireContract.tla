-------------------------- MODULE AcquireContract --------------------------
(***************************************************************************)
(* What Arm and Await promise a script, whatever the scope (core/verbs/    *)
(* acquire.hpp): a yes is said once per Arm, and only of an acquisition    *)
(* that this Arm started and that is complete.                             *)
(***************************************************************************)

VARIABLES
  expecting,  \* an Arm is waiting for its Await
  caught,     \* the acquisition the last Arm started is complete
  answer      \* the last Await said yes, and nothing has been armed since

acquireVars == <<expecting, caught, answer>>

Init == ~expecting /\ ~caught /\ ~answer

Arm == expecting' = TRUE /\ caught' = FALSE /\ answer' = FALSE

Catch == ~caught /\ caught' = TRUE /\ UNCHANGED <<expecting, answer>>

Await ==
  /\ expecting
  /\ expecting' = FALSE
  /\ answer' \in {FALSE, caught}
  /\ UNCHANGED caught

\* A refused Arm, a Setup, a safing, another unit: nothing is expected, or what
\* was said is taken back.
Drop ==
  /\ expecting' \in {FALSE, expecting}
  /\ caught' \in {FALSE, caught}
  /\ answer' = FALSE

Next == Arm \/ Catch \/ Await \/ Drop

Spec == Init /\ [][Next]_acquireVars
=============================================================================
