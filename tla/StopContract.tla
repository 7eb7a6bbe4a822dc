---------------------------- MODULE StopContract ---------------------------
(***************************************************************************)
(* What core/control/stop_request.hpp promises the code that reads it: a   *)
(* stop is one latch with one reason, set once by whoever asks first, and  *)
(* work is cut short only after it is set.                                 *)
(***************************************************************************)

VARIABLES
  stop,  \* why a stop was asked for, "None" while nobody has
  cut    \* whether a boundary has cut the run short

Init == stop = "None" /\ cut = FALSE

Ask(why) ==
  /\ stop = "None"
  /\ stop' = why
  /\ UNCHANGED cut

CutShort ==
  /\ stop # "None"
  /\ cut' = TRUE
  /\ UNCHANGED stop

Next == CutShort \/ \E why \in {"Operator", "ConsoleGone"} : Ask(why)

Spec == Init /\ [][Next]_<<stop, cut>>

============================================================================
