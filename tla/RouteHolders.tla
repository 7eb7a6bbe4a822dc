---------------------------- MODULE RouteHolders ----------------------------
(***************************************************************************)
(* What hal/fabric/switch_fabric.hpp promises those who share relays: an   *)
(* element is closed exactly while somebody holds a route through it, a    *)
(* route is taken whole or not at all, it is given up whole even if a      *)
(* relay refuses, and taking or giving up one leaves every element of the  *)
(* others alone.                                                           *)
(***************************************************************************)
CONSTANTS
  Holds,    \* the routes somebody may hold
  Needs,    \* the elements of each
  NoHold

VARIABLES
  held,     \* the routes in somebody's hands
  closed,   \* the elements the fabric reports as closed
  moving    \* the route being taken or given up, or NoHold

vars == <<held, closed, moving>>

Of(routes) == UNION {Needs[h] : h \in routes}

Init == held = {} /\ closed = {} /\ moving = NoHold

Begin(h) ==
  /\ moving = NoHold
  /\ moving' = h
  /\ held' = held \ {h}
  /\ UNCHANGED closed

\* On the way, only elements of the moving route nobody else holds may differ.
Move ==
  /\ moving # NoHold
  /\ Of(held) \subseteq closed'
  /\ closed' \subseteq Of(held \cup {moving})
  /\ UNCHANGED <<held, moving>>

End ==
  /\ moving # NoHold
  /\ held' \in {held, held \cup {moving}}
  /\ closed = Of(held')
  /\ moving' = NoHold
  /\ UNCHANGED closed

ForgetAll == held' = {} /\ closed' = {} /\ moving' = NoHold

Next == (\E h \in Holds : Begin(h)) \/ Move \/ End \/ ForgetAll

Spec == Init /\ [][Next]_vars

=============================================================================
