---------------------------- MODULE SwitchFabric ----------------------------
(***************************************************************************)
(* The relays and the books kept of them (framework/hal/include/hal/       *)
(* fabric/switch_fabric.hpp, hal/src/fabric/rig_switching.cpp). A route is *)
(* a sequence of elements that connect() closes and disconnect() opens one *)
(* by one, each with an exchange with the switch unit that may be refused  *)
(* (nothing moved) or go unanswered (moved, but the driver throws too).    *)
(* The relays stay as they are when the process dies; the books do not.    *)
(*                                                                         *)
(* `held` is a ghost: the routes some connect() returned for and no        *)
(* disconnect() was called for since.                                      *)
(***************************************************************************)
EXTENDS Naturals, Sequences, FiniteSets

CONSTANTS
  Elements,
  Holds,     \* the routes that may be held, each at most once at a time; two
             \* of them over one path are two uses of that path
  PathOf,    \* the elements of each route, in the order they are closed
  Driven,    \* the elements whose card has an instrument that switches it
  Banks,     \* RF banks: 1-of-N selectors with no open state
  NoHold

ASSUME FabricAssumption ==
  /\ PathOf \in [Holds -> Seq(Elements)]
  /\ IsFiniteSet(Holds)
  /\ Driven \subseteq Elements
  /\ Banks \subseteq SUBSET Elements
  /\ NoHold \notin Holds

VARIABLES
  mUseCount,  \* 0 where the map of the code has no entry
  call,       \* the fabric call that runs: how far it is along its route
  held,
  relay,      \* whether each relay is closed on the bench
  suspect     \* relays whose last instruction failed, or that a dead process left

books == <<mUseCount, call, held>>
fabricVars == <<books, relay, suspect>>

Progress == {"idle", "connecting", "undoing", "connected", "refused",
             "disconnecting", "disconnected", "disconnected badly"}

Idle == [op |-> "idle", hold |-> NoHold, at |-> 0]

FabricTypeOK ==
  /\ mUseCount \in [Elements -> Nat]
  /\ call.op \in Progress
  /\ call.hold \in Holds \cup {NoHold}
  /\ call.at \in 0..(IF call.hold = NoHold THEN 0 ELSE Len(PathOf[call.hold]))
  /\ held \subseteq Holds
  /\ relay \in [Elements -> BOOLEAN]
  /\ suspect \subseteq Elements

FabricInit ==
  /\ mUseCount = [e \in Elements |-> 0]
  /\ call = Idle
  /\ held = {}
  /\ relay = [e \in Elements |-> FALSE]
  /\ suspect = {}

Latching == UNION Banks
Plain == Driven \ Latching

\* Selecting a channel of a bank leaves the others of that bank.
Selected(e) ==
  [other \in Elements |->
     \/ other = e
     \/ relay[other] /\ ~\E bank \in Banks : {e, other} \subseteq bank]

\* What a driver's close(e), or open(e), comes to.
Outcomes(e) == IF e \in Driven THEN {"done", "refused", "unanswered"} ELSE {"done"}
Moved == {"done", "unanswered"}

Drive(e, closing, outcome) ==
  /\ relay' = IF e \notin Driven \/ outcome \notin Moved \/ (~closing /\ e \in Latching)
              THEN relay
              ELSE IF closing THEN Selected(e) ELSE [relay EXCEPT ![e] = FALSE]
  /\ suspect' = IF outcome = "done" THEN suspect \ {e} ELSE suspect \cup {e}

NoDrive == UNCHANGED <<relay, suspect>>

At(op) == call.op = op
Path == PathOf[call.hold]
Count(e, n) == mUseCount' = [mUseCount EXCEPT ![e] = n]

\* Mutants: the count is taken before the driver has closed the relay; the
\* last release forgets to drop it.
CountFirst(e, outcome) == 1
NeverZero(e) == IF mUseCount[e] > 1 THEN mUseCount[e] - 1 ELSE 1

\* What a first close leaves on the books.
FirstUse(e, outcome) == IF outcome = "done" THEN 1 ELSE 0

\* What a release leaves: dropped before the driver is told.
OneFewer(e) == IF mUseCount[e] > 0 THEN mUseCount[e] - 1 ELSE 0

----------------------------------------------------------------------------
(* connect(): all or nothing.                                              *)

BeginConnect(h) ==
  /\ At("idle")
  /\ h \notin held
  /\ call' = [op |-> "connecting", hold |-> h, at |-> 0]
  /\ UNCHANGED <<mUseCount, held, relay, suspect>>

CloseNext ==
  /\ At("connecting")
  /\ call.at < Len(Path)
  /\ LET e == Path[call.at + 1] IN
       \/ /\ mUseCount[e] > 0
          /\ Count(e, mUseCount[e] + 1)
          /\ call' = [call EXCEPT !.at = @ + 1]
          /\ NoDrive
       \/ /\ mUseCount[e] = 0
          /\ \E outcome \in Outcomes(e) :
               /\ Drive(e, TRUE, outcome)
               /\ Count(e, FirstUse(e, outcome))
               /\ call' = IF outcome = "done" THEN [call EXCEPT !.at = @ + 1]
                                              ELSE [call EXCEPT !.op = "undoing"]
  /\ UNCHANGED held

ConnectReturns ==
  /\ At("connecting")
  /\ call.at = Len(Path)
  /\ call' = [call EXCEPT !.op = "connected", !.at = 0]
  /\ held' = held \cup {call.hold}
  /\ UNCHANGED <<mUseCount, relay, suspect>>

\* Whether open(e) tells the driver: with the last use, and no RF bank.
LastRelease(e) == mUseCount[e] = 1 /\ e \notin Latching

Open(e, outcome) ==
  /\ Count(e, OneFewer(e))
  /\ IF LastRelease(e) THEN Drive(e, FALSE, outcome) ELSE NoDrive

Openings(e) == IF LastRelease(e) THEN Outcomes(e) ELSE {"done"}

UndoNext ==
  /\ At("undoing")
  /\ call.at > 0
  /\ \E outcome \in Openings(Path[call.at]) : Open(Path[call.at], outcome)
  /\ call' = [call EXCEPT !.at = @ - 1]
  /\ UNCHANGED held

ConnectThrows ==
  /\ At("undoing")
  /\ call.at = 0
  /\ call' = [call EXCEPT !.op = "refused"]
  /\ UNCHANGED <<mUseCount, held, relay, suspect>>

----------------------------------------------------------------------------
(* disconnect(): all of it, whatever fails. Of a route nobody holds it     *)
(* would find no entry (or another holder's): callers pair their calls.    *)

BeginDisconnect(h) ==
  /\ At("idle")
  /\ h \in held
  /\ call' = [op |-> "disconnecting", hold |-> h, at |-> 0]
  /\ held' = held \ {h}
  /\ UNCHANGED <<mUseCount, relay, suspect>>

\* Mutant: the first relay that fails ends it.
StopAt(outcome) == IF outcome = "done" THEN call.at + 1 ELSE Len(Path)

\* How far a release is after one element.
Onward(outcome) == call.at + 1

OpenNext ==
  /\ At("disconnecting") \/ At("disconnected badly")
  /\ call.at < Len(Path)
  /\ \E outcome \in Openings(Path[call.at + 1]) :
       /\ Open(Path[call.at + 1], outcome)
       /\ call' = [op   |-> IF outcome = "done" THEN call.op ELSE "disconnected badly",
                   hold |-> call.hold,
                   at   |-> Onward(outcome)]
  /\ UNCHANGED held

DisconnectReturns ==
  /\ At("disconnecting")
  /\ call.at = Len(Path)
  /\ call' = [call EXCEPT !.op = "disconnected"]
  /\ UNCHANGED <<mUseCount, held, relay, suspect>>

\* Whether the call has returned or thrown to its caller.
Over ==
  \/ call.op \in {"connected", "refused", "disconnected"}
  \/ At("disconnected badly") /\ call.at = Len(Path)

\* The caller goes on.
Taken ==
  /\ Over
  /\ call' = Idle
  /\ UNCHANGED <<mUseCount, held, relay, suspect>>

\* The caller of a connect() goes on to release what it connected.
TurnBack ==
  /\ At("connected")
  /\ call' = [call EXCEPT !.op = "disconnecting"]
  /\ held' = held \ {call.hold}
  /\ UNCHANGED <<mUseCount, relay, suspect>>

----------------------------------------------------------------------------
(* openAll(), and the death of the process: every use is forgotten.        *)
ForgetUses ==
  /\ mUseCount' = [e \in Elements |-> 0]
  /\ call' = Idle
  /\ held' = {}
  /\ suspect' = suspect \cup {e \in Elements : relay[e]}
  /\ UNCHANGED relay

FabricStep ==
  \/ \E h \in Holds : BeginConnect(h) \/ BeginDisconnect(h)
  \/ CloseNext
  \/ ConnectReturns
  \/ UndoNext
  \/ ConnectThrows
  \/ OpenNext
  \/ DisconnectReturns
  \/ Taken
  \/ TurnBack
  \/ ForgetUses

FabricSpec == FabricInit /\ [][FabricStep]_fabricVars

----------------------------------------------------------------------------
(* The uses of elements: <<route, position>>. Somebody answers for all of  *)
(* a held route, and for as much of the moving one as is closed.           *)

AllUses == UNION {{h} \X DOMAIN PathOf[h] : h \in Holds}

Answered(use) ==
  \/ use[1] \in held
  \/ /\ use[1] = call.hold
     /\ \/ call.op \in {"connecting", "undoing"} /\ use[2] <= call.at
        \/ call.op \in {"disconnecting", "disconnected badly"} /\ use[2] > call.at

UsesOf(e) == {use \in AllUses : PathOf[use[1]][use[2]] = e /\ Answered(use)}

\* Nothing is counted that nobody answers for, and nothing anybody answers for
\* is left out, whichever relays refuse and wherever in a route they do
\* (switch_fabric.hpp's mUseCount): a lost release would keep a relay closed
\* for good, a lost use would open it under somebody else's rail.
CountsAreHolders == \A e \in Elements : mUseCount[e] = Cardinality(UsesOf(e))

\* An element the books call closed is closed on the bench, unless it is a bank
\* channel (two holders of one bank are the rig's business).
CountedIsClosed == \A e \in Plain : mUseCount[e] > 0 => relay[e]

\* A relay is closed with nobody holding it only where an instruction failed or
\* a process died (SwitchFabric::open, connect's undo).
ClosedIsAccounted == \A e \in Plain : relay[e] => mUseCount[e] > 0 \/ e \in suspect

\* The books seen from outside: RouteHolders, with a route held from its
\* connect()'s return to its disconnect()'s call.
Moving == IF call.op \in {"connecting", "undoing", "disconnecting", "disconnected badly"}
          THEN call.hold ELSE NoHold
Promise == INSTANCE RouteHolders WITH
  Needs <- [h \in Holds |-> {PathOf[h][i] : i \in DOMAIN PathOf[h]}],
  closed <- {e \in Elements : mUseCount[e] > 0},
  moving <- Moving

\* The fabric keeps that promise (switch_fabric.hpp's connect and disconnect).
RoutesAreShared == Promise!Spec

=============================================================================
