----------------------------- MODULE RigProofs -----------------------------
(***************************************************************************)
(* Proofs about Rig and the SwitchFabric it is built on.  First the fabric *)
(* of every rig (elements, routes, banks): the use counts, the bench       *)
(* behind them and the promise of RouteHolders; then every bench (sources, *)
(* routes, relays, readings): what it keeps of those promises, and what    *)
(* its safing achieves.                                                    *)
(***************************************************************************)
EXTENDS Rig, FiniteSetTheorems, TLAPS

----------------------------------------------------------------------------
(* The fabric.                                                             *)

Calls == [op : Progress, hold : Holds \cup {NoHold}, at : Nat]

\* The call that runs is about a route, is somewhere on it, and counts that
\* route as held exactly when its connect() has returned.
CallOK ==
  /\ call \in Calls
  /\ call.op = "idle" <=> call.hold = NoHold
  /\ call.op # "idle" => call.at <= Len(PathOf[call.hold])
  /\ call.op \in {"idle", "connected", "refused"} => call.at = 0
  /\ call.op = "connected" => call.hold \in held
  /\ call.op \notin {"idle", "connected"} => call.hold \notin held

BooksOK ==
  /\ mUseCount \in [Elements -> Nat]
  /\ held \subseteq Holds
  /\ CallOK

\* The inductive invariant of the books.
BooksInv == BooksOK /\ CountsAreHolders

----------------------------------------------------------------------------
(* Uses.                                                                   *)

LEMMA UseOnPath ==
  ASSUME NEW h \in Holds, NEW i \in 1..Len(PathOf[h])
  PROVE  <<h, i>> \in AllUses /\ PathOf[h][i] \in Elements
<1>1. PathOf[h] \in Seq(Elements)
  BY FabricAssumption
<1>2. DOMAIN PathOf[h] = 1..Len(PathOf[h])
  BY <1>1
<1> QED
  BY <1>1, <1>2 DEF AllUses

LEMMA UseTyped ==
  ASSUME NEW use \in AllUses
  PROVE  /\ use = <<use[1], use[2]>>
         /\ use[1] \in Holds
         /\ use[2] \in 1..Len(PathOf[use[1]])
         /\ PathOf[use[1]][use[2]] \in Elements
<1>1. PICK h \in Holds : use \in {h} \X DOMAIN PathOf[h]
  BY DEF AllUses
<1>2. PathOf[h] \in Seq(Elements)
  BY FabricAssumption
<1>3. DOMAIN PathOf[h] = 1..Len(PathOf[h])
  BY <1>2
<1> QED
  BY <1>1, <1>2, <1>3

LEMMA AllUsesFinite == IsFiniteSet(AllUses)
<1> DEFINE f == [h \in Holds |-> {h} \X DOMAIN PathOf[h]]
           S == {{h} \X DOMAIN PathOf[h] : h \in Holds}
<1>1. f \in Surjection(Holds, S)
  BY DEF Surjection
<1>2. IsFiniteSet(S)
  BY <1>1, FS_Surjection, FabricAssumption
<1>3. ASSUME NEW h \in Holds PROVE IsFiniteSet({h} \X DOMAIN PathOf[h])
  <2>1. PathOf[h] \in Seq(Elements)
    BY FabricAssumption
  <2>2. DOMAIN PathOf[h] = 1..Len(PathOf[h]) /\ Len(PathOf[h]) \in Nat
    BY <2>1
  <2>3. IsFiniteSet(DOMAIN PathOf[h])
    BY <2>2, FS_Interval
  <2>4. IsFiniteSet({h})
    BY FS_Singleton
  <2> QED
    BY <2>3, <2>4, FS_Product
<1>4. IsFiniteSet(UNION S)
  BY <1>2, <1>3, FS_UNION
<1> QED
  BY <1>4 DEF AllUses

LEMMA UsesFinite ==
  ASSUME NEW e
  PROVE  IsFiniteSet(UsesOf(e)) /\ Cardinality(UsesOf(e)) \in Nat
<1>1. UsesOf(e) \in SUBSET AllUses
  BY DEF UsesOf
<1>2. IsFiniteSet(UsesOf(e))
  BY <1>1, AllUsesFinite, FS_Subset
<1> QED
  BY <1>2, FS_CardinalityType

\* A use that somebody answers for is counted.
LEMMA AnsweredIsCounted ==
  ASSUME BooksInv, NEW use \in AllUses, Answered(use)
  PROVE  mUseCount[PathOf[use[1]][use[2]]] > 0
<1> DEFINE e == PathOf[use[1]][use[2]]
<1>1. e \in Elements
  BY UseTyped
<1>2. use \in UsesOf(e)
  BY DEF UsesOf
<1>3. Cardinality(UsesOf(e)) # 0
  BY <1>2, UsesFinite, FS_EmptySet
<1> QED
  BY <1>1, <1>3, UsesFinite DEF BooksInv, CountsAreHolders

\* And what is counted, somebody answers for.
LEMMA CountedIsAnswered ==
  ASSUME BooksInv, NEW e \in Elements, mUseCount[e] > 0
  PROVE  \E use \in AllUses : PathOf[use[1]][use[2]] = e /\ Answered(use)
<1>1. Cardinality(UsesOf(e)) # 0
  BY DEF BooksInv, CountsAreHolders
<1>2. UsesOf(e) # {}
  BY <1>1, FS_EmptySet
<1> QED
  BY <1>2 DEF UsesOf

----------------------------------------------------------------------------
(* What a step may do to the counts: nothing, one more, one fewer.         *)

LEMMA SameUses ==
  ASSUME CountsAreHolders, UNCHANGED mUseCount,
         \A use \in AllUses : Answered(use)' <=> Answered(use)
  PROVE  CountsAreHolders'
<1>1. ASSUME NEW e \in Elements PROVE UsesOf(e)' = UsesOf(e)
  BY DEF UsesOf, AllUses
<1> QED
  BY <1>1 DEF CountsAreHolders

LEMMA OneUseMore ==
  ASSUME CountsAreHolders, mUseCount \in [Elements -> Nat],
         NEW new \in AllUses, ~Answered(new),
         \A use \in AllUses : Answered(use)' <=> (Answered(use) \/ use = new),
         mUseCount' = [mUseCount EXCEPT ![PathOf[new[1]][new[2]]] = @ + 1]
  PROVE  CountsAreHolders'
<1> DEFINE target == PathOf[new[1]][new[2]]
<1>1. target \in Elements
  BY UseTyped
<1>2. UsesOf(target)' = UsesOf(target) \cup {new} /\ new \notin UsesOf(target)
  BY DEF UsesOf, AllUses
<1>3. Cardinality(UsesOf(target)') = Cardinality(UsesOf(target)) + 1
  BY <1>2, UsesFinite, FS_AddElement
<1>4. ASSUME NEW e \in Elements, e # target PROVE UsesOf(e)' = UsesOf(e)
  BY <1>4 DEF UsesOf, AllUses
<1> QED
  BY <1>1, <1>3, <1>4 DEF CountsAreHolders

LEMMA OneUseFewer ==
  ASSUME CountsAreHolders, mUseCount \in [Elements -> Nat],
         NEW old \in AllUses, Answered(old),
         \A use \in AllUses : Answered(use)' <=> (Answered(use) /\ use # old),
         mUseCount' = [mUseCount EXCEPT ![PathOf[old[1]][old[2]]] = OneFewer(PathOf[old[1]][old[2]])]
  PROVE  CountsAreHolders'
<1> DEFINE target == PathOf[old[1]][old[2]]
<1>1. target \in Elements
  BY UseTyped
<1>2. UsesOf(target)' = UsesOf(target) \ {old} /\ old \in UsesOf(target)
  BY DEF UsesOf, AllUses
<1>3. Cardinality(UsesOf(target)') = Cardinality(UsesOf(target)) - 1
  <2>1. IsFiniteSet(UsesOf(target))
    BY UsesFinite
  <2>2. Cardinality(UsesOf(target) \ {old}) = Cardinality(UsesOf(target)) - 1
    BY <1>2, <2>1, FS_RemoveElement
  <2> QED
    BY <1>2, <2>2
<1>4. Cardinality(UsesOf(target)) # 0
  BY <1>2, UsesFinite, FS_EmptySet
<1>5. OneFewer(target) = mUseCount[target] - 1
  BY <1>1, <1>4, UsesFinite DEF CountsAreHolders, OneFewer
<1>6. ASSUME NEW e \in Elements, e # target PROVE UsesOf(e)' = UsesOf(e)
  BY <1>6 DEF UsesOf, AllUses
<1> QED
  BY <1>1, <1>3, <1>5, <1>6 DEF CountsAreHolders

----------------------------------------------------------------------------
(* Every operation keeps the invariant.                                    *)

LEMMA BooksInit == FabricInit => BooksInv
<1> SUFFICES ASSUME FabricInit PROVE BooksInv
  OBVIOUS
<1>1. BooksOK
  BY DEF FabricInit, BooksOK, CallOK, Calls, Progress, Idle
<1>2. ASSUME NEW e PROVE UsesOf(e) = {}
  BY DEF FabricInit, UsesOf, Answered, Idle
<1>3. CountsAreHolders
  BY <1>2, FS_EmptySet DEF FabricInit, CountsAreHolders
<1> QED
  BY <1>1, <1>3 DEF BooksInv

LEMMA PathLengths == \A h \in Holds : PathOf[h] \in Seq(Elements) /\ Len(PathOf[h]) \in Nat
<1>1. ASSUME NEW h \in Holds PROVE PathOf[h] \in Seq(Elements)
  BY FabricAssumption
<1> QED
  BY <1>1

\* What is known of a call that runs.
LEMMA Running ==
  ASSUME BooksInv, call.op # "idle"
  PROVE  /\ call.hold \in Holds /\ call.hold # NoHold
         /\ Path = PathOf[call.hold] /\ Path \in Seq(Elements)
         /\ Len(Path) \in Nat /\ call.at \in 0..Len(Path)
<1>1. call.hold \in Holds /\ call.at \in Nat /\ call.at <= Len(PathOf[call.hold])
  BY DEF BooksInv, BooksOK, CallOK, Calls
<1>2. PathOf[call.hold] \in Seq(Elements) /\ Len(PathOf[call.hold]) \in Nat
  BY <1>1, PathLengths
<1>3. Path = PathOf[call.hold]
  BY DEF Path
<1> QED
  BY <1>1, <1>2, <1>3, FabricAssumption

\* The calls that begin and end move no count.
LEMMA NoCountMoves ==
  ASSUME BooksInv, UNCHANGED mUseCount, held' \subseteq Holds, CallOK',
         \A use \in AllUses : Answered(use)' <=> Answered(use)
  PROVE  BooksInv'
<1>1. CountsAreHolders'
  BY SameUses DEF BooksInv
<1> QED
  BY <1>1 DEF BooksInv, BooksOK

LEMMA Begins ==
  ASSUME BooksInv, NEW h \in Holds, BeginConnect(h) \/ BeginDisconnect(h)
  PROVE  BooksInv'
<1>1. /\ call.op = "idle" /\ call'.hold = h /\ call'.at = 0
      /\ call' \in Calls
      /\ UNCHANGED mUseCount
  <2>1. CASE BeginConnect(h)
    BY <2>1 DEF BeginConnect, Calls, Progress, At
  <2>2. CASE BeginDisconnect(h)
    BY <2>2 DEF BeginDisconnect, Calls, Progress, At
  <2> QED
    BY <2>1, <2>2
<1>2. \/ call'.op = "connecting" /\ h \notin held /\ held' = held
      \/ call'.op = "disconnecting" /\ h \in held /\ held' = held \ {h}
  BY DEF BeginConnect, BeginDisconnect
<1>3. Len(PathOf[h]) \in Nat /\ h # NoHold
  BY PathLengths, FabricAssumption
<1>4. CallOK'
  BY <1>1, <1>2, <1>3 DEF CallOK, Calls
<1>5. ASSUME NEW use \in AllUses PROVE Answered(use)' <=> Answered(use)
  <2>1. use[2] \in Nat /\ use[2] > 0
    BY UseTyped, PathLengths
  <2>2. Answered(use) <=> use[1] \in held
    BY <1>1 DEF Answered
  <2>3. CASE call'.op = "connecting" /\ h \notin held /\ held' = held
    BY <1>1, <2>1, <2>2, <2>3 DEF Answered
  <2>4. CASE call'.op = "disconnecting" /\ h \in held /\ held' = held \ {h}
    BY <1>1, <2>1, <2>2, <2>4 DEF Answered
  <2> QED
    BY <1>2, <2>3, <2>4
<1> QED
  BY <1>1, <1>2, <1>4, <1>5, NoCountMoves DEF BooksInv, BooksOK

\* connect() returns, or has undone all it did: the route is answered for
\* whole, or not at all.
LEMMA ConnectEnds ==
  ASSUME BooksInv, ConnectReturns \/ ConnectThrows
  PROVE  BooksInv'
<1>1. call.op \in {"connecting", "undoing"}
  BY DEF ConnectReturns, ConnectThrows, At
<1>2. /\ call.hold \in Holds /\ call.hold # NoHold /\ call.hold \notin held
      /\ Path = PathOf[call.hold] /\ Len(Path) \in Nat /\ held \subseteq Holds /\ call \in Calls
  BY <1>1, Running DEF BooksInv, BooksOK, CallOK
<1>3. \/ /\ call.op = "connecting" /\ call.at = Len(Path)
         /\ call'.op = "connected" /\ held' = held \cup {call.hold}
      \/ /\ call.op = "undoing" /\ call.at = 0
         /\ call'.op = "refused" /\ held' = held
  BY <1>2 DEF ConnectReturns, ConnectThrows, At, Calls
<1>4. call'.hold = call.hold /\ call'.at = 0 /\ call' \in Calls /\ UNCHANGED mUseCount
  <2>1. CASE ConnectReturns
    BY <1>2, <2>1 DEF ConnectReturns, Calls, Progress
  <2>2. CASE ConnectThrows
    BY <1>2, <2>2 DEF ConnectThrows, Calls, Progress
  <2> QED
    BY <2>1, <2>2
<1>5. CallOK'
  BY <1>2, <1>3, <1>4 DEF CallOK
<1>6. ASSUME NEW use \in AllUses PROVE Answered(use)' <=> Answered(use)
  <2>1. use[2] \in Nat /\ use[2] > 0 /\ use[2] <= Len(PathOf[use[1]])
    BY UseTyped, PathLengths
  <2>2. CASE call.op = "connecting"
    BY <1>2, <1>3, <1>4, <2>1, <2>2 DEF Answered
  <2>3. CASE call.op = "undoing"
    <3>1. call.at = 0 /\ call'.op = "refused" /\ held' = held
      BY <1>3, <2>3
    <3> QED
      BY <2>1, <2>3, <3>1 DEF Answered
  <2> QED
    BY <1>1, <2>2, <2>3
<1> QED
  BY <1>2, <1>3, <1>4, <1>5, <1>6, NoCountMoves

LEMMA DisconnectEnds ==
  ASSUME BooksInv, DisconnectReturns \/ Taken \/ TurnBack
  PROVE  BooksInv'
<1>1. call.op \in {"connected", "refused", "disconnecting", "disconnected", "disconnected badly"}
  BY DEF DisconnectReturns, Taken, TurnBack, Over, At
<1>2. /\ call.hold \in Holds /\ call.hold # NoHold
      /\ Path = PathOf[call.hold] /\ Len(Path) \in Nat /\ held \subseteq Holds /\ CallOK /\ call \in Calls
      /\ call.at \in Nat
  <2>1. call \in Calls /\ call.at \in Nat
    BY DEF BooksInv, BooksOK, CallOK, Calls
  <2> QED
    BY <1>1, <2>1, Running DEF BooksInv, BooksOK
<1>3. CASE DisconnectReturns
  <2>1. /\ call.op = "disconnecting" /\ call.at = Len(Path) /\ call'.op = "disconnected"
        /\ call'.hold = call.hold /\ call'.at = call.at /\ call' \in Calls
        /\ UNCHANGED <<mUseCount, held>>
    BY <1>2, <1>3 DEF DisconnectReturns, At, Calls, Progress
  <2>2. CallOK'
    BY <1>2, <2>1 DEF CallOK, Calls
  <2>3. ASSUME NEW use \in AllUses PROVE Answered(use)' <=> Answered(use)
    <3>1. use[2] \in Nat /\ use[2] > 0 /\ use[2] <= Len(PathOf[use[1]])
      BY UseTyped, PathLengths
    <3> QED
      BY <1>2, <2>1, <3>1 DEF Answered, CallOK
  <2> QED
    BY <1>2, <2>1, <2>2, <2>3, NoCountMoves
<1>4. CASE Taken
  <2>1. /\ \/ call.op \in {"connected", "refused", "disconnected"}
           \/ (call.op = "disconnected badly" /\ call.at = Len(Path))
        /\ call'.op = "idle" /\ call'.hold = NoHold /\ call'.at = 0 /\ call' \in Calls
        /\ UNCHANGED <<mUseCount, held>>
    <3>1. call' = [op |-> "idle", hold |-> NoHold, at |-> 0] /\ UNCHANGED <<mUseCount, held>>
      BY <1>4 DEF Taken, Idle
    <3>2. call' \in Calls
      BY <3>1 DEF Calls, Progress
    <3>3. \/ call.op \in {"connected", "refused", "disconnected"}
          \/ (call.op = "disconnected badly" /\ call.at = Len(Path))
      BY <1>4 DEF Taken, Over, At
    <3>4. call'.op = "idle" /\ call'.hold = NoHold /\ call'.at = 0
      BY <3>1
    <3> QED
      BY <3>1, <3>2, <3>3, <3>4
  <2>2. CallOK'
    BY <1>2, <2>1 DEF CallOK
  <2>3. ASSUME NEW use \in AllUses PROVE Answered(use)' <=> Answered(use)
    <3>1. use[2] \in Nat /\ use[2] > 0 /\ use[2] <= Len(PathOf[use[1]])
      BY UseTyped, PathLengths
    <3>2. CASE call.op \in {"connected", "refused", "disconnected"}
      BY <2>1, <3>2 DEF Answered
    <3>3. CASE call.op = "disconnected badly" /\ call.at = Len(Path)
      <4>1. ASSUME use[1] = call.hold PROVE ~(use[2] > call.at)
        <5>1. PathOf[use[1]] = Path
          BY <1>2, <4>1
        <5>2. use[2] <= call.at
          BY <3>1, <3>3, <5>1
        <5> QED
          BY <1>2, <3>1, <5>2
      <4> QED
        BY <2>1, <3>3, <4>1 DEF Answered
    <3> QED
      BY <2>1, <3>2, <3>3
  <2> QED
    BY <1>2, <2>1, <2>2, <2>3, NoCountMoves
<1>5. CASE TurnBack
  <2>1. /\ call.op = "connected" /\ call.at = 0 /\ call.hold \in held
        /\ call'.op = "disconnecting"
        /\ call'.hold = call.hold /\ call'.at = 0 /\ call' \in Calls
        /\ UNCHANGED mUseCount /\ held' = held \ {call.hold}
    BY <1>2, <1>5 DEF TurnBack, At, Calls, Progress, CallOK
  <2>2. CallOK'
    BY <1>2, <2>1 DEF CallOK
  <2>3. ASSUME NEW use \in AllUses PROVE Answered(use)' <=> Answered(use)
    <3>1. use[2] \in Nat /\ use[2] > 0 /\ use[2] <= Len(PathOf[use[1]])
      BY UseTyped, PathLengths
    <3> QED
      BY <1>2, <2>1, <3>1 DEF Answered
  <2> QED
    BY <1>2, <2>1, <2>2, <2>3, NoCountMoves
<1> QED
  BY <1>3, <1>4, <1>5

\* A relay that closes is one use more; one that refuses, none.
LEMMA Closes ==
  ASSUME BooksInv, CloseNext
  PROVE  BooksInv'
<1> DEFINE e == Path[call.at + 1]
           new == <<call.hold, call.at + 1>>
<1>1. call.op = "connecting" /\ call.at < Len(Path)
  BY DEF CloseNext, At
<1>2. /\ call.hold \in Holds /\ call.hold # NoHold /\ call.hold \notin held
      /\ Path = PathOf[call.hold] /\ Len(Path) \in Nat /\ call.at \in Nat
      /\ held \subseteq Holds /\ call \in Calls /\ mUseCount \in [Elements -> Nat]
  <2>1. call \in Calls /\ call.at \in Nat
    BY DEF BooksInv, BooksOK, CallOK, Calls
  <2> QED
    BY <1>1, <2>1, Running DEF BooksInv, BooksOK, CallOK
<1>3. new \in AllUses /\ e \in Elements
  <2>1. call.at + 1 \in 1..Len(PathOf[call.hold])
    BY <1>1, <1>2
  <2> QED
    BY <1>2, <2>1, UseOnPath
<1>4. held' = held
  BY DEF CloseNext
<1>5. \/ /\ mUseCount' = [mUseCount EXCEPT ![e] = @ + 1]
         /\ call' = [call EXCEPT !.at = @ + 1]
      \/ /\ mUseCount' = mUseCount
         /\ call' = [call EXCEPT !.op = "undoing"]
  <2>1. CASE mUseCount[e] > 0
    <3>1. ~(mUseCount[e] = 0)
      BY <1>2, <1>3, <2>1
    <3>2. /\ mUseCount' = [mUseCount EXCEPT ![e] = mUseCount[e] + 1]
          /\ call' = [call EXCEPT !.at = @ + 1]
      BY <3>1, Zenon DEF CloseNext, Count
    <3> QED
      BY <3>2
  <2>2. CASE mUseCount[e] = 0
    <3>1. PICK outcome \in Outcomes(e) :
            /\ mUseCount' = [mUseCount EXCEPT ![e] = FirstUse(e, outcome)]
            /\ call' = IF outcome = "done" THEN [call EXCEPT !.at = @ + 1]
                                           ELSE [call EXCEPT !.op = "undoing"]
      <4>1. ~(mUseCount[e] > 0)
        BY <2>2
      <4> QED
        BY <2>2, <4>1, Zenon DEF CloseNext, Count
    <3>2. FirstUse(e, outcome) = IF outcome = "done" THEN mUseCount[e] + 1 ELSE mUseCount[e]
      BY <2>2 DEF FirstUse
    <3> QED
      BY <1>2, <1>3, <3>1, <3>2
  <2> QED
    BY <1>2, <1>3, <2>1, <2>2
<1>6. CASE /\ mUseCount' = [mUseCount EXCEPT ![e] = @ + 1]
           /\ call' = [call EXCEPT !.at = @ + 1]
  <2>1. /\ call'.op = "connecting" /\ call'.hold = call.hold /\ call'.at = call.at + 1
        /\ call' \in Calls
    BY <1>1, <1>2, <1>6 DEF Calls
  <2>2. CallOK'
    BY <1>1, <1>2, <1>4, <2>1 DEF CallOK
  <2>3. mUseCount' \in [Elements -> Nat]
    BY <1>2, <1>3, <1>6
  <2>4. ~Answered(new)
    BY <1>1, <1>2 DEF Answered
  <2>5. ASSUME NEW use \in AllUses PROVE Answered(use)' <=> (Answered(use) \/ use = new)
    <3>1. use[2] \in Nat /\ use = <<use[1], use[2]>>
      BY UseTyped, PathLengths
    <3>2. use = new <=> use[1] = call.hold /\ use[2] = call.at + 1
      BY <3>1
    <3> QED
      BY <1>1, <1>2, <1>4, <2>1, <3>1, <3>2 DEF Answered
  <2>6. CountsAreHolders'
    BY <1>2, <1>3, <1>6, <2>4, <2>5, OneUseMore DEF BooksInv
  <2> QED
    BY <1>2, <1>4, <2>2, <2>3, <2>6 DEF BooksInv, BooksOK
<1>7. CASE mUseCount' = mUseCount /\ call' = [call EXCEPT !.op = "undoing"]
  <2>1. /\ call'.op = "undoing" /\ call'.hold = call.hold /\ call'.at = call.at
        /\ call' \in Calls
    BY <1>2, <1>7 DEF Calls, Progress
  <2>2. CallOK'
    BY <1>1, <1>2, <1>4, <2>1 DEF CallOK
  <2>3. ASSUME NEW use \in AllUses PROVE Answered(use)' <=> Answered(use)
    BY <1>1, <1>4, <2>1 DEF Answered
  <2> QED
    BY <1>2, <1>4, <1>7, <2>2, <2>3, NoCountMoves
<1> QED
  BY <1>5, <1>6, <1>7

\* A relay that is released is one use fewer, whatever its driver says.
LEMMA Undoes ==
  ASSUME BooksInv, UndoNext
  PROVE  BooksInv'
<1> DEFINE old == <<call.hold, call.at>>
<1>1. call.op = "undoing" /\ call.at > 0 /\ held' = held
  BY DEF UndoNext, At
<1>2. /\ call.hold \in Holds /\ call.hold # NoHold /\ call.hold \notin held
      /\ Path = PathOf[call.hold] /\ Len(Path) \in Nat /\ call.at \in Nat /\ call.at <= Len(Path)
      /\ held \subseteq Holds /\ call \in Calls /\ mUseCount \in [Elements -> Nat]
  <2>1. call \in Calls /\ call.at \in Nat
    BY DEF BooksInv, BooksOK, CallOK, Calls
  <2> QED
    BY <1>1, <2>1, Running DEF BooksInv, BooksOK, CallOK
<1>3. old \in AllUses /\ Path[call.at] \in Elements
  <2>1. call.at \in 1..Len(PathOf[call.hold])
    BY <1>1, <1>2
  <2> QED
    BY <1>2, <2>1, UseOnPath
<1>4. mUseCount' = [mUseCount EXCEPT ![Path[call.at]] = OneFewer(Path[call.at])]
  BY DEF UndoNext, Open, Count
<1>5. /\ call'.op = "undoing" /\ call'.hold = call.hold /\ call'.at = call.at - 1
      /\ call' \in Calls
  BY <1>1, <1>2 DEF UndoNext, Calls
<1>6. CallOK'
  BY <1>1, <1>2, <1>5 DEF CallOK
<1>7. mUseCount' \in [Elements -> Nat]
  BY <1>2, <1>3, <1>4 DEF OneFewer
<1>8. Answered(old)
  BY <1>1, <1>2 DEF Answered
<1>9. ASSUME NEW use \in AllUses PROVE Answered(use)' <=> (Answered(use) /\ use # old)
  <2>1. use[2] \in Nat /\ use = <<use[1], use[2]>>
    BY UseTyped, PathLengths
  <2>2. use = old <=> use[1] = call.hold /\ use[2] = call.at
    BY <2>1
  <2> QED
    BY <1>1, <1>2, <1>5, <2>1, <2>2 DEF Answered
<1>10. CountsAreHolders'
  BY <1>2, <1>3, <1>4, <1>8, <1>9, OneUseFewer DEF BooksInv
<1> QED
  BY <1>1, <1>2, <1>6, <1>7, <1>10 DEF BooksInv, BooksOK

LEMMA Opens ==
  ASSUME BooksInv, OpenNext
  PROVE  BooksInv'
<1> DEFINE old == <<call.hold, call.at + 1>>
<1>0. call.op \in {"disconnecting", "disconnected badly"} /\ held' = held
  BY DEF OpenNext, At
<1>1. call.at < Len(Path)
  BY DEF OpenNext
<1>2. /\ call.hold \in Holds /\ call.hold # NoHold /\ call.hold \notin held
      /\ Path = PathOf[call.hold] /\ Len(Path) \in Nat /\ call.at \in Nat
      /\ held \subseteq Holds /\ call \in Calls /\ mUseCount \in [Elements -> Nat]
  <2>1. call \in Calls /\ call.at \in Nat
    BY DEF BooksInv, BooksOK, CallOK, Calls
  <2> QED
    BY <1>0, <2>1, Running DEF BooksInv, BooksOK, CallOK
<1>3. old \in AllUses /\ Path[call.at + 1] \in Elements
  <2>1. call.at + 1 \in 1..Len(PathOf[call.hold])
    BY <1>1, <1>2
  <2> QED
    BY <1>2, <2>1, UseOnPath
<1>4. mUseCount' = [mUseCount EXCEPT ![Path[call.at + 1]] = OneFewer(Path[call.at + 1])]
  BY DEF OpenNext, Open, Count
<1>5. /\ call'.op \in {"disconnecting", "disconnected badly"}
      /\ call'.hold = call.hold /\ call'.at = call.at + 1
      /\ call' \in Calls
  <2>1. PICK outcome : call' = [op   |-> IF outcome = "done" THEN call.op ELSE "disconnected badly",
                               hold |-> call.hold, at |-> call.at + 1]
    BY DEF OpenNext, Onward
  <2>2. call'.hold = call.hold /\ call'.at = call.at + 1
    BY <2>1
  <2>3. call'.op \in {"disconnecting", "disconnected badly"}
    BY <1>0, <2>1
  <2>4. call'.op \in Progress
    BY <2>3 DEF Progress
  <2>5. call.hold \in Holds \cup {NoHold} /\ call.at + 1 \in Nat
    BY <1>2
  <2>6. call' \in Calls
    <3>1. (IF outcome = "done" THEN call.op ELSE "disconnected badly") \in Progress
      BY <2>1, <2>4
    <3> QED
      BY <2>1, <2>5, <3>1 DEF Calls
  <2> QED
    BY <2>2, <2>3, <2>6
<1>6. CallOK'
  <2>1. call.at + 1 <= Len(PathOf[call.hold])
    BY <1>1, <1>2
  <2>2. CASE call'.op = "disconnecting"
    BY <1>0, <1>2, <1>5, <2>1, <2>2 DEF CallOK
  <2>3. CASE call'.op = "disconnected badly"
    BY <1>0, <1>2, <1>5, <2>1, <2>3 DEF CallOK
  <2> QED
    BY <1>5, <2>2, <2>3
<1>7. mUseCount' \in [Elements -> Nat]
  BY <1>2, <1>3, <1>4 DEF OneFewer
<1>8. Answered(old)
  <2>1. call.at + 1 > call.at
    BY <1>2
  <2> QED
    BY <1>0, <2>1 DEF Answered
<1>9. ASSUME NEW use \in AllUses PROVE Answered(use)' <=> (Answered(use) /\ use # old)
  <2>1. use[2] \in Nat /\ use = <<use[1], use[2]>>
    BY UseTyped, PathLengths
  <2>2. use = old <=> use[1] = call.hold /\ use[2] = call.at + 1
    BY <2>1
  <2>3. use[2] > call.at + 1 <=> (use[2] > call.at /\ use[2] # call.at + 1)
    BY <1>2, <2>1
  <2>4. Answered(use) <=> use[1] \in held \/ (use[1] = call.hold /\ use[2] > call.at)
    <3>1. CASE call.op = "disconnecting"
      BY <3>1 DEF Answered
    <3>2. CASE call.op = "disconnected badly"
      BY <3>2 DEF Answered
    <3> QED
      BY <1>0, <3>1, <3>2
  <2>5. Answered(use)' <=> use[1] \in held \/ (use[1] = call.hold /\ use[2] > call.at + 1)
    <3>1. CASE call'.op = "disconnecting"
      BY <1>0, <1>5, <3>1 DEF Answered
    <3>2. CASE call'.op = "disconnected badly"
      BY <1>0, <1>5, <3>2 DEF Answered
    <3> QED
      BY <1>5, <3>1, <3>2
  <2> QED
    BY <1>2, <2>2, <2>3, <2>4, <2>5
<1>10. CountsAreHolders'
  BY <1>2, <1>3, <1>4, <1>8, <1>9, OneUseFewer DEF BooksInv
<1> QED
  BY <1>0, <1>2, <1>6, <1>7, <1>10 DEF BooksInv, BooksOK

LEMMA Forgets ==
  ASSUME ForgetUses
  PROVE  BooksInv'
<1>1. BooksOK'
  BY DEF ForgetUses, BooksOK, CallOK, Calls, Progress, Idle
<1>2. ASSUME NEW e \in Elements PROVE UsesOf(e)' = {}
  BY DEF ForgetUses, UsesOf, Answered, Idle
<1>3. CountsAreHolders'
  BY <1>2, FS_EmptySet DEF ForgetUses, CountsAreHolders
<1> QED
  BY <1>1, <1>3 DEF BooksInv

LEMMA BooksStep ==
  ASSUME BooksInv, FabricStep \/ UNCHANGED books
  PROVE  BooksInv'
<1>1. CASE UNCHANGED books
  <2>1. CallOK'
    BY <1>1 DEF books, BooksInv, BooksOK, CallOK, Calls
  <2>2. ASSUME NEW use \in AllUses PROVE Answered(use)' <=> Answered(use)
    BY <1>1 DEF Answered, books
  <2> QED
    BY <1>1, <2>1, <2>2, NoCountMoves DEF books, BooksInv, BooksOK
<1>2. CASE FabricStep
  BY <1>2, Begins, ConnectEnds, DisconnectEnds, Closes, Undoes, Opens, Forgets DEF FabricStep
<1> QED
  BY <1>1, <1>2

----------------------------------------------------------------------------
(* The bench behind the books.                                             *)

BenchOK ==
  /\ relay \in [Elements -> BOOLEAN]
  /\ suspect \subseteq Elements
  /\ ClosedIsAccounted

LEMMA PlainThere == Plain \subseteq Elements /\ Plain \subseteq Driven
  BY FabricAssumption DEF Plain

\* What a close does to the relays: no plain one but its own moves.
LEMMA DriveCloses ==
  ASSUME NEW e \in Elements, NEW outcome, Drive(e, TRUE, outcome),
         relay \in [Elements -> BOOLEAN], suspect \subseteq Elements
  PROVE  /\ relay' \in [Elements -> BOOLEAN] /\ suspect' \subseteq Elements
         /\ \A other \in Plain : other # e =>
              (relay'[other] <=> relay[other]) /\ (other \in suspect' <=> other \in suspect)
         /\ (outcome = "done" /\ e \in Plain) => relay'[e]
         /\ outcome # "done" => e \in suspect'
<1>1. suspect' = IF outcome = "done" THEN suspect \ {e} ELSE suspect \cup {e}
  BY DEF Drive
<1>2. relay' = relay \/ relay' = Selected(e)
  BY DEF Drive
<1>3. relay' \in [Elements -> BOOLEAN]
  BY <1>2 DEF Selected
<1>4. ASSUME NEW other \in Plain, other # e PROVE relay'[other] <=> relay[other]
  <2>1. CASE relay' = relay
    BY <2>1
  <2>2. CASE relay' = Selected(e)
    <3>1. other \in Elements /\ ~\E bank \in Banks : {e, other} \subseteq bank
      BY FabricAssumption DEF Plain, Latching
    <3>2. relay'[other] <=> other = e \/ (relay[other] /\ ~\E bank \in Banks : {e, other} \subseteq bank)
      BY <2>2, <3>1 DEF Selected
    <3> QED
      BY <1>4, <3>1, <3>2
  <2> QED
    BY <1>2, <2>1, <2>2
<1>5. ASSUME outcome = "done", e \in Plain PROVE relay'[e]
  <2>1. relay' = Selected(e)
    BY <1>5 DEF Drive, Moved, Plain
  <2> QED
    BY <2>1 DEF Selected
<1> QED
  BY <1>1, <1>3, <1>4, <1>5

\* What an open does to them.
LEMMA DriveOpens ==
  ASSUME NEW e \in Elements, NEW outcome, Drive(e, FALSE, outcome),
         relay \in [Elements -> BOOLEAN], suspect \subseteq Elements
  PROVE  /\ relay' \in [Elements -> BOOLEAN] /\ suspect' \subseteq Elements
         /\ \A other \in Plain : other # e =>
              (relay'[other] <=> relay[other]) /\ (other \in suspect' <=> other \in suspect)
         /\ (outcome = "done" /\ e \in Plain) => ~relay'[e]
         /\ outcome # "done" => e \in suspect'
<1>1. suspect' = IF outcome = "done" THEN suspect \ {e} ELSE suspect \cup {e}
  BY DEF Drive
<1>2. relay' = relay \/ relay' = [relay EXCEPT ![e] = FALSE]
  BY DEF Drive
<1>3. ASSUME outcome = "done", e \in Plain PROVE relay' = [relay EXCEPT ![e] = FALSE]
  BY <1>3 DEF Drive, Moved, Plain
<1> QED
  BY <1>1, <1>2, <1>3, PlainThere

\* The first use of a relay: it closes, or the driver throws and nothing is
\* counted.
LEMMA CloseIs ==
  ASSUME BooksInv, CloseNext
  PROVE  LET e == Path[call.at + 1] IN
           /\ e \in Elements
           /\ \/ /\ mUseCount[e] > 0
                 /\ mUseCount' = [mUseCount EXCEPT ![e] = mUseCount[e] + 1]
                 /\ UNCHANGED <<relay, suspect>>
              \/ /\ mUseCount[e] = 0
                 /\ \E outcome : /\ Drive(e, TRUE, outcome)
                                 /\ mUseCount' = [mUseCount EXCEPT ![e] = FirstUse(e, outcome)]
<1> DEFINE e == Path[call.at + 1]
<1>1. call.op = "connecting" /\ call.at < Len(Path)
  BY DEF CloseNext, At
<1>2. Path \in Seq(Elements) /\ call.at + 1 \in 1..Len(Path)
  BY <1>1, Running
<1>3. e \in Elements
  BY <1>2
<1>4. \/ /\ mUseCount[e] > 0
         /\ mUseCount' = [mUseCount EXCEPT ![e] = mUseCount[e] + 1]
         /\ UNCHANGED <<relay, suspect>>
      \/ /\ mUseCount[e] = 0
         /\ \E outcome : /\ Drive(e, TRUE, outcome)
                         /\ mUseCount' = [mUseCount EXCEPT ![e] = FirstUse(e, outcome)]
  BY Zenon DEF CloseNext, Count, NoDrive
<1> HIDE DEF e
<1> QED
  BY <1>3, <1>4 DEF e

\* A release: dropped before the driver is told, if it is the last.
LEMMA ReleaseIs ==
  ASSUME BooksInv, UndoNext \/ OpenNext
  PROVE  \E e \in Elements :
           /\ mUseCount' = [mUseCount EXCEPT ![e] = OneFewer(e)]
           /\ IF LastRelease(e) THEN \E outcome : Drive(e, FALSE, outcome) ELSE NoDrive
<1>1. CASE UndoNext
  <2>1. call.op = "undoing" /\ call.at > 0
    BY <1>1 DEF UndoNext, At
  <2>2. Path \in Seq(Elements) /\ call.at \in 1..Len(Path)
    BY <2>1, Running
  <2>3. Path[call.at] \in Elements
    BY <2>2
  <2> QED
    BY <1>1, <2>3 DEF UndoNext, Open, Count
<1>2. CASE OpenNext
  <2>1. call.op # "idle" /\ call.at < Len(Path)
    BY <1>2 DEF OpenNext, At
  <2>2. Path \in Seq(Elements) /\ call.at + 1 \in 1..Len(Path)
    BY <2>1, Running
  <2>3. Path[call.at + 1] \in Elements
    BY <2>2
  <2> QED
    BY <1>2, <2>3 DEF OpenNext, Open, Count
<1> QED
  BY <1>1, <1>2

\* The other steps of a call move neither a count nor a relay.
LEMMA OthersMoveNothing ==
  ASSUME \/ \E h \in Holds : BeginConnect(h) \/ BeginDisconnect(h)
         \/ ConnectReturns \/ ConnectThrows \/ DisconnectReturns \/ Taken \/ TurnBack
  PROVE  UNCHANGED <<mUseCount, relay, suspect>>
  BY DEF BeginConnect, BeginDisconnect, ConnectReturns, ConnectThrows, DisconnectReturns,
         Taken, TurnBack

\* No step of a call leaves a plain relay closed that is neither counted nor
\* suspect, or a counted one open.
LEMMA BenchStep ==
  ASSUME BooksInv, BenchOK, FabricStep
  PROVE  BenchOK' /\ (CountedIsClosed => CountedIsClosed')
<1> USE PlainThere DEF BenchOK, ClosedIsAccounted, CountedIsClosed
<1>0. mUseCount \in [Elements -> Nat]
  BY DEF BooksInv, BooksOK
<1>1. CASE CloseNext
  <2> DEFINE e == Path[call.at + 1]
  <2>1. CASE UNCHANGED <<relay, suspect>> /\ mUseCount[e] > 0
               /\ mUseCount' = [mUseCount EXCEPT ![e] = mUseCount[e] + 1]
    <3>1. \A other \in Elements : mUseCount'[other] > 0 <=> mUseCount[other] > 0
      BY <1>0, <1>1, <2>1, CloseIs
    <3> QED
      BY <2>1, <3>1
  <2>2. ASSUME mUseCount[e] = 0, NEW outcome, Drive(e, TRUE, outcome),
               mUseCount' = [mUseCount EXCEPT ![e] = FirstUse(e, outcome)]
        PROVE  BenchOK' /\ (CountedIsClosed => CountedIsClosed')
    <3>1. e \in Elements
      BY <1>1, CloseIs
    <3>2. /\ relay' \in [Elements -> BOOLEAN] /\ suspect' \subseteq Elements
          /\ \A other \in Plain : other # e =>
               (relay'[other] <=> relay[other]) /\ (other \in suspect' <=> other \in suspect)
          /\ (outcome = "done" /\ e \in Plain) => relay'[e]
          /\ outcome # "done" => e \in suspect'
      BY <2>2, <3>1, DriveCloses
    <3>3. \A other \in Elements : other # e => mUseCount'[other] = mUseCount[other]
      BY <1>0, <2>2
    <3>4. mUseCount'[e] = IF outcome = "done" THEN 1 ELSE 0
      BY <1>0, <2>2, <3>1 DEF FirstUse
    <3> QED
      BY <3>2, <3>3, <3>4
  <2> QED
    BY <1>1, <2>1, <2>2, CloseIs
<1>2. CASE UndoNext \/ OpenNext
  <2>1. PICK e \in Elements :
          /\ mUseCount' = [mUseCount EXCEPT ![e] = OneFewer(e)]
          /\ IF LastRelease(e) THEN \E outcome : Drive(e, FALSE, outcome) ELSE NoDrive
    BY <1>2, ReleaseIs
  <2>2. \A other \in Elements : other # e => mUseCount'[other] = mUseCount[other]
    BY <1>0, <2>1
  <2>3. mUseCount'[e] = OneFewer(e)
    BY <1>0, <2>1
  <2>4. CASE LastRelease(e)
    <3>1. mUseCount[e] = 1 /\ mUseCount'[e] = 0
      BY <2>3, <2>4 DEF LastRelease, OneFewer
    <3>2. PICK outcome : Drive(e, FALSE, outcome)
      BY <2>1, <2>4
    <3>3. /\ relay' \in [Elements -> BOOLEAN] /\ suspect' \subseteq Elements
          /\ \A other \in Plain : other # e =>
               (relay'[other] <=> relay[other]) /\ (other \in suspect' <=> other \in suspect)
          /\ (outcome = "done" /\ e \in Plain) => ~relay'[e]
          /\ outcome # "done" => e \in suspect'
      BY <3>2, DriveOpens
    <3> QED
      BY <2>2, <3>1, <3>3
  <2>5. CASE ~LastRelease(e)
    <3>1. e \in Plain => (mUseCount'[e] > 0 <=> mUseCount[e] > 0)
      BY <1>0, <2>3, <2>5 DEF LastRelease, OneFewer, Plain
    <3> QED
      BY <2>1, <2>2, <2>5, <3>1 DEF NoDrive
  <2> QED
    BY <2>4, <2>5
<1>3. CASE ForgetUses
  BY <1>3 DEF ForgetUses
<1>4. CASE UNCHANGED <<mUseCount, relay, suspect>>
  BY <1>4
<1> QED
  BY <1>1, <1>2, <1>3, <1>4, OthersMoveNothing DEF FabricStep


----------------------------------------------------------------------------
(* The promise of RouteHolders.                                            *)

Closed == {e \in Elements : mUseCount[e] > 0}
ElementsOf(routes) == UNION {{PathOf[h][i] : i \in DOMAIN PathOf[h]} : h \in routes}

\* The elements in use are those of the held routes and of the moving one as
\* far as it goes: none of that one at one of its ends, all of it at the other.
SharesOK ==
  /\ ElementsOf(held) \subseteq Closed
  /\ Moving = NoHold => Closed = ElementsOf(held)
  /\ Moving # NoHold => Closed \subseteq ElementsOf(held \cup {Moving})
  /\ (call.op = "connecting" /\ call.at = Len(Path)) => Closed = ElementsOf(held \cup {call.hold})
  /\ (call.op = "undoing" /\ call.at = 0) => Closed = ElementsOf(held)
  /\ (call.op \in {"disconnecting", "disconnected badly"} /\ call.at = Len(Path))
       => Closed = ElementsOf(held)

LEMMA InUse ==
  ASSUME NEW h \in Holds, NEW i \in DOMAIN PathOf[h]
  PROVE  /\ <<h, i>> \in AllUses /\ i \in Nat /\ i > 0 /\ i <= Len(PathOf[h])
         /\ PathOf[h][i] \in Elements
<1>1. PathOf[h] \in Seq(Elements) /\ Len(PathOf[h]) \in Nat
  BY PathLengths
<1>2. i \in 1..Len(PathOf[h])
  BY <1>1
<1> QED
  BY <1>1, <1>2, UseOnPath

LEMMA Shares == BooksInv => SharesOK
<1> SUFFICES ASSUME BooksInv PROVE SharesOK
  OBVIOUS
<1>1. held \subseteq Holds /\ CallOK
  BY DEF BooksInv, BooksOK
<1>2. ASSUME NEW h \in held PROVE {PathOf[h][i] : i \in DOMAIN PathOf[h]} \subseteq Closed
  <2>1. ASSUME NEW i \in DOMAIN PathOf[h] PROVE PathOf[h][i] \in Closed
    <3>1. <<h, i>> \in AllUses /\ PathOf[h][i] \in Elements
      BY <1>1, InUse
    <3>2. Answered(<<h, i>>)
      BY DEF Answered
    <3>3. mUseCount[PathOf[h][i]] > 0
      BY <3>1, <3>2, AnsweredIsCounted
    <3> QED
      BY <3>1, <3>3 DEF Closed
  <2> QED
    BY <2>1
<1>3. ElementsOf(held) \subseteq Closed
  BY <1>2 DEF ElementsOf
<1>4. ASSUME NEW e \in Closed
      PROVE  \E use \in AllUses : /\ e \in ElementsOf({use[1]}) /\ use[1] \in Holds
                                  /\ Answered(use)
  <2>1. PICK use \in AllUses : PathOf[use[1]][use[2]] = e /\ Answered(use)
    BY CountedIsAnswered DEF Closed
  <2>2. use[1] \in Holds /\ PathOf[use[1]] \in Seq(Elements) /\ use[2] \in 1..Len(PathOf[use[1]])
    BY UseTyped, PathLengths
  <2>3. use[2] \in DOMAIN PathOf[use[1]]
    BY <2>2
  <2> QED
    BY <2>1, <2>2, <2>3 DEF ElementsOf
<1>5. ASSUME \A use \in AllUses : Answered(use) => use[1] \in held
      PROVE  Closed = ElementsOf(held)
  <2>1. Closed \subseteq ElementsOf(held)
    BY <1>4, <1>5 DEF ElementsOf
  <2> QED
    BY <1>3, <2>1
<1>6. Moving = NoHold => Closed = ElementsOf(held)
  <2> SUFFICES ASSUME Moving = NoHold PROVE Closed = ElementsOf(held)
    OBVIOUS
  <2>1. call.op \notin {"connecting", "undoing", "disconnecting", "disconnected badly"}
    BY <1>1 DEF Moving, CallOK
  <2> QED
    BY <1>5, <2>1 DEF Answered
<1>7. Moving # NoHold => Closed \subseteq ElementsOf(held \cup {Moving})
  <2> SUFFICES ASSUME Moving # NoHold PROVE Closed \subseteq ElementsOf(held \cup {Moving})
    OBVIOUS
  <2>1. Moving = call.hold
    BY DEF Moving
  <2>2. ASSUME NEW e \in Closed PROVE e \in ElementsOf(held \cup {Moving})
    <3>1. PICK use \in AllUses : e \in ElementsOf({use[1]}) /\ Answered(use)
      BY <1>4
    <3>2. use[1] \in held \cup {Moving}
      BY <2>1, <3>1 DEF Answered
    <3> QED
      BY <3>1, <3>2 DEF ElementsOf
  <2> QED
    BY <2>2
<1>8. ASSUME call.op = "connecting", call.at = Len(Path)
      PROVE  Closed = ElementsOf(held \cup {call.hold})
  <2>1. call.hold \in Holds /\ Path = PathOf[call.hold]
    BY <1>8, Running
  <2>2. ASSUME NEW i \in DOMAIN PathOf[call.hold] PROVE PathOf[call.hold][i] \in Closed
    <3>1. /\ <<call.hold, i>> \in AllUses /\ PathOf[call.hold][i] \in Elements
          /\ i <= Len(PathOf[call.hold])
      BY <2>1, InUse
    <3>2. Answered(<<call.hold, i>>)
      BY <1>8, <2>1, <3>1 DEF Answered
    <3> QED
      BY <3>1, <3>2, AnsweredIsCounted DEF Closed
  <2>3. {PathOf[call.hold][i] : i \in DOMAIN PathOf[call.hold]} \subseteq Closed
    BY <2>2
  <2>4. ElementsOf(held \cup {call.hold}) \subseteq Closed
    BY <1>2, <2>3 DEF ElementsOf
  <2>5. Moving = call.hold /\ Moving # NoHold
    BY <1>8, Running DEF Moving
  <2> QED
    BY <1>7, <2>4, <2>5
<1>9. ASSUME call.op = "undoing", call.at = 0 PROVE Closed = ElementsOf(held)
  <2>1. ASSUME NEW use \in AllUses, Answered(use) PROVE use[1] \in held
    <3>1. use[2] \in Nat /\ use[2] > 0
      BY UseTyped, PathLengths
    <3> QED
      BY <1>9, <2>1, <3>1 DEF Answered
  <2> QED
    BY <1>5, <2>1
<1>10. ASSUME call.op \in {"disconnecting", "disconnected badly"}, call.at = Len(Path)
       PROVE  Closed = ElementsOf(held)
  <2>1. call.hold \in Holds /\ Path = PathOf[call.hold] /\ Len(Path) \in Nat
    BY <1>10, Running
  <2>2. ASSUME NEW use \in AllUses, Answered(use) PROVE use[1] \in held
    <3>1. use[2] \in Nat /\ use[2] <= Len(PathOf[use[1]])
      BY UseTyped, PathLengths
    <3>2. ASSUME use[1] = call.hold PROVE ~(use[2] > call.at)
      <4>1. PathOf[use[1]] = Path
        BY <2>1, <3>2
      <4>2. call.at = Len(Path)
        BY <1>10
      <4>3. use[2] <= call.at
        BY <3>1, <4>1, <4>2
      <4> QED
        BY <2>1, <3>1, <4>2, <4>3
    <3>3. call.op \notin {"connecting", "undoing"}
      BY <1>10
    <3> QED
      BY <2>2, <3>2, <3>3 DEF Answered
  <2> QED
    BY <1>5, <2>2
<1> QED
  BY <1>3, <1>6, <1>7, <1>8, <1>9, <1>10 DEF SharesOK

\* What RouteHolders asks of a step, with its definitions spelled out.
PromiseStep ==
  \/ Promise!Next
  \/ UNCHANGED <<held, {e \in Elements : mUseCount[e] > 0}, Moving>>

LEMMA OfIs ==
  ASSUME NEW routes \in SUBSET Holds
  PROVE  Promise!Of(routes) = ElementsOf(routes)
<1> DEFINE needs == [h \in Holds |-> {PathOf[h][i] : i \in DOMAIN PathOf[h]}]
<1>1. \A h \in routes : needs[h] = {PathOf[h][i] : i \in DOMAIN PathOf[h]}
  OBVIOUS
<1> HIDE DEF needs
<1>2. UNION {needs[h] : h \in routes} = ElementsOf(routes)
  BY <1>1 DEF ElementsOf
<1> QED
  BY <1>2 DEF needs, Promise!Of

LEMMA PromiseKept ==
  ASSUME BooksInv, SharesOK, BooksInv', SharesOK', FabricStep
  PROVE  PromiseStep
<1> DEFINE closed == {e \in Elements : mUseCount[e] > 0}
<1> USE DEF At, Over
<1>1. /\ held \subseteq Holds /\ call \in Calls /\ CallOK
      /\ held' \subseteq Holds /\ CallOK'
  BY DEF BooksInv, BooksOK, CallOK
<1>2. Closed = closed /\ Closed' = closed'
  BY DEF Closed
<1>3. /\ Promise!Of(held) = ElementsOf(held) /\ Promise!Of(held') = ElementsOf(held')
      /\ ElementsOf(held)' = ElementsOf(held')
  BY <1>1, OfIs DEF ElementsOf
<1>4. ASSUME call.op # "idle"
      PROVE  /\ call.hold \in Holds /\ call.hold # NoHold
             /\ Promise!Of(held \cup {call.hold}) = ElementsOf(held \cup {call.hold})
  <2>1. call.hold \in Holds /\ call.hold # NoHold
    BY <1>4, Running
  <2> QED
    BY <1>1, <2>1, OfIs
<1>5. ASSUME NEW h \in Holds, BeginConnect(h) \/ BeginDisconnect(h)
      PROVE  Promise!Begin(h)
  <2>1. Moving = NoHold /\ Moving' = h /\ UNCHANGED mUseCount
    <3>1. CASE BeginConnect(h)
      BY <1>1, <3>1 DEF BeginConnect, Moving
    <3>2. CASE BeginDisconnect(h)
      BY <1>1, <3>2 DEF BeginDisconnect, Moving
    <3> QED
      BY <1>5, <3>1, <3>2
  <2>2. held' = held \ {h}
    BY <1>5 DEF BeginConnect, BeginDisconnect
  <2> QED
    BY <2>1, <2>2 DEF Promise!Begin
<1>6. CASE CloseNext \/ UndoNext \/ OpenNext
  <2>1. /\ call.op \in {"connecting", "undoing", "disconnecting", "disconnected badly"}
        /\ held' = held
    BY <1>6 DEF CloseNext, UndoNext, OpenNext
  <2>2. /\ call'.op \in {"connecting", "undoing", "disconnecting", "disconnected badly"}
        /\ call'.hold = call.hold
    <3>1. CASE CloseNext
      <4>1. call' = [call EXCEPT !.at = @ + 1] \/ call' = [call EXCEPT !.op = "undoing"]
        BY <3>1, Zenon DEF CloseNext
      <4> QED
        BY <1>1, <2>1, <4>1 DEF Calls
    <3>2. CASE UndoNext
      BY <1>1, <2>1, <3>2 DEF UndoNext, Calls
    <3>3. CASE OpenNext
      <4>1. PICK outcome :
              call' = [op   |-> IF outcome = "done" THEN call.op ELSE "disconnected badly",
                       hold |-> call.hold, at |-> Onward(outcome)]
        BY <3>3 DEF OpenNext
      <4> QED
        BY <2>1, <4>1
    <3> QED
      BY <1>6, <3>1, <3>2, <3>3
  <2>3. Moving = call.hold /\ Moving' = call.hold /\ call.op # "idle"
    BY <2>1, <2>2 DEF Moving
  <2>4. Moving # NoHold /\ Moving' # NoHold
    BY <1>4, <2>3
  <2>5. ElementsOf(held') \subseteq Closed'
    BY <1>3 DEF SharesOK
  <2>6. Closed' \subseteq ElementsOf(held' \cup {Moving'})
    BY <2>4 DEF SharesOK, ElementsOf
  <2>7. Promise!Move
    BY <1>2, <1>3, <1>4, <2>1, <2>3, <2>4, <2>5, <2>6 DEF Promise!Move
  <2> QED
    BY <2>7 DEF PromiseStep, Promise!Next
<1>7. CASE ConnectReturns \/ ConnectThrows
  <2>1. \/ /\ call.op = "connecting" /\ call.at = Len(Path)
           /\ call'.op = "connected" /\ held' = held \cup {call.hold}
        \/ call.op = "undoing" /\ call.at = 0 /\ call'.op = "refused" /\ held' = held
    BY <1>1, <1>7 DEF ConnectReturns, ConnectThrows, Calls
  <2>2. UNCHANGED mUseCount /\ Moving = call.hold /\ Moving' = NoHold
    BY <1>7, <2>1 DEF ConnectReturns, ConnectThrows, Moving
  <2>3. Closed = ElementsOf(held')
    BY <2>1 DEF SharesOK
  <2>4. Promise!End
    BY <1>2, <1>3, <1>4, <2>1, <2>2, <2>3 DEF Promise!End
  <2> QED
    BY <2>4 DEF PromiseStep, Promise!Next
<1>8. CASE DisconnectReturns \/ Taken
  <2>1. UNCHANGED <<mUseCount, held>>
        /\ call'.op \in {"idle", "disconnected"}
    <3>1. CASE DisconnectReturns
      BY <1>1, <3>1 DEF DisconnectReturns, Calls
    <3>2. CASE Taken
      BY <3>2 DEF Taken, Idle
    <3> QED
      BY <1>8, <3>1, <3>2
  <2>2. Moving' = NoHold
    BY <2>1 DEF Moving
  <2>3. CASE call.op \in {"connected", "refused", "disconnected"}
    <3>1. Moving = NoHold
      BY <2>3 DEF Moving
    <3> QED
      BY <2>1, <2>2, <3>1 DEF PromiseStep
  <2>4. CASE call.op \in {"disconnecting", "disconnected badly"} /\ call.at = Len(Path)
    <3>1. Closed = ElementsOf(held)
      BY <2>4 DEF SharesOK
    <3>2. Moving = call.hold /\ call.op # "idle"
      BY <2>4 DEF Moving
    <3>3. Promise!End
      BY <1>2, <1>3, <1>4, <2>1, <2>2, <3>1, <3>2 DEF Promise!End
    <3> QED
      BY <3>3 DEF PromiseStep, Promise!Next
  <2> QED
    BY <1>8, <2>3, <2>4 DEF DisconnectReturns, Taken
<1>9. CASE TurnBack
  <2>1. /\ call.op = "connected" /\ call'.op = "disconnecting" /\ call'.hold = call.hold
        /\ held' = held \ {call.hold} /\ UNCHANGED mUseCount
    BY <1>1, <1>9 DEF TurnBack, Calls
  <2>2. Moving = NoHold /\ Moving' = call.hold /\ call.hold \in Holds
    BY <1>4, <2>1 DEF Moving
  <2>3. Promise!Begin(call.hold)
    BY <2>1, <2>2 DEF Promise!Begin
  <2> QED
    BY <2>2, <2>3 DEF PromiseStep, Promise!Next
<1>10. CASE ForgetUses
  <2>1. /\ held' = {} /\ Moving' = NoHold
        /\ {e \in Elements : mUseCount'[e] > 0} = {}
    BY <1>10 DEF ForgetUses, Idle, Moving
  <2>2. Promise!ForgetAll
    BY <2>1 DEF Promise!ForgetAll
  <2> QED
    BY <2>2 DEF PromiseStep, Promise!Next
<1> QED
  BY <1>5, <1>6, <1>7, <1>8, <1>9, <1>10 DEF FabricStep, PromiseStep, Promise!Next

LEMMA PromiseInit == FabricInit => Promise!Init
  BY DEF FabricInit, Promise!Init, Moving, Idle

----------------------------------------------------------------------------
(* Of the fabric by itself: any sequence of calls, on any rig, whichever   *)
(* relays refuse and wherever in a route.                                  *)

FabricInv == BooksInv /\ SharesOK /\ BenchOK /\ CountedIsClosed

LEMMA FabricInvariant == FabricSpec => []FabricInv
<1>1. FabricInit => BooksInv /\ SharesOK
  BY BooksInit, Shares
<1>2. FabricInit => BenchOK /\ CountedIsClosed
  BY PlainThere DEF FabricInit, BenchOK, ClosedIsAccounted, CountedIsClosed
<1>3. FabricInv /\ FabricStep => BooksInv' /\ BenchOK' /\ CountedIsClosed'
  BY BooksStep, BenchStep DEF FabricInv
<1>4. FabricInv /\ UNCHANGED fabricVars => BooksInv' /\ BenchOK' /\ CountedIsClosed'
  BY BooksStep DEF fabricVars, books, FabricInv, BenchOK, ClosedIsAccounted, CountedIsClosed
<1>5. BooksInv' => SharesOK'
  BY Shares, PTL
<1> QED
  BY <1>1, <1>2, <1>3, <1>4, <1>5, PTL DEF FabricSpec, FabricInv

\* The use counts are those of the holders (mUseCount, connect and disconnect
\* in hal/fabric/switch_fabric.hpp).
THEOREM FabricCounts == FabricSpec => []CountsAreHolders
<1>1. FabricInv => CountsAreHolders
  BY DEF FabricInv, BooksInv
<1> QED
  BY <1>1, FabricInvariant, PTL

\* A relay the books call closed is closed on the bench, and one that is closed
\* while nobody holds it is suspect (SwitchFabric::close and open).
THEOREM FabricFollowsBooks == FabricSpec => [](CountedIsClosed /\ ClosedIsAccounted)
<1>1. FabricInv => CountedIsClosed /\ ClosedIsAccounted
  BY DEF FabricInv, BenchOK
<1> QED
  BY <1>1, FabricInvariant, PTL

\* The fabric implements RouteHolders: an element is closed exactly while
\* somebody holds a route through it (SwitchFabric::connect and disconnect).
THEOREM FabricKeepsPromise == FabricSpec => RoutesAreShared
<1>1. FabricInv /\ FabricInv' /\ [FabricStep]_fabricVars => PromiseStep
  <2>1. CASE FabricStep
    BY <2>1, PromiseKept DEF FabricInv
  <2>2. CASE UNCHANGED fabricVars
    BY <2>2 DEF fabricVars, books, PromiseStep, Moving
  <2> QED
    BY <2>1, <2>2
<1>2. PromiseStep => [Promise!Next]_(Promise!vars)
  BY DEF PromiseStep, Promise!vars
<1>3. FabricSpec => FabricInit /\ [][FabricStep]_fabricVars
  BY DEF FabricSpec
<1> QED
  BY <1>1, <1>2, <1>3, PromiseInit, FabricInvariant, PTL DEF RoutesAreShared, Promise!Spec

----------------------------------------------------------------------------
(* The bench.                                                              *)

ProcessOK ==
  /\ mode \in {"run", "--safe"}
  /\ stage \in {"script", "safing", "forgetting", "ended", "died"}
  /\ mAttached \in BOOLEAN
  /\ hot \in BOOLEAN
  /\ toSafe \subseteq Sources
  /\ mEnabled \in [Sources -> BOOLEAN]
  /\ rail \in [Sources -> BOOLEAN]
  /\ doubt \subseteq Sources
  /\ lost \subseteq Sources \cup {SwitchUnit}

\* Relays agree with the books until the safing opens them all.
RelaysOK == BenchOK /\ (stage # "forgetting" => CountedIsClosed)

\* Only a script with a bench moves a route, and a bench is what is safed.
BenchUsed ==
  /\ call.op # "idle" => stage = "script" /\ mAttached
  /\ stage \in {"safing", "forgetting"} => mAttached

\* The driver knows of every rail that is on, unless an exchange failed.
RailsKnown == \A s \in Sources : rail[s] => mEnabled[s] \/ s \in doubt

\* While a low-impedance reading is routed no driver remembers its rail.
TapOff == \A r \in LowZ :
  (call.hold = r /\ LandsAt[r] # NoSource) => ~mEnabled[LandsAt[r]]

\* A source that is on while its route moves was on when the verb asked.
HotKnown == \A h \in Holds \ Readings : (call.hold = h /\ rail[SourceOf[h]]) => hot

\* How far the safing of an attached run has come.
SafingOK == SessionOpen =>
  /\ stage = "safing" => \A s \in Sources : rail[s] => s \in toSafe \/ s \in lost
  /\ stage \in {"forgetting", "ended"} => Idled

RigInv ==
  /\ BooksInv
  /\ ProcessOK
  /\ RelaysOK
  /\ BenchUsed
  /\ RailsKnown
  /\ TapOff
  /\ HotKnown
  /\ SafingOK

----------------------------------------------------------------------------
(* What the steps of Rig do to the fabric.                                 *)

RouteMoves ==
  \/ CloseNext
  \/ ConnectReturns
  \/ UndoNext
  \/ ConnectThrows
  \/ OpenNext
  \/ DisconnectReturns
  \/ TurnBack

\* A call that runs stays about its route.
LEMMA SameRoute ==
  ASSUME BooksInv, RouteMoves
  PROVE  /\ call.op # "idle" /\ call'.op # "idle" /\ call'.hold = call.hold
         /\ FabricStep
<1> USE DEF At
<1>1. call \in Calls
  BY DEF BooksInv, BooksOK, CallOK
<1>2. FabricStep
  BY DEF RouteMoves, FabricStep
<1>3. CASE CloseNext
  <2>1. call' = [call EXCEPT !.at = @ + 1] \/ call' = [call EXCEPT !.op = "undoing"]
    BY <1>3, Zenon DEF CloseNext
  <2>2. call.op = "connecting"
    BY <1>3 DEF CloseNext
  <2> QED
    BY <1>1, <1>2, <2>1, <2>2 DEF Calls
<1>4. CASE ConnectReturns
  BY <1>1, <1>2, <1>4 DEF ConnectReturns, Calls
<1>5. CASE UndoNext
  BY <1>1, <1>2, <1>5 DEF UndoNext, Calls
<1>6. CASE ConnectThrows
  BY <1>1, <1>2, <1>6 DEF ConnectThrows, Calls
<1>7. CASE OpenNext
  <2>1. PICK outcome :
          call' = [op   |-> IF outcome = "done" THEN call.op ELSE "disconnected badly",
                   hold |-> call.hold, at |-> Onward(outcome)]
    BY <1>7 DEF OpenNext
  <2>2. call.op \in {"disconnecting", "disconnected badly"}
    BY <1>7 DEF OpenNext
  <2> QED
    BY <1>2, <2>1, <2>2
<1>8. CASE DisconnectReturns
  BY <1>1, <1>2, <1>8 DEF DisconnectReturns, Calls
<1>9. CASE TurnBack
  BY <1>1, <1>2, <1>9 DEF TurnBack, Calls
<1> QED
  BY <1>3, <1>4, <1>5, <1>6, <1>7, <1>8, <1>9 DEF RouteMoves

\* Every step is a step of the fabric, the relay pass, or leaves it alone.
LEMMA FabricOfRig ==
  ASSUME Next
  PROVE  FabricStep \/ SafeRelays \/ UNCHANGED fabricVars
<1>1. ASSUME NEW attached, Start("run", attached) \/ Start("--safe", attached)
      PROVE  UNCHANGED fabricVars
  BY <1>1 DEF Start
<1>2. ASSUME NEW s \in Sources, Apply(s) \/ Remove(s) \/ SafeSource(s)
      PROVE  UNCHANGED fabricVars
  BY <1>2 DEF Apply, Remove, SafeSource
<1>3. ASSUME NEW h \in Holds, Connect(h) \/ Disconnect(h) \/ Measure(h)
      PROVE  FabricStep
  BY <1>3 DEF Connect, Disconnect, Measure, FabricStep
<1>4. CASE VerbMoves \/ Read \/ VerbEnds
  BY <1>4 DEF VerbMoves, Read, VerbEnds, FabricStep
<1>5. CASE BeginSafing
  BY <1>5 DEF BeginSafing
<1>6. CASE EndDetached \/ ForgetAll \/ Die
  BY <1>6 DEF EndDetached, ForgetAll, Die, Vanish, FabricStep
<1> QED
  BY <1>1, <1>2, <1>3, <1>4, <1>5, <1>6, RigAssumption DEF Next

LEMMA RigBooks ==
  ASSUME BooksInv, [Next]_vars
  PROVE  BooksInv'
<1>1. FabricStep \/ UNCHANGED books
  <2>1. CASE Next
    BY <2>1, FabricOfRig DEF SafeRelays, fabricVars
  <2>2. CASE UNCHANGED vars
    BY <2>2 DEF vars, fabricVars
  <2> QED
    BY <2>1, <2>2
<1> QED
  BY <1>1, BooksStep


----------------------------------------------------------------------------
(* Every step keeps the rest of the invariant.                             *)

RestInv == ProcessOK /\ RelaysOK /\ BenchUsed /\ RailsKnown /\ TapOff /\ HotKnown /\ SafingOK

\* The relays, as long as the fabric alone moves them.
LEMMA RelaysFollow ==
  ASSUME BooksInv, RelaysOK, FabricStep \/ UNCHANGED fabricVars,
         stage' = "forgetting" \/ stage # "forgetting" \/ ForgetUses
  PROVE  RelaysOK'
<1>1. CASE FabricStep
  <2>1. BenchOK' /\ (CountedIsClosed => CountedIsClosed')
    BY <1>1, BenchStep DEF RelaysOK
  <2>2. ForgetUses => CountedIsClosed'
    BY PlainThere DEF ForgetUses, CountedIsClosed
  <2> QED
    BY <2>1, <2>2 DEF RelaysOK
<1>2. CASE UNCHANGED fabricVars
  <2>1. BenchOK'
    BY <1>2 DEF RelaysOK, BenchOK, ClosedIsAccounted, fabricVars, books
  <2>2. CountedIsClosed => CountedIsClosed'
    BY <1>2 DEF CountedIsClosed, fabricVars, books
  <2>3. ForgetUses => CountedIsClosed'
    BY PlainThere DEF ForgetUses, CountedIsClosed
  <2> QED
    BY <2>1, <2>2, <2>3 DEF RelaysOK
<1> QED
  BY <1>1, <1>2

LEMMA HoldMeansRuns ==
  ASSUME BooksInv
  PROVE  call.op = "idle" <=> call.hold = NoHold
  BY DEF BooksInv, BooksOK, CallOK

LEMMA StartKeeps ==
  ASSUME BooksInv, RestInv, NEW why \in {"run", "--safe"}, NEW attached \in BOOLEAN,
         Start(why, attached), why = "--safe" => attached
  PROVE  RestInv'
<1> USE DEF RestInv, Start, Gone
<1>1. ProcessOK'
  BY DEF ProcessOK, driverVars
<1>2. RelaysOK'
  BY RelaysFollow
<1>3. BenchUsed'
  BY DEF BenchUsed, fabricVars, books
<1>4. RailsKnown' /\ TapOff' /\ HotKnown'
  BY DEF RailsKnown, TapOff, HotKnown, fabricVars, books, driverVars
<1>5. SafingOK'
  BY DEF SafingOK, SessionOpen
<1> QED
  BY <1>1, <1>2, <1>3, <1>4, <1>5

\* Apply and Remove: nothing is routed by the verb that runs.
LEMMA ApplyKeeps ==
  ASSUME BooksInv, RestInv, NEW s \in Sources, Apply(s) \/ Remove(s)
  PROVE  RestInv'
<1> USE DEF RestInv
<1>1. /\ stage = "script" /\ call.op = "idle" /\ mAttached
      /\ UNCHANGED <<fabricVars, processVars, hot, safingVars>>
  BY DEF Apply, Remove, Ready, At, Reaches
<1>2. /\ mEnabled' \in [Sources -> BOOLEAN] /\ rail' \in [Sources -> BOOLEAN]
      /\ doubt' \subseteq Sources
      /\ \A other \in Sources : rail'[other] => mEnabled'[other] \/ other \in doubt'
  <2>1. mEnabled \in [Sources -> BOOLEAN] /\ rail \in [Sources -> BOOLEAN] /\ doubt \subseteq Sources
    BY DEF ProcessOK
  <2>2. CASE Apply(s)
    <3>1. PICK outcome \in Exchange :
            /\ mEnabled' = [mEnabled EXCEPT ![s] = TRUE]
            /\ rail' = [rail EXCEPT ![s] = @ \/ outcome \in Moved]
            /\ doubt' = IF outcome = "done" THEN doubt \ {s} ELSE doubt
      BY <2>2 DEF Apply
    <3> QED
      BY <2>1, <3>1 DEF RailsKnown
  <2>3. CASE Remove(s)
    <3>1. PICK outcome \in Exchange :
            /\ mEnabled' = [mEnabled EXCEPT ![s] = FALSE]
            /\ rail' = [rail EXCEPT ![s] = @ /\ outcome \notin Moved]
            /\ doubt' = IF outcome = "done" THEN doubt \ {s} ELSE doubt \cup {s}
      BY <2>3 DEF Remove
    <3> QED
      BY <2>1, <3>1 DEF RailsKnown, Moved
  <2> QED
    BY <2>2, <2>3
<1>3. ProcessOK'
  BY <1>1, <1>2 DEF ProcessOK, processVars, safingVars
<1>4. RelaysOK'
  BY <1>1, RelaysFollow
<1>5. BenchUsed' /\ RailsKnown'
  BY <1>1, <1>2 DEF BenchUsed, RailsKnown, fabricVars, books, processVars
<1>6. TapOff' /\ HotKnown'
  <2>1. call'.hold = NoHold
    BY <1>1, HoldMeansRuns DEF fabricVars, books
  <2> QED
    BY <2>1, RigAssumption, FabricAssumption DEF TapOff, HotKnown
<1>7. SafingOK'
  BY <1>1 DEF SafingOK, processVars
<1> QED
  BY <1>3, <1>4, <1>5, <1>6, <1>7

\* A verb that begins a route: a Connect or Disconnect has asked its supply, a
\* Measure its interlock.
LEMMA VerbKeeps ==
  ASSUME BooksInv, RestInv, NEW h \in Holds,
         \/ h \in Holds \ Readings /\ (Connect(h) \/ Disconnect(h))
         \/ h \in Readings /\ Measure(h)
  PROVE  RestInv'
<1> USE DEF RestInv
<1>1. /\ stage = "script" /\ call.op = "idle" /\ mAttached
      /\ BeginConnect(h) \/ BeginDisconnect(h)
      /\ UNCHANGED <<processVars, safingVars, driverVars>>
  BY DEF Connect, Disconnect, Measure, Ready, At, Reaches, Routing
<1>2. call'.hold = h
  BY <1>1 DEF BeginConnect, BeginDisconnect
<1>3. ProcessOK'
  <2>1. hot' \in BOOLEAN
    <3>1. CASE h \in Readings
      BY <3>1 DEF Measure
    <3>2. CASE h \notin Readings
      <4>1. SourceOf[h] \in Sources /\ rail \in [Sources -> BOOLEAN]
        BY <3>2, RigAssumption DEF ProcessOK
      <4> QED
        BY <3>2, <4>1 DEF Connect, Disconnect, OutputIsOn
    <3> QED
      BY <3>1, <3>2
  <2> QED
    BY <1>1, <2>1 DEF ProcessOK, processVars, safingVars, driverVars
<1>4. RelaysOK'
  <2>1. FabricStep
    BY <1>1 DEF FabricStep
  <2> QED
    BY <1>1, <2>1, RelaysFollow
<1>5. BenchUsed' /\ RailsKnown'
  BY <1>1 DEF BenchUsed, RailsKnown, processVars, driverVars
<1>6. TapOff'
  <2>1. h \in LowZ => h \in Readings /\ ~LiveTap(h)
    BY RigAssumption DEF Measure
  <2> QED
    BY <1>1, <1>2, <2>1 DEF TapOff, LiveTap, driverVars
<1>7. HotKnown'
  <2>1. h \in Holds \ Readings => hot' = rail[SourceOf[h]]
    BY DEF Connect, Disconnect, OutputIsOn
  <2> QED
    BY <1>1, <1>2, <2>1 DEF HotKnown, driverVars
<1>8. SafingOK'
  BY <1>1 DEF SafingOK, processVars
<1> QED
  BY <1>3, <1>4, <1>5, <1>6, <1>7, <1>8

LEMMA MoveKeeps ==
  ASSUME BooksInv, RestInv, VerbMoves \/ Read
  PROVE  RestInv'
<1> USE DEF RestInv
<1>1. /\ RouteMoves /\ stage = "script"
      /\ UNCHANGED <<processVars, safingVars, driverVars, hot>>
  BY DEF VerbMoves, Read, Routing, RouteMoves
<1>2. call.op # "idle" /\ call'.hold = call.hold /\ FabricStep
  BY <1>1, SameRoute
<1>3. ProcessOK'
  BY <1>1 DEF ProcessOK, processVars, safingVars, driverVars
<1>4. RelaysOK'
  BY <1>1, <1>2, RelaysFollow
<1>5. BenchUsed' /\ RailsKnown' /\ TapOff' /\ HotKnown'
  BY <1>1, <1>2 DEF BenchUsed, RailsKnown, TapOff, HotKnown, processVars, driverVars
<1>6. SafingOK'
  BY <1>1 DEF SafingOK, processVars
<1> QED
  BY <1>3, <1>4, <1>5, <1>6

LEMMA VerbEndsKeeps ==
  ASSUME BooksInv, RestInv, VerbEnds
  PROVE  RestInv'
<1> USE DEF RestInv
<1>1. /\ Taken /\ stage = "script" /\ hot' = FALSE
      /\ UNCHANGED <<processVars, safingVars, driverVars>>
  BY DEF VerbEnds, Routing
<1>2. call'.op = "idle" /\ call'.hold = NoHold /\ FabricStep
  BY <1>1 DEF Taken, Idle, FabricStep
<1>3. ProcessOK'
  BY <1>1 DEF ProcessOK, processVars, safingVars, driverVars
<1>4. RelaysOK'
  BY <1>1, <1>2, RelaysFollow
<1>5. BenchUsed' /\ RailsKnown'
  BY <1>1, <1>2 DEF BenchUsed, RailsKnown, processVars, driverVars
<1>6. TapOff' /\ HotKnown'
  BY <1>2, RigAssumption, FabricAssumption DEF TapOff, HotKnown
<1>7. SafingOK'
  BY <1>1 DEF SafingOK, processVars
<1> QED
  BY <1>3, <1>4, <1>5, <1>6, <1>7


LEMMA BeginSafingKeeps ==
  ASSUME BooksInv, RestInv, BeginSafing
  PROVE  RestInv'
<1> USE DEF RestInv, BeginSafing
<1>1. ProcessOK'
  BY DEF ProcessOK, driverVars
<1>2. RelaysOK'
  BY RelaysFollow
<1>3. BenchUsed' /\ RailsKnown' /\ TapOff' /\ HotKnown'
  BY DEF BenchUsed, RailsKnown, TapOff, HotKnown, At, fabricVars, books, driverVars
<1>4. SafingOK'
  BY DEF SafingOK
<1> QED
  BY <1>1, <1>2, <1>3, <1>4

\* A source is told once: it is off, or it would not obey.
LEMMA SafeSourceKeeps ==
  ASSUME BooksInv, RestInv, NEW s \in Sources, SafeSource(s)
  PROVE  RestInv'
<1> USE DEF RestInv
<1>1. /\ stage = "safing" /\ s \in toSafe /\ toSafe' = toSafe \ {s}
      /\ mEnabled' = [mEnabled EXCEPT ![s] = FALSE]
      /\ UNCHANGED <<fabricVars, processVars, hot>>
  BY DEF SafeSource
<1>2. PICK obeyed \in BOOLEAN :
        /\ obeyed => SessionOpen
        /\ rail' = [rail EXCEPT ![s] = @ /\ ~obeyed]
        /\ doubt' = IF obeyed THEN doubt \ {s} ELSE doubt \cup {s}
        /\ lost' = IF SessionOpen /\ ~obeyed THEN lost \cup {s} ELSE lost
  BY DEF SafeSource, Obeys, Lost
<1>3. call.op = "idle" /\ call.hold = NoHold
  BY <1>1, HoldMeansRuns DEF BenchUsed
<1>4. mEnabled \in [Sources -> BOOLEAN] /\ rail \in [Sources -> BOOLEAN]
  BY DEF ProcessOK
<1>5. ProcessOK'
  BY <1>1, <1>2, <1>4 DEF ProcessOK, processVars
<1>6. RelaysOK'
  BY <1>1, RelaysFollow
<1>7. BenchUsed' /\ RailsKnown'
  BY <1>1, <1>2, <1>4 DEF BenchUsed, RailsKnown, processVars, fabricVars, books
<1>8. TapOff' /\ HotKnown'
  <2>1. call'.hold = NoHold
    BY <1>1, <1>3 DEF fabricVars, books
  <2> QED
    BY <2>1, RigAssumption, FabricAssumption DEF TapOff, HotKnown
<1>9. SafingOK'
  <2> SUFFICES ASSUME SessionOpen, NEW other \in Sources, rail'[other]
               PROVE  other \in toSafe' \/ other \in lost'
    BY <1>1 DEF SafingOK, SessionOpen, processVars
  <2>1. rail[other]
    BY <1>2, <1>4
  <2>2. other \in toSafe \/ other \in lost
    BY <1>1, <2>1 DEF SafingOK
  <2>3. CASE other = s
    BY <1>2, <1>4, <2>3
  <2>4. CASE other # s
    BY <1>1, <1>2, <2>2, <2>4
  <2> QED
    BY <2>3, <2>4
<1> QED
  BY <1>5, <1>6, <1>7, <1>8, <1>9

\* The relay pass comes last, and opens every plain relay or none.
LEMMA SafeRelaysKeeps ==
  ASSUME BooksInv, RestInv, SafeRelays
  PROVE  RestInv'
<1> USE DEF RestInv
<1>1. /\ stage = "safing" /\ toSafe = {} /\ stage' = "forgetting"
      /\ UNCHANGED <<books, mode, mAttached, hot, toSafe, driverVars>>
  BY DEF SafeRelays, SourcesTold
<1>2. PICK obeyed \in BOOLEAN :
        /\ relay' = IF obeyed THEN [e \in Elements |-> relay[e] /\ e \in Latching] ELSE relay
        /\ suspect' = {e \in Elements : relay'[e]}
        /\ lost' = IF SessionOpen /\ ~obeyed THEN lost \cup {SwitchUnit} ELSE lost
  BY DEF SafeRelays, Obeys, Lost
<1>3. relay \in [Elements -> BOOLEAN]
  BY DEF RelaysOK, BenchOK
<1>4. call.op = "idle" /\ call.hold = NoHold
  BY <1>1, HoldMeansRuns DEF BenchUsed
<1>5. ProcessOK'
  BY <1>1, <1>2 DEF ProcessOK, driverVars
<1>6. RelaysOK'
  <2>1. relay' \in [Elements -> BOOLEAN]
    BY <1>2, <1>3
  <2> QED
    BY <1>1, <1>2, <2>1, PlainThere DEF RelaysOK, BenchOK, ClosedIsAccounted
<1>7. BenchUsed' /\ RailsKnown'
  BY <1>1, <1>4 DEF BenchUsed, RailsKnown, books, driverVars
<1>8. TapOff' /\ HotKnown'
  <2>1. call'.hold = NoHold
    BY <1>1, <1>4 DEF books
  <2> QED
    BY <2>1, RigAssumption, FabricAssumption DEF TapOff, HotKnown
<1>9. SafingOK'
  <2> SUFFICES ASSUME SessionOpen PROVE Idled'
    BY <1>1 DEF SafingOK, SessionOpen
  <2>1. \A s \in Sources : rail'[s] => s \in lost'
    BY <1>1, <1>2 DEF SafingOK, driverVars
  <2>2. \A e \in Plain : relay'[e] => SwitchUnit \in lost'
    BY <1>2, PlainThere DEF Plain
  <2> QED
    BY <2>1, <2>2 DEF Idled
<1> QED
  BY <1>5, <1>6, <1>7, <1>8, <1>9

\* The end of the process: the books are forgotten, the bench stays.
LEMMA VanishKeeps ==
  ASSUME BooksInv, RestInv, NEW how \in {"ended", "died"}, Vanish(how),
         how = "died" \/ stage = "forgetting" \/ ~mAttached
  PROVE  RestInv'
<1> USE DEF RestInv
<1>1. /\ ForgetUses /\ stage' = how /\ mEnabled' = [s \in Sources |-> FALSE]
      /\ doubt' = {s \in Sources : rail[s]} /\ hot' = FALSE /\ toSafe' = {}
      /\ UNCHANGED <<mode, mAttached, rail, lost>>
  BY DEF Vanish
<1>2. call'.op = "idle" /\ call'.hold = NoHold /\ UNCHANGED relay
  BY <1>1 DEF ForgetUses, Idle
<1>3. ProcessOK'
  BY <1>1 DEF ProcessOK
<1>4. RelaysOK'
  <2>1. FabricStep
    BY <1>1 DEF FabricStep
  <2> QED
    BY <1>1, <2>1, RelaysFollow
<1>5. BenchUsed' /\ RailsKnown'
  BY <1>1, <1>2 DEF BenchUsed, RailsKnown
<1>6. TapOff' /\ HotKnown'
  BY <1>2, RigAssumption, FabricAssumption DEF TapOff, HotKnown
<1>7. SafingOK'
  BY <1>1, <1>2 DEF SafingOK, SessionOpen, Idled
<1> QED
  BY <1>3, <1>4, <1>5, <1>6, <1>7

LEMMA RigStep ==
  ASSUME RigInv, [Next]_vars
  PROVE  RigInv'
<1>1. BooksInv /\ RestInv
  BY DEF RigInv, RestInv
<1>2. BooksInv'
  BY <1>1, RigBooks
<1>3. RestInv'
  <2>1. ASSUME NEW attached \in BOOLEAN, Start("run", attached) PROVE RestInv'
    BY <1>1, <2>1, StartKeeps
  <2>2. CASE Start("--safe", TRUE)
    BY <1>1, <2>2, StartKeeps
  <2>3. ASSUME NEW s \in Sources, Apply(s) \/ Remove(s) \/ SafeSource(s) PROVE RestInv'
    BY <1>1, <2>3, ApplyKeeps, SafeSourceKeeps
  <2>4. ASSUME NEW h \in Holds \ Readings, Connect(h) \/ Disconnect(h) PROVE RestInv'
    BY <1>1, <2>4, VerbKeeps
  <2>5. ASSUME NEW r \in Readings, Measure(r) PROVE RestInv'
    BY <1>1, <2>5, VerbKeeps, RigAssumption
  <2>6. CASE VerbMoves \/ Read
    BY <1>1, <2>6, MoveKeeps
  <2>7. CASE VerbEnds
    BY <1>1, <2>7, VerbEndsKeeps
  <2>8. CASE BeginSafing
    BY <1>1, <2>8, BeginSafingKeeps
  <2>9. CASE SafeRelays
    BY <1>1, <2>9, SafeRelaysKeeps
  <2>10. CASE EndDetached \/ ForgetAll
    BY <1>1, <2>10, VanishKeeps DEF EndDetached, ForgetAll
  <2>11. CASE Die
    BY <1>1, <2>11, VanishKeeps DEF Die
  <2>12. CASE UNCHANGED vars
    <3>1. UNCHANGED fabricVars /\ UNCHANGED <<processVars, hot, safingVars, driverVars>>
      BY <2>12 DEF vars
    <3>2. RelaysOK'
      BY <1>1, <3>1, RelaysFollow DEF RestInv, processVars
    <3> QED
      BY <1>1, <3>1, <3>2 DEF RestInv, ProcessOK, BenchUsed, RailsKnown, TapOff, HotKnown, SafingOK,
         SessionOpen, Idled, fabricVars, books, processVars, safingVars, driverVars
  <2> QED
    BY <2>1, <2>2, <2>3, <2>4, <2>5, <2>6, <2>7, <2>8, <2>9, <2>10, <2>11, <2>12 DEF Next
<1> QED
  BY <1>2, <1>3 DEF RigInv, RestInv

LEMMA RigStart == Init => RigInv
<1> SUFFICES ASSUME Init PROVE RigInv
  OBVIOUS
<1>1. BooksInv
  BY BooksInit DEF Init
<1>2. ProcessOK /\ RailsKnown
  BY DEF Init, ProcessOK, RailsKnown
<1>3. RelaysOK
  BY PlainThere DEF Init, FabricInit, RelaysOK, BenchOK, ClosedIsAccounted, CountedIsClosed
<1>4. BenchUsed /\ TapOff /\ HotKnown
  BY RigAssumption, FabricAssumption DEF Init, FabricInit, Idle, BenchUsed, TapOff, HotKnown
<1>5. SafingOK
  BY PlainThere DEF Init, FabricInit, SafingOK, Idled
<1> QED
  BY <1>1, <1>2, <1>3, <1>4, <1>5 DEF RigInv

LEMMA RigInvariant == Spec => []RigInv
  BY RigStart, RigStep, PTL DEF Spec


----------------------------------------------------------------------------
(* What follows.                                                           *)

\* The state is typed (TypeOK).
THEOREM RigTyped == Spec => []TypeOK
<1>1. RigInv => TypeOK
  <2> SUFFICES ASSUME RigInv PROVE TypeOK
    OBVIOUS
  <2>1. /\ mUseCount \in [Elements -> Nat] /\ held \subseteq Holds /\ call \in Calls /\ CallOK
        /\ relay \in [Elements -> BOOLEAN] /\ suspect \subseteq Elements
    BY DEF RigInv, BooksInv, BooksOK, CallOK, RelaysOK, BenchOK
  <2>2. call.op \in Progress /\ call.hold \in Holds \cup {NoHold} /\ call.at \in Nat
    BY <2>1 DEF Calls
  <2>3. call.at \in 0..(IF call.hold = NoHold THEN 0 ELSE Len(PathOf[call.hold]))
    <3>1. CASE call.op = "idle"
      <4>1. call.hold = NoHold /\ call.at = 0
        BY <2>1, <3>1 DEF CallOK
      <4> QED
        BY <4>1
    <3>2. CASE call.op # "idle"
      <4>1. call.hold # NoHold /\ call.at <= Len(PathOf[call.hold]) /\ call.hold \in Holds
        BY <2>1, <2>2, <3>2 DEF CallOK
      <4>2. Len(PathOf[call.hold]) \in Nat
        BY <4>1, PathLengths
      <4> QED
        BY <2>2, <4>1, <4>2
    <3> QED
      BY <3>1, <3>2
  <2> QED
    BY <2>1, <2>2, <2>3 DEF RigInv, ProcessOK, TypeOK, FabricTypeOK
<1> QED
  BY <1>1, RigInvariant, PTL

\* No verb, failure or death loses or invents a use of a relay
\* (switch_fabric.hpp's mUseCount, the verbs of core/verbs/).
THEOREM RigCounts == Spec => []CountsAreHolders
<1>1. RigInv => CountsAreHolders
  BY DEF RigInv, BooksInv
<1> QED
  BY <1>1, RigInvariant, PTL

\* While scripts run, what is held is closed, and at every moment a relay that
\* is closed and not held is suspect (SwitchFabric::close and open, safing.cpp).
THEOREM RigRelaysFollow == Spec => [](HeldRelaysClosed /\ ClosedIsAccounted)
<1>1. RigInv => HeldRelaysClosed /\ ClosedIsAccounted
  BY DEF RigInv, RelaysOK, BenchOK, HeldRelaysClosed
<1> QED
  BY <1>1, RigInvariant, PTL

\* A low-impedance reading meets a rail that is on only where an exchange with
\* its supply failed or an earlier process left it so (interlock.cpp, the
\* removeOutput of keysight_edu36311a.cpp).
THEOREM RigTapIsCold == Spec => []LowTapIsCold
<1>1. RigInv => LowTapIsCold
  <2> SUFFICES ASSUME RigInv, NEW r \in LowZ, call.hold = r, LandsAt[r] # NoSource, rail[LandsAt[r]]
               PROVE  LandsAt[r] \in doubt
    BY DEF LowTapIsCold
  <2>1. LandsAt[r] \in Sources
    BY RigAssumption
  <2> QED
    BY <2>1 DEF RigInv, RailsKnown, TapOff
<1> QED
  BY <1>1, RigInvariant, PTL

\* An attached run that ends leaves the bench idle but for boxes that did not
\* obey its safing (safing.cpp, ~RigSafingGuard).
THEOREM RigEndsIdle == Spec => []RunEndsIdle
<1>1. RigInv => RunEndsIdle
  BY DEF RigInv, SafingOK, SessionOpen, RunEndsIdle
<1> QED
  BY <1>1, RigInvariant, PTL

\* A contact moves live only in a verb that found its output on, and whose event
\* says so if it posts one (core/verbs/route.hpp).
THEOREM RigFindsHotSwitches == Spec => HotSwitchFound
<1>1. RigInv => [\A h \in Holds \ Readings :
                   (call.hold = h /\ relay' # relay /\ rail[SourceOf[h]]) => hot]_vars
  BY DEF RigInv, HotKnown
<1> QED
  BY <1>1, RigInvariant, PTL DEF HotSwitchFound

\* The safing drops the rails before it opens the relays (safing.cpp).
THEOREM RigSafesColdly == Spec => SafingOpensCold
<1>1. RigInv /\ [Next]_vars =>
        [\A h \in Holds \ Readings : \A i \in DOMAIN PathOf[h] :
           (/\ stage = "safing"
            /\ relay[PathOf[h][i]] /\ ~relay'[PathOf[h][i]]
            /\ rail[SourceOf[h]]) => SourceOf[h] \in lost]_vars
  <2> SUFFICES ASSUME RigInv, Next, stage = "safing", NEW h \in Holds \ Readings,
                      NEW i \in DOMAIN PathOf[h],
                      relay[PathOf[h][i]], ~relay'[PathOf[h][i]], rail[SourceOf[h]]
               PROVE  SourceOf[h] \in lost
    OBVIOUS
  <2>1. SourceOf[h] \in Sources
    BY RigAssumption
  <2>2. SafeRelays
    <3>1. relay' # relay
      OBVIOUS
    <3>2. call.op = "idle"
      BY DEF RigInv, BenchUsed
    <3>3. stage = "safing" => ~(VerbMoves \/ Read \/ VerbEnds)
      BY DEF VerbMoves, Read, VerbEnds
    <3> QED
      BY <3>1, <3>3, Zenon DEF Next, Start, Apply, Remove, SafeSource, Connect, Disconnect, Measure,
         BeginConnect, BeginDisconnect, BeginSafing, EndDetached, ForgetAll, Die, Vanish, ForgetUses,
         fabricVars
  <2>3. toSafe = {} /\ SessionOpen
    BY <2>2 DEF SafeRelays, SourcesTold, Obeys
  <2> QED
    BY <2>1, <2>3 DEF RigInv, SafingOK
<1> QED
  BY <1>1, RigInvariant, PTL DEF Spec, SafingOpensCold

\* A process without a bench moves nothing on it (core/session/bench.hpp).
THEOREM RigDetachedIdles == Spec => DetachedMovesNothing
<1>1. RigInv /\ [Next]_vars => [~mAttached => UNCHANGED <<relay, rail>>]_vars
  <2> SUFFICES ASSUME RigInv, Next, ~mAttached PROVE UNCHANGED <<relay, rail>>
    OBVIOUS
  <2>1. call.op = "idle" /\ stage \notin {"safing", "forgetting"}
    BY DEF RigInv, BenchUsed
  <2>2. ~RouteMoves
    BY <2>1, SameRoute DEF RigInv
  <2>3. ~Ready
    BY DEF Ready, Reaches
  <2>4. ASSUME NEW attached, Start("run", attached) \/ Start("--safe", attached)
        PROVE  UNCHANGED <<relay, rail>>
    BY <2>4 DEF Start, fabricVars, driverVars
  <2>5. CASE EndDetached \/ Die
    BY <2>5 DEF EndDetached, Die, Vanish, ForgetUses
  <2>6. CASE VerbEnds
    BY <2>6 DEF VerbEnds, Taken, Routing, driverVars
  <2>7. ~BeginSafing /\ ~SafeRelays /\ ~ForgetAll /\ \A s \in Sources : ~SafeSource(s)
    BY <2>1 DEF BeginSafing, SafeRelays, ForgetAll, SafeSource
  <2>8. ~VerbMoves /\ ~Read
    BY <2>2 DEF VerbMoves, Read, RouteMoves
  <2> QED
    BY <2>3, <2>4, <2>5, <2>6, <2>7, <2>8 DEF Next, Apply, Remove, Connect, Disconnect, Measure
<1> QED
  BY <1>1, RigInvariant, PTL DEF Spec, DetachedMovesNothing

\* Seen through its uses of relays, a run of a script keeps what RouteHolders
\* promises (SwitchFabric::connect, disconnect and openAll under the verbs).
THEOREM RigSharesRoutes == Spec => RoutesAreShared
<1>1. RigInv => BooksInv /\ SharesOK
  BY Shares DEF RigInv
<1>2. RigInv' => BooksInv' /\ SharesOK'
  BY <1>1, PTL
<1>3. RigInv /\ RigInv' /\ [Next]_vars => PromiseStep
  <2> SUFFICES ASSUME RigInv, RigInv', [Next]_vars PROVE PromiseStep
    OBVIOUS
  <2>1. FabricStep \/ UNCHANGED books
    <3>1. CASE Next
      BY <3>1, FabricOfRig DEF SafeRelays, fabricVars
    <3>2. CASE UNCHANGED vars
      BY <3>2 DEF vars, fabricVars
    <3> QED
      BY <3>1, <3>2
  <2>2. CASE FabricStep
    BY <1>1, <1>2, <2>2, PromiseKept
  <2>3. CASE UNCHANGED books
    BY <2>3 DEF books, PromiseStep, Moving
  <2> QED
    BY <2>1, <2>2, <2>3
<1>4. Init => Promise!Init
  BY PromiseInit DEF Init
<1>5. PromiseStep => [Promise!Next]_(Promise!vars)
  BY DEF PromiseStep, Promise!vars
<1> QED
  BY <1>3, <1>4, <1>5, RigInvariant, PTL DEF Spec, RoutesAreShared, Promise!Spec

============================================================================
