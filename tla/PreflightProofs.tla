--------------------------- MODULE PreflightProofs ---------------------------
(***************************************************************************)
(* Proofs about Preflight, for every table, pool, site, flag and export     *)
(* that fits and every answer of the instruments: the state is well typed,  *)
(* a run that starts is bound as its header says, to one unit for each box  *)
(* and one box for each unit, and what ends a run safes what it drove.      *)
(***************************************************************************)
EXTENDS Preflight, SequenceTheorems, TLAPS

-----------------------------------------------------------------------------
(* The inductive invariant.                                                 *)

(* A session is with the unit at the driver's address, of a face that is     *)
(* there and has a connector for it.                                        *)
Fits(f, unit) ==
    /\ asked.attached = TRUE /\ phase \in {"contact", "ready", "ended", "failed"}
    /\ f \in Contactable /\ f \notin plan.simulated
    /\ address[f] \in Addresses \ {Simulated} /\ Allows(f, address[f])
    /\ unit = world[address[f]] /\ unit \in Units

(* A face has been bound as the plan says, at an address its driver takes.   *)
Decided(f) ==
    LET r == Resolve(f) IN
    /\ RequireAccepted(f, r)
    /\ binding[f].source = r.source
    /\ r.source # "Pool" => binding[f].value = r.value /\ address[f] = r.value

(* Nobody has tried to reach it, with success.                              *)
Untouched(f) == session[f] = Nobody /\ binding[f].identity = Nobody /\ binding[f].position = 0

(* It is as the first pass left it; it is as the table has it.              *)
AsBound(f) ==
    /\ Decided(f) /\ Untouched(f) /\ binding[f].value = Resolve(f).value
    /\ binding[f].value = Simulated => address[f] = Simulated
Fresh(f) == Untouched(f) /\ address[f] = TableAddress[f]

(* It answered, where its box was reached and as the header will say.       *)
Met(f) ==
    /\ binding[f].identity = session[f] /\ session[f] # Nobody
    /\ binding[f].value = address[f]
    /\ \E c \in contacted :
        /\ c.box = BoxOf[f] /\ c.value = address[f]
        /\ binding[f].position \in {0, c.position}

(* The second pass is through with it.                                      *)
Passed(f) == Decided(f) /\ (IF Skipped(f) THEN AsBound(f) ELSE Met(f))

(* An address is one the plan has for every face of a box that is there.     *)
At(box, a) ==
    \A f \in FaceSet : BoxOf[f] = box /\ Resolve(f).value # Simulated =>
        IF Resolve(f).source = "Pool" THEN a \in ToSet(Pool[box]) ELSE a = Resolve(f).value

(* Each pass has dealt with the rows above the current one and left the rest. *)
Rowwise ==
    /\ phase = "plan" => row = 1 /\ \A f \in FaceSet : Fresh(f)
    /\ phase = "bind" => \A i \in Rows : IF i < row THEN AsBound(Faces[i]) ELSE Fresh(Faces[i])
    /\ phase = "contact" => \A i \in Rows : IF i < row THEN Passed(Faces[i]) ELSE AsBound(Faces[i])
    /\ phase = "ready" => \A f \in FaceSet : Decided(f) /\ (asked.attached = TRUE => Passed(f))
    /\ asked.attached = FALSE => phase # "contact" /\ \A f \in FaceSet : Untouched(f)
    /\ candidate # 0

(* What the second pass knows of a box it has reached.                      *)
Reaching(c) ==
    /\ c.value \in Addresses \ {Simulated} /\ world[c.value] \in Units
    /\ c.serial = SerialOf[world[c.value]]
    /\ [serial |-> c.serial, box |-> c.box] \in claimed
    /\ c.position # 0 => c.position \in 1..Len(Pool[c.box]) /\ Pool[c.box][c.position] = c.value
    /\ phase \in {"contact", "ready"} => At(c.box, c.value)

(* One entry for each box, and no serial taken by two.                      *)
Books ==
    /\ phase \in {"plan", "bind"} => contacted = {} /\ claimed = {}
    /\ \A c, d \in contacted : c.box = d.box => c = d
    /\ \A c \in contacted : Reaching(c)
    /\ \A x, y \in claimed : x.serial = y.serial /\ x.serial # NoSerial => x.box = y.box

Sessions == \A f \in FaceSet : session[f] # Nobody => Fits(f, session[f])

AllReached == UNION {Reached(f, address[f]) : f \in FaceSet}

(* What is energised is what the drivers' addresses lead to, until it has    *)
(* been told to go off.                                                     *)
Safings ==
    /\ phase \notin {"ready", "ended", "dead", "safed"} => energised = {}
    /\ phase = "ready" => energised \subseteq AllReached
    /\ phase = "ready" /\ asked.attached = FALSE => energised = {}
    /\ phase = "ended" => energised \subseteq told

IInv == TypeOK /\ Rowwise /\ Books /\ Sessions /\ Safings

-----------------------------------------------------------------------------
(* The table and the plan.                                                  *)

(* A face is one row.                                                       *)
LEMMA FaceRows ==
    /\ Len(Faces) \in Nat
    /\ \A i \in Rows : Faces[i] \in FaceSet
    /\ \A f \in FaceSet : \E i \in Rows : Faces[i] = f
    /\ \A i, j \in Rows : Faces[i] = Faces[j] => i = j
<1>1. Faces \in Seq(FaceSet) /\ \A i, j \in Rows : Faces[i] = Faces[j] => i = j
  BY TablesFit DEF TablesFit
<1>2. Len(Faces) \in Nat /\ DOMAIN Faces = Rows
  BY <1>1, LenProperties DEF Rows
<1>3. FaceSet = {Faces[i] : i \in Rows}
  BY <1>2 DEF FaceSet, ToSet
<1> QED
  BY <1>1, <1>2, <1>3

LEMMA FaceInBox ==
    ASSUME NEW f \in FaceSet
    PROVE  /\ BoxOf[f] \in Boxes /\ TableAddress[f] \in Addresses /\ Allows(f, TableAddress[f])
           /\ Pool[BoxOf[f]] \in Seq(Addresses \ {Simulated})
           /\ ToSet(Pool[BoxOf[f]]) \subseteq Addresses \ {Simulated}
<1>1. /\ BoxOf[f] \in Boxes /\ TableAddress[f] \in Addresses /\ Allows(f, TableAddress[f])
      /\ Pool[BoxOf[f]] \in Seq(Addresses \ {Simulated})
  BY TablesFit DEF TablesFit
<1>2. \A i \in DOMAIN Pool[BoxOf[f]] : Pool[BoxOf[f]][i] \in Addresses \ {Simulated}
  BY <1>1, ElementOfSeq
<1> QED
  BY <1>1, <1>2 DEF ToSet

(* An override of a box names an address, and so does a site.               *)
LEMMA MovesFit ==
    ASSUME TypeOK, NEW box
    PROVE  Override(box) \subseteq Addresses /\ AtSite(box) \subseteq Addresses
<1>1. \A i \in DOMAIN plan.overrides : plan.overrides[i] \in Flags \cup Exports
  BY ElementOfSeq DEF TypeOK
<1>2. Override(box) \subseteq Addresses
  BY <1>1, MovesAreAddresses DEF Override, MovesAreAddresses
<1>3. AtSite(box) \subseteq Addresses
  BY MovesAreAddresses DEF AtSite, MovesAreAddresses
<1> QED
  BY <1>2, <1>3

(* What a resolution is, by who decided it.                                 *)
LEMMA ResolveShape ==
    ASSUME TypeOK, NEW f \in FaceSet
    PROVE  LET r == Resolve(f) IN
           /\ r.value \in Addresses
           /\ r.source \in {"Table", "Override", "Site", "Pool"}
           /\ r.source \in {"Table", "Pool"} => r.value = TableAddress[f]
           /\ r.source = "Pool" => r.must = ToSet(Pool[BoxOf[f]])
           /\ f \in plan.simulated => r.value = Simulated
           /\ RequireAccepted(f, r) => Allows(f, r.value)
<1> DEFINE box == BoxOf[f]
           r == Resolve(f)
<1>0. Simulated \in Addresses
  BY TablesFit DEF TablesFit
<1>1. CASE f \in plan.simulated
  <2>1. r = [value |-> Simulated, source |-> "Override", must |-> {}]
    BY <1>1 DEF Resolve
  <2> QED
    BY <1>0, <2>1 DEF Allows
<1>2. CASE f \notin plan.simulated /\ Override(box) # {}
  <2>1. r = [value |-> CHOOSE a \in Override(box) : TRUE, source |-> "Override", must |-> Override(box)]
    BY <1>2 DEF Resolve
  <2>2. (CHOOSE a \in Override(box) : TRUE) \in Override(box)
    BY <1>2
  <2> QED
    BY <1>2, <2>1, <2>2, MovesFit DEF RequireAccepted
<1>3. CASE f \notin plan.simulated /\ Override(box) = {} /\ AtSite(box) # {}
  <2>1. r = [value |-> CHOOSE a \in AtSite(box) : TRUE, source |-> "Site", must |-> AtSite(box)]
    BY <1>3 DEF Resolve
  <2>2. (CHOOSE a \in AtSite(box) : TRUE) \in AtSite(box)
    BY <1>3
  <2> QED
    BY <1>3, <2>1, <2>2, MovesFit DEF RequireAccepted
<1>4. CASE f \notin plan.simulated /\ Override(box) = {} /\ AtSite(box) = {}
  <2>1. r = [value |-> TableAddress[f], source |-> IF Pool[box] = <<>> THEN "Table" ELSE "Pool",
             must |-> ToSet(Pool[box])]
    BY <1>4 DEF Resolve
  <2> QED
    BY <1>4, <2>1, FaceInBox
<1> QED
  BY <1>1, <1>2, <1>3, <1>4

(* Once the plan is made, it is.                                            *)
LEMMA ResolveKept ==
    ASSUME UNCHANGED <<asked, plan>>
    PROVE  \A f \in FaceSet : Resolve(f)' = Resolve(f)
BY DEF Resolve, Override, AtSite

(* The faces of a box that are there are decided alike.                     *)
LEMMA SameBox ==
    ASSUME TypeOK, NEW f \in FaceSet, NEW g \in FaceSet, BoxOf[f] = BoxOf[g],
           Resolve(f).value # Simulated, Resolve(g).value # Simulated
    PROVE  Resolve(f).value = Resolve(g).value /\ Resolve(f).source = Resolve(g).source
<1>1. f \notin plan.simulated /\ g \notin plan.simulated
  BY ResolveShape
<1>2. CASE Override(BoxOf[f]) # {} \/ AtSite(BoxOf[f]) # {}
  BY <1>1, <1>2 DEF Resolve
<1>3. CASE Override(BoxOf[f]) = {} /\ AtSite(BoxOf[f]) = {}
  <2>1. /\ Resolve(f).value = TableAddress[f] /\ Resolve(g).value = TableAddress[g]
        /\ Resolve(f).source = Resolve(g).source
    BY <1>1, <1>3 DEF Resolve
  <2>2. TableAddress[f] = TableAddress[g]
    BY <2>1, TablesBuild DEF BoxConflict
  <2> QED
    BY <2>1, <2>2
<1> QED
  BY <1>2, <1>3

(* A face whose own entries are left alone stays as it was.                 *)
LEMMA Kept ==
    ASSUME NEW f \in FaceSet, UNCHANGED <<asked, plan>>,
           binding'[f] = binding[f], address'[f] = address[f], session'[f] = session[f],
           contacted \subseteq contacted'
    PROVE  /\ Untouched(f)' <=> Untouched(f)
           /\ Fresh(f) => Fresh(f)'
           /\ Skipped(f)' <=> Skipped(f)
           /\ Decided(f) => Decided(f)'
           /\ AsBound(f) => AsBound(f)'
           /\ Met(f) => Met(f)'
           /\ Passed(f) => Passed(f)'
<1>0. Resolve(f)' = Resolve(f)
  BY ResolveKept
<1>1. /\ Untouched(f)' <=> Untouched(f)
      /\ Fresh(f) => Fresh(f)'
      /\ Skipped(f)' <=> Skipped(f)
  BY DEF Untouched, Fresh, Skipped
<1>2. Decided(f) => Decided(f)'
  BY <1>0 DEF Decided, RequireAccepted, Allows
<1>3. AsBound(f) => AsBound(f)'
  BY <1>0, <1>1, <1>2 DEF AsBound
<1>4. Met(f) => Met(f)'
  BY DEF Met
<1> QED
  BY <1>1, <1>2, <1>3, <1>4 DEF Passed

-----------------------------------------------------------------------------
(* What the two passes do to a face.                                        *)

Sources == {"Table", "Override", "Site", "Pool"}
Entry == [value : Addresses \cup {Unknown}, source : Sources, identity : Units \cup {Nobody}, position : Nat]

(* The state as the lemmas below use it, the plan and the request left out.  *)
Typed ==
    /\ binding \in [FaceSet -> Entry]
    /\ address \in [FaceSet -> Addresses]
    /\ session \in [FaceSet -> Units \cup {Nobody}]
    /\ claimed \subseteq [serial : {SerialOf[u] : u \in Units}, box : Boxes]
    /\ \A c \in contacted : c.box \in Boxes /\ c.value \in Addresses
    /\ phase \in {"plan", "bind", "contact", "ready", "ended", "dead", "safed", "failed"}
    /\ row \in 1..(Len(Faces) + 1) /\ candidate \in Nat
    /\ energised \subseteq FaceSet \X Units /\ told \subseteq FaceSet \X Units

LEMMA TypedState ==
    ASSUME TypeOK
    PROVE  /\ Typed /\ asked.attached \in BOOLEAN
           /\ world \in [Addresses \ {Simulated} -> Units \cup {Nobody}]
BY DEF TypeOK, Typed, Entry, Sources

(* What is with the row the second pass has come to.                        *)
LEMMA CurrentRow ==
    ASSUME TypeOK, Rowwise, phase = "contact", row \in Rows
    PROVE  LET f == Faces[row] IN
           /\ f \in FaceSet /\ AsBound(f) /\ asked.attached = TRUE
           /\ binding[f] \in Entry /\ address[f] \in Addresses
           /\ ~Skipped(f) => /\ f \in Contactable /\ f \notin plan.simulated
                             /\ Resolve(f).value # Simulated
                             /\ binding[f].source # "Pool" => address[f] = Resolve(f).value
<1> DEFINE f == Faces[row]
<1>1. f \in FaceSet
  BY FaceRows
<1>2. AsBound(f)
  BY FaceRows DEF Rowwise, Rows
<1>3. asked.attached = TRUE
  BY TypedState DEF Rowwise
<1>4. binding[f] \in Entry /\ address[f] \in Addresses
  BY <1>1, TypedState DEF Typed
<1>5. ~Skipped(f) => /\ f \in Contactable /\ f \notin plan.simulated
                     /\ Resolve(f).value # Simulated
                     /\ binding[f].source # "Pool" => address[f] = Resolve(f).value
  BY <1>1, <1>2, ResolveShape DEF AsBound, Decided, Skipped
<1> QED
  BY <1>1, <1>2, <1>3, <1>4, <1>5

(* An address the plan has for a face is one its driver opens.              *)
LEMMA AtFits ==
    ASSUME TypeOK, NEW f \in FaceSet, AsBound(f), Resolve(f).value # Simulated,
           NEW a, IF Resolve(f).source = "Pool" THEN a \in ToSet(Pool[BoxOf[f]]) ELSE a = Resolve(f).value
    PROVE  a \in Addresses \ {Simulated} /\ Allows(f, a)
<1>1. RequireAccepted(f, Resolve(f))
  BY DEF AsBound, Decided
<1>2. CASE Resolve(f).source = "Pool"
  BY <1>1, <1>2, ResolveShape, FaceInBox DEF RequireAccepted
<1>3. CASE Resolve(f).source # "Pool"
  BY <1>1, <1>3, ResolveShape
<1> QED
  BY <1>2, <1>3

(* The second pass goes on to the next row: the face has answered at `a'.    *)
Answered(f, a, position) ==
    /\ phase' = "contact" /\ row' = row + 1 /\ candidate' = 1
    /\ world[a] \in Units
    /\ session' = [session EXCEPT ![f] = world[a]]
    /\ \E b \in Entry : /\ binding' = [binding EXCEPT ![f] = b]
                        /\ b.source = binding[f].source /\ b.value = a
                        /\ b.identity = world[a] /\ b.position \in {0, position}

(* It ends there, perhaps with a session there.                             *)
GivenUp(f, a) ==
    /\ phase' = "failed" /\ row' = row /\ candidate' = candidate
    /\ session' = session \/ (world[a] \in Units /\ session' = [session EXCEPT ![f] = world[a]])
    /\ \E b \in Entry : binding' = [binding EXCEPT ![f] = b]

(* All three ways to reach a face have in common what they leave alone.      *)
Reaches(f, a) ==
    /\ phase = "contact" /\ row \in Rows /\ f = Faces[row] /\ ~Skipped(f)
    /\ f \in FaceSet /\ AsBound(f) /\ asked.attached = TRUE
    /\ f \in Contactable /\ f \notin plan.simulated
    /\ a \in Addresses \ {Simulated} /\ Allows(f, a)
    /\ address' = [address EXCEPT ![f] = a]
    /\ UNCHANGED <<asked, plan, world, energised, told>>

LEMMA Unaltered ==
    ASSUME binding \in [FaceSet -> Entry], NEW f \in FaceSet, binding' = binding
    PROVE  \E b \in Entry : binding' = [binding EXCEPT ![f] = b]
<1>1. binding[f] \in Entry /\ [binding EXCEPT ![f] = binding[f]] = binding
  OBVIOUS
<1> QED
  BY <1>1

LEMMA Answering ==
    ASSUME TypeOK, NEW a \in Addresses \ {Simulated}, "answers" \in Outcomes(a)
    PROVE  world[a] \in Units
<1>1. world[a] \in Units \cup {Nobody}
  BY TypedState
<1>2. world[a] # Nobody
  BY DEF Outcomes
<1> QED
  BY <1>1, <1>2

(* A later face of a box.                                                   *)
LEMMA Follows ==
    ASSUME TypeOK, Rowwise, Books, FollowFace
    PROVE  LET f == Faces[row] IN
           \E e \in contacted :
             /\ e.box = BoxOf[f] /\ Reaches(f, e.value)
             /\ UNCHANGED <<claimed, contacted>>
             /\ Answered(f, e.value, e.position) \/ GivenUp(f, e.value)
<1> DEFINE f == Faces[row]
           e == CHOOSE c \in contacted : c.box = BoxOf[f]
           pooled == binding[f].source = "Pool"
           a == IF pooled THEN e.value ELSE address[f]
           tried == IF pooled THEN [binding[f] EXCEPT !.value = a, !.position = e.position] ELSE binding[f]
           with == [tried EXCEPT !.identity = world[a]]
<1>1. phase = "contact" /\ row \in Rows /\ ~Skipped(f)
  BY DEF FollowFace
<1>2. /\ f \in FaceSet /\ AsBound(f) /\ asked.attached = TRUE
      /\ binding[f] \in Entry /\ address[f] \in Addresses
      /\ f \in Contactable /\ f \notin plan.simulated
      /\ Resolve(f).value # Simulated
      /\ ~pooled => address[f] = Resolve(f).value
  BY <1>1, CurrentRow
<1>3. e \in contacted /\ e.box = BoxOf[f]
  BY DEF FollowFace, Earlier
<1>4. Reaching(e)
  BY <1>3 DEF Books
<1>5. IF Resolve(f).source = "Pool" THEN e.value \in ToSet(Pool[BoxOf[f]]) ELSE e.value = Resolve(f).value
  BY <1>1, <1>2, <1>3, <1>4 DEF Reaching, At
<1>6. e.value \in Addresses \ {Simulated} /\ Allows(f, e.value)
  BY <1>2, <1>5, AtFits
<1>7. binding[f].source = Resolve(f).source
  BY <1>2 DEF AsBound, Decided
<1>8. a = e.value
  BY <1>2, <1>5, <1>7
<1>9. \E o \in Outcomes(a) :
        /\ address' = [address EXCEPT ![f] = a]
        /\ binding' = [binding EXCEPT ![f] = IF o = "answers" THEN with ELSE tried]
        /\ session' = IF o = "answers" THEN [session EXCEPT ![f] = world[a]] ELSE session
        /\ IF o # "answers" \/ (SerialOf[world[a]] # NoSerial /\ e.serial # NoSerial /\ SerialOf[world[a]] # e.serial)
           THEN Fail ELSE NextRow
  BY DEF FollowFace
<1>10. UNCHANGED <<asked, plan, world, energised, told, claimed, contacted>>
  BY DEF FollowFace
<1>11. tried \in Entry /\ tried.source = binding[f].source /\ tried.value = a /\ tried.position \in {0, e.position}
  <2>1. CASE pooled
    <3>1. e.position \in Nat
      <4>1. e.position # 0 => e.position \in 1..Len(Pool[e.box])
        BY <1>4 DEF Reaching
      <4>2. Len(Pool[e.box]) \in Nat
        BY <1>2, <1>3, FaceInBox, LenProperties
      <4> QED
        BY <4>1, <4>2
    <3> QED
      BY <1>2, <1>6, <2>1, <3>1 DEF Entry
  <2>2. CASE ~pooled
    BY <1>2, <2>2 DEF AsBound, Untouched, Decided
  <2> QED
    BY <2>1, <2>2
<1>12. Reaches(f, e.value)
  BY <1>1, <1>2, <1>6, <1>8, <1>9, <1>10 DEF Reaches
<1>13. PICK o \in Outcomes(a) :
         /\ binding' = [binding EXCEPT ![f] = IF o = "answers" THEN with ELSE tried]
         /\ session' = IF o = "answers" THEN [session EXCEPT ![f] = world[a]] ELSE session
         /\ o # "answers" => Fail
         /\ Fail \/ NextRow
  BY <1>9
<1>14. CASE o # "answers"
  BY <1>11, <1>13, <1>14, <1>3, <1>10, <1>12 DEF GivenUp, Fail
<1>15. CASE o = "answers"
  <2>1. world[a] \in Units
    BY <1>6, <1>8, <1>15, Answering
  <2>2. with \in Entry /\ with.source = binding[f].source /\ with.value = a
        /\ with.position \in {0, e.position} /\ with.identity = world[a]
    BY <1>11, <2>1 DEF Entry
  <2>3. binding' = [binding EXCEPT ![f] = with] /\ session' = [session EXCEPT ![f] = world[a]]
    BY <1>13, <1>15
  <2>4. Answered(f, a, e.position) \/ GivenUp(f, a)
    <3> HIDE DEF a, with, f, e
    <3>1. CASE Fail
      BY <2>1, <2>2, <2>3, <3>1 DEF GivenUp, Fail
    <3>2. CASE NextRow
      BY <2>1, <2>2, <2>3, <3>2, <1>1 DEF Answered, NextRow
    <3> QED
      BY <1>13, <3>1, <3>2
  <2> QED
    BY <2>4, <1>8, <1>3, <1>10, <1>12
<1> QED
  BY <1>14, <1>15

(* A box is entered where it was reached.                                   *)
Entered(f, a, position) ==
    /\ Earlier(BoxOf[f]) = {} /\ ~ClaimedByAnother(SerialOf[world[a]], BoxOf[f])
    /\ claimed' = claimed \cup {[serial |-> SerialOf[world[a]], box |-> BoxOf[f]]}
    /\ contacted' = contacted \cup {Contacted(BoxOf[f], a, world[a], position)}

(* The first face of a box at a fixed address.                              *)
LEMMA Fixes ==
    ASSUME TypeOK, Rowwise, FixedFace
    PROVE  LET f == Faces[row] IN
           /\ Reaches(f, address[f]) /\ binding[f].source # "Pool" /\ address[f] = Resolve(f).value
           /\ \/ Answered(f, address[f], 0) /\ Entered(f, address[f], 0)
              \/ GivenUp(f, address[f]) /\ UNCHANGED <<claimed, contacted>>
<1> DEFINE f == Faces[row]
           a == address[f]
           with == [binding[f] EXCEPT !.identity = world[a]]
<1>1. phase = "contact" /\ row \in Rows /\ ~Skipped(f) /\ binding[f].source # "Pool" /\ Earlier(BoxOf[f]) = {}
  BY DEF FixedFace
<1>2. /\ f \in FaceSet /\ AsBound(f) /\ asked.attached = TRUE
      /\ binding[f] \in Entry /\ a \in Addresses
      /\ f \in Contactable /\ f \notin plan.simulated
      /\ Resolve(f).value # Simulated /\ a = Resolve(f).value
  BY <1>1, CurrentRow
<1>3. binding[f].source = Resolve(f).source
  BY <1>2 DEF AsBound, Decided
<1>4. a \in Addresses \ {Simulated} /\ Allows(f, a)
  BY <1>1, <1>2, <1>3, AtFits
<1>5. address \in [FaceSet -> Addresses] /\ binding \in [FaceSet -> Entry]
  BY TypedState DEF Typed
<1>6. PICK o \in Outcomes(a) :
        IF o # "answers" THEN Fail /\ UNCHANGED contactVars
        ELSE /\ binding' = [binding EXCEPT ![f].identity = world[a]]
             /\ session' = [session EXCEPT ![f] = world[a]]
             /\ IF ClaimedByAnother(SerialOf[world[a]], BoxOf[f])
                THEN Fail /\ UNCHANGED <<claimed, contacted>>
                ELSE /\ claimed' = claimed \cup {[serial |-> SerialOf[world[a]], box |-> BoxOf[f]]}
                     /\ contacted' = contacted \cup {Contacted(BoxOf[f], a, world[a], 0)}
                     /\ NextRow
             /\ UNCHANGED address
  BY DEF FixedFace
<1>7. Reaches(f, a)
  <2>1. address' = address
    BY <1>6 DEF contactVars
  <2>2. address' = [address EXCEPT ![f] = a]
    BY <1>2, <1>5, <2>1
  <2> QED
    BY <1>1, <1>2, <1>4, <2>2 DEF Reaches, FixedFace
<1>8. CASE o # "answers"
  <2>1. UNCHANGED <<binding, session, claimed, contacted>> /\ Fail
    BY <1>6, <1>8 DEF contactVars
  <2>2. \E b \in Entry : binding' = [binding EXCEPT ![f] = b]
    BY <1>2, <1>5, <2>1, Unaltered
  <2> QED
    BY <1>1, <1>2, <1>7, <2>1, <2>2 DEF GivenUp, Fail
<1>9. CASE o = "answers"
  <2>1. world[a] \in Units
    BY <1>4, <1>9, Answering
  <2>2. with \in Entry /\ with.source = binding[f].source /\ with.value = a
        /\ with.position = 0 /\ with.identity = world[a]
    BY <1>2, <2>1 DEF Entry, AsBound, Untouched, Decided
  <2>3. binding' = [binding EXCEPT ![f] = with] /\ session' = [session EXCEPT ![f] = world[a]]
    BY <1>6, <1>9
  <2>4. CASE ClaimedByAnother(SerialOf[world[a]], BoxOf[f])
    <3>1. Fail /\ UNCHANGED <<claimed, contacted>>
      BY <1>6, <1>9, <2>4
    <3>2. GivenUp(f, a)
      <4> HIDE DEF a, with, f
      <4> QED
        BY <2>1, <2>2, <2>3, <3>1 DEF GivenUp, Fail
    <3> QED
      BY <1>1, <1>2, <1>7, <3>1, <3>2
  <2>5. CASE ~ClaimedByAnother(SerialOf[world[a]], BoxOf[f])
    <3>1. NextRow /\ Entered(f, a, 0)
      BY <1>1, <1>6, <1>9, <2>5 DEF Entered
    <3>2. Answered(f, a, 0)
      <4> HIDE DEF a, with, f
      <4> QED
        BY <1>1, <2>1, <2>2, <2>3, <3>1 DEF Answered, NextRow
    <3> QED
      BY <1>1, <1>2, <1>7, <3>1, <3>2
  <2> QED
    BY <2>4, <2>5
<1> QED
  BY <1>8, <1>9

(* A candidate that is passed over.                                         *)
PassedOver(f) ==
    /\ phase' = "contact" /\ row' = row /\ candidate' = candidate + 1 /\ binding' = binding
    /\ session' = [session EXCEPT ![f] = Nobody]

(* A candidate of a pool.                                                   *)
LEMMA Tries ==
    ASSUME TypeOK, Rowwise, TryCandidate
    PROVE  LET f == Faces[row]
               a == Pool[BoxOf[f]][candidate]
           IN
           /\ Reaches(f, a) /\ binding[f].source = "Pool" /\ Resolve(f).source = "Pool"
           /\ candidate \in 1..Len(Pool[BoxOf[f]]) /\ a \in ToSet(Pool[BoxOf[f]])
           /\ \/ Answered(f, a, candidate) /\ Entered(f, a, candidate)
              \/ PassedOver(f) /\ UNCHANGED <<claimed, contacted>>
              \/ GivenUp(f, a) /\ UNCHANGED <<claimed, contacted>>
<1> DEFINE f == Faces[row]
           box == BoxOf[f]
           a == Pool[box][candidate]
           with == [binding[f] EXCEPT !.value = a, !.identity = world[a], !.position = candidate]
<1>1. /\ phase = "contact" /\ row \in Rows /\ ~Skipped(f) /\ binding[f].source = "Pool" /\ Earlier(box) = {}
      /\ candidate <= Len(Pool[box])
  BY DEF TryCandidate
<1>2. /\ f \in FaceSet /\ AsBound(f) /\ asked.attached = TRUE
      /\ binding[f] \in Entry /\ f \in Contactable /\ f \notin plan.simulated
      /\ Resolve(f).value # Simulated
  BY <1>1, CurrentRow
<1>3. Resolve(f).source = "Pool"
  BY <1>1, <1>2 DEF AsBound, Decided
<1>4. candidate \in 1..Len(Pool[box]) /\ candidate \in Nat /\ candidate # 0
  <2>1. candidate \in Nat /\ candidate # 0
    BY TypedState DEF Typed, Rowwise
  <2>2. Len(Pool[box]) \in Nat
    BY <1>2, FaceInBox, LenProperties
  <2> QED
    BY <1>1, <2>1, <2>2
<1>5. a \in ToSet(Pool[box])
  BY <1>2, <1>4, FaceInBox, LenProperties DEF ToSet
<1>6. a \in Addresses \ {Simulated} /\ Allows(f, a)
  BY <1>2, <1>3, <1>5, AtFits
<1>7. binding \in [FaceSet -> Entry]
  BY TypedState DEF Typed
<1>8. PICK o \in Outcomes(a) :
        /\ address' = [address EXCEPT ![f] = a]
        /\ CASE o = "refused" -> Fail /\ UNCHANGED <<binding, session, claimed, contacted>>
             [] o = "lost" \/ (o = "answers" /\ ClaimedByAnother(SerialOf[world[a]], box)) ->
                    /\ session' = [session EXCEPT ![f] = Nobody]
                    /\ candidate' = candidate + 1
                    /\ UNCHANGED <<binding, claimed, contacted, phase, row>>
             [] OTHER ->
                    /\ session' = [session EXCEPT ![f] = world[a]]
                    /\ binding' = [binding EXCEPT ![f] = [binding[f] EXCEPT !.value = a, !.identity = world[a], !.position = candidate]]
                    /\ claimed' = claimed \cup {[serial |-> SerialOf[world[a]], box |-> box]}
                    /\ contacted' = contacted \cup {Contacted(box, a, world[a], candidate)}
                    /\ NextRow
  BY <1>2, <1>7 DEF TryCandidate
<1>9. Reaches(f, a)
  BY <1>1, <1>2, <1>6, <1>8 DEF Reaches, TryCandidate
<1>10. o \in {"refused", "lost", "answers"}
  BY DEF Outcomes
<1>11. CASE o = "refused"
  <2>1. UNCHANGED <<binding, session, claimed, contacted>> /\ Fail
    BY <1>8, <1>11
  <2>2. \E b \in Entry : binding' = [binding EXCEPT ![f] = b]
    BY <1>2, <1>7, <2>1, Unaltered
  <2>3. GivenUp(f, a)
    BY <2>1, <2>2 DEF GivenUp, Fail
  <2> QED
    BY <1>1, <1>3, <1>4, <1>5, <1>9, <2>1, <2>3
<1>12. CASE o = "lost" \/ (o = "answers" /\ ClaimedByAnother(SerialOf[world[a]], box))
  <2>1. /\ session' = [session EXCEPT ![f] = Nobody]
        /\ candidate' = candidate + 1
        /\ UNCHANGED <<binding, claimed, contacted, phase, row>>
    BY <1>8, <1>12
  <2> QED
    BY <1>1, <1>3, <1>4, <1>5, <1>9, <2>1 DEF PassedOver
<1>13. CASE o = "answers" /\ ~ClaimedByAnother(SerialOf[world[a]], box)
  <2>1. /\ session' = [session EXCEPT ![f] = world[a]]
        /\ binding' = [binding EXCEPT ![f] = with]
        /\ claimed' = claimed \cup {[serial |-> SerialOf[world[a]], box |-> box]}
        /\ contacted' = contacted \cup {Contacted(box, a, world[a], candidate)}
        /\ NextRow
    BY <1>8, <1>13
  <2>2. world[a] \in Units
    BY <1>6, <1>13, Answering
  <2>3. with \in Entry /\ with.source = binding[f].source /\ with.value = a
        /\ with.position = candidate /\ with.identity = world[a]
    BY <1>2, <1>4, <1>6, <2>2 DEF Entry
  <2>4. Entered(f, a, candidate)
    BY <1>1, <1>13, <2>1 DEF Entered
  <2>5. Answered(f, a, candidate)
    <3> HIDE DEF a, with, f
    <3> QED
      BY <1>1, <2>1, <2>2, <2>3 DEF Answered, NextRow
  <2> QED
    BY <1>1, <1>3, <1>4, <1>5, <1>9, <2>4, <2>5
<1> QED
  BY <1>10, <1>11, <1>12, <1>13

(* What a pass did to the current face, for its entries' types.             *)
LEMMA EntryKept ==
    ASSUME TypeOK, NEW f \in FaceSet, NEW a \in Addresses,
           address' = [address EXCEPT ![f] = a],
           binding' = binding \/ \E b \in Entry : binding' = [binding EXCEPT ![f] = b],
           session' = session \/ session' = [session EXCEPT ![f] = Nobody]
              \/ (world[a] \in Units /\ session' = [session EXCEPT ![f] = world[a]])
    PROVE  /\ binding' \in [FaceSet -> Entry] /\ address' \in [FaceSet -> Addresses]
           /\ session' \in [FaceSet -> Units \cup {Nobody}]
BY TypedState DEF Typed

(* The next row is a row, or the end of the table.                          *)
LEMMA RowKept ==
    ASSUME row \in Rows
    PROVE  row \in 1..(Len(Faces) + 1) /\ row + 1 \in 1..(Len(Faces) + 1)
BY FaceRows DEF Rows

(* ... and for the rest of the state.                                       *)
LEMMA TypeReached ==
    ASSUME TypeOK, NEW f, NEW a, Reaches(f, a),
           GivenUp(f, a) \/ PassedOver(f) \/ \E p : Answered(f, a, p),
           \/ UNCHANGED <<claimed, contacted>>
           \/ world[a] \in Units /\ \E p : Entered(f, a, p)
    PROVE  TypeOK'
<1>1. /\ f \in FaceSet /\ a \in Addresses /\ row \in Rows
      /\ address' = [address EXCEPT ![f] = a]
      /\ UNCHANGED <<asked, plan, world, energised, told>>
  BY DEF Reaches
<1>2. /\ binding' = binding \/ \E b \in Entry : binding' = [binding EXCEPT ![f] = b]
      /\ session' = session \/ session' = [session EXCEPT ![f] = Nobody]
              \/ (world[a] \in Units /\ session' = [session EXCEPT ![f] = world[a]])
  BY DEF Answered, GivenUp, PassedOver
<1>3. /\ binding' \in [FaceSet -> Entry] /\ address' \in [FaceSet -> Addresses]
      /\ session' \in [FaceSet -> Units \cup {Nobody}]
  BY <1>1, <1>2, EntryKept
<1>4. candidate \in Nat
  BY DEF TypeOK
<1>5. phase' \in {"contact", "failed"} /\ row' \in {row, row + 1} /\ candidate' \in {1, candidate, candidate + 1}
  BY DEF Answered, GivenUp, PassedOver
<1>6. row' \in 1..(Len(Faces) + 1) /\ candidate' \in Nat
  BY <1>1, <1>4, <1>5, RowKept
<1>7. /\ claimed' \subseteq [serial : {SerialOf[u] : u \in Units}, box : Boxes]
      /\ \A c \in contacted' : c.box \in Boxes /\ c.value \in Addresses
  BY <1>1, FaceInBox, TypedState DEF Typed, Entered, Contacted
<1> QED
  BY <1>1, <1>3, <1>5, <1>6, <1>7 DEF TypeOK, Entry, Sources

-----------------------------------------------------------------------------
(* The types.                                                               *)

LEMMA TypeInit == Init => TypeOK
<1> SUFFICES ASSUME Init
             PROVE  TypeOK
  OBVIOUS
<1> USE DEF Init
<1>1. asked \in [site : Sites \cup {Unknown, "elsewhere"}, attached : BOOLEAN]
  OBVIOUS
<1>2. plan.overrides = <<>> /\ plan.simulated = {}
  OBVIOUS
<1>3. binding \in [FaceSet -> Entry]
  BY DEF Unbound, Entry, Sources
<1>4. address \in [FaceSet -> Addresses]
  BY TablesFit DEF TablesFit
<1>5. row \in 1..(Len(Faces) + 1) /\ candidate \in Nat
  BY FaceRows
<1>6. world \in [Addresses \ {Simulated} -> Units \cup {Nobody}]
  OBVIOUS
<1> QED
  BY <1>1, <1>2, <1>3, <1>4, <1>5, <1>6 DEF TypeOK, Entry, Sources

(* The flags and the exports end up in the plan.                            *)
LEMMA PlanTyped == TypeOK /\ ReadPlan => plan'.overrides \in Seq(Flags \cup Exports) /\ plan'.simulated \subseteq FaceSet
<1> SUFFICES ASSUME TypeOK, ReadPlan
             PROVE  plan'.overrides \in Seq(Flags \cup Exports) /\ plan'.simulated \subseteq FaceSet
  OBVIOUS
<1>1. PICK flags \in SeqOf(Flags, 2), exports \in SeqOf(Exports, 1) :
        \/ plan' = plan
        \/ plan' = [overrides |-> flags \o exports,
                    simulated |-> {t[1] : t \in {u \in ToSet(flags) : ParseFaceSimulation(u)}}]
  BY DEF ReadPlan
<1>2. ASSUME NEW S, NEW n \in Nat, NEW s \in SeqOf(S, n)
      PROVE  s \in Seq(S)
  BY <1>2 DEF SeqOf
<1>3. flags \in Seq(Flags) /\ exports \in Seq(Exports)
  BY <1>2
<1>4. flags \in Seq(Flags \cup Exports) /\ exports \in Seq(Flags \cup Exports)
  BY <1>3
<1>5. flags \o exports \in Seq(Flags \cup Exports)
  BY <1>4, ConcatProperties
<1>6. plan.overrides \in Seq(Flags \cup Exports) /\ plan.simulated \subseteq FaceSet
  BY DEF TypeOK
<1>7. \A u : ParseFaceSimulation(u) => u[1] \in FaceSet
  BY DEF ParseFaceSimulation
<1>8. CASE plan' = plan
  BY <1>6, <1>8
<1>9. CASE plan' = [overrides |-> flags \o exports,
                    simulated |-> {t[1] : t \in {u \in ToSet(flags) : ParseFaceSimulation(u)}}]
  BY <1>5, <1>7, <1>9
<1> QED
  BY <1>1, <1>8, <1>9

LEMMA TypeStep ==
    ASSUME TypeOK, Rowwise, Books, [Next]_vars
    PROVE  TypeOK'
<1>a. Typed
  BY TypedState
<1>b. world \in [Addresses \ {Simulated} -> Units \cup {Nobody}]
  BY TypedState
<1>c. \A f \in FaceSet, x \in Addresses : Reached(f, x) \subseteq FaceSet \X Units
  BY <1>b DEF Reached
<1>e. \A f \in FaceSet : \A box, x : {f} \X OpenSession(box, x) \subseteq FaceSet \X Units
  BY <1>a DEF OpenSession, Typed
<1>d. ASSUME asked' = asked, plan' = plan, world' = world, Typed'
      PROVE  TypeOK'
  BY <1>d DEF TypeOK, Typed, Entry, Sources
<1>1. CASE ReadPlan
  <2>1. Typed' /\ asked' = asked /\ world' = world
    BY <1>a, <1>1 DEF ReadPlan, contactVars, Typed
  <2> QED
    BY <1>1, <2>1, PlanTyped DEF TypeOK, Typed, Entry, Sources
<1>2. CASE BindOne
  <2> DEFINE f == Faces[row]
             r == Resolve(f)
             bound == [binding[f] EXCEPT !.value = r.value, !.source = r.source]
  <2>1. f \in FaceSet /\ row \in Rows
    BY <1>2, FaceRows DEF BindOne
  <2>2. r.value \in Addresses /\ r.source \in Sources
    BY <2>1, ResolveShape DEF Sources
  <2>3. bound \in Entry
    <3>1. binding[f] \in Entry
      BY <1>a, <2>1 DEF Typed
    <3> HIDE DEF r, f
    <3> QED
      BY <2>2, <3>1 DEF Entry
  <2>4. binding' = binding \/ binding' = [binding EXCEPT ![f] = bound]
    BY <1>2, <1>a, <2>1 DEF BindOne, Typed
  <2>5. binding' \in [FaceSet -> Entry]
    BY <1>a, <2>1, <2>3, <2>4 DEF Typed
  <2>6. address' \in [FaceSet -> Addresses]
    BY <1>2, <1>a, <2>1, <2>2 DEF BindOne, Moved, Typed
  <2>7. row' \in 1..(Len(Faces) + 1) /\ phase' \in {"bind", "failed"}
    BY <1>2, <2>1, RowKept DEF BindOne
  <2> QED
    BY <1>2, <1>a, <1>d, <2>5, <2>6, <2>7 DEF BindOne, Typed
<1>3. CASE Bound
  <2>1. world' \in [Addresses \ {Simulated} -> Units \cup {Nobody}]
    BY <1>3, <1>b DEF Bound
  <2>2. Typed' /\ asked' = asked /\ plan' = plan
    BY <1>a, <1>3, FaceRows DEF Bound, contactVars, Typed
  <2> QED
    BY <2>1, <2>2 DEF TypeOK, Typed, Entry, Sources
<1>4. CASE SkipFace
  BY <1>4, <1>a, <1>d, RowKept DEF SkipFace, NextRow, contactVars, Typed
<1>5. CASE FollowFace
  BY <1>5, Follows, TypeReached
<1>6. CASE FixedFace
  BY <1>6, Fixes, TypeReached DEF Answered
<1>7. CASE TryCandidate
  BY <1>7, Tries, TypeReached DEF Answered
<1>8. CASE PoolExhausted
  BY <1>8, <1>a, <1>d DEF PoolExhausted, Fail, contactVars, Typed
<1>9. CASE CheckCards
  BY <1>9, <1>a, <1>d DEF CheckCards, contactVars, Typed
<1>10. CASE Drive
  BY <1>10, <1>a, <1>c, <1>d DEF Drive, contactVars, Typed
<1>11. CASE Finish
  <2>1. told' \subseteq FaceSet \X Units
    BY <1>11, <1>a, <1>e DEF Finish, SafeRig, Typed
  <2> QED
    BY <1>11, <2>1, <1>a, <1>d DEF Finish, contactVars, Typed
<1>12. CASE Die
  <2>1. address' \in [FaceSet -> Addresses]
    BY <1>12, TablesFit DEF Die, TablesFit
  <2> QED
    BY <1>12, <2>1, <1>a, <1>d DEF Die, Typed
<1>13. CASE SafeOnly
  <2>1. told' \subseteq FaceSet \X Units
    BY <1>13, <1>a, <1>e DEF SafeOnly, SafeRig, Typed
  <2> QED
    BY <1>13, <2>1, <1>a, <1>d DEF SafeOnly, contactVars, Typed
<1>14. CASE Over \/ UNCHANGED vars
  BY <1>14, <1>a, <1>d DEF Over, vars, Typed
<1> QED
  BY <1>1, <1>2, <1>3, <1>4, <1>5, <1>6, <1>7, <1>8, <1>9, <1>10, <1>11, <1>12, <1>13, <1>14 DEF Next

-----------------------------------------------------------------------------
(* The rows.                                                                *)

(* What becomes of the face a step of the second pass is at.                *)
LEMMA AnsweredMet ==
    ASSUME TypeOK, NEW f, NEW a, NEW position, Reaches(f, a), Answered(f, a, position),
           binding[f].source # "Pool" => a = Resolve(f).value,
           \E c \in contacted' : c.box = BoxOf[f] /\ c.value = a /\ c.position = position
    PROVE  Passed(f)'
<1>1. f \in FaceSet /\ UNCHANGED <<asked, plan>> /\ a # Simulated /\ f \in Contactable
  BY DEF Reaches
<1>2. /\ binding \in [FaceSet -> Entry] /\ address \in [FaceSet -> Addresses]
      /\ session \in [FaceSet -> Units \cup {Nobody}]
  BY TypedState DEF Typed
<1>3. PICK b \in Entry : /\ binding' = [binding EXCEPT ![f] = b]
                         /\ b.source = binding[f].source /\ b.value = a
                         /\ b.identity = world[a] /\ b.position \in {0, position}
  BY DEF Answered
<1>4. /\ binding'[f].source = binding[f].source /\ binding'[f].value = a
      /\ binding'[f].identity = world[a] /\ binding'[f].position \in {0, position}
  BY <1>1, <1>2, <1>3
<1>5. address'[f] = a /\ session'[f] = world[a] /\ world[a] \in Units
  BY <1>1, <1>2 DEF Reaches, Answered
<1>6. Resolve(f)' = Resolve(f)
  BY <1>1, ResolveKept
<1>7. Decided(f)
  BY DEF Reaches, AsBound
<1>8. Decided(f)'
  BY <1>4, <1>5, <1>6, <1>7 DEF Decided, RequireAccepted, Allows
<1>9. ~Skipped(f)'
  BY <1>1, <1>4 DEF Skipped
<1>10. Nobody \notin Units
  BY UnitsAreThemselves DEF UnitsAreThemselves
<1>11. Met(f)'
  BY <1>4, <1>5, <1>10 DEF Met
<1> QED
  BY <1>8, <1>9, <1>11 DEF Passed

(* A later candidate is still to be tried.                                  *)
LEMMA PassedOverAsBound ==
    ASSUME TypeOK, NEW f, NEW a, Reaches(f, a), PassedOver(f), binding[f].source = "Pool"
    PROVE  AsBound(f)'
<1>1. f \in FaceSet /\ UNCHANGED <<asked, plan>> /\ AsBound(f)
  BY DEF Reaches
<1>2. Resolve(f)' = Resolve(f)
  BY <1>1, ResolveKept
<1>3. binding' = binding /\ session'[f] = Nobody
  BY <1>1, TypedState DEF PassedOver, Typed
<1>4. Decided(f)'
  BY <1>1, <1>2, <1>3 DEF AsBound, Decided, RequireAccepted, Allows
<1>5. binding[f].value # Simulated
  BY <1>1 DEF Reaches, Skipped
<1> QED
  BY <1>1, <1>2, <1>3, <1>4, <1>5 DEF AsBound, Untouched

(* The other faces.                                                         *)
LEMMA OthersKept ==
    ASSUME TypeOK, NEW f, NEW a, Reaches(f, a), contacted \subseteq contacted',
           GivenUp(f, a) \/ PassedOver(f) \/ \E p : Answered(f, a, p)
    PROVE  \A g \in FaceSet \ {f} : /\ binding'[g] = binding[g] /\ address'[g] = address[g]
                                    /\ session'[g] = session[g]
                                    /\ AsBound(g) => AsBound(g)'
                                    /\ Passed(g) => Passed(g)'
<1> SUFFICES ASSUME NEW g \in FaceSet \ {f}
             PROVE  /\ binding'[g] = binding[g] /\ address'[g] = address[g]
                    /\ session'[g] = session[g]
                    /\ AsBound(g) => AsBound(g)'
                    /\ Passed(g) => Passed(g)'
  OBVIOUS
<1>1. address'[g] = address[g] /\ UNCHANGED <<asked, plan>>
  BY TypedState DEF Typed, Reaches
<1>2. binding'[g] = binding[g] /\ session'[g] = session[g]
  BY TypedState DEF Typed, GivenUp, PassedOver, Answered
<1> QED
  BY <1>1, <1>2, Kept

LEMMA RowwiseReached ==
    ASSUME TypeOK, Rowwise, NEW f, NEW a, Reaches(f, a), contacted \subseteq contacted',
           \/ GivenUp(f, a)
           \/ PassedOver(f) /\ AsBound(f)'
           \/ Passed(f)' /\ \E p : Answered(f, a, p)
    PROVE  Rowwise'
<1>1. /\ f = Faces[row] /\ row \in Rows /\ row \in Nat /\ candidate \in Nat /\ candidate # 0
      /\ phase = "contact" /\ asked.attached = TRUE /\ UNCHANGED asked
  BY FaceRows DEF Reaches, TypeOK, Rowwise
<1>2. phase' \in {"contact", "failed"} /\ candidate' # 0
  BY <1>1 DEF GivenUp, PassedOver, Answered
<1>3. phase' = "contact" => \A i \in Rows : IF i < row' THEN Passed(Faces[i])' ELSE AsBound(Faces[i])'
  <2> SUFFICES ASSUME phase' = "contact", NEW i \in Rows
               PROVE  IF i < row' THEN Passed(Faces[i])' ELSE AsBound(Faces[i])'
    OBVIOUS
  <2>1. /\ i \in Nat /\ Faces[i] \in FaceSet
        /\ IF i < row THEN Passed(Faces[i]) ELSE AsBound(Faces[i])
        /\ Faces[i] = f => i = row
    BY <1>1, FaceRows DEF Rowwise, Rows
  <2>2. \/ PassedOver(f) /\ AsBound(f)' /\ row' = row
        \/ Passed(f)' /\ row' = row + 1
    BY DEF GivenUp, PassedOver, Answered
  <2>3. CASE Faces[i] = f
    BY <1>1, <2>1, <2>2, <2>3
  <2>4. CASE Faces[i] # f
    <3>1. (AsBound(Faces[i]) => AsBound(Faces[i])') /\ (Passed(Faces[i]) => Passed(Faces[i])')
      BY <2>1, <2>4, OthersKept
    <3>2. i # row
      BY <1>1, <2>4
    <3> QED
      BY <1>1, <2>1, <2>2, <3>1, <3>2
  <2> QED
    BY <2>3, <2>4
<1> QED
  BY <1>1, <1>2, <1>3 DEF Rowwise

LEMMA RowwiseStep ==
    ASSUME TypeOK, Rowwise, Books, [Next]_vars
    PROVE  Rowwise'
<1>a. Typed /\ asked.attached \in BOOLEAN
  BY TypedState
<1>b. candidate # 0 /\ candidate \in Nat /\ row \in Nat
  BY <1>a, FaceRows DEF Typed, Rowwise
<1>1. CASE ReadPlan
  <2>1. /\ row = 1 /\ row' = row /\ candidate' = candidate /\ asked' = asked /\ UNCHANGED contactVars
        /\ phase' \in {"failed", "bind"} /\ \A f \in FaceSet : Fresh(f)
    BY <1>1 DEF ReadPlan, Rowwise
  <2>2. \A f \in FaceSet : Fresh(f)' /\ Untouched(f)'
    BY <2>1 DEF Fresh, Untouched, contactVars
  <2>3. \A i \in Rows : ~(i < row')
    BY <2>1, FaceRows DEF Rows
  <2> QED
    BY <1>b, <2>1, <2>2, <2>3, FaceRows DEF Rowwise
<1>2. CASE BindOne
  <2>0. PICK f \in FaceSet : f = Faces[row]
    BY <1>2, FaceRows DEF BindOne
  <2> DEFINE r == Resolve(f)
             bound == [binding[f] EXCEPT !.value = r.value, !.source = r.source]
  <2>1. /\ f = Faces[row] /\ row \in Rows /\ phase = "bind" /\ candidate' = candidate
        /\ UNCHANGED <<asked, plan, session, contacted>>
    BY <1>2, <2>0 DEF BindOne
  <2>2. Fresh(f) /\ Untouched(f)
    BY <2>1, FaceRows DEF Rowwise, Rows, Fresh
  <2>3. CASE phase' = "failed" /\ UNCHANGED <<binding, address, row>>
    <3>1. \A g \in FaceSet : Untouched(g)' <=> Untouched(g)
      BY <2>1, <2>3 DEF Untouched
    <3> QED
      BY <1>b, <2>1, <2>3, <3>1 DEF Rowwise
  <2>4. CASE /\ RequireAccepted(f, r) /\ binding' = [binding EXCEPT ![f] = bound]
             /\ address' = Moved(f, r) /\ row' = row + 1 /\ phase' = phase
    <3>1. /\ binding'[f].value = r.value /\ binding'[f].source = r.source
          /\ binding'[f].identity = binding[f].identity /\ binding'[f].position = binding[f].position
          /\ r.source # "Pool" => address'[f] = r.value
      BY <1>a, <2>1, <2>4 DEF Typed, Entry, Moved
    <3>2. r' = r
      BY <2>1, ResolveKept
    <3>3. Decided(f)'
      BY <2>4, <3>1, <3>2 DEF Decided, RequireAccepted, Allows
    <3>4. Untouched(f)'
      BY <2>1, <2>2, <3>1 DEF Untouched
    <3>5. AsBound(f)'
      <4>1. r.source = "Pool" => r.value = TableAddress[f] /\ address' = address
        BY <2>4, ResolveShape DEF Moved
      <4>2. address'[f] = r.value
        BY <2>2, <3>1, <4>1 DEF Fresh
      <4> QED
        BY <3>1, <3>2, <3>3, <3>4, <4>2 DEF AsBound
    <3>6. \A g \in FaceSet \ {f} : /\ AsBound(g) => AsBound(g)'
                                   /\ Fresh(g) => Fresh(g)'
                                   /\ Untouched(g) => Untouched(g)'
      <4> SUFFICES ASSUME NEW g \in FaceSet \ {f}
                   PROVE  /\ AsBound(g) => AsBound(g)'
                          /\ Fresh(g) => Fresh(g)'
                          /\ Untouched(g) => Untouched(g)'
        OBVIOUS
      <4>1. binding'[g] = binding[g] /\ address'[g] = address[g] /\ session'[g] = session[g]
        BY <1>a, <2>1, <2>4 DEF Typed, Moved
      <4> QED
        BY <2>1, <4>1, Kept
    <3>7. ASSUME NEW i \in Rows
          PROVE  IF i < row' THEN AsBound(Faces[i])' ELSE Fresh(Faces[i])'
      <4>1. /\ i \in Nat /\ Faces[i] \in FaceSet
            /\ Faces[i] = f => i = row
            /\ IF i < row THEN AsBound(Faces[i]) ELSE Fresh(Faces[i])
        BY <2>1, FaceRows DEF Rowwise, Rows
      <4>2. row' = row + 1 /\ row \in Nat
        BY <1>b, <2>4
      <4>3. CASE Faces[i] = f
        BY <3>5, <4>1, <4>2, <4>3
      <4>4. CASE Faces[i] # f
        <5>1. i # row
          BY <2>1, <4>4
        <5> QED
          BY <3>6, <4>1, <4>2, <4>4, <5>1
      <4> QED
        BY <4>3, <4>4
    <3>8. asked'.attached = FALSE => \A g \in FaceSet : Untouched(g)'
      BY <2>1, <3>4, <3>6 DEF Rowwise
    <3> QED
      BY <1>b, <2>1, <2>4, <3>7, <3>8 DEF Rowwise
  <2>5. \/ phase' = "failed" /\ UNCHANGED <<binding, address, row>>
        \/ /\ RequireAccepted(f, r) /\ binding' = [binding EXCEPT ![f] = bound]
           /\ address' = Moved(f, r) /\ row' = row + 1 /\ phase' = phase
    BY <1>2, <1>a, <2>0, <2>1 DEF BindOne, Typed
  <2> QED
    BY <2>3, <2>4, <2>5
<1>3. CASE Bound
  <2>1. /\ phase = "bind" /\ row = Len(Faces) + 1 /\ UNCHANGED <<asked, plan, candidate, binding, address, session, contacted>>
        /\ row' = 1 /\ IF asked.attached = TRUE THEN phase' = "contact" ELSE phase' = "ready"
    BY <1>3, <1>a DEF Bound, contactVars
  <2>2. \A f \in FaceSet : AsBound(f)
    BY <2>1, FaceRows DEF Rowwise, Rows
  <2>3. \A f \in FaceSet : AsBound(f)' /\ (Untouched(f) => Untouched(f)')
    BY <2>1, <2>2, Kept
  <2>4. \A i \in Rows : ~(i < row') /\ Faces[i] \in FaceSet
    BY <2>1, FaceRows DEF Rows
  <2> QED
    BY <1>a, <1>b, <2>1, <2>3, <2>4 DEF Rowwise, AsBound
<1>4. CASE SkipFace
  <2> DEFINE f == Faces[row]
  <2>1. /\ phase = "contact" /\ phase' = phase /\ row \in Rows /\ Skipped(f) /\ f \in FaceSet
        /\ UNCHANGED <<asked, plan, binding, address, session, contacted>>
        /\ row' = row + 1 /\ candidate' = 1
    BY <1>4, FaceRows DEF SkipFace, NextRow, contactVars
  <2>2. Passed(f)
    BY <2>1, CurrentRow DEF Passed, AsBound
  <2>3. \A g \in FaceSet : (AsBound(g) => AsBound(g)') /\ (Passed(g) => Passed(g)') /\ (Untouched(g) => Untouched(g)')
    BY <2>1, Kept
  <2>4. ASSUME NEW i \in Rows
        PROVE  IF i < row' THEN Passed(Faces[i])' ELSE AsBound(Faces[i])'
    <3>1. /\ i \in Nat /\ Faces[i] \in FaceSet
          /\ IF i < row THEN Passed(Faces[i]) ELSE AsBound(Faces[i])
      BY <2>1, FaceRows DEF Rowwise, Rows
    <3> QED
      BY <1>b, <2>1, <2>2, <2>3, <3>1
  <2> QED
    BY <2>1, <2>3, <2>4 DEF Rowwise
<1>5. CASE FollowFace
  <2>1. PICK f \in FaceSet, e \in contacted :
          /\ e.box = BoxOf[f] /\ Reaches(f, e.value)
          /\ UNCHANGED <<claimed, contacted>>
          /\ Answered(f, e.value, e.position) \/ GivenUp(f, e.value)
    BY <1>5, Follows DEF Reaches
  <2>2. binding[f].source # "Pool" => e.value = Resolve(f).value
    <3>1. /\ phase = "contact" /\ AsBound(f) /\ f \in FaceSet /\ ~Skipped(f)
          /\ f \in Contactable
      BY <2>1 DEF Reaches
    <3>2. At(e.box, e.value)
      BY <2>1, <3>1 DEF Books, Reaching
    <3>3. Resolve(f).value # Simulated /\ binding[f].source = Resolve(f).source
      BY <3>1 DEF AsBound, Decided, Skipped
    <3> QED
      BY <2>1, <3>1, <3>2, <3>3 DEF At
  <2>3. Answered(f, e.value, e.position) => Passed(f)'
    BY <2>1, <2>2, AnsweredMet
  <2> QED
    BY <2>1, <2>3, RowwiseReached
<1>6. CASE FixedFace
  <2>1. PICK f \in FaceSet, a \in Addresses :
        /\ Reaches(f, a) /\ a = Resolve(f).value
        /\ \/ Answered(f, a, 0) /\ Entered(f, a, 0)
           \/ GivenUp(f, a) /\ UNCHANGED <<claimed, contacted>>
    BY <1>6, Fixes DEF Reaches
  <2>2. CASE Answered(f, a, 0) /\ Entered(f, a, 0)
    <3>1. Contacted(BoxOf[f], a, world[a], 0) \in contacted' /\ contacted \subseteq contacted'
      BY <2>2 DEF Entered
    <3>2. Passed(f)'
      BY <2>1, <2>2, <3>1, AnsweredMet DEF Contacted
    <3> QED
      BY <2>1, <2>2, <3>1, <3>2, RowwiseReached
  <2>3. CASE GivenUp(f, a) /\ UNCHANGED <<claimed, contacted>>
    BY <2>1, <2>3, RowwiseReached
  <2> QED
    BY <2>1, <2>2, <2>3
<1>7. CASE TryCandidate
  <2>1. PICK f \in FaceSet, a \in Addresses, position \in Nat :
        /\ Reaches(f, a) /\ binding[f].source = "Pool"
        /\ \/ Answered(f, a, position) /\ Entered(f, a, position)
           \/ PassedOver(f) /\ UNCHANGED <<claimed, contacted>>
           \/ GivenUp(f, a) /\ UNCHANGED <<claimed, contacted>>
    BY <1>7, Tries, TypedState DEF Reaches, Typed
  <2>2. CASE Answered(f, a, position) /\ Entered(f, a, position)
    <3>1. Contacted(BoxOf[f], a, world[a], position) \in contacted' /\ contacted \subseteq contacted'
      BY <2>2 DEF Entered
    <3>2. Passed(f)'
      BY <2>1, <2>2, <3>1, AnsweredMet DEF Contacted
    <3> QED
      BY <2>1, <2>2, <3>1, <3>2, RowwiseReached
  <2>3. CASE PassedOver(f) /\ UNCHANGED <<claimed, contacted>>
    BY <2>1, <2>3, PassedOverAsBound, RowwiseReached
  <2>4. CASE GivenUp(f, a) /\ UNCHANGED <<claimed, contacted>>
    BY <2>1, <2>4, RowwiseReached
  <2> QED
    BY <2>1, <2>2, <2>3, <2>4
<1>8. CASE phase' = "failed" /\ UNCHANGED <<asked, candidate, contactVars>>
  <2>1. \A f \in FaceSet : Untouched(f)' <=> Untouched(f)
    BY <1>8 DEF Untouched, contactVars
  <2> QED
    BY <1>b, <1>8, <2>1 DEF Rowwise
<1>9. CASE CheckCards
  <2>1. /\ phase = "contact" /\ row = Len(Faces) + 1 /\ phase' \in {"ready", "failed"}
        /\ UNCHANGED <<asked, plan, row, candidate, binding, address, session, contacted>>
    BY <1>9 DEF CheckCards, contactVars
  <2>2. \A f \in FaceSet : Passed(f)
    BY <2>1, FaceRows DEF Rowwise, Rows
  <2>3. \A f \in FaceSet : Passed(f)' /\ Decided(f)' /\ (Untouched(f) => Untouched(f)')
    BY <2>1, <2>2, Kept DEF Passed
  <2> QED
    BY <1>b, <2>1, <2>3 DEF Rowwise
<1>10. CASE UNCHANGED <<asked, plan, phase, row, candidate, binding, address, session, contacted>>
  <2>1. \A g \in FaceSet : /\ AsBound(g) => AsBound(g)'
                           /\ Passed(g) => Passed(g)'
                           /\ Decided(g) => Decided(g)'
                           /\ Fresh(g) => Fresh(g)'
                           /\ Untouched(g) => Untouched(g)'
    BY <1>10, Kept
  <2> QED
    BY <1>10, <2>1, FaceRows DEF Rowwise
<1>11. CASE Finish
  <2>1. \A g \in FaceSet : Untouched(g)' <=> Untouched(g)
    BY <1>11 DEF Finish, contactVars, Untouched
  <2> QED
    BY <1>11, <1>b, <2>1 DEF Finish, Rowwise
<1>12. CASE Die
  <2>1. \A g \in FaceSet : Untouched(g) => Untouched(g)'
    BY <1>12 DEF Die, Untouched
  <2> QED
    BY <1>12, <1>b, <2>1 DEF Die, Rowwise
<1>13. CASE SafeOnly
  <2>1. \A g \in FaceSet : Untouched(g)' <=> Untouched(g)
    BY <1>13 DEF SafeOnly, contactVars, Untouched
  <2> QED
    BY <1>13, <1>b, <2>1 DEF SafeOnly, Rowwise
<1>14. PoolExhausted => phase' = "failed" /\ UNCHANGED <<asked, candidate, contactVars>>
  BY DEF PoolExhausted, Fail
<1>15. Drive \/ Over \/ UNCHANGED vars => UNCHANGED <<asked, plan, phase, row, candidate, binding, address, session, contacted>>
  BY DEF Drive, Over, vars, contactVars
<1> QED
  BY <1>1, <1>2, <1>3, <1>4, <1>5, <1>6, <1>7, <1>8, <1>9, <1>10, <1>11, <1>12, <1>13, <1>14, <1>15 DEF Next

-----------------------------------------------------------------------------
(* The books.                                                               *)

(* What is known of a box stays known while the plan, the units and the      *)
(* claim on it stand.                                                       *)
LEMMA ReachingKept ==
    ASSUME NEW c, Reaching(c), UNCHANGED <<asked, plan, world>>, claimed \subseteq claimed',
           phase' \in {"contact", "ready"} => phase \in {"contact", "ready"}
    PROVE  Reaching(c)'
<1>1. At(c.box, c.value)' <=> At(c.box, c.value)
  BY ResolveKept DEF At
<1> QED
  BY <1>1 DEF Reaching

LEMMA BooksKept ==
    ASSUME Books, UNCHANGED <<asked, plan, world, claimed, contacted>>,
           phase' \in {"contact", "ready"} => phase \in {"contact", "ready"},
           phase' \in {"plan", "bind"} => phase \in {"plan", "bind"}
    PROVE  Books'
<1>1. \A c \in contacted' : Reaching(c)'
  BY ReachingKept DEF Books
<1> QED
  BY <1>1 DEF Books

(* A box is entered once, for a serial nobody else has.                     *)
LEMMA BooksEntered ==
    ASSUME TypeOK, Books, NEW f, NEW a, NEW position, Reaches(f, a), world[a] \in Units,
           phase' = "contact", Entered(f, a, position),
           position # 0 => position \in 1..Len(Pool[BoxOf[f]]) /\ Pool[BoxOf[f]][position] = a,
           At(BoxOf[f], a)
    PROVE  Books'
<1>0. PICK new, claim : new = Contacted(BoxOf[f], a, world[a], position)
                          /\ claim = [serial |-> SerialOf[world[a]], box |-> BoxOf[f]]
  OBVIOUS
<1>1. /\ UNCHANGED <<asked, plan, world>> /\ a \in Addresses \ {Simulated} /\ phase = "contact"
      /\ claimed' = claimed \cup {claim} /\ contacted' = contacted \cup {new}
      /\ \A c \in contacted : c.box # BoxOf[f]
      /\ \A x \in claimed : x.serial = SerialOf[world[a]] /\ x.serial # NoSerial => x.box = BoxOf[f]
  BY <1>0 DEF Reaches, Entered, Earlier, ClaimedByAnother
<1>2. new.box = BoxOf[f] /\ new.value = a /\ new.serial = SerialOf[world[a]] /\ new.position = position
  BY <1>0 DEF Contacted
<1>3. \A c \in contacted : Reaching(c)'
  BY <1>1, ReachingKept DEF Books
<1>4. At(BoxOf[f], a)'
  BY <1>1, ResolveKept DEF At
<1>5. Reaching(new)'
  BY <1>0, <1>1, <1>2, <1>4 DEF Reaching
<1>6. \A c, d \in contacted' : c.box = d.box => c = d
  BY <1>1, <1>2 DEF Books
<1>7. \A x, y \in claimed' : x.serial = y.serial /\ x.serial # NoSerial => x.box = y.box
  BY <1>0, <1>1 DEF Books
<1> QED
  BY <1>1, <1>3, <1>5, <1>6, <1>7 DEF Books

LEMMA BooksStep ==
    ASSUME TypeOK, Rowwise, Books, [Next]_vars
    PROVE  Books'
<1>1. CASE ReadPlan
  <2>1. contacted' = {} /\ claimed' = {}
    BY <1>1 DEF ReadPlan, contactVars, Books
  <2> QED
    BY <2>1 DEF Books
<1>2. CASE BindOne \/ Bound
  <2>1. contacted' = {} /\ claimed' = {}
    BY <1>2 DEF BindOne, Bound, contactVars, Books
  <2> QED
    BY <2>1 DEF Books
<1>3. CASE FollowFace
  <2>1. PICK f \in FaceSet, e \in contacted :
          /\ Reaches(f, e.value) /\ UNCHANGED <<claimed, contacted>>
          /\ Answered(f, e.value, e.position) \/ GivenUp(f, e.value)
    BY <1>3, Follows DEF Reaches
  <2> QED
    BY <2>1, BooksKept DEF Reaches, Answered, GivenUp
<1>4. CASE FixedFace
  <2>1. PICK f \in FaceSet, a \in Addresses :
          /\ Reaches(f, a) /\ binding[f].source # "Pool" /\ a = Resolve(f).value
          /\ \/ Answered(f, a, 0) /\ Entered(f, a, 0)
             \/ GivenUp(f, a) /\ UNCHANGED <<claimed, contacted>>
    BY <1>4, Fixes DEF Reaches
  <2>2. At(BoxOf[f], a)
    <3>1. Resolve(f).source # "Pool" /\ Resolve(f).value # Simulated
      BY <2>1 DEF Reaches, AsBound, Decided
    <3> QED
      BY <2>1, <3>1, SameBox DEF At
  <2>3. CASE Answered(f, a, 0) /\ Entered(f, a, 0)
    BY <2>1, <2>2, <2>3, BooksEntered DEF Answered
  <2>4. CASE GivenUp(f, a) /\ UNCHANGED <<claimed, contacted>>
    BY <2>1, <2>4, BooksKept DEF Reaches, GivenUp
  <2> QED
    BY <2>1, <2>3, <2>4
<1>5. CASE TryCandidate
  <2>1. PICK f \in FaceSet, position \in Nat, a \in Addresses :
          /\ a = Pool[BoxOf[f]][position] /\ Reaches(f, a) /\ Resolve(f).source = "Pool"
          /\ position \in 1..Len(Pool[BoxOf[f]]) /\ a \in ToSet(Pool[BoxOf[f]])
          /\ \/ Answered(f, a, position) /\ Entered(f, a, position)
             \/ PassedOver(f) /\ UNCHANGED <<claimed, contacted>>
             \/ GivenUp(f, a) /\ UNCHANGED <<claimed, contacted>>
    BY <1>5, Tries, TypedState DEF Reaches, Typed
  <2>2. At(BoxOf[f], a)
    <3>1. Resolve(f).value # Simulated
      BY <2>1 DEF Reaches, AsBound, Skipped
    <3> QED
      BY <2>1, <3>1, SameBox DEF At
  <2>3. CASE Answered(f, a, position) /\ Entered(f, a, position)
    BY <2>1, <2>2, <2>3, BooksEntered DEF Answered
  <2>4. CASE (PassedOver(f) \/ GivenUp(f, a)) /\ UNCHANGED <<claimed, contacted>>
    BY <2>1, <2>4, BooksKept DEF Reaches, GivenUp, PassedOver
  <2> QED
    BY <2>1, <2>3, <2>4
<1>6. CASE SkipFace \/ PoolExhausted \/ CheckCards
  <2>1. /\ phase = "contact" /\ phase' \in {"contact", "ready", "failed"}
        /\ UNCHANGED <<asked, plan, world, claimed, contacted>>
    BY <1>6 DEF SkipFace, NextRow, PoolExhausted, Fail, CheckCards, contactVars
  <2> QED
    BY <2>1, BooksKept
<1>7. CASE Drive \/ Finish \/ Die \/ SafeOnly \/ Over \/ UNCHANGED vars
  <2>1. /\ phase' \in {phase, "ended", "dead", "safed"}
        /\ UNCHANGED <<asked, plan, world, claimed, contacted>>
    BY <1>7 DEF Drive, Finish, Die, SafeOnly, Over, vars, contactVars
  <2> QED
    BY <2>1, BooksKept
<1> QED
  BY <1>1, <1>2, <1>3, <1>4, <1>5, <1>6, <1>7 DEF Next

-----------------------------------------------------------------------------
(* The sessions.                                                            *)

LEMMA SessionsReached ==
    ASSUME TypeOK, Rowwise, Sessions, NEW f, NEW a, Reaches(f, a), contacted \subseteq contacted',
           GivenUp(f, a) \/ PassedOver(f) \/ \E p : Answered(f, a, p)
    PROVE  Sessions'
<1>1. /\ f \in FaceSet /\ UNCHANGED <<asked, plan, world>> /\ phase' \in {"contact", "failed"}
      /\ f \in Contactable /\ f \notin plan.simulated /\ asked.attached = TRUE
      /\ a \in Addresses \ {Simulated} /\ Allows(f, a)
      /\ session[f] = Nobody
  BY DEF Reaches, GivenUp, PassedOver, Answered, AsBound, Untouched
<1>2. address'[f] = a /\ (session'[f] = Nobody \/ (session'[f] = world[a] /\ world[a] \in Units))
  BY <1>1, TypedState DEF Typed, Reaches, GivenUp, PassedOver, Answered
<1>3. session'[f] # Nobody => Fits(f, session[f])'
  BY <1>1, <1>2 DEF Fits, Allows
<1>4. \A g \in FaceSet \ {f} : session'[g] # Nobody => Fits(g, session[g])'
  <2> SUFFICES ASSUME NEW g \in FaceSet \ {f}, session'[g] # Nobody
               PROVE  Fits(g, session[g])'
    OBVIOUS
  <2>1. address'[g] = address[g] /\ session'[g] = session[g]
    BY OthersKept
  <2>2. Fits(g, session[g])
    BY <2>1 DEF Sessions
  <2> QED
    BY <1>1, <2>1, <2>2 DEF Fits, Allows
<1> QED
  BY <1>1, <1>3, <1>4 DEF Sessions

LEMMA SessionsStep ==
    ASSUME TypeOK, Rowwise, Books, Sessions, [Next]_vars
    PROVE  Sessions'
<1>1. CASE ReadPlan \/ BindOne \/ Bound
  <2>1. phase \in {"plan", "bind"} /\ session' = session
    BY <1>1 DEF ReadPlan, BindOne, Bound, contactVars
  <2>2. \A f \in FaceSet : session[f] = Nobody
    BY <2>1 DEF Sessions, Fits
  <2> QED
    BY <2>1, <2>2 DEF Sessions
<1>2. CASE FollowFace
  BY <1>2, Follows, SessionsReached
<1>3. CASE FixedFace
  BY <1>3, Fixes, SessionsReached DEF Entered
<1>4. CASE TryCandidate
  BY <1>4, Tries, SessionsReached DEF Entered
<1>5. CASE SkipFace \/ PoolExhausted \/ CheckCards \/ Drive \/ Finish \/ Over \/ UNCHANGED vars
  <2>1. /\ UNCHANGED <<asked, plan, world, address, session>>
        /\ phase' = phase \/ phase' \in {"contact", "failed", "ready", "ended"}
    BY <1>5 DEF SkipFace, NextRow, PoolExhausted, Fail, CheckCards, Drive, Finish, Over, vars, contactVars
  <2> QED
    BY <2>1 DEF Sessions, Fits, Allows
<1>6. CASE Die
  BY <1>6 DEF Die, Sessions
<1>7. CASE SafeOnly
  <2>1. phase = "dead" /\ session' = session
    BY <1>7 DEF SafeOnly, contactVars
  <2> QED
    BY <2>1 DEF Sessions, Fits
<1> QED
  BY <1>1, <1>2, <1>3, <1>4, <1>5, <1>6, <1>7 DEF Next

-----------------------------------------------------------------------------
(* The safing.                                                              *)

(* Whatever a driver's address leads to is on a session that is open.       *)
LEMMA ReachedIsOpen ==
    ASSUME TypeOK, Rowwise, Sessions, phase = "ready", asked.attached = TRUE, NEW f \in FaceSet
    PROVE  Reached(f, address[f]) \subseteq {f} \X OpenSession(BoxOf[f], address[f])
<1> SUFFICES ASSUME f \in Contactable, address[f] # Simulated
             PROVE  <<f, world[address[f]]>> \in {f} \X OpenSession(BoxOf[f], address[f])
  BY DEF Reached
<1>1. Passed(f)
  BY DEF Rowwise
<1>2. ~Skipped(f)
  BY <1>1 DEF Passed, AsBound, Skipped
<1>3. session[f] # Nobody
  BY <1>1, <1>2 DEF Passed, Met
<1>4. session[f] = world[address[f]]
  BY <1>3 DEF Sessions, Fits
<1>5. session[f] \in OpenSession(BoxOf[f], address[f])
  BY <1>3 DEF OpenSession
<1> QED
  BY <1>4, <1>5

LEMMA SafingsStep ==
    ASSUME TypeOK, Rowwise, Books, Sessions, Safings, [Next]_vars
    PROVE  Safings'
<1>1. CASE /\ phase \notin {"ready", "ended", "dead", "safed"}
           /\ phase' \notin {"ended", "dead", "safed"} /\ energised' = energised
  BY <1>1 DEF Safings
<1>2. CASE Drive
  <2>1. \A g, b : Reached(g, b)' = Reached(g, b)
    BY <1>2 DEF Drive, Reached
  <2>2. /\ phase = "ready" /\ asked.attached = TRUE
        /\ UNCHANGED <<asked, phase, told, address>>
    BY <1>2, TypedState DEF Drive, contactVars
  <2>3. PICK f \in FaceSet : energised' = energised \cup Reached(f, address[f])
    BY <1>2 DEF Drive
  <2>4. Reached(f, address[f]) \subseteq AllReached
    BY DEF AllReached
  <2>5. AllReached' = AllReached
    BY <2>1, <2>2 DEF AllReached
  <2>6. energised' \subseteq AllReached'
    BY <2>2, <2>3, <2>4, <2>5 DEF Safings
  <2> QED
    BY <2>2, <2>6 DEF Safings
<1>3. CASE Finish
  <2>1. energised \subseteq told'
    <3>1. CASE asked.attached = TRUE
      <4>1. phase = "ready" /\ told' = UNION {{f} \X OpenSession(BoxOf[f], address[f]) : f \in FaceSet}
        BY <1>3, <3>1 DEF Finish, SafeRig
      <4>2. AllReached \subseteq told'
        <5>1. ASSUME NEW x \in AllReached
              PROVE  x \in told'
          <6>1. PICK f \in FaceSet : x \in Reached(f, address[f])
            BY <5>1 DEF AllReached
          <6>2. x \in {f} \X OpenSession(BoxOf[f], address[f])
            BY <3>1, <4>1, <6>1, ReachedIsOpen
          <6> QED
            BY <4>1, <6>2
        <5> QED
          BY <5>1
      <4> QED
        BY <4>1, <4>2 DEF Safings
    <3>2. CASE asked.attached = FALSE
      BY <1>3, <3>2 DEF Finish, Safings
    <3> QED
      BY <3>1, <3>2, TypedState
  <2> QED
    BY <1>3, <2>1 DEF Finish, Safings
<1>4. CASE Die \/ SafeOnly
  BY <1>4 DEF Die, SafeOnly, Safings
<1>5. CASE Over \/ UNCHANGED vars
  <2>1. UNCHANGED <<asked, phase, told, energised, address, world>>
    BY <1>5 DEF Over, vars
  <2>2. AllReached' = AllReached
    BY <2>1 DEF AllReached, Reached
  <2> QED
    BY <2>1, <2>2 DEF Safings
<1>6. ReadPlan \/ BindOne \/ Bound \/ SkipFace \/ PoolExhausted \/ CheckCards =>
        /\ phase \notin {"ready", "ended", "dead", "safed"}
        /\ phase' \notin {"ended", "dead", "safed"} /\ energised' = energised
  BY DEF ReadPlan, BindOne, Bound, SkipFace, NextRow, PoolExhausted, Fail, CheckCards
<1>7. FollowFace \/ FixedFace \/ TryCandidate =>
        /\ phase \notin {"ready", "ended", "dead", "safed"}
        /\ phase' \notin {"ended", "dead", "safed"} /\ energised' = energised
  BY Follows, Fixes, Tries DEF Reaches, Answered, GivenUp, PassedOver
<1> QED
  BY <1>1, <1>2, <1>3, <1>4, <1>5, <1>6, <1>7 DEF Next

-----------------------------------------------------------------------------
(* The theorems.                                                            *)

LEMMA InvInit == Init => IInv
<1> SUFFICES ASSUME Init
             PROVE  IInv
  OBVIOUS
<1>1. TypeOK
  BY TypeInit
<1>2. \A f \in FaceSet : Fresh(f) /\ Untouched(f)
  BY DEF Init, Fresh, Untouched, Unbound
<1>3. Rowwise
  BY <1>2 DEF Init, Rowwise
<1>4. Books
  BY DEF Init, Books
<1>5. Sessions
  BY DEF Init, Sessions
<1>6. Safings
  BY DEF Init, Safings
<1> QED
  BY <1>1, <1>3, <1>4, <1>5, <1>6 DEF IInv

LEMMA InvStep == IInv /\ [Next]_vars => IInv'
BY TypeStep, RowwiseStep, BooksStep, SessionsStep, SafingsStep DEF IInv

LEMMA Invariance == Spec => []IInv
BY InvInit, InvStep, PTL DEF Spec

(* The state of a preflight and of the run after it is well typed, whatever  *)
(* the rig's tables, as long as they fit.                                   *)
THEOREM PreflightTyped == Spec => []TypeOK
BY Invariance, PTL DEF IInv

(* A face with a session has been reached, where its box was.               *)
LEMMA HeldIsMet ==
    ASSUME IInv, Running, NEW f \in FaceSet, session[f] # Nobody
    PROVE  /\ Fits(f, session[f])
           /\ \E c \in contacted : c.box = BoxOf[f] /\ c.value = address[f] /\ Reaching(c)
<1>1. Fits(f, session[f])
  BY DEF IInv, Sessions
<1>2. Passed(f)
  BY DEF IInv, Rowwise, Running, Fits
<1>3. Met(f)
  BY <1>2 DEF Passed, AsBound, Untouched
<1> QED
  BY <1>1, <1>3 DEF Met, IInv, Books

LEMMA InvOneUnit == IInv => OneUnitOneBox
<1> SUFFICES ASSUME IInv, Running, NEW f \in FaceSet, NEW g \in FaceSet,
                    session[f] # Nobody, session[g] # Nobody
             PROVE  /\ BoxOf[f] = BoxOf[g] => address[f] = address[g]
                    /\ BoxOf[f] # BoxOf[g] /\ SerialOf[session[f]] # NoSerial =>
                         SerialOf[session[f]] # SerialOf[session[g]]
  BY DEF OneUnitOneBox
<1>1. PICK c \in contacted : c.box = BoxOf[f] /\ c.value = address[f] /\ Reaching(c)
  BY HeldIsMet
<1>2. PICK d \in contacted : d.box = BoxOf[g] /\ d.value = address[g] /\ Reaching(d)
  BY HeldIsMet
<1>3. session[f] = world[address[f]] /\ session[g] = world[address[g]]
  BY HeldIsMet DEF Fits
<1>4. BoxOf[f] = BoxOf[g] => address[f] = address[g]
  BY <1>1, <1>2 DEF IInv, Books
<1>5. SerialOf[session[f]] = SerialOf[session[g]] /\ SerialOf[session[f]] # NoSerial => BoxOf[f] = BoxOf[g]
  <2>1. /\ [serial |-> c.serial, box |-> c.box] \in claimed /\ [serial |-> d.serial, box |-> d.box] \in claimed
        /\ c.serial = SerialOf[session[f]] /\ d.serial = SerialOf[session[g]]
    BY <1>1, <1>2, <1>3 DEF Reaching
  <2>2. c.serial = d.serial /\ c.serial # NoSerial => c.box = d.box
    BY <2>1 DEF IInv, Books
  <2> QED
    BY <1>1, <1>2, <2>1, <2>2
<1> QED
  BY <1>4, <1>5

LEMMA InvBanner == IInv => BannerIsTrue
<1> SUFFICES ASSUME IInv
             PROVE  BannerIsTrue
  OBVIOUS
<1>0. /\ Nobody \notin Units /\ "not contacted" \notin Units /\ "simulated" \notin Units /\ "no session" \notin Units
      /\ Contactable \subseteq FaceSet
  BY UnitsAreThemselves, TablesFit DEF UnitsAreThemselves, TablesFit
<1>1. ASSUME Running, NEW f \in Contactable
      PROVE  /\ IdentityOf(f) # "not contacted"
             /\ binding[f].value # Simulated => address[f] = binding[f].value /\ IdentityOf(f) = world[address[f]]
             /\ binding[f].position # 0 => Pool[BoxOf[f]][binding[f].position] = address[f]
  <2>1. f \in FaceSet /\ Passed(f)
    BY <1>0, <1>1 DEF IInv, Rowwise, Running
  <2>2. CASE Skipped(f)
    <3>1. binding[f].value = Simulated
      BY <2>2, <1>1 DEF Skipped
    <3>2. binding[f].identity = Nobody /\ binding[f].position = 0
      BY <2>1, <2>2 DEF Passed, AsBound, Untouched
    <3> QED
      BY <1>1, <3>1, <3>2 DEF IdentityOf
  <2>3. CASE ~Skipped(f)
    <3>1. Met(f)
      BY <2>1, <2>3 DEF Passed
    <3>2. Fits(f, session[f])
      BY <2>1, <3>1 DEF Met, IInv, Sessions
    <3>3. IdentityOf(f) = session[f] /\ session[f] \in Units /\ session[f] = world[address[f]]
      BY <3>1, <3>2 DEF Met, Fits, IdentityOf
    <3>4. PICK c \in contacted : c.box = BoxOf[f] /\ c.value = address[f] /\ binding[f].position \in {0, c.position}
      BY <3>1 DEF Met
    <3>5. binding[f].position # 0 => Pool[BoxOf[f]][binding[f].position] = address[f]
      BY <3>4 DEF IInv, Books, Reaching
    <3> QED
      BY <1>0, <3>1, <3>3, <3>5 DEF Met
  <2> QED
    BY <2>2, <2>3
<1>2. ASSUME ~asked.attached, NEW f \in FaceSet
      PROVE  IdentityOf(f) \notin Units
  <2>1. binding[f].identity = Nobody
    BY <1>2, TypedState DEF IInv, Rowwise, Untouched
  <2> QED
    BY <1>0, <2>1 DEF IdentityOf
<1> QED
  BY <1>1, <1>2 DEF BannerIsTrue

LEMMA InvHolds == IInv => HoldsOnlyItsOwn
BY DEF IInv, Sessions, Fits, HoldsOnlyItsOwn

(* A run that starts is bound to one unit for each box and to one box for    *)
(* each unit, as the header of its logs says, and no driver holds a session *)
(* with anything but its own instrument.                                    *)
THEOREM PlanHolds == Spec => []PlanIsWhatRuns
<1>1. IInv => PlanIsWhatRuns
  BY InvOneUnit, InvBanner, InvHolds DEF PlanIsWhatRuns
<1> QED
  BY <1>1, Invariance, PTL

(* A run that ends by itself tells every output it drove to go off: what a   *)
(* verb may reach has had its session open since the preflight, whatever     *)
(* moved its box and whichever of its faces was contacted.                   *)
THEOREM SafesDriven == Spec => []SafesWhatItDrove
<1>1. IInv => SafesWhatItDrove
  BY DEF IInv, Safings, SafesWhatItDrove
<1> QED
  BY <1>1, Invariance, PTL

==============================================================================
