----------------------------- MODULE WireProofs -----------------------------
(***************************************************************************)
(* Proofs about the wire, for any boxes and settings, any address and any  *)
(* number of lines: what a call returns answers its own question, a fault  *)
(* names the command that caused it, the faces of a box share its link in  *)
(* step, and a transport brings lines whole.                               *)
(***************************************************************************)
EXTENDS MCWire, SequenceTheorems, TLAPS

----------------------------------------------------------------------------
(* The session's inductive invariant.                                      *)

\* What a driver's own operation is made of.
Ordinary == {"write", "checked", "ask"}

\* What it says, asks for, and is called.
Said ==
  {"LOAD", "FUNC", "FREQ", "SHAPE", "VOLT", "OFFS", "ON", "OFF", "RST", "CURR", "PROT",
   "CLOS", "OPEN", "CLOS:EXCL", "OPEN:ALL", "INST:DMM ON", "CLOS?", "MOD:WAIT?", "INST:DMM:INST?",
   "REL:CYCL?", "SYST:CTYP?", "CONF", "RES", "READ?", "MEAS?", "OUTP?", "*IDN?", "*OPC?",
   "INST:DMM?", "none"}
Wants == {"model", "any", "number", "text", "yes"}
Lates == {"thrown", "timeout", "again"}
Names == {"identity", "switch", "ask", "modules", "read", "apply", "remove", "safe", "none"}

Exchange ==
  [do : {"write", "checked", "once", "error?", "again"}, what : Said]
  \cup [do : {"prepared"}, what : Families]
  \cup [do : {"ask"}, what : Said, wants : Wants, own : {FALSE}]
  \cup [do : {"ask"}, what : Said, wants : {"number"}, own : {TRUE}]
  \cup [do : {"why"}, what : Said, late : Lates]
  \cup [do : {"drain"}, what : Said, left : Nat \ {0}, late : Lates]
  \cup [do : {"fault"}, what : Said, own : BOOLEAN]

Call ==
  [face : Faces \cup {NoLink}, family : Families \cup {"none"}, op : Names, todo : Seq(Exchange),
   end : {"ok", "fault", "timeout", "transport"}, obeyed : SUBSET Said, wanted : SUBSET Said,
   took : {"own", "old"}, blamed : {"own", "old", "nothing"}]

AWire ==
  [stream : Seq(Reply), dead : BOOLEAN, late : 0..MaxLate, lagged : BOOLEAN,
   littered : BOOLEAN, met : SUBSET (Families \cup {"none"})]

\* What ends a call that throws.
Final == {"fault", "why", "again"}

\* What a call may still have to do: to say why, to throw, or what is left of it.
Shaped(s) ==
  \/ s = <<>>
  \/ Len(s) = 1 /\ s[1].do \in Final
  \/ Len(s) = 2 /\ s[1].do = "drain" /\ s[2].do = "fault"
  \/ /\ s[1].do \in Ordinary \cup {"drain", "prepared", "error?", "once"}
     /\ \A i \in 2..Len(s) : s[i].do \in Ordinary \cup {"prepared"}

\* A safing neither checks nor prepares, and reads no meter.
OfSafing(s) ==
  \A i \in DOMAIN s : s[i].do \in {"write", "ask", "drain"} \cup Final /\ (s[i].do = "ask" => s[i].own = FALSE)

\* Before a family puts its mark on the session it sees the model.
Meets(s, family, met) ==
  \A i \in DOMAIN s : s[i].do = "prepared" =>
    /\ s[i].what = family
    /\ \/ family \in met
       \/ \E j \in 1..(i - 1) : s[j].do = "ask" /\ s[j].wants = "model"

\* A checked command is still to come.
Pending(s, what) == \E i \in DOMAIN s : s[i].do = "checked" /\ s[i].what = what

\* The call will throw, whatever it reads.
Doomed(s) == \E i \in DOMAIN s : s[i].do \in Final

\* A checked command was obeyed, or is still to come, or is known to have failed.
Accounted(x, q) ==
  \A what \in x.wanted :
    \/ what \in x.obeyed
    \/ Doomed(x.todo)
    \/ Pending(x.todo, what)
    \/ x.todo # <<>> /\ x.todo[1].do = "error?" /\ q # <<>>

\* A question why follows one that was answered late, and so does an error that the
\* command it is blamed on has not provoked.
Blaming(t) ==
  \/ t.do \in {"why", "again"}
  \/ t.do = "drain" /\ t.late # "thrown"
  \/ t.do = "fault" /\ t.own = FALSE

Blames(s, late) == \A i \in DOMAIN s : Blaming(s[i]) => late > 0

\* The call x, with the lines w of its session.
Formed(x, w) ==
  /\ Shaped(x.todo)
  /\ x.op = "safe" => OfSafing(x.todo)
  /\ Meets(x.todo, x.family, w.met)
  /\ Blames(x.todo, w.late)
  /\ x.todo # <<>> => x.blamed = "own"
  /\ x.blamed = "old" => w.late > 0

\* As long as no answer has come late, it has read its own.
Truthful(x, w, q) ==
  x.op # "safe" /\ w.lagged = FALSE =>
    /\ x.took = "own"
    /\ (x.todo # <<>> \/ x.end = "ok") => Accounted(x, q)

\* What is in the queue before the exchange t, if it has been emptied before.
Expected(t, q) ==
  CASE t.do = "drain" -> Len(q) <= t.left
    [] t.do \in {"error?", "once"} -> \A i \in DOMAIN q : q[i] = "own"
    [] OTHER -> q = <<>>

\* Nothing has come late, been left in the queue or broken.
Calm(w) == w.late = 0 /\ w.littered = FALSE /\ w.dead = FALSE

\* A session that somebody has prepared starts a call with an empty queue; a call
\* that is not a safing empties it first if nobody has.
Empty(p, w, q) == Calm(w) /\ p # {} => q = <<>>

Ready(x, p, w, q) == Calm(w) /\ (x.op # "safe" \/ p # {}) => Expected(x.todo[1], q)

\* An answer that nobody has read came late.
Unread(w) == w.stream # <<>> => w.lagged = TRUE /\ w.late > 0

Marked(k) ==
  /\ links[k].session = FALSE => links[k].prepared = {}
  /\ links[k].prepared \subseteq wires[k].met

WireTyped ==
  /\ BoxTypeOK
  /\ box \in Boxes
  /\ wires \in [Keys -> AWire] /\ \A k \in Keys : Len(wires[k].stream) <= MaxLate
  /\ errors \in [Keys -> Seq({"own", "old"})] /\ \A k \in Keys : Len(errors[k]) <= MaxRefused
  /\ right \in [Keys -> BOOLEAN]
  /\ call \in Call

SessionInv ==
  /\ WireTyped
  /\ LinksInOrder
  /\ \A k \in Keys :
       /\ Marked(k) /\ Unread(wires[k])
       /\ links[k].session = TRUE /\ ~(Busy /\ k = Wire) => Empty(links[k].prepared, wires[k], errors[k])
  /\ Busy \/ call.op # "none" => call.face \in Faces /\ Wire \in Keys
  /\ Busy =>
       /\ links[Wire].session = TRUE
       /\ Ready(call, links[Wire].prepared, wires[Wire], errors[Wire])
  /\ Formed(call, wires[Wire])
  /\ Truthful(call, wires[Wire], errors[Wire])

----------------------------------------------------------------------------
(* Sequences of exchanges, and the queue.                                  *)

LEMMA RestIs ==
  ASSUME NEW S, NEW s \in Seq(S), s # <<>>
  PROVE  /\ Len(s) \in Nat /\ Len(s) > 0 /\ DOMAIN s = 1..Len(s) /\ Head(s) = s[1] /\ s[1] \in S
         /\ Tail(s) \in Seq(S) /\ Len(Tail(s)) = Len(s) - 1 /\ DOMAIN Tail(s) = 1..(Len(s) - 1)
         /\ \A i \in 1..(Len(s) - 1) : Tail(s)[i] = s[i + 1]
BY HeadTailProperties, LenProperties

\* Another exchange in the place of the first.
LEMMA Instead ==
  ASSUME NEW S, NEW s \in Seq(S), s # <<>>, NEW y \in S
  PROVE  /\ <<y>> \o Tail(s) \in Seq(S) /\ <<y>> \o Tail(s) # <<>>
         /\ Len(<<y>> \o Tail(s)) = Len(s) /\ DOMAIN (<<y>> \o Tail(s)) = 1..Len(s)
         /\ (<<y>> \o Tail(s))[1] = y
         /\ \A i \in 2..Len(s) : (<<y>> \o Tail(s))[i] = s[i]
<1>1. Tail(s) \in Seq(S) /\ Len(Tail(s)) = Len(s) - 1 /\ Len(s) \in Nat /\ Len(s) > 0
      /\ \A i \in 1..(Len(s) - 1) : Tail(s)[i] = s[i + 1]
  BY RestIs
<1>2. <<y>> \in Seq(S) /\ Len(<<y>>) = 1 /\ <<y>>[1] = y
  OBVIOUS
<1>3. /\ <<y>> \o Tail(s) \in Seq(S) /\ Len(<<y>> \o Tail(s)) = 1 + Len(Tail(s))
      /\ \A i \in 1..(1 + Len(Tail(s))) :
           (<<y>> \o Tail(s))[i] = IF i <= 1 THEN <<y>>[i] ELSE Tail(s)[i - 1]
  BY <1>1, <1>2, ConcatProperties
<1>4. /\ Len(<<y>> \o Tail(s)) = Len(s) /\ DOMAIN (<<y>> \o Tail(s)) = 1..Len(s)
      /\ <<y>> \o Tail(s) # <<>>
  BY <1>1, <1>3, LenProperties, EmptySeq
<1>5. (<<y>> \o Tail(s))[1] = y
  BY <1>1, <1>2, <1>3
<1>6. ASSUME NEW i \in 2..Len(s) PROVE (<<y>> \o Tail(s))[i] = s[i]
  <2>1. i \in 1..(1 + Len(Tail(s))) /\ ~(i <= 1) /\ i - 1 \in 1..(Len(s) - 1) /\ (i - 1) + 1 = i
    BY <1>1
  <2> QED
    BY <1>1, <1>3, <2>1
<1> QED
  BY <1>3, <1>4, <1>5, <1>6

LEMMA OneOrTwo ==
  ASSUME NEW S, NEW x \in S, NEW y \in S
  PROVE  /\ <<x>> \in Seq(S) /\ Len(<<x>>) = 1 /\ <<x>>[1] = x /\ DOMAIN <<x>> = 1..1 /\ <<x>> # <<>>
         /\ <<x, y>> \in Seq(S) /\ Len(<<x, y>>) = 2 /\ <<x, y>>[1] = x /\ <<x, y>>[2] = y
         /\ DOMAIN <<x, y>> = 1..2 /\ <<x, y>> # <<>>
OBVIOUS

LEMMA StaleIs ==
  ASSUME NEW q \in Seq({"own", "old"})
  PROVE  /\ Stale(q) \in Seq({"own", "old"}) /\ Len(Stale(q)) = Len(q)
         /\ q = <<>> <=> Stale(q) = <<>>
<1>1. Len(q) \in Nat /\ DOMAIN q = 1..Len(q)
  BY LenProperties
<1>2. Stale(q) = [i \in 1..Len(q) |-> "old"]
  BY <1>1 DEF Stale
<1>3. Stale(q) \in Seq({"own", "old"}) /\ Len(Stale(q)) = Len(q)
  BY <1>1, <1>2, IsASeq, LenProperties
<1> QED
  BY <1>1, <1>3, EmptySeq

LEMMA AgedIs ==
  ASSUME NEW s \in Seq(Reply)
  PROVE  /\ Aged(s) \in Seq(Reply) /\ Len(Aged(s)) = Len(s)
         /\ s = <<>> <=> Aged(s) = <<>>
<1>1. Len(s) \in Nat /\ DOMAIN s = 1..Len(s) /\ \A i \in 1..Len(s) : s[i] \in Reply
  BY LenProperties, ElementOfSeq
<1>2. \A i \in 1..Len(s) : [s[i] EXCEPT !.old = TRUE] \in Reply
  BY <1>1 DEF Reply
<1>3. Aged(s) = [i \in 1..Len(s) |-> [s[i] EXCEPT !.old = TRUE]]
  BY <1>1 DEF Aged
<1>4. Aged(s) \in Seq(Reply) /\ Len(Aged(s)) = Len(s)
  BY <1>1, <1>2, <1>3, IsASeq, LenProperties
<1> QED
  BY <1>1, <1>4, EmptySeq

\* What is read for a question: an older line if there is one, else the answer.
LEMMA LineIs ==
  ASSUME NEW s \in Seq(Reply), NEW a \in Reply
  PROVE  LET line == Aged(s) \o <<a>> IN
         /\ line # <<>> /\ NextLine(line) \in Reply
         /\ Tail(line) \in Seq(Reply) /\ Len(Tail(line)) = Len(s)
         /\ s = <<>> => NextLine(line) = a /\ Tail(line) = <<>>
<1> DEFINE line == Aged(s) \o <<a>>
<1>1. Aged(s) \in Seq(Reply) /\ Len(Aged(s)) = Len(s) /\ Len(s) \in Nat /\ (s = <<>> <=> Aged(s) = <<>>)
  BY AgedIs, LenProperties
<1>2. <<a>> \in Seq(Reply) /\ Len(<<a>>) = 1
  OBVIOUS
<1>3. line \in Seq(Reply) /\ Len(line) = Len(s) + 1
  BY <1>1, <1>2, ConcatProperties
<1>4. line # <<>>
  BY <1>1, <1>3, EmptySeq
<1>5. Head(line) \in Reply /\ Tail(line) \in Seq(Reply) /\ Len(Tail(line)) = Len(s)
  BY <1>1, <1>3, <1>4, RestIs
<1>6. ASSUME s = <<>> PROVE Head(line) = a /\ Tail(line) = <<>>
  <2>1. line = <<a>>
    BY <1>1, <1>6, <1>2, ConcatEmptySeq
  <2> QED
    BY <2>1
<1> QED
  BY <1>4, <1>5, <1>6 DEF NextLine

\* An empty queue is right for whatever comes next.
LEMMA NothingExpected ==
  ASSUME NEW t \in Exchange
  PROVE  Expected(t, <<>>)
<1>1. t.do = "drain" => t.left \in Nat
  BY DEF Exchange
<1> QED
  BY <1>1 DEF Expected

\* The replacements leave lengths and types as they are.
LEMMA TokenIs ==
  ASSUME NEW t \in Exchange
  PROVE  /\ t.do # "prepared" => t.what \in Said
         /\ t.do = "prepared" => t.what \in Families
         /\ t.do \in Ordinary \cup {"prepared", "error?", "once", "drain"} \cup Final
         /\ t.do = "ask" => t.wants \in Wants /\ t.own \in BOOLEAN /\ (t.own = TRUE => t.wants = "number")
         /\ t.do = "why" => t.late \in Lates
         /\ t.do = "drain" => t.left \in Nat /\ t.left > 0 /\ t.late \in Lates
         /\ t.do = "fault" => t.own \in BOOLEAN
<1>1. CASE t \in [do : {"write", "checked", "once", "error?", "again"}, what : Said]
  BY <1>1 DEF Ordinary, Final
<1>2. CASE t \in [do : {"prepared"}, what : Families]
  BY <1>2
<1>3. CASE t \in [do : {"ask"}, what : Said, wants : Wants, own : {FALSE}]
  BY <1>3 DEF Ordinary
<1>4. CASE t \in [do : {"ask"}, what : Said, wants : {"number"}, own : {TRUE}]
  BY <1>4 DEF Ordinary, Wants
<1>5. CASE t \in [do : {"why"}, what : Said, late : Lates]
  BY <1>5 DEF Final
<1>6. CASE t \in [do : {"drain"}, what : Said, left : Nat \ {0}, late : Lates]
  BY <1>6
<1>7. CASE t \in [do : {"fault"}, what : Said, own : BOOLEAN]
  BY <1>7 DEF Final
<1> QED
  BY <1>1, <1>2, <1>3, <1>4, <1>5, <1>6, <1>7 DEF Exchange

----------------------------------------------------------------------------
(* A call that goes on.                                                    *)

\* With the next exchange.
LEMMA ShapedRest ==
  ASSUME NEW s \in Seq(Exchange), s # <<>>, Shaped(s)
  PROVE  Shaped(Tail(s)) /\ (OfSafing(s) => OfSafing(Tail(s)))
<1> DEFINE u == Tail(s)
<1>1. /\ Len(s) \in Nat /\ Len(s) > 0 /\ DOMAIN s = 1..Len(s)
      /\ u \in Seq(Exchange) /\ Len(u) = Len(s) - 1 /\ DOMAIN u = 1..(Len(s) - 1)
      /\ \A i \in 1..(Len(s) - 1) : u[i] = s[i + 1]
  BY RestIs
<1> HIDE DEF u
<1>2. u = <<>> <=> Len(u) = 0
  BY <1>1, EmptySeq
<1>6. Shaped(u)
  <2>1. CASE Len(s) = 1
    BY <1>1, <1>2, <2>1 DEF Shaped
  <2>2. CASE Len(s) = 2 /\ s[1].do = "drain" /\ s[2].do = "fault"
    BY <1>1, <2>2 DEF Shaped, Final
  <2>3. CASE Len(s) > 1 /\ \A i \in 2..Len(s) : s[i].do \in Ordinary \cup {"prepared"}
    <3>1. ASSUME NEW i \in 1..(Len(s) - 1) PROVE u[i].do \in Ordinary \cup {"prepared"}
      <4>1. i + 1 \in 2..Len(s) /\ u[i] = s[i + 1]
        BY <1>1
      <4> QED
        BY <2>3, <4>1
    <3> QED
      BY <1>1, <2>3, <3>1 DEF Shaped
  <2> QED
    BY <1>1, <2>1, <2>2, <2>3 DEF Shaped
<1>7. ASSUME OfSafing(s) PROVE OfSafing(u)
  BY <1>1, <1>7 DEF OfSafing
<1> QED
  BY <1>6, <1>7 DEF u

LEMMA MeetsRest ==
  ASSUME NEW s \in Seq(Exchange), s # <<>>, NEW family, NEW met, NEW later, Meets(s, family, met),
         met \subseteq later, s[1].do = "ask" /\ s[1].wants = "model" => family \in later
  PROVE  Meets(Tail(s), family, later)
<1> DEFINE u == Tail(s)
<1>1. /\ Len(s) \in Nat /\ Len(s) > 0 /\ DOMAIN s = 1..Len(s)
      /\ u \in Seq(Exchange) /\ Len(u) = Len(s) - 1 /\ DOMAIN u = 1..(Len(s) - 1)
      /\ \A i \in 1..(Len(s) - 1) : u[i] = s[i + 1]
  BY RestIs
<1> HIDE DEF u
<1> SUFFICES ASSUME NEW i \in DOMAIN u, u[i].do = "prepared"
             PROVE  /\ u[i].what = family
                    /\ \/ family \in later
                       \/ \E j \in 1..(i - 1) : u[j].do = "ask" /\ u[j].wants = "model"
  BY DEF Meets, u
<1>2. i + 1 \in DOMAIN s /\ u[i] = s[i + 1] /\ i \in Nat /\ i <= Len(s) - 1 /\ i >= 1
  BY <1>1
<1>3. /\ s[i + 1].what = family
      /\ \/ family \in met
         \/ \E j \in 1..((i + 1) - 1) : s[j].do = "ask" /\ s[j].wants = "model"
  BY <1>2 DEF Meets
<1>4. CASE family \in met
  BY <1>2, <1>3, <1>4
<1>5. CASE family \notin met
  <2>1. PICK j \in 1..((i + 1) - 1) : s[j].do = "ask" /\ s[j].wants = "model"
    BY <1>3, <1>5
  <2>2. CASE j = 1
    BY <1>2, <1>3, <2>1, <2>2
  <2>3. CASE j # 1
    <3>1. j - 1 \in 1..(i - 1) /\ j - 1 \in 1..(Len(s) - 1) /\ (j - 1) + 1 = j
      BY <1>2, <1>1, <2>1, <2>3
    <3>2. u[j - 1] = s[j]
      BY <1>1, <3>1
    <3> QED
      BY <1>2, <1>3, <2>1, <3>1, <3>2
  <2> QED
    BY <2>2, <2>3
<1> QED
  BY <1>4, <1>5

\* With a look at the queue in the place of a command, or with one more.
LEMMA ShapedAgain ==
  ASSUME NEW s \in Seq(Exchange), s # <<>>, Shaped(s), NEW t \in Exchange,
         \/ s[1].do = "checked" /\ t.do = "error?"
         \/ s[1].do = "drain" /\ t.do = "drain"
         \/ s[1].do = "ask" /\ s[1].own = TRUE /\ t.do = "once"
  PROVE  /\ Shaped(<<t>> \o Tail(s))
         /\ OfSafing(s) => OfSafing(<<t>> \o Tail(s))
<1> DEFINE u == <<t>> \o Tail(s)
<1>1. /\ Len(s) \in Nat /\ Len(s) > 0 /\ DOMAIN s = 1..Len(s)
  BY RestIs
<1>2. /\ u \in Seq(Exchange) /\ Len(u) = Len(s) /\ DOMAIN u = 1..Len(s) /\ u # <<>>
      /\ u[1] = t /\ \A i \in 2..Len(s) : u[i] = s[i]
  BY Instead
<1> HIDE DEF u
<1>3. Shaped(u)
  BY <1>1, <1>2 DEF Shaped, Ordinary, Final
<1>4. ASSUME OfSafing(s) PROVE OfSafing(u)
  <2>1. s[1].do \in {"write", "ask", "drain"} \cup Final /\ (s[1].do = "ask" => s[1].own = FALSE)
    BY <1>1, <1>4 DEF OfSafing
  <2>2. t.do = "drain"
    BY <2>1 DEF Final
  <2>3. \A i \in 2..Len(s) : u[i].do \in {"write", "ask", "drain"} \cup Final /\ (u[i].do = "ask" => u[i].own = FALSE)
    BY <1>1, <1>2, <1>4 DEF OfSafing
  <2> QED
    BY <1>1, <1>2, <2>2, <2>3 DEF OfSafing
<1> QED
  BY <1>3, <1>4 DEF u

LEMMA MeetsAgain ==
  ASSUME NEW s \in Seq(Exchange), s # <<>>, NEW t \in Exchange, t.do \in {"error?", "drain", "once"},
         s[1].do = "ask" => s[1].wants # "model", NEW family, NEW met, NEW later, Meets(s, family, met), met \subseteq later
  PROVE  Meets(<<t>> \o Tail(s), family, later)
<1> DEFINE u == <<t>> \o Tail(s)
<1>1. /\ Len(s) \in Nat /\ Len(s) > 0 /\ DOMAIN s = 1..Len(s)
  BY RestIs
<1>2. /\ u \in Seq(Exchange) /\ Len(u) = Len(s) /\ DOMAIN u = 1..Len(s) /\ u # <<>>
      /\ u[1] = t /\ \A i \in 2..Len(s) : u[i] = s[i]
  BY Instead
<1> HIDE DEF u
<1> SUFFICES ASSUME NEW i \in DOMAIN u, u[i].do = "prepared"
             PROVE  /\ u[i].what = family
                    /\ \/ family \in later
                       \/ \E j \in 1..(i - 1) : u[j].do = "ask" /\ u[j].wants = "model"
  BY DEF Meets, u
<1>3. i \in 2..Len(s) /\ u[i] = s[i] /\ i \in DOMAIN s
  BY <1>1, <1>2
<1>4. /\ s[i].what = family
      /\ \/ family \in met
         \/ \E j \in 1..(i - 1) : s[j].do = "ask" /\ s[j].wants = "model"
  BY <1>3 DEF Meets
<1>5. ASSUME NEW j \in 1..(i - 1), s[j].do = "ask", s[j].wants = "model" PROVE j \in 2..Len(s)
  BY <1>1, <1>3, <1>5
<1> QED
  BY <1>2, <1>3, <1>4, <1>5

\* With the same faults to throw.
LEMMA BlamesOn ==
  ASSUME NEW s \in Seq(Exchange), s # <<>>, NEW late \in Nat, NEW later \in Nat, late <= later,
         Blames(s, late)
  PROVE  /\ Blames(Tail(s), later)
         /\ \A t \in Exchange : (Blaming(t) => later > 0) => Blames(<<t>> \o Tail(s), later)
<1>1. /\ Len(s) \in Nat /\ Len(s) > 0 /\ DOMAIN s = 1..Len(s)
      /\ Tail(s) \in Seq(Exchange) /\ Len(Tail(s)) = Len(s) - 1 /\ DOMAIN Tail(s) = 1..(Len(s) - 1)
      /\ \A i \in 1..(Len(s) - 1) : Tail(s)[i] = s[i + 1]
  BY RestIs
<1>2. Blames(Tail(s), later)
  BY <1>1 DEF Blames
<1>3. ASSUME NEW t \in Exchange, Blaming(t) => later > 0 PROVE Blames(<<t>> \o Tail(s), later)
  <2> DEFINE u == <<t>> \o Tail(s)
  <2>1. /\ DOMAIN u = 1..Len(s) /\ u[1] = t /\ \A i \in 2..Len(s) : u[i] = s[i]
    BY Instead
  <2> HIDE DEF u
  <2>2. Blames(u, later)
    BY <1>1, <1>3, <2>1 DEF Blames
  <2> QED
    BY <2>2 DEF u
<1> QED
  BY <1>2, <1>3

----------------------------------------------------------------------------
(* An exchange moves one wire.                                             *)

\* What the exchange on a wire leaves alone, and what it keeps in type.
Elsewhere ==
  /\ UNCHANGED <<mAddress, mLink, right, box>>
  /\ links' \in [Keys -> BoxLink] /\ wires' \in [Keys -> AWire] /\ errors' \in [Keys -> Seq({"own", "old"})]
  /\ \A k \in Keys : k # Wire => links'[k] = links[k] /\ wires'[k] = wires[k] /\ errors'[k] = errors[k]
  /\ links'[Wire].session = links[Wire].session /\ links'[Wire].native = links[Wire].native

\* The call's wire is in order after it.
Onward ==
  /\ call' \in Call /\ call'.face = call.face
  /\ Len(wires'[Wire].stream) <= MaxLate /\ Len(errors'[Wire]) <= MaxRefused
  /\ links'[Wire].prepared \subseteq wires'[Wire].met
  /\ Unread(wires'[Wire])
  /\ Formed(call', wires'[Wire])
  /\ Truthful(call', wires'[Wire], errors'[Wire])
  /\ IF call'.todo = <<>> THEN Empty(links'[Wire].prepared, wires'[Wire], errors'[Wire])
                          ELSE Ready(call', links'[Wire].prepared, wires'[Wire], errors'[Wire])

LEMMA Exchanged ==
  ASSUME SessionInv, Busy, Elsewhere, Onward
  PROVE  SessionInv'
<1>1. /\ WireTyped /\ LinksInOrder /\ call.face \in Faces /\ Wire \in Keys /\ links[Wire].session = TRUE
      /\ \A k \in Keys : Marked(k) /\ Unread(wires[k])
      /\ \A k \in Keys : links[k].session = TRUE /\ k # Wire => Empty(links[k].prepared, wires[k], errors[k])
  BY DEF SessionInv
<1>2. Wire' = Wire /\ Keys' = Keys /\ (Busy' <=> call'.todo # <<>>)
  BY DEF Elsewhere, Onward, Wire, Busy, Keys
<1>3. WireTyped'
  BY <1>1 DEF WireTyped, BoxTypeOK, Elsewhere, Onward, Keys
<1>4. LinksInOrder'
  <2>1. \A f \in Faces : mLink'[f] \in {NoLink, KeyOf(f)'}
    BY <1>1 DEF LinksInOrder, KeyOf, Elsewhere
  <2>2. ASSUME NEW k \in Keys PROVE ~(links'[k].session /\ links'[k].native # NoNative)
    <3>1. ~(links[k].session /\ links[k].native # NoNative)
      BY <1>1 DEF LinksInOrder
    <3>2. links'[k].session = links[k].session /\ links'[k].native = links[k].native
      BY <2>2 DEF Elsewhere
    <3> QED
      BY <3>1, <3>2
  <2> QED
    BY <2>1, <2>2 DEF LinksInOrder, Keys
<1>5. ASSUME NEW k \in Keys
      PROVE  /\ Marked(k)' /\ Unread(wires'[k])
             /\ links'[k].session = TRUE /\ ~(Busy' /\ k = Wire) => Empty(links'[k].prepared, wires'[k], errors'[k])
  <2>1. CASE k = Wire
    <3>1. Unread(wires'[k])
      BY <2>1 DEF Onward
    <3>2. links'[k].session = TRUE /\ links'[k].prepared \subseteq wires'[k].met
      BY <1>1, <2>1 DEF Onward, Elsewhere
    <3>3. call'.todo = <<>> => Empty(links'[k].prepared, wires'[k], errors'[k])
      BY <2>1 DEF Onward
    <3> QED
      BY <1>2, <2>1, <3>1, <3>2, <3>3 DEF Marked
  <2>2. CASE k # Wire
    <3>1. links'[k] = links[k] /\ wires'[k] = wires[k] /\ errors'[k] = errors[k]
      BY <2>2 DEF Elsewhere
    <3>2. Marked(k) /\ Unread(wires[k])
          /\ (links[k].session = TRUE => Empty(links[k].prepared, wires[k], errors[k]))
      BY <1>1, <2>2
    <3>3. Marked(k)'
      BY <3>1, <3>2 DEF Marked
    <3> QED
      BY <3>1, <3>2, <3>3
  <2> QED
    BY <2>1, <2>2
<1>6. /\ call'.face \in Faces /\ Wire' \in Keys'
      /\ Busy' => /\ links'[Wire'].session = TRUE
                  /\ Ready(call', links'[Wire'].prepared, wires'[Wire'], errors'[Wire'])
  <2>1. call'.face \in Faces /\ links'[Wire].session = TRUE
    BY <1>1 DEF Onward, Elsewhere
  <2>2. call'.todo # <<>> => Ready(call', links'[Wire].prepared, wires'[Wire], errors'[Wire])
    BY DEF Onward
  <2> QED
    BY <1>1, <1>2, <2>1, <2>2
<1>7. Formed(call', wires'[Wire']) /\ Truthful(call', wires'[Wire'], errors'[Wire'])
  BY <1>2 DEF Onward
<1>8. \A k \in Keys' : Marked(k)' /\ Unread(wires'[k])
  BY <1>2, <1>5
<1>9. \A k \in Keys' : links'[k].session = TRUE /\ ~(Busy' /\ k = Wire') => Empty(links'[k].prepared, wires'[k], errors'[k])
  BY <1>2, <1>5
<1> QED
  BY <1>2, <1>3, <1>4, <1>6, <1>7, <1>8, <1>9 DEF SessionInv

\* What a call under way is.
LEMMA InCall ==
  ASSUME SessionInv, Busy
  PROVE  /\ call \in Call /\ call.todo \in Seq(Exchange) /\ call.todo # <<>>
         /\ Token = call.todo[1] /\ Token \in Exchange /\ Rest = Tail(call.todo) /\ Rest \in Seq(Exchange)
         /\ Wire \in Keys /\ wires[Wire] \in AWire /\ Len(wires[Wire].stream) <= MaxLate
         /\ errors[Wire] \in Seq({"own", "old"}) /\ Len(errors[Wire]) <= MaxRefused
         /\ wires \in [Keys -> AWire] /\ errors \in [Keys -> Seq({"own", "old"})]
         /\ links \in [Keys -> BoxLink] /\ links[Wire] \in BoxLink
         /\ Formed(call, wires[Wire]) /\ Truthful(call, wires[Wire], errors[Wire])
         /\ Ready(call, links[Wire].prepared, wires[Wire], errors[Wire])
         /\ links[Wire].prepared \subseteq wires[Wire].met /\ Unread(wires[Wire])
<1>1. call \in Call /\ call.todo # <<>> /\ Wire \in Keys
  BY DEF SessionInv, WireTyped, Busy
<1>2. call.todo \in Seq(Exchange)
  BY <1>1 DEF Call
<1>3. /\ Token = call.todo[1] /\ Token \in Exchange /\ Rest = Tail(call.todo) /\ Rest \in Seq(Exchange)
  BY <1>1, <1>2, RestIs DEF Token, Rest
<1>4. /\ wires \in [Keys -> AWire] /\ errors \in [Keys -> Seq({"own", "old"})] /\ links \in [Keys -> BoxLink]
      /\ Len(wires[Wire].stream) <= MaxLate /\ Len(errors[Wire]) <= MaxRefused
  BY <1>1 DEF SessionInv, WireTyped, BoxTypeOK
<1>5. wires[Wire] \in AWire /\ errors[Wire] \in Seq({"own", "old"}) /\ links[Wire] \in BoxLink
  BY <1>1, <1>4
<1>6. links[Wire].prepared \subseteq wires[Wire].met /\ Unread(wires[Wire])
  BY <1>1 DEF SessionInv, Marked
<1> QED
  BY <1>1, <1>2, <1>3, <1>4, <1>5, <1>6 DEF SessionInv

LEMMA WireIs ==
  ASSUME NEW w \in AWire
  PROVE  /\ w.stream \in Seq(Reply) /\ w.dead \in BOOLEAN /\ w.late \in Nat /\ w.late <= MaxLate
         /\ w.lagged \in BOOLEAN /\ w.littered \in BOOLEAN /\ w.met \subseteq Families \cup {"none"}
BY ScpiAssumption DEF AWire

\* The call is the same one, its wire no better than before.
Carries ==
  /\ call'.op = call.op /\ call'.family = call.family /\ call'.blamed = call.blamed
  /\ wires'[Wire] \in AWire
  /\ wires[Wire].late <= wires'[Wire].late /\ wires[Wire].met \subseteq wires'[Wire].met

Identified == Token.do = "ask" /\ Token.wants = "model" => call.family \in wires'[Wire].met

LEMMA RestFormed ==
  ASSUME SessionInv, Busy, Carries, Identified, call'.todo = Rest
  PROVE  Formed(call', wires'[Wire])
<1>1. /\ call.todo \in Seq(Exchange) /\ call.todo # <<>> /\ Token = call.todo[1] /\ Rest = Tail(call.todo)
      /\ wires[Wire] \in AWire /\ Formed(call, wires[Wire])
  BY InCall
<1>2. wires[Wire].late \in Nat /\ wires'[Wire].late \in Nat
  BY <1>1, WireIs DEF Carries
<1>3. /\ Shaped(call.todo) /\ (call.op = "safe" => OfSafing(call.todo))
      /\ Meets(call.todo, call.family, wires[Wire].met) /\ Blames(call.todo, wires[Wire].late)
      /\ call.blamed = "own"
  BY <1>1 DEF Formed
<1>4. Shaped(Rest) /\ (call.op = "safe" => OfSafing(Rest))
  BY <1>1, <1>3, ShapedRest
<1>5. Meets(Rest, call.family, wires'[Wire].met)
  <2>1. wires[Wire].met \subseteq wires'[Wire].met
    BY DEF Carries
  <2>2. call.todo[1].do = "ask" /\ call.todo[1].wants = "model" => call.family \in wires'[Wire].met
    BY <1>1 DEF Identified
  <2> QED
    BY <1>1, <1>3, <2>1, <2>2, MeetsRest
<1>6. Blames(Rest, wires'[Wire].late)
  BY <1>1, <1>2, <1>3, BlamesOn DEF Carries
<1> QED
  BY <1>3, <1>4, <1>5, <1>6 DEF Formed, Carries

LEMMA AgainFormed ==
  ASSUME SessionInv, Busy, Carries, NEW t \in Exchange,
         \/ Token.do = "checked" /\ t.do = "error?"
         \/ Token.do = "drain" /\ t.do = "drain" /\ t.late = Token.late
         \/ Token.do = "ask" /\ Token.own = TRUE /\ t.do = "once",
         call'.todo = <<t>> \o Rest
  PROVE  Formed(call', wires'[Wire])
<1>1. /\ call.todo \in Seq(Exchange) /\ call.todo # <<>> /\ Token = call.todo[1] /\ Rest = Tail(call.todo)
      /\ wires[Wire] \in AWire /\ Formed(call, wires[Wire])
  BY InCall
<1>2. wires[Wire].late \in Nat /\ wires'[Wire].late \in Nat
  BY <1>1, WireIs DEF Carries
<1>3. /\ Shaped(call.todo) /\ (call.op = "safe" => OfSafing(call.todo))
      /\ Meets(call.todo, call.family, wires[Wire].met) /\ Blames(call.todo, wires[Wire].late)
      /\ call.blamed = "own"
  BY <1>1 DEF Formed
<1>4. Shaped(<<t>> \o Rest) /\ (call.op = "safe" => OfSafing(<<t>> \o Rest))
  BY <1>1, <1>3, ShapedAgain
<1>5. Meets(<<t>> \o Rest, call.family, wires'[Wire].met)
  <2>1. wires[Wire].met \subseteq wires'[Wire].met
    BY DEF Carries
  <2>2. call.todo[1].do = "ask" => call.todo[1].wants # "model"
    BY <1>1, InCall, TokenIs
  <2>3. t.do \in {"error?", "drain", "once"}
    OBVIOUS
  <2> QED
    BY <1>1, <1>3, <2>1, <2>2, <2>3, MeetsAgain
<1>6. Blames(<<t>> \o Rest, wires'[Wire].late)
  <2>1. ASSUME Blaming(t) PROVE wires'[Wire].late > 0
    <3>1. Blaming(Token)
      BY <2>1 DEF Blaming
    <3>2. 1 \in DOMAIN call.todo
      BY <1>1, RestIs
    <3>3. wires[Wire].late > 0
      BY <1>1, <1>3, <3>1, <3>2 DEF Blames
    <3> QED
      BY <1>2, <3>3 DEF Carries
  <2> QED
    BY <1>1, <1>2, <1>3, <2>1, BlamesOn DEF Carries
<1> QED
  BY <1>3, <1>4, <1>5, <1>6 DEF Formed, Carries

\* It is over, asks why, or has a fault to throw.
LEMMA OverFormed ==
  ASSUME NEW x, NEW w, x.todo = <<>>, x.blamed = "old" => w.late > 0
  PROVE  Formed(x, w)
<1>1. DOMAIN <<>> = {}
  OBVIOUS
<1> QED
  BY <1>1 DEF Formed, Shaped, OfSafing, Meets, Blames

LEMMA ShortFormed ==
  ASSUME NEW s, NEW late, NEW family, NEW met, NEW t \in Exchange, NEW d \in Exchange, d.do = "drain",
         \/ s = <<t>> /\ t.do \in Final
         \/ s = <<d, t>> /\ t.do = "fault",
         Blaming(t) \/ Blaming(d) => late > 0
  PROVE  Shaped(s) /\ OfSafing(s) /\ Meets(s, family, met) /\ Blames(s, late) /\ s # <<>> /\ Doomed(s)
<1>1. CASE s = <<t>> /\ t.do \in Final
  <2>1. Len(s) = 1 /\ s[1] = t /\ DOMAIN s = 1..1 /\ s # <<>>
    BY <1>1, OneOrTwo
  <2> QED
    BY <1>1, <2>1 DEF Shaped, OfSafing, Meets, Blames, Doomed, Final
<1>2. CASE s = <<d, t>> /\ t.do = "fault"
  <2>1. Len(s) = 2 /\ s[1] = d /\ s[2] = t /\ DOMAIN s = 1..2 /\ s # <<>>
    BY <1>2, OneOrTwo
  <2> QED
    BY <1>2, <2>1 DEF Shaped, OfSafing, Meets, Blames, Doomed, Final
<1> QED
  BY <1>1, <1>2

\* Its end, when it throws or is through.
LEMMA FormedIs ==
  ASSUME NEW x, NEW w, Shaped(x.todo), x.op = "safe" => OfSafing(x.todo),
         Meets(x.todo, x.family, w.met), Blames(x.todo, w.late), x.blamed = "own"
  PROVE  Formed(x, w)
BY DEF Formed


----------------------------------------------------------------------------
(* What an exchange does to the call and to its wire.                      *)

\* The wire after an exchange is no better than before.
Moved ==
  /\ links'[Wire] = links[Wire]
  /\ wires'[Wire] \in AWire /\ Len(wires'[Wire].stream) <= MaxLate
  /\ errors'[Wire] \in Seq({"own", "old"}) /\ Len(errors'[Wire]) <= MaxRefused
  /\ Unread(wires'[Wire])
  /\ wires[Wire].late <= wires'[Wire].late /\ wires[Wire].met \subseteq wires'[Wire].met
  /\ wires'[Wire].lagged = FALSE => wires[Wire].lagged = FALSE

LEMMA OneWire ==
  ASSUME SessionInv, Busy, UNCHANGED <<boxVars, right, box>>,
         NEW w \in AWire, NEW q \in Seq({"own", "old"}),
         wires' = [wires EXCEPT ![Wire] = w], errors' = [errors EXCEPT ![Wire] = q]
  PROVE  Elsewhere /\ wires'[Wire] = w /\ errors'[Wire] = q /\ links'[Wire] = links[Wire]
<1>1. /\ Wire \in Keys /\ wires \in [Keys -> AWire] /\ errors \in [Keys -> Seq({"own", "old"})]
      /\ links \in [Keys -> BoxLink]
  BY InCall
<1>2. wires' \in [Keys -> AWire] /\ wires'[Wire] = w /\ \A k \in Keys : k # Wire => wires'[k] = wires[k]
  BY <1>1
<1>3. /\ errors' \in [Keys -> Seq({"own", "old"})] /\ errors'[Wire] = q
      /\ \A k \in Keys : k # Wire => errors'[k] = errors[k]
  BY <1>1
<1>4. mAddress' = mAddress /\ mLink' = mLink /\ links' = links /\ right' = right /\ box' = box
  BY DEF boxVars
<1> QED
  BY <1>1, <1>2, <1>3, <1>4 DEF Elsewhere

LEMMA GoesIs ==
  ASSUME call \in Call, NEW todo \in Seq(Exchange), Goes(todo)
  PROVE  /\ call' \in Call /\ call'.todo = todo /\ call'.face = call.face /\ call'.op = call.op
         /\ call'.family = call.family /\ call'.end = call.end /\ call'.obeyed = call.obeyed
         /\ call'.wanted = call.wanted /\ call'.took = call.took /\ call'.blamed = call.blamed
BY DEF Goes, Call

LEMMA NoExchanges == <<>> \in Seq(Exchange)
OBVIOUS

LEMMA ThrowsIs ==
  ASSUME call \in Call, NEW what \in {"timeout", "transport"}, Throws(what)
  PROVE  /\ call' \in Call /\ call'.todo = <<>> /\ call'.face = call.face /\ call'.op = call.op
         /\ call'.took = call.took /\ call'.blamed = call.blamed
         /\ call'.end = "ok" => call.op = "safe"
<1>1. call' = [call EXCEPT !.todo = <<>>, !.end = IF call.op = "safe" THEN "ok" ELSE what]
  BY DEF Throws
<1>2. call' \in Call
  BY <1>1, NoExchanges DEF Call
<1> QED
  BY <1>1, <1>2 DEF Call

\* A call that throws: nothing is promised of what it read, and nothing of the queue.
LEMMA Ended ==
  ASSUME SessionInv, Busy, Moved, call' \in Call, call'.face = call.face, call'.op = call.op,
         call'.todo = <<>>, call'.took = call.took, call'.end = "ok" => call.op = "safe",
         call'.blamed = "old" => wires'[Wire].late > 0,
         Empty(links'[Wire].prepared, wires'[Wire], errors'[Wire])
  PROVE  Onward
<1>1. Formed(call', wires'[Wire])
  BY OverFormed
<1>2. Truthful(call, wires[Wire], errors[Wire]) /\ links[Wire].prepared \subseteq wires[Wire].met
  BY InCall
<1>3. Truthful(call', wires'[Wire], errors'[Wire])
  BY <1>2 DEF Truthful, Moved
<1>4. links'[Wire].prepared \subseteq wires'[Wire].met
  BY <1>2 DEF Moved
<1> QED
  BY <1>1, <1>3, <1>4 DEF Onward, Moved

LEMMA ThrownOn ==
  ASSUME SessionInv, Busy, Moved, NEW what \in {"timeout", "transport"}, Throws(what),
         wires'[Wire].late > 0 \/ wires'[Wire].dead = TRUE
  PROVE  Onward
<1>1. call \in Call /\ Formed(call, wires[Wire]) /\ call.todo # <<>>
  BY InCall
<1>2. call.blamed = "own"
  BY <1>1 DEF Formed
<1>3. Empty(links'[Wire].prepared, wires'[Wire], errors'[Wire])
  <2>1. wires'[Wire].late \in Nat
    BY WireIs DEF Moved
  <2> QED
    BY <2>1 DEF Empty, Calm
<1> QED
  BY <1>1, <1>2, <1>3, ThrowsIs, Ended

\* What the next exchange can count on.
LEMMA QueueReady ==
  ASSUME NEW x, NEW p, NEW w, NEW q, x.todo \in Seq(Exchange),
         Calm(w) /\ (x.op # "safe" \/ p # {}) => q = <<>>
  PROVE  IF x.todo = <<>> THEN Empty(p, w, q) ELSE Ready(x, p, w, q)
<1>1. CASE x.todo = <<>>
  BY <1>1 DEF Empty
<1>2. CASE x.todo # <<>>
  <2>1. x.todo[1] \in Exchange
    BY <1>2, RestIs
  <2> QED
    BY <1>2, <2>1, NothingExpected DEF Ready
<1> QED
  BY <1>1, <1>2

\* A call that goes on.
LEMMA GoneOn ==
  ASSUME SessionInv, Busy, Moved, call' \in Call, call'.face = call.face, call'.op = call.op,
         Formed(call', wires'[Wire]),
         call.op # "safe" /\ wires'[Wire].lagged = FALSE =>
           call'.took = "own" /\ Accounted(call', errors'[Wire]),
         IF call'.todo = <<>> THEN Empty(links'[Wire].prepared, wires'[Wire], errors'[Wire])
         ELSE Ready(call', links'[Wire].prepared, wires'[Wire], errors'[Wire])
  PROVE  Onward
<1>1. links[Wire].prepared \subseteq wires[Wire].met
  BY InCall
<1>2. Truthful(call', wires'[Wire], errors'[Wire])
  BY DEF Truthful
<1>3. links'[Wire].prepared \subseteq wires'[Wire].met
  BY <1>1 DEF Moved
<1> QED
  BY <1>2, <1>3 DEF Onward, Moved

\* Until a fault is thrown for good, every command is accounted for.
LEMMA PendingRest ==
  ASSUME NEW s \in Seq(Exchange), s # <<>>
  PROVE  /\ \A what : Pending(s, what) =>
              \/ s[1].do = "checked" /\ s[1].what = what
              \/ Pending(Tail(s), what) /\ \A t \in Exchange : Pending(<<t>> \o Tail(s), what)
         /\ Doomed(s) =>
              \/ s[1].do \in Final
              \/ Doomed(Tail(s)) /\ \A t \in Exchange : Doomed(<<t>> \o Tail(s))
<1>1. /\ Len(s) \in Nat /\ Len(s) > 0 /\ DOMAIN s = 1..Len(s)
      /\ DOMAIN Tail(s) = 1..(Len(s) - 1)
      /\ \A i \in 1..(Len(s) - 1) : Tail(s)[i] = s[i + 1]
  BY RestIs
<1>2. \A t \in Exchange : /\ DOMAIN (<<t>> \o Tail(s)) = 1..Len(s)
                          /\ \A i \in 2..Len(s) : (<<t>> \o Tail(s))[i] = s[i]
  BY Instead
<1>3. ASSUME NEW i \in DOMAIN s, i # 1
      PROVE  /\ i - 1 \in DOMAIN Tail(s) /\ Tail(s)[i - 1] = s[i]
             /\ \A t \in Exchange : i \in DOMAIN (<<t>> \o Tail(s)) /\ (<<t>> \o Tail(s))[i] = s[i]
  <2>1. i - 1 \in 1..(Len(s) - 1) /\ (i - 1) + 1 = i /\ i \in 2..Len(s) /\ i \in 1..Len(s)
    BY <1>1, <1>3
  <2> QED
    BY <1>1, <1>2, <2>1
<1>4. ASSUME NEW what, Pending(s, what), ~(s[1].do = "checked" /\ s[1].what = what)
      PROVE  Pending(Tail(s), what) /\ \A t \in Exchange : Pending(<<t>> \o Tail(s), what)
  <2>1. PICK i \in DOMAIN s : s[i].do = "checked" /\ s[i].what = what
    BY <1>4 DEF Pending
  <2>2. i # 1
    BY <1>4, <2>1
  <2> QED
    BY <1>3, <2>1, <2>2 DEF Pending
<1>5. ASSUME Doomed(s), s[1].do \notin Final
      PROVE  Doomed(Tail(s)) /\ \A t \in Exchange : Doomed(<<t>> \o Tail(s))
  <2>1. PICK i \in DOMAIN s : s[i].do \in Final
    BY <1>5 DEF Doomed
  <2>2. i # 1
    BY <1>5, <2>1
  <2> QED
    BY <1>3, <2>1, <2>2 DEF Doomed
<1> QED
  BY <1>4, <1>5

----------------------------------------------------------------------------
(* A line goes out.                                                        *)

LEMMA AccountedOn ==
  ASSUME SessionInv, Busy, NEW s, NEW wanted, NEW obeyed, NEW q,
         s = Rest \/ \E t \in Exchange : s = <<t>> \o Rest,
         Token.do \notin Final, wanted = call.wanted, call.obeyed \subseteq obeyed,
         Accounted(call, errors[Wire]),
         Token.do = "checked" => Token.what \in obeyed \/ (s # <<>> /\ s[1].do = "error?" /\ q # <<>>),
         Token.do = "error?" => errors[Wire] = <<>>
  PROVE  \A what \in wanted :
           \/ what \in obeyed \/ Doomed(s) \/ Pending(s, what)
           \/ s # <<>> /\ s[1].do = "error?" /\ q # <<>>
<1>1. /\ call.todo \in Seq(Exchange) /\ call.todo # <<>> /\ Token = call.todo[1] /\ Rest = Tail(call.todo)
  BY InCall
<1> SUFFICES ASSUME NEW what \in wanted
             PROVE  \/ what \in obeyed \/ Doomed(s) \/ Pending(s, what)
                    \/ s # <<>> /\ s[1].do = "error?" /\ q # <<>>
  OBVIOUS
<1>2. \/ what \in call.obeyed \/ Doomed(call.todo) \/ Pending(call.todo, what)
      \/ call.todo[1].do = "error?" /\ errors[Wire] # <<>>
  BY DEF Accounted
<1>3. CASE Doomed(call.todo)
  <2>1. Doomed(Tail(call.todo)) /\ \A t \in Exchange : Doomed(<<t>> \o Tail(call.todo))
    BY <1>1, <1>3, PendingRest
  <2> QED
    BY <1>1, <2>1
<1>4. CASE Pending(call.todo, what)
  <2>1. \/ Token.do = "checked" /\ Token.what = what
        \/ Pending(Tail(call.todo), what) /\ \A t \in Exchange : Pending(<<t>> \o Tail(call.todo), what)
    BY <1>1, <1>4, PendingRest
  <2> QED
    BY <1>1, <2>1
<1> QED
  BY <1>1, <1>2, <1>3, <1>4

\* Before any exchange but a look at the queue it is empty, if all is calm.
LEMMA CalmQueue ==
  ASSUME SessionInv, Busy, Calm(wires[Wire]), call.op # "safe" \/ links[Wire].prepared # {}
  PROVE  Expected(Token, errors[Wire])
BY InCall DEF Ready

\* A safing checks nothing.
LEMMA NotOfSafing ==
  ASSUME SessionInv, Busy, Token.do \notin {"write", "ask", "drain"} \cup Final
  PROVE  call.op # "safe"
<1>1. /\ call.todo \in Seq(Exchange) /\ call.todo # <<>> /\ Token = call.todo[1] /\ Formed(call, wires[Wire])
  BY InCall
<1>2. 1 \in DOMAIN call.todo
  BY <1>1, RestIs
<1> QED
  BY <1>1, <1>2 DEF Formed, OfSafing

\* What is left after a command is sent.
LEMMA SentIs ==
  ASSUME SessionInv, Busy, Token.do \in {"write", "checked"}
  PROVE  /\ Sent(Token) \in Seq(Exchange)
         /\ Token.do = "write" => Sent(Token) = Rest
         /\ Token.do = "checked" =>
              /\ Sent(Token) # <<>> /\ Sent(Token)[1].do = "error?"
              /\ \E t \in Exchange : t.do = "error?" /\ Sent(Token) = <<t>> \o Rest
<1>1. Token \in Exchange /\ Rest \in Seq(Exchange) /\ call.todo \in Seq(Exchange) /\ call.todo # <<>>
      /\ Rest = Tail(call.todo)
  BY InCall
<1>2. CASE Token.do = "write"
  BY <1>1, <1>2 DEF Sent
<1>3. CASE Token.do = "checked"
  <2> DEFINE t == [do |-> "error?", what |-> Token.what]
  <2>1. t \in Exchange /\ t.do = "error?"
    BY <1>1, <1>3, TokenIs DEF Exchange
  <2>2. Sent(Token) = <<t>> \o Rest
    BY <1>3 DEF Sent
  <2> HIDE DEF t
  <2>3. <<t>> \o Rest \in Seq(Exchange) /\ <<t>> \o Rest # <<>> /\ (<<t>> \o Rest)[1] = t
    BY <1>1, <2>1, Instead
  <2> QED
    BY <1>3, <2>1, <2>2, <2>3
<1> QED
  BY <1>2, <1>3

LEMMA SentFormed ==
  ASSUME SessionInv, Busy, Token.do \in {"write", "checked"}, Carries, call'.todo = Sent(Token)
  PROVE  Formed(call', wires'[Wire])
<1>1. CASE Token.do = "write"
  <2>1. Sent(Token) = Rest
    BY <1>1, SentIs
  <2> QED
    BY <1>1, <2>1, RestFormed DEF Identified
<1>2. CASE Token.do = "checked"
  <2>1. PICK t \in Exchange : t.do = "error?" /\ Sent(Token) = <<t>> \o Rest
    BY <1>2, SentIs
  <2> QED
    BY <1>2, <2>1, AgainFormed
<1> QED
  BY <1>1, <1>2

LEMMA SentOn ==
  ASSUME SessionInv, Live, Token.do \in {"write", "checked"}, Moved, Carries, call' \in Call,
         call'.face = call.face, call'.took = call.took, call'.wanted = call.wanted,
         call.obeyed \subseteq call'.obeyed, call'.todo = Sent(Token),
         Token.do = "checked" => Token.what \in call'.obeyed \/ errors'[Wire] # <<>>,
         Calm(wires'[Wire]) /\ (call.op # "safe" \/ links[Wire].prepared # {}) =>
           IF Token.do = "write" THEN errors'[Wire] = <<>>
           ELSE \A i \in DOMAIN errors'[Wire] : errors'[Wire][i] = "own"
  PROVE  Onward
<1>0. Busy
  BY DEF Live
<1>1. Formed(call', wires'[Wire])
  BY <1>0, SentFormed
<1>2. /\ Truthful(call, wires[Wire], errors[Wire]) /\ call.todo # <<>>
  BY <1>0, InCall
<1>3. ASSUME call.op # "safe", wires'[Wire].lagged = FALSE
      PROVE  call'.took = "own" /\ Accounted(call', errors'[Wire])
  <2>1. call.took = "own" /\ Accounted(call, errors[Wire])
    BY <1>2, <1>3 DEF Truthful, Moved
  <2>2. \A what \in call'.wanted :
           \/ what \in call'.obeyed \/ Doomed(call'.todo) \/ Pending(call'.todo, what)
           \/ call'.todo # <<>> /\ call'.todo[1].do = "error?" /\ errors'[Wire] # <<>>
    <3>1. call'.todo = Rest \/ \E t \in Exchange : call'.todo = <<t>> \o Rest
      BY <1>0, SentIs
    <3>2. Token.do = "checked" => Token.what \in call'.obeyed
             \/ (call'.todo # <<>> /\ call'.todo[1].do = "error?" /\ errors'[Wire] # <<>>)
      BY <1>0, SentIs
    <3>3. Token.do \notin Final
      BY <1>0 DEF Final
    <3> QED
      BY <1>0, <2>1, <3>1, <3>2, <3>3, AccountedOn
  <2> QED
    BY <2>1, <2>2 DEF Accounted
<1>4. call'.todo \in Seq(Exchange)
  BY <1>0, SentIs
<1>5. IF call'.todo = <<>> THEN Empty(links'[Wire].prepared, wires'[Wire], errors'[Wire])
      ELSE Ready(call', links'[Wire].prepared, wires'[Wire], errors'[Wire])
  <2>1. CASE Token.do = "write"
    <3>1. Calm(wires'[Wire]) /\ (call'.op # "safe" \/ links'[Wire].prepared # {}) => errors'[Wire] = <<>>
      BY <2>1 DEF Moved, Carries
    <3> QED
      BY <1>4, <3>1, QueueReady
  <2>2. CASE Token.do = "checked"
    <3>1. call'.todo # <<>> /\ call'.todo[1].do = "error?"
      BY <1>0, <2>2, SentIs
    <3> QED
      BY <2>2, <3>1 DEF Ready, Moved, Carries, Expected
  <2> QED
    BY <2>1, <2>2
<1>6. call'.op = call.op
  BY DEF Carries
<1> QED
  BY <1>0, <1>1, <1>3, <1>5, <1>6, GoneOn

LEMMA ObeyOn ==
  ASSUME SessionInv, Obey, UNCHANGED box
  PROVE  Elsewhere /\ Onward
<1>0. Busy /\ Live /\ Token.do \in {"write", "checked"}
  BY DEF Obey, Live
<1>1. /\ call \in Call /\ Token \in Exchange /\ wires[Wire] \in AWire
      /\ errors[Wire] \in Seq({"own", "old"}) /\ Len(errors[Wire]) <= MaxRefused
      /\ Len(wires[Wire].stream) <= MaxLate /\ Unread(wires[Wire])
      /\ wires \in [Keys -> AWire] /\ Wire \in Keys
  BY <1>0, InCall
<1> DEFINE q == Stale(errors[Wire])
<1>2. q \in Seq({"own", "old"}) /\ Len(q) = Len(errors[Wire]) /\ (errors[Wire] = <<>> => q = <<>>)
  BY <1>1, StaleIs
<1>3. wires' = [wires EXCEPT ![Wire] = wires[Wire]] /\ errors' = [errors EXCEPT ![Wire] = q]
  BY <1>1 DEF Obey, wireVars
<1>4. UNCHANGED <<boxVars, right, box>>
  BY DEF Obey
<1>5. Elsewhere /\ wires'[Wire] = wires[Wire] /\ errors'[Wire] = q /\ links'[Wire] = links[Wire]
  BY <1>0, <1>1, <1>2, <1>3, <1>4, OneWire
<1> HIDE DEF q
<1>6. Moved
  BY <1>1, <1>2, <1>5, WireIs DEF Moved
<1>7. Token.what \in Said /\ Sent(Token) \in Seq(Exchange)
  BY <1>0, <1>1, TokenIs, SentIs
<1>8. call' = [call EXCEPT !.obeyed = call.obeyed \cup {Token.what}, !.todo = Sent(Token)]
  BY DEF Obey
<1>9. call' \in Call
  <2>1. call.obeyed \cup {Token.what} \in SUBSET Said
    BY <1>1, <1>7 DEF Call
  <2> QED
    BY <1>1, <1>7, <1>8, <2>1, Zenon DEF Call
<1>10. /\ call'.face = call.face /\ call'.op = call.op /\ call'.family = call.family
       /\ call'.blamed = call.blamed /\ call'.took = call.took /\ call'.wanted = call.wanted
       /\ call'.todo = Sent(Token) /\ call'.obeyed = call.obeyed \cup {Token.what}
  BY <1>1, <1>8 DEF Call
<1>11. Carries
  BY <1>1, <1>5, <1>10, WireIs DEF Carries
<1>12. ASSUME Calm(wires'[Wire]), call.op # "safe" \/ links[Wire].prepared # {}
       PROVE  errors'[Wire] = <<>>
  <2>1. Expected(Token, errors[Wire])
    BY <1>0, <1>5, <1>12, CalmQueue
  <2>2. errors[Wire] = <<>>
    BY <1>0, <2>1 DEF Expected
  <2> QED
    BY <1>2, <1>5, <2>2
<1>13. Onward
  <2>1. DOMAIN <<>> = {}
    OBVIOUS
  <2> QED
    BY <1>0, <1>6, <1>9, <1>10, <1>11, <1>12, <2>1, SentOn
<1> QED
  BY <1>5, <1>13

LEMMA RefusalIs ==
  ASSUME NEW r \in Refusals
  PROVE  r \in Seq({"own", "old"}) /\ Len(r) > 0 /\ Len(r) \in Nat /\ \A i \in 1..Len(r) : r[i] = "own"
<1>1. CASE r = <<"own">>
  BY <1>1
<1>2. CASE r = <<"own", "own">>
  BY <1>2
<1> QED
  BY <1>1, <1>2 DEF Refusals

LEMMA RefuseOn ==
  ASSUME SessionInv, Refuse, UNCHANGED box
  PROVE  Elsewhere /\ Onward
<1>0. Busy /\ Live /\ Token.do \in {"write", "checked"}
  BY DEF Refuse, Live
<1>1. /\ call \in Call /\ Token \in Exchange /\ wires[Wire] \in AWire
      /\ errors[Wire] \in Seq({"own", "old"}) /\ Len(errors[Wire]) <= MaxRefused
      /\ Len(wires[Wire].stream) <= MaxLate /\ Unread(wires[Wire])
      /\ wires \in [Keys -> AWire] /\ Wire \in Keys
  BY <1>0, InCall
<1>2. PICK r \in Refusals : CanQueue(r) /\ errors' = [errors EXCEPT ![Wire] = Stale(errors[Wire]) \o r]
  BY DEF Refuse
<1> DEFINE q == Stale(errors[Wire]) \o r
           w == [wires[Wire] EXCEPT !.littered = (wires[Wire].littered \/ Token.do = "write")]
<1>3. r \in Seq({"own", "old"}) /\ Len(r) > 0 /\ Len(r) \in Nat /\ \A i \in 1..Len(r) : r[i] = "own"
  BY RefusalIs
<1>4. Stale(errors[Wire]) \in Seq({"own", "old"}) /\ Len(Stale(errors[Wire])) = Len(errors[Wire])
      /\ (errors[Wire] = <<>> => Stale(errors[Wire]) = <<>>) /\ Len(errors[Wire]) \in Nat
  BY <1>1, StaleIs, LenProperties
<1>5. q \in Seq({"own", "old"}) /\ Len(q) = Len(errors[Wire]) + Len(r)
  <2> DEFINE p == Stale(errors[Wire])
  <2>1. p \in Seq({"own", "old"}) /\ Len(p) = Len(errors[Wire])
    BY <1>4
  <2> HIDE DEF p
  <2>2. p \o r \in Seq({"own", "old"}) /\ Len(p \o r) = Len(p) + Len(r)
    BY <1>3, <2>1, ConcatProperties
  <2> QED
    BY <2>1, <2>2 DEF p
<1>6. Len(q) <= MaxRefused /\ q # <<>>
  BY <1>2, <1>3, <1>4, <1>5, EmptySeq DEF CanQueue
<1>7. errors[Wire] = <<>> => q = r
  BY <1>3, <1>4, ConcatEmptySeq
<1>8. /\ w \in AWire /\ w.stream = wires[Wire].stream /\ w.late = wires[Wire].late
      /\ w.lagged = wires[Wire].lagged /\ w.met = wires[Wire].met /\ w.dead = wires[Wire].dead
      /\ w.littered = (wires[Wire].littered \/ Token.do = "write")
  BY <1>1 DEF AWire
<1>9. wires' = [wires EXCEPT ![Wire] = w] /\ errors' = [errors EXCEPT ![Wire] = q]
  BY <1>2 DEF Refuse
<1>10. UNCHANGED <<boxVars, right, box>>
  BY DEF Refuse
<1> HIDE DEF q, w
<1>11. Elsewhere /\ wires'[Wire] = w /\ errors'[Wire] = q /\ links'[Wire] = links[Wire]
  BY <1>0, <1>5, <1>8, <1>9, <1>10, OneWire
<1>12. Moved
  <2>1. Unread(w) /\ w.late \in Nat /\ wires[Wire].late <= w.late
    BY <1>1, <1>8, WireIs DEF Unread
  <2> QED
    BY <1>1, <1>5, <1>6, <1>8, <1>11, <2>1 DEF Moved
<1>13. Sent(Token) \in Seq(Exchange) /\ Goes(Sent(Token))
  BY <1>0, SentIs DEF Refuse
<1>14. /\ call' \in Call /\ call'.todo = Sent(Token) /\ call'.face = call.face /\ call'.op = call.op
       /\ call'.family = call.family /\ call'.obeyed = call.obeyed
       /\ call'.wanted = call.wanted /\ call'.took = call.took /\ call'.blamed = call.blamed
  BY <1>1, <1>13, GoesIs
<1>15. Carries
  BY <1>1, <1>8, <1>11, <1>14, WireIs DEF Carries
<1>16. ASSUME Calm(wires'[Wire]), call.op # "safe" \/ links[Wire].prepared # {}
       PROVE  Token.do = "checked" /\ \A i \in DOMAIN errors'[Wire] : errors'[Wire][i] = "own"
  <2>1. Calm(wires[Wire]) /\ Token.do # "write"
    BY <1>1, <1>8, <1>11, <1>16, WireIs DEF Calm
  <2>2. Expected(Token, errors[Wire]) /\ Token.do = "checked"
    BY <1>0, <1>16, <2>1, CalmQueue
  <2>3. errors[Wire] = <<>>
    BY <2>2 DEF Expected
  <2>4. errors'[Wire] = r
    BY <1>7, <1>11, <2>3
  <2> QED
    BY <1>3, <2>2, <2>4, LenProperties
<1>17. Onward
  BY <1>0, <1>6, <1>11, <1>12, <1>14, <1>15, <1>16, SentOn
<1> QED
  BY <1>11, <1>17

----------------------------------------------------------------------------
(* What is thrown, and what is done first.                                 *)

LEMMA RaiseOn ==
  ASSUME SessionInv, Raise, UNCHANGED box
  PROVE  Elsewhere /\ Onward
<1>0. Busy /\ Token.do = "fault"
  BY DEF Raise
<1>1. /\ wires[Wire] \in AWire /\ call \in Call /\ Token \in Exchange
      /\ errors[Wire] \in Seq({"own", "old"}) /\ Len(errors[Wire]) <= MaxRefused
      /\ Len(wires[Wire].stream) <= MaxLate /\ Unread(wires[Wire])
      /\ errors \in [Keys -> Seq({"own", "old"})] /\ wires \in [Keys -> AWire] /\ Wire \in Keys
      /\ call.todo \in Seq(Exchange) /\ call.todo # <<>> /\ Token = call.todo[1]
      /\ Formed(call, wires[Wire])
  BY <1>0, InCall
<1>2. wires' = [wires EXCEPT ![Wire] = wires[Wire]] /\ errors' = [errors EXCEPT ![Wire] = errors[Wire]]
  BY <1>1 DEF Raise
<1>3. UNCHANGED <<boxVars, right, box>>
  BY DEF Raise
<1>4. /\ Elsewhere /\ wires'[Wire] = wires[Wire] /\ errors'[Wire] = errors[Wire]
      /\ links'[Wire] = links[Wire]
  BY <1>0, <1>1, <1>2, <1>3, OneWire
<1>5. Moved
  BY <1>1, <1>4, WireIs DEF Moved
<1> DEFINE tells == IF Token.own THEN "own" ELSE "old"
<1>6. call' = [call EXCEPT !.todo = <<>>, !.end = "fault", !.blamed = tells]
  BY DEF Raise
<1>7. tells \in {"own", "old", "nothing"} /\ Token.own \in BOOLEAN
  BY <1>0, <1>1, TokenIs
<1>8. call' \in Call
  BY <1>1, <1>6, <1>7, NoExchanges, Zenon DEF Call
<1>9. /\ call'.face = call.face /\ call'.op = call.op /\ call'.todo = <<>> /\ call'.took = call.took
      /\ call'.end = "fault" /\ call'.blamed = tells
  BY <1>1, <1>6 DEF Call
<1>10. ASSUME tells = "old" PROVE wires[Wire].late > 0
  <2>1. Token.own = FALSE
    BY <1>7, <1>10
  <2>2. 1 \in DOMAIN call.todo
    BY <1>1, RestIs
  <2> QED
    BY <1>0, <1>1, <2>1, <2>2 DEF Formed, Blames, Blaming
<1>11. Empty(links'[Wire].prepared, wires'[Wire], errors'[Wire])
  <2> SUFFICES ASSUME Calm(wires[Wire]), links[Wire].prepared # {} PROVE errors[Wire] = <<>>
    BY <1>4 DEF Empty
  <2> QED
    BY <1>0, CalmQueue DEF Expected
<1> HIDE DEF tells
<1>12. Onward
  BY <1>0, <1>4, <1>5, <1>8, <1>9, <1>10, <1>11, Ended
<1> QED
  BY <1>4, <1>12

LEMMA FinishPreparingOn ==
  ASSUME SessionInv, FinishPreparing, UNCHANGED box
  PROVE  Elsewhere /\ Onward
<1>0. Busy /\ Token.do = "prepared"
  BY DEF FinishPreparing
<1>1. /\ wires[Wire] \in AWire /\ call \in Call /\ Token \in Exchange
      /\ errors[Wire] \in Seq({"own", "old"}) /\ Len(errors[Wire]) <= MaxRefused
      /\ Len(wires[Wire].stream) <= MaxLate /\ Unread(wires[Wire])
      /\ errors \in [Keys -> Seq({"own", "old"})] /\ wires \in [Keys -> AWire] /\ Wire \in Keys
      /\ links \in [Keys -> BoxLink] /\ links[Wire] \in BoxLink
      /\ links[Wire].prepared \subseteq wires[Wire].met
      /\ call.todo \in Seq(Exchange) /\ call.todo # <<>> /\ Token = call.todo[1] /\ Rest \in Seq(Exchange)
      /\ Formed(call, wires[Wire]) /\ Truthful(call, wires[Wire], errors[Wire])
  BY <1>0, InCall
<1> DEFINE l == [links[Wire] EXCEPT !.prepared = links[Wire].prepared \cup {Token.what}]
<1>2. Token.what \in Families
  BY <1>0, <1>1, TokenIs
<1>3. /\ l \in BoxLink /\ l.session = links[Wire].session /\ l.native = links[Wire].native
      /\ l.prepared = links[Wire].prepared \cup {Token.what}
  BY <1>1, <1>2 DEF BoxLink
<1>4. links' = [links EXCEPT ![Wire] = l] /\ UNCHANGED <<mAddress, mLink, wires, errors, right, box>>
  BY DEF FinishPreparing, MarkPrepared
<1> HIDE DEF l
<1>5. Elsewhere /\ links'[Wire] = l
  BY <1>1, <1>3, <1>4 DEF Elsewhere
<1>6. Token.what \in wires[Wire].met
  <2>1. 1 \in DOMAIN call.todo
    BY <1>1, RestIs
  <2> QED
    BY <1>0, <1>1, <2>1 DEF Formed, Meets
<1>7. call.op # "safe" /\ Token.do \notin Final
  BY <1>0, NotOfSafing DEF Final
<1>8. /\ call' \in Call /\ call'.todo = Rest /\ call'.face = call.face /\ call'.op = call.op
      /\ call'.family = call.family /\ call'.obeyed = call.obeyed
      /\ call'.wanted = call.wanted /\ call'.took = call.took /\ call'.blamed = call.blamed
  BY <1>1, GoesIs DEF FinishPreparing
<1>9. Carries
  BY <1>1, <1>4, <1>8, WireIs DEF Carries
<1>10. Formed(call', wires'[Wire])
  BY <1>0, <1>8, <1>9, RestFormed DEF Identified
<1>11. Calm(wires[Wire]) => errors[Wire] = <<>>
  BY <1>0, <1>7, CalmQueue DEF Expected
<1>12. IF call'.todo = <<>> THEN Empty(links'[Wire].prepared, wires'[Wire], errors'[Wire])
       ELSE Ready(call', links'[Wire].prepared, wires'[Wire], errors'[Wire])
  BY <1>1, <1>4, <1>8, <1>11, QueueReady
<1>13. Truthful(call', wires'[Wire], errors'[Wire])
  <2> SUFFICES ASSUME wires[Wire].lagged = FALSE
               PROVE  call'.took = "own" /\ Accounted(call', errors[Wire])
    BY <1>4 DEF Truthful
  <2>1. call.took = "own" /\ Accounted(call, errors[Wire])
    BY <1>1, <1>7 DEF Truthful
  <2>2. \A what \in call'.wanted :
          \/ what \in call'.obeyed \/ Doomed(call'.todo) \/ Pending(call'.todo, what)
          \/ call'.todo # <<>> /\ call'.todo[1].do = "error?" /\ errors[Wire] # <<>>
    BY <1>0, <1>7, <1>8, <2>1, AccountedOn
  <2> QED
    BY <1>8, <2>1, <2>2 DEF Accounted
<1>14. links'[Wire].prepared \subseteq wires'[Wire].met
  BY <1>1, <1>3, <1>4, <1>5, <1>6
<1>15. Onward
  BY <1>1, <1>4, <1>8, <1>10, <1>12, <1>13, <1>14 DEF Onward
<1> QED
  BY <1>5, <1>15

LEMMA ComplainOn ==
  ASSUME SessionInv, Complain, UNCHANGED box
  PROVE  Elsewhere /\ Onward
<1>0. Busy /\ Token.do = "drain" /\ call' = call
  BY DEF Complain, Asking, Live
<1>1. /\ wires[Wire] \in AWire /\ call \in Call
      /\ errors[Wire] \in Seq({"own", "old"})
      /\ Len(wires[Wire].stream) <= MaxLate /\ Unread(wires[Wire])
      /\ call.todo # <<>> /\ Token = call.todo[1]
      /\ Formed(call, wires[Wire]) /\ Truthful(call, wires[Wire], errors[Wire])
  BY <1>0, InCall
<1> DEFINE w == [wires[Wire] EXCEPT !.littered = TRUE]
           q == Append(errors[Wire], "old")
<1>2. /\ w \in AWire /\ w.stream = wires[Wire].stream /\ w.late = wires[Wire].late
      /\ w.lagged = wires[Wire].lagged /\ w.met = wires[Wire].met /\ w.littered = TRUE
  BY <1>1 DEF AWire
<1>3. q \in Seq({"own", "old"}) /\ Len(q) = Len(errors[Wire]) + 1
  BY <1>1, AppendProperties
<1>4. Len(q) <= MaxRefused
  BY <1>3 DEF Complain, CanQueue
<1>5. /\ wires' = [wires EXCEPT ![Wire] = w] /\ errors' = [errors EXCEPT ![Wire] = q]
      /\ UNCHANGED <<boxVars, right, box>>
  BY DEF Complain
<1> HIDE DEF w, q
<1>6. Elsewhere /\ wires'[Wire] = w /\ errors'[Wire] = q /\ links'[Wire] = links[Wire]
  BY <1>0, <1>2, <1>3, <1>5, OneWire
<1>7. Moved
  BY <1>1, <1>2, <1>3, <1>4, <1>6, WireIs DEF Moved, Unread
<1>8. Formed(call', wires'[Wire])
  BY <1>0, <1>1, <1>2, <1>6 DEF Formed
<1>9. call.op # "safe" /\ wires'[Wire].lagged = FALSE =>
        call'.took = "own" /\ Accounted(call', errors'[Wire])
  BY <1>0, <1>1, <1>2, <1>6 DEF Truthful, Accounted
<1>10. IF call'.todo = <<>> THEN Empty(links'[Wire].prepared, wires'[Wire], errors'[Wire])
       ELSE Ready(call', links'[Wire].prepared, wires'[Wire], errors'[Wire])
  BY <1>2, <1>6 DEF Empty, Ready, Calm
<1>11. Onward
  BY <1>0, <1>1, <1>7, <1>8, <1>9, <1>10, GoneOn
<1> QED
  BY <1>6, <1>11

----------------------------------------------------------------------------
(* A question, and what is read for it.                                    *)

LEMMA AnswerIs ==
  ASSUME SessionInv, Asking, NEW a \in Answers(Token)
  PROVE  /\ a \in Reply /\ a.old = FALSE
         /\ Token.do # "ask" =>
              /\ IsEntry(a) <=> errors[Wire] # <<>>
              /\ a.own = TRUE <=> errors[Wire] # <<>> /\ Head(errors[Wire]) = "own"
         /\ Token.do = "ask" /\ Token.own = TRUE => a.kind = "number"
<1>1. CASE Token.do # "ask"
  <2>1. a = [kind |-> IF errors[Wire] = <<>> THEN "clean" ELSE "entry",
             own |-> errors[Wire] # <<>> /\ Head(errors[Wire]) = "own", old |-> FALSE]
    BY <1>1 DEF Answers
  <2>2. a.kind \in {"clean", "entry"} /\ (a.kind = "entry" <=> errors[Wire] # <<>>)
    BY <2>1
  <2>3. a.own \in BOOLEAN /\ a.old = FALSE
        /\ (a.own = TRUE <=> errors[Wire] # <<>> /\ Head(errors[Wire]) = "own")
    BY <2>1, Zenon
  <2>4. a \in Reply
    BY <2>1, <2>2, <2>3 DEF Reply
  <2> QED
    BY <1>1, <2>2, <2>3, <2>4 DEF IsEntry
<1>2. CASE Token.do = "ask"
  <2>1. PICK k \in {"text", "number", "zero"} : a = [kind |-> k, own |-> FALSE, old |-> FALSE]
    <3> DEFINE kinds == CASE Token.wants \in {"model", "text"} -> {"text"}
                          [] Token.wants = "yes" -> IF right[Wire] THEN {"number"} ELSE {"zero"}
                          [] OTHER -> {"number"}
    <3>1. Answers(Token) = {[kind |-> k, own |-> FALSE, old |-> FALSE] : k \in kinds}
      BY <1>2 DEF Answers
    <3>2. kinds \subseteq {"text", "number", "zero"}
      <4>1. CASE Token.wants \in {"model", "text"}
        BY <4>1
      <4>2. CASE Token.wants = "yes"
        BY <4>2
      <4>3. CASE Token.wants \notin {"model", "text", "yes"}
        BY <4>3
      <4> QED
        BY <4>1, <4>2, <4>3
    <3> HIDE DEF kinds
    <3> QED
      BY <3>1, <3>2
  <2>2. ASSUME Token.own = TRUE PROVE a.kind = "number"
    <3>1. Token.wants = "number"
      BY <1>2, <2>2, InCall, TokenIs DEF Asking, Live
    <3>2. Answers(Token) = {[kind |-> z, own |-> FALSE, old |-> FALSE] : z \in {"number"}}
      BY <1>2, <3>1 DEF Answers
    <3> QED
      BY <3>2
  <2> QED
    BY <1>2, <2>1, <2>2 DEF Reply
<1> QED
  BY <1>1, <1>2

LEMMA Joined ==
  ASSUME NEW s \in Seq({"own", "old"}), NEW r \in Seq({"own", "old"})
  PROVE  s \o r \in Seq({"own", "old"}) /\ Len(s \o r) = Len(s) + Len(r)
BY ConcatProperties

LEMMA AfterAskingIs ==
  ASSUME SessionInv, Asking, NEW queue \in AfterAsking(Token)
  PROVE  /\ queue \in Seq({"own", "old"}) /\ Len(queue) <= MaxRefused
         /\ errors[Wire] = <<>> =>
              /\ \A i \in DOMAIN queue : queue[i] = "own"
              /\ Token.do # "ask" \/ queue = Stale(errors[Wire]) => queue = <<>>
         /\ Token.do # "ask" /\ errors[Wire] # <<>> =>
              queue = Tail(errors[Wire]) /\ Len(queue) = Len(errors[Wire]) - 1
<1>0. Busy
  BY DEF Asking, Live
<1>1. /\ errors[Wire] \in Seq({"own", "old"}) /\ Len(errors[Wire]) <= MaxRefused
  BY <1>0, InCall
<1>2. Len(errors[Wire]) \in Nat /\ DOMAIN <<>> = {}
  BY <1>1, LenProperties
<1>3. MaxRefused \in Nat
  BY ScpiAssumption
<1>4. CASE Token.do = "ask"
  <2> DEFINE p == Stale(errors[Wire])
  <2>1. p \in Seq({"own", "old"}) /\ Len(p) = Len(errors[Wire]) /\ (errors[Wire] = <<>> <=> p = <<>>)
    BY <1>1, StaleIs
  <2>2. queue = p \/ \E r \in Refusals : CanQueue(r) /\ queue = p \o r
    BY <1>4 DEF AfterAsking
  <2> HIDE DEF p
  <2>3. CASE queue = p
    BY <1>1, <1>2, <1>4, <2>1, <2>3 DEF p
  <2>4. CASE queue # p
    <3>1. PICK r \in Refusals : CanQueue(r) /\ queue = p \o r
      BY <2>2, <2>4
    <3>2. r \in Seq({"own", "old"}) /\ Len(r) \in Nat /\ \A i \in 1..Len(r) : r[i] = "own"
      BY RefusalIs
    <3> DEFINE grown == p \o r
    <3>3. grown \in Seq({"own", "old"}) /\ Len(grown) = Len(p) + Len(r)
      BY <2>1, <3>2, Joined
    <3>6. queue = grown
      BY <3>1
    <3>4. ASSUME errors[Wire] = <<>> PROVE \A i \in DOMAIN queue : queue[i] = "own"
      <4>1. queue = r
        BY <2>1, <3>1, <3>2, <3>4, ConcatEmptySeq
      <4> QED
        BY <3>2, <4>1, LenProperties
    <3> HIDE DEF grown
    <3>5. Len(queue) <= MaxRefused
      BY <2>1, <3>1, <3>3, <3>6 DEF CanQueue
    <3> QED
      BY <1>4, <2>4, <3>3, <3>4, <3>5, <3>6 DEF p
  <2> QED
    BY <2>3, <2>4
<1>5. CASE Token.do # "ask" /\ errors[Wire] = <<>>
  <2>1. queue = <<>>
    BY <1>5 DEF AfterAsking
  <2> QED
    BY <1>1, <1>2, <1>5, <2>1
<1>6. CASE Token.do # "ask" /\ errors[Wire] # <<>>
  <2>1. queue = Tail(errors[Wire])
    BY <1>6 DEF AfterAsking
  <2>2. Tail(errors[Wire]) \in Seq({"own", "old"}) /\ Len(Tail(errors[Wire])) = Len(errors[Wire]) - 1
    BY <1>1, <1>6, RestIs
  <2> QED
    BY <1>1, <1>2, <1>3, <1>6, <2>1, <2>2
<1> QED
  BY <1>4, <1>5, <1>6

\* What is asked why, and the fault with the drain before it.
LEMMA AskWhyIs ==
  ASSUME NEW t \in Exchange, t.do = "ask"
  PROVE  \E u \in Exchange : u.do = "why" /\ AskWhy(t) = <<u>>
<1> DEFINE late == IF t.own THEN "again" ELSE "timeout"
           u == [do |-> "why", what |-> t.what, late |-> late]
<1>1. t.what \in Said
  BY TokenIs
<1>2. late \in Lates
  BY DEF Lates
<1>3. AskWhy(t) = <<u>>
  BY Zenon DEF AskWhy
<1> HIDE DEF late
<1>4. u \in [do : {"why"}, what : Said, late : Lates] /\ u.do = "why"
  BY <1>1, <1>2
<1>5. u \in Exchange
  BY <1>4 DEF Exchange
<1> HIDE DEF u
<1> QED
  BY <1>3, <1>4, <1>5

LEMMA LookAgainIs ==
  ASSUME NEW t \in Exchange, t.do # "prepared"
  PROVE  \E u \in Exchange : u.do = "again" /\ LookAgain(t) = <<u>>
<1> DEFINE u == [do |-> "again", what |-> t.what]
<1>1. t.what \in Said
  BY TokenIs
<1>2. u \in Exchange /\ u.do = "again"
  BY <1>1 DEF Exchange
<1> QED
  BY <1>2 DEF LookAgain

LEMMA FaultIs ==
  ASSUME NEW t \in Exchange, t.do # "prepared", NEW r \in Reply, wires[Wire] \in AWire
  PROVE  /\ Fault(t, r) \in Exchange /\ Fault(t, r).do = "fault"
         /\ Fault(t, r).own = FALSE <=>
              ~(r.own = TRUE /\ r.old = FALSE) /\ wires[Wire].littered = FALSE
<1>1. t.what \in Said /\ r.own \in BOOLEAN /\ r.old \in BOOLEAN /\ wires[Wire].littered \in BOOLEAN
  BY TokenIs, WireIs DEF Reply
<1> DEFINE own == (r.own /\ ~r.old) \/ wires[Wire].littered
<1>2. own \in BOOLEAN /\ (own = FALSE <=> ~(r.own = TRUE /\ r.old = FALSE) /\ wires[Wire].littered = FALSE)
  BY <1>1, Zenon
<1>3. Fault(t, r) = [do |-> "fault", what |-> t.what, own |-> own]
  BY DEF Fault
<1> HIDE DEF own
<1>4. Fault(t, r) \in [do : {"fault"}, what : Said, own : BOOLEAN]
  BY <1>1, <1>2, <1>3
<1>5. Fault(t, r) \in Exchange
  BY <1>4 DEF Exchange
<1> QED
  BY <1>2, <1>3, <1>5

LEMMA FaultAfterIs ==
  ASSUME NEW t \in Exchange, t.do \in {"error?", "once", "why", "again"}, NEW r \in Reply
  PROVE  /\ t.do \in {"once", "again"} => FaultAfter(t, r) = <<Fault(t, r)>>
         /\ t.do \in {"error?", "why"} =>
              \E d \in Exchange :
                /\ d.do = "drain" /\ d.left = QueueDepth /\ FaultAfter(t, r) = <<d, Fault(t, r)>>
                /\ Blaming(d) => t.do = "why"
<1>0. QueueDepth \in Nat \ {0} /\ "none" \in Said
  BY ScpiAssumption, QueueFits DEF Said
<1>1. CASE t.do \in {"once", "again"}
  BY <1>1 DEF FaultAfter
<1>2. CASE t.do = "why"
  <2> DEFINE d == [ClearErrors EXCEPT !.what = t.what, !.late = t.late]
  <2>1. t.what \in Said /\ t.late \in Lates
    BY <1>2, TokenIs
  <2>2. ClearErrors \in [do : {"drain"}, what : Said, left : {QueueDepth}, late : Lates]
    BY <1>0 DEF ClearErrors, Lates
  <2>4. d \in [do : {"drain"}, what : Said, left : {QueueDepth}, late : Lates]
    BY <2>1, <2>2
  <2>3. FaultAfter(t, r) = <<d, Fault(t, r)>>
    <3>1. t.do \notin {"once", "again"}
      BY <1>2
    <3> QED
      BY <1>2, <3>1, Zenon DEF FaultAfter
  <2> HIDE DEF d
  <2>5. d \in Exchange /\ d.do = "drain" /\ d.left = QueueDepth
    BY <1>0, <2>4 DEF Exchange
  <2> QED
    BY <1>2, <2>3, <2>5
<1>3. CASE t.do = "error?"
  <2>1. FaultAfter(t, r) = <<ClearErrors, Fault(t, r)>>
    BY <1>3 DEF FaultAfter
  <2>2. /\ ClearErrors \in [do : {"drain"}, what : Said, left : Nat \ {0}, late : Lates]
        /\ ClearErrors.do = "drain" /\ ClearErrors.left = QueueDepth /\ ~Blaming(ClearErrors)
    BY <1>0 DEF ClearErrors, Lates, Blaming
  <2>3. ClearErrors \in Exchange
    BY <2>2 DEF Exchange
  <2> QED
    BY <1>3, <2>1, <2>2, <2>3
<1> QED
  BY <1>1, <1>2, <1>3

\* A call with nothing left but to say why, or to throw.
LEMMA FailsOn ==
  ASSUME SessionInv, Busy, Moved, NEW t \in Exchange, NEW d \in Exchange, d.do = "drain", d.left = QueueDepth,
         NEW s, Goes(s),
         \/ s = <<t>> /\ t.do \in Final /\ ~Calm(wires'[Wire])
         \/ s = <<d, t>> /\ t.do = "fault",
         Blaming(t) \/ Blaming(d) => wires'[Wire].late > 0
  PROVE  Onward
<1>1. call \in Call /\ Formed(call, wires[Wire]) /\ call.todo # <<>> /\ Truthful(call, wires[Wire], errors[Wire])
  BY InCall
<1>2. s \in Seq(Exchange)
  <2>1. <<t>> \in Seq(Exchange) /\ <<d, t>> \in Seq(Exchange)
    BY OneOrTwo
  <2> QED
    BY <2>1
<1>3. /\ call' \in Call /\ call'.todo = s /\ call'.face = call.face /\ call'.op = call.op
      /\ call'.family = call.family /\ call'.took = call.took /\ call'.blamed = call.blamed
  BY <1>1, <1>2, GoesIs
<1>4. /\ Shaped(s) /\ OfSafing(s) /\ Meets(s, call.family, wires'[Wire].met)
      /\ Blames(s, wires'[Wire].late) /\ s # <<>> /\ Doomed(s)
  BY ShortFormed
<1>5. Formed(call', wires'[Wire])
  BY <1>1, <1>3, <1>4 DEF Formed
<1>6. call.op # "safe" /\ wires'[Wire].lagged = FALSE => call'.took = "own" /\ Accounted(call', errors'[Wire])
  BY <1>1, <1>3, <1>4 DEF Truthful, Accounted, Moved
<1>7. Ready(call', links'[Wire].prepared, wires'[Wire], errors'[Wire])
  <2>1. CASE ~Calm(wires'[Wire])
    BY <2>1 DEF Ready
  <2>2. CASE s = <<d, t>>
    <3>1. s[1] = d
      BY <2>2
    <3>2. Len(errors'[Wire]) <= QueueDepth
      <4>1. Len(errors'[Wire]) \in Nat /\ Len(errors'[Wire]) <= MaxRefused
        BY LenProperties DEF Moved
      <4> QED
        BY <4>1, ScpiAssumption, QueueFits
    <3>3. Expected(d, errors'[Wire])
      BY <3>2 DEF Expected
    <3> QED
      BY <1>3, <3>1, <3>3 DEF Ready
  <2> QED
    BY <2>1, <2>2
<1> QED
  BY <1>1, <1>3, <1>4, <1>5, <1>6, <1>7, GoneOn

LEMMA ADrain == \E d \in Exchange : d.do = "drain" /\ d.left = QueueDepth /\ ~Blaming(d)
<1>1. QueueDepth \in Nat \ {0} /\ "none" \in Said
  BY ScpiAssumption, QueueFits DEF Said
<1>2. /\ ClearErrors \in [do : {"drain"}, what : Said, left : Nat \ {0}, late : Lates]
      /\ ClearErrors.do = "drain" /\ ClearErrors.left = QueueDepth /\ ~Blaming(ClearErrors)
  BY <1>1 DEF ClearErrors, Lates, Blaming
<1>3. ClearErrors \in Exchange
  BY <1>2 DEF Exchange
<1> QED
  BY <1>2, <1>3

\* What follows a question that ran out of time.
LEMMA BlamedLate ==
  ASSUME SessionInv, Busy, Blaming(Token)
  PROVE  wires[Wire].late > 0
<1>1. /\ call.todo \in Seq(Exchange) /\ call.todo # <<>> /\ Token = call.todo[1]
      /\ Formed(call, wires[Wire])
  BY InCall
<1>2. 1 \in DOMAIN call.todo
  BY <1>1, RestIs
<1> QED
  BY <1>1, <1>2 DEF Formed, Blames

LEMMA StillLate ==
  ASSUME SessionInv, Busy, Moved, wires[Wire].late > 0
  PROVE  wires'[Wire].late > 0
<1>1. wires[Wire].late \in Nat /\ wires'[Wire].late \in Nat
  BY InCall, WireIs DEF Moved
<1> QED
  BY <1>1 DEF Moved

\* A fault is thrown for an entry: fairly, unless a question ran out of time.
LEMMA FaultsOn ==
  ASSUME SessionInv, Busy, Moved, Token.do \in {"error?", "once", "why", "again"}, NEW r \in Reply,
         Goes(FaultAfter(Token, r)),
         ~Calm(wires'[Wire]) \/ Token.do = "error?",
         Fault(Token, r).own = FALSE => wires'[Wire].late > 0
  PROVE  Onward
<1>1. Token \in Exchange /\ wires[Wire] \in AWire
  BY InCall
<1>2. Fault(Token, r) \in Exchange /\ Fault(Token, r).do = "fault"
  BY <1>1, FaultIs
<1>3. Blaming(Fault(Token, r)) => wires'[Wire].late > 0
  BY <1>2 DEF Blaming
<1>4. CASE Token.do \in {"once", "again"}
  <2>1. FaultAfter(Token, r) = <<Fault(Token, r)>>
    BY <1>1, <1>4, FaultAfterIs
  <2>2. PICK d \in Exchange : d.do = "drain" /\ d.left = QueueDepth /\ ~Blaming(d)
    BY ADrain
  <2>3. Fault(Token, r).do \in Final /\ ~Calm(wires'[Wire])
    BY <1>2, <1>4 DEF Final
  <2> QED
    BY <1>2, <1>3, <2>1, <2>2, <2>3, FailsOn
<1>5. CASE Token.do \in {"error?", "why"}
  <2>1. PICK d \in Exchange :
          /\ d.do = "drain" /\ d.left = QueueDepth /\ FaultAfter(Token, r) = <<d, Fault(Token, r)>>
          /\ Blaming(d) => Token.do = "why"
    BY <1>1, <1>5, FaultAfterIs
  <2>2. ASSUME Blaming(d) PROVE wires'[Wire].late > 0
    <3>1. Blaming(Token)
      BY <2>1, <2>2 DEF Blaming
    <3> QED
      BY <3>1, BlamedLate, StillLate
  <2> QED
    BY <1>2, <1>3, <2>1, <2>2, FailsOn
<1> QED
  BY <1>4, <1>5

\* The timeout is let out, or the meter looks again.
LEMMA LetOutOn ==
  ASSUME SessionInv, Busy, Moved, Token.do # "prepared", LetTimeoutOut(Token), wires'[Wire].late > 0
  PROVE  Onward
<1>1. Token \in Exchange
  BY InCall
<1>2. CASE Throws("timeout")
  BY <1>2, ThrownOn
<1>3. CASE Goes(LookAgain(Token))
  <2>1. PICK u \in Exchange : u.do = "again" /\ LookAgain(Token) = <<u>>
    BY <1>1, LookAgainIs
  <2>2. PICK d \in Exchange : d.do = "drain" /\ d.left = QueueDepth
    BY ADrain
  <2>3. ~Calm(wires'[Wire]) /\ u.do \in Final
    BY <2>1 DEF Calm, Final
  <2> QED
    BY <1>3, <2>1, <2>2, <2>3, FailsOn
<1> QED
  BY <1>2, <1>3 DEF LetTimeoutOut

LEMMA FailedOn ==
  ASSUME SessionInv, Busy, Moved, Token.do # "prepared", NEW what \in {"timeout", "transport"},
         Fails(Token, what), wires'[Wire].late > 0 \/ wires'[Wire].dead = TRUE
  PROVE  Onward
<1>1. CASE Token.do \in {"why", "drain"} /\ Token.late # "thrown"
  <2>1. Blaming(Token) /\ LetTimeoutOut(Token)
    BY <1>1 DEF Blaming, Fails
  <2> QED
    BY <2>1, BlamedLate, StillLate, LetOutOn
<1>2. CASE ~(Token.do \in {"why", "drain"} /\ Token.late # "thrown")
  <2>1. Throws(what)
    BY <1>2 DEF Fails
  <2> QED
    BY <2>1, ThrownOn
<1> QED
  BY <1>1, <1>2

\* Nothing was read in time: the call asks why, or throws.
LEMMA RanOutOn ==
  ASSUME SessionInv, Asking, Moved, wires'[Wire].late > 0, RanOut(Token)
  PROVE  Onward
<1>0. Busy /\ Token.do # "prepared"
  BY DEF Asking, Live
<1>1. Token \in Exchange
  BY <1>0, InCall
<1>2. CASE Token.do # "ask"
  <2>1. Fails(Token, "timeout")
    BY <1>2 DEF RanOut
  <2> QED
    BY <1>0, <2>1, FailedOn
<1>3. CASE Token.do = "ask"
  <2>1. PICK u \in Exchange : u.do = "why" /\ AskWhy(Token) = <<u>>
    BY <1>1, <1>3, AskWhyIs
  <2>2. PICK d \in Exchange : d.do = "drain" /\ d.left = QueueDepth
    BY ADrain
  <2>3. ~Calm(wires'[Wire]) /\ u.do \in Final /\ Goes(AskWhy(Token))
    BY <1>3, <2>1 DEF Calm, Final, RanOut
  <2> QED
    BY <1>0, <2>1, <2>2, <2>3, FailsOn
<1> QED
  BY <1>2, <1>3

\* The link is gone.
LEMMA BreakOn ==
  ASSUME SessionInv, Break, UNCHANGED box
  PROVE  Elsewhere /\ Onward
<1>0. Busy
  BY DEF Break
<1>1. /\ wires[Wire] \in AWire
      /\ errors[Wire] \in Seq({"own", "old"}) /\ Len(errors[Wire]) <= MaxRefused
      /\ Len(wires[Wire].stream) <= MaxLate /\ Unread(wires[Wire])
      /\ errors \in [Keys -> Seq({"own", "old"})] /\ Wire \in Keys
  BY <1>0, InCall
<1> DEFINE w == [wires[Wire] EXCEPT !.dead = TRUE]
<1>2. /\ w \in AWire /\ w.stream = wires[Wire].stream /\ w.late = wires[Wire].late
      /\ w.lagged = wires[Wire].lagged /\ w.met = wires[Wire].met /\ w.dead = TRUE
  BY <1>1 DEF AWire
<1>3. wires' = [wires EXCEPT ![Wire] = w] /\ errors' = [errors EXCEPT ![Wire] = errors[Wire]]
  BY <1>1 DEF Break
<1>4. UNCHANGED <<boxVars, right, box>>
  BY DEF Break
<1> HIDE DEF w
<1>5. Elsewhere /\ wires'[Wire] = w /\ errors'[Wire] = errors[Wire] /\ links'[Wire] = links[Wire]
  BY <1>0, <1>1, <1>2, <1>3, <1>4, OneWire
<1>6. Moved
  BY <1>1, <1>2, <1>5, WireIs DEF Moved, Unread
<1>7. Fails(Token, "transport") /\ Token.do # "prepared"
  BY DEF Break
<1>8. Onward
  BY <1>0, <1>2, <1>5, <1>6, <1>7, FailedOn
<1> QED
  BY <1>5, <1>8

\* The line that is read is the answer to the question, and the queue and its ghost
\* are as the question leaves them.
Fresh(r) ==
  /\ r \in Answers(Token)
  /\ errors'[Wire] \in AfterAsking(Token)
  /\ wires'[Wire].littered = ((wires[Wire].littered /\ ~(Token.do = "drain" /\ ~IsEntry(r)))
                              \/ Litters(Token, r, errors'[Wire]))

\* How the line for the question of a call that began calmly is read.
LEMMA CalmBefore ==
  ASSUME SessionInv, Asking, Moved, NEW r \in Reply, Fresh(r), wires'[Wire].dead = wires[Wire].dead,
         Calm(wires'[Wire]), call.op # "safe" \/ links[Wire].prepared # {}
  PROVE  /\ ~(Token.do \in {"once", "again"} /\ IsEntry(r))
         /\ Token.do = "ask" /\ Token.own = FALSE => errors'[Wire] = Stale(errors[Wire])
         /\ \/ Token.do = "drain" /\ ~IsEntry(r)
            \/ Calm(wires[Wire]) /\ Expected(Token, errors[Wire])
<1>0. Busy
  BY DEF Asking, Live
<1>1. wires[Wire] \in AWire
  BY <1>0, InCall
<1>2. wires[Wire].late \in Nat /\ wires'[Wire].late \in Nat /\ wires[Wire].littered \in BOOLEAN
  BY <1>1, WireIs DEF Moved
<1>3. wires[Wire].late = 0 /\ wires[Wire].dead = FALSE
  BY <1>2 DEF Moved, Calm
<1>4. ~((wires[Wire].littered /\ ~(Token.do = "drain" /\ ~IsEntry(r))) \/ Litters(Token, r, errors'[Wire]))
  BY Zenon DEF Fresh, Calm
<1>5. ~Litters(Token, r, errors'[Wire])
  BY <1>4, Zenon
<1>6. Calm(wires[Wire]) => Expected(Token, errors[Wire])
  BY <1>0, CalmQueue
<1>7. \/ Token.do = "drain" /\ ~IsEntry(r)
      \/ Calm(wires[Wire]) /\ Expected(Token, errors[Wire])
  BY <1>2, <1>3, <1>4, <1>6 DEF Calm
<1>8. /\ ~(Token.do \in {"once", "again"} /\ IsEntry(r))
      /\ Token.do = "ask" /\ ~Token.own => errors'[Wire] = Stale(errors[Wire])
  BY <1>5, Zenon DEF Litters
<1> QED
  BY <1>7, <1>8

\* The condition under which a line may be read: the answers are in step, or it is known
\* that they need not be.
InStep(r) ==
  /\ wires'[Wire].met = Met(Token, r)
  /\ wires'[Wire].dead = wires[Wire].dead
  /\ wires'[Wire].lagged = FALSE \/ wires'[Wire].late = 0 => Fresh(r)

LEMMA AskedOn ==
  ASSUME SessionInv, Asking, Moved, NEW r \in Reply, InStep(r), Reads(Token, r), Token.do = "ask"
  PROVE  Onward
<1>0. Busy
  BY DEF Asking, Live
<1>1. /\ call \in Call /\ Token \in Exchange /\ Rest \in Seq(Exchange) /\ wires[Wire] \in AWire
      /\ call.todo # <<>> /\ Formed(call, wires[Wire]) /\ Truthful(call, wires[Wire], errors[Wire])
  BY <1>0, InCall
<1>2. ASSUME Calm(wires'[Wire]), call.op # "safe" \/ links[Wire].prepared # {}
      PROVE  /\ Fresh(r) /\ \A i \in DOMAIN errors'[Wire] : errors'[Wire][i] = "own"
             /\ Token.own = FALSE => errors'[Wire] = <<>>
  <2>1. Fresh(r)
    BY <1>2 DEF InStep, Calm
  <2>2. Expected(Token, errors[Wire]) /\ (Token.own = FALSE => errors'[Wire] = Stale(errors[Wire]))
    BY <1>2, <2>1, CalmBefore DEF InStep
  <2>3. errors[Wire] = <<>>
    BY <2>2 DEF Expected
  <2> QED
    BY <2>1, <2>2, <2>3, AfterAskingIs DEF Fresh
<1>3. CASE Understood(Token, r)
  <2> DEFINE tells == IF r.old /\ Token.wants \in {"number", "text"} THEN "old" ELSE call.took
             u == CheckOnce(Token.what)
  <2>0. /\ u \in Exchange /\ u.do = "once" /\ Token.own \in BOOLEAN
        /\ Looked(Token) = IF Token.own THEN <<u>> \o Rest ELSE Rest
        /\ <<u>> \o Rest \in Seq(Exchange) /\ <<u>> \o Rest # <<>> /\ (<<u>> \o Rest)[1] = u
    <3>1. Token.what \in Said /\ Token.own \in BOOLEAN
      BY <1>1, TokenIs
    <3>2. u \in Exchange /\ u.do = "once"
      BY <3>1 DEF CheckOnce, Exchange
    <3>3. Looked(Token) = IF Token.own THEN <<u>> \o Rest ELSE Rest
      BY DEF Looked
    <3> HIDE DEF u
    <3> QED
      BY <1>0, <3>1, <3>2, <3>3, InCall, Instead
  <2>1. call' = [call EXCEPT !.todo = Looked(Token), !.took = tells]
    BY <1>3 DEF Reads
  <2>2. tells \in {"own", "old"} /\ (r.old = FALSE => tells = call.took)
    BY <1>1 DEF Call
  <2> HIDE DEF tells, u
  <2>10. Looked(Token) \in Seq(Exchange)
    BY <1>1, <2>0
  <2>3. call' \in Call
    BY <1>1, <2>1, <2>2, <2>10, Zenon DEF Call
  <2>4. /\ call'.todo = Looked(Token) /\ call'.face = call.face /\ call'.op = call.op
        /\ call'.family = call.family /\ call'.obeyed = call.obeyed
        /\ call'.wanted = call.wanted /\ call'.took = tells /\ call'.blamed = call.blamed
    BY <1>1, <2>1 DEF Call
  <2>5. Carries
    BY <2>4 DEF Carries, Moved
  <2>6. Identified
    BY <1>3 DEF Identified, InStep, Met
  <2>7. Formed(call', wires'[Wire])
    <3>1. CASE Token.own = TRUE
      BY <1>0, <2>0, <2>4, <2>5, <3>1, AgainFormed
    <3>2. CASE Token.own = FALSE
      BY <1>0, <2>0, <2>4, <2>5, <2>6, <3>2, RestFormed
    <3> QED
      BY <2>0, <3>1, <3>2
  <2>8. ASSUME call.op # "safe", wires'[Wire].lagged = FALSE
        PROVE  call'.took = "own" /\ Accounted(call', errors'[Wire])
    <3>1. call.took = "own" /\ Accounted(call, errors[Wire])
      BY <1>1, <2>8 DEF Truthful, Moved
    <3>2. r.old = FALSE
      BY <2>8, AnswerIs DEF InStep, Fresh
    <3>3. \A what \in call'.wanted :
            \/ what \in call'.obeyed \/ Doomed(call'.todo) \/ Pending(call'.todo, what)
            \/ call'.todo # <<>> /\ call'.todo[1].do = "error?" /\ errors'[Wire] # <<>>
      <4>1. call'.todo = Rest \/ \E t \in Exchange : call'.todo = <<t>> \o Rest
        BY <2>0, <2>4
      <4>2. Token.do \notin Final
        BY DEF Final
      <4> QED
        BY <1>0, <2>4, <3>1, <4>1, <4>2, AccountedOn
    <3> QED
      BY <2>2, <2>4, <3>1, <3>2, <3>3 DEF Accounted
  <2>9. IF call'.todo = <<>> THEN Empty(links'[Wire].prepared, wires'[Wire], errors'[Wire])
        ELSE Ready(call', links'[Wire].prepared, wires'[Wire], errors'[Wire])
    <3>1. links'[Wire] = links[Wire]
      BY DEF Moved
    <3>2. CASE Token.own = TRUE
      <4>1. call'.todo # <<>> /\ call'.todo[1].do = "once"
        BY <2>0, <2>4, <3>2
      <4> QED
        BY <1>2, <2>4, <3>1, <4>1 DEF Ready, Expected
    <3>3. CASE Token.own = FALSE
      BY <1>2, <2>4, <2>10, <3>1, <3>3, QueueReady
    <3> QED
      BY <2>0, <3>2, <3>3
  <2> QED
    BY <1>0, <2>3, <2>4, <2>7, <2>8, <2>9, GoneOn
<1>4. CASE ~Understood(Token, r)
  <2>1. call' = [call EXCEPT !.todo = <<>>, !.end = Misread(Token, r), !.blamed = "nothing"]
    BY <1>4 DEF Reads
  <2>2. Misread(Token, r) \in {"fault", "transport"}
    BY DEF Misread
  <2>3. call' \in Call
    <3>1. Misread(Token, r) \in {"ok", "fault", "timeout", "transport"}
      BY <2>2
    <3> QED
      BY <1>1, <2>1, <3>1, NoExchanges, Zenon DEF Call
  <2>4. /\ call'.face = call.face /\ call'.op = call.op /\ call'.todo = <<>> /\ call'.took = call.took
        /\ call'.end # "ok" /\ call'.blamed = "nothing"
    BY <1>1, <2>1, <2>2 DEF Call
  <2>5. Empty(links'[Wire].prepared, wires'[Wire], errors'[Wire])
    <3> SUFFICES ASSUME Calm(wires'[Wire]), links[Wire].prepared # {} PROVE errors'[Wire] = <<>>
      BY DEF Empty, Moved
    <3>1. Fresh(r) /\ (Token.own = FALSE => errors'[Wire] = <<>>)
      BY <1>2
    <3>2. ASSUME Token.own = TRUE PROVE FALSE
      <4>1. r.kind = "number"
        BY <3>1, <3>2, AnswerIs DEF Fresh
      <4>2. Token.wants = "number"
        BY <1>1, <3>2, TokenIs
      <4> QED
        BY <1>4, <4>1, <4>2 DEF Understood
    <3> QED
      BY <1>1, <3>1, <3>2, TokenIs
  <2> QED
    BY <1>0, <2>3, <2>4, <2>5, Ended
<1> QED
  BY <1>3, <1>4

\* A look at the queue for the command: the next exchange, or the fault.
LEMMA LookedOn ==
  ASSUME SessionInv, Asking, Moved, NEW r \in Reply, InStep(r), Reads(Token, r),
         Token.do \in {"error?", "once"}
  PROVE  Onward
<1>0. Busy
  BY DEF Asking, Live
<1>1. /\ call \in Call /\ Token \in Exchange /\ Rest \in Seq(Exchange) /\ wires[Wire] \in AWire
      /\ errors[Wire] \in Seq({"own", "old"})
      /\ call.todo # <<>> /\ Formed(call, wires[Wire]) /\ Truthful(call, wires[Wire], errors[Wire])
  BY <1>0, InCall
<1>2. call.op # "safe" /\ Token.do \notin Final
  BY <1>0, NotOfSafing DEF Final
<1>3. ASSUME Calm(wires'[Wire])
      PROVE  /\ Fresh(r) /\ Calm(wires[Wire]) /\ Expected(Token, errors[Wire])
             /\ ~(Token.do = "once" /\ IsEntry(r))
  <2>1. Fresh(r)
    BY <1>3 DEF InStep, Calm
  <2> QED
    BY <1>2, <1>3, <2>1, CalmBefore DEF InStep
<1>4. CASE IsEntry(r)
  <2>1. Goes(FaultAfter(Token, r))
    BY <1>4 DEF Reads
  <2>2. ~Calm(wires'[Wire]) \/ Token.do = "error?"
    BY <1>3, <1>4
  <2>3. ASSUME Fault(Token, r).own = FALSE PROVE wires'[Wire].late > 0
    <3> SUFFICES ASSUME wires'[Wire].late = 0 PROVE FALSE
      BY WireIs DEF Moved
    <3>1. Fresh(r)
      BY DEF InStep
    <3>2. r.old = FALSE /\ errors[Wire] # <<>> /\ (r.own = TRUE <=> Head(errors[Wire]) = "own")
      BY <1>4, <3>1, AnswerIs DEF Fresh
    <3>3. ~(r.own = TRUE /\ r.old = FALSE) /\ wires[Wire].littered = FALSE
      BY <1>1, <2>3, FaultIs
    <3>4. Calm(wires[Wire])
      <4>1. wires[Wire].late = 0
        BY <1>1, WireIs DEF Moved
      <4>2. wires[Wire].dead = FALSE
        BY <1>1, WireIs DEF Asking, Live
      <4> QED
        BY <3>3, <4>1, <4>2 DEF Calm
    <3>5. Expected(Token, errors[Wire])
      BY <1>0, <1>2, <3>4, CalmQueue
    <3>6. Head(errors[Wire]) = errors[Wire][1] /\ 1 \in DOMAIN errors[Wire]
      BY <1>1, <3>2, RestIs
    <3> QED
      BY <3>2, <3>3, <3>5, <3>6 DEF Expected
  <2> QED
    BY <1>0, <2>1, <2>2, <2>3, FaultsOn
<1>5. CASE ~IsEntry(r)
  <2>1. Goes(Rest)
    BY <1>5 DEF Reads
  <2>2. /\ call' \in Call /\ call'.todo = Rest /\ call'.face = call.face /\ call'.op = call.op
        /\ call'.family = call.family /\ call'.obeyed = call.obeyed
        /\ call'.wanted = call.wanted /\ call'.took = call.took /\ call'.blamed = call.blamed
    BY <1>1, <2>1, GoesIs
  <2>3. Carries
    BY <2>2 DEF Carries, Moved
  <2>4. Formed(call', wires'[Wire])
    BY <1>0, <2>2, <2>3, RestFormed DEF Identified
  <2>5. Fresh(r) => errors[Wire] = <<>>
    BY <1>5, AnswerIs DEF Fresh
  <2>6. ASSUME wires'[Wire].lagged = FALSE
        PROVE  call'.took = "own" /\ Accounted(call', errors'[Wire])
    <3>1. call.took = "own" /\ Accounted(call, errors[Wire])
      BY <1>1, <1>2, <2>6 DEF Truthful, Moved
    <3>2. errors[Wire] = <<>>
      BY <2>5, <2>6 DEF InStep
    <3>3. \A what \in call'.wanted :
            \/ what \in call'.obeyed \/ Doomed(call'.todo) \/ Pending(call'.todo, what)
            \/ call'.todo # <<>> /\ call'.todo[1].do = "error?" /\ errors'[Wire] # <<>>
      BY <1>0, <1>2, <2>2, <3>1, <3>2, AccountedOn
    <3> QED
      BY <2>2, <3>1, <3>3 DEF Accounted
  <2>7. Calm(wires'[Wire]) => errors'[Wire] = <<>>
    BY <1>3, <2>5, AfterAskingIs DEF Fresh
  <2>8. IF call'.todo = <<>> THEN Empty(links'[Wire].prepared, wires'[Wire], errors'[Wire])
        ELSE Ready(call', links'[Wire].prepared, wires'[Wire], errors'[Wire])
    BY <1>1, <2>2, <2>7, QueueReady
  <2> QED
    BY <1>0, <2>2, <2>4, <2>6, <2>8, GoneOn
<1> QED
  BY <1>4, <1>5

\* The look at the queue that says why, and the meter's.
LEMMA WhyOn ==
  ASSUME SessionInv, Asking, Moved, NEW r \in Reply, Reads(Token, r), Token.do \in {"why", "again"}
  PROVE  Onward
<1>0. Busy /\ Token.do # "prepared" /\ Blaming(Token)
  BY DEF Asking, Live, Blaming
<1>1. wires'[Wire].late > 0
  BY <1>0, BlamedLate, StillLate
<1>2. CASE IsEntry(r)
  <2>1. Goes(FaultAfter(Token, r)) /\ ~Calm(wires'[Wire])
    BY <1>1, <1>2 DEF Reads, Calm
  <2> QED
    BY <1>0, <1>1, <2>1, FaultsOn
<1>3. CASE ~IsEntry(r)
  <2>1. LetTimeoutOut(Token) \/ Throws("timeout")
    BY <1>3 DEF Reads
  <2> QED
    BY <1>0, <1>1, <2>1, LetOutOn, ThrownOn
<1> QED
  BY <1>2, <1>3

LEMMA OneLessIs ==
  ASSUME NEW t \in Exchange, t.do = "drain", t.left > 1
  PROVE  /\ OneLess(t) \in Exchange /\ OneLess(t).do = "drain" /\ OneLess(t).left = t.left - 1
         /\ OneLess(t).late = t.late
<1>1. t \in [do : {"drain"}, what : Said, left : Nat \ {0}, late : Lates]
  BY DEF Exchange
<1>2. OneLess(t) \in [do : {"drain"}, what : Said, left : Nat \ {0}, late : Lates]
      /\ OneLess(t).left = t.left - 1 /\ OneLess(t).late = t.late
  BY <1>1 DEF OneLess
<1> QED
  BY <1>2 DEF Exchange

\* The queue is emptied.
LEMMA DrainedOn ==
  ASSUME SessionInv, Asking, Moved, NEW r \in Reply, InStep(r), Reads(Token, r), Token.do = "drain"
  PROVE  Onward
<1>0. Busy
  BY DEF Asking, Live
<1>1. /\ call \in Call /\ Token \in Exchange /\ Rest \in Seq(Exchange) /\ wires[Wire] \in AWire
      /\ errors[Wire] \in Seq({"own", "old"}) /\ call.todo \in Seq(Exchange) /\ Rest = Tail(call.todo)
      /\ call.todo # <<>> /\ Formed(call, wires[Wire]) /\ Truthful(call, wires[Wire], errors[Wire])
      /\ links'[Wire] = links[Wire]
  BY <1>0, InCall DEF Moved
<1>2. Token.left \in Nat /\ Token.left > 0 /\ Len(errors[Wire]) \in Nat
      /\ (errors[Wire] # <<>> => Len(errors[Wire]) > 0)
  BY <1>1, TokenIs, RestIs, LenProperties
<1>3. ASSUME Calm(wires'[Wire]), call.op # "safe" \/ links[Wire].prepared # {}
      PROVE  IF IsEntry(r) THEN Len(errors'[Wire]) <= Token.left - 1 ELSE errors'[Wire] = <<>>
  <2>1. Fresh(r)
    BY <1>3 DEF InStep, Calm
  <2>2. IsEntry(r) <=> errors[Wire] # <<>>
    BY <2>1, AnswerIs DEF Fresh
  <2>3. CASE IsEntry(r)
    <3>1. Expected(Token, errors[Wire])
      BY <1>3, <2>1, <2>3, CalmBefore DEF InStep
    <3>2. Len(errors[Wire]) <= Token.left
      BY <3>1 DEF Expected
    <3>3. Len(errors'[Wire]) = Len(errors[Wire]) - 1
      BY <2>1, <2>2, <2>3, AfterAskingIs DEF Fresh
    <3> QED
      BY <1>2, <2>3, <3>2, <3>3
  <2>4. CASE ~IsEntry(r)
    BY <2>1, <2>2, <2>4, AfterAskingIs DEF Fresh
  <2> QED
    BY <2>3, <2>4
<1>4. CASE IsEntry(r) /\ Token.left > 1
  <2> DEFINE t == OneLess(Token)
             s == <<t>> \o Rest
  <2>1. t \in Exchange /\ t.do = "drain" /\ t.left = Token.left - 1 /\ t.late = Token.late
    BY <1>1, <1>4, OneLessIs
  <2>2. Goes(s)
    BY <1>4 DEF Reads
  <2> HIDE DEF t
  <2>3. s \in Seq(Exchange) /\ s # <<>> /\ s[1] = t
    BY <1>1, <2>1, Instead
  <2>4. /\ call' \in Call /\ call'.todo = s /\ call'.face = call.face /\ call'.op = call.op
        /\ call'.family = call.family /\ call'.obeyed = call.obeyed
        /\ call'.wanted = call.wanted /\ call'.took = call.took /\ call'.blamed = call.blamed
    BY <1>1, <2>2, <2>3, GoesIs
  <2>5. Carries
    BY <2>4 DEF Carries, Moved
  <2>6. Formed(call', wires'[Wire])
    BY <1>0, <2>1, <2>4, <2>5, AgainFormed
  <2>7. ASSUME call.op # "safe", wires'[Wire].lagged = FALSE
        PROVE  call'.took = "own" /\ Accounted(call', errors'[Wire])
    <3>1. call.took = "own" /\ Accounted(call, errors[Wire])
      BY <1>1, <2>7 DEF Truthful, Moved
    <3>2. \A what \in call'.wanted :
            \/ what \in call'.obeyed \/ Doomed(s) \/ Pending(s, what)
            \/ s # <<>> /\ s[1].do = "error?" /\ errors'[Wire] # <<>>
      <4>1. Token.do \notin Final
        BY DEF Final
      <4> QED
        BY <1>0, <2>1, <2>4, <3>1, <4>1, AccountedOn
    <3> QED
      BY <2>4, <3>1, <3>2 DEF Accounted
  <2>8. Ready(call', links'[Wire].prepared, wires'[Wire], errors'[Wire])
    <3> SUFFICES ASSUME Calm(wires'[Wire]), call.op # "safe" \/ links[Wire].prepared # {}
                 PROVE  Expected(t, errors'[Wire])
      BY <1>1, <2>3, <2>4 DEF Ready
    <3> QED
      BY <1>3, <1>4, <2>1 DEF Expected
  <2> HIDE DEF s
  <2> QED
    BY <1>0, <2>3, <2>4, <2>6, <2>7, <2>8, GoneOn
<1>5. CASE ~(IsEntry(r) /\ Token.left > 1)
  <2>1. Goes(Rest)
    BY <1>5 DEF Reads
  <2>2. /\ call' \in Call /\ call'.todo = Rest /\ call'.face = call.face /\ call'.op = call.op
        /\ call'.family = call.family /\ call'.obeyed = call.obeyed
        /\ call'.wanted = call.wanted /\ call'.took = call.took /\ call'.blamed = call.blamed
    BY <1>1, <2>1, GoesIs
  <2>3. Carries
    BY <2>2 DEF Carries, Moved
  <2>4. Formed(call', wires'[Wire])
    BY <1>0, <2>2, <2>3, RestFormed DEF Identified
  <2>5. ASSUME call.op # "safe", wires'[Wire].lagged = FALSE
        PROVE  call'.took = "own" /\ Accounted(call', errors'[Wire])
    <3>1. call.took = "own" /\ Accounted(call, errors[Wire])
      BY <1>1, <2>5 DEF Truthful, Moved
    <3>2. \A what \in call'.wanted :
            \/ what \in call'.obeyed \/ Doomed(call'.todo) \/ Pending(call'.todo, what)
            \/ call'.todo # <<>> /\ call'.todo[1].do = "error?" /\ errors'[Wire] # <<>>
      <4>1. Token.do \notin Final
        BY DEF Final
      <4> QED
        BY <1>0, <2>2, <3>1, <4>1, AccountedOn
    <3> QED
      BY <2>2, <3>1, <3>2 DEF Accounted
  <2>6. ASSUME Calm(wires'[Wire]), call'.op # "safe" \/ links'[Wire].prepared # {}
        PROVE  errors'[Wire] = <<>>
    <3>1. CASE IsEntry(r)
      <4>1. Len(errors'[Wire]) <= Token.left - 1 /\ Token.left = 1
        BY <1>1, <1>2, <1>3, <1>5, <2>2, <2>6, <3>1
      <4>2. errors'[Wire] \in Seq({"own", "old"})
        BY DEF Moved
      <4> QED
        BY <4>1, <4>2, LenProperties, EmptySeq
    <3>2. CASE ~IsEntry(r)
      BY <1>1, <1>3, <2>2, <2>6, <3>2
    <3> QED
      BY <3>1, <3>2
  <2>7. IF call'.todo = <<>> THEN Empty(links'[Wire].prepared, wires'[Wire], errors'[Wire])
        ELSE Ready(call', links'[Wire].prepared, wires'[Wire], errors'[Wire])
    BY <1>1, <2>2, <2>6, QueueReady
  <2> QED
    BY <1>0, <2>2, <2>4, <2>5, <2>7, GoneOn
<1> QED
  BY <1>4, <1>5

LEMMA ReadsOn ==
  ASSUME SessionInv, Asking, Moved, NEW r \in Reply, InStep(r), Reads(Token, r)
  PROVE  Onward
BY AskedOn, LookedOn, WhyOn, DrainedOn DEF Asking

LEMMA AskedOfLive ==
  ASSUME SessionInv, Asking
  PROVE  /\ Busy /\ wires[Wire] \in AWire /\ wires[Wire].dead = FALSE /\ Unread(wires[Wire])
         /\ wires[Wire].stream \in Seq(Reply) /\ Len(wires[Wire].stream) <= MaxLate
         /\ wires[Wire].late \in Nat /\ wires[Wire].late <= MaxLate
         /\ wires[Wire].littered \in BOOLEAN /\ wires[Wire].lagged \in BOOLEAN
         /\ call \in Call /\ call.family \in Families \cup {"none"}
         /\ errors[Wire] \in Seq({"own", "old"}) /\ Len(errors[Wire]) <= MaxRefused
<1>0. Busy
  BY DEF Asking, Live
<1>1. /\ wires[Wire] \in AWire /\ Unread(wires[Wire]) /\ Len(wires[Wire].stream) <= MaxLate /\ call \in Call
      /\ errors[Wire] \in Seq({"own", "old"}) /\ Len(errors[Wire]) <= MaxRefused
  BY <1>0, InCall
<1>2. call.family \in Families \cup {"none"}
  BY <1>1 DEF Call
<1> QED
  BY <1>0, <1>1, <1>2, WireIs DEF Asking, Live

LEMMA MetIs ==
  ASSUME SessionInv, Asking, NEW r
  PROVE  /\ Met(Token, r) \subseteq Families \cup {"none"}
         /\ wires[Wire].met \subseteq Met(Token, r)
BY AskedOfLive, WireIs DEF Met

LEMMA AnswerOn ==
  ASSUME SessionInv, Answer, UNCHANGED box
  PROVE  Elsewhere /\ Onward
<1>0. Asking /\ Busy
  BY DEF Answer, Asking, Live
<1>1. /\ wires[Wire] \in AWire /\ wires[Wire].dead = FALSE /\ Unread(wires[Wire])
      /\ wires[Wire].stream \in Seq(Reply) /\ Len(wires[Wire].stream) <= MaxLate
      /\ wires[Wire].late \in Nat /\ wires[Wire].littered \in BOOLEAN
  BY <1>0, AskedOfLive
<1>2. PICK a \in Answers(Token), q \in AfterAsking(Token) :
        LET s == Aged(wires[Wire].stream) \o <<a>> IN
        /\ Reads(Token, NextLine(s))
        /\ wires' = [wires EXCEPT ![Wire].stream = Tail(s),
             ![Wire].met = Met(Token, NextLine(s)),
             ![Wire].littered = (@ /\ ~(Token.do = "drain" /\ ~IsEntry(a)))
                                \/ Litters(Token, a, q)]
        /\ errors' = [errors EXCEPT ![Wire] = q]
  BY DEF Answer
<1> DEFINE s == Aged(wires[Wire].stream) \o <<a>>
           r == NextLine(s)
           littered == (wires[Wire].littered /\ ~(Token.do = "drain" /\ ~IsEntry(a)))
                       \/ Litters(Token, a, q)
           w == [wires[Wire] EXCEPT !.stream = Tail(s), !.met = Met(Token, r), !.littered = littered]
<1>3. a \in Reply
  BY <1>0, AnswerIs
<1>4. /\ r \in Reply /\ Tail(s) \in Seq(Reply) /\ Len(Tail(s)) = Len(wires[Wire].stream)
      /\ wires[Wire].stream = <<>> => r = a /\ Tail(s) = <<>>
  BY <1>1, <1>3, LineIs
<1>5. Met(Token, r) \in SUBSET (Families \cup {"none"}) /\ wires[Wire].met \subseteq Met(Token, r)
  BY <1>0, MetIs
<1>6. littered \in BOOLEAN
  BY Zenon
<1>7. wires' = [wires EXCEPT ![Wire] = w] /\ Reads(Token, r)
  BY <1>2, Zenon
<1>8. errors' = [errors EXCEPT ![Wire] = q] /\ UNCHANGED <<boxVars, right, box>>
  BY <1>2 DEF Answer
<1>9. q \in Seq({"own", "old"}) /\ Len(q) <= MaxRefused
  BY <1>0, AfterAskingIs
<1> DEFINE line == Tail(s)
           met == Met(Token, r)
<1>10. line = <<>> => wires[Wire].stream = <<>>
  BY <1>1, <1>4, LenProperties, EmptySeq
<1>11. w = [wires[Wire] EXCEPT !.stream = line, !.met = met, !.littered = littered]
  BY Zenon
<1>12. line \in Seq(Reply) /\ Len(line) = Len(wires[Wire].stream) /\ met \in SUBSET (Families \cup {"none"})
       /\ wires[Wire].met \subseteq met /\ (wires[Wire].stream = <<>> => line = <<>>)
  BY <1>4, <1>5
<1> HIDE DEF w, littered, line, met
<1>13. w \in AWire
  BY <1>1, <1>6, <1>11, <1>12, Zenon DEF AWire
<1>14. /\ w.stream = line /\ w.late = wires[Wire].late /\ w.lagged = wires[Wire].lagged
       /\ w.met = met /\ w.dead = wires[Wire].dead /\ w.littered = littered
  BY <1>1, <1>11 DEF AWire
<1> HIDE DEF s, r
<1>15. Elsewhere /\ wires'[Wire] = w /\ errors'[Wire] = q /\ links'[Wire] = links[Wire]
  BY <1>0, <1>7, <1>8, <1>9, <1>13, OneWire
<1>16. Moved
  <2>1. Unread(w)
    BY <1>1, <1>12, <1>14 DEF Unread
  <2> QED
    BY <1>1, <1>9, <1>12, <1>13, <1>14, <1>15, <2>1 DEF Moved
<1>17. InStep(r)
  <2>1. ASSUME w.lagged = FALSE \/ w.late = 0 PROVE wires[Wire].stream = <<>>
    BY <1>1, <1>14, <2>1 DEF Unread
  <2>2. ASSUME wires[Wire].stream = <<>> PROVE Fresh(r)
    <3>1. r = a
      BY <1>4, <2>2
    <3> QED
      BY <1>14, <1>15, <3>1, Zenon DEF Fresh, littered
  <2> QED
    BY <1>14, <1>15, <2>1, <2>2 DEF InStep, met
<1>18. Onward
  BY <1>0, <1>4, <1>7, <1>16, <1>17, ReadsOn
<1> QED
  BY <1>15, <1>18

LEMMA IgnoredOn ==
  ASSUME SessionInv, NEW queue \in Seq({"own", "old"}), Len(queue) <= MaxRefused, Ignored(queue), UNCHANGED box
  PROVE  Elsewhere /\ Onward
<1>0. Asking /\ Busy
  BY DEF Ignored, Asking, Live
<1>1. /\ wires[Wire] \in AWire /\ wires[Wire].dead = FALSE /\ Unread(wires[Wire])
      /\ wires[Wire].stream \in Seq(Reply) /\ Len(wires[Wire].stream) <= MaxLate
      /\ wires[Wire].late \in Nat /\ wires[Wire].littered \in BOOLEAN
  BY <1>0, AskedOfLive
<1>2. wires[Wire].late < MaxLate /\ MaxLate \in Nat
  BY ScpiAssumption DEF Ignored
<1> DEFINE s == Aged(wires[Wire].stream)
           late == wires[Wire].late + 1
<1>3. errors' = [errors EXCEPT ![Wire] = queue] /\ UNCHANGED <<boxVars, right, box>>
  BY DEF Ignored
<1>4. late \in 0..MaxLate /\ late > 0 /\ wires[Wire].late <= late /\ late \in Nat
  BY <1>1, <1>2
<1>5. s \in Seq(Reply) /\ Len(s) = Len(wires[Wire].stream) /\ (wires[Wire].stream = <<>> <=> s = <<>>)
  BY <1>1, AgedIs
<1>6. CASE s = <<>>
  <2> DEFINE w == [wires[Wire] EXCEPT !.late = late]
  <2>1. wires' = [wires EXCEPT ![Wire] = w]
    BY <1>6 DEF Ignored
  <2>2. RanOut(Token)
    BY <1>6 DEF Ignored
  <2> HIDE DEF late
  <2>3. /\ w \in AWire /\ w.stream = wires[Wire].stream /\ w.late = late
        /\ w.lagged = wires[Wire].lagged /\ w.met = wires[Wire].met /\ w.dead = wires[Wire].dead
    BY <1>1, <1>4 DEF AWire
  <2> HIDE DEF w, s
  <2>4. Elsewhere /\ wires'[Wire] = w /\ errors'[Wire] = queue /\ links'[Wire] = links[Wire]
    BY <1>0, <1>3, <2>1, <2>3, OneWire
  <2>5. Moved
    <3>1. Unread(w)
      BY <1>1, <1>4, <2>3 DEF Unread
    <3> QED
      BY <1>1, <1>4, <2>3, <2>4, <3>1 DEF Moved
  <2>6. Onward
    BY <1>0, <1>4, <2>2, <2>3, <2>4, <2>5, RanOutOn
  <2> QED
    BY <2>4, <2>6
<1>7. CASE s # <<>>
  <2> DEFINE r == NextLine(s)
             line == Tail(s)
             met == Met(Token, r)
             w == [wires[Wire] EXCEPT !.late = late, !.stream = line, !.met = met]
  <2>1. wires' = [wires EXCEPT ![Wire] = w] /\ Reads(Token, r)
    <3>1. /\ wires' = [wires EXCEPT ![Wire].late = @ + 1, ![Wire].stream = Tail(s), ![Wire].met = met]
          /\ Reads(Token, r)
      BY <1>7 DEF Ignored
    <3> QED
      BY <3>1, Zenon
  <2>2. r \in Reply /\ line \in Seq(Reply) /\ Len(line) = Len(s) - 1 /\ Len(s) \in Nat
    BY <1>5, <1>7, RestIs, LenProperties DEF NextLine
  <2>3. met \in SUBSET (Families \cup {"none"}) /\ wires[Wire].met \subseteq met
    BY <1>0, MetIs
  <2> HIDE DEF late, line
  <2>4. w = [wires[Wire] EXCEPT !.late = late, !.stream = line, !.met = met]
    BY Zenon
  <2> HIDE DEF w, met
  <2>5. w \in AWire
    BY <1>1, <1>4, <2>2, <2>3, <2>4, Zenon DEF AWire
  <2>6. /\ w.stream = line /\ w.late = late /\ w.lagged = wires[Wire].lagged
        /\ w.met = met /\ w.dead = wires[Wire].dead /\ wires[Wire].lagged = TRUE
    BY <1>1, <1>5, <1>7, <2>4 DEF AWire, Unread
  <2> HIDE DEF s, r
  <2>7. Elsewhere /\ wires'[Wire] = w /\ errors'[Wire] = queue /\ links'[Wire] = links[Wire]
    BY <1>0, <1>3, <2>1, <2>5, OneWire
  <2>8. Moved
    <3>1. Unread(w) /\ Len(line) <= MaxLate
      BY <1>1, <1>2, <1>4, <1>5, <2>2, <2>6 DEF Unread
    <3> QED
      BY <1>1, <1>4, <2>3, <2>5, <2>6, <2>7, <3>1 DEF Moved
  <2>9. InStep(r)
    BY <1>4, <2>6, <2>7 DEF InStep, met
  <2>10. Onward
    BY <1>0, <2>1, <2>2, <2>8, <2>9, ReadsOn
  <2> QED
    BY <2>7, <2>10
<1> QED
  BY <1>6, <1>7

LEMMA SilenceOn ==
  ASSUME SessionInv, Silence, UNCHANGED box
  PROVE  Elsewhere /\ Onward
<1>1. Asking /\ Ignored(errors[Wire])
  BY DEF Silence, Ignored
<1>2. errors[Wire] \in Seq({"own", "old"}) /\ Len(errors[Wire]) <= MaxRefused
  BY <1>1, AskedOfLive
<1> QED
  BY <1>1, <1>2, IgnoredOn

LEMMA RefuseQuestionOn ==
  ASSUME SessionInv, RefuseQuestion, UNCHANGED box
  PROVE  Elsewhere /\ Onward
<1>1. PICK r \in Refusals : Asking /\ CanQueue(r) /\ Ignored(Stale(errors[Wire]) \o r)
  BY DEF RefuseQuestion
<1>2. errors[Wire] \in Seq({"own", "old"}) /\ Len(errors[Wire]) <= MaxRefused
  BY <1>1, AskedOfLive
<1> DEFINE p == Stale(errors[Wire])
<1>3. p \in Seq({"own", "old"}) /\ Len(p) = Len(errors[Wire])
  BY <1>2, StaleIs
<1> HIDE DEF p
<1>4. p \o r \in Seq({"own", "old"}) /\ Len(p \o r) = Len(p) + Len(r)
  BY <1>3, RefusalIs, ConcatProperties
<1>5. Len(p \o r) <= MaxRefused
  BY <1>1, <1>3, <1>4 DEF CanQueue
<1>6. Ignored(p \o r)
  BY <1>1 DEF p
<1> QED
  BY <1>4, <1>5, <1>6, IgnoredOn

LEMMA AnswerLateOn ==
  ASSUME SessionInv, AnswerLate, UNCHANGED box
  PROVE  Elsewhere /\ Onward
<1>0. Asking /\ Busy
  BY DEF AnswerLate, Asking, Live
<1>1. /\ wires[Wire] \in AWire /\ wires[Wire].dead = FALSE /\ Unread(wires[Wire])
      /\ wires[Wire].late \in Nat /\ wires[Wire].littered \in BOOLEAN
  BY <1>0, AskedOfLive
<1>2. wires[Wire].late < MaxLate /\ MaxLate \in Nat
  BY ScpiAssumption DEF AnswerLate
<1>3. PICK a \in Answers(Token) :
        wires' = [wires EXCEPT ![Wire].late = @ + 1, ![Wire].lagged = TRUE, ![Wire].stream = <<a>>]
  BY DEF AnswerLate
<1> DEFINE late == wires[Wire].late + 1
           line == <<a>>
           w == [wires[Wire] EXCEPT !.late = late, !.lagged = TRUE, !.stream = line]
<1>4. wires' = [wires EXCEPT ![Wire] = w]
  BY <1>3, Zenon
<1>12. PICK q \in AfterAsking(Token) : errors' = [errors EXCEPT ![Wire] = q]
  BY DEF AnswerLate
<1>5. UNCHANGED <<boxVars, right, box>> /\ RanOut(Token)
  BY DEF AnswerLate
<1>6. late \in 0..MaxLate /\ late > 0 /\ wires[Wire].late <= late
  BY <1>1, <1>2
<1>7. line \in Seq(Reply) /\ Len(line) <= MaxLate
  <2>1. a \in Reply
    BY <1>0, AnswerIs
  <2>2. line \in Seq(Reply) /\ Len(line) = 1
    BY <2>1
  <2> QED
    BY <1>1, <1>2, <2>2
<1>8. q \in Seq({"own", "old"}) /\ Len(q) <= MaxRefused
  BY <1>0, AfterAskingIs
<1> HIDE DEF late, line
<1>9. w = [wires[Wire] EXCEPT !.late = late, !.lagged = TRUE, !.stream = line]
  BY Zenon
<1> HIDE DEF w
<1>10. w \in AWire
  BY <1>1, <1>6, <1>7, <1>9, Zenon DEF AWire
<1>11. /\ w.stream = line /\ w.late = late /\ w.lagged = TRUE
       /\ w.met = wires[Wire].met /\ w.dead = wires[Wire].dead
  BY <1>1, <1>9 DEF AWire
<1>15. Elsewhere /\ wires'[Wire] = w /\ errors'[Wire] = q /\ links'[Wire] = links[Wire]
  BY <1>0, <1>4, <1>5, <1>8, <1>10, <1>12, OneWire
<1>13. Moved
  <2>1. Unread(w)
    BY <1>6, <1>11 DEF Unread
  <2> QED
    BY <1>6, <1>7, <1>8, <1>10, <1>11, <1>15, <2>1 DEF Moved
<1>14. Onward
  BY <1>0, <1>5, <1>6, <1>11, <1>13, <1>15, RanOutOn
<1> QED
  BY <1>14, <1>15

\* Any exchange.
LEMMA ExchangesKeep ==
  ASSUME SessionInv, Exchanges \/ Complain, UNCHANGED box
  PROVE  SessionInv'
<1>1. Busy
  BY DEF Exchanges, Obey, Refuse, Break, Answer, AnswerLate, Silence, RefuseQuestion, Ignored, Raise,
         FinishPreparing, Complain, Asking, Live
<1>2. Elsewhere /\ Onward
  BY ObeyOn, RefuseOn, BreakOn, AnswerOn, AnswerLateOn, SilenceOn, RefuseQuestionOn, RaiseOn,
     FinishPreparingOn, ComplainOn DEF Exchanges
<1> QED
  BY <1>1, <1>2, Exchanged

----------------------------------------------------------------------------
(* Between calls.                                                          *)

\* A wire that no call is using.
AtRest(k) ==
  /\ Marked(k) /\ Unread(wires[k])
  /\ links[k].session = TRUE => Empty(links[k].prepared, wires[k], errors[k])

LEMMA RestIsAtRest ==
  ASSUME SessionInv, ~Busy, NEW k \in Keys
  PROVE  AtRest(k)
BY DEF SessionInv, AtRest

LEMMA KeysAre ==
  ASSUME SessionInv, NEW f \in Faces
  PROVE  /\ KeyOf(f) \in Keys /\ LinkOf(f) = KeyOf(f) /\ HeldLink(f) \in {NoLink, KeyOf(f)}
         /\ NoLink \notin Keys
         /\ mLink \in [Faces -> Keys \cup {NoLink}] /\ links \in [Keys -> BoxLink]
         /\ mAddress \in [Faces -> Addresses \cup {Simulated}]
         /\ wires \in [Keys -> AWire] /\ errors \in [Keys -> Seq({"own", "old"})]
<1>1. /\ mLink \in [Faces -> Keys \cup {NoLink}] /\ mAddress \in [Faces -> Addresses \cup {Simulated}]
      /\ links \in [Keys -> BoxLink]
      /\ wires \in [Keys -> AWire] /\ errors \in [Keys -> Seq({"own", "old"})]
  BY DEF SessionInv, WireTyped, BoxTypeOK
<1>2. mLink[f] \in {NoLink, KeyOf(f)}
  BY DEF SessionInv, LinksInOrder
<1>3. KeyOf(f) \in Keys
  BY <1>1 DEF KeyOf, Keys
<1>4. LinkOf(f) = KeyOf(f)
  BY <1>2 DEF LinkOf
<1>5. HeldLink(f) \in {NoLink, KeyOf(f)}
  BY <1>2 DEF HeldLink, KeyOf
<1>6. NoLink \notin Keys
  BY BoxAssumption DEF Keys
<1> QED
  BY <1>1, <1>3, <1>4, <1>5, <1>6

\* A face takes the link to its address, or keeps the one that is held.
LEMMA Taken ==
  ASSUME SessionInv, NEW f \in Faces, NEW key \in {NoLink, KeyOf(f)},
         mLink' = [mLink EXCEPT ![f] = key], mAddress' = mAddress
  PROVE  mLink' \in [Faces -> Keys \cup {NoLink}] /\ \A g \in Faces : mLink'[g] \in {NoLink, KeyOf(g)'}
<1>1. /\ KeyOf(f) \in Keys /\ mLink \in [Faces -> Keys \cup {NoLink}]
  BY KeysAre
<1>2. \A g \in Faces : KeyOf(g)' = KeyOf(g)
  BY DEF KeyOf
<1>3. \A g \in Faces : mLink[g] \in {NoLink, KeyOf(g)}
  BY DEF SessionInv, LinksInOrder
<1> QED
  BY <1>1, <1>2, <1>3

\* The links after a step, each with its wire.
LinksFollow ==
  /\ mLink' \in [Faces -> Keys \cup {NoLink}] /\ \A g \in Faces : mLink'[g] \in {NoLink, KeyOf(g)'}
  /\ mAddress' \in [Faces -> Addresses \cup {Simulated}]
  /\ links' \in [Keys -> BoxLink] /\ wires' \in [Keys -> AWire]
  /\ UNCHANGED <<errors, right, box>>
  /\ \A k \in Keys :
       /\ ~(links'[k].session = TRUE /\ links'[k].native # NoNative)
       /\ wires'[k] = wires[k] \/ wires'[k] = NewWire
       /\ \/ links'[k] = links[k] /\ wires'[k] = wires[k]
          \/ links'[k].prepared = {}

LEMMA NewWireIs ==
  /\ NewWire \in AWire /\ NewWire.stream = <<>> /\ NewWire.late = 0 /\ NewWire.dead = FALSE
  /\ NewWire.lagged = FALSE /\ NewWire.littered = FALSE /\ NewWire.met = {}
  /\ Unread(NewWire)
<1>1. <<>> \in Seq(Reply) /\ 0 \in 0..MaxLate
  BY ScpiAssumption
<1>2. NewWire \in AWire
  BY <1>1 DEF NewWire, AWire
<1> QED
  BY <1>2 DEF NewWire, Unread

LEMMA LinksFollowed ==
  ASSUME SessionInv, ~Busy, LinksFollow, call' \in Call
  PROVE  WireTyped' /\ LinksInOrder' /\ \A k \in Keys : AtRest(k)'
<1>1. /\ WireTyped /\ \A k \in Keys : AtRest(k)
  BY RestIsAtRest DEF SessionInv
<1>2. ASSUME NEW k \in Keys
      PROVE  AtRest(k)' /\ Len(wires'[k].stream) <= MaxLate
  <2>1. AtRest(k) /\ Len(wires[k].stream) <= MaxLate /\ wires[k] \in AWire
    BY <1>1 DEF WireTyped
  <2>2. Unread(wires'[k]) /\ Len(wires'[k].stream) <= MaxLate
    <3>1. Len(<<>>) = 0 /\ 0 <= MaxLate
      BY ScpiAssumption
    <3>2. wires'[k] = wires[k] \/ wires'[k] = NewWire
      BY DEF LinksFollow
    <3> QED
      BY <2>1, <3>1, <3>2, NewWireIs DEF AtRest
  <2>3. CASE links'[k] = links[k] /\ wires'[k] = wires[k]
    <3>1. errors'[k] = errors[k]
      BY DEF LinksFollow
    <3> QED
      BY <2>1, <2>2, <2>3, <3>1 DEF AtRest, Marked
  <2>4. CASE links'[k].prepared = {}
    <3>1. Empty({}, wires'[k], errors'[k])
      BY DEF Empty
    <3> QED
      BY <2>2, <2>4, <3>1 DEF AtRest, Marked
  <2> QED
    BY <2>2, <2>3, <2>4 DEF LinksFollow
<1>3. BoxTypeOK'
  BY DEF LinksFollow, BoxTypeOK, Keys
<1>4. WireTyped'
  BY <1>1, <1>2, <1>3 DEF WireTyped, LinksFollow, Keys
<1>5. LinksInOrder'
  <2>1. \A k \in Keys : ~(links'[k].session /\ links'[k].native # NoNative)
    BY DEF LinksFollow, BoxLink
  <2> QED
    BY <2>1 DEF LinksInOrder, LinksFollow, Keys
<1> QED
  BY <1>2, <1>4, <1>5

\* No call is under way after the step.
LEMMA Settled ==
  ASSUME SessionInv, ~Busy, LinksFollow, call' \in Call, call'.todo = <<>>, call'.blamed = "own",
         call'.took = "own", call'.wanted = {}, call'.op = "none"
  PROVE  SessionInv'
<1>1. WireTyped' /\ LinksInOrder' /\ \A k \in Keys : AtRest(k)'
  BY LinksFollowed
<1>2. ~Busy'
  BY DEF Busy
<1>3. Formed(call', wires'[Wire'])
  BY OverFormed
<1>4. Truthful(call', wires'[Wire'], errors'[Wire'])
  BY DEF Truthful, Accounted
<1> QED
  BY <1>1, <1>2, <1>3, <1>4 DEF SessionInv, AtRest, Keys

LEMMA NoCallIs ==
  /\ NoCall \in Call /\ NoCall.todo = <<>> /\ NoCall.blamed = "own" /\ NoCall.took = "own"
  /\ NoCall.wanted = {} /\ NoCall.obeyed = {} /\ NoCall.op = "none" /\ NoCall.end = "ok"
  /\ NoCall.family = "none"
BY NoExchanges DEF NoCall, Call, Names

LEMMA VainKeeps ==
  ASSUME SessionInv, NEW f \in Faces, OperateInVain(f)
  PROVE  SessionInv'
<1>0. ~Busy /\ UNCHANGED <<box, wires, errors, right>>
  BY DEF OperateInVain, Idle
<1>1. /\ KeyOf(f) \in Keys /\ LinkOf(f) = KeyOf(f)
      /\ mLink \in [Faces -> Keys \cup {NoLink}] /\ links \in [Keys -> BoxLink]
      /\ mAddress \in [Faces -> Addresses \cup {Simulated}] /\ wires \in [Keys -> AWire]
  BY KeysAre
<1>2. mLink' = [mLink EXCEPT ![f] = KeyOf(f)] /\ mAddress' = mAddress /\ links' = links
  BY <1>1 DEF OperateInVain, SessionFails, SessionRefused, Hold
<1>3. \A k \in Keys : ~(links[k].session = TRUE /\ links[k].native # NoNative)
  BY DEF SessionInv, LinksInOrder
<1>4. mLink' \in [Faces -> Keys \cup {NoLink}] /\ \A g \in Faces : mLink'[g] \in {NoLink, KeyOf(g)'}
  BY <1>2, Taken
<1>5. LinksFollow
  BY <1>0, <1>1, <1>2, <1>3, <1>4 DEF LinksFollow
<1>6. call' = [NoCall EXCEPT !.face = f, !.end = "transport"]
  BY DEF OperateInVain
<1>7. call' \in Call
  BY <1>6, NoCallIs DEF Call
<1>8. /\ call'.todo = <<>> /\ call'.blamed = "own" /\ call'.took = "own" /\ call'.wanted = {}
      /\ call'.op = "none"
  BY <1>6, NoCallIs DEF NoCall
<1> QED
  BY <1>0, <1>5, <1>7, <1>8, Settled

LEMMA ReaddressKeeps ==
  ASSUME SessionInv, NEW f \in Faces, Readdress(f)
  PROVE  SessionInv'
<1>1. PICK a \in Addresses \cup {Simulated} : Apart /\ UseAddress(f, a) /\ UNCHANGED wires
  BY DEF Readdress
<1>2. ~Busy /\ UNCHANGED <<box, wires, errors, right>> /\ call' = NoCall
  BY <1>1 DEF Apart, Idle
<1>3. /\ mLink \in [Faces -> Keys \cup {NoLink}] /\ links \in [Keys -> BoxLink]
      /\ mAddress \in [Faces -> Addresses \cup {Simulated}] /\ wires \in [Keys -> AWire]
  BY KeysAre
<1>4. /\ mAddress' = [mAddress EXCEPT ![f] = a] /\ mLink' = [mLink EXCEPT ![f] = NoLink]
      /\ links' = [k \in Keys |-> IF Registered(k) /\ \A g \in Faces : mLink'[g] # k
                                  THEN EmptyLink ELSE links[k]]
  BY <1>1 DEF UseAddress, Released
<1>5. mAddress' \in [Faces -> Addresses \cup {Simulated}] /\ mLink' \in [Faces -> Keys \cup {NoLink}]
  BY <1>3, <1>4
<1>6. \A g \in Faces : mLink'[g] \in {NoLink, KeyOf(g)'}
  <2> SUFFICES ASSUME NEW g \in Faces PROVE mLink'[g] \in {NoLink, KeyOf(g)'}
    OBVIOUS
  <2>1. CASE g = f
    BY <1>3, <1>4, <2>1
  <2>2. CASE g # f
    <3>1. mLink'[g] = mLink[g] /\ mAddress'[g] = mAddress[g]
      BY <1>3, <1>4, <2>2
    <3>2. mLink[g] \in {NoLink, KeyOf(g)}
      BY DEF SessionInv, LinksInOrder
    <3> QED
      BY <3>1, <3>2 DEF KeyOf
  <2> QED
    BY <2>1, <2>2
<1>7. EmptyLink \in BoxLink /\ EmptyLink.prepared = {} /\ EmptyLink.session = FALSE
  BY DEF EmptyLink, BoxLink
<1>8. \A k \in Keys : links'[k] = links[k] \/ links'[k] = EmptyLink
  BY <1>4
<1>9. links' \in [Keys -> BoxLink]
  BY <1>3, <1>4, <1>7
<1>10. \A k \in Keys : ~(links[k].session = TRUE /\ links[k].native # NoNative)
  BY DEF SessionInv, LinksInOrder
<1>11. \A k \in Keys : /\ ~(links'[k].session = TRUE /\ links'[k].native # NoNative)
                       /\ links'[k] = links[k] \/ links'[k].prepared = {}
  BY <1>7, <1>8, <1>10
<1>12. LinksFollow
  BY <1>2, <1>3, <1>5, <1>6, <1>9, <1>11 DEF LinksFollow
<1> QED
  BY <1>2, <1>12, NoCallIs, Settled

\* A link is emptied, replaced or made native: nobody has prepared what is there now.
LEMMA ChangedLink ==
  ASSUME SessionInv, ~Busy, NEW f \in Faces, NEW key \in {NoLink, KeyOf(f)},
         mLink' = [mLink EXCEPT ![f] = key], UNCHANGED <<mAddress, errors, right, box>>,
         NEW l \in BoxLink, l.prepared = {}, ~(l.session = TRUE /\ l.native # NoNative),
         links' = links \/ links' = [links EXCEPT ![KeyOf(f)] = l],
         \/ wires' = wires
         \/ wires' = [wires EXCEPT ![KeyOf(f)] = NewWire] /\ links' = [links EXCEPT ![KeyOf(f)] = l]
  PROVE  LinksFollow
<1>1. /\ KeyOf(f) \in Keys /\ links \in [Keys -> BoxLink] /\ wires \in [Keys -> AWire]
      /\ mAddress \in [Faces -> Addresses \cup {Simulated}]
  BY KeysAre
<1>2. \A k \in Keys : ~(links[k].session = TRUE /\ links[k].native # NoNative)
  BY DEF SessionInv, LinksInOrder
<1>3. mLink' \in [Faces -> Keys \cup {NoLink}] /\ \A g \in Faces : mLink'[g] \in {NoLink, KeyOf(g)'}
  BY Taken
<1>4. links' \in [Keys -> BoxLink] /\ wires' \in [Keys -> AWire]
  BY <1>1, NewWireIs
<1>5. ASSUME NEW k \in Keys
      PROVE  /\ ~(links'[k].session = TRUE /\ links'[k].native # NoNative)
             /\ wires'[k] = wires[k] \/ wires'[k] = NewWire
             /\ \/ links'[k] = links[k] /\ wires'[k] = wires[k]
                \/ links'[k].prepared = {}
  <2>1. CASE k = KeyOf(f)
    BY <1>1, <1>2, <2>1
  <2>2. CASE k # KeyOf(f)
    BY <1>1, <1>2, <2>2
  <2> QED
    BY <2>1, <2>2
<1> QED
  BY <1>1, <1>3, <1>4, <1>5 DEF LinksFollow

LEMMA CloseKeeps ==
  ASSUME SessionInv, NEW f \in Faces, CloseSession(f)
  PROVE  SessionInv'
<1>1. ~Busy /\ UNCHANGED <<mAddress, box, wires, errors, right>> /\ call' = NoCall
  BY DEF CloseSession, Close, Apart, Idle
<1>2. HeldLink(f) \in {NoLink, KeyOf(f)}
  BY KeysAre
<1>3. EmptyLink \in BoxLink /\ EmptyLink.prepared = {} /\ EmptyLink.session = FALSE
  BY DEF EmptyLink, BoxLink
<1>4. mLink' = [mLink EXCEPT ![f] = HeldLink(f)]
  BY DEF CloseSession, Close, Keep
<1>5. links' = links \/ links' = [links EXCEPT ![KeyOf(f)] = EmptyLink]
  BY <1>2 DEF CloseSession, Close, Closed
<1>6. LinksFollow
  BY <1>1, <1>2, <1>3, <1>4, <1>5, ChangedLink
<1> QED
  BY <1>1, <1>6, NoCallIs, Settled

LEMMA GiveTransportKeeps ==
  ASSUME SessionInv, NEW f \in Faces, GiveTransport(f)
  PROVE  SessionInv'
<1>1. ~Busy /\ UNCHANGED <<mAddress, box, errors, right>> /\ call' = NoCall
  BY DEF GiveTransport, UseTransport, Apart, Idle
<1>2. LinkOf(f) = KeyOf(f)
  BY KeysAre
<1> DEFINE l == [session |-> TRUE, native |-> NoNative, prepared |-> {}]
<1>3. l \in BoxLink /\ l.prepared = {} /\ l.native = NoNative
  BY DEF BoxLink
<1>4. /\ mLink' = [mLink EXCEPT ![f] = KeyOf(f)] /\ links' = [links EXCEPT ![KeyOf(f)] = l]
      /\ wires' = [wires EXCEPT ![KeyOf(f)] = NewWire]
  BY <1>2 DEF GiveTransport, UseTransport, Hold, Replaced
<1> HIDE DEF l
<1>5. LinksFollow
  BY <1>1, <1>3, <1>4, ChangedLink
<1> QED
  BY <1>1, <1>5, NoCallIs, Settled

LEMMA SameLink ==
  ASSUME NEW l \in BoxLink, NEW type \in Natives, l.session = FALSE, l.prepared = {}
  PROVE  [l EXCEPT !.native = type] = [session |-> FALSE, native |-> type, prepared |-> {}]
<1> DEFINE a == [l EXCEPT !.native = type]
           b == [session |-> FALSE, native |-> type, prepared |-> {}]
<1>1. a \in BoxLink /\ a.session = FALSE /\ a.native = type /\ a.prepared = {}
  BY DEF BoxLink
<1>2. b \in BoxLink /\ b.session = FALSE /\ b.native = type /\ b.prepared = {}
  BY DEF BoxLink
<1> HIDE DEF a, b
<1>3. a = b
  BY <1>1, <1>2 DEF BoxLink
<1> QED
  BY <1>3 DEF a, b

LEMMA UseNativeKeeps ==
  ASSUME SessionInv, NEW f \in Faces, UseNative(f)
  PROVE  SessionInv'
<1>1. PICK type \in Natives : /\ Apart /\ (Native(f, type) \/ InstallNative(f, type)) /\ UNCHANGED wires
  BY DEF UseNative
<1>2. ~Busy /\ UNCHANGED <<mAddress, box, wires, errors, right>> /\ call' = NoCall
  BY <1>1 DEF Native, InstallNative, Apart, Idle
<1>3. LinkOf(f) = KeyOf(f) /\ KeyOf(f) \in Keys /\ links \in [Keys -> BoxLink]
  BY KeysAre
<1>4. mLink' = [mLink EXCEPT ![f] = KeyOf(f)]
  BY <1>1, <1>3 DEF Native, InstallNative, Hold
<1> DEFINE l == [session |-> FALSE, native |-> type, prepared |-> {}]
<1>5. l \in BoxLink /\ l.prepared = {} /\ l.session = FALSE
  BY DEF BoxLink
<1>6. links' = links \/ links' = [links EXCEPT ![KeyOf(f)] = l]
  <2>1. CASE InstallNative(f, type)
    <3>1. [EmptyLink EXCEPT !.native = type] = l
      <4>1. EmptyLink \in BoxLink /\ EmptyLink.session = FALSE /\ EmptyLink.prepared = {}
        BY DEF EmptyLink, BoxLink
      <4> QED
        BY <4>1, SameLink
    <3>2. links' = [links EXCEPT ![KeyOf(f)] = [EmptyLink EXCEPT !.native = type]]
      BY <1>3, <2>1 DEF InstallNative
    <3> HIDE DEF l
    <3> QED
      BY <3>1, <3>2
  <2>2. CASE Native(f, type) /\ ~MayGoNative(links[LinkOf(f)], type)
    BY <2>2 DEF Native
  <2>3. CASE Native(f, type) /\ MayGoNative(links[LinkOf(f)], type)
    <3>1. links' = [links EXCEPT ![KeyOf(f)].native = type]
      BY <1>3, <2>3 DEF Native
    <3>2. links[KeyOf(f)].session = FALSE /\ links[KeyOf(f)] \in BoxLink
      BY <1>3, <2>3 DEF MayGoNative, BoxLink
    <3>3. links[KeyOf(f)].prepared = {}
      BY <1>3, <3>2 DEF SessionInv, Marked
    <3>4. [links[KeyOf(f)] EXCEPT !.native = type] = l
      BY <3>2, <3>3, SameLink
    <3>5. links' = [links EXCEPT ![KeyOf(f)] = [links[KeyOf(f)] EXCEPT !.native = type]]
      BY <3>1, Zenon
    <3> HIDE DEF l
    <3> QED
      BY <3>4, <3>5
  <2> QED
    BY <1>1, <2>1, <2>2, <2>3
<1> HIDE DEF l
<1>7. LinksFollow
  BY <1>2, <1>4, <1>5, <1>6, ChangedLink
<1> QED
  BY <1>2, <1>7, NoCallIs, Settled

----------------------------------------------------------------------------
(* A call begins.                                                          *)

\* What the drivers' own operations are made of.
Chore == {x \in Exchange : x.do \in Ordinary}

LEMMA ChoreIs ==
  ASSUME NEW c \in Said
  PROVE  /\ Checked(c) \in Chore /\ Write(c) \in Chore /\ AskMeter(c) \in Chore
         /\ \A wants \in Wants : Ask(c, wants) \in Chore
<1>1. Checked(c) \in Exchange /\ Write(c) \in Exchange
  BY DEF Checked, Write, Exchange
<1>2. AskMeter(c) \in Exchange
  <2>1. AskMeter(c) \in [do : {"ask"}, what : Said, wants : {"number"}, own : {TRUE}]
    BY DEF AskMeter
  <2> QED
    BY <2>1 DEF Exchange
<1>3. ASSUME NEW wants \in Wants PROVE Ask(c, wants) \in Exchange
  <2>1. Ask(c, wants) \in [do : {"ask"}, what : Said, wants : Wants, own : {FALSE}]
    BY DEF Ask
  <2> QED
    BY <2>1 DEF Exchange
<1>4. /\ Checked(c).do \in Ordinary /\ Write(c).do \in Ordinary
      /\ AskMeter(c).do \in Ordinary /\ \A wants : Ask(c, wants).do \in Ordinary
  BY DEF Checked, Write, AskMeter, Ask, Ordinary
<1> QED
  BY <1>1, <1>2, <1>3, <1>4 DEF Chore

LEMMA GivenIs ==
  ASSUME NEW c \in Said, NEW chosen
  PROVE  Given(c, chosen) \in Seq(Chore)
<1>1. Checked(c) \in Chore
  BY ChoreIs
<1>2. <<Checked(c)>> \in Seq(Chore) /\ <<>> \in Seq(Chore)
  BY <1>1
<1> QED
  BY <1>2 DEF Given

LEMMA JoinIs ==
  ASSUME NEW S, NEW s \in Seq(S), NEW t \in Seq(S)
  PROVE  s \o t \in Seq(S)
BY ConcatProperties

LEMMA SwitchedOnLastIs ==
  ASSUME NEW s \in Seq(Chore)
  PROVE  SwitchedOnLast(s) \in Seq(Chore)
<1>1. Checked("ON") \in Chore /\ WaitForComplete \in Chore
  BY ChoreIs DEF WaitForComplete, Said, Wants
<1>2. <<Checked("ON"), WaitForComplete>> \in Seq(Chore)
  BY <1>1
<1> QED
  BY <1>2, JoinIs DEF SwitchedOnLast

LEMMA ProgramsAre ==
  ASSUME NEW chosen
  PROVE  /\ ProgramGenerator(chosen) \in Seq(Chore) /\ ProgramWgen(chosen) \in Seq(Chore)
         /\ ProgramSupply(chosen) \in Seq(Chore)
<1>1. {"LOAD", "FUNC", "FREQ", "SHAPE", "VOLT", "OFFS", "CURR", "PROT"} \subseteq Said
  BY DEF Said
<1>2. /\ Given("LOAD", chosen) \in Seq(Chore) /\ Given("FUNC", chosen) \in Seq(Chore)
      /\ Given("FREQ", chosen) \in Seq(Chore) /\ Given("SHAPE", chosen) \in Seq(Chore)
      /\ Given("VOLT", chosen) \in Seq(Chore) /\ Given("OFFS", chosen) \in Seq(Chore)
      /\ Given("CURR", chosen) \in Seq(Chore) /\ Given("PROT", chosen) \in Seq(Chore)
  BY <1>1, GivenIs
<1>3. Given("LOAD", chosen) \o Given("FUNC", chosen) \o Given("FREQ", chosen)
        \o Given("SHAPE", chosen) \o Given("VOLT", chosen) \o Given("OFFS", chosen) \in Seq(Chore)
  BY <1>2, JoinIs
<1>4. Given("CURR", chosen) \o Given("PROT", chosen) \o Given("VOLT", chosen) \in Seq(Chore)
  BY <1>2, JoinIs
<1> QED
  BY <1>3, <1>4, SwitchedOnLastIs DEF ProgramGenerator, ProgramWgen, ProgramSupply

\* Every operation of a driver but its safing.
LEMMA OperationsAre ==
  ASSUME NEW d, NEW o \in Operations(d)
  PROVE  o[1] \in Names \ {"safe"} /\ o[2] \in Seq(Chore)
<1> DEFINE Fine(p) == p[1] \in Names \ {"safe"} /\ p[2] \in Seq(Chore)
<1>1. Fine(<<"identity", Identity>>)
  <2>1. Ask("*IDN?", "text") \in Chore
    BY ChoreIs DEF Said, Wants
  <2> QED
    BY <2>1 DEF Identity, Names
<1>2. \A c \in Said : Fine(<<"switch", Switching(c)>>) /\ Fine(<<"ask", Question(c)>>)
                      /\ Fine(<<"read", Question(c)>>)
  <2> SUFFICES ASSUME NEW c \in Said
               PROVE  Fine(<<"switch", Switching(c)>>) /\ Fine(<<"ask", Question(c)>>)
                      /\ Fine(<<"read", Question(c)>>)
    OBVIOUS
  <2>1. Checked(c) \in Chore /\ Ask(c, "number") \in Chore
    BY ChoreIs DEF Wants
  <2>2. <<Checked(c)>> \in Seq(Chore) /\ <<Ask(c, "number")>> \in Seq(Chore)
    BY <2>1
  <2> QED
    BY <2>2 DEF Switching, Question, Names
<1>3. Fine(<<"modules", Modules>>)
  <2>1. Ask("SYST:CTYP?", "text") \in Chore
    BY ChoreIs DEF Said, Wants
  <2>2. [slot \in 1..kSlots |-> Ask("SYST:CTYP?", "text")] \in Seq(Chore)
    BY <2>1, DriversAssumption, IsASeq
  <2> QED
    BY <2>2 DEF Modules, Names
<1>4. Fine(<<"read", ReadDmm>>)
  <2>1. AskMeter("MEAS?") \in Chore
    BY ChoreIs DEF Said
  <2> QED
    BY <2>1 DEF ReadDmm, Names
<1>5. \A fast \in BOOLEAN : Fine(<<"read", ReadMeter(fast)>>)
  <2>1. Checked("CONF") \in Chore /\ Write("RES") \in Chore /\ Ask("READ?", "number") \in Chore
    BY ChoreIs DEF Said, Wants
  <2>2. /\ <<Checked("CONF")>> \in Seq(Chore) /\ <<Write("RES")>> \in Seq(Chore)
        /\ <<Ask("READ?", "number")>> \in Seq(Chore) /\ <<>> \in Seq(Chore)
    BY <2>1
  <2>3. \A fast \in BOOLEAN : ReadMeter(fast) \in Seq(Chore)
    BY <2>2, JoinIs DEF ReadMeter
  <2> QED
    BY <2>3 DEF Names
<1>6. \A chosen : Fine(<<"apply", ProgramGenerator(chosen)>>) /\ Fine(<<"apply", ProgramWgen(chosen)>>)
                  /\ Fine(<<"apply", ProgramSupply(chosen)>>)
  BY ProgramsAre DEF Names
<1>7. Fine(<<"remove", DisableOutput>>) /\ Fine(<<"ask", OutputIsOn>>)
  <2>1. Checked("OFF") \in Chore /\ WaitForComplete \in Chore /\ Ask("OUTP?", "number") \in Chore
    BY ChoreIs DEF WaitForComplete, Said, Wants
  <2> QED
    BY <2>1 DEF DisableOutput, OutputIsOn, Names
<1>8. {"CLOS", "OPEN", "CLOS:EXCL", "OPEN:ALL", "INST:DMM ON", "CLOS?", "MOD:WAIT?", "INST:DMM:INST?",
       "REL:CYCL?", "MEAS?"} \subseteq Said
  BY DEF Said
<1> HIDE DEF Fine
<1>9. CASE o = <<"identity", Identity>>
  BY <1>1, <1>9 DEF Fine
<1>10. CASE o # <<"identity", Identity>> /\ d = "switches"
  <2>1. \/ \E c \in {"CLOS", "OPEN", "CLOS:EXCL", "OPEN:ALL", "INST:DMM ON"} : o = <<"switch", Switching(c)>>
        \/ \E q \in {"CLOS?", "MOD:WAIT?", "INST:DMM:INST?", "REL:CYCL?"} : o = <<"ask", Question(q)>>
        \/ o = <<"modules", Modules>>
    BY <1>10, Zenon DEF Operations
  <2> QED
    BY <1>2, <1>3, <1>8, <2>1 DEF Fine
<1>11. CASE o # <<"identity", Identity>> /\ d = "dmm"
  BY <1>4, <1>11, Zenon DEF Operations, Fine
<1>12. CASE o # <<"identity", Identity>> /\ d = "meter"
  BY <1>5, <1>12, Zenon DEF Operations, Fine
<1>13. CASE o # <<"identity", Identity>> /\ d = "generator"
  BY <1>6, <1>7, <1>13, Zenon DEF Operations, Fine
<1>14. CASE o # <<"identity", Identity>> /\ d = "wgen"
  BY <1>6, <1>7, <1>14, Zenon DEF Operations, Fine
<1>15. CASE o # <<"identity", Identity>> /\ d \notin {"switches", "dmm", "meter", "generator", "wgen"}
  BY <1>2, <1>6, <1>7, <1>8, <1>15, Zenon DEF Operations, Fine
<1> QED
  BY <1>9, <1>10, <1>11, <1>12, <1>13, <1>14, <1>15

\* The preparation of a family, and the mark it ends with.
Beginning(d, family) == Preparation(d) \o <<Prepared(family)>>

LEMMA PreparationIs ==
  ASSUME NEW d
  PROVE  /\ Preparation(d) \in Seq(Exchange) /\ Len(Preparation(d)) >= 2 /\ Len(Preparation(d)) \in Nat
         /\ Preparation(d)[1].do = "drain" /\ Preparation(d)[1].left = QueueDepth
         /\ Preparation(d)[1].late = "thrown"
         /\ Preparation(d)[2].do = "ask" /\ Preparation(d)[2].wants = "model"
         /\ \A i \in 2..Len(Preparation(d)) : Preparation(d)[i].do = "ask"
<1> DEFINE fitted == Ask("INST:DMM:INST?", "yes")
           enabled == Ask("INST:DMM?", "yes")
<1>1. /\ ClearErrors \in Exchange /\ ClearErrors.do = "drain" /\ ClearErrors.left = QueueDepth
      /\ ClearErrors.late = "thrown"
  <2>1. QueueDepth \in Nat \ {0}
    BY ScpiAssumption, QueueFits
  <2>2. ClearErrors \in [do : {"drain"}, what : Said, left : Nat \ {0}, late : Lates]
    BY <2>1 DEF ClearErrors, Said, Lates
  <2> QED
    BY <2>2 DEF Exchange, ClearErrors
<1>2. Identify \in Exchange /\ Identify.do = "ask" /\ Identify.wants = "model"
  <2>1. Identify \in Chore
    BY ChoreIs DEF Identify, Said, Wants
  <2> QED
    BY <2>1 DEF Chore, Identify, Ask
<1>3. fitted \in Exchange /\ enabled \in Exchange /\ fitted.do = "ask" /\ enabled.do = "ask"
  <2>1. fitted \in Chore /\ enabled \in Chore
    BY ChoreIs DEF Said, Wants
  <2> QED
    BY <2>1 DEF Chore, Ask
<1> DEFINE clear == ClearErrors
           model == Identify
<1>4. DrainAndMeet = <<clear, model>> /\ PrepareDmm = DrainAndMeet \o <<fitted, enabled>>
  BY DEF DrainAndMeet, PrepareDmm
<1> HIDE DEF fitted, enabled, clear, model
<1>5. /\ clear \in Exchange /\ clear.do = "drain" /\ clear.left = QueueDepth /\ clear.late = "thrown"
      /\ model \in Exchange /\ model.do = "ask" /\ model.wants = "model"
  BY <1>1, <1>2 DEF clear, model
<1>6. /\ <<clear, model>> \in Seq(Exchange) /\ Len(<<clear, model>>) = 2
      /\ <<clear, model>>[1] = clear /\ <<clear, model>>[2] = model
  BY <1>5
<1>7. /\ <<fitted, enabled>> \in Seq(Exchange) /\ Len(<<fitted, enabled>>) = 2
      /\ <<fitted, enabled>>[1] = fitted /\ <<fitted, enabled>>[2] = enabled
  BY <1>3
<1>8. CASE d # "dmm"
  BY <1>4, <1>5, <1>6, <1>8 DEF Preparation
<1>9. CASE d = "dmm"
  <2> DEFINE p == <<clear, model>>
             more == <<fitted, enabled>>
  <2>1. Preparation(d) = p \o more
    BY <1>4, <1>9 DEF Preparation
  <2> HIDE DEF p, more
  <2>2. /\ p \o more \in Seq(Exchange) /\ Len(p \o more) = Len(p) + Len(more)
        /\ \A i \in 1..(Len(p) + Len(more)) : (p \o more)[i] = IF i <= Len(p) THEN p[i] ELSE more[i - Len(p)]
    BY <1>6, <1>7, ConcatProperties DEF p, more
  <2>3. Len(p) = 2 /\ Len(more) = 2 /\ p[1] = clear /\ p[2] = model /\ more[1] = fitted /\ more[2] = enabled
    BY <1>6, <1>7 DEF p, more
  <2>4. /\ Len(p \o more) = 4 /\ (p \o more)[1] = clear /\ (p \o more)[2] = model
        /\ (p \o more)[3] = fitted /\ (p \o more)[4] = enabled
    <3>1. 3 - Len(p) = 1 /\ 4 - Len(p) = 2 /\ 1 \in 1..4 /\ 2 \in 1..4 /\ 3 \in 1..4 /\ 4 \in 1..4
      BY <2>3
    <3> QED
      BY <2>2, <2>3, <3>1
  <2>5. \A i \in 2..4 : i = 2 \/ i = 3 \/ i = 4
    OBVIOUS
  <2> QED
    BY <1>3, <1>5, <2>1, <2>2, <2>4, <2>5, SMTT(30)
<1> QED
  BY <1>8, <1>9

LEMMA BeginningIs ==
  ASSUME NEW d, NEW family \in Families, NEW p, p = Beginning(d, family)
  PROVE  /\ p \in Seq(Exchange) /\ Len(p) \in Nat /\ Len(p) >= 3
         /\ p[1].do = "drain" /\ p[1].left = QueueDepth /\ p[1].late = "thrown" /\ p[2].do = "ask" /\ p[2].wants = "model"
         /\ \A i \in 2..Len(p) : p[i].do = "ask" \/ (p[i].do = "prepared" /\ p[i].what = family /\ i > 2)
<1> DEFINE s == Preparation(d)
           x == Prepared(family)
           t == <<x>>
<1>1. x \in Exchange /\ x.do = "prepared" /\ x.what = family
  <2>1. x \in [do : {"prepared"}, what : Families]
    BY DEF Prepared
  <2> QED
    BY <2>1 DEF Exchange, Prepared
<1>2. /\ s \in Seq(Exchange) /\ Len(s) >= 2 /\ Len(s) \in Nat
      /\ s[1].do = "drain" /\ s[1].left = QueueDepth /\ s[1].late = "thrown" /\ s[2].do = "ask" /\ s[2].wants = "model"
      /\ \A i \in 2..Len(s) : s[i].do = "ask"
  BY PreparationIs
<1>3. p = s \o t
  BY DEF Beginning
<1> HIDE DEF s, x
<1>4. t \in Seq(Exchange) /\ Len(t) = 1 /\ t[1] = x
  BY <1>1
<1> HIDE DEF t
<1>5. /\ p \in Seq(Exchange) /\ Len(p) = Len(s) + 1
      /\ \A i \in 1..(Len(s) + 1) : p[i] = IF i <= Len(s) THEN s[i] ELSE t[i - Len(s)]
  <2>1. /\ s \o t \in Seq(Exchange) /\ Len(s \o t) = Len(s) + Len(t)
        /\ \A i \in 1..(Len(s) + Len(t)) : (s \o t)[i] = IF i <= Len(s) THEN s[i] ELSE t[i - Len(s)]
    BY <1>2, <1>4, ConcatProperties
  <2>2. Len(t) = 1
    BY <1>4
  <2> QED
    BY <1>3, <2>1, <2>2
<1>6. p[1] = s[1] /\ p[2] = s[2]
  BY <1>2, <1>5
<1>7. ASSUME NEW i \in 2..Len(p)
      PROVE  p[i].do = "ask" \/ (p[i].do = "prepared" /\ p[i].what = family /\ i > 2)
  <2>1. CASE i <= Len(s)
    <3>1. p[i] = s[i] /\ i \in 2..Len(s)
      BY <1>2, <1>5, <2>1
    <3> QED
      BY <1>2, <3>1
  <2>2. CASE i > Len(s)
    <3>1. i = Len(s) + 1 /\ i - Len(s) = 1 /\ i > 2
      BY <1>2, <1>5, <2>2
    <3>2. p[i] = x
      BY <1>2, <1>4, <1>5, <3>1
    <3> QED
      BY <1>1, <3>1, <3>2
  <2> QED
    BY <1>2, <1>5, <2>1, <2>2
<1> QED
  BY <1>2, <1>5, <1>6, <1>7

\* What a call of a driver has to do, with the preparation or without.
LEMMA TodoIs ==
  ASSUME NEW d, NEW family \in Families, NEW e \in Seq(Chore),
         NEW s, s = e \/ s = Beginning(d, family) \o e
  PROVE  /\ s \in Seq(Exchange) /\ Shaped(s)
         /\ \A met : Meets(s, family, met)
         /\ \A late : Blames(s, late)
         /\ \A i \in DOMAIN e : e[i].do = "checked" => Pending(s, e[i].what)
         /\ s = Beginning(d, family) \o e => s # <<>> /\ s[1].do = "drain" /\ s[1].left = QueueDepth
         /\ s = e /\ s # <<>> => s[1].do \in Ordinary
<1>0. e \in Seq(Exchange)
  BY DEF Chore
<1>1. Len(e) \in Nat /\ DOMAIN e = 1..Len(e) /\ \A i \in 1..Len(e) : e[i].do \in Ordinary
  BY ElementOfSeq, LenProperties DEF Chore
<1>2. CASE s = e /\ s # Beginning(d, family) \o e
  <2>1. Shaped(s)
    <3>1. s # <<>> => Len(s) > 0
      BY <1>0, <1>2, RestIs
    <3>2. Len(s) \in Nat /\ \A i \in 1..Len(s) : s[i].do \in Ordinary
      BY <1>1, <1>2
    <3>3. CASE s = <<>>
      BY <3>3 DEF Shaped
    <3>4. CASE s # <<>>
      <4>1. 1 \in 1..Len(s) /\ \A i \in 2..Len(s) : i \in 1..Len(s)
        BY <3>1, <3>2, <3>4
      <4>2. s[1].do \in Ordinary /\ \A i \in 2..Len(s) : s[i].do \in Ordinary
        BY <3>2, <4>1
      <4> QED
        BY <4>2 DEF Shaped
    <3> QED
      BY <3>3, <3>4
  <2>2. (\A met : Meets(s, family, met)) /\ (\A late : Blames(s, late))
    BY <1>1, <1>2 DEF Meets, Blames, Blaming, Ordinary
  <2>3. s # <<>> => s[1].do \in Ordinary
    <3>1. s # <<>> => Len(s) > 0
      BY <1>0, <1>2, RestIs
    <3>2. Len(s) \in Nat /\ \A i \in 1..Len(s) : s[i].do \in Ordinary
      BY <1>1, <1>2
    <3> QED
      BY <3>1, <3>2
  <2> QED
    BY <1>0, <1>2, <2>1, <2>2, <2>3 DEF Pending
<1>3. CASE s = Beginning(d, family) \o e
  <2> DEFINE p == Beginning(d, family)
  <2>1. /\ p \in Seq(Exchange) /\ Len(p) \in Nat /\ Len(p) >= 3
        /\ p[1].do = "drain" /\ p[1].left = QueueDepth /\ p[1].late = "thrown" /\ p[2].do = "ask" /\ p[2].wants = "model"
        /\ \A i \in 2..Len(p) : p[i].do = "ask" \/ (p[i].do = "prepared" /\ p[i].what = family /\ i > 2)
    BY BeginningIs
  <2>2. s = p \o e
    BY <1>3
  <2> HIDE DEF p
  <2>3. /\ s \in Seq(Exchange) /\ Len(s) = Len(p) + Len(e)
        /\ \A i \in 1..(Len(p) + Len(e)) : s[i] = IF i <= Len(p) THEN p[i] ELSE e[i - Len(p)]
    BY <1>0, <2>1, <2>2, ConcatProperties
  <2>4. DOMAIN s = 1..Len(s) /\ Len(s) \in Nat /\ Len(s) >= 3 /\ s # <<>> /\ s[1] = p[1] /\ s[2] = p[2]
    <3>1. DOMAIN s = 1..Len(s) /\ Len(s) \in Nat
      BY <2>3, LenProperties
    <3>2. Len(s) >= 3 /\ 1 <= Len(p) /\ 2 <= Len(p) /\ 1 \in 1..(Len(p) + Len(e)) /\ 2 \in 1..(Len(p) + Len(e))
      BY <1>1, <2>1, <2>3
    <3>3. s # <<>>
      BY <3>2, EmptySeq
    <3> QED
      BY <2>3, <3>1, <3>2, <3>3
  <2>11. \A i \in DOMAIN s : i \in Nat /\ (i = 1 \/ i \in 2..Len(s))
    <3>1. DOMAIN s = 1..Len(s) /\ Len(s) \in Nat
      BY <2>4
    <3> HIDE <2>4
    <3> DEFINE n == Len(s)
    <3>2. \A i \in 1..n : i \in Nat /\ (i = 1 \/ i \in 2..n)
      <4>1. n \in Nat
        BY <3>1
      <4> HIDE DEF n
      <4> QED
        BY <4>1
    <3> QED
      BY <3>1, <3>2, Zenon
  <2>0. s[1].do = "drain" /\ s[1].late = "thrown" /\ s[2].do = "ask" /\ s[2].wants = "model" /\ s[1].left = QueueDepth
    BY <2>1, <2>4
  <2>5. ASSUME NEW i \in 2..Len(s)
        PROVE  s[i].do \in Ordinary \/ (s[i].do = "prepared" /\ s[i].what = family /\ i > 2)
    <3>1. CASE i <= Len(p)
      <4>1. s[i] = p[i] /\ i \in 2..Len(p)
        BY <1>1, <2>1, <2>3, <3>1
      <4> QED
        BY <2>1, <4>1 DEF Ordinary
    <3>2. CASE i > Len(p)
      <4>1. s[i] = e[i - Len(p)] /\ i - Len(p) \in 1..Len(e)
        BY <1>1, <2>1, <2>3, <3>2
      <4> QED
        BY <1>1, <4>1
    <3> QED
      BY <2>1, <3>1, <3>2
  <2>6. Shaped(s)
    BY <2>0, <2>4, <2>5 DEF Shaped
  <2>7. \A met : Meets(s, family, met)
    <3> SUFFICES ASSUME NEW met, NEW i \in DOMAIN s, s[i].do = "prepared"
                 PROVE  /\ s[i].what = family
                        /\ \/ family \in met
                           \/ \E j \in 1..(i - 1) : s[j].do = "ask" /\ s[j].wants = "model"
      BY DEF Meets
    <3>0. i # 1
      BY <2>0
    <3>1. i \in 2..Len(s)
      BY <2>11, <3>0
    <3>2. s[i].do \notin Ordinary
      BY DEF Ordinary
    <3>3. s[i].what = family /\ i > 2
      BY <2>5, <3>1, <3>2
    <3>4. 2 \in 1..(i - 1)
      BY <2>11, <3>3
    <3> QED
      BY <2>0, <3>3, <3>4
  <2>8. \A late : Blames(s, late)
    <3>1. \A i \in DOMAIN s : ~Blaming(s[i])
      <4> SUFFICES ASSUME NEW i \in DOMAIN s PROVE ~Blaming(s[i])
        OBVIOUS
      <4>1. CASE i = 1
        BY <2>0, <4>1 DEF Blaming
      <4>2. CASE i # 1
        <5>1. i \in 2..Len(s)
          BY <2>11, <4>2
        <5> QED
          BY <2>5, <5>1 DEF Ordinary, Blaming
      <4> QED
        BY <4>1, <4>2
    <3> QED
      BY <3>1 DEF Blames
  <2>9. ASSUME NEW i \in DOMAIN e, e[i].do = "checked" PROVE Pending(s, e[i].what)
    <3>1. Len(p) + i \in DOMAIN s /\ s[Len(p) + i] = e[i]
      <4>1. Len(p) + i \in 1..(Len(p) + Len(e)) /\ ~(Len(p) + i <= Len(p)) /\ (Len(p) + i) - Len(p) = i
        BY <1>1, <2>1
      <4> QED
        BY <2>3, <2>4, <4>1
    <3> QED
      BY <2>9, <3>1 DEF Pending
  <2>10. s # e
    <3>1. Len(s) # Len(e)
      <4>1. Len(p) >= 3 /\ Len(p) \in Nat /\ Len(e) \in Nat /\ Len(s) = Len(p) + Len(e)
        BY <1>1, <2>1, <2>3
      <4> QED
        BY <4>1
    <3> QED
      BY <3>1
  <2> QED
    BY <1>3, <2>0, <2>3, <2>4, <2>6, <2>7, <2>8, <2>9, <2>10
<1> QED
  BY <1>2, <1>3

LEMMA OperateKeeps ==
  ASSUME SessionInv, NEW f \in Faces, Operate(f)
  PROVE  SessionInv'
<1> DEFINE d == DriverOf(f)
           k == KeyOf(f)
<1>1. PICK o \in Operations(d) : StartCall(f, o[1], d, Preparation(d), o[2])
  BY DEF Operate, FamilyOf
<1>2. ~Busy /\ box' = box /\ d \in Families
  BY DriversAssumption DEF Operate, Idle
<1>3. o[1] \in Names \ {"safe"} /\ o[2] \in Seq(Chore)
  BY OperationsAre
<1> DEFINE op == o[1]
           e == o[2]
           s == (IF MustPrepare(f, d) THEN Preparation(d) \o <<Prepared(d)>> ELSE <<>>) \o e
           wanted == {x.what : x \in {y \in Range(e) : y.do = "checked"}}
<1>4. /\ k \in Keys /\ LinkOf(f) = k /\ NoLink \notin Keys
      /\ mLink \in [Faces -> Keys \cup {NoLink}] /\ links \in [Keys -> BoxLink]
      /\ mAddress \in [Faces -> Addresses \cup {Simulated}]
      /\ wires \in [Keys -> AWire] /\ errors \in [Keys -> Seq({"own", "old"})]
  BY KeysAre
<1>5. /\ Session(f)
      /\ wires' = [wires EXCEPT ![k] = IF links[k].session THEN wires[k] ELSE NewWire]
      /\ call' = [NoCall EXCEPT !.face = f, !.family = d, !.op = op, !.todo = s, !.wanted = wanted]
      /\ UNCHANGED <<errors, right>>
  BY <1>1, <1>4 DEF StartCall
<1>6. /\ links[k].native = NoNative /\ mLink' = [mLink EXCEPT ![f] = k] /\ mAddress' = mAddress
      /\ links' = [links EXCEPT ![k].session = TRUE]
  BY <1>4, <1>5 DEF Session, Hold
<1>7. AtRest(k) /\ Len(errors[k]) <= MaxRefused /\ errors[k] \in Seq({"own", "old"})
  BY <1>2, <1>4, RestIsAtRest DEF SessionInv, WireTyped
<1>8. links[k] \in BoxLink /\ links[k].session \in BOOLEAN
  BY <1>4 DEF BoxLink
<1> DEFINE l == [links[k] EXCEPT !.session = TRUE]
<1>9. links' = [links EXCEPT ![k] = l]
  BY <1>6, Zenon
<1>10. l \in BoxLink /\ l.session = TRUE /\ l.native = NoNative /\ l.prepared = links[k].prepared
  BY <1>6, <1>8 DEF BoxLink
<1>11. links[k].session = FALSE => links[k].prepared = {}
  BY <1>7 DEF AtRest, Marked
<1>12. links[k].session = TRUE => l = links[k]
  <2>1. l \in BoxLink
    BY <1>10
  <2> HIDE DEF l
  <2> QED
    BY <1>6, <1>8, <1>10, <2>1 DEF BoxLink
<1> HIDE DEF l, s, wanted, op, e
<1>13. LinksFollow
  <2>1. \A j \in Keys : ~(links[j].session = TRUE /\ links[j].native # NoNative)
    BY DEF SessionInv, LinksInOrder
  <2>2. mLink' \in [Faces -> Keys \cup {NoLink}] /\ \A g \in Faces : mLink'[g] \in {NoLink, KeyOf(g)'}
    BY <1>6, Taken
  <2>3. links' \in [Keys -> BoxLink] /\ wires' \in [Keys -> AWire]
    BY <1>4, <1>5, <1>9, <1>10, NewWireIs
  <2>4. ASSUME NEW j \in Keys
        PROVE  /\ ~(links'[j].session = TRUE /\ links'[j].native # NoNative)
               /\ wires'[j] = wires[j] \/ wires'[j] = NewWire
               /\ \/ links'[j] = links[j] /\ wires'[j] = wires[j]
                  \/ links'[j].prepared = {}
    <3>1. CASE j # k
      BY <1>4, <1>5, <1>9, <2>1, <3>1
    <3>2. CASE j = k
      <4>1. links'[k] = l /\ wires'[k] = IF links[k].session THEN wires[k] ELSE NewWire
        BY <1>4, <1>5, <1>9
      <4> QED
        BY <1>8, <1>10, <1>11, <1>12, <3>2, <4>1
    <3> QED
      BY <3>1, <3>2
  <2> QED
    BY <1>2, <1>4, <1>5, <1>6, <2>2, <2>3, <2>4 DEF LinksFollow
<1>14. e \in Seq(Chore) /\ op \in Names /\ op # "safe"
  BY <1>3 DEF e, op
<1>15. s = e \/ s = Beginning(d, d) \o e
  <2>1. CASE MustPrepare(f, d)
    BY <2>1, Zenon DEF s, Beginning
  <2>2. CASE ~MustPrepare(f, d)
    <3>1. s = <<>> \o e
      BY <2>2, Zenon DEF s
    <3>2. <<>> \o e = e
      BY <1>14, ConcatEmptySeq
    <3> QED
      BY <3>1, <3>2
  <2> QED
    BY <2>1, <2>2
<1>16. ASSUME ~MustPrepare(f, d) PROVE s = e
  <2>1. s = <<>> \o e
    BY <1>16, Zenon DEF s
  <2> QED
    BY <1>14, <2>1, ConcatEmptySeq
<1>17. /\ s \in Seq(Exchange) /\ Shaped(s) /\ (\A met : Meets(s, d, met)) /\ (\A late : Blames(s, late))
       /\ \A i \in DOMAIN e : e[i].do = "checked" => Pending(s, e[i].what)
       /\ s = Beginning(d, d) \o e => s # <<>> /\ s[1].do = "drain" /\ s[1].left = QueueDepth
  BY <1>2, <1>14, <1>15, TodoIs
<1>18. \A what \in wanted : what \in Said /\ Pending(s, what)
  <2> SUFFICES ASSUME NEW what \in wanted PROVE what \in Said /\ Pending(s, what)
    OBVIOUS
  <2>1. PICK i \in DOMAIN e : e[i].do = "checked" /\ what = e[i].what
    BY Zenon DEF wanted, Range
  <2>2. e[i] \in Exchange
    BY <1>14, ElementOfSeq, LenProperties DEF Chore
  <2> QED
    BY <1>17, <2>1, <2>2, TokenIs
<1>19. wanted \in SUBSET Said
  BY <1>18
<1>20. call' \in Call
  <2>1. f \in Faces \cup {NoLink} /\ d \in Families \cup {"none"}
    BY <1>2
  <2> HIDE DEF d
  <2> QED
    BY <1>5, <1>14, <1>17, <1>19, <2>1, NoCallIs, Zenon DEF Call
<1>21. /\ call'.face = f /\ call'.family = d /\ call'.op = op /\ call'.todo = s /\ call'.wanted = wanted
       /\ call'.took = "own" /\ call'.blamed = "own"
  <2> HIDE DEF d
  <2> QED
    BY <1>5 DEF NoCall
<1>22. WireTyped' /\ LinksInOrder' /\ \A j \in Keys : AtRest(j)'
  BY <1>2, <1>13, <1>20, LinksFollowed
<1>23. Wire' = k /\ links'[k] = l /\ wires'[k] = IF links[k].session THEN wires[k] ELSE NewWire
  BY <1>4, <1>5, <1>6, <1>9, <1>21 DEF Wire
<1>24. Formed(call', wires'[k])
  BY <1>14, <1>17, <1>21, FormedIs
<1>25. Truthful(call', wires'[k], errors'[k])
  BY <1>18, <1>21 DEF Truthful, Accounted
<1>26. s # <<>> => Ready(call', links'[k].prepared, wires'[k], errors'[k])
  <2> SUFFICES ASSUME s # <<>>, Calm(wires'[k]) PROVE Expected(s[1], errors[k])
    BY <1>5, <1>21 DEF Ready
  <2>1. CASE s = Beginning(d, d) \o e
    <3>1. Len(errors[k]) <= QueueDepth
      <4>1. Len(errors[k]) \in Nat
        BY <1>7, LenProperties
      <4> QED
        BY <1>7, <4>1, ScpiAssumption, QueueFits
    <3> QED
      BY <1>17, <2>1, <3>1 DEF Expected
  <2>2. CASE ~MustPrepare(f, d)
    <3>1. d \in links[k].prepared
      BY <1>4, <2>2 DEF MustPrepare
    <3>2. links[k].session = TRUE
      BY <1>8, <1>11, <3>1
    <3>3. errors[k] = <<>>
      BY <1>7, <1>23, <3>1, <3>2 DEF AtRest, Empty
    <3>4. s[1] \in Exchange
      BY <1>17, RestIs
    <3> QED
      BY <3>3, <3>4, NothingExpected
  <2>3. CASE MustPrepare(f, d)
    <3>1. s = Beginning(d, d) \o e
      BY <2>3, Zenon DEF s, Beginning
    <3> QED
      BY <2>1, <3>1
  <2> QED
    BY <2>2, <2>3
<1>27. links'[k].session = TRUE
  BY <1>10, <1>23
<1> QED
  BY <1>4, <1>21, <1>22, <1>23, <1>24, <1>25, <1>26, <1>27 DEF SessionInv, AtRest, Busy, Keys

LEMMA SafingIs ==
  ASSUME NEW d
  PROVE  Safing(d) \in Seq(Chore) /\ OfSafing(Safing(d))
<1> DEFINE Quiet == {x \in Chore : x.do \in {"write", "ask"} /\ (x.do = "ask" => x.own = FALSE)}
<1>1. /\ Write("OPEN:ALL") \in Quiet /\ Write("OFF") \in Quiet /\ Write("VOLT") \in Quiet
      /\ Write("OFFS") \in Quiet /\ Write("RST") \in Quiet /\ WaitForComplete \in Quiet
  <2>1. /\ Write("OPEN:ALL") \in Chore /\ Write("OFF") \in Chore /\ Write("VOLT") \in Chore
        /\ Write("OFFS") \in Chore /\ Write("RST") \in Chore /\ WaitForComplete \in Chore
    BY ChoreIs DEF WaitForComplete, Said, Wants
  <2> QED
    BY <2>1 DEF Write, WaitForComplete, Ask
<1> HIDE DEF Quiet
<1>2. /\ <<Write("OPEN:ALL")>> \in Seq(Quiet) /\ <<Write("OFF"), Write("VOLT")>> \in Seq(Quiet)
      /\ <<Write("OFF"), WaitForComplete, Write("VOLT"), Write("OFFS")>> \in Seq(Quiet)
      /\ <<Write("OFF"), WaitForComplete, Write("RST")>> \in Seq(Quiet) /\ <<>> \in Seq(Quiet)
  BY <1>1
<1>3. Safing(d) \in Seq(Quiet)
  BY <1>2, Zenon DEF Safing
<1>4. Safing(d) \in Seq(Chore)
  BY <1>3 DEF Quiet
<1>5. \A i \in DOMAIN Safing(d) : Safing(d)[i] \in Quiet
  BY <1>3, ElementOfSeq, LenProperties
<1> QED
  BY <1>4, <1>5 DEF OfSafing, Quiet

LEMMA SafeKeeps ==
  ASSUME SessionInv, NEW f \in Faces, Safe(f)
  PROVE  SessionInv'
<1> DEFINE s == Safing(DriverOf(f))
           k == KeyOf(f)
<1>1. /\ ~Busy /\ box' = box /\ s # <<>> /\ HeldLink(f) # NoLink /\ links[HeldLink(f)].session
      /\ mLink' = [mLink EXCEPT ![f] = HeldLink(f)]
      /\ call' = [NoCall EXCEPT !.face = f, !.op = "safe", !.todo = s]
      /\ UNCHANGED <<mAddress, links, wires, errors, right>>
  BY DEF Safe, Idle, StartSafing, Keep
<1>2. /\ k \in Keys /\ HeldLink(f) \in {NoLink, k} /\ NoLink \notin Keys
      /\ mLink \in [Faces -> Keys \cup {NoLink}] /\ links \in [Keys -> BoxLink]
      /\ mAddress \in [Faces -> Addresses \cup {Simulated}] /\ wires \in [Keys -> AWire]
  BY KeysAre
<1>3. HeldLink(f) = k /\ links[k].session = TRUE /\ mLink' = [mLink EXCEPT ![f] = k]
  BY <1>1, <1>2 DEF BoxLink
<1>4. LinksFollow
  <2>1. \A j \in Keys : ~(links[j].session = TRUE /\ links[j].native # NoNative)
    BY DEF SessionInv, LinksInOrder
  <2>2. mLink' \in [Faces -> Keys \cup {NoLink}] /\ \A g \in Faces : mLink'[g] \in {NoLink, KeyOf(g)'}
    BY <1>1, <1>3, Taken
  <2> QED
    BY <1>1, <1>2, <2>1, <2>2 DEF LinksFollow
<1>5. s \in Seq(Chore) /\ OfSafing(s)
  BY SafingIs
<1>6. \E d \in Families : TRUE
  BY DriversAssumption DEF OnTheWire
<1> HIDE DEF s, k
<1>7. /\ s \in Seq(Exchange) /\ Shaped(s) /\ Meets(s, "none", wires[k].met) /\ Blames(s, wires[k].late)
      /\ s[1] \in Exchange
  <2>1. PICK d \in Families : TRUE
    BY <1>6
  <2>2. s \in Seq(Exchange) /\ Shaped(s) /\ (\A late : Blames(s, late))
    BY <1>5, <2>1, TodoIs
  <2>3. Meets(s, "none", wires[k].met)
    <3>1. \A i \in DOMAIN s : s[i].do # "prepared"
      BY <1>5 DEF OfSafing, Final
    <3> QED
      BY <3>1 DEF Meets
  <2>4. s[1] \in Exchange
    BY <1>1, <2>2, RestIs DEF s
  <2> QED
    BY <2>2, <2>3, <2>4
<1>8. call' \in Call
  <2>1. "safe" \in Names /\ f \in Faces \cup {NoLink}
    BY DEF Names
  <2>2. call' = [NoCall EXCEPT !.face = f, !.op = "safe", !.todo = s]
    BY <1>1 DEF s
  <2> QED
    BY <1>7, <2>1, <2>2, NoCallIs, Zenon DEF Call
<1>9. /\ call'.face = f /\ call'.op = "safe" /\ call'.todo = s /\ call'.family = "none" /\ call'.blamed = "own"
  <2>1. call' = [NoCall EXCEPT !.face = f, !.op = "safe", !.todo = s]
    BY <1>1 DEF s
  <2> QED
    BY <2>1 DEF NoCall
<1>10. WireTyped' /\ LinksInOrder' /\ \A j \in Keys : AtRest(j)'
  BY <1>1, <1>4, <1>8, LinksFollowed
<1>11. Wire' = k
  BY <1>2, <1>3, <1>9 DEF Wire
<1>12. Formed(call', wires'[k])
  BY <1>1, <1>5, <1>7, <1>9, FormedIs
<1>13. Truthful(call', wires'[k], errors'[k])
  BY <1>9 DEF Truthful
<1>14. Ready(call', links'[k].prepared, wires'[k], errors'[k])
  <2> SUFFICES ASSUME Calm(wires[k]), links[k].prepared # {} PROVE Expected(s[1], errors[k])
    BY <1>1, <1>9 DEF Ready
  <2>1. AtRest(k)
    BY <1>1, <1>2, RestIsAtRest
  <2>2. errors[k] = <<>>
    BY <1>3, <2>1 DEF AtRest, Empty
  <2> QED
    BY <1>7, <2>2, NothingExpected
<1> QED
  BY <1>1, <1>2, <1>3, <1>9, <1>10, <1>11, <1>12, <1>13, <1>14 DEF SessionInv, AtRest, Busy, Keys

----------------------------------------------------------------------------
(* Every behaviour.                                                        *)

LEMMA StutterKeeps ==
  ASSUME SessionInv, UNCHANGED driverVars
  PROVE  SessionInv'
BY DEF SessionInv, driverVars, vars, boxVars, wireVars, WireTyped, BoxTypeOK, LinksInOrder, KeyOf,
       Marked, Busy, Wire, Keys

LEMMA SessionStarts ==
  ASSUME Init
  PROVE  SessionInv
<1>1. /\ mAddress \in [Faces -> Addresses \cup {Simulated}] /\ mLink = [f \in Faces |-> NoLink]
      /\ links = [k \in Keys |-> EmptyLink] /\ wires = [k \in Keys |-> NewWire] /\ call = NoCall
      /\ box \in Boxes
  BY DEF Init, BoxInit, WireInit
<1>2. PICK queue \in {<<>>, <<"old">>} :
        errors = [k \in Keys |-> IF k \in Addresses THEN queue ELSE <<>>]
  BY DEF Init, WireInit
<1>3. PICK model \in BOOLEAN : right = [k \in Keys |-> k \in Addresses => model]
  BY DEF Init, WireInit
<1>4. right \in [Keys -> BOOLEAN]
  BY <1>3
<1>5. EmptyLink \in BoxLink /\ EmptyLink.session = FALSE /\ EmptyLink.prepared = {}
  BY DEF EmptyLink, BoxLink
<1>6. /\ links \in [Keys -> BoxLink] /\ wires \in [Keys -> AWire]
      /\ \A k \in Keys : links[k] = EmptyLink /\ wires[k] = NewWire
  BY <1>1, <1>5, NewWireIs
<1>7. errors \in [Keys -> Seq({"own", "old"})] /\ \A k \in Keys : Len(errors[k]) <= MaxRefused
  <2>1. /\ queue \in Seq({"own", "old"}) /\ Len(queue) <= MaxRefused
        /\ <<>> \in Seq({"own", "old"}) /\ Len(<<>>) <= MaxRefused
    <3>1. Len(<<"old">>) = 1 /\ Len(<<>>) = 0 /\ <<"old">> \in Seq({"own", "old"})
          /\ <<>> \in Seq({"own", "old"})
      OBVIOUS
    <3>2. 1 <= MaxRefused /\ 0 <= MaxRefused
      BY ScpiAssumption, QueueFits
    <3> QED
      BY <3>1, <3>2
  <2>2. \A k \in Keys : errors[k] = queue \/ errors[k] = <<>>
    BY <1>2
  <2> HIDE DEF Keys
  <2>3. errors \in [Keys -> Seq({"own", "old"})]
    BY <1>2, <2>1
  <2> QED
    BY <2>1, <2>2, <2>3
<1>8. mLink \in [Faces -> Keys \cup {NoLink}] /\ \A f \in Faces : mLink[f] = NoLink
  BY <1>1
<1>9. \A k \in Keys : Len(wires[k].stream) <= MaxLate
  <2>1. Len(<<>>) = 0 /\ 0 <= MaxLate
    BY ScpiAssumption
  <2> QED
    BY <1>6, <2>1, NewWireIs
<1>10. WireTyped
  BY <1>1, <1>4, <1>6, <1>7, <1>8, <1>9, NoCallIs DEF WireTyped, BoxTypeOK
<1>11. LinksInOrder
  BY <1>5, <1>6, <1>8 DEF LinksInOrder
<1>12. ASSUME NEW k \in Keys PROVE Marked(k) /\ Unread(wires[k]) /\ links[k].session = FALSE
  BY <1>5, <1>6, NewWireIs DEF Marked
<1>13. ~Busy /\ call.op = "none" /\ call.took = "own" /\ call.wanted = {}
  BY <1>1, NoCallIs DEF Busy
<1>14. Formed(call, wires[Wire])
  BY <1>1, NoCallIs, OverFormed
<1>15. Truthful(call, wires[Wire], errors[Wire])
  BY <1>13 DEF Truthful, Accounted
<1> QED
  BY <1>10, <1>11, <1>12, <1>13, <1>14, <1>15 DEF SessionInv

LEMMA NextKeeps ==
  ASSUME SessionInv, Next
  PROVE  SessionInv'
<1>1. CASE \E f \in Faces : Operate(f) \/ OperateInVain(f) \/ Safe(f) \/ Readdress(f)
                            \/ CloseSession(f) \/ GiveTransport(f) \/ UseNative(f)
  BY <1>1, OperateKeeps, VainKeeps, SafeKeeps, ReaddressKeeps, CloseKeeps, GiveTransportKeeps, UseNativeKeeps
<1>2. CASE (Exchanges \/ Complain) /\ UNCHANGED box
  BY <1>2, ExchangesKeep
<1> QED
  BY <1>1, <1>2 DEF Next

\* The sessions' inductive invariant, whichever level a behaviour is about.
THEOREM SessionsInOrder == McSpec => []SessionInv
<1>1. McInit => SessionInv
  BY SessionStarts DEF McInit
<1>2. SessionInv /\ [McNext]_mcVars => SessionInv'
  <2> SUFFICES ASSUME SessionInv, [McNext]_mcVars PROVE SessionInv'
    OBVIOUS
  <2>1. CASE Next
    BY <2>1, NextKeeps
  <2>2. CASE UNCHANGED driverVars
    BY <2>2, StutterKeeps
  <2> QED
    BY <2>1, <2>2 DEF McNext, mcVars
<1> QED
  BY <1>1, <1>2, PTL DEF McSpec

\* The faces of a box share its one link in step: a face holds no link but its own
\* address's, a link is a session or an object and never both, and a family's mark is on
\* a session whose model it has seen (box_connection.hpp, the rules).
THEOREM SharedInStepHolds == McSpec => []SharedInStep
<1>1. SessionInv => SharedInStep
  BY DEF SessionInv, SharedInStep, Marked
<1> QED
  BY <1>1, SessionsInOrder, PTL

\* As long as no answer of a session was late, a call that returns has read the answers to
\* its own questions and had every checked command obeyed (scpi.hpp, checked and
\* queryNumber): whatever the boxes refuse, keep to themselves or have left in their
\* queues, and whichever face spoke before.
THEOREM ToldTheTruth == McSpec => []TellsTheTruth
<1>1. SessionInv => TellsTheTruth
  <2> SUFFICES ASSUME SessionInv, Returned PROVE TellsTheTruth
    BY DEF TellsTheTruth
  <2>1. ~Busy /\ call.end = "ok" /\ call.op # "none" /\ call.op # "safe"
    BY DEF Returned
  <2>2. Wire \in Keys /\ wires \in [Keys -> AWire] /\ Truthful(call, wires[Wire], errors[Wire])
    BY <2>1 DEF SessionInv, WireTyped
  <2>3. wires[Wire].lagged \in BOOLEAN
    BY <2>2, WireIs
  <2>4. call.todo = <<>>
    BY <2>1 DEF Busy
  <2>5. ASSUME wires[Wire].lagged = FALSE PROVE call.took = "own" /\ call.wanted \subseteq call.obeyed
    <3>1. call.took = "own" /\ Accounted(call, errors[Wire])
      BY <2>1, <2>2, <2>5 DEF Truthful
    <3>2. ~Doomed(<<>>) /\ \A what : ~Pending(<<>>, what)
      BY DEF Doomed, Pending
    <3> QED
      BY <2>4, <3>1, <3>2 DEF Accounted
  <2> QED
    BY <2>3, <2>5 DEF TellsTheTruth
<1> QED
  BY <1>1, SessionsInOrder, PTL

\* A fault names the command that provoked its error, unless a question of the session
\* ran out of time, or an unchecked command, a question that was answered or a meter's
\* reading left an error behind (scpi.hpp, ScpiFault and clearErrors).
THEOREM BlamedFairly == McSpec => []BlameIsFair
<1>1. SessionInv => BlameIsFair
  BY DEF SessionInv, Formed, BlameIsFair
<1> QED
  BY <1>1, SessionsInOrder, PTL

----------------------------------------------------------------------------
(* A transport under a session: the lines that come.                       *)

\* The byte after another one on the way.
Follows(x, y) ==
  \/ x.part = "head" /\ y.part = "tail" /\ y.line = x.line
  \/ x.part = "tail" /\ y.part \in {"cr", "end"} /\ y.line = x.line
  \/ x.part = "cr" /\ y.part = "end" /\ y.line = x.line
  \/ x.part = "end" /\ y.part = "head" /\ y.line = x.line + 1

\* The bytes are the lines from the one to the other, whole and in order.
Lines(bytes, first, last) ==
  /\ bytes = <<>> => last + 1 = first
  /\ bytes # <<>> => /\ bytes[1].line = first /\ bytes[1].part = "head"
                     /\ bytes[Len(bytes)].line = last /\ bytes[Len(bytes)].part = "end"
  /\ \A i \in 1..(Len(bytes) - 1) : Follows(bytes[i], bytes[i + 1])

Two(n) == <<[line |-> n, part |-> "head"], [line |-> n, part |-> "tail"]>>

LEMMA NatConstants == MaxLines \in Nat /\ MaxBreaks \in Nat
BY TransportAssumption DEF T!TransportConstants

LEMMA BytesAre ==
  ASSUME NEW n \in 1..(MaxLines + 1)
  PROVE  /\ [line |-> n, part |-> "head"] \in T!Byte /\ [line |-> n, part |-> "tail"] \in T!Byte
         /\ [line |-> n, part |-> "cr"] \in T!Byte /\ [line |-> n, part |-> "end"] \in T!Byte
BY DEF T!Byte

LEMMA ByteIs ==
  ASSUME NEW b \in T!Byte
  PROVE  b = [line |-> b.line, part |-> b.part] /\ b.line \in Nat
BY NatConstants DEF T!Byte

LEMMA MoreLines ==
  ASSUME NEW u \in Seq(T!Byte), NEW a \in Seq(T!Byte), a # <<>>, NEW first \in Nat, NEW last \in Nat,
         Lines(u, first, last), Lines(a, last + 1, last + 1)
  PROVE  Lines(u \o a, first, last + 1)
<1> DEFINE v == u \o a
<1>1. Len(u) \in Nat /\ Len(a) \in Nat /\ Len(a) > 0 /\ (u = <<>> <=> Len(u) = 0)
  BY LenProperties, EmptySeq
<1>2. /\ v \in Seq(T!Byte) /\ Len(v) = Len(u) + Len(a)
      /\ \A i \in 1..(Len(u) + Len(a)) : v[i] = IF i <= Len(u) THEN u[i] ELSE a[i - Len(u)]
  BY ConcatProperties
<1> HIDE DEF v
<1>3. v # <<>>
  BY <1>1, <1>2, EmptySeq
<1>4. v[Len(v)] = a[Len(a)]
  <2>1. Len(v) \in 1..(Len(u) + Len(a)) /\ ~(Len(v) <= Len(u)) /\ Len(v) - Len(u) = Len(a)
    BY <1>1, <1>2
  <2> QED
    BY <1>2, <2>1
<1>5. a[1].line = last + 1 /\ a[1].part = "head" /\ a[Len(a)].line = last + 1 /\ a[Len(a)].part = "end"
  BY DEF Lines
<1>6. v[1].line = first /\ v[1].part = "head"
  <2>1. CASE u = <<>>
    <3>1. v[1] = a[1] /\ first = last + 1
      BY <1>1, <1>2, <2>1 DEF Lines
    <3> QED
      BY <1>5, <3>1
  <2>2. CASE u # <<>>
    <3>1. v[1] = u[1]
      BY <1>1, <1>2, <2>2
    <3> QED
      BY <2>2, <3>1 DEF Lines
  <2> QED
    BY <2>1, <2>2
<1>7. ASSUME NEW i \in 1..(Len(v) - 1) PROVE Follows(v[i], v[i + 1])
  <2>1. CASE i < Len(u)
    <3>1. v[i] = u[i] /\ v[i + 1] = u[i + 1] /\ i \in 1..(Len(u) - 1)
      BY <1>1, <1>2, <2>1
    <3> QED
      BY <3>1 DEF Lines
  <2>2. CASE i = Len(u)
    <3>1. u # <<>>
      BY <1>1, <1>2, <2>2
    <3>2. /\ i \in 1..(Len(u) + Len(a)) /\ i <= Len(u)
          /\ i + 1 \in 1..(Len(u) + Len(a)) /\ ~(i + 1 <= Len(u)) /\ (i + 1) - Len(u) = 1
      BY <1>1, <1>2, <2>2
    <3>3. v[i] = u[Len(u)] /\ v[i + 1] = a[1]
      BY <1>2, <2>2, <3>2
    <3>4. u[Len(u)].line = last /\ u[Len(u)].part = "end"
      BY <3>1 DEF Lines
    <3> QED
      BY <1>5, <3>3, <3>4 DEF Follows
  <2>3. CASE i > Len(u)
    <3>1. i - Len(u) \in 1..(Len(a) - 1) /\ (i + 1) - Len(u) = (i - Len(u)) + 1
          /\ i \in 1..(Len(u) + Len(a)) /\ i + 1 \in 1..(Len(u) + Len(a))
          /\ ~(i <= Len(u)) /\ ~(i + 1 <= Len(u))
      BY <1>1, <1>2, <2>3
    <3>2. v[i] = a[i - Len(u)] /\ v[i + 1] = a[(i - Len(u)) + 1]
      BY <1>2, <3>1
    <3> QED
      BY <3>1, <3>2 DEF Lines
  <2> QED
    BY <1>1, <1>2, <2>1, <2>2, <2>3
<1>8. Lines(v, first, last + 1)
  BY <1>3, <1>4, <1>5, <1>6, <1>7 DEF Lines
<1> QED
  BY <1>8 DEF v

\* A byte more.
LEMMA More ==
  ASSUME NEW s \in Seq(T!Byte), NEW b \in T!Byte
  PROVE  /\ s \o <<b>> \in Seq(T!Byte) /\ Len(s \o <<b>>) = Len(s) + 1
         /\ (s \o <<b>>)[Len(s) + 1] = b
         /\ \A i \in 1..Len(s) : (s \o <<b>>)[i] = s[i]
<1>1. <<b>> \in Seq(T!Byte) /\ Len(<<b>>) = 1 /\ <<b>>[1] = b /\ Len(s) \in Nat
  OBVIOUS
<1> QED
  BY <1>1, ConcatProperties

\* An answer is a line.
LEMMA AnswerIsALine ==
  ASSUME NEW n \in 1..MaxLines, NEW cr \in BOOLEAN
  PROVE  T!AnswerOf(n, cr) \in Seq(T!Byte) /\ T!AnswerOf(n, cr) # <<>> /\ Lines(T!AnswerOf(n, cr), n, n)
<1> DEFINE h == [line |-> n, part |-> "head"]
           t == [line |-> n, part |-> "tail"]
           c == [line |-> n, part |-> "cr"]
           e == [line |-> n, part |-> "end"]
           a == T!AnswerOf(n, cr)
<1>1. h \in T!Byte /\ t \in T!Byte /\ c \in T!Byte /\ e \in T!Byte
  BY BytesAre, NatConstants
<1>2. a = <<h, t>> \o (IF cr THEN <<c>> ELSE <<>>) \o <<e>>
  BY Zenon DEF T!AnswerOf
<1>3. /\ h.line = n /\ h.part = "head" /\ t.line = n /\ t.part = "tail"
      /\ c.line = n /\ c.part = "cr" /\ e.line = n /\ e.part = "end"
  OBVIOUS
<1> HIDE DEF h, t, c, e, a
<1>4. <<h, t>> \in Seq(T!Byte) /\ Len(<<h, t>>) = 2 /\ <<h, t>>[1] = h /\ <<h, t>>[2] = t
  BY <1>1
<1>5. CASE cr = TRUE
  <2> DEFINE p == <<h, t>> \o <<c>>
  <2>1. p \in Seq(T!Byte) /\ Len(p) = 3 /\ p[1] = h /\ p[2] = t /\ p[3] = c
    BY <1>1, <1>4, More
  <2>2. a = p \o <<e>>
    BY <1>2, <1>5, Zenon
  <2> HIDE DEF p
  <2>3. a \in Seq(T!Byte) /\ Len(a) = 4 /\ a[1] = h /\ a[2] = t /\ a[3] = c /\ a[4] = e
    <3>1. /\ a \in Seq(T!Byte) /\ Len(a) = Len(p) + 1 /\ a[Len(p) + 1] = e
          /\ \A i \in 1..Len(p) : a[i] = p[i]
      BY <1>1, <2>1, <2>2, More
    <3>2. Len(p) = 3 /\ 1 \in 1..3 /\ 2 \in 1..3 /\ 3 \in 1..3
      BY <2>1
    <3> QED
      BY <2>1, <3>1, <3>2
  <2>4. a # <<>>
    BY <2>3, EmptySeq
  <2>5. \A i \in 1..(Len(a) - 1) : Follows(a[i], a[i + 1])
    <3>1. Follows(a[1], a[2]) /\ Follows(a[2], a[3]) /\ Follows(a[3], a[4])
      BY <1>3, <2>3 DEF Follows
    <3>2. \A i \in 1..3 : i = 1 \/ i = 2 \/ i = 3
      OBVIOUS
    <3> QED
      BY <2>3, <3>1, <3>2
  <2>6. Lines(a, n, n)
    BY <1>3, <2>3, <2>4, <2>5 DEF Lines
  <2> QED
    BY <2>3, <2>4, <2>6 DEF a
<1>6. CASE cr = FALSE
  <2>1. <<h, t>> \o <<>> = <<h, t>>
    BY <1>4, ConcatEmptySeq
  <2>2. a = <<h, t>> \o <<e>>
    BY <1>2, <1>6, <2>1, Zenon
  <2>3. a \in Seq(T!Byte) /\ Len(a) = 3 /\ a[1] = h /\ a[2] = t /\ a[3] = e
    <3> DEFINE p == <<h, t>>
    <3>1. p \in Seq(T!Byte) /\ Len(p) = 2 /\ p[1] = h /\ p[2] = t
      BY <1>4
    <3>2. a = p \o <<e>>
      BY <2>2, Zenon
    <3> HIDE DEF a, p
    <3>3. /\ a \in Seq(T!Byte) /\ Len(a) = Len(p) + 1 /\ a[Len(p) + 1] = e
          /\ \A i \in 1..Len(p) : a[i] = p[i]
      BY <1>1, <3>1, <3>2, More
    <3> QED
      BY <3>1, <3>3
  <2>4. a # <<>>
    BY <2>3, EmptySeq
  <2>5. \A i \in 1..(Len(a) - 1) : Follows(a[i], a[i + 1])
    <3>1. Follows(a[1], a[2]) /\ Follows(a[2], a[3])
      BY <1>3, <2>3 DEF Follows
    <3>2. \A i \in 1..2 : i = 1 \/ i = 2
      OBVIOUS
    <3> QED
      BY <2>3, <3>1, <3>2
  <2>6. Lines(a, n, n)
    BY <1>3, <2>3, <2>4, <2>5 DEF Lines
  <2> QED
    BY <2>3, <2>4, <2>6 DEF a
<1> QED
  BY <1>5, <1>6

\* A line of this number is at the beginning of the bytes, and ends there.
LineEnds(bytes, e, n) ==
  /\ bytes[e].part = "end" /\ bytes[e].line = n
  /\ bytes[1].part = "head" /\ bytes[1].line = n
  /\ bytes[2].part = "tail" /\ bytes[2].line = n
  /\ e = 4 => bytes[3].part = "cr"
  /\ \A j \in 1..(e - 1) : bytes[j].part # "end"

NewlineAt(bytes, i) == bytes[i].part = "end"

\* A newline somewhere: the first line is whole, and how it is made.
LEMMA FirstLine ==
  ASSUME NEW u \in Seq(T!Byte), NEW first \in Nat, NEW last \in Nat, Lines(u, first, last),
         NEW i \in 1..Len(u), NewlineAt(u, i)
  PROVE  \E e \in {3, 4} : e <= i /\ LineEnds(u, e, first)
<1> USE DEF LineEnds, NewlineAt
<1>1. u # <<>> /\ Len(u) \in Nat
  BY EmptySeq
<1>2. u[1].part = "head" /\ u[1].line = first
  BY <1>1 DEF Lines
<1>3. \A j \in 1..(Len(u) - 1) : Follows(u[j], u[j + 1])
  BY DEF Lines
<1>4. i # 1 /\ i >= 2
  BY <1>2
<1>5. u[2].part = "tail" /\ u[2].line = first
  <2>1. Follows(u[1], u[1 + 1])
    BY <1>1, <1>3, <1>4
  <2> QED
    BY <1>2, <2>1 DEF Follows
<1>6. i # 2 /\ i >= 3
  BY <1>4, <1>5
<1>7. u[3].part \in {"cr", "end"} /\ u[3].line = first
  <2>1. Follows(u[2], u[2 + 1])
    BY <1>1, <1>3, <1>6
  <2> QED
    BY <1>5, <2>1 DEF Follows
<1>8. CASE u[3].part = "end"
  <2>1. \A j \in 1..(3 - 1) : u[j].part # "end"
    <3>1. \A j \in 1..(3 - 1) : j = 1 \/ j = 2
      OBVIOUS
    <3> QED
      BY <1>2, <1>5, <3>1
  <2> QED
    BY <1>2, <1>5, <1>6, <1>7, <1>8, <2>1
<1>9. CASE u[3].part = "cr"
  <2>1. i >= 4
    BY <1>6, <1>9
  <2>2. u[4].part = "end" /\ u[4].line = first
    <3>1. Follows(u[3], u[3 + 1])
      BY <1>1, <1>3, <2>1
    <3> QED
      BY <1>7, <1>9, <3>1 DEF Follows
  <2>3. \A j \in 1..(4 - 1) : u[j].part # "end"
    <3>1. \A j \in 1..(4 - 1) : j = 1 \/ j = 2 \/ j = 3
      OBVIOUS
    <3> QED
      BY <1>2, <1>5, <1>9, <3>1
  <2> QED
    BY <1>2, <1>5, <1>9, <2>1, <2>2, <2>3
<1> QED
  BY <1>7, <1>8, <1>9

\* What is left behind a line is the lines after it.
LEMMA LinesAfter ==
  ASSUME NEW u \in Seq(T!Byte), NEW v \in Seq(T!Byte), NEW first \in Nat, NEW last \in Nat,
         Lines(u, first, last), NEW e \in 1..Len(u), u[e].part = "end", u[e].line = first,
         Len(v) = Len(u) - e, \A i \in 1..Len(v) : v[i] = u[e + i]
  PROVE  Lines(v, first + 1, last)
<1>1. u # <<>> /\ Len(u) \in Nat /\ Len(v) \in Nat /\ (v = <<>> <=> Len(v) = 0)
  BY EmptySeq
<1>2. u[Len(u)].line = last /\ u[Len(u)].part = "end"
  BY <1>1 DEF Lines
<1>3. \A j \in 1..(Len(u) - 1) : Follows(u[j], u[j + 1])
  BY DEF Lines
<1>4. v = <<>> => last + 1 = first + 1
  BY <1>1, <1>2
<1>5. ASSUME v # <<>>
      PROVE  /\ v[1].line = first + 1 /\ v[1].part = "head"
             /\ v[Len(v)].line = last /\ v[Len(v)].part = "end"
  <2>1. e \in 1..(Len(u) - 1) /\ 1 \in 1..Len(v) /\ Len(v) \in 1..Len(v) /\ e + Len(v) = Len(u)
    BY <1>1, <1>5
  <2>2. v[1] = u[e + 1] /\ v[Len(v)] = u[Len(u)]
    BY <2>1
  <2>3. Follows(u[e], u[e + 1])
    BY <1>3, <2>1
  <2>4. u[e + 1].line = first + 1 /\ u[e + 1].part = "head"
    BY <2>3 DEF Follows
  <2> QED
    BY <1>2, <2>2, <2>4
<1>6. ASSUME NEW i \in 1..(Len(v) - 1) PROVE Follows(v[i], v[i + 1])
  <2>1. /\ i \in 1..Len(v) /\ i + 1 \in 1..Len(v) /\ e + i \in 1..(Len(u) - 1)
        /\ e + (i + 1) = (e + i) + 1
    <3> DEFINE l == Len(u)
               m == Len(v)
    <3>1. i \in Nat /\ 1 <= i /\ i <= m - 1 /\ e \in Nat /\ 1 <= e /\ m = l - e
          /\ l \in Nat /\ m \in Nat
      BY <1>1
    <3> HIDE DEF l, m
    <3>2. i \in 1..m /\ i + 1 \in 1..m
      BY <3>1
    <3>3. e + i \in 1..(l - 1) /\ e + (i + 1) = (e + i) + 1
      BY <3>1
    <3> QED
      BY <3>2, <3>3 DEF l, m
  <2>2. v[i] = u[e + i] /\ v[i + 1] = u[(e + i) + 1]
    BY <2>1
  <2> QED
    BY <1>3, <2>1, <2>2
<1> QED
  BY <1>4, <1>5, <1>6 DEF Lines

\* Bytes go from one place to another, and the stream stays what it was.
LEMMA Cut ==
  ASSUME NEW p \in Seq(T!Byte), NEW f \in Seq(T!Byte), NEW n \in 0..Len(f)
  PROVE  /\ SubSeq(f, 1, n) \in Seq(T!Byte) /\ SubSeq(f, n + 1, Len(f)) \in Seq(T!Byte)
         /\ p \o SubSeq(f, 1, n) \in Seq(T!Byte)
         /\ (p \o SubSeq(f, 1, n)) \o SubSeq(f, n + 1, Len(f)) = p \o f
<1> DEFINE a == SubSeq(f, 1, n)
           b == SubSeq(f, n + 1, Len(f))
<1>1. a \in Seq(T!Byte) /\ b \in Seq(T!Byte)
  <2>1. n \in Int /\ Len(f) \in Int /\ n + 1 \in Int /\ 1 \in Int
    BY LenProperties
  <2>2. \A i \in 1..n : f[i] \in T!Byte
    BY ElementOfSeq
  <2>3. \A i \in (n + 1)..Len(f) : f[i] \in T!Byte
    BY ElementOfSeq
  <2> QED
    BY <2>1, <2>2, <2>3, SubSeqProperties
<1>2. a \o b = f
  <2>1. SubSeq(f, 1, n) \o SubSeq(f, n + 1, Len(f)) = SubSeq(f, 1, Len(f))
    <3>1. 1 \in 1..(Len(f) + 1) /\ n \in (1 - 1)..Len(f) /\ Len(f) \in n..Len(f)
      BY LenProperties
    <3> QED
      BY <3>1, ConcatAdjacentSubSeq
  <2> QED
    BY <2>1, SubSeqFull
<1> HIDE DEF a, b
<1>3. p \o a \in Seq(T!Byte)
  BY <1>1, ConcatProperties
<1>4. (p \o a) \o b = p \o (a \o b)
  BY <1>1, ConcatAssociative
<1>5. (p \o a) \o b = p \o f
  BY <1>2, <1>4
<1> QED
  BY <1>1, <1>3, <1>5 DEF a, b

----------------------------------------------------------------------------
(* A transport under a session: its invariant.                             *)

\* What the instrument said and receive has not handed over, read or not, is
\* the rest of its lines.
Received ==
  /\ flight \in Seq(T!Byte) /\ mPending \in Seq(T!Byte)
  /\ got \in Seq(Seq(T!Byte)) /\ said \in 0..MaxLines
  /\ Lines(mPending \o flight, Len(got) + 1, said)
  /\ \A n \in 1..Len(got) : got[n] = Two(n)

\* The byte that belongs at a place of what the instrument has been sent.
Place(i) == T!LineOf(1 + ((i - 1) \div 3))[1 + ((i - 1) % 3)]

\* Until a send fails half way, the command in hand is at its place behind what
\* is out.
Delivered ==
  /\ wire \in Seq(T!Byte) /\ heard \in Seq(T!Byte) /\ told \in Nat
  /\ broken \in BOOLEAN
  /\ broken = FALSE =>
       /\ \A i \in 1..Len(heard) : heard[i] = Place(i)
       /\ act # "send" => Len(heard) = 3 * told
       /\ act = "send" => /\ Len(heard) + Len(wire) = 3 * (told + 1)
                          /\ Len(wire) <= 3
                          /\ \A i \in 1..Len(wire) : wire[i] = Place(Len(heard) + i)

\* What is open is what the caller has, and while it is being opened nothing is.
Opening ==
  /\ sockets \subseteq {mSocket}
  /\ act \in {"closed", "connecting", "opening"} => sockets = {}
  /\ act \in {"connecting", "opening"} => supported = TRUE

TransportInv == Received /\ Delivered /\ Opening

LEMMA PlacesOf ==
  ASSUME NEW n \in Nat
  PROVE  /\ Place(3 * n + 1) = T!LineOf(n + 1)[1]
         /\ Place(3 * n + 2) = T!LineOf(n + 1)[2]
         /\ Place(3 * n + 3) = T!LineOf(n + 1)[3]
<1>1. ASSUME NEW j \in {1, 2, 3} PROVE Place(3 * n + j) = T!LineOf(n + 1)[j]
  <2> DEFINE k == (3 * n + j) - 1
  <2>1. k \in Nat /\ k = 3 * n + (j - 1) /\ j - 1 \in 0..2
    OBVIOUS
  <2> HIDE DEF k
  <2>2. k \div 3 = n /\ k % 3 = j - 1
    BY <2>1
  <2>3. 1 + (k \div 3) = n + 1 /\ 1 + (k % 3) = j
    BY <2>2
  <2>4. Place(3 * n + j) = T!LineOf(1 + (k \div 3))[1 + (k % 3)]
    BY Zenon DEF Place, k
  <2> QED
    BY <2>3, <2>4, Zenon
<1> QED
  BY <1>1

LEMMA CommandIs ==
  ASSUME NEW n \in 1..(MaxLines + 1)
  PROVE  T!LineOf(n) \in Seq(T!Byte) /\ Len(T!LineOf(n)) = 3
<1>1. /\ [line |-> n, part |-> "head"] \in T!Byte /\ [line |-> n, part |-> "tail"] \in T!Byte
      /\ [line |-> n, part |-> "end"] \in T!Byte
  BY BytesAre
<1>2. ASSUME NEW h \in T!Byte, NEW t \in T!Byte, NEW e \in T!Byte
      PROVE  <<h, t, e>> \in Seq(T!Byte) /\ Len(<<h, t, e>>) = 3
  OBVIOUS
<1> QED
  BY <1>1, <1>2, Zenon DEF T!LineOf

\* A line without its newline is its two bytes.
LEMMA FrontIs ==
  ASSUME NEW n \in Nat
  PROVE  T!Front(T!LineOf(n)) = Two(n)
<1> DEFINE h == [line |-> n, part |-> "head"]
           t == [line |-> n, part |-> "tail"]
           e == [line |-> n, part |-> "end"]
<1>1. T!LineOf(n) = <<h, t, e>> /\ Two(n) = <<h, t>>
  BY Zenon DEF T!LineOf, Two
<1> HIDE DEF h, t, e
<1>2. T!Front(<<h, t, e>>) = SubSeq(<<h, t, e>>, 1, 2)
  <2>1. Len(<<h, t, e>>) - 1 = 2
    OBVIOUS
  <2> QED
    BY <2>1, Zenon DEF T!Front
<1>3. SubSeq(<<h, t, e>>, 1, 2) = <<h, t>>
  <2>1. /\ SubSeq(<<h, t, e>>, 1, 2) \in Seq({h, t, e})
        /\ Len(SubSeq(<<h, t, e>>, 1, 2)) = 2
        /\ \A i \in 1..2 : SubSeq(<<h, t, e>>, 1, 2)[i] = <<h, t, e>>[i]
    OBVIOUS
  <2>2. <<h, t>> \in Seq({h, t, e}) /\ Len(<<h, t>>) = 2
    OBVIOUS
  <2>3. \A i \in 1..2 : SubSeq(<<h, t, e>>, 1, 2)[i] = <<h, t>>[i]
    BY <2>1
  <2> QED
    BY <2>1, <2>2, <2>3, SeqEqual
<1> QED
  BY <1>1, <1>2, <1>3

LEMMA TransportStarts == T!Init => TransportInv
<1> SUFFICES ASSUME T!Init PROVE TransportInv
  OBVIOUS
<1> USE DEF T!Init
<1>1. Received
  <2>1. mPending \o flight = <<>>
    BY ConcatEmptySeq
  <2>2. Len(got) = 0 /\ Lines(<<>>, Len(got) + 1, said)
    BY DEF Lines
  <2> QED
    BY <2>1, <2>2, NatConstants DEF Received
<1>2. Delivered
  <2>1. /\ wire \in Seq(T!Byte) /\ heard \in Seq(T!Byte) /\ Len(heard) = 0 /\ told = 0
        /\ act # "send"
    OBVIOUS
  <2>2. broken \in BOOLEAN
    BY Zenon
  <2>3. \A i \in 1..Len(heard) : heard[i] = Place(i)
    BY <2>1
  <2> QED
    BY <2>1, <2>2, <2>3 DEF Delivered
<1>3. Opening
  BY DEF Opening
<1> QED
  BY <1>1, <1>2, <1>3 DEF TransportInv

LEMMA ReceivedStays ==
  ASSUME Received, UNCHANGED <<flight, mPending, got, said>>
  PROVE  Received'
BY DEF Received

LEMMA DeliveredStays ==
  ASSUME Delivered, UNCHANGED <<wire, heard, told, broken>>, act' = "send" <=> act = "send"
  PROVE  Delivered'
BY DEF Delivered

LEMMA OpeningStays ==
  ASSUME Opening, UNCHANGED <<supported, tried, mSocket, sockets>>,
         act' \in {"connecting", "opening", "closed"} => act' = act
  PROVE  Opening'
BY DEF Opening

\* Opening and closing touch no line.
LEMMA ComesAndGoes ==
  ASSUME TransportInv, T!Open \/ T!OpenVisa \/ T!Connect \/ T!Destroy
  PROVE  TransportInv'
<1> USE DEF T!sendVars, T!receiveVars
<1>1. Received /\ Delivered /\ Opening
  BY DEF TransportInv
<1>2. Received'
  BY <1>1, ReceivedStays DEF T!Open, T!OpenVisa, T!Connect, T!Destroy
<1>3. Delivered'
  <2>1. act # "send" /\ act' # "send"
    BY DEF T!Open, T!OpenVisa, T!Connect, T!Destroy
  <2>2. UNCHANGED <<wire, heard, told, broken>>
    BY DEF T!Open, T!OpenVisa, T!Connect, T!Destroy
  <2> QED
    BY <1>1, <2>1, <2>2, DeliveredStays
<1>4. Opening'
  <2>1. CASE T!Open
    <3>1. act = "closed" /\ UNCHANGED <<mSocket, sockets>>
      BY <2>1 DEF T!Open
    <3>2. act' \in {"connecting", "opening"} => supported' = TRUE
      <4> SUFFICES ASSUME act' \in {"connecting", "opening"} PROVE supported' = TRUE
        OBVIOUS
      <4>1. PICK address \in Kinds, there \in T!Around :
              /\ act' = IF address = "Lan" THEN "connecting"
                        ELSE IF T!VisaName(address, there) THEN "opening" ELSE "failed"
              /\ supported' = (act' # "failed" /\ T!IsSupported(address, there))
        BY <2>1, Zenon DEF T!Open
      <4>2. act' # "failed"
        OBVIOUS
      <4>3. address = "Lan" \/ T!VisaName(address, there)
        BY <4>1, <4>2
      <4>4. T!IsSupported(address, there)
        BY <4>3 DEF T!IsSupported, T!VisaName
      <4> QED
        BY <4>1, <4>2, <4>4, Zenon
    <3> QED
      BY <1>1, <3>1, <3>2 DEF Opening
  <2>2. CASE T!OpenVisa
    BY <1>1, <2>2 DEF T!OpenVisa, Opening
  <2>3. CASE T!Connect
    BY <1>1, <2>3 DEF T!Connect, T!Discarded, Opening
  <2>4. CASE T!Destroy
    BY <1>1, <2>4 DEF T!Destroy, Opening
  <2> QED
    BY <2>1, <2>2, <2>3, <2>4
<1> QED
  BY <1>2, <1>3, <1>4 DEF TransportInv

\* A command goes out.
LEMMA Sends ==
  ASSUME TransportInv, T!Send \/ (\E n \in 1..Len(wire) : T!Written(n)) \/ T!SendFails
  PROVE  TransportInv'
<1> USE DEF T!openVars, T!receiveVars
<1>1. Received /\ Delivered /\ Opening
  BY DEF TransportInv
<1>2. /\ wire \in Seq(T!Byte) /\ heard \in Seq(T!Byte) /\ told \in Nat
      /\ Len(wire) \in Nat /\ Len(heard) \in Nat
  BY <1>1, LenProperties DEF Delivered
<1>3. Received'
  BY <1>1, ReceivedStays DEF T!Send, T!Written, T!SendFails
<1>4. Opening'
  <2>1. UNCHANGED <<supported, tried, mSocket, sockets>>
    BY DEF T!Send, T!Written, T!SendFails
  <2>2. act' \in {"connecting", "opening", "closed"} => act' = act
    BY DEF T!Send, T!Written, T!SendFails
  <2> QED
    BY <1>1, <2>1, <2>2, OpeningStays
<1>5. Delivered'
  <2>1. CASE T!Send
    <3>1. /\ act = "idle" /\ told < MaxLines /\ act' = "send" /\ wire' = T!LineOf(told + 1)
          /\ UNCHANGED <<heard, told, broken>>
      BY <2>1 DEF T!Send
    <3>2. told + 1 \in 1..(MaxLines + 1)
      BY <1>2, <3>1, NatConstants
    <3>3. wire' \in Seq(T!Byte) /\ Len(wire') = 3
      BY <3>1, <3>2, CommandIs
    <3>4. ASSUME broken = FALSE
          PROVE  /\ \A i \in 1..Len(heard) : heard[i] = Place(i)
                 /\ Len(heard) + Len(wire') = 3 * (told + 1)
                 /\ \A i \in 1..Len(wire') : wire'[i] = Place(Len(heard) + i)
      <4>1. Len(heard) = 3 * told /\ \A i \in 1..Len(heard) : heard[i] = Place(i)
        BY <1>1, <3>1, <3>4 DEF Delivered
      <4>2. /\ Place(3 * told + 1) = wire'[1] /\ Place(3 * told + 2) = wire'[2]
            /\ Place(3 * told + 3) = wire'[3]
        BY <1>2, <3>1, PlacesOf
      <4>3. ASSUME NEW i \in 1..Len(wire') PROVE wire'[i] = Place(Len(heard) + i)
        <5>1. i = 1 \/ i = 2 \/ i = 3
          BY <3>3
        <5> QED
          BY <4>1, <4>2, <5>1
      <4> QED
        BY <1>2, <3>3, <4>1, <4>3
    <3>5. broken' = FALSE =>
            /\ \A i \in 1..Len(heard') : heard'[i] = Place(i)
            /\ Len(heard') + Len(wire') = 3 * (told' + 1)
            /\ \A i \in 1..Len(wire') : wire'[i] = Place(Len(heard') + i)
      <4> SUFFICES ASSUME broken' = FALSE
                   PROVE  /\ \A i \in 1..Len(heard') : heard'[i] = Place(i)
                          /\ Len(heard') + Len(wire') = 3 * (told' + 1)
                          /\ \A i \in 1..Len(wire') : wire'[i] = Place(Len(heard') + i)
        BY Zenon
      <4>1. broken = FALSE
        BY <3>1, Zenon
      <4>2. /\ \A i \in 1..Len(heard) : heard[i] = Place(i)
            /\ Len(heard) + Len(wire') = 3 * (told + 1)
            /\ \A i \in 1..Len(wire') : wire'[i] = Place(Len(heard) + i)
        BY <3>4, <4>1, Zenon
      <4>3. heard' = heard /\ told' = told
        BY <3>1
      <4>4. Len(heard') + Len(wire') = 3 * (told' + 1)
        BY <4>2, <4>3
      <4>5. \A i \in 1..Len(heard') : heard'[i] = Place(i)
        BY <4>2, <4>3
      <4>6. \A i \in 1..Len(wire') : wire'[i] = Place(Len(heard') + i)
        BY <4>2, <4>3
      <4> QED
        BY <4>4, <4>5, <4>6, Zenon
    <3>6. broken' \in BOOLEAN
      BY <1>1, <3>1, Zenon DEF Delivered
    <3>7. act' = "send" /\ heard' \in Seq(T!Byte) /\ told' \in Nat /\ Len(wire') <= 3
      <4>1. act' = "send" /\ heard' = heard /\ told' = told
        BY <3>1
      <4>2. Len(wire') <= 3
        BY <3>3
      <4> QED
        BY <1>2, <4>1, <4>2
    <3> QED
      BY <3>3, <3>5, <3>6, <3>7 DEF Delivered
  <2>2. CASE \E n \in 1..Len(wire) : T!Written(n)
    <3>1. PICK n \in 1..Len(wire) : T!Written(n)
      BY <2>2
    <3> DEFINE a == SubSeq(wire, 1, n)
               b == SubSeq(wire, n + 1, Len(wire))
    <3>2. /\ act = "send" /\ heard' = heard \o a /\ wire' = b /\ broken' = broken
          /\ told' = (IF n = Len(wire) THEN told + 1 ELSE told)
          /\ act' = (IF n = Len(wire) THEN "idle" ELSE act)
      BY <3>1 DEF T!Written, T!Remaining, T!ToldWhenOut
    <3>3. /\ a \in Seq(T!Byte) /\ Len(a) = n /\ \A i \in 1..n : a[i] = wire[i]
          /\ b \in Seq(T!Byte) /\ Len(b) = Len(wire) - n
          /\ \A i \in 1..(Len(wire) - n) : b[i] = wire[n + i]
      BY <1>2
    <3> HIDE DEF a, b
    <3>4. /\ heard' \in Seq(T!Byte) /\ Len(heard') = Len(heard) + n
          /\ \A i \in 1..(Len(heard) + n) :
               heard'[i] = IF i <= Len(heard) THEN heard[i] ELSE a[i - Len(heard)]
      BY <1>2, <3>2, <3>3, ConcatProperties, ZenonT(60)
    <3>5. told' \in Nat /\ wire' \in Seq(T!Byte)
      BY <1>2, <3>2, <3>3
    <3>6. ASSUME broken = FALSE
          PROVE  /\ \A i \in 1..Len(heard') : heard'[i] = Place(i)
                 /\ act' # "send" => Len(heard') = 3 * told'
                 /\ act' = "send" => /\ Len(heard') + Len(wire') = 3 * (told' + 1)
                                     /\ Len(wire') <= 3
                                     /\ \A i \in 1..Len(wire') : wire'[i] = Place(Len(heard') + i)
      <4>1. /\ \A i \in 1..Len(heard) : heard[i] = Place(i)
            /\ Len(heard) + Len(wire) = 3 * (told + 1)
            /\ Len(wire) <= 3
            /\ \A i \in 1..Len(wire) : wire[i] = Place(Len(heard) + i)
        BY <1>1, <3>2, <3>6 DEF Delivered
      <4>2. ASSUME NEW i \in 1..Len(heard') PROVE heard'[i] = Place(i)
        <5>1. CASE i <= Len(heard)
          <6>1. i \in 1..Len(heard) /\ i \in 1..(Len(heard) + n)
            BY <1>2, <3>4, <5>1
          <6> QED
            BY <3>4, <4>1, <5>1, <6>1
        <5>2. CASE ~(i <= Len(heard))
          <6>1. /\ i \in 1..(Len(heard) + n) /\ i - Len(heard) \in 1..n
                /\ i - Len(heard) \in 1..Len(wire) /\ Len(heard) + (i - Len(heard)) = i
            BY <1>2, <3>4, <5>2
          <6>2. heard'[i] = wire[i - Len(heard)]
            BY <3>3, <3>4, <5>2, <6>1
          <6> QED
            BY <4>1, <6>1, <6>2
        <5> QED
          BY <5>1, <5>2
      <4>3. ASSUME NEW i \in 1..Len(wire') PROVE wire'[i] = Place(Len(heard') + i)
        <5>1. /\ i \in 1..(Len(wire) - n) /\ n + i \in 1..Len(wire)
              /\ Len(heard') + i = Len(heard) + (n + i)
          BY <1>2, <3>2, <3>3, <3>4
        <5>2. wire'[i] = wire[n + i]
          BY <3>2, <3>3, <5>1
        <5> QED
          BY <4>1, <5>1, <5>2
      <4>4. act' # "send" => Len(heard') = 3 * told'
        BY <1>2, <3>2, <3>4, <4>1
      <4>5. act' = "send" => Len(heard') + Len(wire') = 3 * (told' + 1) /\ Len(wire') <= 3
        <5> SUFFICES ASSUME act' = "send"
                     PROVE  Len(heard') + Len(wire') = 3 * (told' + 1) /\ Len(wire') <= 3
          OBVIOUS
        <5>1. n # Len(wire) /\ told' = told
          BY <3>2
        <5>2. n \in Nat /\ Len(wire') = Len(wire) - n /\ Len(heard') = Len(heard) + n
          BY <3>2, <3>3, <3>4
        <5> QED
          BY <1>2, <4>1, <5>1, <5>2
      <4> QED
        BY <4>2, <4>3, <4>4, <4>5
    <3> QED
      BY <1>1, <3>2, <3>4, <3>5, <3>6 DEF Delivered
  <2>3. CASE T!SendFails
    <3>1. /\ broken' = TRUE /\ wire' = <<>> /\ told' = told
          /\ \E n \in 0..Len(wire) : heard' = heard \o SubSeq(wire, 1, n)
      <4>1. PICK n \in 0..(IF mSocket = "visa" THEN Len(wire) - 1 ELSE 0) :
              heard' = heard \o SubSeq(wire, 1, n)
        BY <2>3 DEF T!SendFails
      <4>2. n \in 0..Len(wire)
        BY <1>2
      <4> QED
        BY <2>3, <4>1, <4>2 DEF T!SendFails
    <3>2. heard' \in Seq(T!Byte)
      BY <1>2, <3>1, Cut
    <3> QED
      BY <1>2, <3>1, <3>2 DEF Delivered
  <2> QED
    BY <2>1, <2>2, <2>3
<1> QED
  BY <1>3, <1>4, <1>5 DEF TransportInv

\* The stream after what it was: the byte of a place.
LEMMA Stream ==
  ASSUME NEW p \in Seq(T!Byte), NEW q \in Seq(T!Byte)
  PROVE  /\ p \o q \in Seq(T!Byte) /\ Len(p \o q) = Len(p) + Len(q)
         /\ Len(p) \in Nat /\ Len(q) \in Nat
         /\ \A i \in 1..Len(p) : (p \o q)[i] = p[i]
         /\ \A i \in 1..Len(q) : (p \o q)[Len(p) + i] = q[i]
<1>1. /\ p \o q \in Seq(T!Byte) /\ Len(p \o q) = Len(p) + Len(q)
      /\ Len(p) \in Nat /\ Len(q) \in Nat
      /\ \A i \in 1..(Len(p) + Len(q)) : (p \o q)[i] = IF i <= Len(p) THEN p[i] ELSE q[i - Len(p)]
  BY ConcatProperties
<1>2. ASSUME NEW i \in 1..Len(p) PROVE (p \o q)[i] = p[i]
  <2>1. i \in 1..(Len(p) + Len(q)) /\ i <= Len(p)
    BY <1>1
  <2> QED
    BY <1>1, <2>1
<1>3. ASSUME NEW i \in 1..Len(q) PROVE (p \o q)[Len(p) + i] = q[i]
  <2>1. Len(p) + i \in 1..(Len(p) + Len(q)) /\ ~(Len(p) + i <= Len(p)) /\ (Len(p) + i) - Len(p) = i
    BY <1>1
  <2> QED
    BY <1>1, <2>1
<1> QED
  BY <1>1, <1>2, <1>3

LEMMA FirstTwo ==
  ASSUME NEW s \in Seq(T!Byte), 2 <= Len(s)
  PROVE  /\ SubSeq(s, 1, 2) \in Seq(T!Byte) /\ Len(SubSeq(s, 1, 2)) = 2
         /\ \A i \in 1..2 : SubSeq(s, 1, 2)[i] = s[i]
<1>1. \A i \in 1..2 : s[i] \in T!Byte
  BY ElementOfSeq
<1>2. \A i \in 1..2 : 1 + i - 1 = i
  OBVIOUS
<1> QED
  BY <1>1, <1>2, SubSeqProperties

\* What is handed over of a line with its newline at the third or the fourth byte.
LEMMA BodyIs ==
  ASSUME mPending \in Seq(T!Byte), NEW e \in {3, 4}, e <= Len(mPending), NEW n \in Nat,
         mPending[1].part = "head", mPending[1].line = n,
         mPending[2].part = "tail", mPending[2].line = n,
         e = 4 => mPending[3].part = "cr"
  PROVE  T!Body(e) = Two(n)
<1> DEFINE p == mPending
           line == SubSeq(p, 1, e - 1)
<1>1. p \in Seq(T!Byte) /\ Len(p) \in Nat /\ p[1] \in T!Byte /\ p[2] \in T!Byte
  BY LenProperties, ElementOfSeq
<1>2. p[1] = [line |-> n, part |-> "head"] /\ p[2] = [line |-> n, part |-> "tail"]
  BY <1>1, ByteIs, Zenon
<1>3. SubSeq(p, 1, 2) = Two(n)
  <2>1. Two(n) = <<p[1], p[2]>>
    BY <1>2, Zenon DEF Two
  <2> HIDE DEF p
  <2>2. SubSeq(p, 1, 2) \in Seq(T!Byte) /\ Len(SubSeq(p, 1, 2)) = 2
        /\ SubSeq(p, 1, 2)[1] = p[1] /\ SubSeq(p, 1, 2)[2] = p[2]
    BY <1>1
  <2>3. <<p[1], p[2]>> \in Seq(T!Byte) /\ Len(<<p[1], p[2]>>) = 2
    BY <1>1
  <2>4. \A i \in 1..2 : SubSeq(p, 1, 2)[i] = <<p[1], p[2]>>[i]
    BY <2>2
  <2>5. SubSeq(p, 1, 2) = <<p[1], p[2]>>
    BY <2>2, <2>3, <2>4, SeqEqual
  <2> QED
    BY <2>1, <2>5
<1> HIDE DEF p
<1>4. /\ line \in Seq(T!Byte) /\ Len(line) = e - 1
      /\ \A i \in 1..(e - 1) : line[i] = p[i]
  BY <1>1 DEF p
<1>5. T!Body(e) = IF line # <<>> /\ T!Last(line).part = "cr" THEN T!Front(line) ELSE line
  BY DEF T!Body, p
<1> HIDE DEF line
<1>6. line # <<>>
  BY <1>4, EmptySeq
<1>7. T!Last(line) = line[e - 1]
  BY <1>4, Zenon DEF T!Last
<1>8. CASE e = 3
  <2>1. line = SubSeq(p, 1, 2)
    BY <1>8 DEF line
  <2>2. T!Last(line) = p[2]
    BY <1>4, <1>7, <1>8
  <2>3. T!Last(line).part # "cr"
    BY <2>2 DEF p
  <2> QED
    BY <1>3, <1>5, <2>1, <2>3, Zenon
<1>9. CASE e = 4
  <2>1. T!Last(line) = p[3]
    BY <1>4, <1>7, <1>9
  <2>2. T!Last(line).part = "cr"
    BY <1>9, <2>1 DEF p
  <2>3. T!Front(line) = SubSeq(line, 1, 2)
    <3>1. Len(line) - 1 = 2
      BY <1>4, <1>9
    <3> QED
      BY <3>1, Zenon DEF T!Front
  <2>4. SubSeq(line, 1, 2) = SubSeq(p, 1, 2)
    <3>1. /\ SubSeq(line, 1, 2) \in Seq(T!Byte) /\ Len(SubSeq(line, 1, 2)) = 2
          /\ \A i \in 1..2 : SubSeq(line, 1, 2)[i] = line[i]
      <4>1. line \in Seq(T!Byte) /\ 2 <= Len(line)
        BY <1>4, <1>9
      <4> QED
        BY <4>1, FirstTwo
    <3>2. /\ SubSeq(p, 1, 2) \in Seq(T!Byte) /\ Len(SubSeq(p, 1, 2)) = 2
          /\ \A i \in 1..2 : SubSeq(p, 1, 2)[i] = p[i]
      BY <1>1, <1>9 DEF p
    <3>3. \A i \in 1..2 : SubSeq(line, 1, 2)[i] = SubSeq(p, 1, 2)[i]
      BY <1>4, <1>9, <3>1, <3>2
    <3> QED
      BY <3>1, <3>2, <3>3, SeqEqual
  <2> QED
    BY <1>3, <1>5, <1>6, <2>2, <2>3, <2>4, Zenon
<1> QED
  BY <1>8, <1>9

\* A line is handed over: it is the next one, whole.
LEMMA HandsOver ==
  ASSUME Received, T!HandOver
  PROVE  Received'
<1> DEFINE p == mPending
           q == flight
           u == p \o q
           first == Len(got) + 1
<1>1. /\ p \in Seq(T!Byte) /\ q \in Seq(T!Byte) /\ got \in Seq(Seq(T!Byte)) /\ said \in Nat
      /\ Lines(u, first, said) /\ Len(got) \in Nat
      /\ \A n \in 1..Len(got) : got[n] = Two(n)
  BY NatConstants, LenProperties DEF Received
<1>2. flight' = flight /\ said' = said
  BY DEF T!HandOver
<1>3. PICK i \in DOMAIN p : p[i].part = "end"
  BY Zenon DEF T!HandOver, T!Newlines
<1> DEFINE end == CHOOSE k \in T!Newlines : \A j \in T!Newlines : k <= j
<1>4. got' = Append(got, T!Body(end)) /\ mPending' = T!Rest(end)
  BY Zenon DEF T!HandOver
<1>5. T!Newlines = {k \in 1..Len(p) : p[k].part = "end"}
  BY <1>1 DEF T!Newlines
<1>6. i \in 1..Len(p)
  BY <1>1
<1> HIDE DEF p, q, end
<1>7. /\ u \in Seq(T!Byte) /\ Len(u) = Len(p) + Len(q) /\ Len(p) \in Nat /\ Len(q) \in Nat
      /\ \A k \in 1..Len(p) : u[k] = p[k]
      /\ \A k \in 1..Len(q) : u[Len(p) + k] = q[k]
  BY <1>1, Stream
<1> HIDE DEF u
<1>8. i \in 1..Len(u) /\ u[i].part = "end" /\ first \in Nat
  BY <1>1, <1>3, <1>6, <1>7
<1> HIDE DEF first
<1>9. PICK e \in {3, 4} : e <= i /\ LineEnds(u, e, first)
  <2>1. NewlineAt(u, i)
    BY <1>8 DEF NewlineAt
  <2> QED
    BY <1>1, <1>7, <1>8, <2>1, FirstLine
<1> USE DEF LineEnds
<1>10. e <= Len(p) /\ 1 \in 1..Len(p) /\ 2 \in 1..Len(p) /\ 3 \in 1..Len(p) /\ e \in 1..Len(p)
  BY <1>6, <1>7, <1>9
<1>11. p[1] = u[1] /\ p[2] = u[2] /\ p[3] = u[3] /\ p[e] = u[e]
  BY <1>7, <1>10
<1>12. end = e
  <2>1. e \in T!Newlines
    BY <1>5, <1>9, <1>10, <1>11
  <2>2. ASSUME NEW j \in T!Newlines PROVE e <= j
    <3>1. j \in 1..Len(p) /\ p[j].part = "end"
      BY <1>5
    <3>2. u[j].part = "end"
      BY <1>7, <3>1
    <3>3. ~(j \in 1..(e - 1))
      BY <1>9, <3>2
    <3> QED
      BY <1>7, <3>1, <3>3
  <2>3. end \in T!Newlines /\ \A j \in T!Newlines : end <= j
    BY <2>1, <2>2, Zenon DEF end
  <2>4. end <= e /\ e <= end /\ end \in 1..Len(p)
    BY <1>5, <2>1, <2>2, <2>3
  <2> QED
    BY <2>4
<1>13. T!Body(e) = Two(first)
  BY <1>1, <1>8, <1>9, <1>10, <1>11, BodyIs DEF p
<1> DEFINE r == SubSeq(p, e + 1, Len(p))
<1>14. mPending' = r
  BY <1>4, <1>12, Zenon DEF T!Rest, p
<1>15. r \in Seq(T!Byte) /\ Len(r) = Len(p) - e /\ \A k \in 1..(Len(p) - e) : r[k] = p[e + k]
  BY <1>1, <1>7, <1>10, SMTT(30)
<1> HIDE DEF r
<1> DEFINE v == r \o q
<1>16. /\ v \in Seq(T!Byte) /\ Len(v) = Len(r) + Len(q)
       /\ \A k \in 1..Len(r) : v[k] = r[k]
       /\ \A k \in 1..Len(q) : v[Len(r) + k] = q[k]
  BY <1>1, <1>15, Stream
<1> HIDE DEF v
<1>17. Len(v) = Len(u) - e /\ e \in 1..Len(u)
  BY <1>7, <1>10, <1>15, <1>16
<1>18. ASSUME NEW k \in 1..Len(v) PROVE v[k] = u[e + k]
  <2>1. CASE k <= Len(r)
    <3>1. k \in 1..Len(r) /\ k \in 1..(Len(p) - e) /\ e + k \in 1..Len(p)
      BY <1>7, <1>10, <1>15, <2>1
    <3> QED
      BY <1>7, <1>15, <1>16, <3>1
  <2>2. CASE ~(k <= Len(r))
    <3> DEFINE m == k - Len(r)
    <3>1. m \in 1..Len(q) /\ k = Len(r) + m /\ e + k = Len(p) + m
      BY <1>7, <1>10, <1>15, <1>16, <2>2
    <3> HIDE DEF m
    <3> QED
      BY <1>7, <1>16, <3>1
  <2> QED
    BY <2>1, <2>2
<1>19. Lines(v, first + 1, said)
  BY <1>1, <1>7, <1>8, <1>9, <1>16, <1>17, <1>18, LinesAfter
<1>20. mPending' \o flight' = v
  BY <1>2, <1>14, Zenon DEF v, q
<1>21. T!Body(e) \in Seq(T!Byte)
  <2>1. p[1] \in T!Byte /\ p[2] \in T!Byte
    BY <1>1, <1>10, ElementOfSeq
  <2>2. Two(first) = <<p[1], p[2]>>
    <3>1. /\ p[1] = [line |-> first, part |-> "head"]
          /\ p[2] = [line |-> first, part |-> "tail"]
      BY <1>9, <1>11, <2>1, ByteIs, Zenon
    <3> QED
      BY <3>1, Zenon DEF Two
  <2>3. <<p[1], p[2]>> \in Seq(T!Byte)
    BY <2>1
  <2> QED
    BY <1>13, <2>2, <2>3
<1>22. /\ got' \in Seq(Seq(T!Byte)) /\ Len(got') = first
       /\ \A n \in 1..Len(got) : got'[n] = got[n]
       /\ got'[first] = Two(first)
  <2>1. got' = Append(got, T!Body(e))
    BY <1>4, <1>12
  <2> QED
    BY <1>1, <1>13, <1>21, <2>1 DEF first
<1>23. \A n \in 1..Len(got') : got'[n] = Two(n)
  <2>1. \A n \in 1..Len(got') : n \in 1..Len(got) \/ n = first
    BY <1>1, <1>22 DEF first
  <2> QED
    BY <1>1, <1>22, <2>1
<1>24. Lines(mPending' \o flight', Len(got') + 1, said')
  BY <1>2, <1>19, <1>20, <1>22
<1>25. said' \in 0..MaxLines
  BY <1>2 DEF Received
<1>26. flight' \in Seq(T!Byte) /\ mPending' \in Seq(T!Byte)
  BY <1>1, <1>2, <1>14, <1>15 DEF q
<1> QED
  BY <1>22, <1>23, <1>24, <1>25, <1>26 DEF Received

\* Bytes arrive, whether the read that brought them runs out of time or not.
LEMMA Arrives ==
  ASSUME Received, NEW n \in 0..Len(flight),
         mPending' = mPending \o SubSeq(flight, 1, n),
         flight' = SubSeq(flight, n + 1, Len(flight)),
         UNCHANGED <<got, said>>
  PROVE  Received'
<1>1. flight \in Seq(T!Byte) /\ mPending \in Seq(T!Byte)
  BY DEF Received
<1>2. /\ flight' \in Seq(T!Byte) /\ mPending' \in Seq(T!Byte)
      /\ mPending' \o flight' = mPending \o flight
  BY <1>1, Cut
<1> QED
  BY <1>2 DEF Received

\* The instrument says a line.
LEMMA SaysALine ==
  ASSUME Received, T!Say
  PROVE  Received'
<1>1. /\ flight \in Seq(T!Byte) /\ mPending \in Seq(T!Byte) /\ said \in 0..MaxLines
      /\ Lines(mPending \o flight, Len(got) + 1, said) /\ Len(got) \in Nat
  BY LenProperties DEF Received
<1>2. said + 1 \in 1..MaxLines /\ said \in Nat
  BY <1>1, NatConstants DEF T!Say
<1>3. UNCHANGED <<mPending, got>> /\ said' = said + 1
  BY DEF T!Say
<1>4. PICK cr \in BOOLEAN : flight' = flight \o T!AnswerOf(said + 1, cr)
  BY DEF T!Say
<1> DEFINE a == T!AnswerOf(said + 1, cr)
<1>5. a \in Seq(T!Byte) /\ a # <<>> /\ Lines(a, said + 1, said + 1)
  BY <1>2, AnswerIsALine
<1> HIDE DEF a
<1>6. flight' = flight \o a
  BY <1>4 DEF a
<1>7. mPending \o flight \in Seq(T!Byte) /\ flight' \in Seq(T!Byte)
  BY <1>1, <1>5, <1>6, ConcatProperties
<1>8. Lines((mPending \o flight) \o a, Len(got) + 1, said + 1)
  <2> DEFINE u == mPending \o flight
             first == Len(got) + 1
  <2>1. u \in Seq(T!Byte) /\ Lines(u, first, said) /\ first \in Nat
    BY <1>1, <1>7
  <2> HIDE DEF u, first
  <2>2. Lines(u \o a, first, said + 1)
    BY <1>2, <1>5, <2>1, MoreLines
  <2> QED
    BY <2>2 DEF u, first
<1>9. (mPending \o flight) \o a = mPending \o flight'
  BY <1>1, <1>5, <1>6, ConcatAssociative, SMTT(30)
<1>10. Lines(mPending' \o flight', Len(got') + 1, said')
  BY <1>3, <1>8, <1>9
<1>11. said' \in 0..MaxLines
  BY <1>2, <1>3
<1> QED
  BY <1>3, <1>7, <1>10, <1>11 DEF Received

\* What is said is read, kept and handed over.
LEMMA Receives ==
  ASSUME TransportInv,
         T!Say \/ T!Receive \/ T!HandOver \/ T!Piece \/ T!TimeOut \/ T!Lose
  PROVE  TransportInv'
<1> USE DEF T!openVars, T!sendVars, T!receiveVars
<1>1. Received /\ Delivered /\ Opening
  BY DEF TransportInv
<1>2. Received'
  <2>1. CASE T!Say
    BY <1>1, <2>1, SaysALine
  <2>2. CASE T!Receive \/ T!Lose
    BY <1>1, <2>2, ReceivedStays DEF T!Receive, T!Lose
  <2>3. CASE T!HandOver
    BY <1>1, <2>3, HandsOver
  <2>4. CASE T!Piece
    <3>1. PICK n \in 1..Len(flight) :
               /\ mPending' = mPending \o SubSeq(flight, 1, n)
               /\ flight' = SubSeq(flight, n + 1, Len(flight))
      BY <2>4 DEF T!Piece
    <3>2. n \in 0..Len(flight) /\ UNCHANGED <<got, said>>
      BY <2>4 DEF T!Piece
    <3> QED
      BY <1>1, <3>1, <3>2, Arrives
  <2>5. CASE T!TimeOut
    <3>1. PICK n \in 0..(IF mSocket = "visa" THEN Len(flight) ELSE 0) :
               /\ mPending' = mPending \o SubSeq(flight, 1, n)
               /\ flight' = SubSeq(flight, n + 1, Len(flight))
      BY <2>5 DEF T!TimeOut, T!Kept
    <3>2. Len(flight) \in Nat
      BY <1>1, LenProperties DEF Received
    <3>3. n \in 0..Len(flight)
      BY <3>2
    <3>4. UNCHANGED <<got, said>>
      BY <2>5 DEF T!TimeOut
    <3> QED
      BY <1>1, <3>1, <3>3, <3>4, Arrives
  <2> QED
    BY <2>1, <2>2, <2>3, <2>4, <2>5
<1>3. Delivered' /\ Opening'
  <2>1. UNCHANGED <<wire, heard, told, broken>> /\ UNCHANGED <<supported, tried, mSocket, sockets>>
    BY DEF T!Say, T!Receive, T!HandOver, T!Piece, T!TimeOut, T!Lose
  <2>2. act' = "send" <=> act = "send"
    BY DEF T!Say, T!Receive, T!HandOver, T!Piece, T!TimeOut, T!Lose
  <2>3. act' \in {"connecting", "opening", "closed"} => act' = act
    BY DEF T!Say, T!Receive, T!HandOver, T!Piece, T!TimeOut, T!Lose
  <2> QED
    BY <1>1, <2>1, <2>2, <2>3, DeliveredStays, OpeningStays
<1> QED
  BY <1>2, <1>3 DEF TransportInv

LEMMA TransportSteps ==
  ASSUME TransportInv, [McNext]_mcVars
  PROVE  TransportInv'
<1>1. CASE UNCHANGED transportVars
  BY <1>1 DEF transportVars, TransportInv, Received, Delivered, Opening
<1>2. CASE T!Next
  BY <1>2, ComesAndGoes, Sends, Receives DEF T!Next
<1> QED
  BY <1>1, <1>2 DEF McNext, mcVars

\* In every behaviour the wire's bytes are the lines that were said and the
\* commands that were sent, each at its place, and nothing is left open.
THEOREM TransportStaysWhole == McSpec => []TransportInv
<1>1. McInit => TransportInv
  BY TransportStarts DEF McInit
<1>2. TransportInv /\ [McNext]_mcVars => TransportInv'
  BY TransportSteps
<1> QED
  BY <1>1, <1>2, PTL DEF McSpec

LEMMA PromiseOfTransport == TransportInv => TransportKeepsPromise
<1> SUFFICES ASSUME TransportInv PROVE TransportKeepsPromise
  OBVIOUS
<1>1. Received /\ Delivered /\ Opening
  BY DEF TransportInv
<1>2. T!LinesComeWhole
  <2>1. DOMAIN got = 1..Len(got) /\ Len(got) \in Nat
    BY <1>1, LenProperties DEF Received
  <2>2. ASSUME NEW n \in DOMAIN got PROVE got[n] = T!Front(T!LineOf(n))
    <3>1. n \in 1..Len(got) /\ n \in Nat
      BY <2>1
    <3> QED
      BY <1>1, <3>1, FrontIs DEF Received
  <2> QED
    BY <2>2, Zenon DEF T!LinesComeWhole
<1>3. T!CommandsGoWhole
  <2> SUFFICES ASSUME ~broken
               PROVE  /\ 3 * told <= Len(heard)
                      /\ \A i \in DOMAIN heard :
                           heard[i] = T!LineOf(1 + ((i - 1) \div 3))[1 + ((i - 1) % 3)]
    BY Zenon DEF T!CommandsGoWhole
  <2>1. broken = FALSE
    BY <1>1, Zenon DEF Delivered
  <2>2. /\ heard \in Seq(T!Byte) /\ wire \in Seq(T!Byte) /\ told \in Nat
        /\ \A i \in 1..Len(heard) : heard[i] = Place(i)
        /\ act # "send" => Len(heard) = 3 * told
        /\ act = "send" => Len(heard) + Len(wire) = 3 * (told + 1) /\ Len(wire) <= 3
    BY <1>1, <2>1, Zenon DEF Delivered
  <2>3. Len(heard) \in Nat /\ Len(wire) \in Nat /\ DOMAIN heard = 1..Len(heard)
    BY <2>2, LenProperties
  <2>4. 3 * told <= Len(heard)
    <3>1. CASE act = "send"
      <4>1. told \in Nat /\ Len(heard) + Len(wire) = 3 * (told + 1) /\ Len(wire) <= 3
        BY <2>2, <3>1
      <4> QED
        BY <2>3, <4>1
    <3>2. CASE act # "send"
      <4>1. told \in Nat /\ Len(heard) = 3 * told
        BY <2>2, <3>2
      <4> QED
        BY <2>3, <4>1
    <3> QED
      BY <3>1, <3>2
  <2>5. \A i \in DOMAIN heard : heard[i] = Place(i)
    BY <2>2, <2>3
  <2> QED
    BY <2>4, <2>5, Zenon DEF Place
<1>4. T!NothingLeftOpen
  BY <1>1, Zenon DEF Opening, T!NothingLeftOpen
<1> QED
  BY <1>2, <1>3, <1>4 DEF TransportKeepsPromise, T!KeepsItsPromise

\* What receive returns is what the instrument said, line by line, whole and in
\* order; what was sent is the commands, whole and in order, until a send fails
\* half way; and an opening that failed leaves nothing open (transport.hpp).
THEOREM TransportIsTrue == McSpec => []TransportKeepsPromise
BY TransportStaysWhole, PromiseOfTransport, PTL
=============================================================================
