---------------------------- MODULE ScpiSession ----------------------------
(***************************************************************************)
(* hal::io::ScpiSession over a transport (framework/hal/src/io): commands  *)
(* without an answer, questions, and the instrument's error queue, which   *)
(* is the one way an instrument has of saying that it refused.             *)
(*                                                                         *)
(* A line carries no mark of the question it answers. An answer that comes *)
(* after its question has timed out is read by the next question.          *)
(*                                                                         *)
(* A call of a driver is a sequence of exchanges. The instrument may obey, *)
(* refuse, answer late or not at all, or be gone.                          *)
(***************************************************************************)
EXTENDS BoxConnection, SequencesExt

CONSTANTS
  QueueDepth, \* kMaximumQueueDepth of clearErrors()
  MaxLate,    \* bound: questions of a session that are not answered in time
  MaxRefused  \* bound: errors waiting in the instrument's queue

ASSUME ScpiAssumption == {QueueDepth, MaxLate, MaxRefused} \subseteq Nat

\* clearErrors() reads as often as an instrument's queue is deep, and once more.
\* A box may have an error waiting when it is found.
ASSUME QueueFits == 0 < MaxRefused /\ MaxRefused < QueueDepth

VARIABLES
  wires,   \* by address: the answers that nobody has read, and ghosts
  errors,  \* by address: the instrument's error queue
  right,   \* by address: whether the box is the model the driver is for
  call     \* the driver's call that is under way

wireVars == <<wires, errors, right, call>>
vars == <<boxVars, wireVars>>

\* An answer. own: the error it names was provoked by the command sent last.
\* old: another question was asked since its own.
Reply == [kind : {"number", "zero", "text", "entry", "clean"}, own : BOOLEAN, old : BOOLEAN]

\* dead: the connection is gone. Ghosts: late, the questions that ran out of
\* time; lagged, one of them was answered afterwards; littered, the queue holds
\* an error that no checked command provoked; met, the families that have seen
\* this session's model.
NewWire == [stream |-> <<>>, dead |-> FALSE, late |-> 0, lagged |-> FALSE,
            littered |-> FALSE, met |-> {}]

NoCall == [face |-> NoLink, family |-> "none", op |-> "none", todo |-> <<>>, end |-> "ok",
           obeyed |-> {}, wanted |-> {}, took |-> "own", blamed |-> "own"]

WireTypeOK ==
  /\ \A k \in Keys :
       /\ wires[k].stream \in Seq(Reply)
       /\ Len(wires[k].stream) <= MaxLate
       /\ wires[k].late \in 0..MaxLate
       /\ errors[k] \in Seq({"own", "old"})
       /\ Len(errors[k]) <= MaxRefused
  /\ right \in [Keys -> BOOLEAN]
  /\ call.end \in {"ok", "fault", "timeout", "transport"}
  /\ call.took \in {"own", "old"} /\ call.blamed \in {"own", "old", "nothing"}

WireInit ==
  /\ wires = [k \in Keys |-> NewWire]
  /\ \E queue \in {<<>>, <<"old">>} :
       errors = [k \in Keys |-> IF k \in Addresses THEN queue ELSE <<>>]
  /\ \E model \in BOOLEAN : right = [k \in Keys |-> k \in Addresses => model]
  /\ call = NoCall

----------------------------------------------------------------------------
(* The exchanges a driver's call is made of. "what" names the command.     *)

Write(c) == [do |-> "write", what |-> c]
Checked(c) == [do |-> "checked", what |-> c]
Ask(q, wants) == [do |-> "ask", what |-> q, wants |-> wants, own |-> FALSE]
\* The 34980A's meter looks at the queue again when a reading is late, and also
\* when it is not.
AskMeter(q) == [do |-> "ask", what |-> q, wants |-> "number", own |-> TRUE]
CheckOnce(q) == [do |-> "once", what |-> q]
Identify == Ask("*IDN?", "model")
WaitForComplete == Ask("*OPC?", "any")
\* late: what comes of an exchange that fails. It is let out, or the timeout it
\* followed is, or that timeout has the meter look again.
ClearErrors == [do |-> "drain", what |-> "none", left |-> QueueDepth, late |-> "thrown"]
Prepared(family) == [do |-> "prepared", what |-> family]

Busy == call.todo # <<>>
Wire == mLink[call.face]
Token == Head(call.todo)
Rest == Tail(call.todo)

\* What the next question finds in the stream is older than the question.
Aged(s) == [i \in DOMAIN s |-> [s[i] EXCEPT !.old = TRUE]]
Stale(q) == [i \in DOMAIN q |-> "old"]

----------------------------------------------------------------------------
(* Calls.                                                                  *)

\* A driver's operation on face f: what its family has to do first, and then
\* its own exchanges.
StartCall(f, op, family, preparation, exchanges) ==
  /\ ~Busy
  /\ ~IsSimulated(f)
  /\ Session(f)
  /\ wires' = [wires EXCEPT ![LinkOf(f)] = IF links[LinkOf(f)].session THEN @ ELSE NewWire]
  /\ call' = [NoCall EXCEPT
       !.face = f,
       !.family = family,
       !.op = op,
       !.todo = (IF MustPrepare(f, family) THEN preparation \o <<Prepared(family)>> ELSE <<>>)
                \o exchanges,
       !.wanted = {x.what : x \in {y \in Range(exchanges) : y.do = "checked"}}]
  /\ UNCHANGED <<errors, right>>

\* A safe(): only down a session that is open, unchecked, without preparation.
StartSafing(f, op, exchanges) ==
  /\ ~Busy
  /\ HeldLink(f) # NoLink
  /\ links[HeldLink(f)].session
  /\ Keep(f)
  /\ call' = [NoCall EXCEPT !.face = f, !.op = op, !.todo = exchanges]
  /\ UNCHANGED <<mAddress, links, wires, errors, right>>

Goes(todo) == call' = [call EXCEPT !.todo = todo]

\* A transport's error ends a safing quietly (sendSafe's catch).
Throws(what) ==
  call' = [call EXCEPT !.todo = <<>>,
             !.end = IF call.op = "safe" /\ what # "fault" THEN "ok" ELSE what]

----------------------------------------------------------------------------
(* A line goes out: the instrument queues an error or obeys.               *)

Refusals == {<<"own">>, <<"own", "own">>}
CanQueue(r) == Len(errors[Wire]) + Len(r) <= MaxRefused

LookAgain(t) == <<[do |-> "again", what |-> t.what]>>

\* queryChecked: nothing was found, or what was asked failed.
LetTimeoutOut(t) ==
  IF t.late = "again" THEN Goes(LookAgain(t)) ELSE Throws("timeout")

Fails(t, what) ==
  IF t.do \in {"why", "drain"} /\ t.late # "thrown" THEN LetTimeoutOut(t) ELSE Throws(what)

\* The connection is gone: every exchange fails from here on.
Break ==
  /\ Busy
  /\ Token.do \notin {"prepared", "fault"}
  /\ wires' = [wires EXCEPT ![Wire].dead = TRUE]
  /\ Fails(Token, "transport")
  /\ UNCHANGED <<boxVars, errors, right>>

Live == Busy /\ ~wires[Wire].dead

\* Mutant: nobody asks.
SentOnly(t) == Rest

Sent(t) ==
  IF t.do = "write" THEN Rest ELSE <<[do |-> "error?", what |-> t.what]>> \o Rest

Obey ==
  /\ Live
  /\ Token.do \in {"write", "checked"}
  /\ errors' = [errors EXCEPT ![Wire] = Stale(@)]
  /\ call' = [call EXCEPT !.obeyed = @ \cup {Token.what}, !.todo = Sent(Token)]
  /\ UNCHANGED <<boxVars, wires, right>>

Refuse ==
  /\ Live
  /\ Token.do \in {"write", "checked"}
  /\ \E r \in Refusals :
       /\ CanQueue(r)
       /\ errors' = [errors EXCEPT ![Wire] = Stale(@) \o r]
  /\ wires' = [wires EXCEPT ![Wire].littered = @ \/ Token.do = "write"]
  /\ Goes(Sent(Token))
  /\ UNCHANGED <<boxVars, right>>

----------------------------------------------------------------------------
(* A question, and the answer that is read for it.                         *)

\* The answers the instrument may give to the question of token t.
Answers(t) ==
  IF t.do # "ask"
  THEN {[kind |-> IF errors[Wire] = <<>> THEN "clean" ELSE "entry",
         own |-> errors[Wire] # <<>> /\ Head(errors[Wire]) = "own", old |-> FALSE]}
  ELSE {[kind |-> k, own |-> FALSE, old |-> FALSE] :
          k \in CASE t.wants \in {"model", "text"} -> {"text"}
                  [] t.wants = "yes" -> IF right[Wire] THEN {"number"} ELSE {"zero"}
                  [] OTHER -> {"number"}}

\* What the question does to the queue: SYST:ERR? takes an entry; one that is
\* answered may still add some, as when a meter clamps its range.
AfterAsking(t) ==
  LET queue == errors[Wire] IN
  IF t.do = "ask"
  THEN {Stale(queue)} \cup {Stale(queue) \o r : r \in {e \in Refusals : CanQueue(e)}}
  ELSE {IF queue = <<>> THEN <<>> ELSE Tail(queue)}

\* queryChecked: look at the queue, and fail with the timeout or the fault.
AskWhy(t) ==
  <<[do |-> "why", what |-> t.what, late |-> IF t.own THEN "again" ELSE "timeout"]>>

RanOut(t) ==
  IF t.do = "ask" THEN Goes(AskWhy(t)) ELSE Fails(t, "timeout")

\* nextError: an entry, or none, also when the line is no entry at all.
IsEntry(r) == r.kind = "entry"

\* own, also of an entry that was left there before: nobody can tell.
Fault(t, r) == [do |-> "fault", what |-> t.what,
                own |-> (r.own /\ ~r.old) \/ wires[Wire].littered]

\* Mutant: what a bad command queued beside the first stays there.
FirstOnly(t, r) == <<Fault(t, r)>>

\* checked and queryChecked drain the queue before they throw; the meter's own
\* looks do not.
FaultAfter(t, r) ==
  CASE t.do \in {"once", "again"} -> <<Fault(t, r)>>
    [] t.do = "why" -> <<[ClearErrors EXCEPT !.what = t.what, !.late = t.late], Fault(t, r)>>
    [] OTHER -> <<ClearErrors, Fault(t, r)>>

\* The line read for an "ask": what a driver makes of it.
Understood(t, r) ==
  CASE t.wants = "any" -> TRUE
    [] t.wants = "text" -> TRUE
    [] t.wants = "model" -> r.kind = "text" /\ right[Wire]
    [] t.wants = "yes" -> r.kind = "number"
    [] OTHER -> r.kind \in {"number", "zero"}

\* verifyIdentity and the meter's two questions fail with a fault of their own;
\* a line that is no number is a session out of step.
Misread(t, r) ==
  IF t.wants = "model" \/ (t.wants = "yes" /\ r.kind = "zero") THEN "fault" ELSE "transport"

\* Mutant: until the queue is empty.
Drained(t) == t

OneLess(t) == [t EXCEPT !.left = @ - 1]

\* The meter's read looks at the queue when it has its reading.
Looked(t) == IF t.own THEN <<CheckOnce(t.what)>> \o Rest ELSE Rest

Reads(t, r) ==
  CASE t.do = "ask" ->
         IF Understood(t, r)
         THEN call' = [call EXCEPT !.todo = Looked(t),
                 !.took = IF r.old /\ t.wants \in {"number", "text"} THEN "old" ELSE @]
         ELSE call' = [call EXCEPT !.todo = <<>>, !.end = Misread(t, r), !.blamed = "nothing"]
    [] t.do = "why" -> IF IsEntry(r) THEN Goes(FaultAfter(t, r)) ELSE LetTimeoutOut(t)
    [] t.do = "again" -> IF IsEntry(r) THEN Goes(FaultAfter(t, r)) ELSE Throws("timeout")
    [] t.do = "drain" ->
         Goes(IF IsEntry(r) /\ t.left > 1
              THEN <<OneLess(t)>> \o Rest ELSE Rest)
    [] OTHER -> Goes(IF IsEntry(r) THEN FaultAfter(t, r) ELSE Rest)

Asking == Live /\ Token.do \in {"ask", "why", "again", "drain", "error?", "once"}

NextLine(s) == Head(s)

\* The preparation has seen the model.
Met(t, r) ==
  IF t.do = "ask" /\ t.wants = "model" /\ Understood(t, r)
  THEN wires[Wire].met \cup {call.family} ELSE wires[Wire].met

\* The answer a leaves an error that no look of this call's is for.
Litters(t, a, queue) ==
  \/ t.do \in {"once", "again"} /\ IsEntry(a)
  \/ t.do = "ask" /\ ~t.own /\ queue # Stale(errors[Wire])

\* The answer comes in time, behind those that came too late.
Answer ==
  /\ Asking
  /\ \E a \in Answers(Token), queue \in AfterAsking(Token) :
       LET s == Aged(wires[Wire].stream) \o <<a>> IN
       /\ Reads(Token, NextLine(s))
       /\ wires' = [wires EXCEPT ![Wire].stream = Tail(s),
            ![Wire].met = Met(Token, NextLine(s)),
            ![Wire].littered = (@ /\ ~(Token.do = "drain" /\ ~IsEntry(a)))
                               \/ Litters(Token, a, queue)]
       /\ errors' = [errors EXCEPT ![Wire] = queue]
  /\ UNCHANGED <<boxVars, right>>

\* There is none, or the question is refused: an older line, or nothing.
Ignored(queue) ==
  /\ Asking
  /\ wires[Wire].late < MaxLate
  /\ LET s == Aged(wires[Wire].stream) IN
       IF s = <<>>
       THEN /\ wires' = [wires EXCEPT ![Wire].late = @ + 1]
            /\ RanOut(Token)
       ELSE /\ wires' = [wires EXCEPT ![Wire].late = @ + 1, ![Wire].stream = Tail(s),
                 ![Wire].met = Met(Token, NextLine(s))]
            /\ Reads(Token, NextLine(s))
  /\ errors' = [errors EXCEPT ![Wire] = queue]
  /\ UNCHANGED <<boxVars, right>>

Silence == Ignored(errors[Wire])

RefuseQuestion ==
  \E r \in Refusals :
    /\ Asking
    /\ Token.do = "ask"
    /\ CanQueue(r)
    /\ Ignored(Stale(errors[Wire]) \o r)

\* It comes when nobody waits any more.
AnswerLate ==
  /\ Asking
  /\ wires[Wire].late < MaxLate
  /\ wires[Wire].stream = <<>>
  /\ \E a \in Answers(Token) : wires' = [wires EXCEPT ![Wire].late = @ + 1,
       ![Wire].lagged = TRUE, ![Wire].stream = <<a>>]
  /\ RanOut(Token)
  /\ \E queue \in AfterAsking(Token) : errors' = [errors EXCEPT ![Wire] = queue]
  /\ UNCHANGED <<boxVars, right>>

\* ScpiFault, with the command the driver was at.
Raise ==
  /\ Busy
  /\ Token.do = "fault"
  /\ call' = [call EXCEPT !.todo = <<>>, !.end = "fault",
       !.blamed = IF Token.own THEN "own" ELSE "old"]
  /\ UNCHANGED <<boxVars, wires, errors, right>>

\* The queue of a box that keeps complaining is full again.
Complain ==
  /\ Asking
  /\ Token.do = "drain"
  /\ CanQueue(<<"old">>)
  /\ errors' = [errors EXCEPT ![Wire] = Append(@, "old")]
  /\ wires' = [wires EXCEPT ![Wire].littered = TRUE]
  /\ UNCHANGED <<boxVars, right, call>>

\* The preparation returned.
FinishPreparing ==
  /\ Busy
  /\ Token.do = "prepared"
  /\ MarkPrepared(Wire, Token.what)
  /\ Goes(Rest)
  /\ UNCHANGED <<wires, errors, right>>

Exchanges ==
  \/ Obey \/ Refuse \/ Break
  \/ Answer \/ AnswerLate \/ Silence \/ RefuseQuestion
  \/ Raise \/ FinishPreparing

----------------------------------------------------------------------------
(* What must hold.                                                         *)

Returned == ~Busy /\ call.end = "ok" /\ call.op \notin {"none", "safe"}

\* As long as no answer of a session was late, what a call returns is the
\* answer to its own question, and a call that returns has had every checked
\* command obeyed (scpi.hpp, checked and queryNumber).
TellsTheTruth ==
  Returned => \/ wires[Wire].lagged
              \/ call.took = "own" /\ call.wanted \subseteq call.obeyed

\* A fault's error was provoked by the command it names, unless a question of
\* the session ran out of time, or an unchecked command, a question that was
\* answered or a meter's reading left an error behind (scpi.hpp, ScpiFault and
\* clearErrors).
BlameIsFair ==
  call.blamed = "old" => wires[Wire].late > 0

\* LinksInOrder, and: a family's mark is on a session whose model it has seen,
\* not on one that a sibling closed or replaced (box_connection.hpp).
SharedInStep ==
  /\ LinksInOrder
  /\ \A k \in Keys : links[k].session => links[k].prepared \subseteq wires[k].met

\* Every call ends, also against a box whose error queue never does
\* (kMaximumQueueDepth).
CallsEnd == Busy ~> ~Busy
=============================================================================
