----------------------------- MODULE Transport -----------------------------
(***************************************************************************)
(* hal::io::ITransport (framework/hal/src/io): lines over a stream of      *)
(* bytes. The socket transport writes until a command is out and reads     *)
(* until a newline; the VISA one writes in one go. Either keeps what it    *)
(* has read beyond a line, and what a read that ran out of time brought.   *)
(*                                                                         *)
(* A line is its body's bytes and an end; some instruments send a carriage *)
(* return before it. What is on its way arrives in pieces of any length.   *)
(***************************************************************************)
EXTENDS Naturals, Sequences, SequencesExt

CONSTANTS
  Kinds,      \* of address
  Candidates, \* what a host name resolves to, in order
  NoSocket,
  MaxLines,   \* bound: lines each way
  MaxBreaks   \* bound: interruptions and timeouts

\* What the constants have to be; the module that gives them values assumes it.
TransportConstants ==
  /\ Kinds \subseteq {"Lan", "Gpib", "Usb", "Serial", "Simulated"}
  /\ Candidates \in Seq(STRING)
  /\ MaxLines \in Nat /\ MaxBreaks \in Nat

VARIABLES
  supported,\* ghost: isSupported said so of the address that is being opened
  tried,    \* candidates that were tried
  mSocket,  \* the candidate that is connected, or the VISA session
  sockets,  \* ghost: sockets and VISA sessions that are open
  act,      \* what the caller is in: nothing, connect, send, receive
  wire,     \* bytes of the command that send has not written yet
  heard,    \* bytes the instrument has been sent
  told,     \* commands whose send returned
  flight,   \* bytes of answers on their way
  mPending, \* bytes read and not handed over
  got,      \* lines receive returned
  said,     \* ghost: answers the instrument has sent
  broken,   \* ghost: a send failed half way
  breaks

sendVars == <<wire, heard, told, broken>>
receiveVars == <<flight, mPending, got, said>>
openVars == <<supported, tried, mSocket, sockets>>
vars == <<openVars, act, sendVars, receiveVars, breaks>>

Byte == [line : 1..(MaxLines + 1), part : {"head", "tail", "cr", "end"}]

TypeOK ==
  /\ supported \in BOOLEAN
  /\ tried \in 0..Len(Candidates)
  /\ mSocket \in Range(Candidates) \cup {"visa", NoSocket}
  /\ sockets \subseteq Range(Candidates) \cup {"visa"}
  /\ act \in {"closed", "connecting", "opening", "idle", "send", "receive", "failed"}
  /\ \A bytes \in {wire, heard, flight, mPending} : bytes \in Seq(Byte)
  /\ told \in 0..MaxLines /\ said \in 0..MaxLines
  /\ breaks \in 0..MaxBreaks

Init ==
  /\ supported = FALSE
  /\ tried = 0
  /\ mSocket = NoSocket
  /\ sockets = {}
  /\ act = "closed"
  /\ wire = <<>> /\ heard = <<>> /\ told = 0 /\ broken = FALSE
  /\ flight = <<>> /\ mPending = <<>> /\ got = <<>> /\ said = 0
  /\ breaks = 0

----------------------------------------------------------------------------
(* Opening.                                                                *)

\* What there is besides the instrument: a VISA library, a USB instrument with
\* the serial number, a name VISA knows the serial port by.
Around == SUBSET {"library", "serial", "resource"}

\* isSupported: what preflight is told before anything is opened.
IsSupported(address, there) ==
  \/ address = "Lan"
  \/ address \in {"Gpib", "Usb"} /\ "library" \in there
  \/ address = "Serial" /\ {"library", "resource"} \subseteq there

\* openVisa, visaResourceFor and usbSerialOf: the library, and a name in it.
VisaName(address, there) ==
  /\ "library" \in there
  /\ CASE address = "Gpib" -> TRUE
       [] address = "Usb" -> "serial" \in there
       [] address = "Serial" -> "resource" \in there
       [] OTHER -> FALSE

\* openTransport: by the kind of address.
Open ==
  /\ act = "closed"
  /\ \E address \in Kinds, there \in Around :
       /\ act' = IF address = "Lan" THEN "connecting"
                 ELSE IF VisaName(address, there) THEN "opening" ELSE "failed"
       /\ supported' = (act' # "failed" /\ IsSupported(address, there))
  /\ UNCHANGED <<tried, mSocket, sockets, sendVars, receiveVars, breaks>>

\* VisaTransport's constructor: viOpen, or nothing is left open.
OpenVisa ==
  /\ act = "opening"
  /\ \/ mSocket' = "visa" /\ sockets' = sockets \cup {"visa"} /\ act' = "idle"
     \/ act' = "failed" /\ UNCHANGED <<mSocket, sockets>>
  /\ UNCHANGED <<supported, tried, sendVars, receiveVars, breaks>>

Discarded(c) == sockets \ {c}

\* SocketTransport's constructor: connectWithTimeout to each candidate.
Connect ==
  /\ act = "connecting"
  /\ LET c == Candidates[tried + 1] IN
     \/ /\ mSocket' = c
        /\ sockets' = sockets \cup {c}
        /\ act' = "idle"
     \/ /\ sockets' = Discarded(c)
        /\ act' = IF tried + 1 = Len(Candidates) THEN "failed" ELSE "connecting"
        /\ UNCHANGED mSocket
  /\ tried' = tried + 1
  /\ UNCHANGED <<supported, sendVars, receiveVars, breaks>>

\* The session is closed: the destructor closes what the constructor opened.
Destroy ==
  /\ act = "idle"
  /\ act' = "failed"
  /\ sockets' = sockets \ {mSocket}
  /\ mSocket' = NoSocket
  /\ UNCHANGED <<supported, tried, sendVars, receiveVars, breaks>>

----------------------------------------------------------------------------
(* send.                                                                   *)

LineOf(n) == <<[line |-> n, part |-> "head"], [line |-> n, part |-> "tail"],
               [line |-> n, part |-> "end"]>>

AnswerOf(n, cr) ==
  <<[line |-> n, part |-> "head"], [line |-> n, part |-> "tail"]>>
  \o (IF cr THEN <<[line |-> n, part |-> "cr"]>> ELSE <<>>)
  \o <<[line |-> n, part |-> "end"]>>

\* The command and its newline.
Send ==
  /\ act = "idle"
  /\ told < MaxLines
  /\ act' = "send"
  /\ wire' = LineOf(told + 1)
  /\ UNCHANGED <<openVars, heard, told, broken, receiveVars, breaks>>

Remaining(written) == SubSeq(wire, written + 1, Len(wire))

ToldWhenOut(n) == IF n = Len(wire) THEN told + 1 ELSE told

\* ::send takes some bytes; viWrite takes all of them.
Written(n) ==
  /\ act = "send"
  /\ mSocket = "visa" => n = Len(wire)
  /\ heard' = heard \o SubSeq(wire, 1, n)
  /\ wire' = Remaining(n)
  /\ told' = ToldWhenOut(n)
  /\ act' = IF n = Len(wire) THEN "idle" ELSE act
  /\ UNCHANGED <<openVars, broken, receiveVars, breaks>>

\* It runs out of time or fails, or VISA reports a truncated write: what is out
\* is out, and the next command follows it on the wire.
SendFails ==
  /\ act = "send"
  /\ breaks < MaxBreaks
  /\ breaks' = breaks + 1
  /\ act' = "idle"
  /\ broken' = TRUE
  /\ \E n \in 0..(IF mSocket = "visa" THEN Len(wire) - 1 ELSE 0) :
       heard' = heard \o SubSeq(wire, 1, n)
  /\ wire' = <<>>
  /\ UNCHANGED <<openVars, told, receiveVars>>

----------------------------------------------------------------------------
(* receive.                                                                *)

\* The instrument answers: with or without a carriage return, two lines at
\* once if it likes.
Say ==
  /\ act \in {"idle", "send", "receive"}
  /\ said < MaxLines
  /\ said' = said + 1
  /\ \E cr \in BOOLEAN : flight' = flight \o AnswerOf(said + 1, cr)
  /\ UNCHANGED <<openVars, act, sendVars, mPending, got, breaks>>

Receive ==
  /\ act = "idle"
  /\ Len(got) < MaxLines
  /\ act' = "receive"
  /\ UNCHANGED <<openVars, sendVars, receiveVars, breaks>>

Newlines == {i \in DOMAIN mPending : mPending[i].part = "end"}

Rest(end) == SubSeq(mPending, end + 1, Len(mPending))

\* Without its newline, and without a carriage return.
Body(end) ==
  LET line == SubSeq(mPending, 1, end - 1) IN
  IF line # <<>> /\ Last(line).part = "cr" THEN Front(line) ELSE line

\* The first newline in what is pending.
HandOver ==
  /\ act = "receive"
  /\ Newlines # {}
  /\ LET end == CHOOSE i \in Newlines : \A j \in Newlines : i <= j IN
       /\ got' = Append(got, Body(end))
       /\ mPending' = Rest(end)
  /\ act' = "idle"
  /\ UNCHANGED <<openVars, sendVars, flight, said, breaks>>

\* recv or viRead brings what has arrived.
Piece ==
  /\ act = "receive"
  /\ Newlines = {}
  /\ \E n \in 1..Len(flight) :
       /\ mPending' = mPending \o SubSeq(flight, 1, n)
       /\ flight' = SubSeq(flight, n + 1, Len(flight))
  /\ UNCHANGED <<openVars, act, sendVars, got, said, breaks>>

\* Mutant: a read that ran out of time brought nothing.
Discard(bytes) == mPending

Kept(bytes) == mPending \o bytes

\* TransportTimeout. VISA may have delivered bytes with it.
TimeOut ==
  /\ act = "receive"
  /\ Newlines = {}
  /\ breaks < MaxBreaks
  /\ breaks' = breaks + 1
  /\ act' = "idle"
  /\ \E n \in 0..(IF mSocket = "visa" THEN Len(flight) ELSE 0) :
       /\ mPending' = Kept(SubSeq(flight, 1, n))
       /\ flight' = SubSeq(flight, n + 1, Len(flight))
  /\ UNCHANGED <<openVars, sendVars, got, said>>

\* The instrument closed the connection, or VISA an empty read.
Lose ==
  /\ act = "receive"
  /\ Newlines = {}
  /\ flight = <<>>
  /\ breaks < MaxBreaks
  /\ breaks' = breaks + 1
  /\ act' = "idle"
  /\ UNCHANGED <<openVars, sendVars, receiveVars>>

Next ==
  \/ Open \/ OpenVisa \/ Connect \/ Destroy
  \/ Send \/ (\E n \in 1..Len(wire) : Written(n)) \/ SendFails
  \/ Say \/ Receive \/ HandOver \/ Piece \/ TimeOut \/ Lose

Spec == Init /\ [][Next]_vars

----------------------------------------------------------------------------
(* What must hold.                                                         *)

\* What receive returned is what the instrument said, line by line, whole and
\* in order, however it was cut on the way and whatever ran out of time
\* (transport.hpp, receive).
LinesComeWhole ==
  \A n \in DOMAIN got : got[n] = Front(LineOf(n))

\* What the instrument has been sent is the commands whose send returned, and
\* at most a part of the next, until a send fails half way: nothing is sent
\* twice or left out by a write that took a few bytes (transport.hpp, send).
CommandsGoWhole ==
  broken \/ /\ 3 * told <= Len(heard)
            /\ \A i \in DOMAIN heard :
                 heard[i] = LineOf(1 + ((i - 1) \div 3))[1 + ((i - 1) % 3)]

\* A transport that could not be opened leaves nothing open, nor does one that
\* is gone; and what preflight calls supported is what opens.
NothingLeftOpen ==
  /\ sockets \subseteq {mSocket}
  /\ act \in {"connecting", "opening"} => supported

\* What a session relies on when it is given a transport: its lines come and go
\* whole, whatever breaks in between, and a failed opening costs nothing.
KeepsItsPromise == LinesComeWhole /\ CommandsGoWhole /\ NothingLeftOpen
=============================================================================
