------------------------------- MODULE MCWire -------------------------------
(***************************************************************************)
(* The wire at both of its levels, one per behaviour: the faces of a box   *)
(* and their calls over one SCPI session, and a transport under a session. *)
(*                                                                         *)
(* Each box of the rig, at one of two addresses or simulated: the          *)
(* mainframe with its meter, the bench meter, a supply with two outputs of *)
(* one family, the generators, and a scope behind a library. A host name   *)
(* with two addresses, a few lines each way, two breaks.                   *)
(***************************************************************************)
EXTENDS Drivers

CONSTANTS Kinds, Candidates, NoSocket, MaxLines, MaxBreaks

McBoxes ==
  {[a |-> "switches", b |-> "dmm"], [a |-> "meter", b |-> "library"],
   [a |-> "supply", b |-> "supply"], [a |-> "generator", b |-> "wgen"]}

McCandidates == <<"v6", "v4">>

VARIABLES
  which,  \* the level of this behaviour
  supported, tried, mSocket, sockets, act, wire, heard, told, broken,
  flight, mPending, got, said, breaks

transportVars ==
  <<supported, tried, mSocket, sockets, act, wire, heard, told, broken,
    flight, mPending, got, said, breaks>>
mcVars == <<which, driverVars, transportVars>>

T == INSTANCE Transport

ASSUME TransportAssumption == T!TransportConstants

McInit ==
  /\ which \in {"session", "transport"}
  /\ T!Init
  /\ Init
  /\ which = "transport" =>
       /\ box = CHOOSE any \in Boxes : TRUE
       /\ mAddress = [f \in Faces |-> Simulated]
       /\ \A k \in Addresses : errors[k] = <<>> /\ right[k]

McNext ==
  \/ which = "session" /\ Next /\ UNCHANGED <<which, transportVars>>
  \/ which = "transport" /\ T!Next /\ UNCHANGED <<which, driverVars>>

Fairly == which = "session" /\ Exchanges /\ UNCHANGED <<box, which, transportVars>>

McSpec == McInit /\ [][McNext]_mcVars /\ WF_mcVars(Fairly)

----------------------------------------------------------------------------
\* A transport's lines come and go whole and in order, whatever is cut or runs
\* out of time on the way, and what a failed opening began is closed
\* (transport.hpp, send and receive).
TransportKeepsPromise == T!KeepsItsPromise
=============================================================================
