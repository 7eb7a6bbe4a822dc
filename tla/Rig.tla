-------------------------------- MODULE Rig --------------------------------
(***************************************************************************)
(* A run_scripts process and the bench: the stimulus, routing and routed   *)
(* Measure verbs (framework/core/include/core/verbs/), the supply's driver *)
(* (instruments/keysight_edu36311a), the switch unit's relays, and safing  *)
(* (framework/hal/src/verbs/safing.cpp). Rails and relays outlive the      *)
(* process; what the driver remembers and the open sessions do not.        *)
(*                                                                         *)
(* A script is any sequence of verbs. It may go on after one that threw    *)
(* (a catch, or the teardown hooks), and the process may die anywhere.     *)
(***************************************************************************)
EXTENDS SwitchFabric

CONSTANTS
  Sources,    \* supply outputs
  Readings,   \* routed Measures: each is the route it closes
  SourceOf,   \* the source a Connect's route belongs to
  LandsAt,    \* the source cabled onto the pin a reading is taken at, or NoSource
  LowZ,       \* the readings that require a dead node
  SwitchUnit, \* the box with the relays
  NoSource

ASSUME RigAssumption ==
  /\ Readings \subseteq Holds
  /\ SourceOf \in [Holds \ Readings -> Sources]
  /\ LandsAt \in [Readings -> Sources \cup {NoSource}]
  /\ LowZ \subseteq Readings
  /\ NoSource \notin Sources
  /\ SwitchUnit \notin Sources

VARIABLES
  mode,       \* what the process was started for: a run, or --safe
  stage,      \* how far it is
  mAttached,
  hot,        \* hotSwitched: what the routing verb that runs posts, if it returns
  toSafe,     \* sources whose safe() is still to come
  mEnabled,   \* the driver's memory: this process turned the output on
  rail,       \* whether the output is on
  doubt,      \* ghost: outputs that may be on although no driver remembers it
  lost        \* ghost: boxes the safing wrote to and that did not obey

processVars == <<mode, stage, mAttached>>
driverVars == <<mEnabled, rail, doubt>>
safingVars == <<toSafe, lost>>
vars == <<fabricVars, processVars, hot, safingVars, driverVars>>

TypeOK ==
  /\ FabricTypeOK
  /\ mode \in {"run", "--safe"}
  /\ stage \in {"script", "safing", "forgetting", "ended", "died"}
  /\ mAttached \in BOOLEAN
  /\ hot \in BOOLEAN
  /\ toSafe \subseteq Sources
  /\ mEnabled \in [Sources -> BOOLEAN]
  /\ rail \in [Sources -> BOOLEAN]
  /\ doubt \subseteq Sources
  /\ lost \subseteq Sources \cup {SwitchUnit}

Init ==
  /\ FabricInit
  /\ mode = "run"
  /\ stage = "ended"
  /\ mAttached = TRUE
  /\ hot = FALSE
  /\ toSafe = {}
  /\ mEnabled = [s \in Sources |-> FALSE]
  /\ rail = [s \in Sources |-> FALSE]
  /\ doubt = {}
  /\ lost = {}

----------------------------------------------------------------------------
(* A process starts: a run, attached or not, or --safe, which is attached. *)

Gone == stage \in {"ended", "died"}

Start(why, attached) ==
  /\ Gone
  /\ mode' = why
  /\ mAttached' = attached
  /\ stage' = IF why = "run" THEN "script" ELSE "safing"
  /\ toSafe' = IF why = "run" THEN {} ELSE Sources
  /\ lost' = {}
  /\ UNCHANGED <<fabricVars, hot, driverVars>>

\* Mutant: the sessions are opened by nobody before the safing.
NotYetOpen == FALSE

\* contactInstruments() opens a session to every box of an attached run before
\* its first script. --safe opens none, and safing never does.
SessionOpen == mode = "run" /\ mAttached

\* The process is gone: with it the driver's memory and the uses.
Vanish(how) ==
  /\ ForgetUses
  /\ stage' = how
  /\ mEnabled' = [s \in Sources |-> FALSE]
  /\ doubt' = {s \in Sources : rail[s]}
  /\ hot' = FALSE
  /\ toSafe' = {}
  /\ UNCHANGED <<mode, mAttached, rail, lost>>

----------------------------------------------------------------------------
(* The verbs of a script.                                                  *)

\* core::bench().isAttached(): without a bench a verb posts its event only.
Reaches == mAttached

Ready == stage = "script" /\ At("idle") /\ Reaches

Exchange == {"done", "refused", "unanswered"}

\* applyOutput: remembered before the wire. Whatever program() gets through,
\* the output is on only once OUTP 1 is taken. (A setpoint beyond the rating
\* throws before any of it.)
Apply(s) ==
  /\ Ready
  /\ \E outcome \in Exchange :
       /\ mEnabled' = [mEnabled EXCEPT ![s] = TRUE]
       /\ rail' = [rail EXCEPT ![s] = @ \/ outcome \in Moved]
       /\ doubt' = IF outcome = "done" THEN doubt \ {s} ELSE doubt
  /\ UNCHANGED <<fabricVars, processVars, hot, safingVars>>

\* removeOutput: forgotten before the wire.
Remove(s) ==
  /\ Ready
  /\ \E outcome \in Exchange :
       /\ mEnabled' = [mEnabled EXCEPT ![s] = FALSE]
       /\ rail' = [rail EXCEPT ![s] = @ /\ outcome \notin Moved]
       /\ doubt' = IF outcome = "done" THEN doubt \ {s} ELSE doubt \cup {s}
  /\ UNCHANGED <<fabricVars, processVars, hot, safingVars>>

\* outputIsOn asks the instrument.
OutputIsOn(s) == rail[s]

Routing == UNCHANGED <<processVars, safingVars, driverVars>>

\* Connect and Disconnect: the question, then the route. A supply that does not
\* answer fails the verb with nothing moved.
Connect(h) ==
  /\ Ready
  /\ BeginConnect(h)
  /\ hot' = OutputIsOn(SourceOf[h])
  /\ Routing

Disconnect(h) ==
  /\ Ready
  /\ BeginDisconnect(h)
  /\ hot' = OutputIsOn(SourceOf[h])
  /\ Routing

\* Mutant: only a source this process holds a route of counts.
ConnectedTap(r) ==
  /\ r \in LowZ
  /\ LandsAt[r] # NoSource
  /\ mEnabled[LandsAt[r]]
  /\ \E h \in held \ Readings : SourceOf[h] = LandsAt[r]

\* energisedSourceAt names a source, so a low-impedance reading there is an
\* InterlockViolation, thrown before a path is composed.
LiveTap(r) == r \in LowZ /\ LandsAt[r] # NoSource /\ mEnabled[LandsAt[r]]

Measure(r) ==
  /\ Ready
  /\ ~LiveTap(r)
  /\ BeginConnect(r)
  /\ hot' = FALSE
  /\ Routing

VerbMoves ==
  /\ stage = "script"
  /\ CloseNext \/ ConnectReturns \/ UndoNext \/ ConnectThrows \/ OpenNext \/ DisconnectReturns
  /\ UNCHANGED hot
  /\ Routing

\* The reading is taken, or fails: its route is released whichever it is.
Read ==
  /\ stage = "script"
  /\ call.hold \in Readings
  /\ TurnBack
  /\ UNCHANGED hot
  /\ Routing

\* The verb returns or throws.
VerbEnds ==
  /\ stage = "script"
  /\ call.hold \in Readings => ~At("connected")
  /\ Taken
  /\ hot' = FALSE
  /\ Routing

----------------------------------------------------------------------------
(* safeRig: every source, then the relays, then the books.                 *)

\* ~RigSafingGuard, however the scripts ended. Detached, it does nothing.
BeginSafing ==
  /\ stage = "script"
  /\ At("idle")
  /\ mAttached
  /\ stage' = "safing"
  /\ toSafe' = Sources
  /\ UNCHANGED <<fabricVars, mode, mAttached, hot, lost, driverVars>>

EndDetached ==
  /\ stage = "script"
  /\ At("idle")
  /\ ~mAttached
  /\ Vanish("ended")

\* Down a session that is open, unchecked, failures swallowed: a box obeys, or
\* it does not and nobody learns of it.
Obeys == IF SessionOpen THEN BOOLEAN ELSE {FALSE}
Lost(box, obeyed) == lost' = IF SessionOpen /\ ~obeyed THEN lost \cup {box} ELSE lost

SafeSource(s) ==
  /\ stage = "safing"
  /\ s \in toSafe
  /\ toSafe' = toSafe \ {s}
  /\ mEnabled' = [mEnabled EXCEPT ![s] = FALSE]
  /\ \E obeyed \in Obeys :
       /\ rail' = [rail EXCEPT ![s] = @ /\ ~obeyed]
       /\ doubt' = IF obeyed THEN doubt \ {s} ELSE doubt \cup {s}
       /\ Lost(s, obeyed)
  /\ UNCHANGED <<fabricVars, processVars, hot>>

\* Mutant: the switch unit opens its relays in its own safe().
AnyTime == TRUE

\* The relay pass comes when every source has been told.
SourcesTold == toSafe = {}

\* SwitchUnit::safeRelays: ROUT:OPEN:ALL, which an RF bank does not have.
SafeRelays ==
  /\ stage = "safing"
  /\ SourcesTold
  /\ stage' = "forgetting"
  /\ \E obeyed \in Obeys :
       /\ relay' = IF obeyed THEN [e \in Elements |-> relay[e] /\ e \in Latching] ELSE relay
       /\ suspect' = {e \in Elements : relay'[e]}
       /\ Lost(SwitchUnit, obeyed)
  /\ UNCHANGED <<books, mode, mAttached, hot, toSafe, driverVars>>

\* fabric.openAll(), and the process ends.
ForgetAll == stage = "forgetting" /\ Vanish("ended")

\* SIGKILL, or std::terminate: nothing is safed.
Die == ~Gone /\ Vanish("died")

Next ==
  \/ \E attached \in BOOLEAN : Start("run", attached)
  \/ Start("--safe", TRUE)
  \/ \E s \in Sources : Apply(s) \/ Remove(s) \/ SafeSource(s)
  \/ \E h \in Holds \ Readings : Connect(h) \/ Disconnect(h)
  \/ \E r \in Readings : Measure(r)
  \/ VerbMoves
  \/ Read
  \/ VerbEnds
  \/ BeginSafing
  \/ EndDetached
  \/ SafeRelays
  \/ ForgetAll
  \/ Die

Spec == Init /\ [][Next]_vars

----------------------------------------------------------------------------
(* What must hold.                                                         *)

\* While scripts run, an element the books call closed is closed on the bench,
\* whatever refused before (SwitchFabric::close takes the count last).
HeldRelaysClosed == stage = "script" => CountedIsClosed

\* A low-impedance reading is routed onto a rail that is on only if an exchange
\* with that supply failed, or an earlier process left it on: the driver's
\* memory is what energisedSourceAt reads (interlock.cpp).
LowTapIsCold ==
  \A r \in LowZ : LET s == LandsAt[r] IN
    (call.hold = r /\ s # NoSource) => (rail[s] => s \in doubt)

\* An attached run that ends leaves every output off and every plain relay
\* open, but for boxes that did not obey the safing (safing.cpp).
Idled ==
  /\ \A s \in Sources : rail[s] => s \in lost
  /\ \A e \in Plain : relay[e] => SwitchUnit \in lost
RunEndsIdle == mode = "run" /\ mAttached /\ stage = "ended" => Idled

\* A contact in a source's lead moves while its output is on only in a verb that
\* found it on when it asked, so that its event says so, if the verb returns and
\* posts one: also when an earlier process turned the output on
\* (core/verbs/route.hpp).
HotSwitchFound ==
  [][\A h \in Holds \ Readings :
       (call.hold = h /\ relay' # relay /\ rail[SourceOf[h]]) => hot]_vars

\* Safing opens no relay in the lead of an output that is on, unless that
\* supply would not obey (safing.cpp: outputs, then relays).
SafingOpensCold ==
  [][\A h \in Holds \ Readings : \A i \in DOMAIN PathOf[h] :
       (/\ stage = "safing"
        /\ relay[PathOf[h][i]] /\ ~relay'[PathOf[h][i]]
        /\ rail[SourceOf[h]]) => SourceOf[h] \in lost]_vars

\* A process without a bench moves nothing on it, its safing included
\* (core/session/bench.hpp).
DetachedMovesNothing == [][~mAttached => UNCHANGED <<relay, rail>>]_vars

=============================================================================
