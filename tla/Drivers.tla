------------------------------ MODULE Drivers ------------------------------
(***************************************************************************)
(* The SCPI drivers of instruments/ as what they say on the wire: the      *)
(* switch mainframe and its meter (keysight_34980a), the bench meter       *)
(* (keysight_edu34450a), the generator (keysight_33522b), the supply       *)
(* (keysight_edu36311a) and the scope's generator (keysight_dsox1202g);    *)
(* and a scope behind a vendor library (pico_5244d), which is a native     *)
(* object.                                                                 *)
(***************************************************************************)
EXTENDS ScpiSession

CONSTANTS
  Boxes,     \* what the box may be: the driver of each face
  Optional,  \* the settings a script may leave out of an Apply
  kSlots     \* slots of the mainframe

\* The drivers that speak over a session; each is a family of its own.
OnTheWire == {"switches", "dmm", "meter", "generator", "supply", "wgen"}

ASSUME DriversAssumption == OnTheWire \subseteq Families /\ kSlots \in Nat

VARIABLE box

driverVars == <<vars, box>>

DriverOf(f) == box[f]

----------------------------------------------------------------------------
(* What each family does first, on a session it has not met.               *)

\* SwitchUnit::session, Multimeter::session, prepare of the others.
DrainAndMeet == <<ClearErrors, Identify>>

\* keysight_34980a::Multimeter::prepare: fitted, and enabled?
PrepareDmm == DrainAndMeet \o <<Ask("INST:DMM:INST?", "yes"), Ask("INST:DMM?", "yes")>>

Preparation(d) == IF d = "dmm" THEN PrepareDmm ELSE DrainAndMeet

FamilyOf(d) == d

----------------------------------------------------------------------------
(* What each operation says. An Apply is the settings it was given.        *)

\* Every setting checked, then the output, then *OPC?.
SwitchedOnLast(settings) == settings \o <<Checked("ON"), WaitForComplete>>

\* A setting a script may leave out is not said.
Given(c, chosen) == IF c \in chosen \/ c \notin Optional THEN <<Checked(c)>> ELSE <<>>

\* 33522b: program. The load first: it decides what the volts mean.
ProgramGenerator(chosen) ==
  SwitchedOnLast(Given("LOAD", chosen) \o Given("FUNC", chosen) \o Given("FREQ", chosen)
                 \o Given("SHAPE", chosen) \o Given("VOLT", chosen) \o Given("OFFS", chosen))

\* dsox1202g: program.
ProgramWgen(chosen) ==
  SwitchedOnLast(Given("LOAD", chosen) \o Given("FUNC", chosen) \o Given("FREQ", chosen)
                 \o Given("SHAPE", chosen) \o Given("VOLT", chosen) \o Given("OFFS", chosen))

\* edu36311a: program. The level last, and always said.
ProgramSupply(chosen) ==
  SwitchedOnLast(Given("CURR", chosen) \o Given("PROT", chosen) \o Given("VOLT", chosen))

DisableOutput == <<Checked("OFF"), WaitForComplete>>

\* SwitchUnit: close, open, closeExclusively, openAll, setInternalDmm.
Switching(c) == <<Checked(c)>>

\* edu34450a: read. Fast names a resolution, for the DC functions, unchecked.
ReadMeter(fast) ==
  <<Checked("CONF")>> \o (IF fast THEN <<Write("RES")>> ELSE <<>>) \o <<Ask("READ?", "number")>>

\* 34980a: the meter's read is one question, with its own looks at the queue.
ReadDmm == <<AskMeter("MEAS?")>>

\* 33522b: outputIsOn, and its like: asked of the instrument.
OutputIsOn == <<Ask("OUTP?", "number")>>

Question(q) == <<Ask(q, "number")>>

Modules == [slot \in 1..kSlots |-> Ask("SYST:CTYP?", "text")]

Identity == <<Ask("*IDN?", "text")>>

\* The operations of driver d, by name.
Operations(d) ==
  {<<"identity", Identity>>} \cup
  CASE d = "switches" ->
         {<<"switch", Switching(c)>> : c \in {"CLOS", "OPEN", "CLOS:EXCL", "OPEN:ALL", "INST:DMM ON"}}
         \cup {<<"ask", Question(q)>> : q \in {"CLOS?", "MOD:WAIT?", "INST:DMM:INST?", "REL:CYCL?"}}
         \cup {<<"modules", Modules>>}
    [] d = "dmm" -> {<<"read", ReadDmm>>}
    [] d = "meter" -> {<<"read", ReadMeter(fast)>> : fast \in BOOLEAN}
    [] d = "generator" ->
         {<<"apply", ProgramGenerator(chosen)>> : chosen \in SUBSET Optional}
         \cup {<<"remove", DisableOutput>>, <<"ask", OutputIsOn>>}
    [] d = "wgen" ->
         {<<"apply", ProgramWgen(chosen)>> : chosen \in SUBSET Optional}
         \cup {<<"remove", DisableOutput>>, <<"ask", OutputIsOn>>}
    [] OTHER ->
         {<<"apply", ProgramSupply(chosen)>> : chosen \in SUBSET Optional}
         \cup {<<"remove", DisableOutput>>, <<"ask", OutputIsOn>>, <<"read", Question("MEAS?")>>}

\* sendSafe and safeRelays: unchecked. The generators wait for the output.
Safing(d) ==
  CASE d = "switches" -> <<Write("OPEN:ALL")>>
    [] d = "supply" -> <<Write("OFF"), Write("VOLT")>>
    [] d = "generator" -> <<Write("OFF"), WaitForComplete, Write("VOLT"), Write("OFFS")>>
    [] d = "wgen" -> <<Write("OFF"), WaitForComplete, Write("RST")>>
    [] OTHER -> <<>>

----------------------------------------------------------------------------
Init ==
  /\ BoxInit
  /\ WireInit
  /\ box \in Boxes

Idle == ~Busy /\ UNCHANGED box

Operate(f) ==
  /\ Idle
  /\ DriverOf(f) \in OnTheWire
  /\ \E o \in Operations(DriverOf(f)) :
       StartCall(f, o[1], FamilyOf(DriverOf(f)), Preparation(DriverOf(f)), o[2])

\* The address does not open, or the box holds a native object.
OperateInVain(f) ==
  /\ Idle
  /\ DriverOf(f) \in OnTheWire
  /\ ~IsSimulated(f)
  /\ SessionFails(f) \/ SessionRefused(f)
  /\ call' = [NoCall EXCEPT !.face = f, !.end = "transport"]
  /\ UNCHANGED <<wires, errors, right>>

Safe(f) ==
  /\ Idle
  /\ Safing(DriverOf(f)) # <<>>
  /\ StartSafing(f, "safe", Safing(DriverOf(f)))

\* What a bring-up, a test or the address plan does between two calls.
Apart == Idle /\ call' = NoCall /\ UNCHANGED <<errors, right>>

Readdress(f) ==
  \E a \in Addresses \cup {Simulated} : Apart /\ UseAddress(f, a) /\ UNCHANGED wires

CloseSession(f) == Apart /\ Close(f) /\ UNCHANGED wires

GiveTransport(f) ==
  /\ Apart
  /\ DriverOf(f) \in OnTheWire
  /\ mAddress[f] # Simulated
  /\ UseTransport(f)
  /\ wires' = [wires EXCEPT ![LinkOf(f)] = NewWire]

\* The faces of a vendor library's scope.
UseNative(f) ==
  \E type \in Natives :
    /\ Apart
    /\ DriverOf(f) \notin OnTheWire
    /\ Native(f, type) \/ InstallNative(f, type)
    /\ UNCHANGED wires

Next ==
  \/ \E f \in Faces : Operate(f) \/ OperateInVain(f) \/ Safe(f) \/ Readdress(f)
                      \/ CloseSession(f) \/ GiveTransport(f) \/ UseNative(f)
  \/ (Exchanges \/ Complain) /\ UNCHANGED box

Spec == Init /\ [][Next]_driverVars /\ WF_driverVars(Exchanges /\ UNCHANGED box)

TypeOK == BoxTypeOK /\ WireTypeOK /\ box \in Boxes
=============================================================================
