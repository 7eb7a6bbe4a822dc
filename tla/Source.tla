------------------------------- MODULE Source -------------------------------
(***************************************************************************)
(* One output of a source as its driver programs it: a generator           *)
(* (keysight_33522b, and "wgen", the one in the keysight_dsox1202g), a     *)
(* supply (keysight_edu36311a), or the AC source (keysight_ac6834b, which  *)
(* has no wire). The driver notes what an Apply says before it says it,    *)
(* and says only what the Apply names; the unit clamps, rescales and trips *)
(* on its own. Around it hal::SourceSnapshot, which puts back what a       *)
(* script took away.                                                       *)
(*                                                                         *)
(* A value is a number of steps of its quantity. An output of a 33522B is  *)
(* by itself: no Apply or Remove of the other one touches it.              *)
(***************************************************************************)
EXTENDS Integers, Sequences

CONSTANTS
  Kinds,    \* the sources of this instance
  Shapes,   \* of a generator: "square", "ramp", "dc"
  Hertz,    \* frequencies a script may ask for
  Volts,    \* levels and amplitudes
  Offsets,
  Amps,
  Phases,
  MaxUses,  \* closes of the relay in the lead
  Nothing   \* a setting that is not named

\* Values are numbers, and a setting that is not named is no value.
SourceConstants ==
  /\ Kinds \subseteq {"generator", "wgen", "supply", "ac"}
  /\ Shapes \subseteq {"square", "ramp", "dc"}
  /\ Hertz \subseteq Nat /\ Volts \subseteq Nat /\ Amps \subseteq Nat /\ Offsets \subseteq Int
  /\ Nothing \notin Int \cup Shapes \cup {"50", "INF", "ON", "OFF", ""}

VARIABLES
  kind,
  simulated,
  link,      \* a session to the box is open
  mSettings, \* the driver's memory: Output, mOutputVoltage, mOverVoltage ...
  mEnabled,
  conductors,\* the conductors of the AC source that are on: PhaseOutput, NeutralOutput
  unit,      \* the settings of the unit itself, and its output
  last,      \* the Apply that has just ended, and how
  uses,      \* closes of the relay in the lead, as the fabric counts them
  mHeld,     \* the SourceSnapshot
  restored   \* what it held has just been put back

driverVars == <<link, mSettings, mEnabled, conductors, unit, last>>
vars == <<kind, simulated, driverVars, uses, mHeld, restored>>

Generators == {"generator", "wgen"}

Names == {"LOAD", "FUNC", "FREQ", "SHAPE", "VOLT", "OFFS", "CURR", "PROT", "RANGE"}

Unset == [name \in Names |-> Nothing]

NoApply == [config |-> Unset, end |-> "none"]

----------------------------------------------------------------------------
(* What a builder lets a script say: each shape has its own settings.      *)

MaxHertz(shape) == IF shape = "ramp" THEN 1 ELSE 2
Periodic(shape) == shape # "dc"
Amplifiable(shape) == shape # "dc"
HasDutyCycle(shape) == shape = "square"

Opt(S) == S \cup {Nothing}

With(base, field, values) ==
  {[c EXCEPT ![field] = v] : c \in base, v \in values}

WaveformConfig ==
  UNION {
    With(With(With(With(With({[Unset EXCEPT !.FUNC = shape]},
      "LOAD", Opt({"50", "INF"})),
      "FREQ", Opt(IF Periodic(shape) THEN Hertz ELSE {})),
      "SHAPE", Opt(IF HasDutyCycle(shape) THEN {90} ELSE {})),
      "VOLT", Opt(IF Amplifiable(shape) THEN Volts ELSE {})),
      "OFFS", Opt(Offsets)) : shape \in Shapes}

DcConfig == With(With(With({Unset}, "VOLT", Opt(Volts)), "CURR", Opt(Amps)), "PROT", Opt(Volts))

\* Balanced, or with a value for each phase: as per phase, either way.
PerPhase(S) == [Phases -> S]
Broadcast(v) == [p \in Phases |-> v]
RangeFor(v) == IF v > 2 THEN 4 ELSE 2

AcConfig ==
  With(With(With(With({Unset},
    "VOLT", Opt(PerPhase(Volts))),
    "FREQ", Opt(Hertz)),
    "CURR", Opt({Broadcast(a) : a \in Amps})),
    "RANGE", Opt({[p \in Phases |-> RangeFor(f[p])] : f \in PerPhase(Volts)}))

Config ==
  CASE kind \in Generators -> WaveformConfig
    [] kind = "supply" -> DcConfig
    [] OTHER -> AcConfig

----------------------------------------------------------------------------
(* What the driver refuses before it says or notes anything. Lower bounds  *)
(* and percentages are refused as the upper bounds are.                    *)

MaxVolts(load) == IF load = "INF" THEN 8 ELSE 4
MaxPeak(load) == MaxVolts(load) \div 2

\* |offset| <= peak - amplitude / 2
Headroom(load, volts) == (2 * MaxPeak(load) - volts) \div 2

kRating == [VOLT |-> 4, CURR |-> 2]

BeyondModel(c, load) ==
  \/ c.FREQ # Nothing /\ c.FREQ > MaxHertz(c.FUNC)
  \/ c.VOLT # Nothing /\ c.VOLT > MaxVolts(load)
  \/ c.OFFS # Nothing /\ c.OFFS > MaxPeak(load)
  \/ c.OFFS # Nothing /\ c.VOLT # Nothing /\ c.OFFS > Headroom(load, c.VOLT)

BeyondRating(c) ==
  \/ c.VOLT # Nothing /\ c.VOLT > kRating.VOLT
  \/ c.PROT # Nothing /\ c.PROT > kRating.VOLT
  \/ c.CURR # Nothing /\ c.CURR > kRating.CURR

\* What the config names, or what the driver believes is in force.
Kept(c, n) == IF c[n] # Nothing THEN c[n] ELSE mSettings[n]

Resolved(c) == Kept(c, "LOAD")

Refused(c) ==
  \/ kind \in Generators /\ BeyondModel(c, Resolved(c))
  \/ kind = "supply" /\ BeyondRating(c)

----------------------------------------------------------------------------
(* What the driver remembers, whether or not there is a wire. Of what a    *)
(* generator was told only the termination is ever read but to be shown.   *)

Zero == IF kind = "ac" THEN Broadcast(0) ELSE 0

\* A voltage that is not named is zero: "a defined rail".
Level(c) == IF c.VOLT # Nothing THEN c.VOLT ELSE Zero

Remembered(c) ==
  CASE kind \in Generators -> [Unset EXCEPT !.LOAD = Kept(c, "LOAD")]
    [] kind = "supply" -> [c EXCEPT !.VOLT = Level(c)]
    [] OTHER -> [c EXCEPT !.VOLT = Level(c), !.RANGE = Kept(c, "RANGE")]

Forgotten ==
  IF kind \in Generators THEN mSettings ELSE [mSettings EXCEPT !.VOLT = Zero]

\* What the driver starts out believing.
Believed ==
  CASE kind = "generator" -> [Unset EXCEPT !.LOAD = "50"]
    [] kind = "wgen" -> [Unset EXCEPT !.LOAD = "INF"]
    [] OTHER -> [Unset EXCEPT !.VOLT = Zero]

AllConductors == Phases \cup {"N"}

ConductorsOff == {}

----------------------------------------------------------------------------
(* The unit. A command it cannot obey as it stands it clamps, and queues   *)
(* an error; what a command moves besides, it says nothing of.             *)

Factory ==
  [LOAD |-> IF kind = "wgen" THEN "INF" ELSE "50", FUNC |-> "square", FREQ |-> 1, SHAPE |-> 50,
   VOLT |-> IF kind = "supply" THEN 0 ELSE 2, OFFS |-> 0, CURR |-> 2, PROT |-> kRating.VOLT,
   on |-> FALSE]

Low(a, b) == IF a < b THEN a ELSE b

Rescaled(v, from, to) ==
  IF from = to THEN v ELSE IF to = "INF" THEN 2 * v ELSE v \div 2

MaxDuty(hertz) == IF hertz = 2 THEN 80 ELSE 100

Tripped(u) == [u EXCEPT !.on = @ /\ (kind = "supply" => u.VOLT <= u.PROT)]

\* The unit after command name with value v, and whether it took it as it was.
Obey(u, name, v) ==
  CASE name = "LOAD" ->
         [ok |-> TRUE, unit |-> [u EXCEPT !.LOAD = v, !.VOLT = Rescaled(@, u.LOAD, v),
                                          !.OFFS = Rescaled(@, u.LOAD, v)]]
    [] name = "FUNC" ->
         [ok |-> TRUE, unit |-> [u EXCEPT !.FUNC = v, !.FREQ = Low(@, MaxHertz(v))]]
    [] name = "FREQ" ->
         LET f == Low(v, MaxHertz(u.FUNC))
         IN  [ok |-> f = v, unit |-> [u EXCEPT !.FREQ = f, !.SHAPE = Low(@, MaxDuty(f))]]
    [] name = "SHAPE" ->
         LET d == Low(v, MaxDuty(u.FREQ)) IN [ok |-> d = v, unit |-> [u EXCEPT !.SHAPE = d]]
    [] name = "VOLT" /\ kind = "supply" ->
         [ok |-> TRUE, unit |-> Tripped([u EXCEPT !.VOLT = v])]
    [] name = "VOLT" /\ kind # "supply" ->
         LET a == Low(v, MaxVolts(u.LOAD))
         IN  [ok |-> a = v, unit |-> [u EXCEPT !.VOLT = a, !.OFFS = Low(@, Headroom(u.LOAD, a))]]
    [] name = "OFFS" ->
         LET o == Low(v, IF u.FUNC = "dc" THEN MaxPeak(u.LOAD) ELSE Headroom(u.LOAD, u.VOLT))
         IN  [ok |-> o = v, unit |-> [u EXCEPT !.OFFS = o]]
    [] name = "PROT" -> [ok |-> TRUE, unit |-> Tripped([u EXCEPT !.PROT = v])]
    [] name = "CURR" -> [ok |-> TRUE, unit |-> [u EXCEPT !.CURR = v]]
    [] name = "OUTP" -> [ok |-> TRUE, unit |-> Tripped([u EXCEPT !.on = (v = "ON")])]
    [] OTHER -> \* :WGEN:RST
         [ok |-> TRUE, unit |-> Factory]

\* A setting the config does not name is not said.
Say(s, command) ==
  IF s.ok /\ command.value # Nothing THEN Obey(s.unit, command.name, command.value) ELSE s

\* The unit after the first n commands, and whether it took them all.
Told(commands, n) ==
  LET said[i \in 0..Len(commands)] ==
        IF i = 0 THEN [ok |-> TRUE, unit |-> unit] ELSE Say(said[i - 1], commands[i])
  IN  said[n]

----------------------------------------------------------------------------
(* What an Apply says, in its order (detail::program).                     *)

\* Mutant: the load comes last.
LoadLast == <<"FUNC", "FREQ", "SHAPE", "VOLT", "OFFS", "LOAD">>

LoadFirst == <<"LOAD", "FUNC", "FREQ", "SHAPE", "VOLT", "OFFS">>

GeneratorOrder == LoadFirst

Command(name, value) == [name |-> name, value |-> value]

\* The settings in their order, then the output on.
Named(c, order) ==
  [i \in 1..(Len(order) + 1) |->
     IF i \in DOMAIN order THEN Command(order[i], c[order[i]]) ELSE Command("OUTP", "ON")]

Program(c) ==
  IF kind \in Generators THEN Named(c, GeneratorOrder)
  ELSE Named([c EXCEPT !.VOLT = Level(c)], <<"CURR", "PROT", "VOLT">>)

\* sendSafe: unchecked.
Safing ==
  CASE kind = "generator" -> <<Command("OUTP", "OFF"), Command("VOLT", 1), Command("OFFS", 0)>>
    [] kind = "wgen" -> <<Command("OUTP", "OFF"), Command("RST", "")>>
    [] OTHER -> <<Command("OUTP", "OFF"), Command("VOLT", 0)>>

\* Down the session, opened if need be: all of it, or what goes before the first
\* refusal, or before the link fails at any point.
Sent(commands, config) ==
  \E n \in 0..Len(commands) : \E whole \in BOOLEAN :
    LET told == Told(commands, n) IN
    /\ whole => n = Len(commands)
    /\ unit' = told.unit
    /\ link' \in IF n = 0 THEN {link, TRUE} ELSE {TRUE}
    /\ last' = [config |-> config,
                end |-> IF ~told.ok THEN "refused" ELSE IF whole THEN "ok" ELSE "broken"]

Unheard == UNCHANGED <<unit, link>> /\ last' = [NoApply EXCEPT !.end = "ok"]

----------------------------------------------------------------------------
Init ==
  /\ kind \in Kinds
  /\ simulated \in IF kind = "ac" THEN {TRUE} ELSE BOOLEAN
  /\ link = FALSE
  /\ mSettings = Believed
  /\ mEnabled = FALSE
  /\ conductors = {}
  /\ unit = Factory
  /\ last = NoApply
  /\ uses = 0
  /\ mHeld = Nothing
  /\ restored = FALSE

Idle == last = NoApply /\ ~restored

\* The call is over, and the script moves on.
Return ==
  /\ ~Idle
  /\ last' = NoApply
  /\ restored' = FALSE
  /\ UNCHANGED <<kind, simulated, link, mSettings, mEnabled, conductors, unit, uses, mHeld>>

\* applyWaveform, applyGenerator, applyOutput: past the check.
Programs(c) ==
  /\ mSettings' = Remembered(c)
  /\ mEnabled' = TRUE
  /\ conductors' = IF kind = "ac" THEN AllConductors ELSE {}
  /\ IF simulated THEN Unheard ELSE Sent(Program(c), c)

Apply ==
  /\ Idle
  /\ \E c \in Config : ~Refused(c) /\ Programs(c)
  /\ UNCHANGED <<kind, simulated, uses, mHeld, restored>>

\* removeOutput: forgotten before the wire.
RemoveOutput ==
  /\ Idle
  /\ mEnabled' = FALSE
  /\ conductors' = ConductorsOff
  /\ UNCHANGED <<kind, simulated, mSettings, last, uses, mHeld, restored>>
  /\ IF simulated THEN UNCHANGED <<unit, link>>
     ELSE \E n \in 0..1 :
            /\ unit' = Told(<<Command("OUTP", "OFF")>>, n).unit
            /\ link' \in IF n = 0 THEN {link, TRUE} ELSE {TRUE}

\* safe: down a session that is open, and whatever fails there is swallowed.
Safe ==
  /\ Idle
  /\ mEnabled' = FALSE
  /\ mSettings' = Forgotten
  /\ conductors' = {}
  /\ IF link THEN \E n \in 0..Len(Safing) : unit' = Told(Safing, n).unit
     ELSE UNCHANGED unit
  /\ UNCHANGED <<kind, simulated, link, last, uses, mHeld, restored>>

CloseSession ==
  /\ Idle
  /\ link
  /\ link' = FALSE
  /\ UNCHANGED <<kind, simulated, mSettings, mEnabled, conductors, unit, last, uses, mHeld, restored>>

----------------------------------------------------------------------------
(* The relay in the lead, and hal::SourceSnapshot around a group.          *)

HasRelay == kind \in {"supply", "ac"}

Connect ==
  /\ Idle
  /\ HasRelay
  /\ uses < MaxUses
  /\ uses' = uses + 1
  /\ UNCHANGED <<kind, simulated, driverVars, mHeld, restored>>

Disconnect ==
  /\ Idle
  /\ HasRelay
  /\ uses > 0
  /\ uses' = uses - 1
  /\ UNCHANGED <<kind, simulated, driverVars, mHeld, restored>>

\* Mutant: the snapshot of a setpoint only.
LevelOnly == [Unset EXCEPT !.VOLT = mSettings.VOLT]

\* snapshotDriver: the trip level is not in it.
Snapshot == [mSettings EXCEPT !.PROT = Nothing]

Capture ==
  /\ Idle
  /\ HasRelay
  /\ mHeld' = [settings |-> Snapshot, energised |-> mEnabled,
               noted |-> mSettings]
  /\ UNCHANGED <<kind, simulated, driverVars, uses, restored>>

\* Connect, then Apply of what restoreDriver builds; one that throws leaves the
\* relay as it is.
Restore ==
  /\ Idle
  /\ mHeld # Nothing
  /\ mHeld.energised /\ ~mEnabled
  /\ uses < MaxUses
  /\ uses' = uses + 1
  /\ Programs(mHeld.settings)
  /\ restored' = (last'.end = "ok")
  /\ UNCHANGED <<kind, simulated, mHeld>>

Next == Return \/ Apply \/ RemoveOutput \/ Safe \/ CloseSession \/ Connect \/ Disconnect \/ Capture \/ Restore

Spec == Init /\ [][Next]_vars

----------------------------------------------------------------------------
(* What the readings of a simulated source say.                            *)

\* rawMeasure of a supply and of the AC source's conductors, with a current a
\* test has set.
Readings ==
  CASE kind = "supply" -> {IF mEnabled THEN mSettings.VOLT ELSE 0, IF mEnabled THEN 1 ELSE 0}
    [] kind = "ac" -> {IF p \in conductors THEN mSettings.VOLT[p] ELSE 0 : p \in Phases}
                      \cup {IF p \in conductors THEN 1 ELSE 0 : p \in AllConductors}
    [] OTHER -> {}

TypeOK ==
  /\ kind \in Kinds
  /\ {simulated, link, mEnabled, unit.on, restored} \subseteq BOOLEAN
  /\ DOMAIN mSettings = Names
  /\ kind = "supply" => mSettings.VOLT \in Volts \cup {0}
  /\ conductors \subseteq AllConductors
  /\ unit.OFFS <= MaxPeak(unit.LOAD)
  /\ uses \in 0..MaxUses

\* An Apply that returned is what the unit plays, every setting it named, with
\* the output on: none is moved by one said after it (program of the 33522B,
\* the DSOX1202G and the EDU36311A: "the order is the whole content of this
\* function"). A supply trips on a level set too low, by this Apply or by an
\* earlier one.
PlaysWhatWasAsked ==
  last.end = "ok" /\ ~simulated =>
    /\ \A n \in Names : last.config[n] # Nothing => unit[n] = last.config[n]
    /\ unit.on \/ (kind = "supply" /\ last.config.PROT \in {Nothing} \cup 0..(unit.VOLT - 1))

\* An Apply that names all of its settings and passes the driver's check is
\* never refused by the unit, whatever the unit was set to: a script that passes
\* on a simulated source does not fail on the bench. (The narrower duty cycles
\* of high frequencies are the unit's own to refuse.)
Complete(c) ==
  \/ kind = "supply"
  \/ /\ c.LOAD # Nothing /\ c.OFFS # Nothing
     /\ Periodic(c.FUNC) => c.FREQ # Nothing
     /\ Amplifiable(c.FUNC) => c.VOLT # Nothing
     /\ c.SHAPE # 90

CompleteIsTaken == last.end = "refused" => ~Complete(last.config)

\* What a snapshot puts back is what it found, however the script left the
\* source (snapshot.hpp: "the values put back are the ones actually found"),
\* but for the trip level of a supply, which it does not hold, and for settings
\* that were never programmed.
RestoredAsFound ==
  restored => \A n \in Names \ {"PROT"} :
                mHeld.noted[n] # Nothing => mSettings[n] = mHeld.noted[n]

\* A simulated source that is off reads zero on every conductor, whatever was
\* programmed and removed, safed or put back before.
ColdReadsZero == ~mEnabled => Readings \subseteq {0}
=============================================================================
