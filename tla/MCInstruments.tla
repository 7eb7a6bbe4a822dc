---------------------------- MODULE MCInstruments ----------------------------
(***************************************************************************)
(* The instruments of the rig, one per behaviour: the two digitising       *)
(* scopes, each against what Arm and Await promise, and a source with the  *)
(* snapshot around it.                                                     *)
(***************************************************************************)
EXTENDS Naturals, FiniteSets

CONSTANTS
  Instruments,  \* those a behaviour may be about: "keysight", "pico", "source"
  Channels, Ranges, Couplings, Displays, TooLarge, Sources, MaxArms,     \* of a scope
  Kinds, Shapes, Hertz, Volts, Offsets, Amps, Phases, MaxUses, Nothing  \* of a source

\* What a Setup leaves of a channel: a range, whether it is AC coupled, whether it
\* is switched on.
Settings == [range : Ranges, ac : Couplings, on : Displays]

VARIABLES
  which,  \* the instrument of this behaviour
  simulated,
  mArmed, mCompleted, at, polls, mode, ready, record, unsure, yes, took, arms,
  scope, unit, mEnabled, unsilenced, touched,
  kind, link, mSettings, isOn, conductors, box, last, uses, mHeld, restored

keysightVars == <<mArmed, mCompleted, at, polls, mode, ready, record, unsure, yes, took, arms>>
picoVars == <<scope, unit, mEnabled, unsilenced, touched>>
sourceVars == <<kind, link, mSettings, isOn, conductors, box, last, uses, mHeld, restored>>
vars == <<which, simulated, keysightVars, picoVars, sourceVars>>

K == INSTANCE Oscilloscope
P == INSTANCE Digitiser
S == INSTANCE Source WITH mEnabled <- isOn, unit <- box

ASSUME InstrumentsAssumption ==
  /\ K!OscilloscopeConstants /\ P!DigitiserConstants /\ S!SourceConstants
  /\ Couplings \cup Displays \subseteq BOOLEAN

NoKeysight ==
  /\ mArmed = FALSE /\ mCompleted = FALSE /\ at = "idle" /\ polls = FALSE
  /\ mode = "stopped" /\ ready = FALSE /\ record = "old" /\ unsure = FALSE
  /\ yes = FALSE /\ took = [of |-> "old", yes |-> FALSE] /\ arms = 0
NoPico ==
  scope = Nothing /\ unit = Nothing /\ mEnabled = FALSE /\ unsilenced = FALSE /\ touched = FALSE
NoSource ==
  /\ kind = Nothing /\ link = FALSE /\ mSettings = Nothing /\ isOn = FALSE
  /\ conductors = {} /\ box = Nothing /\ last = Nothing /\ uses = 0
  /\ mHeld = Nothing /\ restored = FALSE

Init ==
  /\ which \in Instruments
  /\ \/ which = "keysight" /\ K!Init /\ NoPico /\ NoSource
     \/ which = "pico" /\ P!Init /\ NoKeysight /\ NoSource
     \/ which = "source" /\ S!Init /\ NoKeysight /\ NoPico

Next ==
  /\ UNCHANGED which
  /\ \/ which = "keysight" /\ K!Next /\ UNCHANGED <<picoVars, sourceVars>>
     \/ which = "pico" /\ P!Next /\ UNCHANGED <<keysightVars, sourceVars>>
     \/ which = "source" /\ S!Next /\ UNCHANGED <<keysightVars, picoVars>>

Spec == Init /\ [][Next]_vars

----------------------------------------------------------------------------
(* What must hold.                                                         *)

\* What the DSOX1202G reads after an Await that said yes is the acquisition
\* that Await's Arm started (acquire.hpp: not "whatever happened to be in the
\* acquisition buffer from before"), until something is armed or set up again.
YesIsThisCapture == which = "keysight" /\ took.yes => took.of = "this"

\* Between calls no DSOX1202G that nobody awaits is waiting for a trigger, unless
\* since it was last stopped a call has thrown, which the script is told, or a
\* safing's :STOP was lost, which nobody is: a timed-out Await stops it, so that
\* no later stimulus completes an old Arm.
NothingLeftArmed ==
  which = "keysight" /\ at = "idle" /\ mode = "single" => mArmed \/ unsure

\* A capture is of the Arm that asked for it, and no Arm outlives its Await.
CapturesAreTheirs == YesIsThisCapture /\ NothingLeftArmed

\* Whatever a PicoScope hands out was scaled with the range its channel had in
\* the unit when the block was taken, and that range is still the one applied: a
\* record does not outlive its Setup. A channel whose push failed half way is
\* excepted (the unit has the range, the driver has noted the one before), and so
\* is the record of an Await whose Arm the script did not leave alone.
RecordAtItsRange ==
  which = "pico" /\ ~(touched /\ scope.held # Nothing) =>
    \A r \in P!Readings : \A c \in Channels \ scope.torn :
      /\ r.scale[c] = r.shot.taken[c]
      /\ scope.current /\ unit.open => r.scale[c] = scope.applied[c]

\* A generator that says it is off is off, unless the unit refused to silence it:
\* applying, removing, safing, and reopening the unit from either face, in any
\* order (the interlock asks it before it lets a relay move).
QuietMeansOff == which = "pico" /\ ~mEnabled /\ unit.playing => unsilenced

\* The channels a driver believes it has applied are as they are in the unit it
\* has open, whichever face opened that unit and closed the one before.
AppliedIsSet ==
  which = "pico" /\ unit.open /\ scope.current =>
    \A c \in Channels \ scope.torn :
      scope.applied[c] = IF unit.hw[c].on THEN unit.hw[c].range ELSE Nothing

\* What the faces of a PicoScope believe of the unit they share is so: the
\* scale of a record, the channels that are applied, an output that is off.
BeliefsHold == RecordAtItsRange /\ AppliedIsSet /\ QuietMeansOff

\* What a script asked of a source is what is there: an Apply that returned is
\* played as it was named, complete settings that pass the driver's check are
\* not refused by the unit, and a source that is off reads zero.
AsAsked ==
  which = "source" => S!PlaysWhatWasAsked /\ S!CompleteIsTaken /\ S!ColdReadsZero

\* What a snapshot puts back is what it found, however the script left the
\* source (snapshot.hpp: "the values put back are the ones actually found"),
\* but for the trip level of a supply, which it does not hold.
RestoredAsFound == which = "source" => S!RestoredAsFound

Contract == INSTANCE AcquireContract WITH
  expecting <- ~simulated /\ which # "source" /\ (IF which = "pico" THEN scope.armed /\ ~touched
                              ELSE mArmed \/ at \in {"armed?", "await", "giveUp"}),
  caught <- ~simulated /\ which # "source" /\ (IF which = "keysight" THEN record = "this"
                           ELSE \/ unit.block # Nothing /\ unit.block.shot.armed /\ unit.block.done
                                \/ scope.held # Nothing /\ scope.held.shot.armed),
  answer <- ~simulated /\ which # "source" /\ (IF which = "pico" THEN scope.completed /\ ~touched ELSE yes)

\* Each scope implements the promise of Arm and Await. Simulated, the answer is
\* what a test tells it to be, and no part of the promise. A script that measures
\* with the PicoScope, sets it up or closes its unit between the two is promised
\* nothing until its next Arm; one that does so with the DSOX1202G is.
AnswersItsArm == Contract!Spec
=============================================================================
