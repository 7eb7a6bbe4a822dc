---------------------------- MODULE Oscilloscope ----------------------------
(***************************************************************************)
(* hal::keysight_dsox1202g::Oscilloscope: Arm, Await, Fetch and Measure    *)
(* against an instrument that runs, is stopped, or waits for one trigger.  *)
(* An exchange with it may fail at any point, and events come whenever     *)
(* they like. Simulated, the same verbs answer without an instrument.      *)
(***************************************************************************)
EXTENDS Naturals

CONSTANT MaxArms  \* bound: Arms of a behaviour

\* What the constant has to be; the module that gives it a value assumes it.
OscilloscopeConstants == MaxArms \in Nat

VARIABLES
  simulated,   \* isSimulated(): nothing is attached
  mArmed, mCompleted,
  at,          \* where the call that is running is; "idle" between calls
  polls,       \* the deadline of the loop it is in has passed
  mode,        \* of the instrument: running, stopped, single
  ready,       \* it is armed and takes a trigger
  record,      \* what it shows: an old acquisition, this Arm's, a free run's
  unsure,      \* ghost: since the last :STOP a call threw, or a safing was lost
  yes,         \* ghost: the last Await said so, and nothing was armed or set up since
  took,        \* ghost: what the last Fetch or Measure read, and whether after a yes
  arms

scopeVars == <<simulated, mArmed, mCompleted, at, polls, mode, ready, record, unsure, yes, took, arms>>

TypeOK ==
  /\ simulated \in BOOLEAN /\ mArmed \in BOOLEAN /\ mCompleted \in BOOLEAN
  /\ at \in {"idle", "stop", "single", "armed?", "await", "giveUp", "run", "set"}
  /\ polls \in BOOLEAN
  /\ mode \in {"running", "stopped", "single"} /\ ready \in BOOLEAN
  /\ record \in {"old", "this", "free"}
  /\ unsure \in BOOLEAN /\ yes \in BOOLEAN
  /\ took \in [of : {"old", "this", "free"}, yes : BOOLEAN]
  /\ arms \in 0..MaxArms

Init ==
  /\ simulated \in BOOLEAN
  /\ mArmed = FALSE /\ mCompleted = FALSE
  /\ at = "idle" /\ polls = FALSE
  /\ mode \in {"running", "stopped"} /\ ready = FALSE /\ record = "old"
  /\ unsure = FALSE /\ yes = FALSE /\ took = [of |-> "old", yes |-> FALSE] /\ arms = 0

face == <<simulated, mArmed, mCompleted>>
instrument == <<mode, ready, record>>

----------------------------------------------------------------------------
(* The instrument.                                                         *)

\* :SINGle has got it ready.
Ready ==
  /\ mode = "single" /\ ~ready
  /\ ready' = TRUE
  /\ UNCHANGED <<face, at, polls, mode, record, unsure, yes, took, arms>>

\* The event: the record is this Arm's, and the scope stops.
Trigger ==
  /\ mode = "single" /\ ready
  /\ mode' = "stopped" /\ ready' = FALSE
  /\ record' = "this"
  /\ UNCHANGED <<face, at, polls, unsure, yes, took, arms>>

FreeRun ==
  /\ mode = "running"
  /\ record' = "free"
  /\ UNCHANGED <<face, at, polls, mode, ready, unsure, yes, took, arms>>

\* What a deadline loop is waiting for does not come.
TimePasses ==
  /\ at \in {"armed?", "await"} /\ ~polls
  /\ polls' = TRUE
  /\ UNCHANGED <<face, at, instrument, unsure, yes, took, arms>>

Stopped == mode' = "stopped" /\ ready' = FALSE /\ UNCHANGED record

----------------------------------------------------------------------------
(* armSingle.                                                              *)

ArmedWhenReady == ready \/ mode = "stopped"

Arm ==
  /\ at = "idle"
  /\ arms < MaxArms
  /\ arms' = arms + 1
  /\ mCompleted' = FALSE
  /\ mArmed' = simulated
  /\ yes' = FALSE
  /\ at' = IF simulated THEN "idle" ELSE "stop"
  /\ record' = IF simulated THEN record ELSE "old"
  /\ UNCHANGED <<simulated, polls, mode, ready, unsure, took>>

\* :STOP, and *OPC? until it has taken effect.
SendStop ==
  /\ at = "stop"
  /\ Stopped
  /\ unsure' = FALSE
  /\ at' = "single"
  /\ UNCHANGED <<face, polls, yes, took, arms>>

SendSingle ==
  /\ at = "single"
  /\ mode' = "single" /\ ready' = FALSE /\ record' = "old"
  /\ at' = "armed?" /\ polls' = FALSE
  /\ UNCHANGED <<face, unsure, yes, took, arms>>

\* :AER?, until it is armed or the time is up. Once armed it stays said, also
\* when the trigger has come already.
AskArmed ==
  /\ at = "armed?"
  /\ \/ ArmedWhenReady /\ mArmed' = TRUE /\ UNCHANGED unsure
     \/ ~ArmedWhenReady /\ polls /\ unsure' = TRUE /\ UNCHANGED mArmed
  /\ at' = "idle"
  /\ UNCHANGED <<simulated, mCompleted, polls, instrument, yes, took, arms>>

----------------------------------------------------------------------------
(* awaitAcquisition, safe, configureTrigger and the readings.              *)

Await ==
  /\ at = "idle"
  /\ mArmed
  /\ mArmed' = FALSE
  /\ IF simulated
     THEN mCompleted' \in BOOLEAN /\ at' = "idle"  \* mCaptureCompletes
     ELSE at' = "await" /\ UNCHANGED mCompleted
  /\ polls' = FALSE
  /\ UNCHANGED <<simulated, instrument, unsure, yes, took, arms>>

\* The RUN bit of :OPERegister:CONDition?.
Complete == mode = "stopped"

AskRunning ==
  /\ at = "await"
  /\ \/ Complete /\ mCompleted' = TRUE /\ yes' = TRUE /\ at' = "idle"
     \/ ~Complete /\ polls /\ at' = "giveUp" /\ UNCHANGED <<mCompleted, yes>>
  /\ UNCHANGED <<simulated, mArmed, polls, instrument, unsure, took, arms>>

\* Mutant: what did not come is left to come.
LeftWaiting == UNCHANGED instrument

\* :STOP, unchecked, so that the next script's stimulus triggers nothing.
Abandon == Stopped

GiveUp ==
  /\ at = "giveUp"
  /\ Abandon
  /\ mCompleted' = FALSE
  /\ at' = "idle"
  /\ UNCHANGED <<simulated, mArmed, polls, unsure, yes, took, arms>>

\* An exchange throws out of the call.
Fail ==
  /\ at # "idle"
  /\ unsure' = TRUE
  /\ at' = "idle"
  /\ UNCHANGED <<face, polls, instrument, yes, took, arms>>

\* Mutant: nothing energises from here.
SafeLeaves == mArmed

SafeClears == FALSE

\* :STOP, unchecked and only down a session that is open; what it throws is
\* swallowed, and nobody learns whether it arrived.
Safe ==
  /\ at = "idle"
  /\ mArmed' = SafeClears
  /\ \/ ~simulated /\ Stopped /\ unsure' = FALSE
     \/ UNCHANGED instrument /\ unsure' = ~simulated
  /\ UNCHANGED <<simulated, mCompleted, at, polls, yes, took, arms>>

\* The other groups: their settings, each checked.
Setup ==
  /\ at = "idle" /\ ~simulated
  /\ at' = "set"
  /\ UNCHANGED <<face, polls, instrument, unsure, yes, took, arms>>

SendSettings ==
  /\ at = "set"
  /\ at' = "idle"
  /\ UNCHANGED <<face, polls, instrument, unsure, yes, took, arms>>

\* configureTrigger: its settings, and last :RUN.
SetupTrigger ==
  /\ at = "idle" /\ ~simulated
  /\ at' = "run"
  /\ yes' = FALSE
  /\ UNCHANGED <<face, polls, instrument, unsure, took, arms>>

SendRun ==
  /\ at = "run"
  /\ mode' = "running" /\ ready' = FALSE /\ UNCHANGED record
  /\ at' = "idle"
  /\ UNCHANGED <<face, polls, unsure, yes, took, arms>>

\* fetchWaveform and readMeasurement read what is on the screen.
Read ==
  /\ at = "idle" /\ ~simulated
  /\ took' = [of |-> record, yes |-> yes]
  /\ UNCHANGED <<face, at, polls, instrument, unsure, yes, arms>>

Next ==
  \/ Ready \/ Trigger \/ FreeRun \/ TimePasses
  \/ Arm \/ SendStop \/ SendSingle \/ AskArmed
  \/ Await \/ AskRunning \/ GiveUp \/ Fail
  \/ Safe \/ Setup \/ SendSettings \/ SetupTrigger \/ SendRun \/ Read

Spec == Init /\ [][Next]_scopeVars

=============================================================================
