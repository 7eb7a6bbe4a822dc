----------------------------- MODULE Digitiser -----------------------------
(***************************************************************************)
(* The PicoScope 5244D: a box with two faces on the one open unit, the     *)
(* Oscilloscope that records and measures blocks and the WaveformGenerator *)
(* that plays. A call runs to its end before the next, through a number of *)
(* SDK calls of which any may be refused; the unit takes its trigger on    *)
(* its own. Resolutions are not told apart.                                *)
(***************************************************************************)
EXTENDS Naturals

CONSTANTS
  Channels,     \* channel_count of them, in the order they are pushed
  Ranges,       \* ranges a channel may be asked for
  Settings,     \* what a Setup may leave of a channel: ChannelState records
  TooLarge,     \* those of Ranges that pushChannel refuses before it sends
  Sources,      \* channels a script triggers on
  Nothing       \* no record, no block, no source

(* A record, and the block it comes from: the range every channel had in   *)
(* the unit, whether AC had settled, and whether an Arm began it.          *)
Shot == [taken : [Channels -> Ranges \cup {Nothing}], unsettled : BOOLEAN, armed : BOOLEAN]
Block == [shot : Shot, done : BOOLEAN]
Record == [shot : Shot, scale : [Channels -> Ranges \cup {Nothing}]]

\* What the constants have to be; the module that gives them values assumes it.
DigitiserConstants ==
  /\ Channels \subseteq Nat /\ Nothing \notin Channels /\ Nothing \notin Ranges
  /\ Nothing \notin Block \cup Record
  /\ TooLarge \subseteq Ranges

VARIABLES
  simulated,  \* nothing is attached
  scope,      \* what the Oscilloscope knows
  unit,       \* the box's unit
  mEnabled,   \* what the WaveformGenerator says of its output
  unsilenced, \* ghost: the last silence() was refused
  touched     \* ghost: the Arm it expects, or holds the record of, was not left
              \* alone until its Await

digitiserVars == <<simulated, scope, unit, mEnabled, unsilenced, touched>>

ChannelState == [range : Ranges \cup {Nothing}, ac : BOOLEAN, on : BOOLEAN]

TypeOK ==
  /\ simulated \in BOOLEAN /\ mEnabled \in BOOLEAN /\ unsilenced \in BOOLEAN /\ touched \in BOOLEAN
  /\ scope.chan \in [Channels -> ChannelState]
  /\ scope.applied \in [Channels -> (Ranges \ TooLarge) \cup {Nothing}]
  /\ scope.torn \subseteq Channels /\ scope.source \in Channels \cup {Nothing}
  /\ {scope.current, scope.couplingChanged, scope.armed, scope.completed, scope.timed} \subseteq BOOLEAN
  /\ scope.pending \subseteq Channels
  /\ scope.held \in Record \cup {Nothing}
  /\ unit.library \in {"untried", "loaded", "missing"}
  /\ unit.open \in BOOLEAN /\ unit.playing \in BOOLEAN
  /\ unit.hw \in [Channels -> ChannelState] /\ unit.settled \subseteq Channels
  /\ unit.block \in Block \cup {Nothing}
  /\ scope.armed /\ ~simulated => scope.pending # {}  \* Await dereferences it

NewChannel == [range |-> Nothing, ac |-> FALSE, on |-> TRUE]
Unapplied == [c \in Channels |-> Nothing]

\* As OpenUnit hands it over. Nothing is configured that this program asked for.
FreshUnit(u) == [u EXCEPT !.open = TRUE, !.hw = [c \in Channels |-> [NewChannel EXCEPT !.on = FALSE]],
                          !.settled = {}, !.block = Nothing, !.playing = FALSE]

\* The unit's destructor: stopped and closed, and silent.
ClosedUnit(u) == [FreshUnit(u) EXCEPT !.open = FALSE]

Init ==
  /\ simulated \in BOOLEAN
  /\ scope = [chan |-> [c \in Channels |-> NewChannel], applied |-> Unapplied, current |-> FALSE,
              couplingChanged |-> FALSE, torn |-> {}, source |-> Nothing, timed |-> FALSE,
              pending |-> {}, held |-> Nothing, armed |-> FALSE, completed |-> FALSE]
  /\ unit = [library |-> "untried", open |-> FALSE, playing |-> FALSE, settled |-> {}, block |-> Nothing,
             hw |-> [c \in Channels |-> [NewChannel EXCEPT !.on = FALSE]]]
  /\ mEnabled = FALSE /\ unsilenced = FALSE /\ touched = FALSE

----------------------------------------------------------------------------
(* The calls within a call. Each yields what may have become of the face   *)
(* and the unit, and whether it returned or threw.                         *)

Returns(s, u) == [ok |-> TRUE, s |-> s, u |-> u]
Throws(s, u) == [ok |-> FALSE, s |-> s, u |-> u]

Then(outcomes, F(_, _)) == UNION {IF o.ok THEN F(o.s, o.u) ELSE {o} : o \in outcomes}

\* Mutant: the record outlives what it was taken with.
HeldOn(s) == [s EXCEPT !.completed = FALSE]

Invalidated(s) == [s EXCEPT !.held = Nothing, !.completed = FALSE]

Disarmed(s) == [Invalidated(s) EXCEPT !.pending = {}, !.armed = FALSE]

ResetCapture(s) == [Disarmed(s) EXCEPT !.applied = Unapplied, !.current = FALSE]

\* A unit with another Generation than mAppliedTo.
Unfamiliar(s) == [s EXCEPT !.current = FALSE]

\* The channels in done have been pushed, those that have a range.
Pushed(s, u, done) ==
  LET sent == {c \in done : s.chan[c].range # Nothing}
      Noted(c) == IF c \in sent /\ s.chan[c].on THEN s.chan[c].range ELSE Nothing
  IN  Returns([s EXCEPT !.applied = [c \in Channels |-> IF c \in done THEN Noted(c) ELSE s.applied[c]],
                        !.torn = s.torn \ sent],
              [u EXCEPT !.hw = [c \in Channels |-> IF c \in sent THEN s.chan[c] ELSE u.hw[c]],
                        !.settled = {c \in u.settled : c \in sent => s.chan[c].ac /\ u.hw[c].ac}])

\* SetChannel, and SetBandwidthFilter when it was asked for.
PushChannel(s, u, c) ==
  CASE s.chan[c].range = Nothing -> {Pushed(s, u, {c})}
    [] s.chan[c].range \in TooLarge -> {Throws(s, u)}
    [] OTHER -> {Pushed(s, u, {c}), Throws(s, u), Throws([s EXCEPT !.torn = s.torn \cup {c}], Pushed(s, u, {c}).u)}

\* All of them, or those before the one that throws.
PushChannels(s, u) ==
  LET refused == {c \in Channels : s.chan[c].range \in TooLarge}
      Before(c) == Pushed(s, u, {d \in Channels : d < c})
  IN  {o \in {Pushed(s, u, Channels)} : refused = {}}
      \cup {o \in UNION {PushChannel(Before(c).s, Before(c).u, c) : c \in {d \in Channels : \A r \in refused : d <= r}} : ~o.ok}

\* The vendor's library, looked for once in the life of the process.
Loaded(s, u) ==
  CASE u.library = "loaded" -> {Returns(s, u)}
    [] u.library = "missing" -> {Throws(s, u)}
    [] OTHER -> {Returns(s, [u EXCEPT !.library = "loaded"]), Throws(s, [u EXCEPT !.library = "missing"])}

\* openedUnit: the box's unit, opened unless it is, if it says it is a 5244D.
OpenedUnit(s, u) ==
  IF u.open THEN {Returns(s, u)}
  ELSE Then(Loaded(s, u), LAMBDA t, v : {Throws(t, v), Returns(Unfamiliar(t), FreshUnit(v))})

\* The unit with this face's settings on it, or none at all.
Session(s, u) ==
  Then(OpenedUnit(s, u), LAMBDA t, v :
    IF t.current THEN {Returns(t, v)}
    ELSE LET pushed == PushChannels(ResetCapture(t), v) \cup {Throws(ResetCapture(t), v)}
         IN  {IF p.ok THEN Returns([p.s EXCEPT !.current = TRUE], p.u) ELSE Throws(p.s, ClosedUnit(p.u))
               : p \in pushed})

\* One untriggered block, and a wait, after AC was asked for.
Settled(s, u) ==
  IF ~s.couplingChanged THEN {Returns(s, u)}
  ELSE {Throws(s, [u EXCEPT !.block = Nothing]),
        Returns([s EXCEPT !.couplingChanged = FALSE],
                [u EXCEPT !.block = Nothing,
                          !.settled = {c \in Channels : u.hw[c].ac /\ u.hw[c].on}])}

Enabled(s) == {c \in Channels : s.applied[c] # Nothing}

ShotOf(u, armed) ==
  [taken |-> [c \in Channels |-> IF u.hw[c].on THEN u.hw[c].range ELSE Nothing],
   unsettled |-> \E c \in Channels : u.hw[c].on /\ u.hw[c].ac /\ c \notin u.settled,
   armed |-> armed]

\* planCapture, settleCoupling, the buffers, the trigger and RunBlock.
BeginCapture(s, u, triggered) ==
  IF ~s.timed THEN {Throws(s, u)}
  ELSE Then(Settled(s, u), LAMBDA t, v :
    LET refused == {Throws(t, v)}
        running == [v EXCEPT !.block = [shot |-> ShotOf(v, triggered), done |-> FALSE]]
    IN  IF Enabled(t) = {} \/ (triggered /\ t.source \notin Enabled(t) \cup {Nothing}) THEN refused
        ELSE refused \cup {Returns(t, running)})

\* GetValues of the channels the capture was begun with, at the scale of now. The
\* scale of one that has been switched off since is an empty optional, which is
\* dereferenced: Nothing stands for what is found there.
RecordOf(s, u, enabled) ==
  [shot |-> u.block.shot, scale |-> [c \in Channels |-> IF c \in enabled THEN s.applied[c] ELSE Nothing]]

----------------------------------------------------------------------------
(* Setup.                                                                  *)

Mark(is) == touched' = (is /\ (scope'.armed \/ scope'.held # Nothing))

\* Nothing keeps a script from this while it expects an event.
Touch == Mark(touched \/ scope.armed)

Become(o) == scope' = o.s /\ unit' = o.u

\* Setup( Osc.channel<N>()...): the settings stay asked for when they are refused.
SetupChannel(c) ==
  /\ \E want \in Settings :
       LET asked == Invalidated([scope EXCEPT !.chan[c] = want,
                         !.couplingChanged = @ \/ (want.ac /\ ~scope.chan[c].ac)])
       IN  IF simulated THEN scope' = asked /\ UNCHANGED unit
           ELSE \E o \in Then(Session(asked, unit), LAMBDA s, u : PushChannel(s, u, c)) : Become(o)
  /\ Touch
  /\ UNCHANGED <<simulated, mEnabled, unsilenced>>

\* The trigger and the timebase wait for the capture.
SetupTrigger ==
  /\ \E c \in Sources : scope' = [Invalidated(scope) EXCEPT !.source = c]
  /\ Mark(touched)
  /\ UNCHANGED <<simulated, unit, mEnabled, unsilenced>>

SetupTimebase ==
  /\ scope' = [Invalidated(scope) EXCEPT !.timed = TRUE]
  /\ Mark(touched)
  /\ UNCHANGED <<simulated, unit, mEnabled, unsilenced>>

\* A resolution: every channel is pushed again when it is another one.
SetupAcquisition ==
  /\ ~simulated
  /\ \E o \in Then(Session(Invalidated(scope), unit), LAMBDA s, u :
                PushChannels(s, u) \cup {Throws(s, u), Returns(s, u)}) : Become(o)
  /\ Touch
  /\ UNCHANGED <<simulated, mEnabled, unsilenced>>

----------------------------------------------------------------------------
(* Arm, Await, Fetch and Measure.                                          *)

\* An Arm whose pre-trigger time is too long stops the block it began.
Armed(s, u) ==
  Then(Session(s, u), LAMBDA t, v :
    Then(BeginCapture(t, [v EXCEPT !.block = Nothing], TRUE), LAMBDA t2, v2 :
      {Returns([t2 EXCEPT !.armed = TRUE, !.pending = Enabled(t2)], v2),
       Throws(t2, [v2 EXCEPT !.block = Nothing])}))

Arm ==
  /\ LET fresh == Disarmed(scope)
     IN  IF simulated THEN scope' = [fresh EXCEPT !.armed = TRUE] /\ UNCHANGED unit
         ELSE \E o \in Armed(fresh, unit) : Become(o)
  /\ touched' = FALSE
  /\ UNCHANGED <<simulated, mEnabled, unsilenced>>

\* The event, and the record after it.
Event ==
  /\ unit.block # Nothing /\ ~unit.block.done
  /\ unit' = [unit EXCEPT !.block.done = TRUE]
  /\ UNCHANGED <<simulated, scope, mEnabled, unsilenced, touched>>

\* A block that was stopped, or never begun, may read as ready too.
NoBlock == [shot |-> [taken |-> Unapplied, unsettled |-> FALSE, armed |-> FALSE], done |-> TRUE]

\* finishCapture: the record, or nullptr once the time is up, or a refused call.
FinishCapture(s, u, enabled) ==
  LET seen == IF u.block = Nothing THEN [u EXCEPT !.block = NoBlock] ELSE u
      stopped == [u EXCEPT !.block = Nothing]
      over == [s EXCEPT !.completed = FALSE]
  IN  {Throws(s, u), Throws(s, stopped)}
      \cup (IF seen.block.done
            THEN {Returns([s EXCEPT !.completed = TRUE, !.held = RecordOf(s, seen, enabled)], stopped)}
            ELSE {Returns(over, stopped)})

\* Only what is armed is awaited; anything else answers false at once.
Await ==
  /\ scope.armed
  /\ LET taken == [scope EXCEPT !.armed = FALSE, !.pending = {}]
     IN  IF simulated
         THEN scope' \in {taken, [taken EXCEPT !.completed = TRUE]} /\ UNCHANGED unit
         ELSE \E o \in Then(Session(taken, unit), LAMBDA s, u : FinishCapture(s, u, scope.pending)) :
                Become(o)
  /\ Mark(touched)
  /\ UNCHANGED <<simulated, mEnabled, unsilenced>>

\* capture(), for Fetch and Measure: the held record when there is one, and
\* otherwise a free-running block, which is not kept.
FreshCaptures ==
  IF scope.held # Nothing \/ simulated THEN {}
  ELSE Then(Session(scope, unit), LAMBDA s, u : BeginCapture(s, u, FALSE))

Read ==
  /\ \E o \in FreshCaptures :
       /\ scope' = o.s
       /\ unit' = [o.u EXCEPT !.block = Nothing]
  /\ Touch
  /\ UNCHANGED <<simulated, mEnabled, unsilenced>>

\* What a Fetch or a Measure may now be made of.
Readings ==
  ({scope.held} \ {Nothing}) \cup
  {RecordOf(o.s, o.u, Enabled(o.s)) : o \in {p \in FreshCaptures : p.ok}}

----------------------------------------------------------------------------
(* safe(), and what takes the unit away.                                   *)

\* The armed capture, what was held, and the block that is running, unless the
\* unit refuses to stop.
Safe ==
  /\ scope' = Disarmed(scope)
  /\ unit' \in {unit, [unit EXCEPT !.block = Nothing]}
  /\ touched' = FALSE
  /\ UNCHANGED <<simulated, mEnabled, unsilenced>>

\* closeSession(), useApi() and useAddress() of this face.
CloseSession ==
  /\ scope' = ResetCapture(scope)
  /\ unit' = ClosedUnit(unit)
  /\ unsilenced' = FALSE /\ touched' = FALSE
  /\ UNCHANGED <<simulated, mEnabled>>

----------------------------------------------------------------------------
(* The WaveformGenerator, which knows nothing of the scope's settings.     *)

\* A setting out of range is refused with nothing changed. What is sent is on
\* at once; drawn shapes are started with a second call.
Apply ==
  /\ mEnabled' = TRUE
  /\ IF simulated THEN UNCHANGED <<scope, unit, unsilenced>>
     ELSE \E o \in OpenedUnit(scope, unit) :
            \/ Become(o) /\ UNCHANGED unsilenced
            \/ o.ok /\ scope' = o.s /\ unit' = [o.u EXCEPT !.playing = TRUE] /\ unsilenced' = FALSE
  /\ UNCHANGED <<simulated, touched>>

Silenced(o) ==
  \/ Become(o) /\ unsilenced' = TRUE
  \/ o.ok /\ scope' = o.s /\ unit' = [o.u EXCEPT !.playing = FALSE] /\ unsilenced' = FALSE

\* It opens a unit to silence it.
Remove ==
  /\ mEnabled' = FALSE
  /\ IF simulated THEN UNCHANGED <<scope, unit, unsilenced>>
     ELSE \E o \in OpenedUnit(scope, unit) : Silenced(o)
  /\ UNCHANGED <<simulated, touched>>

MustSilence == unit.open

\* Only a unit that is open, and what it throws is swallowed.
SafeGenerator ==
  /\ mEnabled' = FALSE
  /\ IF MustSilence THEN Silenced(Returns(scope, unit)) ELSE UNCHANGED <<scope, unit, unsilenced>>
  /\ UNCHANGED <<simulated, touched>>

\* closeSession() of the generator: the scope is not told.
CloseGenerator ==
  /\ unit' = ClosedUnit(unit)
  /\ unsilenced' = FALSE
  /\ UNCHANGED <<simulated, scope, mEnabled>>
  /\ Touch

Next ==
  \/ \E c \in Channels : SetupChannel(c)
  \/ SetupTrigger \/ SetupTimebase \/ SetupAcquisition
  \/ Arm \/ Event \/ Await \/ Read \/ Safe \/ CloseSession
  \/ Apply \/ Remove \/ SafeGenerator \/ CloseGenerator

Spec == Init /\ [][Next]_digitiserVars
=============================================================================
