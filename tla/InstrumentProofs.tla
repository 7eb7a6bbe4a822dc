-------------------------- MODULE InstrumentProofs --------------------------
(***************************************************************************)
(* Proofs about the instruments, for any channels, ranges and settings, any *)
(* number of Arms and any kinds of source: what a scope hands out is of the *)
(* Arm that asked for it and at the range it was taken at, a generator that *)
(* says it is off is off, each scope keeps what Arm and Await promise, a    *)
(* source plays what an Apply asked for, and a snapshot puts back what it   *)
(* found.                                                                   *)
(***************************************************************************)
EXTENDS MCInstruments, Integers, Sequences, TLAPS

----------------------------------------------------------------------------
(* The inductive invariant, one part for each instrument.                  *)

\* The DSOX1202G: with an Arm that waits, or one that was said to have come, what
\* has stopped it is this Arm's event; what it does not know of has been stopped.
KeysightInv ==
  /\ mArmed \in BOOLEAN /\ unsure \in BOOLEAN /\ yes \in BOOLEAN /\ simulated \in BOOLEAN
  /\ simulated = TRUE => at = "idle" /\ mode # "single" /\ record # "this" /\ yes = FALSE
  /\ at \in {"idle", "stop", "single", "armed?", "await", "giveUp", "run", "set"}
  /\ mArmed = TRUE => at \in {"idle", "run", "set"} /\ yes = FALSE
  /\ at \in {"stop", "single", "armed?", "await", "giveUp"} => yes = FALSE /\ mArmed = FALSE
  /\ at = "run" => yes = FALSE
  /\ (mArmed = TRUE \/ at \in {"armed?", "await"}) /\ simulated = FALSE /\ mode = "stopped" => record = "this"
  /\ yes = TRUE => mode = "stopped" /\ record = "this"
  /\ mode = "single" => record = "old"
  /\ at \in {"idle", "run", "set"} /\ mode = "single" => mArmed = TRUE \/ unsure = TRUE
  /\ ready = TRUE => mode = "single"
  /\ at = "armed?" => mode # "running"
  /\ at = "single" => mode = "stopped"
  /\ took.yes \in BOOLEAN
  /\ took.yes = TRUE => took.of = "this"

\* What the unit has a channel at.
InUnit(u, c) == IF u.hw[c].on THEN u.hw[c].range ELSE Nothing

Face ==
  [chan : [Channels -> P!ChannelState], applied : [Channels -> Ranges \cup {Nothing}],
   current : BOOLEAN, couplingChanged : BOOLEAN, torn : SUBSET Channels, source : Sources \cup {Nothing},
   timed : BOOLEAN, pending : SUBSET Channels, held : P!Record \cup {Nothing}, armed : BOOLEAN, completed : BOOLEAN]

Box ==
  [library : {"untried", "loaded", "missing"}, open : BOOLEAN, playing : BOOLEAN, settled : SUBSET Channels,
   block : P!Block \cup {Nothing}, hw : [Channels -> P!ChannelState]]

\* A channel that was never set up is off, and so is a unit that is not open.
Unset(s, u) ==
  /\ \A c \in Channels : s.chan[c].range = Nothing => u.hw[c].on = FALSE
  /\ u.open = FALSE => u.block = Nothing /\ u.playing = FALSE /\ \A c \in Channels : u.hw[c].on = FALSE

\* The settings the face has noted are in the unit, but for half a push.
Noted(s, u) == \A c \in Channels \ s.torn : s.applied[c] = InUnit(u, c)

\* With a record that is held no block is running.
Held(s, u) == s.held # Nothing => u.block = Nothing

Known(s, u) ==
  /\ s \in Face /\ u \in Box
  /\ Unset(s, u) /\ Held(s, u)
  /\ u.open = TRUE /\ s.current = TRUE => Noted(s, u)

\* A block waits for its trigger, at the settings that are in the unit.
Waiting(s, u) ==
  /\ u.open = TRUE /\ s.current = TRUE /\ s.held = Nothing /\ s.completed = FALSE
  /\ u.block # Nothing /\ u.block.shot.armed = TRUE
  /\ u.block.shot.taken = [c \in Channels |-> InUnit(u, c)]
  /\ s.pending = P!Enabled(s)

\* A record that is held is at the scale the channels still have, which they had
\* when it was taken.
Scaled(s) ==
  s.held # Nothing =>
    /\ s.held.scale = s.applied
    /\ \A c \in Channels \ s.torn : s.held.scale[c] = s.held.shot.taken[c]

\* A scope that is attached: nothing is held while an Arm is expected, and a yes has
\* its record. One that is simulated has no unit.
Attached(s, u) ==
  /\ Known(s, u)
  /\ s.armed = TRUE => s.held = Nothing /\ s.completed = FALSE
  /\ s.completed = TRUE => s.held # Nothing

Unattached(s, u) == Known(s, u) /\ u.open = FALSE /\ s.held = Nothing

\* One whose script leaves it alone from Arm to Await.
Undisturbed(s, u) ==
  /\ s.armed = TRUE => Waiting(s, u)
  /\ Scaled(s)

PicoInv ==
  /\ simulated \in BOOLEAN /\ mEnabled \in BOOLEAN /\ unsilenced \in BOOLEAN /\ touched \in BOOLEAN
  /\ IF simulated THEN Unattached(scope, unit)
     ELSE Attached(scope, unit) /\ (touched = FALSE => Undisturbed(scope, unit))
  /\ mEnabled = FALSE /\ unit.playing = TRUE => unsilenced = TRUE

\* A snapshot is of what was noted; nothing happens between a Restore and its end.
SourceInv ==
  /\ restored \in BOOLEAN
  /\ DOMAIN mSettings = S!Names
  /\ mHeld # Nothing =>
       /\ kind \in {"supply", "ac"}
       /\ DOMAIN mHeld.noted = S!Names
       /\ mHeld.settings = [mHeld.noted EXCEPT !.PROT = Nothing]
  /\ S!RestoredAsFound

\* What a unit can be told, and what it has.
Sayable == {"LOAD", "FUNC", "FREQ", "SHAPE", "VOLT", "OFFS", "CURR", "PROT"}
Full(u) == DOMAIN u = Sayable \cup {"on"}

\* What a supply can be told.
DcOnly(c) == \A n \in S!Names \ {"VOLT", "CURR", "PROT"} : c[n] = Nothing

\* A source that is off has no conductor on, and a supply remembers settings of
\* a supply; what the last Apply came to is as it should be.
PlayInv ==
  /\ kind \in Kinds /\ simulated \in BOOLEAN
  /\ kind = "ac" => simulated = TRUE
  /\ Full(box)
  /\ isOn \in BOOLEAN
  /\ isOn = FALSE => conductors = {}
  /\ kind = "supply" => DcOnly(mSettings)
  /\ kind = "supply" /\ mHeld # Nothing => DcOnly(mHeld.settings)
  /\ S!PlaysWhatWasAsked
  /\ S!CompleteIsTaken

----------------------------------------------------------------------------
(* The DSOX1202G.                                                          *)

LEMMA KeysightInit == K!Init => KeysightInv
<1>1. K!Init => took.yes = FALSE
  BY DEF K!Init
<1> QED
  BY <1>1 DEF K!Init, KeysightInv

LEMMA KeysightStep == KeysightInv /\ K!Next => KeysightInv'
<1> SUFFICES ASSUME KeysightInv, K!Next
             PROVE  KeysightInv'
  OBVIOUS
<1> USE DEF KeysightInv, K!face, K!instrument
<1>1. CASE K!Ready
  BY <1>1 DEF K!Ready
<1>2. CASE K!Trigger
  BY <1>2 DEF K!Trigger
<1>3. CASE K!FreeRun
  BY <1>3 DEF K!FreeRun
<1>4. CASE K!TimePasses
  BY <1>4 DEF K!TimePasses
<1>5. CASE K!Arm
  BY <1>5 DEF K!Arm
<1>6. CASE K!SendStop
  BY <1>6 DEF K!SendStop, K!Stopped
<1>7. CASE K!SendSingle
  BY <1>7 DEF K!SendSingle
<1>8. CASE K!AskArmed
  BY <1>8 DEF K!AskArmed, K!ArmedWhenReady
<1>9. CASE K!Await
  BY <1>9 DEF K!Await
<1>10. CASE K!AskRunning
  BY <1>10 DEF K!AskRunning, K!Complete
<1>11. CASE K!GiveUp
  BY <1>11 DEF K!GiveUp, K!Abandon, K!Stopped
<1>12. CASE K!Fail
  BY <1>12 DEF K!Fail
<1>13. CASE K!Safe
  BY <1>13 DEF K!Safe, K!SafeClears, K!Stopped
<1>14. CASE K!Setup
  BY <1>14 DEF K!Setup
<1>15. CASE K!SendSettings
  BY <1>15 DEF K!SendSettings
<1>16. CASE K!SetupTrigger
  BY <1>16 DEF K!SetupTrigger
<1>17. CASE K!SendRun
  BY <1>17 DEF K!SendRun
<1>18. CASE K!Read
  BY <1>18 DEF K!Read
<1> QED
  BY <1>1, <1>2, <1>3, <1>4, <1>5, <1>6, <1>7, <1>8, <1>9, <1>10, <1>11, <1>12, <1>13,
     <1>14, <1>15, <1>16, <1>17, <1>18
     DEF K!Next

----------------------------------------------------------------------------
(* The calls within a call of the PicoScope.                               *)

\* What a push leaves alone of the face, and of the unit.
SameFace(s, t) ==
  /\ t.chan = s.chan /\ t.current = s.current /\ t.couplingChanged = s.couplingChanged /\ t.source = s.source
  /\ t.timed = s.timed /\ t.pending = s.pending /\ t.held = s.held /\ t.armed = s.armed /\ t.completed = s.completed

SameBox(u, v) == v.library = u.library /\ v.open = u.open /\ v.playing = u.playing /\ v.block = u.block

\* What is so of a face and the open unit it pushes its channels to.
Pushing(s, u) ==
  /\ s \in Face /\ u \in Box /\ u.open = TRUE
  /\ \A c \in Channels : s.chan[c].range = Nothing => u.hw[c].on = FALSE

\* What it makes of a channel.
PushedAt(s, u, done, o, c) ==
  IF c \in done /\ s.chan[c].range # Nothing
  THEN /\ o.u.hw[c] = s.chan[c] /\ c \notin o.s.torn
       /\ o.s.applied[c] = IF s.chan[c].on THEN s.chan[c].range ELSE Nothing
  ELSE /\ o.u.hw[c] = u.hw[c]
       /\ c \in o.s.torn <=> c \in s.torn
       /\ o.s.applied[c] = IF c \in done THEN Nothing ELSE s.applied[c]

LEMMA FaceUpdated ==
  ASSUME NEW s \in Face, NEW applied \in [Channels -> Ranges \cup {Nothing}], NEW torn \in SUBSET Channels
  PROVE  [s EXCEPT !.applied = applied, !.torn = torn] \in Face
BY Zenon DEF Face

LEMMA PushedFields ==
  ASSUME NEW s \in Face, NEW u \in Box, NEW done \in SUBSET Channels, NEW o, o = P!Pushed(s, u, done)
  PROVE  /\ o.ok = TRUE /\ o.s \in Face /\ o.u \in Box /\ SameFace(s, o.s) /\ SameBox(u, o.u)
         /\ o.s.torn \subseteq s.torn
         /\ \A c \in Channels : PushedAt(s, u, done, o, c)
<1> DEFINE sent == {c \in done : s.chan[c].range # Nothing}
           Of(c) == IF c \in sent /\ s.chan[c].on THEN s.chan[c].range ELSE Nothing
           applied == [c \in Channels |-> IF c \in done THEN Of(c) ELSE s.applied[c]]
           hw == [c \in Channels |-> IF c \in sent THEN s.chan[c] ELSE u.hw[c]]
           settled == {c \in u.settled : c \in sent => s.chan[c].ac /\ u.hw[c].ac}
<1>1. o = [ok |-> TRUE, s |-> [s EXCEPT !.applied = applied, !.torn = s.torn \ sent],
           u |-> [u EXCEPT !.hw = hw, !.settled = settled]]
  BY DEF P!Pushed, P!Returns
<1>2. /\ s.chan \in [Channels -> P!ChannelState] /\ s.applied \in [Channels -> Ranges \cup {Nothing}]
      /\ s.torn \in SUBSET Channels /\ u.hw \in [Channels -> P!ChannelState] /\ u.settled \in SUBSET Channels
  BY DEF Face, Box
<1>3. \A c \in Channels : s.chan[c].range \in Ranges \cup {Nothing}
  BY <1>2 DEF P!ChannelState
<1>4. applied \in [Channels -> Ranges \cup {Nothing}]
  BY <1>2, <1>3
<1>5. hw \in [Channels -> P!ChannelState]
  BY <1>2
<1>6. settled \in SUBSET Channels
  BY <1>2
<1> DEFINE torn == s.torn \ sent
<1>7. \A c \in Channels : IF c \in done /\ s.chan[c].range # Nothing
         THEN /\ hw[c] = s.chan[c] /\ c \notin torn
              /\ applied[c] = IF s.chan[c].on THEN s.chan[c].range ELSE Nothing
         ELSE /\ hw[c] = u.hw[c]
              /\ c \in torn <=> c \in s.torn
              /\ applied[c] = IF c \in done THEN Nothing ELSE s.applied[c]
  OBVIOUS
<1>8. torn \in SUBSET Channels /\ torn \subseteq s.torn
  BY <1>2
<1> HIDE DEF applied, hw, settled, torn
<1>9. o = [ok |-> TRUE, s |-> [s EXCEPT !.applied = applied, !.torn = torn],
           u |-> [u EXCEPT !.hw = hw, !.settled = settled]]
  BY <1>1 DEF torn
<1>10. /\ o.ok = TRUE /\ o.s = [s EXCEPT !.applied = applied, !.torn = torn]
       /\ o.u = [u EXCEPT !.hw = hw, !.settled = settled]
  BY <1>9
<1>11. /\ o.s \in Face /\ SameFace(s, o.s) /\ o.s.applied = applied /\ o.s.torn = torn
  <2>1. o.s \in Face
    <3>1. [s EXCEPT !.applied = applied, !.torn = torn] \in Face
      BY <1>4, <1>8, FaceUpdated
    <3> QED
      BY <3>1, <1>10
  <2>2. o.s.applied = applied /\ o.s.torn = torn
    BY <1>10 DEF Face
  <2>3. SameFace(s, o.s)
    BY <1>10 DEF SameFace, Face
  <2> QED
    BY <2>1, <2>2, <2>3
<1>12. /\ o.u \in Box /\ SameBox(u, o.u) /\ o.u.hw = hw
  BY <1>5, <1>6, <1>10 DEF Box, SameBox
<1>13. \A c \in Channels : PushedAt(s, u, done, o, c)
  BY <1>7, <1>11, <1>12 DEF PushedAt
<1> QED
  BY <1>8, <1>10, <1>11, <1>12, <1>13

\* A push keeps what is noted of the unit, but for the channel it stopped half way.
Kept(s, u, o) ==
  /\ Pushing(o.s, o.u) /\ SameFace(s, o.s) /\ SameBox(u, o.u)
  /\ Noted(s, u) => Noted(o.s, o.u)
  /\ o.ok \in BOOLEAN /\ (o.ok = TRUE => o.s.torn \subseteq s.torn)

LEMMA PushedKept ==
  ASSUME NEW s, NEW u, Pushing(s, u), NEW done \in SUBSET Channels
  PROVE  LET o == P!Pushed(s, u, done) IN
         Kept(s, u, o) /\ o.ok = TRUE /\ (done = Channels => \A c \in Channels : o.s.applied[c] = InUnit(o.u, c))
<1>0. PICK o : o = P!Pushed(s, u, done)
  OBVIOUS
<1>1. /\ o.ok = TRUE /\ o.s \in Face /\ o.u \in Box /\ SameFace(s, o.s) /\ SameBox(u, o.u)
      /\ o.s.torn \subseteq s.torn
      /\ \A c \in Channels : PushedAt(s, u, done, o, c)
  BY <1>0, PushedFields DEF Pushing
<1>2. \A c \in Channels : s.chan[c].range = Nothing => u.hw[c].on = FALSE
  BY DEF Pushing
<1>3. \A c \in Channels : c \in done => o.s.applied[c] = InUnit(o.u, c)
  BY <1>1, <1>2 DEF InUnit, PushedAt
<1>4. \A c \in Channels : o.s.chan[c].range = Nothing => o.u.hw[c].on = FALSE
  BY <1>1, <1>2 DEF SameFace, PushedAt
<1>5. Pushing(o.s, o.u)
  BY <1>1, <1>4 DEF Pushing, SameBox
<1>6. ASSUME Noted(s, u), NEW c \in Channels \ o.s.torn
      PROVE  o.s.applied[c] = InUnit(o.u, c)
  <2>1. CASE c \in done
    BY <1>3, <2>1
  <2>2. CASE c \notin done
    BY <1>1, <1>6, <2>2 DEF Noted, InUnit, PushedAt
  <2> QED
    BY <2>1, <2>2
<1>7. Noted(s, u) => Noted(o.s, o.u)
  BY <1>6 DEF Noted
<1>8. Kept(s, u, o)
  BY <1>1, <1>5, <1>7 DEF Kept
<1> QED
  BY <1>0, <1>1, <1>3, <1>8

\* Half a push: the unit has the channel, the driver has not noted it.
LEMMA TornKept ==
  ASSUME NEW s, NEW u, Pushing(s, u), NEW c \in Channels
  PROVE  Kept(s, u, P!Throws([s EXCEPT !.torn = s.torn \cup {c}], P!Pushed(s, u, {c}).u))
<1>0. PICK p : p = P!Pushed(s, u, {c})
  OBVIOUS
<1> DEFINE torn == s.torn \cup {c}
           t == [s EXCEPT !.torn = torn]
           o == P!Throws(t, p.u)
<1>1. /\ p.u \in Box /\ SameBox(u, p.u)
      /\ \A d \in Channels : PushedAt(s, u, {c}, p, d)
  BY <1>0, PushedFields DEF Pushing
<1>2. torn \in SUBSET Channels
  BY DEF Pushing, Face
<1>3. s \in Face
  BY DEF Pushing
<1> HIDE DEF torn
<1>4. t \in Face
  BY <1>2, <1>3, Zenon DEF Face
<1>5. SameFace(s, t) /\ t.torn = torn /\ t.applied = s.applied
  BY <1>3 DEF Face, SameFace
<1>6. o.ok = FALSE /\ o.s = t /\ o.u = p.u
  BY DEF P!Throws
<1> HIDE DEF t, o
<1>7. \A d \in Channels : t.chan[d].range = Nothing => p.u.hw[d].on = FALSE
  BY <1>1, <1>5 DEF Pushing, SameFace, PushedAt
<1>8. Pushing(t, p.u)
  BY <1>1, <1>4, <1>7 DEF Pushing, SameBox
<1>9. Noted(s, u) => Noted(t, p.u)
  BY <1>1, <1>5 DEF Noted, InUnit, PushedAt, torn
<1>10. Kept(s, u, o)
  BY <1>1, <1>5, <1>6, <1>8, <1>9 DEF Kept
<1> QED
  BY <1>0, <1>10 DEF o, t, torn

LEMMA ThrownKept ==
  ASSUME NEW s, NEW u, Pushing(s, u)
  PROVE  Kept(s, u, P!Throws(s, u))
BY DEF P!Throws, Kept, SameFace, SameBox

LEMMA PushChannelKept ==
  ASSUME NEW s, NEW u, Pushing(s, u), NEW c \in Channels
  PROVE  \A o \in P!PushChannel(s, u, c) : Kept(s, u, o)
<1>1. \A o \in P!PushChannel(s, u, c) :
        \/ o = P!Pushed(s, u, {c})
        \/ o = P!Throws(s, u)
        \/ o = P!Throws([s EXCEPT !.torn = s.torn \cup {c}], P!Pushed(s, u, {c}).u)
  BY DEF P!PushChannel
<1>2. Kept(s, u, P!Pushed(s, u, {c}))
  BY PushedKept
<1> QED
  BY <1>1, <1>2, TornKept, ThrownKept

LEMMA KeptTwice ==
  ASSUME NEW s, NEW u, NEW p, NEW o, Kept(s, u, p), p.ok = TRUE, Kept(p.s, p.u, o)
  PROVE  Kept(s, u, o)
BY DEF Kept, SameFace, SameBox

\* What is noted once all of them have been pushed.
Whole(o) == o.ok = TRUE => \A c \in Channels : o.s.applied[c] = InUnit(o.u, c)

LEMMA PushChannelsKept ==
  ASSUME NEW s, NEW u, Pushing(s, u), NEW o \in P!PushChannels(s, u)
  PROVE  Kept(s, u, o) /\ Whole(o)
<1>1. \/ o = P!Pushed(s, u, Channels)
      \/ ~o.ok /\ \E c \in Channels : LET p == P!Pushed(s, u, {d \in Channels : d < c})
                                      IN  o \in P!PushChannel(p.s, p.u, c)
  BY DEF P!PushChannels
<1>2. CASE o = P!Pushed(s, u, Channels)
  BY <1>2, PushedKept DEF Whole
<1>3. ASSUME ~o.ok, NEW c \in Channels, NEW p, p = P!Pushed(s, u, {d \in Channels : d < c}),
             o \in P!PushChannel(p.s, p.u, c)
      PROVE  Kept(s, u, o) /\ Whole(o)
  <2>1. Kept(s, u, p) /\ p.ok = TRUE
    BY <1>3, PushedKept
  <2>2. Kept(p.s, p.u, o)
    BY <1>3, <2>1, PushChannelKept DEF Kept
  <2> QED
    BY <1>3, <2>1, <2>2, KeptTwice DEF Whole
<1> QED
  BY <1>1, <1>2, <1>3


----------------------------------------------------------------------------
(* The unit is opened and closed, and a session has this face's settings.  *)

\* A script sets up, arms and awaits with nothing held.
Ready(s, u) == Known(s, u) /\ s.held = Nothing /\ s.completed = FALSE

\* What a call has come to: the block is the one there was, or none, and nothing
\* plays that did not.
Going(s, u, o) ==
  /\ o.ok \in BOOLEAN
  /\ Ready(o.s, o.u)
  /\ o.s.armed = TRUE => s.armed = TRUE
  /\ o.u.block \in {u.block, Nothing}
  /\ o.u.playing = TRUE => u.playing = TRUE
  /\ o.ok = TRUE => o.u.open = TRUE /\ o.s.current = TRUE /\ o.s.torn \subseteq s.torn

LEMMA BoxUpdated ==
  ASSUME NEW u \in Box, NEW open \in BOOLEAN, NEW hw \in [Channels -> P!ChannelState],
         NEW settled \in SUBSET Channels, NEW block \in P!Block \cup {Nothing}, NEW playing \in BOOLEAN
  PROVE  [u EXCEPT !.open = open, !.hw = hw, !.settled = settled, !.block = block, !.playing = playing] \in Box
BY Zenon DEF Box

\* A unit nobody has configured.
Blank(u) ==
  /\ u \in Box /\ u.block = Nothing /\ u.playing = FALSE
  /\ \A c \in Channels : u.hw[c].on = FALSE

LEMMA Fresh ==
  ASSUME NEW u \in Box, NEW v, v = P!FreshUnit(u)
  PROVE  Blank(v) /\ v.open = TRUE
<1> DEFINE hw == [c \in Channels |-> [P!NewChannel EXCEPT !.on = FALSE]]
<1>1. hw \in [Channels -> P!ChannelState] /\ \A c \in Channels : hw[c].on = FALSE
  BY DEF P!NewChannel, P!ChannelState
<1>2. v = [u EXCEPT !.open = TRUE, !.hw = hw, !.settled = {}, !.block = Nothing, !.playing = FALSE]
  BY DEF P!FreshUnit
<1> HIDE DEF hw
<1>3. v \in Box
  <2>1. {} \in SUBSET Channels /\ Nothing \in P!Block \cup {Nothing} /\ TRUE \in BOOLEAN /\ FALSE \in BOOLEAN
    OBVIOUS
  <2>2. [u EXCEPT !.open = TRUE, !.hw = hw, !.settled = {}, !.block = Nothing, !.playing = FALSE] \in Box
    BY <1>1, <2>1, BoxUpdated, Zenon
  <2> QED
    BY <1>2, <2>2
<1>4. v.open = TRUE /\ v.hw = hw /\ v.block = Nothing /\ v.playing = FALSE
  BY <1>2 DEF Box
<1> QED
  BY <1>1, <1>3, <1>4 DEF Blank

LEMMA Closed ==
  ASSUME NEW u \in Box, NEW v, v = P!ClosedUnit(u)
  PROVE  Blank(v) /\ v.open = FALSE
<1>1. PICK w : w = P!FreshUnit(u)
  OBVIOUS
<1>2. v = [w EXCEPT !.open = FALSE]
  BY <1>1 DEF P!ClosedUnit
<1>3. Blank(w)
  BY <1>1, Fresh
<1> QED
  BY <1>2, <1>3 DEF Box, Blank

LEMMA UnfamiliarFace ==
  ASSUME NEW s \in Face
  PROVE  /\ P!Unfamiliar(s) \in Face /\ P!Unfamiliar(s).current = FALSE
         /\ P!Unfamiliar(s) = [s EXCEPT !.current = FALSE]
BY DEF P!Unfamiliar, Face

\* A unit that is closed is opened with nothing known of it, or is left closed.
Opening(s, u, o) ==
  /\ o.ok \in BOOLEAN /\ o.s \in {s, P!Unfamiliar(s)}
  /\ Known(o.s, o.u)
  /\ o.ok = TRUE => o.u.open = TRUE
  /\ u.open = TRUE => o = P!Returns(s, u)
  /\ u.open = FALSE => o.s.current = FALSE \/ o.ok = FALSE
  /\ o.u.block = u.block
  /\ o.u.playing = TRUE => u.playing = TRUE

LEMMA OpenedKept ==
  ASSUME NEW s, NEW u, Known(s, u), NEW o \in P!OpenedUnit(s, u)
  PROVE  Opening(s, u, o)
<1>0. s \in Face /\ u \in Box /\ u.open \in BOOLEAN
  BY DEF Known, Box
<1>1. CASE u.open = TRUE
  <2>1. o = P!Returns(s, u)
    BY <1>1 DEF P!OpenedUnit
  <2> QED
    BY <1>1, <2>1 DEF P!Returns, Opening
<1>2. CASE u.open = FALSE
  <2>0. o \in P!Then(P!Loaded(s, u), LAMBDA t, v : {P!Throws(t, v), P!Returns(P!Unfamiliar(t), P!FreshUnit(v))})
    BY <1>2 DEF P!OpenedUnit
  <2>1. PICK p \in P!Loaded(s, u) : o \in IF p.ok THEN {P!Throws(p.s, p.u), P!Returns(P!Unfamiliar(p.s), P!FreshUnit(p.u))}
                                         ELSE {p}
    BY <2>0 DEF P!Then
  <2>2. /\ p.ok \in BOOLEAN /\ p.s = s
        /\ p.u \in {u, [u EXCEPT !.library = "loaded"], [u EXCEPT !.library = "missing"]}
    <3>1. p \in {P!Returns(s, u), P!Throws(s, u), P!Returns(s, [u EXCEPT !.library = "loaded"]),
                 P!Throws(s, [u EXCEPT !.library = "missing"])}
      BY Zenon DEF P!Loaded
    <3> DEFINE v == [u EXCEPT !.library = "loaded"]
               w == [u EXCEPT !.library = "missing"]
    <3>2. \A x : /\ P!Returns(s, x).ok = TRUE /\ P!Returns(s, x).s = s /\ P!Returns(s, x).u = x
                /\ P!Throws(s, x).ok = FALSE /\ P!Throws(s, x).s = s /\ P!Throws(s, x).u = x
      BY DEF P!Returns, P!Throws
    <3>3. p \in {P!Returns(s, u), P!Throws(s, u), P!Returns(s, v), P!Throws(s, w)}
      BY <3>1
    <3> HIDE DEF v, w
    <3>4. p.ok \in BOOLEAN /\ p.s = s /\ p.u \in {u, v, w}
      BY <3>2, <3>3, Zenon
    <3> QED
      BY <3>4 DEF v, w
  <2>3. /\ p.u \in Box /\ p.u.open = u.open /\ p.u.playing = u.playing /\ p.u.block = u.block /\ p.u.hw = u.hw
    BY <1>0, <2>2 DEF Box
  <2>4. /\ u.block = Nothing /\ u.playing = FALSE /\ \A c \in Channels : u.hw[c].on = FALSE
    BY <1>2 DEF Known, Unset
  <2>5. CASE o.s = s /\ o.u = p.u /\ o.ok = FALSE
    <3>1. Known(s, p.u)
      BY <1>2, <2>3, <2>4 DEF Known, Unset, Held
    <3> QED
      BY <1>2, <2>3, <2>5, <3>1 DEF Opening
  <2>6. CASE o = P!Returns(P!Unfamiliar(s), P!FreshUnit(p.u))
    <3>1. o.ok = TRUE /\ o.s = P!Unfamiliar(s) /\ o.u = P!FreshUnit(p.u)
      BY <2>6 DEF P!Returns
    <3>2. Blank(o.u) /\ o.u.open = TRUE
      BY <2>3, <3>1, Fresh
    <3>3. /\ o.s \in Face /\ o.s.current = FALSE /\ o.s.held = s.held /\ o.s.applied = s.applied /\ o.s.torn = s.torn
      <4>1. o.s = [s EXCEPT !.current = FALSE] /\ o.s \in Face
        BY <1>0, <3>1, UnfamiliarFace
      <4> QED
        BY <1>0, <4>1 DEF Face
    <3>4. Known(o.s, o.u)
      BY <3>2, <3>3 DEF Known, Unset, Held, Blank
    <3> QED
      BY <1>2, <2>4, <3>1, <3>2, <3>3, <3>4 DEF Opening, Blank
  <2>7. \/ o.s = s /\ o.u = p.u /\ o.ok = FALSE
        \/ o = P!Returns(P!Unfamiliar(s), P!FreshUnit(p.u))
    BY <2>1, <2>2 DEF P!Throws
  <2> QED
    BY <2>5, <2>6, <2>7
<1> QED
  BY <1>0, <1>1, <1>2

\* What taking back leaves of a face.
LEMMA Invalid ==
  ASSUME NEW s \in Face, NEW t, t = P!Invalidated(s)
  PROVE  /\ t \in Face /\ t.held = Nothing /\ t.completed = FALSE
         /\ t.chan = s.chan /\ t.applied = s.applied /\ t.current = s.current /\ t.torn = s.torn
         /\ t.armed = s.armed /\ t.pending = s.pending
<1>1. t = [s EXCEPT !.held = Nothing, !.completed = FALSE]
  BY DEF P!Invalidated
<1>2. Nothing \in P!Record \cup {Nothing} /\ FALSE \in BOOLEAN
  OBVIOUS
<1>3. t \in Face
  BY <1>1, <1>2, Zenon DEF Face
<1> QED
  BY <1>1, <1>3 DEF Face

LEMMA Disarms ==
  ASSUME NEW s \in Face, NEW t, t = P!Disarmed(s)
  PROVE  /\ t \in Face /\ t.held = Nothing /\ t.completed = FALSE
         /\ t.armed = FALSE /\ t.pending = {}
         /\ t.chan = s.chan /\ t.applied = s.applied /\ t.current = s.current /\ t.torn = s.torn
<1>1. PICK r : r = P!Invalidated(s)
  OBVIOUS
<1>2. t = [r EXCEPT !.pending = {}, !.armed = FALSE]
  BY <1>1 DEF P!Disarmed
<1>3. /\ r \in Face /\ r.held = Nothing /\ r.completed = FALSE
      /\ r.chan = s.chan /\ r.applied = s.applied /\ r.current = s.current /\ r.torn = s.torn
  BY <1>1, Invalid
<1>4. {} \in SUBSET Channels /\ FALSE \in BOOLEAN
  OBVIOUS
<1>5. t \in Face
  BY <1>2, <1>3, <1>4, Zenon DEF Face
<1> QED
  BY <1>2, <1>3, <1>5 DEF Face

LEMMA Resets ==
  ASSUME NEW s \in Face, NEW t, t = P!ResetCapture(s)
  PROVE  /\ t \in Face /\ t.held = Nothing /\ t.completed = FALSE
         /\ t.armed = FALSE /\ t.current = FALSE
         /\ t.chan = s.chan /\ t.torn = s.torn
<1>1. PICK r : r = P!Disarmed(s)
  OBVIOUS
<1>2. t = [r EXCEPT !.applied = P!Unapplied, !.current = FALSE]
  BY <1>1 DEF P!ResetCapture
<1>3. /\ r \in Face /\ r.held = Nothing /\ r.completed = FALSE /\ r.armed = FALSE
      /\ r.chan = s.chan /\ r.torn = s.torn
  BY <1>1, Disarms
<1>4. P!Unapplied \in [Channels -> Ranges \cup {Nothing}] /\ FALSE \in BOOLEAN
  BY DEF P!Unapplied
<1>5. t \in Face
  BY <1>2, <1>3, <1>4, Zenon DEF Face
<1> QED
  BY <1>2, <1>3, <1>5 DEF Face

\* A push of some channels that goes well leaves the session it was in.
LEMMA KeptGoes ==
  ASSUME NEW s, NEW u, Ready(s, u), u.open = TRUE, s.current = TRUE, NEW o, Kept(s, u, o)
  PROVE  Going(s, u, o)
<1>1. /\ o.s \in Face /\ o.u \in Box /\ o.u.open = TRUE /\ o.u.block = u.block /\ o.u.playing = u.playing
      /\ o.s.current = TRUE /\ o.s.held = Nothing /\ o.s.armed = s.armed /\ o.s.completed = FALSE
  BY DEF Kept, Pushing, SameFace, SameBox, Ready
<1>2. Noted(o.s, o.u)
  BY DEF Kept, Ready, Known
<1>3. Unset(o.s, o.u)
  BY <1>1 DEF Unset, Kept, Pushing
<1>4. Ready(o.s, o.u)
  BY <1>1, <1>2, <1>3 DEF Ready, Known, Held
<1> QED
  BY <1>1, <1>4 DEF Going, Kept

LEMMA ReadyPushes ==
  ASSUME NEW s, NEW u, Known(s, u), u.open = TRUE
  PROVE  Pushing(s, u)
BY DEF Pushing, Known, Unset

LEMMA SessionKept ==
  ASSUME NEW s, NEW u, Ready(s, u), NEW o \in P!Session(s, u)
  PROVE  Going(s, u, o) /\ (u.open = TRUE /\ s.current = TRUE => o = P!Returns(s, u))
<1>1. PICK p :
        /\ p \in P!OpenedUnit(s, u)
        /\ o \in IF p.ok
                 THEN IF p.s.current THEN {P!Returns(p.s, p.u)}
                      ELSE {IF q.ok THEN P!Returns([q.s EXCEPT !.current = TRUE], q.u)
                                    ELSE P!Throws(q.s, P!ClosedUnit(q.u))
                             : q \in P!PushChannels(P!ResetCapture(p.s), p.u)
                                     \cup {P!Throws(P!ResetCapture(p.s), p.u)}}
                 ELSE {p}
  BY DEF P!Session, P!Then
<1>2. /\ p.ok \in BOOLEAN /\ p.s \in {s, P!Unfamiliar(s)} /\ Known(p.s, p.u)
      /\ p.ok = TRUE => p.u.open = TRUE
      /\ u.open = TRUE => p = P!Returns(s, u)
      /\ p.u.block = u.block
      /\ p.u.playing = TRUE => u.playing = TRUE
  <2>1. Opening(s, u, p)
    BY <1>1, OpenedKept DEF Ready
  <2> QED
    BY <2>1 DEF Opening
<1>3. s \in Face /\ s.held = Nothing /\ s.completed = FALSE
  BY DEF Ready, Known
<1>4. /\ p.s \in Face /\ p.s.armed = s.armed /\ p.s.held = Nothing /\ p.s.completed = FALSE /\ p.s.torn = s.torn
  <2>1. CASE p.s = s
    BY <1>3, <2>1
  <2>2. CASE p.s = P!Unfamiliar(s)
    <3>1. p.s = [s EXCEPT !.current = FALSE] /\ p.s \in Face
      BY <1>3, <2>2, UnfamiliarFace
    <3> QED
      BY <1>3, <3>1 DEF Face
  <2> QED
    BY <1>2, <2>1, <2>2
<1>5. Ready(p.s, p.u)
  BY <1>2, <1>4 DEF Ready
<1>6. CASE p.ok = FALSE
  <2>1. o = p
    BY <1>1, <1>6
  <2>2. u.open # TRUE
    <3>1. P!Returns(s, u).ok = TRUE
      BY DEF P!Returns
    <3> QED
      BY <1>2, <1>6, <3>1
  <2> QED
    BY <1>2, <1>4, <1>5, <1>6, <2>1, <2>2 DEF Going
<1>7. CASE p.ok = TRUE /\ p.s.current = TRUE
  <2>1. o.ok = TRUE /\ o.s = p.s /\ o.u = p.u
    BY <1>1, <1>7 DEF P!Returns
  <2>2. Going(s, u, o)
    BY <1>2, <1>4, <1>5, <1>7, <2>1 DEF Going
  <2>3. u.open = TRUE => o = P!Returns(s, u)
    BY <1>1, <1>2, <1>7 DEF P!Returns
  <2> QED
    BY <2>2, <2>3
<1>8. CASE p.ok = TRUE /\ p.s.current = FALSE
  <2>1. PICK r : r = P!ResetCapture(p.s)
    OBVIOUS
  <2>2. PICK q :
          /\ q \in P!PushChannels(r, p.u) \/ q = P!Throws(r, p.u)
          /\ o = IF q.ok THEN P!Returns([q.s EXCEPT !.current = TRUE], q.u)
                         ELSE P!Throws(q.s, P!ClosedUnit(q.u))
    BY <1>1, <1>8, <2>1
  <2>3. /\ r \in Face /\ r.held = Nothing /\ r.completed = FALSE /\ r.armed = FALSE /\ r.current = FALSE
        /\ r.chan = p.s.chan /\ r.torn = p.s.torn
    BY <1>4, <2>1, Resets
  <2>4. Pushing(r, p.u)
    BY <1>2, <1>8, <2>3 DEF Pushing, Known, Unset
  <2>5. Kept(r, p.u, q) /\ Whole(q)
    <3>1. P!Throws(r, p.u).ok = FALSE
      BY DEF P!Throws
    <3>2. CASE q \in P!PushChannels(r, p.u)
      BY <2>4, <3>2, PushChannelsKept
    <3>3. CASE q = P!Throws(r, p.u)
      BY <2>4, <3>1, <3>3, ThrownKept DEF Whole
    <3> QED
      BY <2>2, <3>2, <3>3
  <2>6. /\ q.s \in Face /\ q.u \in Box /\ q.u.open = TRUE /\ q.u.block = u.block
        /\ (q.u.playing = TRUE => u.playing = TRUE)
        /\ q.s.held = Nothing /\ q.s.armed = FALSE /\ q.s.completed = FALSE
        /\ q.ok = TRUE => q.s.torn \subseteq s.torn
        /\ \A c \in Channels : q.s.chan[c].range = Nothing => q.u.hw[c].on = FALSE
    BY <1>2, <1>4, <2>3, <2>5 DEF Kept, SameFace, SameBox, Pushing
  <2>7. q.ok \in BOOLEAN
    BY <2>5 DEF Kept
  <2>8. u.open = FALSE \/ s.current = FALSE
    BY <1>2, <1>8 DEF P!Returns, Known, Ready, Box
  <2>9. CASE q.ok = TRUE
    <3>1. o.ok = TRUE /\ o.s = [q.s EXCEPT !.current = TRUE] /\ o.u = q.u
      BY <2>2, <2>9 DEF P!Returns
    <3>2. o.s \in Face
      BY <2>6, <3>1 DEF Face
    <3>3. /\ o.s.current = TRUE /\ o.s.held = Nothing /\ o.s.armed = FALSE /\ o.s.completed = FALSE
          /\ o.s.torn = q.s.torn /\ o.s.applied = q.s.applied /\ o.s.chan = q.s.chan
      BY <2>6, <3>1 DEF Face
    <3>4. Noted(o.s, o.u)
      BY <2>5, <2>9, <3>1, <3>3 DEF Noted, Whole
    <3>5. Ready(o.s, o.u)
      BY <2>6, <3>1, <3>2, <3>3, <3>4 DEF Ready, Known, Unset, Held
    <3> QED
      BY <2>6, <2>8, <2>9, <3>1, <3>3, <3>5 DEF Going
  <2>10. CASE q.ok = FALSE
    <3>1. o.ok = FALSE /\ o.s = q.s /\ o.u = P!ClosedUnit(q.u)
      BY <2>2, <2>10 DEF P!Throws
    <3>2. Blank(o.u) /\ o.u.open = FALSE
      BY <2>6, <3>1, Closed
    <3>3. Ready(o.s, o.u)
      BY <2>6, <3>1, <3>2 DEF Ready, Known, Unset, Held, Blank
    <3> QED
      BY <2>6, <2>8, <3>1, <3>2, <3>3 DEF Going, Blank
  <2> QED
    BY <2>7, <2>9, <2>10
<1> QED
  BY <1>2, <1>4, <1>6, <1>7, <1>8 DEF Face

----------------------------------------------------------------------------
(* A capture is begun, and finished.                                       *)

\* Nothing of the settings is touched, neither what is noted nor what is in the unit.
Steady(s, u, o) ==
  /\ o.s.applied = s.applied /\ o.s.torn = s.torn /\ o.s.chan = s.chan /\ o.s.armed = s.armed /\ o.u.hw = u.hw
  /\ o.u.open = TRUE /\ o.s.current = TRUE

LEMMA SteadyReady ==
  ASSUME NEW s, NEW u, Ready(s, u), u.open = TRUE, s.current = TRUE, NEW o, Steady(s, u, o),
         o.s \in Face, o.u \in Box, o.s.held = Nothing, o.s.completed = FALSE
  PROVE  Ready(o.s, o.u)
BY DEF Ready, Known, Steady, Unset, Held, Noted, InUnit

LEMMA BlockUpdated ==
  ASSUME NEW u \in Box, NEW block \in P!Block \cup {Nothing}, NEW v, v = [u EXCEPT !.block = block]
  PROVE  /\ v \in Box /\ v.block = block /\ v.hw = u.hw /\ v.open = u.open
         /\ v.playing = u.playing /\ v.settled = u.settled
BY DEF Box

LEMMA SettledKept ==
  ASSUME NEW s, NEW u, Ready(s, u), u.open = TRUE, s.current = TRUE, NEW o \in P!Settled(s, u)
  PROVE  Going(s, u, o) /\ Steady(s, u, o)
<1>1. s \in Face /\ u \in Box /\ s.held = Nothing /\ s.completed = FALSE
  BY DEF Ready, Known
<1> DEFINE settled == {c \in Channels : u.hw[c].ac /\ u.hw[c].on}
<1>2. \/ o.ok = TRUE /\ o.s = s /\ o.u = u
      \/ o.ok = FALSE /\ o.s = s /\ o.u = [u EXCEPT !.block = Nothing]
      \/ o.ok = TRUE /\ o.s = [s EXCEPT !.couplingChanged = FALSE] /\ o.u = [u EXCEPT !.block = Nothing, !.settled = settled]
  <2>1. o \in {P!Returns(s, u), P!Throws(s, [u EXCEPT !.block = Nothing]),
               P!Returns([s EXCEPT !.couplingChanged = FALSE], [u EXCEPT !.block = Nothing, !.settled = settled])}
    BY Zenon DEF P!Settled
  <2> DEFINE silent == [u EXCEPT !.block = Nothing]
             calm == [u EXCEPT !.block = Nothing, !.settled = settled]
             face == [s EXCEPT !.couplingChanged = FALSE]
  <2>2. o \in {P!Returns(s, u), P!Throws(s, silent), P!Returns(face, calm)}
    BY <2>1
  <2> HIDE DEF settled, silent, calm, face
  <2>3. \/ o.ok = TRUE /\ o.s = s /\ o.u = u
        \/ o.ok = FALSE /\ o.s = s /\ o.u = silent
        \/ o.ok = TRUE /\ o.s = face /\ o.u = calm
    BY <2>2 DEF P!Returns, P!Throws
  <2> QED
    BY <2>3 DEF settled, silent, calm, face
<1>3. settled \in SUBSET Channels
  OBVIOUS
<1> HIDE DEF settled
<1>4. /\ o.s \in Face /\ o.s.armed = s.armed /\ o.s.held = Nothing /\ o.s.completed = FALSE
      /\ o.s.applied = s.applied /\ o.s.torn = s.torn /\ o.s.chan = s.chan /\ o.s.current = TRUE
  <2>1. CASE o.s = s
    BY <1>1, <2>1
  <2>2. CASE o.s = [s EXCEPT !.couplingChanged = FALSE]
    BY <1>1, <2>2, Zenon DEF Face
  <2> QED
    BY <1>2, <2>1, <2>2
<1>5. /\ o.u \in Box /\ o.u.hw = u.hw /\ o.u.open = TRUE /\ o.u.playing = u.playing
      /\ o.u.block \in {u.block, Nothing}
  <2>1. CASE o.u = u
    BY <1>1, <2>1
  <2>2. CASE o.u = [u EXCEPT !.block = Nothing]
    BY <1>1, <2>2 DEF Box
  <2>3. CASE o.u = [u EXCEPT !.block = Nothing, !.settled = settled]
    BY <1>1, <1>3, <2>3 DEF Box
  <2> QED
    BY <1>2, <2>1, <2>2, <2>3
<1>6. Steady(s, u, o)
  BY <1>4, <1>5 DEF Steady
<1>7. Ready(o.s, o.u)
  BY <1>4, <1>5, <1>6, SteadyReady
<1> QED
  BY <1>2, <1>4, <1>5, <1>6, <1>7 DEF Going

\* A block that has been begun is of the settings that are in the unit.
Begun(s, u, triggered, o) ==
  /\ o.ok \in BOOLEAN /\ Ready(o.s, o.u) /\ Steady(s, u, o)
  /\ o.u.playing = TRUE => u.playing = TRUE
  /\ o.ok = FALSE => o.u.block \in {u.block, Nothing}
  /\ o.ok = TRUE =>
       /\ o.u.block \in P!Block /\ o.u.block.done = FALSE
       /\ o.u.block.shot.armed = triggered
       /\ o.u.block.shot.taken = [c \in Channels |-> InUnit(o.u, c)]

LEMMA BegunKept ==
  ASSUME NEW s, NEW u, Ready(s, u), u.open = TRUE, s.current = TRUE, NEW triggered \in BOOLEAN,
         NEW o \in P!BeginCapture(s, u, triggered)
  PROVE  Begun(s, u, triggered, o)
<1>1. CASE s.timed = FALSE
  <2>1. o.ok = FALSE /\ o.s = s /\ o.u = u
    <3>1. o = P!Throws(s, u)
      BY <1>1 DEF P!BeginCapture
    <3> QED
      BY <3>1 DEF P!Throws
  <2> QED
    BY <2>1 DEF Begun, Steady
<1>2. CASE s.timed # FALSE
  <2>1. PICK p :
          /\ p \in P!Settled(s, u)
          /\ o \in IF p.ok
                   THEN {P!Throws(p.s, p.u),
                         P!Returns(p.s, [p.u EXCEPT !.block = [shot |-> P!ShotOf(p.u, triggered), done |-> FALSE]])}
                   ELSE {p}
    <3>0. s.timed = TRUE
      BY <1>2 DEF Ready, Known, Face
    <3>1. PICK p \in P!Settled(s, u) :
            o \in IF p.ok
                  THEN LET refused == {P!Throws(p.s, p.u)}
                           running == [p.u EXCEPT !.block = [shot |-> P!ShotOf(p.u, triggered), done |-> FALSE]]
                       IN  IF P!Enabled(p.s) = {} \/ (triggered /\ p.s.source \notin P!Enabled(p.s) \cup {Nothing})
                           THEN refused ELSE refused \cup {P!Returns(p.s, running)}
                  ELSE {p}
      BY <3>0 DEF P!BeginCapture, P!Then
    <3> QED
      BY <3>1
  <2>2. Going(s, u, p) /\ Steady(s, u, p)
    BY <2>1, SettledKept
  <2>3. CASE p.ok = FALSE
    <3>1. o = p
      BY <2>1, <2>3
    <3> QED
      BY <2>2, <2>3, <3>1 DEF Begun, Going
  <2>4. CASE p.ok = TRUE /\ o = P!Throws(p.s, p.u)
    <3>1. o.ok = FALSE /\ o.s = p.s /\ o.u = p.u
      BY <2>4 DEF P!Throws
    <3> QED
      BY <2>2, <3>1 DEF Begun, Going, Steady
  <2> DEFINE block == [shot |-> P!ShotOf(p.u, triggered), done |-> FALSE]
  <2>5. CASE p.ok = TRUE /\ o = P!Returns(p.s, [p.u EXCEPT !.block = block])
    <3>0. p.u \in Box /\ p.u.hw \in [Channels -> P!ChannelState] /\ p.s \in Face
      BY <2>2 DEF Going, Ready, Known, Box
    <3>1. \A c \in Channels : InUnit(p.u, c) \in Ranges \cup {Nothing}
      BY <3>0 DEF InUnit, P!ChannelState
    <3>2. PICK shot : shot = P!ShotOf(p.u, triggered)
      OBVIOUS
    <3>3. /\ shot \in P!Shot /\ shot.armed = triggered
          /\ shot.taken = [c \in Channels |-> InUnit(p.u, c)]
      BY <3>1, <3>2 DEF P!ShotOf, P!Shot, InUnit
    <3>4. block \in P!Block /\ block.done = FALSE /\ block.shot = shot
      BY <3>2, <3>3 DEF P!Block
    <3> HIDE DEF block
    <3>5. o.ok = TRUE /\ o.s = p.s /\ o.u = [p.u EXCEPT !.block = block]
      BY <2>5 DEF P!Returns
    <3>6. /\ o.u \in Box /\ o.u.block = block /\ o.u.hw = p.u.hw /\ o.u.open = p.u.open /\ o.u.playing = p.u.playing
      BY <3>0, <3>4, <3>5, BlockUpdated
    <3>7. \A c \in Channels : InUnit(o.u, c) = InUnit(p.u, c)
      BY <3>6 DEF InUnit
    <3>8. Steady(s, u, o)
      BY <2>2, <3>5, <3>6 DEF Steady
    <3>9. Ready(o.s, o.u)
      BY <2>2, <3>5, <3>6, <3>8, SteadyReady DEF Going, Ready, Known
    <3>10. o.u.block.shot.taken = [c \in Channels |-> InUnit(o.u, c)]
      BY <3>3, <3>4, <3>6, <3>7
    <3> QED
      BY <2>2, <3>3, <3>4, <3>5, <3>6, <3>8, <3>9, <3>10 DEF Begun, Going
  <2> QED
    BY <2>1, <2>2, <2>3, <2>4, <2>5 DEF Going
<1> QED
  BY <1>1, <1>2

\* An Arm that is refused leaves nothing armed.
Arming(s, u, o) ==
  /\ o.ok \in BOOLEAN
  /\ o.u.playing = TRUE => u.playing = TRUE
  /\ o.ok = FALSE => Ready(o.s, o.u) /\ o.s.armed = FALSE /\ o.u.block \in {u.block, Nothing}
  /\ o.ok = TRUE => Known(o.s, o.u) /\ Waiting(o.s, o.u) /\ o.s.armed = TRUE /\ o.u.block.done = FALSE

LEMMA Silent ==
  ASSUME NEW s, NEW u, Ready(s, u), NEW v, v = [u EXCEPT !.block = Nothing]
  PROVE  Ready(s, v) /\ v.open = u.open /\ v.playing = u.playing /\ v.block = Nothing /\ v.hw = u.hw
<1>1. /\ v \in Box /\ v.block = Nothing /\ v.hw = u.hw /\ v.open = u.open /\ v.playing = u.playing
  BY BlockUpdated DEF Ready, Known
<1> QED
  BY <1>1 DEF Ready, Known, Unset, Held, Noted, InUnit

LEMMA ArmedKept ==
  ASSUME NEW s \in Face, NEW u, Ready(s, u), s.armed = FALSE, NEW o \in P!Armed(s, u)
  PROVE  Arming(s, u, o)
<1>1. PICK p :
        /\ p \in P!Session(s, u)
        /\ \/ p.ok = FALSE /\ o = p
           \/ /\ p.ok = TRUE
              /\ \E q \in P!BeginCapture(p.s, [p.u EXCEPT !.block = Nothing], TRUE) :
                   \/ q.ok = FALSE /\ o = q
                   \/ /\ q.ok = TRUE
                      /\ \/ o = P!Returns([q.s EXCEPT !.armed = TRUE, !.pending = P!Enabled(q.s)], q.u)
                         \/ o = P!Throws(q.s, [q.u EXCEPT !.block = Nothing])
  <2>1. PICK p \in P!Session(s, u) :
          o \in IF p.ok
                THEN P!Then(P!BeginCapture(p.s, [p.u EXCEPT !.block = Nothing], TRUE), LAMBDA t2, v2 :
                       {P!Returns([t2 EXCEPT !.armed = TRUE, !.pending = P!Enabled(t2)], v2),
                        P!Throws(t2, [v2 EXCEPT !.block = Nothing])})
                ELSE {p}
    BY DEF P!Armed, P!Then
  <2>2. Going(s, u, p)
    BY <2>1, SessionKept
  <2>3. p.ok \in BOOLEAN
    BY <2>2 DEF Going
  <2>4. CASE p.ok = FALSE
    BY <2>1, <2>4
  <2>5. CASE p.ok = TRUE
    <3>1. PICK q \in P!BeginCapture(p.s, [p.u EXCEPT !.block = Nothing], TRUE) :
            o \in IF q.ok THEN {P!Returns([q.s EXCEPT !.armed = TRUE, !.pending = P!Enabled(q.s)], q.u),
                                P!Throws(q.s, [q.u EXCEPT !.block = Nothing])}
                  ELSE {q}
      BY <2>1, <2>5 DEF P!Then
    <3>2. PICK v : v = [p.u EXCEPT !.block = Nothing]
      OBVIOUS
    <3>3. Ready(p.s, v) /\ v.open = TRUE /\ p.s.current = TRUE
      BY <2>2, <2>5, <3>2, Silent DEF Going
    <3>4. Begun(p.s, v, TRUE, q)
      BY <3>1, <3>2, <3>3, BegunKept
    <3>5. q.ok \in BOOLEAN
      BY <3>4 DEF Begun
    <3> QED
      BY <2>1, <2>5, <3>1, <3>5
  <2> QED
    BY <2>3, <2>4, <2>5
<1>2. Going(s, u, p) /\ p.s.armed = FALSE
  <2>1. Going(s, u, p)
    BY <1>1, SessionKept
  <2> QED
    BY <2>1 DEF Going, Ready, Known, Face
<1>3. CASE p.ok = FALSE /\ o = p
  BY <1>2, <1>3 DEF Going, Arming
<1>4. ASSUME p.ok = TRUE, NEW q, q \in P!BeginCapture(p.s, [p.u EXCEPT !.block = Nothing], TRUE),
             \/ q.ok = FALSE /\ o = q
             \/ /\ q.ok = TRUE
                /\ \/ o = P!Returns([q.s EXCEPT !.armed = TRUE, !.pending = P!Enabled(q.s)], q.u)
                   \/ o = P!Throws(q.s, [q.u EXCEPT !.block = Nothing])
      PROVE  Arming(s, u, o)
  <2>1. PICK v : v = [p.u EXCEPT !.block = Nothing]
    OBVIOUS
  <2>2. Ready(p.s, v) /\ v.open = TRUE /\ p.s.current = TRUE /\ v.block = Nothing /\ v.playing = p.u.playing
    BY <1>2, <1>4, <2>1, Silent DEF Going
  <2>3. Begun(p.s, v, TRUE, q)
    BY <1>4, <2>1, <2>2, BegunKept
  <2>4. (q.u.playing = TRUE => u.playing = TRUE) /\ q.s.armed = FALSE
    BY <1>2, <2>2, <2>3 DEF Begun, Going, Steady
  <2>5. CASE q.ok = FALSE /\ o = q
    BY <2>2, <2>3, <2>4, <2>5 DEF Begun, Arming
  <2>6. CASE q.ok = TRUE /\ o = P!Throws(q.s, [q.u EXCEPT !.block = Nothing])
    <3>1. o.ok = FALSE /\ o.s = q.s /\ o.u = [q.u EXCEPT !.block = Nothing]
      BY <2>6 DEF P!Throws
    <3>2. Ready(o.s, o.u) /\ o.u.block = Nothing /\ o.u.playing = q.u.playing
      BY <2>3, <3>1, Silent DEF Begun
    <3> QED
      BY <2>4, <3>1, <3>2 DEF Arming
  <2>7. CASE q.ok = TRUE /\ o = P!Returns([q.s EXCEPT !.armed = TRUE, !.pending = P!Enabled(q.s)], q.u)
    <3>0. PICK pending : pending = P!Enabled(q.s)
      OBVIOUS
    <3>1. o.ok = TRUE /\ o.s = [q.s EXCEPT !.armed = TRUE, !.pending = pending] /\ o.u = q.u
      BY <2>7, <3>0 DEF P!Returns
    <3>2. pending \in SUBSET Channels /\ TRUE \in BOOLEAN
      BY <3>0 DEF P!Enabled
    <3>3. q.s \in Face /\ q.u \in Box /\ q.u.open = TRUE /\ q.s.current = TRUE /\ q.s.held = Nothing /\ q.s.completed = FALSE
      BY <2>3 DEF Begun, Ready, Known, Steady
    <3>4. [q.s EXCEPT !.armed = TRUE, !.pending = pending] \in Face
      BY <3>2, <3>3, Zenon DEF Face
    <3>5. /\ o.s \in Face /\ o.s.armed = TRUE /\ o.s.pending = pending /\ o.s.current = TRUE
          /\ o.s.held = Nothing /\ o.s.completed = FALSE
          /\ o.s.applied = q.s.applied /\ o.s.torn = q.s.torn /\ o.s.chan = q.s.chan
      BY <3>1, <3>3, <3>4 DEF Face
    <3>6. pending = P!Enabled(o.s)
      BY <3>0, <3>5 DEF P!Enabled
    <3>7. Known(o.s, o.u)
      BY <2>3, <3>1, <3>3, <3>5 DEF Begun, Ready, Known, Unset, Held, Noted
    <3>8. q.u.block # Nothing
      BY <2>3, <2>7, InstrumentsAssumption DEF Begun, InstrumentsAssumption, P!DigitiserConstants
    <3>9. Waiting(o.s, o.u)
      BY <2>3, <2>7, <3>1, <3>3, <3>5, <3>6, <3>8 DEF Begun, Waiting
    <3> QED
      BY <2>3, <2>4, <2>7, <3>1, <3>5, <3>7, <3>9 DEF Begun, Arming
  <2> QED
    BY <1>4, <2>5, <2>6, <2>7
<1> QED
  BY <1>1, <1>3, <1>4

\* What an Await that was not refused has come to: the record, of the block that
\* waited, or nothing yet; and the block is stopped.
Finished(s, u, o) ==
  /\ o.ok \in BOOLEAN /\ Known(o.s, o.u)
  /\ o.s.armed = FALSE /\ o.u.playing = u.playing
  /\ o.ok = FALSE => o.s.held = Nothing /\ o.s.completed = FALSE /\ o.u.block \in {u.block, Nothing}
  /\ o.ok = TRUE =>
       /\ o.u.block = Nothing /\ Scaled(o.s)
       /\ \/ o.s.completed = FALSE /\ o.s.held = Nothing /\ u.block.done = FALSE
          \/ /\ o.s.completed = TRUE /\ u.block.done = TRUE
             /\ o.s.held # Nothing /\ o.s.held.shot = u.block.shot

\* A record of the channels that were noted is at the scale that is noted.
LEMMA RecordScaled ==
  ASSUME NEW s \in Face, NEW u \in Box, NEW enabled, enabled = P!Enabled(s), u.block \in P!Block,
         NEW r, r = P!RecordOf(s, u, enabled)
  PROVE  r \in P!Record /\ r.shot = u.block.shot /\ r.scale = s.applied
<1>1. s.applied \in [Channels -> Ranges \cup {Nothing}] /\ u.block.shot \in P!Shot
  BY DEF Face, P!Block
<1>2. r = [shot |-> u.block.shot, scale |-> [c \in Channels |-> IF c \in enabled THEN s.applied[c] ELSE Nothing]]
  BY DEF P!RecordOf
<1>3. [c \in Channels |-> IF c \in enabled THEN s.applied[c] ELSE Nothing] = s.applied
  BY <1>1 DEF P!Enabled
<1> QED
  BY <1>1, <1>2, <1>3 DEF P!Record

LEMMA FinishKept ==
  ASSUME NEW s, NEW u, Ready(s, u), u.open = TRUE, s.current = TRUE, s.armed = FALSE,
         u.block # Nothing, u.block.shot.taken = [c \in Channels |-> InUnit(u, c)],
         NEW enabled, enabled = P!Enabled(s), NEW o \in P!FinishCapture(s, u, enabled)
  PROVE  Finished(s, u, o)
<1>0. /\ s \in Face /\ u \in Box /\ s.armed = FALSE /\ s.held = Nothing /\ s.completed = FALSE
      /\ u.block \in P!Block
  BY DEF Ready, Known, Box
<1>1. u.block.done \in BOOLEAN
  BY <1>0 DEF P!Block
<1>2. PICK v, r : v = [u EXCEPT !.block = Nothing] /\ r = P!RecordOf(s, u, enabled)
  OBVIOUS
<1>3. \/ o = P!Throws(s, u)
      \/ o = P!Throws(s, v)
      \/ u.block.done = TRUE /\ o = P!Returns([s EXCEPT !.completed = TRUE, !.held = r], v)
      \/ u.block.done = FALSE /\ o = P!Returns([s EXCEPT !.completed = FALSE], v)
  BY <1>1, <1>2 DEF P!FinishCapture
<1>4. Ready(s, v) /\ v.open = TRUE /\ v.playing = u.playing /\ v.block = Nothing /\ v.hw = u.hw
  BY <1>2, Silent
<1>5. CASE o = P!Throws(s, u) \/ o = P!Throws(s, v)
  <2>1. o.ok = FALSE /\ o.s = s /\ (o.u = u \/ o.u = v)
    BY <1>5 DEF P!Throws
  <2> QED
    BY <1>0, <1>4, <2>1 DEF Finished, Ready
<1>6. CASE u.block.done = FALSE /\ o = P!Returns([s EXCEPT !.completed = FALSE], v)
  <2>1. o.ok = TRUE /\ o.s = [s EXCEPT !.completed = FALSE] /\ o.u = v
    BY <1>6 DEF P!Returns
  <2>2. o.s = s
    BY <1>0, <2>1 DEF Face
  <2> QED
    BY <1>0, <1>4, <1>6, <2>1, <2>2 DEF Finished, Ready, Scaled
<1>7. CASE u.block.done = TRUE /\ o = P!Returns([s EXCEPT !.completed = TRUE, !.held = r], v)
  <2>1. o.ok = TRUE /\ o.s = [s EXCEPT !.completed = TRUE, !.held = r] /\ o.u = v
    BY <1>7 DEF P!Returns
  <2>2. r \in P!Record /\ r.shot = u.block.shot /\ r.scale = s.applied
    BY <1>0, <1>2, RecordScaled
  <2>3. r # Nothing /\ r \in P!Record \cup {Nothing} /\ TRUE \in BOOLEAN
    BY <2>2, InstrumentsAssumption DEF InstrumentsAssumption, P!DigitiserConstants
  <2>4. [s EXCEPT !.completed = TRUE, !.held = r] \in Face
    BY <1>0, <2>3, Zenon DEF Face
  <2>5. /\ o.s \in Face /\ o.s.completed = TRUE /\ o.s.held = r /\ o.s.armed = FALSE /\ o.s.current = TRUE
        /\ o.s.applied = s.applied /\ o.s.torn = s.torn /\ o.s.chan = s.chan
    BY <1>0, <2>1, <2>4 DEF Face
  <2>6. \A c \in Channels \ s.torn : r.scale[c] = r.shot.taken[c]
    BY <2>2 DEF Ready, Known, Noted
  <2>7. Known(o.s, o.u) /\ Scaled(o.s)
    BY <1>4, <2>1, <2>2, <2>5, <2>6 DEF Ready, Known, Unset, Held, Noted, Scaled
  <2> QED
    BY <1>4, <1>7, <2>1, <2>2, <2>3, <2>5, <2>7 DEF Finished
<1> QED
  BY <1>3, <1>5, <1>6, <1>7

\* Whatever has become of the block, or of the unit, there is a record or there is
\* none, and no block.
Over(u, o) == Attached(o.s, o.u) /\ o.s.armed = FALSE /\ o.u.playing = u.playing

LEMMA FinishAny ==
  ASSUME NEW s, NEW u, Ready(s, u), s.armed = FALSE, NEW enabled, NEW o \in P!FinishCapture(s, u, enabled)
  PROVE  Over(u, o)
<1> USE DEF Over
<1>0. s \in Face /\ u \in Box /\ s.held = Nothing /\ s.completed = FALSE
  BY DEF Ready, Known
<1>1. PICK v, b, r :
        /\ v = [u EXCEPT !.block = Nothing]
        /\ b = (IF u.block = Nothing THEN [u EXCEPT !.block = P!NoBlock] ELSE u)
        /\ r = P!RecordOf(s, b, enabled)
  OBVIOUS
<1>2. \/ o = P!Throws(s, u)
      \/ o = P!Throws(s, v)
      \/ o = P!Returns([s EXCEPT !.completed = TRUE, !.held = r], v)
      \/ o = P!Returns([s EXCEPT !.completed = FALSE], v)
  BY <1>1 DEF P!FinishCapture
<1>3. Ready(s, v) /\ v.playing = u.playing /\ v.block = Nothing
  BY <1>1, Silent
<1>4. CASE o = P!Throws(s, u) \/ o = P!Throws(s, v)
  <2>1. o.s = s /\ (o.u = u \/ o.u = v)
    BY <1>4 DEF P!Throws
  <2> QED
    BY <1>0, <1>3, <2>1 DEF Attached, Ready
<1>5. CASE o = P!Returns([s EXCEPT !.completed = FALSE], v)
  <2>1. o.s = [s EXCEPT !.completed = FALSE] /\ o.u = v
    BY <1>5 DEF P!Returns
  <2>2. o.s = s
    BY <1>0, <2>1 DEF Face
  <2> QED
    BY <1>0, <1>3, <2>1, <2>2 DEF Attached, Ready
<1>6. CASE o = P!Returns([s EXCEPT !.completed = TRUE, !.held = r], v)
  <2>1. o.s = [s EXCEPT !.completed = TRUE, !.held = r] /\ o.u = v
    BY <1>6 DEF P!Returns
  <2>2. b.block.shot \in P!Shot
    <3>1. CASE u.block = Nothing
      <4>1. b.block = P!NoBlock
        BY <1>0, <1>1, <3>1 DEF Box
      <4> QED
        BY <4>1 DEF P!NoBlock, P!Shot, P!Unapplied
    <3>2. CASE u.block # Nothing
      BY <1>0, <1>1, <3>2 DEF Box, P!Block
    <3> QED
      BY <3>1, <3>2
  <2>3. r \in P!Record
    <3>1. s.applied \in [Channels -> Ranges \cup {Nothing}]
      BY <1>0 DEF Face
    <3>2. [c \in Channels |-> IF c \in enabled THEN s.applied[c] ELSE Nothing] \in [Channels -> Ranges \cup {Nothing}]
      BY <3>1
    <3> QED
      BY <1>1, <2>2, <3>2 DEF P!RecordOf, P!Record
  <2>4. r # Nothing /\ r \in P!Record \cup {Nothing} /\ TRUE \in BOOLEAN
    BY <2>3, InstrumentsAssumption DEF InstrumentsAssumption, P!DigitiserConstants
  <2>5. [s EXCEPT !.completed = TRUE, !.held = r] \in Face
    BY <1>0, <2>4, Zenon DEF Face
  <2>6. /\ o.s \in Face /\ o.s.held = r /\ o.s.armed = FALSE
        /\ o.s.current = s.current /\ o.s.applied = s.applied /\ o.s.torn = s.torn /\ o.s.chan = s.chan
    BY <1>0, <2>1, <2>5 DEF Face
  <2>7. Known(o.s, o.u)
    BY <1>3, <2>1, <2>6 DEF Ready, Known, Unset, Held, Noted
  <2> QED
    BY <1>3, <2>1, <2>4, <2>6, <2>7 DEF Attached
<1> QED
  BY <1>2, <1>4, <1>5, <1>6

----------------------------------------------------------------------------
(* The steps of the PicoScope, and what they are of the promise of Arm and *)
(* Await.                                                                  *)

Caught(s, u) ==
  \/ u.block # Nothing /\ u.block.shot.armed = TRUE /\ u.block.done = TRUE
  \/ s.held # Nothing /\ s.held.shot.armed = TRUE

\* An Arm, its event, an Await, something taken back, or none of these.
Answers(s, u, t, v) ==
  \/ t.armed = TRUE /\ ~Caught(t, v) /\ t.completed = FALSE
  \/ Caught(t, v) /\ t.armed = s.armed /\ t.completed = s.completed
  \/ /\ s.armed = TRUE /\ t.armed = FALSE
     /\ t.completed = FALSE \/ Caught(s, u)
     /\ Caught(t, v) <=> Caught(s, u)
  \/ /\ t.armed = FALSE \/ t.armed = s.armed
     /\ Caught(t, v) => Caught(s, u)
     /\ t.completed = FALSE
  \/ /\ t.armed = s.armed /\ t.completed = s.completed
     /\ Caught(t, v) <=> Caught(s, u)

\* A step of a scope that was touched or is: with one that was, nothing is promised.
Goes(s, u, was, t, v, is) ==
  /\ Attached(t, v)
  /\ is = FALSE => Undisturbed(t, v)
  /\ was = FALSE /\ is = FALSE => Answers(s, u, t, v)
  /\ was = FALSE /\ is = TRUE => (Caught(t, v) => Caught(s, u))
  /\ was = TRUE /\ is = FALSE => t.completed = FALSE /\ (t.armed = FALSE \/ ~Caught(t, v))

\* It ends with nothing expected.
LEMMA ReadyGoes ==
  ASSUME NEW s, NEW u, NEW t, NEW v, NEW was, NEW is,
         Ready(t, v), t.armed = FALSE, v.block \in {u.block, Nothing}
  PROVE  Goes(s, u, was, t, v, is)
<1>1. t.held = Nothing /\ t.completed = FALSE /\ Known(t, v)
  BY DEF Ready
<1>2. Attached(t, v) /\ Undisturbed(t, v)
  BY <1>1 DEF Attached, Undisturbed, Scaled
<1>3. Caught(t, v) => Caught(s, u)
  BY <1>1 DEF Caught
<1>4. Answers(s, u, t, v)
  BY <1>1, <1>3 DEF Answers
<1> QED
  BY <1>1, <1>2, <1>3, <1>4 DEF Goes

\* Or with the Arm there was, which has been touched.
LEMMA TouchGoes ==
  ASSUME NEW s, NEW u, NEW t, NEW v, NEW was, NEW is,
         Ready(t, v), t.armed = TRUE => s.armed = TRUE, v.block \in {u.block, Nothing},
         is = ((was \/ s.armed) /\ (t.armed \/ t.held # Nothing))
  PROVE  Goes(s, u, was, t, v, is)
<1>1. t.held = Nothing /\ t.completed = FALSE /\ Known(t, v) /\ t.armed \in BOOLEAN
  BY DEF Ready, Known, Face
<1>2. CASE t.armed = FALSE
  BY <1>2, ReadyGoes
<1>3. CASE t.armed = TRUE
  <2>1. is = TRUE
    BY <1>3
  <2>2. Attached(t, v)
    BY <1>1 DEF Attached
  <2>3. Caught(t, v) => Caught(s, u)
    BY <1>1 DEF Caught
  <2> QED
    BY <2>1, <2>2, <2>3 DEF Goes
<1> QED
  BY <1>1, <1>2, <1>3

\* One call after another.
LEMMA GoingTwice ==
  ASSUME NEW s, NEW u, NEW p, NEW o, Going(s, u, p), p.ok = TRUE, Going(p.s, p.u, o)
  PROVE  Going(s, u, o)
BY DEF Going

\* What is said of a face that holds nothing.
LEMMA ReadyAnew ==
  ASSUME NEW s, NEW u, Known(s, u), NEW t \in Face,
         t.held = Nothing, t.completed = FALSE,
         \A c \in Channels : t.chan[c].range = Nothing => s.chan[c].range = Nothing,
         t.applied = s.applied, t.current = s.current, t.torn = s.torn
  PROVE  Ready(t, u)
BY DEF Ready, Known, Unset, Held, Noted

\* A channel is asked for.
LEMMA ChangedIs ==
  ASSUME NEW s, NEW u, Known(s, u), NEW c \in Channels, NEW want \in Settings
  PROVE  (s.couplingChanged \/ (want.ac /\ ~s.chan[c].ac)) \in BOOLEAN
<1>1. s.couplingChanged \in BOOLEAN /\ s.chan[c] \in P!ChannelState /\ want.ac \in BOOLEAN
  BY InstrumentsAssumption DEF Known, Face, Settings, InstrumentsAssumption
<1>2. s.chan[c].ac \in BOOLEAN
  BY <1>1 DEF P!ChannelState
<1> QED
  BY <1>1, <1>2

LEMMA AskedReady ==
  ASSUME NEW s, NEW u, Known(s, u), NEW c \in Channels, NEW want \in Settings, NEW changed \in BOOLEAN,
         NEW r, r = [s EXCEPT !.chan[c] = want, !.couplingChanged = changed], NEW t, t = P!Invalidated(r)
  PROVE  Ready(t, u) /\ t.armed = s.armed
<1>1. s \in Face /\ s.chan \in [Channels -> P!ChannelState] /\ s.couplingChanged \in BOOLEAN
  BY DEF Known, Face
<1>2. want \in P!ChannelState /\ want.range # Nothing
  BY InstrumentsAssumption DEF InstrumentsAssumption, P!DigitiserConstants, Settings, P!ChannelState
<1> DEFINE chan == [s.chan EXCEPT ![c] = want]
<1>4. chan \in [Channels -> P!ChannelState] /\ \A d \in Channels : chan[d] = IF d = c THEN want ELSE s.chan[d]
  BY <1>1, <1>2
<1>5. r = [s EXCEPT !.chan = chan, !.couplingChanged = changed]
  OBVIOUS
<1> HIDE DEF chan
<1>7. [s EXCEPT !.chan = chan, !.couplingChanged = changed] \in Face
  BY <1>1, <1>4, Zenon DEF Face
<1>8. /\ r \in Face /\ r.chan = chan /\ r.armed = s.armed
      /\ r.applied = s.applied /\ r.current = s.current /\ r.torn = s.torn
  BY <1>1, <1>5, <1>7 DEF Face
<1>9. /\ t \in Face /\ t.held = Nothing /\ t.completed = FALSE /\ t.armed = s.armed /\ t.chan = chan
      /\ t.applied = s.applied /\ t.current = s.current /\ t.torn = s.torn
  BY <1>8, Invalid
<1>10. \A d \in Channels : t.chan[d].range = Nothing => s.chan[d].range = Nothing
  BY <1>2, <1>4, <1>9
<1> QED
  BY <1>9, <1>10, ReadyAnew, Zenon

\* The trigger or the timebase is.
LEMMA TriggerReady ==
  ASSUME Known(scope, unit), P!SetupTrigger \/ P!SetupTimebase
  PROVE  /\ Ready(scope', unit) /\ scope'.armed = scope.armed
         /\ scope'.pending = scope.pending /\ scope'.applied = scope.applied /\ scope'.current = scope.current
<1>0. scope \in Face
  BY DEF Known
<1>1. PICK r : r = P!Invalidated(scope)
  OBVIOUS
<1>2. /\ r \in Face /\ r.held = Nothing /\ r.completed = FALSE /\ r.armed = scope.armed /\ r.pending = scope.pending
      /\ r.chan = scope.chan /\ r.applied = scope.applied /\ r.current = scope.current /\ r.torn = scope.torn
  BY <1>0, <1>1, Invalid
<1>3. (\E c \in Sources : scope' = [r EXCEPT !.source = c]) \/ scope' = [r EXCEPT !.timed = TRUE]
  BY <1>1 DEF P!SetupTrigger, P!SetupTimebase
<1> DEFINE Goal == /\ scope' \in Face /\ scope'.held = Nothing /\ scope'.completed = FALSE
                   /\ scope'.armed = scope.armed /\ scope'.pending = scope.pending
                   /\ scope'.chan = scope.chan /\ scope'.applied = scope.applied /\ scope'.current = scope.current
                   /\ scope'.torn = scope.torn
<1>4. Goal
  <2>1. ASSUME NEW c \in Sources, scope' = [r EXCEPT !.source = c]
        PROVE  Goal
    BY <1>2, <2>1 DEF Face
  <2>2. ASSUME scope' = [r EXCEPT !.timed = TRUE]
        PROVE  Goal
    BY <1>2, <2>2 DEF Face
  <2> QED
    BY <1>3, <2>1, <2>2
<1>5. Ready(scope', unit)
  BY <1>4, ReadyAnew
<1> QED
  BY <1>4, <1>5

\* A session, and after it a channel, or all of them.
LEMMA ChannelGoes ==
  ASSUME NEW s, NEW u, Ready(s, u), NEW c \in Channels,
         NEW o \in P!Then(P!Session(s, u), LAMBDA t, v : P!PushChannel(t, v, c))
  PROVE  Going(s, u, o)
<1>1. PICK p : p \in P!Session(s, u) /\ o \in IF p.ok THEN P!PushChannel(p.s, p.u, c) ELSE {p}
  BY DEF P!Then
<1>2. Going(s, u, p)
  BY <1>1, SessionKept
<1>3. CASE p.ok = FALSE
  BY <1>1, <1>2, <1>3
<1>4. CASE p.ok = TRUE
  <2>1. Ready(p.s, p.u) /\ p.u.open = TRUE /\ p.s.current = TRUE
    BY <1>2, <1>4 DEF Going
  <2>2. Kept(p.s, p.u, o)
    BY <1>1, <1>4, <2>1, ReadyPushes, PushChannelKept DEF Ready
  <2> QED
    BY <1>2, <1>4, <2>1, <2>2, KeptGoes, GoingTwice
<1> QED
  BY <1>2, <1>3, <1>4 DEF Going

LEMMA AcquisitionGoes ==
  ASSUME NEW s, NEW u, Ready(s, u),
         NEW o \in P!Then(P!Session(s, u), LAMBDA t, v :
                     P!PushChannels(t, v) \cup {P!Throws(t, v), P!Returns(t, v)})
  PROVE  Going(s, u, o)
<1>1. PICK p :
        /\ p \in P!Session(s, u)
        /\ o \in IF p.ok THEN P!PushChannels(p.s, p.u) \cup {P!Throws(p.s, p.u), P!Returns(p.s, p.u)} ELSE {p}
  BY DEF P!Then
<1>2. Going(s, u, p)
  BY <1>1, SessionKept
<1>3. CASE p.ok = FALSE
  BY <1>1, <1>2, <1>3
<1>4. CASE p.ok = TRUE
  <2>1. Ready(p.s, p.u) /\ p.u.open = TRUE /\ p.s.current = TRUE
    BY <1>2, <1>4 DEF Going
  <2>2. Pushing(p.s, p.u)
    BY <2>1, ReadyPushes DEF Ready
  <2>3. CASE o \in P!PushChannels(p.s, p.u)
    <3>1. Kept(p.s, p.u, o)
      BY <2>2, <2>3, PushChannelsKept
    <3> QED
      BY <1>2, <1>4, <2>1, <3>1, KeptGoes, GoingTwice
  <2>4. CASE o \in {P!Throws(p.s, p.u), P!Returns(p.s, p.u)}
    <3>1. o.ok \in BOOLEAN /\ o.s = p.s /\ o.u = p.u
      <4>1. CASE o = P!Throws(p.s, p.u)
        BY <4>1 DEF P!Throws
      <4>2. CASE o = P!Returns(p.s, p.u)
        BY <4>2 DEF P!Returns
      <4> QED
        BY <2>4, <4>1, <4>2
    <3> QED
      BY <1>2, <1>4, <3>1 DEF Going
  <2> QED
    BY <1>1, <1>4, <2>3, <2>4
<1> QED
  BY <1>2, <1>3, <1>4 DEF Going

\* A capture for a Fetch or a Measure, after its session.
LEMMA CaptureBegun ==
  ASSUME NEW s, NEW u, Ready(s, u),
         NEW o \in P!Then(P!Session(s, u), LAMBDA t, v : P!BeginCapture(t, v, FALSE))
  PROVE  /\ Ready(o.s, o.u) /\ (o.s.armed = TRUE => s.armed = TRUE) /\ (o.u.playing = TRUE => u.playing = TRUE)
         /\ \/ o.ok = FALSE
            \/ \E p \in P!Session(s, u) : p.ok = TRUE /\ Going(s, u, p) /\ Begun(p.s, p.u, FALSE, o)
<1>1. PICK p : p \in P!Session(s, u) /\ o \in IF p.ok THEN P!BeginCapture(p.s, p.u, FALSE) ELSE {p}
  BY DEF P!Then
<1>2. Going(s, u, p)
  BY <1>1, SessionKept
<1>3. CASE p.ok = FALSE
  BY <1>1, <1>2, <1>3 DEF Going
<1>4. CASE p.ok = TRUE
  <2>1. Ready(p.s, p.u) /\ p.u.open = TRUE /\ p.s.current = TRUE
    BY <1>2, <1>4 DEF Going
  <2>2. Begun(p.s, p.u, FALSE, o)
    BY <1>1, <1>4, <2>1, BegunKept
  <2> QED
    BY <1>1, <1>2, <1>4, <2>2 DEF Going, Begun, Steady
<1> QED
  BY <1>2, <1>3, <1>4 DEF Going

\* The generator's part of the unit is not the scope's.
LEMMA Plays ==
  ASSUME NEW s, NEW u, Known(s, u), u.open = TRUE, NEW playing \in BOOLEAN, NEW v, v = [u EXCEPT !.playing = playing]
  PROVE  /\ Known(s, v) /\ v.open = TRUE /\ v.block = u.block /\ v.playing = playing
         /\ Waiting(s, u) => Waiting(s, v)
<1>1. /\ v \in Box /\ v.open = TRUE /\ v.block = u.block /\ v.hw = u.hw /\ v.playing = playing
  BY DEF Known, Box
<1> QED
  BY <1>1 DEF Known, Unset, Held, Noted, InUnit, Waiting

\* What the generator does is not the scope's affair, as long as the unit is open.
Alike(s, u, t, v) ==
  /\ Attached(t, v)
  /\ Undisturbed(s, u) => Undisturbed(t, v)
  /\ t.armed = s.armed /\ t.completed = s.completed /\ (t.held = Nothing <=> s.held = Nothing)
  /\ Caught(t, v) <=> Caught(s, u)

LEMMA AlikeGoes ==
  ASSUME NEW s, NEW u, NEW t, NEW v, NEW was, Alike(s, u, t, v), was = FALSE => Undisturbed(s, u)
  PROVE  Goes(s, u, was, t, v, was)
BY DEF Alike, Goes, Answers

LEMMA OpenedAlike ==
  ASSUME NEW s, NEW u, Attached(s, u), NEW o, Opening(s, u, o)
  PROVE  Alike(s, u, o.s, o.u)
<1>1. CASE u.open = TRUE
  <2>1. o.s = s /\ o.u = u
    BY <1>1 DEF Opening, P!Returns
  <2> QED
    BY <2>1 DEF Alike
<1>2. CASE u.open # TRUE
  <2>0. s \in Face
    BY DEF Attached, Known
  <2>1. /\ o.s.armed = s.armed /\ o.s.completed = s.completed /\ o.s.held = s.held
        /\ o.s.applied = s.applied /\ o.s.torn = s.torn
    <3>1. CASE o.s = s
      BY <3>1
    <3>2. CASE o.s = P!Unfamiliar(s)
      <4>1. o.s = [s EXCEPT !.current = FALSE]
        BY <2>0, <3>2, UnfamiliarFace
      <4> QED
        BY <2>0, <4>1 DEF Face
    <3> QED
      BY <3>1, <3>2 DEF Opening
  <2>2. o.u.block = u.block /\ Known(o.s, o.u)
    BY DEF Opening
  <2>3. Caught(o.s, o.u) <=> Caught(s, u)
    BY <2>1, <2>2 DEF Caught
  <2>4. Undisturbed(s, u) => Undisturbed(o.s, o.u)
    BY <1>2, <2>1 DEF Undisturbed, Waiting, Scaled
  <2> QED
    BY <2>1, <2>2, <2>3, <2>4 DEF Alike, Attached
<1> QED
  BY <1>1, <1>2

LEMMA PlayedAlike ==
  ASSUME NEW s, NEW u, NEW t, NEW v, Alike(s, u, t, v), v.open = TRUE,
         NEW playing \in BOOLEAN, NEW w, w = [v EXCEPT !.playing = playing]
  PROVE  Alike(s, u, t, w) /\ w.playing = playing
<1>1. /\ Known(t, w) /\ w.open = TRUE /\ w.block = v.block /\ w.playing = playing
      /\ Waiting(t, v) => Waiting(t, w)
  <2>1. Known(t, v)
    BY DEF Alike, Attached
  <2> QED
    BY <2>1, Plays, Zenon
<1>2. Caught(t, w) <=> Caught(t, v)
  BY <1>1 DEF Caught
<1>3. Undisturbed(t, v) => Undisturbed(t, w)
  BY <1>1 DEF Undisturbed
<1>4. Attached(t, w)
  BY <1>1 DEF Alike, Attached
<1> QED
  BY <1>1, <1>2, <1>3, <1>4 DEF Alike

\* Every step of a scope that is attached.
LEMMA AttachedStep ==
  ASSUME PicoInv, simulated = FALSE, P!Next
  PROVE  Goes(scope, unit, touched, scope', unit', touched')
         /\ (mEnabled' = FALSE /\ unit'.playing = TRUE => unsilenced' = TRUE)
<1>1. /\ Attached(scope, unit) /\ Known(scope, unit) /\ scope \in Face /\ unit \in Box
      /\ touched \in BOOLEAN /\ (touched = FALSE => Undisturbed(scope, unit))
      /\ mEnabled \in BOOLEAN /\ unsilenced \in BOOLEAN
      /\ mEnabled = FALSE /\ unit.playing = TRUE => unsilenced = TRUE
  BY DEF PicoInv, Attached, Known
<1>2. touched = FALSE /\ scope.armed = TRUE => Waiting(scope, unit)
  BY <1>1 DEF Undisturbed
<1>3. scope.held = Nothing => scope.completed = FALSE
  BY <1>1 DEF Attached, Face
<1>4. ASSUME Goes(scope, unit, touched, scope', unit', touched'), unit'.playing = TRUE => unit.playing = TRUE,
             UNCHANGED <<mEnabled, unsilenced>>
      PROVE  Goes(scope, unit, touched, scope', unit', touched') /\ (mEnabled' = FALSE /\ unit'.playing = TRUE => unsilenced' = TRUE)
  BY <1>1, <1>4
<1>5. ASSUME NEW c \in Channels, P!SetupChannel(c)
      PROVE  Goes(scope, unit, touched, scope', unit', touched') /\ (mEnabled' = FALSE /\ unit'.playing = TRUE => unsilenced' = TRUE)
  <2>1. PICK want, asked, changed, o :
          /\ want \in Settings
          /\ changed = (scope.couplingChanged \/ (want.ac /\ ~scope.chan[c].ac))
          /\ asked = P!Invalidated([scope EXCEPT !.chan[c] = want, !.couplingChanged = changed])
          /\ o \in P!Then(P!Session(asked, unit), LAMBDA s, u : P!PushChannel(s, u, c))
          /\ scope' = o.s /\ unit' = o.u
    BY <1>5, Zenon DEF P!SetupChannel, P!Become
  <2>2. Ready(asked, unit) /\ asked.armed = scope.armed
    <3>1. Known(scope, unit) /\ want \in Settings
      BY <1>1, <2>1
    <3>2. changed \in BOOLEAN
      BY <2>1, <3>1, ChangedIs
    <3>3. PICK r : r = [scope EXCEPT !.chan[c] = want, !.couplingChanged = changed]
      OBVIOUS
    <3>4. asked = P!Invalidated(r)
      BY <2>1, <3>3
    <3>5. Ready(asked, unit)
      BY <3>1, <3>2, <3>3, <3>4, AskedReady
    <3>6. asked.armed = r.armed
      BY <3>4 DEF P!Invalidated
    <3>7. r.armed = scope.armed
      BY <3>3
    <3> QED
      BY <3>5, <3>6, <3>7
  <2>3. Going(asked, unit, o)
    BY <2>1, <2>2, ChannelGoes, Zenon
  <2>4. touched' = ((touched \/ scope.armed) /\ (scope'.armed \/ scope'.held # Nothing))
    BY <1>5 DEF P!SetupChannel, P!Touch, P!Mark
  <2>5. Goes(scope, unit, touched, scope', unit', touched') /\ (unit'.playing = TRUE => unit.playing = TRUE)
    BY <2>1, <2>2, <2>3, <2>4, TouchGoes DEF Going
  <2> QED
    BY <1>4, <1>5, <2>5 DEF P!SetupChannel
<1>6. CASE P!SetupTrigger \/ P!SetupTimebase
  <2>1. /\ Ready(scope', unit) /\ scope'.armed = scope.armed
        /\ scope'.pending = scope.pending /\ scope'.applied = scope.applied /\ scope'.current = scope.current
    BY <1>1, <1>6, TriggerReady
  <2>2. /\ unit' = unit /\ UNCHANGED <<mEnabled, unsilenced>>
        /\ touched' = (touched /\ (scope'.armed \/ scope'.held # Nothing))
    BY <1>6 DEF P!SetupTrigger, P!SetupTimebase, P!Mark
  <2>3. CASE scope.armed = FALSE
    BY <1>4, <2>1, <2>2, <2>3, ReadyGoes
  <2>4. CASE scope.armed = TRUE
    <3>1. /\ scope.held = Nothing /\ scope.completed = FALSE
          /\ scope'.held = Nothing /\ scope'.completed = FALSE /\ Known(scope', unit)
      BY <1>1, <2>1, <2>4 DEF Attached, Ready
    <3>2. touched' = touched
      BY <1>1, <2>1, <2>2, <2>4
    <3>3. Attached(scope', unit')
      BY <2>2, <3>1 DEF Attached
    <3>4. Waiting(scope, unit) => Waiting(scope', unit')
      BY <2>1, <2>2, <3>1 DEF Waiting, P!Enabled
    <3>5. touched = FALSE => Undisturbed(scope', unit')
      BY <1>2, <2>4, <3>1, <3>4 DEF Undisturbed, Scaled
    <3>6. Caught(scope', unit') <=> Caught(scope, unit)
      BY <2>2, <3>1 DEF Caught
    <3>7. Goes(scope, unit, touched, scope', unit', touched')
      BY <1>1, <2>1, <3>1, <3>2, <3>3, <3>5, <3>6 DEF Goes, Answers
    <3> QED
      BY <1>4, <2>2, <3>7
  <2> QED
    BY <1>1, <2>3, <2>4 DEF Face
<1>7. CASE P!SetupAcquisition
  <2>1. PICK asked, o :
          /\ asked = P!Invalidated(scope)
          /\ o \in P!Then(P!Session(asked, unit), LAMBDA s, u :
                     P!PushChannels(s, u) \cup {P!Throws(s, u), P!Returns(s, u)})
          /\ scope' = o.s /\ unit' = o.u
    BY <1>7, Zenon DEF P!SetupAcquisition, P!Become
  <2>2. Ready(asked, unit) /\ asked.armed = scope.armed
    <3>1. /\ asked \in Face /\ asked.held = Nothing /\ asked.completed = FALSE /\ asked.armed = scope.armed
          /\ asked.chan = scope.chan /\ asked.applied = scope.applied /\ asked.current = scope.current
          /\ asked.torn = scope.torn
      BY <1>1, <2>1, Invalid
    <3> QED
      BY <1>1, <3>1, ReadyAnew
  <2>3. Going(asked, unit, o)
    BY <2>1, <2>2, AcquisitionGoes, Zenon
  <2>4. touched' = ((touched \/ scope.armed) /\ (scope'.armed \/ scope'.held # Nothing))
    BY <1>7 DEF P!SetupAcquisition, P!Touch, P!Mark
  <2>5. Goes(scope, unit, touched, scope', unit', touched') /\ (unit'.playing = TRUE => unit.playing = TRUE)
    BY <2>1, <2>2, <2>3, <2>4, TouchGoes DEF Going
  <2> QED
    BY <1>4, <1>7, <2>5 DEF P!SetupAcquisition
<1>8. CASE P!Arm
  <2>1. PICK fresh, o :
          /\ fresh = P!Disarmed(scope)
          /\ o \in P!Armed(fresh, unit)
          /\ scope' = o.s /\ unit' = o.u
    BY <1>8, Zenon DEF P!Arm, P!Become
  <2>2. fresh \in Face /\ Ready(fresh, unit) /\ fresh.armed = FALSE
    <3>1. /\ fresh \in Face /\ fresh.held = Nothing /\ fresh.completed = FALSE /\ fresh.armed = FALSE
          /\ fresh.chan = scope.chan /\ fresh.applied = scope.applied /\ fresh.current = scope.current
          /\ fresh.torn = scope.torn
      BY <1>1, <2>1, Disarms
    <3> QED
      BY <1>1, <3>1, ReadyAnew
  <2>3. Arming(fresh, unit, o)
    BY <2>1, <2>2, ArmedKept
  <2>4. CASE o.ok = FALSE
    BY <1>4, <1>8, <2>1, <2>3, <2>4, ReadyGoes DEF Arming, P!Arm
  <2>5. CASE o.ok = TRUE
    <3>1. Known(o.s, o.u) /\ Waiting(o.s, o.u) /\ o.s.armed = TRUE /\ o.u.block.done = FALSE
      BY <2>3, <2>5 DEF Arming
    <3>2. o.s.held = Nothing /\ o.s.completed = FALSE /\ ~Caught(o.s, o.u)
      BY <3>1 DEF Waiting, Caught
    <3>3. Attached(o.s, o.u) /\ Undisturbed(o.s, o.u)
      BY <3>1, <3>2 DEF Attached, Undisturbed, Scaled
    <3>4. touched' = FALSE
      BY <1>8 DEF P!Arm
    <3>5. Goes(scope, unit, touched, scope', unit', touched')
      BY <2>1, <3>1, <3>2, <3>3, <3>4 DEF Goes, Answers
    <3> QED
      BY <1>4, <1>8, <2>1, <2>3, <3>5 DEF Arming, P!Arm
  <2> QED
    BY <2>3, <2>4, <2>5 DEF Arming
<1>9. CASE P!Event
  <2>1. /\ unit.block # Nothing /\ ~unit.block.done /\ unit' = [unit EXCEPT !.block.done = TRUE]
        /\ scope' = scope /\ UNCHANGED <<mEnabled, unsilenced, touched>>
    BY <1>9 DEF P!Event
  <2>2. unit.block \in P!Block
    BY <1>1, <2>1 DEF Box
  <2>3. PICK block : block = [unit.block EXCEPT !.done = TRUE]
    OBVIOUS
  <2>4. block \in P!Block /\ block.done = TRUE /\ block.shot = unit.block.shot
    BY <2>2, <2>3 DEF P!Block
  <2>5. unit' = [unit EXCEPT !.block = block]
    BY <2>1, <2>3
  <2>6. /\ unit' \in Box /\ unit'.block = block /\ unit'.hw = unit.hw /\ unit'.open = unit.open
        /\ unit'.playing = unit.playing
    BY <1>1, <2>4, <2>5, BlockUpdated
  <2>7. scope.held = Nothing
    BY <1>1, <2>1 DEF Known, Held
  <2>8. block # Nothing
    BY <2>4, InstrumentsAssumption DEF InstrumentsAssumption, P!DigitiserConstants
  <2>9. Known(scope, unit')
    BY <1>1, <2>1, <2>6, <2>7 DEF Known, Unset, Held, Noted, InUnit
  <2>10. Undisturbed(scope, unit) => Undisturbed(scope, unit')
    BY <2>4, <2>6, <2>8 DEF Undisturbed, Waiting, InUnit
  <2>11. Attached(scope, unit')
    BY <1>1, <2>9 DEF Attached
  <2>12. ~Caught(scope, unit) /\ (Caught(scope, unit') <=> block.shot.armed = TRUE)
    BY <2>1, <2>4, <2>6, <2>7, <2>8 DEF Caught
  <2>13. Goes(scope, unit, touched, scope, unit', touched)
    BY <1>1, <2>10, <2>11, <2>12 DEF Goes, Answers
  <2> QED
    BY <1>4, <2>1, <2>6, <2>13
<1>10. CASE P!Await
  <2>1. scope.armed = TRUE /\ scope.held = Nothing /\ scope.completed = FALSE
    BY <1>1, <1>10 DEF P!Await, Attached, Face
  <2>2. PICK taken, o :
          /\ taken = [scope EXCEPT !.armed = FALSE, !.pending = {}]
          /\ o \in P!Then(P!Session(taken, unit), LAMBDA s, u : P!FinishCapture(s, u, scope.pending))
          /\ scope' = o.s /\ unit' = o.u
    BY <1>10, Zenon DEF P!Await, P!Become
  <2>3. [scope EXCEPT !.armed = FALSE, !.pending = {}] \in Face
    <3>1. {} \in SUBSET Channels /\ FALSE \in BOOLEAN
      OBVIOUS
    <3> QED
      BY <1>1, <3>1, Zenon DEF Face
  <2>4. /\ taken \in Face /\ taken.armed = FALSE /\ taken.held = Nothing /\ taken.completed = FALSE
        /\ taken.chan = scope.chan /\ taken.applied = scope.applied /\ taken.torn = scope.torn
        /\ taken.current = scope.current
    BY <1>1, <2>1, <2>2, <2>3 DEF Face
  <2>5. Ready(taken, unit)
    <3>1. \A c \in Channels : taken.chan[c].range = Nothing => scope.chan[c].range = Nothing
      BY <2>4
    <3> QED
      BY <1>1, <2>4, <3>1, ReadyAnew, Zenon
  <2>6. PICK p :
          /\ p \in P!Session(taken, unit)
          /\ o \in IF p.ok THEN P!FinishCapture(p.s, p.u, scope.pending) ELSE {p}
    BY <2>2 DEF P!Then
  <2>7. Going(taken, unit, p) /\ (unit.open = TRUE /\ taken.current = TRUE => p = P!Returns(taken, unit))
    BY <2>5, <2>6, SessionKept
  <2>8. touched' = (touched /\ (scope'.armed \/ scope'.held # Nothing)) /\ UNCHANGED <<mEnabled, unsilenced>>
    BY <1>10 DEF P!Await, P!Mark
  <2>9. CASE touched = FALSE
    <3>1. Waiting(scope, unit)
      BY <1>2, <2>1, <2>9
    <3>2. unit.open = TRUE /\ taken.current = TRUE
      BY <2>4, <3>1 DEF Waiting
    <3>3. p = P!Returns(taken, unit)
      BY <2>7, <3>2
    <3>4. p.ok = TRUE /\ p.s = taken /\ p.u = unit
      BY <3>3 DEF P!Returns
    <3>5. o \in P!FinishCapture(taken, unit, scope.pending)
      BY <2>6, <3>4
    <3>6. scope.pending = P!Enabled(taken)
      BY <2>4, <3>1 DEF Waiting, P!Enabled
    <3>7. Finished(taken, unit, o)
      BY <2>4, <2>5, <3>1, <3>2, <3>5, <3>6, FinishKept DEF Waiting
    <3>8. CASE o.ok = FALSE
      <4>1. Ready(o.s, o.u) /\ o.s.armed = FALSE /\ o.u.block \in {unit.block, Nothing}
        BY <3>7, <3>8 DEF Finished, Ready
      <4> QED
        BY <1>4, <2>2, <2>8, <3>7, <4>1, ReadyGoes DEF Finished
    <3>9. CASE o.ok = TRUE
      <4>1. Known(o.s, o.u) /\ o.s.armed = FALSE /\ o.u.block = Nothing /\ Scaled(o.s)
        BY <3>7, <3>9 DEF Finished
      <4>2. unit.block # Nothing /\ unit.block.shot.armed = TRUE
        BY <3>1 DEF Waiting
      <4>3. touched' = FALSE
        BY <2>8, <2>9
      <4>4. CASE o.s.completed = FALSE /\ o.s.held = Nothing /\ unit.block.done = FALSE
        <5>1. ~Caught(scope, unit) /\ ~Caught(o.s, o.u)
          BY <2>1, <4>1, <4>2, <4>4 DEF Caught
        <5>2. Attached(o.s, o.u) /\ Undisturbed(o.s, o.u) /\ Answers(scope, unit, o.s, o.u)
          BY <2>1, <4>1, <4>4, <5>1 DEF Attached, Undisturbed, Answers
        <5>3. Goes(scope, unit, touched, scope', unit', touched')
          BY <2>2, <2>9, <4>3, <5>2 DEF Goes
        <5> QED
          BY <1>4, <2>2, <2>8, <3>7, <5>3 DEF Finished
      <4>5. CASE /\ o.s.completed = TRUE /\ unit.block.done = TRUE
                 /\ o.s.held # Nothing /\ o.s.held.shot = unit.block.shot
        <5>1. Caught(scope, unit) /\ Caught(o.s, o.u)
          BY <4>2, <4>5 DEF Caught
        <5>2. Attached(o.s, o.u) /\ Undisturbed(o.s, o.u) /\ Answers(scope, unit, o.s, o.u)
          BY <2>1, <4>1, <4>5, <5>1 DEF Attached, Undisturbed, Answers
        <5>3. Goes(scope, unit, touched, scope', unit', touched')
          BY <2>2, <2>9, <4>3, <5>2 DEF Goes
        <5> QED
          BY <1>4, <2>2, <2>8, <3>7, <5>3 DEF Finished
      <4> QED
        BY <3>7, <3>9, <4>4, <4>5 DEF Finished
    <3> QED
      BY <3>7, <3>8, <3>9 DEF Finished
  <2>10. CASE touched = TRUE
    <3>1. Attached(o.s, o.u) /\ o.s.armed = FALSE /\ (o.u.playing = TRUE => unit.playing = TRUE)
      <4>1. Ready(p.s, p.u) /\ p.s.armed = FALSE /\ (p.u.playing = TRUE => unit.playing = TRUE) /\ p.ok \in BOOLEAN
        BY <2>4, <2>7 DEF Going, Ready, Known, Face
      <4>2. CASE p.ok = TRUE
        <5>1. o \in P!FinishCapture(p.s, p.u, scope.pending)
          BY <2>6, <4>2
        <5>2. Over(p.u, o)
          BY <4>1, <5>1, FinishAny
        <5> QED
          BY <4>1, <5>2 DEF Over
      <4>3. CASE p.ok = FALSE
        BY <2>6, <4>1, <4>3 DEF Attached, Ready
      <4> QED
        BY <4>1, <4>2, <4>3
    <3>2. scope'.held # Nothing => touched' = TRUE
      BY <2>8, <2>10
    <3>3. scope'.held = Nothing => touched' = FALSE /\ scope'.completed = FALSE
      BY <2>2, <2>8, <3>1 DEF Attached, Known, Face
    <3>4. scope'.held = Nothing => Undisturbed(scope', unit')
      BY <2>2, <3>1 DEF Undisturbed, Scaled
    <3>5. Goes(scope, unit, touched, scope', unit', touched')
      BY <2>2, <2>10, <3>1, <3>2, <3>3, <3>4 DEF Goes
    <3> QED
      BY <1>4, <2>2, <2>8, <3>1, <3>5
  <2> QED
    BY <1>1, <2>9, <2>10
<1>11. CASE P!Read
  <2>1. PICK o :
          /\ o \in P!FreshCaptures
          /\ scope' = o.s /\ unit' = [o.u EXCEPT !.block = Nothing]
    BY <1>11 DEF P!Read
  <2>2. scope.held = Nothing /\ o \in P!Then(P!Session(scope, unit), LAMBDA s, u : P!BeginCapture(s, u, FALSE))
    BY <2>1, Zenon DEF P!FreshCaptures
  <2>3. Ready(scope, unit)
    BY <1>1, <1>3, <2>2 DEF Ready
  <2>4. Ready(o.s, o.u) /\ (o.s.armed = TRUE => scope.armed = TRUE) /\ (o.u.playing = TRUE => unit.playing = TRUE)
    BY <2>2, <2>3, CaptureBegun, Zenon
  <2>5. Ready(scope', unit') /\ unit'.block = Nothing /\ unit'.playing = o.u.playing
    BY <2>1, <2>4, Silent
  <2> QED
    <3>1. touched' = ((touched \/ scope.armed) /\ (scope'.armed \/ scope'.held # Nothing))
      BY <1>11 DEF P!Read, P!Touch, P!Mark
    <3>2. Goes(scope, unit, touched, scope', unit', touched')
      BY <2>1, <2>4, <2>5, <3>1, TouchGoes
    <3> QED
      BY <1>4, <1>11, <2>4, <2>5, <3>2 DEF P!Read
<1>12. CASE P!Safe
  <2>1. scope' = P!Disarmed(scope) /\ unit' \in {unit, [unit EXCEPT !.block = Nothing]} /\ UNCHANGED <<mEnabled, unsilenced>>
    BY <1>12 DEF P!Safe
  <2>2. Ready(scope', unit) /\ scope'.armed = FALSE
    <3>1. /\ scope' \in Face /\ scope'.held = Nothing /\ scope'.completed = FALSE /\ scope'.armed = FALSE
          /\ scope'.chan = scope.chan /\ scope'.applied = scope.applied /\ scope'.current = scope.current
          /\ scope'.torn = scope.torn
      BY <1>1, <2>1, Disarms
    <3> QED
      BY <1>1, <3>1, ReadyAnew
  <2>3. Ready(scope', unit') /\ unit'.block \in {unit.block, Nothing} /\ unit'.playing = unit.playing
    BY <2>1, <2>2, Silent
  <2> QED
    BY <1>4, <2>1, <2>2, <2>3, ReadyGoes
<1>13. CASE P!CloseSession
  <2>1. scope' = P!ResetCapture(scope) /\ unit' = P!ClosedUnit(unit) /\ UNCHANGED mEnabled
    BY <1>13 DEF P!CloseSession
  <2>2. Blank(unit') /\ unit'.open = FALSE
    BY <1>1, <2>1, Closed
  <2>3. scope' \in Face /\ scope'.held = Nothing /\ scope'.completed = FALSE /\ scope'.armed = FALSE
    BY <1>1, <2>1, Resets
  <2>4. Ready(scope', unit')
    BY <2>2, <2>3 DEF Ready, Known, Unset, Held, Blank
  <2> QED
    BY <2>2, <2>3, <2>4, ReadyGoes DEF Blank
<1>14. ASSUME NEW o, Alike(scope, unit, o.s, o.u), o.ok = TRUE => o.u.open = TRUE, P!Silenced(o),
              touched' = touched
       PROVE  Goes(scope, unit, touched, scope', unit', touched') /\ (mEnabled' = FALSE /\ unit'.playing = TRUE => unsilenced' = TRUE)
  <2>1. CASE P!Become(o) /\ unsilenced' = TRUE
    BY <1>1, <1>14, <2>1, AlikeGoes DEF P!Become
  <2>2. CASE o.ok /\ scope' = o.s /\ unit' = [o.u EXCEPT !.playing = FALSE]
    <3>1. o.u.open = TRUE /\ FALSE \in BOOLEAN
      BY <1>14, <2>2
    <3>2. Alike(scope, unit, o.s, unit') /\ unit'.playing = FALSE
      BY <1>14, <2>2, <3>1, PlayedAlike, ZenonT(60)
    <3> QED
      BY <1>1, <1>14, <2>2, <3>2, AlikeGoes
  <2> QED
    BY <1>14, <2>1, <2>2 DEF P!Silenced
<1>15. CASE P!Apply
  <2>1. PICK o :
          /\ o \in P!OpenedUnit(scope, unit)
          /\ \/ scope' = o.s /\ unit' = o.u
             \/ o.ok /\ scope' = o.s /\ unit' = [o.u EXCEPT !.playing = TRUE]
    BY <1>15 DEF P!Apply, P!Become
  <2>2. Opening(scope, unit, o)
    BY <1>1, <2>1, OpenedKept
  <2>3. Alike(scope, unit, o.s, o.u) /\ (o.ok = TRUE => o.u.open = TRUE)
    BY <1>1, <2>2, OpenedAlike DEF Opening
  <2>4. ASSUME scope' = o.s, unit' = o.u
        PROVE  Alike(scope, unit, scope', unit')
    BY <2>3, <2>4, Zenon
  <2>5. ASSUME o.ok, scope' = o.s, unit' = [o.u EXCEPT !.playing = TRUE]
        PROVE  Alike(scope, unit, scope', unit')
    <3>1. o.u.open = TRUE /\ TRUE \in BOOLEAN
      BY <2>3, <2>5, Zenon
    <3>2. Alike(scope, unit, o.s, unit')
      BY <2>3, <2>5, <3>1, PlayedAlike, Zenon
    <3> QED
      BY <2>5, <3>2, Zenon
  <2>6. Alike(scope, unit, scope', unit')
    BY <2>1, <2>4, <2>5, Zenon
  <2>7. touched' = touched /\ mEnabled' = TRUE
    BY <1>15 DEF P!Apply
  <2> QED
    BY <1>1, <2>6, <2>7, AlikeGoes
<1>16. CASE P!Remove
  <2>1. PICK o : o \in P!OpenedUnit(scope, unit) /\ P!Silenced(o)
    BY <1>16 DEF P!Remove
  <2>2. Opening(scope, unit, o)
    BY <1>1, <2>1, OpenedKept
  <2>3. Alike(scope, unit, o.s, o.u) /\ (o.ok = TRUE => o.u.open = TRUE)
    BY <1>1, <2>2, OpenedAlike DEF Opening
  <2>4. touched' = touched
    BY <1>16 DEF P!Remove
  <2> QED
    BY <1>14, <2>1, <2>3, <2>4
<1>17. CASE P!SafeGenerator
  <2>0. Alike(scope, unit, scope, unit) /\ touched' = touched
    BY <1>1, <1>17 DEF Alike, P!SafeGenerator
  <2>1. CASE unit.open = TRUE
    <3>1. PICK o : o = P!Returns(scope, unit) /\ P!Silenced(o)
      BY <1>17, <2>1 DEF P!SafeGenerator, P!MustSilence
    <3>2. o.s = scope /\ o.u = unit
      BY <3>1 DEF P!Returns
    <3> QED
      BY <1>14, <2>0, <2>1, <3>1, <3>2
  <2>2. CASE unit.open = FALSE
    <3>1. UNCHANGED <<scope, unit>> /\ unit.playing = FALSE
      BY <1>1, <1>17, <2>2 DEF P!SafeGenerator, P!MustSilence, Known, Unset
    <3> QED
      BY <1>1, <2>0, <3>1, AlikeGoes
  <2> QED
    BY <1>1, <2>1, <2>2 DEF Box
<1>18. CASE P!CloseGenerator
  <2>1. /\ unit' = P!ClosedUnit(unit) /\ scope' = scope /\ UNCHANGED mEnabled
        /\ touched' = ((touched \/ scope.armed) /\ (scope.armed \/ scope.held # Nothing))
    BY <1>18 DEF P!CloseGenerator, P!Touch, P!Mark
  <2>2. Blank(unit') /\ unit'.open = FALSE /\ unit'.playing = FALSE /\ unit'.block = Nothing
    BY <1>1, <2>1, Closed DEF Blank
  <2>3. Known(scope, unit')
    BY <1>1, <2>2 DEF Known, Unset, Held, Blank
  <2>4. Attached(scope, unit')
    BY <1>1, <2>3 DEF Attached
  <2>5. Caught(scope, unit') => Caught(scope, unit)
    BY <2>2 DEF Caught
  <2>6. CASE scope.held = Nothing
    <3>1. Ready(scope, unit')
      BY <1>3, <2>3, <2>6 DEF Ready
    <3> QED
      BY <1>1, <2>1, <2>2, <3>1, TouchGoes
  <2>7. CASE scope.held # Nothing
    <3>1. scope.armed = FALSE /\ unit.block = Nothing
      BY <1>1, <2>7 DEF Attached, Known, Held, Face
    <3>2. touched' = touched
      BY <1>1, <2>1, <2>7, <3>1
    <3>3. Alike(scope, unit, scope, unit')
      BY <2>2, <2>4, <3>1 DEF Alike, Undisturbed, Caught
    <3> QED
      BY <1>1, <2>1, <2>2, <3>2, <3>3, AlikeGoes
  <2> QED
    BY <2>6, <2>7
<1> QED
  BY <1>5, <1>6, <1>7, <1>8, <1>9, <1>10, <1>11, <1>12, <1>13, <1>15, <1>16, <1>17, <1>18 DEF P!Next

\* And of one that is not.
LEMMA UnattachedAnew ==
  ASSUME NEW s, NEW u, Unattached(s, u), NEW t \in Face, t.held = Nothing, t.chan = s.chan
  PROVE  Unattached(t, u)
BY DEF Unattached, Known, Unset, Held

LEMMA UnattachedStep ==
  ASSUME PicoInv, simulated = TRUE, P!Next
  PROVE  Unattached(scope', unit') /\ unit'.playing = FALSE
<1>1. /\ Unattached(scope, unit) /\ Known(scope, unit) /\ scope \in Face /\ unit \in Box
      /\ unit.open = FALSE /\ scope.held = Nothing /\ unit.block = Nothing /\ unit.playing = FALSE
  BY DEF PicoInv, Unattached, Known, Unset
<1>3. ASSUME Unattached(scope', unit') PROVE unit'.playing = FALSE
  BY <1>3 DEF Unattached, Known, Unset
<1>4. ASSUME NEW c \in Channels, P!SetupChannel(c)
      PROVE  Unattached(scope', unit')
  <2>1. PICK want, changed :
          /\ want \in Settings
          /\ changed = (scope.couplingChanged \/ (want.ac /\ ~scope.chan[c].ac))
          /\ scope' = P!Invalidated([scope EXCEPT !.chan[c] = want, !.couplingChanged = changed])
          /\ unit' = unit
    BY <1>4, Zenon DEF P!SetupChannel
  <2>2. Ready(scope', unit)
    <3>1. Known(scope, unit) /\ want \in Settings
      BY <1>1, <2>1
    <3>2. changed \in BOOLEAN
      BY <1>1, <2>1, <3>1, ChangedIs
    <3>3. PICK r : r = [scope EXCEPT !.chan[c] = want, !.couplingChanged = changed]
      OBVIOUS
    <3>4. scope' = P!Invalidated(r)
      BY <2>1, <3>3
    <3> QED
      BY <3>1, <3>2, <3>3, <3>4, AskedReady
  <2> QED
    BY <1>1, <2>1, <2>2 DEF Ready, Unattached
<1>5. CASE P!SetupTrigger \/ P!SetupTimebase
  <2>1. Ready(scope', unit) /\ unit' = unit
    BY <1>1, <1>5, TriggerReady DEF P!SetupTrigger, P!SetupTimebase
  <2> QED
    BY <1>1, <2>1 DEF Ready, Unattached
<1>6. CASE P!Arm
  <2>1. PICK fresh : fresh = P!Disarmed(scope)
    OBVIOUS
  <2>2. fresh \in Face /\ fresh.held = Nothing /\ fresh.chan = scope.chan
    BY <1>1, <2>1, Disarms
  <2>3. scope' = [fresh EXCEPT !.armed = TRUE] /\ unit' = unit
    BY <1>6, <2>1 DEF P!Arm
  <2>4. scope' \in Face /\ scope'.held = Nothing /\ scope'.chan = scope.chan
    BY <2>2, <2>3 DEF Face
  <2> QED
    BY <1>1, <2>3, <2>4, UnattachedAnew
<1>7. CASE P!Await
  <2>1. PICK taken : taken = [scope EXCEPT !.armed = FALSE, !.pending = {}]
    OBVIOUS
  <2>2. [scope EXCEPT !.armed = FALSE, !.pending = {}] \in Face
    <3>1. {} \in SUBSET Channels /\ FALSE \in BOOLEAN
      OBVIOUS
    <3> QED
      BY <1>1, <3>1, Zenon DEF Face
  <2>3. taken \in Face /\ taken.held = Nothing /\ taken.chan = scope.chan
    BY <1>1, <2>1, <2>2 DEF Face
  <2>4. scope' \in {taken, [taken EXCEPT !.completed = TRUE]} /\ unit' = unit
    BY <1>7, <2>1 DEF P!Await
  <2>5. scope' \in Face /\ scope'.held = Nothing /\ scope'.chan = scope.chan
    BY <2>3, <2>4 DEF Face
  <2> QED
    BY <1>1, <2>4, <2>5, UnattachedAnew
<1>8. CASE P!Safe
  <2>1. scope' = P!Disarmed(scope) /\ unit' \in {unit, [unit EXCEPT !.block = Nothing]}
    BY <1>8 DEF P!Safe
  <2>2. unit' = unit
    BY <1>1, <2>1 DEF Box
  <2>3. scope' \in Face /\ scope'.held = Nothing /\ scope'.chan = scope.chan
    BY <1>1, <2>1, Disarms
  <2> QED
    BY <1>1, <2>2, <2>3, UnattachedAnew
<1>9. CASE P!CloseSession
  <2>1. scope' = P!ResetCapture(scope) /\ unit' = P!ClosedUnit(unit)
    BY <1>9 DEF P!CloseSession
  <2>2. Blank(unit') /\ unit'.open = FALSE
    BY <1>1, <2>1, Closed
  <2>3. scope' \in Face /\ scope'.held = Nothing
    BY <1>1, <2>1, Resets
  <2> QED
    BY <2>2, <2>3 DEF Unattached, Known, Unset, Held, Blank
<1>10. CASE P!CloseGenerator
  <2>1. scope' = scope /\ unit' = P!ClosedUnit(unit)
    BY <1>10 DEF P!CloseGenerator
  <2>2. Blank(unit') /\ unit'.open = FALSE
    BY <1>1, <2>1, Closed
  <2> QED
    BY <1>1, <2>1, <2>2 DEF Unattached, Known, Unset, Held, Blank
<1>11. CASE P!Apply \/ P!Remove \/ P!SafeGenerator
  <2>1. UNCHANGED <<scope, unit>>
    BY <1>1, <1>11 DEF P!Apply, P!Remove, P!SafeGenerator, P!MustSilence
  <2> QED
    BY <1>1, <2>1
<1>12. ~P!SetupAcquisition /\ ~P!Event /\ ~P!Read
  BY <1>1 DEF P!SetupAcquisition, P!Event, P!Read, P!FreshCaptures
<1> QED
  BY <1>3, <1>4, <1>5, <1>6, <1>7, <1>8, <1>9, <1>10, <1>11, <1>12 DEF P!Next

LEMMA PicoInit == P!Init => PicoInv
<1> SUFFICES ASSUME P!Init
             PROVE  PicoInv
  OBVIOUS
<1> DEFINE chan == [c \in Channels |-> P!NewChannel]
           hw == [c \in Channels |-> [P!NewChannel EXCEPT !.on = FALSE]]
<1>1. /\ chan \in [Channels -> P!ChannelState] /\ \A c \in Channels : chan[c].range = Nothing
      /\ hw \in [Channels -> P!ChannelState] /\ \A c \in Channels : hw[c].on = FALSE
  BY DEF P!NewChannel, P!ChannelState
<1>2. P!Unapplied \in [Channels -> Ranges \cup {Nothing}]
  BY DEF P!Unapplied
<1>3. scope = [chan |-> chan, applied |-> P!Unapplied, current |-> FALSE,
               couplingChanged |-> FALSE, torn |-> {}, source |-> Nothing, timed |-> FALSE,
               pending |-> {}, held |-> Nothing, armed |-> FALSE, completed |-> FALSE]
  BY DEF P!Init
<1>4. unit = [library |-> "untried", open |-> FALSE, playing |-> FALSE, settled |-> {}, block |-> Nothing, hw |-> hw]
  BY DEF P!Init
<1>5. simulated \in BOOLEAN /\ mEnabled = FALSE /\ unsilenced = FALSE /\ touched = FALSE
  BY DEF P!Init
<1> HIDE DEF chan, hw
<1>6. scope \in Face
  BY <1>1, <1>2, <1>3 DEF Face
<1>7. unit \in Box
  BY <1>1, <1>4 DEF Box
<1>8. /\ scope.held = Nothing /\ scope.armed = FALSE /\ scope.completed = FALSE
      /\ unit.open = FALSE /\ unit.playing = FALSE /\ unit.block = Nothing /\ unit.hw = hw
  BY <1>3, <1>4
<1>9. Known(scope, unit)
  BY <1>1, <1>6, <1>7, <1>8 DEF Known, Unset, Held
<1> QED
  BY <1>5, <1>8, <1>9 DEF PicoInv, Attached, Unattached, Undisturbed, Scaled

LEMMA PicoStep ==
  ASSUME PicoInv, P!Next
  PROVE  PicoInv'
<1>1. /\ simulated' = simulated /\ simulated \in BOOLEAN /\ mEnabled' \in BOOLEAN /\ unsilenced' \in BOOLEAN
      /\ touched' \in BOOLEAN
  BY DEF P!Next, P!SetupChannel, P!SetupTrigger, P!SetupTimebase, P!SetupAcquisition, P!Arm, P!Event,
         P!Await, P!Read, P!Safe, P!CloseSession, P!Apply, P!Remove, P!SafeGenerator, P!CloseGenerator,
         P!Silenced, P!Touch, P!Mark, PicoInv
<1>2. CASE simulated = FALSE
  BY <1>1, <1>2, AttachedStep DEF PicoInv, Goes
<1>3. CASE simulated = TRUE
  BY <1>1, <1>3, UnattachedStep DEF PicoInv
<1> QED
  BY <1>1, <1>2, <1>3
----------------------------------------------------------------------------
(* The snapshot.                                                           *)

\* A config has an entry for every setting, named or not.
AllNamed(configs) == \A c \in configs : DOMAIN c = S!Names

LEMMA WithNamed ==
  ASSUME NEW base, AllNamed(base), NEW field, NEW values
  PROVE  AllNamed(S!With(base, field, values))
BY DEF AllNamed, S!With

LEMMA ConfigNamed == AllNamed(S!Config)
<1>1. AllNamed({S!Unset})
  BY DEF AllNamed, S!Unset
<1>2. AllNamed(S!DcConfig)
  BY <1>1, WithNamed DEF S!DcConfig
<1>3. AllNamed(S!AcConfig)
  BY <1>1, WithNamed DEF S!AcConfig
<1>4. ASSUME NEW shape
      PROVE  AllNamed(
        S!With(S!With(S!With(S!With(S!With({[S!Unset EXCEPT !.FUNC = shape]},
          "LOAD", S!Opt({"50", "INF"})),
          "FREQ", S!Opt(IF S!Periodic(shape) THEN Hertz ELSE {})),
          "SHAPE", S!Opt(IF S!HasDutyCycle(shape) THEN {90} ELSE {})),
          "VOLT", S!Opt(IF S!Amplifiable(shape) THEN Volts ELSE {})),
          "OFFS", S!Opt(Offsets)))
  <2>1. AllNamed({[S!Unset EXCEPT !.FUNC = shape]})
    BY DEF AllNamed, S!Unset
  <2> QED
    BY <2>1, WithNamed
<1>5. AllNamed(S!WaveformConfig)
  BY <1>4 DEF S!WaveformConfig, AllNamed
<1> QED
  BY <1>2, <1>3, <1>5 DEF S!Config

\* What a driver remembers has one too.
LEMMA RememberedNamed ==
  ASSUME DOMAIN mSettings = S!Names, NEW c, DOMAIN c = S!Names
  PROVE  DOMAIN S!Remembered(c) = S!Names
BY DEF S!Remembered, S!Unset

\* Told what a snapshot holds, the driver notes it again: the trip level is not
\* held, and a level and a range that were never programmed have defaults.
LEMMA RememberedAgain ==
  ASSUME kind \in {"supply", "ac"}, NEW noted, DOMAIN noted = S!Names,
         NEW n \in S!Names \ {"PROT"}, noted[n] # Nothing
  PROVE  S!Remembered([noted EXCEPT !.PROT = Nothing])[n] = noted[n]
<1> DEFINE c == [noted EXCEPT !.PROT = Nothing]
<1>1. DOMAIN c = S!Names /\ c[n] = noted[n] /\ c[n] # Nothing
  OBVIOUS
<1>2. n = "VOLT" => S!Level(c) = c[n]
  BY <1>1 DEF S!Level
<1>3. n = "RANGE" => S!Kept(c, "RANGE") = c[n]
  BY <1>1 DEF S!Kept
<1> HIDE DEF c
<1>4. CASE kind = "supply"
  <2>1. S!Remembered(c) = [c EXCEPT !.VOLT = S!Level(c)]
    BY <1>4 DEF S!Remembered, S!Generators
  <2> QED
    BY <1>1, <1>2, <2>1 DEF c
<1>5. CASE kind = "ac"
  <2>1. S!Remembered(c) = [c EXCEPT !.VOLT = S!Level(c), !.RANGE = S!Kept(c, "RANGE")]
    BY <1>5 DEF S!Remembered, S!Generators
  <2> QED
    BY <1>1, <1>2, <1>3, <2>1 DEF c
<1> QED
  BY <1>4, <1>5

LEMMA SourceInit == S!Init => SourceInv
BY DEF S!Init, SourceInv, S!RestoredAsFound, S!Believed, S!Unset

LEMMA SourceStep == SourceInv /\ S!Next => SourceInv'
<1> SUFFICES ASSUME SourceInv, S!Next
             PROVE  SourceInv'
  OBVIOUS
<1> USE DEF SourceInv, S!RestoredAsFound, S!Idle
<1>1. CASE S!Return
  BY <1>1 DEF S!Return
<1>2. CASE S!Apply
  <2>1. PICK c \in S!Config : S!Programs(c)
    BY <1>2 DEF S!Apply
  <2>2. mSettings' = S!Remembered(c) /\ DOMAIN c = S!Names
    BY <2>1, ConfigNamed DEF S!Programs, AllNamed
  <2>3. DOMAIN mSettings' = S!Names
    BY <2>2, RememberedNamed
  <2>4. UNCHANGED <<kind, mHeld, restored>> /\ restored = FALSE
    BY <1>2 DEF S!Apply
  <2> QED
    BY <2>3, <2>4
<1>3. CASE S!RemoveOutput
  BY <1>3 DEF S!RemoveOutput
<1>4. CASE S!Safe
  <2>1. DOMAIN mSettings' = S!Names
    BY <1>4 DEF S!Safe, S!Forgotten
  <2>2. UNCHANGED <<kind, mHeld, restored>> /\ restored = FALSE
    BY <1>4 DEF S!Safe
  <2> QED
    BY <2>1, <2>2
<1>5. CASE S!CloseSession
  BY <1>5 DEF S!CloseSession
<1>6. CASE S!Connect \/ S!Disconnect
  BY <1>6 DEF S!Connect, S!Disconnect, S!driverVars
<1>7. CASE S!Capture
  BY <1>7 DEF S!Capture, S!Snapshot, S!HasRelay, S!driverVars
<1>8. CASE S!Restore
  <2>1. /\ mHeld # Nothing /\ mSettings' = S!Remembered(mHeld.settings) /\ UNCHANGED <<kind, mHeld>>
        /\ restored' \in BOOLEAN
    BY <1>8 DEF S!Restore, S!Programs
  <2>2. DOMAIN mHeld.settings = S!Names
    BY <2>1
  <2>3. DOMAIN mSettings' = S!Names
    BY <2>1, <2>2, RememberedNamed
  <2>4. \A n \in S!Names \ {"PROT"} : mHeld.noted[n] # Nothing => mSettings'[n] = mHeld.noted[n]
    BY <2>1, RememberedAgain
  <2> QED
    BY <2>1, <2>3, <2>4
<1> QED
  BY <1>1, <1>2, <1>3, <1>4, <1>5, <1>6, <1>7, <1>8 DEF S!Next


----------------------------------------------------------------------------
(* What an Apply says, and what the unit makes of it.                      *)

\* Commands are obeyed one after the other. A program has at most seven.
LEMMA ToldSteps ==
  ASSUME NEW commands, Len(commands) \in 0..7
  PROVE  /\ S!Told(commands, 0) = [ok |-> TRUE, unit |-> box]
         /\ \A i \in 1..Len(commands) :
              S!Told(commands, i) = S!Say(S!Told(commands, i - 1), commands[i])
<1>1. \A i \in 0..Len(commands) :
        i = 0 \/ (i \in {1, 2, 3, 4, 5, 6, 7} /\ i - 1 \in 0..Len(commands))
  <2>1. \A k \in 0..7 : \A i \in 0..k : i = 0 \/ (i \in {1, 2, 3, 4, 5, 6, 7} /\ i - 1 \in 0..k)
    OBVIOUS
  <2> QED
    BY <2>1, Zenon
<1> DEFINE zero == [ok |-> TRUE, unit |-> box]
           one == S!Say(zero, commands[1])
           two == S!Say(one, commands[2])
           three == S!Say(two, commands[3])
           four == S!Say(three, commands[4])
           five == S!Say(four, commands[5])
           six == S!Say(five, commands[6])
           seven == S!Say(six, commands[7])
           Steps(f) == f = [i \in 0..Len(commands) |->
                              IF i = 0 THEN zero ELSE S!Say(f[i - 1], commands[i])]
           said == CHOOSE f : Steps(f)
           g == [i \in 0..Len(commands) |->
                   IF i = 0 THEN zero ELSE IF i = 1 THEN one ELSE IF i = 2 THEN two
                   ELSE IF i = 3 THEN three ELSE IF i = 4 THEN four ELSE IF i = 5 THEN five
                   ELSE IF i = 6 THEN six ELSE seven]
<1>2. \A n : S!Told(commands, n) = said[n]
  BY Zenon DEF S!Told
<1> HIDE DEF zero
<1>3. g = [i \in 0..Len(commands) |-> IF i = 0 THEN zero ELSE S!Say(g[i - 1], commands[i])]
  <2>1. ASSUME NEW i \in 0..Len(commands)
        PROVE  g[i] = IF i = 0 THEN zero ELSE S!Say(g[i - 1], commands[i])
    BY <1>1
  <2>2. g = [i \in 0..Len(commands) |-> g[i]]
    OBVIOUS
  <2> HIDE DEF g
  <2> QED
    BY <2>1, <2>2
<1> HIDE DEF g
<1>4. Steps(g)
  BY <1>3
<1> HIDE DEF Steps
<1>5. Steps(said)
  BY <1>4, Zenon
<1>6. said = [i \in 0..Len(commands) |-> IF i = 0 THEN zero ELSE S!Say(said[i - 1], commands[i])]
  BY <1>5 DEF Steps
<1>7. said[0] = zero /\ \A i \in 1..Len(commands) : said[i] = S!Say(said[i - 1], commands[i])
  <2> HIDE DEF said
  <2> QED
    BY <1>6
<1> QED
  BY <1>2, <1>7, Zenon DEF zero

\* What a command moves besides its own setting.
Moves(name) ==
  CASE name = "LOAD" -> {"VOLT", "OFFS"}
    [] name = "FUNC" -> {"FREQ"}
    [] name = "FREQ" -> {"SHAPE"}
    [] name = "VOLT" -> IF kind = "supply" THEN {"on"} ELSE {"OFFS"}
    [] name = "PROT" -> {"on"}
    [] OTHER -> {}

\* Whatever is said, the unit has its settings.
LEMMA ObeyedFull ==
  ASSUME NEW u, Full(u), NEW name, NEW v
  PROVE  Full(S!Obey(u, name, v).unit) /\ S!Obey(u, name, v).ok \in BOOLEAN
BY DEF S!Obey, Full, S!Tripped, S!Factory, Sayable

\* A setting that is taken is set, and nothing moves but what the command moves.
LEMMA TrippedFull ==
  ASSUME NEW u, Full(u)
  PROVE  Full(S!Tripped(u)) /\ \A n \in Sayable : S!Tripped(u)[n] = u[n]
BY DEF S!Tripped, Full, Sayable

\* The unit took what was said.
Took(s) == s.ok = TRUE

LEMMA ObeyedSets ==
  ASSUME NEW u, Full(u), NEW name \in Sayable, NEW v
  PROVE  /\ Took(S!Obey(u, name, v)) => S!Obey(u, name, v).unit[name] = v
         /\ \A n \in (Sayable \cup {"on"}) \ ({name} \cup Moves(name)) :
              S!Obey(u, name, v).unit[n] = u[n]
<1> USE DEF Took, Sayable, Full, Sayable, Moves
<1>1. CASE name = "LOAD"
  BY <1>1 DEF S!Obey
<1>2. CASE name = "FUNC"
  BY <1>2 DEF S!Obey
<1>3. CASE name = "FREQ"
  BY <1>3 DEF S!Obey
<1>4. CASE name = "SHAPE"
  BY <1>4 DEF S!Obey
<1>5. CASE name = "VOLT" /\ kind = "supply"
  <2> DEFINE w == [u EXCEPT !.VOLT = v]
  <2>1. S!Obey(u, name, v).unit = S!Tripped(w)
    BY <1>5 DEF S!Obey
  <2>2. Full(w) /\ w[name] = v /\ \A n \in Sayable \ {name} : w[n] = u[n]
    BY <1>5
  <2> HIDE DEF w
  <2> QED
    BY <1>5, <2>1, <2>2, TrippedFull
<1>6. CASE name = "VOLT" /\ kind # "supply"
  BY <1>6 DEF S!Obey
<1>7. CASE name = "OFFS"
  BY <1>7 DEF S!Obey
<1>8. CASE name = "PROT"
  <2> DEFINE w == [u EXCEPT !.PROT = v]
  <2>1. S!Obey(u, name, v).unit = S!Tripped(w)
    BY <1>8 DEF S!Obey
  <2>2. Full(w) /\ w[name] = v /\ \A n \in Sayable \ {name} : w[n] = u[n]
    BY <1>8
  <2> HIDE DEF w
  <2> QED
    BY <1>8, <2>1, <2>2, TrippedFull
<1>9. CASE name = "CURR"
  BY <1>9 DEF S!Obey
<1> QED
  BY <1>1, <1>2, <1>3, <1>4, <1>5, <1>6, <1>7, <1>8, <1>9

\* What has been said: the unit has its settings, and took it all or not.
Heard(s) == s.ok \in BOOLEAN /\ Full(s.unit)

LEMMA SaidHeard ==
  ASSUME NEW s, Heard(s), NEW command
  PROVE  /\ Heard(S!Say(s, command))
         /\ Took(S!Say(s, command)) => Took(s)
BY ObeyedFull DEF S!Say, Heard, Took

\* A setting that is said is there when it was taken, and is not said when it is
\* not named.
LEMMA SaidSets ==
  ASSUME NEW s, Heard(s), NEW name \in Sayable, NEW v,
         Took(S!Say(s, S!Command(name, v)))
  PROVE  LET r == S!Say(s, S!Command(name, v)) IN
         /\ v # Nothing => r.unit[name] = v
         /\ \A n \in (Sayable \cup {"on"}) \ ({name} \cup Moves(name)) : r.unit[n] = s.unit[n]
<1> DEFINE r == S!Say(s, S!Command(name, v))
<1>1. CASE Took(s) /\ v # Nothing
  <2>1. r = S!Obey(s.unit, name, v)
    BY <1>1 DEF S!Say, S!Command, Took
  <2>2. Full(s.unit)
    BY DEF Heard
  <2> DEFINE o == S!Obey(s.unit, name, v)
  <2>3. /\ Took(o) => o.unit[name] = v
        /\ \A n \in (Sayable \cup {"on"}) \ ({name} \cup Moves(name)) : o.unit[n] = s.unit[n]
    BY <2>2, ObeyedSets
  <2> HIDE DEF r, o
  <2> QED
    BY <2>1, <2>3 DEF r, o
<1>2. CASE v = Nothing
  <2>1. r = s
    BY <1>2 DEF S!Say, S!Command
  <2> QED
    BY <1>2, <2>1
<1>3. CASE ~Took(s)
  BY <1>3, SaidHeard
<1> QED
  BY <1>1, <1>2, <1>3

\* The output goes on, but for a supply that trips.
LEMMA SaidOn ==
  ASSUME NEW s, Heard(s), Nothing # "ON", Took(S!Say(s, S!Command("OUTP", "ON")))
  PROVE  LET r == S!Say(s, S!Command("OUTP", "ON")) IN
         /\ \A n \in Sayable : r.unit[n] = s.unit[n]
         /\ (kind = "supply" => s.unit.VOLT <= s.unit.PROT) => r.unit.on = TRUE
<1> DEFINE w == [s.unit EXCEPT !.on = TRUE]
           r == S!Say(s, S!Command("OUTP", "ON"))
<1>1. w.on = TRUE /\ Full(w) /\ \A n \in Sayable : w[n] = s.unit[n]
  BY DEF Heard, Full, Sayable
<1>2. S!Obey(s.unit, "OUTP", "ON") = [ok |-> TRUE, unit |-> S!Tripped(w)]
  BY DEF S!Obey
<1>3. Took(s)
  BY SaidHeard
<1>4. r = S!Obey(s.unit, "OUTP", "ON")
  BY <1>3 DEF S!Say, S!Command, Took
<1> HIDE DEF w, r
<1>5. r.unit = S!Tripped(w)
  BY <1>2, <1>4
<1>6. \A n \in Sayable : r.unit[n] = s.unit[n]
  BY <1>1, <1>5, TrippedFull
<1>7. ASSUME kind = "supply" => s.unit.VOLT <= s.unit.PROT
      PROVE  r.unit.on = TRUE
  <2>1. w.VOLT = s.unit.VOLT /\ w.PROT = s.unit.PROT /\ "on" \in DOMAIN w
    BY <1>1 DEF Full, Sayable
  <2>2. [w EXCEPT !.on = @ /\ (kind = "supply" => w.VOLT <= w.PROT)].on = TRUE
    BY <1>1, <1>7, <2>1
  <2> QED
    BY <1>5, <2>2 DEF S!Tripped
<1> QED
  BY <1>6, <1>7 DEF r

----------------------------------------------------------------------------
(* A generator's program.                                                  *)

\* Its commands, the load first.
LEMMA GeneratorProgram ==
  ASSUME NEW c, kind \in S!Generators
  PROVE  /\ Len(S!Program(c)) = 7
         /\ S!Program(c)[1] = S!Command("LOAD", c.LOAD)
         /\ S!Program(c)[2] = S!Command("FUNC", c.FUNC)
         /\ S!Program(c)[3] = S!Command("FREQ", c.FREQ)
         /\ S!Program(c)[4] = S!Command("SHAPE", c.SHAPE)
         /\ S!Program(c)[5] = S!Command("VOLT", c.VOLT)
         /\ S!Program(c)[6] = S!Command("OFFS", c.OFFS)
         /\ S!Program(c)[7] = S!Command("OUTP", "ON")
<1> DEFINE order == <<"LOAD", "FUNC", "FREQ", "SHAPE", "VOLT", "OFFS">>
<1>1. S!GeneratorOrder = order /\ DOMAIN order = 1..6 /\ Len(order) = 6
  BY DEF S!GeneratorOrder, S!LoadFirst
<1>2. S!Program(c) = [i \in 1..7 |-> IF i \in 1..6 THEN S!Command(order[i], c[order[i]])
                                      ELSE S!Command("OUTP", "ON")]
  BY <1>1 DEF S!Program, S!Named
<1> QED
  BY <1>2

\* Each of its commands follows from the one before.
GeneratorSteps(c, T) ==
  /\ T[0] = [ok |-> TRUE, unit |-> box]
  /\ T[1] = S!Say(T[0], S!Command("LOAD", c.LOAD))
  /\ T[2] = S!Say(T[1], S!Command("FUNC", c.FUNC))
  /\ T[3] = S!Say(T[2], S!Command("FREQ", c.FREQ))
  /\ T[4] = S!Say(T[3], S!Command("SHAPE", c.SHAPE))
  /\ T[5] = S!Say(T[4], S!Command("VOLT", c.VOLT))
  /\ T[6] = S!Say(T[5], S!Command("OFFS", c.OFFS))
  /\ T[7] = S!Say(T[6], S!Command("OUTP", "ON"))

LEMMA GeneratorTold ==
  ASSUME NEW c, kind \in S!Generators
  PROVE  GeneratorSteps(c, [i \in 0..7 |-> S!Told(S!Program(c), i)])
<1> DEFINE commands == S!Program(c)
           T == [i \in 0..7 |-> S!Told(commands, i)]
<1>1. Len(commands) = 7
  BY GeneratorProgram
<1>2. /\ S!Told(commands, 0) = [ok |-> TRUE, unit |-> box]
      /\ \A i \in 1..7 : S!Told(commands, i) = S!Say(S!Told(commands, i - 1), commands[i])
  <2>1. Len(commands) \in 0..7 /\ 1..Len(commands) = 1..7
    BY <1>1
  <2> HIDE DEF commands
  <2> QED
    BY <2>1, ToldSteps, Zenon
<1>3. T[0] = [ok |-> TRUE, unit |-> box] /\ \A i \in 1..7 : T[i] = S!Say(T[i - 1], commands[i])
  BY <1>2
<1> HIDE DEF T, commands
<1>4. \A i \in 1..7 : T[i] = S!Say(T[i - 1], commands[i])
  BY <1>3
<1>5. /\ T[1] = S!Say(T[0], commands[1]) /\ T[2] = S!Say(T[1], commands[2])
      /\ T[3] = S!Say(T[2], commands[3]) /\ T[4] = S!Say(T[3], commands[4])
      /\ T[5] = S!Say(T[4], commands[5]) /\ T[6] = S!Say(T[5], commands[6])
      /\ T[7] = S!Say(T[6], commands[7])
  BY <1>4
<1>6. GeneratorSteps(c, T)
  BY <1>3, <1>5, GeneratorProgram DEF GeneratorSteps, commands
<1> QED
  BY <1>6 DEF T, commands

\* The unit is a unit after each, and took what went before if it took this.
LEMMA GeneratorHeard ==
  ASSUME NEW c, NEW T, GeneratorSteps(c, T), Full(box)
  PROVE  /\ \A i \in 0..7 : Heard(T[i])
         /\ \A i \in 1..7 : Took(T[i]) => Took(T[i - 1])
<1> USE DEF GeneratorSteps
<1>0. Heard(T[0])
  BY DEF Heard
<1>1. Heard(T[1]) /\ (Took(T[1]) => Took(T[0]))
  BY <1>0, SaidHeard
<1>2. Heard(T[2]) /\ (Took(T[2]) => Took(T[1]))
  BY <1>1, SaidHeard
<1>3. Heard(T[3]) /\ (Took(T[3]) => Took(T[2]))
  BY <1>2, SaidHeard
<1>4. Heard(T[4]) /\ (Took(T[4]) => Took(T[3]))
  BY <1>3, SaidHeard
<1>5. Heard(T[5]) /\ (Took(T[5]) => Took(T[4]))
  BY <1>4, SaidHeard
<1>6. Heard(T[6]) /\ (Took(T[6]) => Took(T[5]))
  BY <1>5, SaidHeard
<1>7. Heard(T[7]) /\ (Took(T[7]) => Took(T[6]))
  BY <1>6, SaidHeard
<1> HIDE DEF GeneratorSteps
<1>8. \A i \in 0..7 : i \in {0, 1, 2, 3, 4, 5, 6, 7}
  OBVIOUS
<1> QED
  BY <1>0, <1>1, <1>2, <1>3, <1>4, <1>5, <1>6, <1>7, <1>8

\* What a generator took is what it plays, with the output on.
LEMMA GeneratorPlays ==
  ASSUME kind \in S!Generators, Nothing # "ON", Full(box),
         NEW c, NEW T, GeneratorSteps(c, T), Took(T[7])
  PROVE  /\ \A n \in {"LOAD", "FUNC", "FREQ", "SHAPE", "VOLT", "OFFS"} :
              c[n] # Nothing => T[7].unit[n] = c[n]
         /\ T[7].unit.on = TRUE
<1>1. /\ Heard(T[0]) /\ Heard(T[1]) /\ Heard(T[2]) /\ Heard(T[3]) /\ Heard(T[4]) /\ Heard(T[5]) /\ Heard(T[6])
      /\ Took(T[1]) /\ Took(T[2]) /\ Took(T[3]) /\ Took(T[4]) /\ Took(T[5]) /\ Took(T[6])
  BY GeneratorHeard
<1>2. kind # "supply"
  BY DEF S!Generators
<1> USE DEF GeneratorSteps, Sayable, Moves
<1>3. c.LOAD # Nothing => T[1].unit.LOAD = c.LOAD
  BY <1>1, SaidSets
<1>4. /\ T[2].unit.LOAD = T[1].unit.LOAD
      /\ c.FUNC # Nothing => T[2].unit.FUNC = c.FUNC
  BY <1>1, SaidSets
<1>5. /\ T[3].unit.LOAD = T[2].unit.LOAD /\ T[3].unit.FUNC = T[2].unit.FUNC
      /\ c.FREQ # Nothing => T[3].unit.FREQ = c.FREQ
  BY <1>1, SaidSets
<1>6. /\ T[4].unit.LOAD = T[3].unit.LOAD /\ T[4].unit.FUNC = T[3].unit.FUNC /\ T[4].unit.FREQ = T[3].unit.FREQ
      /\ c.SHAPE # Nothing => T[4].unit.SHAPE = c.SHAPE
  BY <1>1, SaidSets
<1>7. /\ T[5].unit.LOAD = T[4].unit.LOAD /\ T[5].unit.FUNC = T[4].unit.FUNC /\ T[5].unit.FREQ = T[4].unit.FREQ
      /\ T[5].unit.SHAPE = T[4].unit.SHAPE
      /\ c.VOLT # Nothing => T[5].unit.VOLT = c.VOLT
  BY <1>1, <1>2, SaidSets
<1>8. /\ T[6].unit.LOAD = T[5].unit.LOAD /\ T[6].unit.FUNC = T[5].unit.FUNC /\ T[6].unit.FREQ = T[5].unit.FREQ
      /\ T[6].unit.SHAPE = T[5].unit.SHAPE /\ T[6].unit.VOLT = T[5].unit.VOLT
      /\ c.OFFS # Nothing => T[6].unit.OFFS = c.OFFS
  BY <1>1, SaidSets
<1>9. (\A n \in Sayable : T[7].unit[n] = T[6].unit[n]) /\ T[7].unit.on = TRUE
  <2>1. Took(S!Say(T[6], S!Command("OUTP", "ON"))) /\ T[7] = S!Say(T[6], S!Command("OUTP", "ON"))
    OBVIOUS
  <2>2. /\ \A n \in Sayable : S!Say(T[6], S!Command("OUTP", "ON")).unit[n] = T[6].unit[n]
        /\ S!Say(T[6], S!Command("OUTP", "ON")).unit.on = TRUE
    BY <1>1, <1>2, <2>1, SaidOn
  <2> QED
    BY <2>1, <2>2
<1> HIDE DEF GeneratorSteps, Moves
<1> QED
  BY <1>3, <1>4, <1>5, <1>6, <1>7, <1>8, <1>9

\* What a builder lets a script say of a waveform.
LEMMA WithField ==
  ASSUME NEW base, AllNamed(base), NEW field \in S!Names, NEW values, NEW c \in S!With(base, field, values)
  PROVE  \E b \in base : c[field] \in values /\ DOMAIN c = S!Names /\ \A n \in S!Names \ {field} : c[n] = b[n]
BY DEF AllNamed, S!With

LEMMA WaveformSays ==
  ASSUME NEW c \in S!WaveformConfig
  PROVE  /\ c.FUNC \in Shapes
         /\ c.LOAD \in {"50", "INF", Nothing}
         /\ c.FREQ \in Hertz \cup {Nothing}
         /\ c.SHAPE \in {90, Nothing}
         /\ c.VOLT \in Volts \cup {Nothing}
         /\ c.OFFS \in Offsets \cup {Nothing}
         /\ c.FUNC = "dc" => c.FREQ = Nothing /\ c.VOLT = Nothing
         /\ c.CURR = Nothing /\ c.PROT = Nothing /\ c.RANGE = Nothing
<1>1. PICK shape \in Shapes :
        c \in S!With(S!With(S!With(S!With(S!With({[S!Unset EXCEPT !.FUNC = shape]},
                "LOAD", S!Opt({"50", "INF"})),
                "FREQ", S!Opt(IF S!Periodic(shape) THEN Hertz ELSE {})),
                "SHAPE", S!Opt(IF S!HasDutyCycle(shape) THEN {90} ELSE {})),
                "VOLT", S!Opt(IF S!Amplifiable(shape) THEN Volts ELSE {})),
                "OFFS", S!Opt(Offsets))
  BY DEF S!WaveformConfig
<1> DEFINE B0 == {[S!Unset EXCEPT !.FUNC = shape]}
           B1 == S!With(B0, "LOAD", S!Opt({"50", "INF"}))
           B2 == S!With(B1, "FREQ", S!Opt(IF S!Periodic(shape) THEN Hertz ELSE {}))
           B3 == S!With(B2, "SHAPE", S!Opt(IF S!HasDutyCycle(shape) THEN {90} ELSE {}))
           B4 == S!With(B3, "VOLT", S!Opt(IF S!Amplifiable(shape) THEN Volts ELSE {}))
           B5 == S!With(B4, "OFFS", S!Opt(Offsets))
<1>2. AllNamed(B0) /\ \A b \in B0 : b.FUNC = shape /\ b.CURR = Nothing /\ b.PROT = Nothing /\ b.RANGE = Nothing
  BY DEF AllNamed, S!Unset, S!Names
<1> HIDE DEF B0
<1>3. AllNamed(B1) /\ AllNamed(B2) /\ AllNamed(B3) /\ AllNamed(B4)
  BY <1>2, WithNamed
<1>4. {"LOAD", "FREQ", "SHAPE", "VOLT", "OFFS"} \subseteq S!Names
  BY DEF S!Names
<1>5. PICK b4 \in B4 : c.OFFS \in S!Opt(Offsets) /\ \A n \in S!Names \ {"OFFS"} : c[n] = b4[n]
  <2>1. c \in S!With(B4, "OFFS", S!Opt(Offsets))
    BY <1>1 DEF B0
  <2> HIDE DEF B4
  <2> QED
    BY <1>3, <1>4, <2>1, WithField
<1>6. PICK b3 \in B3 : /\ b4.VOLT \in S!Opt(IF S!Amplifiable(shape) THEN Volts ELSE {})
                       /\ \A n \in S!Names \ {"VOLT"} : b4[n] = b3[n]
  BY <1>3, <1>4, WithField
<1>7. PICK b2 \in B2 : /\ b3.SHAPE \in S!Opt(IF S!HasDutyCycle(shape) THEN {90} ELSE {})
                       /\ \A n \in S!Names \ {"SHAPE"} : b3[n] = b2[n]
  BY <1>3, <1>4, WithField
<1>8. PICK b1 \in B1 : /\ b2.FREQ \in S!Opt(IF S!Periodic(shape) THEN Hertz ELSE {})
                       /\ \A n \in S!Names \ {"FREQ"} : b2[n] = b1[n]
  BY <1>3, <1>4, WithField
<1>9. PICK b0 \in B0 : b1.LOAD \in S!Opt({"50", "INF"}) /\ \A n \in S!Names \ {"LOAD"} : b1[n] = b0[n]
  BY <1>2, <1>4, WithField
<1> HIDE DEF B1, B2, B3, B4
<1>10. c.OFFS \in S!Opt(Offsets) /\ c.VOLT = b4.VOLT /\ c.SHAPE = b3.SHAPE /\ c.FREQ = b2.FREQ /\ c.LOAD = b1.LOAD
       /\ c.FUNC = b0.FUNC /\ c.CURR = b0.CURR /\ c.PROT = b0.PROT /\ c.RANGE = b0.RANGE
  BY <1>5, <1>6, <1>7, <1>8, <1>9 DEF S!Names
<1>11. c.FUNC = shape /\ c.CURR = Nothing /\ c.PROT = Nothing /\ c.RANGE = Nothing
  BY <1>2, <1>10
<1> QED
  BY <1>5, <1>6, <1>7, <1>8, <1>9, <1>10, <1>11 DEF S!Opt, S!Amplifiable, S!Periodic, S!HasDutyCycle

\* A command the unit can obey as it stands is taken.
LEMMA SaidTaken ==
  ASSUME NEW s, Took(s), NEW name, NEW v, v # Nothing => Took(S!Obey(s.unit, name, v))
  PROVE  Took(S!Say(s, S!Command(name, v)))
BY DEF S!Say, S!Command, Took

LEMMA LowIs ==
  ASSUME NEW a \in Int, NEW b \in Int, ~(a > b)
  PROVE  S!Low(a, b) = a
BY DEF S!Low

\* Complete settings within the driver's limits are within the unit's, each when
\* it is said.
LEMMA GeneratorTakes ==
  ASSUME S!SourceConstants, kind \in S!Generators, Full(box),
         NEW c \in S!WaveformConfig, ~S!Refused(c), S!Complete(c),
         NEW T, GeneratorSteps(c, T)
  PROVE  Took(T[1]) /\ Took(T[2]) /\ Took(T[3]) /\ Took(T[4]) /\ Took(T[5]) /\ Took(T[6]) /\ Took(T[7])
<1>1. /\ Heard(T[0]) /\ Heard(T[1]) /\ Heard(T[2]) /\ Heard(T[3]) /\ Heard(T[4]) /\ Heard(T[5]) /\ Heard(T[6])
  BY GeneratorHeard
<1>2. /\ c.FUNC # Nothing /\ c.FREQ \in Nat \cup {Nothing} /\ c.SHAPE \in {90, Nothing}
      /\ c.VOLT \in Nat \cup {Nothing} /\ c.OFFS \in Int \cup {Nothing} /\ c.LOAD \in {"50", "INF", Nothing}
      /\ kind # "supply" /\ Nothing \notin Int
  <2>1. /\ c.FUNC \in Shapes /\ c.LOAD \in {"50", "INF", Nothing} /\ c.FREQ \in Hertz \cup {Nothing}
        /\ c.SHAPE \in {90, Nothing} /\ c.VOLT \in Volts \cup {Nothing} /\ c.OFFS \in Offsets \cup {Nothing}
    BY WaveformSays
  <2>2. kind # "supply"
    BY DEF S!Generators
  <2> QED
    BY <2>1, <2>2 DEF S!SourceConstants
<1>3. /\ c.LOAD # Nothing /\ c.OFFS # Nothing /\ c.SHAPE = Nothing
      /\ c.FUNC # "dc" => c.VOLT # Nothing
  BY <1>2 DEF S!Complete, S!Amplifiable
<1>4. ~S!BeyondModel(c, c.LOAD)
  BY <1>3 DEF S!Refused, S!Resolved, S!Kept
<1>5. /\ c.FREQ # Nothing => ~(c.FREQ > S!MaxHertz(c.FUNC))
      /\ c.VOLT # Nothing => ~(c.VOLT > S!MaxVolts(c.LOAD))
      /\ ~(c.OFFS > S!MaxPeak(c.LOAD))
      /\ c.VOLT # Nothing => ~(c.OFFS > S!Headroom(c.LOAD, c.VOLT))
  BY <1>3, <1>4 DEF S!BeyondModel
<1>6. /\ S!MaxHertz(c.FUNC) \in Int /\ S!MaxVolts(c.LOAD) \in Int /\ S!MaxPeak(c.LOAD) \in Int
      /\ c.VOLT # Nothing => S!Headroom(c.LOAD, c.VOLT) \in Int
  BY <1>2 DEF S!MaxHertz, S!MaxVolts, S!MaxPeak, S!Headroom
<1> USE DEF GeneratorSteps, Sayable, Moves
<1>7. Took(T[0])
  BY DEF Took
<1>8. Took(T[1]) /\ T[1].unit.LOAD = c.LOAD
  <2>1. Took(S!Obey(T[0].unit, "LOAD", c.LOAD))
    BY DEF S!Obey, Took
  <2>2. Took(T[1])
    BY <1>7, <2>1, SaidTaken
  <2> QED
    BY <1>1, <1>3, <2>2, SaidSets
<1>9. Took(T[2]) /\ T[2].unit.FUNC = c.FUNC /\ T[2].unit.LOAD = c.LOAD
  <2>1. Took(S!Obey(T[1].unit, "FUNC", c.FUNC))
    BY DEF S!Obey, Took
  <2>2. Took(T[2])
    BY <1>8, <2>1, SaidTaken
  <2> QED
    BY <1>1, <1>2, <1>8, <2>2, SaidSets
<1>10. Took(T[3]) /\ T[3].unit.FUNC = c.FUNC /\ T[3].unit.LOAD = c.LOAD
  <2>1. c.FREQ # Nothing => Took(S!Obey(T[2].unit, "FREQ", c.FREQ))
    <3>1. c.FREQ # Nothing => S!Low(c.FREQ, S!MaxHertz(T[2].unit.FUNC)) = c.FREQ
      BY <1>2, <1>5, <1>6, <1>9, LowIs
    <3> QED
      BY <3>1 DEF S!Obey, Took
  <2>2. Took(T[3])
    BY <1>9, <2>1, SaidTaken
  <2> QED
    BY <1>1, <1>9, <2>2, SaidSets
<1>11. Took(T[4]) /\ T[4].unit.FUNC = c.FUNC /\ T[4].unit.LOAD = c.LOAD
  <2>1. Took(T[4])
    BY <1>3, <1>10, SaidTaken
  <2> QED
    BY <1>1, <1>10, <2>1, SaidSets
<1>12. /\ Took(T[5]) /\ T[5].unit.FUNC = c.FUNC /\ T[5].unit.LOAD = c.LOAD
       /\ c.VOLT # Nothing => T[5].unit.VOLT = c.VOLT
  <2>1. c.VOLT # Nothing => Took(S!Obey(T[4].unit, "VOLT", c.VOLT))
    <3>1. c.VOLT # Nothing => S!Low(c.VOLT, S!MaxVolts(T[4].unit.LOAD)) = c.VOLT
      BY <1>2, <1>5, <1>6, <1>11, LowIs
    <3> QED
      BY <1>2, <3>1 DEF S!Obey, Took
  <2>2. Took(T[5])
    BY <1>11, <2>1, SaidTaken
  <2> QED
    BY <1>1, <1>2, <1>11, <2>2, SaidSets
<1>13. Took(T[6])
  <2>1. S!Low(c.OFFS, IF T[5].unit.FUNC = "dc" THEN S!MaxPeak(T[5].unit.LOAD)
                      ELSE S!Headroom(T[5].unit.LOAD, T[5].unit.VOLT)) = c.OFFS
    <3>1. CASE c.FUNC = "dc"
      BY <1>2, <1>3, <1>5, <1>6, <1>12, <3>1, LowIs
    <3>2. CASE c.FUNC # "dc"
      BY <1>2, <1>3, <1>5, <1>6, <1>12, <3>2, LowIs
    <3> QED
      BY <3>1, <3>2
  <2>2. Took(S!Obey(T[5].unit, "OFFS", c.OFFS))
    BY <2>1 DEF S!Obey, Took
  <2> QED
    BY <1>12, <2>2, SaidTaken
<1>14. Took(T[7])
  <2>1. Took(S!Obey(T[6].unit, "OUTP", "ON"))
    BY DEF S!Obey, Took
  <2> QED
    BY <1>13, <2>1, SaidTaken
<1> QED
  BY <1>8, <1>9, <1>10, <1>11, <1>12, <1>13, <1>14

----------------------------------------------------------------------------
(* A supply's program.                                                     *)

SupplySteps(c, T) ==
  /\ T[0] = [ok |-> TRUE, unit |-> box]
  /\ T[1] = S!Say(T[0], S!Command("CURR", c.CURR))
  /\ T[2] = S!Say(T[1], S!Command("PROT", c.PROT))
  /\ T[3] = S!Say(T[2], S!Command("VOLT", S!Level(c)))
  /\ T[4] = S!Say(T[3], S!Command("OUTP", "ON"))

LEMMA SupplyProgram ==
  ASSUME NEW c, DOMAIN c = S!Names, kind = "supply"
  PROVE  /\ Len(S!Program(c)) = 4
         /\ S!Program(c)[1] = S!Command("CURR", c.CURR)
         /\ S!Program(c)[2] = S!Command("PROT", c.PROT)
         /\ S!Program(c)[3] = S!Command("VOLT", S!Level(c))
         /\ S!Program(c)[4] = S!Command("OUTP", "ON")
<1> DEFINE order == <<"CURR", "PROT", "VOLT">>
           d == [c EXCEPT !.VOLT = S!Level(c)]
<1>1. DOMAIN order = 1..3 /\ Len(order) = 3
  OBVIOUS
<1>2. d.CURR = c.CURR /\ d.PROT = c.PROT /\ d.VOLT = S!Level(c)
  BY DEF S!Names
<1>3. S!Program(c) = S!Named(d, order)
  BY DEF S!Program, S!Generators
<1> HIDE DEF d
<1>4. S!Program(c) = [i \in 1..4 |-> IF i \in 1..3 THEN S!Command(order[i], d[order[i]])
                                      ELSE S!Command("OUTP", "ON")]
  BY <1>1, <1>3 DEF S!Named
<1> QED
  BY <1>2, <1>4

LEMMA SupplyTold ==
  ASSUME NEW c, DOMAIN c = S!Names, kind = "supply"
  PROVE  SupplySteps(c, [i \in 0..4 |-> S!Told(S!Program(c), i)])
<1> DEFINE commands == S!Program(c)
           T == [i \in 0..4 |-> S!Told(commands, i)]
<1>1. Len(commands) = 4
  BY SupplyProgram
<1>2. /\ S!Told(commands, 0) = [ok |-> TRUE, unit |-> box]
      /\ \A i \in 1..4 : S!Told(commands, i) = S!Say(S!Told(commands, i - 1), commands[i])
  <2>1. Len(commands) \in 0..7 /\ 1..Len(commands) = 1..4
    BY <1>1
  <2> HIDE DEF commands
  <2> QED
    BY <2>1, ToldSteps, Zenon
<1>3. T[0] = [ok |-> TRUE, unit |-> box] /\ \A i \in 1..4 : T[i] = S!Say(T[i - 1], commands[i])
  BY <1>2
<1> HIDE DEF T, commands
<1>4. /\ T[1] = S!Say(T[0], commands[1]) /\ T[2] = S!Say(T[1], commands[2])
      /\ T[3] = S!Say(T[2], commands[3]) /\ T[4] = S!Say(T[3], commands[4])
  BY <1>3
<1>5. SupplySteps(c, T)
  BY <1>3, <1>4, SupplyProgram DEF SupplySteps, commands
<1> QED
  BY <1>5 DEF T, commands

\* A supply obeys all it can be told.
LEMMA SupplyTakes ==
  ASSUME kind = "supply", NEW c, NEW T, SupplySteps(c, T), Full(box)
  PROVE  /\ Heard(T[0]) /\ Heard(T[1]) /\ Heard(T[2]) /\ Heard(T[3]) /\ Heard(T[4])
         /\ Took(T[0]) /\ Took(T[1]) /\ Took(T[2]) /\ Took(T[3]) /\ Took(T[4])
<1>1. \A u, v : /\ Took(S!Obey(u, "CURR", v)) /\ Took(S!Obey(u, "PROT", v))
                /\ Took(S!Obey(u, "VOLT", v)) /\ Took(S!Obey(u, "OUTP", v))
  BY DEF S!Obey, Took
<1> USE DEF SupplySteps
<1>2. Heard(T[0]) /\ Took(T[0])
  BY DEF Heard, Took
<1>3. Heard(T[1]) /\ Took(T[1])
  BY <1>1, <1>2, SaidHeard, SaidTaken
<1>4. Heard(T[2]) /\ Took(T[2])
  BY <1>1, <1>3, SaidHeard, SaidTaken
<1>5. Heard(T[3]) /\ Took(T[3])
  BY <1>1, <1>4, SaidHeard, SaidTaken
<1>6. Heard(T[4]) /\ Took(T[4])
  BY <1>1, <1>5, SaidHeard, SaidTaken
<1> HIDE DEF SupplySteps
<1> QED
  BY <1>2, <1>3, <1>4, <1>5, <1>6

\* It plays what it was told, or has tripped on a level above the trip level.
LEMMA SupplyPlays ==
  ASSUME kind = "supply", Nothing # "ON", Full(box), NEW c, NEW T, SupplySteps(c, T), S!Level(c) # Nothing
  PROVE  /\ c.CURR # Nothing => T[4].unit.CURR = c.CURR
         /\ c.PROT # Nothing => T[4].unit.PROT = c.PROT
         /\ T[4].unit.VOLT = S!Level(c)
         /\ T[4].unit.VOLT <= T[4].unit.PROT => T[4].unit.on = TRUE
<1>1. /\ Heard(T[0]) /\ Heard(T[1]) /\ Heard(T[2]) /\ Heard(T[3]) /\ Heard(T[4])
      /\ Took(T[0]) /\ Took(T[1]) /\ Took(T[2]) /\ Took(T[3]) /\ Took(T[4])
  BY SupplyTakes
<1> USE DEF SupplySteps, Sayable, Moves
<1>2. c.CURR # Nothing => T[1].unit.CURR = c.CURR
  BY <1>1, SaidSets
<1>3. T[2].unit.CURR = T[1].unit.CURR /\ (c.PROT # Nothing => T[2].unit.PROT = c.PROT)
  BY <1>1, SaidSets
<1>4. T[3].unit.CURR = T[2].unit.CURR /\ T[3].unit.PROT = T[2].unit.PROT /\ T[3].unit.VOLT = S!Level(c)
  BY <1>1, SaidSets
<1>5. /\ \A n \in Sayable : T[4].unit[n] = T[3].unit[n]
      /\ T[3].unit.VOLT <= T[3].unit.PROT => T[4].unit.on = TRUE
  <2>1. Took(S!Say(T[3], S!Command("OUTP", "ON"))) /\ T[4] = S!Say(T[3], S!Command("OUTP", "ON"))
    BY <1>1
  <2>2. /\ \A n \in Sayable : S!Say(T[3], S!Command("OUTP", "ON")).unit[n] = T[3].unit[n]
        /\ T[3].unit.VOLT <= T[3].unit.PROT => S!Say(T[3], S!Command("OUTP", "ON")).unit.on = TRUE
    BY <1>1, <2>1, SaidOn
  <2> QED
    BY <2>1, <2>2
<1> HIDE DEF SupplySteps, Moves
<1>6. T[4].unit.CURR = T[3].unit.CURR /\ T[4].unit.PROT = T[3].unit.PROT /\ T[4].unit.VOLT = T[3].unit.VOLT
  BY <1>5
<1> QED
  BY <1>2, <1>3, <1>4, <1>5, <1>6

----------------------------------------------------------------------------
(* An Apply, and what is played after it.                                  *)

\* What is said, of whatever is sent: all of it, or some, and it ends as the
\* unit took it.
LEMMA SentIs ==
  ASSUME NEW c, NEW commands, S!Sent(commands, c)
  PROVE  \E n \in 0..Len(commands) :
           /\ box' = S!Told(commands, n).unit
           /\ last'.config = c
           /\ last'.end = "refused" => ~Took(S!Told(commands, n))
           /\ last'.end = "ok" => Took(S!Told(commands, n)) /\ n = Len(commands)
<1>1. PICK n \in 0..Len(commands), whole \in BOOLEAN :
        /\ whole => n = Len(commands)
        /\ box' = S!Told(commands, n).unit
        /\ last' = [config |-> c,
                    end |-> IF ~S!Told(commands, n).ok THEN "refused" ELSE IF whole THEN "ok" ELSE "broken"]
  BY DEF S!Sent
<1>2. last'.config = c
  BY <1>1
<1>3. last'.end = "refused" => ~Took(S!Told(commands, n))
  BY <1>1 DEF Took
<1>4. ASSUME last'.end = "ok"
      PROVE  Took(S!Told(commands, n)) /\ n = Len(commands)
  BY <1>1, <1>4 DEF Took
<1> QED
  BY <1>1, <1>2, <1>3, <1>4

\* What a script or a snapshot may tell an output.
Askable(c) ==
  /\ DOMAIN c = S!Names
  /\ kind \in S!Generators => c \in S!WaveformConfig /\ ~S!Refused(c)
  /\ kind = "supply" =>
       /\ DcOnly(c) /\ S!Level(c) # Nothing
       /\ c.PROT # Nothing => c.PROT \in Nat /\ S!Level(c) \in Nat

\* Of a generator: what it played is what it was told.
LEMMA GeneratorSent ==
  ASSUME S!SourceConstants, kind \in S!Generators, Full(box), NEW c, Askable(c),
         S!Sent(S!Program(c), c), UNCHANGED <<kind, simulated>>
  PROVE  Full(box') /\ S!PlaysWhatWasAsked' /\ S!CompleteIsTaken'
<1> DEFINE T == [i \in 0..7 |-> S!Told(S!Program(c), i)]
<1>1. GeneratorSteps(c, T)
  BY GeneratorTold
<1>2. PICK n \in 0..7 :
        /\ box' = T[n].unit
        /\ last'.config = c
        /\ last'.end = "refused" => ~Took(T[n])
        /\ last'.end = "ok" => Took(T[n]) /\ n = 7
  <2>1. Len(S!Program(c)) = 7
    BY GeneratorProgram
  <2> QED
    BY <2>1, SentIs
<1> HIDE DEF T
<1>3. Full(box')
  BY <1>1, <1>2, GeneratorHeard DEF Heard
<1>4. S!PlaysWhatWasAsked'
  <2> SUFFICES ASSUME last'.end = "ok"
               PROVE  /\ \A m \in S!Names : c[m] # Nothing => box'[m] = c[m]
                      /\ box'.on = TRUE
    BY <1>2 DEF S!PlaysWhatWasAsked
  <2>1. /\ \A m \in {"LOAD", "FUNC", "FREQ", "SHAPE", "VOLT", "OFFS"} : c[m] # Nothing => T[7].unit[m] = c[m]
        /\ T[7].unit.on = TRUE
    <3>1. Nothing # "ON" /\ Took(T[7])
      BY <1>2 DEF S!SourceConstants
    <3> QED
      BY <1>1, <3>1, GeneratorPlays
  <2>2. c.CURR = Nothing /\ c.PROT = Nothing /\ c.RANGE = Nothing
    BY WaveformSays DEF Askable
  <2>3. box' = T[7].unit
    BY <1>2
  <2> QED
    BY <2>1, <2>2, <2>3 DEF S!Names
<1>5. S!CompleteIsTaken'
  <2> SUFFICES ASSUME last'.end = "refused", S!Complete(c)
               PROVE  FALSE
    BY <1>2 DEF S!CompleteIsTaken, S!Complete
  <2>1. Took(T[0])
    BY <1>1 DEF GeneratorSteps, Took
  <2>2. Took(T[1]) /\ Took(T[2]) /\ Took(T[3]) /\ Took(T[4]) /\ Took(T[5]) /\ Took(T[6]) /\ Took(T[7])
    BY <1>1, GeneratorTakes DEF Askable
  <2>3. n \in {0, 1, 2, 3, 4, 5, 6, 7}
    OBVIOUS
  <2> QED
    BY <1>2, <2>1, <2>2, <2>3
<1> QED
  BY <1>3, <1>4, <1>5

\* Of a supply.
LEMMA SupplySent ==
  ASSUME S!SourceConstants, kind = "supply", Full(box), NEW c, Askable(c),
         S!Sent(S!Program(c), c), UNCHANGED <<kind, simulated>>
  PROVE  Full(box') /\ S!PlaysWhatWasAsked' /\ S!CompleteIsTaken'
<1> DEFINE T == [i \in 0..4 |-> S!Told(S!Program(c), i)]
<1>0. DOMAIN c = S!Names
  BY DEF Askable
<1>1. SupplySteps(c, T)
  BY <1>0, SupplyTold
<1>2. PICK n \in 0..4 :
        /\ box' = T[n].unit
        /\ last'.config = c
        /\ last'.end = "refused" => ~Took(T[n])
        /\ last'.end = "ok" => Took(T[n]) /\ n = 4
  <2>1. Len(S!Program(c)) = 4
    BY <1>0, SupplyProgram
  <2> QED
    BY <2>1, SentIs
<1> HIDE DEF T
<1>3. n \in {0, 1, 2, 3, 4}
  OBVIOUS
<1>4. Full(box')
  BY <1>1, <1>2, <1>3, SupplyTakes DEF Heard
<1>5. S!PlaysWhatWasAsked'
  <2> SUFFICES ASSUME last'.end = "ok"
               PROVE  /\ \A m \in S!Names : c[m] # Nothing => box'[m] = c[m]
                      /\ box'.on = TRUE \/ c.PROT \in {Nothing} \cup 0..(box'.VOLT - 1)
    BY <1>2 DEF S!PlaysWhatWasAsked
  <2>1. box' = T[4].unit
    BY <1>2
  <2>2. /\ c.CURR # Nothing => box'.CURR = c.CURR
        /\ c.PROT # Nothing => box'.PROT = c.PROT
        /\ box'.VOLT = S!Level(c)
        /\ box'.VOLT <= box'.PROT => box'.on = TRUE
    BY <1>1, <2>1, SupplyPlays DEF Askable, S!SourceConstants
  <2>3. c.VOLT # Nothing => S!Level(c) = c.VOLT
    BY DEF S!Level
  <2>4. \A m \in S!Names : c[m] # Nothing => m \in {"CURR", "PROT", "VOLT"}
    BY DEF Askable, DcOnly
  <2>5. box'.on = TRUE \/ c.PROT \in {Nothing} \cup 0..(box'.VOLT - 1)
    BY <2>2 DEF Askable
  <2> QED
    BY <2>2, <2>3, <2>4, <2>5
<1>6. S!CompleteIsTaken'
  <2>1. Took(T[n])
    BY <1>1, <1>3, SupplyTakes
  <2> QED
    BY <1>2, <2>1 DEF S!CompleteIsTaken
<1> QED
  BY <1>4, <1>5, <1>6

\* An Apply past its check, whoever asks for it.
LEMMA ProgramsPlay ==
  ASSUME S!SourceConstants, PlayInv, NEW c, Askable(c), S!Programs(c), UNCHANGED <<kind, simulated>>
  PROVE  Full(box') /\ S!PlaysWhatWasAsked' /\ S!CompleteIsTaken'
<1>1. CASE simulated
  BY <1>1 DEF S!Programs, S!Unheard, S!NoApply, S!PlaysWhatWasAsked, S!CompleteIsTaken, PlayInv
<1>2. CASE ~simulated
  <2>1. S!Sent(S!Program(c), c) /\ Full(box)
    BY <1>2 DEF S!Programs, PlayInv
  <2>2. kind \in S!Generators \/ kind = "supply"
    BY <1>2 DEF PlayInv, S!SourceConstants, S!Generators
  <2> QED
    BY <2>1, <2>2, GeneratorSent, SupplySent
<1> QED
  BY <1>1, <1>2

LEMMA NoNumber ==
  ASSUME S!SourceConstants, NEW x \in Int
  PROVE  x # Nothing
BY DEF S!SourceConstants

LEMMA DcBut ==
  ASSUME NEW c, DOMAIN c = S!Names, DcOnly(c), NEW v
  PROVE  DcOnly([c EXCEPT !.VOLT = v]) /\ DcOnly([c EXCEPT !.PROT = v])
BY DEF DcOnly

LEMMA DcSays ==
  ASSUME NEW c \in S!DcConfig
  PROVE  /\ DcOnly(c) /\ c.VOLT \in Volts \cup {Nothing} /\ c.PROT \in Volts \cup {Nothing}
<1> DEFINE B0 == {S!Unset}
           B1 == S!With(B0, "VOLT", S!Opt(Volts))
           B2 == S!With(B1, "CURR", S!Opt(Amps))
<1>1. AllNamed(B0) /\ \A b \in B0 : \A n \in S!Names : b[n] = Nothing
  BY DEF AllNamed, S!Unset
<1> HIDE DEF B0
<1>2. AllNamed(B1) /\ AllNamed(B2)
  BY <1>1, WithNamed
<1>3. {"VOLT", "CURR", "PROT"} \subseteq S!Names
  BY DEF S!Names
<1>4. c \in S!With(B2, "PROT", S!Opt(Volts))
  BY DEF S!DcConfig, B0
<1> HIDE DEF B2
<1>5. PICK b2 \in B2 : c.PROT \in S!Opt(Volts) /\ \A n \in S!Names \ {"PROT"} : c[n] = b2[n]
  BY <1>2, <1>3, <1>4, WithField
<1> USE DEF B2
<1> HIDE DEF B1
<1>6. PICK b1 \in B1 : \A n \in S!Names \ {"CURR"} : b2[n] = b1[n]
  BY <1>2, <1>3, WithField
<1> USE DEF B1
<1>7. PICK b0 \in B0 : b1.VOLT \in S!Opt(Volts) /\ \A n \in S!Names \ {"VOLT"} : b1[n] = b0[n]
  BY <1>1, <1>3, WithField
<1> HIDE DEF B1, B2
<1>8. \A n \in S!Names \ {"VOLT", "CURR", "PROT"} : c[n] = Nothing
  BY <1>1, <1>5, <1>6, <1>7
<1>9. c.VOLT = b1.VOLT
  BY <1>3, <1>5, <1>6
<1> QED
  BY <1>5, <1>7, <1>8, <1>9 DEF DcOnly, S!Opt

\* What the driver remembers of a supply is a supply's.
LEMMA RememberedDc ==
  ASSUME kind = "supply", NEW c, DOMAIN c = S!Names, DcOnly(c)
  PROVE  DcOnly(S!Remembered(c))
<1>1. S!Remembered(c) = [c EXCEPT !.VOLT = S!Level(c)]
  BY DEF S!Remembered, S!Generators
<1> QED
  BY <1>1 DEF DcOnly

LEMMA PlayInit ==
  ASSUME S!SourceConstants, S!Init
  PROVE  PlayInv
<1>1. Full(box)
  BY DEF S!Init, S!Factory, Full, Sayable
<1>2. kind = "supply" => DcOnly(mSettings)
  <2> SUFFICES ASSUME kind = "supply"
               PROVE  DcOnly(mSettings)
    OBVIOUS
  <2>1. mSettings = [S!Unset EXCEPT !.VOLT = S!Zero]
    BY DEF S!Init, S!Believed
  <2> QED
    BY <2>1 DEF DcOnly, S!Unset
<1>3. S!PlaysWhatWasAsked /\ S!CompleteIsTaken
  BY DEF S!Init, S!NoApply, S!PlaysWhatWasAsked, S!CompleteIsTaken
<1>4. simulated \in BOOLEAN /\ (kind = "ac" => simulated = TRUE)
  BY DEF S!Init
<1> QED
  BY <1>1, <1>2, <1>3, <1>4 DEF S!Init, PlayInv

\* A session that is only told to be silent leaves a unit.
LEMMA ToldFull ==
  ASSUME Full(box), NEW commands, Len(commands) \in 0..3, NEW n \in 0..Len(commands)
  PROVE  Full(S!Told(commands, n).unit)
<1>1. /\ S!Told(commands, 0) = [ok |-> TRUE, unit |-> box]
      /\ \A i \in 1..Len(commands) :
           S!Told(commands, i) = S!Say(S!Told(commands, i - 1), commands[i])
  <2>1. Len(commands) \in 0..7
    OBVIOUS
  <2> QED
    BY <2>1, ToldSteps
<1>2. Heard(S!Told(commands, 0))
  <2>1. Heard([ok |-> TRUE, unit |-> box])
    BY DEF Heard
  <2> QED
    BY <1>1, <2>1
<1>3. Len(commands) >= 1 => Heard(S!Told(commands, 1))
  BY <1>1, <1>2, SaidHeard
<1>4. Len(commands) >= 2 => Heard(S!Told(commands, 2))
  BY <1>1, <1>3, SaidHeard
<1>5. Len(commands) >= 3 => Heard(S!Told(commands, 3))
  BY <1>1, <1>4, SaidHeard
<1>6. n \in {0, 1, 2, 3}
  <2>1. \A k \in 0..3 : \A i \in 0..k : i \in {0, 1, 2, 3}
    OBVIOUS
  <2> QED
    BY <2>1, Zenon
<1> QED
  BY <1>2, <1>3, <1>4, <1>5, <1>6 DEF Heard

LEMMA PlayStep ==
  ASSUME S!SourceConstants, SourceInv, PlayInv, S!Next
  PROVE  PlayInv'
<1> USE DEF S!Idle
<1>1. CASE S!Return
  BY <1>1 DEF S!Return, S!NoApply, PlayInv, S!PlaysWhatWasAsked, S!CompleteIsTaken
\* Between calls there is no Apply to speak of.
<1>2. ASSUME last = S!NoApply, UNCHANGED last
      PROVE  S!PlaysWhatWasAsked' /\ S!CompleteIsTaken'
  BY <1>2 DEF S!NoApply, S!PlaysWhatWasAsked, S!CompleteIsTaken
<1>3. CASE S!Apply
  <2>1. PICK c \in S!Config : ~S!Refused(c) /\ S!Programs(c)
    BY <1>3 DEF S!Apply
  <2>2. UNCHANGED <<kind, simulated, mHeld>>
    BY <1>3 DEF S!Apply
  <2>3. DOMAIN c = S!Names
    BY ConfigNamed DEF AllNamed
  <2>4. kind = "supply" => DcOnly(c) /\ c.VOLT \in Volts \cup {Nothing} /\ c.PROT \in Volts \cup {Nothing}
    BY DcSays DEF S!Config, S!Generators
  <2>5. kind = "supply" => S!Level(c) \in Nat /\ (c.PROT # Nothing => c.PROT \in Nat)
    BY <2>4 DEF S!Level, S!Zero, S!SourceConstants
  <2>6. kind = "supply" => S!Level(c) # Nothing
    BY <2>5, NoNumber
  <2>7. Askable(c)
    <3>1. kind \in S!Generators => c \in S!WaveformConfig
      BY DEF S!Config, S!Generators
    <3> QED
      BY <2>1, <2>3, <2>4, <2>5, <2>6, <3>1 DEF Askable
  <2>8. Full(box') /\ S!PlaysWhatWasAsked' /\ S!CompleteIsTaken'
    BY <2>1, <2>2, <2>7, ProgramsPlay
  <2>9. mSettings' = S!Remembered(c) /\ isOn' = TRUE
    BY <2>1 DEF S!Programs
  <2>10. kind = "supply" => DcOnly(mSettings')
    BY <2>3, <2>4, <2>9, RememberedDc
  <2> QED
    BY <2>2, <2>8, <2>9, <2>10 DEF PlayInv
<1>4. CASE S!RemoveOutput
  <2>1. UNCHANGED <<kind, simulated, mSettings, last, mHeld>> /\ last = S!NoApply
        /\ isOn' = FALSE /\ conductors' = {}
    BY <1>4 DEF S!RemoveOutput, S!ConductorsOff
  <2>2. Full(box')
    <3> DEFINE commands == <<S!Command("OUTP", "OFF")>>
    <3>1. Len(commands) = 1
      OBVIOUS
    <3>2. box' = box \/ \E n \in 0..1 : box' = S!Told(commands, n).unit
      BY <1>4 DEF S!RemoveOutput
    <3> HIDE DEF commands
    <3>3. Len(commands) \in 0..3 /\ 0..Len(commands) = 0..1
      BY <3>1
    <3> QED
      BY <3>2, <3>3, ToldFull DEF PlayInv
  <2> QED
    BY <1>2, <2>1, <2>2 DEF PlayInv
<1>5. CASE S!Safe
  <2>1. UNCHANGED <<kind, simulated, last, mHeld>> /\ last = S!NoApply
        /\ isOn' = FALSE /\ conductors' = {} /\ mSettings' = S!Forgotten
    BY <1>5 DEF S!Safe
  <2>2. Full(box')
    <3>1. Len(S!Safing) \in 0..3
      BY DEF S!Safing
    <3>2. box' = box \/ \E n \in 0..Len(S!Safing) : box' = S!Told(S!Safing, n).unit
      BY <1>5 DEF S!Safe
    <3> QED
      BY <3>1, <3>2, ToldFull DEF PlayInv
  <2>3. kind = "supply" => DcOnly(mSettings')
    <3> SUFFICES ASSUME kind = "supply"
                 PROVE  DcOnly(mSettings')
      OBVIOUS
    <3>1. mSettings' = [mSettings EXCEPT !.VOLT = S!Zero]
      BY <2>1 DEF S!Forgotten, S!Generators
    <3> QED
      BY <3>1, DcBut DEF PlayInv, SourceInv
  <2> QED
    BY <1>2, <2>1, <2>2, <2>3 DEF PlayInv
<1>6. CASE S!CloseSession \/ S!Connect \/ S!Disconnect
  <2>1. UNCHANGED <<kind, simulated, last, mHeld, isOn, conductors, mSettings, box>> /\ last = S!NoApply
    BY <1>6 DEF S!CloseSession, S!Connect, S!Disconnect, S!driverVars
  <2> QED
    BY <1>2, <2>1 DEF PlayInv
<1>7. CASE S!Capture
  <2>1. UNCHANGED <<kind, simulated, last, isOn, conductors, mSettings, box>> /\ last = S!NoApply
    BY <1>7 DEF S!Capture, S!driverVars
  <2>2. mHeld'.settings = [mSettings EXCEPT !.PROT = Nothing]
    BY <1>7 DEF S!Capture, S!Snapshot
  <2>3. kind = "supply" => DcOnly(mHeld'.settings)
    <3>1. kind = "supply" => DcOnly(mSettings)
      BY DEF PlayInv
    <3>2. kind = "supply" => DcOnly([mSettings EXCEPT !.PROT = Nothing])
      BY <3>1, DcBut DEF SourceInv
    <3> QED
      BY <2>2, <3>2
  <2> QED
    BY <1>2, <2>1, <2>3 DEF PlayInv
<1>8. CASE S!Restore
  <2> DEFINE c == mHeld.settings
  <2>1. mHeld # Nothing /\ S!Programs(c) /\ UNCHANGED <<kind, simulated, mHeld>>
    BY <1>8 DEF S!Restore
  <2>2. /\ kind \in {"supply", "ac"} /\ DOMAIN mHeld.noted = S!Names
        /\ c = [mHeld.noted EXCEPT !.PROT = Nothing]
    BY <2>1 DEF SourceInv
  <2>3. DOMAIN c = S!Names /\ c.PROT = Nothing
    BY <2>2 DEF S!Names
  <2>4. kind = "supply" => DcOnly(c)
    BY <2>1 DEF PlayInv
  <2>5. kind = "supply" => S!Level(c) # Nothing
    <3>1. kind = "supply" =>
            (S!Level(c) = c.VOLT /\ c.VOLT # Nothing) \/ S!Level(c) = 0
      BY DEF S!Level, S!Zero
    <3> QED
      BY <3>1, NoNumber
  <2>6. Askable(c)
    BY <2>2, <2>3, <2>4, <2>5 DEF Askable, S!Generators
  <2> HIDE DEF c
  <2>7. Full(box') /\ S!PlaysWhatWasAsked' /\ S!CompleteIsTaken'
    BY <2>1, <2>6, ProgramsPlay
  <2>8. mSettings' = S!Remembered(c) /\ isOn' = TRUE
    BY <2>1 DEF S!Programs
  <2>9. kind = "supply" => DcOnly(mSettings')
    BY <2>3, <2>4, <2>8, RememberedDc
  <2> QED
    BY <2>1, <2>7, <2>8, <2>9 DEF PlayInv
<1> QED
  BY <1>1, <1>3, <1>4, <1>5, <1>6, <1>7, <1>8 DEF S!Next

\* An output that is off reads zero.
LEMMA PlayIsAsAsked ==
  ASSUME PlayInv
  PROVE  S!PlaysWhatWasAsked /\ S!CompleteIsTaken /\ S!ColdReadsZero
BY DEF PlayInv, S!ColdReadsZero, S!Readings

----------------------------------------------------------------------------
(* One of them in every behaviour.                                         *)

Of(instrument, Inv) == which = instrument => Inv

LEMMA KeysightAlways == Spec => []Of("keysight", KeysightInv)
<1>1. Init => Of("keysight", KeysightInv)
  BY KeysightInit DEF Init, Of
<1>2. Of("keysight", KeysightInv) /\ [Next]_vars => Of("keysight", KeysightInv)'
  <2> SUFFICES ASSUME Of("keysight", KeysightInv), [Next]_vars, which' = "keysight"
               PROVE  KeysightInv'
    BY DEF Of
  <2>1. CASE Next
    BY <2>1, KeysightStep DEF Next, Of
  <2>2. CASE UNCHANGED vars
    BY <2>2 DEF vars, keysightVars, Of, KeysightInv
  <2> QED
    BY <2>1, <2>2
<1> QED
  BY <1>1, <1>2, PTL DEF Spec

LEMMA SourceAlways == Spec => []Of("source", SourceInv)
<1>1. Init => Of("source", SourceInv)
  BY SourceInit DEF Init, Of
<1>2. Of("source", SourceInv) /\ [Next]_vars => Of("source", SourceInv)'
  <2> SUFFICES ASSUME Of("source", SourceInv), [Next]_vars, which' = "source"
               PROVE  SourceInv'
    BY DEF Of
  <2>1. CASE Next
    BY <2>1, SourceStep DEF Next, Of
  <2>2. CASE UNCHANGED vars
    BY <2>2 DEF vars, sourceVars, Of, SourceInv, S!RestoredAsFound
  <2> QED
    BY <2>1, <2>2
<1> QED
  BY <1>1, <1>2, PTL DEF Spec

LEMMA PlayAlways == Spec => []Of("source", PlayInv)
<1>1. Init => Of("source", PlayInv)
  BY PlayInit, InstrumentsAssumption DEF Init, Of
<1>2. Of("source", SourceInv) /\ Of("source", PlayInv) /\ [Next]_vars => Of("source", PlayInv)'
  <2> SUFFICES ASSUME Of("source", SourceInv), Of("source", PlayInv), [Next]_vars, which' = "source"
               PROVE  PlayInv'
    BY DEF Of
  <2>1. CASE Next
    <3>1. which = "source" /\ S!Next
      BY <2>1 DEF Next
    <3> QED
      BY <3>1, PlayStep, InstrumentsAssumption DEF Of
  <2>2. CASE UNCHANGED vars
    <3>1. UNCHANGED <<which, simulated, kind, mSettings, isOn, conductors, box, last, mHeld>>
      BY <2>2 DEF vars, sourceVars
    <3>2. PlayInv
      BY <3>1 DEF Of
    <3>3. S!PlaysWhatWasAsked' /\ S!CompleteIsTaken'
      BY <3>1, <3>2 DEF PlayInv, S!PlaysWhatWasAsked, S!CompleteIsTaken, S!Complete
    <3> QED
      BY <3>1, <3>2, <3>3 DEF PlayInv
  <2> QED
    BY <2>1, <2>2
<1> QED
  BY <1>1, <1>2, SourceAlways, PTL DEF Spec

LEMMA PicoAlways == Spec => []Of("pico", PicoInv)
<1>1. Init => Of("pico", PicoInv)
  BY PicoInit DEF Init, Of
<1>2. Of("pico", PicoInv) /\ [Next]_vars => Of("pico", PicoInv)'
  <2> SUFFICES ASSUME Of("pico", PicoInv), [Next]_vars, which' = "pico"
               PROVE  PicoInv'
    BY DEF Of
  <2>1. CASE Next
    BY <2>1, PicoStep DEF Next, Of
  <2>2. CASE UNCHANGED vars
    <3>1. UNCHANGED <<which, simulated, scope, unit, mEnabled, unsilenced, touched>>
      BY <2>2 DEF vars, picoVars
    <3> QED
      BY <3>1 DEF Of, PicoInv
  <2> QED
    BY <2>1, <2>2
<1> QED
  BY <1>1, <1>2, PTL DEF Spec

----------------------------------------------------------------------------
(* What was to be shown.                                                   *)

\* CapturesAreTheirs, of the DSOX1202G (acquire.hpp): what is read after an Await
\* that said yes is the acquisition its own Arm started, and no Arm is left to take a
\* later stimulus, whatever fails between the exchanges and whenever the events come.
THEOREM CapturesAreOfTheirArm == Spec => []CapturesAreTheirs
<1>1. Of("keysight", KeysightInv) => CapturesAreTheirs
  BY DEF Of, KeysightInv, CapturesAreTheirs, YesIsThisCapture, NothingLeftArmed
<1> QED
  BY <1>1, KeysightAlways, PTL

\* RestoredAsFound (snapshot.hpp): a source whose snapshot was put back has every
\* setting the snapshot found, however the script left it, but for the trip level.
THEOREM SnapshotsPutBack == Spec => []RestoredAsFound
<1>1. Of("source", SourceInv) => RestoredAsFound
  BY DEF Of, SourceInv, RestoredAsFound
<1> QED
  BY <1>1, SourceAlways, PTL

\* AsAsked (program, flatten, removeOutput of the source drivers): an Apply that
\* returned is played, every setting it named, whatever the unit was set to before;
\* one that names all and passes the check is never refused by the unit; and a source
\* that is off reads zero.
THEOREM SourcesDoAsAsked == Spec => []AsAsked
<1>1. Of("source", PlayInv) => AsAsked
  BY PlayIsAsAsked DEF Of, AsAsked
<1> QED
  BY <1>1, PlayAlways, PTL

\* What a PicoScope would hand out is at the range it was taken at.
LEMMA ReadingScaled ==
  ASSUME PicoInv, ~(touched /\ scope.held # Nothing), NEW r \in P!Readings, NEW c \in Channels \ scope.torn
  PROVE  /\ r.scale[c] = r.shot.taken[c]
         /\ scope.current /\ unit.open => r.scale[c] = scope.applied[c]
<1>1. CASE r = scope.held /\ r # Nothing
  BY <1>1 DEF PicoInv, Undisturbed, Unattached, Scaled
<1>2. CASE r # scope.held \/ r = Nothing
  <2>1. PICK o :
          /\ o \in P!FreshCaptures /\ o.ok = TRUE
          /\ r = P!RecordOf(o.s, o.u, P!Enabled(o.s))
    <3>1. PICK o \in {p \in P!FreshCaptures : p.ok} : r = P!RecordOf(o.s, o.u, P!Enabled(o.s))
      BY <1>2 DEF P!Readings
    <3> QED
      BY <3>1
  <2>2. /\ scope.held = Nothing /\ ~simulated
        /\ o \in P!Then(P!Session(scope, unit), LAMBDA s, u : P!BeginCapture(s, u, FALSE))
    BY <2>1, Zenon DEF P!FreshCaptures
  <2>3. Ready(scope, unit)
    BY <2>2 DEF PicoInv, Attached, Ready, Known, Face
  <2>4. PICK p : p \in P!Session(scope, unit) /\ p.ok = TRUE /\ Going(scope, unit, p) /\ Begun(p.s, p.u, FALSE, o)
    BY <2>1, <2>2, <2>3, CaptureBegun, Zenon
  <2>5. /\ o.s \in Face /\ o.u \in Box /\ o.u.block \in P!Block
        /\ o.s.applied = p.s.applied /\ o.s.torn = p.s.torn /\ o.s.torn \subseteq scope.torn
        /\ o.u.block.shot.taken = [d \in Channels |-> InUnit(o.u, d)]
        /\ Noted(o.s, o.u)
    BY <2>1, <2>4 DEF Begun, Going, Ready, Known, Steady
  <2>6. r.shot = o.u.block.shot /\ r.scale = o.s.applied
    BY <2>1, <2>5, RecordScaled
  <2>7. r.scale[c] = r.shot.taken[c]
    BY <2>5, <2>6 DEF Noted
  <2>8. ASSUME scope.current, unit.open
        PROVE  r.scale[c] = scope.applied[c]
    <3>1. unit.open = TRUE /\ scope.current = TRUE
      BY <2>3, <2>8 DEF Ready, Known, Face, Box
    <3>2. p = P!Returns(scope, unit)
      BY <2>3, <2>4, <3>1, SessionKept
    <3>3. p.s = scope
      BY <3>2 DEF P!Returns
    <3> QED
      BY <2>5, <2>6, <3>3
  <2> QED
    BY <2>7, <2>8
<1> QED
  BY <1>1, <1>2

\* BeliefsHold (the PicoScope's two faces on one unit): what is handed out was
\* scaled with the range it was taken at, what is believed to be applied is in the
\* unit, and an output that is said to be off is off, through every refused call and
\* whichever face opens and closes the unit; only the record of an Arm that was not
\* left alone until its Await may be at another range than it was taken at.
THEOREM BeliefsAreTrue == Spec => []BeliefsHold
<1>1. Of("pico", PicoInv) => BeliefsHold
  <2> SUFFICES ASSUME which = "pico", PicoInv
               PROVE  BeliefsHold
    BY DEF Of, BeliefsHold, RecordAtItsRange, AppliedIsSet, QuietMeansOff
  <2>1. RecordAtItsRange
    BY ReadingScaled DEF RecordAtItsRange
  <2>2. AppliedIsSet
    <3>1. Known(scope, unit)
      BY DEF PicoInv, Attached, Unattached
    <3> QED
      BY <3>1 DEF Known, Noted, InUnit, AppliedIsSet, Face, Box
  <2>3. QuietMeansOff
    BY DEF PicoInv, QuietMeansOff, Attached, Unattached, Known, Box
  <2> QED
    BY <2>1, <2>2, <2>3 DEF BeliefsHold
<1> QED
  BY <1>1, PicoAlways, PTL

----------------------------------------------------------------------------
(* The promise of Arm and Await.                                           *)

ContractStep == [Contract!Next]_<<
  ~simulated /\ which # "source" /\ (IF which = "pico" THEN scope.armed /\ ~touched
                                     ELSE mArmed \/ at \in {"armed?", "await", "giveUp"}),
  ~simulated /\ which # "source" /\ (IF which = "keysight" THEN record = "this"
                                     ELSE \/ unit.block # Nothing /\ unit.block.shot.armed /\ unit.block.done
                                          \/ scope.held # Nothing /\ scope.held.shot.armed),
  ~simulated /\ which # "source" /\ (IF which = "pico" THEN scope.completed /\ ~touched ELSE yes)>>

LEMMA KeysightAnswers ==
  ASSUME which = "keysight", which' = "keysight", KeysightInv, simulated = FALSE, K!Next
  PROVE  ContractStep
<1> USE DEF KeysightInv, K!face, K!instrument, ContractStep, Contract!Next,
            Contract!Arm, Contract!Catch, Contract!Await, Contract!Drop
<1>1. CASE K!Ready
  BY <1>1 DEF K!Ready
<1>2. CASE K!Trigger
  BY <1>2 DEF K!Trigger
<1>3. CASE K!FreeRun
  BY <1>3 DEF K!FreeRun
<1>4. CASE K!TimePasses
  BY <1>4 DEF K!TimePasses
<1>5. CASE K!Arm
  BY <1>5 DEF K!Arm
<1>6. CASE K!SendStop
  BY <1>6 DEF K!SendStop, K!Stopped
<1>7. CASE K!SendSingle
  BY <1>7 DEF K!SendSingle
<1>8. CASE K!AskArmed
  BY <1>8 DEF K!AskArmed, K!ArmedWhenReady
<1>9. CASE K!Await
  BY <1>9 DEF K!Await
<1>10. CASE K!AskRunning
  BY <1>10 DEF K!AskRunning, K!Complete
<1>11. CASE K!GiveUp
  BY <1>11 DEF K!GiveUp, K!Abandon, K!Stopped
<1>12. CASE K!Fail
  BY <1>12 DEF K!Fail
<1>13. CASE K!Safe
  BY <1>13 DEF K!Safe, K!SafeClears, K!Stopped
<1>14. CASE K!Setup
  BY <1>14 DEF K!Setup
<1>15. CASE K!SendSettings
  BY <1>15 DEF K!SendSettings
<1>16. CASE K!SetupTrigger
  BY <1>16 DEF K!SetupTrigger
<1>17. CASE K!SendRun
  BY <1>17 DEF K!SendRun
<1>18. CASE K!Read
  BY <1>18 DEF K!Read
<1> QED
  BY <1>1, <1>2, <1>3, <1>4, <1>5, <1>6, <1>7, <1>8, <1>9, <1>10, <1>11, <1>12, <1>13,
     <1>14, <1>15, <1>16, <1>17, <1>18
     DEF K!Next

LEMMA PicoAnswers ==
  ASSUME which = "pico", which' = "pico", simulated = FALSE, simulated' = FALSE,
         touched \in BOOLEAN, touched' \in BOOLEAN,
         Attached(scope, unit), Goes(scope, unit, touched, scope', unit', touched')
  PROVE  ContractStep
<1> DEFINE caught == \/ unit.block # Nothing /\ unit.block.shot.armed /\ unit.block.done
                     \/ scope.held # Nothing /\ scope.held.shot.armed
<1>1. /\ scope.armed \in BOOLEAN /\ scope.completed \in BOOLEAN
      /\ scope.held # Nothing => scope.held.shot.armed \in BOOLEAN
      /\ unit.block # Nothing => unit.block.shot.armed \in BOOLEAN /\ unit.block.done \in BOOLEAN
  BY DEF Attached, Known, Face, Box, P!Block, P!Record, P!Shot
<1>2. /\ scope'.armed \in BOOLEAN /\ scope'.completed \in BOOLEAN
      /\ scope'.held # Nothing => scope'.held.shot.armed \in BOOLEAN
      /\ unit'.block # Nothing => unit'.block.shot.armed \in BOOLEAN /\ unit'.block.done \in BOOLEAN
  BY DEF Goes, Attached, Known, Face, Box, P!Block, P!Record, P!Shot
<1>3. caught <=> Caught(scope, unit)
  BY <1>1 DEF Caught
<1>4. caught' <=> Caught(scope', unit')
  BY <1>2 DEF Caught
<1>5. touched = TRUE /\ touched' = FALSE => scope'.completed = FALSE /\ (scope'.armed = FALSE \/ ~caught')
  BY <1>4 DEF Goes
<1>6. touched = FALSE /\ touched' = TRUE => (caught' => caught)
  BY <1>3, <1>4 DEF Goes
<1> USE DEF ContractStep, Contract!Next, Contract!Arm, Contract!Catch, Contract!Await, Contract!Drop
<1>7. CASE touched = TRUE
  BY <1>1, <1>2, <1>5, <1>7
<1>8. CASE touched = FALSE /\ touched' = TRUE
  BY <1>1, <1>2, <1>6, <1>8
<1>9. CASE touched = FALSE /\ touched' = FALSE
  <2>1. Answers(scope, unit, scope', unit')
    BY <1>9 DEF Goes
  <2>2. CASE scope'.armed = TRUE /\ ~caught' /\ scope'.completed = FALSE
    BY <1>9, <2>2
  <2>3. CASE caught' /\ scope'.armed = scope.armed /\ scope'.completed = scope.completed
    BY <1>9, <2>3
  <2>4. CASE /\ scope.armed = TRUE /\ scope'.armed = FALSE
             /\ scope'.completed = FALSE \/ caught
             /\ caught' <=> caught
    BY <1>1, <1>2, <1>9, <2>4
  <2>5. CASE /\ scope'.armed = FALSE \/ scope'.armed = scope.armed
             /\ caught' => caught
             /\ scope'.completed = FALSE
    BY <1>1, <1>2, <1>9, <2>5
  <2>6. CASE scope'.armed = scope.armed /\ scope'.completed = scope.completed /\ (caught' <=> caught)
    BY <1>9, <2>6
  <2> QED
    BY <1>3, <1>4, <2>1, <2>2, <2>3, <2>4, <2>5, <2>6 DEF Answers
<1> QED
  BY <1>7, <1>8, <1>9

\* AnswersItsArm (acquire.hpp), of both scopes: a yes is said once for each Arm, and
\* only of an acquisition that this Arm started and that is complete; with a PicoScope,
\* unless it was touched in between.
THEOREM PromiseKept == Spec => AnswersItsArm
<1>1. Init => Contract!Init
  BY DEF Init, NoKeysight, K!Init, P!Init, Contract!Init
<1>2. Of("keysight", KeysightInv) /\ Of("pico", PicoInv) /\ [Next]_vars => ContractStep
  <2> SUFFICES ASSUME Of("keysight", KeysightInv), Of("pico", PicoInv), [Next]_vars
               PROVE  ContractStep
    OBVIOUS
  <2>1. CASE which = "keysight" /\ K!Next /\ which' = which /\ simulated = FALSE
    BY <2>1, KeysightAnswers DEF Of
  <2>2. CASE which = "pico" /\ P!Next /\ which' = which /\ simulated = FALSE
    <3>1. simulated' = simulated
      BY <2>2 DEF P!Next, P!SetupChannel, P!SetupTrigger, P!SetupTimebase, P!SetupAcquisition, P!Arm, P!Event,
         P!Await, P!Read, P!Safe, P!CloseSession, P!Apply, P!Remove, P!SafeGenerator, P!CloseGenerator
    <3>2. PicoInv
      BY <2>2 DEF Of
    <3> QED
      BY <2>2, <3>1, <3>2, AttachedStep, PicoStep, PicoAnswers DEF PicoInv
  <2>3. CASE which = "source" /\ which' = which
    BY <2>3 DEF ContractStep
  <2>4. CASE UNCHANGED vars
    BY <2>4 DEF ContractStep, vars, keysightVars, picoVars
  <2>5. CASE simulated = TRUE /\ simulated' = TRUE
    BY <2>5 DEF ContractStep
  <2>6. CASE Next /\ simulated = TRUE
    <3>1. simulated' = simulated
      <4>1. K!Next => simulated' = simulated
        BY DEF K!Next, K!Ready, K!Trigger, K!FreeRun, K!TimePasses, K!Arm, K!SendStop, K!SendSingle, K!AskArmed,
               K!Await, K!AskRunning, K!GiveUp, K!Fail, K!Safe, K!Setup, K!SendSettings, K!SetupTrigger,
               K!SendRun, K!Read, K!face
      <4>2. P!Next => simulated' = simulated
        BY DEF P!Next, P!SetupChannel, P!SetupTrigger, P!SetupTimebase, P!SetupAcquisition, P!Arm, P!Event,
           P!Await, P!Read, P!Safe, P!CloseSession, P!Apply, P!Remove, P!SafeGenerator, P!CloseGenerator
      <4>3. S!Next => simulated' = simulated
        BY DEF S!Next, S!Return, S!Apply, S!RemoveOutput, S!Safe, S!CloseSession, S!Connect, S!Disconnect,
               S!Capture, S!Restore
      <4> QED
        BY <2>6, <4>1, <4>2, <4>3 DEF Next
    <3> QED
      BY <2>5, <2>6, <3>1
  <2>7. CASE Next /\ simulated # TRUE
    <3>1. which \in {"keysight", "pico"} => simulated = FALSE
      BY <2>7 DEF Of, KeysightInv, PicoInv
    <3> QED
      BY <2>1, <2>2, <2>3, <2>7, <3>1 DEF Next
  <2> QED
    BY <2>4, <2>6, <2>7
<1> QED
  BY <1>1, <1>2, KeysightAlways, PicoAlways, PTL
     DEF Spec, AnswersItsArm, Contract!Spec, Contract!acquireVars, ContractStep
=============================================================================
