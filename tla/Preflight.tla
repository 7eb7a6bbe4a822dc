------------------------------ MODULE Preflight ------------------------------
(***************************************************************************)
(* Which units a run talks to.  The rig's table says of every face (a row  *)
(* of instrument.inc) which box it is a face of and where that box is; the *)
(* command line, the environment, the site table and a pool may move the   *)
(* box.  bindAddresses() decides without touching anything,                *)
(* contactInstruments() asks every reachable face who it is, acquires what *)
(* is pooled and checks the cards, and the runner then runs; another       *)
(* process may be started with --safe after a run has died.                *)
(*                                                                         *)
(* A unit is what answers at an address; which one does is settled once,   *)
(* whether it answers is open at every call.                               *)
(***************************************************************************)
EXTENDS Naturals, Sequences, SequencesExt

CONSTANTS Faces,        \* the rows of instrument.inc, in table order
          BoxOf,        \* the box each face belongs to
          TableAddress, \* the address column
          Panel,        \* the kinds of address each driver's back panel has
          Contactable,  \* the faces whose driver has identity() and closeSession()
          Identifying,  \* the faces whose driver has cardModel()
          Carded,       \* the boxes with rows in devices.inc
          Wired,        \* the faces a wiring table names
          Pool,         \* the candidates of each box
          Sites,        \* the sites the deployment declares
          SiteAddress,  \* the boxes each site names, with their addresses
          KindOf,       \* the kind of each address
          Simulated,    \* the address of what is not there
          Flags,        \* the values of --address tried, <<name, address>>
          Exports,      \* the values of THORIUM_ADDRESS_<name> tried
          Units, SerialOf, Racked, \* the units, their serials, and those whose cards are the table's
          Nobody, NoSerial, Unknown

Rows == 1..Len(Faces)
Boxes == {BoxOf[Faces[i]] : i \in Rows}
FaceSet == ToSet(Faces)
Addresses == DOMAIN KindOf

(* boxConflict: one box has one address, but for a face that is not there,  *)
(* and one address is one box's.                                            *)
BoxConflict == \E f, g \in FaceSet :
    /\ TableAddress[f] # Simulated /\ TableAddress[g] # Simulated
    /\ (BoxOf[f] = BoxOf[g]) # (TableAddress[f] = TableAddress[g])

(* firstWiredPool: a face a wire leads to is not interchangeable.           *)
FirstWiredPool == \E f \in Wired : Pool[BoxOf[f]] # <<>>

ASSUME TablesBuild == ~BoxConflict /\ ~FirstWiredPool

VARIABLES
    asked,     \* the site the caller named, and whether the run is attached
    plan,      \* AddressPlan: overrides in their order, and the simulated faces
    binding,   \* Binding, of each face
    address,   \* the address each driver opens
    session,   \* the unit each driver has a session with
    claimed,   \* the serials taken, with the box that took each
    contacted, \* the boxes an earlier face has reached, with what it found
    phase, row, candidate, \* where the runner is
    world,     \* the unit at each address
    energised, \* the outputs the run has switched on: <<face, unit>>
    told       \* the outputs a safing has told to go off

vars == <<asked, plan, binding, address, session, claimed, contacted, phase, row, candidate, world, energised, told>>
contactVars == <<binding, address, session, claimed, contacted>>

Unbound == [value |-> Unknown, source |-> "Table", identity |-> Nobody, position |-> 0]

TypeOK ==
    /\ asked \in [site : Sites \cup {Unknown, "elsewhere"}, attached : BOOLEAN]
    /\ plan.overrides \in Seq(Flags \cup Exports) /\ plan.simulated \subseteq FaceSet
    /\ binding \in [FaceSet -> [value : Addresses \cup {Unknown}, source : {"Table", "Override", "Site", "Pool"},
                                identity : Units \cup {Nobody}, position : Nat]]
    /\ address \in [FaceSet -> Addresses]
    /\ session \in [FaceSet -> Units \cup {Nobody}]
    /\ claimed \subseteq [serial : {SerialOf[u] : u \in Units}, box : Boxes]
    /\ \A c \in contacted : c.box \in Boxes /\ c.value \in Addresses
    /\ phase \in {"plan", "bind", "contact", "ready", "ended", "dead", "safed", "failed"}
    /\ row \in 1..(Len(Faces) + 1) /\ candidate \in Nat
    /\ world \in [Addresses \ {Simulated} -> Units \cup {Nobody}]
    /\ energised \subseteq FaceSet \X Units /\ told \subseteq FaceSet \X Units

Init ==
    /\ asked \in [site : {Unknown} \cup Sites \cup {"elsewhere"}, attached : BOOLEAN]
    /\ world = [a \in Addresses \ {Simulated} |-> Nobody]
    /\ plan = [overrides |-> <<>>, simulated |-> {}]
    /\ binding = [f \in FaceSet |-> Unbound]
    /\ address = TableAddress
    /\ session = [f \in FaceSet |-> Nobody]
    /\ claimed = {} /\ contacted = {}
    /\ phase = "plan" /\ row = 1 /\ candidate = 1
    /\ energised = {} /\ told = {}

-----------------------------------------------------------------------------
(* The plan: main() reads the flags, then the environment.                  *)

(* parseFaceSimulation: ROW=sim, of a row whose name is not a box's.        *)
ParseFaceSimulation(text) == text[1] \notin Boxes /\ text[1] \in FaceSet /\ text[2] = Simulated

(* parseOverride: anything else has to name a box.                          *)
ParseOverride(text) == text[1] \in Boxes

(* environmentOverrides refuses an export that names an instrument; one that *)
(* names nothing of this rig is not looked for.                             *)
ExportRefused(text) == text[1] \in FaceSet \ Boxes

(* Flags of faces, and exports of nothing here, stay in the list: no box is  *)
(* looked for under such a name.                                            *)
ReadPlan ==
    /\ phase = "plan"
    /\ \E flags \in SeqOf(Flags, 2), exports \in SeqOf(Exports, 1) :
        LET refused == \/ \E t \in ToSet(flags) : ~ParseFaceSimulation(t) /\ ~ParseOverride(t)
                       \/ \E t \in ToSet(exports) : ExportRefused(t)
        IN  /\ phase' = IF refused THEN "failed" ELSE "bind"
            /\ plan' = IF refused THEN plan
                       ELSE [overrides |-> flags \o exports,
                             simulated |-> {t[1] : t \in {u \in ToSet(flags) : ParseFaceSimulation(u)}}]
    /\ UNCHANGED <<asked, row, candidate, world, energised, told, contactVars>>

-----------------------------------------------------------------------------
(* bindAddresses.                                                           *)

Allows(f, a) == a = Simulated \/ KindOf[a] \in Panel[f]

(* The tables of a rig that compiles: a row per face, each at an address its *)
(* driver has a connector for (BackPanel), and a pool that lists real units. *)
ASSUME TablesFit ==
    /\ Faces \in Seq(FaceSet) /\ \A i, j \in Rows : Faces[i] = Faces[j] => i = j
    /\ BoxOf \in [FaceSet -> Boxes] /\ Contactable \subseteq FaceSet
    /\ Simulated \in Addresses /\ TableAddress \in [FaceSet -> Addresses]
    /\ \A f \in FaceSet : Allows(f, TableAddress[f])
    /\ Pool \in [Boxes -> Seq(Addresses \ {Simulated})]

(* Whoever moves a box names an address.                                    *)
ASSUME MovesAreAddresses ==
    (\A t \in Flags \cup Exports : t[2] \in Addresses) /\ (\A s \in SiteAddress : s[2] \in Addresses)

ASSUME UnitsAreThemselves ==
    Units \cap {Nobody, "no session", "simulated", "not contacted"} = {}

(* The first override of a box, if there is one.                            *)
Override(box) ==
    LET named == plan.overrides
    IN  {named[i][2] : i \in {j \in DOMAIN named : named[j][1] = box
                                /\ \A k \in 1..(j - 1) : named[k][1] # box}}
AtSite(box) == {s[2] : s \in {t \in SiteAddress : t[1] = <<asked.site, box>>}}

(* resolve: where a face is, who said so, and every address to be accepted. *)
Resolve(f) ==
    LET box == BoxOf[f]
        from(source, addresses) ==
            [value |-> CHOOSE a \in addresses : TRUE, source |-> source, must |-> addresses]
    IN  IF f \in plan.simulated THEN [value |-> Simulated, source |-> "Override", must |-> {}]
        ELSE IF Override(box) # {} THEN from("Override", Override(box))
        ELSE IF AtSite(box) # {} THEN from("Site", AtSite(box))
        ELSE [value |-> TableAddress[f], source |-> IF Pool[box] = <<>> THEN "Table" ELSE "Pool",
              must |-> ToSet(Pool[box])]

(* requireAccepted, of whatever the resolution took.                        *)
RequireAccepted(f, resolved) == \A a \in resolved.must : Allows(f, a)

(* A pooled face is marked and its driver left alone.                       *)
Moved(f, r) == IF r.source = "Pool" THEN address ELSE [address EXCEPT ![f] = r.value]

(* One face of the loop; the site is checked before the first.               *)
BindOne ==
    /\ phase = "bind" /\ row \in Rows
    /\ LET f == Faces[row]
           r == Resolve(f)
       IN  IF asked.site \notin Sites \cup {Unknown} \/ ~RequireAccepted(f, r)
           THEN phase' = "failed" /\ UNCHANGED <<binding, address, row>>
           ELSE /\ binding' = [binding EXCEPT ![f] = [@ EXCEPT !.value = r.value, !.source = r.source]]
                /\ address' = Moved(f, r)
                /\ row' = row + 1 /\ UNCHANGED phase
    /\ UNCHANGED <<asked, plan, candidate, world, energised, told, session, claimed, contacted>>

(* The second pass is skipped by a run without a bench.  What is at each     *)
(* address is settled here, where it begins to matter.                      *)
Bound ==
    /\ phase = "bind" /\ row = Len(Faces) + 1
    /\ IF asked.attached THEN phase' = "contact" /\ world' \in [DOMAIN world -> Units \cup {Nobody}]
                         ELSE phase' = "ready" /\ UNCHANGED world
    /\ row' = 1
    /\ UNCHANGED <<asked, plan, candidate, energised, told, contactVars>>

-----------------------------------------------------------------------------
(* contactInstruments.                                                      *)

(* identity() opens the driver's session and asks *IDN?: it answers when a   *)
(* unit is there, and may at any time find none ("lost", a TransportError)  *)
(* or one the driver refuses ("refused", any other exception).              *)
Outcomes(a) == {"lost", "refused"} \cup (IF world[a] = Nobody THEN {} ELSE {"answers"})

(* claimedByAnother: a unit without a serial is nobody's.                   *)
NeverClaimed(serial, box) == FALSE
ClaimedByAnother(serial, box) == serial # NoSerial /\ \E c \in claimed : c.serial = serial /\ c.box # box

Earlier(box) == {c \in contacted : c.box = box}

Contacted(box, a, unit, position) == [box |-> box, value |-> a, serial |-> SerialOf[unit], position |-> position]

Fail == phase' = "failed" /\ UNCHANGED <<row, candidate>>
NextRow == row' = row + 1 /\ candidate' = 1 /\ UNCHANGED phase

(* A face that has no session, or nothing at its address, is passed over.   *)
Skipped(f) == f \notin Contactable \/ binding[f].value = Simulated

SkipFace ==
    /\ phase = "contact" /\ row \in Rows /\ Skipped(Faces[row])
    /\ NextRow
    /\ UNCHANGED <<asked, plan, world, energised, told, contactVars>>

(* A later face of a box follows its first one, and must find the same unit. *)
FollowFace ==
    /\ phase = "contact" /\ row \in Rows /\ ~Skipped(Faces[row]) /\ Earlier(BoxOf[Faces[row]]) # {}
    /\ LET f == Faces[row]
           e == CHOOSE c \in contacted : c.box = BoxOf[f]
           pooled == binding[f].source = "Pool"
           a == IF pooled THEN e.value ELSE address[f]
           tried == IF pooled THEN [binding[f] EXCEPT !.value = a, !.position = e.position] ELSE binding[f]
       IN  \E o \in Outcomes(a) :
            /\ address' = [address EXCEPT ![f] = a]
            /\ binding' = [binding EXCEPT ![f] =
                 IF o = "answers" THEN [tried EXCEPT !.identity = world[a]] ELSE tried]
            /\ session' = IF o = "answers" THEN [session EXCEPT ![f] = world[a]] ELSE session
            /\ IF o # "answers" \/ (SerialOf[world[a]] # NoSerial /\ e.serial # NoSerial /\ SerialOf[world[a]] # e.serial)
               THEN Fail ELSE NextRow
    /\ UNCHANGED <<asked, plan, world, energised, told, claimed, contacted>>

(* The first face of a box at a fixed address.                              *)
FixedFace ==
    /\ phase = "contact" /\ row \in Rows /\ ~Skipped(Faces[row]) /\ Earlier(BoxOf[Faces[row]]) = {}
    /\ LET f == Faces[row]
           box == BoxOf[f]
           a == address[f]
       IN  /\ binding[f].source # "Pool"
           /\ \E o \in Outcomes(a) :
                IF o # "answers" THEN Fail /\ UNCHANGED contactVars
                ELSE /\ binding' = [binding EXCEPT ![f].identity = world[a]]
                     /\ session' = [session EXCEPT ![f] = world[a]]
                     /\ IF ClaimedByAnother(SerialOf[world[a]], box)
                        THEN Fail /\ UNCHANGED <<claimed, contacted>>
                        ELSE /\ claimed' = claimed \cup {[serial |-> SerialOf[world[a]], box |-> box]}
                             /\ contacted' = contacted \cup {Contacted(box, a, world[a], 0)}
                             /\ NextRow
                     /\ UNCHANGED address
    /\ UNCHANGED <<asked, plan, world, energised, told>>

(* acquireFromPool, a candidate: one that is taken or does not answer is     *)
(* closed and the next one tried; any other exception ends the preflight.   *)
TryCandidate ==
    /\ phase = "contact" /\ row \in Rows /\ ~Skipped(Faces[row]) /\ Earlier(BoxOf[Faces[row]]) = {}
    /\ LET f == Faces[row]
           box == BoxOf[f]
       IN  /\ binding[f].source = "Pool" /\ candidate <= Len(Pool[box])
           /\ LET a == Pool[box][candidate] IN
              \E o \in Outcomes(a) :
                /\ address' = [address EXCEPT ![f] = a]
                /\ CASE o = "refused" -> Fail /\ UNCHANGED <<binding, session, claimed, contacted>>
                     [] o = "lost" \/ (o = "answers" /\ ClaimedByAnother(SerialOf[world[a]], box)) ->
                            /\ session' = [session EXCEPT ![f] = Nobody]
                            /\ candidate' = candidate + 1
                            /\ UNCHANGED <<binding, claimed, contacted, phase, row>>
                     [] OTHER ->
                            /\ session' = [session EXCEPT ![f] = world[a]]
                            /\ binding' = [binding EXCEPT ![f] = [@ EXCEPT !.value = a, !.identity = world[a], !.position = candidate]]
                            /\ claimed' = claimed \cup {[serial |-> SerialOf[world[a]], box |-> box]}
                            /\ contacted' = contacted \cup {Contacted(box, a, world[a], candidate)}
                            /\ NextRow
    /\ UNCHANGED <<asked, plan, world, energised, told>>

PoolExhausted ==
    /\ phase = "contact" /\ row \in Rows /\ ~Skipped(Faces[row]) /\ Earlier(BoxOf[Faces[row]]) = {}
    /\ binding[Faces[row]].source = "Pool" /\ candidate > Len(Pool[BoxOf[Faces[row]]])
    /\ Fail
    /\ UNCHANGED <<asked, plan, world, energised, told, contactVars>>

(* checkCardsOn, for every face that can say what is in its slots, once all  *)
(* boxes are bound.                                                         *)
CardsAsDeclared(f) == BoxOf[f] \in Carded => session[f] \in Racked

CheckCards ==
    /\ phase = "contact" /\ row = Len(Faces) + 1
    /\ LET chassis == {f \in Identifying : binding[f].value # Simulated} IN
       IF \A f \in chassis : CardsAsDeclared(f)
       THEN phase' \in {"ready"} \cup (IF chassis = {} THEN {} ELSE {"failed"})
       ELSE phase' = "failed"
    /\ UNCHANGED <<asked, plan, row, candidate, world, energised, told, contactVars>>

-----------------------------------------------------------------------------
(* The run, and what cleans up after it.                                    *)

(* A verb speaks to whatever its driver's address leads to; it would open a  *)
(* session if its box had none.                                             *)
Reached(f, a) == IF f \in Contactable /\ a # Simulated /\ world[a] # Nobody THEN {<<f, world[a]>>} ELSE {}

Drive ==
    /\ phase = "ready" /\ asked.attached
    /\ \E f \in FaceSet : energised' = energised \cup Reached(f, address[f])
    /\ UNCHANGED <<asked, plan, phase, row, candidate, world, told, contactVars>>

(* openSession(): the session of a box, if some face of it has opened one at *)
(* the address. A safe() never opens one.                                   *)
OpenSession(box, a) ==
    {session[g] : g \in {h \in FaceSet : BoxOf[h] = box /\ address[h] = a}} \ {Nobody}

(* safeRig(): every driver's safe() tells its output to go off, down the     *)
(* session of its box if there is one. Whether the unit hears it and obeys  *)
(* is Rig's subject.                                                        *)
SafeTheTable == told' = UNION {{f} \X OpenSession(BoxOf[f], TableAddress[f]) : f \in FaceSet}
SafeRig == told' = UNION {{f} \X OpenSession(BoxOf[f], address[f]) : f \in FaceSet}

(* The run ends, however it does: RigSafingGuard.                           *)
Finish ==
    /\ phase = "ready"
    /\ phase' = "ended"
    /\ IF asked.attached THEN SafeRig ELSE UNCHANGED told
    /\ UNCHANGED <<asked, plan, row, candidate, world, energised, contactVars>>

(* The run is killed; its drivers and their sessions go with it.            *)
Die ==
    /\ phase = "ready"
    /\ phase' = "dead"
    /\ address' = TableAddress
    /\ session' = [f \in FaceSet |-> Nobody]
    /\ UNCHANGED <<asked, plan, row, candidate, world, energised, told, binding, claimed, contacted>>

(* `--safe` in a new process: main() safes the rig before it has read an     *)
(* address or opened a session.                                             *)
SafeOnly ==
    /\ phase = "dead"
    /\ phase' = "safed"
    /\ SafeRig
    /\ UNCHANGED <<asked, plan, row, candidate, world, energised, contactVars>>

Over == phase \in {"failed", "ended", "safed"} /\ UNCHANGED vars

Next == \/ ReadPlan \/ BindOne \/ Bound \/ SkipFace \/ FollowFace \/ FixedFace \/ TryCandidate \/ PoolExhausted
        \/ CheckCards \/ Drive \/ Finish \/ Die \/ SafeOnly \/ Over

Spec == Init /\ [][Next]_vars

-----------------------------------------------------------------------------
(* bannerLines: what the log's header says of each face.                    *)
IdentityOf(f) == IF binding[f].identity # Nobody THEN binding[f].identity
                 ELSE IF f \notin Contactable THEN "no session"
                 ELSE IF binding[f].value = Simulated THEN "simulated"
                 ELSE "not contacted"

Running == phase = "ready" /\ asked.attached

(* A run that starts talks to one unit per box and to one box per unit: no   *)
(* two boxes answered with one serial (as long as the units have one), and   *)
(* the faces of one box that are there are at one address.                   *)
OneUnitOneBox ==
    Running => \A f, g \in {h \in FaceSet : session[h] # Nobody} :
        /\ BoxOf[f] = BoxOf[g] => address[f] = address[g]
        /\ BoxOf[f] # BoxOf[g] /\ SerialOf[session[f]] # NoSerial => SerialOf[session[f]] # SerialOf[session[g]]

(* The header of a log tells the truth: what it says a face is bound to is    *)
(* what its driver opens, the identity is that of the unit there, and only a *)
(* run without a bench says of a face that it was not contacted.             *)
BannerIsTrue ==
    /\ Running => \A f \in Contactable :
            /\ IdentityOf(f) # "not contacted"
            /\ binding[f].value # Simulated => address[f] = binding[f].value /\ IdentityOf(f) = world[address[f]]
            /\ binding[f].position # 0 => Pool[BoxOf[f]][binding[f].position] = address[f]
    /\ phase = "ready" /\ ~asked.attached => \A f \in FaceSet : IdentityOf(f) \notin Units

(* A preflight holds no session with a unit it has no use for: not of a      *)
(* candidate it has passed over, not of a face left out by ROW=sim, not of a *)
(* bus the driver has no connector for, and none at all without a bench or   *)
(* while the plan is being made.                                             *)
HoldsOnlyItsOwn ==
    \A f \in FaceSet : session[f] # Nobody =>
        /\ asked.attached /\ phase \notin {"plan", "bind"} /\ f \notin plan.simulated
        /\ address[f] # Simulated /\ Allows(f, address[f]) /\ session[f] = world[address[f]]

(* What a run was bound to is what it runs on: one unit to a box and one box *)
(* to a unit, as the header of its logs says, and nothing else held.         *)
PlanIsWhatRuns == OneUnitOneBox /\ BannerIsTrue /\ HoldsOnlyItsOwn

(* A run that ends by itself tells every output it drove to go off, whatever  *)
(* moved its boxes: safing opens no session, so each unit a verb may have    *)
(* reached has to be on one that is open still, at its driver's address.     *)
SafesWhatItDrove == phase = "ended" => energised \subseteq told

(* safing.hpp says of --safe that "a newly started process can command them  *)
(* to idle perfectly well", main.cpp that it "cannot disagree with the run   *)
(* it is cleaning up after": it tells every output the run drove.            *)
SafeReachesTheRun == phase = "safed" => energised \subseteq told
=============================================================================
