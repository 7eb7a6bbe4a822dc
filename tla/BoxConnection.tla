--------------------------- MODULE BoxConnection ---------------------------
(***************************************************************************)
(* hal::BoxConnection (framework/hal): the instruments a rig declares are  *)
(* faces of boxes, and the faces of one box at one address share the one   *)
(* link to it: an SCPI session or a native object, and the list of the     *)
(* driver families that have prepared that session. The registry holds     *)
(* links weakly: a link lives while a face holds it.                       *)
(***************************************************************************)
EXTENDS Naturals, Sequences

CONSTANTS
  Faces,      \* the instruments declared on one box
  Addresses,  \* where the box can be reached
  Simulated,  \* the address with nothing behind it
  Families,   \* names drivers prepare a session under
  Natives,    \* types of native objects (a scope's vendor library)
  NoLink,
  NoNative

ASSUME BoxAssumption ==
  /\ Simulated \notin Addresses
  /\ NoLink \notin Addresses \cup Faces
  /\ NoNative \notin Natives
  /\ Addresses \cap Faces = {}

VARIABLES
  mAddress,   \* where each face is
  mLink,      \* the link each face has kept
  links       \* what the links hold, by address; a simulated face's by itself

boxVars == <<mAddress, mLink, links>>

Keys == Addresses \cup Faces

BoxLink == [session : BOOLEAN, native : Natives \cup {NoNative}, prepared : SUBSET Families]

EmptyLink == [session |-> FALSE, native |-> NoNative, prepared |-> {}]

BoxTypeOK ==
  /\ mAddress \in [Faces -> Addresses \cup {Simulated}]
  /\ mLink \in [Faces -> Keys \cup {NoLink}]
  /\ links \in [Keys -> BoxLink]

BoxInit ==
  /\ mAddress \in [Faces -> Addresses \cup {Simulated}]
  /\ mLink = [f \in Faces |-> NoLink]
  /\ links = [k \in Keys |-> EmptyLink]

\* The registry's key: the box and its address. A simulated face has a link
\* of its own.
KeyOf(f) == IF mAddress[f] = Simulated THEN f ELSE mAddress[f]

\* link(): the one that is kept, another face's, or a new one.
LinkOf(f) == IF mLink[f] # NoLink THEN mLink[f] ELSE KeyOf(f)

Registered(k) == \E g \in Faces : mLink[g] = k

\* heldLink(): never makes one.
HeldLink(f) ==
  IF mLink[f] # NoLink THEN mLink[f]
  ELSE IF mAddress[f] # Simulated /\ Registered(mAddress[f]) THEN mAddress[f]
  ELSE NoLink

Keep(f) == mLink' = [mLink EXCEPT ![f] = HeldLink(f)]
Hold(f) == mLink' = [mLink EXCEPT ![f] = LinkOf(f)]

HasSession(f) ==
  /\ HeldLink(f) # NoLink
  /\ \/ links[HeldLink(f)].session
     \/ links[HeldLink(f)].native # NoNative

IsSimulated(f) == ~HasSession(f) /\ mAddress[f] = Simulated

Released(f, a) == [mLink EXCEPT ![f] = NoLink]

\* useAddress: the kept link is let go. The last holder takes it along.
UseAddress(f, a) ==
  /\ mAddress' = [mAddress EXCEPT ![f] = a]
  /\ mLink' = Released(f, a)
  /\ links' = [k \in Keys |-> IF Registered(k) /\ \A g \in Faces : mLink'[g] # k
                              THEN EmptyLink ELSE links[k]]

\* useTransport: another session, that nobody has prepared.
Replaced(l) == [session |-> TRUE, native |-> NoNative, prepared |-> {}]

UseTransport(f) ==
  /\ Hold(f)
  /\ links' = [links EXCEPT ![LinkOf(f)] = Replaced(@)]
  /\ UNCHANGED mAddress

\* Mutant: the session alone is reset.
ClosedKeeps(l) == [l EXCEPT !.session = FALSE, !.native = NoNative]

Closed(l) == EmptyLink

\* close(): for every face of the box.
Close(f) ==
  /\ Keep(f)
  /\ links' = IF HeldLink(f) = NoLink THEN links
              ELSE [links EXCEPT ![HeldLink(f)] = Closed(@)]
  /\ UNCHANGED mAddress

\* session(): a native object, or an address that does not open, is an error;
\* the link is there all the same.
SessionRefused(f) ==
  /\ links[LinkOf(f)].native # NoNative
  /\ Hold(f)
  /\ UNCHANGED <<mAddress, links>>

SessionFails(f) ==
  /\ links[LinkOf(f)].native = NoNative
  /\ ~links[LinkOf(f)].session
  /\ Hold(f)
  /\ UNCHANGED <<mAddress, links>>

\* session() opens or finds one: the caller prepares it if its family has not.
Session(f) ==
  /\ links[LinkOf(f)].native = NoNative
  /\ LinkOf(f) \in Addresses \/ links[LinkOf(f)].session
  /\ Hold(f)
  /\ links' = [links EXCEPT ![LinkOf(f)].session = TRUE]
  /\ UNCHANGED mAddress

MustPrepare(f, family) == family \notin links[LinkOf(f)].prepared

\* The family's prepare returned on the session at k.
MarkPrepared(k, family) ==
  /\ links' = [links EXCEPT ![k].prepared = @ \cup {family}]
  /\ UNCHANGED <<mAddress, mLink>>

MayGoNative(l, type) == ~l.session /\ l.native \in {NoNative, type}

\* native<T>(): made when there is none. A session, or another type, is an error.
Native(f, type) ==
  /\ Hold(f)
  /\ links' = IF MayGoNative(links[LinkOf(f)], type)
              THEN [links EXCEPT ![LinkOf(f)].native = type]
              ELSE links
  /\ UNCHANGED mAddress

\* installNative(): in the place of whatever is there.
InstallNative(f, type) ==
  /\ Hold(f)
  /\ links' = [links EXCEPT ![LinkOf(f)] =
                [EmptyLink EXCEPT !.native = type]]
  /\ UNCHANGED mAddress

----------------------------------------------------------------------------
(* A face holds no link but its own address's, and a link is a session or  *)
(* an object, never both (box_connection.hpp, the rules).                  *)
LinksInOrder ==
  /\ \A f \in Faces : mLink[f] \in {NoLink, KeyOf(f)}
  /\ \A k \in Keys : ~(links[k].session /\ links[k].native # NoNative)
=============================================================================
