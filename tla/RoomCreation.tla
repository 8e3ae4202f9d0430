----------------------------- MODULE RoomCreation -----------------------------
(***************************************************************************)
(* How a room comes to be and how a device comes to be known: the form of   *)
(* /new, POST /api/rooms with createRoom of lib/rooms.ts and the throttle of *)
(* lib/room-create-throttle.ts, the first load of a room's page with         *)
(* POST /api/identity, and the identity policy of lib/identity.ts over the   *)
(* store of lib/identity-store.ts.                                           *)
(*                                                                           *)
(* A step is one awaited store command.  Host codes are numbers: each        *)
(* creation draws a fresh one, and a record is the code whose hash it holds. *)
(* The claim cookie a creator also gets is RoomRecord's.                     *)
(***************************************************************************)
EXTENDS Naturals, FiniteSets

CONSTANTS
  Devices, IpOf,
  Base,          \* the slug of the venue's name
  Suffixed,      \* the ids randomBase32 can make of it
  Reserved,      \* ids that are routes
  Attempts,      \* probes before createRoom takes the id as it is (8)
  ROOM_MAX, ROOM_CREATE_LIMIT,
  None,
  MaxUuids, MaxCodes, MaxFaults   \* bounds on minted uuids, creations, failed commands

RoomCreationAssumption ==
  /\ {ROOM_MAX, ROOM_CREATE_LIMIT, Attempts, MaxUuids, MaxCodes, MaxFaults} \subseteq Nat
  /\ Base \notin Suffixed
  /\ IsFiniteSet(Devices) /\ Devices # {}

Uuids == 1 .. MaxUuids
Slugs == Suffixed \cup {Base}
Codes == 1 .. MaxCodes

VARIABLES
  record,            \* id -> the code its record holds, or None
  count,             \* rooms:count
  hits,              \* rl:room-create:<ip>
  identities,        \* identity:<uuid>
  owned,             \* identity:<uuid>:rooms, as pairs <<uuid, id>>
  indexing,          \* addRoom calls nobody waits for
  cookie, local,     \* a device's identity cookie and its localStorage uuid
  told,              \* the pairs <<id, code>> its screen showed it
  call,              \* its request
  minted, codes, faults

store == <<record, count, hits, identities, owned, indexing>>
browser == <<cookie, local, told>>
bounds == <<minted, codes, faults>>
vars == <<store, browser, call, bounds>>

NoCall == [at |-> "idle", kind |-> None, room |-> None, asserted |-> None, cookie |-> None,
           who |-> None, ok |-> FALSE, tries |-> 0, code |-> 0]

Init ==
  /\ record = [s \in Slugs |-> None] /\ count = 0
  /\ hits = [i \in {IpOf[d] : d \in Devices} |-> 0]
  /\ identities = {} /\ owned = {} /\ indexing = {}
  /\ cookie = [d \in Devices |-> None] /\ local = [d \in Devices |-> None]
  /\ told = [d \in Devices |-> {}]
  /\ call = [d \in Devices |-> NoCall]
  /\ minted = 0 /\ codes = 0 /\ faults = 0

At(d, step) == call[d].at = step
Goto(d, step) == call' = [call EXCEPT ![d].at = step]
Answered(d) == call' = [call EXCEPT ![d] = NoCall]
Fault == faults < MaxFaults /\ faults' = faults + 1

\* ---- the browser ----

\* The boot effect of a room's page: a uuid of its own, and the identity request.
Visit(d, id) ==
  /\ At(d, "idle") /\ record[id] # None
  /\ IF local[d] = None
     THEN minted < MaxUuids /\ minted' = minted + 1 /\ local' = [local EXCEPT ![d] = minted']
     ELSE UNCHANGED <<minted, local>>
  /\ call' = [call EXCEPT ![d] = [NoCall EXCEPT
                !.at = "identify", !.kind = "visit", !.asserted = local'[d], !.cookie = cookie[d]]]
  /\ UNCHANGED <<store, cookie, told, codes, faults>>

\* create() of /new
Submit(d) ==
  /\ At(d, "idle") /\ codes < MaxCodes
  /\ call' = [call EXCEPT ![d] = [NoCall EXCEPT
                !.at = "throttle", !.kind = "create", !.asserted = local[d], !.cookie = cookie[d]]]
  /\ UNCHANGED <<store, browser, bounds>>

LoseCookie(d) ==
  /\ cookie[d] # None
  /\ cookie' = [cookie EXCEPT ![d] = None]
  /\ UNCHANGED <<store, local, told, call, bounds>>

\* ---- the identity of the caller ----

Throttle(d) ==
  /\ At(d, "throttle")
  /\ IF hits[IpOf[d]] >= ROOM_CREATE_LIMIT THEN Answered(d) ELSE Goto(d, "identify")
  /\ UNCHANGED <<store, browser, bounds>>

\* A Redis error opens the throttle.
ThrottleFails(d) ==
  /\ At(d, "throttle") /\ Fault /\ Goto(d, "identify")
  /\ UNCHANGED <<store, browser, minted, codes>>

Candidate(d, u) == call' = [call EXCEPT ![d].who = u, ![d].at = "touch"]
Minted(d) == minted < MaxUuids /\ minted' = minted + 1 /\ Candidate(d, minted')

Owns(u) == \E s \in Slugs : <<u, s>> \in owned

\* resolveIdentity: the cookie, else the asserted uuid if it owns no room, else a
\* fresh one.
Identify(d) ==
  /\ At(d, "identify")
  /\ \/ /\ call[d].cookie # None
        /\ Candidate(d, call[d].cookie) /\ UNCHANGED minted
     \/ /\ call[d].cookie = None /\ call[d].asserted # None
        /\ \/ /\ ~Owns(call[d].asserted)
              /\ Candidate(d, call[d].asserted) /\ UNCHANGED minted
           \/ Owns(call[d].asserted) /\ Minted(d)
     \/ call[d].cookie = None /\ call[d].asserted = None /\ Minted(d)
  /\ UNCHANGED <<store, browser, codes, faults>>

Resolved(d, u, ok) ==
  call' = [call EXCEPT ![d].who = u, ![d].ok = ok,
             ![d].at = IF call[d].kind = "visit" THEN "answer" ELSE "count"]

\* The mistake LookupFails avoids: a failed lookup taken for ownership.
UnknownOwns(d) ==
  /\ At(d, "identify") /\ call[d].cookie = None /\ call[d].asserted # None
  /\ Fault /\ Minted(d)
  /\ UNCHANGED <<store, browser, codes>>

\* adoptable, "unknown": nothing is registered and the client keeps its uuid.
LookupFails(d) ==
  /\ At(d, "identify") /\ call[d].cookie = None /\ call[d].asserted # None
  /\ Fault /\ Resolved(d, call[d].asserted, FALSE)
  /\ UNCHANGED <<store, browser, minted, codes>>

Touch(d) ==
  /\ At(d, "touch")
  /\ identities' = identities \cup {call[d].who}
  /\ Resolved(d, call[d].who, TRUE)
  /\ UNCHANGED <<record, count, hits, owned, indexing, browser, bounds>>

ClientKnown(d) == IF call[d].cookie # None THEN call[d].cookie ELSE call[d].asserted

TouchFails(d) ==
  /\ At(d, "touch") /\ Fault
  /\ Resolved(d, IF ClientKnown(d) # None THEN ClientKnown(d) ELSE call[d].who, FALSE)
  /\ UNCHANGED <<store, browser, minted, codes>>

\* The answer of POST /api/identity, and what the page makes of it.
AnswerVisit(d) ==
  /\ At(d, "answer")
  /\ IF call[d].ok
     THEN /\ cookie' = [cookie EXCEPT ![d] = call[d].who]
          /\ local' = [local EXCEPT ![d] = call[d].who]
     ELSE UNCHANGED <<cookie, local>>
  /\ Answered(d)
  /\ UNCHANGED <<store, told, bounds>>

\* ---- the room ----

\* The mistake of not reading the counter.
CountUnread(d) == At(d, "count") /\ call' = [call EXCEPT ![d].at = "probe", ![d].room = Base]
                  /\ UNCHANGED <<store, browser, bounds>>

CheckCount(d) ==
  /\ At(d, "count")
  /\ IF count >= ROOM_MAX THEN Answered(d)
     ELSE call' = [call EXCEPT ![d].at = "probe", ![d].room = Base]
  /\ UNCHANGED <<store, browser, bounds>>

Probe(d) ==
  /\ At(d, "probe")
  /\ IF call[d].tries < Attempts /\ (call[d].room \in Reserved \/ record[call[d].room] # None)
     THEN \E s \in Suffixed :
            call' = [call EXCEPT ![d].room = s, ![d].tries = @ + 1]
     ELSE Goto(d, "store")
  /\ UNCHANGED <<store, browser, bounds>>

\* A plain SET: whatever is stored under the id is replaced.
Store(d) ==
  /\ At(d, "store") /\ codes < MaxCodes
  /\ codes' = codes + 1
  /\ record' = [record EXCEPT ![call[d].room] = codes']
  /\ call' = [call EXCEPT ![d].at = "increment", ![d].code = codes']
  /\ UNCHANGED <<count, hits, identities, owned, indexing, browser, minted, faults>>

StoreFails(d) ==
  /\ At(d, "store") /\ Fault /\ Answered(d)
  /\ UNCHANGED <<store, browser, minted, codes>>

Increment(d) ==
  /\ At(d, "increment")
  /\ count' = count + 1
  /\ Goto(d, "register")
  /\ UNCHANGED <<record, hits, identities, owned, indexing, browser, bounds>>

\* The record stays, uncounted, and nobody learns its code.
IncrementFails(d) ==
  /\ At(d, "increment") /\ Fault /\ Answered(d)
  /\ UNCHANGED <<store, browser, minted, codes>>

RegisterCreation(d) ==
  /\ At(d, "register")
  /\ hits' = [hits EXCEPT ![IpOf[d]] = @ + 1]
  /\ Goto(d, "created")
  /\ UNCHANGED <<record, count, identities, owned, indexing, browser, bounds>>

RegisterFails(d) ==
  /\ At(d, "register") /\ Fault /\ Goto(d, "created")
  /\ UNCHANGED <<store, browser, minted, codes>>

\* The answer does not wait for addRoom.
AnswerCreate(d) ==
  LET c == call[d]
  IN  /\ At(d, "created")
      /\ indexing' = IF c.ok THEN indexing \cup {<<c.who, c.room>>} ELSE indexing
      /\ cookie' = IF c.ok THEN [cookie EXCEPT ![d] = c.who] ELSE cookie
      /\ told' = [told EXCEPT ![d] = @ \cup {<<c.room, c.code>>}]
      /\ Answered(d)
      /\ UNCHANGED <<record, count, hits, identities, owned, local, bounds>>

AddRoom(pair) ==
  /\ pair \in indexing
  /\ indexing' = indexing \ {pair}
  /\ owned' = owned \cup {pair}
  /\ UNCHANGED <<record, count, hits, identities, browser, call, bounds>>

AddRoomFails(pair) ==
  /\ pair \in indexing /\ Fault
  /\ indexing' = indexing \ {pair}
  /\ UNCHANGED <<record, count, hits, identities, owned, browser, call, minted, codes>>

\* The throttle's window closes.
WindowEnds(i) ==
  /\ hits[i] > 0
  /\ hits' = [hits EXCEPT ![i] = 0]
  /\ UNCHANGED <<record, count, identities, owned, indexing, browser, call, bounds>>

Handle(d) ==
  \/ Throttle(d) \/ ThrottleFails(d) \/ Identify(d) \/ LookupFails(d)
  \/ Touch(d) \/ TouchFails(d) \/ AnswerVisit(d)
  \/ CheckCount(d) \/ Probe(d) \/ Store(d) \/ StoreFails(d) \/ Increment(d) \/ IncrementFails(d)
  \/ RegisterCreation(d) \/ RegisterFails(d) \/ AnswerCreate(d)

Next ==
  \/ \E d \in Devices : Handle(d) \/ Submit(d) \/ LoseCookie(d)
  \/ \E d \in Devices, id \in Slugs : Visit(d, id)
  \/ \E pair \in indexing : AddRoom(pair) \/ AddRoomFails(pair)
  \/ \E i \in DOMAIN hits : WindowEnds(i)

Spec == Init /\ [][Next]_vars

\* ---- properties ----

Creating(d) == At(d, "probe") \/ At(d, "store")

\* ROOM_MAX is checked before the record is written and counted after: the rooms
\* ever made pass the ceiling by the requests in flight and by those whose count
\* failed, and by no more.
CeilingHolds ==
  codes + Cardinality({d \in Devices : Creating(d)})
    <= ROOM_MAX + Cardinality(Devices) - 1 + faults

\* What a failing store may not do: a device's own uuid, under which its songs and
\* its pending entries are listed, is replaced only when the device had none, when
\* its cookie says otherwise, or when the uuid owns a room.
OwnUuidSurvives ==
  [][\A d \in Devices :
       local'[d] # local[d] /\ local[d] # None =>
         Owns(local[d]) \/ call[d].cookie # None]_vars

\* "Generates a unique slug": the code a host was shown opens the room it was
\* shown for.
NoRoomOverwritten ==
  \A d \in Devices : \A pair \in told[d] : record[pair[1]] = pair[2]
=============================================================================
