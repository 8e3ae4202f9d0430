------------------------------ MODULE RoomMemory ------------------------------
(***************************************************************************)
(* lib/room-memory.ts, the rooms a device remembers in localStorage, and     *)
(* components/SavedRooms.tsx, the list of them on the landing page with its   *)
(* host-session probes, beside the pages that remember a room.               *)
(*                                                                           *)
(* A remembered list is a sequence of [id, role] records: each touch is later *)
(* than the ones before it, so sorting by lastTouched puts the touched room   *)
(* in front and leaves the others in their order.  Answers of the session     *)
(* endpoint are numbered in the order the server gave them.  A probe that its  *)
(* effect has cancelled writes nothing any more, so it is dropped.             *)
(***************************************************************************)
EXTENDS Lists

CONSTANTS
  Rooms,
  MAX_ROOMS, MAX_HOST_PROBES,
  MaxAnswers     \* bound: answers of the session endpoint

RoomMemoryAssumption ==
  /\ {MAX_HOST_PROBES, MaxAnswers} \subseteq Nat
  /\ MAX_ROOMS \in Nat \ {0}

VARIABLES
  saved,     \* cantai_rooms_v1
  rooms,     \* the page's list; <<>> before it is loaded
  hosts,     \* room -> the answer its admin link is made from
  probes,    \* requests under way
  session,   \* rooms whose host cookie the server honours
  answers    \* answers given so far

vars == <<saved, rooms, hosts, probes, session, answers>>

Roles == {"created", "joined"}
Saved(id, role) == [id |-> id, role |-> role]
Least(m, n) == IF m < n THEN m ELSE n

CreatedHere(list, id) == \E i \in DOMAIN list : list[i] = Saved(id, "created")

WithoutRoom(list, id) == Kept(list, {r \in Range(list) : r.id # id})

\* The mistake of letting a visit demote one's own room.
UpsertPlain(list, id, role) ==
  LET next == <<Saved(id, role)>> \o WithoutRoom(list, id)
  IN  SubSeq(next, 1, Least(Len(next), MAX_ROOMS))

\* "created" is sticky: joining one's own room does not demote it.
Upsert(list, id, role) ==
  LET merged == IF CreatedHere(list, id) THEN "created" ELSE role
      next == <<Saved(id, merged)>> \o WithoutRoom(list, id)
  IN  SubSeq(next, 1, Least(Len(next), MAX_ROOMS))

RoomsToProbe(list) ==
  LET own == Kept(list, {r \in Range(list) : r.role = "created"})
  IN  {own[i].id : i \in 1 .. Least(Len(own), MAX_HOST_PROBES)}

NoAnswer == [at |-> 0, ok |-> TRUE]
Probe(id) == [id |-> id, answer |-> NoAnswer]

Init ==
  /\ saved = <<>> /\ rooms = <<>> /\ session = {}
  /\ hosts = [id \in Rooms |-> NoAnswer]
  /\ probes = {} /\ answers = 0

\* ---- the pages that remember a room ----

\* create() of /new: the answer also carries a host cookie.
RememberCreated(id) ==
  /\ saved' = Upsert(saved, id, "created")
  /\ session' = session \cup {id}
  /\ UNCHANGED <<rooms, hosts, probes, answers>>

\* PatronRoom's mount
RememberJoined(id) ==
  /\ saved' = Upsert(saved, id, "joined")
  /\ UNCHANGED <<rooms, hosts, probes, session, answers>>

\* A login or a claim in the room's admin page, and the end of a session.
SignIn(id) ==
  /\ id \notin session
  /\ session' = session \cup {id}
  /\ UNCHANGED <<saved, rooms, hosts, probes, answers>>

SessionEnds(id) ==
  /\ id \in session
  /\ session' = session \ {id}
  /\ UNCHANGED <<saved, rooms, hosts, probes, answers>>

\* ---- the landing page ----

\* The mistake of leaving the probes of the earlier list alive.
ShowKeepingProbes(list) ==
  /\ rooms' = list
  /\ probes' = probes \cup {Probe(id) : id \in RoomsToProbe(list)}

\* setRooms, and the effect it re-runs: the probes of the list before are cancelled.
Show(list) ==
  /\ rooms' = list
  /\ probes' = {Probe(id) : id \in RoomsToProbe(list)}

Load ==
  /\ rooms = <<>> /\ saved # <<>>
  /\ Show(saved)
  /\ hosts' = [id \in Rooms |-> NoAnswer]
  /\ UNCHANGED <<saved, session, answers>>

Forget(id) ==
  /\ \E i \in DOMAIN rooms : rooms[i].id = id
  /\ saved' = WithoutRoom(saved, id)
  /\ Show(saved')
  /\ UNCHANGED <<hosts, session, answers>>

Leave ==
  /\ rooms # <<>>
  /\ rooms' = <<>> /\ probes' = {}
  /\ UNCHANGED <<saved, hosts, session, answers>>

\* GET /api/host/session
ServeProbe(p) ==
  /\ p.answer = NoAnswer /\ answers < MaxAnswers
  /\ answers' = answers + 1
  /\ probes' = (probes \ {p}) \cup {[p EXCEPT !.answer = [at |-> answers', ok |-> p.id \in session]]}
  /\ UNCHANGED <<saved, rooms, hosts, session>>

ProbeLands(p) ==
  /\ p.answer # NoAnswer
  /\ probes' = probes \ {p}
  /\ hosts' = [hosts EXCEPT ![p.id] = p.answer]
  /\ UNCHANGED <<saved, rooms, session, answers>>

\* A request that fails counts as a refusal.
ProbeFails(p) ==
  /\ probes' = probes \ {p}
  /\ hosts' = [hosts EXCEPT ![p.id] = [at |-> IF p.answer = NoAnswer THEN answers ELSE p.answer.at, ok |-> FALSE]]
  /\ UNCHANGED <<saved, rooms, session, answers>>

Next ==
  \/ \E id \in Rooms : RememberCreated(id) \/ RememberJoined(id) \/ SignIn(id) \/ SessionEnds(id) \/ Forget(id)
  \/ Load \/ Leave
  \/ \E p \in probes : ServeProbe(p) \/ ProbeLands(p) \/ ProbeFails(p)

Spec == Init /\ [][Next]_vars

\* ---- properties ----

\* A room the device created keeps its admin link in the memory until it is
\* forgotten or MAX_ROOMS newer rooms pushed it out, whatever is joined meanwhile.
OwnRoomsStayOwn ==
  [][\A id \in Rooms : CreatedHere(saved, id) =>
       \A i \in DOMAIN saved' : saved'[i].id = id => saved'[i].role = "created"]_vars

\* Of two answers about one room the admin link follows the later, in whatever order
\* they arrive: a refusal given before a sign-in never overwrites the answer after it.
NewestAnswerStays ==
  [][\A id \in Rooms : hosts'[id].at >= hosts[id].at \/ rooms = <<>>]_vars
=============================================================================
