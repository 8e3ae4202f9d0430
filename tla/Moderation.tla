------------------------------ MODULE Moderation ------------------------------
(***************************************************************************)
(* Song moderation: lib/pending-store.ts (the Redis driver) with the       *)
(* handlers that use it, POST /api/queue, POST /api/host/moderation and    *)
(* /api/host/pending/{approve,reject}, and the polls that list it.  Each   *)
(* Redis command, or script, is one step and the steps of concurrent       *)
(* requests interleave; a request may crash between two of its steps.      *)
(*                                                                         *)
(* The queue is RoomQueue's subject and is reduced to what moderation      *)
(* sees of it: how many copies of an entry it holds.  addEntry is one step *)
(* and the re-lay, which moves entries only, is none.  checkSubmit is its  *)
(* per-person rule.                                                        *)
(***************************************************************************)
EXTENDS Lists

CONSTANTS
  Ids,                \* submissions; a submission is its pendingId
  NoId,               \* no submission
  Patrons, Owner,     \* who submitted each
  Hosts,              \* host requests in flight at a time
  Submitters,         \* patron requests in flight at a time
  Pollers,            \* polls of the pending list in flight at a time
  PENDING_ROOM_MAX,   \* soft bound on a room's pending entries
  PENDING_UUID_MAX,   \* soft bound on a patron's
  PER_PERSON_CAP,     \* queued songs a person may hold
  QUEUE_MAX,          \* bound on the queue
  MaxCrashes          \* bound on crashes

ASSUME OwnerAssumption == Owner \in [Ids -> Patrons] /\ NoId \notin Ids
ASSUME ProcessAssumption ==
  /\ Hosts \cap Submitters = {} /\ Hosts \cap Pollers = {} /\ Submitters \cap Pollers = {}
  /\ IsFiniteSet(Hosts \cup Submitters \cup Pollers)
ASSUME BoundAssumption ==
  {PENDING_ROOM_MAX, PENDING_UUID_MAX, PER_PERSON_CAP, QUEUE_MAX, MaxCrashes} \subseteq Nat

Requests == Hosts \cup Submitters \cup Pollers

VARIABLES
  moderation,   \* the room record's flag
  index,        \* Redis list of pendingIds
  item,         \* Redis record of each: "none", "pending" or "rejected"
  queued,       \* copies of each entry in the queue
  pc,           \* per request: its next step
  hold,         \* per request: the submission it is about
  listed,       \* per request: the ids its listing read, or found dead
  crashes,      \* crashes so far
  shown,        \* the submissions a host has seen in a listing
  asked,        \* history: submissions ever made
  acked,        \* history: submissions answered 201 or 202
  entered,      \* history: times each entered the queue
  returned,     \* history: submissions put back by an approval
  closed        \* history: expired after a rejection, or lost in a crash

vars == <<moderation, index, item, queued, pc, hold, listed, crashes, shown, asked,
          acked, entered, returned, closed>>
store == <<index, item>>
history == <<shown, asked, acked, entered, returned, closed>>

Indexed == Range(index)
Pending == {id \in Ids : item[id] = "pending"}

QueueSize == LET ids[S \in SUBSET Ids] ==
                   IF S = {} THEN 0
                   ELSE LET x == CHOOSE x \in S : TRUE IN queued[x] + ids[S \ {x}]
             IN  ids[Ids]

\* checkSubmit in per-person-1.
Fits(id) ==
  Cardinality({x \in Ids : Owner[x] = Owner[id] /\ queued[x] > 0}) < PER_PERSON_CAP

Init ==
  /\ moderation \in BOOLEAN
  /\ index = <<>>
  /\ item = [id \in Ids |-> "none"]
  /\ queued = [id \in Ids |-> 0]
  /\ pc = [r \in Requests |-> "idle"]
  /\ hold = [r \in Requests |-> NoId]
  /\ listed = [r \in Requests |-> {}]
  /\ crashes = 0
  /\ shown = {}
  /\ asked = {}
  /\ acked = {}
  /\ entered = [id \in Ids |-> 0]
  /\ returned = {}
  /\ closed = {}

Goto(r, label) == pc' = [pc EXCEPT ![r] = label]

Return(r) ==
  /\ Goto(r, "idle")
  /\ hold' = [hold EXCEPT ![r] = NoId]
  /\ listed' = [listed EXCEPT ![r] = {}]

\* Mutant of Start: the request forgets what it is about.
StartBlank(r, id, label) ==
  /\ pc[r] = "idle"
  /\ hold' = [hold EXCEPT ![r] = NoId]
  /\ Goto(r, label)
  /\ UNCHANGED listed

Start(r, id, label) ==
  /\ pc[r] = "idle"
  /\ hold' = [hold EXCEPT ![r] = id]
  /\ Goto(r, label)
  /\ UNCHANGED listed

-----------------------------------------------------------------------------
(* Listing: listRoom, and countRoom and countUuid, which list and count.   *)

\* GET /api/host/pending and GET /api/queue/pending
Poll(r) ==
  /\ Start(r, NoId, "list")
  /\ UNCHANGED <<moderation, store, queued, crashes, history>>

\* LRANGE of the index
ListIds(r) ==
  /\ pc[r] = "list"
  /\ listed' = [listed EXCEPT ![r] = Indexed]
  /\ Goto(r, "fetch")
  /\ UNCHANGED <<moderation, store, queued, hold, crashes, history>>

\* Mutant of UnderPendingCaps: off by one.
UpToPendingCaps(r) ==
  LET pending == listed[r] \cap Pending
  IN  /\ Cardinality(pending) <= PENDING_ROOM_MAX
      /\ Cardinality({id \in pending : Owner[id] = Owner[hold[r]]}) <= PENDING_UUID_MAX

\* Both counts of a submission; its two listings are taken as one.
UnderPendingCaps(r) ==
  LET pending == listed[r] \cap Pending
  IN  /\ Cardinality(pending) < PENDING_ROOM_MAX
      /\ Cardinality({id \in pending : Owner[id] = Owner[hold[r]]}) < PENDING_UUID_MAX

\* MGET.  What is left to do is to prune the ids whose slot came back null, then to
\* answer a poll, to refuse a submission over the caps, or to store it.
ListRecords(r) ==
  /\ pc[r] = "fetch"
  /\ listed' = [listed EXCEPT ![r] = {id \in @ : item[id] = "none"}]
  /\ Goto(r, IF hold[r] # NoId /\ UnderPendingCaps(r) THEN "pruneThenStore" ELSE "prune")
  /\ shown' = IF r \in Pollers THEN shown \cup (listed[r] \cap Pending) ELSE shown
  /\ UNCHANGED <<moderation, store, queued, hold, crashes, asked, acked, entered, returned, closed>>

\* LREM of one dead id
Prune(r, id) ==
  /\ pc[r] \in {"prune", "pruneThenStore"}
  /\ id \in listed[r]
  /\ index' = Without(index, id)
  /\ listed' = [listed EXCEPT ![r] = @ \ {id}]
  /\ UNCHANGED <<moderation, item, queued, pc, hold, crashes, history>>

ListDone(r) ==
  /\ listed[r] = {}
  /\ \/ pc[r] = "prune" /\ Return(r)
     \/ pc[r] = "pruneThenStore" /\ Goto(r, "store") /\ UNCHANGED <<hold, listed>>
  /\ UNCHANGED <<moderation, store, queued, crashes, history>>

-----------------------------------------------------------------------------
(* pendingStore.add, for a submission and for an approval that puts back.  *)

\* SET of the record first, then RPUSH on the index
StoreItem(r) ==
  /\ pc[r] = "store"
  /\ item' = [item EXCEPT ![hold[r]] = "pending"]
  /\ Goto(r, "index")
  /\ UNCHANGED <<moderation, index, queued, hold, listed, crashes, history>>

StoreIndex(r) ==
  /\ pc[r] = "index"
  /\ index' = Append(index, hold[r])
  /\ acked' = acked \cup {hold[r]}
  /\ returned' = IF r \in Hosts THEN returned \cup {hold[r]} ELSE returned
  /\ Return(r)
  /\ UNCHANGED <<moderation, item, queued, crashes, shown, asked, entered, closed>>

\* store.addEntry: a full queue refuses a submission; an approval puts back.
Enqueue(r) ==
  /\ pc[r] = "enqueue"
  /\ \/ /\ QueueSize < QUEUE_MAX
        /\ queued' = [queued EXCEPT ![hold[r]] = @ + 1]
        /\ entered' = [entered EXCEPT ![hold[r]] = @ + 1]
        /\ acked' = acked \cup {hold[r]}
        /\ Return(r)
     \/ /\ QueueSize >= QUEUE_MAX
        /\ IF r \in Hosts THEN Goto(r, "store") /\ UNCHANGED <<hold, listed>> ELSE Return(r)
        /\ UNCHANGED <<queued, entered, acked>>
  /\ UNCHANGED <<moderation, store, crashes, shown, asked, returned, closed>>

\* An entry is played, or the host removes it.
LeaveQueue(id) ==
  /\ queued[id] > 0
  /\ queued' = [queued EXCEPT ![id] = @ - 1]
  /\ UNCHANGED <<moderation, store, pc, hold, listed, crashes, history>>

-----------------------------------------------------------------------------
(* POST /api/queue: the caps, the video lookup, then the moderation flag.  *)

Submit(r, id) ==
  /\ id \notin asked
  /\ Fits(id)
  /\ Start(r, id, "flag")
  /\ asked' = asked \cup {id}
  /\ UNCHANGED <<moderation, store, queued, crashes, shown, acked, entered, returned, closed>>

ReadModeration(r) ==
  /\ pc[r] = "flag"
  /\ Goto(r, IF moderation THEN "list" ELSE "enqueue")
  /\ UNCHANGED <<moderation, store, queued, hold, listed, crashes, history>>

-----------------------------------------------------------------------------
(* POST /api/host/pending/approve: take, the caps, addEntry or put back.   *)

\* take, GET.  A record that is gone or rejected is answered 404.  The host knows the
\* ids from a listing, perhaps an old one.
Approve(r, id) ==
  /\ id \in shown
  /\ item[id] = "pending"
  /\ Start(r, id, "unindex")
  /\ UNCHANGED <<moderation, store, queued, crashes, history>>

\* Mutant of TakeIndex: the id stays in the index.
TakeButLeaveIndex(r) ==
  /\ pc[r] = "unindex"
  /\ Goto(r, "delete")
  /\ UNCHANGED <<moderation, store, queued, hold, listed, crashes, history>>

\* take, LREM
TakeIndex(r) ==
  /\ pc[r] = "unindex"
  /\ index' = Without(index, hold[r])
  /\ Goto(r, "delete")
  /\ UNCHANGED <<moderation, item, queued, hold, listed, crashes, history>>

\* Mutant of TakeItem: the record stays.
TakeButLeaveItem(r) ==
  /\ pc[r] = "delete"
  /\ Goto(r, "gate")
  /\ UNCHANGED <<moderation, store, queued, hold, listed, crashes, history>>

\* take, DEL
TakeItem(r) ==
  /\ pc[r] = "delete"
  /\ item' = [item EXCEPT ![hold[r]] = "none"]
  /\ Goto(r, "gate")
  /\ UNCHANGED <<moderation, index, queued, hold, listed, crashes, history>>

\* Mutant of ApproveCheck: an entry that does not fit is not put back.
ApproveOrDrop(r) ==
  /\ pc[r] = "gate"
  /\ IF Fits(hold[r]) THEN Goto(r, "enqueue") /\ UNCHANGED <<hold, listed>> ELSE Return(r)
  /\ UNCHANGED <<moderation, store, queued, crashes, history>>

\* getQueue and checkSubmit
ApproveCheck(r) ==
  /\ pc[r] = "gate"
  /\ Goto(r, IF Fits(hold[r]) THEN "enqueue" ELSE "store")
  /\ UNCHANGED <<moderation, store, queued, hold, listed, crashes, history>>

-----------------------------------------------------------------------------
(* POST /api/host/pending/reject and POST /api/host/moderation.            *)

\* reject, GET
Reject(r, id) ==
  /\ id \in shown
  /\ item[id] = "pending"
  /\ Start(r, id, "refuse")
  /\ UNCHANGED <<moderation, store, queued, crashes, history>>

\* reject, SET with its TTL
RejectItem(r) ==
  /\ pc[r] = "refuse"
  /\ item' = [item EXCEPT ![hold[r]] = "rejected"]
  /\ Return(r)
  /\ UNCHANGED <<moderation, index, queued, crashes, history>>

\* The TTL of a rejected record; its id stays in the index.
Expire(id) ==
  /\ item[id] = "rejected"
  /\ item' = [item EXCEPT ![id] = "none"]
  /\ closed' = closed \cup {id}
  /\ UNCHANGED <<moderation, index, queued, pc, hold, listed, crashes, shown, asked, acked, entered, returned>>

\* setRoomModeration.  Any write of OFF sweeps the pending entries.
SetModeration(r, on) ==
  /\ Start(r, NoId, IF on THEN "idle" ELSE "sweep")
  /\ moderation' = on
  /\ UNCHANGED <<store, queued, crashes, history>>

\* Mutant of Sweep: no test of the stored status.
SweepBlindly(r) ==
  /\ pc[r] = "sweep"
  /\ item' = [id \in Ids |-> IF id \in Indexed THEN "rejected" ELSE item[id]]
  /\ Return(r)
  /\ UNCHANGED <<moderation, index, queued, crashes, history>>

\* REJECT_ALL_PENDING_SCRIPT
Sweep(r) ==
  /\ pc[r] = "sweep"
  /\ item' = [id \in Ids |-> IF id \in Indexed /\ item[id] = "pending"
                             THEN "rejected" ELSE item[id]]
  /\ index' = Kept(index, {id \in Ids : item[id] # "none"})
  /\ Return(r)
  /\ UNCHANGED <<moderation, queued, crashes, history>>

-----------------------------------------------------------------------------

\* The submission that only this host request still knows of.
InHand(r) == IF r \in Hosts /\ pc[r] \in {"gate", "enqueue", "store"} THEN {hold[r]} ELSE {}

\* The process behind a request dies: what it had done stays done.  (A poll that dies
\* is a poll that stops.)
Crash(r) ==
  /\ r \notin Pollers
  /\ pc[r] # "idle"
  /\ crashes < MaxCrashes
  /\ crashes' = crashes + 1
  /\ closed' = closed \cup InHand(r)
  /\ Return(r)
  /\ UNCHANGED <<moderation, store, queued, shown, asked, acked, entered, returned>>

Next ==
  \/ \E r \in Pollers : Poll(r)
  \/ \E r \in Submitters, id \in Ids : Submit(r, id)
  \/ \E r \in Hosts, id \in Ids : Approve(r, id) \/ Reject(r, id)
  \/ \E r \in Hosts, on \in BOOLEAN : SetModeration(r, on)
  \/ \E r \in Requests :
       \/ ListIds(r)
       \/ ListRecords(r)
       \/ \E id \in Ids : Prune(r, id)
       \/ ListDone(r)
       \/ StoreItem(r)
       \/ StoreIndex(r)
       \/ Enqueue(r)
       \/ ReadModeration(r)
       \/ TakeIndex(r)
       \/ TakeItem(r)
       \/ ApproveCheck(r)
       \/ RejectItem(r)
       \/ Sweep(r)
       \/ Crash(r)
  \/ \E id \in Ids : LeaveQueue(id) \/ Expire(id)

Spec == Init /\ [][Next]_vars

-----------------------------------------------------------------------------
(* Properties.                                                             *)

\* Every variable has its type.
TypeOK ==
  /\ moderation \in BOOLEAN
  /\ index \in Seq(Ids)
  /\ item \in [Ids -> {"none", "pending", "rejected"}]
  /\ queued \in [Ids -> Nat]
  /\ pc \in [Requests -> {"idle", "list", "fetch", "prune", "pruneThenStore", "store", "index",
                          "enqueue", "flag", "unindex", "delete", "gate", "refuse", "sweep"}]
  /\ hold \in [Requests -> Ids \cup {NoId}]
  /\ \A r \in Requests :
       pc[r] \in {"pruneThenStore", "store", "index", "enqueue", "flag", "unindex", "delete",
                  "gate", "refuse"} => hold[r] \in Ids
  /\ listed \in [Requests -> SUBSET Ids]
  /\ crashes \in 0..MaxCrashes
  /\ shown \subseteq asked /\ asked \subseteq Ids /\ acked \subseteq Ids /\ returned \subseteq Ids /\ closed \subseteq Ids
  /\ entered \in [Ids -> Nat]

\* "The entry is never silently lost": an acknowledged submission has a record, or
\* was queued, or is in the hand of one approval, or was rejected and expired, or was
\* in the hand of an approval that crashed.
NoSubmissionLost ==
  \A id \in acked :
    \/ item[id] # "none" \/ entered[id] > 0 \/ id \in closed
    \/ \E r \in Hosts : id \in InHand(r)

\* With one host request at a time, a submission enters the queue once at most, however
\* often it was put back, and although a crashed or racing request may have left parts.
EntersOnce == \A id \in Ids : entered[id] <= 1

\* A song that was approved does not reappear as refused: no record comes to life as
\* rejected (the defect the bulk script was written for).
NeverRefusedAfterTaken ==
  [][\A id \in Ids : item'[id] = "rejected" => item[id] # "none"]_vars

\* "Never a dangling index": an indexed id has its record, unless that was rejected and
\* has expired.
NeverDangling == \A id \in Indexed : item[id] # "none" \/ id \in closed

\* The caps are checked before the entry is stored: what the host has to decide on
\* exceeds the room's bound by at most one submission for each other request that may
\* be storing one, apart from what approvals put back.
PendingBound ==
  Cardinality((Pending \cap Indexed) \ returned) <= PENDING_ROOM_MAX + Cardinality(Submitters) - 1

Quiet == \A r \in Requests : pc[r] = "idle"

\* moderation/route.ts: "with moderation already off there should be no pending entries
\* at all", so that no patron waits for an approval that cannot come.
NoPatronStranded == Quiet /\ ~moderation => Pending = {}

\* listRoom prunes "never a live record's id": at rest a pending record is indexed, so
\* the host sees it and can decide on it.
PendingIsListed == Quiet => Pending \subseteq Indexed

\* What hosts are shown is there to be decided on, and bounded.
PendingIsSound == TypeOK /\ NeverDangling /\ PendingBound
=============================================================================
