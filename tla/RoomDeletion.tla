----------------------------- MODULE RoomDeletion -----------------------------
(***************************************************************************)
(* scripts/delete-room.ts over the engine of lib/room-delete.ts: one room's   *)
(* keys deleted from a plan, verified, and put back from a snapshot, beside   *)
(* requests of that room that were already running, a host who makes the room *)
(* anew, and a script that may be killed at any step.                         *)
(*                                                                            *)
(* db maps a key to the set of things stored there; a key with nothing in it  *)
(* is absent, as an empty Redis list is.  A record is its revision, any other  *)
(* plain value is 1, and the pending index holds the ids of pending items,     *)
(* which are keys of their own; the key "flag" stands for the plain values of  *)
(* a room that are handled alike (session epoch, pause flag, revocation mark). *)
(* Each member of Writers is one request.  The run without --apply writes      *)
(* nothing and is the Abort of a plan, as a confirmation that does not match.  *)
(***************************************************************************)
EXTENDS Lists

CONSTANTS
  Items,       \* ids of pending entries
  Writers,     \* requests of the room
  Identities,  \* uuids a creator can have
  MaxRooms,    \* creations under this slug
  MaxRuns      \* runs of the script

FixedOrder == <<"meta", "flag", "queue", "index">>
Fixed == Range(FixedOrder)
Keys == Fixed \cup Items
ListKeys == {"queue", "index"}

RoomDeletionAssumption ==
  /\ {MaxRooms, MaxRuns} \subseteq Nat
  /\ IsFiniteSet(Items) /\ Items \cap (Fixed \cup {"members"}) = {}

VARIABLES
  db, members,   \* the room's keys, and the identity sets that list it
  created,       \* rooms created under the slug
  linking,       \* addRoom calls under way
  writer,        \* each request: the commands it has left, its item and the revision it read
  op,            \* the script
  snapshot,      \* the snapshot file
  fresh          \* what requests changed since the script last looked at it (history)

requests == <<linking, writer>>
vars == <<db, members, created, requests, op, snapshot, fresh>>

Nothing == [k \in {} |-> {}]
NoSnapshot == [keys |-> Nothing, memberships |-> {}]
NoRun == [at |-> "idle", verifying |-> FALSE, todo |-> <<>>, keys |-> <<>>, known |-> {},
          unaccounted |-> {}, memberships |-> {}, taken |-> Nothing, status |-> "none", runs |-> 0]
NoWriter == [todo |-> <<>>, item |-> {}, rev |-> 0]
Answered == [todo |-> <<>>, item |-> {"answered"}, rev |-> 0]

Init ==
  /\ db = [k \in Keys |-> {}] /\ members = {} /\ created = 0 /\ linking = {}
  /\ writer = [w \in Writers |-> NoWriter]
  /\ op = NoRun /\ snapshot = NoSnapshot /\ fresh = {}

Exists(k) == db[k] # {}
Revision == CHOOSE r \in db["meta"] : TRUE
Watched == op.verifying \/ op.status = "deleted" \/ op.at = "restore"
Fresh(k) == fresh' = IF Watched THEN fresh \cup {k} ELSE {}
Store(k, v) == db' = [db EXCEPT ![k] = v] /\ Fresh(k)

\* ---- the room's life ----

\* createRoom on a free slug; the creator's identity is indexed later.
Create(u) ==
  /\ ~Exists("meta") /\ created < MaxRooms
  /\ created' = created + 1
  /\ Store("meta", {0})
  /\ linking' = linking \cup {u}
  /\ UNCHANGED <<members, writer, op, snapshot>>

AddRoom(u) ==
  /\ u \in linking
  /\ linking' = linking \ {u} /\ members' = members \cup {u}
  /\ Fresh("members")
  /\ UNCHANGED <<db, created, writer, op, snapshot>>

\* The store commands of the requests that write: a song, a pause, a setting, a
\* revocation; a song held for approval, its approval and its rejection.
CommandsFor(i) ==
  {<<<<"put", "queue">>>>, <<<<"put", "meta">>>>, <<<<"put", "flag">>, <<"put", "meta">>>>} \cup
  (IF Exists(i) THEN {<<<<"drop", "index">>, <<"drop", i>>, <<"put", "queue">>>>, <<<<"put", i>>>>}
   ELSE {<<<<"put", i>>, <<"put", "index">>>>})

\* A request starts while the room is there and has read its record.
Begin(w) ==
  /\ Exists("meta") /\ writer[w] = NoWriter
  /\ \E i \in Items : \E commands \in CommandsFor(i) :
       /\ \A v \in Writers : i \notin writer[v].item
       /\ writer' = [writer EXCEPT ![w] =
            [todo |-> commands, item |-> {i}, rev |-> Revision]]
  /\ UNCHANGED <<db, members, created, linking, op, snapshot, fresh>>

Done(w) ==
  LET left == writer[w].todo
  IN  writer' = [writer EXCEPT ![w] =
        IF Len(left) = 1 THEN Answered ELSE [writer[w] EXCEPT !.todo = Tail(left)]]

Command(w, verb, k) ==
  /\ writer[w].todo # <<>> /\ Head(writer[w].todo) = <<verb, k>>
  /\ UNCHANGED <<members, created, linking, op, snapshot>>

Put(w, k) ==
  /\ k # "meta" /\ Command(w, "put", k)
  /\ Store(k, IF k = "index" THEN db[k] \cup writer[w].item ELSE {1})
  /\ Done(w)

Drop(w, k) ==
  /\ Command(w, "drop", k)
  /\ db' = [db EXCEPT ![k] = IF k = "index" THEN @ \ writer[w].item ELSE {}]
  /\ Fresh(k) /\ Done(w)

\* mutateRoom: written if the stored revision is the one read, read again if
\* another write came first, nothing if there is no record.
CompareAndSet(w) ==
  /\ Command(w, "put", "meta")
  /\ \/ /\ ~Exists("meta")
        /\ Done(w) /\ UNCHANGED <<db, fresh>>
     \/ /\ Exists("meta") /\ Revision = writer[w].rev
        /\ Store("meta", {writer[w].rev + 1})
        /\ Done(w)
     \/ /\ Exists("meta") /\ Revision # writer[w].rev
        /\ writer' = [writer EXCEPT ![w].rev = Revision]
        /\ UNCHANGED <<db, fresh>>

\* ---- the script ----

At(step) == op.at = step
AtKey(step, k) == At(step) /\ op.todo # <<>> /\ Head(op.todo) = k
Quiet == UNCHANGED <<created, requests>>
Look(k) == fresh' = fresh \ k

RunDelete ==
  /\ At("idle") /\ op.runs < MaxRuns
  /\ op' = [NoRun EXCEPT !.at = "index", !.runs = op.runs + 1]
  /\ UNCHANGED <<db, members, snapshot, fresh>> /\ Quiet

\* The ids of the index, in the order they happen to have there.
Listing(S) == CHOOSE f \in [1..Cardinality(S) -> S] : IsInjective(f)

\* buildPlan: the fixed keys and the items the index lists.
Derive ==
  /\ At("index")
  /\ op' = [op EXCEPT !.at = "types", !.known = Fixed \cup db["index"], !.keys = <<>>,
              !.todo = FixedOrder \o Listing(db["index"])]
  /\ UNCHANGED <<db, members, snapshot, fresh>> /\ Quiet

Type(k) ==
  /\ AtKey("types", k)
  /\ op' = [op EXCEPT !.todo = Tail(@), !.keys = IF Exists(k) THEN Append(@, k) ELSE @,
              !.at = IF Len(op.todo) = 1 THEN "scan" ELSE @]
  /\ Look({k}) /\ UNCHANGED <<db, members, snapshot>> /\ Quiet

\* The mistake of verifying the planned keys alone.
TrustThePlan ==
  /\ At("scan")
  /\ op' = [op EXCEPT !.at = "members", !.unaccounted = {}]
  /\ Look(Items \ op.known) /\ UNCHANGED <<db, members, snapshot>> /\ Quiet

CrossCheck ==
  /\ At("scan")
  /\ op' = [op EXCEPT !.at = "members",
              !.unaccounted = {k \in Items : Exists(k)} \ op.known]
  /\ Look(Items \ op.known) /\ UNCHANGED <<db, members, snapshot>> /\ Quiet

Memberships ==
  /\ At("members")
  /\ op' = [op EXCEPT !.memberships = members,
              !.at = IF op.verifying THEN "report" ELSE "confirm"]
  /\ Look({"members"}) /\ UNCHANGED <<db, members, snapshot>> /\ Quiet

Applicable == op.unaccounted = {} /\ (op.keys # <<>> \/ op.memberships # {})
End(status) == op' = [NoRun EXCEPT !.status = status, !.runs = op.runs]

\* The gate refuses, or the operator does.
Abort ==
  /\ At("confirm")
  /\ End(IF op.unaccounted # {} THEN "refused" ELSE "none")
  /\ UNCHANGED <<db, members, snapshot, fresh>> /\ Quiet

Confirm ==
  /\ At("confirm") /\ Applicable
  /\ op' = [op EXCEPT !.at = "snapshot", !.todo = op.keys]
  /\ UNCHANGED <<db, members, snapshot, fresh>> /\ Quiet

TakeSnapshot(k) ==
  /\ AtKey("snapshot", k)
  /\ op' = [op EXCEPT !.todo = Tail(@),
              !.taken = IF Exists(k) THEN [x \in DOMAIN @ \cup {k} |-> IF x = k THEN db[k] ELSE @[x]]
                        ELSE @]
  /\ UNCHANGED <<db, members, snapshot, fresh>> /\ Quiet

SaveSnapshot ==
  /\ At("snapshot") /\ op.todo = <<>>
  /\ snapshot' = [keys |-> op.taken, memberships |-> op.memberships]
  /\ op' = [op EXCEPT !.at = "record"]
  /\ UNCHANGED <<db, members, fresh>> /\ Quiet

Del(ks) == db' = [k \in Keys |-> IF k \in ks THEN {} ELSE db[k]]

\* applyDelete: the record first, the other planned keys, the memberships.
DeleteRecord ==
  /\ At("record")
  /\ Del(Range(op.keys) \cap {"meta"})
  /\ op' = [op EXCEPT !.at = "rest"]
  /\ UNCHANGED <<members, snapshot, fresh>> /\ Quiet

DeleteRest ==
  /\ At("rest")
  /\ Del(Range(op.keys) \ {"meta"})
  /\ op' = [op EXCEPT !.at = "srem"]
  /\ UNCHANGED <<members, snapshot, fresh>> /\ Quiet

RemoveMemberships ==
  /\ At("srem")
  /\ members' = members \ op.memberships
  /\ op' = [op EXCEPT !.at = "index", !.verifying = TRUE]
  /\ UNCHANGED <<db, snapshot, fresh>> /\ Quiet

Report ==
  /\ At("report")
  /\ End(IF op.keys = <<>> /\ op.unaccounted \cup op.memberships = {} THEN "deleted" ELSE "leftovers")
  /\ UNCHANGED <<db, members, snapshot, fresh>> /\ Quiet

\* ---- the undo ----

\* validateSnapshot: an item the snapshot's own index does not list is refused.
Valid(s) ==
  \A k \in DOMAIN s.keys \cap Items :
    "index" \in DOMAIN s.keys /\ k \in s.keys["index"]

PlanOrder == Kept(FixedOrder \o Listing(Items), DOMAIN snapshot.keys)
\* The record goes back last.
RecordLast ==
  Kept(PlanOrder, Keys \ {"meta"}) \o Kept(PlanOrder, {"meta"})

RunRestore ==
  /\ At("idle") /\ op.runs < MaxRuns /\ snapshot # NoSnapshot
  /\ IF Valid(snapshot)
     THEN op' = [NoRun EXCEPT !.at = "clashes", !.todo = PlanOrder, !.runs = op.runs + 1]
     ELSE op' = [NoRun EXCEPT !.status = "refused", !.runs = op.runs + 1]
  /\ UNCHANGED <<db, members, snapshot, fresh>> /\ Quiet

CheckClash(k) ==
  /\ AtKey("clashes", k)
  /\ IF Exists(k) THEN End("refused") ELSE op' = [op EXCEPT !.todo = Tail(@)]
  /\ UNCHANGED <<db, members, snapshot, fresh>> /\ Quiet

StartRestore ==
  /\ At("clashes") /\ op.todo = <<>>
  /\ op' = [op EXCEPT !.at = "restore", !.todo = RecordLast]
  /\ UNCHANGED <<db, members, snapshot, fresh>> /\ Quiet

RestoreKey(k) ==
  /\ AtKey("restore", k)
  /\ db' = [db EXCEPT ![k] = snapshot.keys[k] \cup (IF k \in ListKeys THEN @ ELSE {})]
  /\ Look({k})
  /\ op' = [op EXCEPT !.todo = Tail(@)]
  /\ UNCHANGED <<members, snapshot>> /\ Quiet

RestoreMemberships ==
  /\ At("restore") /\ op.todo = <<>>
  /\ members' = members \cup snapshot.memberships
  /\ End("restored") /\ UNCHANGED <<db, snapshot, fresh>> /\ Quiet

Killed ==
  /\ ~At("idle")
  /\ End("none") /\ UNCHANGED <<db, members, snapshot, fresh>> /\ Quiet

Script ==
  \/ RunDelete \/ Derive \/ CrossCheck \/ Memberships \/ Abort \/ Confirm \/ SaveSnapshot
  \/ DeleteRecord \/ DeleteRest \/ RemoveMemberships \/ Report
  \/ RunRestore \/ StartRestore \/ RestoreMemberships \/ Killed
  \/ \E k \in Keys : Type(k) \/ TakeSnapshot(k) \/ CheckClash(k) \/ RestoreKey(k)

Room ==
  \/ \E u \in Identities : Create(u) \/ AddRoom(u)
  \/ \E w \in Writers : Begin(w) \/ CompareAndSet(w)
  \/ \E w \in Writers, k \in Keys : Put(w, k) \/ Drop(w, k)

Next == Script \/ Room
Spec == Init /\ [][Next]_vars

\* ---- properties ----

\* "Verified: no key and no membership remains": what is there after a clean report
\* was written after the verification looked for it.
ReportIsHonest ==
  op.status = "deleted" =>
    /\ \A k \in Keys : Exists(k) => k \in fresh
    /\ members # {} => "members" \in fresh

\* "The room only reappears once it is complete": when the script puts the record
\* back, every key of the snapshot is there, or a request of the room took it away.
ReappearsComplete ==
  [][AtKey("restore", "meta") /\ op'.at = "restore" /\ op' # op =>
       \A k \in DOMAIN snapshot.keys : Exists(k)' \/ k \in fresh]_vars

\* "A rerun removes them because they are all on the code-derived list": a pending
\* item left over by a run is listed by the index, or about to be.
RerunRemovesLeftovers ==
  op.status = "leftovers" =>
    \A i \in Items : Exists(i) =>
      i \in db["index"] \/ \E w \in Writers : i \in writer[w].item
=============================================================================
