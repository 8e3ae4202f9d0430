----------------------------- MODULE QueueStore -----------------------------
(***************************************************************************)
(* lib/store/upstash.ts: a room's queue as one Redis list, used by calls   *)
(* from stateless route handlers.  A Redis command, or a Lua script, is    *)
(* one step; a driver call is one or two of them, and the steps of the     *)
(* calls in flight interleave.                                             *)
(*                                                                         *)
(* An entry is its id: the payload is opaque to the list operations (what  *)
(* a stale payload does is RoomQueue's subject).  The caller's side of the *)
(* contract is in the guard of AddCheck: an id is added only when it is    *)
(* not queued nor being added (route handlers draw a fresh uuid).          *)
(* Rewriting the list without a snapshot, and clear, have no caller in the *)
(* app and are left out, as is the paused flag.                            *)
(***************************************************************************)
EXTENDS Lists, TLC

CONSTANTS
  Ids,         \* entry ids
  NoId,        \* no id
  Clients,     \* calls in flight, one per client at a time
  QUEUE_MAX    \* soft bound on the queue, 200 in the code

ASSUME NoIdAssumption == NoId \notin Ids
ASSUME ClientsAssumption == IsFiniteSet(Clients)
ASSUME QueueMaxAssumption == QUEUE_MAX \in Nat \ {0}

VARIABLES
  queue,   \* the Redis list
  pc,      \* per client: what its call does next
  arg,     \* the id an add or a remove is about
  snap,    \* the ids a read-modify-write call read
  want     \* the list it computed from them

vars == <<queue, pc, arg, snap, want>>

-----------------------------------------------------------------------------
(* Lists.                                                                  *)

\* Mutants of Merge: del and rpush, which loses a racing add; a script that does not
\* tell the entries of the snapshot from arrivals.
DelAndPush(current, desired, snapshot) == desired
AppendCurrent(current, desired, snapshot) == Kept(desired, Range(current)) \o current

\* MERGE_SCRIPT: the desired entries that are still queued, in the desired
\* order, then the entries that arrived after the caller's read.
Merge(current, desired, snapshot) ==
  Kept(desired, Range(current)) \o Kept(current, Range(current) \ Range(snapshot))

\* Array.splice twice: take id out and put it back at index k of the rest.
Moved(s, id, k) ==
  LET rest == Without(s, id)
  IN  SubSeq(rest, 1, k) \o <<id>> \o SubSeq(rest, k + 1, Len(rest))

\* The orders a caller may compute for a queue it read (orderQueue is one).
Arrangements(s) == {t \in [1..Len(s) -> Range(s)] : IsInjective(t) /\ Range(t) = Range(s)}

-----------------------------------------------------------------------------
(* Calls.                                                                  *)

Init ==
  /\ queue = <<>>
  /\ pc = [c \in Clients |-> "idle"]
  /\ arg = [c \in Clients |-> NoId]
  /\ snap = [c \in Clients |-> <<>>]
  /\ want = [c \in Clients |-> <<>>]

Goto(c, label) == pc' = [pc EXCEPT ![c] = label]

\* Mutant of Return: the locals are gone and the call goes on.
ForgetLocals(c) ==
  /\ UNCHANGED pc
  /\ arg' = [arg EXCEPT ![c] = NoId]
  /\ snap' = [snap EXCEPT ![c] = <<>>]
  /\ want' = [want EXCEPT ![c] = <<>>]

\* The call returns and its locals are gone.
Return(c) ==
  /\ Goto(c, "idle")
  /\ arg' = [arg EXCEPT ![c] = NoId]
  /\ snap' = [snap EXCEPT ![c] = <<>>]
  /\ want' = [want EXCEPT ![c] = <<>>]

HasRoomAtBound == Len(queue) <= QUEUE_MAX   \* mutant of HasRoom

HasRoom == Len(queue) < QUEUE_MAX

\* LLEN.  At the bound the call returns false and changes nothing.
AddCheck(c, id) ==
  /\ pc[c] = "idle"
  /\ id \notin Range(queue)
  /\ \A d \in Clients : pc[d] = "push" => arg[d] # id
  /\ HasRoom
  /\ arg' = [arg EXCEPT ![c] = id]
  /\ Goto(c, "push")
  /\ UNCHANGED <<queue, snap, want>>

\* RPUSH
AddPush(c) ==
  /\ pc[c] = "push"
  /\ queue' = Append(queue, arg[c])
  /\ Return(c)

\* LRANGE of a read-modify-write call, which remembers what it read.
Read(c, desired, label) ==
  /\ pc[c] = "idle"
  /\ snap' = [snap EXCEPT ![c] = queue]
  /\ want' = [want EXCEPT ![c] = desired]
  /\ Goto(c, label)
  /\ UNCHANGED queue

\* An id that is not found returns false and changes nothing.
RemoveRead(c, id) ==
  /\ id \in Range(queue)
  /\ Read(c, Without(queue, id), "remove")
  /\ arg' = [arg EXCEPT ![c] = id]

ReorderRead(c, id, newIndex) ==
  /\ id \in Range(queue)
  /\ Read(c, Moved(queue, id, newIndex), "arrange")
  /\ UNCHANGED arg

\* relayQueue: nothing to do for a queue of one.
RelayRead(c, order) ==
  /\ Len(queue) > 1
  /\ order \in Arrangements(queue)
  /\ Read(c, order, "arrange")
  /\ UNCHANGED arg

\* EVAL MERGE_SCRIPT
Apply(c) ==
  /\ pc[c] \in {"remove", "arrange"}
  /\ queue' = Merge(queue, want[c], snap[c])
  /\ Return(c)

\* LPOP; the LINDEX that follows only reads.
Advance ==
  /\ queue # <<>>
  /\ queue' = Tail(queue)
  /\ UNCHANGED <<pc, arg, snap, want>>

Next ==
  \/ \E c \in Clients, id \in Ids : AddCheck(c, id)
  \/ \E c \in Clients : AddPush(c)
  \/ \E c \in Clients, id \in Ids : RemoveRead(c, id)
  \/ \E c \in Clients, id \in Ids : \E k \in 0..(Len(queue) - 1) : ReorderRead(c, id, k)
  \/ \E c \in Clients : \E order \in Arrangements(queue) : RelayRead(c, order)
  \/ \E c \in Clients : Apply(c)
  \/ Advance

Spec == Init /\ [][Next]_vars

-----------------------------------------------------------------------------
(* Properties.                                                             *)

\* Every variable has its type.
TypeOK ==
  /\ queue \in Seq(Ids)
  /\ pc \in [Clients -> {"idle", "push", "remove", "arrange"}]
  /\ arg \in [Clients -> Ids \cup {NoId}]
  /\ \A c \in Clients : pc[c] \in {"push", "remove"} => arg[c] \in Ids
  /\ snap \in [Clients -> Seq(Ids)]
  /\ want \in [Clients -> Seq(Ids)]

\* No entry is ever queued twice, whatever reads and writes interleave: the
\* desired list and the late arrivals that the script joins are disjoint.
NoDuplicates == IsInjective(queue)

Pushing == {c \in Clients : pc[c] = "push"}

\* addEntry's check and push are two commands ("a small race window here is an
\* acceptable DoS guard"): the overshoot is at most one entry for each other call in
\* flight.
SoftCap == Len(queue) + Cardinality(Pushing) <= QUEUE_MAX + Cardinality(Clients) - 1

\* The pending effect of each call, for the contract.
Asked == [c \in Clients |->
            CASE pc[c] = "push"    -> [op |-> "add", id |-> arg[c]]
              [] pc[c] = "remove"  -> [op |-> "remove", id |-> arg[c]]
              [] pc[c] = "arrange" -> [op |-> "arrange"]
              [] OTHER             -> [op |-> "none"]]

Contract == INSTANCE QueueContract WITH list <- queue, asked <- Asked, Callers <- Clients

\* The driver keeps the store's promise: each call takes effect atomically, no
\* racing submission is lost and no entry that left is brought back.
ImplementsContract == Contract!Spec

\* For TLC: ids and clients are interchangeable.
Symmetry == Permutations(Ids) \cup Permutations(Clients)
=============================================================================
