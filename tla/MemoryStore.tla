----------------------------- MODULE MemoryStore -----------------------------
(***************************************************************************)
(* lib/store/memory.ts: a room's queue in the process, the driver of local *)
(* development and of the test suite, behind the same interface as the     *)
(* Redis one (QueueStore).  JavaScript runs a driver call to its end in    *)
(* one step; what interleaves is the requests, and the re-lay, which reads *)
(* the queue, computes an order and writes it back later.                  *)
(*                                                                         *)
(* clear, and rewriting without a snapshot, have no caller in the app.     *)
(***************************************************************************)
EXTENDS Lists

CONSTANTS Ids, Clients, QUEUE_MAX

MemoryStoreAssumption == QUEUE_MAX \in Nat \ {0} /\ IsFiniteSet(Clients)

VARIABLES
  queue,     \* r.queue
  paused,    \* r.paused
  call,      \* per client, the call its request is about to make
  plan       \* per client, the snapshot a re-lay read and the order it wants

vars == <<queue, paused, call, plan>>

NoCall == [op |-> "none"]
Add(id) == [op |-> "add", id |-> id]
Remove(id) == [op |-> "remove", id |-> id]
Arrange == [op |-> "arrange"]

NoPlan == [snapshot |-> <<>>, desired |-> <<>>]
Arrangements(s) == {t \in [1..Len(s) -> Range(s)] : IsInjective(t) /\ Range(t) = Range(s)}

\* A process starts with no rooms; the first call about one makes it.
Init ==
  /\ queue = <<>> /\ paused = FALSE
  /\ call = [c \in Clients |-> NoCall]
  /\ plan = [c \in Clients |-> NoPlan]

Returns(c) == call' = [call EXCEPT ![c] = NoCall] /\ plan' = [plan EXCEPT ![c] = NoPlan]

\* A request that will change the queue; a submission has drawn a fresh id.
Request(c, what) ==
  /\ call[c] = NoCall
  /\ \A id \in Ids : what = Add(id) => id \notin Range(queue) /\ \A d \in Clients : call[d] # what
  /\ call' = [call EXCEPT ![c] = what]
  /\ UNCHANGED <<queue, paused, plan>>

\* Mutant: full is looked at when the request comes in.
PushAnyway(c, id) ==
  /\ call[c] = Add(id)
  /\ queue' = Append(queue, id)
  /\ Returns(c) /\ UNCHANGED paused

addEntry(c, id) ==
  /\ call[c] = Add(id)
  /\ queue' = IF Len(queue) >= QUEUE_MAX THEN queue ELSE Append(queue, id)
  /\ Returns(c) /\ UNCHANGED paused

removeEntry(c, id) ==
  /\ call[c] = Remove(id)
  /\ queue' = Without(queue, id)
  /\ Returns(c) /\ UNCHANGED paused

\* Take the entry out and put it back where the clamped index says.
reorder(c, id, newIndex) ==
  LET rest == Without(queue, id)
      last == Len(queue) - 1
      k == IF newIndex < 0 THEN 0 ELSE IF newIndex > last THEN last ELSE newIndex
  IN /\ call[c] = Arrange /\ plan[c] = NoPlan
     /\ queue' = IF id \notin Range(queue) THEN queue
                 ELSE SubSeq(rest, 1, k) \o <<id>> \o SubSeq(rest, k + 1, Len(rest))
     /\ Returns(c) /\ UNCHANGED paused

\* relayQueue reads the queue (a copy), and orders what it read.
getQueue(c) ==
  /\ call[c] = Arrange /\ plan[c] = NoPlan /\ queue # <<>>
  /\ \E desired \in Arrangements(queue) :
       plan' = [plan EXCEPT ![c] = [snapshot |-> queue, desired |-> desired]]
  /\ UNCHANGED <<queue, paused, call>>

\* Mutant: what was read is written back as it was ordered.
PlanAlone(p) == p.desired

\* Merge on write: what is still there, in the wanted order, then what came since.
Merged(p) ==
  Kept(p.desired, Range(queue)) \o Kept(queue, Range(queue) \ Range(p.snapshot))

rewrite(c) ==
  /\ plan[c] # NoPlan
  /\ queue' = Merged(plan[c])
  /\ Returns(c) /\ UNCHANGED paused

advance ==
  /\ queue # <<>>
  /\ queue' = Tail(queue)
  /\ UNCHANGED <<paused, call, plan>>

setPaused ==
  /\ paused' \in BOOLEAN
  /\ UNCHANGED <<queue, call, plan>>

Next ==
  \/ \E c \in Clients :
       \/ Request(c, Arrange) \/ getQueue(c) \/ rewrite(c)
       \/ \E id \in Ids :
            \/ Request(c, Add(id)) \/ Request(c, Remove(id))
            \/ addEntry(c, id) \/ removeEntry(c, id)
            \/ \E k \in (-1)..QUEUE_MAX : reorder(c, id, k)
  \/ advance \/ setPaused

Spec == Init /\ [][Next]_vars

-----------------------------------------------------------------------------
TypeOK ==
  /\ queue \in Seq(Ids) /\ paused \in BOOLEAN
  /\ call \in [Clients -> {NoCall, Arrange} \cup {Add(id) : id \in Ids} \cup {Remove(id) : id \in Ids}]
  /\ plan \in [Clients -> [snapshot : Seq(Ids), desired : Seq(Ids)]]

Contract == INSTANCE QueueContract WITH list <- queue, asked <- call, Callers <- Clients

\* The two drivers keep one promise: in the process too, no submission is lost
\* between a re-lay's read and its write and no entry that left comes back
\* (memory.ts:85, "the SAME suffix-preservation contract as the Upstash Lua path").
ImplementsContract == Contract!Spec

\* And here the bound is exact, however many requests pass it at once, re-lays of
\* an older queue included (addEntry and rewrite, memory.ts:41, :74).
HardCap == Len(queue) <= QUEUE_MAX
=============================================================================
