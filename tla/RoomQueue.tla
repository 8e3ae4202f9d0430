------------------------------ MODULE RoomQueue ------------------------------
(***************************************************************************)
(* The route handlers that change a room's queue: POST /api/queue, POST    *)
(* /api/queue/advance and POST /api/host/{skip,mode,remove,reorder}.       *)
(* Handlers are stateless and run concurrently; each awaited store call is *)
(* one or two Redis steps, and what a handler read before an await may be  *)
(* stale after it.  Here entries carry their payload, so that a stale copy *)
(* written back is seen.  Authentication, rate limits and telemetry do not *)
(* touch the queue and are left out; moderation is Moderation's subject.   *)
(***************************************************************************)
EXTENDS Rotation, Lists, TLC

CONSTANTS
  Handlers,      \* requests in flight at a time
  Songs,         \* what patrons submit: records uuid, table, video, kind
  Opening,       \* the songs queued when the behaviour starts, in order
  Modes,         \* the room modes the host uses
  QUEUE_MAX,     \* soft bound on the queue, 200 in the code
  MaxSubmits,    \* bound on submissions
  MaxSkips,      \* bound on grace skips
  MaxEdits       \* bound on mode switches, removes and reorders

Song == [uuid : Participants, table : Tables \cup {NoTable}, video : Int, kind : Kinds]

ASSUME HandlersAssumption == IsFiniteSet(Handlers)
ASSUME SongsAssumption == Songs \subseteq Song /\ Opening \in Seq(Song)
ASSUME ModesAssumption == Modes \subseteq VenueModes /\ Modes # {}
ASSUME BoundsAssumption == {QUEUE_MAX, MaxSubmits, MaxSkips, MaxEdits} \subseteq Nat

VARIABLES
  queue,     \* the Redis list of entries, its head the now-playing entry
  mode,      \* the room record's mode
  clock,     \* the time, one tick for each timestamp taken
  pc,        \* per handler: its next step
  local,     \* per handler: entry, room mode read, list and ids read
  budget,    \* what the environment may still ask for
  acked,     \* history: ids pushed onto the list
  gone,      \* history: ids played, removed by the host or reported lost
  uncapped   \* history: ids accepted under a mode without the person cap

vars == <<queue, mode, clock, pc, local, budget, acked, gone, uncapped>>
history == <<acked, gone, uncapped>>

IdsOf(s) == {e.id : e \in Range(s)}

\* The entries of s whose id is not among ids, in their order.
Outside(s, ids) == Kept(s, {e \in Range(s) : e.id \notin ids})

Entry(x, id, at) ==
  [id |-> id, uuid |-> x.uuid, table |-> x.table, video |-> x.video,
   kind |-> x.kind, at |-> at, grace |-> FALSE]

NoLocal == [entry |-> <<>>, mode |-> "full-karaoke", want |-> <<>>, snap |-> {}]

\* Mutants of Merge: del and rpush; a script without the presence test; one that keeps
\* the current order.
DelAndPush(current, desired, snapshot) == desired
MergeResurrecting(current, desired, snapshot) ==
  desired \o Outside(current, snapshot)
MergeInPlace(current, desired, snapshot) ==
  Kept(current, {e \in Range(current) : e.id \in IdsOf(desired) \/ e.id \notin snapshot})

\* MERGE_SCRIPT on entries: the desired copies win, arrivals are kept.
Merge(current, desired, snapshot) ==
  Kept(desired, {e \in Range(desired) : e.id \in IdsOf(current)}) \o Outside(current, snapshot)

Init ==
  /\ mode \in Modes
  /\ queue = OrderQueue([i \in DOMAIN Opening |-> Entry(Opening[i], i, i)], mode)
  /\ clock = Len(Opening)
  /\ pc = [h \in Handlers |-> "idle"]
  /\ local = [h \in Handlers |-> NoLocal]
  /\ budget = [submits |-> MaxSubmits, skips |-> MaxSkips, edits |-> MaxEdits]
  /\ acked = DOMAIN Opening
  /\ gone = {}
  /\ uncapped = IF mode = "per-person-1" THEN {} ELSE DOMAIN Opening

-----------------------------------------------------------------------------
(* Steps shared by the handlers.                                           *)

Goto(h, label) == pc' = [pc EXCEPT ![h] = label]

Return(h) == Goto(h, "idle") /\ local' = [local EXCEPT ![h] = NoLocal]

Spend(kind) == budget[kind] > 0 /\ budget' = [budget EXCEPT ![kind] = @ - 1]

HasRoomAtBound == Len(queue) <= QUEUE_MAX   \* mutant of HasRoom

HasRoom == Len(queue) < QUEUE_MAX

\* addEntry, LLEN.  A full queue refuses: the submission is answered 429, and a
\* no-show who was already removed is reported lost.
AddCheck(h) ==
  /\ pc[h] = "add"
  /\ \/ HasRoom /\ Goto(h, "push") /\ UNCHANGED <<local, gone>>
     \/ /\ ~HasRoom
        /\ Return(h)
        /\ gone' = gone \cup (IF local[h].entry.grace THEN {local[h].entry.id} ELSE {})
  /\ UNCHANGED <<queue, mode, clock, budget, acked, uncapped>>

\* addEntry, RPUSH.  A submit re-lays under the mode it read at its start, a grace
\* skip reads the mode now.
AddPush(h) ==
  /\ pc[h] = "push"
  /\ LET e == local[h].entry
     IN  /\ queue' = Append(queue, e)
         /\ Goto(h, IF e.grace THEN "mode" ELSE "relay")
         /\ acked' = acked \cup {e.id}
         /\ uncapped' = IF e.grace \/ local[h].mode = "per-person-1"
                        THEN uncapped ELSE uncapped \cup {e.id}
  /\ UNCHANGED <<mode, clock, local, budget, gone>>

\* getRoomMode
ReadMode(h) ==
  /\ pc[h] = "mode"
  /\ local' = [local EXCEPT ![h].mode = mode]
  /\ Goto(h, "relay")
  /\ UNCHANGED <<queue, mode, clock, budget, history>>

\* LRANGE of a call that will write back the list desired.
ReadList(h, desired, label) ==
  /\ local' = [local EXCEPT ![h].want = desired, ![h].snap = IdsOf(queue)]
  /\ Goto(h, label)

\* relayQueue, its read.
RelayRead(h) ==
  /\ pc[h] = "relay"
  /\ \/ Len(queue) <= 1 /\ Return(h)
     \/ Len(queue) > 1 /\ ReadList(h, OrderQueue(queue, local[h].mode), "relayApply")
  /\ UNCHANGED <<queue, mode, clock, budget, history>>

WriteBack(h) == queue' = Merge(queue, local[h].want, local[h].snap)

\* The script of a re-lay or of a reorder: the handler is done.
ApplyOrder(h) ==
  /\ pc[h] \in {"relayApply", "reorderApply"}
  /\ WriteBack(h)
  /\ Return(h)
  /\ UNCHANGED <<mode, clock, budget, history>>

-----------------------------------------------------------------------------
(* POST /api/queue: the entry with its time, then the room mode.           *)

Submit(h, x) ==
  /\ pc[h] = "idle"
  /\ Spend("submits")
  /\ clock' = clock + 1
  /\ LET id == Len(Opening) + MaxSubmits - budget'["submits"]
     IN  local' = [local EXCEPT ![h].entry = Entry(x, id, clock'), ![h].mode = mode]
  /\ Goto(h, "check")
  /\ UNCHANGED <<queue, mode, history>>

\* Mutant of SubmitCheck: the submission is not checked.
SubmitUnchecked(h) ==
  /\ pc[h] = "check"
  /\ Goto(h, "add")
  /\ UNCHANGED <<queue, mode, clock, local, budget, history>>

\* getQueue and checkSubmit; a refusal is answered 409.
SubmitCheck(h) ==
  /\ pc[h] = "check"
  /\ IF CheckSubmit(queue, local[h].entry, local[h].mode)
     THEN Goto(h, "add") /\ UNCHANGED local
     ELSE Return(h)
  /\ UNCHANGED <<queue, mode, clock, budget, history>>

-----------------------------------------------------------------------------
(* POST /api/host/skip with grace, and the pop of the other skips.         *)

\* nowPlaying: the singer on stage did not show up.
GraceSkip(h) ==
  /\ pc[h] = "idle"
  /\ Spend("skips")
  /\ queue # <<>> /\ Head(queue).kind = "sing"
  /\ local' = [local EXCEPT ![h].entry = Head(queue)]
  /\ Goto(h, "removeHead")
  /\ UNCHANGED <<queue, mode, clock, history>>

\* Mutant of Regraced: a time ahead of the clock.
RegracedLate(h) == [local[h].entry EXCEPT !.grace = TRUE, !.at = clock + 2]

\* The entry that will be added again takes the flag and a new time.
Regraced(h) == [local[h].entry EXCEPT !.grace = TRUE, !.at = clock + 1]

\* removeEntry, LRANGE.  The route ignores its result: an entry that is no longer
\* there is added again all the same.
GraceRemoveRead(h) ==
  /\ pc[h] = "removeHead"
  /\ LET id == local[h].entry.id
     IN  \/ /\ id \in IdsOf(queue)
            /\ ReadList(h, Outside(queue, {id}), "removeHeadApply")
            /\ UNCHANGED clock
         \/ /\ id \notin IdsOf(queue)
            /\ local' = [local EXCEPT ![h].entry = Regraced(h)]
            /\ clock' = clock + 1
            /\ Goto(h, "add")
  /\ UNCHANGED <<queue, mode, budget, history>>

GraceRemoveApply(h) ==
  /\ pc[h] = "removeHeadApply"
  /\ WriteBack(h)
  /\ local' = [local EXCEPT ![h].entry = Regraced(h), ![h].want = <<>>, ![h].snap = {}]
  /\ clock' = clock + 1
  /\ Goto(h, "add")
  /\ UNCHANGED <<mode, budget, history>>

\* LPOP: the TV at the end of a video, its watchdog, a plain skip.  The queue is
\* not laid out again.
Advance ==
  /\ queue # <<>>
  /\ queue' = Tail(queue)
  /\ gone' = gone \cup {Head(queue).id}
  /\ UNCHANGED <<mode, clock, pc, local, budget, acked, uncapped>>

-----------------------------------------------------------------------------
(* POST /api/host/mode, remove and reorder.                                *)

\* setRoomMode; the re-lay uses the new mode.
SwitchMode(h, m) ==
  /\ pc[h] = "idle"
  /\ Spend("edits")
  /\ mode' = m
  /\ local' = [local EXCEPT ![h].mode = m]
  /\ Goto(h, "relay")
  /\ UNCHANGED <<queue, clock, history>>

RemoveRead(h, id) ==
  /\ pc[h] = "idle"
  /\ Spend("edits")
  /\ id \in IdsOf(queue)
  /\ ReadList(h, Outside(queue, {id}), "removeApply")
  /\ UNCHANGED <<queue, mode, clock, history>>

RemoveApply(h) ==
  /\ pc[h] = "removeApply"
  /\ WriteBack(h)
  /\ Return(h)
  /\ gone' = gone \cup (local[h].snap \ IdsOf(local[h].want))
  /\ UNCHANGED <<mode, clock, budget, acked, uncapped>>

\* The first entry with the id moves to index k.
ReorderRead(h, id, k) ==
  /\ pc[h] = "idle"
  /\ Spend("edits")
  /\ id \in IdsOf(queue)
  /\ LET i == CHOOSE i \in DOMAIN queue :
                queue[i].id = id /\ \A j \in 1..(i - 1) : queue[j].id # id
         rest == SubSeq(queue, 1, i - 1) \o SubSeq(queue, i + 1, Len(queue))
     IN  ReadList(h, SubSeq(rest, 1, k) \o <<queue[i]>> \o SubSeq(rest, k + 1, Len(rest)),
                  "reorderApply")
  /\ UNCHANGED <<queue, mode, clock, history>>

-----------------------------------------------------------------------------

Next ==
  \/ Advance
  \/ \E h \in Handlers :
       \/ \E x \in Songs : Submit(h, x)
       \/ SubmitCheck(h)
       \/ AddCheck(h)
       \/ AddPush(h)
       \/ ReadMode(h)
       \/ RelayRead(h)
       \/ ApplyOrder(h)
       \/ GraceSkip(h)
       \/ GraceRemoveRead(h)
       \/ GraceRemoveApply(h)
       \/ \E m \in Modes \ {mode} : SwitchMode(h, m)
       \/ \E id \in IdsOf(queue) : RemoveRead(h, id)
       \/ RemoveApply(h)
       \/ \E id \in IdsOf(queue), k \in 0..(Len(queue) - 1) : ReorderRead(h, id, k)

Spec == Init /\ [][Next]_vars

-----------------------------------------------------------------------------
(* Properties.                                                             *)

\* A no-show between its removal and its second place in the queue.
InHand == {local[h].entry.id : h \in {g \in Handlers :
             pc[g] \in {"add", "push"} /\ local[g].entry.grace}}

Ids == 1..(Len(Opening) + MaxSubmits)

\* Every variable has its type, and the history is about entries that exist.
TypeOK ==
  /\ mode \in Modes
  /\ \A e \in Range(queue) :
       e.id \in Ids /\ e.uuid \in Participants /\ e.kind \in Kinds /\ e.at \in 1..clock
  /\ pc \in [Handlers -> {"idle", "check", "add", "push", "mode", "relay", "relayApply",
                          "removeHead", "removeHeadApply", "removeApply", "reorderApply"}]
  /\ \A h \in Handlers : local[h].mode \in VenueModes /\ local[h].snap \subseteq Ids
  /\ gone \subseteq acked /\ acked \subseteq Ids /\ uncapped \subseteq acked

\* "No submit can ever be lost": once its push is acknowledged, a song is in the
\* queue until it is played, removed by the host, or reported lost by a grace skip.
NoSubmissionLost == acked \subseteq gone \cup IdsOf(queue) \cup InHand

\* "The vanished id is NOT resurrected": an entry that left comes back only when a
\* grace skip that ignored the failed removal pushes it again.
OnlyGraceBringsBack ==
  [][(IdsOf(queue') \ IdsOf(queue)) \cap gone # {} =>
       \E h \in Handlers : pc[h] = "push" /\ pc'[h] = "mode"]_vars

\* "It self-heals on the next relay": whatever raced before, a re-lay that nothing
\* overtakes pins the now-playing entry and leaves the effective order.  Nothing
\* overtook it when the list still holds what it read.  Copies that racing grace skips
\* left are no disorder: a re-lay that read two of an entry writes two back.
RelayHeals ==
  [][\A h \in Handlers :
       pc[h] = "relayApply" /\ pc'[h] = "idle"
         /\ Len(queue) = Len(local[h].want) /\ Range(queue) = Range(local[h].want)
         /\ Cardinality(IdsOf(queue)) = Len(queue)
         /\ queue[1] = local[h].want[1]
       => queue' = OrderQueue(queue, local[h].mode)]_vars

\* The check and the push of a submission are apart: of the songs accepted under
\* per-person-1, a person exceeds the cap by at most one for each other request.
PersonCapOvershoot ==
  \A u \in Participants :
    Cardinality({e.id : e \in {f \in Range(queue) : f.uuid = u /\ f.kind = "sing"}} \ uncapped)
      <= PER_PERSON_CAP + Cardinality(Handlers) - 1

\* The queue grows past its bound by at most one song for each other request.  It is
\* songs that are counted: of the copies that racing grace skips leave of one no-show,
\* a merge restores as many as it read, and three requests can so exceed the bound by
\* copies alone.
QueueBound == Cardinality(IdsOf(queue)) <= QUEUE_MAX + Cardinality(Handlers) - 1

\* rotation.ts, relayQueue: the queue is laid out so that "`advance`/`skip` ... play
\* the effective head".  With no request in flight, the entry that an advance
\* brings on stage is the one that the room was shown as next.
AdvancePlaysTheEffectiveHead ==
  [][(\A h \in Handlers : pc[h] = "idle") /\ Len(queue) > 1 /\ queue' = Tail(queue)
       => Head(queue').id = OrderQueue(queue, mode)[2].id]_vars

\* skip/route.ts: the no-show's entry is re-queued "with the grace flag".  While it
\* is queued, the entry keeps the flag.
GraceFlagStays ==
  [][\A e \in Range(queue), f \in Range(queue') :
       e.id = f.id /\ e.grace => f.grace]_vars

\* The caps are checked before the push: racing requests overshoot a person's and the
\* queue's by one entry each, and no more.
CapsOvershootBoundedly == TypeOK /\ PersonCapOvershoot /\ QueueBound

\* What a race undid mends: nothing that left comes back but by a grace skip, and the
\* next quiet re-lay restores the order.
RacesMend == OnlyGraceBringsBack /\ RelayHeals
=============================================================================
