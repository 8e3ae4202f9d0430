--------------------------- MODULE ModerationProofs ---------------------------
(***************************************************************************)
(* Proofs about Moderation.  For any number of hosts, submitters, polls    *)
(* and crashes: an acknowledged submission is never silently lost.  With   *)
(* one host request at a time, and any number of the others: a submission  *)
(* enters the queue once, what was approved does not come back as refused, *)
(* and the pending list is sound and bounded.                              *)
(***************************************************************************)
EXTENDS Moderation, ListTheorems

\* What the argument needs of the types.
Typed ==
  /\ item \in [Ids -> {"none", "pending", "rejected"}]
  /\ entered \in [Ids -> Nat]
  /\ pc \in [Requests -> {"idle", "list", "fetch", "prune", "pruneThenStore", "store", "index",
                          "enqueue", "flag", "unindex", "delete", "gate", "refuse", "sweep"}]
  /\ hold \in [Requests -> Ids \cup {NoId}]
  /\ \A r \in Requests :
       pc[r] \in {"pruneThenStore", "store", "index", "enqueue", "flag", "unindex", "delete",
                  "gate", "refuse"} => hold[r] \in Ids
  /\ \A r \in Requests : pc[r] \in {"unindex", "delete", "gate", "refuse"} => r \in Hosts

\* What has become of a submission that was acknowledged.
Accounted(id) ==
  \/ item[id] # "none" \/ entered[id] > 0 \/ id \in closed
  \/ \E r \in Hosts : pc[r] \in {"gate", "enqueue", "store"} /\ hold[r] = id

\* The one that is about to be acknowledged counts from the moment its record is
\* stored: an approval may take the record before its id is indexed.
IInv ==
  /\ Typed
  /\ acked \subseteq Ids
  /\ \A id \in acked : Accounted(id)
  /\ \A r \in Requests : pc[r] = "index" => Accounted(hold[r])

\* Nothing is acknowledged at first.
LEMMA InitEstablishesIInv == Init => IInv
BY DEF Init, IInv, Typed

\* One step of a request: what it holds is settled by the step, and nobody else's
\* submission is disturbed.
LEMMA Step ==
  ASSUME IInv, Typed', acked' \subseteq Ids,
         NEW r \in Requests,
         \A s \in Requests : s # r => pc'[s] = pc[s] /\ hold'[s] = hold[s],
         closed \subseteq closed',
         \A id \in Ids : entered'[id] >= entered[id],
         \A id \in Ids : item[id] # "none" =>
           \/ item'[id] # "none"
           \/ r \in Hosts /\ hold[r] = id /\ pc'[r] = "gate" /\ hold'[r] = id,
         (r \in Hosts /\ pc[r] \in {"gate", "enqueue", "store"}) =>
            \/ pc'[r] \in {"gate", "enqueue", "store"} /\ hold'[r] = hold[r]
            \/ item'[hold[r]] # "none" \/ entered'[hold[r]] > 0 \/ hold[r] \in closed',
         \A id \in acked' : id \in acked \/ Accounted(id) \/ entered'[id] > 0,
         pc'[r] = "index" => item'[hold'[r]] # "none"
  PROVE  IInv'
<1>1. \A id \in Ids : Accounted(id) => Accounted(id)'
  <2> SUFFICES ASSUME NEW id \in Ids, Accounted(id) PROVE Accounted(id)'
    OBVIOUS
  <2>1. CASE item[id] # "none"
    BY <2>1 DEF Accounted
  <2>2. CASE entered[id] > 0
    BY <2>2 DEF Accounted, IInv, Typed
  <2>3. CASE id \in closed
    BY <2>3 DEF Accounted
  <2>4. ASSUME NEW s \in Hosts, pc[s] \in {"gate", "enqueue", "store"}, hold[s] = id
        PROVE  Accounted(id)'
    BY <2>4 DEF Accounted, Requests
  <2> QED
    BY <2>1, <2>2, <2>3, <2>4 DEF Accounted
<1>2. \A id \in acked' : Accounted(id)'
  BY <1>1 DEF IInv, Accounted
<1>3. \A s \in Requests : pc'[s] = "index" => Accounted(hold[s])'
  <2> SUFFICES ASSUME NEW s \in Requests, pc'[s] = "index" PROVE Accounted(hold[s])'
    OBVIOUS
  <2>1. CASE s = r
    BY <2>1 DEF Accounted
  <2>2. CASE s # r
    <3>1. PICK id \in Ids : id = hold[s] /\ id = hold'[s] /\ Accounted(id)
      BY <2>2 DEF IInv, Typed
    <3>2. Accounted(id)'
      BY <1>1, <3>1
    <3> QED
      BY <3>1, <3>2
  <2> QED
    BY <2>1, <2>2
<1> QED
  BY <1>2, <1>3 DEF IInv

\* A listing, with the prunes it makes, and the read of the moderation flag lose no record.
LEMMA ListingStep ==
  ASSUME IInv, NEW r \in Requests,
         ListIds(r) \/ ListRecords(r) \/ (\E id \in Ids : Prune(r, id)) \/ ListDone(r)
           \/ ReadModeration(r)
  PROVE  IInv'
<1>1. /\ UNCHANGED <<item, entered, acked, closed>>
      /\ hold' \in {hold, [hold EXCEPT ![r] = NoId]}
      /\ \A s \in Requests : s # r => pc'[s] = pc[s] /\ hold'[s] = hold[s]
      /\ Typed' /\ pc'[r] # "index" /\ pc[r] \notin {"gate", "enqueue", "store"}
  BY DEF ListIds, ListRecords, Prune, ListDone, ReadModeration, Return, Goto, store, history,
     IInv, Typed
<1> QED
  BY <1>1, Step DEF IInv, Typed

\* A call begins.
LEMMA StartStep ==
  ASSUME IInv, NEW r \in Requests,
         \/ Poll(r)
         \/ \E id \in Ids : Submit(r, id)
         \/ r \in Hosts /\ \E id \in Ids : Approve(r, id) \/ Reject(r, id)
         \/ \E on \in BOOLEAN : SetModeration(r, on)
  PROVE  IInv'
<1>1. /\ UNCHANGED <<item, entered, acked, closed>>
      /\ \A s \in Requests : s # r => pc'[s] = pc[s] /\ hold'[s] = hold[s]
      /\ Typed' /\ pc'[r] # "index" /\ pc[r] = "idle"
  BY DEF Poll, Submit, Approve, Reject, SetModeration, Start, Goto, store, history, IInv, Typed
<1> QED
  BY <1>1, Step DEF IInv, Typed

\* A submission is stored before it is acknowledged.
LEMMA StoreStep ==
  ASSUME IInv, NEW r \in Requests, StoreItem(r) \/ StoreIndex(r)
  PROVE  IInv'
<1>1. /\ hold[r] \in Ids
      /\ \A s \in Requests : s # r => pc'[s] = pc[s] /\ hold'[s] = hold[s]
      /\ UNCHANGED <<entered, closed>> /\ Typed'
  <2>1. Typed /\ pc[r] \in {"store", "index"} /\ hold[r] \in Ids
    BY DEF StoreItem, StoreIndex, IInv, Typed
  <2>2. CASE StoreItem(r)
    BY <2>1, <2>2 DEF StoreItem, Goto, history, Typed
  <2>3. CASE StoreIndex(r)
    BY <2>1, <2>3 DEF StoreIndex, Return, Goto, Typed
  <2> QED
    BY <2>1, <2>2, <2>3
<1>2. CASE StoreItem(r)
  <2>1. /\ UNCHANGED <<hold, acked>> /\ pc[r] = "store" /\ pc'[r] = "index"
        /\ item'[hold[r]] # "none" /\ \A id \in Ids : item[id] # "none" => item'[id] # "none"
        /\ acked \subseteq Ids
    BY <1>1, <1>2 DEF StoreItem, Goto, history, IInv, Typed
  <2> QED
    BY <1>1, <2>1, Step DEF IInv, Typed
<1>3. CASE StoreIndex(r)
  <2>1. /\ Accounted(hold[r]) /\ acked' = acked \cup {hold[r]} /\ acked \subseteq Ids
        /\ UNCHANGED item /\ pc[r] = "index" /\ pc'[r] = "idle"
    BY <1>1, <1>3 DEF StoreIndex, Return, Goto, IInv, Typed
  <2> QED
    BY <1>1, <2>1, Step DEF IInv, Typed
<1> QED
  BY <1>2, <1>3

\* What was taken is queued, put back or refused.
LEMMA EnqueueStep ==
  ASSUME IInv, NEW r \in Requests, Enqueue(r)
  PROVE  IInv'
<1>1. /\ hold[r] \in Ids /\ pc[r] = "enqueue"
      /\ \A s \in Requests : s # r => pc'[s] = pc[s] /\ hold'[s] = hold[s]
      /\ UNCHANGED <<item, closed>> /\ Typed' /\ pc'[r] # "index"
  BY DEF Enqueue, Return, Goto, store, IInv, Typed
<1>2. CASE entered' = [entered EXCEPT ![hold[r]] = @ + 1] /\ acked' = acked \cup {hold[r]}
  BY <1>1, <1>2, Step DEF IInv, Typed
<1>3. CASE UNCHANGED <<entered, acked>> /\ (r \in Hosts => pc'[r] = "store" /\ UNCHANGED hold)
  BY <1>1, <1>3, Step DEF IInv, Typed
<1> QED
  BY <1>1, <1>2, <1>3 DEF Enqueue, Goto, Return, IInv, Typed

\* An approval takes the record, and holds it.
LEMMA TakeStep ==
  ASSUME IInv, NEW r \in Requests, TakeIndex(r) \/ TakeItem(r) \/ ApproveCheck(r)
  PROVE  IInv'
<1>1. /\ hold[r] \in Ids /\ r \in Hosts /\ UNCHANGED <<hold, entered, acked, closed>>
      /\ \A s \in Requests : s # r => pc'[s] = pc[s]
      /\ Typed'
  BY DEF TakeIndex, TakeItem, ApproveCheck, Goto, store, history, IInv, Typed
<1>2. CASE TakeIndex(r)
  BY <1>1, <1>2, Step DEF TakeIndex, Goto, IInv, Typed
<1>3. CASE TakeItem(r)
  BY <1>1, <1>3, Step DEF TakeItem, Goto, IInv, Typed
<1>4. CASE ApproveCheck(r)
  BY <1>1, <1>4, Step DEF ApproveCheck, Goto, store, IInv, Typed
<1> QED
  BY <1>2, <1>3, <1>4

\* A rejection leaves the record, marked, or closes the submission.
LEMMA RejectStep ==
  ASSUME IInv, NEW r \in Requests, RejectItem(r) \/ Sweep(r)
  PROVE  IInv'
<1>1. /\ UNCHANGED <<entered, acked, closed>> /\ Typed'
      /\ \A s \in Requests : s # r => pc'[s] = pc[s] /\ hold'[s] = hold[s]
      /\ pc'[r] # "index" /\ pc[r] \notin {"gate", "enqueue", "store"}
      /\ \A id \in Ids : item[id] # "none" => item'[id] # "none"
  BY DEF RejectItem, Sweep, Return, Goto, history, IInv, Typed
<1> QED
  BY <1>1, Step DEF IInv, Typed

\* What a crashed approval had in its hand is closed with it; nothing else is lost.
LEMMA CrashStep ==
  ASSUME IInv, NEW r \in Requests, Crash(r)
  PROVE  IInv'
<1>1. /\ UNCHANGED <<item, entered, acked>> /\ Typed'
      /\ \A s \in Requests : s # r => pc'[s] = pc[s] /\ hold'[s] = hold[s]
      /\ pc'[r] # "index" /\ closed' = closed \cup InHand(r)
  BY DEF Crash, Return, Goto, store, IInv, Typed
<1> QED
  BY <1>1, Step DEF InHand, IInv, Typed

\* A song leaves the queue, or a record expires, which closes its submission.
LEMMA ElsewhereStep ==
  ASSUME IInv, NEW id \in Ids, LeaveQueue(id) \/ Expire(id)
  PROVE  IInv'
<1>1. /\ UNCHANGED <<entered, acked, pc, hold>> /\ Typed'
      /\ closed \subseteq closed'
      /\ \A x \in Ids : item[x] # "none" => item'[x] # "none" \/ x \in closed'
  BY DEF LeaveQueue, Expire, store, history, IInv, Typed
<1>2. \A x \in Ids : Accounted(x) => Accounted(x)'
  BY <1>1 DEF Accounted
<1>3. \A r \in Requests : pc'[r] = "index" => hold[r] \in Ids
  BY <1>1 DEF IInv, Typed
<1> QED
  BY <1>1, <1>2, <1>3 DEF IInv, Accounted

\* Every step preserves the invariant.
LEMMA NextKeepsIInv == IInv /\ [Next]_vars => IInv'
<1> SUFFICES ASSUME IInv, [Next]_vars PROVE IInv'
  OBVIOUS
<1>1. CASE UNCHANGED vars
  BY <1>1 DEF vars, store, history, IInv, Typed, Accounted
<1> QED
  BY <1>1, ListingStep, StartStep, StoreStep, EnqueueStep, TakeStep, RejectStep, CrashStep,
     ElsewhereStep DEF Next, Requests

\* Whatever approvals, rejections, sweeps, put-backs and crashes interleave, an
\* acknowledged submission has its record, was queued, is in one approval's hand, or
\* was closed: "the entry is never silently lost" (host/pending/approve/route.ts).
THEOREM NoneIsLost == Spec => []NoSubmissionLost
<1>1. IInv => NoSubmissionLost
  BY DEF IInv, Accounted, NoSubmissionLost, InHand
<1> QED
  BY <1>1, InitEstablishesIInv, NextKeepsIInv, PTL DEF Spec
-----------------------------------------------------------------------------
(* One host request at a time: what enters the queue, and what is pending. *)

\* The deployment the moderation run checks: a host that waits for an answer before the
\* next tap.  Two approvals at a time do queue one submission twice.
OneHost == \A g, h \in Hosts : g = h

\* The steps of each kind of request, and when it is about a submission.
Role(r) ==
  /\ r \in Hosts => pc[r] \in {"idle", "sweep", "refuse", "unindex", "delete", "gate",
                               "enqueue", "store", "index"}
  /\ r \in Submitters => pc[r] \in {"idle", "flag", "list", "fetch", "prune",
                                    "pruneThenStore", "store", "index", "enqueue"}
  /\ r \in Pollers => pc[r] \in {"idle", "list", "fetch", "prune"}
  /\ hold[r] = NoId <=> r \in Pollers \/ pc[r] \in {"idle", "sweep"}
  /\ hold[r] \in asked \cup {NoId} /\ IsFiniteSet(listed[r])

Unseen(id) == id \notin shown \cup Indexed /\ \A r \in Requests : id \notin listed[r]

\* What a request about a submission relies on: nobody else knows of one that is being
\* made, it has not entered the queue, and what was read of its record is still so.
Own(r) ==
  /\ r \in Submitters => Unseen(hold[r])
  /\ entered[hold[r]] = 0
  /\ item[hold[r]] = IF pc[r] \in {"refuse", "unindex", "delete", "index"}
                     THEN "pending" ELSE "none"
  /\ pc[r] \in {"delete", "gate", "enqueue", "store", "index"} => hold[r] \notin Indexed

\* A submission being made is its own request's, what has a record has not entered the
\* queue, and of a submission still to be made nothing is known.
Apart ==
  /\ \A r \in Requests : Role(r) /\ (hold[r] # NoId => Own(r))
  /\ \A s \in Submitters, r \in Requests : hold[s] # NoId /\ r # s => hold[r] # hold[s]
  /\ \A id \in Ids : entered[id] \in {0, 1} /\ (item[id] # "none" => entered[id] = 0)
  /\ \A id \in Ids \ asked : Unseen(id) /\ item[id] = "none" /\ entered[id] = 0

\* What is listed to be decided on and was not put back.
New == (Pending \cap Indexed) \ returned

\* A submission that will be stored although these are pending, or may be: its count
\* is behind it, or the ids it is about to count leave too many of these out.
Blind(s, Y) ==
  \/ pc[s] \in {"pruneThenStore", "store", "index"}
  \/ pc[s] = "fetch" /\ Cardinality(listed[s] \cap Y) < PENDING_ROOM_MAX

\* Any of the new ones that are as many as the bound leave room for the submissions
\* that are blind to them, less one: the patron who made them that many.  Said of every
\* subset it survives approvals and rejections, which shrink the list but not the
\* number of the blind.
Bounded ==
  \A Y \in SUBSET New : Cardinality(Y) >= PENDING_ROOM_MAX =>
    Cardinality(Y) + Cardinality({s \in Submitters : Blind(s, Y)})
      <= PENDING_ROOM_MAX + Cardinality(Submitters) - 1

HostInv == TypeOK /\ Apart /\ NeverDangling

\* The requests of the three kinds are different.
LEMMA Kinds ==
  ASSUME NEW r \in Requests, NEW h \in Hosts, NEW s \in Submitters, NEW p \in Pollers
  PROVE  h # s /\ s # p /\ h # p /\ {h, s, p} \subseteq Requests
  BY ProcessAssumption DEF Requests

\* Nothing is asked for at first.
LEMMA InitHostInv == Init => HostInv
<1> SUFFICES ASSUME Init PROVE HostInv
  OBVIOUS
<1>1. Range(<<>>) = {} /\ index \in Seq(Ids) /\ IsFiniteSet({}) /\ 0 \in 0..MaxCrashes
  BY FS_EmptySet, BoundAssumption DEF Init, Range
<1>2. TypeOK
  BY <1>1 DEF Init, TypeOK
<1>3. \A r \in Requests : Role(r) /\ hold[r] = NoId
  BY <1>1, ProcessAssumption DEF Init, Role, Requests
<1>4. Apart /\ NeverDangling
  BY <1>1, <1>3 DEF Init, Apart, NeverDangling, Unseen, Indexed, Requests
<1> QED
  BY <1>2, <1>4 DEF HostInv

\* With one host no two requests are about the same submission.
LEMMA Alone ==
  ASSUME TypeOK, Apart, OneHost, NEW q \in Requests, NEW r \in Requests, q # r,
         hold[q] # NoId
  PROVE  hold[q] # hold[r] /\ hold[q] \in Ids
<1>1. hold[q] \in Ids
  BY DEF TypeOK
<1>2. CASE q \in Submitters \/ r \in Submitters
  BY <1>1, <1>2 DEF Apart
<1>3. CASE q \in Pollers \/ r \in Pollers
  BY <1>1, <1>3 DEF Apart, Role
<1> QED
  BY <1>1, <1>2, <1>3 DEF OneHost, Requests

\* What a step of r leaves of a submission that r is not about: a sweep may reject it.
Spared(r, id) ==
  /\ Unseen(id) => Unseen(id)'
  /\ id \in Indexed' => id \in Indexed
  /\ entered'[id] = entered[id]
  /\ \/ item'[id] = item[id]
     \/ r \in Hosts /\ id \in Indexed /\ item[id] = "pending" /\ item'[id] = "rejected"

\* One step of a request: it goes on about its submission, or ends, or begins about one
\* that is new, or that was listed.
LEMMA HostStep ==
  ASSUME TypeOK, Apart, OneHost, NEW r \in Requests,
         \A q \in Requests : q # r => 
           pc'[q] = pc[q] /\ hold'[q] = hold[q] /\ listed'[q] = listed[q],
         Role(r)',
         \A id \in Ids : id # hold[r] => Spared(r, id),
         \/ hold'[r] \in {hold[r], NoId}
         \/ r \in Submitters /\ hold'[r] \in Ids \ asked
         \/ r \in Hosts /\ hold'[r] \in shown,
         hold'[r] # NoId => Own(r)',
         hold[r] # NoId => /\ entered'[hold[r]] \in {0, 1}
                           /\ item'[hold[r]] # "none" => entered'[hold[r]] = 0,
         asked \subseteq asked'
  PROVE  Apart'
<1>0. \A q \in Requests : Role(q)'
  BY DEF Apart, Role
<1>1. ASSUME NEW q \in Requests, hold'[q] # NoId PROVE Own(q)'
  <2>1. CASE q = r
    BY <2>1, <1>1
  <2>2. CASE q # r
    <3>1. hold'[q] = hold[q] /\ pc'[q] = pc[q] /\ hold[q] # NoId /\ Own(q)
      BY <2>2, <1>1 DEF Apart
    <3>2. Spared(r, hold[q])
      BY <3>1, <2>2, Alone
    <3>3. item'[hold[q]] = item[hold[q]]
      <4>1. CASE q \in Submitters
        BY <3>1, <3>2, <4>1 DEF Own, Unseen, Spared
      <4>2. CASE q \in Hosts
        BY <2>2, <3>2, <4>2 DEF OneHost, Spared
      <4>3. q \notin Pollers
        BY <3>1 DEF Apart, Role
      <4> QED
        BY <4>1, <4>2, <4>3 DEF Requests
    <3> QED
      BY <3>1, <3>2, <3>3 DEF Own, Spared
  <2> QED
    BY <2>1, <2>2
<1>2. ASSUME NEW s \in Submitters, NEW q \in Requests, hold'[s] # NoId, q # s
      PROVE  hold'[q] # hold'[s]
  <2>1. s \in Requests /\ s \notin Hosts
    BY ProcessAssumption DEF Requests
  <2>2. CASE s # r /\ q # r
    BY <1>2, <2>1, <2>2 DEF Apart
  <2>3. CASE q = r
    <3>1. hold'[s] = hold[s] /\ hold[s] # hold[r] /\ Unseen(hold[s]) /\ hold[s] \in asked
      BY <1>2, <2>1, <2>3, OwnerAssumption DEF Apart, Own, Role
    <3> QED
      BY <1>2, <2>3, <3>1 DEF Unseen
  <2>4. CASE s = r
    <3>1. hold'[q] = hold[q] /\ hold[q] \in asked \cup {NoId}
      BY <1>2, <2>4 DEF Apart, Role
    <3>2. hold[r] # NoId => hold[q] # hold[r]
      BY <1>2, <2>4 DEF Apart
    <3> QED
      BY <1>2, <2>1, <2>4, <3>1, <3>2, OwnerAssumption
  <2> QED
    BY <2>2, <2>3, <2>4
<1>3. ASSUME NEW id \in Ids
      PROVE  entered'[id] \in {0, 1} /\ (item'[id] # "none" => entered'[id] = 0)
  <2>1. CASE id = hold[r]
    BY <2>1, OwnerAssumption
  <2>2. CASE id # hold[r]
    BY <2>2 DEF Apart, Spared
  <2> QED
    BY <2>1, <2>2
<1>4. ASSUME NEW id \in Ids \ asked'
      PROVE  Unseen(id)' /\ item'[id] = "none" /\ entered'[id] = 0
  <2>1. id \notin asked /\ id # hold[r] /\ Unseen(id) /\ item[id] = "none" /\ entered[id] = 0
    BY OwnerAssumption DEF Apart, Role
  <2> QED
    BY <2>1 DEF Spared
<1> QED
  BY <1>0, <1>1, <1>2, <1>3, <1>4 DEF Apart

\* What a step may do to the state of requests: r's alone changes.
Only(r) ==
  /\ \E label : pc' = [pc EXCEPT ![r] = label]
  /\ \E id \in Ids \cup {NoId} : hold' = [hold EXCEPT ![r] = id]
  /\ \E ids \in SUBSET Ids : listed' = [listed EXCEPT ![r] = ids]

\* The conjuncts of TypeOK that are not about requests.
TypedData ==
  /\ moderation \in BOOLEAN
  /\ index \in Seq(Ids)
  /\ item \in [Ids -> {"none", "pending", "rejected"}]
  /\ queued \in [Ids -> Nat]
  /\ crashes \in 0..MaxCrashes
  /\ shown \subseteq asked /\ asked \subseteq Ids /\ acked \subseteq Ids /\ returned \subseteq Ids /\ closed \subseteq Ids
  /\ entered \in [Ids -> Nat]

LEMMA TypesKept ==
  ASSUME TypeOK, Apart, NEW r \in Requests, Only(r), Role(r)', asked \subseteq asked', TypedData'
  PROVE  /\ TypeOK'
         /\ \A q \in Requests : q # r =>
              pc'[q] = pc[q] /\ hold'[q] = hold[q] /\ listed'[q] = listed[q]
<1>1. \A q \in Requests : q # r =>
              pc'[q] = pc[q] /\ hold'[q] = hold[q] /\ listed'[q] = listed[q]
  BY DEF Only, TypeOK
<1>2. hold' \in [Requests -> Ids \cup {NoId}] /\ listed' \in [Requests -> SUBSET Ids]
  BY DEF Only, TypeOK
<1>3. \A q \in Requests : Role(q)'
  BY <1>1 DEF Apart, Role
<1>4. pc' \in [Requests -> {"idle", "list", "fetch", "prune", "pruneThenStore", "store", "index",
                          "enqueue", "flag", "unindex", "delete", "gate", "refuse", "sweep"}]
  <2>1. DOMAIN pc' = Requests /\ pc' = [q \in Requests |-> pc'[q]]
    BY DEF Only, TypeOK
  <2>2. \A q \in Requests : pc'[q] \in {"idle", "list", "fetch", "prune", "pruneThenStore", "store", "index",
                          "enqueue", "flag", "unindex", "delete", "gate", "refuse", "sweep"}
    BY <1>3 DEF Role, Requests
  <2> QED
    BY <2>1, <2>2
<1>5. \A q \in Requests :
       pc'[q] \in {"pruneThenStore", "store", "index", "enqueue", "flag", "unindex", "delete",
                  "gate", "refuse"} => hold'[q] \in Ids
  BY <1>2, <1>3 DEF Role
<1> QED
  BY <1>1, <1>2, <1>4, <1>5 DEF TypeOK, TypedData

\* What a request is about, or lists, may stay.
LEMMA Stays ==
  ASSUME TypeOK, NEW r \in Requests
  PROVE  /\ pc = [pc EXCEPT ![r] = pc[r]]
         /\ hold = [hold EXCEPT ![r] = hold[r]] /\ hold[r] \in Ids \cup {NoId}
         /\ listed = [listed EXCEPT ![r] = listed[r]] /\ listed[r] \in SUBSET Ids
  BY DEF TypeOK

\* A call begins: about a submission nobody knows of, about one that a listing showed to
\* be pending, or about none.
LEMMA StartKeepsHostInv ==
  ASSUME HostInv, OneHost, NEW r \in Requests,
         \/ r \in Pollers /\ Poll(r)
         \/ r \in Submitters /\ \E id \in Ids : Submit(r, id)
         \/ r \in Hosts /\ \E id \in Ids : Approve(r, id) \/ Reject(r, id)
         \/ r \in Hosts /\ \E on \in BOOLEAN : SetModeration(r, on)
  PROVE  HostInv'
<1>1. TypeOK /\ Apart
  BY DEF HostInv
<1>2. PICK id \in Ids \cup {NoId} :
        /\ hold' = [hold EXCEPT ![r] = id] /\ pc[r] = "idle" /\ moderation' \in BOOLEAN
        /\ UNCHANGED <<index, item, entered, shown, listed, closed, queued, crashes, acked, returned>>
        /\ \/ r \in Pollers /\ id = NoId /\ pc' = [pc EXCEPT ![r] = "list"] /\ UNCHANGED asked
           \/ /\ r \in Submitters /\ id \in Ids \ asked /\ pc' = [pc EXCEPT ![r] = "flag"]
              /\ asked' = asked \cup {id}
           \/ /\ r \in Hosts /\ id \in shown /\ item[id] = "pending" /\ UNCHANGED asked
              /\ \E label \in {"unindex", "refuse"} : pc' = [pc EXCEPT ![r] = label]
           \/ /\ r \in Hosts /\ id = NoId /\ UNCHANGED asked
              /\ \E label \in {"idle", "sweep"} : pc' = [pc EXCEPT ![r] = label]
  BY <1>1 DEF Poll, Submit, Approve, Reject, SetModeration, Start, Goto, store, history, TypeOK
<1>3. Role(r)' /\ hold'[r] = id
  BY <1>1, <1>2, ProcessAssumption, OwnerAssumption DEF TypeOK, Apart, Role
<1>4. Only(r) /\ TypedData' /\ asked \subseteq asked'
  BY <1>1, <1>2, Stays DEF Only, TypedData, TypeOK
<1>5. \A x \in Ids : Spared(r, x)
  BY <1>2 DEF Spared, Unseen, Indexed
<1>6. id # NoId => Own(r)'
  BY <1>1, <1>2, <1>3, ProcessAssumption DEF Own, TypeOK, Apart, Unseen, Indexed
<1>7. hold[r] = NoId
  BY <1>1, <1>2 DEF Apart, Role
<1>8. \/ hold'[r] \in {hold[r], NoId}
      \/ r \in Submitters /\ hold'[r] \in Ids \ asked
      \/ r \in Hosts /\ hold'[r] \in shown
  BY <1>2, <1>3
<1>9. TypeOK' /\ Apart'
  BY <1>1, <1>3, <1>4, <1>5, <1>6, <1>7, <1>8, TypesKept, HostStep
<1>10. NeverDangling'
  BY <1>2 DEF HostInv, NeverDangling, Indexed
<1> QED
  BY <1>9, <1>10 DEF HostInv

\* Only so many ids are listed.
LEMMA IndexedIsFinite ==
  ASSUME TypeOK
  PROVE  IsFiniteSet(Indexed) /\ Indexed \subseteq Ids
<1>1. /\ index \in [1..Len(index) -> Ids] /\ Len(index) \in Nat
  BY DEF TypeOK
<1>2. index \in Surjection(1..Len(index), Range(index)) /\ Range(index) \subseteq Ids
  BY <1>1 DEF Surjection, Range
<1>3. IsFiniteSet(1..Len(index))
  BY <1>1, FS_Interval
<1> QED
  BY <1>2, <1>3, FS_Surjection DEF Indexed

\* A step that leaves the records, the index and the queue as they are.
LEMMA QuietStep ==
  ASSUME HostInv, OneHost, NEW r \in Requests,
         Only(r), Role(r)', hold'[r] \in {hold[r], NoId},
         listed'[r] \subseteq listed[r] \cup Indexed,
         shown' \in {shown, shown \cup (listed[r] \cap Pending)},
         UNCHANGED <<moderation, index, item, entered, queued, acked, returned, asked>>,
         closed \subseteq closed', closed' \subseteq Ids, crashes' \in 0..MaxCrashes,
         hold'[r] # NoId =>
           \/ pc'[r] = pc[r]
           \/ /\ {pc[r], pc'[r]} \cap {"refuse", "unindex", "delete", "index"} = {}
              /\ pc'[r] \in {"gate", "enqueue", "store"} => pc[r] = "gate" \/ r \in Submitters
  PROVE  HostInv'
<1>1. TypeOK /\ Apart
  BY DEF HostInv
<1>2. \A x \in Ids : Unseen(x) => x \notin listed[r]
  BY DEF Unseen
<1>3. TypedData'
  BY <1>1, <1>2 DEF TypeOK, TypedData, Apart
<1>4. TypeOK' /\ \A q \in Requests : q # r =>
                   pc'[q] = pc[q] /\ hold'[q] = hold[q] /\ listed'[q] = listed[q]
  BY <1>1, <1>3, TypesKept
<1>5. \A x \in Ids : Spared(r, x) /\ (Unseen(x) => Unseen(x)')
  BY <1>2, <1>4 DEF Spared, Unseen, Indexed
<1>6. ASSUME hold'[r] # NoId PROVE Own(r)'
  <2>1. hold'[r] = hold[r] /\ hold[r] \in Ids /\ Own(r) /\ Role(r)
    BY <1>1, <1>4, <1>6 DEF Apart, TypeOK
  <2> QED
    BY <1>5, <1>6, <2>1, ProcessAssumption DEF Own, Unseen, Indexed, Role
<1>7. /\ asked \subseteq asked'
      /\ hold[r] # NoId => /\ entered'[hold[r]] \in {0, 1}
                           /\ item'[hold[r]] # "none" => entered'[hold[r]] = 0
  BY <1>1 DEF Apart, TypeOK
<1>8. Apart'
  BY <1>1, <1>4, <1>5, <1>6, <1>7, HostStep
<1>9. NeverDangling'
  BY DEF HostInv, NeverDangling, Indexed
<1> QED
  BY <1>4, <1>8, <1>9 DEF HostInv

\* A listing reads the index, then the records; a submission goes on to be stored, or not.
LEMMA ListingKeepsHostInv ==
  ASSUME HostInv, OneHost, NEW r \in Requests,
         ListIds(r) \/ ListRecords(r) \/ ListDone(r) \/ ReadModeration(r) \/ ApproveCheck(r)
  PROVE  HostInv'
<1>1. TypeOK /\ Apart /\ IsFiniteSet(Indexed) /\ Indexed \subseteq Ids
      /\ Role(r) /\ (hold[r] # NoId => Own(r))
  BY IndexedIsFinite DEF HostInv, Apart
<1>2. CASE ListIds(r)
  <2>1. Only(r) /\ Role(r)' /\ hold'[r] = hold[r]
    BY <1>1, <1>2, Stays DEF ListIds, Goto, Only, Role, store, history, TypeOK
  <2> QED
    BY <1>1, <1>2, <2>1, QuietStep DEF ListIds, Goto, store, history, TypeOK
<1>3. CASE ListRecords(r)
  <2>1. /\ Only(r) /\ hold'[r] = hold[r] /\ listed'[r] \subseteq listed[r]
        /\ pc'[r] \in {"prune", "pruneThenStore"} /\ (pc'[r] = "pruneThenStore" => hold[r] # NoId)
    BY <1>1, <1>3, Stays DEF ListRecords, Goto, Only, store, TypeOK
  <2>2. Role(r)'
    BY <1>1, <1>3, <2>1, FS_Subset, ProcessAssumption DEF ListRecords, Role
  <2> QED
    BY <1>1, <1>3, <2>1, <2>2, QuietStep DEF ListRecords, store, TypeOK
<1>4. CASE ListDone(r)
  <2>1. /\ Only(r) /\ listed'[r] \subseteq listed[r] /\ UNCHANGED asked
        /\ \/ pc[r] = "prune" /\ pc'[r] = "idle" /\ hold'[r] = NoId
           \/ pc[r] = "pruneThenStore" /\ pc'[r] = "store" /\ hold'[r] = hold[r]
    BY <1>1, <1>4, Stays DEF ListDone, Goto, Return, Only, store, history, TypeOK
  <2>2. Role(r)'
    BY <1>1, <2>1, FS_Subset, ProcessAssumption DEF Role
  <2>3. pc[r] = "pruneThenStore" => r \in Submitters
    BY <1>1 DEF Role, Requests
  <2> QED
    BY <1>1, <1>4, <2>1, <2>2, <2>3, QuietStep DEF ListDone, store, history, TypeOK
<1>5. CASE ReadModeration(r)
  <2>1. /\ Only(r) /\ UNCHANGED <<listed, hold, asked>> /\ pc[r] = "flag"
        /\ pc'[r] \in {"list", "enqueue"}
    BY <1>1, <1>5, Stays DEF ReadModeration, Goto, Only, store, history, TypeOK
  <2>2. Role(r)' /\ r \in Submitters
    BY <1>1, <2>1, ProcessAssumption DEF Role, Requests
  <2> QED
    BY <1>1, <1>5, <2>1, <2>2, QuietStep DEF ReadModeration, store, history, TypeOK
<1>6. CASE ApproveCheck(r)
  <2>1. /\ Only(r) /\ UNCHANGED <<listed, hold, asked>> /\ pc[r] = "gate"
        /\ pc'[r] \in {"store", "enqueue"}
    BY <1>1, <1>6, Stays DEF ApproveCheck, Goto, Only, store, history, TypeOK
  <2>2. Role(r)'
    BY <1>1, <2>1, ProcessAssumption DEF Role
  <2> QED
    BY <1>1, <1>6, <2>1, <2>2, QuietStep DEF ApproveCheck, store, history, TypeOK
<1> QED
  BY <1>2, <1>3, <1>4, <1>5, <1>6

\* A request that dies, and one that ends, leave what they did.
LEMMA CrashKeepsHostInv ==
  ASSUME HostInv, OneHost, NEW r \in Requests, Crash(r)
  PROVE  HostInv'
<1>1. TypeOK /\ Role(r)
  BY DEF HostInv, Apart
<1>2. Only(r) /\ hold'[r] = NoId /\ listed'[r] = {} /\ pc'[r] = "idle"
  BY <1>1 DEF Crash, Return, Goto, Only, TypeOK
<1>3. Role(r)'
  BY <1>1, <1>2, FS_EmptySet DEF Crash, store, Role
<1>4. crashes' \in 0..MaxCrashes /\ InHand(r) \subseteq Ids
  BY <1>1, BoundAssumption DEF Crash, TypeOK, InHand
<1> QED
  BY <1>1, <1>2, <1>3, <1>4, QuietStep DEF Crash, store, TypeOK

\* A step that changes nothing but what the request is about.
LEMMA OwnStep ==
  ASSUME HostInv, OneHost, NEW r \in Requests,
         Only(r), Role(r)', TypedData', hold'[r] \in {hold[r], NoId},
         listed'[r] \subseteq listed[r], UNCHANGED <<asked, shown>>, closed \subseteq closed',
         \A id \in Ids : id # hold[r] =>
           /\ id \in Indexed' => id \in Indexed
           /\ entered'[id] = entered[id] /\ item'[id] = item[id],
         hold'[r] # NoId => Own(r)',
         hold[r] # NoId => /\ entered'[hold[r]] \in {0, 1}
                           /\ item'[hold[r]] # "none" => entered'[hold[r]] = 0
                           /\ hold[r] \in Indexed' => item'[hold[r]] # "none"
  PROVE  HostInv'
<1>1. TypeOK /\ Apart /\ NeverDangling /\ asked \subseteq asked'
  BY DEF HostInv
<1>2. TypeOK' /\ \A q \in Requests : q # r =>
                   pc'[q] = pc[q] /\ hold'[q] = hold[q] /\ listed'[q] = listed[q]
  BY <1>1, TypesKept
<1>3. \A x \in Ids : x # hold[r] => Spared(r, x)
  BY <1>2 DEF Spared, Unseen
<1>4. Apart'
  BY <1>1, <1>2, <1>3, HostStep
<1>5. NeverDangling'
  <2> SUFFICES ASSUME NEW id \in Indexed' PROVE item'[id] # "none" \/ id \in closed'
    BY DEF NeverDangling
  <2>1. id \in Ids
    BY <1>2, IndexedIsFinite DEF TypeOK, Indexed, Range
  <2>2. CASE id = hold[r]
    BY <2>1, <2>2, OwnerAssumption
  <2>3. CASE id # hold[r]
    BY <1>1, <2>1, <2>3 DEF NeverDangling
  <2> QED
    BY <2>2, <2>3
<1> QED
  BY <1>2, <1>4, <1>5 DEF HostInv

\* A record is stored, then indexed, for a request that alone knows of the submission.
LEMMA StoringKeepsHostInv ==
  ASSUME HostInv, OneHost, NEW r \in Requests, StoreItem(r) \/ StoreIndex(r)
  PROVE  HostInv'
<1>1. /\ TypeOK /\ Role(r) /\ hold[r] \in Ids /\ Own(r) /\ hold[r] \in asked
      /\ entered \in [Ids -> Nat]
  BY OwnerAssumption DEF HostInv, Apart, TypeOK, Role, StoreItem, StoreIndex
<1>2. CASE StoreItem(r)
  <2>1. /\ Only(r) /\ UNCHANGED <<hold, listed, index, entered, asked, shown, closed>>
        /\ pc[r] = "store" /\ pc'[r] = "index" /\ item' = [item EXCEPT ![hold[r]] = "pending"]
    BY <1>1, <1>2, Stays DEF StoreItem, Goto, Only, history, TypeOK
  <2>2. Role(r)' /\ TypedData'
    BY <1>1, <1>2, <2>1, ProcessAssumption DEF StoreItem, Role, TypedData, TypeOK, history
  <2>3. item'[hold[r]] = "pending" /\ \A id \in Ids : id # hold[r] => item'[id] = item[id]
    BY <1>1, <2>1 DEF TypeOK
  <2>4. Own(r)'
    BY <1>1, <2>1, <2>3 DEF Own, Unseen, Indexed
  <2>5. entered'[hold[r]] = 0 /\ hold[r] \notin Indexed'
    BY <1>1, <2>1 DEF Own, Indexed
  <2> QED
    BY <1>1, <2>1, <2>2, <2>3, <2>4, <2>5, OwnStep DEF Indexed
<1>3. CASE StoreIndex(r)
  <2>1. /\ Only(r) /\ UNCHANGED <<item, entered, asked, shown, closed>> /\ hold'[r] = NoId
        /\ pc[r] = "index" /\ pc'[r] = "idle" /\ listed'[r] = {} /\ index' = Append(index, hold[r])
    BY <1>1, <1>3 DEF StoreIndex, Return, Goto, Only, TypeOK
  <2>2. index' \in Seq(Ids) /\ Indexed' = Indexed \cup {hold[r]}
    BY <1>1, <2>1, AppendProperties DEF TypeOK, Indexed
  <2>3. Role(r)' /\ TypedData'
    BY <1>1, <1>3, <2>1, <2>2, FS_EmptySet DEF StoreIndex, Role, TypedData, TypeOK
  <2>4. entered'[hold[r]] = 0 /\ item'[hold[r]] = "pending"
    BY <1>1, <2>1 DEF Own
  <2> QED
    BY <1>1, <2>1, <2>2, <2>3, <2>4, OwnStep
<1> QED
  BY <1>2, <1>3

\* A submission or an approval reaches the queue, which may be full.
LEMMA EnqueueKeepsHostInv ==
  ASSUME HostInv, OneHost, NEW r \in Requests, Enqueue(r)
  PROVE  HostInv'
<1>1. /\ TypeOK /\ Role(r) /\ hold[r] \in Ids /\ Own(r) /\ pc[r] = "enqueue"
      /\ entered[hold[r]] = 0 /\ item[hold[r]] = "none" /\ hold[r] \notin Indexed
  BY OwnerAssumption DEF HostInv, Apart, TypeOK, Own, Enqueue
<1>2. CASE /\ queued' = [queued EXCEPT ![hold[r]] = @ + 1]
           /\ entered' = [entered EXCEPT ![hold[r]] = @ + 1]
           /\ acked' = acked \cup {hold[r]}
           /\ Return(r)
  <2>1. /\ Only(r) /\ UNCHANGED <<item, index, asked, shown, closed>> /\ hold'[r] = NoId
        /\ pc'[r] = "idle" /\ listed'[r] = {}
    BY <1>1, <1>2 DEF Enqueue, Return, Goto, Only, store, TypeOK
  <2>2. Role(r)' /\ TypedData'
    BY <1>1, <1>2, <2>1, FS_EmptySet DEF Enqueue, store, Role, TypedData, TypeOK
  <2>3. entered'[hold[r]] = 1 /\ \A id \in Ids : id # hold[r] => entered'[id] = entered[id]
    BY <1>1, <1>2 DEF TypeOK
  <2> QED
    BY <1>1, <2>1, <2>2, <2>3, OwnStep DEF Indexed
<1>3. CASE /\ UNCHANGED <<queued, entered, acked>>
           /\ IF r \in Hosts THEN Goto(r, "store") /\ UNCHANGED <<hold, listed>> ELSE Return(r)
  <2>1. /\ Only(r) /\ UNCHANGED <<item, index, entered, asked, shown, closed>>
        /\ \/ r \in Hosts /\ pc'[r] = "store" /\ UNCHANGED <<hold, listed>>
           \/ r \notin Hosts /\ pc'[r] = "idle" /\ hold'[r] = NoId /\ listed'[r] = {}
    BY <1>1, <1>3, Stays DEF Enqueue, Return, Goto, Only, store, TypeOK
  <2>2. Role(r)'
    BY <1>1, <2>1, ProcessAssumption, FS_EmptySet DEF Role
  <2>3. TypedData'
    BY <1>1, <1>3, <2>1 DEF Enqueue, store, TypedData, TypeOK
  <2>4. hold'[r] # NoId => Own(r)'
    BY <1>1, <2>1, ProcessAssumption DEF Own, Unseen, Indexed
  <2> QED
    BY <1>1, <2>1, <2>2, <2>3, <2>4, OwnStep DEF Indexed
<1> QED
  BY <1>2, <1>3 DEF Enqueue

\* An approval takes the id, then the record.
LEMMA TakingKeepsHostInv ==
  ASSUME HostInv, OneHost, NEW r \in Requests, TakeIndex(r) \/ TakeItem(r)
  PROVE  HostInv'
<1>1. /\ TypeOK /\ Role(r) /\ hold[r] \in Ids /\ Own(r) /\ r \in Hosts /\ r \notin Submitters
      /\ entered[hold[r]] = 0 /\ hold[r] \in asked
  BY OwnerAssumption, ProcessAssumption
     DEF HostInv, Apart, TypeOK, Role, Own, TakeIndex, TakeItem, Requests
<1>2. CASE TakeIndex(r)
  <2>1. /\ Only(r) /\ UNCHANGED <<hold, listed, item, entered, asked, shown, closed>>
        /\ pc[r] = "unindex" /\ pc'[r] = "delete" /\ index' = Without(index, hold[r])
    BY <1>1, <1>2, Stays DEF TakeIndex, Goto, Only, history, TypeOK
  <2>2. index' \in Seq(Ids) /\ Indexed' = Indexed \ {hold[r]}
    BY <1>1, <2>1, WithoutProperties DEF TypeOK, Indexed
  <2>3. Role(r)' /\ TypedData'
    BY <1>1, <1>2, <2>1, <2>2, ProcessAssumption DEF TakeIndex, Role, TypedData, TypeOK, history
  <2>4. Own(r)'
    BY <1>1, <2>1, <2>2 DEF Own
  <2> QED
    BY <1>1, <2>1, <2>2, <2>3, <2>4, OwnStep
<1>3. CASE TakeItem(r)
  <2>1. /\ Only(r) /\ UNCHANGED <<hold, listed, index, entered, asked, shown, closed>>
        /\ pc[r] = "delete" /\ pc'[r] = "gate" /\ item' = [item EXCEPT ![hold[r]] = "none"]
    BY <1>1, <1>3, Stays DEF TakeItem, Goto, Only, history, TypeOK
  <2>2. item'[hold[r]] = "none" /\ \A id \in Ids : id # hold[r] => item'[id] = item[id]
    BY <1>1, <2>1 DEF TypeOK
  <2>3. Role(r)' /\ TypedData'
    BY <1>1, <1>3, <2>1, ProcessAssumption DEF TakeItem, Role, TypedData, TypeOK, history
  <2>4. Own(r)' /\ hold[r] \notin Indexed'
    BY <1>1, <2>1, <2>2 DEF Own, Indexed
  <2> QED
    BY <1>1, <2>1, <2>2, <2>3, <2>4, OwnStep DEF Indexed
<1> QED
  BY <1>2, <1>3

\* A rejection marks the record it read as pending.
LEMMA RejectingKeepsHostInv ==
  ASSUME HostInv, OneHost, NEW r \in Requests, RejectItem(r)
  PROVE  HostInv'
<1>1. /\ TypeOK /\ Role(r) /\ hold[r] \in Ids /\ Own(r) /\ pc[r] = "refuse"
  BY OwnerAssumption DEF HostInv, Apart, TypeOK, RejectItem
<1>2. /\ Only(r) /\ UNCHANGED <<index, entered, asked, shown, closed>> /\ hold'[r] = NoId
      /\ pc'[r] = "idle" /\ listed'[r] = {} /\ item' = [item EXCEPT ![hold[r]] = "rejected"]
  BY <1>1 DEF RejectItem, Return, Goto, Only, history, TypeOK
<1>3. item'[hold[r]] = "rejected" /\ \A id \in Ids : id # hold[r] => item'[id] = item[id]
  BY <1>1, <1>2 DEF TypeOK
<1>4. Role(r)' /\ TypedData'
  BY <1>1, <1>2, FS_EmptySet DEF RejectItem, Role, TypedData, TypeOK, history
<1>5. entered'[hold[r]] = 0
  BY <1>1, <1>2 DEF Own
<1> QED
  BY <1>1, <1>2, <1>3, <1>4, <1>5, OwnStep DEF Indexed

\* A prune drops an id that is not one in hand.
LEMMA PruneKeepsHostInv ==
  ASSUME HostInv, OneHost, NEW r \in Requests, NEW id \in Ids, Prune(r, id)
  PROVE  HostInv'
<1>1. /\ TypeOK /\ Role(r) /\ (hold[r] # NoId => Own(r) /\ hold[r] \in Ids)
      /\ pc[r] \in {"prune", "pruneThenStore"}
  BY DEF HostInv, Apart, TypeOK, Prune
<1>2. /\ UNCHANGED <<item, hold, pc, entered, asked, shown, closed>>
      /\ index' = Without(index, id) /\ listed' = [listed EXCEPT ![r] = @ \ {id}]
  BY <1>1 DEF Prune, history
<1>3. Only(r) /\ listed'[r] = listed[r] \ {id}
  BY <1>1, <1>2, Stays DEF Only, TypeOK
<1>4. index' \in Seq(Ids) /\ Indexed' = Indexed \ {id}
  BY <1>1, <1>2, WithoutProperties DEF TypeOK, Indexed
<1>5. Role(r)'
  BY <1>1, <1>2, <1>3, FS_RemoveElement DEF Role
<1>6. TypedData'
  BY <1>1, <1>2, <1>4 DEF Prune, history, TypedData, TypeOK
<1>7. \A q \in Requests : listed'[q] \subseteq listed[q]
  BY <1>1, <1>2 DEF TypeOK
<1>8. hold[r] # NoId => /\ Own(r)' /\ entered[hold[r]] = 0 /\ item[hold[r]] = "none"
                        /\ hold[r] \notin Indexed
  BY <1>1, <1>2, <1>4, <1>7 DEF Own, Unseen, Role, Requests
<1> QED
  BY <1>1, <1>2, <1>3, <1>4, <1>5, <1>6, <1>8, OwnStep

\* A sweep rejects what is pending and listed, which no submission in hand is.
LEMMA SweepKeepsHostInv ==
  ASSUME HostInv, OneHost, NEW r \in Requests, Sweep(r)
  PROVE  HostInv'
<1>1. /\ TypeOK /\ Apart /\ NeverDangling /\ Role(r) /\ pc[r] = "sweep"
      /\ r \in Hosts /\ hold[r] = NoId
  BY DEF HostInv, Apart, Role, Sweep, Requests
<1>2. /\ UNCHANGED <<entered, asked, shown, closed>> /\ hold'[r] = NoId /\ Only(r)
      /\ pc'[r] = "idle" /\ listed'[r] = {}
      /\ index' = Kept(index, {id \in Ids : item[id] # "none"})
  BY <1>1 DEF Sweep, Return, Goto, Only, history, TypeOK
<1>3. item' = [id \in Ids |-> IF id \in Indexed /\ item[id] = "pending" THEN "rejected" ELSE item[id]]
  BY DEF Sweep
<1>4. index' \in Seq(Ids) /\ Indexed' = Indexed \cap {id \in Ids : item[id] # "none"}
  BY <1>1, <1>2, KeptProperties DEF TypeOK, Indexed
<1>5. Role(r)' /\ TypedData'
  BY <1>1, <1>2, <1>3, <1>4, FS_EmptySet DEF Sweep, Role, TypedData, TypeOK, history
<1>6. TypeOK' /\ \A q \in Requests : q # r =>
                   pc'[q] = pc[q] /\ hold'[q] = hold[q] /\ listed'[q] = listed[q]
  BY <1>1, <1>2, <1>5, TypesKept
<1>7. \A x \in Ids : Spared(r, x)
  BY <1>1, <1>2, <1>3, <1>4, <1>6 DEF Spared, Unseen
<1>8. Apart'
  BY <1>1, <1>2, <1>5, <1>6, <1>7, HostStep
<1>9. NeverDangling'
  BY <1>3, <1>4 DEF NeverDangling
<1> QED
  BY <1>6, <1>8, <1>9 DEF HostInv

\* A song leaves the queue; a rejected record, which no request relies on, expires.
LEMMA ElsewhereKeepsHostInv ==
  ASSUME HostInv, NEW id \in Ids, LeaveQueue(id) \/ Expire(id)
  PROVE  HostInv'
<1>0. TypeOK /\ Apart /\ NeverDangling
  BY DEF HostInv
<1>1. /\ UNCHANGED <<index, pc, hold, listed, asked, shown, entered>> /\ closed \subseteq closed'
      /\ TypeOK'
  <2>1. CASE LeaveQueue(id)
    <3>1. queued' \in [Ids -> Nat]
      BY <1>0, <2>1 DEF LeaveQueue, TypeOK
    <3> QED
      BY <1>0, <2>1, <3>1 DEF LeaveQueue, store, history, TypeOK
  <2>2. CASE Expire(id)
    <3>1. item' \in [Ids -> {"none", "pending", "rejected"}] /\ closed' \subseteq Ids
      BY <1>0, <2>2 DEF Expire, TypeOK
    <3> QED
      BY <1>0, <2>2, <3>1 DEF Expire, TypeOK
  <2> QED
    BY <2>1, <2>2
<1>2. \A x \in Ids : \/ item'[x] = item[x]
                     \/ item[x] = "rejected" /\ item'[x] = "none" /\ x \in closed'
  BY <1>0, <1>1 DEF LeaveQueue, Expire, store, TypeOK
<1>3. Apart'
  <2>1. \A r \in Requests : Role(r)'
    BY <1>0, <1>1 DEF Apart, Role
  <2>2. ASSUME NEW r \in Requests, hold'[r] # NoId PROVE Own(r)'
    <3>1. Own(r) /\ hold[r] \in Ids
      BY <1>0, <1>1, <2>2 DEF Apart, TypeOK
    <3>2. item'[hold[r]] = item[hold[r]]
      BY <1>2, <3>1 DEF Own
    <3> QED
      BY <1>0, <1>1, <3>1, <3>2 DEF Own, Unseen, Indexed
  <2>3. \A x \in Ids : entered'[x] \in {0, 1} /\ (item'[x] # "none" => entered'[x] = 0)
    BY <1>0, <1>1, <1>2 DEF Apart
  <2>4. \A x \in Ids \ asked' : Unseen(x)' /\ item'[x] = "none" /\ entered'[x] = 0
    BY <1>0, <1>1, <1>2 DEF Apart, Unseen, Indexed
  <2>5. \A s \in Submitters, r \in Requests : hold'[s] # NoId /\ r # s => hold'[r] # hold'[s]
    BY <1>0, <1>1 DEF Apart
  <2> QED
    BY <2>1, <2>2, <2>3, <2>4, <2>5 DEF Apart
<1>4. NeverDangling'
  BY <1>0, <1>1, <1>2, IndexedIsFinite DEF NeverDangling, Indexed
<1> QED
  BY <1>0, <1>1, <1>3, <1>4 DEF HostInv

\* Every step of anyone preserves what one host relies on.
LEMMA NextKeepsHostInv ==
  ASSUME HostInv, OneHost, [Next]_vars
  PROVE  HostInv'
<1>1. CASE UNCHANGED vars
  <2>1. UNCHANGED <<moderation, index, item, queued, pc, hold, listed, crashes, shown, asked,
                    acked, entered, returned, closed>>
    BY <1>1 DEF vars
  <2> QED
    BY <2>1 DEF HostInv, TypeOK, Apart, Role, Own, Unseen, NeverDangling, Indexed
<1> QED
  BY <1>1, StartKeepsHostInv, ListingKeepsHostInv, PruneKeepsHostInv, StoringKeepsHostInv,
     EnqueueKeepsHostInv, TakingKeepsHostInv, RejectingKeepsHostInv, SweepKeepsHostInv,
     CrashKeepsHostInv, ElsewhereKeepsHostInv DEF Next, Requests

\* What bounds the pending list: the new ones become no more, or the blind no more.
LEMMA BoundKept ==
  ASSUME TypeOK, Bounded, New' \subseteq New,
         \A s \in Submitters, Y \in SUBSET New' :
           Cardinality(Y) >= PENDING_ROOM_MAX /\ Blind(s, Y)' => Blind(s, Y)
  PROVE  Bounded'
<1> SUFFICES ASSUME NEW Y \in SUBSET New', Cardinality(Y) >= PENDING_ROOM_MAX
             PROVE  Cardinality(Y) + Cardinality({s \in Submitters : Blind(s, Y)'})
                      <= PENDING_ROOM_MAX + Cardinality(Submitters) - 1
  BY DEF Bounded
<1>1. Cardinality(Y) + Cardinality({s \in Submitters : Blind(s, Y)})
        <= PENDING_ROOM_MAX + Cardinality(Submitters) - 1
  BY DEF Bounded
<1>2. {s \in Submitters : Blind(s, Y)'} \subseteq {s \in Submitters : Blind(s, Y)}
  OBVIOUS
<1>3. IsFiniteSet({s \in Submitters : Blind(s, Y)}) /\ IsFiniteSet(Submitters)
  BY ProcessAssumption, FS_Subset
<1>4. Cardinality({s \in Submitters : Blind(s, Y)'}) <= Cardinality({s \in Submitters : Blind(s, Y)})
      /\ Cardinality({s \in Submitters : Blind(s, Y)'}) \in Nat
      /\ Cardinality({s \in Submitters : Blind(s, Y)}) \in Nat
      /\ Cardinality(Submitters) \in Nat
  BY <1>2, <1>3, FS_Subset, FS_CardinalityType
<1>5. IsFiniteSet(Y)
  BY IndexedIsFinite, FS_Subset DEF New
<1>6. Cardinality(Y) \in Nat /\ PENDING_ROOM_MAX \in Nat
  BY <1>5, FS_CardinalityType, BoundAssumption
<1> QED
  BY <1>1, <1>4, <1>6

\* Steps that start or end no submission's blindness.
LEMMA PlainStepKeepsBound ==
  ASSUME HostInv, Bounded,
         \A id \in Ids : item'[id] = "pending" /\ id \in Indexed' =>
           item[id] = "pending" /\ id \in Indexed,
         returned \subseteq returned',
         \A s \in Submitters :
           /\ pc'[s] \in {"pruneThenStore", "store", "index"} =>
                pc[s] \in {"pruneThenStore", "store", "index"}
           /\ pc'[s] = "fetch" => pc[s] = "fetch" /\ listed'[s] = listed[s]
  PROVE  Bounded'
<1>1. TypeOK
  BY DEF HostInv
<1>2. New' \subseteq New
  BY DEF New, Pending
<1>3. \A s \in Submitters, Y \in SUBSET New' : Blind(s, Y)' => Blind(s, Y)
  BY DEF Blind
<1> QED
  BY <1>1, <1>2, <1>3, BoundKept

\* A listing sees what is there, and a count below the bound leaves some of them out.
LEMMA ListingKeepsBound ==
  ASSUME HostInv, HostInv', Bounded, NEW r \in Requests, ListIds(r) \/ ListRecords(r)
  PROVE  Bounded'
<1>1. /\ TypeOK /\ UNCHANGED <<item, index, returned>> /\ New' = New
      /\ IsFiniteSet(listed[r])
  BY DEF HostInv, Apart, Role, ListIds, ListRecords, store, history, New, Pending, Indexed
<1>2. ASSUME NEW s \in Submitters, NEW Y \in SUBSET New', Cardinality(Y) >= PENDING_ROOM_MAX,
             Blind(s, Y)'
      PROVE  Blind(s, Y)
  <2>1. CASE s # r
    BY <1>1, <1>2, <2>1 DEF ListIds, ListRecords, Goto, Blind, TypeOK, Requests
  <2>2. CASE s = r /\ ListIds(r)
    <3>1. listed'[r] = Indexed /\ pc'[r] = "fetch"
      BY <1>1, <2>2 DEF ListIds, Goto, TypeOK
    <3>2. Indexed \cap Y = Y
      BY <1>1 DEF New
    <3>3. Cardinality(Y) < PENDING_ROOM_MAX
      BY <1>2, <2>2, <3>1, <3>2 DEF Blind
    <3>4. Cardinality(Y) \in Nat /\ PENDING_ROOM_MAX \in Nat
      BY <1>1, IndexedIsFinite, FS_Subset, FS_CardinalityType, BoundAssumption DEF New
    <3> QED
      BY <1>2, <3>3, <3>4
  <2>3. CASE s = r /\ ListRecords(r)
    <3>1. pc[r] = "fetch" /\ pc'[r] \in {"prune", "pruneThenStore"}
          /\ (pc'[r] = "pruneThenStore" => UnderPendingCaps(r))
      BY <1>1, <2>3 DEF ListRecords, Goto, TypeOK
    <3>2. UnderPendingCaps(r)
      BY <1>2, <2>3, <3>1 DEF Blind
    <3>3. /\ listed[r] \cap Y \in SUBSET (listed[r] \cap Pending)
          /\ IsFiniteSet(listed[r] \cap Pending)
      BY <1>1, FS_Subset DEF New
    <3>4. Cardinality(listed[r] \cap Y) <= Cardinality(listed[r] \cap Pending)
          /\ Cardinality(listed[r] \cap Pending) \in Nat /\ Cardinality(listed[r] \cap Y) \in Nat
      BY <3>3, FS_Subset, FS_CardinalityType
    <3>5. Cardinality(listed[r] \cap Pending) < PENDING_ROOM_MAX /\ PENDING_ROOM_MAX \in Nat
      BY <3>2, BoundAssumption DEF UnderPendingCaps
    <3>6. Cardinality(listed[r] \cap Y) < PENDING_ROOM_MAX
      BY <3>4, <3>5
    <3> QED
      BY <2>3, <3>1, <3>6 DEF Blind
  <2> QED
    BY <2>1, <2>2, <2>3
<1> QED
  BY <1>1, <1>2, BoundKept

\* A submission that is indexed is no longer on its way; the one that makes the new ones
\* as many as the bound is nobody's blindness any more.
LEMMA IndexingKeepsBound ==
  ASSUME HostInv, HostInv', Bounded, NEW r \in Requests, StoreIndex(r)
  PROVE  Bounded'
<1>1. /\ TypeOK /\ UNCHANGED item /\ Indexed' = Indexed \cup {hold[r]} /\ hold[r] \in Ids
      /\ pc' = [pc EXCEPT ![r] = "idle"] /\ pc[r] = "index"
      /\ \A q \in Requests : q # r => listed'[q] = listed[q]
  <2>1. TypeOK /\ hold[r] \in Ids /\ index \in Seq(Ids)
    BY DEF HostInv, TypeOK, StoreIndex
  <2> QED
    BY <2>1, AppendProperties DEF StoreIndex, Return, Goto, Indexed, TypeOK
<1>2. \A s \in Submitters : \A Y : Blind(s, Y)' => Blind(s, Y) /\ s # r
  BY <1>1 DEF Blind, TypeOK, Requests
<1>3. CASE r \in Hosts
  <2>1. New' \subseteq New
    BY <1>1, <1>3 DEF StoreIndex, New, Pending
  <2> QED
    BY <1>1, <1>2, <2>1, BoundKept
<1>4. CASE r \notin Hosts
  <2>0. r \in Submitters /\ New' \subseteq New \cup {hold[r]} /\ hold[r] \notin New
    <3>1. Own(r) /\ Role(r)
      BY <1>1, OwnerAssumption DEF HostInv, Apart
    <3> QED
      BY <1>1, <1>4, <3>1 DEF StoreIndex, New, Pending, Own, Role, Requests
  <2> SUFFICES ASSUME NEW Y \in SUBSET New', Cardinality(Y) >= PENDING_ROOM_MAX
               PROVE  Cardinality(Y) + Cardinality({s \in Submitters : Blind(s, Y)'})
                        <= PENDING_ROOM_MAX + Cardinality(Submitters) - 1
    BY DEF Bounded
  <2> DEFINE Old == Y \ {hold[r]}
             Late == {s \in Submitters : Blind(s, Y)'}
             Early == {s \in Submitters : Blind(s, Old)}
  <2>1. Old \in SUBSET New /\ IsFiniteSet(Old) /\ IsFiniteSet(Y) /\ IsFiniteSet(Submitters)
    <3>1. Old \in SUBSET New /\ Y \subseteq Old \cup {hold[r]}
      BY <2>0
    <3>2. IsFiniteSet(Old)
      BY <1>1, <3>1, IndexedIsFinite, FS_Subset DEF New
    <3>3. IsFiniteSet(Old \cup {hold[r]})
      BY <3>2, FS_AddElement
    <3>4. IsFiniteSet(Y) /\ IsFiniteSet(Submitters)
      BY <3>1, <3>3, ProcessAssumption, FS_Subset
    <3> QED
      BY <3>1, <3>2, <3>4
  <2>2. Cardinality(Y) \in Nat /\ Cardinality(Old) \in Nat /\ Cardinality(Y) <= Cardinality(Old) + 1
    <3>1. Cardinality(Old) = IF hold[r] \in Y THEN Cardinality(Y) - 1 ELSE Cardinality(Y)
      BY <2>1, FS_RemoveElement
    <3>2. Cardinality(Y) \in Nat
      BY <2>1, FS_CardinalityType
    <3>3. Cardinality(Old) \in Nat
      BY <2>1, FS_CardinalityType
    <3> QED
      BY <3>1, <3>2, <3>3
  <2>3. Late \subseteq Early \ {r} /\ r \in Early
    <3>1. r \in Early
      BY <1>1, <2>0 DEF Blind
    <3>2. ASSUME NEW s \in Submitters, Blind(s, Y)' PROVE Blind(s, Old) /\ s # r
      <4>1. Blind(s, Y) /\ s # r /\ s \in Requests
        BY <1>2, <3>2 DEF Requests
      <4>2. IsFiniteSet(listed[s] \cap Y) /\ listed[s] \cap Old \in SUBSET (listed[s] \cap Y)
        BY <2>1, FS_Subset
      <4>3. /\ Cardinality(listed[s] \cap Old) <= Cardinality(listed[s] \cap Y)
            /\ Cardinality(listed[s] \cap Old) \in Nat /\ Cardinality(listed[s] \cap Y) \in Nat
        BY <4>2, FS_Subset, FS_CardinalityType
      <4>4. Cardinality(listed[s] \cap Y) < PENDING_ROOM_MAX =>
              Cardinality(listed[s] \cap Old) < PENDING_ROOM_MAX
        BY <4>3, BoundAssumption
      <4> QED
        BY <4>1, <4>4 DEF Blind
    <3> QED
      BY <3>1, <3>2
  <2>4. IsFiniteSet(Early) /\ Cardinality(Late) <= Cardinality(Early) - 1
        /\ Cardinality(Early) <= Cardinality(Submitters)
        /\ Cardinality(Late) \in Nat /\ Cardinality(Early) \in Nat /\ Cardinality(Submitters) \in Nat
    <3> HIDE DEF Late
    <3>1. Early \in SUBSET Submitters
      OBVIOUS
    <3> HIDE DEF Early
    <3>2. IsFiniteSet(Early) /\ Cardinality(Early) <= Cardinality(Submitters)
      BY <2>1, <3>1, FS_Subset
    <3>3. IsFiniteSet(Early \ {r}) /\ Cardinality(Early \ {r}) = Cardinality(Early) - 1
      BY <2>3, <3>2, FS_RemoveElement
    <3>4. IsFiniteSet(Late) /\ Cardinality(Late) <= Cardinality(Early \ {r})
      BY <2>3, <3>3, FS_Subset
    <3> QED
      BY <2>1, <3>2, <3>3, <3>4, FS_CardinalityType
  <2>5. CASE Cardinality(Old) >= PENDING_ROOM_MAX
    <3>1. Cardinality(Old) + Cardinality(Early) <= PENDING_ROOM_MAX + Cardinality(Submitters) - 1
      BY <2>1, <2>5 DEF Bounded
    <3> HIDE DEF Old, Late, Early
    <3> QED
      BY <2>2, <2>4, <3>1, BoundAssumption DEF Late
  <2>6. CASE ~(Cardinality(Old) >= PENDING_ROOM_MAX)
    <3> HIDE DEF Old, Late, Early
    <3> QED
      BY <2>2, <2>4, <2>6, BoundAssumption DEF Late
  <2> QED
    BY <2>5, <2>6
<1> QED
  BY <1>3, <1>4

\* Nor does any other step make a patron blind, or anything new.
LEMMA NextKeepsBound ==
  ASSUME HostInv, HostInv', Bounded, [Next]_vars
  PROVE  Bounded'
<1>1. TypeOK /\ Apart /\ \A s \in Submitters : s \in Requests /\ s \notin Hosts
  BY ProcessAssumption DEF HostInv, Requests
<1>2. ASSUME NEW r \in Requests,
             \/ Poll(r)
             \/ \E id \in Ids : Submit(r, id)
             \/ r \in Hosts /\ \E id \in Ids : Approve(r, id) \/ Reject(r, id)
             \/ \E on \in BOOLEAN : SetModeration(r, on)
             \/ ListDone(r) \/ ReadModeration(r) \/ ApproveCheck(r) \/ Crash(r)
      PROVE  Bounded'
  <2>1. UNCHANGED <<index, item, returned>>
    BY <1>2 DEF Poll, Submit, Approve, Reject, SetModeration, ListDone, ReadModeration,
                ApproveCheck, Crash, store, history
  <2>2. \E label : pc' = [pc EXCEPT ![r] = label]
    BY <1>2 DEF Poll, Submit, Approve, Reject, SetModeration, ListDone, ReadModeration,
                ApproveCheck, Crash, Start, Return, Goto
  <2>3. listed' = listed \/ listed' = [listed EXCEPT ![r] = {}]
    BY <1>2 DEF Poll, Submit, Approve, Reject, SetModeration, ListDone, ReadModeration,
                ApproveCheck, Crash, Start, Return
  <2>4. \/ pc'[r] \in {"idle", "list", "flag", "enqueue", "unindex", "refuse", "sweep"}
        \/ pc'[r] = "store" /\ pc[r] \in {"gate", "pruneThenStore"}
    BY <1>1, <1>2 DEF Poll, Submit, Approve, Reject, SetModeration, ListDone, ReadModeration,
                ApproveCheck, Crash, Start, Return, Goto, TypeOK
  <2>5. \A s \in Submitters : s # r => pc'[s] = pc[s] /\ listed'[s] = listed[s]
    BY <1>1, <2>2, <2>3 DEF TypeOK
  <2>6. r \in Submitters => pc[r] # "gate"
    BY <1>1 DEF Apart, Role
  <2> QED
    BY <2>1, <2>4, <2>5, <2>6, PlainStepKeepsBound DEF Indexed
<1>3. ASSUME NEW r \in Requests, NEW id \in Ids, Prune(r, id) PROVE Bounded'
  <2>1. Indexed' = Indexed \ {id} /\ UNCHANGED <<item, returned, pc>>
    BY <1>1, <1>3, WithoutProperties DEF Prune, history, Indexed, TypeOK
  <2>2. \A s \in Submitters : pc[s] = "fetch" => listed'[s] = listed[s]
    BY <1>1, <1>3 DEF Prune, TypeOK
  <2> QED
    BY <2>1, <2>2, PlainStepKeepsBound
<1>4. ASSUME NEW r \in Requests, StoreItem(r) PROVE Bounded'
  <2>1. /\ UNCHANGED <<index, returned, listed>> /\ pc[r] = "store" /\ pc' = [pc EXCEPT ![r] = "index"]
        /\ \A id \in Ids : id # hold[r] => item'[id] = item[id]
    BY <1>1, <1>4 DEF StoreItem, Goto, history, TypeOK
  <2>2. hold[r] \notin Indexed
    BY <1>1, <2>1, OwnerAssumption DEF Apart, TypeOK, Own
  <2>3. \A s \in Submitters : pc'[s] = IF s = r THEN "index" ELSE pc[s]
    BY <1>1, <2>1 DEF TypeOK
  <2> QED
    BY <2>1, <2>2, <2>3, PlainStepKeepsBound DEF Indexed
<1>5. ASSUME NEW r \in Requests,
             Enqueue(r) \/ TakeIndex(r) \/ TakeItem(r) \/ RejectItem(r) \/ Sweep(r)
      PROVE  Bounded'
  <2>1. \A s \in Submitters : s # r => pc'[s] = pc[s] /\ listed'[s] = listed[s]
    BY <1>1, <1>5 DEF Enqueue, TakeIndex, TakeItem, RejectItem, Sweep, Return, Goto, TypeOK
  <2>2. r \in Submitters => pc'[r] \in {"idle", "delete", "gate"}
    <3>1. CASE Enqueue(r)
      BY <1>1, <3>1 DEF Enqueue, Return, Goto, TypeOK
    <3>2. CASE TakeIndex(r) \/ TakeItem(r) \/ RejectItem(r) \/ Sweep(r)
      BY <1>1, <3>2 DEF TakeIndex, TakeItem, RejectItem, Sweep, Return, Goto, TypeOK
    <3> QED
      BY <1>5, <3>1, <3>2
  <2>3. Indexed' \subseteq Indexed /\ UNCHANGED returned
    BY <1>1, <1>5, WithoutProperties, KeptProperties
       DEF Enqueue, TakeIndex, TakeItem, RejectItem, Sweep, store, history, Indexed, TypeOK
  <2>4. \A id \in Ids : item'[id] = "pending" => item[id] = "pending"
    BY <1>1, <1>5 DEF Enqueue, TakeIndex, TakeItem, RejectItem, Sweep, store, TypeOK
  <2> QED
    BY <2>1, <2>2, <2>3, <2>4, PlainStepKeepsBound
<1>6. ASSUME NEW id \in Ids, LeaveQueue(id) \/ Expire(id) PROVE Bounded'
  <2>1. UNCHANGED <<index, pc, listed, returned>>
        /\ \A x \in Ids : item'[x] = "pending" => item[x] = "pending"
    BY <1>1, <1>6 DEF LeaveQueue, Expire, store, history, TypeOK
  <2> QED
    BY <2>1, PlainStepKeepsBound DEF Indexed
<1>7. CASE UNCHANGED vars
  BY <1>7, PlainStepKeepsBound DEF vars, Indexed
<1> QED
  BY <1>2, <1>3, <1>4, <1>5, <1>6, <1>7, ListingKeepsBound, IndexingKeepsBound
     DEF Next, Requests

-----------------------------------------------------------------------------
(* The theorems.                                                           *)

\* With one host request at a time, and any number of patrons, polls and crashes, a
\* submission enters the queue once at most (host/pending/approve/route.ts, take first).
THEOREM OnceWithOneHost == ASSUME OneHost PROVE Spec => []EntersOnce
<1>1. HostInv => EntersOnce
  BY DEF HostInv, Apart, EntersOnce
<1> QED
  BY <1>1, InitHostInv, NextKeepsHostInv, PTL DEF Spec

\* A host that decides one entry at a time never sees what was approved come back as
\* refused: reject and the sweep write over a record that is there (lib/pending-store.ts).
THEOREM TakenStaysTaken == ASSUME OneHost PROVE Spec => NeverRefusedAfterTaken
<1>1. HostInv /\ [Next]_vars =>
        [\A id \in Ids : item'[id] = "rejected" => item[id] # "none"]_vars
  <2> SUFFICES ASSUME HostInv, [Next]_vars, NEW id \in Ids, item'[id] = "rejected", vars' # vars
               PROVE  item[id] # "none"
    BY Zenon
  <2>1. TypeOK /\ Apart
    BY DEF HostInv
  <2>2. ASSUME NEW r \in Requests, RejectItem(r) PROVE item[id] # "none"
    <3>1. hold[r] \in Ids /\ Own(r) /\ pc[r] = "refuse"
      BY <2>1, <2>2, OwnerAssumption DEF RejectItem, TypeOK, Apart
    <3>2. item[hold[r]] = "pending" /\ (id # hold[r] => item'[id] = item[id])
      BY <2>1, <2>2, <3>1 DEF RejectItem, Own, TypeOK
    <3> QED
      BY <3>2
  <2>3. ASSUME NEW r \in Requests, Sweep(r) PROVE item[id] # "none"
    BY <2>3 DEF Sweep
  <2>4. ASSUME NEW r \in Requests, StoreItem(r) \/ TakeItem(r) PROVE item[id] # "none"
    <3>1. \A x \in Ids : item'[x] \in {item[x], "pending", "none"}
      BY <2>1, <2>4 DEF StoreItem, TakeItem, TypeOK
    <3> QED
      BY <3>1
  <2>5. ASSUME NEW x \in Ids, Expire(x) PROVE item[id] # "none"
    BY <2>1, <2>5 DEF Expire, TypeOK
  <2>6. CASE item' = item
    BY <2>6
  <2>7. \/ item' = item \/ (\E x \in Ids : Expire(x))
        \/ \E r \in Requests : RejectItem(r) \/ Sweep(r) \/ StoreItem(r) \/ TakeItem(r)
    BY DEF Next, Requests, Poll, Submit, Approve, Reject, SetModeration, ListIds, ListRecords,
           Prune, ListDone, StoreIndex, Enqueue, ReadModeration, TakeIndex, ApproveCheck, Crash,
           LeaveQueue, store
  <2> QED
    BY <2>2, <2>3, <2>4, <2>5, <2>6, <2>7
<1> QED
  BY <1>1, InitHostInv, NextKeepsHostInv, PTL DEF Spec, NeverRefusedAfterTaken

\* What a host is shown is there to be decided on, and is over the room's bound by fewer
\* submissions than there are patrons submitting at once: however stale the count that
\* let each in, for any bound and any number of submissions (lib/pending-store.ts,
\* app/api/queue/route.ts).
THEOREM PendingStaysSound ==
  ASSUME OneHost, Submitters # {} PROVE Spec => []PendingIsSound
<1>0. IsFiniteSet(Submitters) /\ Cardinality(Submitters) \in Nat \ {0} /\ PENDING_ROOM_MAX \in Nat
  BY ProcessAssumption, FS_Subset, FS_CardinalityType, FS_EmptySet, BoundAssumption
<1>1. Init => Bounded
  <2> SUFFICES ASSUME Init PROVE Bounded
    OBVIOUS
  <2>1. New = {}
    BY DEF Init, New, Indexed, Range
  <2>2. \A Y \in SUBSET New : /\ {s \in Submitters : Blind(s, Y)} = {}
                              /\ Cardinality(Y) = 0
    BY <2>1, FS_EmptySet DEF Init, Blind, Requests
  <2> QED
    BY <1>0, <2>2, FS_EmptySet DEF Bounded
<1>2. HostInv /\ Bounded => PendingIsSound
  <2> SUFFICES ASSUME HostInv, Bounded PROVE PendingBound
    BY DEF PendingIsSound, HostInv
  <2>1. IsFiniteSet(New)
    BY IndexedIsFinite, FS_Subset DEF New, HostInv
  <2> DEFINE blind == {s \in Submitters : Blind(s, New)}
  <2>2. Cardinality(New) \in Nat /\ Cardinality(blind) \in Nat
    BY <1>0, <2>1, FS_Subset, FS_CardinalityType
  <2>3. Cardinality(New) >= PENDING_ROOM_MAX =>
          Cardinality(New) + Cardinality(blind) <= PENDING_ROOM_MAX + Cardinality(Submitters) - 1
    BY DEF Bounded
  <2> HIDE DEF blind
  <2>4. Cardinality(New) <= PENDING_ROOM_MAX + Cardinality(Submitters) - 1
    BY <1>0, <2>2, <2>3
  <2> QED
    BY <2>4 DEF PendingBound, New
<1> QED
  BY <1>1, <1>2, InitHostInv, NextKeepsHostInv, NextKeepsBound, PTL DEF Spec

=============================================================================
