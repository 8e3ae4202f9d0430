-------------------------- MODULE SearchRouteProofs --------------------------
(***************************************************************************)
(* Proofs about SearchRoute, for any number of requests, instances,        *)
(* questions, devices, days and faults: that a question costs one billed   *)
(* search and one more per fault, that only a leader ends its own flight,  *)
(* and that the daily budget holds.                                        *)
(*                                                                         *)
(* The single flight is a matter of accounts.  A request that may still    *)
(* bill without a fault is a potential caller; while no page is stored and *)
(* no flight is under way, there is room for one more.  Calls made, calls  *)
(* possible and that room never exceed one and the faults so far.          *)
(* So is the budget: what Google has received by the end of a day, and     *)
(* what is granted and not yet asked, is no more than what was charged.    *)
(* The sums are MapThenSumSet's, a recursion over the subsets of a set: it *)
(* has a solution when the set is finite, and a sum grows with its terms.  *)
(***************************************************************************)
EXTENDS SearchRoute, FiniteSetTheorems, WellFoundedInduction, TLAPS

\* A request that bills unless it finds the page: before the look at the cache that
\* follows the lock only if there is nothing to find.
MayCall(h, q) ==
  /\ at[h].pc \in {"clear", "recheck", "reserve", "call"} /\ at[h].q = q
  /\ at[h].pc \in {"clear", "recheck"} => q \notin stored
Callers(q) == {h \in Handlers : MayCall(h, q)}

\* The holder of the lock is on its way to a page.
InFlight(h, q) ==
  /\ at[h].pc \in {"clear", "recheck", "reserve", "call", "google", "fill"}
  /\ at[h].role = "leader" /\ at[h].q = q
UnderWay(q) == lock[q] \in Handlers /\ InFlight(lock[q], q)

\* Room for one more caller without a fault.
Open(q) == IF q \in stored \/ UnderWay(q) THEN 0 ELSE 1

Balanced(q) == calls[q] + Cardinality(Callers(q)) + Open(q) <= 1 + excused[q]

CapsKept ==
  \A d \in Days :
    /\ spent.platform[d] <= SEARCH_DAILY_BUDGET
    /\ \A i \in Ips : spent.ip[d][i] <= IpDailyCap
    /\ \A v \in Devices : spent.dev[d][v] <= DeviceDailyCap

-----------------------------------------------------------------------------
(* Type correctness.                                                       *)

\* A request at one of the steps is a record of a running one.
LEMMA OnItsWay ==
  ASSUME TypeOK, NEW h \in Handlers, at[h].pc \in Steps
  PROVE  at[h] \in Running
BY DEF TypeOK, Idle, Dead, Steps

\* A request goes to another of its steps.
LEMMA Moves ==
  ASSUME TypeOK, NEW h \in Handlers, at[h].pc \in Steps, NEW p \in Steps, Goto(h, p)
  PROVE  /\ at' \in [Handlers -> {Idle, Dead} \cup Running]
         /\ at'[h].pc = p /\ at'[h].role = at[h].role /\ at'[h].q = at[h].q
         /\ \A g \in Handlers : g # h => at'[g] = at[g]
BY OnItsWay DEF Goto, TypeOK, Running

\* A request ends.
LEMMA Ends ==
  ASSUME TypeOK, NEW h \in Handlers, NEW x \in {Idle, Dead}, at' = [at EXCEPT ![h] = x]
  PROVE  /\ at' \in [Handlers -> {Idle, Dead} \cup Running]
         /\ at'[h].pc \in {"idle", "dead"}
         /\ \A g \in Handlers : g # h => at'[g] = at[g]
BY DEF TypeOK, Idle, Dead

\* The shares are numbers, however they are set.
LEMMA CapsAreNumbers == IpDailyCap \in Nat /\ DeviceDailyCap \in Nat
BY BudgetAssumption DEF IpDailyCap, DeviceDailyCap, ParseCapOverride

\* Every counter starts at zero.
LEMMA InitEstablishesTypes == Init => TypeOK
BY SearchAssumption DEF Init, TypeOK, NothingSpent, Counters

\* A reservation counts in natural numbers, and keeps each counter to its cap.
LEMMA ReservedIsSound ==
  ASSUME spent \in Counters, CapsKept, NEW e \in Days, NEW i \in Ips, NEW v \in Devices
  PROVE  /\ Reserved(spent, e, i, v) \in Counters
         /\ \A d \in Days :
              /\ Reserved(spent, e, i, v).platform[d] <= SEARCH_DAILY_BUDGET
              /\ \A j \in Ips : Reserved(spent, e, i, v).ip[d][j] <= IpDailyCap
              /\ \A w \in Devices : Reserved(spent, e, i, v).dev[d][w] <= DeviceDailyCap
<1>1. CASE Verdict(spent, e, i, v) # "ok"
  BY <1>1 DEF Reserved, CapsKept
<1>2. CASE Verdict(spent, e, i, v) = "ok"
  <2> DEFINE p == [spent.platform EXCEPT ![e] = @ + 1]
             m == [spent.ip EXCEPT ![e][i] = @ + 1]
             n == [spent.dev EXCEPT ![e][v] = @ + 1]
  <2>1. Reserved(spent, e, i, v) = [platform |-> p, ip |-> m, dev |-> n]
    <3>1. Reserved(spent, e, i, v) =
            [[[spent EXCEPT !.platform = p] EXCEPT !.ip = m] EXCEPT !.dev = n]
      BY <1>2 DEF Reserved, Charged, Counters
    <3> HIDE DEF p, m, n
    <3> QED
      BY <3>1 DEF Counters
  <2>2. SEARCH_DAILY_BUDGET \in Nat /\ IpDailyCap \in Nat /\ DeviceDailyCap \in Nat
    BY BudgetAssumption, CapsAreNumbers
  <2>3. /\ spent.platform[e] < SEARCH_DAILY_BUDGET
        /\ spent.ip[e][i] < IpDailyCap /\ spent.dev[e][v] < DeviceDailyCap
    BY <1>2, <2>2 DEF Verdict, Counters
  <2>4. p \in [Days -> Nat] /\ \A d \in Days : p[d] <= SEARCH_DAILY_BUDGET
    BY <2>2, <2>3 DEF Counters, CapsKept
  <2>5. m \in [Days -> [Ips -> Nat]] /\ \A d \in Days, j \in Ips : m[d][j] <= IpDailyCap
    <3> DEFINE f == [spent.ip[e] EXCEPT ![i] = @ + 1]
    <3>1. spent.ip \in [Days -> [Ips -> Nat]] /\ spent.ip[e] \in [Ips -> Nat]
      BY DEF Counters
    <3>2. f \in [Ips -> Nat] /\ \A j \in Ips : f[j] <= IpDailyCap
      BY <2>2, <2>3, <3>1 DEF CapsKept
    <3>3. m = [spent.ip EXCEPT ![e] = f]
      BY <3>1
    <3> HIDE DEF f
    <3> QED
      BY <3>1, <3>2, <3>3 DEF CapsKept
  <2>6. /\ n \in [Days -> [Devices -> Nat]]
        /\ \A d \in Days, w \in Devices : n[d][w] <= DeviceDailyCap
    <3> DEFINE f == [spent.dev[e] EXCEPT ![v] = @ + 1]
    <3>1. spent.dev \in [Days -> [Devices -> Nat]] /\ spent.dev[e] \in [Devices -> Nat]
      BY DEF Counters
    <3>2. f \in [Devices -> Nat] /\ \A w \in Devices : f[w] <= DeviceDailyCap
      BY <2>2, <2>3, <3>1 DEF CapsKept
    <3>3. n = [spent.dev EXCEPT ![e] = f]
      BY <3>1
    <3> HIDE DEF f
    <3> QED
      BY <3>1, <3>2, <3>3 DEF CapsKept
  <2> HIDE DEF p, m, n
  <2> QED
    BY <2>1, <2>4, <2>5, <2>6 DEF Counters
<1> QED
  BY <1>1, <1>2

\* A fault is counted, and counted for its question.
LEMMA FaultsCount ==
  ASSUME TypeOK, NEW q \in Questions, FaultAt(q) \/ NoFault
  PROVE  faults' \in Nat /\ excused' \in [Questions -> Nat]
BY DEF TypeOK, FaultAt, NoFault, history

\* What the steps of a request have in common.
LEMMA HandlersKeepTypes ==
  ASSUME TypeOK, CapsKept, NEW h \in Handlers, Handle(h)
  PROVE  TypeOK'
<1>1. /\ at[h].pc \in Steps /\ at[h] \in Running /\ at[h].q \in Questions
      /\ InstanceOf[h] \in Instances
  <2>1. at[h].pc \in Steps
    BY DEF Handle, FreeTiers, GoLive, Acquire, ClearMarker, Recheck, PollPage, PollLock,
           LookOnceMore, Reserve, Call, GoogleAnswers, Fill, MarkFailed, Release, On, Steps
  <2> QED
    BY <2>1, OnItsWay, SearchAssumption DEF Running
<1>2. ASSUME NEW p \in Steps, Goto(h, p)
      PROVE  at' \in [Handlers -> {Idle, Dead} \cup Running]
  BY <1>1, <1>2, Moves
<1>3. ASSUME Reply(h) PROVE at' \in [Handlers -> {Idle, Dead} \cup Running]
  BY <1>3, Ends DEF Reply
<1>4. ASSUME Fault(h) \/ NoFault PROVE faults' \in Nat /\ excused' \in [Questions -> Nat]
  BY <1>1, <1>4, FaultsCount DEF Fault, Q
<1>5. ASSUME Hit(h) \/ Miss(h)
      PROVE  /\ local' \in [Instances -> SUBSET Questions]
             /\ faults' \in Nat /\ excused' \in [Questions -> Nat]
  BY <1>1, <1>4, <1>5 DEF Hit, Miss, Warm, Q, TypeOK
<1>6. CASE FreeTiers(h) \/ GoLive(h) \/ Recheck(h) \/ PollPage(h)
  BY <1>2, <1>3, <1>5, <1>6
     DEF FreeTiers, GoLive, Recheck, PollPage, Steps, flight, money, TypeOK
<1>7. CASE Acquire(h)
  <2>1. at' \in [Handlers -> {Idle, Dead} \cup Running]
    BY <1>1, <1>7 DEF Acquire, TypeOK, Running, Steps, Roles
  <2> QED
    BY <1>1, <1>4, <1>7, <2>1 DEF Acquire, caches, money, TypeOK, Q
<1>8. CASE ClearMarker(h) \/ PollLock(h)
  BY <1>1, <1>2, <1>3, <1>4, <1>8
     DEF ClearMarker, PollLock, Q, Steps, flight, caches, money, TypeOK
<1>9. CASE LookOnceMore(h)
  <2>1. CASE at' = [at EXCEPT ![h].attempt = 1, ![h].pc = "acquire"]
    BY <1>1, <1>5, <1>9, <2>1 DEF LookOnceMore, flight, money, TypeOK, Running, Steps
  <2>2. CASE Reply(h)
    BY <1>3, <1>5, <1>9, <2>2 DEF LookOnceMore, flight, money, TypeOK
  <2> QED
    BY <1>9, <2>1, <2>2 DEF LookOnceMore
<1>10. CASE Reserve(h)
  <2>1. spent' \in Counters
    BY <1>10, SearchAssumption, ReservedIsSound DEF Reserve, TypeOK
  <2> QED
    BY <1>2, <1>4, <1>10, <2>1 DEF Reserve, flight, caches, Steps, TypeOK
<1>11. CASE Call(h)
  BY <1>1, <1>2, <1>11 DEF Call, flight, caches, history, Steps, Q, TypeOK
<1>12. CASE GoogleAnswers(h)
  <2>1. CASE Goto(h, "fill")
    BY <1>2, <1>4, <1>12, <2>1 DEF GoogleAnswers, flight, caches, money, Steps, TypeOK
  <2>2. CASE at' = [at EXCEPT ![h].failed = TRUE, ![h].pc = "mark"]
    BY <1>1, <1>4, <1>12, <2>2 DEF GoogleAnswers, flight, caches, money, Steps, TypeOK, Running
  <2> QED
    BY <1>12, <2>1, <2>2 DEF GoogleAnswers
<1>13. CASE Fill(h)
  BY <1>1, <1>2, <1>4, <1>13 DEF Fill, Warm, flight, money, Q, Steps, TypeOK
<1>14. CASE MarkFailed(h)
  BY <1>1, <1>2, <1>3, <1>4, <1>14 DEF MarkFailed, caches, money, Q, Steps, TypeOK
<1>15. CASE Release(h)
  BY <1>1, <1>3, <1>4, <1>15 DEF Release, Unlocked, caches, money, Q, TypeOK
<1> QED
  BY <1>6, <1>7, <1>8, <1>9, <1>10, <1>11, <1>12, <1>13, <1>14, <1>15 DEF Handle

\* Types and caps, which a reservation needs and keeps.
Sound == TypeOK /\ CapsKept

\* Nothing is spent at first.
LEMMA InitEstablishesSound == Init => Sound
<1> SUFFICES ASSUME Init PROVE CapsKept
  BY InitEstablishesTypes DEF Sound
<1> QED
  BY BudgetAssumption, CapsAreNumbers DEF Init, NothingSpent, CapsKept

\* Every step keeps the types and the caps.
LEMMA NextKeepsSound == Sound /\ [Next]_vars => Sound'
<1> SUFFICES ASSUME TypeOK, CapsKept, [Next]_vars PROVE Sound'
  BY DEF Sound
<1>1. CASE UNCHANGED vars
  BY <1>1 DEF vars, flight, caches, money, history, TypeOK, CapsKept, Sound
<1>2. ASSUME NEW h \in Handlers, Start(h) PROVE Sound'
  <2>1. at' \in [Handlers -> {Idle, Dead} \cup Running]
    BY <1>2 DEF Start, TypeOK, Running, Steps, Roles
  <2> QED
    BY <1>2, <2>1 DEF Start, flight, caches, money, history, TypeOK, CapsKept, Sound
<1>3. ASSUME NEW h \in Handlers, Handle(h) PROVE Sound'
  <2>1. TypeOK'
    BY <1>3, HandlersKeepTypes
  <2>2. CASE UNCHANGED spent
    BY <2>1, <2>2 DEF CapsKept, Sound
  <2>3. CASE Reserve(h)
    <3>1. \/ UNCHANGED spent
          \/ spent' = Reserved(spent, today, IpOf[DeviceOf[h]], DeviceOf[h])
      BY <2>3 DEF Reserve
    <3>2. /\ spent \in Counters /\ today \in Days
          /\ DeviceOf[h] \in Devices /\ IpOf[DeviceOf[h]] \in Ips
      BY SearchAssumption DEF TypeOK
    <3>3. CapsKept'
      BY <2>2, <3>1, <3>2, ReservedIsSound DEF CapsKept
    <3> QED
      BY <2>1, <3>3 DEF Sound
  <2> QED
    BY <1>3, <2>2, <2>3
       DEF Handle, FreeTiers, GoLive, Acquire, ClearMarker, Recheck, PollPage, PollLock,
           LookOnceMore, Call, GoogleAnswers, Fill, MarkFailed, Release, money
<1>4. ASSUME NEW h \in Handlers, Deadline(h) PROVE Sound'
  BY <1>4, Ends DEF Deadline, Reply, flight, caches, money, history, TypeOK, CapsKept, Sound
<1>5. ASSUME NEW h \in Handlers, Crash(h) PROVE Sound'
  <2>1. at[h] \in Running
    BY <1>5 DEF Crash, Busy, TypeOK
  <2>2. faults' \in Nat /\ excused' \in [Questions -> Nat]
    BY <1>5, <2>1, FaultsCount DEF Crash, Fault, Q, Running
  <2> QED
    BY <1>5, <2>2, Ends DEF Crash, flight, caches, money, TypeOK, CapsKept, Sound
<1>6. ASSUME NEW q \in Questions, LockExpires(q) PROVE Sound'
  BY <1>6, FaultsCount DEF LockExpires, caches, money, TypeOK, CapsKept, Sound
<1>7. ASSUME NEW q \in Questions, MarkerExpires(q) PROVE Sound'
  BY <1>7 DEF MarkerExpires, caches, money, history, TypeOK, CapsKept, Sound
<1>8. ASSUME NEW i \in Instances, LocalExpires(i) PROVE Sound'
  BY <1>8 DEF LocalExpires, flight, money, history, TypeOK, CapsKept, Sound
<1>9. CASE Midnight
  BY <1>9 DEF Midnight, flight, caches, money, history, TypeOK, CapsKept, Sound
<1> QED
  BY <1>1, <1>2, <1>3, <1>4, <1>5, <1>6, <1>7, <1>8, <1>9 DEF Next

-----------------------------------------------------------------------------
(* The account of one question.                                            *)

\* One request's part in it.
In(h, q) == IF MayCall(h, q) THEN 1 ELSE 0
Cost(h, q) == calls[q] + In(h, q) + Open(q) - excused[q]

\* When one request moves, and no page is lost, the callers change by that one at most.
LEMMA CallersCount ==
  ASSUME NEW q, NEW h \in Handlers,
         \A g \in Handlers : g # h => at'[g] = at[g],
         q \in stored => q \in stored'
  PROVE  /\ Cardinality(Callers(q)) \in Nat /\ Cardinality(Callers(q)') \in Nat
         /\ Cardinality(Callers(q)') - In(h, q)' <= Cardinality(Callers(q)) - In(h, q)
<1> DEFINE rest == Callers(q) \ {h}
           left == Callers(q)' \ {h}
<1>1. left \subseteq rest
  BY DEF Callers, MayCall
<1>2. IsFiniteSet(Callers(q)) /\ IsFiniteSet(Callers(q)')
  <2>1. Callers(q) \in SUBSET Handlers /\ Callers(q)' \in SUBSET Handlers
    BY DEF Callers
  <2> QED
    BY <2>1, FS_Subset, SearchAssumption
<1>3. /\ IsFiniteSet(rest) /\ Cardinality(rest) = Cardinality(Callers(q)) - In(h, q)
      /\ Cardinality(Callers(q)) \in Nat
  <2>1. h \in Callers(q) <=> MayCall(h, q)
    BY DEF Callers
  <2>2. Cardinality(rest) = IF h \in Callers(q) THEN Cardinality(Callers(q)) - 1
                                                ELSE Cardinality(Callers(q))
    BY <1>2, FS_RemoveElement
  <2> QED
    BY <1>2, <2>1, <2>2, FS_RemoveElement, FS_CardinalityType DEF In
<1>4. /\ Cardinality(left) = Cardinality(Callers(q)') - In(h, q)'
      /\ Cardinality(Callers(q)') \in Nat
  <2>1. h \in Callers(q)' <=> MayCall(h, q)'
    BY DEF Callers
  <2>2. Cardinality(left) = IF h \in Callers(q)' THEN Cardinality(Callers(q)') - 1
                                                 ELSE Cardinality(Callers(q)')
    BY <1>2, FS_RemoveElement
  <2> QED
    BY <1>2, <2>1, <2>2, FS_CardinalityType DEF In
<1>5. Cardinality(left) <= Cardinality(rest)
  BY <1>1, <1>3, FS_Subset
<1> QED
  BY <1>3, <1>4, <1>5

\* A step of a request that costs a question nothing leaves its account balanced.
LEMMA StaysBalanced ==
  ASSUME Sound, Sound', NEW q \in Questions, NEW h \in Handlers, Balanced(q),
         \A g \in Handlers : g # h => at'[g] = at[g],
         q \in stored => q \in stored',
         Cost(h, q)' <= Cost(h, q)
  PROVE  Balanced(q)'
<1>1. /\ calls[q] \in Nat /\ excused[q] \in Nat /\ calls'[q] \in Nat /\ excused'[q] \in Nat
      /\ Open(q) \in {0, 1} /\ Open(q)' \in {0, 1}
      /\ In(h, q) \in {0, 1} /\ In(h, q)' \in {0, 1}
  BY DEF Sound, TypeOK, Open, In
<1> QED
  BY <1>1, CallersCount DEF Balanced, Cost

\* A step of a request changes the account of no other question.
LEMMA OtherQuestions ==
  ASSUME Sound, NEW q \in Questions, NEW h \in Handlers, at[h] \in Running, at[h].q # q,
         at'[h].q = at[h].q \/ at'[h].pc \in {"idle", "dead"},
         \A g \in Handlers : g # h => at'[g] = at[g],
         lock'[q] = lock[q], calls'[q] = calls[q], excused'[q] = excused[q],
         q \in stored' <=> q \in stored
  PROVE  Cost(h, q)' = Cost(h, q)
<1>1. ~MayCall(h, q) /\ ~MayCall(h, q)' /\ ~InFlight(h, q) /\ ~InFlight(h, q)'
  BY DEF MayCall, InFlight
<1>2. UnderWay(q)' <=> UnderWay(q)
  BY <1>1 DEF UnderWay, InFlight
<1> QED
  BY <1>1, <1>2 DEF Cost, In, Open

\* A step of a request leaves the other requests, and every page that is stored, alone.
LEMMA StepIsLocal ==
  ASSUME Sound, NEW h \in Handlers, Handle(h)
  PROVE  /\ at[h] \in Running /\ at[h].pc \in Steps
         /\ at'[h].q = at[h].q \/ at'[h].pc \in {"idle", "dead"}
         /\ \A g \in Handlers : g # h => at'[g] = at[g]
         /\ \A q \in Questions :
              /\ q \in stored => q \in stored'
              /\ q # at[h].q => /\ lock'[q] = lock[q] /\ calls'[q] = calls[q]
                                /\ excused'[q] = excused[q]
                                /\ q \in stored' <=> q \in stored
<1>1. at[h].pc \in Steps /\ at[h] \in Running
  <2>1. at[h].pc \in Steps
    BY DEF Handle, FreeTiers, GoLive, Acquire, ClearMarker, Recheck, PollPage, PollLock,
           LookOnceMore, Reserve, Call, GoogleAnswers, Fill, MarkFailed, Release, On, Steps
  <2> QED
    BY <2>1, OnItsWay DEF Sound
<1>2. at \in [Handlers -> {Idle, Dead} \cup Running]
  BY DEF Sound, TypeOK
<1>3. /\ at'[h].q = at[h].q \/ at'[h].pc \in {"idle", "dead"}
      /\ \A g \in Handlers : g # h => at'[g] = at[g]
  <2>1. ASSUME NEW p \in Steps, Goto(h, p)
        PROVE  at'[h].q = at[h].q /\ \A g \in Handlers : g # h => at'[g] = at[g]
    BY <1>1, <2>1, Moves DEF Sound
  <2>2. ASSUME Reply(h)
        PROVE  at'[h].pc \in {"idle", "dead"} /\ \A g \in Handlers : g # h => at'[g] = at[g]
    BY <2>2, Ends DEF Sound, Reply
  <2>3. CASE Acquire(h) \/ LookOnceMore(h) \/ GoogleAnswers(h)
    BY <1>1, <1>2, <2>1, <2>2, <2>3 DEF Acquire, LookOnceMore, GoogleAnswers, Running, Steps
  <2> QED
    BY <2>1, <2>2, <2>3
       DEF Handle, FreeTiers, GoLive, ClearMarker, Recheck, PollPage, PollLock, Reserve, Call,
           Fill, MarkFailed, Release, Steps
<1>4. ASSUME NEW q \in Questions
      PROVE  /\ q \in stored => q \in stored'
             /\ q # at[h].q => /\ lock'[q] = lock[q] /\ calls'[q] = calls[q]
                               /\ excused'[q] = excused[q]
                               /\ q \in stored' <=> q \in stored
  <2>1. Fault(h) \/ NoFault => (q # at[h].q => excused'[q] = excused[q])
    BY DEF Fault, FaultAt, NoFault, history, Q, Sound, TypeOK
  <2>2. Fault(h) \/ NoFault
    BY DEF Handle, FreeTiers, GoLive, Acquire, ClearMarker, Recheck, PollPage, PollLock,
           LookOnceMore, Reserve, Call, GoogleAnswers, Fill, MarkFailed, Release, Hit, Miss,
           NoFault, history
  <2>3. \/ UNCHANGED <<lock, calls, stored>>
        \/ Acquire(h) \/ Call(h) \/ Fill(h) \/ Release(h)
    BY DEF Handle, FreeTiers, GoLive, ClearMarker, Recheck, PollPage, PollLock,
           LookOnceMore, Reserve, GoogleAnswers, MarkFailed, flight, caches, money
  <2>4. CASE Acquire(h) \/ Call(h) \/ Fill(h) \/ Release(h)
    BY <2>1, <2>2, <2>4
       DEF Acquire, Call, Fill, Release, Unlocked, Q, flight, caches, money, Sound, TypeOK
  <2> QED
    BY <2>1, <2>2, <2>3, <2>4
<1> QED
  BY <1>1, <1>3, <1>4

\* What a step of a request costs its own question: nothing that a fault does not pay.
LEMMA OwnQuestion ==
  ASSUME Sound, Sound', NEW h \in Handlers, Handle(h), NEW q \in Questions, q = at[h].q
  PROVE  Cost(h, q)' <= Cost(h, q)
<1>1. /\ at[h] \in Running /\ at[h].pc \in Steps
      /\ \A g \in Handlers : g # h => at'[g] = at[g]
      /\ q \in stored => q \in stored'
  BY StepIsLocal
<1>2. /\ calls[q] \in Nat /\ excused[q] \in Nat /\ calls'[q] \in Nat /\ excused'[q] \in Nat
      /\ lock[q] \in Handlers \cup {NoHandler} /\ NoHandler \notin Handlers
      /\ at \in [Handlers -> {Idle, Dead} \cup Running]
  BY SearchAssumption DEF Sound, TypeOK
<1>3. Fault(h) \/ NoFault => excused'[q] = excused[q] \/ excused'[q] = excused[q] + 1
  BY <1>2 DEF Fault, FaultAt, NoFault, history, Q, Sound, TypeOK
<1>4. (Fault(h) => excused'[q] = excused[q] + 1) /\ (NoFault => excused'[q] = excused[q])
  BY <1>2 DEF Fault, FaultAt, NoFault, history, Q, Sound, TypeOK
\* What remains is arithmetic on these four.
<1>5. /\ In(h, q) = IF MayCall(h, q) THEN 1 ELSE 0
      /\ In(h, q)' = IF MayCall(h, q)' THEN 1 ELSE 0
      /\ Open(q) = IF q \in stored \/ UnderWay(q) THEN 0 ELSE 1
      /\ Open(q)' = IF q \in stored' \/ UnderWay(q)' THEN 0 ELSE 1
  BY DEF In, Open
\* A request that is neither a caller nor on a flight, and stays so.
<1>6. ASSUME ~MayCall(h, q)', ~InFlight(h, q), lock'[q] = lock[q], calls'[q] = calls[q],
             Fault(h) \/ NoFault
      PROVE  Cost(h, q)' <= Cost(h, q)
  <2>1. UnderWay(q) => UnderWay(q)'
    BY <1>1, <1>6 DEF UnderWay, InFlight
  <2> QED
    BY <1>1, <1>2, <1>3, <1>5, <1>6, <2>1 DEF Cost
\* One that leaves a flight where it could still call, or with a fault.
<1>7. ASSUME ~MayCall(h, q)', MayCall(h, q) \/ Fault(h), lock'[q] = lock[q],
             calls'[q] = calls[q], Fault(h) \/ NoFault
      PROVE  Cost(h, q)' <= Cost(h, q)
  <2>1. CASE InFlight(h, q) /\ lock[q] = h
    BY <1>1, <1>2, <1>3, <1>4, <1>5, <1>7 DEF Cost
  <2>2. CASE ~(InFlight(h, q) /\ lock[q] = h)
    <3>1. UnderWay(q) => UnderWay(q)'
      BY <1>1, <1>7, <2>2 DEF UnderWay, InFlight
    <3> QED
      BY <1>1, <1>2, <1>3, <1>4, <1>5, <1>7, <3>1 DEF Cost
  <2> QED
    BY <2>1, <2>2
\* One that goes on with its flight, if it has one.
<1>8. ASSUME NEW p \in {"recheck", "reserve", "call", "google", "fill"}, Goto(h, p),
             lock'[q] = lock[q]
      PROVE  UnderWay(q) => UnderWay(q)'
  <2>1. at'[h].pc = p /\ at'[h].role = at[h].role /\ at'[h].q = at[h].q
    BY <1>1, <1>8, Moves DEF Sound, Steps
  <2> QED
    BY <1>1, <1>8, <2>1 DEF UnderWay, InFlight
<1>9. ASSUME NEW p \in Steps, Goto(h, p)
      PROVE  at'[h].pc = p /\ at'[h].role = at[h].role /\ at'[h].q = at[h].q
  BY <1>1, <1>9, Moves DEF Sound
<1>10. Reply(h) => at'[h].pc \in {"idle", "dead"}
  BY Ends DEF Reply, Sound
<1>11. CASE \/ FreeTiers(h) \/ GoLive(h) \/ PollPage(h) \/ PollLock(h) \/ MarkFailed(h)
  <2>1. /\ lock'[q] = lock[q] /\ calls'[q] = calls[q]
        /\ at[h].pc \in {"cache", "wait", "peek", "mark"}
        /\ Fault(h) \/ NoFault
    BY <1>11
       DEF FreeTiers, GoLive, PollPage, PollLock, MarkFailed, Hit, Miss, On, flight, caches, money
  <2>2. Reply(h) \/ \E p \in {"acquire", "peek", "late", "wait", "unlock"} : Goto(h, p)
    BY <1>11 DEF FreeTiers, GoLive, PollPage, PollLock, MarkFailed
  <2>3. ~MayCall(h, q)'
    BY <1>9, <1>10, <2>2 DEF MayCall, Steps
  <2> QED
    BY <1>6, <2>1, <2>3 DEF InFlight
<1>12. CASE LookOnceMore(h)
  <2>1. /\ lock'[q] = lock[q] /\ calls'[q] = calls[q] /\ at[h].pc = "late"
        /\ Fault(h) \/ NoFault
    BY <1>12 DEF LookOnceMore, Hit, Miss, On, flight, caches, money
  <2>2. Reply(h) \/ at'[h].pc = "acquire"
    BY <1>1, <1>2, <1>12 DEF LookOnceMore, Running
  <2>3. ~MayCall(h, q)'
    BY <1>10, <2>2 DEF MayCall
  <2> QED
    BY <1>6, <2>1, <2>3 DEF InFlight
<1>13. CASE Acquire(h)
  <2>1. at[h].pc = "acquire" /\ stored' = stored /\ calls'[q] = calls[q] /\ ~MayCall(h, q)
    BY <1>13 DEF Acquire, On, caches, money, MayCall
  <2>2. CASE /\ lock[q] = NoHandler
             /\ lock' = [lock EXCEPT ![q] = h]
             /\ at' = [at EXCEPT ![h].role = "leader", ![h].pc = "clear"]
             /\ NoFault
    <3>1. at'[h].pc = "clear" /\ at'[h].role = "leader" /\ at'[h].q = q /\ lock'[q] = h
      BY <1>1, <1>2, <2>2 DEF Running, Sound, TypeOK
    <3>2. ~UnderWay(q) /\ UnderWay(q)' /\ (MayCall(h, q)' => q \notin stored)
      BY <1>2, <2>1, <2>2, <3>1 DEF UnderWay, InFlight, MayCall
    <3> QED
      BY <1>2, <1>4, <1>5, <2>1, <2>2, <3>2 DEF Cost
  <2>3. CASE /\ at' = [at EXCEPT ![h].role = "waiter", ![h].pc = "wait"]
             /\ UNCHANGED lock /\ NoFault
    <3>1. at'[h].pc = "wait"
      BY <1>1, <1>2, <2>3 DEF Running
    <3> QED
      BY <1>6, <2>1, <2>3, <3>1 DEF InFlight, MayCall
  <2>4. CASE /\ Fault(h)
             /\ at' = [at EXCEPT ![h].role = "solo", ![h].pc = "reserve"]
             /\ UNCHANGED lock
    <3>1. UnderWay(q) => UnderWay(q)'
      BY <1>1, <2>1, <2>4 DEF UnderWay, InFlight
    <3> QED
      BY <1>1, <1>2, <1>4, <1>5, <2>1, <2>4, <3>1 DEF Cost
  <2> QED
    BY <1>13, <2>2, <2>3, <2>4 DEF Acquire, Q
<1>14. CASE ClearMarker(h)
  <2>1. /\ lock'[q] = lock[q] /\ calls'[q] = calls[q] /\ stored' = stored
        /\ Fault(h) \/ NoFault
        /\ at[h].pc = "clear" /\ Goto(h, "recheck")
    BY <1>14 DEF ClearMarker, On, caches, money
  <2>2. (MayCall(h, q)' => MayCall(h, q)) /\ (UnderWay(q) => UnderWay(q)')
    BY <1>8, <1>9, <2>1 DEF MayCall, Steps
  <2> QED
    BY <1>2, <1>3, <1>5, <2>1, <2>2 DEF Cost
<1>15. CASE Recheck(h)
  <2>1. /\ lock'[q] = lock[q] /\ calls'[q] = calls[q] /\ stored' = stored
        /\ at[h].pc = "recheck" /\ (MayCall(h, q) <=> q \notin stored)
    BY <1>15 DEF Recheck, On, flight, money, MayCall
  <2>2. CASE Hit(h) /\ Goto(h, "unlock")
    <3>1. ~MayCall(h, q)'
      BY <1>9, <2>2 DEF MayCall, Steps
    <3>2. CASE q \in stored
      BY <1>2, <1>4, <1>5, <2>1, <2>2, <3>1, <3>2 DEF Cost, Hit
    <3>3. CASE q \notin stored
      BY <1>7, <2>1, <2>2, <3>1, <3>3 DEF Hit
    <3> QED
      BY <3>2, <3>3
  <2>3. CASE Miss(h) /\ Goto(h, "reserve")
    <3>1. UnderWay(q) => UnderWay(q)'
      BY <1>8, <2>1, <2>3
    <3>2. (q \notin stored /\ NoFault) \/ Fault(h)
      BY <2>3 DEF Miss, Q
    <3> QED
      BY <1>2, <1>4, <1>5, <2>1, <3>1, <3>2 DEF Cost
  <2> QED
    BY <1>15, <2>2, <2>3 DEF Recheck
<1>16. CASE Reserve(h)
  <2>1. /\ lock'[q] = lock[q] /\ calls'[q] = calls[q] /\ stored' = stored
        /\ Fault(h) \/ NoFault
        /\ at[h].pc = "reserve" /\ MayCall(h, q)
        /\ Goto(h, "call") \/ Goto(h, "unlock")
    BY <1>16 DEF Reserve, On, flight, caches, MayCall
  <2>2. CASE Goto(h, "call")
    BY <1>2, <1>3, <1>5, <1>8, <2>1, <2>2 DEF Cost
  <2>3. CASE Goto(h, "unlock")
    <3>1. ~MayCall(h, q)'
      BY <1>9, <2>3 DEF MayCall, Steps
    <3> QED
      BY <1>7, <2>1, <3>1
  <2> QED
    BY <2>1, <2>2, <2>3
<1>17. CASE Call(h)
  <2>1. /\ lock'[q] = lock[q] /\ calls'[q] = calls[q] + 1 /\ stored' = stored
        /\ NoFault /\ MayCall(h, q) /\ Goto(h, "google")
    BY <1>17 DEF Call, On, Q, flight, caches, MayCall, NoFault, Sound, TypeOK
  <2>2. ~MayCall(h, q)' /\ (UnderWay(q) => UnderWay(q)')
    BY <1>8, <1>9, <2>1 DEF MayCall, Steps
  <2> QED
    BY <1>2, <1>4, <1>5, <2>1, <2>2 DEF Cost
<1>18. CASE GoogleAnswers(h)
  <2>1. /\ lock'[q] = lock[q] /\ calls'[q] = calls[q] /\ stored' = stored
        /\ at[h].pc = "google" /\ ~MayCall(h, q)
    BY <1>18 DEF GoogleAnswers, On, flight, caches, money, MayCall
  <2>2. CASE Goto(h, "fill") /\ NoFault
    <3>1. ~MayCall(h, q)' /\ (UnderWay(q) => UnderWay(q)')
      BY <1>8, <1>9, <2>1, <2>2 DEF MayCall, Steps
    <3> QED
      BY <1>2, <1>4, <1>5, <2>1, <2>2, <3>1 DEF Cost
  <2>3. CASE Fault(h) /\ at' = [at EXCEPT ![h].failed = TRUE, ![h].pc = "mark"]
    <3>1. at'[h].pc = "mark"
      BY <1>1, <1>2, <2>3 DEF Running
    <3> QED
      BY <1>7, <2>1, <2>3, <3>1 DEF MayCall
  <2> QED
    BY <1>18, <2>2, <2>3 DEF GoogleAnswers
<1>19. CASE Fill(h)
  <2>1. lock'[q] = lock[q] /\ calls'[q] = calls[q] /\ at[h].pc = "fill" /\ Goto(h, "unlock")
    BY <1>19 DEF Fill, On, flight, money
  <2>2. ~MayCall(h, q)'
    BY <1>9, <2>1 DEF MayCall, Steps
  <2>3. CASE Fault(h)
    BY <1>7, <2>1, <2>2, <2>3
  <2>4. CASE stored' = stored \cup {q} /\ NoFault
    BY <1>2, <1>4, <1>5, <2>1, <2>2, <2>4 DEF Cost
  <2> QED
    BY <1>19, <2>3, <2>4 DEF Fill, Q
<1>20. CASE Release(h)
  <2>1. /\ calls'[q] = calls[q] /\ at[h].pc = "unlock" /\ Reply(h)
        /\ Fault(h) \/ NoFault
        /\ lock'[q] = lock[q] \/ lock[q] = h
    BY <1>20 DEF Release, Unlocked, On, Q, caches, money
  <2>2. ~MayCall(h, q)' /\ ~InFlight(h, q)
    BY <1>10, <2>1 DEF MayCall, InFlight
  <2>3. CASE lock'[q] = lock[q]
    BY <1>6, <2>1, <2>2, <2>3
  <2>4. CASE lock[q] = h
    BY <1>1, <1>2, <1>3, <1>5, <2>1, <2>2, <2>4 DEF Cost, UnderWay
  <2> QED
    BY <2>1, <2>3, <2>4
<1> QED
  BY <1>11, <1>12, <1>13, <1>14, <1>15, <1>16, <1>17, <1>18, <1>19, <1>20 DEF Handle

-----------------------------------------------------------------------------
(* The theorems.                                                           *)

IInv == Sound /\ \A q \in Questions : Balanced(q)

\* Nothing is asked, stored or spent.
LEMMA InitEstablishesIInv == Init => IInv
<1> SUFFICES ASSUME Init, NEW q \in Questions PROVE Balanced(q)
  BY InitEstablishesSound DEF IInv
<1>1. Callers(q) = {}
  BY DEF Callers, MayCall, Init, Idle
<1> QED
  BY <1>1, FS_EmptySet DEF Init, Balanced, Open

\* A step that moves nobody towards a call, takes no page away, and breaks off a flight
\* only at the price of a fault.
LEMMA Elsewhere ==
  ASSUME Sound, Sound', NEW q \in Questions, Balanced(q),
         \A g \in Handlers : at'[g] = at[g] \/ ~MayCall(g, q)',
         q \in stored => q \in stored', calls'[q] = calls[q], excused'[q] >= excused[q],
         UnderWay(q) => UnderWay(q)' \/ excused'[q] > excused[q]
  PROVE  Balanced(q)'
<1>1. Callers(q)' \subseteq Callers(q)
  BY DEF Callers, MayCall
<1>2. IsFiniteSet(Callers(q))
  <2>1. Callers(q) \in SUBSET Handlers
    BY DEF Callers
  <2> QED
    BY <2>1, FS_Subset, SearchAssumption
<1>3. /\ Cardinality(Callers(q)) \in Nat /\ Cardinality(Callers(q)') \in Nat
      /\ Cardinality(Callers(q)') <= Cardinality(Callers(q))
  BY <1>1, <1>2, FS_Subset, FS_CardinalityType
<1>4. calls[q] \in Nat /\ excused[q] \in Nat /\ excused'[q] \in Nat
  BY DEF Sound, TypeOK
<1> QED
  BY <1>3, <1>4 DEF Balanced, Open

\* Every step preserves the invariant.
LEMMA NextKeepsIInv == IInv /\ [Next]_vars => IInv'
<1> SUFFICES ASSUME IInv, [Next]_vars, Sound', NEW q \in Questions PROVE Balanced(q)'
  BY NextKeepsSound DEF IInv
<1>1. Sound /\ Balanced(q) /\ TypeOK /\ calls[q] \in Nat /\ excused[q] \in Nat
  BY DEF IInv, Sound, TypeOK
<1>2. CASE UNCHANGED vars
  BY <1>1, <1>2, Elsewhere DEF vars, flight, caches, money, history, UnderWay, InFlight
<1>3. ASSUME NEW h \in Handlers, Start(h) PROVE Balanced(q)'
  <2>1. at'[h].pc = "cache" /\ at[h].pc = "idle" /\ \A g \in Handlers : g # h => at'[g] = at[g]
    BY <1>1, <1>3 DEF Start, TypeOK, Idle
  <2> QED
    BY <1>1, <1>3, <2>1, Elsewhere
       DEF Start, flight, caches, money, history, UnderWay, InFlight, MayCall
<1>4. ASSUME NEW h \in Handlers, Handle(h) PROVE Balanced(q)'
  <2>1. Cost(h, q)' <= Cost(h, q)
    <3>1. CASE q = at[h].q
      BY <1>1, <1>4, <3>1, OwnQuestion
    <3>2. CASE q # at[h].q
      <4>1. Cost(h, q)' = Cost(h, q)
        BY <1>1, <1>4, <3>2, StepIsLocal, OtherQuestions
      <4>2. Cost(h, q) \in Int
        BY <1>1 DEF Cost, In, Open
      <4> QED
        BY <4>1, <4>2
    <3> QED
      BY <3>1, <3>2
  <2> QED
    BY <1>1, <1>4, <2>1, StepIsLocal, StaysBalanced
<1>5. ASSUME NEW h \in Handlers, Deadline(h) PROVE Balanced(q)'
  <2>1. /\ at'[h].pc \in {"idle", "dead"} /\ at[h].pc = "wait"
        /\ \A g \in Handlers : g # h => at'[g] = at[g]
    BY <1>1, <1>5, Ends DEF Deadline, On, Reply
  <2> QED
    BY <1>1, <1>5, <2>1, Elsewhere
       DEF Deadline, flight, caches, money, history, UnderWay, InFlight, MayCall
<1>6. ASSUME NEW h \in Handlers, Crash(h) PROVE Balanced(q)'
  <2>1. at'[h].pc \in {"idle", "dead"} /\ \A g \in Handlers : g # h => at'[g] = at[g]
    BY <1>1, <1>6, Ends DEF Crash
  <2>2. /\ excused'[q] >= excused[q]
        /\ at[h].q = q => excused'[q] > excused[q]
    BY <1>1, <1>6 DEF Crash, Fault, FaultAt, Q, TypeOK
  <2>3. UnderWay(q) => UnderWay(q)' \/ excused'[q] > excused[q]
    BY <1>6, <2>1, <2>2 DEF Crash, flight, UnderWay, InFlight
  <2> QED
    BY <1>1, <1>6, <2>1, <2>2, <2>3, Elsewhere DEF Crash, caches, money, MayCall
<1>7. ASSUME NEW p \in Questions, LockExpires(p) PROVE Balanced(q)'
  <2>1. excused'[q] >= excused[q] /\ UNCHANGED <<at, stored, calls>>
    BY <1>1, <1>7 DEF LockExpires, FaultAt, NoFault, history, caches, money, TypeOK
  <2>2. UnderWay(q) => UnderWay(q)' \/ excused'[q] > excused[q]
    <3>1. CASE p = q
      <4>1. UnderWay(q) => Leads(lock[q], q)
        BY DEF UnderWay, InFlight, Leads, Busy, Q, Idle, Dead
      <4>2. Leads(lock[q], q) => FaultAt(q)
        BY <1>7, <3>1 DEF LockExpires
      <4>3. FaultAt(q) => excused'[q] = excused[q] + 1
        BY <1>1 DEF FaultAt, TypeOK
      <4> QED
        BY <1>1, <4>1, <4>2, <4>3
    <3>2. CASE p # q
      BY <1>1, <1>7, <2>1, <3>2 DEF LockExpires, UnderWay, InFlight, TypeOK
    <3> QED
      BY <3>1, <3>2
  <2> QED
    BY <1>1, <2>1, <2>2, Elsewhere
<1>8. CASE \/ \E p \in Questions : MarkerExpires(p)
           \/ \E i \in Instances : LocalExpires(i)
           \/ Midnight
  <2>1. UNCHANGED <<lock, at, stored, calls, excused>>
    BY <1>8 DEF MarkerExpires, LocalExpires, Midnight, flight, caches, money, history
  <2> QED
    BY <1>1, <2>1, Elsewhere DEF UnderWay, InFlight
<1> QED
  BY <1>2, <1>3, <1>4, <1>5, <1>6, <1>7, <1>8 DEF Next

\* The invariant holds in every reachable state.
LEMMA Always == Spec => []IInv
<1> QED
  BY InitEstablishesIInv, NextKeepsIInv, PTL DEF Spec

\* A question costs one billed search, and one more for each fault that hits a request
\* for it, for any number of requests, instances and faults (the single flight, the look
\* after the lock and the look after the wait, lib/search-single-flight.ts).
THEOREM OneBilledSearch == Spec => []OneCallPerQuestion
<1>1. IInv => OneCallPerQuestion
  <2> SUFFICES ASSUME IInv, NEW q \in Questions PROVE calls[q] <= 1 + excused[q]
    BY DEF OneCallPerQuestion
  <2>1. Balanced(q) /\ calls[q] \in Nat /\ excused[q] \in Nat /\ Open(q) \in {0, 1}
    BY DEF IInv, Sound, TypeOK, Open
  <2>2. Cardinality(Callers(q)) \in Nat
    <3>1. Callers(q) \in SUBSET Handlers
      BY DEF Callers
    <3> QED
      BY <3>1, FS_Subset, FS_CardinalityType, SearchAssumption
  <2> QED
    BY <2>1, <2>2 DEF Balanced
<1> QED
  BY <1>1, Always, PTL

\* Only its own leader's release, or its TTL, ends a flight that is under way: the
\* compare-and-delete of RELEASE_LOCK_SCRIPT.
THEOREM LeadersEndTheirOwn == Spec => OnlyItsLeaderEndsAFlight
<1>1. IInv /\ [Next]_vars =>
        [\A q \in Questions, h \in Handlers :
           Leads(h, q) /\ lock'[q] # h => Release(h) \/ LockExpires(q)]_vars
  <2> SUFFICES ASSUME TypeOK, Next, NEW q \in Questions, NEW h \in Handlers, Leads(h, q),
                      lock'[q] # h
               PROVE  Release(h) \/ LockExpires(q)
    BY DEF IInv, Sound
  <2>1. lock[q] = h /\ h # NoHandler
    BY SearchAssumption DEF Leads
  <2>2. \/ UNCHANGED lock
        \/ \E g \in Handlers : Acquire(g) \/ Release(g)
        \/ \E p \in Questions : LockExpires(p)
    BY DEF Next, Start, Handle, FreeTiers, GoLive, ClearMarker, Recheck, PollPage, PollLock,
           LookOnceMore, Reserve, Call, GoogleAnswers, Fill, MarkFailed, Deadline, Crash,
           MarkerExpires, LocalExpires, Midnight, flight
  <2>3. ASSUME NEW g \in Handlers, Acquire(g) PROVE lock'[q] = h
    BY <2>1, <2>3 DEF Acquire, Q, TypeOK
  <2>4. ASSUME NEW g \in Handlers, Release(g) PROVE g = h
    BY <2>1, <2>4 DEF Release, Unlocked, Q, TypeOK
  <2>5. ASSUME NEW p \in Questions, LockExpires(p) PROVE p = q
    BY <2>1, <2>5 DEF LockExpires, TypeOK
  <2> QED
    BY <2>1, <2>2, <2>3, <2>4, <2>5
<1> QED
  BY <1>1, Always, PTL DEF Spec, OnlyItsLeaderEndsAFlight

-----------------------------------------------------------------------------
(* Sums.                                                                   *)

\* One of a set's members, and what a sum over the set makes of the sums over its
\* subsets: the recursion of MapThenSumSet, whose sum is its solution at the set.
First(s) == CHOOSE x \in s : TRUE
Sums(sum, f, F) ==
  sum = [s \in F |-> IF s = {} THEN 0 ELSE f[First(s)] + sum[s \ {First(s)}]]
SumOf(f, S) == CHOOSE sum : Sums(sum, f, SUBSET S)

LEMMA SumIsItsSolution ==
  ASSUME NEW f, NEW S
  PROVE  Total(f, S) = SumOf(f, S)[S]
BY DEF Total, MapThenSumSet, MapThenFoldSet, SumOf, Sums, First

\* The recursion has a solution over a finite set: the least size of subset up to which
\* it had none could not be zero, nor follow one up to which it has one.
LEMMA SumsExist ==
  ASSUME NEW f, NEW S, IsFiniteSet(S)
  PROVE  Sums(SumOf(f, S), f, SUBSET S)
<1> DEFINE Small(n) == {s \in SUBSET S : Cardinality(s) <= n}
           Solved(n) == \E sum : Sums(sum, f, Small(n))
           Bad == {n \in Nat : ~Solved(n)}
<1>1. \A s \in SUBSET S : IsFiniteSet(s) /\ Cardinality(s) \in Nat /\ Cardinality(s) <= Cardinality(S)
  BY FS_Subset, FS_CardinalityType
<1>2. \A s \in SUBSET S : s # {} => /\ First(s) \in s /\ s \ {First(s)} \in SUBSET S
                                    /\ Cardinality(s \ {First(s)}) = Cardinality(s) - 1
  <2> SUFFICES ASSUME NEW s \in SUBSET S, s # {}
               PROVE  /\ First(s) \in s /\ s \ {First(s)} \in SUBSET S
                      /\ Cardinality(s \ {First(s)}) = Cardinality(s) - 1
    OBVIOUS
  <2>1. First(s) \in s
    BY DEF First
  <2> QED
    BY <1>1, <2>1, FS_RemoveElement
<1>3. Solved(0)
  <2> DEFINE g == [s \in Small(0) |-> 0]
  <2>1. \A s \in Small(0) : s = {}
    <3> SUFFICES ASSUME NEW s \in SUBSET S, Cardinality(s) <= 0 PROVE s = {}
      OBVIOUS
    <3>1. Cardinality(s) = 0
      BY <1>1
    <3> QED
      BY <1>1, <3>1, FS_EmptySet
  <2>2. Sums(g, f, Small(0))
    BY <2>1, Zenon DEF Sums
  <2> QED
    BY <2>2
<1>4. ASSUME NEW n \in Nat, Solved(n) PROVE Solved(n + 1)
  <2> HIDE DEF Solved
  <2>1. PICK g : Sums(g, f, Small(n))
    BY <1>4 DEF Solved
  <2> DEFINE Sum(h, s) == IF s = {} THEN 0 ELSE f[First(s)] + h[s \ {First(s)}]
             h == [s \in Small(n + 1) |-> Sum(g, s)]
  <2>2. \A s \in Small(n) : g[s] = Sum(g, s) /\ s \in Small(n + 1)
    <3>1. \A s \in Small(n) : s \in Small(n + 1)
      BY <1>1
    <3> QED
      BY <2>1, <3>1, Zenon DEF Sums
  <2>3. \A s \in Small(n + 1) : s # {} => s \ {First(s)} \in Small(n)
    BY <1>1, <1>2
  <2> HIDE DEF Small
  <2>4. \A s \in Small(n + 1) : s # {} => h[s \ {First(s)}] = g[s \ {First(s)}]
    BY <2>2, <2>3, Zenon
  <2>5. \A s \in Small(n + 1) : Sum(g, s) = Sum(h, s)
    BY <2>4, Zenon
  <2>6. h = [s \in Small(n + 1) |-> Sum(h, s)]
    BY <2>5, Zenon
  <2>7. Sums(h, f, Small(n + 1))
    BY <2>6, Zenon DEF Sums
  <2> QED
    BY <2>7, Zenon DEF Solved
<1> HIDE DEF Solved
<1>5. Bad = {}
  <2> SUFFICES ASSUME Bad # {} PROVE FALSE
    OBVIOUS
  <2>1. PICK b \in Bad : TRUE
    OBVIOUS
  <2> DEFINE Below == {m \in Bad : m <= b}
             Segments == {1..m : m \in Below}
  <2>2. b \in Nat /\ Segments # {} /\ Segments \subseteq SUBSET (1..b)
    BY <2>1
  <2>3. SUBSET (1..b) = FiniteSubsetsOf(1..b)
    <3>1. IsFiniteSet(1..b)
      BY <2>2, FS_Interval
    <3> QED
      BY <3>1, FS_FiniteSubsetsOfFinite, Zenon
  <2>4. PICK s \in Segments : \A t \in Segments : ~(<<t, s>> \in StrictSubsetOrdering(1..b))
    <3> HIDE DEF Segments
    <3> QED
      BY <2>2, <2>3, FS_StrictSubsetOrderingWellFounded, WFMin, ZenonT(40)
  <2>5. PICK n \in Below : s = 1..n
    BY <2>4
  <2>6. n \in Nat /\ n # 0 /\ n - 1 \in Nat /\ n <= b
    BY <1>3, <2>5
  <2>7. n - 1 \notin Bad
    <3> SUFFICES ASSUME n - 1 \in Bad PROVE FALSE
      OBVIOUS
    <3> DEFINE t == 1..(n - 1)
    <3>1. t \in Segments
      BY <2>2, <2>6
    <3>2. t \in SUBSET (1..b) /\ s \in SUBSET (1..b) /\ t \subseteq s /\ t # s
      <4>1. n \in s /\ n \notin t
        BY <2>5, <2>6
      <4> QED
        BY <2>2, <2>5, <2>6, <4>1
    <3> HIDE DEF t, Segments
    <3> QED
      BY <2>4, <3>1, <3>2 DEF StrictSubsetOrdering
  <2>8. Solved((n - 1) + 1)
    BY <1>4, <2>6, <2>7
  <2> QED
    BY <2>5, <2>6, <2>8
<1>6. Small(Cardinality(S)) = SUBSET S
  BY <1>1
<1>7. \E sum : Sums(sum, f, SUBSET S)
  <2>1. Solved(Cardinality(S))
    BY <1>5, FS_CardinalityType
  <2> QED
    BY <1>6, <2>1 DEF Solved
<1> QED
  BY <1>7, Zenon DEF SumOf

\* A sum of numbers is a number.
LEMMA SumCounts ==
  ASSUME NEW S, IsFiniteSet(S), NEW f, \A i \in S : f[i] \in Nat
  PROVE  Total(f, S) \in Nat
<1> DEFINE sum == SumOf(f, S)
           Bad == {s \in SUBSET S : sum[s] \notin Nat}
<1>1. \A s \in SUBSET S : sum[s] = IF s = {} THEN 0 ELSE f[First(s)] + sum[s \ {First(s)}]
  <2>1. Sums(sum, f, SUBSET S)
    BY SumsExist
  <2> QED
    BY <2>1, Zenon DEF Sums
<1> HIDE DEF sum
<1>2. Bad = {}
  <2> SUFFICES ASSUME Bad # {} PROVE FALSE
    OBVIOUS
  <2>1. Bad \subseteq SUBSET S /\ SUBSET S = FiniteSubsetsOf(S)
    BY FS_FiniteSubsetsOfFinite, Zenon
  <2>2. PICK s \in Bad : \A t \in Bad : ~(<<t, s>> \in StrictSubsetOrdering(S))
    <3> HIDE DEF Bad
    <3> QED
      BY <2>1, FS_StrictSubsetOrderingWellFounded, WFMin
  <2>3. s \in SUBSET S /\ sum[s] \notin Nat /\ s # {}
    <3>1. {} \in SUBSET S /\ sum[{}] = 0
      BY <1>1, Zenon
    <3> QED
      BY <3>1
  <2> DEFINE t == s \ {First(s)}
  <2>4. First(s) \in s /\ f[First(s)] \in Nat
    BY <2>3 DEF First
  <2>5. t \in SUBSET S /\ t \subseteq s /\ t # s
    BY <2>3, <2>4
  <2>6. t \notin Bad
    <3> HIDE DEF t, Bad
    <3> QED
      BY <2>2, <2>3, <2>5 DEF StrictSubsetOrdering
  <2>7. sum[t] \in Nat
    BY <2>5, <2>6
  <2>8. sum[s] = f[First(s)] + sum[t]
    BY <1>1, <2>3
  <2> QED
    BY <2>3, <2>4, <2>7, <2>8
<1> QED
  BY <1>2, SumIsItsSolution DEF sum

\* A sum of zeros is zero.
LEMMA SumOfNothing ==
  ASSUME NEW S, IsFiniteSet(S), NEW f, \A i \in S : f[i] = 0
  PROVE  Total(f, S) = 0
<1> DEFINE sum == SumOf(f, S)
           Bad == {s \in SUBSET S : sum[s] # 0}
<1>1. \A s \in SUBSET S : sum[s] = IF s = {} THEN 0 ELSE f[First(s)] + sum[s \ {First(s)}]
  <2>1. Sums(sum, f, SUBSET S)
    BY SumsExist
  <2> QED
    BY <2>1, Zenon DEF Sums
<1> HIDE DEF sum
<1>2. Bad = {}
  <2> SUFFICES ASSUME Bad # {} PROVE FALSE
    OBVIOUS
  <2>1. Bad \subseteq SUBSET S /\ SUBSET S = FiniteSubsetsOf(S)
    BY FS_FiniteSubsetsOfFinite, Zenon
  <2>2. PICK s \in Bad : \A t \in Bad : ~(<<t, s>> \in StrictSubsetOrdering(S))
    <3> HIDE DEF Bad
    <3> QED
      BY <2>1, FS_StrictSubsetOrderingWellFounded, WFMin
  <2>3. s \in SUBSET S /\ sum[s] # 0 /\ s # {}
    <3>1. {} \in SUBSET S /\ sum[{}] = 0
      BY <1>1, Zenon
    <3> QED
      BY <3>1
  <2> DEFINE t == s \ {First(s)}
  <2>4. First(s) \in s /\ f[First(s)] = 0
    BY <2>3 DEF First
  <2>5. t \in SUBSET S /\ t \subseteq s /\ t # s
    BY <2>3, <2>4
  <2>6. t \notin Bad
    <3> HIDE DEF t, Bad
    <3> QED
      BY <2>2, <2>3, <2>5 DEF StrictSubsetOrdering
  <2>7. sum[t] = 0
    BY <2>5, <2>6
  <2>8. sum[s] = f[First(s)] + sum[t]
    BY <1>1, <2>3
  <2> QED
    BY <2>3, <2>4, <2>7, <2>8
<1> QED
  BY <1>2, SumIsItsSolution DEF sum

\* One more at one place is one more in the sum over a finite set with that place, and
\* nothing in another.
LEMMA SumGrows ==
  ASSUME NEW S, IsFiniteSet(S), NEW x,
         NEW f, NEW g, \A i \in S : f[i] \in Nat,
         \A i \in S : g[i] = IF i = x THEN f[i] + 1 ELSE f[i]
  PROVE  Total(g, S) = Total(f, S) + (IF x \in S THEN 1 ELSE 0)
<1> DEFINE old == SumOf(f, S)
           new == SumOf(g, S)
           More(s) == IF x \in s THEN 1 ELSE 0
           Bad == {s \in SUBSET S : ~(old[s] \in Nat /\ new[s] = old[s] + More(s))}
<1>1. \A s \in SUBSET S :
        /\ old[s] = IF s = {} THEN 0 ELSE f[First(s)] + old[s \ {First(s)}]
        /\ new[s] = IF s = {} THEN 0 ELSE g[First(s)] + new[s \ {First(s)}]
  <2>1. Sums(old, f, SUBSET S) /\ Sums(new, g, SUBSET S)
    BY SumsExist
  <2>2. \A s \in SUBSET S : old[s] = IF s = {} THEN 0 ELSE f[First(s)] + old[s \ {First(s)}]
    BY <2>1, Zenon DEF Sums
  <2>3. \A s \in SUBSET S : new[s] = IF s = {} THEN 0 ELSE g[First(s)] + new[s \ {First(s)}]
    BY <2>1, Zenon DEF Sums
  <2> QED
    BY <2>2, <2>3
<1> HIDE DEF old, new
<1>2. Bad = {}
  <2> SUFFICES ASSUME Bad # {} PROVE FALSE
    OBVIOUS
  <2>1. Bad \subseteq SUBSET S /\ SUBSET S = FiniteSubsetsOf(S)
    BY FS_FiniteSubsetsOfFinite, Zenon
  <2>2. PICK s \in Bad : \A t \in Bad : ~(<<t, s>> \in StrictSubsetOrdering(S))
    <3> HIDE DEF Bad
    <3> QED
      BY <2>1, FS_StrictSubsetOrderingWellFounded, WFMin
  <2>3. s \in SUBSET S /\ ~(old[s] \in Nat /\ new[s] = old[s] + More(s)) /\ s # {}
    <3>1. s \in SUBSET S /\ ~(old[s] \in Nat /\ new[s] = old[s] + More(s))
      OBVIOUS
    <3>2. s # {}
      <4>1. {} \in SUBSET S /\ {} = {}
        OBVIOUS
      <4>2. old[{}] = 0 /\ new[{}] = 0
        BY <1>1, <4>1, Zenon
      <4> QED
        BY <3>1, <4>2
    <3> QED
      BY <3>1, <3>2
  <2> DEFINE t == s \ {First(s)}
  <2>4. /\ First(s) \in s /\ First(s) \in S
        /\ t \in SUBSET S /\ t \subseteq s /\ t # s
    BY <2>3 DEF First
  <2>5. t \notin Bad
    <3> HIDE DEF t, Bad
    <3> QED
      BY <2>2, <2>3, <2>4 DEF StrictSubsetOrdering
  <2>6. More(s) = More(t) + (IF First(s) = x THEN 1 ELSE 0) /\ More(t) \in Nat
    BY <2>4
  <2>7. old[t] \in Nat /\ new[t] = old[t] + More(t)
    BY <2>4, <2>5
  <2>8. old[s] = f[First(s)] + old[t] /\ new[s] = g[First(s)] + new[t]
    BY <1>1, <2>3
  <2>9. f[First(s)] \in Nat /\ g[First(s)] = f[First(s)] + (IF First(s) = x THEN 1 ELSE 0)
    BY <2>4
  <2> HIDE DEF t, More
  <2>10. old[s] \in Nat /\ new[s] = old[s] + More(s)
    BY <2>6, <2>7, <2>8, <2>9
  <2> QED
    BY <2>3, <2>10
<1>3. new[S] = old[S] + (IF x \in S THEN 1 ELSE 0)
  BY <1>2
<1>4. Total(f, S) = old[S]
  BY SumIsItsSolution DEF old
<1>5. Total(g, S) = new[S]
  BY SumIsItsSolution DEF new
<1> QED
  BY <1>3, <1>4, <1>5

-----------------------------------------------------------------------------
(* The account of a day.                                                   *)

\* Requests with a reservation whose search has not gone out.
Granted == {h \in Handlers : On(h, "call")}

\* The day's counters agree; and what Google has received, with what it may yet be
\* asked, is paid for.
Paid ==
  \A d \in Days :
    /\ spent.platform[d] = Total(spent.ip[d], Ips)
    /\ spent.platform[d] = Total(spent.dev[d], Devices)
    /\ Total(received, By(d)) + (IF today <= d THEN Cardinality(Granted) ELSE 0)
         <= Total(spent.platform, By(d))

\* What the sums are made of.
LEMMA AccountsAreNumbers ==
  ASSUME TypeOK, NEW d \in Days
  PROVE  /\ IsFiniteSet(By(d)) /\ By(d) \in SUBSET Days
         /\ Total(received, By(d)) \in Nat /\ Total(spent.platform, By(d)) \in Nat
         /\ IsFiniteSet(Granted) /\ Cardinality(Granted) \in Nat
         /\ today \in Nat /\ d \in Nat
<1>1. d \in Nat /\ today \in Nat
  BY SearchAssumption DEF TypeOK
<1>2. IsFiniteSet(By(d)) /\ By(d) \in SUBSET Days
  <2>1. By(d) \in SUBSET (0..d) /\ By(d) \in SUBSET Days
    <3>1. \A e \in Days : e \in Nat
      BY SearchAssumption
    <3>2. \A e \in By(d) : e \in Days /\ e \in Nat /\ e <= d
      BY <3>1 DEF By
    <3>3. \A e \in By(d) : e \in 0..d
      BY <1>1, <3>2
    <3> QED
      BY <3>2, <3>3
  <2>2. IsFiniteSet(0..d)
    BY <1>1, FS_Interval
  <2> QED
    BY <2>1, <2>2, FS_Subset
<1>3. /\ \A e \in By(d) : received[e] \in Nat
      /\ \A e \in By(d) : spent.platform[e] \in Nat
  BY <1>2 DEF TypeOK, Counters
<1>4. Total(received, By(d)) \in Nat /\ Total(spent.platform, By(d)) \in Nat
  BY <1>2, <1>3, SumCounts
<1>5. IsFiniteSet(Granted) /\ Cardinality(Granted) \in Nat
  <2>1. Granted \in SUBSET Handlers
    BY DEF Granted
  <2> QED
    BY <2>1, FS_Subset, FS_CardinalityType, SearchAssumption
<1> QED
  BY <1>1, <1>2, <1>4, <1>5

\* A principal's counter of one day counts in that day's sum.
LEMMA OneMore ==
  ASSUME NEW S, IsFiniteSet(S), NEW f \in [Days -> [S -> Nat]],
         NEW e \in Days, NEW x \in S, NEW d \in Days
  PROVE  Total([f EXCEPT ![e][x] = @ + 1][d], S) = Total(f[d], S) + (IF d = e THEN 1 ELSE 0)
<1> DEFINE g == [f EXCEPT ![e][x] = @ + 1]
<1>1. \A i \in S : f[d][i] \in Nat
  OBVIOUS
<1>2. CASE d = e
  <2>1. \A i \in S : g[d][i] = IF i = x THEN f[d][i] + 1 ELSE f[d][i]
    BY <1>2
  <2> HIDE DEF g
  <2>2. Total(g[d], S) = Total(f[d], S) + (IF x \in S THEN 1 ELSE 0)
    BY <1>1, <2>1, SumGrows
  <2> QED
    BY <1>2, <2>2 DEF g
<1>3. CASE d # e
  <2>1. g[d] = f[d]
    BY <1>3
  <2> HIDE DEF g
  <2>2. Total(f[d], S) \in Nat
    BY <1>1, SumCounts
  <2> QED
    BY <1>3, <2>1, <2>2 DEF g
<1> QED
  BY <1>2, <1>3

\* A grant adds one to each counter of its day, and nothing to another day's.
LEMMA ChargesAgree ==
  ASSUME spent \in Counters, NEW e \in Days, NEW i \in Ips, NEW v \in Devices,
         NEW after, after = Charged(spent, e, i, v), NEW d \in Days
  PROVE  /\ after.platform[d] = IF d = e THEN spent.platform[d] + 1 ELSE spent.platform[d]
         /\ Total(after.ip[d], Ips) = Total(spent.ip[d], Ips) + (IF d = e THEN 1 ELSE 0)
         /\ Total(after.dev[d], Devices) = Total(spent.dev[d], Devices) + (IF d = e THEN 1 ELSE 0)
<1> DEFINE p == [spent.platform EXCEPT ![e] = @ + 1]
           m == [spent.ip EXCEPT ![e][i] = @ + 1]
           n == [spent.dev EXCEPT ![e][v] = @ + 1]
<1>1. after.platform = p /\ after.ip = m /\ after.dev = n
  <2>1. after = [[[spent EXCEPT !.platform = p] EXCEPT !.ip = m] EXCEPT !.dev = n]
    BY DEF Charged, Counters
  <2> HIDE DEF p, m, n
  <2> QED
    BY <2>1 DEF Counters
<1>2. /\ spent.platform \in [Days -> Nat]
      /\ spent.ip \in [Days -> [Ips -> Nat]] /\ spent.ip[d] \in [Ips -> Nat]
      /\ spent.dev \in [Days -> [Devices -> Nat]] /\ spent.dev[d] \in [Devices -> Nat]
  BY DEF Counters
<1>3. p[d] = IF d = e THEN spent.platform[d] + 1 ELSE spent.platform[d]
  BY <1>2
<1>4. IsFiniteSet(Ips) /\ IsFiniteSet(Devices)
  BY SearchAssumption
<1>5. Total(m[d], Ips) = Total(spent.ip[d], Ips) + (IF d = e THEN 1 ELSE 0)
  BY <1>2, <1>4, OneMore, ZenonT(40)
<1>6. Total(n[d], Devices) = Total(spent.dev[d], Devices) + (IF d = e THEN 1 ELSE 0)
  BY <1>2, <1>4, OneMore, Zenon
<1> HIDE DEF p, m, n
<1> QED
  BY <1>1, <1>3, <1>5, <1>6

\* Nothing is owed at first.
LEMMA InitEstablishesPaid == Init => Paid
<1> SUFFICES ASSUME Init, NEW d \in Days
             PROVE  /\ spent.platform[d] = Total(spent.ip[d], Ips)
                    /\ spent.platform[d] = Total(spent.dev[d], Devices)
                    /\ Total(received, By(d)) + (IF today <= d THEN Cardinality(Granted) ELSE 0)
                         <= Total(spent.platform, By(d))
  BY DEF Paid
<1>1. TypeOK
  BY InitEstablishesTypes
<1>2. /\ spent.platform = received /\ spent.platform[d] = 0
      /\ \A i \in Ips : spent.ip[d][i] = 0
      /\ \A v \in Devices : spent.dev[d][v] = 0
  BY DEF Init, NothingSpent
<1>3. Granted = {}
  BY DEF Granted, On, Init, Idle
<1>4. Total(spent.ip[d], Ips) = 0 /\ Total(spent.dev[d], Devices) = 0
  BY <1>2, SumOfNothing, SearchAssumption
<1>5. Total(received, By(d)) = Total(spent.platform, By(d)) /\ Cardinality(Granted) = 0
  BY <1>2, <1>3, FS_EmptySet
<1> QED
  BY <1>1, <1>2, <1>4, <1>5, AccountsAreNumbers

\* A step that neither charges nor calls, and grants nothing, owes nothing more.
LEMMA NothingBilled ==
  ASSUME TypeOK, TypeOK', Paid, UNCHANGED <<spent, received>>,
         Granted' \subseteq Granted, today' >= today
  PROVE  Paid'
<1> SUFFICES ASSUME NEW d \in Days
             PROVE  /\ spent'.platform[d] = Total(spent'.ip[d], Ips)
                    /\ spent'.platform[d] = Total(spent'.dev[d], Devices)
                    /\ Total(received', By(d)) + (IF today' <= d THEN Cardinality(Granted') ELSE 0)
                         <= Total(spent'.platform, By(d))
  BY DEF Paid, By
<1>1. Cardinality(Granted') \in Nat /\ Cardinality(Granted') <= Cardinality(Granted)
  <2>1. IsFiniteSet(Granted)
    BY AccountsAreNumbers
  <2> QED
    BY <2>1, FS_Subset, FS_CardinalityType
<1>2. /\ spent.platform[d] = Total(spent.ip[d], Ips)
      /\ spent.platform[d] = Total(spent.dev[d], Devices)
      /\ Total(received, By(d)) + (IF today <= d THEN Cardinality(Granted) ELSE 0)
           <= Total(spent.platform, By(d))
  BY DEF Paid
<1>3. today' \in Nat
  BY SearchAssumption DEF TypeOK
<1> QED
  BY <1>1, <1>2, <1>3, AccountsAreNumbers
\* A reservation that is granted charges the day for one more search to come; one that
\* is denied charges nobody, and one whose answer is lost may charge but grants nothing.
LEMMA ReservationsArePaid ==
  ASSUME TypeOK, TypeOK', Paid, NEW h \in Handlers, Reserve(h)
  PROVE  Paid'
<1> DEFINE i == IpOf[DeviceOf[h]]
           v == DeviceOf[h]
           charged == Charged(spent, today, i, v)
<1>1. /\ received' = received /\ today' = today /\ today \in Days /\ spent \in Counters
      /\ i \in Ips /\ v \in Devices /\ at[h].pc = "reserve"
  BY SearchAssumption DEF Reserve, On, TypeOK
<1>2. \A p \in Steps : Goto(h, p) => /\ at'[h].pc = p
                                     /\ \A g \in Handlers : g # h => at'[g] = at[g]
  BY <1>1, Moves DEF Steps
<1>3. \A p \in Steps : Goto(h, p) /\ p # "call" => Granted' \subseteq Granted
  BY <1>1, <1>2 DEF Granted, On
<1>4. Goto(h, "call") => /\ IsFiniteSet(Granted) /\ IsFiniteSet(Granted')
                         /\ Cardinality(Granted') = Cardinality(Granted) + 1
  <2> SUFFICES ASSUME Goto(h, "call") PROVE /\ IsFiniteSet(Granted) /\ IsFiniteSet(Granted')
                                            /\ Cardinality(Granted') = Cardinality(Granted) + 1
    OBVIOUS
  <2>1. Granted' = Granted \cup {h} /\ h \notin Granted
    BY <1>1, <1>2 DEF Granted, On, Steps
  <2>2. IsFiniteSet(Granted)
    BY <1>1, AccountsAreNumbers
  <2> QED
    BY <2>1, <2>2, FS_AddElement
<1>5. CASE spent' = spent /\ Granted' \subseteq Granted
  <2>1. today' >= today
    BY <1>1, AccountsAreNumbers
  <2> QED
    BY <1>1, <1>5, <2>1, NothingBilled
<1>6. CASE /\ spent' = charged
           /\ \/ Granted' \subseteq Granted
              \/ Cardinality(Granted') = Cardinality(Granted) + 1
  <2> SUFFICES ASSUME NEW d \in Days
               PROVE  /\ spent'.platform[d] = Total(spent'.ip[d], Ips)
                      /\ spent'.platform[d] = Total(spent'.dev[d], Devices)
                      /\ Total(received', By(d))
                           + (IF today' <= d THEN Cardinality(Granted') ELSE 0)
                           <= Total(spent'.platform, By(d))
    BY DEF Paid, By
  <2>1. /\ spent.platform[d] = Total(spent.ip[d], Ips)
        /\ spent.platform[d] = Total(spent.dev[d], Devices)
        /\ Total(received, By(d)) + (IF today <= d THEN Cardinality(Granted) ELSE 0)
             <= Total(spent.platform, By(d))
    BY DEF Paid
  <2>2. /\ \A e \in Days : spent'.platform[e] = IF e = today THEN spent.platform[e] + 1
                                                             ELSE spent.platform[e]
        /\ Total(spent'.ip[d], Ips) = Total(spent.ip[d], Ips) + (IF d = today THEN 1 ELSE 0)
        /\ Total(spent'.dev[d], Devices) =
             Total(spent.dev[d], Devices) + (IF d = today THEN 1 ELSE 0)
    <3> HIDE DEF charged
    <3>1. \A after : after = Charged(spent, today, i, v) =>
            /\ \A e \in Days : after.platform[e] = IF e = today THEN spent.platform[e] + 1
                                                                ELSE spent.platform[e]
            /\ Total(after.ip[d], Ips) = Total(spent.ip[d], Ips) + (IF d = today THEN 1 ELSE 0)
            /\ Total(after.dev[d], Devices) =
                 Total(spent.dev[d], Devices) + (IF d = today THEN 1 ELSE 0)
      <4> HIDE DEF i, v
      <4> QED
        BY <1>1, ChargesAgree
    <3> QED
      BY <1>6, <3>1 DEF charged
  <2>3. /\ IsFiniteSet(By(d)) /\ By(d) \in SUBSET Days /\ d \in Nat /\ today \in Nat
        /\ Total(received, By(d)) \in Nat /\ Total(spent.platform, By(d)) \in Nat
        /\ Cardinality(Granted) \in Nat /\ IsFiniteSet(Granted)
    BY AccountsAreNumbers
  <2>4. Total(spent'.platform, By(d)) =
          Total(spent.platform, By(d)) + (IF today \in By(d) THEN 1 ELSE 0)
    <3>1. \A e \in By(d) : spent.platform[e] \in Nat
      BY <2>3 DEF TypeOK, Counters
    <3>2. \A e \in By(d) : spent'.platform[e] = IF e = today THEN spent.platform[e] + 1
                                                             ELSE spent.platform[e]
      BY <2>2, <2>3
    <3> QED
      BY <2>3, <3>1, <3>2, SumGrows
  <2>5. today \in By(d) <=> today <= d
    BY <1>1 DEF By
  <2>6. Cardinality(Granted') \in Nat /\ Cardinality(Granted') <= Cardinality(Granted) + 1
    BY <1>6, <2>3, FS_Subset, FS_CardinalityType
  <2>7. spent.platform[d] \in Nat
    BY DEF TypeOK, Counters
  <2>8. /\ spent'.platform[d] = Total(spent'.ip[d], Ips)
        /\ spent'.platform[d] = Total(spent'.dev[d], Devices)
    <3> DEFINE one == IF d = today THEN 1 ELSE 0
    <3>1. spent'.platform[d] = spent.platform[d] + one
      BY <2>2, <2>7
    <3>2. Total(spent'.ip[d], Ips) = spent.platform[d] + one
      BY <2>1, <2>2, Zenon
    <3>3. Total(spent'.dev[d], Devices) = spent.platform[d] + one
      BY <2>1, <2>2, Zenon
    <3> DEFINE next == spent.platform[d] + one
    <3> HIDE DEF one, next
    <3>4. /\ spent'.platform[d] = next /\ Total(spent'.ip[d], Ips) = next
          /\ Total(spent'.dev[d], Devices) = next
      BY <3>1, <3>2, <3>3 DEF next
    <3> QED
      BY <3>4
  <2> DEFINE r == Total(received, By(d))
             s == Total(spent.platform, By(d))
             n == Cardinality(Granted)
             m == Cardinality(Granted')
  <2>9. r + (IF today <= d THEN m ELSE 0) <= s + (IF today <= d THEN 1 ELSE 0)
    <3>1. r + (IF today <= d THEN n ELSE 0) <= s
      BY <2>1
    <3>2. r \in Nat /\ s \in Nat /\ n \in Nat /\ m \in Nat /\ m <= n + 1
      BY <2>3, <2>6
    <3> HIDE DEF r, s, n, m
    <3> QED
      BY <3>1, <3>2
  <2>10. Total(received', By(d)) = r /\ today' = today
    BY <1>1
  <2>11. Total(spent'.platform, By(d)) = s + (IF today <= d THEN 1 ELSE 0)
    BY <2>4, <2>5
  <2> HIDE DEF charged, r, s, n
  <2> QED
    BY <2>8, <2>9, <2>10, <2>11
<1> QED
  <2>1. CASE spent' = Reserved(spent, today, i, v)
             /\ Goto(h, IF Verdict(spent, today, i, v) = "ok" THEN "call" ELSE "unlock")
    BY <1>3, <1>4, <1>5, <1>6, <2>1 DEF Reserved, Steps
  <2>2. CASE spent' \in {spent, Reserved(spent, today, i, v)} /\ Goto(h, "unlock")
    BY <1>3, <1>5, <1>6, <2>2 DEF Reserved, Steps
  <2> QED
    BY <2>1, <2>2 DEF Reserve

\* A search that goes out was granted.
LEMMA CallsArePaid ==
  ASSUME TypeOK, TypeOK', Paid, NEW h \in Handlers, Call(h)
  PROVE  Paid'
<1>1. /\ received' = [received EXCEPT ![today] = @ + 1] /\ today' = today /\ today \in Days
      /\ spent' = spent /\ at[h].pc = "call" /\ Goto(h, "google")
  BY DEF Call, On, TypeOK
<1>2. /\ at'[h].pc = "google" /\ \A g \in Handlers : g # h => at'[g] = at[g]
  BY <1>1, Moves DEF Steps
<1>3. h \in Granted /\ Granted' = Granted \ {h}
  BY <1>1, <1>2 DEF Granted, On
<1> SUFFICES ASSUME NEW d \in Days
             PROVE  /\ spent'.platform[d] = Total(spent'.ip[d], Ips)
                    /\ spent'.platform[d] = Total(spent'.dev[d], Devices)
                    /\ Total(received', By(d)) + (IF today' <= d THEN Cardinality(Granted') ELSE 0)
                         <= Total(spent'.platform, By(d))
  BY DEF Paid, By
<1>4. /\ spent.platform[d] = Total(spent.ip[d], Ips)
      /\ spent.platform[d] = Total(spent.dev[d], Devices)
      /\ Total(received, By(d)) + (IF today <= d THEN Cardinality(Granted) ELSE 0)
           <= Total(spent.platform, By(d))
  BY DEF Paid
<1>5. /\ IsFiniteSet(By(d)) /\ By(d) \in SUBSET Days /\ d \in Nat /\ today \in Nat
      /\ Total(received, By(d)) \in Nat /\ Total(spent.platform, By(d)) \in Nat
      /\ Cardinality(Granted) \in Nat /\ IsFiniteSet(Granted)
  BY AccountsAreNumbers
<1>6. Cardinality(Granted') \in Nat /\ Cardinality(Granted') = Cardinality(Granted) - 1
  BY <1>3, <1>5, FS_RemoveElement, FS_CardinalityType
<1>7. Total(received', By(d)) = Total(received, By(d)) + (IF today \in By(d) THEN 1 ELSE 0)
  <2>1. /\ \A e \in By(d) : received[e] \in Nat
        /\ \A e \in By(d) : received'[e] = IF e = today THEN received[e] + 1 ELSE received[e]
    BY <1>1, <1>5 DEF TypeOK
  <2> QED
    BY <1>5, <2>1, SumGrows
<1>8. today \in By(d) <=> today <= d
  BY <1>1 DEF By
<1> QED
  BY <1>1, <1>4, <1>5, <1>6, <1>7, <1>8

\* No other step touches the accounts.
LEMMA NextKeepsPaid == Sound /\ Paid /\ [Next]_vars => (Sound /\ Paid)'
<1> SUFFICES ASSUME Sound, Paid, [Next]_vars PROVE Paid'
  BY NextKeepsSound
<1>1. Sound' /\ TypeOK /\ TypeOK' /\ today \in Nat
  BY NextKeepsSound, SearchAssumption DEF Sound, TypeOK
<1>2. ASSUME NEW h \in Handlers, Reserve(h) PROVE Paid'
  BY <1>1, <1>2, ReservationsArePaid
<1>3. ASSUME NEW h \in Handlers, Call(h) PROVE Paid'
  BY <1>1, <1>3, CallsArePaid
<1>4. ASSUME NEW h \in Handlers,
             \A g \in Handlers : g # h => at'[g] = at[g],
             at'[h].pc # "call" \/ at'[h] = at[h]
      PROVE  Granted' \subseteq Granted
  BY <1>4 DEF Granted, On
<1>5. ASSUME NEW h \in Handlers, at[h].pc \in Steps, NEW p \in Steps, p # "call", Goto(h, p)
      PROVE  Granted' \subseteq Granted
  BY <1>1, <1>4, <1>5, Moves
<1>6. ASSUME NEW h \in Handlers, NEW x \in {Idle, Dead}, at' = [at EXCEPT ![h] = x]
      PROVE  Granted' \subseteq Granted
  BY <1>1, <1>4, <1>6, Ends
<1>7. ASSUME NEW h \in Handlers, Handle(h), ~Reserve(h), ~Call(h)
      PROVE  UNCHANGED <<spent, received, today>> /\ Granted' \subseteq Granted
  <2>1. UNCHANGED <<spent, received, today>> /\ at[h].pc \in Steps
    BY <1>7 DEF Handle, FreeTiers, GoLive, Acquire, ClearMarker, Recheck, PollPage, PollLock,
           LookOnceMore, GoogleAnswers, Fill, MarkFailed, Release, On, Steps, money
  <2>2. at[h] \in Running
    BY <1>1, <2>1, OnItsWay
  <2>3. \/ Reply(h) \/ \E p \in Steps \ {"call"} : Goto(h, p)
        \/ at' = [at EXCEPT ![h].role = "leader", ![h].pc = "clear"]
        \/ at' = [at EXCEPT ![h].role = "waiter", ![h].pc = "wait"]
        \/ at' = [at EXCEPT ![h].role = "solo", ![h].pc = "reserve"]
        \/ at' = [at EXCEPT ![h].attempt = 1, ![h].pc = "acquire"]
        \/ at' = [at EXCEPT ![h].failed = TRUE, ![h].pc = "mark"]
    BY <1>7 DEF Handle, FreeTiers, GoLive, Acquire, ClearMarker, Recheck, PollPage, PollLock,
           LookOnceMore, GoogleAnswers, Fill, MarkFailed, Release, Steps
  <2>4. CASE \/ at' = [at EXCEPT ![h].role = "leader", ![h].pc = "clear"]
             \/ at' = [at EXCEPT ![h].role = "waiter", ![h].pc = "wait"]
             \/ at' = [at EXCEPT ![h].role = "solo", ![h].pc = "reserve"]
             \/ at' = [at EXCEPT ![h].attempt = 1, ![h].pc = "acquire"]
             \/ at' = [at EXCEPT ![h].failed = TRUE, ![h].pc = "mark"]
    <3>1. at'[h].pc # "call" /\ \A g \in Handlers : g # h => at'[g] = at[g]
      BY <1>1, <2>2, <2>4 DEF TypeOK, Running
    <3> QED
      BY <1>4, <2>1, <3>1
  <2>5. CASE Reply(h)
    BY <1>6, <2>1, <2>5 DEF Reply
  <2>6. CASE \E p \in Steps \ {"call"} : Goto(h, p)
    BY <1>5, <2>1, <2>6
  <2> QED
    BY <2>3, <2>4, <2>5, <2>6
<1>8. ASSUME NEW h \in Handlers, Start(h) \/ Deadline(h) \/ Crash(h)
      PROVE  UNCHANGED <<spent, received, today>> /\ Granted' \subseteq Granted
  <2>1. CASE Start(h)
    <3>1. at'[h].pc # "call" /\ \A g \in Handlers : g # h => at'[g] = at[g]
      BY <1>1, <2>1 DEF Start, TypeOK
    <3> QED
      BY <1>4, <2>1, <3>1 DEF Start, money
  <2>2. CASE Deadline(h) \/ Crash(h)
    BY <1>6, <2>2 DEF Deadline, Crash, Reply, money
  <2> QED
    BY <1>8, <2>1, <2>2
<1>9. CASE \/ UNCHANGED vars \/ Midnight
           \/ \E q \in Questions : LockExpires(q) \/ MarkerExpires(q)
           \/ \E i \in Instances : LocalExpires(i)
  <2>1. UNCHANGED <<spent, received, at>> /\ today' \in {today, today + 1}
    BY <1>9 DEF vars, LockExpires, MarkerExpires, LocalExpires, Midnight, money
  <2>2. Granted' \subseteq Granted /\ today' >= today
    BY <1>1, <2>1 DEF Granted, On
  <2> QED
    BY <1>1, <2>1, <2>2, NothingBilled
<1>10. ASSUME UNCHANGED <<spent, received, today>>, Granted' \subseteq Granted
       PROVE  Paid'
  BY <1>1, <1>10, NothingBilled
<1> QED
  BY <1>2, <1>3, <1>7, <1>8, <1>9, <1>10 DEF Next

\* The daily budget, for any number of days, addresses, devices and requests: no
\* counter passes its cap, the three agree whatever reservation was lost on its way
\* back, and Google has never received more searches than were granted by then
\* (RESERVE_PRINCIPAL_SCRIPT and reserveSearchCall, lib/search-budget.ts).
THEOREM BudgetIsKept == Spec => []BudgetHolds
<1>1. Init => Sound /\ Paid
  BY InitEstablishesSound, InitEstablishesPaid
<1>2. Sound /\ Paid => BudgetHolds
  <2> SUFFICES ASSUME Sound, Paid, NEW d \in Days
               PROVE  Total(received, By(d)) <= Total(spent.platform, By(d))
    BY DEF BudgetHolds, Sound, CapsKept, Paid
  <2>1. /\ Total(received, By(d)) + (IF today <= d THEN Cardinality(Granted) ELSE 0)
             <= Total(spent.platform, By(d))
        /\ TypeOK
    BY DEF Paid, Sound
  <2> QED
    BY <2>1, AccountsAreNumbers
<1> QED
  BY <1>1, <1>2, NextKeepsPaid, PTL DEF Spec

=============================================================================
