------------------------------ MODULE SearchRoute ------------------------------
(***************************************************************************)
(* GET /api/search (app/api/search/route.ts) with the single flight        *)
(* (lib/search-single-flight.ts), the shared and the per-instance cache    *)
(* (lib/search-cache.ts) and the daily budget of billed searches           *)
(* (lib/search-budget.ts), a script over three counters.  A handler is one *)
(* request at a time on one instance; an action is what it does between    *)
(* two awaits.                                                             *)
(*                                                                         *)
(* A question is a cache key, so spellings that fold together are one      *)
(* question.  A page is there or not: an instance's copy and the shared    *)
(* one hold the same page, and a run is shorter than the shared one's TTL. *)
(* The clock is left out but for the day: a lock, a marker, an instance's  *)
(* copy or a deadline may run out at any moment.  The counters of a day    *)
(* are never deleted: the day is part of the key, and the key's TTL is     *)
(* longer than a day.  The velocity windows and the live cooldown are      *)
(* SlidingWindows'; here any request may be turned away by them.           *)
(***************************************************************************)
EXTENDS Integers, FiniteSets, FiniteSetsExt

CONSTANTS
  Days,                    \* Pacific calendar days
  Ips,                     \* client addresses
  Devices,                 \* device keys
  SEARCH_DAILY_BUDGET,     \* searches a day, for the whole platform
  DEFAULT_DEVICE_DAILY_CAP,
  SEARCH_IP_DAILY_CAP,     \* the environment's overrides of the two shares:
  SEARCH_DEVICE_DAILY_CAP, \* a number, or Unset or Malformed
  Unset, Malformed,
  Handlers,       \* requests in flight at a time
  NoHandler,      \* a free lock
  Questions,      \* cache keys
  Indexed,        \* those the karaoke index answers
  Instances, InstanceOf,   \* where each handler runs
  DeviceOf,       \* the device whose requests it handles
  IpOf,           \* the address each device comes from
  MaxRequests,    \* bound on requests
  MaxFaults       \* bound on faults: a lost Redis call, a failed search, a lock
                  \* that expires under its leader, an instance that dies

ASSUME BudgetAssumption ==
  /\ {SEARCH_DAILY_BUDGET, DEFAULT_DEVICE_DAILY_CAP} \subseteq Nat \ {0}
  /\ {SEARCH_IP_DAILY_CAP, SEARCH_DEVICE_DAILY_CAP} \subseteq Nat \cup {Unset, Malformed}
  /\ {Unset, Malformed} \cap Nat = {}

ASSUME SearchAssumption ==
  /\ NoHandler \notin Handlers /\ IsFiniteSet(Handlers)
  /\ Indexed \subseteq Questions
  /\ InstanceOf \in [Handlers -> Instances]
  /\ DeviceOf \in [Handlers -> Devices]
  /\ IpOf \in [Devices -> Ips]
  /\ MaxRequests \in Nat /\ MaxFaults \in Nat
  /\ Days \subseteq Nat /\ 1 \in Days
  /\ IsFiniteSet(Ips) /\ IsFiniteSet(Devices)   \* their keys are digests of 32 digits

-----------------------------------------------------------------------------
(* The daily budget.                                                       *)

\* parseCapOverride: an override that is not a positive integer is ignored, and
\* no share exceeds the whole.
ParseCapOverride(raw, fallback) ==
  IF raw \in {Unset, Malformed, 0} THEN fallback
  ELSE IF raw < SEARCH_DAILY_BUDGET THEN raw ELSE SEARCH_DAILY_BUDGET

IpDailyCap == ParseCapOverride(SEARCH_IP_DAILY_CAP, SEARCH_DAILY_BUDGET)
DeviceDailyCap == ParseCapOverride(SEARCH_DEVICE_DAILY_CAP, DEFAULT_DEVICE_DAILY_CAP)

\* The keys sb:<day>, sb:<day>:ip:<ip> and sb:<day>:dev:<device>.
Counters == [platform : [Days -> Nat], ip : [Days -> [Ips -> Nat]], dev : [Days -> [Devices -> Nat]]]
NothingSpent ==
  [platform |-> [d \in Days |-> 0],
   ip |-> [d \in Days |-> [i \in Ips |-> 0]],
   dev |-> [d \in Days |-> [v \in Devices |-> 0]]]

\* Mutant: the address and the platform are checked, the platform's cap off by one.
VerdictOffByOne(spent, day, ip, dev) ==
  IF spent.platform[day] > SEARCH_DAILY_BUDGET THEN "cap"
  ELSE IF spent.ip[day][ip] > IpDailyCap THEN "ip" ELSE "ok"

\* RESERVE_PRINCIPAL_SCRIPT's checks, the platform's first, and what `denied`
\* makes of the code.
Verdict(spent, day, ip, dev) ==
  IF spent.platform[day] >= SEARCH_DAILY_BUDGET THEN "cap"
  ELSE IF spent.ip[day][ip] >= IpDailyCap THEN "ip"
  ELSE IF spent.dev[day][dev] >= DeviceDailyCap THEN "device"
  ELSE "ok"

\* Its three increments.
Charged(spent, day, ip, dev) ==
  [spent EXCEPT !.platform[day] = @ + 1, !.ip[day][ip] = @ + 1, !.dev[day][dev] = @ + 1]

\* The whole script.
Reserved(spent, day, ip, dev) ==
  IF Verdict(spent, day, ip, dev) = "ok" THEN Charged(spent, day, ip, dev) ELSE spent

-----------------------------------------------------------------------------
(* The route.                                                              *)

VARIABLES
  lock,      \* sf:lock:<question>: whose token it holds
  marker,    \* sf:err:<question>
  stored,    \* questions whose page is in Redis
  local,     \* questions whose page an instance keeps
  spent,     \* the budget's counters
  today,
  received,  \* searches Google has received each day
  at,        \* the handlers
  faults,    \* faults so far
  started,   \* requests so far
  calls,     \* history: searches issued for each question
  excused    \* history: faults that hit a request for each question

flight == <<lock, marker>>
caches == <<stored, local>>
money == <<spent, received, calls>>
history == <<faults, excused>>
vars == <<flight, caches, money, today, at, history, started>>

Steps == {"cache", "acquire", "clear", "recheck", "wait", "peek", "late",
          "reserve", "call", "google", "fill", "mark", "unlock"}
Roles == {"none", "leader", "waiter", "solo"}

\* A handler: no request, one whose instance died, or one on its way.
Idle == [pc |-> "idle"]
Dead == [pc |-> "dead"]
Running == [pc : Steps, q : Questions, role : Roles, attempt : {0, 1}, failed : BOOLEAN]
Busy(h) == at[h] \notin {Idle, Dead}
On(h, step) == at[h].pc = step
Q(h) == at[h].q

Init ==
  /\ lock = [q \in Questions |-> NoHandler]
  /\ marker = [q \in Questions |-> FALSE]
  /\ stored = {} /\ local = [i \in Instances |-> {}]
  /\ spent = NothingSpent
  /\ today = 1
  /\ received = [d \in Days |-> 0]
  /\ at = [h \in Handlers |-> Idle]
  /\ faults = 0 /\ started = 0
  /\ calls = [q \in Questions |-> 0]
  /\ excused = [q \in Questions |-> 0]

Goto(h, step) == at' = [at EXCEPT ![h].pc = step]
Reply(h) == at' = [at EXCEPT ![h] = Idle]
\* Something goes wrong for a request for q, or nothing does.
FaultAt(q) ==
  /\ faults < MaxFaults
  /\ faults' = faults + 1
  /\ excused' = [excused EXCEPT ![q] = @ + 1]
Fault(h) == FaultAt(Q(h))
NoFault == UNCHANGED history

\* getCachedSearchPage, seen from h: the instance's copy, or the shared one, which
\* it then keeps.  A Redis error is a miss.
Warm(h) == local' = [local EXCEPT ![InstanceOf[h]] = @ \cup {Q(h)}]
Hit(h) ==
  /\ Q(h) \in stored \cup local[InstanceOf[h]]
  /\ Warm(h) /\ NoFault
Miss(h) ==
  /\ Q(h) \notin local[InstanceOf[h]]
  /\ \/ Q(h) \notin stored /\ NoFault
     \/ Q(h) \in stored /\ Fault(h)
  /\ UNCHANGED local

Start(h) ==
  /\ at[h] = Idle /\ started < MaxRequests
  /\ started' = started + 1
  /\ \E q \in Questions :
       at' = [at EXCEPT ![h] = [pc |-> "cache", q |-> q, role |-> "none",
                                attempt |-> 0, failed |-> FALSE]]
  /\ UNCHANGED <<flight, caches, money, today, history>>

\* The free tiers: the caches, then the index.  A request that may not bill (no
\* live=1) and one the cooldown defers end here too.
FreeTiers(h) ==
  /\ On(h, "cache")
  /\ Hit(h) \/ Miss(h)
  /\ Reply(h)
  /\ UNCHANGED <<flight, stored, money, today, started>>

GoLive(h) ==
  /\ On(h, "cache") /\ Miss(h)
  /\ Q(h) \notin Indexed
  /\ Goto(h, "acquire")
  /\ UNCHANGED <<flight, stored, money, today, started>>

\* acquireSearchFlight: SET NX.  A Redis error makes the request go on alone.
Acquire(h) ==
  /\ On(h, "acquire")
  /\ \/ /\ lock[Q(h)] = NoHandler
        /\ lock' = [lock EXCEPT ![Q(h)] = h]
        /\ at' = [at EXCEPT ![h].role = "leader", ![h].pc = "clear"]
        /\ NoFault
     \/ /\ lock[Q(h)] # NoHandler
        /\ at' = [at EXCEPT ![h].role = "waiter", ![h].pc = "wait"]
        /\ UNCHANGED lock /\ NoFault
     \/ /\ Fault(h)
        /\ at' = [at EXCEPT ![h].role = "solo", ![h].pc = "reserve"]
        /\ UNCHANGED lock
  /\ UNCHANGED <<marker, caches, money, today, started>>

\* The new leader clears what an earlier flight left for its waiters.
ClearMarker(h) ==
  /\ On(h, "clear")
  /\ \/ marker' = [marker EXCEPT ![Q(h)] = FALSE] /\ NoFault
     \/ Fault(h) /\ UNCHANGED marker
  /\ Goto(h, "recheck")
  /\ UNCHANGED <<lock, caches, money, today, started>>

\* Mutant: a new leader does not look at the cache again.
RecheckNothing(h) ==
  /\ On(h, "recheck") /\ Goto(h, "reserve")
  /\ UNCHANGED <<flight, caches, money, today, history, started>>

\* "A previous leader may have filled the cache between our miss and the lock."
Recheck(h) ==
  /\ On(h, "recheck")
  /\ \/ Hit(h) /\ Goto(h, "unlock")
     \/ Miss(h) /\ Goto(h, "reserve")
  /\ UNCHANGED <<flight, stored, money, today, started>>

\* Mutant: a waiter waits as long as somebody holds the lock.
DeadlineWhenFree(h) ==
  /\ On(h, "wait") /\ lock[Q(h)] = NoHandler /\ Reply(h)
  /\ UNCHANGED <<flight, caches, money, today, history, started>>

\* waitForSearchFlight, one turn of its loop: the deadline, the page, then the
\* lock and the marker.
Deadline(h) ==
  /\ On(h, "wait") /\ Reply(h)
  /\ UNCHANGED <<flight, caches, money, today, history, started>>

PollPage(h) ==
  /\ On(h, "wait")
  /\ \/ Hit(h) /\ Reply(h)
     \/ Miss(h) /\ Goto(h, "peek")
  /\ UNCHANGED <<flight, stored, money, today, started>>

PollLock(h) ==
  /\ On(h, "peek")
  /\ LET q == Q(h) IN
     \/ marker[q] /\ Reply(h) /\ NoFault
     \/ ~marker[q] /\ lock[q] = NoHandler /\ Goto(h, "late") /\ NoFault
     \/ ~marker[q] /\ lock[q] # NoHandler /\ Goto(h, "wait") /\ NoFault
     \/ Fault(h) /\ Reply(h)
  /\ UNCHANGED <<flight, caches, money, today, started>>

\* The lock is gone: look once more, then lead, but only once.
LookOnceMore(h) ==
  /\ On(h, "late")
  /\ \/ Hit(h) /\ Reply(h)
     \/ Miss(h) /\ at[h].attempt = 1 /\ Reply(h)
     \/ /\ Miss(h) /\ at[h].attempt = 0
        /\ at' = [at EXCEPT ![h].attempt = 1, ![h].pc = "acquire"]
  /\ UNCHANGED <<flight, stored, money, today, started>>

\* Mutant: the search goes out without a reservation.
ReserveNothing(h) ==
  /\ On(h, "reserve") /\ Goto(h, "call")
  /\ UNCHANGED <<flight, caches, money, today, history, started>>

\* reserveSearchCall: one script.  When the call is lost, the script may have run
\* or not, and the search is denied either way.
Reserve(h) ==
  /\ On(h, "reserve")
  /\ LET v == DeviceOf[h] IN
     \/ /\ spent' = Reserved(spent, today, IpOf[v], v)
        /\ Goto(h, IF Verdict(spent, today, IpOf[v], v) = "ok" THEN "call" ELSE "unlock")
        /\ NoFault
     \/ /\ Fault(h)
        /\ spent' \in {spent, Reserved(spent, today, IpOf[v], v)}
        /\ Goto(h, "unlock")
  /\ UNCHANGED <<flight, caches, today, received, calls, started>>

\* searchYouTubePage: the request is Google's from the moment it is received.
Call(h) ==
  /\ On(h, "call")
  /\ received' = [received EXCEPT ![today] = @ + 1]
  /\ calls' = [calls EXCEPT ![Q(h)] = @ + 1]
  /\ Goto(h, "google")
  /\ UNCHANGED <<flight, caches, spent, today, history, started>>

\* A refused or failed search.list, or a quota error of videos.list, throws.
GoogleAnswers(h) ==
  /\ On(h, "google")
  /\ \/ Goto(h, "fill") /\ NoFault
     \/ Fault(h) /\ at' = [at EXCEPT ![h].failed = TRUE, ![h].pc = "mark"]
  /\ UNCHANGED <<flight, caches, money, today, started>>

\* setCachedSearchPage: the instance's copy always, the shared one unless Redis fails.
Fill(h) ==
  /\ On(h, "fill")
  /\ Warm(h)
  /\ \/ stored' = stored \cup {Q(h)} /\ NoFault
     \/ Fault(h) /\ UNCHANGED stored
  /\ Goto(h, "unlock")
  /\ UNCHANGED <<flight, money, today, started>>

\* release, of a leader whose search failed: the marker, before the lock goes.  A
\* Redis error ends it; who leads no flight has nothing to release.
MarkFailed(h) ==
  /\ On(h, "mark")
  /\ \/ /\ at[h].role = "leader" /\ NoFault
        /\ marker' = [marker EXCEPT ![Q(h)] = TRUE]
        /\ Goto(h, "unlock")
     \/ at[h].role = "leader" /\ Fault(h) /\ Reply(h) /\ UNCHANGED marker
     \/ at[h].role # "leader" /\ NoFault /\ Reply(h) /\ UNCHANGED marker
  /\ UNCHANGED <<lock, caches, money, today, started>>

\* Mutant: a plain DEL, whoever holds the lock.
UnlockedByAnyone(h) ==
  IF at[h].role = "leader" THEN [lock EXCEPT ![Q(h)] = NoHandler] ELSE lock

\* RELEASE_LOCK_SCRIPT, and the answer.
Unlocked(h) ==
  IF at[h].role = "leader" /\ lock[Q(h)] = h
    THEN [lock EXCEPT ![Q(h)] = NoHandler] ELSE lock

Release(h) ==
  /\ On(h, "unlock")
  /\ \/ lock' = Unlocked(h) /\ NoFault
     \/ at[h].role = "leader" /\ Fault(h) /\ UNCHANGED lock
  /\ Reply(h)
  /\ UNCHANGED <<marker, caches, money, today, started>>

-----------------------------------------------------------------------------
\* What time and failure do.

\* A leader that holds q's lock and has not ended its flight.
Leads(h, q) == lock[q] = h /\ Busy(h) /\ at[h].role = "leader" /\ Q(h) = q

\* The lock's TTL runs out: under a leader that is slow, or after one that died
\* or could not release it.
LockExpires(q) ==
  /\ lock[q] # NoHandler
  /\ lock' = [lock EXCEPT ![q] = NoHandler]
  /\ IF Leads(lock[q], q) THEN FaultAt(q) ELSE NoFault
  /\ UNCHANGED <<marker, caches, money, today, at, started>>

MarkerExpires(q) ==
  /\ marker[q]
  /\ marker' = [marker EXCEPT ![q] = FALSE]
  /\ UNCHANGED <<lock, caches, money, today, at, history, started>>

\* The instance's copy: a minute, or a hundred newer questions.
LocalExpires(i) ==
  /\ \E q \in local[i] : local' = [local EXCEPT ![i] = @ \ {q}]
  /\ UNCHANGED <<flight, stored, money, today, at, history, started>>

Midnight ==
  /\ today + 1 \in Days
  /\ today' = today + 1
  /\ UNCHANGED <<flight, caches, money, at, history, started>>

\* An instance is cut off in the middle of a request.
Crash(h) ==
  /\ Busy(h) /\ Fault(h)
  /\ at' = [at EXCEPT ![h] = Dead]
  /\ UNCHANGED <<flight, caches, money, today, started>>

Handle(h) ==
  \/ FreeTiers(h) \/ GoLive(h) \/ Acquire(h) \/ ClearMarker(h) \/ Recheck(h)
  \/ PollPage(h) \/ PollLock(h) \/ LookOnceMore(h) \/ Reserve(h) \/ Call(h)
  \/ GoogleAnswers(h) \/ Fill(h) \/ MarkFailed(h) \/ Release(h)

Next ==
  \/ \E h \in Handlers : Start(h) \/ Handle(h) \/ Deadline(h) \/ Crash(h)
  \/ \E q \in Questions : LockExpires(q) \/ MarkerExpires(q)
  \/ \E i \in Instances : LocalExpires(i)
  \/ Midnight

\* A request that runs is scheduled, and the clock its deadline is read from moves.
Fairness == \A h \in Handlers : WF_vars(Handle(h)) /\ SF_vars(Deadline(h))

Spec == Init /\ [][Next]_vars
FairSpec == Spec /\ Fairness
-----------------------------------------------------------------------------
\* Properties.

TypeOK ==
  /\ lock \in [Questions -> Handlers \cup {NoHandler}]
  /\ marker \in [Questions -> BOOLEAN]
  /\ stored \subseteq Questions /\ local \in [Instances -> SUBSET Questions]
  /\ spent \in Counters /\ today \in Days
  /\ received \in [Days -> Nat]
  /\ at \in [Handlers -> {Idle, Dead} \cup Running]
  /\ faults \in Nat /\ started \in Nat
  /\ calls \in [Questions -> Nat] /\ excused \in [Questions -> Nat]

\* A question costs one billed search, and one more for each fault that hits a
\* request for it, however many ask it at the same time on however many instances
\* (the single flight, the look after the lock and the look after the wait).
OneCallPerQuestion == \A q \in Questions : calls[q] <= 1 + excused[q]

\* Nobody but its leader's own release, or its TTL, ends a flight that is under way:
\* a leader whose lock has expired never frees its successor's.
OnlyItsLeaderEndsAFlight ==
  [][\A q \in Questions, h \in Handlers :
       Leads(h, q) /\ lock'[q] # h => Release(h) \/ LockExpires(q)]_vars

\* The three counters of a day keep to their caps and agree with each other, since
\* a denial charges nobody and a grant charges all three; and by the end of no day
\* has Google received more searches than were granted by then: a request that
\* midnight catches between its reservation and its call spends the earlier day's.
Total(count, S) == MapThenSumSet(LAMBDA i : count[i], S)
By(d) == {e \in Days : e <= d}
BudgetHolds ==
  \A d \in Days :
    /\ spent.platform[d] <= SEARCH_DAILY_BUDGET
    /\ \A i \in Ips : spent.ip[d][i] <= IpDailyCap
    /\ \A v \in Devices : spent.dev[d][v] <= DeviceDailyCap
    /\ spent.platform[d] = Total(spent.ip[d], Ips)
    /\ spent.platform[d] = Total(spent.dev[d], Devices)
    /\ Total(received, By(d)) <= Total(spent.platform, By(d))

\* Every search is answered, whatever happens to the leader it waits for: a lock
\* whose owner died holds its waiters until their deadline, not until its TTL.
EverySearchAnswered == \A h \in Handlers : Busy(h) ~> ~Busy(h)

\* What the header of lib/search-single-flight.ts says of the failure marker: "The
\* next leader to acquire clears that marker, so it never outlives its flight."  No
\* waiter gives up because of it while a leader that has not failed holds the lock.
MarkerEndsWithItsFlight ==
  [][\A h, l \in Handlers :
       ~(/\ On(h, "peek") /\ marker[Q(h)] /\ at'[h] = Idle /\ NoFault
         /\ Leads(l, Q(h)) /\ ~at[l].failed)]_vars
=============================================================================
