------------------------------ MODULE Telemetry ------------------------------
(***************************************************************************)
(* The raw product events (lib/telemetry.ts, lib/telemetry-store.ts, the   *)
(* beacon /api/t) and the two readers of whole ranges of days, the host's  *)
(* analytics and the weekly rollup script; Reports has what they compute.  *)
(*                                                                         *)
(* The Redis store is three commands apart (push, expire, register a day), *)
(* each of which can fail; the in-process store is one step with a cap.    *)
(* A reader fetches one day after another while events still arrive.       *)
(***************************************************************************)
EXTENDS Naturals, Sequences, FiniteSets, Functions

CONSTANTS InFlight,      \* how many requests may be emitting at the same time
          TELEMETRY_EVENTS, CLIENT_ALLOWED_EVENTS,
          DAY,           \* the length of a UTC day, in ticks
          RETENTION,     \* TELEMETRY_RETENTION_SECONDS, in ticks
          MAX_RANGE_DAYS,
          MEMORY_MAX_EVENTS,
          MaxTime, MaxEvents, MaxFaults      \* bounds of the exploration

TelemetryAssumption ==
  /\ {DAY, RETENTION, MAX_RANGE_DAYS, MEMORY_MAX_EVENTS} \subseteq Nat \ {0}
  /\ {InFlight, MaxTime, MaxEvents, MaxFaults} \subseteq Nat

VARIABLES driver,    \* resolveDriver(): "upstash" or "memory"
          now,
          bucket,    \* telemetry:events:<day>, or the day's in-process list
          ttl,       \* the tick a day's key expires at, 0 for never
          days,      \* telemetry:days
          calls,     \* the events in hand, each with its next command
          emitted,   \* how many events got a server timestamp (numbers them)
          dropped,   \* droppedCount()
          reader     \* a whole-range read in progress

vars == <<driver, now, bucket, ttl, days, calls, emitted, dropped, reader>>

dayOf(t) == t \div DAY
Days == 0..dayOf(MaxTime)

-----------------------------------------------------------------------------
NoRead == [pc |-> "idle"]

Init ==
  /\ driver \in {"upstash", "memory"}
  /\ now = 0 /\ emitted = 0 /\ dropped = 0
  /\ bucket = [d \in Days |-> <<>>]
  /\ ttl = [d \in Days |-> 0]
  /\ days = {}
  /\ calls = {}
  /\ reader = NoRead

StoredIn(b) == UNION {Range(b[d]) : d \in Days}
Stored == StoredIn(bucket)

\* Mutant: the cap counts one event too many.
CappedEarly(b) ==
  IF Cardinality(Stored) + 1 >= MEMORY_MAX_EVENTS
    THEN [d \in Days |-> IF b[d] = <<>> THEN <<>> ELSE Tail(b[d])] ELSE b

\* Drop the head of the earliest day while there are too many.
Capped(b) ==
  LET earliest == CHOOSE d \in Days : b[d] # <<>> /\ \A e \in Days : b[e] # <<>> => d <= e
  IN IF Cardinality(StoredIn(b)) > MEMORY_MAX_EVENTS THEN [b EXCEPT ![earliest] = Tail(@)] ELSE b

\* track(): the server's clock stamps the record, then the store appends it.
\* What the record says is Reports' concern: here it is a number and its time.
track ==
  LET event == [n |-> emitted + 1, ts |-> now]
      d == dayOf(now)
  IN /\ emitted < MaxEvents
     /\ emitted' = emitted + 1
     /\ IF driver = "memory"
          THEN /\ bucket' = Capped([bucket EXCEPT ![d] = Append(@, event)])
               /\ days' = {e \in Days : bucket'[e] # <<>>}
               /\ UNCHANGED calls
          ELSE /\ Cardinality(calls) < InFlight
               /\ calls' = calls \cup {[pc |-> "push", event |-> event]}
               /\ UNCHANGED <<bucket, days>>

\* A route that saw the moment itself.
Emit ==
  /\ \E event \in TELEMETRY_EVENTS : event \notin CLIENT_ALLOWED_EVENTS
  /\ track
  /\ UNCHANGED <<driver, now, ttl, dropped, reader>>

\* POST /api/t: only what no server route can see; what is malformed or past
\* its rate never gets here.
Beacon ==
  /\ \E event \in TELEMETRY_EVENTS : event \in CLIENT_ALLOWED_EVENTS
  /\ track
  /\ UNCHANGED <<driver, now, ttl, dropped, reader>>

Then(c, pc) == calls' = (calls \ {c}) \cup {[c EXCEPT !.pc = pc]}

\* A key that starts to exist gets its retention at its first write.
Push(c) ==
  LET d == dayOf(c.event.ts)
  IN /\ c.pc = "push"
     /\ bucket' = [bucket EXCEPT ![d] = Append(@, c.event)]
     /\ Then(c, IF Len(bucket'[d]) = 1 THEN "expire" ELSE "register")
     /\ UNCHANGED <<driver, now, ttl, days, emitted, dropped, reader>>

Expire(c) ==
  LET d == dayOf(c.event.ts)
  IN /\ c.pc = "expire"
     /\ ttl' = [ttl EXCEPT ![d] = IF bucket[d] = <<>> THEN 0 ELSE now + RETENTION]
     /\ Then(c, "register")
     /\ UNCHANGED <<driver, now, bucket, days, emitted, dropped, reader>>

Register(c) ==
  /\ c.pc = "register"
  /\ days' = days \cup {dayOf(c.event.ts)}
  /\ calls' = calls \ {c}
  /\ UNCHANGED <<driver, now, bucket, ttl, emitted, dropped, reader>>

\* Any of the three calls fails (or its answer is lost): swallowed, counted.
Swallow(c) ==
  /\ dropped < MaxFaults
  /\ dropped' = dropped + 1
  /\ calls' = calls \ {c}
  /\ UNCHANGED <<driver, now, bucket, ttl, days, emitted, reader>>

\* Time passes; Redis drops the keys whose time is up.
Tick ==
  LET gone == {d \in Days : ttl[d] # 0 /\ ttl[d] <= now + 1}
  IN /\ now < MaxTime
     /\ now' = now + 1
     /\ bucket' = [d \in Days |-> IF d \in gone THEN <<>> ELSE bucket[d]]
     /\ ttl' = [d \in Days |-> IF d \in gone THEN 0 ELSE ttl[d]]
     /\ UNCHANGED <<driver, days, calls, emitted, dropped, reader>>

-----------------------------------------------------------------------------
\* GET /api/host/analytics by the default room's host, and the weekly script:
\* listRange takes a range of at most MAX_RANGE_DAYS, one LRANGE per day (the
\* in-process driver has them all at once). What it returns is sorted by time: it
\* matters here by the days it was read from.
Reading(from, to, last) ==
  [pc |-> IF last = to THEN "answered" ELSE "reading", to |-> to, day |-> last + 1,
   got |-> [d \in Days |-> IF d \in from..last THEN bucket[d] ELSE <<>>],
   there |-> {e \in Stored : dayOf(e.ts) \in from..to}]

\* Mutant: the last day of the range is left out.
AskExclusive ==
  /\ reader.pc # "reading"
  /\ \E from, to \in Days :
       /\ from < to /\ to - from + 1 <= MAX_RANGE_DAYS
       /\ reader' = [Reading(from, to, to - 1) EXCEPT !.pc = "answered"]
  /\ UNCHANGED <<driver, now, bucket, ttl, days, calls, emitted, dropped>>

Ask ==
  /\ reader.pc # "reading"
  /\ \E from, to \in Days :
       /\ from <= to /\ to - from + 1 <= MAX_RANGE_DAYS
       /\ reader' = Reading(from, to, IF driver = "memory" THEN to ELSE from)
  /\ UNCHANGED <<driver, now, bucket, ttl, days, calls, emitted, dropped>>

ReadDay ==
  /\ reader.pc = "reading"
  /\ reader' = [reader EXCEPT !.got[reader.day] = bucket[reader.day],
                              !.day = @ + 1,
                              !.pc = IF reader.day = reader.to THEN "answered" ELSE @]
  /\ UNCHANGED <<driver, now, bucket, ttl, days, calls, emitted, dropped>>

Next ==
  \/ Emit \/ Beacon
  \/ \E c \in calls : Push(c) \/ Expire(c) \/ Register(c) \/ Swallow(c)
  \/ Tick \/ Ask \/ ReadDay

Spec == Init /\ [][Next]_vars

-----------------------------------------------------------------------------
\* Every event of the range that was stored when the read began, and whose day
\* has not expired since, is read exactly once, and none is read twice, although
\* events arrive out of the order of their timestamps and between the reads of
\* two days (listRange, telemetry-store.ts:169, "whole-day-range only").
ReadOnce ==
  reader.pc = "answered" =>
    /\ reader.there \cap Stored \subseteq StoredIn(reader.got)
    /\ \A d, e \in Days : \A i \in DOMAIN reader.got[d], j \in DOMAIN reader.got[e] :
         reader.got[d][i] = reader.got[e][j] => d = e /\ i = j

\* What is missing is accounted for: an event the server stamped is in hand,
\* stored, counted as dropped, past the in-process cap, or of a day whose
\* retention is over, which is never before RETENTION after its first push
\* (createTracker's catch, telemetry.ts:89; expire, telemetry-store.ts:160).
LossesAreCounted ==
  LET live == {c \in calls : c.pc = "push"}
      kept == IF driver = "memory" /\ emitted > MEMORY_MAX_EVENTS THEN MEMORY_MAX_EVENTS
                                                                  ELSE emitted
  IN now < RETENTION => Cardinality(Stored) + Cardinality(live) + dropped >= kept
=============================================================================
