---------------------------- MODULE SlidingWindows ----------------------------
(***************************************************************************)
(* The in-memory rate limits: of advances (lib/advance-rate-limit.ts), of    *)
(* submissions (lib/queue-rate-limit.ts), of telemetry beacons               *)
(* (lib/telemetry-rate-limit.ts), of video previews                          *)
(* (lib/video-meta-rate-limit.ts) and of searches (rateLimitOk and           *)
(* indexRateLimitOk of lib/youtube-search.ts).  Each keeps, per key, the     *)
(* times of the last minute's hits, in a map that forgets the key touched    *)
(* longest ago when it holds too many.                                       *)
(*                                                                           *)
(* A behaviour is one limiter's.  A caller is a <<subject, place>>: a uuid   *)
(* or session and its address, or whether an advance says "unplayable" and   *)
(* the room.                                                                 *)
(***************************************************************************)
EXTENDS Integers, Sequences, SequencesExt, FiniteSets

CONSTANTS
  Subjects, Places,
  Unplayables,                  \* the subjects that are an "unplayable" advance
  SUBJECT_MAX, PLACE_MAX,       \* RATE_UUID_MAX, RATE_IP_MAX, and their likes
  SKIP_MAX,                     \* ADVANCE_ROOM_MAX
  BUCKETS_MAX, WINDOW,
  MaxTime, MaxCalls             \* bounds

SlidingWindowsAssumption ==
  {SUBJECT_MAX, PLACE_MAX, SKIP_MAX, BUCKETS_MAX, WINDOW, MaxTime, MaxCalls} \subseteq Nat

VARIABLES
  limiter,
  now,
  hits,       \* the map in insertion order: a sequence of [key, times]
  granted,    \* who was let through in the last window, and when
  evicted,    \* whether a key was ever forgotten
  calls

vars == <<limiter, now, hits, granted, evicted, calls>>

Limiters == {"advance", "submit", "beacon", "meta", "search"}

Init ==
  /\ limiter \in Limiters
  /\ now = 1 /\ hits = <<>> /\ granted = <<>> /\ evicted = FALSE /\ calls = 0

Tick ==
  /\ now < MaxTime /\ now' = now + 1
  /\ granted' = SelectSeq(granted, LAMBDA g : g.at > now' - WINDOW)
  /\ UNCHANGED <<limiter, hits, evicted, calls>>

-----------------------------------------------------------------------------

Recent(map, key) ==
  LET kept == SelectSeq(map, LAMBDA e : e.key = key)
  IN  IF kept = <<>> THEN <<>>
      ELSE SelectSeq(kept[1].times, LAMBDA t : t > now - WINDOW)

\* delete and set again: the key goes to the tail
Touch(map, key, times) ==
  Append(SelectSeq(map, LAMBDA e : e.key # key), [key |-> key, times |-> times])

\* evictOverflow
Trim(map) ==
  IF Len(map) <= BUCKETS_MAX THEN map
  ELSE SubSeq(map, Len(map) - BUCKETS_MAX + 1, Len(map))

Full(map, key, max) == Len(Recent(map, key)) >= max

\* bucketOk: a full bucket keeps its pruned window
Bucket(map, key, max) ==
  Touch(map, key, IF Full(map, key, max) THEN Recent(map, key)
                  ELSE Append(Recent(map, key), now))

Subject(s) == <<"subject", s>>
Place(p) == <<"place", p>>

\* submitRateLimitOk and beaconRateLimitOk: both buckets are charged whatever they say.
BothCharged(s, p) ==
  LET first == Bucket(hits, Subject(s), SUBJECT_MAX)
  IN  [ok |-> ~Full(hits, Subject(s), SUBJECT_MAX) /\ ~Full(hits, Place(p), PLACE_MAX),
       map |-> Bucket(first, Place(p), PLACE_MAX)]
SubmitRateLimitOk(s, p) == BothCharged(s, p)
BeaconRateLimitOk(s, p) == BothCharged(s, p)

\* rateLimitOk and indexRateLimitOk: the address first, and a refusal adds no key.
RateLimitOk(s, p) ==
  LET first == Bucket(hits, Place(p), PLACE_MAX)
  IN  IF Full(hits, Place(p), PLACE_MAX) THEN [ok |-> FALSE, map |-> first]
      ELSE [ok |-> ~Full(hits, Subject(s), SUBJECT_MAX),
            map |-> Bucket(first, Subject(s), SUBJECT_MAX)]

\* videoMetaRateLimitOk
VideoMetaRateLimitOk(p) ==
  [ok |-> ~Full(hits, Place(p), PLACE_MAX), map |-> Bucket(hits, Place(p), PLACE_MAX)]

\* advanceRateLimitOk: an advance charges the room's bucket of its kind and the room's
\* total, and neither when it is refused.
Unplayable(s) == s \in Unplayables
ADVANCE_MAX(s) == IF Unplayable(s) THEN PLACE_MAX ELSE SKIP_MAX
Kind(s, p) == <<IF Unplayable(s) THEN "unplayable" ELSE "room", p>>

AdvanceRateLimitOk(s, p) ==
  LET specific == Recent(hits, Kind(s, p))
      total == Recent(hits, Place(p))
      ok == Len(specific) < ADVANCE_MAX(s) /\ Len(total) < PLACE_MAX
      kept(times) == IF ok THEN Append(times, now) ELSE times
  IN  [ok |-> ok, map |-> Touch(Touch(hits, Kind(s, p), kept(specific)), Place(p), kept(total))]

\* Before there was a total: two buckets that share nothing.
AdvanceByKind(s, p) ==
  [ok |-> ~Full(hits, Kind(s, p), ADVANCE_MAX(s)), map |-> Bucket(hits, Kind(s, p), ADVANCE_MAX(s))]

Advance(s, p) == AdvanceRateLimitOk(s, p)

Verdict(s, p) ==
  CASE limiter = "advance" -> Advance(s, p)
    [] limiter = "submit" -> SubmitRateLimitOk(s, p)
    [] limiter = "beacon" -> BeaconRateLimitOk(s, p)
    [] limiter = "meta" -> VideoMetaRateLimitOk(p)
    [] limiter = "search" -> RateLimitOk(s, p)

Request(s, p) ==
  /\ calls < MaxCalls /\ calls' = calls + 1
  /\ LET v == Verdict(s, p)
     IN  /\ hits' = Trim(v.map)
         /\ evicted' = (evicted \/ Len(v.map) > BUCKETS_MAX)
         /\ granted' = IF v.ok THEN Append(granted, [subject |-> s, place |-> p, at |-> now])
                       ELSE granted
  /\ UNCHANGED <<limiter, now>>

Next == Tick \/ \E s \in Subjects, p \in Places : Request(s, p)

Spec == Init /\ [][Next]_vars

-----------------------------------------------------------------------------

Let(P(_)) == Len(SelectSeq(granted, LAMBDA g : g.at > now - WINDOW /\ P(g)))

\* In any window a room sees no more than the total of advances, however they are
\* spread over the reasons, and no more than the smaller number of skips of a singer
\* (advance-rate-limit.ts:31); an address gets no more searches than its ceiling even
\* when the map forgets keys, because what it refuses adds none
\* (youtube-search.ts:476); and the other limits hold for an address as long as their
\* map is not full.
WindowsHold ==
  \A p \in Places :
    /\ limiter \in {"search", "meta"} \/ ~evicted =>
         Let(LAMBDA g : g.place = p) <= PLACE_MAX
    /\ limiter = "advance" /\ ~evicted =>
         Let(LAMBDA g : g.place = p /\ ~Unplayable(g.subject)) <= SKIP_MAX

\* What queue-rate-limit.ts:20-23 says of a full map: a uuid may be forgotten, the
\* address's bucket holds the line.
AddressHoldsTheLine ==
  limiter = "submit" => \A p \in Places : Let(LAMBDA g : g.place = p) <= PLACE_MAX
=============================================================================
