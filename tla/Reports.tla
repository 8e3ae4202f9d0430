------------------------------- MODULE Reports -------------------------------
(***************************************************************************)
(* What is computed from a list of raw events: the weekly rollup           *)
(* (lib/telemetry-rollup.ts), the host's analytics (lib/analytics.ts) and  *)
(* the repeat report (lib/repeat-report.ts).  A behaviour is one list, the *)
(* events in any order, as concurrent appends leave them; or a walk over   *)
(* the days whose weekly digests are made.                                 *)
(***************************************************************************)
EXTENDS Integers, Sequences, FiniteSets, SequencesExt, TLC

CONSTANTS Shapes,        \* what an event says: its name, room, uuid and hash,
                         \* which a search has only if it was billed live
          DAY,           \* the length of a UTC day, in ticks
          SESSION_GAP, SUBMIT_WINDOW, REPEAT_WINDOWS,   \* in ticks
          TOP,           \* rows of the top-songs table
          FirstDay, LastDay,         \* the calendar days walked over
          MaxTime, MaxEvents         \* bounds of the exploration

ReportsAssumption ==
  /\ {DAY, TOP} \subseteq Nat \ {0}
  /\ {SESSION_GAP, SUBMIT_WINDOW, FirstDay, LastDay, MaxTime, MaxEvents} \subseteq Nat
  /\ REPEAT_WINDOWS \subseteq Nat

VARIABLES events,        \* the events a reader fetched
          day            \* a calendar day
vars == <<events, day>>

Days == 0..(MaxTime \div DAY)
dayOf(t) == t \div DAY
dayRange(from, to) == {d \in Days : from <= d /\ d <= to}

-----------------------------------------------------------------------------
(* The computations over a list of events.                                 *)

Earlier(a, b) == a.ts < b.ts
sortByTs(s) == SortSeq(s, Earlier)
Where(s, Test(_)) == SelectSeq(s, Test)
Named(s, name) == Where(s, LAMBDA e : e.event = name)
OfRoom(s, r) == Where(s, LAMBDA e : e.room = r)
Values(s, field) == {s[i][field] : i \in DOMAIN s}
Patrons(s) == Values(s, "uuid") \ {"none"}
ActiveDays(s) == {dayOf(s[i].ts) : i \in DOMAIN s}
inRange(s, from, to) ==
  sortByTs(Where(s, LAMBDA e : from <= dayOf(e.ts) /\ dayOf(e.ts) <= to))

\* Mutant: a gap of exactly SESSION_GAP splits.
countSessionsAtTheGap(s) ==
  LET Take(acc, e) ==
        IF acc.prev >= 0 /\ e.ts - acc.prev < SESSION_GAP
          THEN [acc EXCEPT !.prev = e.ts]
          ELSE [sessions |-> acc.sessions + 1, start |-> e.ts, prev |-> e.ts, ms |-> 0]
      end == FoldLeft(Take, [sessions |-> 0, start |-> 0-1, prev |-> 0-1, ms |-> 0], s)
  IN [sessions |-> end.sessions, sessionMs |-> 0]

\* A new session starts at the first event and after every gap; its time is
\* counted when the next one starts, the last one's at the end.
countSessions(s) ==
  LET Take(acc, e) ==
        IF acc.prev >= 0 /\ e.ts - acc.prev <= SESSION_GAP
          THEN [acc EXCEPT !.prev = e.ts]
          ELSE [sessions |-> acc.sessions + 1, start |-> e.ts, prev |-> e.ts,
                ms |-> IF acc.start >= 0 THEN acc.ms + acc.prev - acc.start
                                         ELSE acc.ms]
      end == FoldLeft(Take, [sessions |-> 0, start |-> 0-1, prev |-> 0-1, ms |-> 0], s)
  IN [sessions |-> end.sessions,
      sessionMs |-> IF end.start >= 0 THEN end.ms + end.prev - end.start ELSE end.ms]

\* A search nobody queued a song after, from the same uuid and in time.
Abandoned(s) ==
  LET queued == Named(s, "song_queued")
  IN Where(Named(s, "search_performed"),
           LAMBDA e : /\ e.uuid # "none"
                      /\ \A i \in DOMAIN queued :
                           ~ ( /\ queued[i].uuid = e.uuid
                               /\ queued[i].ts >= e.ts
                               /\ queued[i].ts <= e.ts + SUBMIT_WINDOW ))

RoomRow(s) ==
  [events |-> Len(s), activeDays |-> Cardinality(ActiveDays(s)),
   sessions |-> countSessions(s).sessions, uniquePatrons |-> Cardinality(Patrons(s)),
   songsQueued |-> Len(Named(s, "song_queued")),
   songsPlayed |-> Len(Named(s, "song_played"))]

computeRollup(all, from, to) ==
  LET s == inRange(all, from, to)
  IN [totalEvents |-> Len(s),
      rooms |-> [r \in Values(s, "room") |->
                   LET of == OfRoom(s, r)
                   IN RoomRow(of) @@ [sessionMs |-> countSessions(of).sessionMs,
                                      searches |-> Len(Named(of, "search_performed")),
                                      searchNoSubmit |-> Len(Abandoned(of))]]]

DayRow(s) ==
  [events |-> Len(s), activeRooms |-> Cardinality(Values(s, "room")),
   sessions |-> FoldLeft(LAMBDA n, r : n + countSessions(OfRoom(s, r)).sessions,
                         0, SetToSeq(Values(s, "room"))),
   songsQueued |-> Len(Named(s, "song_queued")),
   songsPlayed |-> Len(Named(s, "song_played"))]

\* The most played videos, at most topN of them.
TopSongs(s, topN) ==
  LET played == Named(s, "song_played")
      Plays(v) == Len(Where(played, LAMBDA e : e.hash = v))
      ids == Values(played, "hash")
      ranked == SetToSortSeq(ids, LAMBDA v, w : Plays(v) > Plays(w))
  IN [i \in 1..(IF Len(ranked) < topN THEN Len(ranked) ELSE topN) |->
        [videoId |-> ranked[i], playCount |-> Plays(ranked[i])]]

Sum(f) == FoldLeft(LAMBDA n, x : n + f[x], 0, SetToSeq(DOMAIN f))

computeAnalytics(all, from, to) ==
  LET s == inRange(all, from, to)
      rows == [d \in dayRange(from, to) |->
                 DayRow(Where(s, LAMBDA e : dayOf(e.ts) = d))]
  IN [totalEvents |-> Len(s),
      days |-> rows,
      totalActiveDays |-> Cardinality({d \in DOMAIN rows : rows[d].events > 0}),
      totalSessions |-> Sum([d \in DOMAIN rows |-> rows[d].sessions]),
      topSongs |-> TopSongs(s, TOP),
      rooms |-> [r \in Values(s, "room") |-> RoomRow(OfRoom(s, r))]]

\* Per window, how many hashed events come back after an earlier one.
repeatRates(s) ==
  LET Take(acc, e) ==
        LET seen == e.hash \in DOMAIN acc.last
            gap == IF seen /\ acc.last[e.hash] < e.ts THEN e.ts - acc.last[e.hash]
                                                      ELSE MaxTime + 1
        IN [last |-> (e.hash :> e.ts) @@ acc.last,
            counts |-> [w \in REPEAT_WINDOWS |->
                          acc.counts[w] + IF gap <= w /\ gap <= MaxTime THEN 1 ELSE 0]]
      start == [last |-> <<>>, counts |-> [w \in REPEAT_WINDOWS |-> 0]]
  IN FoldLeft(Take, start, sortByTs(Where(s, LAMBDA e : e.hash # "none"))).counts

\* The events the repeat report takes: billed searches and queued songs.
computeRepeatReport(s) ==
  [billedKeys |-> repeatRates(Named(s, "search_performed")),
   queuedSongs |-> repeatRates(Named(s, "song_queued"))]

-----------------------------------------------------------------------------
(* The ISO week of a UTC day and the days of a week.  A calendar day is    *)
(* its number since 1 January 1970, a Thursday; this stands for Date.UTC.  *)

\* Date.UTC(year, 0, 1) in days, and the year of a day.
DateUTC(year) ==
  LET y == year - 1970
  IN 365 * y + (year - 1969) \div 4 - (year - 1901) \div 100 + (year - 1601) \div 400
YearOf(d) ==
  LET guess == 1970 + d \div 365
  IN CHOOSE y \in {guess - 1, guess} : DateUTC(y) <= d /\ d < DateUTC(y + 1)

dayNum(d) == (d + 3) % 7          \* Monday is 0
week1Monday(year) ==
  LET jan4 == DateUTC(year) + 3 IN jan4 - dayNum(jan4)

\* A week belongs to the year of its Thursday.
isoWeekOf(d) ==
  LET thursday == d - dayNum(d) + 3
      year == YearOf(thursday)
  IN [year |-> year, week |-> 1 + (thursday - 3 - week1Monday(year)) \div 7]

isoWeekRange(w) ==
  LET monday == week1Monday(w.year) + (w.week - 1) * 7
  IN [fromDay |-> monday, toDay |-> monday + 6]

-----------------------------------------------------------------------------
Init == events = <<>> /\ day = FirstDay

Fetch ==
  /\ day = FirstDay /\ Len(events) < MaxEvents
  /\ \E shape \in Shapes, t \in 0..MaxTime : events' = Append(events, shape @@ [ts |-> t])
  /\ UNCHANGED day

\* On to the next day's digest.
NextDay == events = <<>> /\ day < LastDay /\ day' = day + 1 /\ UNCHANGED events

Next == Fetch \/ NextDay

Spec == Init /\ [][Next]_vars

-----------------------------------------------------------------------------
\* The sessions of a list by their own definition: the events nothing of the
\* list precedes by at most the gap (several of one instant are one).
SessionStarts(s) ==
  {t \in Values(s, "ts") : \A u \in Values(s, "ts") : u < t => t - u > SESSION_GAP}

\* Repeats by the report's rule: the moments of a hash with an earlier moment
\* of the same hash within the window.
Repeats(s, w) ==
  {<<s[i].hash, s[i].ts>> : i \in
     {i \in DOMAIN s : /\ s[i].hash # "none"
                       /\ \E j \in DOMAIN s : /\ s[j].hash = s[i].hash
                                              /\ s[j].ts < s[i].ts
                                              /\ s[i].ts - s[j].ts <= w}}

\* What the host and the weekly digest are told adds up, whatever order the
\* events were stored in: the days, the rooms and the digest count the same
\* events; a room's sessions are its quiet gaps plus one, and the sum over the
\* days exceeds them by at most one per midnight the room's nights cross
\* (computeAnalytics, analytics.ts:81, computeRollup, telemetry-rollup.ts:133);
\* a search counts as abandoned only if nobody queued after it; and the repeat
\* report counts each moment of a hash that has an earlier one in the window
\* (repeat-report.ts:43).
ReportsAgree ==
  \A from, to \in Days :
    LET a == computeAnalytics(events, from, to)
        r == computeRollup(events, from, to)
        s == inRange(events, from, to)
        Total(f, field) == Sum([x \in DOMAIN f |-> f[x][field]])
    IN /\ a.totalEvents = r.totalEvents
       /\ \A field \in {"events", "songsQueued", "songsPlayed"} :
            Total(a.days, field) = Total(r.rooms, field)
       /\ \A x \in DOMAIN r.rooms : \A f \in DOMAIN a.rooms[x] : a.rooms[x][f] = r.rooms[x][f]
       /\ \A x \in DOMAIN r.rooms :
            r.rooms[x].sessions = Cardinality(SessionStarts(OfRoom(s, x)))
       /\ Total(a.days, "sessions") = a.totalSessions
       /\ Total(a.rooms, "sessions") <= a.totalSessions
       /\ a.totalSessions <= Total(a.rooms, "sessions") + Total(a.rooms, "activeDays")
                               - Cardinality(DOMAIN a.rooms)
       /\ \A i \in DOMAIN a.topSongs : \A j \in 1..i :
            a.topSongs[i].playCount <= a.topSongs[j].playCount
       /\ \A w \in REPEAT_WINDOWS :
            LET report == computeRepeatReport(s)
            IN /\ report.billedKeys[w] = Cardinality(Repeats(Named(s, "search_performed"), w))
               /\ report.queuedSongs[w] = Cardinality(Repeats(Named(s, "song_queued"), w))

\* The weekly digests cut the days into weeks with nothing lost and nothing
\* twice, over new years and leap years: a day lies in the range of its own
\* week, no other week of any year has it, weeks are numbered 1 to 53 and the
\* next Monday starts the next one (isoWeekOf, telemetry-rollup.ts:56,
\* isoWeekRange, :77).
WeeksPartitionTheDays ==
  LET w == isoWeekOf(day)
      r == isoWeekRange(w)
      next == isoWeekOf(r.toDay + 1)
  IN /\ r.fromDay <= day /\ day <= r.toDay
     /\ \A d \in r.fromDay..r.toDay : isoWeekOf(d) = w
     /\ w.week \in 1..53
     /\ next \in {[w EXCEPT !.week = @ + 1], [year |-> w.year + 1, week |-> 1]}
     /\ isoWeekRange(next).fromDay = r.toDay + 1
=============================================================================
