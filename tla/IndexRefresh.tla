----------------------------- MODULE IndexRefresh -----------------------------
(***************************************************************************)
(* Filling the karaoke index: the daily run of lib/karaoke-index/refresh.ts  *)
(* (mode "cron") and the one-off scripts/karaoke-index-harvest.ts (mode      *)
(* "cli"), both over harvestChannel of lib/karaoke-index/harvest.ts.         *)
(*                                                                           *)
(* A step of a worker is one awaited call.  Every call bills one unit.  A    *)
(* channel's uploads are a sequence of pages of 50; a page matters by what   *)
(* the TV could play of it: "rows", "unplayable" (titles, none playable) or  *)
(* "untitled" (only private or deleted videos).  A shard is the number of    *)
(* pages it was made from.  A harvest's time is the number of its run.  For  *)
(* the script `shards' is the list it writes to its file when it ends well.  *)
(***************************************************************************)
EXTENDS Integers, Sequences, FiniteSets

CONSTANTS
  Channels,                 \* in rank order
  Uploads,                  \* channel -> its pages, newest first
  Workers,                  \* REFRESH_CONCURRENCY of them
  MAX_PAGES, MAX_UNITS,
  None,
  MaxRuns, MaxFaults        \* bounds on runs and on calls that fail

ChannelSet == {Channels[i] : i \in DOMAIN Channels}

IndexRefreshAssumption ==
  /\ {MAX_PAGES, MAX_UNITS, MaxRuns, MaxFaults} \subseteq Nat
  /\ MAX_PAGES > 0
  /\ IsFiniteSet(Workers) /\ Channels \in Seq(ChannelSet)
  \* a first page is always answered, if with nothing on it
  /\ \A c \in ChannelSet : Uploads[c] \in Seq({"rows", "unplayable", "untitled"}) \ {<<>>}

VARIABLES
  mode,
  shards, stamps,           \* ki:shard:<channel> and ki:stamps
  queue, used,              \* the run's queue and its ledger
  clock,                    \* "early", past the "cutoff", past the "deadline"
  worker,
  run, calls, faults

kept == <<shards, stamps>>
ledger == <<queue, used>>
vars == <<mode, kept, ledger, clock, worker, run, calls, faults>>

RankOf(c) == CHOOSE i \in DOMAIN Channels : Channels[i] = c
NoShard == [run |-> 0, pages |-> 0]
Off == [at |-> "off", channel |-> None, page |-> 0, own |-> 0, rows |-> FALSE, whole |-> FALSE]

\* pickChannelsToRefresh: a channel comes after those with an older stamp and, of its
\* own stamp, a better rank.
Before(times, c, d) ==
  times[c] < times[d] \/ (times[c] = times[d] /\ RankOf(c) < RankOf(d))
Oldest(times) ==
  [i \in 1..Cardinality(ChannelSet) |->
     CHOOSE d \in ChannelSet : Cardinality({c \in ChannelSet : Before(times, c, d)}) = i - 1]

Idle == [Off EXCEPT !.at = "idle"]
Staff == IF mode = "cli" THEN {CHOOSE w \in Workers : TRUE} ELSE Workers

Init ==
  /\ mode \in {"cron", "cli"}
  /\ shards = [c \in ChannelSet |-> NoShard]
  /\ stamps = [c \in ChannelSet |-> 0]
  /\ queue = Channels /\ used = 0
  /\ clock = "early"
  /\ worker = [w \in Workers |-> IF w \in Staff THEN Idle ELSE Off]
  /\ run = 1 /\ calls = 0 /\ faults = 0

PerChannel == 2 * MAX_PAGES
Fault == faults < MaxFaults /\ faults' = faults + 1

Clock ==
  /\ \/ clock = "early" /\ clock' = "cutoff"
     \/ clock = "cutoff" /\ clock' = "deadline"
  /\ mode = "cron" /\ \E w \in Workers : worker[w].at # "off"
  /\ UNCHANGED <<mode, kept, ledger, worker, run, calls, faults>>

\* ---- the worker's loop ----

Take(w) ==
  /\ worker[w].at = "idle" /\ queue # <<>>
  /\ \/ /\ mode = "cron" /\ clock = "early"
        /\ MAX_UNITS - used >= PerChannel /\ used' = used + PerChannel
     \/ mode = "cli" /\ MAX_UNITS - used >= 2 /\ UNCHANGED used
  /\ worker' = [worker EXCEPT ![w] = [Off EXCEPT !.at = "page", !.channel = Head(queue)]]
  /\ queue' = Tail(queue)
  /\ UNCHANGED <<mode, kept, clock, run, calls, faults>>

Stop(w) ==
  /\ worker[w].at = "idle"
  /\ \/ queue = <<>>
     \/ mode = "cron" /\ (clock # "early" \/ MAX_UNITS - used < PerChannel)
     \/ mode = "cli" /\ MAX_UNITS - used < 2
  /\ worker' = [worker EXCEPT ![w] = Off]
  /\ UNCHANGED <<mode, kept, ledger, clock, run, calls, faults>>

\* The ledger a harvest spends from: its own, or the script's only one.
Remaining(w) == IF mode = "cli" THEN MAX_UNITS - used ELSE PerChannel - worker[w].own

\* finally: the units of the reservation it did not use
RefundAll(spent) == PerChannel
LeftOver(spent) == PerChannel - spent

\* The worker is done with its channel, having spent `spent' of its reservation.
Settle(w, spent) ==
  /\ worker' = [worker EXCEPT ![w] = Idle]
  /\ used' = IF mode = "cli" THEN spent ELSE used - LeftOver(spent)

\* `n' units more, or less, spent by worker w, who goes on as `r'.
Spend(w, n, r) ==
  /\ worker' = [worker EXCEPT ![w] = [r EXCEPT !.own = IF mode = "cli" THEN @ ELSE @ + n]]
  /\ used' = IF mode = "cli" THEN used + n ELSE used
Spent(w) == IF mode = "cli" THEN used ELSE worker[w].own

\* runRefresh writes what is whole; the script keeps what it has.
KeepsAnything(r) == r.rows
Keeps(r) == r.rows /\ (r.whole \/ mode = "cli")

\* The harvest ended with the rows and the verdict of r, after n units more.
Harvested(w, n, r) ==
  IF Keeps(r)
  THEN Spend(w, n, [r EXCEPT !.at = "set"])
  ELSE Settle(w, Spent(w) + n)

\* ---- harvestChannel ----

StartPage(w) ==
  LET r == worker[w]
      late == mode = "cron" /\ clock = "deadline"
  IN  /\ r.at = "page"
      /\ \/ r.page >= MAX_PAGES /\ Harvested(w, 0, [r EXCEPT !.whole = TRUE])
         \/ r.page < MAX_PAGES /\ (late \/ Remaining(w) < 2) /\ Harvested(w, 0, r)
         \/ /\ r.page < MAX_PAGES /\ ~late /\ Remaining(w) >= 2
            /\ Spend(w, 2, [r EXCEPT !.at = "list"])
      /\ UNCHANGED <<mode, kept, queue, clock, run, calls, faults>>

PageOf(r) == Uploads[r.channel][r.page + 1]

\* The page is read: the next one, or the natural end.
TurnPage(w, n, r) ==
  IF r.page + 1 < Len(Uploads[r.channel])
  THEN Spend(w, n, [r EXCEPT !.at = "page", !.page = @ + 1])
  ELSE Harvested(w, n, [r EXCEPT !.page = @ + 1, !.whole = TRUE])

\* playlistItems.list answers; a page without titles needs no videos.list.
Listed(w) ==
  LET r == worker[w]
  IN  /\ r.at = "list"
      /\ IF PageOf(r) = "untitled"
         THEN TurnPage(w, -1, r)
         ELSE worker' = [worker EXCEPT ![w].at = "videos"] /\ UNCHANGED used
      /\ calls' = calls + 1
      /\ UNCHANGED <<mode, kept, queue, clock, run, faults>>

\* videos.list answers
Checked(w) ==
  LET r == worker[w]
  IN  /\ r.at = "videos"
      /\ TurnPage(w, 0, [r EXCEPT !.rows = @ \/ PageOf(r) = "rows"])
      /\ calls' = calls + 1
      /\ UNCHANGED <<mode, kept, queue, clock, run, faults>>

\* An HTTP error ends the harvest with the rows it has, and is not whole.
Refused(w) ==
  /\ \/ worker[w].at = "list" /\ Harvested(w, -1, worker[w])
     \/ worker[w].at = "videos" /\ Harvested(w, 0, worker[w])
  /\ Fault /\ calls' = calls + 1
  /\ UNCHANGED <<mode, kept, queue, clock, run>>

\* A timeout throws out of harvestChannel: the worker goes on with the next channel,
\* the script ends and writes nothing.
TimesOut(w) ==
  /\ worker[w].at \in {"list", "videos"}
  /\ IF mode = "cli"
     THEN /\ worker' = [worker EXCEPT ![w] = Off]
          /\ shards' = [c \in ChannelSet |-> NoShard] /\ UNCHANGED used
     ELSE Settle(w, Spent(w)) /\ UNCHANGED shards
  /\ Fault /\ calls' = calls + 1
  /\ UNCHANGED <<mode, stamps, queue, clock, run>>

\* ---- writeShard ----

SetShard(w) ==
  LET r == worker[w]
  IN  /\ r.at = "set"
      /\ shards' = [shards EXCEPT ![r.channel] = [run |-> run, pages |-> r.page]]
      /\ IF mode = "cli"
         THEN worker' = [worker EXCEPT ![w] = Idle]
         ELSE worker' = [worker EXCEPT ![w].at = "stamp"]
      /\ UNCHANGED <<mode, stamps, ledger, clock, run, calls, faults>>

StampShard(w) ==
  /\ worker[w].at = "stamp"
  /\ stamps' = [stamps EXCEPT ![worker[w].channel] = run]
  /\ Settle(w, Spent(w))
  /\ UNCHANGED <<mode, shards, queue, clock, run, calls, faults>>

WriteFails(w) ==
  /\ worker[w].at \in {"set", "stamp"} /\ mode = "cron"
  /\ Fault /\ Settle(w, Spent(w))
  /\ UNCHANGED <<mode, kept, queue, clock, run, calls>>

\* The function is killed at its 60 seconds, or dies.
Killed ==
  /\ mode = "cron" /\ \E w \in Workers : worker[w].at # "off"
  /\ worker' = [w \in Workers |-> Off]
  /\ UNCHANGED <<mode, kept, ledger, clock, run, calls, faults>>

\* The next day's run.
NextRun ==
  /\ mode = "cron" /\ run < MaxRuns
  /\ \A w \in Workers : worker[w].at = "off"
  /\ run' = run + 1
  /\ queue' = Oldest(stamps) /\ used' = 0 /\ calls' = 0 /\ clock' = "early"
  /\ worker' = [w \in Workers |-> Idle]
  /\ UNCHANGED <<mode, kept, faults>>

Next ==
  \/ Clock \/ Killed \/ NextRun
  \/ \E w \in Workers :
       \/ Take(w) \/ Stop(w) \/ StartPage(w) \/ Listed(w) \/ Checked(w)
       \/ Refused(w) \/ TimesOut(w) \/ SetShard(w) \/ StampShard(w) \/ WriteFails(w)

Spec == Init /\ [][Next]_vars

-----------------------------------------------------------------------------

\* A run never bills more than its cap, and while it runs every call made or about
\* to be made is covered by a unit of the ledger, though the workers share it,
\* reserve whole channels, give back what they did not use, and fail half-way
\* (harvest.ts:54, refresh.ts:91).
BudgetCoversCalls == calls <= used /\ used <= MAX_UNITS

Wanted(c) == IF Len(Uploads[c]) < MAX_PAGES THEN Len(Uploads[c]) ELSE MAX_PAGES

\* What the cron put into the index for a channel is never replaced by less of it,
\* whatever cuts a harvest short: the deadline, an error on one page, the kill
\* (harvest.ts:171, refresh.ts:109).
ShardsAreWhole ==
  [][\A c \in ChannelSet :
       mode = "cron" /\ shards'[c] # shards[c] => shards'[c].pages = Wanted(c)]_vars
=============================================================================
