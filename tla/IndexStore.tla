------------------------------ MODULE IndexStore ------------------------------
(***************************************************************************)
(* Serving the karaoke index: the shards in Redis and the copy each server   *)
(* instance keeps in memory, lib/karaoke-index/store.ts.  The daily run is   *)
(* IndexRefresh; here a harvest is a pair of writes, the shard and then its  *)
(* stamp, which a crash can separate.                                        *)
(*                                                                           *)
(* A shard is the time of its harvest, 0 for no shard: what it holds changes *)
(* only with it.  Redis deletes a shard at MAX_AGE; its stamp stays.         *)
(***************************************************************************)
EXTENDS Integers, Sequences

CONSTANTS
  Channels, Requests,
  MAX_AGE,                  \* INDEX_MAX_AGE_MS
  RELOAD, RETRY,            \* INDEX_RELOAD_MS, INDEX_RETRY_MS
  None,
  MaxTime, MaxFaults        \* bounds

IndexStoreAssumption ==
  /\ {MAX_AGE, RELOAD, RETRY, MaxTime, MaxFaults} \subseteq Nat
  /\ RETRY < RELOAD /\ RELOAD < MAX_AGE
  /\ None \notin Nat \cup {"begin", "mget"}

VARIABLES
  now,
  stored, stamps,           \* ki:shard:<channel>, ki:stamps
  writing,                  \* a harvest being written, and its commands left
  loaded,                   \* the instance's copy
  inflight,                 \* the load under way
  waiting,                  \* a request that awaits it: when it asked, or None
  served,                   \* the last answer
  faults

redis == <<stored, stamps, writing>>
instance == <<loaded, inflight>>
vars == <<now, redis, instance, waiting, served, faults>>

NoShards == [c \in Channels |-> 0]
NotLoaded == [is |-> FALSE, failed |-> FALSE, at |-> 0, rows |-> NoShards, sig |-> NoShards]
NoLoad == [at |-> None, now |-> 0, sig |-> NoShards]
NoWrite == [channel |-> None, at |-> 0, left |-> <<>>]
NoAnswer == [rows |-> NoShards, asked |-> 0, since |-> 0]

Init ==
  /\ now = 1
  /\ stored = NoShards /\ stamps = NoShards /\ writing = NoWrite
  /\ loaded = NotLoaded /\ inflight = NoLoad
  /\ waiting = [r \in Requests |-> None]
  /\ served = NoAnswer /\ faults = 0

Fault == faults < MaxFaults /\ faults' = faults + 1

\* isShardFresh
Fresh(at, t) == at # 0 /\ t - at < MAX_AGE

\* Time passes; Redis drops what is MAX_AGE old.  A harvest is written within the
\* minute its run may last.
Tick ==
  /\ now < MaxTime /\ now' = now + 1
  /\ writing = NoWrite \/ writing.at = now
  /\ stored' = [c \in Channels |-> IF Fresh(stored[c], now') THEN stored[c] ELSE 0]
  /\ UNCHANGED <<stamps, writing, instance, waiting, served, faults>>

\* ---- the cron's writeShard ----

\* The shard first, so that a stamp never announces rows that are not there yet.
StampFirst == <<"stamp", "shard">>
WriteOrder == <<"shard", "stamp">>

Harvest(c) ==
  /\ writing = NoWrite /\ stamps[c] # now
  /\ writing' = [channel |-> c, at |-> now, left |-> WriteOrder]
  /\ UNCHANGED <<now, stored, stamps, instance, waiting, served, faults>>

\* One command of writeShard.
WriteShard ==
  /\ writing # NoWrite
  /\ IF Head(writing.left) = "shard"
     THEN stored' = [stored EXCEPT ![writing.channel] = writing.at] /\ UNCHANGED stamps
     ELSE stamps' = [stamps EXCEPT ![writing.channel] = writing.at] /\ UNCHANGED stored
  /\ writing' = IF Len(writing.left) = 1 THEN NoWrite ELSE [writing EXCEPT !.left = Tail(@)]
  /\ UNCHANGED <<now, instance, waiting, served, faults>>

\* The run is killed, or a command fails.
WriteLost ==
  /\ writing # NoWrite /\ Fault /\ writing' = NoWrite
  /\ UNCHANGED <<now, stored, stamps, instance, waiting, served>>

\* ---- getKaraokeIndex ----

\* oldestOf, of a copy that has a shard
PastRetention(rows, t) == \E c \in Channels : rows[c] # 0 /\ ~Fresh(rows[c], t)

Hourly(l) == ~l.is \/ now - l.at >= (IF l.failed THEN RETRY ELSE RELOAD)
MustReload(l) == Hourly(l) \/ PastRetention(l.rows, now)

Ask(r) ==
  /\ waiting[r] = None
  /\ \/ /\ ~MustReload(loaded)
        /\ served' = [rows |-> loaded.rows, asked |-> now, since |-> now]
        /\ UNCHANGED <<inflight, waiting>>
     \/ /\ MustReload(loaded)
        /\ waiting' = [waiting EXCEPT ![r] = now]
        /\ inflight' = IF inflight.at = None THEN [NoLoad EXCEPT !.at = "begin", !.now = now]
                       ELSE inflight
        /\ UNCHANGED served
  /\ UNCHANGED <<now, redis, loaded, faults>>

\* The promise settles with `l': every request that awaited it goes on and is answered.
Settle(l) ==
  /\ loaded' = l /\ inflight' = NoLoad
  /\ waiting' = [r \in Requests |-> None]
  /\ served' = [rows |-> l.rows, since |-> inflight.now,
                asked |-> CHOOSE t \in {waiting[r] : r \in Requests} \ {None} :
                            \A u \in {waiting[r] : r \in Requests} \ {None} : t <= u]

\* load: the stamps first, and the shards only if something can have changed.
Unchanged(sig) ==
  /\ loaded.is /\ ~loaded.failed /\ loaded.rows # NoShards
  /\ loaded.sig = sig
  /\ ~PastRetention(loaded.rows, inflight.now)

ReadStamps ==
  /\ inflight.at = "begin"
  /\ IF Unchanged(stamps)
     THEN Settle([loaded EXCEPT !.at = inflight.now])
     ELSE /\ inflight' = [inflight EXCEPT !.at = "mget", !.sig = stamps]
          /\ UNCHANGED <<loaded, waiting, served>>
  /\ UNCHANGED <<now, redis, faults>>

\* freshShards: the read path drops what is past retention at the load's own time.
FreshShards == [c \in Channels |-> IF Fresh(stored[c], inflight.now) THEN stored[c] ELSE 0]

Downloaded(sig) ==
  [is |-> TRUE, failed |-> FALSE, at |-> inflight.now, rows |-> FreshShards, sig |-> sig]

LoadShards ==
  /\ inflight.at = "mget"
  /\ Settle(Downloaded(inflight.sig))
  /\ UNCHANGED <<now, redis, faults>>

LoadFails ==
  /\ inflight.at # None /\ Fault
  /\ Settle([NotLoaded EXCEPT !.is = TRUE, !.failed = TRUE, !.at = inflight.now])
  /\ UNCHANGED <<now, redis>>

Next ==
  \/ Tick \/ WriteShard \/ WriteLost \/ ReadStamps \/ LoadShards \/ LoadFails
  \/ \E c \in Channels : Harvest(c)
  \/ \E r \in Requests : Ask(r)

Spec == Init /\ [][Next]_vars

-----------------------------------------------------------------------------

\* No answer holds a shard that was past the 30 days of retention both when it was
\* asked for and when the load it came from began, not even from an instance that
\* stays warm (store.ts:22, types.ts:24).
NoStaleRows ==
  \A c \in Channels :
    served.rows[c] # 0 => Fresh(served.rows[c], IF served.since < served.asked
                                               THEN served.since ELSE served.asked)

\* An instance whose signature is the stored one and that has no load under way holds
\* every stamped shard exactly: the shortcut that skips the download never keeps an
\* old copy, however a harvest's two writes fall between the load's two reads
\* (store.ts:172).
SignatureMeansExact ==
  loaded.is /\ ~loaded.failed /\ loaded.rows # NoShards /\ loaded.sig = stamps =>
    \A c \in Channels :
      stored[c] # 0 /\ stored[c] = stamps[c] => loaded.rows[c] = stored[c]
=============================================================================
