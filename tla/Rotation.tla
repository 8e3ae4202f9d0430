------------------------------ MODULE Rotation ------------------------------
(***************************************************************************)
(* lib/rotation.ts: how the app applies the engine's rules to a room's     *)
(* stored queue.  The store keeps only the pending entries, so the order   *)
(* is computed afresh: items[1] is the now-playing entry, pinned, and its  *)
(* group counts as served.  Pure operators over sequences of app entries,  *)
(* records with id, uuid, table, video, kind, at (the submission time) and *)
(* grace.                                                                  *)
(***************************************************************************)
EXTENDS RotationEngine

CONSTANT LISTEN_CAP_PER_UUID   \* queued listens a person may hold, 3 in the code

ASSUME ListenCapPerUuidAssumption == LISTEN_CAP_PER_UUID \in Nat \ {0}

\* Mutant of SortedByTime: an unstable sort, ties change places.
SortedUnstably(s) ==
  LET Earlier(i, j) == s[i].at < s[j].at \/ (s[i].at = s[j].at /\ i > j)
      index == SortedBy(Earlier, DOMAIN s)
  IN  [k \in DOMAIN s |-> s[index[k]]]

\* Array.prototype.sort is stable: ties keep their position.
SortedByTime(s) ==
  LET Earlier(i, j) == s[i].at < s[j].at \/ (s[i].at = s[j].at /\ i < j)
      index == SortedBy(Earlier, DOMAIN s)
  IN  [k \in DOMAIN s |-> s[index[k]]]

\* The engine numbers entries by their place in the sorted queue.
EngineEntries(s) ==
  {[id |-> s[i].id, uuid |-> s[i].uuid, table |-> s[i].table, video |-> s[i].video,
    kind |-> s[i].kind, grace |-> s[i].grace, seq |-> i] : i \in DOMAIN s}

\* A map keyed by id keeps the last entry that has the id.
ById(s, id) == s[MaxOf({i \in DOMAIN s : s[i].id = id})]

ForgetStage(e) == NeverSang   \* mutant of SeedFromNowPlaying

\* The now-playing singer's person and table were served this round.
SeedFromNowPlaying(e) ==
  IF e.kind = "sing"
  THEN [NeverSang EXCEPT ![PersonKey(e)] = 0, ![TableBucket(e)] = 0]
  ELSE NeverSang

\* Mutant of OrderQueue: the now-playing entry is ordered with the others.
OrderUnpinned(items, mode) ==
  LET order == GetEffectiveOrder(mode, EngineEntries(SortedByTime(items)), NeverSang, 0, 0)
  IN  [i \in DOMAIN order |-> ById(items, order[i].id)]

OrderQueue(items, mode) ==
  IF Len(items) <= 1 THEN items
  ELSE LET pending == Tail(items)
           order == GetEffectiveOrder(mode, EngineEntries(SortedByTime(pending)),
                                      SeedFromNowPlaying(Head(items)), 0, 0)
       IN  <<Head(items)>> \o [i \in DOMAIN order |-> ById(pending, order[i].id)]

\* Listens: only the per-person cap, not the duplicate rule.
CheckSubmit(queue, x, mode) ==
  IF x.kind = "listen"
  THEN Cardinality({i \in DOMAIN queue :
                      queue[i].kind = "listen" /\ queue[i].uuid = x.uuid})
         < LISTEN_CAP_PER_UUID
  ELSE /\ mode = "per-table-2" => x.table # NoTable
       /\ Accepts(mode, EngineEntries(SortedByTime(queue)), x)

=============================================================================
