--------------------------- MODULE RotationEngine ---------------------------
(***************************************************************************)
(* The ordering rules of packages/rotation-engine: which fairness group an *)
(* entry belongs to, the round-robin over groups, and the merge of listen  *)
(* entries under the starvation cap.  Pure operators, no state: the state  *)
(* machine of the package is FairnessQueue, the app's use of the rules is  *)
(* Rotation.                                                               *)
(*                                                                         *)
(* An entry is a record with the fields that decide its place:             *)
(*   seq    the engine's monotonic submittedAt, distinct for each entry    *)
(*   uuid   the participant, table its table or NoTable                    *)
(*   kind   "sing" or "listen"                                             *)
(*   grace  TRUE for a no-show's entry that was queued again               *)
(***************************************************************************)
EXTENDS Integers, Sequences, FiniteSets, Functions

CONSTANTS
  Participants,   \* participant uuids
  Tables,         \* table labels
  NoTable,        \* an absent or empty table
  NoCap,          \* maxConsecutiveListen = null
  PER_TABLE_CAP,  \* queued sings a table may hold, 4 in the code
  PER_PERSON_CAP  \* queued sings a person may hold, 2 in the code

ASSUME TableAssumption == NoTable \notin Tables
ASSUME NoCapAssumption == NoCap \notin Nat
ASSUME CapAssumption == PER_TABLE_CAP \in Nat \ {0} /\ PER_PERSON_CAP \in Nat \ {0}

VenueModes == {"full-karaoke", "per-table-2", "per-person-1"}
Kinds == {"sing", "listen"}

-----------------------------------------------------------------------------
(* Fairness groups.                                                        *)

PersonKey(e) == <<"uuid", e.uuid>>

\* A tableless entry is a group of its own, keyed by its participant.
TableBucket(e) ==
  IF e.table # NoTable THEN <<"table", e.table>> ELSE <<"no-table", e.uuid>>

GroupKeys == ({"uuid", "no-table"} \X Participants) \cup ({"table"} \X Tables)

\* lastSangByUuid and lastSangByTable as one function: their keys differ.
\* -1 stands for an absent key, "never sang".
NeverSang == [k \in GroupKeys |-> -1]

GroupKey(mode, e) == IF mode = "per-table-2" THEN TableBucket(e) ELSE PersonKey(e)

QueuedSings(entries) == {e \in entries : e.kind = "sing"}

-----------------------------------------------------------------------------
(* Ordering.                                                               *)

LeastOf(S) == CHOOSE m \in S : \A n \in S : m <= n   \* mutant of MaxOf: the clock starts early

MaxOf(S) == CHOOSE m \in S : \A n \in S : n <= m

SubmittedBefore(e, f) == e.seq < f.seq

\* Within a group: grace entries first, then by submission.
GraceThenSubmitted(e, f) ==
  \/ e.grace /\ ~f.grace
  \/ e.grace = f.grace /\ SubmittedBefore(e, f)

\* The entries of a set in the order of a strict total order on it.
SortedBy(Before(_, _), S) ==
  [i \in 1..Cardinality(S) |->
     CHOOSE e \in S : Cardinality({f \in S : Before(f, e)}) = i - 1]

\* Mutant of ServedBefore: a grace head goes before a group with less credit.
GraceBeforeCredit(mode, served, e, f) ==
  LET se == served[GroupKey(mode, e)]
      sf == served[GroupKey(mode, f)]
  IN  (e.grace /\ ~f.grace) \/ (e.grace = f.grace /\ (se < sf \/ (se = sf /\ e.seq < f.seq)))

\* Least recently served group first, then a grace head, then submission.  A
\* group's head is its least entry, so the best head is the least entry overall.
ServedBefore(mode, served, e, f) ==
  LET se == served[GroupKey(mode, e)]
      sf == served[GroupKey(mode, f)]
  IN  se < sf \/ (se = sf /\ GraceThenSubmitted(e, f))

\* The loop of roundRobin: serve the best head and move its group behind every
\* waiting group.  The function maps the loop's variables to its result.
RoundRobin(mode, sings, lastSang) ==
  LET LoopState == [order : Seq(sings), waiting : SUBSET sings,
                    served : [GroupKeys -> Int], tick : Nat]
      loop[s \in LoopState] ==
        IF s.waiting = {} THEN s.order
        ELSE LET head == CHOOSE e \in s.waiting : \A f \in s.waiting \ {e} :
                            ServedBefore(mode, s.served, e, f)
             IN  loop[[order   |-> Append(s.order, head),
                       waiting |-> s.waiting \ {head},
                       served  |-> [s.served EXCEPT ![GroupKey(mode, head)] = s.tick],
                       tick    |-> s.tick + 1]]
  IN  loop[[order |-> <<>>, waiting |-> sings, served |-> lastSang,
            tick |-> MaxOf({0} \cup {lastSang[GroupKey(mode, e)] + 1 : e \in sings})]]

MayListenOnceMore(cap, played) == cap = NoCap \/ played <= cap   \* mutant of MayListen

MayListen(cap, played) == cap = NoCap \/ played < cap

\* Interleave: at most cap listens in a row while a sing waits; run is the
\* number of listens already played in a row.
MergeListens(sings, listens, cap, run) ==
  LET LoopState == Seq(Range(sings) \cup Range(listens)) \X Seq(Range(sings))
                     \X Seq(Range(listens)) \X Nat
      loop[s \in LoopState] ==
        LET order == s[1]  ss == s[2]  ls == s[3]  played == s[4]
            listenNext == MayListen(cap, played) /\ SubmittedBefore(Head(ls), Head(ss))
        IN  IF ss = <<>> THEN order \o ls
            ELSE IF ls = <<>> THEN order \o ss
            ELSE IF listenNext
                 THEN loop[<<Append(order, Head(ls)), ss, Tail(ls), played + 1>>]
                 ELSE loop[<<Append(order, Head(ss)), Tail(ss), ls, 0>>]
  IN  loop[<<<<>>, sings, listens, run>>]

GetEffectiveOrder(mode, entries, lastSang, cap, run) ==
  MergeListens(RoundRobin(mode, QueuedSings(entries), lastSang),
               SortedBy(SubmittedBefore, entries \ QueuedSings(entries)),
               cap, run)

-----------------------------------------------------------------------------
(* Admission.                                                              *)

\* The same participant already has this video queued in the same kind.
IsDuplicate(entries, x) ==
  \E e \in entries : e.uuid = x.uuid /\ e.video = x.video /\ e.kind = x.kind

PastCap(S, cap) == Cardinality(S) > cap   \* mutant of AtCap

AtCap(S, cap) == Cardinality(S) >= cap

CapViolation(mode, entries, x) ==
  \/ /\ mode = "per-person-1"
     /\ AtCap({e \in QueuedSings(entries) : e.uuid = x.uuid}, PER_PERSON_CAP)
  \/ /\ mode = "per-table-2"
     /\ AtCap({e \in QueuedSings(entries) : TableBucket(e) = TableBucket(x)}, PER_TABLE_CAP)

Accepts(mode, entries, x) ==
  /\ ~IsDuplicate(entries, x)
  /\ x.kind = "sing" => ~CapViolation(mode, entries, x)

=============================================================================
