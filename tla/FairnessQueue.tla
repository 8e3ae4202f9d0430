---------------------------- MODULE FairnessQueue ----------------------------
(***************************************************************************)
(* The state machine of packages/rotation-engine: QueueState and the       *)
(* operations that map one state to the next.  The package is a pure       *)
(* library, so every operation is one step; the environment is a caller    *)
(* that applies any operation in any order, and that may queue a forgiven  *)
(* no-show's entry again with the grace flag.                              *)
(*                                                                         *)
(* QueueState.history is written and never read by the engine, so it is    *)
(* left out; an entry's id is its sequence number.                         *)
(***************************************************************************)
EXTENDS RotationEngine, TLC

CONSTANTS
  Videos,
  Seated,                 \* the participants who name a table, the others none
  Listeners,              \* the participants who submit listens as well
  MaxConsecutiveListen,   \* options.maxConsecutiveListen
  MaxSeq                  \* bound on the entries ever accepted

ASSUME ParticipantsAssumption == Seated \subseteq Participants /\ Listeners \subseteq Participants
ASSUME ListenCapAssumption == MaxConsecutiveListen \in Nat \cup {NoCap}
ASSUME MaxSeqAssumption == MaxSeq \in Nat

VARIABLES
  venueMode, entries, nextSeq, singClock, lastSang, consecutiveListen,
  noShowStreak,
  granted,     \* the entry a caller may queue again: the last skip's, if forgiven
  passed,      \* history: groups that had a turn, or lost one, while this group waited
  listenRun    \* history: listens played in a row while a singer waited

state == <<venueMode, entries, nextSeq, singClock, lastSang, consecutiveListen,
           noShowStreak>>
vars == <<venueMode, entries, nextSeq, singClock, lastSang, consecutiveListen,
          noShowStreak, granted, passed, listenRun>>

Input == [uuid : Participants, table : Tables \cup {NoTable}, video : Videos,
          kind : Kinds, grace : BOOLEAN]

\* The entry that submission x becomes, as number n.
EntryOf(n, x) == [seq |-> n, uuid |-> x.uuid, table |-> x.table, video |-> x.video,
                  kind |-> x.kind, grace |-> x.grace]

Order == GetEffectiveOrder(venueMode, entries, lastSang,
                           MaxConsecutiveListen, consecutiveListen)

Waiting(mode, S) == {GroupKey(mode, e) : e \in QueuedSings(S)}

-----------------------------------------------------------------------------
(* History variables: who was passed over.                                 *)

\* After a step that serves the groups in Served (none or one).
NotePassed(Served) ==
  LET still == Waiting(venueMode', entries') \ Served
  IN  passed' = [k \in GroupKeys |-> IF k \in still THEN passed[k] \cup Served ELSE {}]

NoteListen(played) ==
  listenRun' = IF QueuedSings(entries') = {} \/ played = "sing" THEN 0
               ELSE IF played = "listen" THEN listenRun + 1 ELSE listenRun

-----------------------------------------------------------------------------
(* Operations.                                                             *)

Init ==                                             \* createQueue
  /\ venueMode \in VenueModes
  /\ entries = {}
  /\ nextSeq = 0
  /\ singClock = 0
  /\ lastSang = NeverSang
  /\ consecutiveListen = 0
  /\ noShowStreak = [u \in Participants |-> 0]
  /\ granted = {}
  /\ passed = [k \in GroupKeys |-> {}]
  /\ listenRun = 0

\* A refused entry leaves the state unchanged.
AddEntry(x) ==
  /\ nextSeq < MaxSeq
  /\ Accepts(venueMode, entries, x)
  /\ entries' = entries \cup {EntryOf(nextSeq, x)}
  /\ nextSeq' = nextSeq + 1
  /\ UNCHANGED <<venueMode, singClock, lastSang, consecutiveListen, noShowStreak>>

Submit ==
  /\ \E x \in Input :
        /\ ~x.grace
        /\ x.table \in (IF x.uuid \in Seated THEN Tables ELSE {NoTable})
        /\ x.kind = "listen" => x.uuid \in Listeners
        /\ AddEntry(x)
  /\ NotePassed({})
  /\ NoteListen("none")
  /\ UNCHANGED granted

\* The caller honours graceGranted.
GraceRequeue ==
  /\ \E e \in granted :
        AddEntry([e EXCEPT !.grace = TRUE])
  /\ granted' = {}
  /\ NotePassed({})
  /\ NoteListen("none")

\* Mutants of Charge: the table is not charged; the clock stands still.
ChargePersonOnly(e) ==
  /\ singClock' = singClock + 1
  /\ lastSang' = [lastSang EXCEPT ![PersonKey(e)] = singClock + 1]
ChargeWithoutTick(e) ==
  /\ singClock' = singClock
  /\ lastSang' = [lastSang EXCEPT ![PersonKey(e)] = singClock + 1]

\* A turn charged to the entry's person and table.
Charge(e) ==
  /\ singClock' = singClock + 1
  /\ lastSang' = [lastSang EXCEPT ![PersonKey(e)] = singClock + 1,
                                  ![TableBucket(e)] = singClock + 1]

Consume(e) ==
  /\ entries' = entries \ {e}
  /\ \/ /\ e.kind = "listen"
        /\ consecutiveListen' = consecutiveListen + 1
        /\ UNCHANGED <<singClock, lastSang, noShowStreak>>
     \/ /\ e.kind = "sing"
        /\ Charge(e)
        /\ noShowStreak' = [noShowStreak EXCEPT ![e.uuid] = 0]
        /\ consecutiveListen' = 0

Advance ==
  /\ entries # {}
  /\ LET head == Order[1]
     IN  /\ Consume(head)
         /\ UNCHANGED <<venueMode, nextSeq, granted>>
         /\ NotePassed(IF head.kind = "sing" THEN {GroupKey(venueMode, head)} ELSE {})
         /\ NoteListen(head.kind)

\* A skipped listen is only removed; a first no-show is forgiven; a second in a
\* row is charged like a turn.
SkipEntry(target) ==
  /\ entries' = entries \ {target}
  /\ UNCHANGED <<venueMode, nextSeq, consecutiveListen>>
  /\ NoteListen("none")
  /\ \/ /\ target.kind = "listen"
        /\ granted' = {}
        /\ NotePassed({})
        /\ UNCHANGED <<singClock, lastSang, noShowStreak>>
     \/ /\ target.kind = "sing"
        /\ noShowStreak' = [noShowStreak EXCEPT ![target.uuid] = @ + 1]
        /\ \/ /\ noShowStreak[target.uuid] = 0
              /\ granted' = {target}
              /\ NotePassed({})
              /\ UNCHANGED <<singClock, lastSang>>
           \/ /\ noShowStreak[target.uuid] >= 1
              /\ granted' = {}
              /\ Charge(target)
              /\ NotePassed({GroupKey(venueMode, target)})

\* skip(state): the head of the effective order; skip(state, id): any entry.
Skip ==
  /\ entries # {}
  /\ SkipEntry(Order[1])

SkipById == \E e \in entries : SkipEntry(e)

RemoveEntry ==
  /\ \E e \in entries : entries' = entries \ {e}
  /\ UNCHANGED <<venueMode, nextSeq, singClock, lastSang, consecutiveListen,
                 noShowStreak, granted>>
  /\ NotePassed({})
  /\ NoteListen("none")

\* Honoured even over the table's cap: a correction, not a submission.
MoveEntryToTable ==
  /\ \E e \in entries, t \in Tables \cup {NoTable} :
        entries' = (entries \ {e}) \cup {[e EXCEPT !.table = t]}
  /\ UNCHANGED <<venueMode, nextSeq, singClock, lastSang, consecutiveListen,
                 noShowStreak, granted>>
  /\ NotePassed({})
  /\ NoteListen("none")

SetVenueMode ==
  /\ venueMode' \in VenueModes
  /\ UNCHANGED <<entries, nextSeq, singClock, lastSang, consecutiveListen,
                 noShowStreak, granted, listenRun>>
  /\ NotePassed({})

Next ==
  \/ Submit
  \/ GraceRequeue
  \/ Advance
  \/ Skip
  \/ SkipById
  \/ RemoveEntry
  \/ MoveEntryToTable
  \/ SetVenueMode

Spec == Init /\ [][Next]_vars

-----------------------------------------------------------------------------
(* Properties.                                                             *)

Entry == [seq : 0..(MaxSeq - 1), uuid : Participants, table : Tables \cup {NoTable},
          video : Videos, kind : Kinds, grace : BOOLEAN]

\* Every component of QueueState has its type, sequence numbers are distinct and
\* below nextSeq, and no recency marker is ahead of the clock.
TypeOK ==
  /\ venueMode \in VenueModes
  /\ nextSeq \in 0..MaxSeq
  /\ entries \subseteq Entry
  /\ \A e \in entries : e.seq < nextSeq
  /\ \A e, f \in entries : e.seq = f.seq => e = f
  /\ singClock \in 0..MaxSeq
  /\ lastSang \in [GroupKeys -> -1..singClock]
  /\ consecutiveListen \in 0..MaxSeq
  /\ noShowStreak \in [Participants -> 0..MaxSeq]
  /\ granted \subseteq Entry
  /\ passed \in [GroupKeys -> SUBSET GroupKeys]
  /\ listenRun \in 0..MaxSeq

\* The step plays e, as consume records it.
Plays(e) ==
  /\ e \in entries \ entries'
  /\ \/ consecutiveListen' > consecutiveListen
     \/ singClock' > singClock /\ noShowStreak'[e.uuid] = 0

\* What peekUpcoming promises is what advance plays: playing the head leaves the
\* rest of the announced order as it was (README, "What the venue screen shows is
\* what actually airs").
PeekIsPlay ==
  [][(\E e \in entries : Plays(e)) => Order' = Tail(Order)]_vars

\* Round-robin: no group sings twice while another group that has been waiting
\* throughout is not served, whatever is submitted, removed, moved, skipped or
\* switched in between.  A second no-show in a row is a turn the group has had.
NoGroupSingsTwicePastAnother ==
  [][\A e \in QueuedSings(entries) :
       Plays(e) =>
         \A k \in Waiting(venueMode, entries) \ {GroupKey(venueMode, e)} :
           GroupKey(venueMode, e) \notin passed[k]]_vars

\* Listens never starve a waiting singer: the cap holds across separate advances,
\* submissions and skips, not only within one computed order.
ListensNeverStarveSingers ==
  MaxConsecutiveListen # NoCap => listenRun <= MaxConsecutiveListen

\* A group that is over the cap of the current mode (grandfathered by a switch or
\* by a table correction) only drains: a submission never grows it.
OverCapGroupsOnlyDrain ==
  [][nextSeq' > nextSeq /\ venueMode # "full-karaoke" =>
       \A k \in Waiting(venueMode, entries') :
         LET held(S) == Cardinality({e \in QueuedSings(S) : GroupKey(venueMode, e) = k})
             cap == IF venueMode = "per-table-2" THEN PER_TABLE_CAP ELSE PER_PERSON_CAP
         IN  held(entries') > cap => held(entries') <= held(entries)]_vars

FirstTurn(order, k) ==
  CHOOSE i \in 1..Len(order) :
    /\ order[i].kind = "sing" /\ GroupKey(venueMode, order[i]) = k
    /\ \A j \in 1..(i - 1) :
         order[j].kind = "sing" => GroupKey(venueMode, order[j]) # k

\* A grace entry, or any other, never lets its group leapfrog a group with
\* genuinely less credit: first turns come in the order of recency.
CreditDecidesFirstTurns ==
  LET order == Order
  IN  \A k, l \in Waiting(venueMode, entries) :
        lastSang[k] < lastSang[l] => FirstTurn(order, k) < FirstTurn(order, l)

\* The loop of roundRobin computes rounds: every group's first entry before any
\* second entry, and within a round the groups by recency, then grace head, then
\* submission of the head.
RoundsDecideTheOrder ==
  LET order == Order
      mates(e) == {f \in QueuedSings(entries) : GroupKey(venueMode, f) = GroupKey(venueMode, e)}
      round(e) == Cardinality({f \in mates(e) : GraceThenSubmitted(f, e)})
      head(e) == CHOOSE f \in mates(e) : \A g \in mates(e) \ {f} : GraceThenSubmitted(f, g)
      Earlier(e, f) ==
        \/ round(e) < round(f)
        \/ /\ round(e) = round(f)
           /\ ServedBefore(venueMode, lastSang, head(e), head(f))
      Sings(i) == order[i].kind = "sing"
  IN  /\ Len(order) = Cardinality(entries) /\ Range(order) = entries
      /\ \A i, j \in DOMAIN order :
           Sings(i) /\ Sings(j) /\ Earlier(order[i], order[j]) => i < j

\* The second no-show in a row costs the turn: the person's group drops behind
\* every group that waits.
VanishingDropsBehindEveryone ==
  [][\A e \in QueuedSings(entries) \ entries' :
       LET k == GroupKey(venueMode, e)
           order == Order'
       IN  noShowStreak'[e.uuid] >= 2 /\ noShowStreak'[e.uuid] > noShowStreak[e.uuid]
             => \A l \in Waiting(venueMode, entries') \ {k} :
                  k \in Waiting(venueMode, entries')
                    => FirstTurn(order, l) < FirstTurn(order, k)]_vars

\* Whatever was submitted, moved, skipped or switched before, the announced order is
\* that of the credits and of the rounds.
TurnsAreInOrder == TypeOK /\ CreditDecidesFirstTurns /\ RoundsDecideTheOrder

\* Across separate calls, nobody sings twice past one who waits, and who fails to
\* show up twice waits for everyone.
TurnsComeRound == NoGroupSingsTwicePastAnother /\ VanishingDropsBehindEveryone

\* The caps hold across the calls: listens never starve a singer, and a group over
\* its cap only drains.
CapsHold == []ListensNeverStarveSingers /\ OverCapGroupsOnlyDrain

\* For TLC: videos are interchangeable.
Symmetry == Permutations(Videos)
=============================================================================
