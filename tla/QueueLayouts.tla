----------------------------- MODULE QueueLayouts -----------------------------
(***************************************************************************)
(* The order a room sees, over every small queue.  A behaviour builds a    *)
(* queue one submission at a time, lays it out as POST /api/queue and the  *)
(* mode switch do, and pops the head as POST /api/queue/advance does.      *)
(***************************************************************************)
EXTENDS Rotation, Functions

CONSTANTS TableOf,          \* where a participant sits
          Submissions,      \* who submits what: pairs of a participant and a kind
          MaxSubmissions    \* bound of the exploration

VARIABLES queue, mode, now, submitted
vars == <<queue, mode, now, submitted>>

Init == queue = <<>> /\ mode \in VenueModes /\ now = 0 /\ submitted = 0

NewEntry(u, kind, grace, at) ==
  [id |-> submitted + 1, uuid |-> u, table |-> TableOf[u], video |-> submitted + 1,
   kind |-> kind, grace |-> grace, at |-> at]

\* At most one grace entry at a time; the time may tie with the one before.
Submit ==
  /\ submitted < MaxSubmissions
  /\ \E <<u, kind>> \in Submissions, grace \in BOOLEAN, at \in {now, now + 1} :
       /\ grace => kind = "sing" /\ \A i \in DOMAIN queue : ~queue[i].grace
       /\ queue' = OrderQueue(Append(queue, NewEntry(u, kind, grace, at)), mode)
       /\ now' = at
  /\ submitted' = submitted + 1
  /\ UNCHANGED mode

\* The store pops its head and does not lay the queue out again.
Advance ==
  /\ queue # <<>>
  /\ queue' = Tail(queue)
  /\ UNCHANGED <<mode, now, submitted>>

SwitchMode ==
  /\ mode' \in VenueModes \ {mode}
  /\ queue' = OrderQueue(queue, mode')
  /\ UNCHANGED <<now, submitted>>

Next == Submit \/ Advance \/ SwitchMode
Spec == Init /\ [][Next]_vars

-----------------------------------------------------------------------------
\* Laying out a queue keeps every entry once and leaves the now-playing entry in
\* front; orderQueue's comment: "ordering an already-effective queue returns the
\* same order", also when submission times tie.
OrderIsStable ==
  \A m \in VenueModes :
    LET order == OrderQueue(queue, m)
    IN  /\ Len(order) = Len(queue) /\ Range(order) = Range(queue)
        /\ queue # <<>> => Head(order) = Head(queue)
        /\ OrderQueue(order, m) = order

\* The singer on stage is not scheduled again before every other waiting group
\* has had a turn.
StageTurnCountsAsServed ==
  LET order == OrderQueue(queue, mode)
      Group(i) == GroupKey(mode, order[i])
      Sings(i) == order[i].kind = "sing"
  IN  \A i, j \in 2..Len(order) :
        /\ Sings(1) /\ Sings(i) /\ Sings(j)
        /\ Group(i) = Group(1) /\ Group(j) # Group(1)
        => \E k \in 2..(i - 1) : Sings(k) /\ Group(k) = Group(j)

\* A submission that is not a grace re-queue changes nobody's place relative to
\* anybody else's: a newcomer is slotted in, never reshuffles the waiting.
NewcomerNeverReshuffles ==
  [][submitted' > submitted =>
       LET Old(e) == e.id <= submitted
       IN  (\A i \in DOMAIN queue' : ~Old(queue'[i]) => ~queue'[i].grace)
             => SelectSeq(queue', Old) = OrderQueue(queue, mode)]_vars
=============================================================================
