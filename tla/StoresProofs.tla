-------------------------- MODULE StoresProofs --------------------------
(***************************************************************************)
(* Proofs about the components over stored keys, composed as in MCStores,  *)
(* for any number of actors and any bounds.  The two drivers of a room's   *)
(* queue (QueueStore, MemoryStore), and that each implements QueueContract; *)
(* the list of rooms a device keeps (RoomMemory), the making of rooms      *)
(* (RoomCreation) and their deletion and its undoing (RoomDeletion); the   *)
(* shards of the karaoke index as they are served (IndexStore) and filled  *)
(* (IndexRefresh); feedback (Feedback) and events (Telemetry).             *)
(***************************************************************************)
EXTENDS MCStores, ListTheorems

-----------------------------------------------------------------------------
(* What the driver computes.                                               *)

\* The script keeps the desired entries that are still queued and the entries
\* that arrived after the read, each once.
LEMMA MergeProperties ==
  ASSUME NEW S, NEW current \in Seq(S), NEW desired \in Seq(S), NEW old \in Seq(S)
  PROVE  /\ Merge(current, desired, old) \in Seq(S)
         /\ Range(Merge(current, desired, old))
              = (Range(desired) \cap Range(current)) \cup (Range(current) \ Range(old))
         /\ IsInjective(current) /\ IsInjective(desired) /\ Range(desired) \subseteq Range(old)
              => IsInjective(Merge(current, desired, old))
<1> DEFINE a == Kept(desired, Range(current))
           b == Kept(current, Range(current) \ Range(old))
<1>1. a \in Seq(S) /\ Range(a) = Range(desired) \cap Range(current)
      /\ (IsInjective(desired) => IsInjective(a))
  BY KeptProperties
<1>2. b \in Seq(S) /\ Range(b) = Range(current) \cap (Range(current) \ Range(old))
      /\ (IsInjective(current) => IsInjective(b))
  BY KeptProperties
<1> HIDE DEF a, b
<1>3. a \o b \in Seq(S) /\ Range(a \o b) = Range(a) \cup Range(b)
      /\ (IsInjective(a) /\ IsInjective(b) /\ Range(a) \cap Range(b) = {} => IsInjective(a \o b))
  BY <1>1, <1>2, ConcatProperties
<1>4. Range(desired) \subseteq Range(old) => Range(a) \cap Range(b) = {}
  BY <1>1, <1>2
<1>5. Merge(current, desired, old) = a \o b
  BY DEF Merge, a, b
<1> QED
  BY <1>1, <1>2, <1>3, <1>4, <1>5

\* A list that lost one of its entries is one shorter.
LEMMA OneFewer ==
  ASSUME NEW S, NEW s \in Seq(S), IsInjective(s), NEW id \in Range(s),
         NEW rest \in Seq(S), IsInjective(rest), Range(rest) = Range(s) \ {id}
  PROVE  Len(rest) = Len(s) - 1
<1>1. /\ Cardinality(Range(rest)) = Len(rest) /\ Cardinality(Range(s)) = Len(s)
      /\ IsFiniteSet(Range(s))
  BY InjectiveLen
<1>2. Cardinality(Range(rest)) = Cardinality(Range(s)) - 1
  BY <1>1, FS_RemoveElement
<1> QED
  BY <1>1, <1>2

\* An entry put into a list without it, at any place.
LEMMA PutBack ==
  ASSUME NEW S, NEW rest \in Seq(S), IsInjective(rest), NEW id \in S, id \notin Range(rest),
         NEW k \in 0..Len(rest)
  PROVE  LET new == SubSeq(rest, 1, k) \o <<id>> \o SubSeq(rest, k + 1, Len(rest))
         IN  new \in Seq(S) /\ Range(new) = Range(rest) \cup {id} /\ IsInjective(new)
<1> DEFINE a == SubSeq(rest, 1, k)
           b == SubSeq(rest, k + 1, Len(rest))
<1>1. /\ a \in Seq(S) /\ b \in Seq(S)
      /\ Range(a) \cup Range(b) = Range(rest)
      /\ IsInjective(a) /\ IsInjective(b) /\ Range(a) \cap Range(b) = {}
  BY SubSeqProperties
<1> HIDE DEF a, b
<1> DEFINE one == <<id>>
           c == a \o one
<1>2. one \in Seq(S) /\ Range(one) = {id} /\ IsInjective(one)
  BY DEF Range, IsInjective
<1> HIDE DEF one, c
<1>3. c \in Seq(S) /\ Range(c) = Range(a) \cup {id} /\ IsInjective(c)
  <2>1. Range(a) \cap Range(one) = {}
    BY <1>1, <1>2
  <2> QED
    BY <1>1, <1>2, <2>1, ConcatProperties DEF c
<1>4. Range(c) \cap Range(b) = {}
  BY <1>1, <1>3
<1>5. c \o b \in Seq(S) /\ Range(c \o b) = Range(c) \cup Range(b) /\ IsInjective(c \o b)
  BY <1>1, <1>3, <1>4, ConcatProperties
<1>6. Range(c \o b) = Range(rest) \cup {id}
  BY <1>1, <1>3, <1>5
<1> QED
  BY <1>5, <1>6 DEF a, b, c, one

\* Moving an entry of a list keeps its entries, each once.
LEMMA MovedProperties ==
  ASSUME NEW S, NEW s \in Seq(S), IsInjective(s), NEW id \in Range(s),
         NEW k \in 0..(Len(s) - 1)
  PROVE  /\ Moved(s, id, k) \in Seq(S)
         /\ Range(Moved(s, id, k)) = Range(s)
         /\ IsInjective(Moved(s, id, k))
<1> DEFINE rest == Without(s, id)
<1>1. rest \in Seq(S) /\ Range(rest) = Range(s) \ {id} /\ IsInjective(rest)
  BY WithoutProperties
<1> HIDE DEF rest
<1>2. Len(rest) = Len(s) - 1
  BY <1>1, OneFewer
<1>3. id \in S /\ id \notin Range(rest) /\ k \in 0..Len(rest) /\ Range(s) = Range(rest) \cup {id}
  BY <1>1, <1>2, RangeOfList
<1> QED
  BY <1>1, <1>3, PutBack DEF Moved, rest

-----------------------------------------------------------------------------
(* The inductive invariant.                                                *)

\* What a call in flight holds: a new entry is nowhere else, and a desired list
\* is what the call read, without the entry a remove is about.
CallsOK ==
  \A c \in Clients :
    /\ pc[c] = "push" =>
         /\ arg[c] \notin Range(queue)
         /\ \A d \in Clients : pc[d] = "push" /\ arg[d] = arg[c] => d = c
    /\ pc[c] \in {"remove", "arrange"} => IsInjective(want[c])
    /\ pc[c] = "remove" =>
         arg[c] \in Range(snap[c]) /\ Range(want[c]) = Range(snap[c]) \ {arg[c]}
    /\ pc[c] = "arrange" => Range(want[c]) = Range(snap[c])

IInv == TypeOK /\ NoDuplicates /\ CallsOK

\* The effect of the merge script, for a call in flight.
LEMMA ApplyMerges ==
  ASSUME IInv, NEW c \in Clients, pc[c] \in {"remove", "arrange"}
  PROVE  LET merged == Merge(queue, want[c], snap[c])
         IN  /\ merged \in Seq(Ids) /\ IsInjective(merged)
             /\ Range(merged) = IF pc[c] = "remove" THEN Range(queue) \ {arg[c]}
                                                     ELSE Range(queue)
<1>1. queue \in Seq(Ids) /\ want[c] \in Seq(Ids) /\ snap[c] \in Seq(Ids)
      /\ IsInjective(queue) /\ IsInjective(want[c]) /\ Range(want[c]) \subseteq Range(snap[c])
  BY DEF IInv, TypeOK, NoDuplicates, CallsOK
<1>2. /\ Merge(queue, want[c], snap[c]) \in Seq(Ids)
      /\ IsInjective(Merge(queue, want[c], snap[c]))
      /\ Range(Merge(queue, want[c], snap[c]))
           = (Range(want[c]) \cap Range(queue)) \cup (Range(queue) \ Range(snap[c]))
  BY <1>1, MergeProperties
<1>3. CASE pc[c] = "remove"
  <2>1. arg[c] \in Range(snap[c]) /\ Range(want[c]) = Range(snap[c]) \ {arg[c]}
    BY <1>3 DEF IInv, CallsOK
  <2> QED
    BY <1>2, <1>3, <2>1
<1>4. CASE pc[c] = "arrange"
  <2>1. Range(want[c]) = Range(snap[c])
    BY <1>4 DEF IInv, CallsOK
  <2> QED
    BY <1>2, <1>4, <2>1
<1> QED
  BY <1>3, <1>4

\* A read-modify-write call that remembers a list without duplicates, made of what
\* it read, keeps the invariant.
LEMMA ReadKeepsInvariant ==
  ASSUME IInv, NEW c \in Clients, NEW desired \in Seq(Ids), IsInjective(desired),
         NEW label \in {"remove", "arrange"}, Read(c, desired, label),
         \/ /\ label = "remove"
            /\ \E id \in Range(queue) : /\ Range(desired) = Range(queue) \ {id}
                                       /\ arg' = [arg EXCEPT ![c] = id]
         \/ /\ label = "arrange"
            /\ Range(desired) = Range(queue) /\ UNCHANGED arg
  PROVE  IInv'
<1> USE DEF Read, Goto
<1>1. \A x \in Range(queue) : x \in Ids
  BY DEF IInv, TypeOK, Range
<1>2. TypeOK'
  BY <1>1 DEF IInv, TypeOK
<1>3. NoDuplicates'
  BY DEF IInv, NoDuplicates, IsInjective
<1>4. CallsOK'
  <2> SUFFICES ASSUME NEW e \in Clients
               PROVE  /\ pc'[e] = "push" =>
                           /\ arg'[e] \notin Range(queue')
                           /\ \A d \in Clients : pc'[d] = "push" /\ arg'[d] = arg'[e] => d = e
                      /\ pc'[e] \in {"remove", "arrange"} => IsInjective(want'[e])
                      /\ pc'[e] = "remove" =>
                           arg'[e] \in Range(snap'[e]) /\ Range(want'[e]) = Range(snap'[e]) \ {arg'[e]}
                      /\ pc'[e] = "arrange" => Range(want'[e]) = Range(snap'[e])
    BY DEF CallsOK
  <2>1. CASE e = c
    BY <2>1 DEF IInv, TypeOK
  <2>2. CASE e # c
    <3>1. pc'[e] = pc[e] /\ arg'[e] = arg[e] /\ snap'[e] = snap[e] /\ want'[e] = want[e]
          /\ queue' = queue
      BY <2>2 DEF IInv, TypeOK
    <3>2. \A d \in Clients : pc'[d] = "push" => pc[d] = "push" /\ arg'[d] = arg[d]
      BY DEF IInv, TypeOK
    <3> QED
      BY <3>1, <3>2 DEF IInv, CallsOK
  <2> QED
    BY <2>1, <2>2
<1> QED
  BY <1>2, <1>3, <1>4 DEF IInv

\* A call that leaves: the other calls keep what they hold.
LEMMA OthersKeepTheirs ==
  ASSUME IInv, NEW c \in Clients, Return(c),
         \A d \in Clients : pc[d] = "push" /\ d # c => arg[d] \notin Range(queue')
  PROVE  CallsOK'
<1> SUFFICES ASSUME NEW e \in Clients
             PROVE  /\ pc'[e] = "push" =>
                         /\ arg'[e] \notin Range(queue')
                         /\ \A d \in Clients : pc'[d] = "push" /\ arg'[d] = arg'[e] => d = e
                    /\ pc'[e] \in {"remove", "arrange"} => IsInjective(want'[e])
                    /\ pc'[e] = "remove" =>
                         arg'[e] \in Range(snap'[e]) /\ Range(want'[e]) = Range(snap'[e]) \ {arg'[e]}
                    /\ pc'[e] = "arrange" => Range(want'[e]) = Range(snap'[e])
  BY DEF CallsOK
<1>1. CASE e = c
  BY <1>1 DEF IInv, TypeOK, Return, Goto
<1>2. CASE e # c
  <2>1. pc'[e] = pc[e] /\ arg'[e] = arg[e] /\ snap'[e] = snap[e] /\ want'[e] = want[e]
    BY <1>2 DEF IInv, TypeOK, Return, Goto
  <2>2. \A d \in Clients : pc'[d] = "push" => pc[d] = "push" /\ arg'[d] = arg[d]
    BY DEF IInv, TypeOK, Return, Goto
  <2> QED
    BY <1>2, <2>1, <2>2 DEF IInv, CallsOK
<1> QED
  BY <1>1, <1>2

\* Every step keeps the invariant.
LEMMA NextKeepsInvariant ==
  ASSUME IInv, [Next]_vars
  PROVE  IInv'
<1>0. /\ queue \in Seq(Ids) /\ IsInjective(queue)
      /\ \A x \in Range(queue) : x \in Ids
  BY DEF IInv, TypeOK, NoDuplicates, Range
<1>1. ASSUME NEW c \in Clients, NEW id \in Ids, AddCheck(c, id)
      PROVE  IInv'
  <2>1. TypeOK'
    BY <1>1 DEF IInv, TypeOK, AddCheck, Goto
  <2>2. NoDuplicates'
    BY <1>0, <1>1 DEF NoDuplicates, AddCheck
  <2>3. CallsOK'
    <3> SUFFICES ASSUME NEW e \in Clients
                 PROVE  /\ pc'[e] = "push" =>
                             /\ arg'[e] \notin Range(queue')
                             /\ \A d \in Clients : pc'[d] = "push" /\ arg'[d] = arg'[e] => d = e
                        /\ pc'[e] \in {"remove", "arrange"} => IsInjective(want'[e])
                        /\ pc'[e] = "remove" =>
                             arg'[e] \in Range(snap'[e]) /\ Range(want'[e]) = Range(snap'[e]) \ {arg'[e]}
                        /\ pc'[e] = "arrange" => Range(want'[e]) = Range(snap'[e])
      BY DEF CallsOK
    <3>1. /\ arg'[c] = id /\ pc'[c] = "push" /\ queue' = queue /\ id \notin Range(queue)
          /\ \A d \in Clients \ {c} : pc'[d] = pc[d] /\ arg'[d] = arg[d]
          /\ \A d \in Clients : pc[d] = "push" => arg[d] # id
          /\ snap' = snap /\ want' = want
      BY <1>1 DEF IInv, TypeOK, AddCheck, Goto
    <3>2. CASE e = c
      BY <3>1, <3>2
    <3>3. CASE e # c
      BY <3>1, <3>3 DEF IInv, CallsOK
    <3> QED
      BY <3>2, <3>3
  <2> QED
    BY <2>1, <2>2, <2>3 DEF IInv
<1>2. ASSUME NEW c \in Clients, AddPush(c)
      PROVE  IInv'
  <2>1. arg[c] \in Ids /\ arg[c] \notin Range(queue) /\ Return(c)
    BY <1>2 DEF IInv, TypeOK, CallsOK, AddPush
  <2>2. /\ queue' \in Seq(Ids) /\ IsInjective(queue')
        /\ Range(queue') = Range(queue) \cup {arg[c]}
    BY <1>0, <1>2, <2>1, AppendProperties DEF AddPush
  <2>3. TypeOK'
    BY <2>1, <2>2 DEF IInv, TypeOK, Return, Goto
  <2>4. \A d \in Clients : pc[d] = "push" /\ d # c => arg[d] \notin Range(queue')
    BY <1>2, <2>2 DEF IInv, CallsOK, AddPush
  <2>5. CallsOK'
    BY <2>1, <2>4, OthersKeepTheirs
  <2> QED
    BY <2>2, <2>3, <2>5 DEF IInv, NoDuplicates
<1>3. ASSUME NEW c \in Clients, NEW id \in Ids, RemoveRead(c, id)
      PROVE  IInv'
  <2> DEFINE desired == Without(queue, id)
  <2>1. Range(queue) \cap (Range(queue) \ {id}) = Range(queue) \ {id}
    OBVIOUS
  <2>2. desired \in Seq(Ids) /\ IsInjective(desired) /\ Range(desired) = Range(queue) \ {id}
    BY <1>0, <2>1, WithoutProperties
  <2>3. id \in Range(queue) /\ Read(c, desired, "remove") /\ arg' = [arg EXCEPT ![c] = id]
    BY <1>3 DEF RemoveRead
  <2> QED
    BY <2>2, <2>3, ReadKeepsInvariant
<1>4. ASSUME NEW c \in Clients, NEW id \in Ids, NEW k \in 0..(Len(queue) - 1),
             ReorderRead(c, id, k)
      PROVE  IInv'
  <2> DEFINE desired == Moved(queue, id, k)
  <2>1. id \in Range(queue) /\ Read(c, desired, "arrange") /\ UNCHANGED arg
    BY <1>4 DEF ReorderRead
  <2>2. desired \in Seq(Ids) /\ IsInjective(desired) /\ Range(desired) = Range(queue)
    BY <1>0, <2>1, MovedProperties
  <2> QED
    BY <2>1, <2>2, ReadKeepsInvariant
<1>5. ASSUME NEW c \in Clients, NEW order \in Arrangements(queue), RelayRead(c, order)
      PROVE  IInv'
  <2>1. Read(c, order, "arrange") /\ UNCHANGED arg
    BY <1>5 DEF RelayRead
  <2>2. order \in Seq(Ids) /\ IsInjective(order) /\ Range(order) = Range(queue)
    BY <1>0 DEF Arrangements
  <2> QED
    BY <2>1, <2>2, ReadKeepsInvariant
<1>6. ASSUME NEW c \in Clients, Apply(c)
      PROVE  IInv'
  <2>1. Return(c) /\ pc[c] \in {"remove", "arrange"} /\ queue' = Merge(queue, want[c], snap[c])
    BY <1>6 DEF Apply
  <2>2. queue' \in Seq(Ids) /\ IsInjective(queue') /\ Range(queue') \subseteq Range(queue)
    BY <2>1, ApplyMerges
  <2>3. TypeOK'
    BY <2>1, <2>2 DEF IInv, TypeOK, Return, Goto
  <2>4. \A d \in Clients : pc[d] = "push" /\ d # c => arg[d] \notin Range(queue')
    BY <2>2 DEF IInv, CallsOK
  <2>5. CallsOK'
    BY <2>1, <2>4, OthersKeepTheirs
  <2> QED
    BY <2>2, <2>3, <2>5 DEF IInv, NoDuplicates
<1>7. CASE Advance
  <2>1. queue' \in Seq(Ids) /\ IsInjective(queue') /\ Range(queue') \subseteq Range(queue)
    BY <1>0, <1>7, TailProperties DEF Advance
  <2>2. UNCHANGED <<pc, arg, snap, want>>
    BY <1>7 DEF Advance
  <2>3. TypeOK'
    BY <2>1, <2>2 DEF IInv, TypeOK
  <2>4. CallsOK'
    BY <2>1, <2>2 DEF IInv, CallsOK
  <2> QED
    BY <2>1, <2>3, <2>4 DEF IInv, NoDuplicates
<1>8. CASE UNCHANGED vars
  BY <1>8 DEF IInv, TypeOK, NoDuplicates, CallsOK, vars
<1> QED
  BY <1>1, <1>2, <1>3, <1>4, <1>5, <1>6, <1>7, <1>8 DEF Next

\* The invariant holds in every reachable state.
THEOREM Invariance == Spec => []IInv
<1>1. Init => IInv
  BY NoIdAssumption DEF Init, IInv, TypeOK, NoDuplicates, CallsOK, IsInjective
<1>2. IInv /\ [Next]_vars => IInv'
  BY NextKeepsInvariant
<1> QED
  BY <1>1, <1>2, PTL DEF Spec

\* Type correctness of the driver's state.
THEOREM TypeCorrect == Spec => []TypeOK
<1>1. IInv => TypeOK
  BY DEF IInv
<1> QED
  BY <1>1, Invariance, PTL

\* No interleaving of calls queues an entry twice.
THEOREM NeverTwice == Spec => []NoDuplicates
<1>1. IInv => NoDuplicates
  BY DEF IInv
<1> QED
  BY <1>1, Invariance, PTL

-----------------------------------------------------------------------------
(* The soft cap.                                                           *)

\* The calls past their check are finitely many; one more or one fewer counts one.
LEMMA PushingCounts ==
  ASSUME NEW S \in SUBSET Clients
  PROVE  /\ IsFiniteSet(S) /\ Cardinality(S) \in Nat /\ Cardinality(S) <= Cardinality(Clients)
         /\ \A c \in S : Cardinality(S \ {c}) = Cardinality(S) - 1
<1>1. IsFiniteSet(S) /\ Cardinality(S) <= Cardinality(Clients)
  BY ClientsAssumption, FS_Subset, Zenon
<1>2. Cardinality(S) \in Nat
  BY <1>1, FS_CardinalityType
<1>3. \A c \in S : Cardinality(S \ {c}) = Cardinality(S) - 1
  BY <1>1, FS_RemoveElement
<1> QED
  BY <1>1, <1>2, <1>3

\* A step that leaves the calls past their check alone and does not lengthen the
\* queue keeps the bound.
LEMMA ShorterKeepsSoftCap ==
  ASSUME TypeOK, TypeOK', SoftCap, Pushing' = Pushing, Len(queue') <= Len(queue)
  PROVE  SoftCap'
<1>1. Len(queue) \in Nat /\ Len(queue') \in Nat
  BY DEF TypeOK
<1>2. Cardinality(Pushing) \in Nat /\ Cardinality(Clients) \in Nat
  BY ClientsAssumption, PushingCounts, FS_CardinalityType DEF Pushing
<1> QED
  BY <1>1, <1>2, QueueMaxAssumption DEF SoftCap

\* Every step keeps the soft cap.
LEMMA NextKeepsSoftCap ==
  ASSUME IInv, IInv', SoftCap, [Next]_vars
  PROVE  SoftCap'
<1>1. /\ queue \in Seq(Ids) /\ Len(queue) \in Nat /\ IsInjective(queue)
      /\ Cardinality(Clients) \in Nat
  BY ClientsAssumption, FS_CardinalityType DEF IInv, TypeOK, NoDuplicates
<1>2. ASSUME NEW c \in Clients, NEW id \in Ids, AddCheck(c, id)
      PROVE  SoftCap'
  <2>1. Pushing' \in SUBSET Clients
    BY DEF Pushing
  <2>2. Cardinality(Pushing') \in Nat /\ Cardinality(Pushing') <= Cardinality(Clients)
    BY <2>1, PushingCounts
  <2>3. Len(queue') < QUEUE_MAX /\ Len(queue') \in Nat
    BY <1>1, <1>2 DEF AddCheck, HasRoom
  <2> QED
    BY <1>1, <2>2, <2>3, QueueMaxAssumption DEF SoftCap
<1>3. ASSUME NEW c \in Clients, AddPush(c)
      PROVE  SoftCap'
  <2>1. Pushing \in SUBSET Clients /\ c \in Pushing /\ Pushing' = Pushing \ {c}
    BY <1>3 DEF Pushing, AddPush, Return, Goto, IInv, TypeOK
  <2>2. Cardinality(Pushing) \in Nat /\ Cardinality(Pushing') = Cardinality(Pushing) - 1
    BY <2>1, PushingCounts
  <2>3. Len(queue') = Len(queue) + 1
    BY <1>1, <1>3 DEF AddPush, IInv, TypeOK
  <2> QED
    BY <1>1, <2>2, <2>3, QueueMaxAssumption DEF SoftCap
<1>4. ASSUME NEW c \in Clients, NEW desired, NEW label \in {"remove", "arrange"},
             Read(c, desired, label)
      PROVE  SoftCap'
  <2>1. Pushing' = Pushing /\ queue' = queue
    BY <1>4 DEF Pushing, Read, Goto, IInv, TypeOK
  <2> QED
    BY <1>1, <2>1, ShorterKeepsSoftCap DEF IInv
<1>5. ASSUME NEW c \in Clients, Apply(c)
      PROVE  SoftCap'
  <2>1. Pushing' = Pushing
    BY <1>5 DEF Pushing, Apply, Return, Goto, IInv, TypeOK
  <2>2. queue' \in Seq(Ids) /\ IsInjective(queue') /\ Range(queue') \in SUBSET Range(queue)
    BY <1>5, ApplyMerges DEF Apply
  <2>3. /\ Len(queue) = Cardinality(Range(queue)) /\ IsFiniteSet(Range(queue))
        /\ Len(queue') = Cardinality(Range(queue'))
    BY <1>1, <2>2, InjectiveLen
  <2>4. Cardinality(Range(queue')) <= Cardinality(Range(queue))
    BY <2>2, <2>3, FS_Subset, Zenon
  <2> QED
    BY <2>1, <2>3, <2>4, ShorterKeepsSoftCap DEF IInv
<1>6. CASE Advance
  <2>1. Pushing' = Pushing /\ Len(queue') = Len(queue) - 1
    BY <1>1, <1>6, TailProperties DEF Advance, Pushing
  <2> QED
    BY <1>1, <2>1, ShorterKeepsSoftCap DEF IInv
<1>7. CASE UNCHANGED vars
  BY <1>1, <1>7, ShorterKeepsSoftCap DEF vars, Pushing, IInv
<1> QED
  BY <1>2, <1>3, <1>4, <1>5, <1>6, <1>7 DEF Next, RemoveRead, ReorderRead, RelayRead

\* The race between addEntry's check and its push lets the queue exceed its bound
\* by one entry per other call in flight, never by more.
THEOREM SoftCapHolds == Spec => []SoftCap
<1>1. Init => SoftCap
  <2> SUFFICES ASSUME Init PROVE SoftCap
    OBVIOUS
  <2>1. Pushing = {} /\ Len(queue) = 0
    BY DEF Init, Pushing
  <2>2. Cardinality(Pushing) = 0 /\ Cardinality(Clients) \in Nat
    BY <2>1, ClientsAssumption, FS_EmptySet, FS_CardinalityType
  <2> QED
    BY <2>1, <2>2, QueueMaxAssumption DEF SoftCap
<1>2. IInv /\ IInv' /\ SoftCap /\ [Next]_vars => SoftCap'
  BY NextKeepsSoftCap
<1> QED
  BY <1>1, <1>2, Invariance, PTL DEF Spec

-----------------------------------------------------------------------------
(* The driver implements the contract.                                     *)

\* Every step of the driver is a step of the contract, or no step of it.
LEMMA NextImplementsContract ==
  ASSUME IInv, [Next]_vars
  PROVE  [Contract!Next]_<<queue, Asked>>
<1>0. /\ queue \in Seq(Ids)
      /\ \A x \in Range(queue) : x \in Ids
      /\ \A c \in Clients : pc[c] = "idle" => Asked[c] = Contract!NoCall
      /\ \A c \in Clients : pc[c] = "push" => Asked[c] = Contract!AddCall(arg[c]) /\ arg[c] \in Ids
      /\ \A c \in Clients : pc[c] = "remove" => Asked[c] = Contract!RemoveCall(arg[c]) /\ arg[c] \in Ids
      /\ \A c \in Clients : pc[c] = "arrange" => Asked[c] = Contract!ArrangeCall
  BY DEF IInv, TypeOK, Range, Asked, Contract!NoCall, Contract!AddCall, Contract!RemoveCall,
         Contract!ArrangeCall
<1>1. ASSUME NEW c \in Clients, NEW id \in Ids, AddCheck(c, id)
      PROVE  Contract!Next
  <2>1. Asked' = [Asked EXCEPT ![c] = Contract!AddCall(id)]
    BY <1>1 DEF AddCheck, Goto, Asked, Contract!AddCall, IInv, TypeOK
  <2>2. Contract!AddCall(id) \in Contract!Calls
    BY DEF Contract!Calls
  <2>3. Contract!Ask(c, Contract!AddCall(id))
    BY <1>0, <1>1, <2>1 DEF AddCheck, Contract!Ask
  <2> QED
    BY <2>2, <2>3 DEF Contract!Next
<1>2. ASSUME NEW c \in Clients, Return(c)
      PROVE  Contract!Done(c)
  BY <1>2 DEF Return, Goto, Asked, Contract!Done, Contract!NoCall, IInv, TypeOK
<1>3. ASSUME NEW c \in Clients, AddPush(c)
      PROVE  Contract!Next
  <2>1. Contract!Add(c, arg[c]) /\ arg[c] \in Ids
    BY <1>0, <1>2, <1>3 DEF AddPush, Contract!Add
  <2> QED
    BY <2>1 DEF Contract!Next
<1>4. ASSUME NEW c \in Clients, NEW id \in Ids, RemoveRead(c, id)
      PROVE  Contract!Next
  <2>1. Asked' = [Asked EXCEPT ![c] = Contract!RemoveCall(id)]
    BY <1>4 DEF RemoveRead, Read, Goto, Asked, Contract!RemoveCall, IInv, TypeOK
  <2>2. Contract!RemoveCall(id) \in Contract!Calls
    BY DEF Contract!Calls
  <2>3. Contract!Ask(c, Contract!RemoveCall(id))
    BY <1>0, <1>4, <2>1 DEF RemoveRead, Read, Contract!Ask
  <2> QED
    BY <2>2, <2>3 DEF Contract!Next
<1>5. ASSUME NEW c \in Clients, NEW desired, Read(c, desired, "arrange"), UNCHANGED arg
      PROVE  Contract!Next
  <2>1. Asked' = [Asked EXCEPT ![c] = Contract!ArrangeCall]
    BY <1>5 DEF Read, Goto, Asked, Contract!ArrangeCall, IInv, TypeOK
  <2>2. Contract!ArrangeCall \in Contract!Calls
    BY DEF Contract!Calls
  <2>3. Contract!Ask(c, Contract!ArrangeCall)
    BY <1>0, <1>5, <2>1 DEF Read, Contract!Ask
  <2> QED
    BY <2>2, <2>3 DEF Contract!Next
<1>6. ASSUME NEW c \in Clients, Apply(c)
      PROVE  Contract!Next
  <2>1. /\ Return(c) /\ pc[c] \in {"remove", "arrange"}
        /\ queue' \in Seq(Ids) /\ IsInjective(queue')
        /\ Range(queue') = IF pc[c] = "remove" THEN Range(queue) \ {arg[c]} ELSE Range(queue)
    BY <1>6, ApplyMerges DEF Apply
  <2>2. \A S : Range(queue') = S => Contract!Arranges(queue', S)
    <3> SUFFICES Contract!Arranges(queue', Range(queue'))
      OBVIOUS
    <3> QED
      BY <2>1 DEF Contract!Arranges, Range, Contract!Range, IsInjective, Contract!IsInjective
  <2>3. CASE pc[c] = "remove"
    <3>1. Contract!Remove(c, arg[c]) /\ arg[c] \in Ids
      BY <1>0, <1>2, <2>1, <2>2, <2>3 DEF Contract!Remove, Range, Contract!Range
    <3> QED
      BY <3>1 DEF Contract!Next
  <2>4. CASE pc[c] = "arrange"
    <3>1. Contract!Rearrange(c)
      BY <1>0, <1>2, <2>1, <2>2, <2>4 DEF Contract!Rearrange, Range, Contract!Range
    <3> QED
      BY <3>1 DEF Contract!Next
  <2> QED
    BY <2>1, <2>3, <2>4
<1>7. CASE Advance
  <2>1. Contract!Advance
    BY <1>7 DEF Advance, Contract!Advance, Asked
  <2> QED
    BY <2>1 DEF Contract!Next
<1>8. CASE UNCHANGED vars
  BY <1>8 DEF vars, Asked
<1> QED
  BY <1>1, <1>3, <1>4, <1>5, <1>6, <1>7, <1>8 DEF Next, ReorderRead, RelayRead

\* The driver keeps the promise of lib/store/types.ts: although a read-modify-write
\* call is a read and a later script, and calls interleave, each takes effect in one
\* atomic step, no racing submission is lost and nothing that left comes back.
THEOREM Refinement == Spec => ImplementsContract
<1>1. Init => Contract!Init
  BY DEF Init, Contract!Init, Asked, Contract!NoCall
<1>2. IInv /\ [Next]_vars => [Contract!Next]_<<queue, Asked>>
  BY NextImplementsContract
<1> QED
  BY <1>1, <1>2, Invariance, PTL DEF Spec, ImplementsContract, Contract!Spec
-----------------------------------------------------------------------------
(* The driver in the process.                                              *)

\* MemoryStore and its contract speak of the same lists.
LEMMA SameLists ==
  /\ \A s : Memory!Range(s) = Range(s) /\ (Memory!IsInjective(s) <=> IsInjective(s))
  /\ \A s : /\ Memory!Contract!Range(s) = Range(s)
            /\ Memory!Contract!IsInjective(s) <=> IsInjective(s)
<1>1. \A s : Memory!Range(s) = Range(s) /\ (Memory!IsInjective(s) <=> IsInjective(s))
  BY DEF Memory!Range, Range, Memory!IsInjective, IsInjective
<1>2. \A s : /\ Memory!Contract!Range(s) = Range(s)
             /\ Memory!Contract!IsInjective(s) <=> IsInjective(s)
  BY DEF Memory!Contract!Range, Range, Memory!Contract!IsInjective, IsInjective
<1> QED
  BY <1>1, <1>2

\* What filtering does, in its words.
LEMMA MemoryKept ==
  ASSUME NEW S, NEW s \in Seq(S), NEW T
  PROVE  /\ Memory!Kept(s, T) \in Seq(S)
         /\ Range(Memory!Kept(s, T)) = Range(s) \cap T
         /\ IsInjective(s) => IsInjective(Memory!Kept(s, T))
<1>1. Memory!Kept(s, T) = Kept(s, T)
  BY DEF Memory!Kept, Kept, Memory!Cardinality, Cardinality
<1> QED
  BY <1>1, KeptProperties

LEMMA MemoryWithout ==
  ASSUME NEW S, NEW s \in Seq(S), NEW x
  PROVE  /\ Memory!Without(s, x) \in Seq(S)
         /\ Range(Memory!Without(s, x)) = Range(s) \ {x}
         /\ IsInjective(s) => IsInjective(Memory!Without(s, x))
<1>1. Range(s) \cap (Range(s) \ {x}) = Range(s) \ {x}
  OBVIOUS
<1> QED
  BY <1>1, MemoryKept, SameLists DEF Memory!Without

\* The calls are told apart, and they are the contract's.
LEMMA CallsDiffer ==
  /\ \A id \in Ids : Memory!Add(id) # Memory!NoCall /\ Memory!Add(id) # Memory!Arrange
  /\ \A id, jd \in Ids : /\ Memory!Add(id) # Memory!Remove(jd)
                         /\ Memory!Add(id) = Memory!Add(jd) => id = jd
  /\ \A id \in Ids : Memory!Remove(id) # Memory!NoCall /\ Memory!Remove(id) # Memory!Arrange
  /\ Memory!Arrange # Memory!NoCall
  /\ Memory!NoCall = Memory!Contract!NoCall /\ Memory!Arrange = Memory!Contract!ArrangeCall
  /\ \A id \in Ids : /\ Memory!Add(id) = Memory!Contract!AddCall(id)
                     /\ Memory!Remove(id) = Memory!Contract!RemoveCall(id)
  BY DEF Memory!Add, Memory!Remove, Memory!NoCall, Memory!Arrange, Memory!Contract!NoCall,
         Memory!Contract!ArrangeCall, Memory!Contract!AddCall, Memory!Contract!RemoveCall

MemoryCall == {Memory!NoCall, Memory!Arrange} \cup {Memory!Add(id) : id \in Ids}
                \cup {Memory!Remove(id) : id \in Ids}
MemoryPlan == [snapshot : Seq(Ids), desired : Seq(Ids)]

\* What a request in flight holds: a new entry is nowhere else, and a re-lay wants
\* an order of what it read.
NewIsNew(c) ==
  \A id \in Ids : call[c] = Memory!Add(id) =>
    id \notin Range(line) /\ \A d \in Clients : call[d] = Memory!Add(id) => d = c
WantsWhatItRead(c) ==
  plan[c] # Memory!NoPlan =>
    /\ call[c] = Memory!Arrange
    /\ IsInjective(plan[c].desired) /\ Range(plan[c].desired) = Range(plan[c].snapshot)

LineOK == line \in Seq(Ids) /\ IsInjective(line) /\ Len(line) <= QUEUE_MAX
MemoryInv ==
  /\ LineOK /\ call \in [Clients -> MemoryCall] /\ plan \in [Clients -> MemoryPlan]
  /\ \A c \in Clients : NewIsNew(c) /\ WantsWhatItRead(c)

\* A line of some of its entries, each once, is as good.
LEMMA NoLonger ==
  ASSUME LineOK, NEW s \in Seq(Ids), IsInjective(s), Range(s) \subseteq Range(line)
  PROVE  Len(s) <= QUEUE_MAX
<1>1. /\ IsFiniteSet(Range(line)) /\ Cardinality(Range(line)) = Len(line)
      /\ Cardinality(Range(s)) = Len(s) /\ line \in Seq(Ids) /\ Len(line) <= QUEUE_MAX
  BY InjectiveLen DEF LineOK
<1>2. Cardinality(Range(s)) <= Cardinality(Range(line))
  BY <1>1, FS_Subset, Zenon
<1>3. Len(s) \in Nat /\ Len(line) \in Nat
  BY <1>1
<1> QED
  BY <1>1, <1>2, <1>3, QueueMaxAssumption

\* A call that is made: the others keep what they hold.
LEMMA MemoryReturns ==
  ASSUME MemoryInv, NEW c \in Clients, Memory!Returns(c), LineOK',
         \A id \in Ids, d \in Clients :
            d # c /\ call[d] = Memory!Add(id) => id \notin Range(line')
  PROVE  MemoryInv' /\ Memory!Contract!Done(c)
<1>1. /\ call \in [Clients -> MemoryCall] /\ plan \in [Clients -> MemoryPlan]
      /\ \A e \in Clients : NewIsNew(e) /\ WantsWhatItRead(e)
      /\ call' = [call EXCEPT ![c] = Memory!NoCall] /\ plan' = [plan EXCEPT ![c] = Memory!NoPlan]
  BY DEF MemoryInv, Memory!Returns
<1>2. Memory!NoCall \in MemoryCall /\ Memory!NoPlan \in MemoryPlan
  BY DEF MemoryCall, MemoryPlan, Memory!NoPlan
<1>3. call' \in [Clients -> MemoryCall] /\ plan' \in [Clients -> MemoryPlan]
  BY <1>1, <1>2
<1>4. ASSUME NEW e \in Clients PROVE NewIsNew(e)' /\ WantsWhatItRead(e)'
  <2>1. CASE e = c
    <3>1. call'[e] = Memory!NoCall /\ plan'[e] = Memory!NoPlan
      BY <1>1, <2>1
    <3> QED
      BY <3>1, CallsDiffer DEF NewIsNew, WantsWhatItRead
  <2>2. CASE e # c
    <3>1. call'[e] = call[e] /\ plan'[e] = plan[e]
      BY <1>1, <2>2
    <3>2. \A d \in Clients, id \in Ids : call'[d] = Memory!Add(id) => call[d] = Memory!Add(id)
      BY <1>1, CallsDiffer
    <3>3. NewIsNew(e)'
      BY <1>1, <2>2, <3>1, <3>2 DEF NewIsNew
    <3> QED
      BY <1>1, <3>1, <3>3 DEF WantsWhatItRead
  <2> QED
    BY <2>1, <2>2
<1>5. Memory!Contract!Done(c)
  BY <1>1, CallsDiffer DEF Memory!Contract!Done
<1> QED
  BY <1>3, <1>4, <1>5 DEF MemoryInv

\* A step that is right: the invariant holds after it, and the contract allows it.
MemoryStep == MemoryInv' /\ [Memory!Contract!Next]_<<line, call>>

LEMMA RequestIsAsked ==
  ASSUME MemoryInv, NEW c \in Clients, NEW what \in MemoryCall \ {Memory!NoCall},
         Memory!Request(c, what)
  PROVE  MemoryStep
<1>1. /\ call \in [Clients -> MemoryCall] /\ plan \in [Clients -> MemoryPlan] /\ LineOK
      /\ \A e \in Clients : NewIsNew(e) /\ WantsWhatItRead(e)
      /\ call[c] = Memory!NoCall /\ call' = [call EXCEPT ![c] = what]
      /\ line' = line /\ plan' = plan
      /\ \A id \in Ids : what = Memory!Add(id) =>
           Memory!Range(line) = Range(line) /\ id \notin Range(line) /\ \A d \in Clients : call[d] # what
  BY SameLists DEF MemoryInv, Memory!Request
<1>2. MemoryInv'
  <2>1. call' \in [Clients -> MemoryCall] /\ plan' \in [Clients -> MemoryPlan] /\ LineOK'
    BY <1>1 DEF LineOK
  <2>2. ASSUME NEW e \in Clients PROVE NewIsNew(e)'
    <3>1. CASE e = c
      BY <1>1, <3>1 DEF NewIsNew
    <3>2. CASE e # c
      BY <1>1, <3>2 DEF NewIsNew
    <3> QED
      BY <3>1, <3>2
  <2>3. ASSUME NEW e \in Clients PROVE WantsWhatItRead(e)'
    <3>1. CASE e = c
      <4>1. plan[c] = Memory!NoPlan
        BY <1>1, CallsDiffer DEF WantsWhatItRead
      <4> QED
        BY <1>1, <3>1, <4>1 DEF WantsWhatItRead
    <3>2. CASE e # c
      BY <1>1, <3>2 DEF WantsWhatItRead
    <3> QED
      BY <3>1, <3>2
  <2> QED
    BY <2>1, <2>2, <2>3 DEF MemoryInv
<1>3. what \in Memory!Contract!Calls
  BY CallsDiffer DEF MemoryCall, Memory!Contract!Calls
<1>4. Memory!Contract!Ask(c, what)
  BY <1>1, CallsDiffer DEF Memory!Contract!Ask
<1> QED
  BY <1>2, <1>3, <1>4 DEF MemoryStep, Memory!Contract!Next

LEMMA AddIsAdded ==
  ASSUME MemoryInv, NEW c \in Clients, NEW id \in Ids, Memory!addEntry(c, id)
  PROVE  MemoryStep
<1>1. /\ call[c] = Memory!Add(id) /\ Memory!Returns(c)
      /\ line \in Seq(Ids) /\ Len(line) \in Nat /\ IsInjective(line) /\ Len(line) <= QUEUE_MAX
      /\ \A e \in Clients : NewIsNew(e)
      /\ line' = IF Len(line) >= QUEUE_MAX THEN line ELSE Append(line, id)
  BY DEF MemoryInv, LineOK, Memory!addEntry
<1>2. id \notin Range(line) /\ \A d \in Clients : call[d] = Memory!Add(id) => d = c
  BY <1>1 DEF NewIsNew
<1>3. CASE line' = line
  <2>1. LineOK'
    BY <1>1, <1>3 DEF LineOK
  <2>2. MemoryInv' /\ Memory!Contract!Done(c)
    BY <1>1, <1>3, <2>1, MemoryReturns DEF NewIsNew
  <2>3. Memory!Contract!Refuse(c, id)
    BY <1>1, <1>3, <2>2, CallsDiffer DEF Memory!Contract!Refuse
  <2> QED
    BY <2>2, <2>3 DEF MemoryStep, Memory!Contract!Next
<1>4. CASE line' = Append(line, id) /\ Len(line) < QUEUE_MAX
  <2>1. /\ line' \in Seq(Ids) /\ IsInjective(line') /\ Len(line') = Len(line) + 1
        /\ Range(line') = Range(line) \cup {id}
    BY <1>1, <1>2, <1>4, AppendProperties
  <2>2. LineOK'
    BY <1>1, <1>4, <2>1, QueueMaxAssumption DEF LineOK
  <2>3. \A jd \in Ids, d \in Clients : d # c /\ call[d] = Memory!Add(jd) => jd \notin Range(line')
    BY <1>1, <1>2, <2>1 DEF NewIsNew
  <2>4. MemoryInv' /\ Memory!Contract!Done(c)
    BY <1>1, <2>2, <2>3, MemoryReturns
  <2>5. Memory!Contract!Add(c, id)
    BY <1>1, <1>4, <2>4, CallsDiffer DEF Memory!Contract!Add
  <2> QED
    BY <2>4, <2>5 DEF MemoryStep, Memory!Contract!Next
<1> QED
  BY <1>1, <1>3, <1>4, QueueMaxAssumption

\* A call that leaves some of the line, each once, in any order.
LEMMA ShorterLine ==
  ASSUME MemoryInv, NEW c \in Clients, Memory!Returns(c),
         line' \in Seq(Ids), IsInjective(line'), Range(line') \subseteq Range(line)
  PROVE  /\ MemoryInv' /\ Memory!Contract!Done(c)
         /\ \A S : Range(line') = S => Memory!Contract!Arranges(line', S)
<1>1. LineOK /\ \A e \in Clients : NewIsNew(e)
  BY DEF MemoryInv
<1>2. LineOK'
  BY <1>1, NoLonger DEF LineOK
<1>3. MemoryInv' /\ Memory!Contract!Done(c)
  BY <1>1, <1>2, MemoryReturns DEF NewIsNew
<1>4. \A S : Range(line') = S => Memory!Contract!Arranges(line', S)
  <2>1. line' \in Seq(Range(line'))
    BY RangeOfList
  <2> QED
    BY <2>1, SameLists DEF Memory!Contract!Arranges
<1> QED
  BY <1>3, <1>4

LEMMA RemoveIsRemoved ==
  ASSUME MemoryInv, NEW c \in Clients, NEW id \in Ids, Memory!removeEntry(c, id)
  PROVE  MemoryStep
<1>1. /\ call[c] = Memory!Remove(id) /\ Memory!Returns(c) /\ line' = Memory!Without(line, id)
      /\ line \in Seq(Ids) /\ IsInjective(line)
  BY DEF MemoryInv, LineOK, Memory!removeEntry
<1>2. line' \in Seq(Ids) /\ IsInjective(line') /\ Range(line') = Range(line) \ {id}
  BY <1>1, MemoryWithout
<1>3. /\ MemoryInv' /\ Memory!Contract!Done(c)
      /\ Memory!Contract!Arranges(line', Range(line) \ {id})
  BY <1>1, <1>2, ShorterLine
<1>4. Memory!Contract!Remove(c, id)
  BY <1>1, <1>3, CallsDiffer, SameLists DEF Memory!Contract!Remove
<1> QED
  BY <1>3, <1>4 DEF MemoryStep, Memory!Contract!Next

\* A call that rearranges the line: nothing is lost, nothing comes back.
LEMMA Rearranged ==
  ASSUME MemoryInv, NEW c \in Clients, call[c] = Memory!Arrange, Memory!Returns(c),
         line' \in Seq(Ids), IsInjective(line'), Range(line') = Range(line)
  PROVE  MemoryStep
<1>1. MemoryInv' /\ Memory!Contract!Done(c) /\ Memory!Contract!Arranges(line', Range(line))
  BY ShorterLine
<1>2. Memory!Contract!Rearrange(c)
  BY <1>1, CallsDiffer, SameLists DEF Memory!Contract!Rearrange
<1> QED
  BY <1>1, <1>2 DEF MemoryStep, Memory!Contract!Next

LEMMA ReorderIsRearranged ==
  ASSUME MemoryInv, NEW c \in Clients, NEW id \in Ids, NEW newIndex \in (-1)..QUEUE_MAX,
         Memory!reorder(c, id, newIndex)
  PROVE  MemoryStep
<1> DEFINE rest == Memory!Without(line, id)
           last == Len(line) - 1
           k == IF newIndex < 0 THEN 0 ELSE IF newIndex > last THEN last ELSE newIndex
<1>1. /\ call[c] = Memory!Arrange /\ Memory!Returns(c)
      /\ line \in Seq(Ids) /\ IsInjective(line)
      /\ line' = IF id \notin Memory!Range(line) THEN line
                 ELSE SubSeq(rest, 1, k) \o <<id>> \o SubSeq(rest, k + 1, Len(rest))
  BY DEF MemoryInv, LineOK, Memory!reorder
<1>2. CASE id \notin Range(line)
  <2>1. line' = line
    BY <1>1, <1>2, SameLists
  <2> QED
    BY <1>1, <2>1, Rearranged
<1>3. CASE id \in Range(line)
  <2>1. rest \in Seq(Ids) /\ IsInjective(rest) /\ Range(rest) = Range(line) \ {id}
    BY <1>1, MemoryWithout
  <2>2. line' = SubSeq(rest, 1, k) \o <<id>> \o SubSeq(rest, k + 1, Len(rest))
    BY <1>1, <1>3, SameLists
  <2> HIDE DEF rest
  <2>3. Len(rest) = Len(line) - 1
    BY <1>1, <1>3, <2>1, OneFewer
  <2>4. k \in 0..Len(rest)
    <3>1. Len(rest) \in Nat /\ newIndex \in Int /\ Len(line) \in Nat
      BY <1>1, <2>1, QueueMaxAssumption
    <3> QED
      BY <2>3, <3>1
  <2> HIDE DEF k
  <2>5. line' \in Seq(Ids) /\ Range(line') = Range(rest) \cup {id} /\ IsInjective(line')
    BY <2>1, <2>2, <2>4, PutBack
  <2>6. Range(line') = Range(line)
    BY <1>3, <2>1, <2>5
  <2> QED
    BY <1>1, <2>5, <2>6, Rearranged
<1> QED
  BY <1>2, <1>3

LEMMA ReadIsRemembered ==
  ASSUME MemoryInv, NEW c \in Clients, Memory!getQueue(c)
  PROVE  MemoryStep
<1>1. PICK desired \in Memory!Arrangements(line) :
        plan' = [plan EXCEPT ![c] = [snapshot |-> line, desired |-> desired]]
  BY DEF Memory!getQueue
<1> DEFINE p == [snapshot |-> line, desired |-> desired]
<1>2. /\ call \in [Clients -> MemoryCall] /\ plan \in [Clients -> MemoryPlan] /\ LineOK
      /\ \A e \in Clients : NewIsNew(e) /\ WantsWhatItRead(e)
      /\ call[c] = Memory!Arrange /\ call' = call /\ line' = line
  BY DEF MemoryInv, Memory!getQueue
<1>3. desired \in Seq(Ids) /\ IsInjective(desired) /\ Range(desired) = Range(line)
  <2>1. /\ desired \in [1..Len(line) -> Range(line)]
        /\ IsInjective(desired) /\ Range(desired) = Range(line)
    BY SameLists DEF Memory!Arrangements
  <2>2. line \in Seq(Ids) /\ Len(line) \in Nat /\ Range(line) \subseteq Ids
    BY <1>2, RangeOfList DEF LineOK
  <2> QED
    BY <2>1, <2>2
<1>4. p \in MemoryPlan /\ p.snapshot = line /\ p.desired = desired
  BY <1>2, <1>3 DEF MemoryPlan, LineOK
<1> HIDE DEF p
<1>5. plan' = [plan EXCEPT ![c] = p]
  BY <1>1 DEF p
<1>6. LineOK' /\ call' \in [Clients -> MemoryCall] /\ plan' \in [Clients -> MemoryPlan]
  BY <1>2, <1>4, <1>5 DEF LineOK
<1>7. ASSUME NEW e \in Clients PROVE NewIsNew(e)' /\ WantsWhatItRead(e)'
  <2>1. NewIsNew(e)'
    BY <1>2 DEF NewIsNew
  <2>2. CASE e = c
    BY <1>2, <1>3, <1>4, <1>5, <2>1, <2>2 DEF WantsWhatItRead
  <2>3. CASE e # c
    BY <1>2, <1>5, <2>1, <2>3 DEF WantsWhatItRead
  <2> QED
    BY <2>2, <2>3
<1> QED
  BY <1>2, <1>6, <1>7 DEF MemoryStep, MemoryInv

LEMMA RewriteIsRearranged ==
  ASSUME MemoryInv, NEW c \in Clients, Memory!rewrite(c)
  PROVE  MemoryStep
<1> DEFINE desired == plan[c].desired
           old == plan[c].snapshot
           a == Memory!Kept(desired, Range(line))
           b == Memory!Kept(line, Range(line) \ Range(old))
<1>1. /\ plan[c] # Memory!NoPlan /\ Memory!Returns(c) /\ WantsWhatItRead(c)
      /\ line \in Seq(Ids) /\ IsInjective(line) /\ plan[c] \in MemoryPlan
      /\ line' = Memory!Merged(plan[c])
  BY DEF MemoryInv, LineOK, Memory!rewrite
<1>2. /\ call[c] = Memory!Arrange /\ desired \in Seq(Ids) /\ IsInjective(desired)
      /\ Range(desired) = Range(old)
  BY <1>1 DEF WantsWhatItRead, MemoryPlan
<1>3. line' = a \o b
  BY <1>1, SameLists DEF Memory!Merged
<1> HIDE DEF desired, old
<1>4. /\ a \in Seq(Ids) /\ IsInjective(a) /\ Range(a) = Range(desired) \cap Range(line)
  BY <1>2, MemoryKept
<1>5. /\ b \in Seq(Ids) /\ IsInjective(b)
      /\ Range(b) = Range(line) \cap (Range(line) \ Range(old))
  BY <1>1, MemoryKept
<1> HIDE DEF a, b
<1>6. Range(a) \cap Range(b) = {} /\ Range(a) \cup Range(b) = Range(line)
  BY <1>2, <1>4, <1>5
<1>7. a \o b \in Seq(Ids) /\ IsInjective(a \o b) /\ Range(a \o b) = Range(a) \cup Range(b)
  BY <1>4, <1>5, <1>6, ConcatProperties
<1>8. line' \in Seq(Ids) /\ IsInjective(line') /\ Range(line') = Range(line)
  BY <1>3, <1>6, <1>7
<1> QED
  BY <1>1, <1>2, <1>8, Rearranged

LEMMA AdvanceDropsTheHead ==
  ASSUME MemoryInv, Memory!advance
  PROVE  MemoryStep
<1>1. /\ call \in [Clients -> MemoryCall] /\ plan \in [Clients -> MemoryPlan] /\ LineOK
      /\ \A e \in Clients : NewIsNew(e) /\ WantsWhatItRead(e)
      /\ line # <<>> /\ line' = Tail(line) /\ call' = call /\ plan' = plan
  BY DEF MemoryInv, Memory!advance
<1>2. line' \in Seq(Ids) /\ IsInjective(line') /\ Range(line') \subseteq Range(line)
  BY <1>1, TailProperties DEF LineOK
<1>3. LineOK'
  BY <1>1, <1>2, NoLonger DEF LineOK
<1>4. \A e \in Clients : NewIsNew(e)' /\ WantsWhatItRead(e)'
  BY <1>1, <1>2 DEF NewIsNew, WantsWhatItRead
<1>5. Memory!Contract!Advance
  BY <1>1 DEF Memory!Contract!Advance
<1> QED
  BY <1>1, <1>3, <1>4, <1>5 DEF MemoryStep, MemoryInv, Memory!Contract!Next

\* Every step of the driver keeps the invariant and is a step of the contract, or none.
LEMMA MemoryNextSteps ==
  ASSUME MemoryInv, [Memory!Next]_memoryVars
  PROVE  MemoryStep
<1>1. CASE UNCHANGED <<line, call, plan>>
  BY <1>1 DEF MemoryStep, MemoryInv, LineOK, NewIsNew, WantsWhatItRead
<1>2. CASE UNCHANGED memoryVars
  BY <1>1, <1>2 DEF memoryVars
<1>3. CASE Memory!setPaused
  BY <1>1, <1>3 DEF Memory!setPaused
<1>4. ASSUME NEW id \in Ids
      PROVE  /\ Memory!Add(id) \in MemoryCall \ {Memory!NoCall}
             /\ Memory!Remove(id) \in MemoryCall \ {Memory!NoCall}
             /\ Memory!Arrange \in MemoryCall \ {Memory!NoCall}
  BY CallsDiffer DEF MemoryCall
<1>5. Memory!Arrange \in MemoryCall \ {Memory!NoCall}
  BY CallsDiffer DEF MemoryCall
<1> QED
  BY <1>2, <1>3, <1>4, <1>5, RequestIsAsked, AddIsAdded, RemoveIsRemoved, ReorderIsRearranged,
     ReadIsRemembered, RewriteIsRearranged, AdvanceDropsTheHead DEF Memory!Next

\* The driver in the process keeps the same promise as the Redis one, and its queue
\* never exceeds its bound, whatever requests interleave (memory.ts:41, :74).
THEOREM MemoryKeeps == StoresSpec => MemoryKeepsTheContract
<1>1. StoresInit => MemoryInv /\ Memory!Contract!Init
  <2> SUFFICES ASSUME StoresInit PROVE MemoryInv /\ Memory!Contract!Init
    OBVIOUS
  <2>1. /\ line = <<>> /\ call = [c \in Clients |-> Memory!NoCall]
        /\ plan = [c \in Clients |-> Memory!NoPlan]
    BY DEF StoresInit, Memory!Init
  <2>2. LineOK
    BY <2>1, QueueMaxAssumption DEF LineOK, IsInjective
  <2>3. Memory!NoCall \in MemoryCall /\ Memory!NoPlan \in MemoryPlan
    BY DEF MemoryCall, MemoryPlan, Memory!NoPlan
  <2>4. call \in [Clients -> MemoryCall] /\ plan \in [Clients -> MemoryPlan]
    BY <2>1, <2>3
  <2>5. \A c \in Clients : NewIsNew(c) /\ WantsWhatItRead(c)
    BY <2>1, CallsDiffer DEF NewIsNew, WantsWhatItRead
  <2>6. Memory!Contract!Init
    BY <2>1, CallsDiffer DEF Memory!Contract!Init
  <2> QED
    BY <2>2, <2>4, <2>5, <2>6 DEF MemoryInv
<1>2. [StoresNext]_storesVars => [Memory!Next]_memoryVars
  BY DEF StoresNext, Alone, storesVars
<1>3. MemoryInv /\ [Memory!Next]_memoryVars
        => MemoryInv' /\ [Memory!Contract!Next]_<<line, call>>
  BY MemoryNextSteps DEF MemoryStep
<1>4. MemoryInv => (part = "memory" => Memory!HardCap)
  BY DEF MemoryInv, LineOK, Memory!HardCap
<1> QED
  BY <1>1, <1>2, <1>3, <1>4, PTL
     DEF StoresSpec, MemoryKeepsTheContract, Memory!ImplementsContract, Memory!Contract!Spec
-----------------------------------------------------------------------------
(* The rooms a device remembers: at most one entry for each, and at most   *)
(* one probe of each is under way.                                         *)

SavedRoom == [id : Rooms, role : Saved!Roles]
Answer == [at : Nat, ok : BOOLEAN]
OncePerRoom(list) == \A r, s \in Range(list) : r.id = s.id => r = s

SavedInv ==
  /\ saved \in Seq(SavedRoom) /\ OncePerRoom(saved)
  /\ answers \in Nat
  /\ hosts \in [Rooms -> Answer] /\ \A id \in Rooms : hosts[id].at <= answers
  /\ hostProbes \subseteq [id : Rooms, answer : Answer]
  /\ \A p, q \in hostProbes : p.id = q.id => p = q
  /\ \A p \in hostProbes : p.answer # Saved!NoAnswer => hosts[p.id].at <= p.answer.at
  /\ \A p \in hostProbes : p.answer.at <= answers

\* What filtering does, in its words.
LEMMA SavedKept ==
  ASSUME NEW S, NEW s \in Seq(S), NEW T
  PROVE  Saved!Kept(s, T) \in Seq(S) /\ Range(Saved!Kept(s, T)) = Range(s) \cap T
<1>1. Saved!Kept(s, T) = Kept(s, T)
  BY DEF Saved!Kept, Kept, Saved!Cardinality, Cardinality
<1> QED
  BY <1>1, KeptProperties

LEMMA WithoutRoomProperties ==
  ASSUME NEW list \in Seq(SavedRoom), NEW id
  PROVE  /\ Saved!WithoutRoom(list, id) \in Seq(SavedRoom)
         /\ Range(Saved!WithoutRoom(list, id)) = {r \in Range(list) : r.id # id}
<1> DEFINE T == {r \in Range(list) : r.id # id}
<1>1. Saved!WithoutRoom(list, id) = Saved!Kept(list, T)
  BY DEF Saved!WithoutRoom, Saved!Range, Range
<1>2. Range(list) \cap T = T
  OBVIOUS
<1> QED
  BY <1>1, <1>2, SavedKept

\* A room touched goes to the front, as one's own if it was before.
LEMMA UpsertProperties ==
  ASSUME NEW list \in Seq(SavedRoom), OncePerRoom(list), NEW id \in Rooms,
         NEW role \in Saved!Roles, NEW after, after = Saved!Upsert(list, id, role)
  PROVE  /\ after \in Seq(SavedRoom) /\ OncePerRoom(after)
         /\ \A r \in Range(after) : r.id # id => r \in Range(list)
         /\ \A r \in Range(after) : r.id = id /\ Saved!CreatedHere(list, id) => r.role = "created"
<1> DEFINE merged == IF Saved!CreatedHere(list, id) THEN "created" ELSE role
           one == <<Saved!Saved(id, merged)>>
           rest == Saved!WithoutRoom(list, id)
           n == Saved!Least(Len(one \o rest), MAX_ROOMS)
<1>1. merged \in Saved!Roles
  BY DEF Saved!Roles
<1>2. one \in Seq(SavedRoom) /\ Range(one) = {Saved!Saved(id, merged)}
  BY <1>1 DEF SavedRoom, Saved!Saved, Range
<1>3. rest \in Seq(SavedRoom) /\ Range(rest) = {r \in Range(list) : r.id # id}
  BY WithoutRoomProperties
<1>4. after = SubSeq(one \o rest, 1, n)
  BY DEF Saved!Upsert
<1> HIDE DEF one, rest
<1>5. one \o rest \in Seq(SavedRoom) /\ Range(one \o rest) = Range(one) \cup Range(rest)
  BY <1>2, <1>3, ConcatProperties
<1>6. n \in Nat /\ n <= Len(one \o rest)
  BY <1>5, SavedAssumption DEF Saved!Least, Saved!RoomMemoryAssumption
<1> HIDE DEF n
<1>7. after \in Seq(SavedRoom) /\ Range(after) \subseteq Range(one \o rest)
  <2>1. PICK whole : whole = one \o rest /\ whole \in Seq(SavedRoom)
    BY <1>5
  <2>2. n \in 0..Len(whole) /\ after = SubSeq(whole, 1, n)
    BY <1>4, <1>6, <2>1
  <2> DEFINE first == SubSeq(whole, 1, n)
             others == SubSeq(whole, n + 1, Len(whole))
  <2>3. first \in Seq(SavedRoom) /\ Range(first) \cup Range(others) = Range(whole)
    BY <2>1, <2>2, SubSeqProperties
  <2> QED
    BY <2>1, <2>2, <2>3
<1>8. \A r \in Range(after) : r = Saved!Saved(id, merged) \/ (r \in Range(list) /\ r.id # id)
  BY <1>2, <1>3, <1>5, <1>7
<1>9. OncePerRoom(after)
  BY <1>8 DEF OncePerRoom, Saved!Saved
<1> QED
  BY <1>7, <1>8, <1>9 DEF Saved!Saved

\* A list shown anew starts one probe for each room it probes.
LEMMA ShowStartsAfresh ==
  ASSUME NEW list \in Seq(SavedRoom), Saved!Show(list)
  PROVE  /\ hostProbes' \subseteq [id : Rooms, answer : Answer]
         /\ \A p \in hostProbes' : p.answer = Saved!NoAnswer
         /\ \A p, q \in hostProbes' : p.id = q.id => p = q
<1>1. Saved!RoomsToProbe(list) \subseteq Rooms
  <2> DEFINE own == Saved!Kept(list, {r \in Saved!Range(list) : r.role = "created"})
             n == Saved!Least(Len(own), MAX_HOST_PROBES)
  <2>1. own \in Seq(SavedRoom)
    BY SavedKept
  <2>2. n \in Nat /\ n <= Len(own)
    BY <2>1, SavedAssumption DEF Saved!Least, Saved!RoomMemoryAssumption
  <2>3. Saved!RoomsToProbe(list) = {own[i].id : i \in 1 .. n}
    BY DEF Saved!RoomsToProbe
  <2> HIDE DEF own, n
  <2>4. \A i \in 1..n : own[i] \in SavedRoom
    BY <2>1, <2>2
  <2> QED
    BY <2>3, <2>4 DEF SavedRoom
<1>2. \A p \in hostProbes' : \E id \in Rooms : p = Saved!Probe(id)
  BY <1>1 DEF Saved!Show
<1>3. Saved!NoAnswer \in Answer
  BY DEF Answer, Saved!NoAnswer
<1> QED
  BY <1>2, <1>3 DEF Saved!Probe

\* Every step of the pages keeps the invariant, the roles and the newest answers.
SavedStep ==
  /\ SavedInv'
  /\ \A id \in Rooms : Saved!CreatedHere(saved, id) =>
       \A i \in DOMAIN saved' : saved'[i].id = id => saved'[i].role = "created"
  /\ \A id \in Rooms : hosts'[id].at >= hosts[id].at \/ rooms = <<>>

\* Nothing is touched in the list.
LEMMA ListStays ==
  ASSUME SavedInv, saved' = saved
  PROVE  /\ saved' \in Seq(SavedRoom) /\ OncePerRoom(saved)'
         /\ \A id \in Rooms : Saved!CreatedHere(saved, id) =>
              \A i \in DOMAIN saved' : saved'[i].id = id => saved'[i].role = "created"
<1>1. saved \in Seq(SavedRoom) /\ OncePerRoom(saved)
  BY DEF SavedInv
<1>2. \A r, s \in Range(saved) : r.id = s.id => r = s
  BY <1>1 DEF OncePerRoom
<1> SUFFICES ASSUME NEW id \in Rooms, Saved!CreatedHere(saved, id),
                    NEW i \in DOMAIN saved', saved'[i].id = id
             PROVE  saved'[i].role = "created"
  BY <1>1 DEF OncePerRoom
<1>3. PICK j \in DOMAIN saved : saved[j] = Saved!Saved(id, "created")
  BY DEF Saved!CreatedHere
<1>4. saved[i] \in Range(saved) /\ saved[j] \in Range(saved) /\ saved[j].id = id
      /\ saved[j].role = "created"
  BY <1>3 DEF Range, Saved!Saved
<1>5. saved[i] = saved[j]
  BY <1>2, <1>4
<1> QED
  BY <1>4, <1>5

\* A visit or a creation puts its room in front.
LEMMA TouchIsSound ==
  ASSUME SavedInv, NEW id \in Rooms, NEW role \in Saved!Roles,
         saved' = Saved!Upsert(saved, id, role), UNCHANGED <<hosts, hostProbes, answers>>
  PROVE  SavedStep
<1>1. saved \in Seq(SavedRoom) /\ OncePerRoom(saved)
  BY DEF SavedInv
<1>2. PICK after : after = Saved!Upsert(saved, id, role)
  OBVIOUS
<1>3. /\ after \in Seq(SavedRoom) /\ OncePerRoom(after)
      /\ \A r \in Range(after) : r.id # id => r \in Range(saved)
      /\ \A r \in Range(after) : r.id = id /\ Saved!CreatedHere(saved, id) => r.role = "created"
  BY <1>1, <1>2, UpsertProperties
<1>4. saved' = after
  BY <1>2
<1>5. \A x \in Rooms : Saved!CreatedHere(saved, x) =>
        \A i \in DOMAIN after : after[i].id = x => after[i].role = "created"
  <2> SUFFICES ASSUME NEW x \in Rooms, Saved!CreatedHere(saved, x),
                      NEW i \in DOMAIN after, after[i].id = x
               PROVE  after[i].role = "created"
    OBVIOUS
  <2>1. after[i] \in Range(after)
    BY DEF Range
  <2>2. CASE x = id
    BY <1>3, <2>1, <2>2
  <2>3. CASE x # id
    <3>1. after[i] \in Range(saved)
      BY <1>3, <2>1, <2>3
    <3>2. PICK j \in DOMAIN saved : saved[j] = Saved!Saved(x, "created")
      BY DEF Saved!CreatedHere
    <3>3. saved[j] \in Range(saved) /\ saved[j].id = x /\ saved[j].role = "created"
      BY <3>2 DEF Range, Saved!Saved
    <3>4. after[i] = saved[j]
      BY <1>1, <3>1, <3>3 DEF OncePerRoom
    <3> QED
      BY <3>3, <3>4
  <2> QED
    BY <2>2, <2>3
<1>6. SavedInv'
  BY <1>3, <1>4 DEF SavedInv, OncePerRoom
<1>7. \A x \in Rooms : hosts'[x].at >= hosts[x].at
  BY DEF SavedInv, Answer
<1> QED
  BY <1>4, <1>5, <1>6, <1>7 DEF SavedStep

LEMMA ForgetIsSound ==
  ASSUME SavedInv, NEW id \in Rooms, Saved!Forget(id)
  PROVE  SavedStep
<1>1. saved \in Seq(SavedRoom) /\ OncePerRoom(saved)
  BY DEF SavedInv
<1>2. /\ saved' = Saved!WithoutRoom(saved, id) /\ Saved!Show(saved')
      /\ UNCHANGED <<hosts, session, answers>>
  BY DEF Saved!Forget
<1>3. saved' \in Seq(SavedRoom) /\ Range(saved') \subseteq Range(saved)
  BY <1>1, <1>2, WithoutRoomProperties
<1>4. \A x \in Rooms : Saved!CreatedHere(saved, x) =>
        \A i \in DOMAIN saved' : saved'[i].id = x => saved'[i].role = "created"
  <2> SUFFICES ASSUME NEW x \in Rooms, Saved!CreatedHere(saved, x),
                      NEW i \in DOMAIN saved', saved'[i].id = x
               PROVE  saved'[i].role = "created"
    OBVIOUS
  <2>1. saved'[i] \in Range(saved)
    BY <1>3 DEF Range
  <2>2. PICK j \in DOMAIN saved : saved[j] = Saved!Saved(x, "created")
    BY DEF Saved!CreatedHere
  <2>3. saved[j] \in Range(saved) /\ saved[j].id = x /\ saved[j].role = "created"
    BY <2>2 DEF Range, Saved!Saved
  <2>4. saved'[i] = saved[j]
    BY <1>1, <2>1, <2>3 DEF OncePerRoom
  <2> QED
    BY <2>3, <2>4
<1>5. /\ hostProbes' \subseteq [id : Rooms, answer : Answer]
      /\ \A p \in hostProbes' : p.answer = Saved!NoAnswer
      /\ \A p, q \in hostProbes' : p.id = q.id => p = q
  BY <1>2, <1>3, ShowStartsAfresh
<1>6. SavedInv'
  BY <1>1, <1>2, <1>3, <1>5 DEF SavedInv, OncePerRoom, Saved!NoAnswer
<1>7. \A x \in Rooms : hosts'[x].at >= hosts[x].at
  BY <1>2 DEF SavedInv, Answer
<1> QED
  BY <1>4, <1>6, <1>7 DEF SavedStep

LEMMA LoadIsSound ==
  ASSUME SavedInv, Saved!Load
  PROVE  SavedStep
<1>1. /\ saved' = saved /\ Saved!Show(saved) /\ answers' = answers /\ rooms = <<>>
      /\ hosts' = [id \in Rooms |-> Saved!NoAnswer]
  BY DEF Saved!Load
<1>2. saved \in Seq(SavedRoom)
  BY DEF SavedInv
<1>3. /\ hostProbes' \subseteq [id : Rooms, answer : Answer]
      /\ \A p \in hostProbes' : p.answer = Saved!NoAnswer
      /\ \A p, q \in hostProbes' : p.id = q.id => p = q
  BY <1>1, <1>2, ShowStartsAfresh
<1>4. Saved!NoAnswer \in Answer /\ Saved!NoAnswer.at = 0
  BY DEF Saved!NoAnswer, Answer
<1>5. SavedInv'
  BY <1>1, <1>3, <1>4, ListStays DEF SavedInv
<1> QED
  BY <1>1, <1>5, ListStays DEF SavedStep

\* A probe under way is answered, or ends with an answer no older than its room's.
LEMMA ServeIsSound ==
  ASSUME SavedInv, NEW p \in hostProbes, Saved!ServeProbe(p)
  PROVE  SavedStep
<1>1. /\ p.answer = Saved!NoAnswer /\ answers' = answers + 1 /\ UNCHANGED <<saved, rooms, hosts>>
  BY DEF Saved!ServeProbe
<1>2. PICK new : /\ new = [p EXCEPT !.answer = [at |-> answers + 1, ok |-> p.id \in session]]
                 /\ hostProbes' = (hostProbes \ {p}) \cup {new}
  BY <1>1 DEF Saved!ServeProbe
<1>3. answers \in Nat /\ p \in [id : Rooms, answer : Answer]
  BY DEF SavedInv
<1>4. [at |-> answers + 1, ok |-> p.id \in session] \in Answer
  BY <1>3 DEF Answer
<1>5. /\ new \in [id : Rooms, answer : Answer] /\ new.id = p.id
      /\ new.answer.at = answers + 1
  BY <1>2, <1>3, <1>4
<1>6. \A q \in hostProbes' : q = new \/ (q \in hostProbes /\ q.id # p.id)
  BY <1>2, <1>3 DEF SavedInv
<1>7. /\ hostProbes' \subseteq [id : Rooms, answer : Answer]
      /\ \A q, r \in hostProbes' : q.id = r.id => q = r
  BY <1>2, <1>5, <1>6 DEF SavedInv
<1>8. /\ \A id \in Rooms : hosts'[id].at <= answers' /\ hosts'[id].at >= hosts[id].at
      /\ hosts' \in [Rooms -> Answer] /\ answers' \in Nat
  BY <1>1, <1>3 DEF SavedInv, Answer
<1>9. \A q \in hostProbes' : /\ q.answer # Saved!NoAnswer => hosts'[q.id].at <= q.answer.at
                             /\ q.answer.at <= answers'
  <2> SUFFICES ASSUME NEW q \in hostProbes'
               PROVE  /\ q.answer # Saved!NoAnswer => hosts'[q.id].at <= q.answer.at
                      /\ q.answer.at <= answers'
    OBVIOUS
  <2>1. CASE q = new
    BY <1>1, <1>5, <1>8, <2>1
  <2>2. CASE q \in hostProbes
    <3>1. q.answer.at \in Nat /\ q.answer.at <= answers
      BY <2>2 DEF SavedInv, Answer
    <3> QED
      BY <1>1, <1>3, <2>2, <3>1 DEF SavedInv
  <2> QED
    BY <1>6, <2>1, <2>2
<1>10. SavedInv'
  BY <1>1, <1>7, <1>8, <1>9, ListStays DEF SavedInv
<1> QED
  BY <1>1, <1>8, <1>10, ListStays DEF SavedStep

LEMMA ProbeEndIsSound ==
  ASSUME SavedInv, NEW p \in hostProbes, NEW a \in Answer, a.at >= hosts[p.id].at, a.at <= answers,
         hostProbes' = hostProbes \ {p}, hosts' = [hosts EXCEPT ![p.id] = a],
         UNCHANGED <<saved, rooms, answers>>
  PROVE  SavedStep
<1>1. answers \in Nat /\ hosts \in [Rooms -> Answer] /\ p.id \in Rooms
  BY DEF SavedInv
<1>2. hosts' \in [Rooms -> Answer] /\ hosts'[p.id] = a
      /\ \A id \in Rooms : id # p.id => hosts'[id] = hosts[id]
  BY <1>1
<1>3. \A id \in Rooms : hosts'[id].at >= hosts[id].at /\ hosts'[id].at <= answers'
  BY <1>1, <1>2 DEF SavedInv, Answer
<1>4. \A q \in hostProbes' : q \in hostProbes /\ q.id # p.id /\ q.id \in Rooms
  BY DEF SavedInv
<1>5. \A q \in hostProbes' : /\ q.answer # Saved!NoAnswer => hosts'[q.id].at <= q.answer.at
                             /\ q.answer.at <= answers'
  BY <1>2, <1>4 DEF SavedInv
<1>6. SavedInv'
  BY <1>1, <1>2, <1>3, <1>4, <1>5, ListStays DEF SavedInv
<1> QED
  BY <1>3, <1>6, ListStays DEF SavedStep

LEMMA SavedSteps ==
  ASSUME SavedInv, [Saved!Next]_savedVars
  PROVE  SavedStep
<1>1. answers \in Nat /\ hosts \in [Rooms -> Answer]
  BY DEF SavedInv
<1>2. ASSUME UNCHANGED <<saved, hosts, answers>>, hostProbes' = hostProbes \/ hostProbes' = {}
      PROVE  SavedStep
  <2>1. SavedInv'
    BY <1>2, ListStays DEF SavedInv
  <2>2. \A id \in Rooms : hosts'[id].at >= hosts[id].at
    BY <1>1, <1>2 DEF Answer
  <2> QED
    BY <1>2, <2>1, <2>2, ListStays DEF SavedStep
<1>3. CASE UNCHANGED savedVars
  BY <1>2, <1>3 DEF savedVars
<1>4. ASSUME NEW id \in Rooms, Saved!RememberCreated(id) \/ Saved!RememberJoined(id)
      PROVE  SavedStep
  <2>1. /\ UNCHANGED <<hosts, hostProbes, answers>>
        /\ \E role \in Saved!Roles : saved' = Saved!Upsert(saved, id, role)
    BY <1>4 DEF Saved!RememberCreated, Saved!RememberJoined, Saved!Roles
  <2> QED
    BY <2>1, TouchIsSound
<1>5. ASSUME NEW id \in Rooms, Saved!SignIn(id) \/ Saved!SessionEnds(id)
      PROVE  SavedStep
  BY <1>2, <1>5 DEF Saved!SignIn, Saved!SessionEnds
<1>6. CASE Saved!Leave
  BY <1>2, <1>6 DEF Saved!Leave
<1>7. ASSUME NEW p \in hostProbes, Saved!ProbeLands(p)
      PROVE  SavedStep
  <2>1. /\ p.answer \in Answer /\ p.answer.at >= hosts[p.id].at /\ p.answer.at <= answers
    <3>1. p.answer \in Answer /\ p.answer # Saved!NoAnswer /\ hosts[p.id] \in Answer
      BY <1>7 DEF SavedInv, Saved!ProbeLands
    <3> QED
      BY <3>1 DEF SavedInv, Answer
  <2> QED
    BY <1>7, <2>1, ProbeEndIsSound DEF Saved!ProbeLands
<1>8. ASSUME NEW p \in hostProbes, Saved!ProbeFails(p)
      PROVE  SavedStep
  <2>1. PICK a : a = [at |-> IF p.answer = Saved!NoAnswer THEN answers ELSE p.answer.at, ok |-> FALSE]
    OBVIOUS
  <2>2. p.answer \in Answer /\ hosts[p.id] \in Answer /\ hosts[p.id].at <= answers
    BY DEF SavedInv
  <2>3. a \in Answer /\ a.at >= hosts[p.id].at /\ a.at <= answers
    <3>1. CASE p.answer = Saved!NoAnswer
      BY <1>1, <2>1, <2>2, <3>1 DEF Answer
    <3>2. CASE p.answer # Saved!NoAnswer
      BY <1>1, <2>1, <2>2, <3>2 DEF SavedInv, Answer
    <3> QED
      BY <3>1, <3>2
  <2>4. /\ hostProbes' = hostProbes \ {p} /\ hosts' = [hosts EXCEPT ![p.id] = a]
        /\ UNCHANGED <<saved, rooms, answers>>
    BY <1>8, <2>1 DEF Saved!ProbeFails
  <2> QED
    BY <2>3, <2>4, ProbeEndIsSound
<1> QED
  BY <1>3, <1>4, <1>5, <1>6, <1>7, <1>8, ForgetIsSound, LoadIsSound, ServeIsSound DEF Saved!Next

\* A room the device created stays its own on the list, whatever it joins, and its
\* admin link follows the newest answer about the host's session, in whatever order
\* the answers of the probes arrive (room-memory.ts:214, SavedRooms.tsx:58).
THEOREM RoomsStayRemembered == StoresSpec => RoomsAreRemembered
<1>1. StoresInit => SavedInv
  <2> SUFFICES ASSUME StoresInit PROVE SavedInv
    OBVIOUS
  <2>1. /\ saved = <<>> /\ answers = 0 /\ hosts = [id \in Rooms |-> Saved!NoAnswer]
        /\ hostProbes = {}
    BY DEF StoresInit, Saved!Init
  <2>2. Saved!NoAnswer \in Answer /\ Saved!NoAnswer.at = 0
    BY DEF Saved!NoAnswer, Answer
  <2>3. saved \in Seq(SavedRoom) /\ OncePerRoom(saved)
    BY <2>1 DEF OncePerRoom, Range
  <2> QED
    BY <2>1, <2>2, <2>3 DEF SavedInv
<1>2. [StoresNext]_storesVars => [Saved!Next]_savedVars
  BY DEF StoresNext, Alone, storesVars
<1>3. SavedInv /\ [Saved!Next]_savedVars
        => /\ SavedInv'
           /\ [\A id \in Rooms : Saved!CreatedHere(saved, id) =>
                 \A i \in DOMAIN saved' : saved'[i].id = id => saved'[i].role = "created"]_(Saved!vars)
           /\ [\A id \in Rooms : hosts'[id].at >= hosts[id].at \/ rooms = <<>>]_(Saved!vars)
  BY SavedSteps DEF SavedStep
<1> QED
  BY <1>1, <1>2, <1>3, PTL
     DEF StoresSpec, RoomsAreRemembered, Saved!OwnRoomsStayOwn, Saved!NewestAnswerStays

-----------------------------------------------------------------------------
(* Creating rooms: who a request speaks for, and how many rooms are between *)
(* the check of the ceiling and the count.                                  *)

Uuid == Nat \cup {None}
CreationSteps == {"idle", "throttle", "identify", "touch", "answer", "count", "probe", "store",
  "increment", "register", "created"}
CreationCall == [at : CreationSteps, kind : {None, "visit", "create"},
  room : Creation!Slugs \cup {None}, asserted : Uuid, cookie : Uuid, who : Uuid, ok : BOOLEAN,
  tries : Nat, code : Nat]

CreationTypes ==
  /\ creation \in [Devices -> CreationCall]
  /\ cookie \in [Devices -> Uuid] /\ local \in [Devices -> Uuid]
  /\ {minted, codes, count, creationFaults} \subseteq Nat

\* A page speaks for the uuid its device holds, unless its cookie knows better or the
\* uuid owns a room.
SoundCall(c, mine) ==
  /\ c.at # "idle" /\ c.kind = "visit" => c.asserted = mine
  /\ c.at = "answer" => c.kind = "visit"
  /\ c.at \in {"touch", "answer"} /\ c.kind = "visit" /\ c.cookie = None /\ c.asserted # None =>
       c.who = c.asserted \/ Creation!Owns(c.asserted)

SpeaksForItself(d) == SoundCall(creation[d], local[d])

Making == {d \in Devices : Creation!Creating(d)}
Uncounted == {d \in Devices : Creation!At(d, "increment")}

CountInv ==
  /\ codes <= count + Cardinality(Uncounted) + creationFaults
  /\ codes + Cardinality(Making) <= ROOM_MAX + Cardinality(Devices) - 1 + creationFaults

CreationInv == CreationTypes /\ CountInv /\ \A d \in Devices : SpeaksForItself(d)

\* The sets are counted alike in the component and here.
LEMMA CountedAlike ==
  /\ \A S : Creation!IsFiniteSet(S) <=> IsFiniteSet(S)
  /\ \A S : Creation!Cardinality(S) = Cardinality(S)
  BY DEF Creation!IsFiniteSet, IsFiniteSet, Creation!Cardinality, Cardinality

LEMMA DevicesAreCounted ==
  /\ IsFiniteSet(Making) /\ IsFiniteSet(Uncounted) /\ Cardinality(Devices) \in Nat \ {0}
  /\ Cardinality(Making) \in Nat /\ Cardinality(Uncounted) \in Nat
  /\ Cardinality(Making) + Cardinality(Uncounted) <= Cardinality(Devices)
<1>1. IsFiniteSet(Devices) /\ Devices # {}
  BY CreationAssumption, CountedAlike DEF Creation!RoomCreationAssumption
<1>2. Cardinality(Devices) \in Nat \ {0}
  BY <1>1, FS_CardinalityType, FS_EmptySet
<1>3. Making \in SUBSET Devices /\ Uncounted \in SUBSET Devices /\ Making \cap Uncounted = {}
  BY DEF Making, Uncounted, Creation!Creating, Creation!At
<1>4. /\ IsFiniteSet(Making) /\ IsFiniteSet(Uncounted)
      /\ Cardinality(Making) \in Nat /\ Cardinality(Uncounted) \in Nat
  BY <1>1, <1>3, FS_Subset, FS_CardinalityType
<1>5. Cardinality(Making \cup Uncounted) = Cardinality(Making) + Cardinality(Uncounted)
  <2>1. Cardinality(Making \cap Uncounted) = 0
    BY <1>3, FS_EmptySet
  <2>2. Cardinality(Making \cup Uncounted)
          = Cardinality(Making) + Cardinality(Uncounted) - Cardinality(Making \cap Uncounted)
    BY <1>4, FS_Union
  <2> QED
    BY <1>4, <2>1, <2>2
<1>6. Cardinality(Making \cup Uncounted) <= Cardinality(Devices)
  BY <1>1, <1>3, FS_Subset
<1> QED
  BY <1>2, <1>4, <1>5, <1>6

\* A device that goes on from one step to another is counted anew.
LEMMA OneDeviceMoves ==
  ASSUME creation \in [Devices -> CreationCall], NEW d \in Devices, NEW new \in CreationCall,
         creation' = [creation EXCEPT ![d] = new]
  PROVE  /\ Cardinality(Making') = Cardinality(Making)
              - (IF creation[d].at \in {"probe", "store"} THEN 1 ELSE 0)
              + (IF new.at \in {"probe", "store"} THEN 1 ELSE 0)
         /\ Cardinality(Uncounted') = Cardinality(Uncounted)
              - (IF creation[d].at = "increment" THEN 1 ELSE 0)
              + (IF new.at = "increment" THEN 1 ELSE 0)
<1>1. /\ creation'[d] = new
      /\ \A e \in Devices : e # d => creation'[e] = creation[e]
  OBVIOUS
<1>2. /\ Making = {e \in Devices : creation[e].at \in {"probe", "store"}}
      /\ Uncounted = {e \in Devices : creation[e].at = "increment"}
      /\ Making' = {e \in Devices : creation'[e].at \in {"probe", "store"}}
      /\ Uncounted' = {e \in Devices : creation'[e].at = "increment"}
  BY DEF Making, Uncounted, Creation!Creating, Creation!At
<1>3. Making' = IF new.at \in {"probe", "store"} THEN Making \cup {d} ELSE Making \ {d}
  BY <1>1, <1>2
<1>4. Uncounted' = IF new.at = "increment" THEN Uncounted \cup {d} ELSE Uncounted \ {d}
  BY <1>1, <1>2
<1>5. /\ d \in Making <=> creation[d].at \in {"probe", "store"}
      /\ d \in Uncounted <=> creation[d].at = "increment"
  BY <1>2
<1>6. /\ IsFiniteSet(Making) /\ IsFiniteSet(Uncounted)
      /\ Cardinality(Making) \in Nat /\ Cardinality(Uncounted) \in Nat
  BY DevicesAreCounted
<1>7. /\ Cardinality(Making \cup {d}) = IF d \in Making THEN Cardinality(Making)
                                        ELSE Cardinality(Making) + 1
      /\ Cardinality(Making \ {d}) = IF d \in Making THEN Cardinality(Making) - 1
                                     ELSE Cardinality(Making)
  BY <1>6, FS_AddElement, FS_RemoveElement
<1>8. /\ Cardinality(Uncounted \cup {d}) = IF d \in Uncounted THEN Cardinality(Uncounted)
                                           ELSE Cardinality(Uncounted) + 1
      /\ Cardinality(Uncounted \ {d}) = IF d \in Uncounted THEN Cardinality(Uncounted) - 1
                                        ELSE Cardinality(Uncounted)
  BY <1>6, FS_AddElement, FS_RemoveElement
<1>9. Cardinality(Making') = Cardinality(Making)
              - (IF creation[d].at \in {"probe", "store"} THEN 1 ELSE 0)
              + (IF new.at \in {"probe", "store"} THEN 1 ELSE 0)
  BY <1>3, <1>5, <1>6, <1>7
<1> QED
  BY <1>4, <1>5, <1>6, <1>8, <1>9

\* A request that stays away from the room, or leaves it without having made one.
LEMMA CountStays ==
  ASSUME CreationTypes, CountInv, NEW d \in Devices, NEW new \in CreationCall,
         creation' = [creation EXCEPT ![d] = new],
         creation[d].at # "increment", new.at # "increment",
         new.at \in {"probe", "store"} => creation[d].at \in {"probe", "store"},
         codes' = codes, count' = count, creationFaults' \in Nat, creationFaults' >= creationFaults
  PROVE  CountInv'
<1>1. /\ Cardinality(Making') <= Cardinality(Making) /\ Cardinality(Uncounted') = Cardinality(Uncounted)
      /\ Cardinality(Making') \in Int
  <2>1. creation \in [Devices -> CreationCall]
    BY DEF CreationTypes
  <2>2. /\ Cardinality(Making') = Cardinality(Making)
              - (IF creation[d].at \in {"probe", "store"} THEN 1 ELSE 0)
              + (IF new.at \in {"probe", "store"} THEN 1 ELSE 0)
        /\ Cardinality(Uncounted') = Cardinality(Uncounted)
              - (IF creation[d].at = "increment" THEN 1 ELSE 0)
              + (IF new.at = "increment" THEN 1 ELSE 0)
    BY <2>1, OneDeviceMoves
  <2> QED
    BY <2>2, DevicesAreCounted
<1>2. /\ codes \in Nat /\ count \in Nat /\ creationFaults \in Nat /\ ROOM_MAX \in Nat
      /\ Cardinality(Devices) \in Nat /\ Cardinality(Making) \in Nat /\ Cardinality(Uncounted) \in Nat
  BY DevicesAreCounted, CreationAssumption DEF CreationTypes, Creation!RoomCreationAssumption
<1> QED
  BY <1>1, <1>2 DEF CountInv

MovesTo(d, new) == new \in CreationCall /\ creation' = [creation EXCEPT ![d] = new]

KeepsOwnUuids ==
  \A d \in Devices :
    local'[d] # local[d] /\ local[d] # None =>
      Creation!Owns(local[d]) \/ creation[d].cookie # None

CreationStep == CreationInv' /\ KeepsOwnUuids

\* One device's request goes on, and its uuid stays or changes for a reason.
LEMMA RequestGoesOn ==
  ASSUME CreationInv, NEW d \in Devices, NEW new \in CreationCall, MovesTo(d, new),
         CountInv', CreationTypes', owned' = owned,
         \A e \in Devices : e # d => local'[e] = local[e],
         local'[d] # local[d] /\ local[d] # None =>
           Creation!Owns(local[d]) \/ creation[d].cookie # None,
         SoundCall(new, local'[d])
  PROVE  CreationStep
<1>1. \A u : Creation!Owns(u)' <=> Creation!Owns(u)
  BY DEF Creation!Owns
<1>2. /\ creation'[d] = new
      /\ \A e \in Devices : e # d => creation'[e] = creation[e]
  BY DEF MovesTo, CreationInv, CreationTypes
<1>3. \A e \in Devices : SpeaksForItself(e)'
  <2> SUFFICES ASSUME NEW e \in Devices PROVE SpeaksForItself(e)'
    OBVIOUS
  <2>1. CASE e = d
    BY <1>1, <1>2, <2>1 DEF SpeaksForItself, SoundCall
  <2>2. CASE e # d
    <3>1. SpeaksForItself(e)
      BY DEF CreationInv
    <3> QED
      BY <1>1, <1>2, <2>2, <3>1 DEF SpeaksForItself, SoundCall
  <2> QED
    BY <2>1, <2>2
<1>4. KeepsOwnUuids
  BY DEF KeepsOwnUuids
<1> QED
  BY <1>3, <1>4 DEF CreationStep, CreationInv

\* Before the room is looked for: the ceiling is not touched.
LEMMA RequestGoesOnElsewhere ==
  ASSUME CreationInv, NEW d \in Devices, NEW new \in CreationCall, MovesTo(d, new),
         creation[d].at # "increment", new.at # "increment",
         new.at \in {"probe", "store"} => creation[d].at \in {"probe", "store"},
         UNCHANGED <<local, owned, codes, count>>, cookie' \in [Devices -> Uuid],
         minted' \in Nat, creationFaults' \in Nat, creationFaults' >= creationFaults,
         SoundCall(new, local[d])
  PROVE  CreationStep
<1>1. CreationTypes /\ CountInv
  BY DEF CreationInv
<1>2. creation' = [creation EXCEPT ![d] = new]
  BY DEF MovesTo
<1>3. CountInv'
  BY <1>1, <1>2, CountStays
<1>4. CreationTypes'
  BY <1>1, <1>2 DEF CreationTypes
<1> QED
  BY <1>3, <1>4, RequestGoesOn

LEMMA CreationCallTypes ==
  ASSUME CreationInv, NEW d \in Devices
  PROVE  /\ creation[d] \in CreationCall /\ SoundCall(creation[d], local[d])
         /\ creation \in [Devices -> CreationCall]
         /\ cookie \in [Devices -> Uuid] /\ local \in [Devices -> Uuid] /\ cookie[d] \in Uuid
         /\ local[d] \in Uuid
         /\ minted \in Nat /\ codes \in Nat /\ count \in Nat /\ creationFaults \in Nat
         /\ Creation!NoCall \in CreationCall
  BY DEF CreationInv, CreationTypes, SpeaksForItself, CreationCall, Creation!NoCall, Uuid,
     CreationSteps

\* The request ends.
LEMMA RequestEnds ==
  ASSUME CreationInv, NEW d \in Devices, Creation!Answered(d), creation[d].at # "increment",
         UNCHANGED <<local, owned, codes, count>>, cookie' \in [Devices -> Uuid],
         minted' \in Nat, creationFaults' \in Nat, creationFaults' >= creationFaults
  PROVE  CreationStep
<1>1. /\ Creation!NoCall \in CreationCall /\ Creation!NoCall.at = "idle"
      /\ MovesTo(d, Creation!NoCall)
  BY CreationCallTypes DEF Creation!NoCall, Creation!Answered, MovesTo
<1>2. SoundCall(Creation!NoCall, local[d])
  BY <1>1 DEF SoundCall
<1> QED
  BY <1>1, <1>2, RequestGoesOnElsewhere

\* The request goes to its next step and learns nothing.
LEMMA RequestSteps ==
  ASSUME CreationInv, NEW d \in Devices, NEW step \in CreationSteps, Creation!Goto(d, step),
         creation[d].at \notin {"idle", "increment"}, step \notin {"increment", "touch", "answer"},
         step \in {"probe", "store"} => creation[d].at \in {"probe", "store"},
         UNCHANGED <<local, owned, codes, count, cookie, minted>>,
         creationFaults' \in Nat, creationFaults' >= creationFaults
  PROVE  CreationStep
<1>1. creation[d] \in CreationCall /\ SoundCall(creation[d], local[d])
      /\ creation \in [Devices -> CreationCall]
  BY CreationCallTypes
<1>2. PICK new : new = [creation[d] EXCEPT !.at = step]
  OBVIOUS
<1>3. new \in CreationCall /\ new.at = step /\ new.kind = creation[d].kind
      /\ new.asserted = creation[d].asserted
  BY <1>1, <1>2 DEF CreationCall
<1>4. MovesTo(d, new)
  BY <1>1, <1>2, <1>3 DEF Creation!Goto, MovesTo
<1>5. SoundCall(new, local[d])
  BY <1>1, <1>3 DEF SoundCall
<1>6. cookie' \in [Devices -> Uuid] /\ minted' \in Nat
  BY CreationCallTypes
<1> QED
  BY <1>3, <1>4, <1>5, <1>6, RequestGoesOnElsewhere

\* What the resolution of an identity can leave the request with.
LEMMA IdentityGoesOn ==
  ASSUME CreationInv, NEW d \in Devices, NEW new \in CreationCall, MovesTo(d, new),
         new.at \in {"touch", "answer", "count"}, new.kind = creation[d].kind,
         new.asserted = creation[d].asserted, new.cookie = creation[d].cookie,
         creation[d].at \in {"identify", "touch"},
         new.at = "answer" => creation[d].kind = "visit",
         creation[d].cookie = None /\ creation[d].asserted # None /\ creation[d].kind = "visit" =>
           new.who = creation[d].asserted \/ Creation!Owns(creation[d].asserted),
         UNCHANGED <<local, owned, codes, count, cookie>>, minted' \in Nat,
         creationFaults' \in Nat, creationFaults' >= creationFaults
  PROVE  CreationStep
<1>1. creation[d] \in CreationCall /\ SoundCall(creation[d], local[d]) /\ cookie \in [Devices -> Uuid]
  BY CreationCallTypes
<1>2. SoundCall(new, local[d])
  BY <1>1 DEF SoundCall
<1>3. cookie' \in [Devices -> Uuid]
  BY <1>1
<1> QED
  BY <1>2, <1>3, RequestGoesOnElsewhere

Speaking(c, u, ok, step) == [c EXCEPT !.who = u, !.ok = ok, !.at = step]

LEMMA CallBecomes ==
  ASSUME NEW c \in CreationCall, NEW u \in Uuid, NEW ok \in BOOLEAN, NEW step \in CreationSteps
  PROVE  LET new == Speaking(c, u, ok, step)
         IN  /\ new \in CreationCall /\ new.at = step /\ new.who = u /\ new.kind = c.kind
             /\ new.asserted = c.asserted /\ new.cookie = c.cookie
  BY DEF CreationCall, Speaking

\* The caller has a candidate uuid, to be registered.
LEMMA CandidateIsSound ==
  ASSUME CreationInv, NEW d \in Devices, NEW u \in Uuid, Creation!Candidate(d, u),
         creation[d].at = "identify",
         creation[d].cookie = None /\ creation[d].asserted # None =>
           u = creation[d].asserted \/ Creation!Owns(creation[d].asserted),
         UNCHANGED <<local, owned, codes, count, cookie, creationFaults>>, minted' \in Nat
  PROVE  CreationStep
<1>1. /\ creation[d] \in CreationCall /\ creation \in [Devices -> CreationCall]
      /\ creationFaults \in Nat /\ creation[d].ok \in BOOLEAN /\ "touch" \in CreationSteps
  BY CreationCallTypes DEF CreationCall, CreationSteps
<1> DEFINE new == Speaking(creation[d], u, creation[d].ok, "touch")
<1>2. /\ new \in CreationCall /\ new.at = "touch" /\ new.who = u /\ new.kind = creation[d].kind
      /\ new.asserted = creation[d].asserted /\ new.cookie = creation[d].cookie
  BY <1>1, CallBecomes
<1>3. creation' = [creation EXCEPT ![d] = new]
  BY <1>1 DEF Creation!Candidate, CreationCall, Speaking
<1> HIDE DEF new
<1>4. MovesTo(d, new)
  BY <1>2, <1>3 DEF MovesTo
<1>5. creationFaults' \in Nat /\ creationFaults' >= creationFaults
  BY <1>1
<1> QED
  BY <1>2, <1>4, <1>5, IdentityGoesOn

LEMMA IdentifyIsSound ==
  ASSUME CreationInv, NEW d \in Devices, Creation!Identify(d)
  PROVE  CreationStep
<1>1. /\ creation[d] \in CreationCall /\ SoundCall(creation[d], local[d]) /\ minted \in Nat
      /\ creation \in [Devices -> CreationCall] /\ creationFaults \in Nat
  BY CreationCallTypes
<1>2. /\ creation[d].at = "identify" /\ UNCHANGED <<local, owned, codes, count, cookie, creationFaults>>
  BY DEF Creation!Identify, Creation!At, Creation!store, Creation!browser
<1>3. \E u \in Uuid :
        /\ Creation!Candidate(d, u) /\ minted' \in Nat
        /\ creation[d].cookie = None /\ creation[d].asserted # None =>
             u = creation[d].asserted \/ Creation!Owns(creation[d].asserted)
  <2>1. CASE creation[d].cookie # None /\ Creation!Candidate(d, creation[d].cookie) /\ UNCHANGED minted
    BY <1>1, <2>1 DEF CreationCall
  <2>2. CASE /\ creation[d].cookie = None /\ creation[d].asserted # None
             /\ Creation!Candidate(d, creation[d].asserted) /\ UNCHANGED minted
    BY <1>1, <2>2 DEF CreationCall
  <2>3. CASE /\ creation[d].asserted = None \/ Creation!Owns(creation[d].asserted)
             /\ Creation!Minted(d)
    BY <1>1, <2>3 DEF Creation!Minted, Uuid
  <2> QED
    BY <2>1, <2>2, <2>3 DEF Creation!Identify
<1> QED
  BY <1>2, <1>3, CandidateIsSound

\* The caller is known, or stays who it said it was.
LEMMA ResolvedIsSound ==
  ASSUME CreationInv, NEW d \in Devices, NEW u \in Uuid, NEW ok \in BOOLEAN,
         Creation!Resolved(d, u, ok), creation[d].at \in {"identify", "touch"},
         creation[d].cookie = None /\ creation[d].asserted # None /\ creation[d].kind = "visit" =>
           u = creation[d].asserted \/ Creation!Owns(creation[d].asserted),
         UNCHANGED <<local, owned, codes, count, cookie, minted>>,
         creationFaults' \in Nat, creationFaults' >= creationFaults
  PROVE  CreationStep
<1>1. creation[d] \in CreationCall /\ minted \in Nat /\ creation \in [Devices -> CreationCall]
  BY CreationCallTypes
<1>2. PICK step \in CreationSteps : step = IF creation[d].kind = "visit" THEN "answer" ELSE "count"
  BY DEF CreationSteps
<1> DEFINE new == Speaking(creation[d], u, ok, step)
<1>3. /\ new \in CreationCall /\ new.at = step /\ new.who = u /\ new.kind = creation[d].kind
      /\ new.asserted = creation[d].asserted /\ new.cookie = creation[d].cookie
  BY <1>1, CallBecomes
<1>4. creation' = [creation EXCEPT ![d] = new]
  BY <1>1, <1>2 DEF Creation!Resolved, CreationCall, Speaking
<1> HIDE DEF new
<1>5. MovesTo(d, new)
  BY <1>3, <1>4 DEF MovesTo
<1>6. /\ new.at \in {"touch", "answer", "count"}
      /\ new.at = "answer" => creation[d].kind = "visit"
  BY <1>2, <1>3
<1>7. minted' \in Nat
  BY <1>1
<1> QED
  BY <1>3, <1>5, <1>6, <1>7, IdentityGoesOn

LEMMA TouchesAreSound ==
  ASSUME CreationInv, NEW d \in Devices,
         Creation!LookupFails(d) \/ Creation!Touch(d) \/ Creation!TouchFails(d)
  PROVE  CreationStep
<1>1. /\ creation[d] \in CreationCall /\ SoundCall(creation[d], local[d]) /\ creationFaults \in Nat
  BY CreationCallTypes
<1>2. /\ UNCHANGED <<local, owned, codes, count, cookie, minted>>
      /\ creationFaults' \in Nat /\ creationFaults' >= creationFaults
  <2>1. CASE Creation!LookupFails(d)
    BY <1>1, <2>1 DEF Creation!LookupFails, Creation!store, Creation!browser, Creation!Fault
  <2>2. CASE Creation!Touch(d)
    BY <1>1, <2>2 DEF Creation!Touch, Creation!browser, Creation!bounds
  <2>3. CASE Creation!TouchFails(d)
    BY <1>1, <2>3 DEF Creation!TouchFails, Creation!store, Creation!browser, Creation!Fault
  <2> QED
    BY <2>1, <2>2, <2>3
<1>3. CASE Creation!LookupFails(d)
  BY <1>1, <1>2, <1>3, ResolvedIsSound DEF Creation!LookupFails, Creation!At, CreationCall
<1>4. CASE Creation!Touch(d)
  BY <1>1, <1>2, <1>4, ResolvedIsSound DEF Creation!Touch, Creation!At, CreationCall, SoundCall
<1>5. CASE Creation!TouchFails(d)
  <2>1. PICK u : u = IF Creation!ClientKnown(d) # None THEN Creation!ClientKnown(d) ELSE creation[d].who
    OBVIOUS
  <2>2. Creation!Resolved(d, u, FALSE) /\ creation[d].at = "touch"
    BY <1>5, <2>1 DEF Creation!TouchFails, Creation!At
  <2>3. u \in Uuid
    BY <1>1, <2>1 DEF Creation!ClientKnown, CreationCall
  <2>4. creation[d].cookie = None /\ creation[d].asserted # None => u = creation[d].asserted
    BY <2>1 DEF Creation!ClientKnown
  <2> QED
    BY <1>2, <2>2, <2>3, <2>4, ResolvedIsSound
<1> QED
  BY <1>3, <1>4, <1>5

\* The page takes the uuid it is answered, and not another's for its own.
LEMMA AnswerVisitIsSound ==
  ASSUME CreationInv, NEW d \in Devices, Creation!AnswerVisit(d)
  PROVE  CreationStep
<1>1. /\ creation[d] \in CreationCall /\ SoundCall(creation[d], local[d]) /\ creationFaults \in Nat
      /\ cookie \in [Devices -> Uuid] /\ local \in [Devices -> Uuid] /\ creation[d].who \in Uuid
      /\ Creation!NoCall \in CreationCall /\ Creation!NoCall.at = "idle"
  BY CreationCallTypes DEF CreationCall, Creation!NoCall
<1>2. /\ creation[d].at = "answer" /\ MovesTo(d, Creation!NoCall)
      /\ UNCHANGED <<owned, count, codes, minted, creationFaults>>
  BY <1>1 DEF Creation!AnswerVisit, Creation!At, Creation!Answered, Creation!store, Creation!bounds,
     MovesTo
<1>3. /\ local' = local \/ local' = [local EXCEPT ![d] = creation[d].who]
      /\ cookie' = cookie \/ cookie' = [cookie EXCEPT ![d] = creation[d].who]
  BY DEF Creation!AnswerVisit
<1>4. /\ local' \in [Devices -> Uuid] /\ cookie' \in [Devices -> Uuid]
      /\ \A e \in Devices : e # d => local'[e] = local[e]
      /\ local'[d] \in {local[d], creation[d].who}
  BY <1>1, <1>3
<1>5. local'[d] # local[d] /\ local[d] # None =>
        Creation!Owns(local[d]) \/ creation[d].cookie # None
  BY <1>1, <1>2, <1>4 DEF SoundCall
<1>6. CountInv' /\ CreationTypes'
  <2>1. CreationTypes /\ CountInv /\ creation' = [creation EXCEPT ![d] = Creation!NoCall]
    BY <1>2 DEF CreationInv, MovesTo
  <2>2. CountInv'
    <3>1. /\ Creation!NoCall.at \notin {"increment", "probe", "store"} /\ creation[d].at # "increment"
          /\ creationFaults' \in Nat /\ creationFaults' >= creationFaults
      BY <1>1, <1>2
    <3> QED
      BY <1>1, <1>2, <2>1, <3>1, CountStays
  <2>3. CreationTypes'
    BY <1>1, <1>2, <1>4, <2>1 DEF CreationTypes
  <2> QED
    BY <2>2, <2>3
<1>7. SoundCall(Creation!NoCall, local'[d])
  BY <1>1 DEF SoundCall
<1> QED
  BY <1>1, <1>2, <1>4, <1>5, <1>6, <1>7, RequestGoesOn

\* The page has a uuid of its own before it asks.
LEMMA VisitIsSound ==
  ASSUME CreationInv, NEW d \in Devices, NEW id, Creation!Visit(d, id)
  PROVE  CreationStep
<1>1. /\ creation[d] \in CreationCall /\ creation \in [Devices -> CreationCall]
      /\ cookie \in [Devices -> Uuid] /\ local \in [Devices -> Uuid] /\ local[d] \in Uuid
      /\ cookie[d] \in Uuid
      /\ minted \in Nat /\ Creation!NoCall \in CreationCall /\ creationFaults \in Nat
  BY CreationCallTypes
<1>2. /\ creation[d].at = "idle" /\ UNCHANGED <<owned, count, codes, cookie, creationFaults>>
      /\ \/ local[d] = None /\ minted' = minted + 1 /\ local' = [local EXCEPT ![d] = minted']
         \/ UNCHANGED <<minted, local>>
  BY DEF Creation!Visit, Creation!At, Creation!store
<1>3. PICK new : new = [Creation!NoCall EXCEPT
                !.at = "identify", !.kind = "visit", !.asserted = local'[d], !.cookie = cookie[d]]
  OBVIOUS
<1>4. creation' = [creation EXCEPT ![d] = new]
  BY <1>3 DEF Creation!Visit
<1>5. /\ local' \in [Devices -> Uuid] /\ local'[d] \in Uuid /\ minted' \in Nat
      /\ \A e \in Devices : e # d => local'[e] = local[e]
      /\ local[d] # None => local'[d] = local[d]
  BY <1>1, <1>2 DEF Uuid
<1>6. new \in CreationCall /\ new.at = "identify" /\ new.kind = "visit" /\ new.asserted = local'[d]
  BY <1>1, <1>3, <1>5 DEF CreationCall, CreationSteps
<1>7. SoundCall(new, local'[d]) /\ MovesTo(d, new)
  BY <1>4, <1>6 DEF SoundCall, MovesTo
<1>8. CreationTypes /\ CountInv
  BY DEF CreationInv
<1>9. CountInv'
  <2>1. /\ new.at \notin {"increment", "probe", "store"} /\ creation[d].at # "increment"
        /\ creationFaults' \in Nat /\ creationFaults' >= creationFaults
    BY <1>1, <1>2, <1>6
  <2> HIDE <1>3
  <2> QED
    BY <1>2, <1>4, <1>6, <1>8, <2>1, CountStays
<1>10. CreationTypes'
  BY <1>1, <1>2, <1>4, <1>5, <1>6, <1>8 DEF CreationTypes
<1> QED
  BY <1>5, <1>6, <1>7, <1>9, <1>10, <1>2, RequestGoesOn

LEMMA SubmitIsSound ==
  ASSUME CreationInv, NEW d \in Devices, Creation!Submit(d)
  PROVE  CreationStep
<1>1. /\ creation[d] \in CreationCall /\ local[d] \in Uuid /\ cookie[d] \in Uuid
      /\ Creation!NoCall \in CreationCall /\ creationFaults \in Nat /\ minted \in Nat
      /\ cookie \in [Devices -> Uuid]
  BY CreationCallTypes
<1>2. /\ creation[d].at = "idle"
      /\ UNCHANGED <<local, owned, count, codes, cookie, minted, creationFaults>>
  BY DEF Creation!Submit, Creation!At, Creation!store, Creation!browser, Creation!bounds
<1>3. PICK new : new = [Creation!NoCall EXCEPT
                !.at = "throttle", !.kind = "create", !.asserted = local[d], !.cookie = cookie[d]]
  OBVIOUS
<1>4. new \in CreationCall /\ new.at = "throttle" /\ new.kind = "create"
  BY <1>1, <1>3 DEF CreationCall, CreationSteps
<1>5. MovesTo(d, new) /\ SoundCall(new, local[d])
  BY <1>3, <1>4 DEF Creation!Submit, MovesTo, SoundCall
<1>6. cookie' \in [Devices -> Uuid] /\ minted' \in Nat /\ creationFaults' \in Nat
      /\ creationFaults' >= creationFaults
  BY <1>1, <1>2
<1> QED
  BY <1>2, <1>4, <1>5, <1>6, RequestGoesOnElsewhere
\* No request moves: what is known of a device's rooms may grow.
LEMMA RequestsStay ==
  ASSUME CreationInv, UNCHANGED <<creation, local, codes, count, minted>>,
         \A u : Creation!Owns(u) => Creation!Owns(u)', cookie' \in [Devices -> Uuid],
         creationFaults' \in Nat, creationFaults' >= creationFaults
  PROVE  CreationStep
<1>1. Making' = Making /\ Uncounted' = Uncounted
  BY DEF Making, Uncounted, Creation!Creating, Creation!At
<1>2. CreationTypes /\ CountInv
  BY DEF CreationInv
<1>3. CreationTypes'
  BY <1>2 DEF CreationTypes
<1>4. CountInv'
  <2>1. /\ codes \in Nat /\ count \in Nat /\ creationFaults \in Nat /\ ROOM_MAX \in Nat
        /\ Cardinality(Devices) \in Nat /\ Cardinality(Making) \in Nat
        /\ Cardinality(Uncounted) \in Nat
    BY <1>2, DevicesAreCounted, CreationAssumption DEF CreationTypes, Creation!RoomCreationAssumption
  <2> QED
    BY <1>1, <1>2, <2>1 DEF CountInv
<1>5. \A d \in Devices : SpeaksForItself(d)'
  BY DEF CreationInv, SpeaksForItself, SoundCall
<1> QED
  BY <1>3, <1>4, <1>5 DEF CreationStep, CreationInv, KeepsOwnUuids

LEMMA LoseCookieIsSound ==
  ASSUME CreationInv, NEW d \in Devices, Creation!LoseCookie(d)
  PROVE  CreationStep
<1>1. /\ UNCHANGED <<creation, local, codes, count, minted, creationFaults, owned>>
      /\ cookie' = [cookie EXCEPT ![d] = None]
  BY DEF Creation!LoseCookie, Creation!store, Creation!bounds
<1>2. cookie' \in [Devices -> Uuid] /\ creationFaults' \in Nat /\ creationFaults' >= creationFaults
  BY <1>1, CreationCallTypes DEF Uuid
<1>3. \A u : Creation!Owns(u) => Creation!Owns(u)'
  BY <1>1 DEF Creation!Owns
<1> QED
  BY <1>1, <1>2, <1>3, RequestsStay

LEMMA IndexingIsSound ==
  ASSUME CreationInv,
         \/ \E pair \in indexing : Creation!AddRoom(pair) \/ Creation!AddRoomFails(pair)
         \/ \E i \in DOMAIN hits : Creation!WindowEnds(i)
  PROVE  CreationStep
<1>1. creationFaults \in Nat /\ cookie \in [Devices -> Uuid]
  BY DEF CreationInv, CreationTypes
<1>2. /\ UNCHANGED <<creation, local, codes, count, minted, cookie>> /\ owned \subseteq owned'
      /\ creationFaults' \in Nat /\ creationFaults' >= creationFaults
  <2>1. CASE \E pair \in indexing : Creation!AddRoom(pair)
    BY <1>1, <2>1 DEF Creation!AddRoom, Creation!browser, Creation!bounds
  <2>2. CASE \E pair \in indexing : Creation!AddRoomFails(pair)
    BY <1>1, <2>2 DEF Creation!AddRoomFails, Creation!browser, Creation!Fault
  <2>3. CASE \E i \in DOMAIN hits : Creation!WindowEnds(i)
    BY <1>1, <2>3 DEF Creation!WindowEnds, Creation!browser, Creation!bounds
  <2> QED
    BY <2>1, <2>2, <2>3
<1>3. \A u : Creation!Owns(u) => Creation!Owns(u)'
  BY <1>2 DEF Creation!Owns
<1>4. cookie' \in [Devices -> Uuid]
  BY <1>1, <1>2
<1> QED
  BY <1>2, <1>3, <1>4, RequestsStay

\* A command that fails is counted, and nothing else.
LEMMA FaultIsCounted ==
  ASSUME CreationInv
  PROVE  /\ Creation!Fault => creationFaults' \in Nat /\ creationFaults' = creationFaults + 1
         /\ UNCHANGED creationFaults => creationFaults' \in Nat /\ creationFaults' >= creationFaults
         /\ Creation!Fault => creationFaults' >= creationFaults
<1>1. creationFaults \in Nat
  BY DEF CreationInv, CreationTypes
<1> QED
  BY <1>1 DEF Creation!Fault

LEMMA ThrottleIsSound ==
  ASSUME CreationInv, NEW d \in Devices, Creation!Throttle(d) \/ Creation!ThrottleFails(d)
  PROVE  CreationStep
<1>1. /\ creation[d].at = "throttle"
      /\ UNCHANGED <<local, owned, codes, count, cookie, minted>>
      /\ creationFaults' \in Nat /\ creationFaults' >= creationFaults
      /\ Creation!Answered(d) \/ Creation!Goto(d, "identify")
  <2>1. CASE Creation!Throttle(d)
    BY <2>1, FaultIsCounted DEF Creation!Throttle, Creation!At, Creation!store, Creation!browser,
       Creation!bounds
  <2>2. CASE Creation!ThrottleFails(d)
    BY <2>2, FaultIsCounted DEF Creation!ThrottleFails, Creation!At, Creation!store, Creation!browser
  <2> QED
    BY <2>1, <2>2
<1>2. cookie' \in [Devices -> Uuid] /\ minted' \in Nat
  BY <1>1, CreationCallTypes
<1>3. CASE Creation!Answered(d)
  BY <1>1, <1>2, <1>3, RequestEnds
<1>4. CASE Creation!Goto(d, "identify")
  <2>1. "identify" \in CreationSteps
    BY DEF CreationSteps
  <2> QED
    BY <1>1, <1>4, <2>1, RequestSteps
<1> QED
  BY <1>1, <1>3, <1>4

\* The check of the ceiling: what is not yet counted is in flight or has failed.
LEMMA CheckCountIsSound ==
  ASSUME CreationInv, NEW d \in Devices, Creation!CheckCount(d)
  PROVE  CreationStep
<1>1. /\ creation[d] \in CreationCall /\ creation \in [Devices -> CreationCall]
      /\ SoundCall(creation[d], local[d]) /\ cookie \in [Devices -> Uuid] /\ minted \in Nat
      /\ codes \in Nat /\ count \in Nat /\ creationFaults \in Nat
  BY CreationCallTypes
<1>2. /\ creation[d].at = "count"
      /\ UNCHANGED <<local, owned, codes, count, cookie, minted, creationFaults>>
  BY DEF Creation!CheckCount, Creation!At, Creation!store, Creation!browser, Creation!bounds
<1>3. cookie' \in [Devices -> Uuid] /\ minted' \in Nat /\ creationFaults' \in Nat
      /\ creationFaults' >= creationFaults
  BY <1>1, <1>2
<1>4. CASE count >= ROOM_MAX
  <2>1. Creation!Answered(d)
    BY <1>4 DEF Creation!CheckCount
  <2> QED
    BY <1>2, <1>3, <2>1, RequestEnds
<1>5. CASE ~(count >= ROOM_MAX)
  <2> DEFINE new == [creation[d] EXCEPT !.at = "probe", !.room = Base]
  <2>1. /\ new \in CreationCall /\ new.at = "probe" /\ new.kind = creation[d].kind
        /\ new.asserted = creation[d].asserted
    BY <1>1 DEF CreationCall, CreationSteps, Creation!Slugs
  <2>2. creation' = [creation EXCEPT ![d] = new]
    BY <1>1, <1>5 DEF Creation!CheckCount, CreationCall
  <2> HIDE DEF new
  <2>3. MovesTo(d, new) /\ SoundCall(new, local[d])
    BY <1>1, <1>2, <2>1, <2>2 DEF MovesTo, SoundCall
  <2>4. /\ Cardinality(Making') = Cardinality(Making) + 1
        /\ Cardinality(Uncounted') = Cardinality(Uncounted)
    <3>1. /\ Cardinality(Making') = Cardinality(Making)
                - (IF creation[d].at \in {"probe", "store"} THEN 1 ELSE 0)
                + (IF new.at \in {"probe", "store"} THEN 1 ELSE 0)
          /\ Cardinality(Uncounted') = Cardinality(Uncounted)
                - (IF creation[d].at = "increment" THEN 1 ELSE 0)
                + (IF new.at = "increment" THEN 1 ELSE 0)
      BY <1>1, <2>1, <2>2, OneDeviceMoves
    <3> QED
      BY <1>2, <2>1, <3>1, DevicesAreCounted
  <2>5. /\ Cardinality(Devices) \in Nat /\ Cardinality(Making) \in Nat /\ Cardinality(Uncounted) \in Nat
        /\ Cardinality(Making') + Cardinality(Uncounted') <= Cardinality(Devices)
        /\ ROOM_MAX \in Nat
    <3>1. (Cardinality(Making) + Cardinality(Uncounted) <= Cardinality(Devices))'
      BY DevicesAreCounted, PTL
    <3> QED
      BY <3>1, DevicesAreCounted, CreationAssumption DEF Creation!RoomCreationAssumption
  <2>6. CountInv'
    <3>1. CountInv
      BY DEF CreationInv
    <3> QED
      BY <1>1, <1>2, <1>5, <2>4, <2>5, <3>1 DEF CountInv
  <2>7. CreationTypes'
    BY <1>1, <1>2, <2>1, <2>2 DEF CreationTypes, CreationInv
  <2> QED
    BY <1>2, <2>1, <2>3, <2>6, <2>7, RequestGoesOn
<1> QED
  BY <1>4, <1>5

LEMMA ProbeIsSound ==
  ASSUME CreationInv, NEW d \in Devices, Creation!Probe(d)
  PROVE  CreationStep
<1>1. /\ creation[d] \in CreationCall /\ creation \in [Devices -> CreationCall]
      /\ SoundCall(creation[d], local[d]) /\ cookie \in [Devices -> Uuid] /\ minted \in Nat
      /\ creationFaults \in Nat
  BY CreationCallTypes
<1>2. /\ creation[d].at = "probe"
      /\ UNCHANGED <<local, owned, codes, count, cookie, minted, creationFaults>>
  BY DEF Creation!Probe, Creation!At, Creation!store, Creation!browser, Creation!bounds
<1>3. cookie' \in [Devices -> Uuid] /\ minted' \in Nat /\ creationFaults' \in Nat
      /\ creationFaults' >= creationFaults
  BY <1>1, <1>2
<1>4. CASE Creation!Goto(d, "store")
  <2>1. "store" \in CreationSteps
    BY DEF CreationSteps
  <2> QED
    BY <1>2, <1>3, <1>4, <2>1, RequestSteps
<1>5. ASSUME NEW s \in Suffixed,
             creation' = [creation EXCEPT ![d].room = s, ![d].tries = @ + 1]
      PROVE  CreationStep
  <2> DEFINE new == [creation[d] EXCEPT !.room = s, !.tries = creation[d].tries + 1]
  <2>1. /\ new \in CreationCall /\ new.at = "probe" /\ new.kind = creation[d].kind
        /\ new.asserted = creation[d].asserted
    <3>1. s \in Creation!Slugs /\ creation[d].tries + 1 \in Nat
      BY <1>1 DEF CreationCall, Creation!Slugs
    <3> QED
      BY <1>1, <1>2, <3>1 DEF CreationCall
  <2>2. creation' = [creation EXCEPT ![d] = new]
    BY <1>1, <1>5 DEF CreationCall
  <2> HIDE DEF new
  <2>3. MovesTo(d, new) /\ SoundCall(new, local[d])
    BY <1>1, <1>2, <2>1, <2>2 DEF MovesTo, SoundCall
  <2> QED
    BY <1>2, <1>3, <2>1, <2>3, RequestGoesOnElsewhere
<1>6. \/ Creation!Goto(d, "store")
      \/ \E s \in Suffixed : creation' = [creation EXCEPT ![d].room = s, ![d].tries = @ + 1]
  BY DEF Creation!Probe
<1> QED
  BY <1>4, <1>5, <1>6

\* The record is there and its count is owed.
LEMMA StoreIsSound ==
  ASSUME CreationInv, NEW d \in Devices, Creation!Store(d)
  PROVE  CreationStep
<1>1. /\ creation[d] \in CreationCall /\ creation \in [Devices -> CreationCall]
      /\ codes \in Nat /\ count \in Nat /\ creationFaults \in Nat
  BY CreationCallTypes
<1>2. /\ creation[d].at = "store" /\ codes' = codes + 1
      /\ UNCHANGED <<local, owned, count, cookie, minted, creationFaults>>
  BY DEF Creation!Store, Creation!At, Creation!browser
<1> DEFINE new == [creation[d] EXCEPT !.at = "increment", !.code = codes']
<1>3. /\ new \in CreationCall /\ new.at = "increment" /\ new.kind = creation[d].kind
      /\ new.asserted = creation[d].asserted
  <2>1. codes' \in Nat /\ "increment" \in CreationSteps
    BY <1>1, <1>2 DEF CreationSteps
  <2> QED
    BY <1>1, <2>1 DEF CreationCall
<1>4. creation' = [creation EXCEPT ![d] = new]
  BY <1>1 DEF Creation!Store, CreationCall
<1> HIDE DEF new
<1>5. SoundCall(creation[d], local[d])
  BY CreationCallTypes
<1>6. MovesTo(d, new) /\ SoundCall(new, local[d])
  BY <1>2, <1>3, <1>4, <1>5 DEF MovesTo, SoundCall
<1>7. /\ Cardinality(Making') = Cardinality(Making) - 1
      /\ Cardinality(Uncounted') = Cardinality(Uncounted) + 1
  <2>1. /\ Cardinality(Making') = Cardinality(Making)
              - (IF creation[d].at \in {"probe", "store"} THEN 1 ELSE 0)
              + (IF new.at \in {"probe", "store"} THEN 1 ELSE 0)
        /\ Cardinality(Uncounted') = Cardinality(Uncounted)
              - (IF creation[d].at = "increment" THEN 1 ELSE 0)
              + (IF new.at = "increment" THEN 1 ELSE 0)
    BY <1>1, <1>3, <1>4, OneDeviceMoves
  <2> QED
    BY <1>2, <1>3, <2>1, DevicesAreCounted
<1>8. CountInv'
  <2>1. CountInv
    BY DEF CreationInv
  <2>2. ROOM_MAX \in Nat
    BY CreationAssumption DEF Creation!RoomCreationAssumption
  <2> QED
    BY <1>1, <1>2, <1>7, <2>1, <2>2, DevicesAreCounted DEF CountInv
<1>9. CreationTypes'
  BY <1>1, <1>2, <1>3, <1>4 DEF CreationTypes, CreationInv
<1> QED
  BY <1>2, <1>3, <1>6, <1>8, <1>9, RequestGoesOn

\* The count is made good, or has failed for good.
LEMMA IncrementIsSound ==
  ASSUME CreationInv, NEW d \in Devices, Creation!Increment(d) \/ Creation!IncrementFails(d)
  PROVE  CreationStep
<1>1. /\ creation[d] \in CreationCall /\ creation \in [Devices -> CreationCall]
      /\ codes \in Nat /\ count \in Nat /\ creationFaults \in Nat
      /\ Creation!NoCall \in CreationCall
  BY CreationCallTypes
<1>2. /\ creation[d].at = "increment"
      /\ UNCHANGED <<local, owned, codes, cookie, minted>>
      /\ \/ /\ count' = count + 1 /\ creationFaults' = creationFaults
            /\ Creation!Goto(d, "register")
         \/ /\ count' = count /\ creationFaults' = creationFaults + 1 /\ Creation!Answered(d)
  <2>1. CASE Creation!Increment(d)
    BY <2>1 DEF Creation!Increment, Creation!At, Creation!browser, Creation!bounds
  <2>2. CASE Creation!IncrementFails(d)
    BY <2>2 DEF Creation!IncrementFails, Creation!At, Creation!store, Creation!browser, Creation!Fault
  <2> QED
    BY <2>1, <2>2
<1>3. PICK new \in CreationCall : /\ new.at \notin {"probe", "store", "increment", "answer", "touch"}
                                  /\ new.kind = "visit" => new.asserted = local[d] \/ new.at = "idle"
                                  /\ creation' = [creation EXCEPT ![d] = new]
  <2>1. CASE Creation!Answered(d)
    BY <1>1, <2>1 DEF Creation!Answered, Creation!NoCall
  <2>2. CASE Creation!Goto(d, "register")
    <3> DEFINE call2 == [creation[d] EXCEPT !.at = "register"]
    <3>1. /\ call2 \in CreationCall /\ call2.at = "register" /\ call2.kind = creation[d].kind
          /\ call2.asserted = creation[d].asserted
      BY <1>1 DEF CreationCall, CreationSteps
    <3>2. creation' = [creation EXCEPT ![d] = call2]
      BY <1>1, <2>2 DEF Creation!Goto, CreationCall
    <3>3. SoundCall(creation[d], local[d])
      BY CreationCallTypes
    <3> HIDE DEF call2
    <3> QED
      BY <1>2, <3>1, <3>2, <3>3 DEF SoundCall
  <2> QED
    BY <1>2, <2>1, <2>2
<1>4. MovesTo(d, new) /\ SoundCall(new, local[d])
  BY <1>3 DEF MovesTo, SoundCall
<1>5. /\ Cardinality(Making') = Cardinality(Making)
      /\ Cardinality(Uncounted') = Cardinality(Uncounted) - 1
  <2>1. /\ Cardinality(Making') = Cardinality(Making)
              - (IF creation[d].at \in {"probe", "store"} THEN 1 ELSE 0)
              + (IF new.at \in {"probe", "store"} THEN 1 ELSE 0)
        /\ Cardinality(Uncounted') = Cardinality(Uncounted)
              - (IF creation[d].at = "increment" THEN 1 ELSE 0)
              + (IF new.at = "increment" THEN 1 ELSE 0)
    BY <1>1, <1>3, OneDeviceMoves
  <2> QED
    BY <1>2, <1>3, <2>1, DevicesAreCounted
<1>6. CountInv'
  <2>1. CountInv
    BY DEF CreationInv
  <2>2. ROOM_MAX \in Nat
    BY CreationAssumption DEF Creation!RoomCreationAssumption
  <2>3. codes' = codes /\ count' + creationFaults' = count + creationFaults + 1
        /\ creationFaults' >= creationFaults /\ count' \in Nat /\ creationFaults' \in Nat
    BY <1>1, <1>2
  <2>4. /\ Cardinality(Devices) \in Nat /\ Cardinality(Making) \in Nat
        /\ Cardinality(Uncounted) \in Nat
    BY DevicesAreCounted
  <2>5. codes' <= count' + Cardinality(Uncounted') + creationFaults'
    <3>1. codes <= count + Cardinality(Uncounted) + creationFaults
      BY <2>1 DEF CountInv
    <3>2. ASSUME NEW a \in Nat, NEW b \in Nat, NEW f \in Nat, NEW u \in Nat, NEW n \in Nat,
                 n <= count + u + creationFaults, a + f = count + creationFaults + 1
          PROVE  n <= a + (u - 1) + f
      BY <1>1, <3>2
    <3> QED
      BY <1>1, <1>5, <2>3, <2>4, <3>1, <3>2
  <2>6. codes' + Cardinality(Making') <= ROOM_MAX + Cardinality(Devices) - 1 + creationFaults'
    BY <1>1, <1>5, <2>1, <2>2, <2>3, <2>4 DEF CountInv
  <2> QED
    BY <2>5, <2>6 DEF CountInv
<1>7. CreationTypes'
  BY <1>1, <1>2, <1>3 DEF CreationTypes, CreationInv
<1> QED
  BY <1>2, <1>3, <1>4, <1>6, <1>7, RequestGoesOn

\* What follows a room that is made, and a room that could not be.
LEMMA AfterStoreIsSound ==
  ASSUME CreationInv, NEW d \in Devices,
         \/ Creation!StoreFails(d) \/ Creation!RegisterCreation(d) \/ Creation!RegisterFails(d)
         \/ Creation!AnswerCreate(d)
  PROVE  CreationStep
<1>1. /\ creation[d] \in CreationCall /\ cookie \in [Devices -> Uuid] /\ minted \in Nat
      /\ creation[d].who \in Uuid
  BY CreationCallTypes DEF CreationCall
<1>2. CASE Creation!StoreFails(d)
  <2>1. /\ creation[d].at # "increment" /\ Creation!Answered(d)
        /\ UNCHANGED <<local, owned, codes, count, cookie, minted>>
        /\ creationFaults' \in Nat /\ creationFaults' >= creationFaults
    BY <1>2, FaultIsCounted DEF Creation!StoreFails, Creation!At, Creation!store, Creation!browser
  <2>2. cookie' \in [Devices -> Uuid] /\ minted' \in Nat
    BY <1>1, <2>1
  <2> QED
    BY <2>1, <2>2, RequestEnds
<1>3. CASE Creation!RegisterCreation(d) \/ Creation!RegisterFails(d)
  <2>1. /\ creation[d].at = "register" /\ Creation!Goto(d, "created")
        /\ UNCHANGED <<local, owned, codes, count, cookie, minted>>
        /\ creationFaults' \in Nat /\ creationFaults' >= creationFaults
    <3>1. CASE Creation!RegisterCreation(d)
      BY <3>1, FaultIsCounted DEF Creation!RegisterCreation, Creation!At, Creation!browser,
         Creation!bounds
    <3>2. CASE Creation!RegisterFails(d)
      BY <3>2, FaultIsCounted DEF Creation!RegisterFails, Creation!At, Creation!store,
         Creation!browser
    <3> QED
      BY <1>3, <3>1, <3>2
  <2>2. "created" \in CreationSteps
    BY DEF CreationSteps
  <2> QED
    BY <2>1, <2>2, RequestSteps
<1>4. CASE Creation!AnswerCreate(d)
  <2>1. /\ creation[d].at # "increment" /\ Creation!Answered(d)
        /\ UNCHANGED <<local, owned, codes, count, minted, creationFaults>>
        /\ cookie' = cookie \/ cookie' = [cookie EXCEPT ![d] = creation[d].who]
    BY <1>4 DEF Creation!AnswerCreate, Creation!At, Creation!bounds
  <2>2. /\ cookie' \in [Devices -> Uuid] /\ minted' \in Nat
        /\ creationFaults' \in Nat /\ creationFaults' >= creationFaults
    BY <1>1, <2>1, FaultIsCounted
  <2> QED
    BY <2>1, <2>2, RequestEnds
<1> QED
  BY <1>2, <1>3, <1>4

LEMMA CreationStarts == StoresInit => CreationInv
<1> SUFFICES ASSUME StoresInit PROVE CreationInv
  OBVIOUS
<1>1. /\ count = 0 /\ cookie = [d \in Devices |-> None] /\ local = [d \in Devices |-> None]
      /\ creation = [d \in Devices |-> Creation!NoCall] /\ minted = 0 /\ codes = 0
      /\ creationFaults = 0
  BY DEF StoresInit, Creation!Init
<1>2. Creation!NoCall \in CreationCall /\ Creation!NoCall.at = "idle"
  BY DEF Creation!NoCall, CreationCall, CreationSteps, Uuid
<1>3. CreationTypes
  BY <1>1, <1>2 DEF CreationTypes, Uuid
<1>4. \A d \in Devices : SpeaksForItself(d)
  BY <1>1, <1>2 DEF SpeaksForItself, SoundCall
<1>5. CountInv
  <2>1. Making = {} /\ Uncounted = {}
    BY <1>1, <1>2 DEF Making, Uncounted, Creation!Creating, Creation!At
  <2>2. Cardinality(Making) = 0 /\ Cardinality(Uncounted) = 0
    BY <2>1, FS_EmptySet
  <2>3. Cardinality(Devices) \in Nat \ {0} /\ ROOM_MAX \in Nat
    BY DevicesAreCounted, CreationAssumption DEF Creation!RoomCreationAssumption
  <2> QED
    BY <1>1, <2>2, <2>3 DEF CountInv
<1> QED
  BY <1>3, <1>4, <1>5 DEF CreationInv

LEMMA CreationMoves ==
  ASSUME CreationInv, [Creation!Next]_creationVars
  PROVE  CreationStep
<1>1. CASE Creation!Next
  <2>1. CASE \E d \in Devices : Creation!Handle(d) \/ Creation!Submit(d) \/ Creation!LoseCookie(d)
    <3> SUFFICES ASSUME NEW d \in Devices,
                        Creation!Handle(d) \/ Creation!Submit(d) \/ Creation!LoseCookie(d)
                 PROVE  CreationStep
      BY <2>1
    <3>1. CASE Creation!Submit(d)
      BY <3>1, SubmitIsSound
    <3>2. CASE Creation!LoseCookie(d)
      BY <3>2, LoseCookieIsSound
    <3>3. CASE Creation!Handle(d)
      <4>1. CASE Creation!Throttle(d) \/ Creation!ThrottleFails(d)
        BY <4>1, ThrottleIsSound
      <4>2. CASE Creation!Identify(d)
        BY <4>2, IdentifyIsSound
      <4>3. CASE Creation!LookupFails(d) \/ Creation!Touch(d) \/ Creation!TouchFails(d)
        BY <4>3, TouchesAreSound
      <4>4. CASE Creation!AnswerVisit(d)
        BY <4>4, AnswerVisitIsSound
      <4>5. CASE Creation!CheckCount(d)
        BY <4>5, CheckCountIsSound
      <4>6. CASE Creation!Probe(d)
        BY <4>6, ProbeIsSound
      <4>7. CASE Creation!Store(d)
        BY <4>7, StoreIsSound
      <4>8. CASE Creation!Increment(d) \/ Creation!IncrementFails(d)
        BY <4>8, IncrementIsSound
      <4>9. CASE \/ Creation!StoreFails(d) \/ Creation!RegisterCreation(d)
                 \/ Creation!RegisterFails(d) \/ Creation!AnswerCreate(d)
        BY <4>9, AfterStoreIsSound
      <4> QED
        BY <3>3, <4>1, <4>2, <4>3, <4>4, <4>5, <4>6, <4>7, <4>8, <4>9 DEF Creation!Handle
    <3> QED
      BY <3>1, <3>2, <3>3
  <2>2. CASE \E d \in Devices, id \in Creation!Slugs : Creation!Visit(d, id)
    BY <2>2, VisitIsSound
  <2>3. CASE \/ \E pair \in indexing : Creation!AddRoom(pair) \/ Creation!AddRoomFails(pair)
             \/ \E i \in DOMAIN hits : Creation!WindowEnds(i)
    BY <2>3, IndexingIsSound
  <2> QED
    BY <1>1, <2>1, <2>2, <2>3 DEF Creation!Next
<1>2. CASE UNCHANGED creationVars
  <2>1. UNCHANGED <<creation, local, codes, count, minted, cookie, creationFaults, owned>>
    BY <1>2 DEF creationVars
  <2>2. cookie' \in [Devices -> Uuid] /\ creationFaults' \in Nat /\ creationFaults' >= creationFaults
    BY <2>1, FaultIsCounted DEF CreationInv, CreationTypes
  <2>3. \A u : Creation!Owns(u) => Creation!Owns(u)'
    BY <2>1 DEF Creation!Owns
  <2> QED
    BY <2>1, <2>2, <2>3, RequestsStay
<1> QED
  BY <1>1, <1>2

LEMMA CeilingFollows == CreationInv => Creation!CeilingHolds
<1> SUFFICES ASSUME CreationInv PROVE Creation!CeilingHolds
  OBVIOUS
<1>1. Creation!Cardinality({d \in Devices : Creation!Creating(d)}) = Cardinality(Making)
      /\ Creation!Cardinality(Devices) = Cardinality(Devices)
  BY CountedAlike DEF Making
<1> QED
  BY <1>1 DEF CreationInv, CountInv, Creation!CeilingHolds

\* Rooms are made within the ceiling, but for the requests in flight and the counts that
\* failed, and no failing store costs a device the uuid its songs are listed under
\* (createRoom, src/lib/rooms.ts:1050; resolveIdentity, src/lib/identity.ts:163).
THEOREM RoomsAreMadeSoundly ==
  StoresSpec => [](part = "creation" => Creation!CeilingHolds) /\ Creation!OwnUuidSurvives
<1>1. StoresInit => CreationInv
  BY CreationStarts
<1>2. [StoresNext]_storesVars => [Creation!Next]_creationVars
  BY DEF StoresNext, Alone, storesVars
<1>3. CreationInv /\ [Creation!Next]_creationVars
        => CreationInv' /\ [KeepsOwnUuids]_(Creation!vars)
  BY CreationMoves DEF CreationStep
<1>4. CreationInv => Creation!CeilingHolds
  BY CeilingFollows
<1>5. KeepsOwnUuids => \A d \in Devices :
       local'[d] # local[d] /\ local[d] # None =>
         Creation!Owns(local[d]) \/ creation[d].cookie # None
  BY DEF KeepsOwnUuids
<1> QED
  BY <1>1, <1>2, <1>3, <1>4, <1>5, PTL DEF StoresSpec, Creation!OwnUuidSurvives
-----------------------------------------------------------------------------
(* Deleting rooms: what the verification has seen of the keys, and what the *)
(* undo has put back.                                                       *)

Values == Nat \cup Items
RoomKeys == Deletion!Keys
FixedKeys == Deletion!Fixed
Held(k) == SUBSET (IF k = "index" THEN Items ELSE Nat)

\* What is taken of the keys that exist.
Taken == {f \in UNION {[K -> SUBSET Values] : K \in SUBSET RoomKeys} :
            \A k \in DOMAIN f : f[k] \in Held(k) /\ f[k] # {}}
Stages == {"idle", "index", "types", "scan", "members", "confirm", "snapshot", "record", "rest",
  "srem", "report", "clashes", "restore"}
Statuses == {"none", "refused", "deleted", "leftovers", "restored"}
Script == [at : Stages, verifying : BOOLEAN, todo : Seq(RoomKeys), keys : Seq(RoomKeys),
  known : SUBSET RoomKeys, unaccounted : SUBSET Items, memberships : SUBSET Identities,
  taken : Taken, status : Statuses, runs : Nat]
RequestRecord == [todo : Seq({"put", "drop"} \X RoomKeys), item : SUBSET (Items \cup {"answered"}),
  rev : Nat]

DeletionTypes ==
  /\ db \in [RoomKeys -> SUBSET Values] /\ \A k \in RoomKeys : db[k] \in Held(k)
  /\ members \subseteq Identities /\ linking \subseteq Identities
  /\ op \in Script
  /\ snapshot \in [keys : Taken, memberships : SUBSET Identities]
  /\ writer \in [Writers -> RequestRecord]
  /\ \A w \in Writers : writer[w].todo # <<>> => writer[w].item \subseteq Items

\* A run that has a verdict is over, and verifies only what it has deleted.
Staged ==
  /\ op.status # "none" => op.at = "idle"
  /\ op.verifying => op.at \in {"index", "types", "scan", "members", "report"}
  /\ op.at = "report" => op.verifying

\* While it verifies: of what it knows of, what exists was seen or came since; so of the
\* items it did not know of, and of the memberships.
Seen(k) == Deletion!Exists(k) => k \in fresh \cup Range(op.keys)

Verified ==
  op.verifying =>
    /\ op.at # "index" => FixedKeys \subseteq op.known
    /\ op.at = "types" => \A k \in op.known : k \in Range(op.todo) \/ Seen(k)
    /\ op.at \in {"scan", "members", "report"} => \A k \in op.known : Seen(k)
    /\ op.at \in {"members", "report"} =>
         \A k \in Items \ op.known : Deletion!Exists(k) => k \in fresh \cup op.unaccounted
    /\ op.at = "report" /\ members # {} => "members" \in fresh \/ op.memberships # {}

\* While it restores: what the snapshot holds is still to come, there, or was changed by
\* a request; and the record comes last.
Restored ==
  op.at = "restore" =>
    /\ Range(op.todo) \subseteq DOMAIN snapshot.keys
    /\ \A k \in DOMAIN snapshot.keys : k \in Range(op.todo) \/ Deletion!Exists(k) \/ k \in fresh
    /\ \A i, j \in DOMAIN op.todo : i < j /\ op.todo[i] = "meta" => op.todo[j] = "meta"

DeletionInv ==
  DeletionTypes /\ Staged /\ Verified /\ Restored /\ Deletion!ReportIsHonest

\* The script puts the record back when the rest is there, or was changed since.
PutsBackLast ==
  Deletion!AtKey("restore", "meta") /\ op'.at = "restore" /\ op' # op =>
    \A k \in DOMAIN snapshot.keys : Deletion!Exists(k)' \/ k \in fresh

DeletionStep == DeletionInv' /\ PutsBackLast

LEMMA RoomKeysAreNamed ==
  /\ Deletion!FixedOrder \in Seq(RoomKeys) /\ Deletion!FixedOrder # <<>>
  /\ Range(Deletion!FixedOrder) = FixedKeys
  /\ {"meta", "flag", "queue", "index"} = FixedKeys /\ RoomKeys = FixedKeys \cup Items
  /\ "members" \notin RoomKeys /\ IsFiniteSet(Items)
<1>1. /\ IsFiniteSet(Items) /\ "members" \notin Items
  BY DeletionAssumption, Deletion!IsFiniteSet(Items) = IsFiniteSet(Items)
     DEF Deletion!RoomDeletionAssumption, Deletion!IsFiniteSet, IsFiniteSet
<1>2. Range(Deletion!FixedOrder) = {"meta", "flag", "queue", "index"}
  BY DEF Range, Deletion!FixedOrder
<1>3. FixedKeys = Range(Deletion!FixedOrder)
  BY DEF FixedKeys, Deletion!Fixed, Deletion!Range, Range
<1>4. RoomKeys = FixedKeys \cup Items
  BY DEF RoomKeys, FixedKeys, Deletion!Keys
<1>5. Deletion!FixedOrder \in Seq(RoomKeys) /\ Deletion!FixedOrder # <<>>
  BY <1>2, <1>3, <1>4 DEF Deletion!FixedOrder
<1> QED
  BY <1>1, <1>2, <1>3, <1>4, <1>5

\* A finite set as a list holds its members.
LEMMA ListOfSet ==
  ASSUME NEW S, IsFiniteSet(S)
  PROVE  Deletion!Listing(S) \in Seq(S) /\ Range(Deletion!Listing(S)) = S
<1> DEFINE n == Cardinality(S)
           list == Deletion!Listing(S)
<1>1. n \in Nat /\ ExistsBijection(1..n, S)
  BY FS_CardinalityType
<1>2. Deletion!Cardinality(S) = n
  BY DEF Deletion!Cardinality, Cardinality
<1>3. list = CHOOSE f \in [1..n -> S] : Deletion!IsInjective(f)
  BY <1>2 DEF Deletion!Listing
<1>4. \E f \in [1..n -> S] : Deletion!IsInjective(f)
  BY <1>1 DEF ExistsBijection, Bijection, Injection, IsInjective, Deletion!IsInjective
<1>5. list \in [1..n -> S] /\ Deletion!IsInjective(list)
  BY <1>3, <1>4
<1> HIDE DEF list, n
<1>6. list \in Injection(1..n, S)
  BY <1>5 DEF Injection, IsInjective, Deletion!IsInjective
<1>7. list \in Surjection(1..n, S)
  <2>1. Cardinality(1..n) = n
    BY <1>1, FS_Interval
  <2> QED
    BY <1>6, <2>1, FS_Injection DEF n
<1>8. Range(list) = S
  BY <1>5, <1>7 DEF Surjection, Range
<1>9. list \in Seq(S)
  BY <1>1, <1>5
<1> QED
  BY <1>8, <1>9 DEF list

LEMMA DeletionKept ==
  ASSUME NEW S, NEW s \in Seq(S), NEW T
  PROVE  Deletion!Kept(s, T) \in Seq(S) /\ Range(Deletion!Kept(s, T)) = Range(s) \cap T
<1>1. Deletion!Kept(s, T) = Kept(s, T)
  BY DEF Deletion!Kept, Kept, Deletion!Cardinality, Cardinality
<1> QED
  BY <1>1, KeptProperties

\* A request of the room goes on beside the script: what it changes is known as fresh.
LEMMA RequestIsWatched ==
  ASSUME DeletionInv, op' = op, snapshot' = snapshot, DeletionTypes',
         Deletion!Watched =>
           /\ fresh \subseteq fresh' /\ \A k \in RoomKeys : db'[k] = db[k] \/ k \in fresh'
           /\ members' = members \/ "members" \in fresh'
  PROVE  DeletionStep
<1>1. Staged'
  BY DEF DeletionInv, Staged
<1>2. \A k \in RoomKeys : Deletion!Exists(k)' => Deletion!Exists(k) \/ db'[k] # db[k]
  BY DEF Deletion!Exists
<1>3. Verified'
  <2> SUFFICES ASSUME op.verifying PROVE Verified'
    BY DEF Verified
  <2>1. /\ fresh \subseteq fresh' /\ \A k \in RoomKeys : db'[k] = db[k] \/ k \in fresh'
        /\ members' = members \/ "members" \in fresh'
    BY DEF Deletion!Watched
  <2>2. op.known \subseteq RoomKeys /\ Items \subseteq RoomKeys
    BY RoomKeysAreNamed DEF DeletionInv, DeletionTypes, Script
  <2>3. \A k \in RoomKeys : Seen(k) => Seen(k)'
    BY <1>2, <2>1 DEF Seen
  <2>4. Verified
    BY DEF DeletionInv
  <2>5. op.at # "index" => FixedKeys \subseteq op.known
    BY <2>4 DEF Verified
  <2>6. op.at = "types" => \A k \in op.known : k \in Range(op.todo) \/ Seen(k)'
    BY <2>2, <2>3, <2>4 DEF Verified
  <2>7. op.at \in {"scan", "members", "report"} => \A k \in op.known : Seen(k)'
    BY <2>2, <2>3, <2>4 DEF Verified
  <2>8. op.at \in {"members", "report"} =>
          \A k \in Items \ op.known : Deletion!Exists(k)' => k \in fresh' \cup op.unaccounted
    BY <1>2, <2>1, <2>2, <2>4 DEF Verified
  <2>9. op.at = "report" /\ members' # {} => "members" \in fresh' \/ op.memberships # {}
    BY <2>1, <2>4 DEF Verified
  <2> QED
    BY <2>5, <2>6, <2>7, <2>8, <2>9 DEF Verified
<1>4. Restored'
  <2> SUFFICES ASSUME op.at = "restore" PROVE Restored'
    BY DEF Restored
  <2>1. /\ fresh \subseteq fresh' /\ \A k \in RoomKeys : db'[k] = db[k] \/ k \in fresh'
    BY DEF Deletion!Watched
  <2>2. DOMAIN snapshot.keys \subseteq RoomKeys
    BY DEF DeletionInv, DeletionTypes, Taken
  <2> QED
    BY <2>1, <2>2 DEF DeletionInv, Restored, Deletion!Exists
<1>5. Deletion!ReportIsHonest'
  <2> SUFFICES ASSUME op.status = "deleted" PROVE Deletion!ReportIsHonest'
    BY DEF Deletion!ReportIsHonest
  <2>1. /\ fresh \subseteq fresh' /\ \A k \in RoomKeys : db'[k] = db[k] \/ k \in fresh'
        /\ members' = members \/ "members" \in fresh'
    BY DEF Deletion!Watched
  <2>2. \A k \in RoomKeys : Deletion!Exists(k)' => k \in fresh'
    BY <1>2, <2>1 DEF DeletionInv, Deletion!ReportIsHonest, RoomKeys
  <2> QED
    BY <2>1, <2>2 DEF DeletionInv, Deletion!ReportIsHonest, RoomKeys
<1>6. PutsBackLast
  BY DEF PutsBackLast
<1> QED
  BY <1>1, <1>3, <1>4, <1>5, <1>6 DEF DeletionStep, DeletionInv

\* What a store command leaves.
LEMMA StoredIsFresh ==
  ASSUME DeletionTypes, NEW k \in RoomKeys, NEW v \in Held(k), db' = [db EXCEPT ![k] = v],
         Deletion!Fresh(k)
  PROVE  /\ db' \in [RoomKeys -> SUBSET Values] /\ \A x \in RoomKeys : db'[x] \in Held(x)
         /\ Deletion!Watched => /\ fresh \subseteq fresh'
                                /\ \A x \in RoomKeys : db'[x] = db[x] \/ x \in fresh'
<1>1. v \in SUBSET Values
  BY DEF Held, Values
<1>2. db \in [RoomKeys -> SUBSET Values] /\ \A x \in RoomKeys : db[x] \in Held(x)
  BY DEF DeletionTypes
<1>3. db' \in [RoomKeys -> SUBSET Values]
  BY <1>1, <1>2
<1>4. \A x \in RoomKeys : db'[x] \in Held(x)
  BY <1>2
<1>5. Deletion!Watched => fresh' = fresh \cup {k}
  BY DEF Deletion!Fresh
<1> QED
  BY <1>2, <1>3, <1>4, <1>5

\* A request has one command less, or is answered.
LEMMA RequestIsDone ==
  ASSUME DeletionTypes, NEW w \in Writers, writer[w].todo # <<>>, Deletion!Done(w)
  PROVE  /\ writer' \in [Writers -> RequestRecord]
         /\ \A x \in Writers : writer'[x].todo # <<>> => writer'[x].item \subseteq Items
<1>1. /\ writer \in [Writers -> RequestRecord] /\ writer[w] \in RequestRecord
      /\ \A x \in Writers : writer[x].todo # <<>> => writer[x].item \subseteq Items
  BY DEF DeletionTypes
<1> DEFINE next == IF Len(writer[w].todo) = 1 THEN Deletion!Answered
                   ELSE [writer[w] EXCEPT !.todo = Tail(writer[w].todo)]
<1>2. writer' = [writer EXCEPT ![w] = next]
  BY DEF Deletion!Done
<1>3. Deletion!Answered \in RequestRecord /\ Deletion!Answered.todo = <<>>
  <2>1. Deletion!Answered = [todo |-> <<>>, item |-> {"answered"}, rev |-> 0]
    BY DEF Deletion!Answered
  <2>2. <<>> \in Seq({"put", "drop"} \X RoomKeys)
    OBVIOUS
  <2> QED
    BY <2>1, <2>2 DEF RequestRecord
<1>4. LET rest == [writer[w] EXCEPT !.todo = Tail(writer[w].todo)]
      IN  rest \in RequestRecord /\ rest.item = writer[w].item
  <2>1. Tail(writer[w].todo) \in Seq({"put", "drop"} \X RoomKeys)
    BY <1>1, TailProperties DEF RequestRecord
  <2> QED
    BY <1>1, <2>1 DEF RequestRecord
<1>5. next \in RequestRecord /\ (next.todo # <<>> => next.item \subseteq Items)
  BY <1>1, <1>3, <1>4
<1> HIDE DEF next
<1> QED
  BY <1>1, <1>2, <1>5
LEMMA CreateIsWatched ==
  ASSUME DeletionInv, NEW u \in Identities, Deletion!Create(u) \/ Deletion!AddRoom(u)
  PROVE  DeletionStep
<1>1. DeletionTypes
  BY DEF DeletionInv
<1>2. CASE Deletion!Create(u)
  <2>1. /\ db' = [db EXCEPT !["meta"] = {0}] /\ Deletion!Fresh("meta")
        /\ linking' = linking \cup {u} /\ UNCHANGED <<members, writer, op, snapshot>>
    BY <1>2 DEF Deletion!Create, Deletion!Store
  <2>2. "meta" \in RoomKeys /\ {0} \in Held("meta")
    BY RoomKeysAreNamed DEF Held
  <2>3. /\ db' \in [RoomKeys -> SUBSET Values] /\ \A x \in RoomKeys : db'[x] \in Held(x)
        /\ Deletion!Watched => /\ fresh \subseteq fresh'
                               /\ \A x \in RoomKeys : db'[x] = db[x] \/ x \in fresh'
    BY <1>1, <2>1, <2>2, StoredIsFresh
  <2>4. DeletionTypes'
    BY <1>1, <2>1, <2>3 DEF DeletionTypes
  <2> QED
    BY <2>1, <2>3, <2>4, RequestIsWatched
<1>3. CASE Deletion!AddRoom(u)
  <2>1. /\ linking' = linking \ {u} /\ members' = members \cup {u} /\ Deletion!Fresh("members")
        /\ UNCHANGED <<db, writer, op, snapshot>>
    BY <1>3 DEF Deletion!AddRoom
  <2>2. DeletionTypes'
    BY <1>1, <2>1 DEF DeletionTypes
  <2>3. Deletion!Watched => fresh \subseteq fresh' /\ "members" \in fresh'
    BY <2>1 DEF Deletion!Fresh
  <2> QED
    BY <2>1, <2>2, <2>3, RequestIsWatched
<1> QED
  BY <1>2, <1>3

LEMMA RevisionIsStored ==
  ASSUME DeletionTypes, Deletion!Exists("meta")
  PROVE  Deletion!Revision \in Nat
<1>1. "meta" \in RoomKeys
  BY RoomKeysAreNamed
<1>2. db["meta"] \in SUBSET Nat
  BY <1>1 DEF DeletionTypes, Held
<1>3. Deletion!Revision \in db["meta"]
  BY DEF Deletion!Revision, Deletion!Exists
<1> QED
  BY <1>2, <1>3

LEMMA RequestsAreCommands ==
  ASSUME NEW i \in Items, NEW commands \in Deletion!CommandsFor(i)
  PROVE  commands \in Seq({"put", "drop"} \X RoomKeys)
<1>1. {"meta", "flag", "queue", "index", i} \subseteq RoomKeys
  BY RoomKeysAreNamed
<1> DEFINE C == {"put", "drop"} \X RoomKeys
<1>2. {<<"put", "queue">>, <<"put", "meta">>, <<"put", "flag">>, <<"drop", "index">>, <<"drop", i>>,
       <<"put", i>>, <<"put", "index">>} \subseteq C
  BY <1>1
<1> HIDE DEF C
<1>3. \/ commands = <<<<"put", "queue">>>> \/ commands = <<<<"put", "meta">>>>
      \/ commands = <<<<"put", "flag">>, <<"put", "meta">>>>
      \/ commands = <<<<"drop", "index">>, <<"drop", i>>, <<"put", "queue">>>>
      \/ commands = <<<<"put", i>>>> \/ commands = <<<<"put", i>>, <<"put", "index">>>>
  BY DEF Deletion!CommandsFor
<1>4. \A a, b, c \in C : <<a>> \in Seq(C) /\ <<a, b>> \in Seq(C) /\ <<a, b, c>> \in Seq(C)
  OBVIOUS
<1>5. commands \in Seq(C)
  BY <1>2, <1>3, <1>4, Zenon
<1> QED
  BY <1>5 DEF C

LEMMA BeginIsWatched ==
  ASSUME DeletionInv, NEW w \in Writers, Deletion!Begin(w)
  PROVE  DeletionStep
<1>1. DeletionTypes /\ Deletion!Revision \in Nat
  BY RevisionIsStored DEF DeletionInv, Deletion!Begin
<1>7. PICK i \in Items : \E commands \in Deletion!CommandsFor(i) :
        writer' = [writer EXCEPT ![w] = [todo |-> commands, item |-> {i}, rev |-> Deletion!Revision]]
  BY DEF Deletion!Begin
<1>2. PICK commands \in Deletion!CommandsFor(i) :
        writer' = [writer EXCEPT ![w] = [todo |-> commands, item |-> {i}, rev |-> Deletion!Revision]]
  BY <1>7
<1>3. UNCHANGED <<db, members, linking, op, snapshot, fresh>>
  BY DEF Deletion!Begin
<1>4. /\ [todo |-> commands, item |-> {i}, rev |-> Deletion!Revision] \in RequestRecord
      /\ {i} \subseteq Items
  BY <1>1, RequestsAreCommands DEF RequestRecord
<1>5. /\ writer' \in [Writers -> RequestRecord]
      /\ \A x \in Writers : writer'[x].todo # <<>> => writer'[x].item \subseteq Items
  BY <1>1, <1>2, <1>4 DEF DeletionTypes
<1>6. DeletionTypes'
  BY <1>1, <1>3, <1>5 DEF DeletionTypes
<1> QED
  BY <1>3, <1>6, RequestIsWatched

LEMMA CommandIsWatched ==
  ASSUME DeletionInv, NEW w \in Writers, NEW k \in RoomKeys, NEW verb, NEW v \in Held(k),
         Deletion!Command(w, verb, k), db' = [db EXCEPT ![k] = v], Deletion!Fresh(k),
         Deletion!Done(w)
  PROVE  DeletionStep
<1>1. DeletionTypes
  BY DEF DeletionInv
<1>2. writer[w].todo # <<>> /\ UNCHANGED <<members, linking, op, snapshot>>
  BY DEF Deletion!Command
<1>3. /\ db' \in [RoomKeys -> SUBSET Values] /\ \A x \in RoomKeys : db'[x] \in Held(x)
      /\ Deletion!Watched => /\ fresh \subseteq fresh'
                             /\ \A x \in RoomKeys : db'[x] = db[x] \/ x \in fresh'
  BY <1>1, StoredIsFresh
<1>4. /\ writer' \in [Writers -> RequestRecord]
      /\ \A x \in Writers : writer'[x].todo # <<>> => writer'[x].item \subseteq Items
  BY <1>1, <1>2, RequestIsDone
<1>5. DeletionTypes'
  BY <1>1, <1>2, <1>3, <1>4 DEF DeletionTypes
<1> QED
  BY <1>2, <1>3, <1>5, RequestIsWatched

LEMMA HeldMeans ==
  \A k, v : v \in Held(k) <=> IF k = "index" THEN v \subseteq Items ELSE v \subseteq Nat
<1>1. \A k, v : k = "index" => (v \in Held(k) <=> v \subseteq Items)
  BY Zenon DEF Held
<1>2. \A k, v : k # "index" => (v \in Held(k) <=> v \subseteq Nat)
  BY Zenon DEF Held
<1> QED
  BY <1>1, <1>2

LEMMA PutOrDropIsWatched ==
  ASSUME DeletionInv, NEW w \in Writers, NEW k \in RoomKeys,
         Deletion!Put(w, k) \/ Deletion!Drop(w, k)
  PROVE  DeletionStep
<1>1. /\ db[k] \in Held(k)
      /\ writer[w].todo # <<>> => writer[w].item \subseteq Items
      /\ db \in [RoomKeys -> SUBSET Values]
  BY DEF DeletionInv, DeletionTypes
<1>2. CASE Deletion!Put(w, k)
  <2> DEFINE v == IF k = "index" THEN db[k] \cup writer[w].item ELSE {1}
  <2>1. /\ Deletion!Command(w, "put", k) /\ db' = [db EXCEPT ![k] = v] /\ Deletion!Fresh(k)
        /\ Deletion!Done(w)
    BY <1>2 DEF Deletion!Put, Deletion!Store
  <2>2. writer[w].todo # <<>>
    BY <2>1 DEF Deletion!Command
  <2>3. v \in Held(k)
    <3>1. CASE k = "index"
      <4>1. v = db["index"] \cup writer[w].item
        BY <3>1
      <4>2. db["index"] \subseteq Items
        BY <1>1, <3>1, HeldMeans
      <4>3. writer[w].item \subseteq Items
        BY <1>1, <2>2
      <4> HIDE DEF v
      <4>4. v \subseteq Items
        BY <4>1, <4>2, <4>3
      <4> QED
        BY <3>1, <4>4, HeldMeans
    <3>2. CASE k # "index"
      BY <3>2, HeldMeans
    <3> QED
      BY <3>1, <3>2
  <2> HIDE DEF v
  <2> QED
    BY <2>1, <2>3, CommandIsWatched
<1>3. CASE Deletion!Drop(w, k)
  <2> DEFINE v == IF k = "index" THEN db[k] \ writer[w].item ELSE {}
  <2>1. /\ Deletion!Command(w, "drop", k) /\ db' = [db EXCEPT ![k] = v] /\ Deletion!Fresh(k)
        /\ Deletion!Done(w)
    BY <1>3 DEF Deletion!Drop
  <2>2. v \in Held(k)
    <3>1. CASE k = "index"
      <4>1. v = db["index"] \ writer[w].item
        BY <3>1
      <4>2. db["index"] \subseteq Items
        BY <1>1, <3>1, HeldMeans
      <4> HIDE DEF v
      <4>3. v \subseteq Items
        BY <4>1, <4>2
      <4> QED
        BY <3>1, <4>3, HeldMeans
    <3>2. CASE k # "index"
      BY <3>2, HeldMeans
    <3> QED
      BY <3>1, <3>2
  <2> HIDE DEF v
  <2> QED
    BY <2>1, <2>2, CommandIsWatched
<1> QED
  BY <1>2, <1>3

LEMMA CompareAndSetIsWatched ==
  ASSUME DeletionInv, NEW w \in Writers, Deletion!CompareAndSet(w)
  PROVE  DeletionStep
<1>1. /\ DeletionTypes /\ writer \in [Writers -> RequestRecord] /\ writer[w] \in RequestRecord
      /\ writer[w].todo # <<>> => writer[w].item \subseteq Items
  BY DEF DeletionInv, DeletionTypes
<1>2. /\ Deletion!Command(w, "put", "meta") /\ writer[w].todo # <<>>
      /\ UNCHANGED <<members, linking, op, snapshot>>
  BY DEF Deletion!CompareAndSet, Deletion!Command
<1>3. CASE Deletion!Done(w) /\ UNCHANGED <<db, fresh>>
  <2>1. /\ writer' \in [Writers -> RequestRecord]
        /\ \A x \in Writers : writer'[x].todo # <<>> => writer'[x].item \subseteq Items
    BY <1>1, <1>2, <1>3, RequestIsDone
  <2>2. DeletionTypes'
    BY <1>1, <1>2, <1>3, <2>1 DEF DeletionTypes
  <2> QED
    BY <1>2, <1>3, <2>2, RequestIsWatched
<1>4. CASE Deletion!Store("meta", {writer[w].rev + 1}) /\ Deletion!Done(w)
  <2>1. "meta" \in RoomKeys
    BY RoomKeysAreNamed
  <2>2. {writer[w].rev + 1} \in Held("meta")
    BY <1>1 DEF Held, RequestRecord
  <2>3. db' = [db EXCEPT !["meta"] = {writer[w].rev + 1}] /\ Deletion!Fresh("meta") /\ Deletion!Done(w)
    BY <1>4 DEF Deletion!Store
  <2> QED
    BY <1>2, <2>1, <2>2, <2>3, CommandIsWatched
<1>5. CASE /\ Deletion!Exists("meta") /\ UNCHANGED <<db, fresh>>
           /\ writer' = [writer EXCEPT ![w].rev = Deletion!Revision]
  <2>1. Deletion!Revision \in Nat
    BY <1>1, <1>5, RevisionIsStored
  <2> DEFINE again == [writer[w] EXCEPT !.rev = Deletion!Revision]
  <2>2. /\ again \in RequestRecord /\ again.todo = writer[w].todo /\ again.item = writer[w].item
    BY <1>1, <2>1 DEF RequestRecord
  <2>3. writer' = [writer EXCEPT ![w] = again]
    BY <1>1, <1>5 DEF RequestRecord
  <2> HIDE DEF again
  <2>4. /\ writer' \in [Writers -> RequestRecord]
        /\ \A x \in Writers : writer'[x].todo # <<>> => writer'[x].item \subseteq Items
    BY <1>1, <2>2, <2>3 DEF DeletionTypes
  <2>5. DeletionTypes'
    BY <1>1, <1>2, <1>5, <2>4 DEF DeletionTypes
  <2> QED
    BY <1>2, <1>5, <2>5, RequestIsWatched
<1> QED
  BY <1>3, <1>4, <1>5 DEF Deletion!CompareAndSet
\* What a snapshot can hold.
LEMMA TakenMeans ==
  /\ \A K \in SUBSET RoomKeys : \A f \in [K -> SUBSET Values] :
       (\A k \in K : f[k] \in Held(k) /\ f[k] # {}) => f \in Taken
  /\ \A f \in Taken : /\ DOMAIN f \in SUBSET RoomKeys /\ f \in [DOMAIN f -> SUBSET Values]
                      /\ \A k \in DOMAIN f : f[k] \in Held(k) /\ f[k] # {}
<1>1. ASSUME NEW K \in SUBSET RoomKeys, NEW f \in [K -> SUBSET Values],
             \A k \in K : f[k] \in Held(k) /\ f[k] # {}
      PROVE  f \in Taken
  <2>1. f \in UNION {[L -> SUBSET Values] : L \in SUBSET RoomKeys}
    BY <1>1
  <2> QED
    BY <1>1, <2>1 DEF Taken
<1>2. ASSUME NEW f \in Taken
      PROVE  /\ DOMAIN f \in SUBSET RoomKeys /\ f \in [DOMAIN f -> SUBSET Values]
             /\ \A k \in DOMAIN f : f[k] \in Held(k) /\ f[k] # {}
  <2>1. PICK K \in SUBSET RoomKeys : f \in [K -> SUBSET Values]
    BY <1>2 DEF Taken
  <2>2. DOMAIN f = K
    BY <2>1
  <2> QED
    BY <1>2, <2>1, <2>2 DEF Taken
<1> QED
  BY <1>1, <1>2

LEMMA ScriptRecord ==
  ASSUME NEW a \in Stages, NEW v \in BOOLEAN, NEW t \in Seq(RoomKeys), NEW k \in Seq(RoomKeys),
         NEW n \in SUBSET RoomKeys, NEW u \in SUBSET Items, NEW m \in SUBSET Identities,
         NEW f \in Taken, NEW s \in Statuses, NEW r \in Nat
  PROVE  [at |-> a, verifying |-> v, todo |-> t, keys |-> k, known |-> n, unaccounted |-> u,
          memberships |-> m, taken |-> f, status |-> s, runs |-> r] \in Script
  BY DEF Script

\* A field of the script's state changes.
LEMMA ScriptFields ==
  ASSUME NEW c \in Script
  PROVE  /\ \A a \in Stages : [c EXCEPT !.at = a] \in Script
         /\ \A v \in BOOLEAN : [c EXCEPT !.verifying = v] \in Script
         /\ \A t \in Seq(RoomKeys) : [c EXCEPT !.todo = t] \in Script
         /\ \A k \in Seq(RoomKeys) : [c EXCEPT !.keys = k] \in Script
         /\ \A n \in SUBSET RoomKeys : [c EXCEPT !.known = n] \in Script
         /\ \A u \in SUBSET Items : [c EXCEPT !.unaccounted = u] \in Script
         /\ \A m \in SUBSET Identities : [c EXCEPT !.memberships = m] \in Script
         /\ \A f \in Taken : [c EXCEPT !.taken = f] \in Script
         /\ \A s \in Statuses : [c EXCEPT !.status = s] \in Script
         /\ \A r \in Nat : [c EXCEPT !.runs = r] \in Script
  BY DEF Script

LEMMA NoRunIsTyped ==
  /\ Deletion!NoRun \in Script /\ Deletion!NoRun.at = "idle" /\ Deletion!NoRun.verifying = FALSE
  /\ Deletion!NoRun.status = "none" /\ Deletion!NoRun.taken \in Taken
  /\ Deletion!NoSnapshot \in [keys : Taken, memberships : SUBSET Identities]
<1>1. Deletion!Nothing \in [{} -> SUBSET Values]
  BY DEF Deletion!Nothing
<1>2. Deletion!Nothing \in Taken
  BY <1>1, TakenMeans
<1>3. Deletion!NoRun \in Script
  <2>1. <<>> \in Seq(RoomKeys)
    OBVIOUS
  <2>2. {} \in SUBSET RoomKeys /\ {} \in SUBSET Items /\ {} \in SUBSET Identities
    OBVIOUS
  <2>3. "idle" \in Stages /\ "none" \in Statuses /\ 0 \in Nat
    BY DEF Stages, Statuses
  <2>4. FALSE \in BOOLEAN
    OBVIOUS
  <2> QED
    BY <1>2, <2>1, <2>2, <2>3, <2>4, ScriptRecord DEF Deletion!NoRun
<1>4. Deletion!NoSnapshot \in [keys : Taken, memberships : SUBSET Identities]
  BY <1>2 DEF Deletion!NoSnapshot
<1> QED
  BY <1>2, <1>3, <1>4 DEF Deletion!NoRun

\* What the script has in its hands.
LEMMA ScriptHas ==
  ASSUME DeletionInv
  PROVE  /\ DeletionTypes /\ op \in Script /\ op.todo \in Seq(RoomKeys) /\ op.keys \in Seq(RoomKeys)
         /\ op.known \in SUBSET RoomKeys /\ op.unaccounted \in SUBSET Items
         /\ op.memberships \in SUBSET Identities /\ op.taken \in Taken /\ op.runs \in Nat
         /\ op.verifying \in BOOLEAN /\ op.at \in Stages /\ op.status \in Statuses
         /\ db \in [RoomKeys -> SUBSET Values] /\ \A k \in RoomKeys : db[k] \in Held(k)
         /\ snapshot.keys \in Taken /\ snapshot.memberships \in SUBSET Identities
         /\ members \in SUBSET Identities
  BY DEF DeletionInv, DeletionTypes, Script

\* A step to a stage that promises nothing yet.
LEMMA NothingIsPromised ==
  ASSUME DeletionTypes', Verified', Staged', op'.at # "restore", op'.status # "deleted"
  PROVE  DeletionStep
<1>1. Restored' /\ Deletion!ReportIsHonest' /\ PutsBackLast
  BY DEF Restored, Deletion!ReportIsHonest, PutsBackLast
<1> QED
  BY <1>1 DEF DeletionStep, DeletionInv

\* The script ends, without saying that the room is deleted.
LEMMA EndIsSound ==
  ASSUME DeletionInv, op' \in Script, op'.at = "idle", ~op'.verifying, op'.status # "deleted",
         UNCHANGED <<db, snapshot, writer, linking>>, members' \subseteq Identities
  PROVE  DeletionStep
<1>1. DeletionTypes'
  BY ScriptHas DEF DeletionTypes
<1>2. Staged' /\ Verified'
  BY DEF Staged, Verified
<1> QED
  BY <1>1, <1>2, NothingIsPromised

\* What an end leaves of a run.
Over(status, runs) == [Deletion!NoRun EXCEPT !.status = status, !.runs = runs]

LEMMA OverIsIdle ==
  ASSUME NEW status \in Statuses, NEW runs \in Nat
  PROVE  /\ Over(status, runs) \in Script /\ Over(status, runs).at = "idle"
         /\ Over(status, runs).verifying = FALSE /\ Over(status, runs).status = status
<1> DEFINE a == [Deletion!NoRun EXCEPT !.status = status]
           b == [a EXCEPT !.runs = runs]
<1>1. /\ Deletion!NoRun \in Script /\ Deletion!NoRun.at = "idle" /\ Deletion!NoRun.verifying = FALSE
  BY NoRunIsTyped
<1>2. a \in Script /\ a.at = "idle" /\ a.verifying = FALSE /\ a.status = status
  <2>1. a \in Script
    BY <1>1, ScriptFields
  <2> QED
    BY <1>1, <2>1 DEF Script
<1> HIDE DEF a
<1>3. b \in Script
  BY <1>2, ScriptFields
<1>4. b.at = "idle" /\ b.verifying = FALSE /\ b.status = status
  BY <1>2 DEF Script
<1>5. Over(status, runs) = b
  BY DEF Over, a, b
<1> QED
  BY <1>3, <1>4, <1>5

\* The script goes on, and it neither verifies nor restores.
LEMMA ScriptGoesOn ==
  ASSUME DeletionInv, op' \in Script, ~op'.verifying, op'.at \notin {"restore", "report"},
         op'.status = "none", UNCHANGED <<writer, linking, members>>,
         snapshot' \in [keys : Taken, memberships : SUBSET Identities],
         db' \in [RoomKeys -> SUBSET Values], \A k \in RoomKeys : db'[k] \in Held(k)
  PROVE  DeletionStep
<1>1. DeletionTypes'
  BY ScriptHas DEF DeletionTypes
<1>2. Staged' /\ Verified'
  BY DEF Staged, Verified
<1> QED
  BY <1>1, <1>2, NothingIsPromised

\* The order in which a snapshot is put back.
LEMMA PlanIsOfKeys ==
  ASSUME snapshot.keys \in Taken
  PROVE  /\ Deletion!PlanOrder \in Seq(RoomKeys)
         /\ Range(Deletion!PlanOrder) = DOMAIN snapshot.keys
<1>1. /\ Deletion!Listing(Items) \in Seq(RoomKeys) /\ Range(Deletion!Listing(Items)) = Items
      /\ Deletion!FixedOrder \in Seq(RoomKeys) /\ Range(Deletion!FixedOrder) = FixedKeys
  <2>1. Deletion!Listing(Items) \in Seq(Items) /\ Range(Deletion!Listing(Items)) = Items
    BY RoomKeysAreNamed, ListOfSet
  <2>2. Items \subseteq RoomKeys
    BY RoomKeysAreNamed
  <2> QED
    BY <2>1, <2>2, RoomKeysAreNamed
<1> DEFINE all == Deletion!FixedOrder \o Deletion!Listing(Items)
<1>2. all \in Seq(RoomKeys) /\ Range(all) = FixedKeys \cup Items
  BY <1>1, ConcatProperties
<1> HIDE DEF all
<1>3. Deletion!PlanOrder = Deletion!Kept(all, DOMAIN snapshot.keys)
  BY DEF Deletion!PlanOrder, all
<1>4. /\ Deletion!PlanOrder \in Seq(RoomKeys)
      /\ Range(Deletion!PlanOrder) = Range(all) \cap DOMAIN snapshot.keys
  BY <1>2, <1>3, DeletionKept
<1>5. DOMAIN snapshot.keys \subseteq FixedKeys \cup Items
  BY TakenMeans, RoomKeysAreNamed
<1> QED
  BY <1>2, <1>4, <1>5

LEMMA RunIsSound ==
  ASSUME DeletionInv, Deletion!RunDelete \/ Deletion!RunRestore
  PROVE  DeletionStep
<1>1. /\ UNCHANGED <<db, members, snapshot, writer, linking>> /\ op.runs + 1 \in Nat
      /\ snapshot \in [keys : Taken, memberships : SUBSET Identities]
      /\ members \subseteq Identities /\ db \in [RoomKeys -> SUBSET Values]
      /\ \A k \in RoomKeys : db[k] \in Held(k)
  BY ScriptHas DEF Deletion!RunDelete, Deletion!RunRestore, Deletion!Quiet, Deletion!requests,
     DeletionTypes
<1>2. /\ Deletion!NoRun \in Script /\ Deletion!NoRun.verifying = FALSE
      /\ Deletion!NoRun.status = "none"
  BY NoRunIsTyped
<1>3. CASE op' = [Deletion!NoRun EXCEPT !.at = "index", !.runs = op.runs + 1]
  <2> DEFINE a == [Deletion!NoRun EXCEPT !.at = "index"]
             b == [a EXCEPT !.runs = op.runs + 1]
  <2>1. a \in Script
    BY <1>2, ScriptFields DEF Stages
  <2>2. a.verifying = FALSE /\ a.at = "index" /\ a.status = "none"
    BY <1>2 DEF Script
  <2> HIDE DEF a
  <2>3. b \in Script
    BY <1>1, <2>1, ScriptFields
  <2>4. b.verifying = FALSE /\ b.at = "index" /\ b.status = "none"
    BY <2>1, <2>2 DEF Script
  <2>5. op' = b
    BY <1>3 DEF a
  <2> QED
    BY <1>1, <2>3, <2>4, <2>5, ScriptGoesOn
<1>4. CASE op' = [Deletion!NoRun EXCEPT !.at = "clashes", !.todo = Deletion!PlanOrder,
                                        !.runs = op.runs + 1]
  <2> DEFINE a == [Deletion!NoRun EXCEPT !.at = "clashes"]
             b == [a EXCEPT !.todo = Deletion!PlanOrder]
             c == [b EXCEPT !.runs = op.runs + 1]
  <2>1. a \in Script
    BY <1>2, ScriptFields DEF Stages
  <2>2. a.verifying = FALSE /\ a.at = "clashes" /\ a.status = "none"
    BY <1>2 DEF Script
  <2> HIDE DEF a
  <2>3. Deletion!PlanOrder \in Seq(RoomKeys)
    BY PlanIsOfKeys, ScriptHas
  <2>4. b \in Script
    BY <2>1, <2>3, ScriptFields
  <2>5. b.verifying = FALSE /\ b.at = "clashes" /\ b.status = "none"
    BY <2>1, <2>2 DEF Script
  <2> HIDE DEF b
  <2>6. c \in Script
    BY <1>1, <2>4, ScriptFields
  <2>7. c.verifying = FALSE /\ c.at = "clashes" /\ c.status = "none"
    BY <2>4, <2>5 DEF Script
  <2>8. op' = c
    BY <1>4 DEF a, b
  <2> QED
    BY <1>1, <2>6, <2>7, <2>8, ScriptGoesOn
<1>5. CASE op' = [Deletion!NoRun EXCEPT !.status = "refused", !.runs = op.runs + 1]
  <2>1. op' = Over("refused", op.runs + 1)
    BY <1>5 DEF Over
  <2>2. /\ op' \in Script /\ op'.at = "idle" /\ op'.verifying = FALSE /\ op'.status = "refused"
    BY <1>1, <2>1, OverIsIdle DEF Statuses
  <2>3. members' \subseteq Identities
    BY <1>1
  <2> QED
    BY <1>1, <2>2, <2>3, EndIsSound
<1> QED
  BY <1>3, <1>4, <1>5 DEF Deletion!RunDelete, Deletion!RunRestore
\* The script looks and takes notes: the store is as it was.
LEMMA ScriptLooks ==
  ASSUME DeletionInv, op' \in Script, op'.at # "restore", op'.status = "none", Staged', Verified',
         UNCHANGED <<db, members, snapshot, writer, linking>>
  PROVE  DeletionStep
<1>1. DeletionTypes'
  BY ScriptHas DEF DeletionTypes
<1> QED
  BY <1>1, NothingIsPromised

LEMMA RangeOfNone == Range(<<>>) = {}
  BY DEF Range

LEMMA DeriveIsSound ==
  ASSUME DeletionInv, Deletion!Derive
  PROVE  DeletionStep
<1>1. UNCHANGED <<db, members, snapshot, writer, linking, fresh>> /\ op.at = "index"
  BY DEF Deletion!Derive, Deletion!Quiet, Deletion!requests, Deletion!At
<1> DEFINE listed == Deletion!Listing(db["index"])
           all == Deletion!FixedOrder \o listed
<1>2. /\ db["index"] \subseteq Items /\ IsFiniteSet(db["index"])
  <2>1. "index" \in RoomKeys
    BY RoomKeysAreNamed
  <2>2. db["index"] \subseteq Items
    BY <2>1, ScriptHas, HeldMeans
  <2> QED
    BY <2>2, RoomKeysAreNamed, FS_Subset
<1>3. listed \in Seq(RoomKeys) /\ Range(listed) = db["index"]
  <2>1. listed \in Seq(db["index"]) /\ Range(listed) = db["index"]
    BY <1>2, ListOfSet
  <2>2. db["index"] \subseteq RoomKeys
    BY <1>2, RoomKeysAreNamed
  <2> HIDE DEF listed
  <2> QED
    BY <2>1, <2>2
<1> HIDE DEF listed
<1>4. all \in Seq(RoomKeys) /\ Range(all) = FixedKeys \cup db["index"]
  BY <1>3, RoomKeysAreNamed, ConcatProperties
<1> HIDE DEF all
<1>5. op' = [op EXCEPT !.at = "types", !.known = FixedKeys \cup db["index"], !.keys = <<>>,
                       !.todo = all]
  BY DEF Deletion!Derive, FixedKeys, all, listed
<1>6. FixedKeys \cup db["index"] \in SUBSET RoomKeys
  BY <1>2, RoomKeysAreNamed
<1> DEFINE known == FixedKeys \cup db["index"]
<1> HIDE DEF known
<1>7. /\ op' \in Script /\ op'.at = "types" /\ op'.known = known /\ op'.todo = all
      /\ op'.status = op.status /\ op'.verifying = op.verifying
  <2>1. op' = [op EXCEPT !.at = "types", !.known = known, !.keys = <<>>, !.todo = all]
    BY <1>5 DEF known
  <2>2. known \in SUBSET RoomKeys /\ <<>> \in Seq(RoomKeys) /\ "types" \in Stages
    BY <1>6 DEF known, Stages
  <2> QED
    BY <1>4, <2>1, <2>2, ScriptHas DEF Script
<1>8. op.status = "none"
  BY <1>1 DEF DeletionInv, Staged
<1>9. Staged'
  BY <1>7, <1>8 DEF Staged
<1>10. Verified'
  BY <1>4, <1>7 DEF Verified, known
<1> QED
  BY <1>1, <1>7, <1>8, <1>9, <1>10, ScriptLooks
\* A key is typed: if it exists it is kept, and it need not be fresh any more.
LEMMA TypeIsSound ==
  ASSUME DeletionInv, NEW k \in RoomKeys, Deletion!Type(k)
  PROVE  DeletionStep
<1>1. /\ UNCHANGED <<db, members, snapshot, writer, linking>> /\ op.at = "types"
      /\ op.todo # <<>> /\ Head(op.todo) = k /\ fresh' = fresh \ {k}
  BY DEF Deletion!Type, Deletion!Quiet, Deletion!requests, Deletion!At, Deletion!AtKey, Deletion!Look
<1> DEFINE kept == IF Deletion!Exists(k) THEN Append(op.keys, k) ELSE op.keys
           step == IF Len(op.todo) = 1 THEN "scan" ELSE op.at
           rest == Tail(op.todo)
<1>2. /\ rest \in Seq(RoomKeys) /\ Len(rest) = Len(op.todo) - 1
      /\ Range(op.todo) = {k} \cup Range(rest)
  BY <1>1, ScriptHas, TailProperties, HeadAndTail
<1>3. /\ kept \in Seq(RoomKeys) /\ Range(op.keys) \subseteq Range(kept)
      /\ Deletion!Exists(k) => k \in Range(kept)
  <2>1. /\ Append(op.keys, k) \in Seq(RoomKeys)
        /\ Range(Append(op.keys, k)) = Range(op.keys) \cup {k}
    BY ScriptHas, AppendProperties
  <2>2. op.keys \in Seq(RoomKeys)
    BY ScriptHas
  <2>3. CASE Deletion!Exists(k)
    BY <2>1, <2>3
  <2>4. CASE ~Deletion!Exists(k)
    BY <2>2, <2>4
  <2> QED
    BY <2>3, <2>4
<1>4. step \in {"types", "scan"} /\ (step = "scan" <=> Len(op.todo) = 1)
  BY <1>1
<1>5. op' = [op EXCEPT !.todo = rest, !.keys = kept, !.at = step]
  BY ScriptHas DEF Deletion!Type, Script
<1> HIDE DEF kept, step, rest
<1>6. /\ op' \in Script /\ op'.at = step /\ op'.known = op.known /\ op'.todo = rest
      /\ op'.keys = kept /\ op'.status = op.status /\ op'.verifying = op.verifying
  BY <1>2, <1>3, <1>4, <1>5, ScriptHas DEF Script, Stages
<1>7. op.status = "none"
  BY <1>1 DEF DeletionInv, Staged
<1>8. Staged'
  BY <1>4, <1>6, <1>7 DEF Staged
<1>9. Verified'
  <2> SUFFICES ASSUME op.verifying PROVE Verified'
    BY <1>6 DEF Verified
  <2>1. FixedKeys \subseteq op.known /\ \A x \in op.known : x \in Range(op.todo) \/ Seen(x)
    BY <1>1 DEF DeletionInv, Verified
  <2>2. \A x \in op.known : x \in Range(rest) \/ Seen(x)'
    <3> SUFFICES ASSUME NEW x \in op.known PROVE x \in Range(rest) \/ Seen(x)'
      OBVIOUS
    <3>1. Deletion!Exists(x)' <=> Deletion!Exists(x)
      BY <1>1 DEF Deletion!Exists
    <3>2. CASE x = k
      BY <1>3, <1>6, <3>1, <3>2 DEF Seen
    <3>3. CASE x # k
      BY <1>1, <1>2, <1>3, <1>6, <2>1, <3>1, <3>3 DEF Seen
    <3> QED
      BY <3>2, <3>3
  <2>3. step = "scan" => Range(rest) = {}
    <3>1. SUFFICES ASSUME step = "scan" PROVE Range(rest) = {}
      OBVIOUS
    <3>2. Len(rest) = 0
      BY <1>2, <1>4, <3>1
    <3>3. rest = <<>>
      BY <1>2, <3>2
    <3> QED
      BY <3>3, RangeOfNone
  <2> QED
    BY <1>4, <1>6, <2>1, <2>2, <2>3 DEF Verified
<1> QED
  BY <1>1, <1>4, <1>6, <1>7, <1>8, <1>9, ScriptLooks

\* The scan of the key space: what exists and is not on the list is unaccounted for.
LEMMA CrossCheckIsSound ==
  ASSUME DeletionInv, Deletion!CrossCheck
  PROVE  DeletionStep
<1>1. /\ UNCHANGED <<db, members, snapshot, writer, linking>> /\ op.at = "scan"
      /\ fresh' = fresh \ (Items \ op.known)
  BY DEF Deletion!CrossCheck, Deletion!Quiet, Deletion!requests, Deletion!At, Deletion!Look
<1> DEFINE extra == {k \in Items : Deletion!Exists(k)} \ op.known
<1>2. op' = [op EXCEPT !.at = "members", !.unaccounted = extra]
  BY DEF Deletion!CrossCheck
<1>3. /\ extra \in SUBSET Items
      /\ \A k \in Items \ op.known : Deletion!Exists(k) => k \in extra
  OBVIOUS
<1> HIDE DEF extra
<1>4. /\ op' \in Script /\ op'.at = "members" /\ op'.known = op.known /\ op'.unaccounted = extra
      /\ op'.keys = op.keys /\ op'.status = op.status /\ op'.verifying = op.verifying
  BY <1>2, <1>3, ScriptHas DEF Script, Stages
<1>5. op.status = "none"
  BY <1>1 DEF DeletionInv, Staged
<1>6. Staged'
  BY <1>4, <1>5 DEF Staged
<1>7. Verified'
  <2> SUFFICES ASSUME op.verifying PROVE Verified'
    BY <1>4 DEF Verified
  <2>1. FixedKeys \subseteq op.known /\ \A k \in op.known : Seen(k)
    BY <1>1 DEF DeletionInv, Verified
  <2>2. \A k \in op.known : Seen(k)'
    BY <1>1, <1>4, <2>1 DEF Seen, Deletion!Exists
  <2>3. \A k \in Items \ op.known : Deletion!Exists(k)' => k \in extra
    BY <1>1, <1>3 DEF Deletion!Exists
  <2> QED
    BY <1>4, <2>1, <2>2, <2>3 DEF Verified
<1> QED
  BY <1>1, <1>4, <1>5, <1>6, <1>7, ScriptLooks

\* The memberships are read last.
LEMMA MembershipsAreSound ==
  ASSUME DeletionInv, Deletion!Memberships
  PROVE  DeletionStep
<1>1. /\ UNCHANGED <<db, members, snapshot, writer, linking>> /\ op.at = "members"
      /\ fresh' = fresh \ {"members"}
  BY DEF Deletion!Memberships, Deletion!Quiet, Deletion!requests, Deletion!At, Deletion!Look
<1> DEFINE step == IF op.verifying THEN "report" ELSE "confirm"
<1>2. op' = [op EXCEPT !.memberships = members, !.at = step]
  BY DEF Deletion!Memberships
<1>3. step \in {"report", "confirm"} /\ (step = "report" <=> op.verifying)
  OBVIOUS
<1> HIDE DEF step
<1>4. /\ op' \in Script /\ op'.at = step /\ op'.known = op.known /\ op'.memberships = members
      /\ op'.unaccounted = op.unaccounted /\ op'.keys = op.keys /\ op'.status = op.status
      /\ op'.verifying = op.verifying
  BY <1>2, <1>3, ScriptHas DEF Script, Stages
<1>5. op.status = "none"
  BY <1>1 DEF DeletionInv, Staged
<1>6. Staged'
  BY <1>3, <1>4, <1>5 DEF Staged
<1>7. Verified'
  <2> SUFFICES ASSUME op.verifying PROVE Verified'
    BY <1>4 DEF Verified
  <2>1. /\ FixedKeys \subseteq op.known /\ \A k \in op.known : Seen(k)
        /\ \A k \in Items \ op.known : Deletion!Exists(k) => k \in fresh \cup op.unaccounted
    BY <1>1 DEF DeletionInv, Verified
  <2>2. \A k \in RoomKeys : k \in fresh => k \in fresh'
    BY <1>1, RoomKeysAreNamed
  <2>3. op.known \subseteq RoomKeys /\ Items \subseteq RoomKeys
    BY ScriptHas, RoomKeysAreNamed
  <2>4. \A k \in op.known : Seen(k)'
    BY <1>1, <1>4, <2>1, <2>2, <2>3 DEF Seen, Deletion!Exists
  <2>5. \A k \in Items \ op.known : Deletion!Exists(k)' => k \in fresh' \cup op.unaccounted
    BY <1>1, <2>1, <2>2, <2>3 DEF Deletion!Exists
  <2> QED
    BY <1>1, <1>3, <1>4, <2>1, <2>4, <2>5 DEF Verified
<1> QED
  BY <1>1, <1>3, <1>4, <1>5, <1>6, <1>7, ScriptLooks

\* The verdict.
LEMMA ReportIsSound ==
  ASSUME DeletionInv, Deletion!Report
  PROVE  DeletionStep
<1>1. /\ UNCHANGED <<db, members, snapshot, writer, linking, fresh>> /\ op.at = "report"
      /\ op.verifying
  BY DEF Deletion!Report, Deletion!Quiet, Deletion!requests, Deletion!At, DeletionInv, Staged
<1>2. PICK status \in {"deleted", "leftovers"} :
        /\ op' = Over(status, op.runs)
        /\ status = "deleted" => op.keys = <<>> /\ op.unaccounted \cup op.memberships = {}
  BY DEF Deletion!Report, Deletion!End, Over
<1>3. /\ op' \in Script /\ op'.at = "idle" /\ op'.verifying = FALSE /\ op'.status = status
  <2>1. status \in Statuses /\ op.runs \in Nat
    BY ScriptHas DEF Statuses
  <2> QED
    BY <1>2, <2>1, OverIsIdle
<1>4. DeletionTypes'
  BY <1>1, <1>3, ScriptHas DEF DeletionTypes
<1>5. Staged' /\ Verified' /\ Restored' /\ PutsBackLast
  BY <1>3 DEF Staged, Verified, Restored, PutsBackLast
<1>6. Deletion!ReportIsHonest'
  <2> SUFFICES ASSUME status = "deleted" PROVE Deletion!ReportIsHonest'
    BY <1>3 DEF Deletion!ReportIsHonest
  <2>1. Range(op.keys) = {} /\ op.unaccounted = {} /\ op.memberships = {}
    BY <1>2, RangeOfNone
  <2>2. /\ FixedKeys \subseteq op.known /\ \A k \in op.known : Seen(k)
        /\ \A k \in Items \ op.known : Deletion!Exists(k) => k \in fresh \cup op.unaccounted
        /\ members # {} => "members" \in fresh \/ op.memberships # {}
    BY <1>1 DEF DeletionInv, Verified
  <2>3. \A k \in RoomKeys : Deletion!Exists(k) => k \in fresh
    BY <2>1, <2>2, RoomKeysAreNamed DEF Seen
  <2> QED
    BY <1>1, <2>1, <2>2, <2>3 DEF Deletion!ReportIsHonest, Deletion!Exists, RoomKeys
<1> QED
  BY <1>4, <1>5, <1>6 DEF DeletionStep, DeletionInv
\* The run is over without a verdict on a deletion: refused, restored or killed.
LEMMA StopIsSound ==
  ASSUME DeletionInv, NEW status \in {"none", "refused", "restored"}, Deletion!End(status),
         UNCHANGED <<db, snapshot, writer, linking>>, members' \subseteq Identities
  PROVE  DeletionStep
<1>1. status \in Statuses /\ op.runs \in Nat /\ status # "deleted"
  BY ScriptHas DEF Statuses
<1>2. op' = Over(status, op.runs)
  BY DEF Deletion!End, Over
<1>3. /\ op' \in Script /\ op'.at = "idle" /\ op'.verifying = FALSE /\ op'.status = status
  BY <1>1, <1>2, OverIsIdle
<1> QED
  BY <1>1, <1>3, EndIsSound

LEMMA StopsAreSound ==
  ASSUME DeletionInv, Deletion!Abort \/ Deletion!Killed \/ Deletion!RestoreMemberships
  PROVE  DeletionStep
<1>1. UNCHANGED <<db, snapshot, writer, linking>> /\ members' \subseteq Identities
  <2>1. members' = members \/ members' = members \cup snapshot.memberships
    BY DEF Deletion!Abort, Deletion!Killed, Deletion!RestoreMemberships
  <2>2. UNCHANGED <<db, snapshot, writer, linking>>
    BY DEF Deletion!Abort, Deletion!Killed, Deletion!RestoreMemberships, Deletion!Quiet,
       Deletion!requests
  <2> QED
    BY <2>1, <2>2, ScriptHas
<1>2. \E status \in {"none", "refused", "restored"} : Deletion!End(status)
  BY DEF Deletion!Abort, Deletion!Killed, Deletion!RestoreMemberships
<1> QED
  BY <1>1, <1>2, StopIsSound

LEMMA ConfirmIsSound ==
  ASSUME DeletionInv, Deletion!Confirm
  PROVE  DeletionStep
<1>1. /\ UNCHANGED <<db, members, snapshot, writer, linking>> /\ op.at = "confirm"
      /\ op' = [op EXCEPT !.at = "snapshot", !.todo = op.keys]
  BY DEF Deletion!Confirm, Deletion!Quiet, Deletion!requests, Deletion!At
<1>2. /\ op' \in Script /\ op'.at = "snapshot" /\ op'.status = op.status
      /\ op'.verifying = op.verifying
  BY <1>1, ScriptHas DEF Script, Stages
<1>3. op.status = "none" /\ ~op.verifying
  BY <1>1 DEF DeletionInv, Staged
<1> QED
  BY <1>1, <1>2, <1>3, ScriptHas, ScriptLooks DEF Staged, Verified

LEMMA TakeSnapshotIsSound ==
  ASSUME DeletionInv, NEW k \in RoomKeys, Deletion!TakeSnapshot(k)
  PROVE  DeletionStep
<1>1. /\ UNCHANGED <<db, members, snapshot, writer, linking>> /\ op.at = "snapshot"
      /\ op.todo # <<>>
  BY DEF Deletion!TakeSnapshot, Deletion!Quiet, Deletion!requests, Deletion!At, Deletion!AtKey
<1> DEFINE before == op.taken
           more == [x \in DOMAIN before \cup {k} |-> IF x = k THEN db[k] ELSE before[x]]
           after == IF Deletion!Exists(k) THEN more ELSE before
           rest == Tail(op.todo)
<1>2. op' = [op EXCEPT !.todo = rest, !.taken = after]
  BY DEF Deletion!TakeSnapshot
<1>3. rest \in Seq(RoomKeys)
  BY <1>1, ScriptHas, TailProperties
<1>4. after \in Taken
  <2>1. /\ before \in Taken /\ db[k] \in Held(k) /\ db[k] \in SUBSET Values
    BY ScriptHas
  <2> HIDE DEF before
  <2>2. CASE Deletion!Exists(k)
    <3>1. /\ DOMAIN before \in SUBSET RoomKeys /\ before \in [DOMAIN before -> SUBSET Values]
          /\ \A x \in DOMAIN before : before[x] \in Held(x) /\ before[x] # {}
      BY <2>1, TakenMeans
    <3>2. DOMAIN before \cup {k} \in SUBSET RoomKeys
      BY <3>1
    <3>3. more \in [DOMAIN before \cup {k} -> SUBSET Values]
      BY <2>1, <3>1
    <3>4. \A x \in DOMAIN before \cup {k} : more[x] \in Held(x) /\ more[x] # {}
      BY <2>1, <2>2, <3>1 DEF Deletion!Exists
    <3> HIDE DEF more
    <3>5. more \in Taken
      BY <3>2, <3>3, <3>4, TakenMeans
    <3> QED
      BY <2>2, <3>5
  <2>3. CASE ~Deletion!Exists(k)
    BY <2>1, <2>3
  <2> QED
    BY <2>2, <2>3
<1> HIDE DEF after, rest
<1>5. /\ op' \in Script /\ op'.at = "snapshot" /\ op'.status = op.status
      /\ op'.verifying = op.verifying
  BY <1>1, <1>2, <1>3, <1>4, ScriptHas DEF Script
<1>6. op.status = "none" /\ ~op.verifying
  BY <1>1 DEF DeletionInv, Staged
<1> QED
  BY <1>1, <1>5, <1>6, ScriptHas, ScriptLooks DEF Staged, Verified

LEMMA SaveSnapshotIsSound ==
  ASSUME DeletionInv, Deletion!SaveSnapshot
  PROVE  DeletionStep
<1>1. /\ UNCHANGED <<db, members, writer, linking>> /\ op.at = "snapshot"
      /\ snapshot' = [keys |-> op.taken, memberships |-> op.memberships]
      /\ op' = [op EXCEPT !.at = "record"]
  BY DEF Deletion!SaveSnapshot, Deletion!Quiet, Deletion!requests, Deletion!At
<1>2. snapshot' \in [keys : Taken, memberships : SUBSET Identities]
  BY <1>1, ScriptHas
<1>3. /\ op' \in Script /\ op'.at = "record" /\ op'.status = op.status
      /\ op'.verifying = op.verifying
  BY <1>1, ScriptHas DEF Script, Stages
<1>4. op.status = "none" /\ ~op.verifying
  BY <1>1 DEF DeletionInv, Staged
<1>5. db' \in [RoomKeys -> SUBSET Values] /\ \A k \in RoomKeys : db'[k] \in Held(k)
  BY <1>1, ScriptHas
<1> QED
  BY <1>1, <1>2, <1>3, <1>4, <1>5, ScriptGoesOn

LEMMA DeleteIsSound ==
  ASSUME DeletionInv, Deletion!DeleteRecord \/ Deletion!DeleteRest
  PROVE  DeletionStep
<1>1. /\ UNCHANGED <<members, snapshot, writer, linking>> /\ op.at \in {"record", "rest"}
      /\ \E keys : Deletion!Del(keys)
      /\ \E step \in {"rest", "srem"} : op' = [op EXCEPT !.at = step]
  BY DEF Deletion!DeleteRecord, Deletion!DeleteRest, Deletion!Quiet, Deletion!requests, Deletion!At
<1>2. /\ op' \in Script /\ op'.at \in {"rest", "srem"} /\ op'.status = op.status
      /\ op'.verifying = op.verifying
  BY <1>1, ScriptHas DEF Script, Stages
<1>3. op.status = "none" /\ ~op.verifying
  BY <1>1 DEF DeletionInv, Staged
<1>4. db' \in [RoomKeys -> SUBSET Values] /\ \A k \in RoomKeys : db'[k] \in Held(k)
  <2>1. PICK keys : db' = [k \in RoomKeys |-> IF k \in keys THEN {} ELSE db[k]]
    BY <1>1 DEF Deletion!Del, RoomKeys
  <2>2. \A k : {} \in Held(k)
    BY HeldMeans
  <2> QED
    BY <2>1, <2>2, ScriptHas
<1>5. snapshot' \in [keys : Taken, memberships : SUBSET Identities]
  BY <1>1, ScriptHas DEF DeletionTypes
<1> QED
  BY <1>1, <1>2, <1>3, <1>4, <1>5, ScriptGoesOn

\* The verification starts with nothing known.
LEMMA RemoveMembershipsIsSound ==
  ASSUME DeletionInv, Deletion!RemoveMemberships
  PROVE  DeletionStep
<1>1. /\ UNCHANGED <<db, snapshot, writer, linking>> /\ op.at = "srem"
      /\ members' = members \ op.memberships
      /\ op' = [op EXCEPT !.at = "index", !.verifying = TRUE]
  BY DEF Deletion!RemoveMemberships, Deletion!Quiet, Deletion!requests, Deletion!At
<1>2. /\ op' \in Script /\ op'.at = "index" /\ op'.status = op.status /\ op'.verifying = TRUE
  BY <1>1, ScriptHas DEF Script, Stages
<1>3. op.status = "none"
  BY <1>1 DEF DeletionInv, Staged
<1>4. DeletionTypes'
  BY <1>1, <1>2, ScriptHas DEF DeletionTypes
<1>5. Staged' /\ Verified'
  BY <1>2, <1>3 DEF Staged, Verified
<1> QED
  BY <1>2, <1>3, <1>4, <1>5, NothingIsPromised

LEMMA CheckClashIsSound ==
  ASSUME DeletionInv, NEW k \in RoomKeys, Deletion!CheckClash(k)
  PROVE  DeletionStep
<1>1. /\ UNCHANGED <<db, members, snapshot, writer, linking>> /\ op.at = "clashes"
      /\ op.todo # <<>> /\ members' \subseteq Identities
  BY ScriptHas DEF Deletion!CheckClash, Deletion!Quiet, Deletion!requests, Deletion!At, Deletion!AtKey
<1>2. CASE Deletion!End("refused")
  BY <1>1, <1>2, StopIsSound
<1>3. CASE op' = [op EXCEPT !.todo = Tail(@)]
  <2> DEFINE rest == Tail(op.todo)
  <2>1. rest \in Seq(RoomKeys)
    BY <1>1, ScriptHas, TailProperties
  <2>2. op' = [op EXCEPT !.todo = rest]
    BY <1>3
  <2> HIDE DEF rest
  <2>3. /\ op' \in Script /\ op'.at = "clashes" /\ op'.status = op.status
        /\ op'.verifying = op.verifying
    BY <1>1, <2>1, <2>2, ScriptHas DEF Script
  <2>4. op.status = "none" /\ ~op.verifying
    BY <1>1 DEF DeletionInv, Staged
  <2> QED
    BY <1>1, <2>3, <2>4, ScriptHas, ScriptLooks DEF Staged, Verified
<1> QED
  BY <1>2, <1>3 DEF Deletion!CheckClash
\* The undo puts everything of the snapshot back, the record last.
LEMMA RecordIsLast ==
  ASSUME snapshot.keys \in Taken
  PROVE  LET order == Deletion!RecordLast
         IN  /\ order \in Seq(RoomKeys) /\ Range(order) = DOMAIN snapshot.keys
             /\ \A i, j \in DOMAIN order : i < j /\ order[i] = "meta" => order[j] = "meta"
<1> DEFINE plan1 == Deletion!PlanOrder
           a == Deletion!Kept(plan1, RoomKeys \ {"meta"})
           b == Deletion!Kept(plan1, {"meta"})
<1>1. plan1 \in Seq(RoomKeys) /\ Range(plan1) = DOMAIN snapshot.keys
  BY PlanIsOfKeys
<1>2. DOMAIN snapshot.keys \subseteq RoomKeys
  BY TakenMeans
<1>3. Deletion!RecordLast = a \o b
  BY DEF Deletion!RecordLast, RoomKeys
<1> HIDE DEF plan1
<1>4. /\ a \in Seq(RoomKeys) /\ Range(a) = Range(plan1) \cap (RoomKeys \ {"meta"})
      /\ b \in Seq(RoomKeys) /\ Range(b) = Range(plan1) \cap {"meta"}
  BY <1>1, DeletionKept
<1> HIDE DEF a, b
<1> DEFINE c == a \o b
<1>5. c \in Seq(RoomKeys) /\ Range(c) = Range(a) \cup Range(b)
  BY <1>4, ConcatProperties
<1>6. Range(c) = DOMAIN snapshot.keys
  BY <1>1, <1>2, <1>4, <1>5
<1>7. ASSUME NEW i \in DOMAIN c, NEW j \in DOMAIN c, i < j, c[i] = "meta"
      PROVE  c[j] = "meta"
  <2>1. /\ Len(a) \in Nat /\ Len(b) \in Nat /\ DOMAIN a = 1..Len(a) /\ DOMAIN b = 1..Len(b)
        /\ DOMAIN c = 1..(Len(a) + Len(b))
        /\ \A x \in 1..Len(a) : c[x] = a[x]
        /\ \A x \in DOMAIN c : x > Len(a) => x - Len(a) \in DOMAIN b /\ c[x] = b[x - Len(a)]
    BY <1>4
  <2>2. \A x \in DOMAIN a : a[x] # "meta"
    BY <1>4 DEF Range
  <2>3. i > Len(a)
    BY <1>7, <2>1, <2>2
  <2>4. j > Len(a) /\ j - Len(a) \in DOMAIN b /\ c[j] = b[j - Len(a)]
    BY <1>7, <2>1, <2>3
  <2>5. \A x \in DOMAIN b : b[x] = "meta"
    BY <1>4 DEF Range
  <2> QED
    BY <2>4, <2>5
<1> QED
  BY <1>3, <1>5, <1>6, <1>7

LEMMA StartRestoreIsSound ==
  ASSUME DeletionInv, Deletion!StartRestore
  PROVE  DeletionStep
<1>1. /\ UNCHANGED <<db, members, snapshot, writer, linking>> /\ op.at = "clashes"
      /\ op' = [op EXCEPT !.at = "restore", !.todo = Deletion!RecordLast]
  BY DEF Deletion!StartRestore, Deletion!Quiet, Deletion!requests, Deletion!At
<1> DEFINE order == Deletion!RecordLast
<1>2. /\ order \in Seq(RoomKeys) /\ Range(order) = DOMAIN snapshot.keys
      /\ \A i, j \in DOMAIN order : i < j /\ order[i] = "meta" => order[j] = "meta"
  BY ScriptHas, RecordIsLast
<1> HIDE DEF order
<1>3. /\ op' \in Script /\ op'.at = "restore" /\ op'.status = op.status /\ op'.todo = order
      /\ op'.verifying = op.verifying
  BY <1>1, <1>2, ScriptHas DEF Script, Stages, order
<1>4. op.status = "none" /\ ~op.verifying
  BY <1>1 DEF DeletionInv, Staged
<1>5. DeletionTypes'
  BY <1>1, <1>3, ScriptHas DEF DeletionTypes
<1>6. Staged' /\ Verified' /\ Deletion!ReportIsHonest'
  BY <1>3, <1>4 DEF Staged, Verified, Deletion!ReportIsHonest
<1>7. Restored'
  BY <1>1, <1>2, <1>3 DEF Restored
<1>8. PutsBackLast
  BY <1>1 DEF PutsBackLast, Deletion!AtKey, Deletion!At
<1> QED
  BY <1>5, <1>6, <1>7, <1>8 DEF DeletionStep, DeletionInv

\* A key is put back, or added to if requests have made it anew.
LEMMA RestoreKeyIsSound ==
  ASSUME DeletionInv, NEW k \in RoomKeys, Deletion!RestoreKey(k)
  PROVE  DeletionStep
<1>1. /\ UNCHANGED <<members, snapshot, writer, linking>> /\ op.at = "restore" /\ op.todo # <<>>
      /\ Head(op.todo) = k /\ fresh' = fresh \ {k}
  BY DEF Deletion!RestoreKey, Deletion!Quiet, Deletion!requests, Deletion!At, Deletion!AtKey,
     Deletion!Look
<1> DEFINE rest == Tail(op.todo)
           v == snapshot.keys[k] \cup (IF k \in Deletion!ListKeys THEN db[k] ELSE {})
<1>2. /\ rest \in Seq(RoomKeys) /\ Range(op.todo) = {k} \cup Range(rest)
      /\ DOMAIN op.todo = 1..Len(op.todo) /\ Len(op.todo) \in Nat /\ op.todo[1] = k
      /\ 1 \in DOMAIN op.todo /\ Len(rest) = Len(op.todo) - 1 /\ DOMAIN rest = 1..Len(rest)
      /\ \A i \in DOMAIN rest : i + 1 \in DOMAIN op.todo /\ rest[i] = op.todo[i + 1]
  <2>1. op.todo \in Seq(RoomKeys)
    BY ScriptHas
  <2>2. /\ rest \in Seq(RoomKeys) /\ Len(rest) = Len(op.todo) - 1
        /\ Range(op.todo) = {k} \cup Range(rest)
    BY <1>1, <2>1, TailProperties, HeadAndTail
  <2>3. /\ DOMAIN op.todo = 1..Len(op.todo) /\ Len(op.todo) \in Nat /\ op.todo[1] = k
        /\ 1 \in DOMAIN op.todo
    BY <1>1, <2>1
  <2>4. /\ DOMAIN rest = 1..Len(rest)
        /\ \A i \in DOMAIN rest : i + 1 \in DOMAIN op.todo /\ rest[i] = op.todo[i + 1]
    BY <1>1, <2>1
  <2> QED
    BY <2>2, <2>3, <2>4
<1>3. op' = [op EXCEPT !.todo = rest]
  BY ScriptHas DEF Deletion!RestoreKey
<1>4. db' = [db EXCEPT ![k] = v]
  BY DEF Deletion!RestoreKey
<1>5. /\ Range(op.todo) \subseteq DOMAIN snapshot.keys
      /\ \A x \in DOMAIN snapshot.keys : x \in Range(op.todo) \/ Deletion!Exists(x) \/ x \in fresh
      /\ \A i, j \in DOMAIN op.todo : i < j /\ op.todo[i] = "meta" => op.todo[j] = "meta"
  BY <1>1 DEF DeletionInv, Restored
<1>6. v \in Held(k) /\ v # {}
  <2>1. snapshot.keys[k] \in Held(k) /\ snapshot.keys[k] # {}
    BY <1>2, <1>5, ScriptHas, TakenMeans
  <2>2. db[k] \in Held(k)
    BY ScriptHas
  <2>3. \A a, b : a \in Held(k) /\ b \in Held(k) => a \cup b \in Held(k)
    BY DEF Held
  <2>4. {} \in Held(k)
    BY HeldMeans
  <2> QED
    BY <2>1, <2>2, <2>3, <2>4
<1> HIDE DEF rest, v
<1>7. /\ op' \in Script /\ op'.at = "restore" /\ op'.status = op.status /\ op'.todo = rest
      /\ op'.verifying = op.verifying
  BY <1>1, <1>2, <1>3, ScriptHas DEF Script
<1>8. op.status = "none" /\ ~op.verifying
  BY <1>1 DEF DeletionInv, Staged
<1>9. /\ db' \in [RoomKeys -> SUBSET Values] /\ \A x \in RoomKeys : db'[x] \in Held(x)
      /\ db'[k] = v /\ \A x \in RoomKeys : x # k => db'[x] = db[x]
  <2>1. v \in SUBSET Values
    BY <1>6 DEF Held, Values
  <2> QED
    BY <1>4, <1>6, <2>1, ScriptHas
<1>10. DeletionTypes'
  BY <1>1, <1>7, <1>9, ScriptHas DEF DeletionTypes
<1>11. Staged' /\ Verified' /\ Deletion!ReportIsHonest'
  BY <1>7, <1>8 DEF Staged, Verified, Deletion!ReportIsHonest
<1>12. DOMAIN snapshot.keys \subseteq RoomKeys
  BY ScriptHas, TakenMeans
<1>13. \A x \in DOMAIN snapshot.keys : x \in Range(rest) \/ Deletion!Exists(x)' \/ x \in fresh'
  <2> SUFFICES ASSUME NEW x \in DOMAIN snapshot.keys
               PROVE  x \in Range(rest) \/ Deletion!Exists(x)' \/ x \in fresh'
    OBVIOUS
  <2>1. CASE x = k
    BY <1>6, <1>9, <2>1 DEF Deletion!Exists
  <2>2. CASE x # k
    BY <1>1, <1>2, <1>5, <1>9, <1>12, <2>2 DEF Deletion!Exists
  <2> QED
    BY <2>1, <2>2
<1>14. \A i, j \in DOMAIN rest : i < j /\ rest[i] = "meta" => rest[j] = "meta"
  <2> SUFFICES ASSUME NEW i \in DOMAIN rest, NEW j \in DOMAIN rest, i < j, rest[i] = "meta"
               PROVE  rest[j] = "meta"
    OBVIOUS
  <2>1. /\ i + 1 \in DOMAIN op.todo /\ j + 1 \in DOMAIN op.todo /\ i + 1 < j + 1
        /\ rest[i] = op.todo[i + 1] /\ rest[j] = op.todo[j + 1]
    BY <1>2
  <2> QED
    BY <1>5, <2>1
<1>15. Restored'
  BY <1>1, <1>2, <1>5, <1>7, <1>13, <1>14 DEF Restored
<1>16. PutsBackLast
  <2> SUFFICES ASSUME k = "meta", NEW x \in DOMAIN snapshot.keys
               PROVE  Deletion!Exists(x)' \/ x \in fresh
    BY <1>1 DEF PutsBackLast, Deletion!AtKey
  <2>1. \A i \in DOMAIN op.todo : op.todo[i] = "meta"
    <3> SUFFICES ASSUME NEW i \in DOMAIN op.todo PROVE op.todo[i] = "meta"
      OBVIOUS
    <3>1. i = 1 \/ 1 < i
      BY <1>2
    <3> QED
      BY <1>2, <1>5, <3>1
  <2>2. \A y \in Range(op.todo) : y = "meta"
    BY <2>1 DEF Range
  <2>3. CASE x = k
    BY <1>6, <1>9, <2>3 DEF Deletion!Exists
  <2>4. CASE x # k
    BY <1>5, <1>9, <1>12, <2>2, <2>4 DEF Deletion!Exists
  <2> QED
    BY <2>3, <2>4
<1> QED
  BY <1>10, <1>11, <1>15, <1>16 DEF DeletionStep, DeletionInv

LEMMA DeletionStarts == StoresInit => DeletionInv
<1> SUFFICES ASSUME StoresInit PROVE DeletionInv
  OBVIOUS
<1>1. /\ db = [k \in RoomKeys |-> {}] /\ members = {} /\ linking = {}
      /\ writer = [w \in Writers |-> Deletion!NoWriter]
      /\ op = Deletion!NoRun /\ snapshot = Deletion!NoSnapshot
  BY DEF StoresInit, Deletion!Init, RoomKeys
<1>2. op \in Script /\ op.at = "idle" /\ op.verifying = FALSE /\ op.status = "none"
  BY <1>1, NoRunIsTyped
<1>3. Deletion!NoWriter \in RequestRecord /\ Deletion!NoWriter.todo = <<>>
  <2>1. <<>> \in Seq({"put", "drop"} \X RoomKeys)
    OBVIOUS
  <2> QED
    BY <2>1 DEF Deletion!NoWriter, RequestRecord
<1>4. \A k : {} \in Held(k)
  BY HeldMeans
<1>5. DeletionTypes
  BY <1>1, <1>2, <1>3, <1>4, NoRunIsTyped DEF DeletionTypes
<1>6. Staged /\ Verified /\ Restored /\ Deletion!ReportIsHonest
  BY <1>2 DEF Staged, Verified, Restored, Deletion!ReportIsHonest
<1> QED
  BY <1>5, <1>6 DEF DeletionInv

LEMMA ScriptMoves ==
  ASSUME DeletionInv, Deletion!Script
  PROVE  DeletionStep
<1>1. CASE Deletion!RunDelete \/ Deletion!RunRestore
  BY <1>1, RunIsSound
<1>2. CASE Deletion!Derive
  BY <1>2, DeriveIsSound
<1>3. CASE Deletion!CrossCheck
  BY <1>3, CrossCheckIsSound
<1>4. CASE Deletion!Memberships
  BY <1>4, MembershipsAreSound
<1>5. CASE Deletion!Abort \/ Deletion!Killed \/ Deletion!RestoreMemberships
  BY <1>5, StopsAreSound
<1>6. CASE Deletion!Confirm
  BY <1>6, ConfirmIsSound
<1>7. CASE Deletion!SaveSnapshot
  BY <1>7, SaveSnapshotIsSound
<1>8. CASE Deletion!DeleteRecord \/ Deletion!DeleteRest
  BY <1>8, DeleteIsSound
<1>9. CASE Deletion!RemoveMemberships
  BY <1>9, RemoveMembershipsIsSound
<1>10. CASE Deletion!Report
  BY <1>10, ReportIsSound
<1>11. CASE Deletion!StartRestore
  BY <1>11, StartRestoreIsSound
<1>12. CASE \E k \in Deletion!Keys : \/ Deletion!Type(k) \/ Deletion!TakeSnapshot(k)
                                     \/ Deletion!CheckClash(k) \/ Deletion!RestoreKey(k)
  BY <1>12, TypeIsSound, TakeSnapshotIsSound, CheckClashIsSound, RestoreKeyIsSound DEF RoomKeys
<1> QED
  BY <1>1, <1>2, <1>3, <1>4, <1>5, <1>6, <1>7, <1>8, <1>9, <1>10, <1>11, <1>12 DEF Deletion!Script

LEMMA RoomMoves ==
  ASSUME DeletionInv, Deletion!Room
  PROVE  DeletionStep
<1>1. CASE \E u \in Identities : Deletion!Create(u) \/ Deletion!AddRoom(u)
  BY <1>1, CreateIsWatched
<1>2. CASE \E w \in Writers : Deletion!Begin(w) \/ Deletion!CompareAndSet(w)
  BY <1>2, BeginIsWatched, CompareAndSetIsWatched
<1>3. CASE \E w \in Writers, k \in Deletion!Keys : Deletion!Put(w, k) \/ Deletion!Drop(w, k)
  BY <1>3, PutOrDropIsWatched DEF RoomKeys
<1> QED
  BY <1>1, <1>2, <1>3 DEF Deletion!Room

LEMMA DeletionMoves ==
  ASSUME DeletionInv, [Deletion!Next]_deletionVars
  PROVE  DeletionStep
<1>1. CASE Deletion!Next
  BY <1>1, ScriptMoves, RoomMoves DEF Deletion!Next
<1>2. CASE UNCHANGED deletionVars
  <2>1. UNCHANGED <<db, members, linking, writer, op, snapshot, fresh>>
    BY <1>2 DEF deletionVars
  <2>2. DeletionTypes'
    BY <2>1 DEF DeletionInv, DeletionTypes
  <2> QED
    BY <2>1, <2>2, RequestIsWatched
<1> QED
  BY <1>1, <1>2

\* What is there after a clean report came after the verification had looked for it, and
\* an undone room reappears complete, whatever requests run beside the script and wherever
\* it is killed (applyDelete :188, restoreSnapshot :264, src/lib/room-delete.ts).
THEOREM RoomsAreDeletedSoundly ==
  StoresSpec => [](part = "deletion" => Deletion!ReportIsHonest) /\ Deletion!ReappearsComplete
<1>1. StoresInit => DeletionInv
  BY DeletionStarts
<1>2. [StoresNext]_storesVars => [Deletion!Next]_deletionVars
  BY DEF StoresNext, Alone, storesVars
<1>3. DeletionInv /\ [Deletion!Next]_deletionVars => DeletionInv' /\ [PutsBackLast]_(Deletion!vars)
  BY DeletionMoves DEF DeletionStep
<1>4. DeletionInv => Deletion!ReportIsHonest
  BY DEF DeletionInv
<1>5. PutsBackLast =>
        (Deletion!AtKey("restore", "meta") /\ op'.at = "restore" /\ op' # op =>
           \A k \in DOMAIN snapshot.keys : Deletion!Exists(k)' \/ k \in fresh)
  BY DEF PutsBackLast
<1> QED
  BY <1>1, <1>2, <1>3, <1>4, <1>5, PTL DEF StoresSpec, Deletion!ReappearsComplete

\* Rooms are made within their ceiling and go without a trace that the script did not
\* report (createRoom, src/lib/rooms.ts:1050; src/lib/room-delete.ts).
THEOREM RoomsComeAndGoSoundly == StoresSpec => RoomsComeAndGo
<1> QED
  BY RoomsAreMadeSoundly, RoomsAreDeletedSoundly DEF RoomsComeAndGo
-----------------------------------------------------------------------------
(* Serving the index (IndexStore).                                         *)

Times == [Shelves -> Nat]

\* A stamp is never ahead of its shard, nor either ahead of the clock; of a harvest that is
\* being written, the shard is there once the stamp is what is left.
ShelvesInv ==
  /\ indexNow \in Nat \ {0} /\ stored \in Times /\ stamps \in Times
  /\ \A c \in Shelves :
       /\ stamps[c] <= indexNow
       /\ stored[c] # 0 => stamps[c] <= stored[c] /\ stored[c] <= indexNow
                           /\ indexNow - stored[c] < MAX_AGE

\* The harvest being written is of now, or of the minute before, and newest of all.
WritingInv ==
  writing = Shards!NoWrite \/
    /\ writing \in [channel : Shelves, at : Nat \ {0}, left : {Shards!WriteOrder, <<"stamp">>}]
    /\ writing.at <= indexNow /\ indexNow <= writing.at + 1
    /\ \A c \in Shelves : stored[c] <= writing.at /\ stamps[c] <= writing.at
    /\ writing.left = Shards!WriteOrder => stamps[writing.channel] < writing.at
    /\ writing.left = <<"stamp">> => stored[writing.channel] = writing.at

\* A signature names no stamp that is not there yet, and what it shares with the shards
\* stored now the copy has.
CopyInv ==
  /\ loaded \in [is : BOOLEAN, failed : BOOLEAN, at : Nat, rows : Times, sig : Times]
  /\ \A c \in Shelves :
       /\ loaded.sig[c] <= stamps[c]
       /\ loaded.sig[c] # 0 /\ loaded.sig[c] = stored[c] => loaded.rows[c] = stored[c]

\* The load under way, somebody waits for, and the stamps it has read.
LoadInv ==
  /\ inflight \in [at : {None, "begin", "mget"}, now : Nat, sig : Times]
  /\ inflight.now <= indexNow
  /\ \A c \in Shelves : inflight.at = "mget" => inflight.sig[c] <= stamps[c]
  /\ waiting \in [Requests -> Nat \cup {None}]
  /\ inflight.at # None => \E r \in Requests : waiting[r] # None

AnswerInv ==
  /\ served \in [rows : Times, asked : Nat, since : Nat]
  /\ Shards!NoStaleRows

ServingInv == ShelvesInv /\ WritingInv /\ CopyInv /\ LoadInv /\ AnswerInv

LEMMA ServingStarts == StoresInit => ServingInv
<1> SUFFICES ASSUME StoresInit PROVE ServingInv
  OBVIOUS
<1>1. Shards!Init
  BY DEF StoresInit
<1>2. Shards!NoShards \in Times /\ \A c \in Shelves : Shards!NoShards[c] = 0
  BY DEF Shards!NoShards, Times
<1>3. ShelvesInv
  BY <1>1, <1>2 DEF Shards!Init, ShelvesInv
<1>4. WritingInv
  BY <1>1 DEF Shards!Init, WritingInv
<1>5. CopyInv
  BY <1>1, <1>2 DEF Shards!Init, Shards!NotLoaded, CopyInv
<1>6. LoadInv
  BY <1>1, <1>2 DEF Shards!Init, Shards!NoLoad, LoadInv
<1>7. AnswerInv
  BY <1>1, <1>2 DEF Shards!Init, Shards!NoAnswer, AnswerInv, Shards!NoStaleRows
<1> QED
  BY <1>3, <1>4, <1>5, <1>6, <1>7 DEF ServingInv

\* Time drops old shards, and a harvest is written within its minute.
LEMMA ShelvesAge == ServingInv /\ Shards!Tick => ServingInv'
<1> SUFFICES ASSUME ServingInv, Shards!Tick PROVE ServingInv'
  OBVIOUS
<1> USE DEF ServingInv, Times
<1>1. /\ indexNow \in Nat \ {0} /\ indexNow' = indexNow + 1
      /\ stored' = [c \in Shelves |-> IF Shards!Fresh(stored[c], indexNow') THEN stored[c] ELSE 0]
      /\ writing = Shards!NoWrite \/ writing.at = indexNow
      /\ UNCHANGED <<stamps, writing, loaded, inflight, waiting, served, indexFaults>>
  BY DEF Shards!Tick, Shards!instance, ShelvesInv
<1>2. MAX_AGE \in Nat /\ 1 < MAX_AGE
  BY ShardsAssumption DEF Shards!IndexStoreAssumption
<1>3. ShelvesInv'
  BY <1>1 DEF ShelvesInv, Shards!Fresh
<1>4. WritingInv'
  <2> SUFFICES ASSUME writing # Shards!NoWrite PROVE WritingInv'
    BY <1>1 DEF WritingInv, Shards!NoWrite
  <2>1. writing \in [channel : Shelves, at : Nat \ {0}, left : {Shards!WriteOrder, <<"stamp">>}]
    BY DEF WritingInv
  <2>2. writing.left = <<"stamp">> => stored'[writing.channel] = writing.at
    BY <1>1, <1>2, <2>1 DEF WritingInv, Shards!Fresh
  <2>3. \A c \in Shelves : stored'[c] <= writing.at
    BY <1>1, <2>1 DEF WritingInv
  <2> QED
    BY <1>1, <2>1, <2>2, <2>3 DEF WritingInv, Shards!WriteOrder
<1>5. CopyInv'
  BY <1>1 DEF CopyInv
<1>6. LoadInv'
  BY <1>1 DEF LoadInv
<1>7. AnswerInv'
  BY <1>1 DEF AnswerInv, Shards!NoStaleRows, Shards!Fresh
<1> QED
  BY <1>3, <1>4, <1>5, <1>6, <1>7

\* A harvest begins, after all that is stored.
LEMMA HarvestBegins == ServingInv /\ (\E c \in Shelves : Shards!Harvest(c)) => ServingInv'
<1> SUFFICES ASSUME ServingInv, NEW c \in Shelves, Shards!Harvest(c) PROVE ServingInv'
  OBVIOUS
<1> USE DEF ServingInv, Times
<1>1. /\ stamps[c] # indexNow
      /\ writing' = [channel |-> c, at |-> indexNow, left |-> Shards!WriteOrder]
      /\ UNCHANGED <<indexNow, stored, stamps, loaded, inflight, waiting, served, indexFaults>>
  BY DEF Shards!Harvest, Shards!instance
<1>2. WritingInv'
  <2>1. \A d \in Shelves : stored[d] <= indexNow /\ stamps[d] <= indexNow
    BY DEF ShelvesInv
  <2>2. stamps[c] < indexNow
    BY <1>1, <2>1 DEF ShelvesInv
  <2>3. Shards!WriteOrder # <<"stamp">>
    BY DEF Shards!WriteOrder
  <2> QED
    BY <1>1, <2>1, <2>2, <2>3 DEF WritingInv, ShelvesInv
<1> QED
  BY <1>1, <1>2 DEF ShelvesInv, CopyInv, LoadInv, AnswerInv, Shards!NoStaleRows

\* One of its two commands.
LEMMA ShardIsWritten == ServingInv /\ Shards!WriteShard => ServingInv'
<1> SUFFICES ASSUME ServingInv, Shards!WriteShard PROVE ServingInv'
  OBVIOUS
<1> USE DEF ServingInv, Times
<1>1. /\ writing # Shards!NoWrite
      /\ IF Head(writing.left) = "shard"
         THEN stored' = [stored EXCEPT ![writing.channel] = writing.at] /\ UNCHANGED stamps
         ELSE stamps' = [stamps EXCEPT ![writing.channel] = writing.at] /\ UNCHANGED stored
      /\ writing' = IF Len(writing.left) = 1 THEN Shards!NoWrite
                    ELSE [writing EXCEPT !.left = Tail(@)]
      /\ UNCHANGED <<indexNow, loaded, inflight, waiting, served, indexFaults>>
  BY DEF Shards!WriteShard, Shards!instance
<1>2. /\ writing \in [channel : Shelves, at : Nat \ {0}, left : {Shards!WriteOrder, <<"stamp">>}]
      /\ writing.at <= indexNow /\ indexNow <= writing.at + 1
      /\ \A c \in Shelves : stored[c] <= writing.at /\ stamps[c] <= writing.at
      /\ writing.left = Shards!WriteOrder => stamps[writing.channel] < writing.at
      /\ writing.left = <<"stamp">> => stored[writing.channel] = writing.at
  BY <1>1 DEF WritingInv
<1>3. indexNow - writing.at < MAX_AGE
  BY <1>2, ShardsAssumption DEF Shards!IndexStoreAssumption, ShelvesInv
<1>4. AnswerInv'
  BY <1>1 DEF AnswerInv, Shards!NoStaleRows
<1>5. CASE writing.left = Shards!WriteOrder
  <2>1. /\ stored' = [stored EXCEPT ![writing.channel] = writing.at] /\ UNCHANGED stamps
        /\ writing' = [writing EXCEPT !.left = <<"stamp">>]
    BY <1>1, <1>5 DEF Shards!WriteOrder
  <2>2. ShelvesInv'
    BY <1>1, <1>2, <1>3, <2>1 DEF ShelvesInv
  <2>3. WritingInv'
    <3>1. <<"stamp">> # Shards!WriteOrder
      BY DEF Shards!WriteOrder
    <3>2. writing' \in [channel : Shelves, at : Nat \ {0}, left : {Shards!WriteOrder, <<"stamp">>}]
          /\ writing'.left = <<"stamp">> /\ writing'.at = writing.at
          /\ writing'.channel = writing.channel
      BY <1>2, <2>1
    <3>3. stored'[writing.channel] = writing.at
          /\ \A c \in Shelves : stored'[c] <= writing.at /\ stamps'[c] <= writing.at
      BY <1>2, <2>1 DEF ShelvesInv
    <3> QED
      BY <1>1, <1>2, <3>1, <3>2, <3>3 DEF WritingInv
  <2>4. CopyInv'
    BY <1>1, <1>2, <1>5, <2>1 DEF CopyInv, ShelvesInv
  <2>5. LoadInv'
    BY <1>1, <2>1 DEF LoadInv
  <2> QED
    BY <1>4, <2>2, <2>3, <2>4, <2>5
<1>6. CASE writing.left = <<"stamp">>
  <2>1. /\ stamps' = [stamps EXCEPT ![writing.channel] = writing.at] /\ UNCHANGED stored
        /\ writing' = Shards!NoWrite
    BY <1>1, <1>6
  <2>2. ShelvesInv'
    BY <1>1, <1>2, <1>6, <2>1 DEF ShelvesInv
  <2>3. WritingInv'
    BY <2>1 DEF WritingInv, Shards!NoWrite
  <2>4. \A c \in Shelves : stamps[c] <= stamps'[c]
    BY <1>2, <2>1 DEF ShelvesInv
  <2>5. CopyInv'
    BY <1>1, <2>1, <2>2, <2>4 DEF CopyInv, ShelvesInv
  <2>6. LoadInv'
    BY <1>1, <2>1, <2>2, <2>4 DEF LoadInv, ShelvesInv
  <2> QED
    BY <1>4, <2>2, <2>3, <2>5, <2>6
<1> QED
  BY <1>2, <1>5, <1>6

LEMMA WriteIsLost == ServingInv /\ Shards!WriteLost => ServingInv'
<1> SUFFICES ASSUME ServingInv, Shards!WriteLost PROVE ServingInv'
  OBVIOUS
<1>1. writing' = Shards!NoWrite
      /\ UNCHANGED <<indexNow, stored, stamps, loaded, inflight, waiting, served>>
  BY DEF Shards!WriteLost, Shards!instance
<1>2. WritingInv'
  BY <1>1 DEF WritingInv, Shards!NoWrite
<1> QED
  BY <1>1, <1>2 DEF ServingInv, ShelvesInv, CopyInv, LoadInv, AnswerInv, Shards!NoStaleRows

\* A request is answered from the copy, which holds nothing past its retention, or waits.
LEMMA IndexIsAsked == ServingInv /\ (\E r \in Requests : Shards!Ask(r)) => ServingInv'
<1> SUFFICES ASSUME ServingInv, NEW r \in Requests, Shards!Ask(r) PROVE ServingInv'
  OBVIOUS
<1> USE DEF ServingInv, Times
<1>1. UNCHANGED <<indexNow, stored, stamps, writing, loaded, indexFaults>>
  BY DEF Shards!Ask, Shards!redis
<1>2. ShelvesInv' /\ WritingInv' /\ CopyInv'
  BY <1>1 DEF ShelvesInv, WritingInv, CopyInv, Shards!NoWrite
<1>3. CASE /\ ~Shards!MustReload(loaded)
           /\ served' = [rows |-> loaded.rows, asked |-> indexNow, since |-> indexNow]
           /\ UNCHANGED <<inflight, waiting>>
  <2>1. \A c \in Shelves : loaded.rows[c] # 0 => Shards!Fresh(loaded.rows[c], indexNow)
    BY <1>3 DEF Shards!MustReload, Shards!PastRetention
  <2>2. AnswerInv'
    BY <1>3, <2>1 DEF AnswerInv, Shards!NoStaleRows, CopyInv, ShelvesInv
  <2>3. LoadInv'
    BY <1>1, <1>3 DEF LoadInv
  <2> QED
    BY <1>2, <2>2, <2>3
<1>4. CASE /\ waiting' = [waiting EXCEPT ![r] = indexNow]
           /\ inflight' = IF inflight.at = None
                          THEN [Shards!NoLoad EXCEPT !.at = "begin", !.now = indexNow]
                          ELSE inflight
           /\ UNCHANGED served
  <2>1. None \notin Nat \cup {"begin", "mget"}
    BY ShardsAssumption DEF Shards!IndexStoreAssumption
  <2>2. Shards!NoLoad = [at |-> None, now |-> 0, sig |-> Shards!NoShards]
        /\ Shards!NoShards \in Times
    BY DEF Shards!NoLoad, Shards!NoShards
  <2>3. inflight' \in [at : {None, "begin", "mget"}, now : Nat, sig : Times]
    BY <1>4, <2>2 DEF LoadInv, ShelvesInv
  <2>4. waiting' \in [Requests -> Nat \cup {None}] /\ waiting'[r] # None
    BY <1>4, <2>1 DEF LoadInv, ShelvesInv
  <2>5. inflight'.now <= indexNow /\ (inflight'.at = "mget" => inflight' = inflight)
    BY <1>4, <2>2 DEF LoadInv, ShelvesInv
  <2>6. LoadInv'
    BY <1>1, <2>3, <2>4, <2>5 DEF LoadInv
  <2>7. AnswerInv'
    BY <1>4 DEF AnswerInv, Shards!NoStaleRows
  <2> QED
    BY <1>2, <2>6, <2>7
<1> QED
  BY <1>3, <1>4 DEF Shards!Ask

\* The requests that waited are answered with what a load of its own time brought.
LEMMA LoadSettles ==
  ASSUME ServingInv, NEW l, Shards!Settle(l), inflight.at # None,
         UNCHANGED <<indexNow, stored, stamps, writing>>,
         l \in [is : BOOLEAN, failed : BOOLEAN, at : Nat, rows : Times, sig : Times],
         \A c \in Shelves :
            /\ l.sig[c] <= stamps[c]
            /\ l.sig[c] # 0 /\ l.sig[c] = stored[c] => l.rows[c] = stored[c]
            /\ l.rows[c] # 0 => Shards!Fresh(l.rows[c], inflight.now)
  PROVE  ServingInv'
<1> USE DEF ServingInv
<1>1. ShelvesInv' /\ WritingInv'
  BY DEF ShelvesInv, WritingInv, Shards!NoWrite
<1>2. /\ loaded' = l /\ inflight' = Shards!NoLoad
      /\ waiting' = [r \in Requests |-> None]
      /\ served' = [rows |-> l.rows, since |-> inflight.now, asked |-> served'.asked]
  BY DEF Shards!Settle
<1>3. CopyInv'
  BY <1>2 DEF CopyInv
<1>4. LoadInv'
  <2>1. None \notin Nat \cup {"begin", "mget"}
    BY ShardsAssumption DEF Shards!IndexStoreAssumption
  <2>2. Shards!NoLoad = [at |-> None, now |-> 0, sig |-> Shards!NoShards]
        /\ Shards!NoShards \in Times
    BY DEF Shards!NoLoad, Shards!NoShards, Times
  <2> QED
    BY <1>2, <2>1, <2>2 DEF LoadInv, ShelvesInv
<1>5. served'.asked \in Nat
  <2> DEFINE W == {waiting[r] : r \in Requests} \ {None}
  <2>1. W \in SUBSET Nat /\ W # {}
    BY DEF LoadInv
  <2>2. PICK t \in W : \A u \in W : t <= u
    BY <2>1, LeastNumber
  <2>3. served'.asked = CHOOSE a \in W : \A u \in W : a <= u
    BY DEF Shards!Settle
  <2> HIDE DEF W
  <2>4. served'.asked \in W
    BY <2>2, <2>3
  <2> QED
    BY <2>1, <2>4
<1>6. AnswerInv'
  <2>1. served' \in [rows : Times, asked : Nat, since : Nat]
    BY <1>2, <1>5 DEF LoadInv
  <2>2. ASSUME NEW c \in Shelves, served'.rows[c] # 0
        PROVE  Shards!Fresh(served'.rows[c], IF served'.since < served'.asked
                                             THEN served'.since ELSE served'.asked)
    <3>1. /\ served'.rows[c] = l.rows[c] /\ l.rows[c] \in Nat
          /\ served'.since = inflight.now /\ inflight.now \in Nat
      BY <1>2 DEF LoadInv, Times
    <3>2. Shards!Fresh(l.rows[c], inflight.now)
      BY <2>2, <3>1
    <3>3. MAX_AGE \in Nat
      BY ShardsAssumption DEF Shards!IndexStoreAssumption
    <3> QED
      BY <1>5, <3>1, <3>2, <3>3 DEF Shards!Fresh
  <2> QED
    BY <2>1, <2>2 DEF AnswerInv, Shards!NoStaleRows
<1> QED
  BY <1>1, <1>3, <1>4, <1>6

\* The load reads the stamps, and may find that nothing can have changed.
LEMMA StampsAreRead == ServingInv /\ Shards!ReadStamps => ServingInv'
<1> SUFFICES ASSUME ServingInv, Shards!ReadStamps PROVE ServingInv'
  OBVIOUS
<1>1. /\ inflight.at = "begin" /\ UNCHANGED <<indexNow, stored, stamps, writing, indexFaults>>
  BY DEF Shards!ReadStamps, Shards!redis
<1>2. None \notin Nat \cup {"begin", "mget"}
  BY ShardsAssumption DEF Shards!IndexStoreAssumption
<1>3. CASE Shards!Unchanged(stamps) /\ Shards!Settle([loaded EXCEPT !.at = inflight.now])
  <2> DEFINE l == [loaded EXCEPT !.at = inflight.now]
  <2>1. /\ l \in [is : BOOLEAN, failed : BOOLEAN, at : Nat, rows : Times, sig : Times]
        /\ l.rows = loaded.rows /\ l.sig = loaded.sig
    BY DEF ServingInv, CopyInv, LoadInv
  <2>2. \A c \in Shelves : loaded.rows[c] # 0 => Shards!Fresh(loaded.rows[c], inflight.now)
    BY <1>3 DEF Shards!Unchanged, Shards!PastRetention
  <2>3. \A c \in Shelves : /\ loaded.sig[c] <= stamps[c]
                           /\ loaded.sig[c] # 0 /\ loaded.sig[c] = stored[c]
                                => loaded.rows[c] = stored[c]
    BY DEF ServingInv, CopyInv
  <2> HIDE DEF l
  <2>4. Shards!Settle(l)
    BY <1>3 DEF l
  <2> QED
    BY <1>1, <1>2, <2>1, <2>2, <2>3, <2>4, LoadSettles
<1>4. CASE inflight' = [inflight EXCEPT !.at = "mget", !.sig = stamps]
           /\ UNCHANGED <<loaded, waiting, served>>
  <2>1. LoadInv'
    <3>1. /\ inflight' \in [at : {None, "begin", "mget"}, now : Nat, sig : Times]
          /\ inflight'.now = inflight.now /\ inflight'.sig = stamps
      BY <1>4 DEF ServingInv, LoadInv, ShelvesInv
    <3>2. \A c \in Shelves : stamps[c] \in Nat
      BY DEF ServingInv, ShelvesInv, Times
    <3>3. \E r \in Requests : waiting[r] # None
      BY <1>1, <1>2 DEF ServingInv, LoadInv
    <3> QED
      BY <1>1, <1>4, <3>1, <3>2, <3>3 DEF ServingInv, LoadInv
  <2> QED
    BY <1>1, <1>4, <2>1
    DEF ServingInv, ShelvesInv, WritingInv, Shards!NoWrite, CopyInv, AnswerInv, Shards!NoStaleRows
<1> QED
  BY <1>3, <1>4 DEF Shards!ReadStamps

\* It loads the shards, which are no older than the stamps it has read.
LEMMA ShardsAreLoaded == ServingInv /\ Shards!LoadShards => ServingInv'
<1> SUFFICES ASSUME ServingInv, Shards!LoadShards PROVE ServingInv'
  OBVIOUS
<1> DEFINE l == Shards!Downloaded(inflight.sig)
<1>1. /\ inflight.at = "mget" /\ Shards!Settle(l)
      /\ UNCHANGED <<indexNow, stored, stamps, writing>>
  BY DEF Shards!LoadShards, Shards!redis
<1>2. None \notin Nat \cup {"begin", "mget"}
  BY ShardsAssumption DEF Shards!IndexStoreAssumption
<1>3. \A c \in Shelves :
        Shards!FreshShards[c] = IF Shards!Fresh(stored[c], inflight.now) THEN stored[c] ELSE 0
  BY DEF Shards!FreshShards
<1>4. Shards!FreshShards \in Times
  BY DEF Shards!FreshShards, Times, ServingInv, ShelvesInv
<1>5. /\ l \in [is : BOOLEAN, failed : BOOLEAN, at : Nat, rows : Times, sig : Times]
      /\ l.rows = Shards!FreshShards /\ l.sig = inflight.sig
  BY <1>4 DEF Shards!Downloaded, ServingInv, LoadInv
<1>6. \A c \in Shelves : stored[c] # 0 => Shards!FreshShards[c] = stored[c]
  <2> TAKE c \in Shelves
  <2> HAVE stored[c] # 0
  <2>1. /\ stored[c] \in Nat /\ inflight.now \in Nat /\ indexNow \in Nat /\ MAX_AGE \in Nat
        /\ inflight.now <= indexNow /\ indexNow - stored[c] < MAX_AGE
    BY ShardsAssumption
    DEF Shards!IndexStoreAssumption, ServingInv, ShelvesInv, LoadInv, Times
  <2> QED
    BY <1>3, <2>1 DEF Shards!Fresh
<1>7. \A c \in Shelves :
        /\ l.sig[c] <= stamps[c]
        /\ l.sig[c] # 0 /\ l.sig[c] = stored[c] => l.rows[c] = stored[c]
        /\ l.rows[c] # 0 => Shards!Fresh(l.rows[c], inflight.now)
  BY <1>1, <1>3, <1>5, <1>6 DEF ServingInv, LoadInv
<1> HIDE DEF l
<1> QED
  BY <1>1, <1>2, <1>5, <1>7, LoadSettles

\* Or it fails, and leaves nothing to serve.
LEMMA LoadComesToNothing == ServingInv /\ Shards!LoadFails => ServingInv'
<1> SUFFICES ASSUME ServingInv, Shards!LoadFails PROVE ServingInv'
  OBVIOUS
<1> DEFINE l == [Shards!NotLoaded EXCEPT !.is = TRUE, !.failed = TRUE, !.at = inflight.now]
<1>1. /\ inflight.at # None /\ Shards!Settle(l)
      /\ UNCHANGED <<indexNow, stored, stamps, writing>>
  BY DEF Shards!LoadFails, Shards!redis
<1>2. Shards!NoShards \in Times /\ \A c \in Shelves : Shards!NoShards[c] = 0
  BY DEF Shards!NoShards, Times
<1>3. Shards!NotLoaded \in [is : BOOLEAN, failed : BOOLEAN, at : Nat, rows : Times, sig : Times]
      /\ Shards!NotLoaded.rows = Shards!NoShards /\ Shards!NotLoaded.sig = Shards!NoShards
  BY <1>2 DEF Shards!NotLoaded
<1>4. /\ l \in [is : BOOLEAN, failed : BOOLEAN, at : Nat, rows : Times, sig : Times]
      /\ l.rows = Shards!NoShards /\ l.sig = Shards!NoShards
  BY <1>3 DEF ServingInv, LoadInv
<1>5. \A c \in Shelves : l.sig[c] = 0 /\ l.rows[c] = 0 /\ stamps[c] \in Nat
  BY <1>2, <1>4 DEF ServingInv, ShelvesInv, Times
<1> HIDE DEF l
<1> QED
  BY <1>1, <1>4, <1>5, LoadSettles

LEMMA ServingMoves == ServingInv /\ [Shards!Next]_indexVars => ServingInv'
<1>1. CASE UNCHANGED indexVars
  BY <1>1 DEF indexVars, ServingInv, ShelvesInv, WritingInv, Shards!NoWrite, CopyInv, LoadInv,
              AnswerInv, Shards!NoStaleRows
<1>2. CASE Shards!Next
  BY <1>2, ShelvesAge, HarvestBegins, ShardIsWritten, WriteIsLost, IndexIsAsked, StampsAreRead,
     ShardsAreLoaded, LoadComesToNothing DEF Shards!Next
<1> QED
  BY <1>1, <1>2

\* No answer from the index is past its retention both when asked for and when its load
\* began, and a signature that matches the stored stamps means that the copy is exact,
\* however a harvest's two writes fall between a load's two reads (writeShard :103 and
\* load :158, src/lib/karaoke-index/store.ts).
THEOREM IndexIsServedSoundly ==
  StoresSpec => [](part = "index" => Shards!NoStaleRows /\ Shards!SignatureMeansExact)
<1>1. StoresInit => ServingInv
  BY ServingStarts
<1>2. [StoresNext]_storesVars => [Shards!Next]_indexVars
  BY DEF StoresNext, Alone, storesVars
<1>3. ServingInv /\ [Shards!Next]_indexVars => ServingInv'
  BY ServingMoves
<1>4. ServingInv => Shards!NoStaleRows /\ Shards!SignatureMeansExact
  BY DEF ServingInv, AnswerInv, CopyInv, Shards!SignatureMeansExact
<1> QED
  BY <1>1, <1>2, <1>3, <1>4, PTL DEF StoresSpec

-----------------------------------------------------------------------------
(* Filling the index (IndexRefresh).                                       *)

Ranks == Refresh!ChannelSet
Reservation == Refresh!PerChannel
Harvesting(r) == r.at \in {"page", "list", "videos", "set", "stamp"}

\* What of its reservation a worker has not spent, and the calls it has spent units on and
\* not made; the units of all workers.
Unspent(m, r) == IF m = "cron" /\ Harvesting(r) THEN Reservation - r.own ELSE 0
Ahead(r) == IF r.at = "list" THEN 2 ELSE IF r.at = "videos" THEN 1 ELSE 0
Owing == [w \in Workers |-> Unspent(mode, worker[w]) + Ahead(worker[w])]
UnitsIn(W, n, f) == Cardinality({p \in W \X (1..n) : p[2] <= f[p[1]]})
Total(f) == UnitsIn(Workers, Reservation, f)

\* A harvest reads pages that are there and wanted, and in a cron's run what is written is
\* what is wanted.
HarvestIsWhole(m, r) ==
  /\ r.channel \in Ranks
  /\ r.at = "page" => r.page <= MAX_PAGES
  /\ r.at \in {"list", "videos"} => r.page < MAX_PAGES
  /\ r.at \in {"page", "list", "videos"} => r.page < Len(Uploads[r.channel]) /\ ~r.whole
  /\ r.at \in {"set", "stamp"} /\ m = "cron" => r.page = Refresh!Wanted(r.channel)

\* It spends what it reserved, two units before a page's calls.
HarvestIsPaid(m, r) == m = "cron" => r.own <= Reservation /\ Ahead(r) <= r.own

WorkerTypes ==
  [at : {"off", "idle", "page", "list", "videos", "set", "stamp"}, channel : Ranks \cup {None},
   page : Nat, own : Nat, rows : BOOLEAN, whole : BOOLEAN]

WorkersInv ==
  /\ worker \in [Workers -> WorkerTypes]
  /\ \A w \in Workers : Harvesting(worker[w]) => HarvestIsWhole(mode, worker[w]) /\ HarvestIsPaid(mode, worker[w])

\* The calls made and the units that are owed are covered by the ledger, within its cap.
LedgerInv ==
  /\ used \in Nat /\ listings \in Nat /\ used <= MAX_UNITS
  /\ listings + Total(Owing) <= used

ShardTypes == [run : Nat, pages : Nat]

RunInv ==
  /\ mode \in {"cron", "cli"} /\ work \in Seq(Ranks) /\ run \in Nat
  /\ shardStamps \in [Ranks -> Nat] /\ shards \in [Ranks -> ShardTypes]

RefreshInv == RunInv /\ WorkersInv /\ LedgerInv

LEMMA WorkersAreCounted ==
  /\ \A S : Refresh!IsFiniteSet(S) <=> IsFiniteSet(S)
  /\ \A S : Refresh!Cardinality(S) = Cardinality(S)
  BY DEF Refresh!IsFiniteSet, IsFiniteSet, Refresh!Cardinality, Cardinality

LEMMA RefreshFacts ==
  /\ MAX_PAGES \in Nat \ {0} /\ Reservation = 2 * MAX_PAGES /\ Reservation \in Nat
  /\ 2 <= Reservation /\ MAX_UNITS \in Nat
  /\ IsFiniteSet(Workers) /\ Channels \in Seq(Ranks)
  /\ \A c \in Ranks : Uploads[c] \in Seq({"rows", "unplayable", "untitled"}) /\ Uploads[c] # <<>>
  BY RefreshAssumption, WorkersAreCounted
  DEF Refresh!IndexRefreshAssumption, Reservation, Refresh!PerChannel, Ranks

\* The units owed change by what one worker's change.
LEMMA OneWorkerOwes ==
  ASSUME NEW W, IsFiniteSet(W), NEW n \in Nat, NEW f \in [W -> 0..n], NEW g \in [W -> 0..n],
         NEW w \in W, \A v \in W \ {w} : g[v] = f[v]
  PROVE  /\ UnitsIn(W, n, f) \in Nat /\ UnitsIn(W, n, g) \in Nat
         /\ UnitsIn(W, n, g) = UnitsIn(W, n, f) - f[w] + g[w]
<1> DEFINE U(h) == {p \in W \X (1..n) : p[2] <= h[p[1]]}
           rest(h) == {p \in (W \ {w}) \X (1..n) : p[2] <= h[p[1]]}
<1>1. IsFiniteSet(W \X (1..n))
  <2>1. IsFiniteSet(1..n)
    BY FS_Interval
  <2> QED
    BY <2>1, FS_Product
<1>2. ASSUME NEW h \in [W -> 0..n]
      PROVE  /\ IsFiniteSet(U(h)) /\ IsFiniteSet(rest(h))
             /\ Cardinality(U(h)) \in Nat /\ Cardinality(rest(h)) \in Nat
             /\ Cardinality(U(h)) = Cardinality(rest(h)) + h[w]
  <2>1. U(h) \in SUBSET (W \X (1..n)) /\ rest(h) \in SUBSET (W \X (1..n))
    OBVIOUS
  <2>2. IsFiniteSet(U(h)) /\ IsFiniteSet(rest(h))
    BY <1>1, <2>1, FS_Subset
  <2>3. Cardinality(U(h)) \in Nat /\ Cardinality(rest(h)) \in Nat
    BY <2>2, FS_CardinalityType
  <2>4. h[w] \in 0..n
    OBVIOUS
  <2>5. IsFiniteSet({w} \X (1..h[w])) /\ Cardinality({w} \X (1..h[w])) = h[w]
    <3>1. IsFiniteSet(1..h[w]) /\ Cardinality(1..h[w]) = h[w]
      <4>1. ASSUME NEW m \in Nat PROVE IsFiniteSet(1..m) /\ Cardinality(1..m) = m
        <5>1. 1 \in Int /\ m \in Int
          OBVIOUS
        <5>2. IsFiniteSet(1..m) /\ Cardinality(1..m) = IF 1 > m THEN 0 ELSE m - 1 + 1
          BY <5>1, FS_Interval
        <5> QED
          BY <5>2
      <4>2. h[w] \in Nat
        BY <2>4
      <4> QED
        BY <4>1, <4>2
    <3>2. IsFiniteSet({w}) /\ Cardinality({w}) = 1
      BY FS_Singleton
    <3>3. /\ IsFiniteSet({w} \X (1..h[w]))
          /\ Cardinality({w} \X (1..h[w])) = Cardinality({w}) * Cardinality(1..h[w])
      BY <3>1, <3>2, FS_Product
    <3> QED
      BY <2>4, <3>1, <3>2, <3>3
  <2>6. U(h) = rest(h) \cup ({w} \X (1..h[w]))
    BY <2>4
  <2>7. rest(h) \cap ({w} \X (1..h[w])) = {}
    OBVIOUS
  <2>8. Cardinality(rest(h) \cap ({w} \X (1..h[w]))) = 0
    BY <2>7, FS_EmptySet
  <2>9. Cardinality(rest(h) \cup ({w} \X (1..h[w])))
          = Cardinality(rest(h)) + Cardinality({w} \X (1..h[w]))
              - Cardinality(rest(h) \cap ({w} \X (1..h[w])))
    BY <2>2, <2>5, FS_Union
  <2> HIDE DEF U, rest
  <2> QED
    BY <2>2, <2>3, <2>4, <2>5, <2>6, <2>8, <2>9
<1>3. rest(f) = rest(g)
  OBVIOUS
<1> HIDE DEF U, rest
<1>4. f[w] \in Nat /\ g[w] \in Nat
  OBVIOUS
<1>5. /\ Cardinality(U(f)) \in Nat /\ Cardinality(U(g)) \in Nat
      /\ Cardinality(U(g)) = Cardinality(U(f)) - f[w] + g[w]
  BY <1>2, <1>3, <1>4
<1> QED
  BY <1>5 DEF U, UnitsIn

\* The run's queue is a list of channels.
LEMMA OldestIsAList ==
  ASSUME NEW times \in [Ranks -> Nat]
  PROVE  Refresh!Oldest(times) \in Seq(Ranks)
<1> DEFINE n == Cardinality(Ranks)
           R == {p \in Ranks \X Ranks : Refresh!Before(times, p[1], p[2])}
<1>1. Ranks = {Channels[i] : i \in 1..Len(Channels)} /\ Len(Channels) \in Nat
  BY RefreshFacts DEF Ranks, Refresh!ChannelSet
<1>2. IsFiniteSet(Ranks) /\ n \in Nat
  <2>1. IsFiniteSet(1..Len(Channels))
    BY <1>1, FS_Interval
  <2>2. Channels \in [1..Len(Channels) -> Ranks]
    BY RefreshFacts
  <2>3. IsFiniteSet({Channels[i] : i \in 1..Len(Channels)})
    BY <2>1, <2>2, ImageIsFinite
  <2> QED
    BY <1>1, <2>3, FS_CardinalityType
<1>3. \A c \in Ranks : Refresh!RankOf(c) \in Nat /\ Channels[Refresh!RankOf(c)] = c
  <2> TAKE c \in Ranks
  <2>1. DOMAIN Channels = 1..Len(Channels)
    BY RefreshFacts
  <2>2. \E i \in DOMAIN Channels : Channels[i] = c
    BY <1>1, <2>1
  <2>3. Refresh!RankOf(c) \in DOMAIN Channels /\ Channels[Refresh!RankOf(c)] = c
    BY <2>2 DEF Refresh!RankOf
  <2> QED
    BY <2>1, <2>3, <1>1
<1>4. \A c, d \in Ranks : <<c, d>> \in R <=>
        \/ times[c] < times[d]
        \/ times[c] = times[d] /\ Refresh!RankOf(c) < Refresh!RankOf(d)
  BY DEF Refresh!Before
<1>5. \A c \in Ranks : times[c] \in Nat
  OBVIOUS
<1> HIDE DEF R
<1>6. Orders(R, Ranks)
  <2>1. \A c \in Ranks : <<c, c>> \notin R
    BY <1>3, <1>4, <1>5
  <2>2. \A c, d, e \in Ranks : <<c, d>> \in R /\ <<d, e>> \in R => <<c, e>> \in R
    BY <1>3, <1>4, <1>5
  <2>3. \A c, d \in Ranks : c # d => <<c, d>> \in R \/ <<d, c>> \in R
    BY <1>3, <1>4, <1>5
  <2> QED
    BY <2>1, <2>2, <2>3 DEF Orders
<1>7. \A i \in 1..n : \E d \in Ranks : Cardinality(Preceding(R, Ranks, d)) = i - 1
  BY <1>2, <1>6, RanksOfOrder
<1>8. \A d \in Ranks : Preceding(R, Ranks, d) = {c \in Ranks : Refresh!Before(times, c, d)}
  BY DEF Preceding, R
<1>9. \A d \in Ranks :
        Refresh!Cardinality({c \in Ranks : Refresh!Before(times, c, d)})
          = Cardinality(Preceding(R, Ranks, d))
  BY <1>8, WorkersAreCounted
<1>10. Refresh!Oldest(times)
         = [i \in 1..n |-> CHOOSE d \in Ranks :
              Refresh!Cardinality({c \in Ranks : Refresh!Before(times, c, d)}) = i - 1]
  BY WorkersAreCounted DEF Refresh!Oldest, Ranks
<1>11. \A i \in 1..n : Refresh!Oldest(times)[i] \in Ranks
  BY <1>7, <1>9, <1>10
<1> HIDE DEF n
<1>12. Refresh!Oldest(times) \in [1..n -> Ranks]
  BY <1>10, <1>11
<1> QED
  BY <1>2, <1>12

LEMMA OwesNoMoreThanReserved ==
  ASSUME NEW r \in WorkerTypes, Harvesting(r) => HarvestIsPaid(mode, r)
  PROVE  Unspent(mode, r) + Ahead(r) \in 0..Reservation
<1>1. r.own \in Nat
  BY DEF WorkerTypes
<1>2. Ahead(r) \in {0, 1, 2} /\ (~Harvesting(r) => Ahead(r) = 0)
  BY DEF Ahead, Harvesting
<1>3. CASE mode = "cron" /\ Harvesting(r)
  BY <1>1, <1>2, <1>3, RefreshFacts DEF HarvestIsPaid, Unspent
<1>4. CASE ~(mode = "cron" /\ Harvesting(r))
  BY <1>2, <1>4, RefreshFacts DEF Unspent
<1> QED
  BY <1>3, <1>4

LEMMA OwingIsBounded == WorkersInv => Owing \in [Workers -> 0..Reservation]
<1> SUFFICES ASSUME WorkersInv, NEW w \in Workers
             PROVE  Unspent(mode, worker[w]) + Ahead(worker[w]) \in 0..Reservation
  BY DEF Owing
<1> QED
  BY OwesNoMoreThanReserved DEF WorkersInv

\* The units owed after one worker's step stay covered when the step pays for what it calls.
LEMMA StillCovered ==
  ASSUME NEW f \in [Workers -> 0..Reservation], NEW g \in [Workers -> 0..Reservation],
         NEW w \in Workers, \A v \in Workers \ {w} : g[v] = f[v],
         NEW l \in Nat, NEW k \in Nat, NEW u \in Int, NEW v \in Int,
         l + Total(f) <= u, k + g[w] + u <= f[w] + v
  PROVE  v \in Nat /\ l + k \in Nat /\ l + k + Total(g) <= v
<1>1. IsFiniteSet(Workers) /\ Reservation \in Nat
  BY RefreshFacts
<1> DEFINE n == Reservation
<1>2. n \in Nat /\ f \in [Workers -> 0..n] /\ g \in [Workers -> 0..n]
  BY <1>1
<1> HIDE DEF n
<1>3. /\ UnitsIn(Workers, n, f) \in Nat /\ UnitsIn(Workers, n, g) \in Nat
      /\ UnitsIn(Workers, n, g) = UnitsIn(Workers, n, f) - f[w] + g[w]
  BY <1>1, <1>2, OneWorkerOwes
<1>4. Total(f) \in Nat /\ Total(g) \in Nat /\ Total(g) = Total(f) - f[w] + g[w]
  BY <1>3 DEF Total, n
<1>5. f[w] \in Nat /\ g[w] \in Nat
  BY <1>1
<1>6. \A tf, tg, a, b \in Nat : tg = tf - a + b /\ l + tf <= u /\ k + b + u <= a + v
        => v \in Nat /\ l + k \in Nat /\ l + k + tg <= v
  OBVIOUS
<1> QED
  BY <1>4, <1>5, <1>6

LEMMA TotalIsANumber == ASSUME NEW f \in [Workers -> 0..Reservation] PROVE Total(f) \in Nat
<1>1. IsFiniteSet(Workers) /\ Reservation \in Nat
  BY RefreshFacts
<1>2. IsFiniteSet(Workers \X (1..Reservation))
  <2>1. 1 \in Int /\ Reservation \in Int
    BY <1>1
  <2>2. IsFiniteSet(1..Reservation)
    BY <2>1, FS_Interval
  <2> QED
    BY <1>1, <2>2, FS_Product
<1>3. {p \in Workers \X (1..Reservation) : p[2] <= f[p[1]]} \in SUBSET (Workers \X (1..Reservation))
  OBVIOUS
<1> QED
  BY <1>2, <1>3, FS_Subset, FS_CardinalityType DEF Total, UnitsIn

\* A worker goes on, with k calls made: what it owed less covers them, or the ledger grew.
LEMMA WorkerGoesOn ==
  ASSUME RefreshInv, NEW w \in Workers, NEW r \in WorkerTypes,
         worker' = [worker EXCEPT ![w] = r],
         Harvesting(r) => HarvestIsWhole(mode, r) /\ HarvestIsPaid(mode, r),
         NEW k \in Nat, listings' = listings + k, used' \in Int, used' <= MAX_UNITS,
         k + Unspent(mode, r) + Ahead(r) + used <= Unspent(mode, worker[w]) + Ahead(worker[w]) + used',
         UNCHANGED mode
  PROVE  WorkersInv' /\ LedgerInv'
<1>3. /\ worker \in [Workers -> WorkerTypes]
      /\ \A v \in Workers : Harvesting(worker[v]) =>
           HarvestIsWhole(mode, worker[v]) /\ HarvestIsPaid(mode, worker[v])
  BY DEF RefreshInv, WorkersInv
<1>4. worker' \in [Workers -> WorkerTypes] /\ worker'[w] = r
      /\ \A v \in Workers \ {w} : worker'[v] = worker[v]
  BY <1>3
<1>5. WorkersInv'
  <2>1. ASSUME NEW v \in Workers, Harvesting(worker'[v])
        PROVE  HarvestIsWhole(mode', worker'[v]) /\ HarvestIsPaid(mode', worker'[v])
    BY <1>3, <1>4, <2>1
  <2> QED
    BY <1>4, <2>1 DEF WorkersInv, Harvesting
<1>6. Owing \in [Workers -> 0..Reservation]
  BY OwingIsBounded DEF RefreshInv
<1> DEFINE g == [v \in Workers |-> Unspent(mode, worker'[v]) + Ahead(worker'[v])]
<1>7. Owing' = g
  BY DEF Owing
<1>8. g \in [Workers -> 0..Reservation]
  <2> SUFFICES ASSUME NEW v \in Workers
               PROVE  Unspent(mode, worker'[v]) + Ahead(worker'[v]) \in 0..Reservation
    OBVIOUS
  <2> QED
    BY <1>3, <1>4, OwesNoMoreThanReserved
<1>9. /\ Owing[w] = Unspent(mode, worker[w]) + Ahead(worker[w])
      /\ g[w] = Unspent(mode, r) + Ahead(r)
      /\ \A v \in Workers \ {w} : g[v] = Owing[v]
  BY <1>4 DEF Owing
<1>10. listings \in Nat /\ used \in Int /\ used' \in Int /\ listings + Total(Owing) <= used
  BY DEF RefreshInv, LedgerInv
<1>11. k + g[w] + used <= Owing[w] + used'
  <2>1. Unspent(mode, r) \in Int /\ Ahead(r) \in Int
    BY RefreshFacts DEF Unspent, Ahead, WorkerTypes
  <2>2. Unspent(mode, worker[w]) \in Int /\ Ahead(worker[w]) \in Int
    BY <1>3, RefreshFacts DEF Unspent, Ahead, WorkerTypes
  <2>3. k + (Unspent(mode, r) + Ahead(r)) + used <= (Unspent(mode, worker[w]) + Ahead(worker[w])) + used'
    BY <1>10, <2>1, <2>2
  <2> QED
    BY <1>9, <2>3
<1> HIDE DEF g
<1>12. LedgerInv'
  <2>1. PICK h : h = g
    OBVIOUS
  <2>2. PICK e : e = Owing
    OBVIOUS
  <2>3. PICK l, u, v : l = listings /\ u = used /\ v = used'
    OBVIOUS
  <2>4. /\ e \in [Workers -> 0..Reservation] /\ h \in [Workers -> 0..Reservation]
        /\ \A x \in Workers \ {w} : h[x] = e[x]
    BY <1>6, <1>8, <1>9, <2>1, <2>2
  <2>5. /\ l \in Nat /\ u \in Int /\ v \in Int
        /\ l + Total(e) <= u /\ k + h[w] + u <= e[w] + v
    BY <1>10, <1>11, <2>1, <2>2, <2>3
  <2>6. v \in Nat /\ l + k \in Nat /\ l + k + Total(h) <= v
    BY <2>4, <2>5, StillCovered
  <2>7. Total(Owing)' = Total(h)
    BY <1>7, <2>1 DEF Total
  <2> QED
    BY <2>3, <2>6, <2>7 DEF LedgerInv
<1> QED
  BY <1>5, <1>12
\* A cron's worker that gives a unit back has spent it, and never more than it reserved.
LEMMA SpendingIsPaid ==
  ASSUME NEW r \in WorkerTypes, HarvestIsPaid("cron", r), NEW n \in {-1, 0}, 0 <= Ahead(r) + n
  PROVE  r.own + n <= Reservation /\ 0 <= r.own + n
<1>1. r.own \in Nat /\ Ahead(r) \in {0, 1, 2} /\ Reservation \in Nat
  BY RefreshFacts DEF WorkerTypes, Ahead
<1>2. r.own <= Reservation /\ Ahead(r) <= r.own
  BY DEF HarvestIsPaid
<1>3. \A o, m \in Nat, a \in {0, 1, 2} : o <= m /\ a <= o /\ 0 <= a + n => o + n <= m /\ 0 <= o + n
  OBVIOUS
<1> QED
  BY <1>1, <1>2, <1>3

\* The worker spends n units and makes k calls, and goes on with its harvest as r.
LEMMA WorkerSpends ==
  ASSUME RefreshInv, NEW w \in Workers, Harvesting(worker[w]),
         NEW r \in WorkerTypes, Harvesting(r), r.own = worker[w].own, HarvestIsWhole(mode, r),
         NEW n \in Int, NEW k \in Nat, Refresh!Spend(w, n, r),
         mode = "cron" => worker[w].own + n <= Reservation /\ Ahead(r) <= worker[w].own + n,
         mode = "cli" => used + n <= MAX_UNITS,
         k + Ahead(r) <= Ahead(worker[w]) + n,
         listings' = listings + k, UNCHANGED mode
  PROVE  WorkersInv' /\ LedgerInv'
<1> DEFINE q == [r EXCEPT !.own = IF mode = "cli" THEN r.own ELSE r.own + n]
<1>1. worker' = [worker EXCEPT ![w] = q] /\ used' = IF mode = "cli" THEN used + n ELSE used
  BY DEF Refresh!Spend
<1>2. /\ worker[w] \in WorkerTypes /\ HarvestIsPaid(mode, worker[w]) /\ mode \in {"cron", "cli"}
      /\ used \in Nat /\ used <= MAX_UNITS /\ MAX_UNITS \in Nat /\ Reservation \in Nat
  BY RefreshFacts DEF RefreshInv, RunInv, WorkersInv, LedgerInv
<1>3. /\ worker[w].own \in Nat /\ r.own \in Nat
      /\ Ahead(r) \in Nat /\ Ahead(worker[w]) \in Nat
  BY <1>2 DEF WorkerTypes, Ahead
<1>4. mode = "cron" => r.own + n \in Nat
  <2>1. \A i, a \in Nat, j \in Int : a <= i + j => i + j \in Nat
    OBVIOUS
  <2> QED
    BY <1>3, <2>1
<1>5. q \in WorkerTypes /\ q.own = (IF mode = "cli" THEN r.own ELSE r.own + n)
      /\ q.at = r.at /\ q.channel = r.channel /\ q.page = r.page /\ q.whole = r.whole
  BY <1>2, <1>3, <1>4 DEF WorkerTypes
<1> HIDE DEF q
<1>6. Harvesting(q) /\ Ahead(q) = Ahead(r) /\ HarvestIsWhole(mode, q)
  BY <1>5 DEF Harvesting, Ahead, HarvestIsWhole
<1>7. HarvestIsPaid(mode, q)
  BY <1>5, <1>6, <1>2 DEF HarvestIsPaid
<1>8. used' \in Int /\ used' <= MAX_UNITS
  BY <1>1, <1>2
<1>9. k + Unspent(mode, q) + Ahead(q) + used <= Unspent(mode, worker[w]) + Ahead(worker[w]) + used'
  <2>1. CASE mode = "cli"
    <3>1. Unspent(mode, q) = 0 /\ Unspent(mode, worker[w]) = 0
      BY <2>1 DEF Unspent
    <3> QED
      BY <2>1, <3>1, <1>1, <1>2, <1>3, <1>6
  <2>2. CASE mode = "cron"
    <3>1. /\ Unspent(mode, q) = Reservation - (r.own + n)
          /\ Unspent(mode, worker[w]) = Reservation - r.own
      BY <2>2, <1>5, <1>6 DEF Unspent
    <3>2. used' = used
      BY <2>2, <1>1
    <3>3. \A i, a, b, u, m \in Nat : k + a <= b + n => k + (m - (i + n)) + a + u <= (m - i) + b + u
      OBVIOUS
    <3>4. k + (Reservation - (r.own + n)) + Ahead(r) + used <= (Reservation - r.own) + Ahead(worker[w]) + used
      BY <3>3, <1>2, <1>3
    <3> QED
      BY <3>1, <3>2, <3>4, <1>6
  <2> QED
    BY <2>1, <2>2, <1>2
<1> QED
  BY <1>1, <1>5, <1>6, <1>7, <1>8, <1>9, WorkerGoesOn

\* The worker is done with its channel, after n units and k calls more.
LEMMA WorkerSettles ==
  ASSUME RefreshInv, NEW w \in Workers, Harvesting(worker[w]),
         NEW n \in {-1, 0}, NEW k \in Nat, Refresh!Settle(w, Refresh!Spent(w) + n),
         k <= Ahead(worker[w]) + n,
         listings' = listings + k, UNCHANGED mode
  PROVE  WorkersInv' /\ LedgerInv'
<1> DEFINE q == Refresh!Idle
<1>1. /\ worker' = [worker EXCEPT ![w] = q]
      /\ mode = "cli" => used' = used + n
      /\ mode # "cli" => used' = used - (Reservation - (worker[w].own + n))
  BY DEF Refresh!Settle, Refresh!Spent, Refresh!LeftOver, Reservation
<1>2. /\ worker[w] \in WorkerTypes /\ HarvestIsPaid(mode, worker[w]) /\ mode \in {"cron", "cli"}
      /\ used \in Nat /\ used <= MAX_UNITS /\ MAX_UNITS \in Nat /\ Reservation \in Nat
  BY RefreshFacts DEF RefreshInv, RunInv, WorkersInv, LedgerInv
<1>3. worker[w].own \in Nat /\ Ahead(worker[w]) \in Nat
  BY <1>2 DEF WorkerTypes, Ahead
<1>4. q \in WorkerTypes /\ ~Harvesting(q) /\ Ahead(q) = 0 /\ Unspent(mode, q) = 0
  BY DEF WorkerTypes, Refresh!Idle, Refresh!Off, Harvesting, Ahead, Unspent
<1> HIDE DEF q
<1>5. used' \in Int /\ used' <= MAX_UNITS
  <2>1. CASE mode = "cli"
    BY <2>1, <1>1, <1>2
  <2>2. CASE mode = "cron"
    <3>1. worker[w].own <= Reservation /\ used' = used - (Reservation - (worker[w].own + n))
      BY <2>2, <1>1, <1>2 DEF HarvestIsPaid
    <3>2. \A i, u, m, x \in Nat : i <= m /\ u <= x
             => u - (m - (i + n)) \in Int /\ u - (m - (i + n)) <= x
      OBVIOUS
    <3> QED
      BY <3>1, <3>2, <1>2, <1>3
  <2> QED
    BY <2>1, <2>2, <1>2
<1>6. k + Unspent(mode, q) + Ahead(q) + used <= Unspent(mode, worker[w]) + Ahead(worker[w]) + used'
  <2>1. CASE mode = "cli"
    <3>1. Unspent(mode, worker[w]) = 0
      BY <2>1 DEF Unspent
    <3> QED
      BY <2>1, <3>1, <1>1, <1>2, <1>3, <1>4
  <2>2. CASE mode = "cron"
    <3>1. Unspent(mode, worker[w]) = Reservation - worker[w].own
      BY <2>2 DEF Unspent
    <3>2. used' = used - (Reservation - (worker[w].own + n))
      BY <2>2, <1>1
    <3>3. \A i, b, u, m \in Nat : k <= b + n => k + 0 + 0 + u <= (m - i) + b + (u - (m - (i + n)))
      OBVIOUS
    <3>4. k + 0 + 0 + used <= (Reservation - worker[w].own) + Ahead(worker[w])
                                + (used - (Reservation - (worker[w].own + n)))
      BY <3>3, <1>2, <1>3
    <3> QED
      BY <3>1, <3>2, <3>4, <1>4
  <2> QED
    BY <2>1, <2>2, <1>2
<1> QED
  BY <1>1, <1>4, <1>5, <1>6, WorkerGoesOn

\* A harvest ends with the rows and the verdict of r.
LEMMA HarvestEnds ==
  ASSUME RefreshInv, NEW w \in Workers, Harvesting(worker[w]),
         NEW r \in WorkerTypes, r.own = worker[w].own, r.channel \in Ranks,
         r.whole /\ mode = "cron" => r.page = Refresh!Wanted(r.channel),
         NEW n \in {-1, 0}, NEW k \in Nat, Refresh!Harvested(w, n, r),
         k <= Ahead(worker[w]) + n,
         listings' = listings + k, UNCHANGED mode
  PROVE  WorkersInv' /\ LedgerInv'
<1>1. CASE Refresh!Keeps(r)
  <2> DEFINE q == [r EXCEPT !.at = "set"]
  <2>1. Refresh!Spend(w, n, q)
    BY <1>1 DEF Refresh!Harvested
  <2>2. q \in WorkerTypes /\ q.at = "set" /\ q.own = r.own /\ q.channel = r.channel /\ q.page = r.page
    BY DEF WorkerTypes
  <2>3. mode \in {"cron", "cli"} /\ (mode = "cron" => r.whole)
    BY <1>1 DEF Refresh!Keeps, RefreshInv, RunInv
  <2> HIDE DEF q
  <2>4. Harvesting(q) /\ Ahead(q) = 0 /\ HarvestIsWhole(mode, q)
    BY <2>2, <2>3 DEF Harvesting, Ahead, HarvestIsWhole
  <2>5. /\ worker[w] \in WorkerTypes /\ HarvestIsPaid(mode, worker[w])
        /\ used \in Nat /\ used <= MAX_UNITS /\ MAX_UNITS \in Nat /\ Reservation \in Nat
    BY RefreshFacts DEF RefreshInv, RunInv, WorkersInv, LedgerInv
  <2>6. worker[w].own \in Nat /\ Ahead(worker[w]) \in Nat
    BY <2>5 DEF WorkerTypes, Ahead
  <2>7. mode = "cron" => worker[w].own + n <= Reservation /\ Ahead(q) <= worker[w].own + n
    <3>1. 0 <= Ahead(worker[w]) + n
      <4>1. \A a \in Nat : k <= a + n => 0 <= a + n
        OBVIOUS
      <4> QED
        BY <2>6, <4>1
    <3> QED
      BY <2>4, <2>5, <3>1, SpendingIsPaid
  <2>8. used + n <= MAX_UNITS /\ k + Ahead(q) <= Ahead(worker[w]) + n /\ n \in Int
    BY <2>4, <2>5, <2>6
  <2> QED
    BY <2>1, <2>2, <2>4, <2>7, <2>8, WorkerSpends
<1>2. CASE ~Refresh!Keeps(r)
  <2>1. Refresh!Settle(w, Refresh!Spent(w) + n)
    BY <1>2 DEF Refresh!Harvested
  <2> QED
    BY <2>1, WorkerSettles
<1> QED
  BY <1>1, <1>2

Onward(r, p) == [r EXCEPT !.at = "page", !.page = p]
Finished(r, p) == [r EXCEPT !.page = p, !.whole = TRUE]

LEMMA TurnedPage ==
  ASSUME NEW r \in WorkerTypes, NEW p \in Nat
  PROVE  /\ Onward(r, p) \in WorkerTypes /\ Onward(r, p).at = "page" /\ Onward(r, p).own = r.own
         /\ Onward(r, p).channel = r.channel /\ Onward(r, p).page = p /\ Onward(r, p).whole = r.whole
         /\ Finished(r, p) \in WorkerTypes /\ Finished(r, p).own = r.own
         /\ Finished(r, p).channel = r.channel /\ Finished(r, p).page = p
  BY DEF WorkerTypes, Onward, Finished

\* The page is read.
LEMMA PageTurns ==
  ASSUME RefreshInv, NEW w \in Workers, worker[w].at \in {"list", "videos"},
         NEW r \in WorkerTypes, r.own = worker[w].own, r.channel = worker[w].channel,
         r.page = worker[w].page, r.whole = worker[w].whole,
         NEW n \in {-1, 0}, Refresh!TurnPage(w, n, r), 1 <= Ahead(worker[w]) + n,
         listings' = listings + 1, UNCHANGED mode
  PROVE  WorkersInv' /\ LedgerInv'
<1>1. Harvesting(worker[w]) /\ worker[w].at \notin {"page", "set", "stamp"}
  BY DEF Harvesting
<1>2. /\ worker[w] \in WorkerTypes /\ HarvestIsPaid(mode, worker[w]) /\ HarvestIsWhole(mode, worker[w])
      /\ used \in Nat /\ used <= MAX_UNITS
  BY <1>1 DEF RefreshInv, RunInv, WorkersInv, LedgerInv
<1>3. /\ r.channel \in Ranks /\ r.page \in Nat /\ r.page < MAX_PAGES
      /\ r.page < Len(Uploads[r.channel]) /\ ~r.whole /\ Len(Uploads[r.channel]) \in Nat
      /\ MAX_PAGES \in Nat /\ MAX_UNITS \in Nat /\ Reservation \in Nat
      /\ worker[w].own \in Nat /\ Ahead(worker[w]) \in Nat
  BY <1>2, RefreshFacts DEF HarvestIsWhole, WorkerTypes, Ahead
<1>4. 1 \in Nat /\ n \in Int
  BY <1>2
<1>5. CASE r.page + 1 < Len(Uploads[r.channel])
  <2> DEFINE q == Onward(r, r.page + 1)
  <2>1. Refresh!Spend(w, n, q)
    BY <1>5 DEF Refresh!TurnPage, Onward
  <2>2. /\ q \in WorkerTypes /\ q.at = "page" /\ q.own = r.own /\ q.channel = r.channel
        /\ q.page = r.page + 1 /\ q.whole = r.whole
    <3>1. r.page + 1 \in Nat
      <4>1. \A i \in Nat : i + 1 \in Nat
        OBVIOUS
      <4> QED
        BY <1>3, <4>1
    <3> QED
      BY <3>1, TurnedPage
  <2> HIDE DEF q
  <2>3. Harvesting(q) /\ Ahead(q) = 0 /\ HarvestIsWhole(mode, q)
    BY <1>3, <1>5, <2>2 DEF Harvesting, Ahead, HarvestIsWhole
  <2>4. mode = "cron" => worker[w].own + n <= Reservation /\ Ahead(q) <= worker[w].own + n
    <3>1. 0 <= Ahead(worker[w]) + n
      BY <1>3
    <3> QED
      BY <1>2, <2>3, <3>1, SpendingIsPaid
  <2>5. used + n <= MAX_UNITS /\ 1 + Ahead(q) <= Ahead(worker[w]) + n
    BY <1>2, <1>3, <2>3
  <2> QED
    BY <1>1, <1>4, <2>1, <2>2, <2>3, <2>4, <2>5, WorkerSpends
<1>6. CASE ~(r.page + 1 < Len(Uploads[r.channel]))
  <2> DEFINE q == Finished(r, r.page + 1)
  <2>1. Refresh!Harvested(w, n, q)
    BY <1>6 DEF Refresh!TurnPage, Finished
  <2>2. q \in WorkerTypes /\ q.own = r.own /\ q.channel = r.channel /\ q.page = r.page + 1
    <3>1. r.page + 1 \in Nat
      <4>1. \A i \in Nat : i + 1 \in Nat
        OBVIOUS
      <4> QED
        BY <1>3, <4>1
    <3> QED
      BY <3>1, TurnedPage
  <2> HIDE DEF q
  <2>3. q.page = Refresh!Wanted(q.channel)
    <3>1. r.page + 1 = Len(Uploads[r.channel])
      <4>1. \A i, j \in Nat : i < j /\ ~(i + 1 < j) => i + 1 = j
        OBVIOUS
      <4> QED
        BY <1>3, <1>6, <4>1
    <3>2. \A i, j, x \in Nat : i < x /\ i + 1 = j => j = IF j < x THEN j ELSE x
      OBVIOUS
    <3>3. Len(Uploads[r.channel]) = Refresh!Wanted(r.channel)
      BY <1>3, <3>1, <3>2 DEF Refresh!Wanted
    <3> QED
      BY <2>2, <3>1, <3>3
  <2> QED
    BY <1>1, <1>3, <1>4, <2>1, <2>2, <2>3, HarvestEnds
<1> QED
  BY <1>5, <1>6

LEMMA HarvestStarts ==
  ASSUME RefreshInv, NEW w \in Workers, Refresh!Take(w)
  PROVE  WorkersInv' /\ LedgerInv'
<1> DEFINE r == [Refresh!Off EXCEPT !.at = "page", !.channel = Head(work)]
<1>1. /\ worker[w].at = "idle" /\ work # <<>> /\ work \in Seq(Ranks) /\ worker[w] \in WorkerTypes
      /\ mode \in {"cron", "cli"} /\ used \in Nat /\ used <= MAX_UNITS /\ listings \in Nat
  BY DEF Refresh!Take, RefreshInv, RunInv, WorkersInv, LedgerInv
<1>2. /\ worker' = [worker EXCEPT ![w] = r]
      /\ UNCHANGED <<mode, listings>>
  BY DEF Refresh!Take, Refresh!kept
<1>3. Head(work) \in Ranks /\ Tail(work) \in Seq(Ranks)
  BY <1>1
<1>4. /\ r \in WorkerTypes /\ r.at = "page" /\ r.own = 0 /\ r.page = 0 /\ r.channel \in Ranks /\ ~r.whole
  BY <1>3 DEF Refresh!Off, WorkerTypes
<1> HIDE DEF r
<1>5. Harvesting(r) /\ Ahead(r) = 0 /\ ~Harvesting(worker[w]) /\ Ahead(worker[w]) = 0
  BY <1>1, <1>4 DEF Harvesting, Ahead
<1>6. HarvestIsWhole(mode, r)
  BY <1>4, RefreshFacts DEF HarvestIsWhole
<1>7. HarvestIsPaid(mode, r)
  BY <1>4, <1>5, RefreshFacts DEF HarvestIsPaid
<1>8. Unspent(mode, worker[w]) = 0
  BY <1>5 DEF Unspent
<1>9. CASE mode = "cron"
  <2>1. used' = used + Reservation /\ MAX_UNITS - used >= Reservation
    BY <1>9 DEF Refresh!Take, Reservation
  <2>2. Unspent(mode, r) = Reservation
    BY <1>4, <1>5, <1>9, RefreshFacts DEF Unspent
  <2>3. used' \in Int /\ used' <= MAX_UNITS
    BY <1>1, <2>1, RefreshFacts
  <2>4. 0 + Unspent(mode, r) + Ahead(r) + used <= Unspent(mode, worker[w]) + Ahead(worker[w]) + used'
    BY <1>1, <1>5, <1>8, <2>1, <2>2, RefreshFacts
  <2>5. listings' = listings + 0
    BY <1>1, <1>2, <1>3
  <2> QED
    BY <1>2, <1>4, <1>6, <1>7, <2>3, <2>4, <2>5, WorkerGoesOn
<1>10. CASE mode = "cli"
  <2>1. used' = used
    BY <1>10 DEF Refresh!Take
  <2>2. Unspent(mode, r) = 0
    BY <1>10 DEF Unspent
  <2>3. used' \in Int /\ used' <= MAX_UNITS
    BY <1>1, <2>1, RefreshFacts
  <2>4. 0 + Unspent(mode, r) + Ahead(r) + used <= Unspent(mode, worker[w]) + Ahead(worker[w]) + used'
    BY <1>1, <1>5, <1>8, <2>1, <2>2
  <2>5. listings' = listings + 0
    BY <1>1, <1>2, <1>3
  <2> QED
    BY <1>2, <1>4, <1>6, <1>7, <2>3, <2>4, <2>5, WorkerGoesOn
<1> QED
  BY <1>1, <1>9, <1>10

\* A worker without a reservation costs the ledger nothing.
LEMMA WorkerRests ==
  ASSUME RefreshInv, NEW w \in Workers, NEW r \in WorkerTypes, ~Harvesting(r),
         worker' = [worker EXCEPT ![w] = r], NEW k \in Nat, k <= Ahead(worker[w]),
         listings' = listings + k, used' = used,
         UNCHANGED mode
  PROVE  WorkersInv' /\ LedgerInv'
<1>1. /\ worker[w] \in WorkerTypes /\ used \in Nat /\ used <= MAX_UNITS
      /\ Harvesting(worker[w]) => HarvestIsPaid(mode, worker[w])
  BY DEF RefreshInv, WorkersInv, LedgerInv
<1>2. worker[w].own \in Nat /\ Ahead(worker[w]) \in Nat /\ Reservation \in Nat
  BY <1>1, RefreshFacts DEF WorkerTypes, Ahead
<1>3. Unspent(mode, worker[w]) \in Nat
  BY <1>1, <1>2 DEF Unspent, HarvestIsPaid
<1>4. Unspent(mode, r) = 0 /\ Ahead(r) = 0
  BY DEF Unspent, Ahead, Harvesting
<1>5. k + Unspent(mode, r) + Ahead(r) + used <= Unspent(mode, worker[w]) + Ahead(worker[w]) + used'
  <2>1. \A a, b, u \in Nat : k <= b => k + 0 + 0 + u <= a + b + u
    OBVIOUS
  <2> QED
    BY <1>1, <1>2, <1>3, <1>4, <2>1
<1>6. used' \in Int /\ used' <= MAX_UNITS
  BY <1>1
<1> QED
  BY <1>5, <1>6, WorkerGoesOn

LEMMA WorkerStops ==
  ASSUME RefreshInv, NEW w \in Workers, Refresh!Stop(w)
  PROVE  WorkersInv' /\ LedgerInv'
<1>1. /\ worker' = [worker EXCEPT ![w] = Refresh!Off] /\ used' = used
      /\ UNCHANGED <<mode, listings>>
  BY DEF Refresh!Stop, Refresh!kept, Refresh!ledger
<1>2. Refresh!Off \in WorkerTypes /\ ~Harvesting(Refresh!Off)
  BY DEF Refresh!Off, WorkerTypes, Harvesting
<1>3. worker[w] \in WorkerTypes /\ listings \in Nat
  BY DEF RefreshInv, RunInv, WorkersInv, LedgerInv
<1>4. 0 <= Ahead(worker[w]) /\ listings' = listings + 0
  BY <1>1, <1>3 DEF Ahead
<1> QED
  BY <1>1, <1>2, <1>3, <1>4, WorkerRests

LEMMA PageStarts ==
  ASSUME RefreshInv, NEW w \in Workers, Refresh!StartPage(w)
  PROVE  WorkersInv' /\ LedgerInv'
<1>1. /\ worker[w].at = "page" /\ UNCHANGED <<mode, listings>>
      /\ \/ worker[w].page >= MAX_PAGES /\ Refresh!Harvested(w, 0, [worker[w] EXCEPT !.whole = TRUE])
         \/ worker[w].page < MAX_PAGES /\ Refresh!Harvested(w, 0, worker[w])
         \/ /\ worker[w].page < MAX_PAGES /\ Refresh!Remaining(w) >= 2
            /\ Refresh!Spend(w, 2, [worker[w] EXCEPT !.at = "list"])
  BY DEF Refresh!StartPage, Refresh!kept
<1>2. Harvesting(worker[w]) /\ Ahead(worker[w]) = 0
  BY <1>1 DEF Harvesting, Ahead
<1>3. /\ worker[w] \in WorkerTypes /\ HarvestIsPaid(mode, worker[w]) /\ HarvestIsWhole(mode, worker[w])
      /\ used \in Nat /\ used <= MAX_UNITS /\ listings' = listings + 0
      /\ mode \in {"cron", "cli"}
  BY <1>1, <1>2 DEF RefreshInv, RunInv, WorkersInv, LedgerInv
<1>4. /\ worker[w].own \in Nat /\ worker[w].page \in Nat /\ worker[w].channel \in Ranks
      /\ ~worker[w].whole /\ worker[w].page <= MAX_PAGES
      /\ worker[w].page < Len(Uploads[worker[w].channel])
      /\ Len(Uploads[worker[w].channel]) \in Nat /\ MAX_PAGES \in Nat /\ MAX_UNITS \in Nat
      /\ Reservation \in Nat
  BY <1>1, <1>3, RefreshFacts DEF WorkerTypes, HarvestIsWhole
<1>5. CASE worker[w].page >= MAX_PAGES /\ Refresh!Harvested(w, 0, [worker[w] EXCEPT !.whole = TRUE])
  <2> DEFINE r == [worker[w] EXCEPT !.whole = TRUE]
  <2>1. r \in WorkerTypes /\ r.own = worker[w].own /\ r.channel = worker[w].channel /\ r.page = worker[w].page
    BY <1>3 DEF WorkerTypes
  <2> HIDE DEF r
  <2>2. r.page = Refresh!Wanted(r.channel)
    <3>1. worker[w].page = Refresh!Wanted(worker[w].channel)
      BY <1>4, <1>5 DEF Refresh!Wanted
    <3> QED
      BY <2>1, <3>1
  <2>3. Refresh!Harvested(w, 0, r)
    BY <1>5 DEF r
  <2>4. 0 <= Ahead(worker[w]) + 0 /\ 0 \in {-1, 0} /\ 0 \in Nat
    BY <1>2
  <2> QED
    BY <1>1, <1>2, <1>3, <1>4, <2>1, <2>2, <2>3, <2>4, HarvestEnds
<1>6. CASE Refresh!Harvested(w, 0, worker[w])
  <2>1. 0 <= Ahead(worker[w]) + 0 /\ 0 \in {-1, 0} /\ 0 \in Nat
    BY <1>2
  <2> QED
    BY <1>1, <1>2, <1>3, <1>4, <1>6, <2>1, HarvestEnds
<1>7. CASE /\ worker[w].page < MAX_PAGES /\ Refresh!Remaining(w) >= 2
           /\ Refresh!Spend(w, 2, [worker[w] EXCEPT !.at = "list"])
  <2> DEFINE r == [worker[w] EXCEPT !.at = "list"]
  <2>1. /\ r \in WorkerTypes /\ r.at = "list" /\ r.own = worker[w].own /\ r.channel = worker[w].channel
        /\ r.page = worker[w].page /\ r.whole = worker[w].whole
    BY <1>3 DEF WorkerTypes
  <2>2. Refresh!Spend(w, 2, r)
    BY <1>7
  <2> HIDE DEF r
  <2>3. Harvesting(r) /\ Ahead(r) = 2 /\ HarvestIsWhole(mode, r)
    BY <1>4, <1>7, <2>1 DEF Harvesting, Ahead, HarvestIsWhole
  <2>4. mode = "cli" => used + 2 <= MAX_UNITS
    BY <1>3, <1>4, <1>7 DEF Refresh!Remaining
  <2>5. mode = "cron" => worker[w].own + 2 <= Reservation /\ Ahead(r) <= worker[w].own + 2
    <3>1. mode = "cron" => Reservation - worker[w].own >= 2
      BY <1>7 DEF Refresh!Remaining, Reservation
    <3>2. \A o, m \in Nat : m - o >= 2 => o + 2 <= m /\ 2 <= o + 2
      OBVIOUS
    <3> QED
      BY <1>4, <2>3, <3>1, <3>2
  <2>6. 0 + Ahead(r) <= Ahead(worker[w]) + 2 /\ 0 \in Nat /\ 2 \in Int
    BY <1>2, <2>3
  <2> QED
    BY <1>1, <1>2, <1>3, <2>1, <2>2, <2>3, <2>4, <2>5, <2>6, WorkerSpends
<1> QED
  BY <1>1, <1>5, <1>6, <1>7

LEMMA ListingAnswers ==
  ASSUME RefreshInv, NEW w \in Workers, Refresh!Listed(w)
  PROVE  WorkersInv' /\ LedgerInv'
<1>1. /\ worker[w].at = "list" /\ listings' = listings + 1 /\ UNCHANGED mode
      /\ \/ Refresh!TurnPage(w, -1, worker[w])
         \/ worker' = [worker EXCEPT ![w].at = "videos"] /\ used' = used
  BY DEF Refresh!Listed, Refresh!kept
<1>2. Harvesting(worker[w]) /\ Ahead(worker[w]) = 2
  BY <1>1 DEF Harvesting, Ahead
<1>3. /\ worker[w] \in WorkerTypes /\ HarvestIsPaid(mode, worker[w]) /\ HarvestIsWhole(mode, worker[w])
      /\ used \in Nat /\ used <= MAX_UNITS /\ worker \in [Workers -> WorkerTypes]
  BY <1>1, <1>2 DEF RefreshInv, RunInv, WorkersInv, LedgerInv
<1>4. CASE Refresh!TurnPage(w, -1, worker[w])
  <2>1. 1 <= Ahead(worker[w]) + (-1) /\ -1 \in {-1, 0}
    BY <1>2
  <2> QED
    BY <1>1, <1>3, <1>4, <2>1, PageTurns
<1>5. CASE worker' = [worker EXCEPT ![w].at = "videos"] /\ used' = used
  <2> DEFINE r == [worker[w] EXCEPT !.at = "videos"]
  <2>1. /\ r \in WorkerTypes /\ r.at = "videos" /\ r.own = worker[w].own /\ r.channel = worker[w].channel
        /\ r.page = worker[w].page /\ r.whole = worker[w].whole
    BY <1>3 DEF WorkerTypes
  <2>2. worker' = [worker EXCEPT ![w] = r]
    BY <1>3, <1>5
  <2> HIDE DEF r
  <2>3. Harvesting(r) /\ Ahead(r) = 1 /\ HarvestIsWhole(mode, r)
    BY <1>1, <1>3, <2>1 DEF Harvesting, Ahead, HarvestIsWhole
  <2>4. worker[w].own \in Nat /\ Reservation \in Nat
    BY <1>3, RefreshFacts DEF WorkerTypes
  <2>5. HarvestIsPaid(mode, r)
    BY <1>2, <1>3, <2>1, <2>3, <2>4 DEF HarvestIsPaid
  <2>6. Unspent(mode, r) = Unspent(mode, worker[w]) /\ Unspent(mode, r) \in Int
    BY <1>2, <2>1, <2>3, <2>4 DEF Unspent
  <2>7. 1 + Unspent(mode, r) + Ahead(r) + used <= Unspent(mode, worker[w]) + Ahead(worker[w]) + used'
    <3>1. \A x \in Int, u \in Nat : 1 + x + 1 + u <= x + 2 + u
      OBVIOUS
    <3> QED
      BY <1>2, <1>3, <1>5, <2>3, <2>6, <3>1
  <2>8. used' \in Int /\ used' <= MAX_UNITS /\ 1 \in Nat
    BY <1>3, <1>5
  <2> QED
    BY <1>1, <1>3, <2>1, <2>2, <2>3, <2>5, <2>7, <2>8, WorkerGoesOn
<1> QED
  BY <1>1, <1>4, <1>5

LEMMA VideosAnswer ==
  ASSUME RefreshInv, NEW w \in Workers, Refresh!Checked(w)
  PROVE  WorkersInv' /\ LedgerInv'
<1> DEFINE r == [worker[w] EXCEPT !.rows = worker[w].rows \/ Refresh!PageOf(worker[w]) = "rows"]
<1>1. /\ worker[w].at = "videos" /\ listings' = listings + 1 /\ UNCHANGED mode
      /\ Refresh!TurnPage(w, 0, r)
  BY DEF Refresh!Checked, Refresh!kept
<1>2. worker[w] \in WorkerTypes
  BY DEF RefreshInv, WorkersInv
<1>3. r \in WorkerTypes /\ r.own = worker[w].own /\ r.channel = worker[w].channel
      /\ r.page = worker[w].page /\ r.whole = worker[w].whole
  BY <1>2 DEF WorkerTypes
<1> HIDE DEF r
<1>4. 1 <= Ahead(worker[w]) + 0 /\ 0 \in {-1, 0}
  BY <1>1 DEF Ahead
<1> QED
  BY <1>1, <1>3, <1>4, PageTurns

LEMMA CallIsRefused ==
  ASSUME RefreshInv, NEW w \in Workers, Refresh!Refused(w)
  PROVE  WorkersInv' /\ LedgerInv'
<1>1. /\ listings' = listings + 1 /\ UNCHANGED mode
      /\ \/ worker[w].at = "list" /\ Refresh!Harvested(w, -1, worker[w])
         \/ worker[w].at = "videos" /\ Refresh!Harvested(w, 0, worker[w])
  BY DEF Refresh!Refused, Refresh!kept
<1>2. Harvesting(worker[w])
  BY <1>1 DEF Harvesting
<1>3. /\ worker[w] \in WorkerTypes /\ HarvestIsWhole(mode, worker[w])
  BY <1>1, <1>2 DEF RefreshInv, RunInv, WorkersInv
<1>4. worker[w].channel \in Ranks /\ ~worker[w].whole /\ 1 \in Nat
  BY <1>1, <1>3 DEF HarvestIsWhole
<1>5. CASE worker[w].at = "list" /\ Refresh!Harvested(w, -1, worker[w])
  <2>1. 1 <= Ahead(worker[w]) + (-1) /\ -1 \in {-1, 0}
    BY <1>5 DEF Ahead
  <2> QED
    BY <1>1, <1>2, <1>3, <1>4, <1>5, <2>1, HarvestEnds
<1>6. CASE worker[w].at = "videos" /\ Refresh!Harvested(w, 0, worker[w])
  <2>1. 1 <= Ahead(worker[w]) + 0 /\ 0 \in {-1, 0}
    BY <1>6 DEF Ahead
  <2> QED
    BY <1>1, <1>2, <1>3, <1>4, <1>6, <2>1, HarvestEnds
<1> QED
  BY <1>1, <1>5, <1>6

\* What a worker has spent, and nothing more.
LEMMA WorkerGivesUp ==
  ASSUME RefreshInv, NEW w \in Workers, Harvesting(worker[w]), Refresh!Settle(w, Refresh!Spent(w)),
         NEW k \in Nat, k <= Ahead(worker[w]), listings' = listings + k,
         UNCHANGED mode
  PROVE  WorkersInv' /\ LedgerInv'
<1>1. worker[w] \in WorkerTypes /\ used \in Nat
  BY DEF RefreshInv, WorkersInv, LedgerInv
<1>2. Refresh!Spent(w) \in Nat /\ Ahead(worker[w]) \in Nat
  BY <1>1 DEF Refresh!Spent, WorkerTypes, Ahead
<1>3. Refresh!Spent(w) + 0 = Refresh!Spent(w) /\ k <= Ahead(worker[w]) + 0 /\ 0 \in {-1, 0}
  BY <1>2
<1> QED
  BY <1>3, WorkerSettles

LEMMA CallTimesOut ==
  ASSUME RefreshInv, NEW w \in Workers, Refresh!TimesOut(w)
  PROVE  WorkersInv' /\ LedgerInv'
<1>1. /\ worker[w].at \in {"list", "videos"} /\ listings' = listings + 1
      /\ UNCHANGED mode
      /\ \/ worker' = [worker EXCEPT ![w] = Refresh!Off] /\ used' = used
         \/ Refresh!Settle(w, Refresh!Spent(w))
  BY DEF Refresh!TimesOut
<1>2. Harvesting(worker[w]) /\ 1 <= Ahead(worker[w]) /\ 1 \in Nat
  BY <1>1 DEF Harvesting, Ahead, RefreshInv, RunInv
<1>3. Refresh!Off \in WorkerTypes /\ ~Harvesting(Refresh!Off)
  BY DEF Refresh!Off, WorkerTypes, Harvesting
<1> QED
  BY <1>1, <1>2, <1>3, WorkerRests, WorkerGivesUp

LEMMA ShardIsSet ==
  ASSUME RefreshInv, NEW w \in Workers, Refresh!SetShard(w)
  PROVE  WorkersInv' /\ LedgerInv'
<1>1. /\ worker[w].at = "set" /\ used' = used /\ UNCHANGED <<mode, listings>>
      /\ worker' = IF mode = "cli" THEN [worker EXCEPT ![w] = Refresh!Idle]
                                   ELSE [worker EXCEPT ![w].at = "stamp"]
  BY DEF Refresh!SetShard, Refresh!ledger
<1>2. Harvesting(worker[w]) /\ Ahead(worker[w]) = 0
  BY <1>1 DEF Harvesting, Ahead
<1>3. /\ worker[w] \in WorkerTypes /\ HarvestIsPaid(mode, worker[w]) /\ HarvestIsWhole(mode, worker[w])
      /\ used \in Nat /\ used <= MAX_UNITS /\ listings \in Nat
      /\ worker \in [Workers -> WorkerTypes]
  BY <1>1, <1>2 DEF RefreshInv, RunInv, WorkersInv, LedgerInv
<1>4. listings' = listings + 0 /\ 0 \in Nat
  BY <1>1, <1>3
<1>5. CASE mode = "cli"
  <2>1. Refresh!Idle \in WorkerTypes /\ ~Harvesting(Refresh!Idle)
    BY DEF Refresh!Idle, Refresh!Off, WorkerTypes, Harvesting
  <2>2. 0 <= Ahead(worker[w])
    BY <1>2
  <2> QED
    BY <1>1, <1>3, <1>4, <1>5, <2>1, <2>2, WorkerRests
<1>6. CASE mode # "cli"
  <2> DEFINE r == [worker[w] EXCEPT !.at = "stamp"]
  <2>1. /\ r \in WorkerTypes /\ r.at = "stamp" /\ r.own = worker[w].own /\ r.channel = worker[w].channel
        /\ r.page = worker[w].page /\ r.whole = worker[w].whole
    BY <1>3 DEF WorkerTypes
  <2>2. worker' = [worker EXCEPT ![w] = r]
    BY <1>1, <1>3, <1>6
  <2> HIDE DEF r
  <2>3. Harvesting(r) /\ Ahead(r) = 0 /\ HarvestIsWhole(mode, r)
    BY <1>1, <1>3, <2>1 DEF Harvesting, Ahead, HarvestIsWhole
  <2>4. worker[w].own \in Nat /\ Reservation \in Nat
    BY <1>3, RefreshFacts DEF WorkerTypes
  <2>5. HarvestIsPaid(mode, r)
    BY <1>2, <1>3, <2>1, <2>3, <2>4 DEF HarvestIsPaid
  <2>6. Unspent(mode, r) = Unspent(mode, worker[w]) /\ Unspent(mode, r) \in Int
    BY <1>2, <2>1, <2>3, <2>4 DEF Unspent
  <2>7. 0 + Unspent(mode, r) + Ahead(r) + used <= Unspent(mode, worker[w]) + Ahead(worker[w]) + used'
    <3>1. \A x \in Int, u \in Nat : 0 + x + 0 + u <= x + 0 + u
      OBVIOUS
    <3> QED
      BY <1>1, <1>2, <1>3, <2>3, <2>6, <3>1
  <2>8. used' \in Int /\ used' <= MAX_UNITS
    BY <1>1, <1>3
  <2> QED
    BY <1>1, <1>3, <1>4, <2>1, <2>2, <2>3, <2>5, <2>7, <2>8, WorkerGoesOn
<1> QED
  BY <1>5, <1>6

LEMMA ShardIsStamped ==
  ASSUME RefreshInv, NEW w \in Workers, Refresh!StampShard(w) \/ Refresh!WriteFails(w)
  PROVE  WorkersInv' /\ LedgerInv'
<1>1. /\ worker[w].at \in {"set", "stamp"} /\ UNCHANGED <<mode, listings>>
      /\ Refresh!Settle(w, Refresh!Spent(w))
  BY DEF Refresh!StampShard, Refresh!WriteFails
<1>2. Harvesting(worker[w]) /\ 0 <= Ahead(worker[w]) /\ 0 \in Nat
  BY <1>1 DEF Harvesting, Ahead
<1>3. listings' = listings + 0
  BY <1>1 DEF RefreshInv, LedgerInv
<1> QED
  BY <1>1, <1>2, <1>3, WorkerGivesUp

\* Nobody harvests: nothing is owed.
LEMMA NothingIsOwed ==
  ASSUME NEW m, NEW s \in [Workers -> WorkerTypes], \A w \in Workers : ~Harvesting(s[w])
  PROVE  Total([w \in Workers |-> Unspent(m, s[w]) + Ahead(s[w])]) = 0
<1> DEFINE f == [w \in Workers |-> Unspent(m, s[w]) + Ahead(s[w])]
<1>1. \A w \in Workers : f[w] = 0
  BY DEF Unspent, Ahead, Harvesting
<1> HIDE DEF f
<1>2. {p \in Workers \X (1..Reservation) : p[2] <= f[p[1]]} = {}
  BY <1>1, RefreshFacts
<1>3. Total(f) = 0
  BY <1>2, FS_EmptySet DEF Total, UnitsIn
<1> QED
  BY <1>3 DEF f

LEMMA NobodyOwes ==
  ASSUME NEW s \in [Workers -> WorkerTypes], \A w \in Workers : ~Harvesting(s[w]), worker' = s,
         used' \in Nat, listings' \in Nat, listings' <= used', used' <= MAX_UNITS
  PROVE  WorkersInv' /\ LedgerInv'
<1>1. WorkersInv'
  BY DEF WorkersInv, Harvesting
<1>2. Owing' = [w \in Workers |-> Unspent(mode', s[w]) + Ahead(s[w])]
  BY DEF Owing
<1>3. Total(Owing)' = 0
  BY <1>2, NothingIsOwed DEF Total
<1>4. listings' + 0 <= used'
  <2>1. \A i \in Nat : i + 0 = i
    OBVIOUS
  <2> QED
    BY <2>1
<1> QED
  BY <1>1, <1>3, <1>4 DEF LedgerInv

LEMMA FunctionIsKilled ==
  ASSUME RefreshInv, Refresh!Killed
  PROVE  WorkersInv' /\ LedgerInv'
<1> DEFINE s == [w \in Workers |-> Refresh!Off]
<1>1. worker' = s /\ used' = used /\ UNCHANGED <<mode, listings>>
  BY DEF Refresh!Killed, Refresh!ledger
<1>2. s \in [Workers -> WorkerTypes] /\ \A w \in Workers : ~Harvesting(s[w])
  BY DEF Refresh!Off, WorkerTypes, Harvesting
<1>3. used \in Nat /\ listings \in Nat /\ used <= MAX_UNITS /\ listings <= used
  <2>1. /\ used \in Nat /\ listings \in Nat /\ used <= MAX_UNITS /\ listings + Total(Owing) <= used
        /\ Owing \in [Workers -> 0..Reservation]
    BY OwingIsBounded DEF RefreshInv, LedgerInv
  <2>2. Total(Owing) \in Nat
    BY <2>1, TotalIsANumber
  <2>3. \A l, t, u \in Nat : l + t <= u => l <= u
    OBVIOUS
  <2> QED
    BY <2>1, <2>2, <2>3
<1> HIDE DEF s
<1> QED
  BY <1>1, <1>2, <1>3, NobodyOwes

LEMMA RunStarts ==
  ASSUME Refresh!NextRun
  PROVE  WorkersInv' /\ LedgerInv'
<1> DEFINE s == [w \in Workers |-> Refresh!Idle]
<1>1. worker' = s /\ used' = 0 /\ listings' = 0
  BY DEF Refresh!NextRun
<1>2. s \in [Workers -> WorkerTypes] /\ \A w \in Workers : ~Harvesting(s[w])
  BY DEF Refresh!Idle, Refresh!Off, WorkerTypes, Harvesting
<1> HIDE DEF s
<1>3. used' \in Nat /\ listings' \in Nat /\ listings' <= used' /\ used' <= MAX_UNITS
  BY <1>1, RefreshFacts
<1> QED
  BY <1>1, <1>2, <1>3, NobodyOwes

LEMMA RunMoves ==
  ASSUME RefreshInv, Refresh!Next
  PROVE  RunInv'
<1>1. RunInv /\ worker \in [Workers -> WorkerTypes]
      /\ \A w \in Workers : Harvesting(worker[w]) => worker[w].channel \in Ranks
  BY DEF RefreshInv, WorkersInv, HarvestIsWhole
<1>2. CASE Refresh!NextRun
  <2>1. /\ mode' = mode /\ run' = run + 1 /\ UNCHANGED <<shardStamps, shards>>
        /\ work' = Refresh!Oldest(shardStamps)
    BY <1>2 DEF Refresh!NextRun, Refresh!kept
  <2> QED
    BY <1>1, <2>1, OldestIsAList DEF RunInv
<1>3. ASSUME NEW w \in Workers, Refresh!Take(w) PROVE RunInv'
  <2>1. /\ work # <<>> /\ work' = Tail(work) /\ UNCHANGED <<mode, run, shardStamps, shards>>
    BY <1>3 DEF Refresh!Take, Refresh!kept
  <2> QED
    BY <1>1, <2>1 DEF RunInv
<1>4. ASSUME NEW w \in Workers, Refresh!StampShard(w) PROVE RunInv'
  <2>1. /\ worker[w].at = "stamp" /\ UNCHANGED <<mode, run, work, shards>>
        /\ shardStamps' = [shardStamps EXCEPT ![worker[w].channel] = run]
    BY <1>4 DEF Refresh!StampShard
  <2>2. worker[w].channel \in Ranks
    BY <1>1, <2>1 DEF Harvesting
  <2> QED
    BY <1>1, <2>1, <2>2 DEF RunInv
<1>5. ASSUME UNCHANGED <<mode, run, work, shardStamps, shards>> PROVE RunInv'
  BY <1>1, <1>5 DEF RunInv
<1>6. ASSUME NEW w \in Workers,
             \/ Refresh!Stop(w) \/ Refresh!StartPage(w) \/ Refresh!Listed(w) \/ Refresh!Checked(w)
             \/ Refresh!Refused(w) \/ Refresh!WriteFails(w)
      PROVE  RunInv'
  BY <1>5, <1>6 DEF Refresh!Stop, Refresh!StartPage, Refresh!Listed, Refresh!Checked, Refresh!Refused,
    Refresh!WriteFails, Refresh!kept, Refresh!ledger
<1>7. ASSUME NEW w \in Workers, Refresh!SetShard(w) PROVE RunInv'
  <2>1. /\ UNCHANGED <<mode, run, work, shardStamps>> /\ worker[w] \in WorkerTypes
        /\ shards' = [shards EXCEPT ![worker[w].channel] = [run |-> run, pages |-> worker[w].page]]
    BY <1>1, <1>7 DEF Refresh!SetShard, Refresh!ledger
  <2>2. [run |-> run, pages |-> worker[w].page] \in ShardTypes
    BY <1>1, <2>1 DEF RunInv, WorkerTypes, ShardTypes
  <2>3. shards' \in [Ranks -> ShardTypes]
    BY <1>1, <2>1, <2>2 DEF RunInv
  <2> QED
    BY <1>1, <2>1, <2>3 DEF RunInv
<1>8. ASSUME NEW w \in Workers, Refresh!TimesOut(w) PROVE RunInv'
  <2>1. /\ UNCHANGED <<mode, run, work, shardStamps>>
        /\ shards' = shards \/ shards' = [c \in Ranks |-> Refresh!NoShard]
    BY <1>8 DEF Refresh!TimesOut, Ranks
  <2>2. Refresh!NoShard \in ShardTypes
    BY DEF Refresh!NoShard, ShardTypes
  <2>3. shards' \in [Ranks -> ShardTypes]
    BY <1>1, <2>1, <2>2 DEF RunInv
  <2> QED
    BY <1>1, <2>1, <2>3 DEF RunInv
<1>9. CASE Refresh!Clock \/ Refresh!Killed
  BY <1>5, <1>9 DEF Refresh!Clock, Refresh!Killed, Refresh!kept, Refresh!ledger
<1> QED
  BY <1>2, <1>3, <1>4, <1>6, <1>7, <1>8, <1>9 DEF Refresh!Next

LEMMA RefreshMoves ==
  ASSUME RefreshInv, [Refresh!Next]_refreshVars
  PROVE  RefreshInv'
<1>1. CASE UNCHANGED refreshVars
  <2>1. UNCHANGED <<mode, work, run, shardStamps, shards, worker, used, listings>>
    BY <1>1 DEF refreshVars
  <2> QED
    BY <2>1 DEF RefreshInv, RunInv, WorkersInv, LedgerInv, Total, Owing, UnitsIn
<1>2. CASE Refresh!Next
  <2>1. RunInv'
    BY <1>2, RunMoves
  <2>2. CASE Refresh!Clock
    <3>1. UNCHANGED <<mode, worker, used, listings>>
      BY <2>2 DEF Refresh!Clock, Refresh!ledger
    <3> QED
      BY <2>1, <3>1 DEF RefreshInv, WorkersInv, LedgerInv, Total, Owing, UnitsIn
  <2>3. CASE Refresh!Killed
    BY <2>1, <2>3, FunctionIsKilled DEF RefreshInv
  <2>4. CASE Refresh!NextRun
    BY <2>1, <2>4, RunStarts DEF RefreshInv
  <2>5. ASSUME NEW w \in Workers,
               \/ Refresh!Take(w) \/ Refresh!Stop(w) \/ Refresh!StartPage(w) \/ Refresh!Listed(w)
               \/ Refresh!Checked(w) \/ Refresh!Refused(w) \/ Refresh!TimesOut(w)
               \/ Refresh!SetShard(w) \/ Refresh!StampShard(w) \/ Refresh!WriteFails(w)
        PROVE  WorkersInv' /\ LedgerInv'
    BY <2>5, HarvestStarts, WorkerStops, PageStarts, ListingAnswers, VideosAnswer, CallIsRefused,
      CallTimesOut, ShardIsSet, ShardIsStamped
  <2> QED
    BY <1>2, <2>1, <2>2, <2>3, <2>4, <2>5 DEF Refresh!Next, RefreshInv
<1> QED
  BY <1>1, <1>2

LEMMA RefreshStarts == StoresInit => RefreshInv
<1> SUFFICES ASSUME StoresInit PROVE RefreshInv
  OBVIOUS
<1>1. Refresh!Init
  BY DEF StoresInit
<1>2. /\ mode \in {"cron", "cli"} /\ shardStamps = [c \in Ranks |-> 0] /\ work = Channels
      /\ used = 0 /\ listings = 0 /\ run = 1 /\ shards = [c \in Ranks |-> Refresh!NoShard]
      /\ worker = [w \in Workers |-> IF w \in Refresh!Staff THEN Refresh!Idle ELSE Refresh!Off]
  BY <1>1 DEF Refresh!Init, Ranks
<1>3. RunInv
  BY <1>2, RefreshFacts DEF RunInv, ShardTypes, Refresh!NoShard
<1>4. worker \in [Workers -> WorkerTypes] /\ \A w \in Workers : ~Harvesting(worker[w])
  BY <1>2 DEF Refresh!Idle, Refresh!Off, WorkerTypes, Harvesting
<1>5. WorkersInv
  BY <1>4 DEF WorkersInv
<1>6. Total(Owing) = 0
  BY <1>4, NothingIsOwed DEF Owing
<1>7. LedgerInv
  BY <1>2, <1>6, RefreshFacts DEF LedgerInv
<1> QED
  BY <1>3, <1>5, <1>7 DEF RefreshInv

\* What the cron writes is whole.
LEMMA ShardsStayWhole ==
  ASSUME RefreshInv, [Refresh!Next]_refreshVars, NEW c \in Ranks, mode = "cron", shards'[c] # shards[c]
  PROVE  shards'[c].pages = Refresh!Wanted(c)
<1>1. Refresh!Next
  BY DEF refreshVars
<1>2. \A w \in Workers : Harvesting(worker[w]) => HarvestIsWhole(mode, worker[w])
  BY DEF RefreshInv, WorkersInv
<1>3. PICK w \in Workers : Refresh!SetShard(w)
  BY <1>1 DEF Refresh!Next, Refresh!Clock, Refresh!Killed, Refresh!NextRun, Refresh!Take, Refresh!Stop,
    Refresh!StartPage, Refresh!Listed, Refresh!Checked, Refresh!Refused, Refresh!TimesOut,
    Refresh!StampShard, Refresh!WriteFails, Refresh!kept
<1>4. worker[w].at = "set" /\ shards' = [shards EXCEPT ![worker[w].channel] = [run |-> run, pages |-> worker[w].page]]
  BY <1>3 DEF Refresh!SetShard
<1>5. worker[w].page = Refresh!Wanted(worker[w].channel)
  BY <1>2, <1>4 DEF Harvesting, HarvestIsWhole
<1>6. c = worker[w].channel /\ c \in DOMAIN shards
  BY <1>4 DEF RefreshInv, RunInv
<1> QED
  BY <1>4, <1>5, <1>6


\* Filling the index never costs more calls than its budget, and what the daily run puts
\* into the index is a channel's whole wanted catalogue (harvest.ts:54, refresh.ts:91,
\* refresh.ts:109).
THEOREM IndexIsFilledSoundly ==
  StoresSpec => [](part = "refresh" => Refresh!BudgetCoversCalls) /\ Refresh!ShardsAreWhole
<1> DEFINE step == \A c \in Refresh!ChannelSet :
                     mode = "cron" /\ shards'[c] # shards[c] => shards'[c].pages = Refresh!Wanted(c)
<1>1. StoresInit => RefreshInv
  BY RefreshStarts
<1>2. [StoresNext]_storesVars => [Refresh!Next]_refreshVars
  BY DEF StoresNext, Alone, storesVars
<1>3. RefreshInv /\ [Refresh!Next]_refreshVars => RefreshInv'
  BY RefreshMoves
<1>4. RefreshInv => Refresh!BudgetCoversCalls
  <2> SUFFICES ASSUME RefreshInv PROVE Refresh!BudgetCoversCalls
    OBVIOUS
  <2>1. /\ used \in Nat /\ listings \in Nat /\ used <= MAX_UNITS /\ listings + Total(Owing) <= used
        /\ Owing \in [Workers -> 0..Reservation]
    BY OwingIsBounded DEF RefreshInv, LedgerInv
  <2>2. Total(Owing) \in Nat
    BY <2>1, TotalIsANumber
  <2>3. \A l, t, u \in Nat : l + t <= u => l <= u
    OBVIOUS
  <2> QED
    BY <2>1, <2>2, <2>3 DEF Refresh!BudgetCoversCalls
<1>5. RefreshInv /\ [Refresh!Next]_refreshVars => [step]_(Refresh!vars)
  BY ShardsStayWhole DEF Ranks
<1> QED
  BY <1>1, <1>2, <1>3, <1>4, <1>5, PTL DEF StoresSpec, Refresh!ShardsAreWhole

\* The karaoke index is served and filled as promised.
THEOREM IndexIsSound == StoresSpec => ShardsAreSound
  BY IndexIsServedSoundly, IndexIsFilledSoundly, PTL DEF ShardsAreSound-----------------------------------------------------------------------------
(* Feedback.                                                               *)

Sends == Feedbacks!Posts
SendTypes ==
  [pc : {"unsent", "hit", "expire", "item", "index", "created", "refused", "failed"},
   window : 0..MaxWindows, id : 0..MaxPosts]
ReportTypes == [phase : {"closed", "form", "sending", "done", "error"}, of : 0..MaxPosts]

\* The submissions that have an id, and those the limit has let through in an hour.
Numbered(q) == {p \in Sends : q[p].id # 0}
LetThrough(q, w) == {p \in Sends : q[p].window = w}

\* An id is stamped once, on a submission that is past the limit.
SendsInv ==
  /\ post \in [Sends -> SendTypes]
  /\ stamped \in 0..MaxPosts /\ stamped = Cardinality(Numbered(post))
  /\ \A p \in Sends : /\ post[p].id <= stamped
                      /\ post[p].pc \in {"unsent", "hit", "expire"} => post[p].id = 0
                      /\ post[p].pc \in {"item", "index", "created"} => post[p].id # 0
                      /\ post[p].pc = "expire" => post[p].window \in 1..MaxWindows

\* A record is written, then listed, then thanked for.
RecordsInv ==
  /\ item \in [Sends -> {"none", "new", "triaged"}] /\ index \in Seq(Sends)
  /\ \A i \in DOMAIN index : item[index[i]] # "none"
  /\ \A p \in Sends : post[p].pc \in {"index", "created"} => item[post[p].id] # "none"
  /\ \A p \in Sends : post[p].pc = "created" => post[p].id \in Range(index)

ReportsInv ==
  /\ report \in [Sheets -> ReportTypes]
  /\ \A s \in Sheets : /\ report[s].phase \in {"sending", "done"} => report[s].of \in Sends
                       /\ report[s].phase = "done" => post[report[s].of].pc = "created"

\* An hour lets through no more than it counts, nor than the limit.
RateInv ==
  /\ window \in 1..MaxWindows /\ counter \in [1..MaxWindows -> Nat]
  /\ \A w \in 1..MaxWindows : /\ Cardinality(LetThrough(post, w)) <= counter[w]
                              /\ Cardinality(LetThrough(post, w)) <= RATE_LIMIT_MAX

\* Up to the watermark, an id was on the list or is known to have been overtaken.
IntakeInv ==
  /\ mark \in Nat
  /\ \A id \in 1..mark : id \in Range(index) \/ id \in overtaken
  /\ \A id \in Range(index) : id <= mark /\ id \notin overtaken => id \in seen

FeedbackInv == SendsInv /\ RecordsInv /\ ReportsInv /\ RateInv /\ IntakeInv

LEMMA FeedbackFacts ==
  /\ MaxPosts \in Nat /\ MaxWindows \in Nat \ {0} /\ RATE_LIMIT_MAX \in Nat \ {0}
  /\ Sends = 1..MaxPosts /\ IsFiniteSet(Sends) /\ Cardinality(Sends) = MaxPosts
<1>1. /\ MaxPosts \in Nat /\ MaxWindows \in Nat \ {0} /\ RATE_LIMIT_MAX \in Nat \ {0}
      /\ Sends = 1..MaxPosts
  BY FeedbacksAssumption DEF Feedbacks!FeedbackAssumption, Sends, Feedbacks!Posts
<1>2. 1 \in Int /\ MaxPosts \in Int
  BY <1>1
<1>3. IsFiniteSet(1..MaxPosts) /\ Cardinality(1..MaxPosts) = MaxPosts
  BY <1>1, <1>2, FS_Interval
<1> QED
  BY <1>1, <1>3

LEMMA FeedbackWords ==
  /\ \A S : Feedbacks!Cardinality(S) = Cardinality(S)
  /\ \A s : Feedbacks!Range(s) = Range(s)
  BY DEF Feedbacks!Cardinality, Cardinality, Feedbacks!Range, Range

LEMMA SendsAreCounted ==
  ASSUME NEW q
  PROVE  /\ IsFiniteSet(Numbered(q)) /\ Cardinality(Numbered(q)) \in Nat
         /\ Cardinality(Numbered(q)) <= MaxPosts
         /\ \A w : IsFiniteSet(LetThrough(q, w)) /\ Cardinality(LetThrough(q, w)) \in Nat
<1>1. Numbered(q) \in SUBSET Sends /\ \A w : LetThrough(q, w) \in SUBSET Sends
  BY DEF Numbered, LetThrough
<1>2. IsFiniteSet(Numbered(q)) /\ Cardinality(Numbered(q)) <= Cardinality(Sends)
  BY <1>1, FeedbackFacts, FS_Subset
<1>3. \A w : IsFiniteSet(LetThrough(q, w))
  BY <1>1, FeedbackFacts, FS_Subset
<1> QED
  BY <1>2, <1>3, FeedbackFacts, FS_CardinalityType

\* A submission moves on, with the id and the hour it has.
LEMMA SendMovesOn ==
  ASSUME FeedbackInv, NEW p \in Sends, NEW c \in {"hit", "index", "created", "refused", "failed"},
         post' = [post EXCEPT ![p].pc = c],
         c = "hit" => post[p].id = 0,
         c \in {"index", "created"} => post[p].id # 0,
         UNCHANGED stamped
  PROVE  SendsInv' /\ \A w : LetThrough(post', w) = LetThrough(post, w)
<1>1. /\ post \in [Sends -> SendTypes] /\ stamped \in 0..MaxPosts /\ stamped = Cardinality(Numbered(post))
      /\ \A q \in Sends : /\ post[q].id <= stamped
                          /\ post[q].pc \in {"unsent", "hit", "expire"} => post[q].id = 0
                          /\ post[q].pc \in {"item", "index", "created"} => post[q].id # 0
                          /\ post[q].pc = "expire" => post[q].window \in 1..MaxWindows
  BY DEF FeedbackInv, SendsInv
<1>2. /\ post' \in [Sends -> SendTypes] /\ post'[p].pc = c
      /\ \A q \in Sends : post'[q].id = post[q].id /\ post'[q].window = post[q].window
      /\ \A q \in Sends \ {p} : post'[q] = post[q]
  BY <1>1 DEF SendTypes
<1>3. Numbered(post') = Numbered(post)
  BY <1>2 DEF Numbered
<1>4. \A q \in Sends : /\ post'[q].id <= stamped
                       /\ post'[q].pc \in {"unsent", "hit", "expire"} => post'[q].id = 0
                       /\ post'[q].pc \in {"item", "index", "created"} => post'[q].id # 0
                       /\ post'[q].pc = "expire" => post'[q].window \in 1..MaxWindows
  BY <1>1, <1>2
<1>5. SendsInv'
  BY <1>1, <1>2, <1>3, <1>4 DEF SendsInv, Numbered
<1>6. \A w : LetThrough(post', w) = LetThrough(post, w)
  BY <1>2 DEF LetThrough
<1> QED
  BY <1>5, <1>6

LEMMA RecordIsAdmitted ==
  ASSUME FeedbackInv, NEW p \in Sends, post[p].id = 0, NEW h \in 1..MaxWindows,
         Feedbacks!Admit(p, h), UNCHANGED <<item, index>>
  PROVE  /\ SendsInv' /\ RecordsInv'
         /\ \A w : w # h => LetThrough(post', w) \subseteq LetThrough(post, w)
         /\ LetThrough(post', h) = LetThrough(post, h) \cup {p}
<1> DEFINE r == [pc |-> "item", window |-> h, id |-> stamped + 1]
<1>1. post' = [post EXCEPT ![p] = r] /\ stamped' = stamped + 1
  BY DEF Feedbacks!Admit
<1>2. /\ post \in [Sends -> SendTypes] /\ stamped \in 0..MaxPosts /\ stamped = Cardinality(Numbered(post))
      /\ \A q \in Sends : /\ post[q].id <= stamped /\ post[q].id \in Nat
                          /\ post[q].pc \in {"unsent", "hit", "expire"} => post[q].id = 0
                          /\ post[q].pc \in {"item", "index", "created"} => post[q].id # 0
                          /\ post[q].pc = "expire" => post[q].window \in 1..MaxWindows
  BY FeedbackFacts DEF FeedbackInv, SendsInv, SendTypes
<1>3. stamped \in Nat /\ MaxPosts \in Nat /\ MaxWindows \in Nat
  BY <1>2, FeedbackFacts
<1>4. r.pc = "item" /\ r.window = h /\ r.id = stamped + 1
  OBVIOUS
<1>5. post'[p] = r /\ \A q \in Sends \ {p} : post'[q] = post[q]
  BY <1>1, <1>2
<1> HIDE DEF r
<1>6. Numbered(post') = Numbered(post) \cup {p} /\ p \notin Numbered(post)
  BY <1>3, <1>4, <1>5 DEF Numbered
<1>7. Cardinality(Numbered(post')) = stamped + 1 /\ stamped + 1 <= MaxPosts
  <2>1. IsFiniteSet(Numbered(post)) /\ Cardinality(Numbered(post')) <= MaxPosts
    BY SendsAreCounted
  <2>2. Cardinality(Numbered(post) \cup {p}) = Cardinality(Numbered(post)) + 1
    BY <1>6, <2>1, FS_AddElement
  <2> QED
    BY <1>2, <1>6, <2>1, <2>2
<1>8. r \in SendTypes
  <2>1. h \in 0..MaxWindows /\ stamped + 1 \in 0..MaxPosts
    BY <1>3, <1>7
  <2> QED
    BY <2>1 DEF SendTypes, r
<1>9. SendsInv'
  <2>1. post' \in [Sends -> SendTypes] /\ stamped' \in 0..MaxPosts /\ stamped' = Cardinality(Numbered(post'))
    BY <1>1, <1>2, <1>3, <1>7, <1>8
  <2>2. ASSUME NEW q \in Sends
        PROVE  /\ post'[q].id <= stamped + 1
               /\ post'[q].pc \in {"unsent", "hit", "expire"} => post'[q].id = 0
               /\ post'[q].pc \in {"item", "index", "created"} => post'[q].id # 0
               /\ post'[q].pc = "expire" => post'[q].window \in 1..MaxWindows
    BY <1>2, <1>3, <1>4, <1>5
  <2> QED
    BY <1>1, <2>1, <2>2 DEF SendsInv, Numbered
<1>10. RecordsInv'
  <2>1. RecordsInv
    BY DEF FeedbackInv
  <2>2. \A q \in Sends : post'[q].pc \in {"index", "created"} => post'[q] = post[q]
    BY <1>4, <1>5
  <2> QED
    BY <2>1, <2>2 DEF RecordsInv
<1>11. LetThrough(post', h) = LetThrough(post, h) \cup {p}
  BY <1>4, <1>5 DEF LetThrough
<1>12. \A w : w # h => LetThrough(post', w) \subseteq LetThrough(post, w)
  BY <1>4, <1>5 DEF LetThrough
<1> QED
  BY <1>9, <1>10, <1>11, <1>12

LEMMA SheetsMove ==
  ASSUME FeedbackInv, NEW s \in Sheets,
         Feedbacks!Open(s) \/ Feedbacks!Answered(s) \/ Feedbacks!Offline(s) \/ Feedbacks!Close(s)
  PROVE  FeedbackInv'
<1>1. UNCHANGED <<window, counter, item, index, stamped, post, mark, seen, overtaken>>
  BY DEF Feedbacks!Open, Feedbacks!Answered, Feedbacks!Offline, Feedbacks!Close, Feedbacks!server
<1>2. SendsInv' /\ RecordsInv' /\ RateInv' /\ IntakeInv'
  BY <1>1 DEF FeedbackInv, SendsInv, RecordsInv, RateInv, IntakeInv, Numbered, LetThrough
<1>3. ReportsInv
  BY DEF FeedbackInv
<1>4. Feedbacks!Closed \in ReportTypes /\ Feedbacks!Closed.phase = "closed"
  BY FeedbackFacts DEF Feedbacks!Closed, ReportTypes
<1>5. ReportsInv'
  <2>1. CASE Feedbacks!Open(s)
    <3>1. report' = [report EXCEPT ![s].phase = "form"]
      BY <2>1 DEF Feedbacks!Open
    <3> QED
      BY <1>1, <1>3, <3>1 DEF ReportsInv, ReportTypes
  <2>2. CASE Feedbacks!Answered(s)
    <3>1. /\ report[s].phase = "sending"
          /\ report' = [report EXCEPT ![s].phase = IF post[report[s].of].pc = "created" THEN "done" ELSE "error"]
      BY <2>2 DEF Feedbacks!Answered
    <3> QED
      BY <1>1, <1>3, <3>1 DEF ReportsInv, ReportTypes
  <2>3. CASE Feedbacks!Offline(s)
    <3>1. report' = [report EXCEPT ![s].phase = "error"]
      BY <2>3 DEF Feedbacks!Offline
    <3> QED
      BY <1>1, <1>3, <3>1 DEF ReportsInv, ReportTypes
  <2>4. CASE Feedbacks!Close(s)
    <3>1. report' = [report EXCEPT ![s] = Feedbacks!Closed]
      BY <2>4 DEF Feedbacks!Close
    <3> QED
      BY <1>1, <1>3, <1>4, <3>1 DEF ReportsInv
  <2> QED
    BY <2>1, <2>2, <2>3, <2>4
<1> QED
  BY <1>2, <1>5 DEF FeedbackInv

\* A submission that moves on without a record or a list changing.
LEMMA OnlySendMoves ==
  ASSUME FeedbackInv, NEW p \in Sends, NEW c \in {"hit", "refused", "failed"},
         post' = [post EXCEPT ![p].pc = c], c = "hit" => post[p].id = 0, post[p].pc # "created",
         UNCHANGED <<stamped, item, index>>
  PROVE  /\ SendsInv' /\ RecordsInv' /\ \A w : LetThrough(post', w) = LetThrough(post, w)
         /\ \A q \in Sends : post[q].pc = "created" => post'[q].pc = "created"
<1>1. SendsInv' /\ \A w : LetThrough(post', w) = LetThrough(post, w)
  BY SendMovesOn
<1>2. RecordsInv /\ post \in [Sends -> SendTypes]
  BY DEF FeedbackInv, SendsInv
<1>3. post'[p].pc = c /\ \A q \in Sends \ {p} : post'[q] = post[q]
  BY <1>2 DEF SendTypes
<1>4. \A q \in Sends : post'[q].pc \in {"index", "created"} => post'[q] = post[q]
  BY <1>3
<1>5. RecordsInv'
  BY <1>2, <1>4 DEF RecordsInv
<1> QED
  BY <1>1, <1>3, <1>5

LEMMA FaceIsTapped ==
  ASSUME FeedbackInv, NEW s \in Sheets, Feedbacks!submit(s)
  PROVE  FeedbackInv'
<1>1. PICK p \in Sends :
        /\ post[p] = Feedbacks!Unsent
        /\ report' = [report EXCEPT ![s] = [phase |-> "sending", of |-> p]]
        /\ post' = [post EXCEPT ![p].pc = "hit"]
        /\ UNCHANGED <<window, counter, item, index, stamped, mark, seen, overtaken>>
  BY DEF Feedbacks!submit, Feedbacks!server, Sends
<1>2. post[p].id = 0 /\ post[p].pc = "unsent"
  BY <1>1 DEF Feedbacks!Unsent
<1>3. /\ SendsInv' /\ RecordsInv' /\ \A w : LetThrough(post', w) = LetThrough(post, w)
      /\ \A q \in Sends : post[q].pc = "created" => post'[q].pc = "created"
  BY <1>1, <1>2, OnlySendMoves
<1>4. RateInv'
  BY <1>1, <1>3 DEF FeedbackInv, RateInv
<1>5. IntakeInv'
  BY <1>1 DEF FeedbackInv, IntakeInv
<1>6. ReportsInv'
  <2>1. ReportsInv
    BY DEF FeedbackInv
  <2>2. p \in 0..MaxPosts
    BY FeedbackFacts
  <2>3. [phase |-> "sending", of |-> p] \in ReportTypes
    BY <2>2 DEF ReportTypes
  <2> QED
    BY <1>1, <1>3, <2>1, <2>3 DEF ReportsInv
<1> QED
  BY <1>3, <1>4, <1>5, <1>6 DEF FeedbackInv

LEMMA CallThrows ==
  ASSUME FeedbackInv, NEW p \in Sends, Feedbacks!Throws(p)
  PROVE  FeedbackInv'
<1>1. /\ post[p].pc \in {"hit", "expire", "item", "index"} /\ post' = [post EXCEPT ![p].pc = "failed"]
      /\ UNCHANGED <<window, counter, item, index, stamped, mark, seen, overtaken, report>>
  BY DEF Feedbacks!Throws, Feedbacks!server
<1>2. /\ SendsInv' /\ RecordsInv' /\ \A w : LetThrough(post', w) = LetThrough(post, w)
      /\ \A q \in Sends : post[q].pc = "created" => post'[q].pc = "created"
  BY <1>1, OnlySendMoves
<1>3. RateInv'
  BY <1>1, <1>2 DEF FeedbackInv, RateInv
<1>4. IntakeInv'
  BY <1>1 DEF FeedbackInv, IntakeInv
<1>5. ReportsInv'
  BY <1>1, <1>2 DEF FeedbackInv, ReportsInv
<1> QED
  BY <1>2, <1>3, <1>4, <1>5 DEF FeedbackInv

LEMMA AttemptIsCounted ==
  ASSUME FeedbackInv, NEW p \in Sends, Feedbacks!Hit(p)
  PROVE  FeedbackInv'
<1> DEFINE n == counter[window] + 1
<1>1. /\ post[p].pc = "hit" /\ counter' = [counter EXCEPT ![window] = n]
      /\ UNCHANGED <<window, item, index, report, mark, seen, overtaken>>
      /\ \/ /\ n = 1 /\ stamped' = stamped
            /\ post' = [post EXCEPT ![p].pc = "expire", ![p].window = window]
         \/ n <= RATE_LIMIT_MAX /\ Feedbacks!Admit(p, window)
         \/ post' = [post EXCEPT ![p].pc = "refused"] /\ stamped' = stamped
  BY DEF Feedbacks!Hit, Feedbacks!Allowed
<1>2. /\ window \in 1..MaxWindows /\ counter \in [1..MaxWindows -> Nat] /\ RecordsInv /\ SendsInv /\ ReportsInv
      /\ post \in [Sends -> SendTypes] /\ post[p].id = 0 /\ RATE_LIMIT_MAX \in Nat \ {0}
      /\ \A w \in 1..MaxWindows : /\ Cardinality(LetThrough(post, w)) <= counter[w]
                                  /\ Cardinality(LetThrough(post, w)) <= RATE_LIMIT_MAX
  BY <1>1, FeedbackFacts DEF FeedbackInv, SendsInv, RateInv
<1>3. n \in Nat /\ counter' \in [1..MaxWindows -> Nat] /\ counter'[window] = n
      /\ \A w \in 1..MaxWindows \ {window} : counter'[w] = counter[w]
  BY <1>1, <1>2
<1>4. \A w \in 1..MaxWindows : counter[w] <= counter'[w] /\ counter[w] \in Nat /\ counter'[w] \in Nat
  BY <1>2, <1>3
<1>5. IntakeInv'
  BY <1>1 DEF FeedbackInv, IntakeInv
<1> HIDE DEF n
\* one more of this hour's is within the count and the limit
<1>6. ASSUME n <= RATE_LIMIT_MAX, LetThrough(post', window) \subseteq LetThrough(post, window) \cup {p},
             \A w : w # window => LetThrough(post', w) \subseteq LetThrough(post, w)
      PROVE  RateInv'
  <2>1. ASSUME NEW w \in 1..MaxWindows
        PROVE  /\ Cardinality(LetThrough(post', w)) <= counter'[w]
               /\ Cardinality(LetThrough(post', w)) <= RATE_LIMIT_MAX
    <3>1. /\ IsFiniteSet(LetThrough(post, w)) /\ Cardinality(LetThrough(post, w)) \in Nat
          /\ IsFiniteSet(LetThrough(post', w)) /\ Cardinality(LetThrough(post', w)) \in Nat
      BY SendsAreCounted
    <3>2. CASE w # window
      <4>1. Cardinality(LetThrough(post', w)) <= Cardinality(LetThrough(post, w))
        BY <1>6, <3>1, <3>2, FS_Subset
      <4> QED
        BY <1>2, <1>4, <3>1, <4>1
    <3>3. CASE w = window
      <4>1. /\ IsFiniteSet(LetThrough(post, w) \cup {p})
            /\ Cardinality(LetThrough(post, w) \cup {p}) \in Nat
            /\ Cardinality(LetThrough(post, w) \cup {p}) <= Cardinality(LetThrough(post, w)) + 1
        <5>1. /\ IsFiniteSet(LetThrough(post, w) \cup {p})
              /\ Cardinality(LetThrough(post, w) \cup {p})
                   = IF p \in LetThrough(post, w) THEN Cardinality(LetThrough(post, w))
                                                 ELSE Cardinality(LetThrough(post, w)) + 1
          BY <3>1, FS_AddElement
        <5> QED
          BY <3>1, <5>1
      <4>2. Cardinality(LetThrough(post', w)) <= Cardinality(LetThrough(post, w) \cup {p})
        BY <1>6, <3>3, <4>1, FS_Subset
      <4>3. Cardinality(LetThrough(post, w)) + 1 <= n
        BY <1>2, <3>1, <3>3 DEF n
      <4> QED
        BY <1>2, <1>3, <1>6, <3>1, <3>3, <4>1, <4>2, <4>3
    <3> QED
      BY <3>2, <3>3
  <2> QED
    BY <1>1, <1>2, <1>3, <2>1 DEF RateInv
<1>7. CASE n = 1 /\ stamped' = stamped /\ post' = [post EXCEPT ![p].pc = "expire", ![p].window = window]
  <2>1. window \in 0..MaxWindows
    BY <1>2, FeedbackFacts
  <2>2. /\ post' \in [Sends -> SendTypes] /\ post'[p].pc = "expire" /\ post'[p].window = window
        /\ post'[p].id = 0 /\ \A q \in Sends \ {p} : post'[q] = post[q]
    BY <1>2, <1>7, <2>1 DEF SendTypes
  <2>3. Numbered(post') = Numbered(post)
    BY <1>2, <2>2 DEF Numbered
  <2>4. SendsInv'
    <3>1. SendsInv /\ \A q \in Sends : 0 <= stamped
      BY <1>2, FeedbackFacts DEF SendsInv
    <3> QED
      BY <1>2, <1>7, <2>2, <2>3, <3>1 DEF SendsInv, Numbered
  <2>5. RecordsInv'
    <3>1. \A q \in Sends : post'[q].pc \in {"index", "created"} => post'[q] = post[q]
      BY <2>2
    <3> QED
      BY <1>1, <1>2, <3>1 DEF RecordsInv
  <2>7. ReportsInv'
    <3>1. \A q \in Sends : post[q].pc = "created" => post'[q].pc = "created"
      BY <1>1, <2>2
    <3> QED
      BY <1>1, <1>2, <3>1 DEF ReportsInv
  <2>6. RateInv'
    <3>1. LetThrough(post', window) \subseteq LetThrough(post, window) \cup {p}
      BY <2>2 DEF LetThrough
    <3>2. \A w : w # window => LetThrough(post', w) \subseteq LetThrough(post, w)
      BY <2>2 DEF LetThrough
    <3>3. n <= RATE_LIMIT_MAX
      BY <1>2, <1>7
    <3> QED
      BY <1>6, <3>1, <3>2, <3>3
  <2> QED
    BY <1>5, <2>4, <2>5, <2>6, <2>7 DEF FeedbackInv
<1>8. CASE n <= RATE_LIMIT_MAX /\ Feedbacks!Admit(p, window)
  <2>1. /\ SendsInv' /\ RecordsInv'
        /\ \A w : w # window => LetThrough(post', w) \subseteq LetThrough(post, w)
        /\ LetThrough(post', window) = LetThrough(post, window) \cup {p}
    BY <1>1, <1>2, <1>8, RecordIsAdmitted
  <2>2. RateInv'
    BY <1>6, <1>8, <2>1
  <2>3. \A q \in Sends \ {p} : post'[q] = post[q]
    BY <1>2, <1>8 DEF Feedbacks!Admit
  <2>4. ReportsInv'
    BY <1>1, <1>2, <2>3 DEF ReportsInv
  <2> QED
    BY <1>5, <2>1, <2>2, <2>4 DEF FeedbackInv
<1>9. CASE post' = [post EXCEPT ![p].pc = "refused"] /\ stamped' = stamped
  <2>1. /\ SendsInv' /\ RecordsInv' /\ \A w : LetThrough(post', w) = LetThrough(post, w)
        /\ \A q \in Sends : post[q].pc = "created" => post'[q].pc = "created"
    BY <1>1, <1>9, OnlySendMoves
  <2>2. RateInv'
    <3>1. \A w \in 1..MaxWindows : Cardinality(LetThrough(post, w)) \in Nat
      BY SendsAreCounted
    <3> QED
      BY <1>1, <1>2, <1>3, <1>4, <2>1, <3>1 DEF RateInv
  <2>3. ReportsInv'
    BY <1>1, <1>2, <2>1 DEF ReportsInv
  <2> QED
    BY <1>5, <2>1, <2>2, <2>3 DEF FeedbackInv
<1> QED
  BY <1>1, <1>7, <1>8, <1>9

LEMMA CounterExpires ==
  ASSUME FeedbackInv, NEW p \in Sends, Feedbacks!Expire(p)
  PROVE  FeedbackInv'
<1> DEFINE h == post[p].window
<1>1. /\ post[p].pc = "expire" /\ Feedbacks!Admit(p, h)
      /\ UNCHANGED <<window, counter, item, index, report, mark, seen, overtaken>>
  BY DEF Feedbacks!Expire
<1>2. post[p].id = 0 /\ post \in [Sends -> SendTypes]
  BY <1>1 DEF FeedbackInv, SendsInv
<1>3. h \in 1..MaxWindows
  BY <1>1 DEF FeedbackInv, SendsInv
<1> HIDE DEF h
<1>4. /\ SendsInv' /\ RecordsInv'
      /\ \A w : w # h => LetThrough(post', w) \subseteq LetThrough(post, w)
      /\ LetThrough(post', h) = LetThrough(post, h) \cup {p}
  BY <1>1, <1>2, <1>3, RecordIsAdmitted
<1>5. \A w : LetThrough(post', w) \subseteq LetThrough(post, w)
  BY <1>4 DEF LetThrough, h
<1>6. RateInv'
  <2>1. \A w \in 1..MaxWindows : /\ Cardinality(LetThrough(post', w)) <= Cardinality(LetThrough(post, w))
                                 /\ Cardinality(LetThrough(post, w)) \in Nat
                                 /\ Cardinality(LetThrough(post', w)) \in Nat
    BY <1>5, SendsAreCounted, FS_Subset
  <2>2. RateInv /\ RATE_LIMIT_MAX \in Nat
    BY FeedbackFacts DEF FeedbackInv
  <2>3. \A a, b, c \in Nat : a <= b /\ b <= c => a <= c
    OBVIOUS
  <2> QED
    BY <1>1, <2>1, <2>2, <2>3 DEF RateInv
<1>7. \A q \in Sends \ {p} : post'[q] = post[q]
  BY <1>1, <1>2 DEF Feedbacks!Admit
<1>8. ReportsInv'
  BY <1>1, <1>7 DEF FeedbackInv, ReportsInv
<1>9. IntakeInv'
  BY <1>1 DEF FeedbackInv, IntakeInv
<1> QED
  BY <1>4, <1>6, <1>8, <1>9 DEF FeedbackInv

LEMMA RecordIsWritten ==
  ASSUME FeedbackInv, NEW p \in Sends, Feedbacks!SetItem(p)
  PROVE  FeedbackInv'
<1> DEFINE id == post[p].id
<1>1. /\ post[p].pc = "item" /\ item' = [item EXCEPT ![id] = "new"]
      /\ post' = [post EXCEPT ![p].pc = "index"]
      /\ UNCHANGED <<window, counter, index, stamped, report, mark, seen, overtaken>>
  BY DEF Feedbacks!SetItem
<1>2. /\ post \in [Sends -> SendTypes] /\ RecordsInv /\ RateInv /\ ReportsInv /\ IntakeInv
      /\ id # 0 /\ \A q \in Sends : post[q].pc = "index" \/ post[q].pc = "created" => post[q].id # 0
  BY <1>1 DEF FeedbackInv, SendsInv
<1>3. \A q \in Sends : post[q].id \in 0..MaxPosts
  BY <1>2 DEF SendTypes
<1>4. id \in Sends
  BY <1>2, <1>3, FeedbackFacts
<1>5. SendsInv' /\ \A w : LetThrough(post', w) = LetThrough(post, w)
  <2>1. "index" \in {"hit", "index", "created", "refused", "failed"}
    OBVIOUS
  <2> QED
    BY <1>1, <1>2, <2>1, SendMovesOn
<1>6. /\ post'[p].pc = "index" /\ post'[p].id = id
      /\ \A q \in Sends \ {p} : post'[q] = post[q]
  BY <1>1, <1>2 DEF SendTypes
<1> HIDE DEF id
<1>7. RecordsInv'
  <2>1. /\ item \in [Sends -> {"none", "new", "triaged"}] /\ index \in Seq(Sends)
        /\ \A i \in DOMAIN index : item[index[i]] # "none"
        /\ \A q \in Sends : post[q].pc \in {"index", "created"} => item[post[q].id] # "none"
        /\ \A q \in Sends : post[q].pc = "created" => post[q].id \in Range(index)
    BY <1>2 DEF RecordsInv
  <2>2. /\ item' \in [Sends -> {"none", "new", "triaged"}] /\ item'[id] # "none"
        /\ \A x \in Sends : item[x] # "none" => item'[x] # "none"
    BY <1>1, <1>4, <2>1
  <2>3. \A i \in DOMAIN index : index[i] \in Sends /\ item'[index[i]] # "none"
    BY <2>1, <2>2
  <2>4. ASSUME NEW q \in Sends, post'[q].pc \in {"index", "created"} PROVE item'[post'[q].id] # "none"
    <3>1. CASE q = p
      BY <1>6, <2>2, <3>1
    <3>2. CASE q # p
      <4>1. post'[q] = post[q] /\ post[q].id \in Sends
        BY <1>2, <1>3, <1>6, <2>4, <3>2, FeedbackFacts
      <4> QED
        BY <2>1, <2>2, <2>4, <4>1
    <3> QED
      BY <3>1, <3>2
  <2>5. \A q \in Sends : post'[q].pc = "created" => post'[q].id \in Range(index)
    BY <1>6, <2>1
  <2> QED
    BY <1>1, <2>1, <2>2, <2>3, <2>4, <2>5 DEF RecordsInv, Range
<1>8. RateInv'
  BY <1>1, <1>2, <1>5 DEF RateInv
<1>9. IntakeInv'
  BY <1>1, <1>2 DEF IntakeInv
<1>10. ReportsInv'
  <2>1. \A q \in Sends : post[q].pc = "created" => post'[q].pc = "created"
    BY <1>1, <1>6
  <2> QED
    BY <1>1, <1>2, <2>1 DEF ReportsInv
<1> QED
  BY <1>5, <1>7, <1>8, <1>9, <1>10 DEF FeedbackInv

LEMMA RecordIsListed ==
  ASSUME FeedbackInv, NEW p \in Sends, Feedbacks!PushIndex(p)
  PROVE  FeedbackInv'
<1> DEFINE id == post[p].id
<1>1. /\ post[p].pc = "index" /\ index' = Append(index, id)
      /\ post' = [post EXCEPT ![p].pc = "created"]
      /\ UNCHANGED <<window, counter, item, stamped, report, mark, seen, overtaken>>
  BY DEF Feedbacks!PushIndex
<1>2. /\ post \in [Sends -> SendTypes] /\ RecordsInv /\ RateInv /\ ReportsInv /\ IntakeInv /\ id # 0
  BY <1>1 DEF FeedbackInv, SendsInv
<1>3. id \in Sends
  <2>1. id \in 0..MaxPosts
    BY <1>2 DEF SendTypes
  <2> QED
    BY <1>2, <2>1, FeedbackFacts
<1>4. SendsInv' /\ \A w : LetThrough(post', w) = LetThrough(post, w)
  <2>1. "created" \in {"hit", "index", "created", "refused", "failed"}
    OBVIOUS
  <2> QED
    BY <1>1, <1>2, <2>1, SendMovesOn
<1>5. /\ post'[p].pc = "created" /\ post'[p].id = id
      /\ \A q \in Sends \ {p} : post'[q] = post[q]
  BY <1>1, <1>2 DEF SendTypes
<1>6. /\ item \in [Sends -> {"none", "new", "triaged"}] /\ index \in Seq(Sends)
      /\ \A i \in DOMAIN index : item[index[i]] # "none"
      /\ \A q \in Sends : post[q].pc \in {"index", "created"} => item[post[q].id] # "none"
      /\ \A q \in Sends : post[q].pc = "created" => post[q].id \in Range(index)
  BY <1>2 DEF RecordsInv
<1>7. item[id] # "none"
  BY <1>1, <1>6
<1> HIDE DEF id
<1>8. index' \in Seq(Sends) /\ Range(index') = Range(index) \cup {id}
  BY <1>1, <1>3, <1>6, AppendProperties
<1>9. RecordsInv'
  <2>1. \A x \in Range(index') : item[x] # "none"
    BY <1>6, <1>7, <1>8 DEF Range
  <2>2. \A i \in DOMAIN index' : item[index'[i]] # "none"
    BY <2>1 DEF Range
  <2>3. \A q \in Sends : post'[q].pc \in {"index", "created"} => item[post'[q].id] # "none"
    BY <1>5, <1>6, <1>7
  <2>4. \A q \in Sends : post'[q].pc = "created" => post'[q].id \in Range(index')
    BY <1>5, <1>6, <1>8
  <2> QED
    BY <1>1, <1>6, <1>8, <2>2, <2>3, <2>4 DEF RecordsInv, Range
<1>10. RateInv'
  BY <1>1, <1>2, <1>4 DEF RateInv
<1>11. IntakeInv'
  <2>1. /\ mark \in Nat /\ \A x \in 1..mark : x \in Range(index) \/ x \in overtaken
        /\ \A x \in Range(index) : x <= mark /\ x \notin overtaken => x \in seen
    BY <1>2 DEF IntakeInv
  <2>2. \A x \in Sends : x <= mark => x \in 1..mark
    BY <2>1, FeedbackFacts
  <2>3. \A x \in Range(index') : x \in Sends
    BY <1>3, <1>6, <1>8 DEF Range
  <2>4. \A x \in Range(index') : x <= mark /\ x \notin overtaken => x \in seen
    BY <2>1, <2>2, <2>3
  <2>5. \A x \in 1..mark : x \in Range(index') \/ x \in overtaken
    BY <1>8, <2>1
  <2>6. UNCHANGED <<mark, overtaken, seen>>
    BY <1>1
  <2> QED
    BY <2>1, <2>4, <2>5, <2>6 DEF IntakeInv, Range
<1>12. ReportsInv'
  <2>1. \A q \in Sends : post[q].pc = "created" => post'[q].pc = "created"
    BY <1>1, <1>5
  <2> QED
    BY <1>1, <1>2, <2>1 DEF ReportsInv
<1> QED
  BY <1>4, <1>9, <1>10, <1>11, <1>12 DEF FeedbackInv

\* A finite set of numbers has a greatest one.
LEMMA GreatestNumber ==
  ASSUME NEW n \in Nat, NEW N \in SUBSET (0..n), N # {}
  PROVE  \E m \in N : \A i \in N : i <= m
<1> DEFINE M == {n - i : i \in N}
<1>1. M \in SUBSET Nat /\ M # {}
  <2>1. \A i \in N : n - i \in Nat
    OBVIOUS
  <2> QED
    BY <2>1
<1>2. PICK m \in M : \A i \in M : m <= i
  <2> HIDE DEF M
  <2> QED
    BY <1>1, LeastNumber
<1>3. PICK k \in N : m = n - k
  BY <1>2
<1>4. \A i \in N : i \in Int /\ n - k <= n - i
  BY <1>2, <1>3
<1>5. \A i \in N : i <= k
  BY <1>4
<1> QED
  BY <1>5

\* The intake reads on from its watermark.
LEMMA IntakeReadsOn ==
  ASSUME FeedbackInv, Feedbacks!GET
  PROVE  FeedbackInv'
<1>1. PICK limit \in 1..MaxPosts :
        LET got == {id \in Feedbacks!Page(mark, limit) : item[id] # "none"}
        IN  /\ got # {} /\ seen' = seen \cup got /\ mark' = Feedbacks!Latest(got)
            /\ overtaken' = overtaken \cup {id \in 1..Feedbacks!Latest(got) : id \notin Range(index)}
  BY FeedbackWords DEF Feedbacks!GET
<1>2. UNCHANGED <<window, counter, item, index, stamped, report, post>>
  BY DEF Feedbacks!GET
<1>3. SendsInv' /\ RecordsInv' /\ RateInv' /\ ReportsInv'
  BY <1>2 DEF FeedbackInv, SendsInv, RecordsInv, RateInv, ReportsInv, Numbered, LetThrough
<1> DEFINE page == Feedbacks!Page(mark, limit)
           got == {id \in page : item[id] # "none"}
           ids == {id \in Range(index) : id > mark}
           m == Feedbacks!Latest(got)
<1>4. page = {id \in ids : Cardinality({i \in ids : i < id}) < limit}
  BY FeedbackWords DEF Feedbacks!Page
<1>5. /\ mark \in Nat /\ \A x \in 1..mark : x \in Range(index) \/ x \in overtaken
      /\ \A x \in Range(index) : x <= mark /\ x \notin overtaken => x \in seen
      /\ index \in Seq(Sends) /\ \A x \in Range(index) : item[x] # "none"
  BY DEF FeedbackInv, IntakeInv, RecordsInv, Range
<1>6. Range(index) \subseteq Sends /\ IsFiniteSet(Range(index))
  <2>1. Range(index) \subseteq Sends
    BY <1>5, RangeOfList
  <2> QED
    BY <2>1, FeedbackFacts, FS_Subset
<1>7. got # {} /\ seen' = seen \cup got /\ mark' = m
      /\ overtaken' = overtaken \cup {id \in 1..m : id \notin Range(index)}
  BY <1>1
<1>8. got \subseteq ids /\ ids \subseteq Sends
  BY <1>4, <1>6
<1> HIDE DEF page, ids
<1>9. m \in got /\ \A i \in got : i <= m
  <2>1. \E x \in got : \A i \in got : i <= x
    <3> HIDE DEF got
    <3>1. got \in SUBSET (0..MaxPosts) /\ MaxPosts \in Nat
      <4>1. \A i \in Sends : i \in 0..MaxPosts
        BY FeedbackFacts
      <4> QED
        BY <1>8, <4>1, FeedbackFacts
    <3> QED
      BY <1>7, <3>1, GreatestNumber
  <2> HIDE DEF got
  <2> QED
    BY <2>1 DEF Feedbacks!Latest
<1> HIDE DEF m
<1>10. m \in Nat /\ m > mark /\ m \in ids /\ Cardinality({i \in ids : i < m}) < limit
  BY <1>4, <1>5, <1>8, <1>9, FeedbackFacts DEF ids
\* what is on the list up to the new watermark is delivered
<1>11. ASSUME NEW x \in Range(index), x > mark, x <= m PROVE x \in got
  <2>1. x \in ids /\ x \in Nat /\ \A i \in ids : i \in Nat
    BY <1>6, <1>8, <1>11, FeedbackFacts DEF ids
  <2>2. {i \in ids : i < x} \subseteq {i \in ids : i < m}
    <3>1. \A i \in Nat : i < x => i < m
      BY <1>10, <1>11, <2>1
    <3> QED
      BY <2>1, <3>1
  <2>3. IsFiniteSet({i \in ids : i < m})
    BY <1>6, FS_Subset DEF ids
  <2>4. /\ Cardinality({i \in ids : i < x}) <= Cardinality({i \in ids : i < m})
        /\ Cardinality({i \in ids : i < x}) \in Nat /\ Cardinality({i \in ids : i < m}) \in Nat
    BY <2>2, <2>3, FS_Subset, FS_CardinalityType
  <2>5. limit \in Nat
    BY FeedbackFacts
  <2>6. Cardinality({i \in ids : i < x}) < limit
    BY <1>10, <2>4, <2>5
  <2> QED
    BY <1>4, <1>5, <2>1, <2>6
<1>12. IntakeInv'
  <2>1. mark' \in Nat
    BY <1>7, <1>10
  <2>2. \A x \in 1..mark' : x \in Range(index) \/ x \in overtaken'
    BY <1>7
  <2>3. ASSUME NEW x \in Range(index), x <= mark', x \notin overtaken' PROVE x \in seen'
    <3>1. x \in Nat
      BY <1>6, FeedbackFacts
    <3>2. CASE x <= mark
      BY <1>5, <1>7, <2>3, <3>2
    <3>3. CASE x > mark
      BY <1>7, <1>11, <2>3, <3>3
    <3> QED
      BY <1>5, <3>1, <3>2, <3>3
  <2>4. Range(index') = Range(index)
    BY <1>2
  <2> QED
    BY <2>1, <2>2, <2>3, <2>4 DEF IntakeInv
<1> QED
  BY <1>3, <1>12 DEF FeedbackInv

LEMMA RestMoves ==
  ASSUME FeedbackInv, Feedbacks!NextWindow \/ Feedbacks!PatchRead \/ Feedbacks!PatchWrite
  PROVE  FeedbackInv'
<1>1. /\ UNCHANGED <<counter, index, stamped, report, post, mark, seen, overtaken>>
      /\ \/ window < MaxWindows /\ window' = window + 1 /\ item' = item
         \/ UNCHANGED <<window, item>>
         \/ UNCHANGED window /\ item' = [item EXCEPT ![patch] = "triaged"]
  BY DEF Feedbacks!NextWindow, Feedbacks!PatchRead, Feedbacks!PatchWrite, Feedbacks!server
<1>2. SendsInv' /\ ReportsInv' /\ IntakeInv'
  BY <1>1 DEF FeedbackInv, SendsInv, ReportsInv, IntakeInv, Numbered
<1>3. RateInv'
  <2>1. RateInv /\ MaxWindows \in Nat
    BY FeedbackFacts DEF FeedbackInv
  <2>2. window' \in 1..MaxWindows
    BY <1>1, <2>1 DEF RateInv
  <2>3. \A w \in 1..MaxWindows : Cardinality(LetThrough(post', w)) = Cardinality(LetThrough(post, w))
    BY <1>1
  <2> QED
    BY <1>1, <2>1, <2>2, <2>3 DEF RateInv
<1>4. RecordsInv'
  <2>1. /\ item \in [Sends -> {"none", "new", "triaged"}] /\ index \in Seq(Sends)
        /\ \A i \in DOMAIN index : item[index[i]] # "none"
        /\ \A q \in Sends : post[q].pc \in {"index", "created"} => item[post[q].id] # "none"
        /\ \A q \in Sends : post[q].pc = "created" => post[q].id \in Range(index)
        /\ post \in [Sends -> SendTypes]
        /\ \A q \in Sends : post[q].pc \in {"index", "created"} => post[q].id # 0
    BY DEF FeedbackInv, RecordsInv, SendsInv
  <2>2. \A q \in Sends : post[q].pc \in {"index", "created"} => post[q].id \in Sends
    <3>1. \A q \in Sends : post[q].id \in 0..MaxPosts
      BY <2>1 DEF SendTypes
    <3> QED
      BY <2>1, <3>1, FeedbackFacts
  <2>3. /\ item' \in [Sends -> {"none", "new", "triaged"}]
        /\ \A x \in Sends : item[x] # "none" => item'[x] # "none"
    BY <1>1, <2>1
  <2>4. \A i \in DOMAIN index : index[i] \in Sends
    BY <2>1
  <2> QED
    BY <1>1, <2>1, <2>2, <2>3, <2>4 DEF RecordsInv, Range
<1> QED
  BY <1>2, <1>3, <1>4 DEF FeedbackInv

LEMMA FeedbackMoves ==
  ASSUME FeedbackInv, [Feedbacks!Next]_feedbackVars
  PROVE  FeedbackInv'
<1>1. CASE UNCHANGED feedbackVars
  <2>1. UNCHANGED <<window, counter, item, index, stamped, report, post, mark, seen, overtaken>>
    BY <1>1 DEF feedbackVars
  <2> QED
    BY <2>1 DEF FeedbackInv, SendsInv, RecordsInv, ReportsInv, RateInv, IntakeInv, Numbered, LetThrough
<1>2. CASE Feedbacks!Next
  <2>1. ASSUME NEW s \in Sheets,
               \/ Feedbacks!Open(s) \/ Feedbacks!submit(s) \/ Feedbacks!Answered(s)
               \/ Feedbacks!Offline(s) \/ Feedbacks!Close(s)
        PROVE  FeedbackInv'
    BY <2>1, SheetsMove, FaceIsTapped
  <2>2. ASSUME NEW p \in Sends,
               \/ Feedbacks!Hit(p) \/ Feedbacks!Expire(p) \/ Feedbacks!SetItem(p)
               \/ Feedbacks!PushIndex(p) \/ Feedbacks!Throws(p)
        PROVE  FeedbackInv'
    BY <2>2, AttemptIsCounted, CounterExpires, RecordIsWritten, RecordIsListed, CallThrows
  <2> QED
    BY <1>2, <2>1, <2>2, IntakeReadsOn, RestMoves DEF Feedbacks!Next, Sends
<1> QED
  BY <1>1, <1>2

LEMMA FeedbackStarts == StoresInit => FeedbackInv
<1> SUFFICES ASSUME StoresInit PROVE FeedbackInv
  OBVIOUS
<1>1. /\ window = 1 /\ stamped = 0 /\ mark = 0 /\ index = <<>>
      /\ counter = [w \in 1..MaxWindows |-> 0] /\ item = [id \in Sends |-> "none"]
      /\ report = [s \in Sheets |-> Feedbacks!Closed]
      /\ post = [p \in Sends |-> Feedbacks!Unsent]
  BY DEF StoresInit, Feedbacks!Init, Sends
<1>2. Feedbacks!Unsent \in SendTypes /\ Feedbacks!Closed \in ReportTypes
  BY FeedbackFacts DEF Feedbacks!Unsent, Feedbacks!Closed, SendTypes, ReportTypes
<1>3. \A p \in Sends : post[p].pc = "unsent" /\ post[p].id = 0 /\ post[p].window = 0
  BY <1>1 DEF Feedbacks!Unsent
<1>4. Numbered(post) = {} /\ \A w \in 1..MaxWindows : LetThrough(post, w) = {}
  BY <1>3 DEF Numbered, LetThrough
<1>5. SendsInv
  <2>1. Cardinality(Numbered(post)) = 0
    BY <1>4, FS_EmptySet
  <2>2. post \in [Sends -> SendTypes] /\ stamped \in 0..MaxPosts
    BY <1>1, <1>2, FeedbackFacts
  <2> QED
    BY <1>1, <1>3, <2>1, <2>2 DEF SendsInv
<1>6. RecordsInv
  BY <1>1, <1>3 DEF RecordsInv
<1>7. ReportsInv
  BY <1>1, <1>2 DEF ReportsInv, Feedbacks!Closed
<1>8. RateInv
  <2>1. \A w \in 1..MaxWindows : Cardinality(LetThrough(post, w)) = 0
    BY <1>4, FS_EmptySet
  <2>2. 0 <= RATE_LIMIT_MAX /\ window \in 1..MaxWindows /\ counter \in [1..MaxWindows -> Nat]
    BY <1>1, FeedbackFacts
  <2>3. \A w \in 1..MaxWindows : counter[w] = 0
    BY <1>1
  <2> QED
    BY <2>1, <2>2, <2>3 DEF RateInv
<1>9. IntakeInv
  BY <1>1 DEF IntakeInv, Range
<1> QED
  BY <1>5, <1>6, <1>7, <1>8, <1>9 DEF FeedbackInv

\* Thanks are for what is listed, no device passes its rate, the intake misses nothing
\* that was on the list (feedback-store.ts:174, 213, 181).
THEOREM FeedbackIsAccountedFor ==
  StoresSpec => [](/\ Feedbacks!ThanksMeansListed /\ Feedbacks!WithinTheRate
                   /\ Feedbacks!OnlyInFlightIsOvertaken)
<1>1. StoresInit => FeedbackInv
  BY FeedbackStarts
<1>2. [StoresNext]_storesVars => [Feedbacks!Next]_feedbackVars
  BY DEF StoresNext, Alone, storesVars
<1>3. FeedbackInv /\ [Feedbacks!Next]_feedbackVars => FeedbackInv'
  BY FeedbackMoves
<1>4. FeedbackInv => /\ Feedbacks!ThanksMeansListed /\ Feedbacks!WithinTheRate
                     /\ Feedbacks!OnlyInFlightIsOvertaken
  <2> SUFFICES ASSUME FeedbackInv
               PROVE  /\ Feedbacks!ThanksMeansListed /\ Feedbacks!WithinTheRate
                      /\ Feedbacks!OnlyInFlightIsOvertaken
    OBVIOUS
  <2>1. Feedbacks!ThanksMeansListed
    <3>1. /\ \A i \in DOMAIN index : item[index[i]] # "none"
          /\ \A p \in Sends : post[p].pc = "created" => post[p].id \in Range(index)
          /\ \A s \in Sheets : report[s].phase = "done" =>
               report[s].of \in Sends /\ post[report[s].of].pc = "created"
      BY DEF FeedbackInv, RecordsInv, ReportsInv
    <3>2. \A x \in Range(index) : item[x] # "none"
      BY <3>1 DEF Range
    <3> QED
      BY <3>1, <3>2, FeedbackWords DEF Feedbacks!ThanksMeansListed, Feedbacks!Listed
  <2>2. Feedbacks!WithinTheRate
    <3> SUFFICES ASSUME NEW w \in 1..MaxWindows
                 PROVE  Cardinality({p \in Sends : post[p].window = w /\ post[p].id # 0}) <= RATE_LIMIT_MAX
      BY FeedbackWords DEF Feedbacks!WithinTheRate, Sends
    <3> DEFINE through == {p \in Sends : post[p].window = w /\ post[p].id # 0}
    <3>1. through \subseteq LetThrough(post, w)
      BY DEF LetThrough
    <3>2. IsFiniteSet(LetThrough(post, w)) /\ Cardinality(LetThrough(post, w)) \in Nat
      BY SendsAreCounted
    <3>3. Cardinality(through) <= Cardinality(LetThrough(post, w)) /\ Cardinality(through) \in Nat
      <4> HIDE DEF through
      <4> QED
        BY <3>1, <3>2, FS_Subset, FS_CardinalityType
    <3>4. Cardinality(LetThrough(post, w)) <= RATE_LIMIT_MAX /\ RATE_LIMIT_MAX \in Nat
      BY FeedbackFacts DEF FeedbackInv, RateInv
    <3> HIDE DEF through
    <3>5. Cardinality(through) <= RATE_LIMIT_MAX
      BY <3>2, <3>3, <3>4
    <3> QED
      BY <3>5 DEF through
  <2>3. Feedbacks!OnlyInFlightIsOvertaken
    BY FeedbackWords DEF FeedbackInv, IntakeInv, Feedbacks!OnlyInFlightIsOvertaken
  <2> QED
    BY <2>1, <2>2, <2>3
<1> QED
  BY <1>1, <1>2, <1>3, <1>4, PTL DEF StoresSpec

-----------------------------------------------------------------------------
(* Telemetry.                                                              *)

EvDays == Events!Days
EventTypes == [n : Nat, ts : 0..MaxTime]
CallTypes == [pc : {"push", "expire", "register"}, event : EventTypes]
DayOf(e) == Events!dayOf(e.ts)
Filed(b) == UNION {Range(b[d]) : d \in EvDays}
InHand == {c \in emitting : c.pc = "push"}

\* Events are filed under their own day, each once.
FiledWell(b, n) ==
  /\ b \in [EvDays -> Seq(EventTypes)]
  /\ \A d \in EvDays : IsInjective(b[d]) /\ \A e \in Range(b[d]) : DayOf(e) = d /\ e.n <= n

\* What is being emitted is not filed yet.
EmittingInv ==
  /\ emitting \in SUBSET CallTypes /\ IsFiniteSet(emitting)
  /\ \A c \in emitting : c.event.n <= emitted
  /\ \A c, e \in emitting : c.event = e.event => c = e
  /\ \A c \in InHand : c.event \notin Filed(bucket)

\* No day expires before its retention is over, and the in-process driver has none in hand.
RetentionInv ==
  /\ driver \in {"upstash", "memory"} /\ now \in 0..MaxTime /\ emitted \in Nat /\ dropped \in Nat
  /\ ttl \in [EvDays -> Nat] /\ \A d \in EvDays : ttl[d] = 0 \/ ttl[d] >= RETENTION
  /\ driver = "memory" => emitting = {} /\ \A d \in EvDays : ttl[d] = 0

LossInv ==
  now < RETENTION =>
    \/ Cardinality(Filed(bucket)) + Cardinality(InHand) + dropped >= emitted
    \/ driver = "memory" /\ Cardinality(Filed(bucket)) >= MEMORY_MAX_EVENTS

\* What was stored when the read began and still is has been read, up to the day reached.
ReaderIsSound(r) ==
  /\ r \in [pc : {"reading", "answered"}, to : EvDays, day : Nat,
            got : [EvDays -> Seq(EventTypes)], there : SUBSET EventTypes]
  /\ IF r.pc = "answered" THEN r.day = r.to + 1 ELSE r.day <= r.to
  /\ FiledWell(r.got, emitted)
  /\ \A e \in r.there : e.n <= emitted /\ DayOf(e) <= r.to /\ \A c \in InHand : c.event # e
  /\ \A e \in r.there \cap Filed(bucket) : DayOf(e) < r.day => e \in Range(r.got[DayOf(e)])

ReaderInv == reader.pc = "idle" \/ ReaderIsSound(reader)

TelemetryInv == FiledWell(bucket, emitted) /\ EmittingInv /\ RetentionInv /\ LossInv /\ ReaderInv

LEMMA TelemetryFacts ==
  /\ DAY \in Nat \ {0} /\ RETENTION \in Nat \ {0} /\ MEMORY_MAX_EVENTS \in Nat \ {0} /\ MaxTime \in Nat
  /\ EvDays = 0..(MaxTime \div DAY)
  /\ \A S : Events!Cardinality(S) = Cardinality(S)
  /\ \A b : Events!StoredIn(b) = Filed(b)
<1>1. \A S : Events!Cardinality(S) = Cardinality(S)
  BY DEF Events!Cardinality, Cardinality
<1>2. \A s : Events!Range(s) = Range(s)
  BY DEF Events!Range, Range
<1>3. \A b : Events!StoredIn(b) = Filed(b)
  BY <1>2 DEF Events!StoredIn, Filed, EvDays
<1>4. EvDays = 0..(MaxTime \div DAY)
  BY DEF EvDays, Events!Days, Events!dayOf
<1> QED
  BY <1>1, <1>3, <1>4, EventsAssumption DEF Events!TelemetryAssumption

\* The day of a moment.
LEMMA DayFits ==
  /\ IsFiniteSet(EvDays) /\ EvDays \subseteq Nat
  /\ \A t \in 0..MaxTime : Events!dayOf(t) \in EvDays
<1>1. DAY \in Nat \ {0} /\ MaxTime \in Nat /\ EvDays = 0..(MaxTime \div DAY)
  BY TelemetryFacts
<1>2. \A t \in Nat : t \div DAY \in Nat
  BY <1>1
<1>3. ASSUME NEW t \in 0..MaxTime PROVE t \div DAY <= MaxTime \div DAY
  <2> DEFINE p == t \div DAY
             q == MaxTime \div DAY
  <2>1. p \in Nat /\ q \in Nat /\ DAY * p <= t /\ MaxTime < DAY * (q + 1)
    BY <1>1, <1>2
  <2> HIDE DEF p, q
  <2>2. ASSUME p >= q + 1 PROVE FALSE
    <3>1. DAY * p >= DAY * (q + 1)
      BY <1>1, <2>1, <2>2
    <3>2. DAY * p \in Nat /\ DAY * (q + 1) \in Nat
      BY <1>1, <2>1
    <3> QED
      BY <1>1, <2>1, <3>1, <3>2
  <2>3. p <= q
    BY <2>1, <2>2
  <2> QED
    BY <2>3 DEF p, q
<1>4. IsFiniteSet(EvDays)
  <2>1. MaxTime \div DAY \in Int /\ 0 \in Int
    BY <1>1, <1>2
  <2> QED
    BY <1>1, <2>1, FS_Interval
<1>5. \A t \in 0..MaxTime : Events!dayOf(t) \in EvDays
  BY <1>1, <1>2, <1>3 DEF Events!dayOf
<1> QED
  BY <1>1, <1>2, <1>4, <1>5

LEMMA FiledIsFinite ==
  ASSUME NEW b \in [EvDays -> Seq(EventTypes)]
  PROVE  IsFiniteSet(Filed(b)) /\ Cardinality(Filed(b)) \in Nat /\ Filed(b) \subseteq EventTypes
<1>1. \A d \in EvDays : IsFiniteSet(Range(b[d])) /\ Range(b[d]) \subseteq EventTypes
  <2> TAKE d \in EvDays
  <2>1. b[d] \in Seq(EventTypes)
    OBVIOUS
  <2>2. Len(b[d]) \in Nat /\ b[d] \in [1..Len(b[d]) -> EventTypes] /\ Range(b[d]) = {b[d][i] : i \in 1..Len(b[d])}
    BY <2>1 DEF Range
  <2>3. IsFiniteSet(1..Len(b[d]))
    BY <2>2, FS_Interval
  <2>4. IsFiniteSet({b[d][i] : i \in 1..Len(b[d])})
    BY <2>2, <2>3, ImageIsFinite
  <2> QED
    BY <2>2, <2>4
<1> DEFINE R == [d \in EvDays |-> Range(b[d])]
<1>2. IsFiniteSet({R[d] : d \in EvDays})
  <2>1. R \in [EvDays -> SUBSET EventTypes]
    BY <1>1
  <2> HIDE DEF R
  <2> QED
    BY <2>1, DayFits, ImageIsFinite
<1>3. {R[d] : d \in EvDays} = {Range(b[d]) : d \in EvDays}
  OBVIOUS
<1>4. IsFiniteSet(Filed(b))
  <2> DEFINE F == {Range(b[d]) : d \in EvDays}
  <2>1. IsFiniteSet(F) /\ \A S \in F : IsFiniteSet(S)
    BY <1>1, <1>2, <1>3
  <2> HIDE DEF F
  <2>2. IsFiniteSet(UNION F)
    BY <2>1, FS_UNION
  <2> QED
    BY <2>2 DEF F, Filed
<1> QED
  BY <1>1, <1>4, FS_CardinalityType DEF Filed


\* Every event is found under its day.
LEMMA FoundUnderItsDay ==
  ASSUME NEW n \in Nat, NEW b, FiledWell(b, n)
  PROVE  /\ \A e \in Filed(b) : e \in EventTypes /\ e.n <= n /\ DayOf(e) \in EvDays /\ e \in Range(b[DayOf(e)])
         /\ \A m \in Nat : n <= m => FiledWell(b, m)
<1>1. ASSUME NEW e \in Filed(b)
      PROVE  e \in EventTypes /\ e.n <= n /\ DayOf(e) \in EvDays /\ e \in Range(b[DayOf(e)])
  <2>1. PICK d \in EvDays : e \in Range(b[d])
    BY DEF Filed
  <2>2. e \in EventTypes
    BY FiledIsFinite DEF FiledWell
  <2> QED
    BY <2>1, <2>2 DEF FiledWell
<1>2. ASSUME NEW m \in Nat, n <= m PROVE FiledWell(b, m)
  <2>1. \A d \in EvDays : \A e \in Range(b[d]) : e \in EventTypes
    BY FiledIsFinite DEF FiledWell, Filed
  <2>2. \A e \in EventTypes : e.n <= n => e.n <= m
    BY <1>2 DEF EventTypes
  <2> QED
    BY <2>1, <2>2 DEF FiledWell
<1> QED
  BY <1>1, <1>2

Filing(b, e) == [b EXCEPT ![DayOf(e)] = Append(@, e)]

LEMMA EventIsFiled ==
  ASSUME NEW n \in Nat, NEW m \in Nat, n <= m, NEW b, FiledWell(b, n),
         NEW e \in EventTypes, e \notin Filed(b), e.n <= m
  PROVE  FiledWell(Filing(b, e), m) /\ Filed(Filing(b, e)) = Filed(b) \cup {e}
<1> DEFINE d == DayOf(e)
           new == [b EXCEPT ![d] = Append(@, e)]
<1>1. d \in EvDays /\ b \in [EvDays -> Seq(EventTypes)] /\ b[d] \in Seq(EventTypes)
  BY DayFits DEF FiledWell, DayOf, EventTypes
<1>2. FiledWell(b, m)
  BY FoundUnderItsDay
<1>3. e \notin Range(b[d])
  BY <1>1 DEF Filed
<1>4. /\ Append(b[d], e) \in Seq(EventTypes) /\ Range(Append(b[d], e)) = Range(b[d]) \cup {e}
      /\ IsInjective(b[d]) => IsInjective(Append(b[d], e))
  BY <1>1, <1>3, AppendProperties
<1>5. DayOf(e) = d
  OBVIOUS
<1> HIDE DEF d
<1>6. /\ new \in [EvDays -> Seq(EventTypes)] /\ new[d] = Append(b[d], e)
      /\ \A f \in EvDays : f # d => new[f] = b[f]
  BY <1>1, <1>4
<1> HIDE DEF new
<1>7. FiledWell(new, m)
  <2>1. ASSUME NEW f \in EvDays PROVE IsInjective(new[f]) /\ \A x \in Range(new[f]) : DayOf(x) = f /\ x.n <= m
    <3>1. CASE f = d
      BY <1>1, <1>2, <1>4, <1>5, <1>6, <3>1 DEF FiledWell
    <3>2. CASE f # d
      BY <1>2, <1>6, <3>2 DEF FiledWell
    <3> QED
      BY <3>1, <3>2
  <2> QED
    BY <1>6, <2>1 DEF FiledWell
<1>8. Filed(new) = Filed(b) \cup {e}
  <2>1. \A x \in Filed(new) : x \in Filed(b) \cup {e}
    BY <1>1, <1>4, <1>6 DEF Filed
  <2>2. \A x \in Filed(b) \cup {e} : x \in Filed(new)
    BY <1>1, <1>4, <1>6 DEF Filed
  <2> QED
    BY <2>1, <2>2
<1> QED
  BY <1>7, <1>8 DEF new, d, Filing

LEMMA HeadIsDropped ==
  ASSUME NEW n \in Nat, NEW b, FiledWell(b, n), NEW d \in EvDays, b[d] # <<>>
  PROVE  LET new == [b EXCEPT ![d] = Tail(@)]
         IN /\ FiledWell(new, n) /\ Filed(new) \subseteq Filed(b)
            /\ Cardinality(Filed(new)) >= Cardinality(Filed(b)) - 1
<1> DEFINE new == [b EXCEPT ![d] = Tail(@)]
<1>1. b \in [EvDays -> Seq(EventTypes)] /\ b[d] \in Seq(EventTypes)
  BY DEF FiledWell
<1>2. /\ Tail(b[d]) \in Seq(EventTypes) /\ Range(Tail(b[d])) \subseteq Range(b[d])
      /\ IsInjective(b[d]) => IsInjective(Tail(b[d]))
      /\ Range(b[d]) = {Head(b[d])} \cup Range(Tail(b[d]))
  BY <1>1, TailProperties, HeadAndTail
<1>3. /\ new \in [EvDays -> Seq(EventTypes)] /\ new[d] = Tail(b[d])
      /\ \A f \in EvDays : f # d => new[f] = b[f]
  BY <1>1, <1>2
<1> HIDE DEF new
<1>4. FiledWell(new, n)
  <2>1. ASSUME NEW f \in EvDays PROVE IsInjective(new[f]) /\ \A x \in Range(new[f]) : DayOf(x) = f /\ x.n <= n
    BY <1>2, <1>3 DEF FiledWell
  <2> QED
    BY <1>3, <2>1 DEF FiledWell
<1>5. Filed(new) \subseteq Filed(b)
  BY <1>2, <1>3 DEF Filed
<1>6. Filed(b) \subseteq Filed(new) \cup {Head(b[d])}
  BY <1>2, <1>3 DEF Filed
<1>7. /\ IsFiniteSet(Filed(new)) /\ Cardinality(Filed(new)) \in Nat
      /\ IsFiniteSet(Filed(b)) /\ Cardinality(Filed(b)) \in Nat
  BY <1>1, <1>3, FiledIsFinite
<1>8. IsFiniteSet(Filed(new) \cup {Head(b[d])})
      /\ \/ Cardinality(Filed(new) \cup {Head(b[d])}) = Cardinality(Filed(new))
         \/ Cardinality(Filed(new) \cup {Head(b[d])}) = Cardinality(Filed(new)) + 1
  BY <1>7, FS_AddElement
<1>9. Cardinality(Filed(b)) <= Cardinality(Filed(new) \cup {Head(b[d])})
  BY <1>6, <1>8, FS_Subset
<1>10. Cardinality(Filed(new)) >= Cardinality(Filed(b)) - 1
  BY <1>7, <1>8, <1>9
<1> QED
  BY <1>4, <1>5, <1>10 DEF new

\* The cap drops an event only while the store is beyond it.
LEMMA CapIsKept ==
  ASSUME NEW n \in Nat, NEW b, FiledWell(b, n)
  PROVE  LET new == Events!Capped(b)
         IN /\ FiledWell(new, n) /\ Filed(new) \subseteq Filed(b)
            /\ Cardinality(Filed(new)) >= MEMORY_MAX_EVENTS \/ new = b
<1>1. Events!Cardinality(Events!StoredIn(b)) = Cardinality(Filed(b)) /\ MEMORY_MAX_EVENTS \in Nat \ {0}
  BY TelemetryFacts
<1>2. b \in [EvDays -> Seq(EventTypes)]
  BY DEF FiledWell
<1>3. IsFiniteSet(Filed(b)) /\ Cardinality(Filed(b)) \in Nat
  BY <1>2, FiledIsFinite
<1> DEFINE Early(d) == b[d] # <<>> /\ \A e \in EvDays : b[e] # <<>> => d <= e
           first == CHOOSE d \in EvDays : Early(d)
<1>4. Events!Capped(b) = IF Cardinality(Filed(b)) > MEMORY_MAX_EVENTS THEN [b EXCEPT ![first] = Tail(@)] ELSE b
  BY <1>1 DEF Events!Capped, EvDays
<1>5. CASE Cardinality(Filed(b)) > MEMORY_MAX_EVENTS
  <2>1. Filed(b) # {}
    <3>1. Cardinality({}) = 0
      BY FS_EmptySet
    <3> QED
      BY <1>1, <1>5, <3>1
  <2>2. PICK d \in EvDays : Range(b[d]) # {}
    BY <2>1 DEF Filed
  <2>3. b[d] # <<>>
    BY <2>2 DEF Range
  <2> DEFINE N == {e \in EvDays : b[e] # <<>>}
  <2>4. N \in SUBSET Nat /\ N # {}
    BY <2>3, DayFits
  <2>5. PICK e \in N : \A f \in N : e <= f
    BY <2>4, LeastNumber
  <2>6. Early(e) /\ e \in EvDays
    BY <2>5
  <2>7. first \in EvDays /\ Early(first)
    BY <2>6
  <2> HIDE DEF first
  <2> DEFINE new == [b EXCEPT ![first] = Tail(@)]
  <2>8. /\ FiledWell(new, n) /\ Filed(new) \subseteq Filed(b)
        /\ Cardinality(Filed(new)) >= Cardinality(Filed(b)) - 1
    BY <2>7, HeadIsDropped
  <2>9. Events!Capped(b) = new /\ new \in [EvDays -> Seq(EventTypes)]
    BY <1>4, <1>5, <2>8 DEF FiledWell
  <2> HIDE DEF new
  <2>10. Cardinality(Filed(new)) \in Nat
    BY <2>9, FiledIsFinite
  <2> QED
    BY <1>1, <1>3, <1>5, <2>8, <2>9, <2>10
<1>6. CASE ~(Cardinality(Filed(b)) > MEMORY_MAX_EVENTS)
  <2>1. Events!Capped(b) = b
    BY <1>4, <1>6
  <2> QED
    BY <2>1
<1> QED
  BY <1>5, <1>6

\* What a read has found stays sound while events arrive that were not there when it began.
LEMMA ReaderStays ==
  ASSUME ReaderInv, reader' = reader, emitted \in Nat, emitted' \in Nat, emitted <= emitted',
         \A e \in Filed(bucket') : ~ReaderIsSound(reader) \/ e \in Filed(bucket) \/ e \notin reader.there,
         \A c \in InHand' : ~ReaderIsSound(reader) \/ c \in InHand \/ c.event \notin reader.there
  PROVE  ReaderInv'
<1>1. CASE reader.pc = "idle"
  BY <1>1 DEF ReaderInv
<1>2. CASE ReaderIsSound(reader)
  <2>1. FiledWell(reader.got, emitted')
    BY <1>2, FoundUnderItsDay DEF ReaderIsSound
  <2>2. \A e \in reader.there : e \in EventTypes /\ e.n <= emitted'
    BY <1>2 DEF ReaderIsSound, EventTypes
  <2>3. \A e \in reader.there : \A c \in InHand' : c.event # e
    BY <1>2 DEF ReaderIsSound
  <2>4. \A e \in reader.there : e \in Filed(bucket)' => e \in Filed(bucket)
    BY <1>2 DEF Filed
  <2>5. \A e \in reader.there : DayOf(e) <= reader.to
    BY <1>2 DEF ReaderIsSound
  <2>6. \A e \in reader.there \cap Filed(bucket)' :
          DayOf(e) < reader.day => e \in Range(reader.got[DayOf(e)])
    BY <1>2, <2>4 DEF ReaderIsSound
  <2>7. ReaderIsSound(reader)'
    <3>1. /\ reader \in [pc : {"reading", "answered"}, to : EvDays, day : Nat,
                          got : [EvDays -> Seq(EventTypes)], there : SUBSET EventTypes]
          /\ IF reader.pc = "answered" THEN reader.day = reader.to + 1 ELSE reader.day <= reader.to
      BY <1>2 DEF ReaderIsSound
    <3> QED
      BY <2>1, <2>2, <2>3, <2>5, <2>6, <3>1 DEF ReaderIsSound
  <2> QED
    BY <2>7 DEF ReaderInv
<1> QED
  BY <1>1, <1>2 DEF ReaderInv

\* An event in hand goes on to its next command, or is given up.
LEMMA HandMoves ==
  ASSUME EmittingInv, NEW c \in emitting, emitted \in Nat, emitted' = emitted,
         \/ emitting' = emitting \ {c}
         \/ \E p \in {"expire", "register"} : Events!Then(c, p)
  PROVE  /\ c \in CallTypes /\ c.event \in EventTypes /\ c.event.n <= emitted
         /\ emitting' \in SUBSET CallTypes /\ IsFiniteSet(emitting') /\ InHand' = InHand \ {c}
         /\ \A e \in emitting' : e.event.n <= emitted'
         /\ \A e, f \in emitting' : e.event = f.event => e = f
         /\ IsFiniteSet(InHand) /\ Cardinality(InHand) \in Nat /\ Cardinality(InHand') \in Nat
         /\ c \in InHand => Cardinality(InHand') = Cardinality(InHand) - 1
         /\ c \notin InHand => InHand' = InHand
<1>1. c \in CallTypes /\ c.event \in EventTypes /\ c.event.n <= emitted
  BY DEF EmittingInv, CallTypes
<1>2. PICK S : /\ emitting' = (emitting \ {c}) \cup S /\ S \in SUBSET CallTypes /\ IsFiniteSet(S)
               /\ \A s \in S : s.pc # "push" /\ s.event = c.event
               /\ \A s, t \in S : s = t
  <2>1. CASE emitting' = emitting \ {c}
    BY <2>1, FS_EmptySet
  <2>2. CASE \E p \in {"expire", "register"} : Events!Then(c, p)
    <3>1. PICK p \in {"expire", "register"} : Events!Then(c, p)
      BY <2>2
    <3> DEFINE n == [c EXCEPT !.pc = p]
    <3>2. n \in CallTypes /\ n.pc = p /\ n.event = c.event
      BY <1>1 DEF CallTypes
    <3>3. emitting' = (emitting \ {c}) \cup {n}
      BY <3>1 DEF Events!Then
    <3> HIDE DEF n
    <3>4. IsFiniteSet({n})
      BY FS_Singleton
    <3> QED
      BY <3>2, <3>3, <3>4
  <2> QED
    BY <2>1, <2>2
<1>3. emitting' \in SUBSET CallTypes
  BY <1>2 DEF EmittingInv
<1>4. IsFiniteSet(emitting')
  <2>1. IsFiniteSet(emitting \ {c})
    BY FS_Subset DEF EmittingInv
  <2> QED
    BY <1>2, <2>1, FS_Union
<1>5. InHand' = InHand \ {c}
  BY <1>2 DEF InHand
<1>6. \A e \in emitting' : e.event.n <= emitted'
  BY <1>1, <1>2 DEF EmittingInv
<1>7. \A e, f \in emitting' : e.event = f.event => e = f
  <2> SUFFICES ASSUME NEW e \in emitting', NEW f \in emitting', e.event = f.event PROVE e = f
    OBVIOUS
  <2>1. CASE e \in S /\ f \in S
    BY <1>2, <2>1
  <2>2. CASE e \notin S /\ f \notin S
    BY <1>2, <2>2 DEF EmittingInv
  <2>3. CASE e \in S /\ f \notin S
    BY <1>2, <2>3 DEF EmittingInv
  <2>4. CASE e \notin S /\ f \in S
    BY <1>2, <2>4 DEF EmittingInv
  <2> QED
    BY <2>1, <2>2, <2>3, <2>4
<1>8. IsFiniteSet(InHand) /\ IsFiniteSet(InHand \ {c})
  BY FS_Subset DEF EmittingInv, InHand
<1>9. c \in InHand => Cardinality(InHand \ {c}) = Cardinality(InHand) - 1
  BY <1>8, FS_RemoveElement
<1>10. Cardinality(InHand) \in Nat /\ Cardinality(InHand \ {c}) \in Nat
  BY <1>8, FS_CardinalityType
<1> QED
  BY <1>1, <1>3, <1>4, <1>5, <1>6, <1>7, <1>8, <1>9, <1>10

\* The numbers the losses are counted with.
LEMMA TelemetryNumbers ==
  ASSUME TelemetryInv
  PROVE  /\ IsFiniteSet(Filed(bucket)) /\ Cardinality(Filed(bucket)) \in Nat
         /\ IsFiniteSet(InHand) /\ Cardinality(InHand) \in Nat
         /\ emitted \in Nat /\ dropped \in Nat /\ now \in Nat /\ now \in 0..MaxTime
<1>1. IsFiniteSet(InHand)
  BY FS_Subset DEF TelemetryInv, EmittingInv, InHand
<1>2. bucket \in [EvDays -> Seq(EventTypes)]
  BY DEF TelemetryInv, FiledWell
<1> QED
  BY <1>1, <1>2, FS_CardinalityType, FiledIsFinite, TelemetryFacts DEF TelemetryInv, RetentionInv

LEMMA PushIsSound ==
  ASSUME TelemetryInv, NEW c \in emitting, Events!Push(c)
  PROVE  TelemetryInv'
<1> DEFINE e == c.event
<1>1. /\ c.pc = "push" /\ bucket' = [bucket EXCEPT ![DayOf(e)] = Append(@, e)]
      /\ \E p \in {"expire", "register"} : Events!Then(c, p)
      /\ UNCHANGED <<driver, now, ttl, days, emitted, dropped, reader>>
  BY DEF Events!Push, DayOf
<1>2. EmittingInv /\ FiledWell(bucket, emitted) /\ emitted \in Nat
  BY DEF TelemetryInv, RetentionInv
<1>3. /\ e \in EventTypes /\ e.n <= emitted
      /\ emitting' \in SUBSET CallTypes /\ IsFiniteSet(emitting') /\ InHand' = InHand \ {c}
      /\ \A x \in emitting' : x.event.n <= emitted'
      /\ \A x, y \in emitting' : x.event = y.event => x = y
      /\ c \in InHand => Cardinality(InHand') = Cardinality(InHand) - 1
      /\ Cardinality(InHand') \in Nat
  BY <1>1, <1>2, HandMoves
<1>4. c \in InHand /\ e \notin Filed(bucket)
  BY <1>1, <1>2 DEF InHand, EmittingInv
<1>5. FiledWell(bucket', emitted) /\ Filed(bucket') = Filed(bucket) \cup {e}
  <2>1. emitted <= emitted
    BY <1>2
  <2>2. e \in EventTypes /\ e \notin Filed(bucket) /\ e.n <= emitted
    BY <1>3, <1>4
  <2> HIDE DEF e
  <2> DEFINE new == Filing(bucket, e)
  <2>3. FiledWell(new, emitted) /\ Filed(new) = Filed(bucket) \cup {e}
    BY <1>2, <2>1, <2>2, EventIsFiled
  <2>4. bucket' = new
    BY <1>1 DEF Filing
  <2> HIDE DEF new
  <2> QED
    BY <2>3, <2>4
<1>6. \A x \in InHand' : x.event \notin Filed(bucket')
  <2> SUFFICES ASSUME NEW x \in InHand' PROVE x.event \notin Filed(bucket) /\ x.event # e
    BY <1>5
  <2> QED
    BY <1>2, <1>3 DEF EmittingInv, InHand
<1>7. EmittingInv'
  <2>1. (\A x \in InHand : x.event \notin Filed(bucket))'
    BY <1>6
  <2> QED
    BY <1>3, <2>1 DEF EmittingInv
<1>8. RetentionInv'
  BY <1>1, <1>2 DEF TelemetryInv, RetentionInv
<1>9. LossInv'
  <2>1. Cardinality(Filed(bucket) \cup {e}) = Cardinality(Filed(bucket)) + 1
    BY <1>4, FS_AddElement, TelemetryNumbers
  <2>2. driver # "memory"
    BY DEF TelemetryInv, RetentionInv
  <2>3. /\ Cardinality(Filed(bucket)) \in Nat /\ Cardinality(InHand) \in Nat
        /\ dropped \in Nat /\ emitted \in Nat
    BY TelemetryNumbers
  <2>4. now < RETENTION => Cardinality(Filed(bucket)) + Cardinality(InHand) + dropped >= emitted
    BY <2>2 DEF TelemetryInv, LossInv
  <2>5. Cardinality(Filed(bucket')) = Cardinality(Filed(bucket)) + 1
    BY <1>5, <2>1
  <2>6. Cardinality(InHand') = Cardinality(InHand) - 1
    BY <1>3, <1>4
  <2>7. now < RETENTION => Cardinality(Filed(bucket')) + Cardinality(InHand') + dropped >= emitted
    BY <2>3, <2>4, <2>5, <2>6
  <2>8. (now < RETENTION => Cardinality(Filed(bucket)) + Cardinality(InHand) + dropped >= emitted)'
    BY <1>1, <2>7
  <2> QED
    BY <2>8 DEF LossInv
<1>10. ReaderInv'
  <2>1. \A x \in Filed(bucket') : ~ReaderIsSound(reader) \/ x \in Filed(bucket) \/ x \notin reader.there
    BY <1>4, <1>5 DEF ReaderIsSound
  <2>2. \A x \in InHand' : x \in InHand
    BY <1>3
  <2>3. emitted' \in Nat /\ emitted <= emitted'
    BY <1>1, <1>2
  <2> QED
    BY <1>1, <1>2, <2>1, <2>2, <2>3, ReaderStays DEF TelemetryInv
<1>11. FiledWell(bucket, emitted)'
  BY <1>1, <1>5
<1> QED
  BY <1>7, <1>8, <1>9, <1>10, <1>11 DEF TelemetryInv

\* What moves only what is in hand loses nothing but what it counts.
LEMMA HandIsSound ==
  ASSUME TelemetryInv, NEW c \in emitting, UNCHANGED <<bucket, driver, now, emitted, reader>>,
         \/ emitting' = emitting \ {c}
         \/ \E p \in {"expire", "register"} : Events!Then(c, p),
         \/ c \notin InHand /\ dropped' = dropped
         \/ dropped' = dropped + 1,
         ttl' \in [EvDays -> Nat], \A d \in EvDays : ttl'[d] = 0 \/ ttl'[d] >= RETENTION
  PROVE  TelemetryInv'
<1>1. EmittingInv /\ FiledWell(bucket, emitted) /\ emitted \in Nat
  BY DEF TelemetryInv, RetentionInv
<1>2. /\ emitting' \in SUBSET CallTypes /\ IsFiniteSet(emitting') /\ InHand' = InHand \ {c}
      /\ \A x \in emitting' : x.event.n <= emitted'
      /\ \A x, y \in emitting' : x.event = y.event => x = y
      /\ c \in InHand => Cardinality(InHand') = Cardinality(InHand) - 1
      /\ c \notin InHand => InHand' = InHand
      /\ Cardinality(InHand') \in Nat
  BY <1>1, HandMoves
<1>3. EmittingInv'
  <2>1. \A x \in InHand' : x.event \notin Filed(bucket')
    BY <1>1, <1>2 DEF EmittingInv
  <2>2. (\A x \in InHand : x.event \notin Filed(bucket))'
    BY <2>1
  <2> QED
    BY <1>2, <2>2 DEF EmittingInv
<1>4. driver # "memory"
  BY DEF TelemetryInv, RetentionInv
<1>5. RetentionInv'
  <2>1. driver' # "memory" /\ dropped' \in Nat
    BY <1>4 DEF TelemetryInv, RetentionInv
  <2> QED
    BY <2>1 DEF TelemetryInv, RetentionInv
<1>6. LossInv'
  <2>1. /\ Cardinality(Filed(bucket)) \in Nat /\ Cardinality(InHand) \in Nat
        /\ dropped \in Nat /\ emitted \in Nat
    BY TelemetryNumbers
  <2>2. now < RETENTION => Cardinality(Filed(bucket)) + Cardinality(InHand) + dropped >= emitted
    BY <1>4 DEF TelemetryInv, LossInv
  <2>3. Cardinality(InHand') + dropped' >= Cardinality(InHand) + dropped /\ dropped' \in Nat
    <3>1. CASE dropped' = dropped /\ InHand' = InHand
      BY <2>1, <3>1
    <3>2. CASE dropped' = dropped + 1 /\ InHand' = InHand
      BY <2>1, <3>2
    <3>3. CASE dropped' = dropped + 1 /\ Cardinality(InHand') = Cardinality(InHand) - 1
      BY <1>2, <2>1, <3>3
    <3> QED
      BY <1>2, <3>1, <3>2, <3>3
  <2>4. now < RETENTION => Cardinality(Filed(bucket)) + Cardinality(InHand') + dropped' >= emitted
    BY <1>2, <2>1, <2>2, <2>3
  <2>5. (now < RETENTION => Cardinality(Filed(bucket)) + Cardinality(InHand) + dropped >= emitted)'
    BY <2>4
  <2> QED
    BY <2>5 DEF LossInv
<1>7. ReaderInv'
  <2>1. \A x \in Filed(bucket') : x \in Filed(bucket)
    OBVIOUS
  <2>2. \A x \in InHand' : x \in InHand
    BY <1>2
  <2>3. emitted' \in Nat /\ emitted <= emitted'
    BY <1>1
  <2> QED
    BY <1>1, <2>1, <2>2, <2>3, ReaderStays DEF TelemetryInv
<1>8. FiledWell(bucket, emitted)'
  BY <1>1
<1> QED
  BY <1>3, <1>5, <1>6, <1>7, <1>8 DEF TelemetryInv

\* A new event is none of those that were stored, in hand or being read.
LEMMA NewEvent ==
  ASSUME TelemetryInv
  PROVE  LET event == [n |-> emitted + 1, ts |-> now]
         IN /\ event \in EventTypes /\ event.n = emitted + 1 /\ DayOf(event) = Events!dayOf(now)
            /\ event \notin Filed(bucket) /\ \A c \in emitting : c.event # event
            /\ ReaderIsSound(reader) => event \notin reader.there
<1> DEFINE event == [n |-> emitted + 1, ts |-> now]
<1>1. emitted \in Nat /\ now \in 0..MaxTime
  BY TelemetryNumbers
<1>2. event \in EventTypes /\ event.n = emitted + 1 /\ DayOf(event) = Events!dayOf(now)
  BY <1>1 DEF EventTypes, DayOf
<1> HIDE DEF event
<1>3. \A e \in EventTypes : e.n <= emitted => e # event
  BY <1>1, <1>2 DEF EventTypes
<1>4. event \notin Filed(bucket)
  <2>1. FiledWell(bucket, emitted)
    BY DEF TelemetryInv
  <2>2. \A e \in Filed(bucket) : e \in EventTypes /\ e.n <= emitted
    BY <1>1, <2>1, FoundUnderItsDay
  <2> QED
    BY <1>3, <2>2
<1>5. \A c \in emitting : c.event # event
  BY <1>3 DEF TelemetryInv, EmittingInv, CallTypes
<1>6. ReaderIsSound(reader) => event \notin reader.there
  BY <1>3 DEF ReaderIsSound
<1> QED
  BY <1>2, <1>4, <1>5, <1>6 DEF event

\* The in-process driver stores the event and keeps to its cap.
LEMMA MemoryTracks ==
  ASSUME TelemetryInv, Events!track, UNCHANGED <<driver, now, ttl, dropped, reader>>, driver = "memory"
  PROVE  TelemetryInv'
<1> DEFINE event == [n |-> emitted + 1, ts |-> now]
           b == Filing(bucket, event)
<1>1. /\ event \in EventTypes /\ event.n = emitted + 1 /\ DayOf(event) = Events!dayOf(now)
      /\ event \notin Filed(bucket) /\ \A c \in emitting : c.event # event
      /\ ReaderIsSound(reader) => event \notin reader.there
  BY NewEvent
<1>2. emitted' = emitted + 1 /\ emitted \in Nat /\ emitted <= emitted'
  BY TelemetryNumbers DEF Events!track
<1>3. bucket' = Events!Capped(b) /\ emitting' = emitting
  BY <1>1 DEF Events!track, Filing
<1>4. emitting = {} /\ InHand = {} /\ InHand' = {}
  BY <1>3 DEF TelemetryInv, RetentionInv, InHand
<1> HIDE DEF event
<1>5. FiledWell(b, emitted') /\ Filed(b) = Filed(bucket) \cup {event}
  <2>1. event.n <= emitted' /\ emitted' \in Nat /\ FiledWell(bucket, emitted)
    BY <1>1, <1>2 DEF TelemetryInv
  <2> QED
    BY <1>1, <1>2, <2>1, EventIsFiled
<1> HIDE DEF b
<1> DEFINE new == Events!Capped(b)
<1>6. /\ FiledWell(new, emitted') /\ Filed(new) \subseteq Filed(b)
      /\ Cardinality(Filed(new)) >= MEMORY_MAX_EVENTS \/ new = b
  <2>1. emitted' \in Nat
    BY <1>2
  <2> QED
    BY <1>5, <2>1, CapIsKept
<1>7. bucket' = new
  BY <1>3
<1> HIDE DEF new
<1>8. EmittingInv'
  <2>1. emitting' = {} /\ IsFiniteSet({})
    BY <1>3, <1>4, FS_EmptySet
  <2> QED
    BY <1>4, <2>1 DEF EmittingInv
<1>9. RetentionInv'
  BY <1>2, <1>3 DEF TelemetryInv, RetentionInv
<1>10. LossInv'
  <2>1. Cardinality(InHand) = 0
    BY <1>4, FS_EmptySet
  <2>2. Cardinality(InHand') = 0
    BY <1>4, FS_EmptySet
  <2>3. /\ Cardinality(Filed(bucket)) \in Nat /\ dropped \in Nat /\ emitted \in Nat
        /\ MEMORY_MAX_EVENTS \in Nat
    BY TelemetryNumbers, TelemetryFacts
  <2>4. Cardinality(Filed(b)) = Cardinality(Filed(bucket)) + 1
    BY <1>1, <1>5, FS_AddElement, TelemetryNumbers
  <2>5. now < RETENTION => \/ Cardinality(Filed(bucket)) + dropped >= emitted
                           \/ Cardinality(Filed(bucket)) >= MEMORY_MAX_EVENTS
    BY <2>1, <2>3 DEF TelemetryInv, LossInv
  <2>6. now < RETENTION => \/ Cardinality(Filed(new)) + dropped >= emitted + 1
                           \/ Cardinality(Filed(new)) >= MEMORY_MAX_EVENTS
    <3>1. CASE new = b
      BY <2>3, <2>4, <2>5, <3>1
    <3> QED
      BY <1>6, <3>1
  <2>7. Cardinality(Filed(new)) \in Nat
    BY <1>6, FiledIsFinite DEF FiledWell
  <2>8. now < RETENTION => \/ Cardinality(Filed(bucket')) + Cardinality(InHand') + dropped >= emitted'
                           \/ driver = "memory" /\ Cardinality(Filed(bucket')) >= MEMORY_MAX_EVENTS
    BY <1>2, <1>7, <2>2, <2>3, <2>6, <2>7
  <2>9. LossInv' = (now' < RETENTION =>
                       \/ Cardinality(Filed(bucket')) + Cardinality(InHand') + dropped' >= emitted'
                       \/ driver' = "memory" /\ Cardinality(Filed(bucket')) >= MEMORY_MAX_EVENTS)
    BY DEF LossInv, Filed
  <2> QED
    BY <2>8, <2>9
<1>11. ReaderInv'
  <2>1. \A x \in Filed(bucket') : ~ReaderIsSound(reader) \/ x \in Filed(bucket) \/ x \notin reader.there
    BY <1>1, <1>5, <1>6, <1>7
  <2>2. ReaderInv /\ reader' = reader /\ emitted' \in Nat
    BY <1>2 DEF TelemetryInv
  <2> QED
    BY <1>2, <1>4, <2>1, <2>2, ReaderStays
<1>12. FiledWell(bucket, emitted)'
  BY <1>6, <1>7
<1> QED
  BY <1>8, <1>9, <1>10, <1>11, <1>12 DEF TelemetryInv

\* The Redis driver has the event in hand.
LEMMA RedisTracks ==
  ASSUME TelemetryInv, Events!track, UNCHANGED <<driver, now, ttl, dropped, reader>>, driver # "memory"
  PROVE  TelemetryInv'
<1> DEFINE event == [n |-> emitted + 1, ts |-> now]
           c == [pc |-> "push", event |-> event]
<1>1. /\ event \in EventTypes /\ event.n = emitted + 1
      /\ event \notin Filed(bucket) /\ \A x \in emitting : x.event # event
      /\ ReaderIsSound(reader) => event \notin reader.there
  BY NewEvent
<1>2. emitted' = emitted + 1 /\ emitted \in Nat /\ emitted <= emitted' /\ emitted' \in Nat
  BY TelemetryNumbers DEF Events!track
<1>3. bucket' = bucket /\ emitting' = emitting \cup {c}
  BY DEF Events!track
<1> HIDE DEF event
<1>4. c \in CallTypes /\ c.pc = "push" /\ c.event = event
  BY <1>1 DEF CallTypes
<1> HIDE DEF c
<1>5. InHand' = InHand \cup {c} /\ c \notin InHand
  BY <1>1, <1>3, <1>4 DEF InHand
<1>6. EmittingInv'
  <2>1. emitting' \in SUBSET CallTypes /\ IsFiniteSet(emitting')
    BY <1>3, <1>4, FS_AddElement DEF TelemetryInv, EmittingInv
  <2>2. \A x \in emitting' : x.event.n <= emitted'
    <3>1. \A x \in emitting : x.event.n \in Nat /\ x.event.n <= emitted
      BY DEF TelemetryInv, EmittingInv, CallTypes, EventTypes
    <3>2. c.event.n = emitted + 1
      BY <1>1, <1>4
    <3> QED
      BY <1>2, <1>3, <3>1, <3>2
  <2>3. \A x, y \in emitting' : x.event = y.event => x = y
    BY <1>1, <1>3, <1>4 DEF TelemetryInv, EmittingInv
  <2>4. \A x \in InHand' : x.event \notin Filed(bucket')
    BY <1>1, <1>3, <1>4, <1>5 DEF TelemetryInv, EmittingInv
  <2>5. (\A x \in InHand : x.event \notin Filed(bucket))'
    BY <2>4
  <2> QED
    BY <2>1, <2>2, <2>3, <2>5 DEF EmittingInv
<1>7. RetentionInv'
  BY <1>2 DEF TelemetryInv, RetentionInv
<1>8. LossInv'
  <2>1. /\ Cardinality(Filed(bucket)) \in Nat /\ Cardinality(InHand) \in Nat
        /\ dropped \in Nat /\ emitted \in Nat
    BY TelemetryNumbers
  <2>2. now < RETENTION => Cardinality(Filed(bucket)) + Cardinality(InHand) + dropped >= emitted
    BY DEF TelemetryInv, LossInv
  <2>3. Cardinality(InHand') = Cardinality(InHand) + 1
    BY <1>5, FS_AddElement, TelemetryNumbers
  <2>4. now < RETENTION => Cardinality(Filed(bucket)) + Cardinality(InHand') + dropped >= emitted'
    BY <1>2, <2>1, <2>2, <2>3
  <2>5. (now < RETENTION => Cardinality(Filed(bucket)) + Cardinality(InHand) + dropped >= emitted)'
    BY <1>3, <2>4
  <2> QED
    BY <2>5 DEF LossInv
<1>9. ReaderInv'
  <2>1. \A x \in Filed(bucket') : x \in Filed(bucket)
    BY <1>3
  <2>2. \A x \in InHand' : ~ReaderIsSound(reader) \/ x \in InHand \/ x.event \notin reader.there
    BY <1>1, <1>4, <1>5
  <2>3. ReaderInv /\ reader' = reader
    BY DEF TelemetryInv
  <2> QED
    BY <1>2, <2>1, <2>2, <2>3, ReaderStays
<1>10. FiledWell(bucket, emitted)'
  <2>1. FiledWell(bucket, emitted')
    BY <1>2, FoundUnderItsDay DEF TelemetryInv
  <2> QED
    BY <1>3, <2>1
<1> QED
  BY <1>6, <1>7, <1>8, <1>9, <1>10 DEF TelemetryInv

\* Time takes no day before its retention is over.
LEMMA TelemetryTimePasses ==
  ASSUME TelemetryInv, Events!Tick
  PROVE  TelemetryInv'
<1> DEFINE gone == {d \in EvDays : ttl[d] # 0 /\ ttl[d] <= now + 1}
           new == [d \in EvDays |-> IF d \in gone THEN <<>> ELSE bucket[d]]
<1>1. /\ now < MaxTime /\ now' = now + 1 /\ bucket' = new
      /\ ttl' = [d \in EvDays |-> IF d \in gone THEN 0 ELSE ttl[d]]
      /\ UNCHANGED <<driver, days, emitting, emitted, dropped, reader>>
  BY DEF Events!Tick, EvDays
<1>2. now \in Nat /\ emitted \in Nat /\ RETENTION \in Nat /\ MaxTime \in Nat
  BY TelemetryNumbers, TelemetryFacts
<1>3. FiledWell(bucket, emitted) /\ bucket \in [EvDays -> Seq(EventTypes)]
  BY DEF TelemetryInv, FiledWell
<1>4. /\ bucket' \in [EvDays -> Seq(EventTypes)]
      /\ \A d \in EvDays : bucket'[d] = bucket[d] \/ bucket'[d] = <<>>
  <2>1. <<>> \in Seq(EventTypes)
    OBVIOUS
  <2>2. new \in [EvDays -> Seq(EventTypes)] /\ \A d \in EvDays : new[d] = bucket[d] \/ new[d] = <<>>
    BY <1>3, <2>1
  <2> HIDE DEF new
  <2> QED
    BY <1>1, <2>2
<1>5. Range(<<>>) = {} /\ IsInjective(<<>>)
  BY DEF Range, IsInjective
<1>6. FiledWell(bucket', emitted)
  BY <1>3, <1>4, <1>5 DEF FiledWell
<1>7. Filed(bucket') \subseteq Filed(bucket)
  BY <1>4, <1>5 DEF Filed
<1>8. now + 1 < RETENTION => bucket' = bucket
  <2> SUFFICES ASSUME now + 1 < RETENTION PROVE new = bucket
    BY <1>1
  <2>1. \A d \in EvDays : d \notin gone
    BY <1>2 DEF TelemetryInv, RetentionInv
  <2> QED
    BY <1>3, <2>1
<1> HIDE DEF new
<1>9. InHand' = InHand
  BY <1>1 DEF InHand
<1>10. EmittingInv'
  <2>1. (\A x \in InHand : x.event \notin Filed(bucket))'
    BY <1>7, <1>9 DEF TelemetryInv, EmittingInv
  <2> QED
    BY <1>1, <2>1 DEF TelemetryInv, EmittingInv
<1>11. RetentionInv'
  <2>1. now' \in 0..MaxTime
    BY <1>1, <1>2
  <2>2. /\ ttl' \in [EvDays -> Nat] /\ \A d \in EvDays : ttl'[d] = 0 \/ ttl'[d] >= RETENTION
        /\ driver = "memory" => \A d \in EvDays : ttl'[d] = 0
    BY <1>1 DEF TelemetryInv, RetentionInv
  <2> QED
    BY <1>1, <2>1, <2>2 DEF TelemetryInv, RetentionInv
<1>12. LossInv'
  <2>1. now' < RETENTION => now < RETENTION /\ bucket' = bucket
    BY <1>1, <1>2, <1>8
  <2> QED
    BY <1>1, <1>9, <2>1 DEF TelemetryInv, LossInv
<1>13. ReaderInv'
  <2>1. ReaderInv /\ emitted' \in Nat /\ emitted <= emitted'
    BY <1>1, <1>2 DEF TelemetryInv
  <2> QED
    BY <1>1, <1>2, <1>7, <1>9, <2>1, ReaderStays
<1>14. FiledWell(bucket, emitted)'
  BY <1>1, <1>6
<1> QED
  BY <1>10, <1>11, <1>12, <1>13, <1>14 DEF TelemetryInv

\* A read moves nothing but the reader.
LEMMA OnlyTheReaderMoves ==
  ASSUME TelemetryInv, UNCHANGED <<driver, now, bucket, ttl, days, emitting, emitted, dropped>>,
         ReaderInv'
  PROVE  TelemetryInv'
<1>1. EmittingInv'
  BY DEF TelemetryInv, EmittingInv, InHand, Filed
<1>2. RetentionInv'
  BY DEF TelemetryInv, RetentionInv
<1>3. LossInv'
  BY DEF TelemetryInv, LossInv, InHand, Filed
<1>4. FiledWell(bucket, emitted)'
  BY DEF TelemetryInv
<1> QED
  BY <1>1, <1>2, <1>3, <1>4 DEF TelemetryInv

LEMMA AskIsSound ==
  ASSUME TelemetryInv, Events!Ask
  PROVE  TelemetryInv'
<1>1. PICK start \in EvDays, to \in EvDays, last \in EvDays :
        (last = start \/ last = to) /\ start <= to /\ reader' = Events!Reading(start, to, last)
  BY DEF Events!Ask, EvDays
<1>2. UNCHANGED <<driver, now, bucket, ttl, days, emitting, emitted, dropped>>
  BY DEF Events!Ask
<1>3. start \in Nat /\ to \in Nat /\ last \in Nat /\ last \in EvDays /\ last <= to
  BY <1>1, DayFits
<1> DEFINE g == [d \in EvDays |-> IF d \in start..last THEN bucket[d] ELSE <<>>]
           t == {e \in Filed(bucket) : DayOf(e) \in start..to}
<1>4. /\ reader'.pc = IF last = to THEN "answered" ELSE "reading"
      /\ reader'.to = to /\ reader'.day = last + 1 /\ reader'.got = g /\ reader'.there = t
  <2>1. t = {e \in Events!Stored : Events!dayOf(e.ts) \in start..to}
    BY TelemetryFacts DEF Events!Stored, DayOf
  <2> QED
    BY <1>1, <2>1 DEF Events!Reading, EvDays
<1>5. FiledWell(bucket, emitted) /\ bucket \in [EvDays -> Seq(EventTypes)] /\ emitted \in Nat
  BY TelemetryNumbers DEF TelemetryInv, FiledWell
<1>6. FiledWell(g, emitted)
  <2>1. <<>> \in Seq(EventTypes) /\ Range(<<>>) = {} /\ IsInjective(<<>>)
    BY DEF Range, IsInjective
  <2>2. g \in [EvDays -> Seq(EventTypes)] /\ \A d \in EvDays : g[d] = bucket[d] \/ g[d] = <<>>
    BY <1>5, <2>1
  <2> HIDE DEF g
  <2> QED
    BY <1>5, <2>1, <2>2 DEF FiledWell
<1>7. \A e \in t : /\ e \in EventTypes /\ e.n <= emitted /\ DayOf(e) \in start..to
                   /\ DayOf(e) \in EvDays /\ e \in Range(bucket[DayOf(e)])
                   /\ \A c \in InHand : c.event # e
  <2>1. \A e \in Filed(bucket) : \A c \in InHand : c.event # e
    BY DEF TelemetryInv, EmittingInv
  <2> QED
    BY <1>5, <2>1, FoundUnderItsDay
<1>8. \A e \in t : DayOf(e) < last + 1 => e \in Range(g[DayOf(e)])
  <2> SUFFICES ASSUME NEW e \in t, DayOf(e) < last + 1 PROVE e \in Range(g[DayOf(e)])
    OBVIOUS
  <2>1. DayOf(e) \in start..last /\ DayOf(e) \in EvDays
    BY <1>3, <1>7
  <2>2. g[DayOf(e)] = bucket[DayOf(e)]
    BY <2>1
  <2> QED
    BY <1>7, <2>2
<1>13. reader' \in [pc : {"reading", "answered"}, to : EvDays, day : Nat,
                    got : [EvDays -> Seq(EventTypes)], there : SUBSET EventTypes]
  <2>1. reader' = [pc |-> reader'.pc, to |-> to, day |-> last + 1, got |-> g, there |-> t]
    BY <1>1, <1>4 DEF Events!Reading
  <2>2. g \in [EvDays -> Seq(EventTypes)] /\ t \in SUBSET EventTypes
    BY <1>6, <1>7 DEF FiledWell
  <2>3. reader'.pc \in {"reading", "answered"} /\ last + 1 \in Nat
    BY <1>3, <1>4
  <2> HIDE DEF g, t
  <2> QED
    BY <1>1, <2>1, <2>2, <2>3
<1> HIDE DEF g, t
<1>9. \A e \in t : DayOf(e) <= to
  BY <1>3, <1>7
<1>10. IF reader'.pc = "answered" THEN reader'.day = to + 1 ELSE reader'.day <= to
  <2>1. \A a, b \in Nat : a <= b /\ a # b => a + 1 <= b
    OBVIOUS
  <2> QED
    BY <1>3, <1>4, <2>1
<1>11. ReaderIsSound(reader)'
  <2>1. /\ reader' \in [pc : {"reading", "answered"}, to : EvDays, day : Nat,
                         got : [EvDays -> Seq(EventTypes)], there : SUBSET EventTypes]
        /\ IF reader'.pc = "answered" THEN reader'.day = reader'.to + 1 ELSE reader'.day <= reader'.to
    BY <1>3, <1>4, <1>10, <1>13
  <2>2. FiledWell(reader'.got, emitted')
    BY <1>2, <1>4, <1>6
  <2>3. \A e \in reader'.there : /\ e.n <= emitted' /\ DayOf(e) <= reader'.to
                                 /\ \A c \in InHand' : c.event # e
    BY <1>2, <1>4, <1>7, <1>9 DEF InHand
  <2>4. \A e \in reader'.there : DayOf(e) < reader'.day => e \in Range(reader'.got[DayOf(e)])
    BY <1>4, <1>8
  <2> QED
    BY <2>1, <2>2, <2>3, <2>4 DEF ReaderIsSound
<1>12. ReaderInv'
  BY <1>11 DEF ReaderInv
<1> QED
  BY <1>2, <1>12, OnlyTheReaderMoves

LEMMA ReadDayIsSound ==
  ASSUME TelemetryInv, Events!ReadDay
  PROVE  TelemetryInv'
<1> DEFINE d == reader.day
           g == [reader.got EXCEPT ![d] = bucket[d]]
<1>1. UNCHANGED <<driver, now, bucket, ttl, days, emitting, emitted, dropped>>
  BY DEF Events!ReadDay
<1>2. ReaderIsSound(reader) /\ reader.pc = "reading"
  BY DEF Events!ReadDay, TelemetryInv, ReaderInv
<1>3. /\ reader.to \in EvDays /\ d \in Nat /\ d <= reader.to /\ FiledWell(reader.got, emitted)
      /\ \A e \in reader.there : /\ e.n <= emitted /\ DayOf(e) <= reader.to
                                 /\ \A c \in InHand : c.event # e
      /\ \A e \in reader.there \cap Filed(bucket) : DayOf(e) < d => e \in Range(reader.got[DayOf(e)])
  BY <1>2 DEF ReaderIsSound
<1>4. d \in EvDays
  <2>1. EvDays = 0..(MaxTime \div DAY) /\ EvDays \subseteq Nat /\ MaxTime \div DAY \in Int
    BY TelemetryFacts, DayFits
  <2> QED
    BY <1>3, <2>1
<1>5. reader' = [reader EXCEPT !.got = g, !.day = d + 1,
                               !.pc = IF d = reader.to THEN "answered" ELSE "reading"]
  BY <1>2 DEF Events!ReadDay
<1>6. FiledWell(bucket, emitted) /\ emitted \in Nat
  BY TelemetryNumbers DEF TelemetryInv
<1>7. /\ g \in [EvDays -> Seq(EventTypes)] /\ g[d] = bucket[d]
      /\ \A e \in EvDays : e # d => g[e] = reader.got[e]
  BY <1>3, <1>4, <1>6 DEF FiledWell
<1>8. FiledWell(g, emitted)
  <2> HIDE DEF g
  <2>1. \A e \in EvDays : g[e] = bucket[e] \/ g[e] = reader.got[e]
    BY <1>7
  <2> QED
    BY <1>3, <1>6, <1>7, <2>1 DEF FiledWell
<1> HIDE DEF g, d
<1>9. /\ reader' \in [pc : {"reading", "answered"}, to : EvDays, day : Nat,
                       got : [EvDays -> Seq(EventTypes)], there : SUBSET EventTypes]
      /\ reader'.pc = (IF d = reader.to THEN "answered" ELSE "reading")
      /\ reader'.to = reader.to /\ reader'.day = d + 1
      /\ reader'.got = g /\ reader'.there = reader.there
  <2>1. d + 1 \in Nat
    BY <1>3
  <2> QED
    BY <1>2, <1>5, <1>7, <2>1 DEF ReaderIsSound
<1>10. IF reader'.pc = "answered" THEN reader'.day = reader'.to + 1 ELSE reader'.day <= reader'.to
  <2>1. \A a, b \in Nat : a <= b /\ a # b => a + 1 <= b
    OBVIOUS
  <2>2. reader.to \in Nat
    BY <1>3, DayFits
  <2> QED
    BY <1>3, <1>9, <2>1, <2>2
<1>11. \A e \in reader.there \cap Filed(bucket) : DayOf(e) < d + 1 => e \in Range(g[DayOf(e)])
  <2> SUFFICES ASSUME NEW e \in reader.there \cap Filed(bucket), DayOf(e) < d + 1
               PROVE  e \in Range(g[DayOf(e)])
    OBVIOUS
  <2>1. DayOf(e) \in EvDays /\ DayOf(e) \in Nat /\ e \in Range(bucket[DayOf(e)])
    BY <1>6, FoundUnderItsDay, DayFits
  <2>2. DayOf(e) < d \/ DayOf(e) = d
    BY <1>3, <2>1
  <2> QED
    BY <1>3, <1>7, <2>1, <2>2
<1>12. ReaderIsSound(reader)'
  <2>1. \A e \in reader'.there : /\ e.n <= emitted' /\ DayOf(e) <= reader'.to
                                 /\ \A c \in InHand' : c.event # e
    BY <1>1, <1>3, <1>9 DEF InHand
  <2>2. \A e \in reader'.there \cap Filed(bucket') :
          DayOf(e) < reader'.day => e \in Range(reader'.got[DayOf(e)])
    BY <1>1, <1>9, <1>11
  <2>3. FiledWell(reader'.got, emitted')
    BY <1>1, <1>8, <1>9
  <2> QED
    BY <1>9, <1>10, <2>1, <2>2, <2>3 DEF ReaderIsSound
<1>13. ReaderInv'
  BY <1>12 DEF ReaderInv
<1> QED
  BY <1>1, <1>13, OnlyTheReaderMoves

LEMMA TelemetryMoves == TelemetryInv /\ [Events!Next]_telemetryVars => TelemetryInv'
<1> SUFFICES ASSUME TelemetryInv, [Events!Next]_telemetryVars PROVE TelemetryInv'
  OBVIOUS
<1>1. CASE Events!Emit \/ Events!Beacon
  <2>1. Events!track /\ UNCHANGED <<driver, now, ttl, dropped, reader>>
    BY <1>1 DEF Events!Emit, Events!Beacon
  <2> QED
    BY <2>1, MemoryTracks, RedisTracks
<1>2. ASSUME NEW c \in emitting,
             Events!Push(c) \/ Events!Expire(c) \/ Events!Register(c) \/ Events!Swallow(c)
      PROVE  TelemetryInv'
  <2>1. CASE Events!Push(c)
    BY <1>2, <2>1, PushIsSound
  <2>2. CASE Events!Expire(c)
    <3> DEFINE d == Events!dayOf(c.event.ts)
    <3>1. /\ UNCHANGED <<driver, now, bucket, days, emitted, dropped, reader>>
          /\ c.pc = "expire" /\ Events!Then(c, "register")
          /\ ttl' = [ttl EXCEPT ![d] = IF bucket[d] = <<>> THEN 0 ELSE now + RETENTION]
      BY <2>2 DEF Events!Expire
    <3>2. now \in Nat /\ RETENTION \in Nat /\ now + RETENTION \in Nat /\ now + RETENTION >= RETENTION
      BY TelemetryNumbers, TelemetryFacts
    <3>3. ttl' \in [EvDays -> Nat] /\ \A x \in EvDays : ttl'[x] = 0 \/ ttl'[x] >= RETENTION
      BY <3>1, <3>2 DEF TelemetryInv, RetentionInv
    <3>4. c \notin InHand
      BY <3>1 DEF InHand
    <3> QED
      BY <1>2, <3>1, <3>3, <3>4, HandIsSound
  <2>3. CASE Events!Register(c)
    <3>1. /\ UNCHANGED <<driver, now, bucket, ttl, emitted, dropped, reader>>
          /\ c.pc = "register" /\ emitting' = emitting \ {c}
      BY <2>3 DEF Events!Register
    <3>2. c \notin InHand
      BY <3>1 DEF InHand
    <3>3. ttl' \in [EvDays -> Nat] /\ \A x \in EvDays : ttl'[x] = 0 \/ ttl'[x] >= RETENTION
      BY <3>1 DEF TelemetryInv, RetentionInv
    <3> QED
      BY <1>2, <3>1, <3>2, <3>3, HandIsSound
  <2>4. CASE Events!Swallow(c)
    <3>1. /\ UNCHANGED <<driver, now, bucket, ttl, days, emitted, reader>>
          /\ dropped' = dropped + 1 /\ emitting' = emitting \ {c}
      BY <2>4 DEF Events!Swallow
    <3>2. ttl' \in [EvDays -> Nat] /\ \A x \in EvDays : ttl'[x] = 0 \/ ttl'[x] >= RETENTION
      BY <3>1 DEF TelemetryInv, RetentionInv
    <3> QED
      BY <1>2, <3>1, <3>2, HandIsSound
  <2> QED
    BY <1>2, <2>1, <2>2, <2>3, <2>4
<1>3. CASE Events!Tick
  BY <1>3, TelemetryTimePasses
<1>4. CASE Events!Ask
  BY <1>4, AskIsSound
<1>5. CASE Events!ReadDay
  BY <1>5, ReadDayIsSound
<1>6. CASE UNCHANGED telemetryVars
  <2>1. /\ UNCHANGED <<driver, now, bucket, ttl, days, emitting, emitted, dropped>> /\ reader' = reader
    BY <1>6 DEF telemetryVars
  <2>2. ReaderInv'
    BY <2>1 DEF TelemetryInv, ReaderInv, ReaderIsSound, InHand, Filed
  <2> QED
    BY <2>1, <2>2, OnlyTheReaderMoves
<1> QED
  BY <1>1, <1>2, <1>3, <1>4, <1>5, <1>6 DEF Events!Next

LEMMA TelemetryStarts == StoresInit => TelemetryInv
<1> SUFFICES ASSUME Events!Init PROVE TelemetryInv
  BY DEF StoresInit
<1>1. /\ driver \in {"upstash", "memory"} /\ now = 0 /\ emitted = 0 /\ dropped = 0
      /\ bucket = [d \in EvDays |-> <<>>] /\ ttl = [d \in EvDays |-> 0]
      /\ emitting = {} /\ reader.pc = "idle"
  BY DEF Events!Init, Events!NoRead, EvDays
<1>2. <<>> \in Seq(EventTypes) /\ Range(<<>>) = {} /\ IsInjective(<<>>)
  BY DEF Range, IsInjective
<1>3. FiledWell(bucket, emitted)
  BY <1>1, <1>2 DEF FiledWell
<1>4. Filed(bucket) = {} /\ InHand = {} /\ IsFiniteSet({})
  BY <1>1, <1>2, FS_EmptySet DEF Filed, InHand
<1>5. Cardinality(Filed(bucket)) = 0 /\ Cardinality(InHand) = 0
  BY <1>4, FS_EmptySet
<1>6. EmittingInv
  BY <1>1, <1>4 DEF EmittingInv
<1>7. RetentionInv
  BY <1>1, TelemetryFacts DEF RetentionInv
<1>8. LossInv
  BY <1>1, <1>5 DEF LossInv
<1>9. ReaderInv
  BY <1>1 DEF ReaderInv
<1> QED
  BY <1>3, <1>6, <1>7, <1>8, <1>9 DEF TelemetryInv

\* A finished read has every event of its range that was there when it began and has
\* not expired, each once (listRange, telemetry-store.ts:169).
LEMMA ReadsAreWhole == TelemetryInv => Events!ReadOnce
<1> SUFFICES ASSUME TelemetryInv, reader.pc = "answered"
             PROVE  /\ reader.there \cap Events!Stored \subseteq Events!StoredIn(reader.got)
                    /\ \A d, e \in EvDays : \A i \in DOMAIN reader.got[d], j \in DOMAIN reader.got[e] :
                         reader.got[d][i] = reader.got[e][j] => d = e /\ i = j
  BY DEF Events!ReadOnce, EvDays
<1>1. ReaderIsSound(reader)
  BY DEF TelemetryInv, ReaderInv
<1>2. /\ FiledWell(reader.got, emitted) /\ reader.to \in Nat /\ reader.day = reader.to + 1
      /\ \A e \in reader.there : e \in EventTypes /\ DayOf(e) \in EvDays /\ DayOf(e) <= reader.to
      /\ \A e \in reader.there \cap Filed(bucket) : DayOf(e) < reader.day => e \in Range(reader.got[DayOf(e)])
  BY <1>1, DayFits DEF ReaderIsSound, EventTypes, DayOf
<1>3. \A e \in reader.there : DayOf(e) < reader.day
  BY <1>2, DayFits
<1>4. reader.there \cap Filed(bucket) \subseteq Filed(reader.got)
  BY <1>2, <1>3 DEF Filed
<1>5. reader.there \cap Events!Stored \subseteq Events!StoredIn(reader.got)
  BY <1>4, TelemetryFacts DEF Events!Stored
<1>6. ASSUME NEW d \in EvDays, NEW e \in EvDays, NEW i \in DOMAIN reader.got[d],
             NEW j \in DOMAIN reader.got[e], reader.got[d][i] = reader.got[e][j]
      PROVE  d = e /\ i = j
  <2>1. reader.got[d][i] \in Range(reader.got[d]) /\ reader.got[e][j] \in Range(reader.got[e])
    BY DEF Range
  <2>2. d = e
    BY <1>2, <1>6, <2>1 DEF FiledWell
  <2> QED
    BY <1>2, <1>6, <2>2 DEF FiledWell, IsInjective
<1> QED
  BY <1>5, <1>6

\* Before the first day can expire, every stamped event is stored, in hand, counted as
\* dropped or past the cap (telemetry.ts:89, telemetry-store.ts:160).
LEMMA LossesAreAccounted == TelemetryInv => Events!LossesAreCounted
<1> SUFFICES ASSUME TelemetryInv, now < RETENTION
             PROVE  Cardinality(Filed(bucket)) + Cardinality(InHand) + dropped
                      >= IF driver = "memory" /\ emitted > MEMORY_MAX_EVENTS THEN MEMORY_MAX_EVENTS ELSE emitted
  <2>1. /\ Events!Cardinality(Events!Stored) = Cardinality(Filed(bucket))
        /\ Events!Cardinality({c \in emitting : c.pc = "push"}) = Cardinality(InHand)
    BY TelemetryFacts DEF Events!Stored, InHand
  <2> QED
    BY <2>1 DEF Events!LossesAreCounted
<1>1. /\ Cardinality(Filed(bucket)) \in Nat /\ Cardinality(InHand) \in Nat
      /\ dropped \in Nat /\ emitted \in Nat /\ MEMORY_MAX_EVENTS \in Nat
  BY TelemetryNumbers, TelemetryFacts
<1>2. \/ Cardinality(Filed(bucket)) + Cardinality(InHand) + dropped >= emitted
      \/ driver = "memory" /\ Cardinality(Filed(bucket)) >= MEMORY_MAX_EVENTS
  BY DEF TelemetryInv, LossInv
<1> QED
  BY <1>1, <1>2

\* What venues count is accounted for: no range is read twice or short, no event is
\* lost uncounted.
THEOREM TelemetryIsAccountedFor == StoresSpec => [](Events!ReadOnce /\ Events!LossesAreCounted)
<1>1. StoresInit => TelemetryInv
  BY TelemetryStarts
<1>2. [StoresNext]_storesVars => [Events!Next]_telemetryVars
  BY DEF StoresNext, Alone, storesVars
<1>3. TelemetryInv /\ [Events!Next]_telemetryVars => TelemetryInv'
  BY TelemetryMoves
<1>4. TelemetryInv => Events!ReadOnce /\ Events!LossesAreCounted
  BY ReadsAreWhole, LossesAreAccounted
<1> QED
  BY <1>1, <1>2, <1>3, <1>4, PTL DEF StoresSpec

\* Feedback and telemetry together (RecordsAreAccountedFor).
THEOREM RecordsAreAccounted == StoresSpec => []RecordsAreAccountedFor
<1>1. /\ Feedbacks!ThanksMeansListed /\ Feedbacks!WithinTheRate /\ Feedbacks!OnlyInFlightIsOvertaken
      /\ Events!ReadOnce /\ Events!LossesAreCounted
      => RecordsAreAccountedFor
  BY DEF RecordsAreAccountedFor
<1> QED
  BY <1>1, FeedbackIsAccountedFor, TelemetryIsAccountedFor, PTL

=============================================================================
