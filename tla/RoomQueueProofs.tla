--------------------------- MODULE RoomQueueProofs ---------------------------
(***************************************************************************)
(* Proofs about RoomQueue, for any number of handlers, songs and people.   *)
(***************************************************************************)
EXTENDS RoomQueue, ListTheorems

-----------------------------------------------------------------------------
(* The order of the engine holds the entries that it was given.            *)

\* What the engine's entries are, for the rules to compare them.
EngineEntry == [id : Int, uuid : Participants, table : Tables \cup {NoTable}, video : Int,
                kind : Kinds, grace : BOOLEAN, seq : Int]
Numbered(S) ==
  S \subseteq EngineEntry /\ IsFiniteSet(S) /\ \A e, f \in S : e.seq = f.seq => e = f

LEMMA KeysAreKeys ==
  ASSUME NEW m, NEW e \in EngineEntry
  PROVE  GroupKey(m, e) \in GroupKeys
BY DEF GroupKey, GroupKeys, PersonKey, TableBucket, EngineEntry

\* Submission orders entries strictly and totally, and so does the credit of their
\* groups, then grace, then submission.
BySubmission(S) == {p \in S \X S : SubmittedBefore(p[1], p[2])}
ByCredit(m, served, S) == {p \in S \X S : ServedBefore(m, served, p[1], p[2])}

LEMMA SubmissionOrders ==
  ASSUME NEW S, Numbered(S)
  PROVE  Orders(BySubmission(S), S)
<1>1. \A e \in S : e.seq \in Int
  BY DEF Numbered, EngineEntry
<1>2. \A e, f \in S : <<e, f>> \in BySubmission(S) <=> e.seq < f.seq
  BY DEF BySubmission, SubmittedBefore
<1>3. \A e, f \in S : e.seq = f.seq => e = f
  BY DEF Numbered
<1> QED
  BY <1>1, <1>2, <1>3 DEF Orders

LEMMA CreditOrders ==
  ASSUME NEW m, NEW S, Numbered(S), NEW served \in [GroupKeys -> Int]
  PROVE  Orders(ByCredit(m, served, S), S)
<1> DEFINE credit == [e \in S |-> served[GroupKey(m, e)]]
           rank == [e \in S |-> IF e.grace THEN 0 ELSE 1]
<1>1. \A e \in S : e \in EngineEntry /\ e.seq \in Int /\ e.grace \in BOOLEAN
  BY DEF Numbered, EngineEntry
<1>2. \A e \in S : credit[e] \in Int
  BY <1>1, KeysAreKeys
<1>3. \A e \in S : rank[e] \in {0, 1}
  OBVIOUS
<1>4. \A e, f \in S : <<e, f>> \in ByCredit(m, served, S) <=>
        \/ credit[e] < credit[f]
        \/ credit[e] = credit[f] /\ rank[e] < rank[f]
        \/ credit[e] = credit[f] /\ rank[e] = rank[f] /\ e.seq < f.seq
  <2> SUFFICES ASSUME NEW e \in S, NEW f \in S
               PROVE  <<e, f>> \in ByCredit(m, served, S) <=>
                        \/ credit[e] < credit[f]
                        \/ credit[e] = credit[f] /\ rank[e] < rank[f]
                        \/ credit[e] = credit[f] /\ rank[e] = rank[f] /\ e.seq < f.seq
    BY Zenon
  <2>1. <<e, f>> \in ByCredit(m, served, S) <=> ServedBefore(m, served, e, f)
    BY DEF ByCredit
  <2>2. rank[e] < rank[f] <=> e.grace /\ ~f.grace
    OBVIOUS
  <2>3. rank[e] = rank[f] <=> (e.grace = f.grace)
    BY <1>1
  <2> QED
    BY <2>1, <2>2, <2>3 DEF ServedBefore, GraceThenSubmitted, SubmittedBefore
<1>5. \A e, f \in S : e.seq = f.seq => e = f
  BY DEF Numbered
<1> HIDE DEF credit, rank
<1>6. \A e \in S : <<e, e>> \notin ByCredit(m, served, S)
  BY <1>1, <1>2, <1>3, <1>4
<1>7. \A e, f, g \in S :
        <<e, f>> \in ByCredit(m, served, S) /\ <<f, g>> \in ByCredit(m, served, S)
          => <<e, g>> \in ByCredit(m, served, S)
  <2> SUFFICES ASSUME NEW e \in S, NEW f \in S, NEW g \in S,
                      <<e, f>> \in ByCredit(m, served, S), <<f, g>> \in ByCredit(m, served, S)
               PROVE  <<e, g>> \in ByCredit(m, served, S)
    BY Zenon
  <2>1. /\ credit[e] \in Int /\ credit[f] \in Int /\ credit[g] \in Int
        /\ rank[e] \in Int /\ rank[f] \in Int /\ rank[g] \in Int
        /\ e.seq \in Int /\ f.seq \in Int /\ g.seq \in Int
    BY <1>1, <1>2, <1>3
  <2>2. /\ \/ credit[e] < credit[f]
           \/ credit[e] = credit[f] /\ rank[e] < rank[f]
           \/ credit[e] = credit[f] /\ rank[e] = rank[f] /\ e.seq < f.seq
        /\ \/ credit[f] < credit[g]
           \/ credit[f] = credit[g] /\ rank[f] < rank[g]
           \/ credit[f] = credit[g] /\ rank[f] = rank[g] /\ f.seq < g.seq
    BY <1>4, Zenon
  <2>3. \/ credit[e] < credit[g]
        \/ credit[e] = credit[g] /\ rank[e] < rank[g]
        \/ credit[e] = credit[g] /\ rank[e] = rank[g] /\ e.seq < g.seq
    BY <2>1, <2>2
  <2> QED
    BY <1>4, <2>3, Zenon
<1>8. \A e, f \in S :
        e # f => <<e, f>> \in ByCredit(m, served, S) \/ <<f, e>> \in ByCredit(m, served, S)
  <2> TAKE e, f \in S
  <2> QED
    BY <1>1, <1>2, <1>3, <1>4, <1>5
<1> QED
  BY <1>6, <1>7, <1>8, Zenon DEF Orders

\* A finite set of numbers has its greatest.
LEMMA MaxOfSet ==
  ASSUME NEW S \in SUBSET Int, IsFiniteSet(S), S # {}
  PROVE  MaxOf(S) \in S /\ \A n \in S : n <= MaxOf(S)
<1> DEFINE R == {p \in S \X S : p[1] > p[2]}
<1>1. \A m, n \in S : <<m, n>> \in R <=> m > n
  OBVIOUS
<1>2. Orders(R, S)
  <2> HIDE DEF R
  <2> QED
    BY <1>1 DEF Orders
<1>3. PICK m \in S : \A n \in S \ {m} : <<m, n>> \in R
  <2> HIDE DEF R
  <2> QED
    BY <1>2, LeastItem
<1> HIDE DEF R
<1>4. ASSUME NEW n \in S PROVE n <= m
  <2>1. n = m \/ m > n
    BY <1>1, <1>3
  <2> QED
    BY <2>1
<1> QED
  BY <1>4 DEF MaxOf
\* The loop of roundRobin, from its states to what it returns.
RoundStates(sings) ==
  [order : Seq(sings), waiting : SUBSET sings, served : [GroupKeys -> Int], tick : Nat]
BestHead(m, s) ==
  CHOOSE e \in s.waiting : \A f \in s.waiting \ {e} : ServedBefore(m, s.served, e, f)
Round(m, s) ==
  [order   |-> Append(s.order, BestHead(m, s)),
   waiting |-> s.waiting \ {BestHead(m, s)},
   served  |-> [s.served EXCEPT ![GroupKey(m, BestHead(m, s))] = s.tick],
   tick    |-> s.tick + 1]
RoundRobinLoop(loop, m, sings) ==
  loop = [s \in RoundStates(sings) |-> IF s.waiting = {} THEN s.order ELSE loop[Round(m, s)]]
FirstRound(m, sings, lastSang) ==
  [order |-> <<>>, waiting |-> sings, served |-> lastSang,
   tick |-> MaxOf({0} \cup {lastSang[GroupKey(m, e)] + 1 : e \in sings})]

LEMMA RoundRobinIsALoop ==
  ASSUME NEW m, NEW sings, NEW lastSang
  PROVE  RoundRobin(m, sings, lastSang) =
           (CHOOSE loop : RoundRobinLoop(loop, m, sings))[FirstRound(m, sings, lastSang)]
BY DEF RoundRobin, RoundRobinLoop, RoundStates, Round, BestHead, FirstRound

\* The best head is a waiting entry, and a round leaves the loop in a state of its own.
LEMMA RoundServes ==
  ASSUME NEW m, NEW sings, Numbered(sings), NEW s \in RoundStates(sings), s.waiting # {}
  PROVE  BestHead(m, s) \in s.waiting /\ Round(m, s) \in RoundStates(sings)
<1>1. /\ s.order \in Seq(sings) /\ s.waiting \in SUBSET sings
      /\ s.served \in [GroupKeys -> Int] /\ s.tick \in Nat
  BY DEF RoundStates
<1>2. Numbered(s.waiting) /\ IsFiniteSet(s.waiting)
  <2>1. IsFiniteSet(s.waiting)
    BY <1>1, FS_Subset, Zenon DEF Numbered
  <2> QED
    BY <1>1, <2>1 DEF Numbered
<1>3. Orders(ByCredit(m, s.served, s.waiting), s.waiting)
  BY <1>1, <1>2, CreditOrders
<1>4. PICK e \in s.waiting : \A f \in s.waiting \ {e} : <<e, f>> \in ByCredit(m, s.served, s.waiting)
  BY <1>2, <1>3, LeastItem
<1>5. \A f \in s.waiting \ {e} : ServedBefore(m, s.served, e, f)
  BY <1>4 DEF ByCredit
<1>6. BestHead(m, s) \in s.waiting
  BY <1>5, Zenon DEF BestHead
<1> DEFINE h == BestHead(m, s)
<1> HIDE DEF h
<1>7. h \in s.waiting /\ h \in sings
  BY <1>1, <1>6 DEF h
<1>8. [s.served EXCEPT ![GroupKey(m, h)] = s.tick] \in [GroupKeys -> Int]
  <2> DEFINE served == s.served
             tick == s.tick
             key == GroupKey(m, h)
  <2>1. served \in [GroupKeys -> Int] /\ tick \in Int
    BY <1>1
  <2> HIDE DEF served, tick, key
  <2>2. [served EXCEPT ![key] = tick] \in [GroupKeys -> Int]
    BY <2>1
  <2> QED
    BY <2>2 DEF served, tick, key
<1>9. Append(s.order, h) \in Seq(sings) /\ s.waiting \ {h} \in SUBSET sings /\ s.tick + 1 \in Nat
  BY <1>1, <1>7
<1>10. Round(m, s) \in RoundStates(sings)
  BY <1>8, <1>9, Zenon DEF Round, RoundStates, h
<1> QED
  BY <1>6, <1>10

\* roundRobin returns each of the entries once.
LEMMA RoundRobinKeeps ==
  ASSUME NEW m, NEW sings, Numbered(sings), NEW lastSang \in [GroupKeys -> Int]
  PROVE  Enumerates(RoundRobin(m, sings, lastSang), sings)
<1> DEFINE D == RoundStates(sings)
           stop == {s \in D : s.waiting = {}}
           base == [s \in D |-> s.order]
           step == [s \in D |-> Round(m, s)]
           mu == [s \in D |-> Cardinality(s.waiting)]
           J == {s \in D : /\ Range(s.order) \cup s.waiting = sings
                           /\ Range(s.order) \cap s.waiting = {}
                           /\ IsInjective(s.order)}
           start == FirstRound(m, sings, lastSang)
<1>1. \A s \in D \ stop : step[s] \in D
  BY RoundServes
<1>2. \A loop : Loops(loop, D, stop, base, step) <=> RoundRobinLoop(loop, m, sings)
  <2> TAKE loop
  <2>1. \A s \in D : (IF s \in stop THEN base[s] ELSE loop[step[s]])
                       = (IF s.waiting = {} THEN s.order ELSE loop[Round(m, s)])
    BY Zenon
  <2> HIDE DEF stop, base, step
  <2> QED
    BY <2>1, Zenon DEF Loops, RoundRobinLoop
<1> DEFINE loop == CHOOSE f : RoundRobinLoop(f, m, sings)
<1>3. Loops(loop, D, stop, base, step)
  <2> HIDE DEF D, stop, base, step
  <2>1. \E f : Loops(f, D, stop, base, step)
    BY <1>1, LoopExists
  <2> QED
    BY <1>2, <2>1, Zenon
<1>4. \A s \in J : mu[s] \in Nat
  <2> TAKE s \in J
  <2>1. IsFiniteSet(s.waiting)
    BY FS_Subset DEF RoundStates, Numbered
  <2> QED
    BY <2>1, FS_CardinalityType
<1>5. \A s \in J \ stop : step[s] \in J /\ mu[step[s]] < mu[s]
  <2> SUFFICES ASSUME NEW s \in J, s.waiting # {}
               PROVE  Round(m, s) \in J /\ mu[Round(m, s)] < mu[s]
    BY Zenon
  <2> DEFINE h == BestHead(m, s)
             t == Round(m, s)
  <2>1. h \in s.waiting /\ t \in D
    BY RoundServes
  <2>2. t.order = Append(s.order, h) /\ t.waiting = s.waiting \ {h}
    BY DEF Round
  <2>3. s.order \in Seq(sings) /\ s.waiting \in SUBSET sings /\ IsFiniteSet(s.waiting)
    BY FS_Subset DEF RoundStates, Numbered
  <2> HIDE DEF h, t
  <2>4. /\ Range(t.order) = Range(s.order) \cup {h}
        /\ h \notin Range(s.order) => IsInjective(t.order)
    BY <2>1, <2>2, <2>3, AppendProperties
  <2>5. t \in J
    BY <2>1, <2>2, <2>4
  <2> DEFINE w == s.waiting
  <2>6. Cardinality(w \ {h}) = Cardinality(w) - 1 /\ Cardinality(w) \in Nat
    <3>1. IsFiniteSet(w) /\ h \in w
      BY <2>1, <2>3
    <3> HIDE DEF w
    <3> QED
      BY <3>1, FS_RemoveElement, FS_CardinalityType
  <2>7. mu[t] = Cardinality(w \ {h}) /\ mu[s] = Cardinality(w)
    BY <2>1, <2>2
  <2> HIDE DEF mu, w
  <2>8. mu[t] < mu[s]
    BY <2>6, <2>7
  <2> QED
    BY <2>5, <2>8 DEF t
<1>6. start \in J
  <2> DEFINE T == {0} \cup {lastSang[GroupKey(m, e)] + 1 : e \in sings}
  <2>1. T \in SUBSET Int
    BY KeysAreKeys DEF Numbered
  <2>2. IsFiniteSet(T)
    <3> DEFINE f == [e \in sings |-> lastSang[GroupKey(m, e)] + 1]
    <3>1. T = {0} \cup {f[e] : e \in sings}
      OBVIOUS
    <3> HIDE DEF f
    <3>2. IsFiniteSet({f[e] : e \in sings})
      BY ImageIsFinite DEF Numbered
    <3> QED
      BY <3>1, <3>2, FS_Singleton, FS_Union, Zenon
  <2>3. MaxOf(T) \in Nat
    <3> HIDE DEF T
    <3>1. 0 \in T
      BY DEF T
    <3>2. MaxOf(T) \in T /\ 0 <= MaxOf(T)
      BY <2>1, <2>2, <3>1, MaxOfSet
    <3>3. MaxOf(T) \in Int
      BY <2>1, <3>2, Zenon
    <3> QED
      BY <3>2, <3>3
  <2>4. start = [order |-> <<>>, waiting |-> sings, served |-> lastSang, tick |-> MaxOf(T)]
    BY DEF FirstRound
  <2> HIDE DEF T, start
  <2>5. start \in D
    BY <2>3, <2>4 DEF RoundStates
  <2>6. Range(<<>>) = {} /\ IsInjective(<<>>)
    BY DEF Range, IsInjective
  <2> QED
    BY <2>4, <2>5, <2>6
<1>7. PICK t \in J \cap stop : loop[start] = base[t]
  <2>1. J \in SUBSET D
    OBVIOUS
  <2> HIDE DEF D, stop, base, step, loop, start, J, mu
  <2> QED
    BY <1>3, <1>4, <1>5, <1>6, <2>1, LoopEnds
<1>8. loop[start] = t.order /\ t.waiting = {} /\ t.order \in Seq(sings)
  BY <1>7 DEF RoundStates
<1>9. RoundRobin(m, sings, lastSang) = t.order
  BY <1>8, RoundRobinIsALoop, Zenon
<1>10. Enumerates(t.order, sings)
  BY <1>7, <1>8 DEF Enumerates
<1> QED
  BY <1>9, <1>10, Zenon

\* The loop of interleave: the order so far, the sings and the listens still to come,
\* the listens played in a row.
MergeStates(sings, listens) ==
  Seq(Range(sings) \cup Range(listens)) \X Seq(Range(sings)) \X Seq(Range(listens)) \X Nat
ListenNext(cap, s) == MayListen(cap, s[4]) /\ SubmittedBefore(Head(s[3]), Head(s[2]))
Played(cap, s) ==
  IF ListenNext(cap, s) THEN <<Append(s[1], Head(s[3])), s[2], Tail(s[3]), s[4] + 1>>
  ELSE <<Append(s[1], Head(s[2])), Tail(s[2]), s[3], 0>>
Rest(s) == IF s[2] = <<>> THEN s[1] \o s[3] ELSE s[1] \o s[2]
MergeLoop(loop, sings, listens, cap) ==
  loop = [s \in MergeStates(sings, listens) |->
            IF s[2] = <<>> \/ s[3] = <<>> THEN Rest(s) ELSE loop[Played(cap, s)]]

LEMMA MergeListensIsALoop ==
  ASSUME NEW sings, NEW listens, NEW cap, NEW run
  PROVE  MergeListens(sings, listens, cap, run) =
           (CHOOSE loop : MergeLoop(loop, sings, listens, cap))[<<<<>>, sings, listens, run>>]
<1> DEFINE Body(loop, s) ==
             LET order == s[1]  ss == s[2]  ls == s[3]  played == s[4]
                 listenNext == MayListen(cap, played) /\ SubmittedBefore(Head(ls), Head(ss))
             IN  IF ss = <<>> THEN order \o ls
                 ELSE IF ls = <<>> THEN order \o ss
                 ELSE IF listenNext
                      THEN loop[<<Append(order, Head(ls)), ss, Tail(ls), played + 1>>]
                      ELSE loop[<<Append(order, Head(ss)), Tail(ss), ls, 0>>]
           Is(loop) == loop = [s \in MergeStates(sings, listens) |-> Body(loop, s)]
<1>1. MergeListens(sings, listens, cap, run) = (CHOOSE loop : Is(loop))[<<<<>>, sings, listens, run>>]
  BY DEF MergeListens, MergeStates
<1>2. \A loop, s : Body(loop, s) = IF s[2] = <<>> \/ s[3] = <<>> THEN Rest(s) ELSE loop[Played(cap, s)]
  BY Zenon DEF Rest, Played, ListenNext
<1> HIDE DEF Body
<1>3. \A loop : Is(loop) <=> MergeLoop(loop, sings, listens, cap)
  BY <1>2, Zenon DEF MergeLoop
<1> HIDE DEF Is
<1>4. (CHOOSE loop : Is(loop)) = (CHOOSE loop : MergeLoop(loop, sings, listens, cap))
  BY <1>3, Zenon
<1> QED
  BY <1>1, <1>4, Zenon

\* interleave returns each of the sings and of the listens once.
LEMMA MergeListensKeeps ==
  ASSUME NEW A, NEW B, NEW sings, NEW listens, NEW cap, NEW run \in Nat,
         Enumerates(sings, A), Enumerates(listens, B), A \cap B = {}
  PROVE  Enumerates(MergeListens(sings, listens, cap, run), A \cup B)
<1> DEFINE D == MergeStates(sings, listens)
           stop == {s \in D : s[2] = <<>> \/ s[3] = <<>>}
           base == [s \in D |-> Rest(s)]
           step == [s \in D |-> Played(cap, s)]
           mu == [s \in D |-> Len(s[2]) + Len(s[3])]
           Apart(s) == /\ IsInjective(s[1]) /\ IsInjective(s[2]) /\ IsInjective(s[3])
                       /\ Range(s[1]) \cap Range(s[2]) = {}
                       /\ Range(s[1]) \cap Range(s[3]) = {}
                       /\ Range(s[2]) \cap Range(s[3]) = {}
           All(s) == Range(s[1]) \cup Range(s[2]) \cup Range(s[3]) = A \cup B
           J == {s \in D : Apart(s) /\ All(s)}
           start == <<<<>>, sings, listens, run>>
<1>1. ASSUME NEW s \in D
      PROVE  /\ s[1] \in Seq(A \cup B) /\ s[2] \in Seq(A) /\ s[3] \in Seq(B) /\ s[4] \in Nat
  BY DEF MergeStates, Enumerates
<1>2. ASSUME NEW s1 \in Seq(A \cup B), NEW s2 \in Seq(A), NEW s3 \in Seq(B), NEW s4 \in Nat
      PROVE  <<s1, s2, s3, s4>> \in D
  BY DEF MergeStates, Enumerates
<1>3. ASSUME NEW s \in D, s \notin stop, ListenNext(cap, s)
      PROVE  LET t == Played(cap, s)
             IN  /\ t \in D /\ mu[t] < mu[s]
                 /\ Apart(s) /\ All(s) => Apart(t) /\ All(t)
  <2> DEFINE t == Played(cap, s)
             o == s[1]
             x == s[2]
             y == s[3]
  <2>1. t = <<Append(o, Head(y)), x, Tail(y), s[4] + 1>>
    BY <1>3 DEF Played
  <2>2. o \in Seq(A \cup B) /\ x \in Seq(A) /\ y \in Seq(B) /\ s[4] \in Nat /\ y # <<>>
    BY <1>1, <1>3
  <2>3. t[1] = Append(o, Head(y)) /\ t[2] = x /\ t[3] = Tail(y)
    BY <2>1
  <2> HIDE DEF t, o, x, y
  <2>4. /\ Head(y) \in B /\ Tail(y) \in Seq(B) /\ Len(Tail(y)) = Len(y) - 1 /\ Len(y) \in Nat /\ Len(x) \in Nat
        /\ Range(y) = {Head(y)} \cup Range(Tail(y))
        /\ IsInjective(y) => Head(y) \notin Range(Tail(y)) /\ IsInjective(Tail(y))
    BY <2>2, HeadAndTail, TailProperties
  <2>5. /\ Append(o, Head(y)) \in Seq(A \cup B)
        /\ Range(Append(o, Head(y))) = Range(o) \cup {Head(y)}
        /\ IsInjective(o) /\ Head(y) \notin Range(o) => IsInjective(Append(o, Head(y)))
    <3>1. Head(y) \in A \cup B
      BY <2>4
    <3> QED
      BY <2>2, <3>1, AppendProperties
  <2>6. t \in D
    <3>1. s[4] + 1 \in Nat
      BY <2>2
    <3> QED
      BY <1>2, <2>1, <2>2, <2>4, <2>5, <3>1, Zenon
  <2>7. mu[t] < mu[s]
    <3>1. mu[t] = Len(x) + Len(Tail(y)) /\ mu[s] = Len(x) + Len(y)
      BY <2>3, <2>6 DEF x, y
    <3> HIDE DEF mu
    <3> QED
      BY <2>4, <3>1
  <2>8. Apart(s) /\ All(s) => Apart(t) /\ All(t)
    BY <2>3, <2>4, <2>5 DEF o, x, y
  <2> QED
    BY <2>6, <2>7, <2>8 DEF t
<1>4. ASSUME NEW s \in D, s \notin stop, ~ListenNext(cap, s)
      PROVE  LET t == Played(cap, s)
             IN  /\ t \in D /\ mu[t] < mu[s]
                 /\ Apart(s) /\ All(s) => Apart(t) /\ All(t)
  <2> DEFINE t == Played(cap, s)
             o == s[1]
             x == s[2]
             y == s[3]
  <2>1. t = <<Append(o, Head(x)), Tail(x), y, 0>>
    BY <1>4 DEF Played
  <2>2. o \in Seq(A \cup B) /\ x \in Seq(A) /\ y \in Seq(B) /\ x # <<>>
    BY <1>1, <1>4
  <2>3. t[1] = Append(o, Head(x)) /\ t[2] = Tail(x) /\ t[3] = y
    BY <2>1
  <2> HIDE DEF t, o, x, y
  <2>4. /\ Head(x) \in A /\ Tail(x) \in Seq(A) /\ Len(Tail(x)) = Len(x) - 1 /\ Len(y) \in Nat /\ Len(x) \in Nat
        /\ Range(x) = {Head(x)} \cup Range(Tail(x))
        /\ IsInjective(x) => Head(x) \notin Range(Tail(x)) /\ IsInjective(Tail(x))
    BY <2>2, HeadAndTail, TailProperties
  <2>5. /\ Append(o, Head(x)) \in Seq(A \cup B)
        /\ Range(Append(o, Head(x))) = Range(o) \cup {Head(x)}
        /\ IsInjective(o) /\ Head(x) \notin Range(o) => IsInjective(Append(o, Head(x)))
    BY <2>2, <2>4, AppendProperties
  <2>6. t \in D
    BY <1>2, <2>1, <2>2, <2>4, <2>5
  <2>7. mu[t] < mu[s]
    <3>1. mu[t] = Len(Tail(x)) + Len(y) /\ mu[s] = Len(x) + Len(y)
      BY <2>3, <2>6 DEF x, y
    <3> HIDE DEF mu
    <3> QED
      BY <2>4, <3>1
  <2>8. Apart(s) /\ All(s) => Apart(t) /\ All(t)
    BY <2>3, <2>4, <2>5 DEF o, x, y
  <2> QED
    BY <2>6, <2>7, <2>8 DEF t
<1> DEFINE loop == CHOOSE f : MergeLoop(f, sings, listens, cap)
<1>5. Loops(loop, D, stop, base, step)
  <2>1. \A s \in D \ stop : step[s] \in D
    BY <1>3, <1>4, Zenon
  <2>2. \A f : Loops(f, D, stop, base, step) <=> MergeLoop(f, sings, listens, cap)
    <3> TAKE f
    <3>1. \A s \in D : (IF s \in stop THEN base[s] ELSE f[step[s]])
                         = (IF s[2] = <<>> \/ s[3] = <<>> THEN Rest(s) ELSE f[Played(cap, s)])
      BY Zenon
    <3> HIDE DEF stop, base, step
    <3> QED
      BY <3>1, Zenon DEF Loops, MergeLoop
  <2> HIDE DEF D, stop, base, step
  <2>3. \E f : Loops(f, D, stop, base, step)
    BY <2>1, LoopExists
  <2> QED
    BY <2>2, <2>3, Zenon
<1>6. \A s \in J : mu[s] \in Nat
  <2> SUFFICES ASSUME NEW s \in D PROVE mu[s] \in Nat
    OBVIOUS
  <2> DEFINE x == Len(s[2])
             y == Len(s[3])
  <2>1. x \in Nat /\ y \in Nat
    BY <1>1
  <2>2. mu[s] = x + y
    BY Zenon
  <2> HIDE DEF x, y, mu
  <2> QED
    BY <2>1, <2>2
<1>7. \A s \in J \ stop : step[s] \in J /\ mu[step[s]] < mu[s]
  <2> SUFFICES ASSUME NEW s \in J, s \notin stop PROVE step[s] \in J /\ mu[step[s]] < mu[s]
    BY Zenon
  <2>1. step[s] = Played(cap, s)
    BY Zenon
  <2> HIDE DEF stop, mu, Apart, All, step, D
  <2> QED
    BY <1>3, <1>4, <2>1, Zenon
<1>8. start \in J
  <2>1. start \in D
    <3>1. sings \in Seq(A) /\ listens \in Seq(B) /\ <<>> \in Seq(A \cup B)
      BY DEF Enumerates
    <3> QED
      BY <1>2, <3>1
  <2>2. Range(<<>>) = {} /\ IsInjective(<<>>)
    BY DEF Range, IsInjective
  <2>3. start[1] = <<>> /\ start[2] = sings /\ start[3] = listens
    OBVIOUS
  <2> HIDE DEF start
  <2> QED
    BY <2>1, <2>2, <2>3 DEF Enumerates
<1>9. PICK t \in J \cap stop : loop[start] = base[t]
  <2>1. J \in SUBSET D
    OBVIOUS
  <2> HIDE DEF D, stop, base, step, loop, start, J, mu
  <2> QED
    BY <1>5, <1>6, <1>7, <1>8, <2>1, LoopEnds
<1> DEFINE r == Rest(t)
<1>10. /\ t[1] \in Seq(A \cup B) /\ t[2] \in Seq(A \cup B) /\ t[3] \in Seq(A \cup B)
       /\ Apart(t) /\ All(t) /\ (t[2] = <<>> \/ t[3] = <<>>)
  BY <1>1, <1>9
<1>11. Enumerates(r, A \cup B)
  <2>1. Range(<<>>) = {}
    BY DEF Range
  <2>2. CASE t[2] = <<>>
    <3>1. r = t[1] \o t[3]
      BY <2>2 DEF Rest
    <3>2. /\ r \in Seq(A \cup B) /\ Range(r) = Range(t[1]) \cup Range(t[3])
          /\ IsInjective(r)
      BY <1>10, <3>1, ConcatProperties
    <3> QED
      BY <1>10, <2>1, <2>2, <3>2 DEF Enumerates
  <2>3. CASE t[2] # <<>>
    <3>1. r = t[1] \o t[2]
      BY <2>3 DEF Rest
    <3>2. /\ r \in Seq(A \cup B) /\ Range(r) = Range(t[1]) \cup Range(t[2])
          /\ IsInjective(r)
      BY <1>10, <3>1, ConcatProperties
    <3>3. t[3] = <<>>
      BY <1>10, <2>3
    <3> QED
      BY <1>10, <2>1, <3>2, <3>3 DEF Enumerates
  <2> QED
    BY <2>2, <2>3
<1>12. MergeListens(sings, listens, cap, run) = r
  <2>1. loop[start] = r
    BY <1>9
  <2> QED
    BY <2>1, MergeListensIsALoop, Zenon
<1> QED
  BY <1>11, <1>12, Zenon

\* The effective order of a set of entries is a list of each of them once.
LEMMA OrderKeeps ==
  ASSUME NEW m, NEW entries, Numbered(entries), NEW lastSang \in [GroupKeys -> Int],
         NEW cap, NEW run \in Nat
  PROVE  Enumerates(GetEffectiveOrder(m, entries, lastSang, cap, run), entries)
<1> DEFINE A == QueuedSings(entries)
           B == entries \ A
           x == RoundRobin(m, A, lastSang)
           y == SortedBy(SubmittedBefore, B)
<1>1. A \in SUBSET entries /\ B \in SUBSET entries /\ A \cup B = entries /\ A \cap B = {}
  BY DEF QueuedSings
<1> HIDE DEF A, B
<1>2. Numbered(A) /\ Numbered(B)
  <2>1. IsFiniteSet(A) /\ IsFiniteSet(B)
    BY <1>1, FS_Subset DEF Numbered
  <2> QED
    BY <1>1, <2>1 DEF Numbered
<1>3. Enumerates(x, A)
  BY <1>2, RoundRobinKeeps
<1>4. Enumerates(y, B)
  <2> DEFINE R == BySubmission(B)
             n == Cardinality(B)
  <2>1. Orders(R, B) /\ IsFiniteSet(B)
    BY <1>2, SubmissionOrders DEF Numbered
  <2>2. \A e \in B : Preceding(R, B, e) = {f \in B : SubmittedBefore(f, e)}
    BY DEF Preceding, BySubmission
  <2>3. y = [i \in 1..n |-> CHOOSE e \in B : Cardinality({f \in B : SubmittedBefore(f, e)}) = i - 1]
    BY DEF SortedBy
  <2> HIDE DEF R, y
  <2>4. \A i \in 1..n : \E e \in B : Cardinality(Preceding(R, B, e)) = i - 1
    BY <2>1, RanksOfOrder
  <2>5. \A i \in 1..n : y[i] \in B /\ Cardinality({f \in B : SubmittedBefore(f, y[i])}) = i - 1
    <3> TAKE i \in 1..n
    <3>1. PICK e \in B : Cardinality(Preceding(R, B, e)) = i - 1
      BY <2>4
    <3>2. Cardinality({f \in B : SubmittedBefore(f, e)}) = i - 1
      BY <2>2, <3>1
    <3>3. y[i] = CHOOSE d \in B : Cardinality({f \in B : SubmittedBefore(f, d)}) = i - 1
      BY <2>3
    <3> QED
      BY <3>2, <3>3, Zenon
  <2>6. y \in [1..n -> B] /\ \A i \in 1..n : Cardinality(Preceding(R, B, y[i])) = i - 1
    BY <2>2, <2>3, <2>5
  <2> QED
    BY <2>1, <2>6, RankedList
<1>5. GetEffectiveOrder(m, entries, lastSang, cap, run) = MergeListens(x, y, cap, run)
  BY DEF GetEffectiveOrder, A, B
<1> HIDE DEF x, y
<1>6. Enumerates(MergeListens(x, y, cap, run), A \cup B)
  BY <1>1, <1>3, <1>4, MergeListensKeeps, Zenon
<1> QED
  BY <1>1, <1>5, <1>6, Zenon

-----------------------------------------------------------------------------
(* The order of a queue has the entries of the queue.                      *)

QueueEntry == [id : Ids, uuid : Participants, table : Tables \cup {NoTable}, video : Int,
               kind : Kinds, at : Int, grace : BOOLEAN]

\* A list sorted by time takes its items by their places: to the k-th, k - 1 are earlier.
Earlier(s, i, j) == s[i].at < s[j].at \/ (s[i].at = s[j].at /\ i < j)
Places(s, index) ==
  /\ Enumerates(index, 1..Len(s)) /\ index \in [1..Len(s) -> 1..Len(s)]
  /\ \A k \in 1..Len(s) : Cardinality({j \in 1..Len(s) : Earlier(s, j, index[k])}) = k - 1
  /\ SortedByTime(s) = [k \in 1..Len(s) |-> s[index[k]]]

LEMMA SortedPlaces ==
  ASSUME NEW S, NEW s \in Seq(S), \A x \in S : x.at \in Int
  PROVE  \E index : Places(s, index)
<1> DEFINE n == Len(s)
           E(i, j) == Earlier(s, i, j)
           R == {p \in (1..n) \X (1..n) : E(p[1], p[2])}
           index == SortedBy(E, DOMAIN s)
<1>1. n \in Nat /\ DOMAIN s = 1..n /\ \A i \in 1..n : i \in Int /\ s[i] \in S /\ s[i].at \in Int
  OBVIOUS
<1>2. IsFiniteSet(1..n) /\ Cardinality(1..n) = n
  <2> HIDE DEF n
  <2> QED
    BY <1>1, FS_Interval
<1>3. \A i, j \in 1..n : <<i, j>> \in R <=> E(i, j)
  OBVIOUS
<1>4. Orders(R, 1..n)
  <2> HIDE DEF R
  <2> QED
    BY <1>1, <1>3, SMTT(30) DEF Orders, Earlier
<1>5. \A i \in 1..n : Preceding(R, 1..n, i) = {j \in 1..n : E(j, i)}
  BY DEF Preceding
<1>6. index = [k \in 1..n |-> CHOOSE i \in 1..n : Cardinality({j \in 1..n : E(j, i)}) = k - 1]
  BY <1>1, <1>2 DEF SortedBy
<1>7. SortedByTime(s) = [k \in 1..n |-> s[index[k]]]
  BY <1>1 DEF SortedByTime, Earlier
<1> HIDE DEF E, R, index
<1>8. \A k \in 1..n : index[k] \in 1..n /\ Cardinality({j \in 1..n : E(j, index[k])}) = k - 1
  <2> TAKE k \in 1..n
  <2>1. PICK i \in 1..n : Cardinality(Preceding(R, 1..n, i)) = k - 1
    BY <1>2, <1>4, RanksOfOrder
  <2>2. Cardinality({j \in 1..n : E(j, i)}) = k - 1
    BY <1>5, <2>1
  <2>3. index[k] = CHOOSE d \in 1..n : Cardinality({j \in 1..n : E(j, d)}) = k - 1
    BY <1>6
  <2> QED
    BY <2>2, <2>3, Zenon
<1>9. index \in [1..n -> 1..n] /\ \A k \in 1..n : Cardinality(Preceding(R, 1..n, index[k])) = k - 1
  BY <1>5, <1>6, <1>8
<1>10. Enumerates(index, 1..n)
  BY <1>2, <1>4, <1>9, RankedList
<1>11. Places(s, index)
  BY <1>7, <1>8, <1>9, <1>10 DEF Places, E
<1> QED
  BY <1>11

\* Sorting a list by time keeps its items.
LEMMA SortedByTimeKeeps ==
  ASSUME NEW S, NEW s \in Seq(S), \A x \in S : x.at \in Int
  PROVE  SortedByTime(s) \in Seq(S) /\ Range(SortedByTime(s)) = Range(s)
<1> DEFINE n == Len(s)
<1>1. n \in Nat /\ DOMAIN s = 1..n /\ \A i \in 1..n : i \in Int /\ s[i] \in S
  OBVIOUS
<1>2. PICK index : Places(s, index)
  BY SortedPlaces
<1>3. /\ Enumerates(index, 1..n) /\ index \in [1..n -> 1..n]
      /\ SortedByTime(s) = [k \in 1..n |-> s[index[k]]]
  BY <1>2 DEF Places
<1> HIDE DEF n
<1>4. SortedByTime(s) \in Seq(S)
  BY <1>1, <1>3
<1>5. Range(SortedByTime(s)) = Range(s)
  <2>1. \A x \in Range(SortedByTime(s)) : x \in Range(s)
    BY <1>1, <1>3 DEF Range
  <2>2. ASSUME NEW i \in 1..n PROVE s[i] \in Range(SortedByTime(s))
    <3>1. PICK k \in 1..n : index[k] = i
      BY <1>3 DEF Enumerates, Range
    <3> QED
      BY <1>3, <3>1 DEF Range
  <2> QED
    BY <1>1, <2>1, <2>2 DEF Range
<1> QED
  BY <1>4, <1>5

LEMMA EngineEntriesOf ==
  ASSUME NEW s \in Seq(QueueEntry)
  PROVE  Numbered(EngineEntries(s)) /\ {e.id : e \in EngineEntries(s)} = IdsOf(s)
<1> DEFINE f == [i \in 1..Len(s) |->
                   [id |-> s[i].id, uuid |-> s[i].uuid, table |-> s[i].table, video |-> s[i].video,
                    kind |-> s[i].kind, grace |-> s[i].grace, seq |-> i]]
<1>1. Len(s) \in Nat /\ DOMAIN s = 1..Len(s) /\ \A i \in 1..Len(s) : i \in Int /\ s[i] \in QueueEntry
  OBVIOUS
<1>2. EngineEntries(s) = {f[i] : i \in 1..Len(s)}
  BY <1>1 DEF EngineEntries
<1>3. \A i \in 1..Len(s) : f[i] \in EngineEntry /\ f[i].seq = i /\ f[i].id = s[i].id
  <2> TAKE i \in 1..Len(s)
  <2>1. f[i] \in EngineEntry
    BY <1>1 DEF QueueEntry, EngineEntry, Ids
  <2> QED
    BY <2>1
<1> HIDE DEF f
<1>4. IsFiniteSet(1..Len(s))
  BY <1>1, FS_Interval
<1>5. IsFiniteSet(EngineEntries(s))
  BY <1>2, <1>4, ImageIsFinite
<1>6. Numbered(EngineEntries(s))
  BY <1>2, <1>3, <1>5 DEF Numbered
<1>7. {e.id : e \in EngineEntries(s)} = {s[i].id : i \in 1..Len(s)}
  BY <1>2, <1>3
<1>8. IdsOf(s) = {s[i].id : i \in 1..Len(s)}
  BY <1>1 DEF IdsOf, Range
<1> QED
  BY <1>6, <1>7, <1>8

\* The entry that a map by id finds is one with that id.
LEMMA ByIdFinds ==
  ASSUME NEW S, NEW s \in Seq(S), NEW id \in IdsOf(s)
  PROVE  ById(s, id) \in Range(s) /\ ById(s, id).id = id
<1> DEFINE at == {i \in DOMAIN s : s[i].id = id}
<1>1. Len(s) \in Nat /\ DOMAIN s = 1..Len(s)
  OBVIOUS
<1>2. at \in SUBSET Int /\ at # {} /\ at \in SUBSET (1..Len(s))
  BY <1>1 DEF IdsOf, Range
<1>3. IsFiniteSet(at)
  <2> DEFINE n == Len(s)
  <2>1. n \in Nat
    OBVIOUS
  <2> HIDE DEF n, at
  <2>2. IsFiniteSet(1..n)
    BY <2>1, FS_Interval
  <2> QED
    BY <1>2, <2>2, FS_Subset DEF n
<1>4. MaxOf(at) \in at
  BY <1>2, <1>3, MaxOfSet
<1> QED
  BY <1>4 DEF ById, Range

LEMMA SeedIsCredit ==
  ASSUME NEW e \in QueueEntry
  PROVE  SeedFromNowPlaying(e) \in [GroupKeys -> Int]
<1> DEFINE a == PersonKey(e)
           b == TableBucket(e)
<1>1. NeverSang \in [GroupKeys -> Int]
  BY DEF NeverSang
<1> HIDE DEF a, b
<1>2. ASSUME NEW f \in [GroupKeys -> Int], NEW k, NEW n \in Int
      PROVE  [f EXCEPT ![k] = n] \in [GroupKeys -> Int]
  OBVIOUS
<1>3. [NeverSang EXCEPT ![a] = 0, ![b] = 0] \in [GroupKeys -> Int]
  <2>1. 0 \in Int
    OBVIOUS
  <2> QED
    BY <1>1, <1>2, <2>1, Zenon
<1> QED
  BY <1>1, <1>3, Zenon DEF SeedFromNowPlaying, a, b

\* orderQueue neither loses nor adds an id, and every entry it returns is one that it
\* was given.
LEMMA OrderQueueKeeps ==
  ASSUME NEW items \in Seq(QueueEntry), NEW m
  PROVE  /\ OrderQueue(items, m) \in Seq(QueueEntry)
         /\ Range(OrderQueue(items, m)) \subseteq Range(items)
         /\ IdsOf(OrderQueue(items, m)) = IdsOf(items)
<1>1. CASE Len(items) <= 1
  BY <1>1 DEF OrderQueue
<1>2. CASE ~(Len(items) <= 1)
  <2> DEFINE pending == Tail(items)
             E == EngineEntries(SortedByTime(pending))
             order == GetEffectiveOrder(m, E, SeedFromNowPlaying(Head(items)), 0, 0)
             r == [i \in DOMAIN order |-> ById(pending, order[i].id)]
  <2>1. items # <<>> /\ pending \in Seq(QueueEntry) /\ Head(items) \in QueueEntry
        /\ Range(items) = {Head(items)} \cup Range(pending)
    BY <1>2, HeadAndTail, TailProperties
  <2>2. SortedByTime(pending) \in Seq(QueueEntry) /\ Range(SortedByTime(pending)) = Range(pending)
    <3>1. \A x \in QueueEntry : x.at \in Int
      BY DEF QueueEntry
    <3> HIDE DEF pending
    <3> QED
      BY <2>1, <3>1, SortedByTimeKeeps
  <2>3. Numbered(E) /\ {e.id : e \in E} = IdsOf(pending)
    <3>1. Numbered(E) /\ {e.id : e \in E} = IdsOf(SortedByTime(pending))
      BY <2>2, EngineEntriesOf
    <3>2. IdsOf(SortedByTime(pending)) = IdsOf(pending)
      BY <2>2 DEF IdsOf
    <3> QED
      BY <3>1, <3>2
  <2> HIDE DEF E
  <2>4. Enumerates(order, E)
    BY <2>1, <2>3, SeedIsCredit, OrderKeeps
  <2>5. OrderQueue(items, m) = <<Head(items)>> \o r
    BY <1>2 DEF OrderQueue, E
  <2> HIDE DEF order, pending
  <2>6. order \in Seq(E) /\ Range(order) = E
    BY <2>4 DEF Enumerates
  <2>7. DOMAIN order = 1..Len(order) /\ Len(order) \in Nat /\ \A i \in DOMAIN order : order[i] \in E
    BY <2>6
  <2>8. \A i \in DOMAIN order : r[i] \in Range(pending) /\ r[i].id = order[i].id
    <3> SUFFICES ASSUME NEW i \in DOMAIN order
                 PROVE  ById(pending, order[i].id) \in Range(pending) /\ ById(pending, order[i].id).id = order[i].id
      OBVIOUS
    <3>1. order[i].id \in IdsOf(pending)
      BY <2>3, <2>7
    <3> QED
      BY <2>1, <3>1, ByIdFinds
  <2>9. Range(pending) \subseteq QueueEntry
    BY <2>1 DEF Range
  <2>10. r \in Seq(QueueEntry) /\ DOMAIN r = DOMAIN order
    BY <2>7, <2>8, <2>9
  <2> HIDE DEF r
  <2>11. Range(r) \subseteq Range(pending) /\ IdsOf(r) = IdsOf(pending)
    <3>1. Range(r) \subseteq Range(pending)
      BY <2>8, <2>10 DEF Range
    <3>2. \A e \in E : \E i \in DOMAIN order : order[i] = e
      BY <2>6 DEF Range
    <3>3. IdsOf(r) = {e.id : e \in E}
      BY <2>7, <2>8, <2>10, <3>2 DEF IdsOf, Range
    <3> QED
      BY <2>3, <3>1, <3>3
  <2>12. <<Head(items)>> \in Seq(QueueEntry) /\ Range(<<Head(items)>>) = {Head(items)}
    BY <2>1 DEF Range
  <2>13. /\ <<Head(items)>> \o r \in Seq(QueueEntry)
         /\ Range(<<Head(items)>> \o r) = {Head(items)} \cup Range(r)
    <3> DEFINE h == <<Head(items)>>
    <3>1. h \in Seq(QueueEntry) /\ Range(h) = {Head(items)}
      BY <2>12
    <3> HIDE DEF h
    <3>2. h \o r \in Seq(QueueEntry) /\ Range(h \o r) = Range(h) \cup Range(r)
      BY <2>10, <3>1, ConcatProperties
    <3> QED
      BY <3>1, <3>2 DEF h
  <2> QED
    BY <2>1, <2>5, <2>11, <2>13, ZenonT(40) DEF IdsOf
<1> QED
  BY <1>1, <1>2

-----------------------------------------------------------------------------
(* What the writes of a list keep.                                         *)

LEMMA SeqOfRange ==
  ASSUME NEW S, NEW T, NEW s \in Seq(S), Range(s) \subseteq T
  PROVE  s \in Seq(T)
<1>1. Len(s) \in Nat /\ DOMAIN s = 1..Len(s) /\ s = [i \in 1..Len(s) |-> s[i]]
  OBVIOUS
<1>2. \A i \in 1..Len(s) : s[i] \in T
  BY <1>1 DEF Range
<1> QED
  BY <1>1, <1>2

LEMMA OutsideKeeps ==
  ASSUME NEW S, NEW s \in Seq(S), NEW ids
  PROVE  /\ Outside(s, ids) \in Seq(S)
         /\ Range(Outside(s, ids)) \subseteq Range(s)
         /\ IdsOf(Outside(s, ids)) = IdsOf(s) \ ids
<1> DEFINE T == {e \in Range(s) : e.id \notin ids}
<1>1. Outside(s, ids) = Kept(s, T)
  BY DEF Outside
<1>2. Kept(s, T) \in Seq(S) /\ Range(Kept(s, T)) = Range(s) \cap T
  BY KeptProperties
<1>3. Range(Kept(s, T)) = T
  BY <1>2
<1>4. IdsOf(Kept(s, T)) = IdsOf(s) \ ids
  BY <1>3 DEF IdsOf
<1> QED
  BY <1>1, <1>2, <1>3, <1>4

\* A merge keeps what both lists have and what arrived since, and adds nothing.
LEMMA MergeKeeps ==
  ASSUME NEW S, NEW current \in Seq(S), NEW desired \in Seq(S), NEW snap
  PROVE  LET merged == Merge(current, desired, snap)
         IN  /\ merged \in Seq(S)
             /\ Range(merged) \subseteq Range(current) \cup Range(desired)
             /\ IdsOf(merged) = (IdsOf(desired) \cap IdsOf(current)) \cup (IdsOf(current) \ snap)
<1> DEFINE T == {e \in Range(desired) : e.id \in IdsOf(current)}
           a == Kept(desired, T)
           b == Outside(current, snap)
<1>1. Merge(current, desired, snap) = a \o b
  BY DEF Merge
<1>2. a \in Seq(S) /\ Range(a) = Range(desired) \cap T
  BY KeptProperties
<1>3. b \in Seq(S) /\ Range(b) \subseteq Range(current) /\ IdsOf(b) = IdsOf(current) \ snap
  BY OutsideKeeps
<1>4. Range(a) \subseteq Range(desired) /\ IdsOf(a) = IdsOf(desired) \cap IdsOf(current)
  BY <1>2 DEF IdsOf
<1> HIDE DEF a, b
<1>5. a \o b \in Seq(S) /\ Range(a \o b) = Range(a) \cup Range(b)
  BY <1>2, <1>3, ConcatProperties
<1>6. IdsOf(a \o b) = IdsOf(a) \cup IdsOf(b)
  BY <1>5 DEF IdsOf
<1> QED
  BY <1>1, <1>3, <1>4, <1>5, <1>6

\* Moving the first entry with an id keeps the entries.
First(s, id) == CHOOSE i \in DOMAIN s : s[i].id = id /\ \A j \in 1..(i - 1) : s[j].id # id
Moved(s, i, k) ==
  LET rest == SubSeq(s, 1, i - 1) \o SubSeq(s, i + 1, Len(s))
  IN  SubSeq(rest, 1, k) \o <<s[i]>> \o SubSeq(rest, k + 1, Len(rest))

LEMMA FirstIsThere ==
  ASSUME NEW S, NEW s \in Seq(S), NEW id \in IdsOf(s)
  PROVE  First(s, id) \in DOMAIN s
<1> DEFINE N == {i \in 1..Len(s) : s[i].id = id}
<1>1. Len(s) \in Nat /\ DOMAIN s = 1..Len(s)
  OBVIOUS
<1>2. N \in SUBSET Nat /\ N # {}
  BY <1>1 DEF IdsOf, Range
<1>3. PICK i \in N : \A j \in N : i <= j
  <2> HIDE DEF N
  <2> QED
    BY <1>2, LeastNumber
<1>4. \A j \in 1..(i - 1) : s[j].id # id
  BY <1>1, <1>3
<1>5. i \in DOMAIN s /\ s[i].id = id
  BY <1>1, <1>3
<1> QED
  BY <1>4, <1>5, Zenon DEF First

LEMMA MovedKeeps ==
  ASSUME NEW S, NEW s \in Seq(S), NEW i \in DOMAIN s, NEW k \in 0..(Len(s) - 1)
  PROVE  Moved(s, i, k) \in Seq(S) /\ Range(Moved(s, i, k)) = Range(s)
<1> DEFINE a == SubSeq(s, 1, i - 1)
           b == SubSeq(s, i + 1, Len(s))
           rest == a \o b
           c == SubSeq(rest, 1, k)
           d == SubSeq(rest, k + 1, Len(rest))
<1>1. Len(s) \in Nat /\ DOMAIN s = 1..Len(s) /\ i \in 1..Len(s) /\ s[i] \in S
  OBVIOUS
<1>2. /\ a \in Seq(S) /\ Len(a) = i - 1 /\ DOMAIN a = 1..(i - 1)
      /\ \A j \in 1..(i - 1) : j \in DOMAIN s /\ a[j] = s[j]
  BY <1>1
<1>3. b \in Seq(S) /\ Len(b) = Len(s) - i
  BY <1>1
<1>4. Range(s) = Range(a) \cup Range(b) \cup {s[i]}
  <2> DEFINE f == SubSeq(s, 1, i)
  <2>1. i \in 0..Len(s)
    BY <1>1
  <2>2. Range(f) \cup Range(b) = Range(s)
    BY <2>1, SubSeqProperties
  <2>3. DOMAIN f = 1..i /\ \A j \in 1..i : f[j] = s[j]
    BY <1>1
  <2> HIDE DEF f, a, b
  <2>4. Range(f) = Range(a) \cup {s[i]}
    <3>1. 1..i = (1..(i - 1)) \cup {i}
      BY <1>1
    <3> QED
      BY <1>2, <2>3, <3>1 DEF Range
  <2> QED
    BY <2>2, <2>4
<1> HIDE DEF a, b
<1>5. rest \in Seq(S) /\ Range(rest) = Range(a) \cup Range(b) /\ k \in 0..Len(rest)
  <2>1. rest \in Seq(S) /\ Range(rest) = Range(a) \cup Range(b)
    BY <1>2, <1>3, ConcatProperties
  <2>2. Len(rest) = Len(a) + Len(b)
    <3>1. a \in Seq(S) /\ b \in Seq(S)
      BY <1>2, <1>3
    <3> QED
      BY <3>1
  <2>3. Len(a) + Len(b) = Len(s) - 1
    BY <1>1, <1>2, <1>3
  <2>4. Len(rest) = Len(s) - 1
    BY <2>2, <2>3
  <2> QED
    BY <2>1, <2>4
<1> HIDE DEF rest
<1>6. c \in Seq(S) /\ d \in Seq(S) /\ Range(c) \cup Range(d) = Range(rest)
  BY <1>5, SubSeqProperties
<1> HIDE DEF c, d
<1> DEFINE x == <<s[i]>>
<1>7. x \in Seq(S) /\ Range(x) = {s[i]}
  BY <1>1 DEF Range
<1> HIDE DEF x
<1>8. c \o x \in Seq(S) /\ Range(c \o x) = Range(c) \cup Range(x)
  BY <1>6, <1>7, ConcatProperties
<1> DEFINE y == c \o x
<1>9. y \in Seq(S) /\ Range(y) = Range(c) \cup {s[i]}
  BY <1>7, <1>8
<1>10. Moved(s, i, k) = y \o d
  BY DEF Moved, c, d, x, rest, a, b
<1> HIDE DEF y
<1>11. y \o d \in Seq(S) /\ Range(y \o d) = Range(y) \cup Range(d)
  BY <1>6, <1>9, ConcatProperties
<1> QED
  BY <1>4, <1>5, <1>6, <1>9, <1>10, <1>11

-----------------------------------------------------------------------------
(* The invariant.                                                          *)

\* The ids given out so far, and the entries that were made up to the time c.
Given == Len(Opening) + MaxSubmits - budget.submits
MadeBy(c) == {e \in QueueEntry : e.at \in 1..c}

Labels == {"idle", "check", "add", "push", "mode", "relay", "relayApply",
           "removeHead", "removeHeadApply", "removeApply", "reorderApply"}
Locals(c) == [entry : MadeBy(c) \cup {<<>>}, mode : VenueModes,
              want : Seq(MadeBy(c)), snap : SUBSET Ids]

\* A handler at p with the locals l is about a song that is not pushed yet, or about a
\* no-show.
Submits(p, l) == p = "check" \/ (p \in {"add", "push"} /\ ~l.entry.grace)
Resubmits(p, l) ==
  p \in {"removeHead", "removeHeadApply"} \/ (p \in {"add", "push"} /\ l.entry.grace)

\* What it knows: its own entry, pushed or not yet, and a list for each id it read.
HandlerIsSound(p, l, c, n, pushed) ==
  /\ p \in Labels /\ l \in Locals(c) /\ l.snap \subseteq pushed
  /\ Submits(p, l) \/ Resubmits(p, l) => l.entry \in MadeBy(c) /\ l.entry.id \in 1..n
  /\ p = "check" => ~l.entry.grace
  /\ Submits(p, l) => l.entry.id \notin pushed
  /\ Resubmits(p, l) => l.entry.id \in pushed
  /\ p \in {"relayApply", "reorderApply"} => l.snap \subseteq IdsOf(l.want)
  /\ p = "removeHeadApply" => l.snap \subseteq IdsOf(l.want) \cup {l.entry.id}

TypeInv ==
  /\ mode \in Modes /\ clock \in Nat /\ queue \in Seq(MadeBy(clock))
  /\ DOMAIN pc = Handlers /\ DOMAIN local = Handlers
  /\ budget \in [submits : 0..MaxSubmits, skips : Nat, edits : Nat]
  /\ IdsOf(queue) \subseteq acked /\ acked \subseteq 1..Given
  /\ gone \subseteq acked /\ uncapped \subseteq acked

HandlersAreSound == \A h \in Handlers : HandlerIsSound(pc[h], local[h], clock, Given, acked)

\* No two handlers submit one song.
SongsAreApart ==
  \A g, h \in Handlers :
    Submits(pc[g], local[g]) /\ Submits(pc[h], local[h]) /\ g # h
      => local[g].entry.id # local[h].entry.id

Inv == TypeInv /\ HandlersAreSound /\ SongsAreApart /\ NoSubmissionLost


LEMMA LocalsGrow ==
  ASSUME NEW c \in Nat, NEW d \in Nat, c <= d
  PROVE  MadeBy(c) \subseteq MadeBy(d) /\ Locals(c) \subseteq Locals(d)
<1>1. MadeBy(c) \subseteq MadeBy(d)
  BY DEF MadeBy
<1>2. Seq(MadeBy(c)) \subseteq Seq(MadeBy(d))
  <2> SUFFICES ASSUME NEW s \in Seq(MadeBy(c)) PROVE s \in Seq(MadeBy(d))
    OBVIOUS
  <2>1. Range(s) \subseteq MadeBy(d)
    BY <1>1 DEF Range
  <2> QED
    BY <2>1, SeqOfRange
<1>3. SUFFICES ASSUME NEW l \in Locals(c) PROVE l \in Locals(d)
  BY <1>1
<1>4. /\ l = [entry |-> l.entry, mode |-> l.mode, want |-> l.want, snap |-> l.snap]
      /\ l.entry \in MadeBy(c) \cup {<<>>} /\ l.mode \in VenueModes
      /\ l.want \in Seq(MadeBy(c)) /\ l.snap \in SUBSET Ids
  BY DEF Locals
<1> QED
  BY <1>1, <1>2, <1>4, Zenon DEF Locals

\* What a handler knows stays true while others work, unless another pushes its song.
LEMMA SoundLater ==
  ASSUME NEW p, NEW l, NEW c \in Nat, NEW d \in Nat, c <= d, NEW n \in Nat, NEW k \in Nat, n <= k,
         NEW P, NEW Q, P \subseteq Q, HandlerIsSound(p, l, c, n, P),
         Submits(p, l) => l.entry.id \notin Q
  PROVE  HandlerIsSound(p, l, d, k, Q)
<1>1. MadeBy(c) \subseteq MadeBy(d) /\ Locals(c) \subseteq Locals(d)
  BY LocalsGrow
<1>2. 1..n \subseteq 1..k
  OBVIOUS
<1> QED
  BY <1>1, <1>2, Zenon DEF HandlerIsSound

OthersStay(h) == \A g \in Handlers \ {h} : pc'[g] = pc[g] /\ local'[g] = local[g]

\* A step of one handler leaves the others sound, if it pushes none of their songs and
\* takes none of them up.
LEMMA StepOfOne ==
  ASSUME NEW h \in Handlers, OthersStay(h), HandlersAreSound, SongsAreApart,
         clock \in Nat, clock' \in Nat, clock <= clock',
         Given \in Nat, Given' \in Nat, Given <= Given', acked \subseteq acked',
         \A g \in Handlers \ {h} :
           Submits(pc[g], local[g]) => local[g].entry.id \notin acked',
         Submits(pc'[h], local'[h]) =>
           \A g \in Handlers \ {h} :
             Submits(pc[g], local[g]) => local[g].entry.id # local'[h].entry.id,
         HandlerIsSound(pc'[h], local'[h], clock', Given', acked')
  PROVE  HandlersAreSound' /\ SongsAreApart'
<1>1. HandlersAreSound'
  <2> SUFFICES ASSUME NEW g \in Handlers
               PROVE  HandlerIsSound(pc'[g], local'[g], clock', Given', acked')
    BY Zenon DEF HandlersAreSound
  <2>1. CASE g = h
    BY <2>1, Zenon
  <2>2. CASE g # h
    <3>1. pc'[g] = pc[g] /\ local'[g] = local[g] /\ HandlerIsSound(pc[g], local[g], clock, Given, acked)
      BY <2>2, Zenon DEF OthersStay, HandlersAreSound
    <3>2. Submits(pc[g], local[g]) => local[g].entry.id \notin acked'
      BY <2>2, Zenon
    <3>3. HandlerIsSound(pc[g], local[g], clock', Given', acked')
      BY <3>1, <3>2, SoundLater
    <3> QED
      BY <3>1, <3>3, Zenon
  <2> QED
    BY <2>1, <2>2
<1>2. SongsAreApart'
  <2> SUFFICES ASSUME NEW f \in Handlers, NEW g \in Handlers, f # g,
                      Submits(pc'[f], local'[f]), Submits(pc'[g], local'[g])
               PROVE  local'[f].entry.id # local'[g].entry.id
    BY Zenon DEF SongsAreApart
  <2>1. CASE f = h
    BY <2>1, Zenon DEF OthersStay
  <2>2. CASE g = h
    BY <2>2, Zenon DEF OthersStay
  <2>3. CASE f # h /\ g # h
    BY <2>3, ZenonT(40) DEF OthersStay, SongsAreApart
  <2> QED
    BY <2>1, <2>2, <2>3
<1> QED
  BY <1>1, <1>2

\* A no-show in another's hand stays there.
LEMMA HandKeeps ==
  ASSUME NEW h \in Handlers, OthersStay(h), NEW i \in InHand,
         ~(pc[h] \in {"add", "push"} /\ local[h].entry.grace /\ i = local[h].entry.id)
  PROVE  i \in InHand'
<1>1. PICK g \in Handlers : pc[g] \in {"add", "push"} /\ local[g].entry.grace /\ i = local[g].entry.id
  BY Zenon DEF InHand
<1>2. g # h
  BY <1>1, Zenon
<1> QED
  BY <1>1, <1>2, Zenon DEF InHand, OthersStay

LEMMA HandTakes ==
  ASSUME NEW h \in Handlers, pc'[h] \in {"add", "push"}, local'[h].entry.grace
  PROVE  local'[h].entry.id \in InHand'
BY Zenon DEF InHand


-----------------------------------------------------------------------------
(* The invariant holds at the start, and every step keeps it.              *)

OpeningEntries == [i \in DOMAIN Opening |-> Entry(Opening[i], i, i)]

LEMMA OpeningIsQueued ==
  ASSUME NEW m
  PROVE  /\ OrderQueue(OpeningEntries, m) \in Seq(MadeBy(Len(Opening)))
         /\ Range(OrderQueue(OpeningEntries, m)) \subseteq Range(OpeningEntries)
         /\ IdsOf(OrderQueue(OpeningEntries, m)) = 1..Len(Opening)
<1> DEFINE n == Len(Opening)
<1>1. n \in Nat /\ DOMAIN Opening = 1..n /\ MaxSubmits \in Nat
      /\ \A i \in 1..n : i \in Int /\ i > 0 /\ Opening[i] \in Song
  BY SongsAssumption, BoundsAssumption
<1> HIDE DEF n
<1>2. \A i \in 1..n : i \in Ids
  BY <1>1 DEF Ids, n
<1>3. \A i \in 1..n : Entry(Opening[i], i, i) \in QueueEntry
  BY <1>1, <1>2 DEF Entry, Song, QueueEntry
<1>4. OpeningEntries \in Seq(QueueEntry) /\ DOMAIN OpeningEntries = 1..n
      /\ \A i \in 1..n : OpeningEntries[i] = Entry(Opening[i], i, i)
  BY <1>1, <1>3 DEF OpeningEntries
<1>5. \A i \in 1..n : OpeningEntries[i].id = i /\ OpeningEntries[i].at = i
  BY <1>4 DEF Entry
<1>6. IdsOf(OpeningEntries) = 1..n
  BY <1>4, <1>5 DEF IdsOf, Range
<1>7. Range(OpeningEntries) \subseteq MadeBy(n)
  BY <1>1, <1>3, <1>4, <1>5 DEF MadeBy, Range
<1> HIDE DEF OpeningEntries
<1>8. /\ OrderQueue(OpeningEntries, m) \in Seq(QueueEntry)
      /\ Range(OrderQueue(OpeningEntries, m)) \subseteq Range(OpeningEntries)
      /\ IdsOf(OrderQueue(OpeningEntries, m)) = IdsOf(OpeningEntries)
  BY <1>4, OrderQueueKeeps, Zenon
<1>9. OrderQueue(OpeningEntries, m) \in Seq(MadeBy(n))
  <2> DEFINE o == OrderQueue(OpeningEntries, m)
  <2>1. o \in Seq(QueueEntry) /\ Range(o) \subseteq MadeBy(n)
    BY <1>7, <1>8
  <2> HIDE DEF o
  <2>2. o \in Seq(MadeBy(n))
    BY <2>1, SeqOfRange
  <2> QED
    BY <2>2 DEF o
<1> QED
  BY <1>6, <1>8, <1>9 DEF n

LEMMA InitEstablishes == Init => Inv
<1> SUFFICES ASSUME Init PROVE Inv
  OBVIOUS
<1>1. /\ Len(Opening) \in Nat /\ DOMAIN Opening = 1..Len(Opening)
      /\ MaxSubmits \in Nat /\ MaxSkips \in Nat /\ MaxEdits \in Nat
  BY SongsAssumption, BoundsAssumption
<1>2. /\ queue = OrderQueue(OpeningEntries, mode) /\ clock = Len(Opening)
      /\ acked = 1..Len(Opening)
  BY <1>1, Zenon DEF Init, OpeningEntries
<1>3. queue \in Seq(MadeBy(clock)) /\ IdsOf(queue) = acked
  BY <1>2, OpeningIsQueued
<1>4. /\ mode \in Modes /\ gone = {} /\ uncapped \subseteq acked
      /\ pc = [h \in Handlers |-> "idle"] /\ local = [h \in Handlers |-> NoLocal]
      /\ budget = [submits |-> MaxSubmits, skips |-> MaxSkips, edits |-> MaxEdits]
  BY <1>2 DEF Init
<1>5. Given = Len(Opening)
  BY <1>1, <1>4 DEF Given
<1>6. TypeInv
  BY <1>1, <1>2, <1>3, <1>4, <1>5 DEF TypeInv
<1>7. \A c : NoLocal \in Locals(c)
  BY DEF NoLocal, Locals, VenueModes
<1>8. \A h \in Handlers : pc[h] = "idle" /\ local[h] = NoLocal
  BY <1>4
<1>9. HandlersAreSound
  <2>1. "idle" \in Labels /\ NoLocal.snap = {}
    BY DEF Labels, NoLocal
  <2> QED
    BY <1>7, <1>8, <2>1 DEF HandlersAreSound, HandlerIsSound, Submits, Resubmits
<1>10. SongsAreApart
  BY <1>8 DEF SongsAreApart, Submits
<1>11. NoSubmissionLost
  BY <1>3, Zenon DEF NoSubmissionLost
<1> QED
  BY <1>6, <1>9, <1>10, <1>11 DEF Inv

LEMMA Counts ==
  ASSUME TypeInv
  PROVE  /\ clock \in Nat /\ Given \in Nat /\ acked \subseteq 1..Given /\ 1..Given \subseteq Ids
         /\ Len(Opening) \in Nat /\ MaxSubmits \in Nat
<1>1. Len(Opening) \in Nat /\ MaxSubmits \in Nat
  BY SongsAssumption, BoundsAssumption
<1>2. budget.submits \in 0..MaxSubmits
  BY DEF TypeInv
<1> DEFINE n == Len(Opening)
           b == budget.submits
<1>3. Given = n + MaxSubmits - b /\ Ids = 1..(n + MaxSubmits)
  BY DEF Given, Ids
<1> HIDE DEF n, b
<1>4. Given \in Nat /\ 1..Given \subseteq Ids
  BY <1>1, <1>2, <1>3 DEF n, b
<1> QED
  BY <1>1, <1>4 DEF TypeInv

\* A step that pushes nothing keeps the handlers sound when its own handler is, and
\* takes up at most a song with an id of its own.
LEMMA StepQuietly ==
  ASSUME Inv, NEW h \in Handlers, OthersStay(h), clock' \in Nat, clock <= clock',
         Given' \in Nat, Given <= Given', acked' = acked,
         Submits(pc'[h], local'[h]) =>
           \/ Submits(pc[h], local[h]) /\ local'[h].entry.id = local[h].entry.id
           \/ local'[h].entry.id \notin 1..Given,
         HandlerIsSound(pc'[h], local'[h], clock', Given', acked')
  PROVE  HandlersAreSound' /\ SongsAreApart'
<1>1. HandlersAreSound /\ SongsAreApart /\ clock \in Nat /\ Given \in Nat
  BY Counts DEF Inv
<1>2. \A g \in Handlers :
        Submits(pc[g], local[g]) => local[g].entry.id \notin acked /\ local[g].entry.id \in 1..Given
  BY <1>1, Zenon DEF HandlersAreSound, HandlerIsSound
<1>3. ASSUME Submits(pc'[h], local'[h]), NEW g \in Handlers \ {h}, Submits(pc[g], local[g])
      PROVE  local[g].entry.id # local'[h].entry.id
  <2>1. CASE Submits(pc[h], local[h]) /\ local'[h].entry.id = local[h].entry.id
    BY <1>1, <1>3, <2>1, Zenon DEF SongsAreApart
  <2>2. CASE local'[h].entry.id \notin 1..Given
    BY <1>2, <1>3, <2>2, Zenon
  <2> QED
    BY <1>3, <2>1, <2>2, Zenon
<1>4. acked \subseteq acked' /\ \A g \in Handlers \ {h} :
        Submits(pc[g], local[g]) => local[g].entry.id \notin acked'
  BY <1>2, Zenon
<1> QED
  BY <1>1, <1>3, <1>4, StepOfOne

\* The locals of a handler, field by field.
Fields(e, m, w, s) == [entry |-> e, mode |-> m, want |-> w, snap |-> s]

\* The function f with l for h, over the same domain.
Becomes(f, g, H, h, l) == DOMAIN g = H /\ g[h] = l /\ \A i \in H \ {h} : g[i] = f[i]

LEMMA FieldChanges ==
  ASSUME NEW H, NEW f, DOMAIN f = H, NEW h \in H, NEW e, NEW m, NEW w, NEW s,
         f[h] = Fields(e, m, w, s), NEW x
  PROVE  /\ Becomes(f, [f EXCEPT ![h].entry = x], H, h, Fields(x, m, w, s))
         /\ Becomes(f, [f EXCEPT ![h].mode = x], H, h, Fields(e, x, w, s))
         /\ Becomes(f, [f EXCEPT ![h].want = x], H, h, Fields(e, m, x, s))
         /\ Becomes(f, [f EXCEPT ![h].snap = x], H, h, Fields(e, m, w, x))
<1>1. Becomes(f, [f EXCEPT ![h].entry = x], H, h, Fields(x, m, w, s))
  BY DEF Fields, Becomes
<1>2. Becomes(f, [f EXCEPT ![h].mode = x], H, h, Fields(e, x, w, s))
  BY DEF Fields, Becomes
<1>3. Becomes(f, [f EXCEPT ![h].want = x], H, h, Fields(e, m, x, s))
  BY DEF Fields, Becomes
<1>4. Becomes(f, [f EXCEPT ![h].snap = x], H, h, Fields(e, m, w, x))
  BY DEF Fields, Becomes
<1> QED
  BY <1>1, <1>2, <1>3, <1>4

LEMMA TwoChanges ==
  ASSUME NEW H, NEW f, DOMAIN f = H, NEW h \in H, NEW e, NEW m, NEW w, NEW s,
         f[h] = Fields(e, m, w, s), NEW x, NEW y
  PROVE  /\ Becomes(f, [f EXCEPT ![h].want = x, ![h].snap = y], H, h, Fields(e, m, x, y))
         /\ Becomes(f, [f EXCEPT ![h].entry = x, ![h].mode = y], H, h, Fields(x, y, w, s))
<1> DEFINE k == [f EXCEPT ![h].want = x]
           j == [f EXCEPT ![h].entry = x]
<1>1. Becomes(f, k, H, h, Fields(e, m, x, s)) /\ Becomes(f, j, H, h, Fields(x, m, w, s))
  BY FieldChanges
<1>2. /\ [f EXCEPT ![h].want = x, ![h].snap = y] = [k EXCEPT ![h].snap = y]
      /\ [f EXCEPT ![h].entry = x, ![h].mode = y] = [j EXCEPT ![h].mode = y]
  BY DEF k, j
<1> HIDE DEF k, j
<1>3. DOMAIN k = H /\ k[h] = Fields(e, m, x, s) /\ DOMAIN j = H /\ j[h] = Fields(x, m, w, s)
  BY <1>1 DEF Becomes
<1>4. Becomes(k, [k EXCEPT ![h].snap = y], H, h, Fields(e, m, x, y))
  BY <1>3, FieldChanges
<1>5. Becomes(j, [j EXCEPT ![h].mode = y], H, h, Fields(x, y, w, s))
  BY <1>3, FieldChanges
<1> QED
  BY <1>1, <1>2, <1>4, <1>5 DEF Becomes

LEMMA FieldsAre ==
  ASSUME NEW c, NEW l \in Locals(c)
  PROVE  /\ l.entry \in MadeBy(c) \cup {<<>>} /\ l.mode \in VenueModes
         /\ l.want \in Seq(MadeBy(c)) /\ l.snap \in SUBSET Ids
         /\ l = Fields(l.entry, l.mode, l.want, l.snap)
BY DEF Locals, Fields

Fit(c, e, m, w, s) ==
  /\ e \in MadeBy(c) \cup {<<>>} /\ m \in VenueModes
  /\ w \in Seq(MadeBy(c)) /\ s \subseteq Ids

LEMMA FieldsFit ==
  ASSUME NEW c, NEW e, NEW m, NEW w, NEW s, Fit(c, e, m, w, s)
  PROVE  /\ Fields(e, m, w, s) \in Locals(c)
         /\ Fields(e, m, w, s).entry = e /\ Fields(e, m, w, s).mode = m
         /\ Fields(e, m, w, s).want = w /\ Fields(e, m, w, s).snap = s
BY DEF Fit, Fields, Locals

LEMMA StepMoves ==
  ASSUME TypeInv, NEW h \in Handlers, NEW p, NEW l, Goto(h, p), Becomes(local, local', Handlers, h, l)
  PROVE  /\ OthersStay(h) /\ pc'[h] = p /\ local'[h] = l
         /\ DOMAIN pc' = Handlers /\ DOMAIN local' = Handlers
BY DEF TypeInv, Goto, Becomes, OthersStay

LEMMA StepStays ==
  ASSUME TypeInv, NEW h \in Handlers, NEW p, Goto(h, p), local' = local
  PROVE  /\ OthersStay(h) /\ pc'[h] = p /\ local'[h] = local[h]
         /\ DOMAIN pc' = Handlers /\ DOMAIN local' = Handlers
BY DEF TypeInv, Goto, OthersStay

LEMMA StepReturns ==
  ASSUME TypeInv, NEW h \in Handlers, Return(h)
  PROVE  /\ OthersStay(h) /\ pc'[h] = "idle" /\ local'[h] = NoLocal
         /\ DOMAIN pc' = Handlers /\ DOMAIN local' = Handlers
BY DEF TypeInv, Goto, Return, OthersStay

LEMMA AtRest ==
  ASSUME NEW c, NEW n, NEW pushed
  PROVE  HandlerIsSound("idle", NoLocal, c, n, pushed) /\ ~Submits("idle", NoLocal)
<1>1. NoLocal \in Locals(c) /\ NoLocal.snap = {} /\ "idle" \in Labels
  BY DEF NoLocal, Locals, VenueModes, Labels
<1> QED
  BY <1>1 DEF HandlerIsSound, Submits, Resubmits

LEMMA GivenStays ==
  ASSUME TypeInv, budget' = budget \/ \E kind \in {"skips", "edits"} : Spend(kind)
  PROVE  /\ budget' \in [submits : 0..MaxSubmits, skips : Nat, edits : Nat]
         /\ budget'.submits = budget.submits /\ Given' = Given
<1>1. budget \in [submits : 0..MaxSubmits, skips : Nat, edits : Nat]
  BY DEF TypeInv
<1>2. CASE budget' = budget
  BY <1>1, <1>2 DEF Given
<1>3. ASSUME NEW kind \in {"skips", "edits"}, Spend(kind)
      PROVE  /\ budget' \in [submits : 0..MaxSubmits, skips : Nat, edits : Nat]
             /\ budget'.submits = budget.submits
  BY <1>1, <1>3 DEF Spend
<1> QED
  BY <1>2, <1>3 DEF Given

\* A call that read the list and will write it back.
LEMMA ReadingKeeps ==
  ASSUME Inv, NEW h \in Handlers, NEW d \in Seq(MadeBy(clock)), NEW p, ReadList(h, d, p),
         p \in {"relayApply", "reorderApply", "removeApply", "removeHeadApply"},
         pc[h] \notin {"add", "push"},
         p \in {"relayApply", "reorderApply"} => IdsOf(queue) \subseteq IdsOf(d),
         p = "removeHeadApply" =>
           pc[h] = "removeHead" /\ IdsOf(queue) \subseteq IdsOf(d) \cup {local[h].entry.id},
         UNCHANGED <<queue, mode, clock, history>>,
         budget' = budget \/ \E kind \in {"skips", "edits"} : Spend(kind)
  PROVE  Inv'
<1> DEFINE l == Fields(local[h].entry, local[h].mode, d, IdsOf(queue))
<1>1. TypeInv /\ HandlersAreSound /\ SongsAreApart /\ NoSubmissionLost
  BY DEF Inv
<1>2. HandlerIsSound(pc[h], local[h], clock, Given, acked) /\ local[h] \in Locals(clock)
  BY <1>1, Zenon DEF HandlersAreSound, HandlerIsSound
<1>3. /\ local[h].entry \in MadeBy(clock) \cup {<<>>} /\ local[h].mode \in VenueModes
      /\ local[h] = Fields(local[h].entry, local[h].mode, local[h].want, local[h].snap)
  BY <1>2, FieldsAre
<1>4. /\ IdsOf(queue) \subseteq acked /\ acked \subseteq Ids /\ IdsOf(queue) \in SUBSET Ids
      /\ DOMAIN local = Handlers
  BY <1>1, Counts DEF TypeInv
<1>5. l \in Locals(clock) /\ l.entry = local[h].entry /\ l.want = d /\ l.snap = IdsOf(queue)
  <2>1. Fit(clock, local[h].entry, local[h].mode, d, IdsOf(queue))
    BY <1>3, <1>4 DEF Fit
  <2> QED
    BY <2>1, FieldsFit DEF l
<1> HIDE DEF l
<1>6. Becomes(local, local', Handlers, h, l)
  <2>1. Becomes(local, [local EXCEPT ![h].want = d, ![h].snap = IdsOf(queue)], Handlers, h, l)
    BY <1>3, <1>4, TwoChanges, Zenon DEF l
  <2> QED
    BY <2>1, Zenon DEF ReadList
<1>7. /\ OthersStay(h) /\ pc'[h] = p /\ local'[h] = l
      /\ DOMAIN pc' = Handlers /\ DOMAIN local' = Handlers
  BY <1>1, <1>6, StepMoves, Zenon DEF ReadList
<1>8. Given' = Given /\ budget' \in [submits : 0..MaxSubmits, skips : Nat, edits : Nat]
  BY <1>1, GivenStays
<1>9. HandlerIsSound(p, l, clock, Given, acked) /\ ~Submits(p, l)
  <2>1. p \in Labels /\ p \notin {"check", "add", "push", "removeHead"}
    BY DEF Labels
  <2>2. p = "removeHeadApply" => local[h].entry \in MadeBy(clock) /\ local[h].entry.id \in 1..Given
                                 /\ local[h].entry.id \in acked
    BY <1>2, Zenon DEF HandlerIsSound, Resubmits
  <2> QED
    BY <1>4, <1>5, <2>1, <2>2 DEF HandlerIsSound, Submits, Resubmits
<1>10. UNCHANGED <<queue, mode, clock, acked, gone, uncapped>>
  BY DEF history
<1>11. HandlersAreSound' /\ SongsAreApart'
  <2>1. clock \in Nat /\ Given \in Nat
    BY <1>1, Counts
  <2>2. HandlerIsSound(pc'[h], local'[h], clock', Given', acked') /\ ~Submits(pc'[h], local'[h])
    BY <1>7, <1>8, <1>9, <1>10
  <2> QED
    BY <1>7, <1>8, <1>10, <2>1, <2>2, StepQuietly
<1>12. TypeInv'
  BY <1>1, <1>7, <1>8, <1>10 DEF TypeInv
<1>13. NoSubmissionLost'
  <2>1. InHand \subseteq InHand'
    BY <1>7, HandKeeps
  <2> QED
    BY <1>1, <1>10, <2>1, Zenon DEF NoSubmissionLost
<1> QED
  BY <1>11, <1>12, <1>13 DEF Inv

\* The handler returns: it pushes nothing and holds no no-show.
LEMMA ReturnKeeps ==
  ASSUME Inv, NEW h \in Handlers, Return(h), ~(pc[h] \in {"add", "push"} /\ local[h].entry.grace),
         UNCHANGED <<queue, mode, clock, history>>, budget' = budget
  PROVE  Inv'
<1>1. TypeInv /\ NoSubmissionLost
  BY DEF Inv
<1>2. /\ OthersStay(h) /\ pc'[h] = "idle" /\ local'[h] = NoLocal
      /\ DOMAIN pc' = Handlers /\ DOMAIN local' = Handlers
  BY <1>1, StepReturns
<1>3. Given' = Given /\ budget' \in [submits : 0..MaxSubmits, skips : Nat, edits : Nat]
  BY <1>1, GivenStays
<1>4. UNCHANGED <<queue, mode, clock, acked, gone, uncapped>>
  BY DEF history
<1>5. HandlersAreSound' /\ SongsAreApart'
  <2>1. clock \in Nat /\ Given \in Nat
    BY <1>1, Counts
  <2>2. HandlerIsSound(pc'[h], local'[h], clock', Given', acked') /\ ~Submits(pc'[h], local'[h])
    BY <1>2, AtRest
  <2> QED
    BY <1>2, <1>3, <1>4, <2>1, <2>2, StepQuietly
<1>6. TypeInv'
  BY <1>1, <1>2, <1>3, <1>4 DEF TypeInv
<1>7. NoSubmissionLost'
  <2>1. InHand \subseteq InHand'
    BY <1>2, HandKeeps
  <2> QED
    BY <1>1, <1>4, <2>1, Zenon DEF NoSubmissionLost
<1> QED
  BY <1>5, <1>6, <1>7 DEF Inv

LEMMA OrderOfQueue ==
  ASSUME TypeInv, NEW m
  PROVE  /\ OrderQueue(queue, m) \in Seq(MadeBy(clock))
         /\ Range(OrderQueue(queue, m)) \subseteq Range(queue)
         /\ IdsOf(OrderQueue(queue, m)) = IdsOf(queue)
<1> DEFINE o == OrderQueue(queue, m)
<1>1. queue \in Seq(MadeBy(clock))
  BY DEF TypeInv
<1>2. MadeBy(clock) \subseteq QueueEntry /\ Range(queue) \subseteq MadeBy(clock)
  BY <1>1 DEF MadeBy, Range
<1>3. queue \in Seq(QueueEntry)
  BY <1>1, <1>2, SeqOfRange
<1>4. o \in Seq(QueueEntry) /\ Range(o) \subseteq Range(queue) /\ IdsOf(o) = IdsOf(queue)
  BY <1>3, OrderQueueKeeps
<1> HIDE DEF o
<1>5. o \in Seq(MadeBy(clock))
  BY <1>2, <1>4, SeqOfRange
<1> QED
  BY <1>4, <1>5 DEF o

LEMMA RelayReadKeeps ==
  ASSUME Inv, NEW h \in Handlers, RelayRead(h)
  PROVE  Inv'
<1>1. TypeInv /\ pc[h] = "relay" /\ UNCHANGED <<queue, mode, clock, history>> /\ budget' = budget
  BY DEF Inv, RelayRead
<1>2. CASE Return(h)
  BY <1>1, <1>2, ReturnKeeps
<1>3. CASE ReadList(h, OrderQueue(queue, local[h].mode), "relayApply")
  <2> DEFINE d == OrderQueue(queue, local[h].mode)
             p == "relayApply"
  <2>1. d \in Seq(MadeBy(clock)) /\ IdsOf(d) = IdsOf(queue) /\ ReadList(h, d, p)
    BY <1>1, <1>3, OrderOfQueue
  <2>2. /\ p \in {"relayApply", "reorderApply", "removeApply", "removeHeadApply"}
        /\ p # "removeHeadApply"
    OBVIOUS
  <2> HIDE DEF d, p
  <2> QED
    BY <1>1, <2>1, <2>2, ReadingKeeps
<1> QED
  BY <1>2, <1>3, Zenon DEF RelayRead

LEMMA RemoveReadKeeps ==
  ASSUME Inv, NEW h \in Handlers, NEW id \in IdsOf(queue), RemoveRead(h, id)
  PROVE  Inv'
<1> DEFINE d == Outside(queue, {id})
           p == "removeApply"
<1>1. TypeInv /\ pc[h] = "idle" /\ UNCHANGED <<queue, mode, clock, history>> /\ Spend("edits")
  BY DEF Inv, RemoveRead
<1>2. d \in Seq(MadeBy(clock)) /\ ReadList(h, d, p)
  <2>1. queue \in Seq(MadeBy(clock))
    BY <1>1 DEF TypeInv
  <2> QED
    BY <2>1, OutsideKeeps, Zenon DEF RemoveRead
<1>3. /\ p \in {"relayApply", "reorderApply", "removeApply", "removeHeadApply"}
      /\ p \notin {"relayApply", "reorderApply"} /\ p # "removeHeadApply"
  OBVIOUS
<1> HIDE DEF d, p
<1>4. \E kind \in {"skips", "edits"} : Spend(kind)
  BY <1>1, Zenon
<1> QED
  BY <1>1, <1>2, <1>3, <1>4, ReadingKeeps

LEMMA ReorderReadKeeps ==
  ASSUME Inv, NEW h \in Handlers, NEW id \in IdsOf(queue), NEW k \in 0..(Len(queue) - 1),
         ReorderRead(h, id, k)
  PROVE  Inv'
<1> DEFINE i == First(queue, id)
           d == Moved(queue, i, k)
           p == "reorderApply"
<1>1. TypeInv /\ pc[h] = "idle" /\ UNCHANGED <<queue, mode, clock, history>> /\ Spend("edits")
  BY DEF Inv, ReorderRead
<1>2. ReadList(h, d, p)
  BY Zenon DEF ReorderRead, First, Moved
<1>3. d \in Seq(MadeBy(clock)) /\ IdsOf(d) = IdsOf(queue)
  <2>1. queue \in Seq(MadeBy(clock))
    BY <1>1 DEF TypeInv
  <2>2. i \in DOMAIN queue
    BY <2>1, FirstIsThere, Zenon
  <2>3. d \in Seq(MadeBy(clock)) /\ Range(d) = Range(queue)
    BY <2>1, <2>2, MovedKeeps, Zenon
  <2> HIDE DEF d
  <2> QED
    BY <2>3, Zenon DEF IdsOf
<1>4. /\ p \in {"relayApply", "reorderApply", "removeApply", "removeHeadApply"}
      /\ p # "removeHeadApply"
  OBVIOUS
<1> HIDE DEF d, p
<1>5. \E kind \in {"skips", "edits"} : Spend(kind)
  BY <1>1, Zenon
<1> QED
  BY <1>1, <1>2, <1>3, <1>4, <1>5, ReadingKeeps

\* A step that pushes nothing: its handler stays sound, and what leaves the queue or
\* its hand is gone or in its hand.
LEMMA StepKeeps ==
  ASSUME Inv, NEW h \in Handlers, OthersStay(h), DOMAIN pc' = Handlers, DOMAIN local' = Handlers,
         mode' \in Modes, clock' \in Nat, clock <= clock', queue' \in Seq(MadeBy(clock')),
         budget' \in [submits : 0..MaxSubmits, skips : Nat, edits : Nat],
         Given' \in Nat, Given <= Given',
         acked' = acked, uncapped' = uncapped, gone \subseteq gone', gone' \subseteq acked,
         IdsOf(queue') \subseteq acked,
         IdsOf(queue) \subseteq gone' \cup IdsOf(queue') \cup InHand',
         pc[h] \in {"add", "push"} /\ local[h].entry.grace =>
           local[h].entry.id \in gone' \cup IdsOf(queue') \cup InHand',
         Submits(pc'[h], local'[h]) =>
           \/ Submits(pc[h], local[h]) /\ local'[h].entry.id = local[h].entry.id
           \/ local'[h].entry.id \notin 1..Given,
         HandlerIsSound(pc'[h], local'[h], clock', Given', acked)
  PROVE  Inv'
<1>1. TypeInv /\ NoSubmissionLost
  BY DEF Inv
<1>2. HandlersAreSound' /\ SongsAreApart'
  <2>1. HandlerIsSound(pc'[h], local'[h], clock', Given', acked')
    BY Zenon
  <2> QED
    BY <2>1, StepQuietly
<1>3. TypeInv'
  <2>1. acked \subseteq 1..Given /\ Given \in Nat
    BY <1>1, Counts
  <2>2. 1..Given \subseteq 1..Given'
    BY <2>1
  <2>3. acked' \subseteq 1..Given' /\ uncapped' \subseteq acked'
    BY <1>1, <2>1, <2>2, Zenon DEF TypeInv
  <2> QED
    BY <2>3, Zenon DEF TypeInv
<1>4. NoSubmissionLost'
  <2> SUFFICES ASSUME NEW i \in acked PROVE i \in gone' \cup IdsOf(queue') \cup InHand'
    BY Zenon DEF NoSubmissionLost
  <2>1. i \in gone \cup IdsOf(queue) \cup InHand
    BY <1>1, Zenon DEF NoSubmissionLost
  <2>2. CASE i \in gone \cup IdsOf(queue)
    BY <2>2
  <2>3. CASE i \in InHand
    <3>1. CASE pc[h] \in {"add", "push"} /\ local[h].entry.grace /\ i = local[h].entry.id
      BY <3>1, Zenon
    <3>2. CASE ~(pc[h] \in {"add", "push"} /\ local[h].entry.grace /\ i = local[h].entry.id)
      <4>1. i \in InHand'
        BY <2>3, <3>2, HandKeeps
      <4> QED
        BY <4>1
    <3> QED
      BY <3>1, <3>2
  <2> QED
    BY <2>1, <2>2, <2>3
<1> QED
  BY <1>2, <1>3, <1>4 DEF Inv

\* What the invariant says of the handler that steps.
LEMMA OfHandler ==
  ASSUME Inv, NEW h \in Handlers
  PROVE  /\ HandlerIsSound(pc[h], local[h], clock, Given, acked) /\ local[h] \in Locals(clock)
         /\ local[h].entry \in MadeBy(clock) \cup {<<>>} /\ local[h].mode \in VenueModes
         /\ local[h].want \in Seq(MadeBy(clock)) /\ local[h].snap \subseteq Ids
         /\ local[h] = Fields(local[h].entry, local[h].mode, local[h].want, local[h].snap)
         /\ local[h].snap \subseteq acked
         /\ DOMAIN local = Handlers
         /\ clock \in Nat /\ Given \in Nat /\ acked \subseteq 1..Given /\ 1..Given \subseteq Ids
<1>1. HandlerIsSound(pc[h], local[h], clock, Given, acked)
  BY Zenon DEF Inv, HandlersAreSound
<1>2. local[h] \in Locals(clock) /\ local[h].snap \subseteq acked
  BY <1>1, Zenon DEF HandlerIsSound
<1>3. TypeInv /\ DOMAIN local = Handlers
  BY DEF Inv, TypeInv
<1> QED
  BY <1>1, <1>2, <1>3, FieldsAre, Counts

LEMMA ReadModeKeeps ==
  ASSUME Inv, NEW h \in Handlers, ReadMode(h)
  PROVE  Inv'
<1> DEFINE l == Fields(local[h].entry, mode, local[h].want, local[h].snap)
<1>1. /\ TypeInv /\ pc[h] = "mode" /\ UNCHANGED <<queue, mode, clock, acked, gone, uncapped>>
      /\ budget' = budget /\ Goto(h, "relay")
  BY DEF Inv, ReadMode, history
<1>2. mode \in VenueModes /\ mode \in Modes
  BY <1>1, ModesAssumption DEF TypeInv
<1>3. Fit(clock, local[h].entry, mode, local[h].want, local[h].snap)
  BY <1>2, OfHandler DEF Fit
<1>4. l \in Locals(clock) /\ l.snap = local[h].snap
  BY <1>3, FieldsFit
<1>5. Becomes(local, local', Handlers, h, l)
  <2>1. Becomes(local, [local EXCEPT ![h].mode = mode], Handlers, h, l)
    BY OfHandler, FieldChanges, Zenon
  <2> QED
    BY <2>1, Zenon DEF ReadMode
<1> HIDE DEF l
<1>6. /\ OthersStay(h) /\ pc'[h] = "relay" /\ local'[h] = l
      /\ DOMAIN pc' = Handlers /\ DOMAIN local' = Handlers
  BY <1>1, <1>5, StepMoves
<1>7. HandlerIsSound("relay", l, clock, Given, acked) /\ ~Submits("relay", l)
  <2>1. l.snap \subseteq acked
    BY <1>4, OfHandler
  <2> QED
    BY <1>4, <2>1 DEF HandlerIsSound, Submits, Resubmits, Labels
<1>8. Given' = Given /\ budget' \in [submits : 0..MaxSubmits, skips : Nat, edits : Nat]
  BY <1>1, GivenStays
<1>9. /\ HandlerIsSound(pc'[h], local'[h], clock', Given', acked)
      /\ ~Submits(pc'[h], local'[h])
  BY <1>1, <1>6, <1>7, <1>8, Zenon
<1>10. /\ mode' \in Modes /\ clock' \in Nat /\ clock <= clock' /\ queue' \in Seq(MadeBy(clock'))
       /\ Given' \in Nat /\ Given <= Given' /\ gone \subseteq gone' /\ gone' \subseteq acked
       /\ IdsOf(queue') \subseteq acked /\ IdsOf(queue) \subseteq IdsOf(queue')
       /\ pc[h] \notin {"add", "push"}
  BY <1>1, <1>2, <1>8, OfHandler DEF TypeInv
<1> QED
  BY <1>1, <1>6, <1>8, <1>9, <1>10, StepKeeps

LEMMA SwitchModeKeeps ==
  ASSUME Inv, NEW h \in Handlers, NEW m \in Modes, SwitchMode(h, m)
  PROVE  Inv'
<1> DEFINE l == Fields(local[h].entry, m, local[h].want, local[h].snap)
<1>1. /\ TypeInv /\ pc[h] = "idle" /\ UNCHANGED <<queue, clock, acked, gone, uncapped>>
      /\ mode' = m /\ Spend("edits") /\ Goto(h, "relay")
  BY DEF Inv, SwitchMode, history
<1>2. m \in VenueModes
  BY ModesAssumption
<1>3. Fit(clock, local[h].entry, m, local[h].want, local[h].snap)
  BY <1>2, OfHandler DEF Fit
<1>4. l \in Locals(clock) /\ l.snap = local[h].snap
  BY <1>3, FieldsFit
<1>5. Becomes(local, local', Handlers, h, l)
  <2>1. Becomes(local, [local EXCEPT ![h].mode = m], Handlers, h, l)
    BY OfHandler, FieldChanges, Zenon
  <2> QED
    BY <2>1, Zenon DEF SwitchMode
<1> HIDE DEF l
<1>6. /\ OthersStay(h) /\ pc'[h] = "relay" /\ local'[h] = l
      /\ DOMAIN pc' = Handlers /\ DOMAIN local' = Handlers
  BY <1>1, <1>5, StepMoves
<1>7. HandlerIsSound("relay", l, clock, Given, acked) /\ ~Submits("relay", l)
  <2>1. l.snap \subseteq acked
    BY <1>4, OfHandler
  <2> QED
    BY <1>4, <2>1 DEF HandlerIsSound, Submits, Resubmits, Labels
<1>8. Given' = Given /\ budget' \in [submits : 0..MaxSubmits, skips : Nat, edits : Nat]
  BY <1>1, GivenStays
<1>9. /\ HandlerIsSound(pc'[h], local'[h], clock', Given', acked)
      /\ ~Submits(pc'[h], local'[h])
  BY <1>1, <1>6, <1>7, <1>8, Zenon
<1>10. /\ mode' \in Modes /\ clock' \in Nat /\ clock <= clock' /\ queue' \in Seq(MadeBy(clock'))
       /\ Given' \in Nat /\ Given <= Given' /\ gone \subseteq gone' /\ gone' \subseteq acked
       /\ IdsOf(queue') \subseteq acked /\ IdsOf(queue) \subseteq IdsOf(queue')
       /\ pc[h] \notin {"add", "push"}
  BY <1>1, <1>8, OfHandler DEF TypeInv
<1> QED
  BY <1>1, <1>6, <1>8, <1>9, <1>10, StepKeeps

\* A handler that only goes on with what it has, or refuses.
LEMMA GoingOnKeeps ==
  ASSUME Inv, NEW h \in Handlers, NEW p \in {"add", "push"}, Goto(h, p), local' = local,
         Submits(p, local[h]) => Submits(pc[h], local[h]),
         Resubmits(p, local[h]) => Resubmits(pc[h], local[h]),
         UNCHANGED <<queue, mode, clock, history, budget>>
  PROVE  Inv'
<1>1. TypeInv /\ UNCHANGED <<queue, mode, clock, acked, gone, uncapped, budget>>
  BY DEF Inv, history
<1>2. /\ OthersStay(h) /\ pc'[h] = p /\ local'[h] = local[h]
      /\ DOMAIN pc' = Handlers /\ DOMAIN local' = Handlers
  BY <1>1, StepStays
<1>3. HandlerIsSound(p, local[h], clock, Given, acked)
  <2>1. HandlerIsSound(pc[h], local[h], clock, Given, acked)
    BY OfHandler
  <2>2. p \in Labels /\ p \notin {"check", "relayApply", "reorderApply", "removeHeadApply"}
    BY DEF Labels
  <2> QED
    BY <2>1, <2>2, Zenon DEF HandlerIsSound
<1>4. Given' = Given /\ budget' \in [submits : 0..MaxSubmits, skips : Nat, edits : Nat]
  BY <1>1, GivenStays
<1>5. /\ HandlerIsSound(pc'[h], local'[h], clock', Given', acked)
      /\ Submits(pc'[h], local'[h]) =>
           Submits(pc[h], local[h]) /\ local'[h].entry.id = local[h].entry.id
  BY <1>1, <1>2, <1>3, <1>4, Zenon
<1>6. /\ mode' \in Modes /\ clock' \in Nat /\ clock <= clock' /\ queue' \in Seq(MadeBy(clock'))
      /\ Given' \in Nat /\ Given <= Given' /\ gone \subseteq gone' /\ gone' \subseteq acked
      /\ IdsOf(queue') \subseteq acked /\ IdsOf(queue) \subseteq IdsOf(queue')
  BY <1>1, <1>4, OfHandler DEF TypeInv
<1>7. pc[h] \in {"add", "push"} /\ local[h].entry.grace => local[h].entry.id \in InHand'
  BY <1>2, HandTakes
<1> QED
  BY <1>1, <1>2, <1>4, <1>5, <1>6, <1>7, StepKeeps

LEMMA SubmitCheckKeeps ==
  ASSUME Inv, NEW h \in Handlers, SubmitCheck(h)
  PROVE  Inv'
<1>1. pc[h] = "check" /\ UNCHANGED <<queue, mode, clock, history, budget>>
  BY DEF SubmitCheck
<1>2. CASE Goto(h, "add") /\ UNCHANGED local
  <2>1. ~local[h].entry.grace
    BY <1>1, OfHandler, Zenon DEF HandlerIsSound
  <2> QED
    BY <1>1, <1>2, <2>1, GoingOnKeeps DEF Submits, Resubmits
<1>3. CASE Return(h)
  BY <1>1, <1>3, ReturnKeeps
<1> QED
  BY <1>2, <1>3, Zenon DEF SubmitCheck

LEMMA AddCheckKeeps ==
  ASSUME Inv, NEW h \in Handlers, AddCheck(h)
  PROVE  Inv'
<1>1. pc[h] = "add" /\ UNCHANGED <<queue, mode, clock, budget, acked, uncapped>>
  BY DEF AddCheck
<1>2. CASE Goto(h, "push") /\ UNCHANGED <<local, gone>>
  BY <1>1, <1>2, GoingOnKeeps DEF Submits, Resubmits, history
<1>3. CASE /\ Return(h)
           /\ gone' = gone \cup (IF local[h].entry.grace THEN {local[h].entry.id} ELSE {})
  <2>1. TypeInv
    BY DEF Inv
  <2>2. /\ OthersStay(h) /\ pc'[h] = "idle" /\ local'[h] = NoLocal
        /\ DOMAIN pc' = Handlers /\ DOMAIN local' = Handlers
    BY <1>3, <2>1, StepReturns
  <2>3. Given' = Given /\ budget' \in [submits : 0..MaxSubmits, skips : Nat, edits : Nat]
    BY <1>1, <2>1, GivenStays
  <2>4. local[h].entry.grace => local[h].entry.id \in acked /\ local[h].entry.id \in gone'
    BY <1>1, <1>3, OfHandler DEF HandlerIsSound, Resubmits
  <2>5. gone \subseteq gone' /\ gone' \subseteq acked
    BY <1>3, <2>1, <2>4 DEF TypeInv
  <2>6. HandlerIsSound(pc'[h], local'[h], clock', Given', acked) /\ ~Submits(pc'[h], local'[h])
    BY <2>2, AtRest
  <2>7. /\ mode' \in Modes /\ clock' \in Nat /\ clock <= clock' /\ queue' \in Seq(MadeBy(clock'))
        /\ Given' \in Nat /\ Given <= Given'
        /\ IdsOf(queue') \subseteq acked /\ IdsOf(queue) \subseteq IdsOf(queue')
    BY <1>1, <2>1, <2>3, OfHandler DEF TypeInv
  <2> QED
    BY <1>1, <2>2, <2>3, <2>4, <2>5, <2>6, <2>7, StepKeeps
<1> QED
  BY <1>2, <1>3, Zenon DEF AddCheck

LEMMA SubmitKeeps ==
  ASSUME Inv, NEW h \in Handlers, NEW x \in Songs, Submit(h, x)
  PROVE  Inv'
<1> DEFINE n == Given + 1
           e == Entry(x, n, clock + 1)
           l == Fields(e, mode, local[h].want, local[h].snap)
<1>1. /\ TypeInv /\ pc[h] = "idle" /\ UNCHANGED <<queue, mode, acked, gone, uncapped>>
      /\ clock' = clock + 1 /\ Spend("submits") /\ Goto(h, "check")
  BY DEF Inv, Submit, history
<1>2. /\ clock \in Nat /\ Given \in Nat /\ Len(Opening) \in Nat /\ MaxSubmits \in Nat
      /\ budget \in [submits : 0..MaxSubmits, skips : Nat, edits : Nat]
      /\ mode \in VenueModes /\ mode \in Modes
  BY <1>1, Counts, ModesAssumption DEF TypeInv
<1>3. /\ budget' \in [submits : 0..MaxSubmits, skips : Nat, edits : Nat]
      /\ budget'.submits = budget.submits - 1 /\ budget.submits > 0
  BY <1>1, <1>2 DEF Spend
<1>4. Given' = n /\ n \in Nat /\ n \in Ids
  <2> DEFINE k == Len(Opening)
             b == budget.submits
             c == budget'.submits
  <2>1. Given = k + MaxSubmits - b /\ Given' = k + MaxSubmits - c /\ Ids = 1..(k + MaxSubmits)
    BY DEF Given, Ids
  <2>2. k \in Nat /\ MaxSubmits \in Nat /\ b \in 0..MaxSubmits /\ c = b - 1 /\ b > 0
    BY <1>2, <1>3
  <2> HIDE DEF k, b, c
  <2> QED
    BY <2>1, <2>2
<1>5. e \in MadeBy(clock') /\ e.id = n /\ e.grace = FALSE
  <2>1. x \in Song
    BY SongsAssumption
  <2>2. clock + 1 \in 1..(clock + 1) /\ clock + 1 \in Int
    BY <1>2
  <2> HIDE DEF n
  <2> QED
    BY <1>1, <1>4, <2>1, <2>2 DEF MadeBy, QueueEntry, Entry, Song
<1>6. local' = [local EXCEPT ![h].entry = e, ![h].mode = mode]
  <2>1. Len(Opening) + MaxSubmits - budget'["submits"] = n
    BY <1>4 DEF Given
  <2> HIDE DEF n
  <2> QED
    BY <1>1, <2>1, Zenon DEF Submit
<1> HIDE DEF n, e
<1>7. Fit(clock', e, mode, local[h].want, local[h].snap)
  <2>1. MadeBy(clock) \subseteq MadeBy(clock') /\ local[h].want \in Seq(MadeBy(clock))
    <3>1. clock' \in Nat /\ clock <= clock'
      BY <1>1, <1>2
    <3> QED
      BY <1>2, <3>1, LocalsGrow, OfHandler
  <2>2. local[h].want \in Seq(MadeBy(clock'))
    <3>1. Range(local[h].want) \subseteq MadeBy(clock')
      BY <2>1 DEF Range
    <3> QED
      BY <2>1, <3>1, SeqOfRange
  <2> QED
    BY <1>2, <1>5, <2>2, OfHandler DEF Fit
<1>8. l \in Locals(clock') /\ l.entry = e /\ l.snap = local[h].snap
  BY <1>7, FieldsFit
<1>9. Becomes(local, local', Handlers, h, l)
  BY <1>6, OfHandler, TwoChanges, Zenon
<1> HIDE DEF l
<1>10. /\ OthersStay(h) /\ pc'[h] = "check" /\ local'[h] = l
       /\ DOMAIN pc' = Handlers /\ DOMAIN local' = Handlers
  BY <1>1, <1>9, StepMoves
<1>11. n \notin 1..Given /\ n \in 1..n /\ n \notin acked
  <2>1. n \notin 1..Given /\ n \in 1..n
    BY <1>2 DEF n
  <2> QED
    BY <2>1, OfHandler
<1>12. HandlerIsSound("check", l, clock', n, acked)
  <2>1. l.snap \subseteq acked
    BY <1>8, OfHandler
  <2> QED
    BY <1>5, <1>8, <1>11, <2>1 DEF HandlerIsSound, Submits, Resubmits, Labels
<1>13. HandlerIsSound(pc'[h], local'[h], clock', Given', acked) /\ local'[h].entry.id \notin 1..Given
  BY <1>4, <1>5, <1>8, <1>10, <1>11, <1>12, Zenon
<1>14. clock' \in Nat /\ clock <= clock' /\ Given' \in Nat /\ Given <= Given'
  <2>1. Given <= n
    BY <1>2 DEF n
  <2> QED
    BY <1>1, <1>2, <1>4, <2>1
<1>15. queue' \in Seq(MadeBy(clock'))
  <2>1. MadeBy(clock) \subseteq MadeBy(clock') /\ queue \in Seq(MadeBy(clock))
    BY <1>1, <1>2, <1>14, LocalsGrow DEF TypeInv
  <2>2. Range(queue) \subseteq MadeBy(clock')
    BY <2>1 DEF Range
  <2>3. queue \in Seq(MadeBy(clock'))
    BY <2>1, <2>2, SeqOfRange
  <2> QED
    BY <1>1, <2>3
<1>16. /\ mode' \in Modes /\ gone \subseteq gone' /\ gone' \subseteq acked
       /\ IdsOf(queue') \subseteq acked /\ IdsOf(queue) \subseteq IdsOf(queue')
       /\ pc[h] \notin {"add", "push"}
  BY <1>1, <1>2 DEF TypeInv
<1> QED
  BY <1>1, <1>3, <1>10, <1>13, <1>14, <1>15, <1>16, StepKeeps

LEMMA ListsGrow ==
  ASSUME NEW c \in Nat, NEW d \in Nat, c <= d, NEW s \in Seq(MadeBy(c))
  PROVE  s \in Seq(MadeBy(d))
<1>1. MadeBy(c) \subseteq MadeBy(d)
  BY LocalsGrow
<1>2. Range(s) \subseteq MadeBy(d)
  BY <1>1 DEF Range
<1> QED
  BY <1>2, SeqOfRange

\* A no-show takes the flag and a new time, and keeps its id.
LEMMA RegracedIs ==
  ASSUME NEW h \in Handlers, local[h].entry \in MadeBy(clock), clock \in Nat
  PROVE  /\ Regraced(h) \in MadeBy(clock + 1)
         /\ Regraced(h).id = local[h].entry.id /\ Regraced(h).grace
         /\ Regraced(h).uuid = local[h].entry.uuid /\ Regraced(h).kind = local[h].entry.kind
<1> DEFINE e == local[h].entry
<1>1. clock + 1 \in 1..(clock + 1) /\ clock + 1 \in Int
  OBVIOUS
<1>2. Regraced(h) = [e EXCEPT !.grace = TRUE, !.at = clock + 1] /\ e \in MadeBy(clock)
  BY DEF Regraced
<1> HIDE DEF e
<1>3. Regraced(h) \in MadeBy(clock + 1) /\ Regraced(h).id = e.id /\ Regraced(h).grace
      /\ Regraced(h).uuid = e.uuid /\ Regraced(h).kind = e.kind
  <2> DEFINE t == clock + 1
             r == [e EXCEPT !.grace = TRUE]
  <2>1. r \in QueueEntry /\ r.id = e.id /\ r.grace = TRUE /\ r.uuid = e.uuid /\ r.kind = e.kind
    BY <1>2 DEF MadeBy, QueueEntry
  <2>2. Regraced(h) = [r EXCEPT !.at = t] /\ t \in Int /\ t \in 1..t
    BY <1>1, <1>2
  <2> HIDE DEF r, t
  <2>3. /\ Regraced(h) \in MadeBy(t) /\ Regraced(h).id = r.id /\ Regraced(h).grace = r.grace
        /\ Regraced(h).uuid = r.uuid /\ Regraced(h).kind = r.kind
    BY <2>1, <2>2 DEF MadeBy, QueueEntry
  <2> QED
    BY <2>1, <2>3 DEF t
<1> QED
  BY <1>3 DEF e

LEMMA GraceSkipKeeps ==
  ASSUME Inv, NEW h \in Handlers, GraceSkip(h)
  PROVE  Inv'
<1> DEFINE e == Head(queue)
           l == Fields(e, local[h].mode, local[h].want, local[h].snap)
<1>1. /\ TypeInv /\ pc[h] = "idle" /\ UNCHANGED <<queue, mode, clock, acked, gone, uncapped>>
      /\ Spend("skips") /\ queue # <<>> /\ Goto(h, "removeHead")
      /\ local' = [local EXCEPT ![h].entry = e]
  BY DEF Inv, GraceSkip, history
<1>2. e \in MadeBy(clock) /\ e.id \in IdsOf(queue)
  <2>1. queue \in Seq(MadeBy(clock)) /\ queue # <<>>
    BY <1>1 DEF TypeInv
  <2>2. e \in MadeBy(clock) /\ e = queue[1] /\ 1 \in DOMAIN queue
    BY <2>1
  <2> HIDE DEF e
  <2> QED
    BY <2>2 DEF IdsOf, Range
<1> HIDE DEF e
<1>3. e.id \in acked /\ e.id \in 1..Given
  BY <1>1, <1>2, OfHandler DEF TypeInv
<1>4. Fit(clock, e, local[h].mode, local[h].want, local[h].snap)
  BY <1>2, OfHandler DEF Fit
<1>5. l \in Locals(clock) /\ l.entry = e /\ l.snap = local[h].snap
  BY <1>4, FieldsFit
<1>6. Becomes(local, local', Handlers, h, l)
  BY <1>1, OfHandler, FieldChanges, Zenon
<1> HIDE DEF l
<1>7. /\ OthersStay(h) /\ pc'[h] = "removeHead" /\ local'[h] = l
      /\ DOMAIN pc' = Handlers /\ DOMAIN local' = Handlers
  BY <1>1, <1>6, StepMoves
<1>8. HandlerIsSound("removeHead", l, clock, Given, acked) /\ ~Submits("removeHead", l)
  <2>1. l.snap \subseteq acked
    BY <1>5, OfHandler
  <2> QED
    BY <1>2, <1>3, <1>5, <2>1 DEF HandlerIsSound, Submits, Resubmits, Labels
<1>9. Given' = Given /\ budget' \in [submits : 0..MaxSubmits, skips : Nat, edits : Nat]
  BY <1>1, GivenStays
<1>10. HandlerIsSound(pc'[h], local'[h], clock', Given', acked) /\ ~Submits(pc'[h], local'[h])
  BY <1>1, <1>7, <1>8, <1>9, Zenon
<1>11. /\ mode' \in Modes /\ clock' \in Nat /\ clock <= clock' /\ queue' \in Seq(MadeBy(clock'))
       /\ Given' \in Nat /\ Given <= Given' /\ gone \subseteq gone' /\ gone' \subseteq acked
       /\ IdsOf(queue') \subseteq acked /\ IdsOf(queue) \subseteq IdsOf(queue')
       /\ pc[h] \notin {"add", "push"}
  BY <1>1, <1>9, OfHandler DEF TypeInv
<1> QED
  BY <1>1, <1>7, <1>9, <1>10, <1>11, StepKeeps

\* A no-show goes on to be added again: at the time of the removal, or after it.
LEMMA RegracingKeeps ==
  ASSUME Inv, NEW h \in Handlers, pc[h] \in {"removeHead", "removeHeadApply"}, Goto(h, "add"),
         NEW w \in Seq(MadeBy(clock)), NEW s, s \subseteq acked,
         Becomes(local, local', Handlers, h, Fields(Regraced(h), local[h].mode, w, s)),
         clock' = clock + 1, queue' \in Seq(MadeBy(clock)), IdsOf(queue') \subseteq IdsOf(queue),
         IdsOf(queue) \subseteq IdsOf(queue') \cup {local[h].entry.id},
         UNCHANGED <<mode, history, budget>>
  PROVE  Inv'
<1> DEFINE l == Fields(Regraced(h), local[h].mode, w, s)
<1>1. TypeInv /\ UNCHANGED <<mode, acked, gone, uncapped, budget>>
  BY DEF Inv, history
<1>2. clock \in Nat /\ clock' \in Nat /\ clock <= clock'
  BY <1>1, Counts
<1>3. /\ local[h].entry \in MadeBy(clock) /\ local[h].entry.id \in 1..Given
      /\ local[h].entry.id \in acked
  BY OfHandler DEF HandlerIsSound, Resubmits
<1>4. Regraced(h) \in MadeBy(clock') /\ Regraced(h).id = local[h].entry.id /\ Regraced(h).grace
  BY <1>2, <1>3, RegracedIs
<1>5. w \in Seq(MadeBy(clock')) /\ queue' \in Seq(MadeBy(clock')) /\ s \subseteq Ids
  BY <1>2, ListsGrow, OfHandler
<1>6. Fit(clock', Regraced(h), local[h].mode, w, s)
  BY <1>4, <1>5, OfHandler DEF Fit
<1>7. l \in Locals(clock') /\ l.entry = Regraced(h) /\ l.snap = s
  BY <1>6, FieldsFit
<1>8. Becomes(local, local', Handlers, h, l)
  OBVIOUS
<1> HIDE DEF l
<1>9. /\ OthersStay(h) /\ pc'[h] = "add" /\ local'[h] = l
      /\ DOMAIN pc' = Handlers /\ DOMAIN local' = Handlers
  BY <1>1, <1>8, StepMoves
<1>10. HandlerIsSound("add", l, clock', Given, acked) /\ ~Submits("add", l)
  BY <1>3, <1>4, <1>7 DEF HandlerIsSound, Submits, Resubmits, Labels
<1>11. local[h].entry.id \in InHand'
  <2>1. pc'[h] \in {"add", "push"} /\ local'[h].entry.grace /\ local'[h].entry.id = local[h].entry.id
    BY <1>4, <1>7, <1>9
  <2> QED
    BY <2>1, HandTakes
<1>12. Given' = Given /\ budget' \in [submits : 0..MaxSubmits, skips : Nat, edits : Nat]
  BY <1>1, GivenStays
<1>13. HandlerIsSound(pc'[h], local'[h], clock', Given', acked) /\ ~Submits(pc'[h], local'[h])
  BY <1>9, <1>10, <1>12, Zenon
<1>14. /\ mode' \in Modes /\ Given' \in Nat /\ Given <= Given'
       /\ gone \subseteq gone' /\ gone' \subseteq acked
       /\ IdsOf(queue') \subseteq acked /\ IdsOf(queue) \subseteq IdsOf(queue') \cup InHand'
       /\ pc[h] \notin {"add", "push"}
  BY <1>1, <1>11, <1>12, OfHandler DEF TypeInv
<1> QED
  BY <1>1, <1>2, <1>5, <1>9, <1>12, <1>13, <1>14, StepKeeps

LEMMA GraceRemoveReadKeeps ==
  ASSUME Inv, NEW h \in Handlers, GraceRemoveRead(h)
  PROVE  Inv'
<1> DEFINE id == local[h].entry.id
<1>1. TypeInv /\ pc[h] = "removeHead" /\ UNCHANGED <<queue, mode, history, budget>>
  BY DEF Inv, GraceRemoveRead
<1>2. queue \in Seq(MadeBy(clock))
  BY <1>1 DEF TypeInv
<1>3. CASE ReadList(h, Outside(queue, {id}), "removeHeadApply") /\ UNCHANGED clock
  <2> DEFINE d == Outside(queue, {id})
             p == "removeHeadApply"
  <2>1. d \in Seq(MadeBy(clock)) /\ IdsOf(d) = IdsOf(queue) \ {id}
    BY <1>2, OutsideKeeps
  <2>2. /\ p \in {"relayApply", "reorderApply", "removeApply", "removeHeadApply"}
        /\ p \notin {"relayApply", "reorderApply"} /\ ReadList(h, d, p)
    BY <1>3
  <2> HIDE DEF d, p
  <2>3. IdsOf(queue) \subseteq IdsOf(d) \cup {id}
    BY <2>1
  <2> QED
    BY <1>1, <1>3, <2>1, <2>2, <2>3, ReadingKeeps
<1>4. CASE /\ local' = [local EXCEPT ![h].entry = Regraced(h)]
           /\ clock' = clock + 1
           /\ Goto(h, "add")
  <2> DEFINE l == Fields(Regraced(h), local[h].mode, local[h].want, local[h].snap)
  <2>1. Becomes(local, local', Handlers, h, l)
    BY <1>4, OfHandler, FieldChanges, Zenon
  <2>2. local[h].want \in Seq(MadeBy(clock)) /\ local[h].snap \subseteq acked
    BY OfHandler
  <2>3. queue' \in Seq(MadeBy(clock)) /\ IdsOf(queue') = IdsOf(queue)
    BY <1>1, <1>2
  <2> QED
    BY <1>1, <1>4, <2>1, <2>2, <2>3, RegracingKeeps
<1> QED
  BY <1>3, <1>4, Zenon DEF GraceRemoveRead

\* The script writes a list back: nothing is added, and what leaves was read and is
\* not wanted.
LEMMA WriteBackKeeps ==
  ASSUME Inv, NEW h \in Handlers, WriteBack(h)
  PROVE  /\ queue' \in Seq(MadeBy(clock)) /\ IdsOf(queue') \subseteq IdsOf(queue)
         /\ Range(queue') \subseteq Range(queue) \cup Range(local[h].want)
         /\ IdsOf(queue) \subseteq IdsOf(queue') \cup (local[h].snap \ IdsOf(local[h].want))
<1> DEFINE w == local[h].want
           s == local[h].snap
<1>1. queue \in Seq(MadeBy(clock)) /\ w \in Seq(MadeBy(clock)) /\ queue' = Merge(queue, w, s)
  BY OfHandler DEF Inv, TypeInv, WriteBack
<1> HIDE DEF w, s
<1>2. /\ queue' \in Seq(MadeBy(clock)) /\ Range(queue') \subseteq Range(queue) \cup Range(w)
      /\ IdsOf(queue') = (IdsOf(w) \cap IdsOf(queue)) \cup (IdsOf(queue) \ s)
  BY <1>1, MergeKeeps
<1> QED
  BY <1>2 DEF w, s

LEMMA GraceRemoveApplyKeeps ==
  ASSUME Inv, NEW h \in Handlers, GraceRemoveApply(h)
  PROVE  Inv'
<1> DEFINE w == <<>>
           s == {}
           l == Fields(Regraced(h), local[h].mode, w, s)
<1>1. /\ pc[h] = "removeHeadApply" /\ WriteBack(h) /\ clock' = clock + 1 /\ Goto(h, "add")
      /\ UNCHANGED <<mode, history, budget>>
  BY DEF GraceRemoveApply
<1>2. w \in Seq(MadeBy(clock)) /\ s \subseteq acked
  OBVIOUS
<1>3. local' = [local EXCEPT ![h].entry = Regraced(h), ![h].want = w, ![h].snap = s]
  BY Zenon DEF GraceRemoveApply
<1> HIDE DEF w, s
<1>4. Becomes(local, local', Handlers, h, l)
  <2> DEFINE r == Regraced(h)
             a == local[h]
  <2>1. DOMAIN local = Handlers /\ local[h] = Fields(a.entry, a.mode, a.want, a.snap)
    BY OfHandler
  <2>2. l = Fields(r, a.mode, w, s)
    OBVIOUS
  <2> DEFINE k == [local EXCEPT ![h].entry = r]
  <2>3. local' = [k EXCEPT ![h].want = w, ![h].snap = s]
    BY <1>3
  <2> HIDE DEF r, l, a
  <2>4. Becomes(local, k, Handlers, h, Fields(r, a.mode, a.want, a.snap))
    BY <2>1, FieldChanges
  <2> HIDE DEF k
  <2>5. DOMAIN k = Handlers /\ k[h] = Fields(r, a.mode, a.want, a.snap)
    BY <2>4 DEF Becomes
  <2>6. Becomes(k, [k EXCEPT ![h].want = w, ![h].snap = s], Handlers, h, Fields(r, a.mode, w, s))
    BY <2>5, TwoChanges
  <2>7. Becomes(k, local', Handlers, h, l)
    BY <2>2, <2>3, <2>6, Zenon
  <2> QED
    BY <2>4, <2>7 DEF Becomes
<1>5. /\ queue' \in Seq(MadeBy(clock)) /\ IdsOf(queue') \subseteq IdsOf(queue)
      /\ IdsOf(queue) \subseteq IdsOf(queue') \cup (local[h].snap \ IdsOf(local[h].want))
  BY <1>1, WriteBackKeeps
<1>6. local[h].snap \subseteq IdsOf(local[h].want) \cup {local[h].entry.id}
  BY <1>1, OfHandler DEF HandlerIsSound
<1>7. IdsOf(queue) \subseteq IdsOf(queue') \cup {local[h].entry.id}
  BY <1>5, <1>6
<1> HIDE DEF l
<1> QED
  BY <1>1, <1>2, <1>4, <1>5, <1>7, RegracingKeeps DEF l

\* The script is a handler's last step, but for a grace skip's.
LEMMA LastWriteKeeps ==
  ASSUME Inv, NEW h \in Handlers, pc[h] \notin {"add", "push"}, WriteBack(h), Return(h),
         gone \subseteq gone', gone' \subseteq acked,
         local[h].snap \subseteq IdsOf(local[h].want) \cup gone',
         UNCHANGED <<mode, clock, budget, acked, uncapped>>
  PROVE  Inv'
<1>1. TypeInv
  BY DEF Inv
<1>2. /\ OthersStay(h) /\ pc'[h] = "idle" /\ local'[h] = NoLocal
      /\ DOMAIN pc' = Handlers /\ DOMAIN local' = Handlers
  BY <1>1, StepReturns
<1>3. Given' = Given /\ budget' \in [submits : 0..MaxSubmits, skips : Nat, edits : Nat]
  BY <1>1, GivenStays
<1>4. HandlerIsSound(pc'[h], local'[h], clock', Given', acked) /\ ~Submits(pc'[h], local'[h])
  BY <1>2, AtRest
<1>5. /\ queue' \in Seq(MadeBy(clock)) /\ IdsOf(queue') \subseteq IdsOf(queue)
      /\ IdsOf(queue) \subseteq IdsOf(queue') \cup (local[h].snap \ IdsOf(local[h].want))
  BY WriteBackKeeps
<1>6. /\ mode' \in Modes /\ clock' \in Nat /\ clock <= clock' /\ queue' \in Seq(MadeBy(clock'))
      /\ Given' \in Nat /\ Given <= Given'
      /\ IdsOf(queue') \subseteq acked /\ IdsOf(queue) \subseteq IdsOf(queue') \cup gone'
  BY <1>1, <1>3, <1>5, OfHandler DEF TypeInv
<1> QED
  BY <1>2, <1>3, <1>4, <1>6, StepKeeps

LEMMA ApplyOrderKeeps ==
  ASSUME Inv, NEW h \in Handlers, ApplyOrder(h)
  PROVE  Inv'
<1>1. /\ pc[h] \in {"relayApply", "reorderApply"} /\ WriteBack(h) /\ Return(h)
      /\ UNCHANGED <<mode, clock, budget, acked, gone, uncapped>>
  BY DEF ApplyOrder, history
<1>2. local[h].snap \subseteq IdsOf(local[h].want)
  BY <1>1, OfHandler DEF HandlerIsSound
<1>3. gone' \subseteq acked /\ gone \subseteq gone'
  BY <1>1 DEF Inv, TypeInv
<1> QED
  BY <1>1, <1>2, <1>3, LastWriteKeeps

LEMMA RemoveApplyKeeps ==
  ASSUME Inv, NEW h \in Handlers, RemoveApply(h)
  PROVE  Inv'
<1>1. /\ pc[h] = "removeApply" /\ WriteBack(h) /\ Return(h)
      /\ UNCHANGED <<mode, clock, budget, acked, uncapped>>
      /\ gone' = gone \cup (local[h].snap \ IdsOf(local[h].want))
  BY DEF RemoveApply
<1>2. gone' \subseteq acked /\ gone \subseteq gone'
  BY <1>1, OfHandler DEF Inv, TypeInv
<1>3. local[h].snap \subseteq IdsOf(local[h].want) \cup gone'
  BY <1>1
<1> QED
  BY <1>1, <1>2, <1>3, LastWriteKeeps

LEMMA PushedIs ==
  ASSUME NEW S, NEW s \in Seq(S), NEW e \in S
  PROVE  /\ Append(s, e) \in Seq(S) /\ Range(Append(s, e)) = Range(s) \cup {e}
         /\ IdsOf(Append(s, e)) = IdsOf(s) \cup {e.id}
<1> DEFINE q == Append(s, e)
<1>1. Len(s) \in Nat /\ DOMAIN s = 1..Len(s)
  OBVIOUS
<1>2. q \in Seq(S) /\ DOMAIN q = 1..(Len(s) + 1) /\ q[Len(s) + 1] = e
      /\ \A i \in 1..Len(s) : q[i] = s[i]
  OBVIOUS
<1>3. 1..(Len(s) + 1) = (1..Len(s)) \cup {Len(s) + 1}
  BY <1>1
<1> HIDE DEF q
<1>4. Range(q) = Range(s) \cup {e}
  BY <1>1, <1>2, <1>3 DEF Range
<1>5. IdsOf(q) = IdsOf(s) \cup {e.id}
  BY <1>4 DEF IdsOf
<1> QED
  BY <1>2, <1>4, <1>5 DEF q

LEMMA AddPushKeeps ==
  ASSUME Inv, NEW h \in Handlers, AddPush(h)
  PROVE  Inv'
<1> DEFINE e == local[h].entry
           p == IF e.grace THEN "mode" ELSE "relay"
<1>1. /\ TypeInv /\ HandlersAreSound /\ SongsAreApart /\ NoSubmissionLost
      /\ pc[h] = "push" /\ Goto(h, p) /\ local' = local
      /\ queue' = Append(queue, e) /\ acked' = acked \cup {e.id}
      /\ uncapped' \subseteq uncapped \cup {e.id}
      /\ UNCHANGED <<mode, clock, budget, gone>>
  BY DEF Inv, AddPush
<1>2. /\ OthersStay(h) /\ pc'[h] = p /\ local'[h] = local[h]
      /\ DOMAIN pc' = Handlers /\ DOMAIN local' = Handlers
  BY <1>1, StepStays
<1>3. /\ e \in MadeBy(clock) /\ e.id \in 1..Given
      /\ Submits(pc[h], local[h]) \/ Resubmits(pc[h], local[h])
  <2>1. Submits(pc[h], local[h]) \/ Resubmits(pc[h], local[h])
    BY <1>1 DEF Submits, Resubmits
  <2> QED
    BY <2>1, OfHandler DEF HandlerIsSound
<1>4. p \in {"mode", "relay"}
  OBVIOUS
<1> HIDE DEF p
<1>5. queue' \in Seq(MadeBy(clock)) /\ IdsOf(queue') = IdsOf(queue) \cup {e.id}
  <2>1. queue \in Seq(MadeBy(clock))
    BY <1>1 DEF TypeInv
  <2> QED
    BY <1>1, <1>3, <2>1, PushedIs
<1>6. Given' = Given /\ budget' \in [submits : 0..MaxSubmits, skips : Nat, edits : Nat]
  BY <1>1, GivenStays
<1>7. \A g \in Handlers \ {h} : Submits(pc[g], local[g]) => local[g].entry.id \notin acked'
  <2> SUFFICES ASSUME NEW g \in Handlers \ {h}, Submits(pc[g], local[g])
               PROVE  local[g].entry.id \notin acked /\ local[g].entry.id # e.id
    BY <1>1, Zenon
  <2>1. local[g].entry.id \notin acked
    BY OfHandler, Zenon DEF HandlerIsSound
  <2>2. CASE Submits(pc[h], local[h])
    BY <1>1, <2>1, <2>2, Zenon DEF SongsAreApart
  <2>3. CASE Resubmits(pc[h], local[h])
    <3>1. e.id \in acked
      BY <2>3, OfHandler, Zenon DEF HandlerIsSound
    <3> QED
      BY <2>1, <3>1, Zenon
  <2> QED
    BY <1>3, <2>1, <2>2, <2>3, Zenon
<1>8. HandlerIsSound(pc'[h], local'[h], clock', Given', acked') /\ ~Submits(pc'[h], local'[h])
  <2>1. local[h] \in Locals(clock) /\ local[h].snap \subseteq acked'
    BY <1>1, OfHandler
  <2>2. HandlerIsSound(p, local[h], clock, Given, acked') /\ ~Submits(p, local[h])
    BY <1>4, <2>1 DEF HandlerIsSound, Submits, Resubmits, Labels
  <2> QED
    BY <1>1, <1>2, <1>6, <2>2, Zenon
<1>9. HandlersAreSound' /\ SongsAreApart'
  <2>1. clock \in Nat /\ clock' \in Nat /\ clock <= clock' /\ Given \in Nat /\ Given' \in Nat
        /\ Given <= Given' /\ acked \subseteq acked'
    BY <1>1, <1>6, OfHandler
  <2> QED
    BY <1>1, <1>2, <1>7, <1>8, <2>1, StepOfOne
<1>10. TypeInv'
  <2>1. /\ IdsOf(queue') \subseteq acked' /\ acked' \subseteq 1..Given'
        /\ gone' \subseteq acked' /\ uncapped' \subseteq acked'
    BY <1>1, <1>3, <1>5, <1>6 DEF TypeInv
  <2>2. mode' \in Modes /\ clock' \in Nat /\ queue' \in Seq(MadeBy(clock'))
    BY <1>1, <1>5 DEF TypeInv
  <2> QED
    BY <1>2, <1>6, <2>1, <2>2 DEF TypeInv
<1>11. NoSubmissionLost'
  <2> SUFFICES ASSUME NEW i \in acked' PROVE i \in gone' \cup IdsOf(queue') \cup InHand'
    BY Zenon DEF NoSubmissionLost
  <2>1. CASE i = e.id
    BY <1>5, <2>1
  <2>2. CASE i # e.id
    <3>1. i \in gone \cup IdsOf(queue) \cup InHand
      BY <1>1, <2>2 DEF NoSubmissionLost
    <3>2. i \in InHand => i \in InHand'
      BY <1>2, <2>2, HandKeeps
    <3> QED
      BY <1>1, <1>5, <3>1, <3>2
  <2> QED
    BY <2>1, <2>2
<1> QED
  BY <1>9, <1>10, <1>11 DEF Inv

LEMMA AdvanceKeeps ==
  ASSUME Inv, Advance
  PROVE  Inv'
<1>1. /\ TypeInv /\ HandlersAreSound /\ SongsAreApart /\ NoSubmissionLost
      /\ queue # <<>> /\ queue' = Tail(queue) /\ gone' = gone \cup {Head(queue).id}
      /\ UNCHANGED <<mode, clock, pc, local, budget, acked, uncapped>>
  BY DEF Inv, Advance
<1>2. /\ queue' \in Seq(MadeBy(clock))
      /\ IdsOf(queue) = {Head(queue).id} \cup IdsOf(queue')
  <2>1. queue \in Seq(MadeBy(clock))
    BY <1>1 DEF TypeInv
  <2>2. Range(queue) = {Head(queue)} \cup Range(Tail(queue)) /\ Tail(queue) \in Seq(MadeBy(clock))
    BY <1>1, <2>1, HeadAndTail
  <2>3. IdsOf(queue) = {Head(queue).id} \cup IdsOf(Tail(queue))
    BY <2>2 DEF IdsOf
  <2> QED
    BY <1>1, <2>2, <2>3
<1>3. Given' = Given
  BY <1>1 DEF Given
<1>4. TypeInv'
  BY <1>1, <1>2, <1>3 DEF TypeInv
<1>5. HandlersAreSound'
  BY <1>1, <1>3, Zenon DEF HandlersAreSound
<1>6. SongsAreApart'
  BY <1>1, Zenon DEF SongsAreApart
<1>7. NoSubmissionLost'
  <2>1. InHand' = InHand
    BY <1>1, Zenon DEF InHand
  <2> QED
    BY <1>1, <1>2, <2>1 DEF NoSubmissionLost
<1> QED
  BY <1>4, <1>5, <1>6, <1>7 DEF Inv

LEMMA NextKeeps == Inv /\ [Next]_vars => Inv'
<1> SUFFICES ASSUME Inv, [Next]_vars PROVE Inv'
  OBVIOUS
<1>1. CASE Advance
  BY <1>1, AdvanceKeeps
<1>2. ASSUME NEW h \in Handlers,
             \/ \E x \in Songs : Submit(h, x)
             \/ SubmitCheck(h)
             \/ AddCheck(h)
             \/ AddPush(h)
             \/ ReadMode(h)
             \/ RelayRead(h)
             \/ ApplyOrder(h)
             \/ GraceSkip(h)
             \/ GraceRemoveRead(h)
             \/ GraceRemoveApply(h)
             \/ \E m \in Modes \ {mode} : SwitchMode(h, m)
             \/ \E id \in IdsOf(queue) : RemoveRead(h, id)
             \/ RemoveApply(h)
             \/ \E id \in IdsOf(queue), k \in 0..(Len(queue) - 1) : ReorderRead(h, id, k)
      PROVE  Inv'
  BY <1>2, SubmitKeeps, SubmitCheckKeeps, AddCheckKeeps, AddPushKeeps, ReadModeKeeps,
     RelayReadKeeps, ApplyOrderKeeps, GraceSkipKeeps, GraceRemoveReadKeeps,
     GraceRemoveApplyKeeps, SwitchModeKeeps, RemoveReadKeeps, RemoveApplyKeeps,
     ReorderReadKeeps, Zenon
<1>3. CASE UNCHANGED vars
  <2>1. UNCHANGED <<queue, mode, clock, pc, local, budget, acked, gone, uncapped>>
    BY <1>3 DEF vars
  <2>2. Given' = Given /\ InHand' = InHand
    BY <2>1 DEF Given, InHand
  <2> QED
    BY <2>1, <2>2 DEF Inv, TypeInv, HandlersAreSound, SongsAreApart, NoSubmissionLost
<1> QED
  BY <1>1, <1>2, <1>3, Zenon DEF Next

-----------------------------------------------------------------------------
(* The theorems that follow from it.                                       *)

LEMMA InvHolds == Spec => []Inv
<1>1. Init => Inv
  BY InitEstablishes
<1>2. Inv /\ [Next]_vars => Inv'
  BY NextKeeps
<1> QED
  BY <1>1, <1>2, PTL DEF Spec

\* A song whose push was acknowledged stays in the queue until it is played, removed by
\* the host or reported lost, whatever re-lays, reorders, removals, submissions and
\* grace skips run beside one another (addEntry, compareAndSwapOrder, removeEntry).
THEOREM NothingIsLost == Spec => []NoSubmissionLost
<1>1. Inv => NoSubmissionLost
  BY DEF Inv
<1> QED
  BY <1>1, InvHolds, PTL

\* Only a push adds an id to the queue, and it is the pushed one.
LEMMA OnlyAPushAdds ==
  ASSUME Inv, [Next]_vars, NEW i \in IdsOf(queue') \ IdsOf(queue)
  PROVE  \E h \in Handlers : AddPush(h) /\ i = local[h].entry.id
<1>1. queue \in Seq(MadeBy(clock))
  BY DEF Inv, TypeInv
<1>2. queue' # queue
  BY Zenon
<1>3. CASE Advance
  <2>1. Range(queue) = {Head(queue)} \cup Range(Tail(queue)) /\ queue' = Tail(queue)
    BY <1>1, <1>3, HeadAndTail DEF Advance
  <2>2. IdsOf(queue') \subseteq IdsOf(queue)
    BY <2>1 DEF IdsOf
  <2> QED
    BY <2>2
<1>4. ASSUME NEW h \in Handlers, WriteBack(h) PROVE FALSE
  <2>1. IdsOf(queue') \subseteq IdsOf(queue)
    BY <1>4, WriteBackKeeps
  <2> QED
    BY <2>1
<1>5. PICK h \in Handlers : AddPush(h)
  BY <1>2, <1>3, <1>4, Zenon DEF Next, vars, Submit, SubmitCheck, AddCheck, ReadMode, RelayRead,
     ApplyOrder, GraceSkip, GraceRemoveRead, GraceRemoveApply, SwitchMode, RemoveRead,
     RemoveApply, ReorderRead
<1>6. queue' = Append(queue, local[h].entry) /\ local[h].entry \in MadeBy(clock)
  <2>1. pc[h] = "push" /\ queue' = Append(queue, local[h].entry)
    BY <1>5 DEF AddPush
  <2> QED
    BY <2>1, OfHandler DEF HandlerIsSound, Submits, Resubmits
<1>7. IdsOf(queue') = IdsOf(queue) \cup {local[h].entry.id}
  BY <1>1, <1>6, PushedIs
<1> QED
  BY <1>5, <1>7

\* What left the queue comes back by no merge, re-lay, reorder or removal: only by the
\* push of a grace skip, which adds the no-show again (skip/route.ts).
THEOREM NothingComesBackAlone == Spec => OnlyGraceBringsBack
<1> DEFINE Back == (IdsOf(queue') \ IdsOf(queue)) \cap gone # {} =>
                     \E h \in Handlers : pc[h] = "push" /\ pc'[h] = "mode"
<1>1. ASSUME Inv, [Next]_vars PROVE Back
  <2> SUFFICES ASSUME NEW i \in IdsOf(queue') \ IdsOf(queue), i \in gone
               PROVE  \E h \in Handlers : pc[h] = "push" /\ pc'[h] = "mode"
    BY Zenon
  <2>1. PICK h \in Handlers : AddPush(h) /\ i = local[h].entry.id
    BY <1>1, OnlyAPushAdds, Zenon
  <2>2. pc[h] = "push" /\ i \in acked
    BY <1>1, <2>1 DEF AddPush, Inv, TypeInv
  <2>3. local[h].entry.grace
    BY <1>1, <2>1, <2>2, OfHandler DEF HandlerIsSound, Submits
  <2>4. pc' = [pc EXCEPT ![h] = "mode"] /\ DOMAIN pc = Handlers
    BY <1>1, <2>1, <2>3 DEF AddPush, Goto, Inv, TypeInv
  <2> QED
    BY <2>2, <2>4
<1>2. Inv /\ [Next]_vars => [Back]_vars
  BY <1>1, Zenon
<1> QED
  BY <1>2, InvHolds, PTL DEF Spec, OnlyGraceBringsBack, Back

-----------------------------------------------------------------------------
(* The caps.  The test and the push of a submission are apart, so a song is *)
(* counted from its test on; and the copies of a song that racing calls      *)
(* write agree on its singer and kind.                                       *)

\* The entries that a handler may yet write.
Held(p, l) ==
  Range(l.want) \cup (IF Submits(p, l) \/ Resubmits(p, l) THEN {l.entry} ELSE {})
Copies == Range(queue) \cup UNION {Held(pc[h], local[h]) : h \in Handlers}

\* All copies of a song have its singer and kind, and its id was given out.
CopiesAgree ==
  /\ \A e \in Copies : e.id \in 1..Given
  /\ \A e, f \in Copies : e.id = f.id => e.uuid = f.uuid /\ e.kind = f.kind

\* The ids of u's songs among the entries E.
SungBy(u, E) == {e.id : e \in {f \in E : f.uuid = u /\ f.kind = "sing"}}

\* A handler carries a no-show, or a submission that was accepted under the cap.
Carried(p, l) ==
  IF Resubmits(p, l) \/ (p \in {"add", "push"} /\ l.mode = "per-person-1") THEN {l.entry} ELSE {}
InTransit == UNION {Carried(pc[h], local[h]) : h \in Handlers}

PersonCount(u) == (SungBy(u, Range(queue)) \cup SungBy(u, InTransit)) \ uncapped
PersonsCapped ==
  \A u \in Participants :
    IsFiniteSet(PersonCount(u)) /\ Cardinality(PersonCount(u)) <= PER_PERSON_CAP + Cardinality(Handlers) - 1

\* The ids in the queue, and those that passed the test of its length.
QueueCount == IdsOf(queue) \cup {local[h].entry.id : h \in {g \in Handlers : pc[g] = "push"}}
QueueCapped ==
  IsFiniteSet(QueueCount) /\ Cardinality(QueueCount) <= QUEUE_MAX + Cardinality(Handlers) - 1

CapsInv == CopiesAgree /\ PersonsCapped /\ QueueCapped

Alike(c, d) == c.id = d.id /\ c.uuid = d.uuid /\ c.kind = d.kind

\* A step that makes no song of its own.
LEMMA CopiesStay ==
  ASSUME CopiesAgree, Given \in Nat, Given' \in Nat, Given <= Given',
         \A c \in Copies' : \E d \in Copies : Alike(c, d)
  PROVE  CopiesAgree'
<1>1. ASSUME NEW c \in Copies' PROVE c.id \in 1..Given'
  <2>1. PICK d \in Copies : Alike(c, d)
    OBVIOUS
  <2>2. d.id \in 1..Given /\ c.id = d.id
    BY <2>1 DEF Alike, CopiesAgree
  <2> QED
    BY <2>2
<1>2. ASSUME NEW c \in Copies', NEW e \in Copies', c.id = e.id
      PROVE  c.uuid = e.uuid /\ c.kind = e.kind
  <2>1. PICK d \in Copies : Alike(c, d)
    OBVIOUS
  <2>2. PICK f \in Copies : Alike(e, f)
    OBVIOUS
  <2> QED
    BY <1>2, <2>1, <2>2, ZenonT(40) DEF Alike, CopiesAgree
<1> QED
  BY <1>1, <1>2, Zenon DEF CopiesAgree

\* A part of a set has no more elements than are allowed to the set.
LEMMA FewerOf ==
  ASSUME NEW S, IsFiniteSet(S), NEW T \in SUBSET S, NEW n \in Int, Cardinality(S) <= n
  PROVE  IsFiniteSet(T) /\ Cardinality(T) <= n
<1>1. IsFiniteSet(T) /\ Cardinality(T) <= Cardinality(S)
  BY FS_Subset
<1>2. Cardinality(S) \in Nat /\ Cardinality(T) \in Nat
  BY <1>1, FS_CardinalityType
<1> QED
  BY <1>1, <1>2

\* The overshoot of a cap by racing requests is a number.
LEMMA CapsAreNumbers ==
  /\ PER_PERSON_CAP \in Nat \ {0} /\ QUEUE_MAX \in Nat /\ Cardinality(Handlers) \in Nat
  /\ PER_PERSON_CAP + Cardinality(Handlers) - 1 \in Int
  /\ QUEUE_MAX + Cardinality(Handlers) - 1 \in Int
<1>1. PER_PERSON_CAP \in Nat \ {0} /\ QUEUE_MAX \in Nat /\ Cardinality(Handlers) \in Nat
  BY CapAssumption, BoundsAssumption, HandlersAssumption, FS_CardinalityType
<1> QED
  BY <1>1

\* A person's songs grow only by what was counted.
LEMMA PersonStays ==
  ASSUME NEW u \in Participants, PersonsCapped, uncapped \subseteq uncapped',
         \A c \in Range(queue') \cup InTransit' :
           c.id \in uncapped' \/ \E d \in Range(queue) \cup InTransit : Alike(c, d)
  PROVE  /\ IsFiniteSet(PersonCount(u)')
         /\ Cardinality(PersonCount(u)') <= PER_PERSON_CAP + Cardinality(Handlers) - 1
<1> DEFINE S == PersonCount(u)
           T == PersonCount(u)'
<1>1. IsFiniteSet(S) /\ Cardinality(S) <= PER_PERSON_CAP + Cardinality(Handlers) - 1
  BY DEF PersonsCapped
<1>2. T \subseteq S
  <2> SUFFICES ASSUME NEW i \in T PROVE i \in S
    OBVIOUS
  <2>1. PICK c \in Range(queue') \cup InTransit' :
          i = c.id /\ c.uuid = u /\ c.kind = "sing" /\ i \notin uncapped'
    BY DEF PersonCount, SungBy
  <2>2. PICK d \in Range(queue) \cup InTransit : Alike(c, d)
    BY <2>1
  <2> QED
    BY <2>1, <2>2 DEF PersonCount, SungBy, Alike
<1>3. T \in SUBSET S
  BY <1>2
<1> HIDE DEF S, T
<1>4. IsFiniteSet(T) /\ Cardinality(T) <= PER_PERSON_CAP + Cardinality(Handlers) - 1
  BY <1>1, <1>3, CapsAreNumbers, FewerOf
<1> QED
  BY <1>4 DEF T

LEMMA QueueStays ==
  ASSUME QueueCapped, QueueCount' \subseteq QueueCount
  PROVE  QueueCapped'
<1> DEFINE S == QueueCount
           T == QueueCount'
<1>1. /\ IsFiniteSet(S) /\ Cardinality(S) <= QUEUE_MAX + Cardinality(Handlers) - 1
      /\ T \in SUBSET S
  BY DEF QueueCapped
<1> HIDE DEF S, T
<1>2. IsFiniteSet(T) /\ Cardinality(T) <= QUEUE_MAX + Cardinality(Handlers) - 1
  BY <1>1, CapsAreNumbers, FewerOf
<1> QED
  BY <1>2 DEF T, QueueCapped

\* A step after which nothing is counted that was not counted before.
LEMMA CapsStay ==
  ASSUME CapsInv, Given \in Nat, Given' \in Nat, Given <= Given',
         \A c \in Copies' : \E d \in Copies : Alike(c, d),
         uncapped \subseteq uncapped',
         \A c \in Range(queue') \cup InTransit' :
           c.id \in uncapped' \/ \E d \in Range(queue) \cup InTransit : Alike(c, d),
         QueueCount' \subseteq QueueCount
  PROVE  CapsInv'
<1>1. CopiesAgree /\ PersonsCapped /\ QueueCapped
  BY DEF CapsInv
<1>2. CopiesAgree'
  BY <1>1, CopiesStay
<1>3. PersonsCapped'
  <2> SUFFICES ASSUME NEW u \in Participants
               PROVE  /\ IsFiniteSet(PersonCount(u)')
                      /\ Cardinality(PersonCount(u)') <= PER_PERSON_CAP + Cardinality(Handlers) - 1
    BY Zenon DEF PersonsCapped
  <2> QED
    BY <1>1, PersonStays
<1>4. QueueCapped'
  BY <1>1, QueueStays
<1> QED
  BY <1>2, <1>3, <1>4 DEF CapsInv

\* The copies and the songs in transit, when only the handler h steps.
LEMMA OfOthers ==
  ASSUME NEW h \in Handlers, OthersStay(h)
  PROVE  /\ Copies' \subseteq Copies \cup Range(queue') \cup Held(pc'[h], local'[h])
         /\ InTransit' \subseteq InTransit \cup Carried(pc'[h], local'[h])
         /\ QueueCount' \subseteq
              QueueCount \cup IdsOf(queue') \cup (IF pc'[h] = "push" THEN {local'[h].entry.id} ELSE {})
         /\ Held(pc[h], local[h]) \subseteq Copies /\ Carried(pc[h], local[h]) \subseteq InTransit
         /\ pc[h] = "push" => local[h].entry.id \in QueueCount
<1>1. \A g \in Handlers \ {h} : /\ Held(pc'[g], local'[g]) = Held(pc[g], local[g])
                               /\ Carried(pc'[g], local'[g]) = Carried(pc[g], local[g])
                               /\ pc'[g] = pc[g] /\ local'[g] = local[g]
  BY Zenon DEF OthersStay
<1>2. Copies' = Range(queue') \cup UNION {Held(pc'[g], local'[g]) : g \in Handlers}
  BY Zenon DEF Copies
<1>3. InTransit' = UNION {Carried(pc'[g], local'[g]) : g \in Handlers}
  BY Zenon DEF InTransit
<1>4. QueueCount' = IdsOf(queue') \cup {local'[f].entry.id : f \in {g \in Handlers : pc'[g] = "push"}}
  BY Zenon DEF QueueCount
<1>5. Copies' \subseteq Copies \cup Range(queue') \cup Held(pc'[h], local'[h])
  BY <1>1, <1>2 DEF Copies
<1>6. InTransit' \subseteq InTransit \cup Carried(pc'[h], local'[h])
  BY <1>1, <1>3 DEF InTransit
<1>7. QueueCount' \subseteq
        QueueCount \cup IdsOf(queue') \cup (IF pc'[h] = "push" THEN {local'[h].entry.id} ELSE {})
  BY <1>1, <1>4 DEF QueueCount
<1>8. Held(pc[h], local[h]) \subseteq Copies /\ Carried(pc[h], local[h]) \subseteq InTransit
  BY DEF Copies, InTransit
<1>9. pc[h] = "push" => local[h].entry.id \in QueueCount
  BY DEF QueueCount
<1> QED
  BY <1>5, <1>6, <1>7, <1>8, <1>9

\* The same, in terms of the queue and of the handler that steps.
LEMMA StepCaps ==
  ASSUME CapsInv, Given \in Nat, Given' \in Nat, Given <= Given', uncapped \subseteq uncapped',
         NEW h \in Handlers, OthersStay(h),
         \A c \in Range(queue') \cup Held(pc'[h], local'[h]) : \E d \in Copies : Alike(c, d),
         \A c \in Range(queue') \cup Carried(pc'[h], local'[h]) :
           c.id \in uncapped' \/ \E d \in Range(queue) \cup InTransit : Alike(c, d),
         IdsOf(queue') \subseteq QueueCount,
         pc'[h] = "push" => local'[h].entry.id \in QueueCount
  PROVE  CapsInv'
<1>1. \A c : Alike(c, c)
  BY DEF Alike
<1>2. \A c \in Copies' : \E d \in Copies : Alike(c, d)
  BY <1>1, OfOthers
<1>3. \A c \in Range(queue') \cup InTransit' :
        c.id \in uncapped' \/ \E d \in Range(queue) \cup InTransit : Alike(c, d)
  BY <1>1, OfOthers
<1>4. QueueCount' \subseteq QueueCount
  BY OfOthers
<1> QED
  BY <1>2, <1>3, <1>4, CapsStay

\* What the script writes back are copies, of songs that are still queued.
LEMMA WrittenAreQueued ==
  ASSUME Inv, CapsInv, NEW h \in Handlers, WriteBack(h), NEW c \in Range(queue')
  PROVE  c \in Copies /\ \E d \in Range(queue) : Alike(c, d)
<1>1. c \in Range(queue) \cup Range(local[h].want) /\ IdsOf(queue') \subseteq IdsOf(queue)
  BY WriteBackKeeps
<1>2. c \in Copies
  BY <1>1 DEF Copies, Held
<1>3. PICK d \in Range(queue) : d.id = c.id
  BY <1>1 DEF IdsOf
<1>4. d \in Copies
  BY DEF Copies
<1> QED
  BY <1>2, <1>3, <1>4, Zenon DEF Alike, CapsInv, CopiesAgree

LEMMA NothingHeld ==
  Held("idle", NoLocal) = {} /\ Carried("idle", NoLocal) = {}
<1>1. Range(NoLocal.want) = {}
  BY DEF NoLocal, Range
<1> QED
  BY <1>1 DEF Held, Carried, Submits, Resubmits

\* A handler that returns, after it wrote the list or without a change to it.
LEMMA ReturnCaps ==
  ASSUME Inv, CapsInv, NEW h \in Handlers, Return(h), queue' = queue \/ WriteBack(h),
         Given' = Given, uncapped' = uncapped
  PROVE  CapsInv'
<1>1. TypeInv /\ Given \in Nat
  BY Counts DEF Inv
<1>2. OthersStay(h) /\ pc'[h] = "idle" /\ local'[h] = NoLocal
  BY <1>1, StepReturns
<1>3. Held(pc'[h], local'[h]) = {} /\ Carried(pc'[h], local'[h]) = {}
  BY <1>2, NothingHeld
<1>4. \A c \in Range(queue') : c \in Copies /\ \E d \in Range(queue) : Alike(c, d)
  <2>1. CASE queue' = queue
    BY <2>1 DEF Copies, Alike
  <2>2. CASE WriteBack(h)
    BY <2>2, WrittenAreQueued
  <2> QED
    BY <2>1, <2>2
<1>5. IdsOf(queue') \subseteq QueueCount
  BY <1>4 DEF IdsOf, QueueCount, Alike
<1>6. \A c : Alike(c, c)
  BY DEF Alike
<1> QED
  BY <1>1, <1>2, <1>3, <1>4, <1>5, <1>6, StepCaps

LEMMA ReadingMoves ==
  ASSUME Inv, NEW h \in Handlers, NEW d, NEW p, ReadList(h, d, p)
  PROVE  /\ OthersStay(h) /\ pc'[h] = p
         /\ local'[h] = Fields(local[h].entry, local[h].mode, d, IdsOf(queue))
<1> DEFINE l == Fields(local[h].entry, local[h].mode, d, IdsOf(queue))
<1>1. Becomes(local, [local EXCEPT ![h].want = d, ![h].snap = IdsOf(queue)], Handlers, h, l)
  BY OfHandler, TwoChanges, Zenon
<1>2. Becomes(local, local', Handlers, h, l)
  BY <1>1, Zenon DEF ReadList
<1>3. TypeInv /\ Goto(h, p)
  BY DEF Inv, ReadList
<1> HIDE DEF l
<1> QED
  BY <1>2, <1>3, StepMoves DEF l

LEMMA ReadingCaps ==
  ASSUME Inv, CapsInv, NEW h \in Handlers, NEW d, NEW p, ReadList(h, d, p),
         Range(d) \subseteq Range(queue),
         p \in {"relayApply", "reorderApply", "removeApply", "removeHeadApply"},
         p = "removeHeadApply" => pc[h] = "removeHead",
         queue' = queue, Given' = Given, uncapped' = uncapped
  PROVE  CapsInv'
<1> DEFINE l == Fields(local[h].entry, local[h].mode, d, IdsOf(queue))
<1>1. OthersStay(h) /\ pc'[h] = p /\ local'[h] = l
  BY ReadingMoves
<1>2. l.entry = local[h].entry /\ l.want = d
  BY DEF Fields
<1> HIDE DEF l
<1>3. Range(queue) \subseteq Copies
  BY DEF Copies
<1>4. CASE p = "removeHeadApply"
  <2>1. /\ Held(p, l) \subseteq Range(queue) \cup Held(pc[h], local[h])
        /\ Carried(p, l) \subseteq Carried(pc[h], local[h])
    BY <1>2, <1>4 DEF Held, Carried, Submits, Resubmits
  <2>2. Held(p, l) \subseteq Copies /\ Carried(p, l) \subseteq InTransit /\ p # "push"
    BY <1>1, <1>3, <1>4, <2>1, OfOthers
  <2> QED
    BY <1>1, <1>3, <2>2, StepCaps, Counts DEF Alike, QueueCount, Inv
<1>5. CASE p # "removeHeadApply"
  <2>1. Held(p, l) \subseteq Range(queue) /\ Carried(p, l) = {} /\ p # "push"
    BY <1>2, <1>5 DEF Held, Carried, Submits, Resubmits
  <2> QED
    BY <1>1, <1>3, <2>1, StepCaps, Counts DEF Alike, QueueCount, Inv
<1> QED
  BY <1>4, <1>5

LEMMA ReadCaps ==
  ASSUME Inv, CapsInv, NEW h \in Handlers,
         \/ RelayRead(h)
         \/ \E id \in IdsOf(queue) : RemoveRead(h, id)
         \/ \E id \in IdsOf(queue), k \in 0..(Len(queue) - 1) : ReorderRead(h, id, k)
  PROVE  CapsInv'
<1>1. TypeInv /\ queue \in Seq(MadeBy(clock))
  BY DEF Inv, TypeInv
<1>2. CASE RelayRead(h)
  <2>1. queue' = queue /\ Given' = Given /\ uncapped' = uncapped
    BY <1>2 DEF RelayRead, Given, history
  <2>2. CASE Return(h)
    BY <2>1, <2>2, ReturnCaps
  <2>3. CASE ReadList(h, OrderQueue(queue, local[h].mode), "relayApply")
    <3> DEFINE d == OrderQueue(queue, local[h].mode)
               p == "relayApply"
    <3>1. ReadList(h, d, p) /\ Range(d) \subseteq Range(queue)
          /\ p \in {"relayApply", "reorderApply", "removeApply", "removeHeadApply"}
          /\ p # "removeHeadApply"
      BY <1>1, <2>3, OrderOfQueue
    <3> HIDE DEF d, p
    <3> QED
      BY <2>1, <3>1, ReadingCaps
  <2> QED
    BY <1>2, <2>2, <2>3, Zenon DEF RelayRead
<1>3. ASSUME NEW id \in IdsOf(queue), RemoveRead(h, id) PROVE CapsInv'
  <2> DEFINE d == Outside(queue, {id})
             p == "removeApply"
  <2>1. /\ ReadList(h, d, p) /\ queue' = queue /\ Spend("edits") /\ uncapped' = uncapped
        /\ p \in {"relayApply", "reorderApply", "removeApply", "removeHeadApply"}
        /\ p # "removeHeadApply"
    BY <1>3 DEF RemoveRead, history
  <2>2. Range(d) \subseteq Range(queue)
    BY <1>1, OutsideKeeps
  <2> HIDE DEF d, p
  <2>3. Given' = Given
    BY <1>1, <2>1, GivenStays
  <2> QED
    BY <2>1, <2>2, <2>3, ReadingCaps
<1>4. ASSUME NEW id \in IdsOf(queue), NEW k \in 0..(Len(queue) - 1), ReorderRead(h, id, k)
      PROVE  CapsInv'
  <2> DEFINE i == First(queue, id)
             d == Moved(queue, i, k)
             p == "reorderApply"
  <2>1. /\ queue' = queue /\ Spend("edits") /\ uncapped' = uncapped
        /\ p \in {"relayApply", "reorderApply", "removeApply", "removeHeadApply"}
        /\ p # "removeHeadApply"
    BY <1>4 DEF ReorderRead, history
  <2>2. ReadList(h, d, p)
    BY <1>4, Zenon DEF ReorderRead, First, Moved
  <2>3. i \in DOMAIN queue
    BY <1>1, FirstIsThere, Zenon
  <2>4. Range(d) = Range(queue)
    BY <1>1, <2>3, MovedKeeps, Zenon
  <2> HIDE DEF d, p
  <2>5. Given' = Given
    BY <1>1, <2>1, GivenStays
  <2> QED
    BY <2>1, <2>2, <2>4, <2>5, ReadingCaps
<1> QED
  BY <1>2, <1>3, <1>4, Zenon

LEMMA LastWriteCaps ==
  ASSUME Inv, CapsInv, NEW h \in Handlers, ApplyOrder(h) \/ RemoveApply(h)
  PROVE  CapsInv'
<1>1. WriteBack(h) /\ Return(h) /\ Given' = Given /\ uncapped' = uncapped
  BY DEF ApplyOrder, RemoveApply, Given, history
<1> QED
  BY <1>1, ReturnCaps

LEMMA ModeCaps ==
  ASSUME Inv, CapsInv, NEW h \in Handlers, NEW m, Goto(h, "relay"),
         local' = [local EXCEPT ![h].mode = m],
         queue' = queue, Given' = Given, uncapped' = uncapped
  PROVE  CapsInv'
<1> DEFINE l == Fields(local[h].entry, m, local[h].want, local[h].snap)
<1>1. Becomes(local, [local EXCEPT ![h].mode = m], Handlers, h, l)
  BY OfHandler, FieldChanges, Zenon
<1>2. Becomes(local, local', Handlers, h, l) /\ TypeInv
  BY <1>1, Zenon DEF Inv
<1>3. OthersStay(h) /\ pc'[h] = "relay" /\ local'[h] = l
  BY <1>2, StepMoves
<1>4. l.want = local[h].want
  BY DEF Fields
<1> HIDE DEF l
<1>5. Held("relay", l) \subseteq Held(pc[h], local[h]) /\ Carried("relay", l) = {}
  BY <1>4 DEF Held, Carried, Submits, Resubmits
<1>6. Held("relay", l) \subseteq Copies
  BY <1>3, <1>5, OfOthers
<1>7. Range(queue) \subseteq Copies
  BY DEF Copies
<1> QED
  BY <1>2, <1>3, <1>5, <1>6, <1>7, StepCaps, Counts DEF Alike, QueueCount

\* A no-show on its way.
LEMMA NoShowCaps ==
  ASSUME Inv, CapsInv, NEW h \in Handlers, NEW p \in {"removeHead", "add"}, Goto(h, p),
         NEW e, NEW w, NEW s, NEW d \in Range(queue) \cup Carried(pc[h], local[h]), Alike(e, d),
         Range(w) \subseteq Range(local[h].want),
         Becomes(local, local', Handlers, h, Fields(e, local[h].mode, w, s)),
         p = "add" => e.grace, queue' = queue \/ WriteBack(h),
         Given' = Given, uncapped' = uncapped
  PROVE  CapsInv'
<1> DEFINE l == Fields(e, local[h].mode, w, s)
<1>1. TypeInv /\ Given \in Nat
  BY Counts DEF Inv
<1>2. OthersStay(h) /\ pc'[h] = p /\ local'[h] = l
  BY <1>1, StepMoves
<1>3. l.want = w /\ l.entry = e
  BY DEF Fields
<1> HIDE DEF l
<1>4. Held(p, l) = Range(w) \cup {e} /\ Carried(p, l) = {e}
  BY <1>3 DEF Held, Carried, Submits, Resubmits
<1>5. Carried(pc[h], local[h]) \subseteq Held(pc[h], local[h])
  BY DEF Held, Carried, Submits, Resubmits
<1>6. d \in Copies /\ d \in Range(queue) \cup InTransit /\ Range(w) \subseteq Copies
  <2>1. Range(local[h].want) \subseteq Held(pc[h], local[h])
    BY DEF Held
  <2> QED
    BY <1>2, <1>5, <2>1, OfOthers DEF Copies
<1>7. \A c \in Range(queue') : c \in Copies /\ \E f \in Range(queue) : Alike(c, f)
  <2>1. CASE queue' = queue
    BY <2>1 DEF Copies, Alike
  <2>2. CASE WriteBack(h)
    BY <2>2, WrittenAreQueued
  <2> QED
    BY <2>1, <2>2
<1>8. IdsOf(queue') \subseteq QueueCount
  BY <1>7 DEF IdsOf, QueueCount, Alike
<1>9. \A c : Alike(c, c)
  BY DEF Alike
<1> QED
  BY <1>1, <1>2, <1>4, <1>6, <1>7, <1>8, <1>9, StepCaps

LEMMA GraceCaps ==
  ASSUME Inv, CapsInv, NEW h \in Handlers,
         GraceSkip(h) \/ GraceRemoveRead(h) \/ GraceRemoveApply(h)
  PROVE  CapsInv'
<1> DEFINE e == local[h].entry
           r == Regraced(h)
           m == local[h].mode
           w == local[h].want
           s == local[h].snap
<1>1. TypeInv /\ queue \in Seq(MadeBy(clock)) /\ DOMAIN local = Handlers
      /\ local[h] = Fields(e, m, w, s)
  BY OfHandler DEF Inv, TypeInv
<1>2. CASE GraceSkip(h)
  <2> DEFINE f == Head(queue)
             p == "removeHead"
  <2>1. /\ Goto(h, p) /\ queue' = queue /\ uncapped' = uncapped /\ Spend("skips") /\ queue # <<>>
        /\ local' = [local EXCEPT ![h].entry = f]
    BY <1>2 DEF GraceSkip, history
  <2>2. f \in Range(queue)
    BY <1>1, <2>1 DEF Range
  <2>3. Given' = Given
    BY <1>1, <2>1, GivenStays
  <2>4. Alike(f, f) /\ p \in {"removeHead", "add"} /\ p # "add"
    BY DEF Alike
  <2> HIDE DEF f, p
  <2>5. Becomes(local, local', Handlers, h, Fields(f, m, w, s))
    BY <1>1, <2>1, FieldChanges, Zenon
  <2> QED
    BY <2>1, <2>2, <2>3, <2>4, <2>5, NoShowCaps
<1>3. ASSUME pc[h] \in {"removeHead", "removeHeadApply"}
      PROVE  /\ e \in Carried(pc[h], local[h]) /\ Alike(r, e) /\ r.grace
             /\ "add" \in {"removeHead", "add"}
  <2>1. e \in MadeBy(clock) /\ clock \in Nat
    BY <1>3, OfHandler DEF HandlerIsSound, Resubmits
  <2>2. r.id = e.id /\ r.uuid = e.uuid /\ r.kind = e.kind /\ r.grace
    BY <2>1, RegracedIs
  <2> HIDE DEF r
  <2> QED
    BY <1>3, <2>2 DEF Alike, Carried, Resubmits
<1>4. CASE GraceRemoveRead(h)
  <2>1. pc[h] = "removeHead" /\ queue' = queue /\ Given' = Given /\ uncapped' = uncapped
    BY <1>4 DEF GraceRemoveRead, Given, history
  <2>2. CASE ReadList(h, Outside(queue, {e.id}), "removeHeadApply")
    <3> DEFINE d == Outside(queue, {e.id})
               p == "removeHeadApply"
    <3>1. Range(d) \subseteq Range(queue)
      BY <1>1, OutsideKeeps
    <3>2. ReadList(h, d, p) /\ p \in {"relayApply", "reorderApply", "removeApply", "removeHeadApply"}
      BY <2>2
    <3> HIDE DEF d, p
    <3> QED
      BY <2>1, <3>1, <3>2, ReadingCaps
  <2>3. CASE local' = [local EXCEPT ![h].entry = r] /\ Goto(h, "add")
    <3>1. Becomes(local, local', Handlers, h, Fields(r, m, w, s))
      BY <1>1, <2>3, FieldChanges, Zenon
    <3>2. Range(w) \subseteq Range(local[h].want)
      OBVIOUS
    <3>3. e \in Carried(pc[h], local[h]) /\ Alike(r, e) /\ r.grace
      BY <1>3, <2>1
    <3> HIDE DEF e, r, w, m, s
    <3> QED
      BY <2>1, <2>3, <3>1, <3>2, <3>3, NoShowCaps DEF m
  <2> QED
    BY <1>4, <2>2, <2>3, Zenon DEF GraceRemoveRead
<1>5. CASE GraceRemoveApply(h)
  <2> DEFINE x == <<>>
             y == {}
  <2>1. /\ pc[h] = "removeHeadApply" /\ WriteBack(h) /\ Goto(h, "add")
        /\ Given' = Given /\ uncapped' = uncapped
    BY <1>5 DEF GraceRemoveApply, Given, history
  <2>2. Range(x) \subseteq Range(w)
    BY DEF Range
  <2>3. local' = [local EXCEPT ![h].entry = r, ![h].want = x, ![h].snap = y]
    BY <1>5, Zenon DEF GraceRemoveApply
  <2> HIDE DEF x, y
  <2> DEFINE k == [local EXCEPT ![h].entry = r]
  <2>4. local' = [k EXCEPT ![h].want = x, ![h].snap = y]
    BY <2>3
  <2> HIDE DEF r, e, m, w, s
  <2>5. Becomes(local, k, Handlers, h, Fields(r, m, w, s))
    BY <1>1, FieldChanges
  <2> HIDE DEF k
  <2>6. DOMAIN k = Handlers /\ k[h] = Fields(r, m, w, s)
    BY <2>5 DEF Becomes
  <2>7. Becomes(k, [k EXCEPT ![h].want = x, ![h].snap = y], Handlers, h, Fields(r, m, x, y))
    BY <2>6, TwoChanges
  <2>8. Becomes(k, local', Handlers, h, Fields(r, m, x, y))
    BY <2>4, <2>7, Zenon
  <2>9. Becomes(local, local', Handlers, h, Fields(r, m, x, y))
    BY <2>5, <2>8 DEF Becomes
  <2>10. e \in Carried(pc[h], local[h]) /\ Alike(r, e) /\ r.grace
    BY <1>3, <2>1
  <2> QED
    BY <2>1, <2>2, <2>9, <2>10, NoShowCaps DEF m, w
<1> QED
  BY <1>2, <1>4, <1>5

\* A submission that passes the person cap finds fewer songs of its singer queued.
LEMMA CheckCounts ==
  ASSUME NEW s \in Seq(QueueEntry), NEW x, x.kind = "sing", CheckSubmit(s, x, "per-person-1")
  PROVE  /\ IsFiniteSet(SungBy(x.uuid, Range(s)))
         /\ Cardinality(SungBy(x.uuid, Range(s))) <= PER_PERSON_CAP - 1
<1> DEFINE u == x.uuid
           t == SortedByTime(s)
           E == EngineEntries(t)
           F == {e \in QueuedSings(E) : e.uuid = u}
<1>1. t \in Seq(QueueEntry) /\ Range(t) = Range(s)
  <2>1. \A y \in QueueEntry : y.at \in Int
    BY DEF QueueEntry
  <2> QED
    BY <2>1, SortedByTimeKeeps
<1>2. ~AtCap(F, PER_PERSON_CAP)
  <2>1. Accepts("per-person-1", E, x)
    BY Zenon DEF CheckSubmit
  <2>2. ~CapViolation("per-person-1", E, x)
    BY <2>1, Zenon DEF Accepts
  <2> HIDE DEF E
  <2> QED
    BY <2>2, Zenon DEF CapViolation
<1>3. /\ E = {[id |-> t[i].id, uuid |-> t[i].uuid, table |-> t[i].table, video |-> t[i].video,
               kind |-> t[i].kind, grace |-> t[i].grace, seq |-> i] : i \in DOMAIN t}
      /\ IsFiniteSet(E)
  <2> HIDE DEF t
  <2>1. Numbered(E)
    BY <1>1, EngineEntriesOf
  <2> QED
    BY <2>1 DEF Numbered, EngineEntries
<1> HIDE DEF t
<1>4. F \in SUBSET E
  BY DEF QueuedSings
<1>5. \A d \in Range(s) : d.uuid = u /\ d.kind = "sing" => \E e \in F : e.id = d.id
  <2> SUFFICES ASSUME NEW d \in Range(s), d.uuid = u, d.kind = "sing" PROVE \E e \in F : e.id = d.id
    OBVIOUS
  <2>1. PICK i \in DOMAIN t : d = t[i]
    BY <1>1 DEF Range
  <2> DEFINE e == [id |-> t[i].id, uuid |-> t[i].uuid, table |-> t[i].table, video |-> t[i].video,
                   kind |-> t[i].kind, grace |-> t[i].grace, seq |-> i]
  <2>2. e \in E
    BY <1>3
  <2>3. e.uuid = u /\ e.kind = "sing" /\ e.id = d.id
    BY <2>1
  <2> HIDE DEF e, E
  <2> QED
    BY <2>2, <2>3 DEF QueuedSings
<1> HIDE DEF E
<1>6. IsFiniteSet(F)
  BY <1>3, <1>4, FS_Subset
<1> HIDE DEF F
<1> DEFINE f == [e \in F |-> e.id]
           G == {f[e] : e \in F}
<1>7. SungBy(u, Range(s)) \in SUBSET G
  <2>1. G = {e.id : e \in F}
    OBVIOUS
  <2> HIDE DEF G
  <2> QED
    BY <1>5, <2>1 DEF SungBy
<1>8. IsFiniteSet(G) /\ Cardinality(G) <= Cardinality(F)
  <2> HIDE DEF f
  <2> QED
    BY <1>6, ImageIsFinite
<1> HIDE DEF G
<1>9. /\ IsFiniteSet(SungBy(u, Range(s)))
      /\ Cardinality(SungBy(u, Range(s))) <= Cardinality(G)
  BY <1>7, <1>8, FS_Subset
<1> DEFINE a == Cardinality(SungBy(u, Range(s)))
           b == Cardinality(G)
           c == Cardinality(F)
<1>10. a \in Nat /\ b \in Nat /\ c \in Nat /\ a <= b /\ b <= c /\ PER_PERSON_CAP \in Nat
       /\ ~(c >= PER_PERSON_CAP)
  BY <1>2, <1>6, <1>8, <1>9, FS_CardinalityType, CapAssumption DEF AtCap
<1> HIDE DEF a, b, c
<1>11. a <= PER_PERSON_CAP - 1
  BY <1>10
<1> QED
  BY <1>9, <1>11 DEF a

\* A set of n ids and one id for each handler are at most n and the number of handlers.
LEMMA OneEach ==
  ASSUME NEW A, IsFiniteSet(A), NEW B, NEW f, B \subseteq {f[h] : h \in Handlers},
         NEW n \in Int, Cardinality(A) <= n
  PROVE  /\ IsFiniteSet(A \cup B) /\ IsFiniteSet(B)
         /\ Cardinality(A \cup B) <= n + Cardinality(Handlers)
<1> DEFINE G == {f[h] : h \in Handlers}
           H == Cardinality(Handlers)
<1>1. IsFiniteSet(G) /\ Cardinality(G) <= H
  BY HandlersAssumption, ImageIsFinite
<1>2. B \in SUBSET G
  OBVIOUS
<1> HIDE DEF G
<1>3. IsFiniteSet(B) /\ Cardinality(B) <= Cardinality(G)
  BY <1>1, <1>2, FS_Subset
<1>4. /\ IsFiniteSet(A \cup B) /\ IsFiniteSet(A \cap B)
      /\ Cardinality(A \cup B) = Cardinality(A) + Cardinality(B) - Cardinality(A \cap B)
  <2>1. A \cap B \in SUBSET A
    OBVIOUS
  <2> QED
    BY <1>3, <2>1, FS_Union, FS_Subset
<1> DEFINE a == Cardinality(A)
           b == Cardinality(B)
           c == Cardinality(A \cap B)
           d == Cardinality(A \cup B)
           g == Cardinality(G)
<1>5. a \in Nat /\ b \in Nat /\ c \in Nat /\ g \in Nat /\ H \in Nat /\ d = a + b - c /\ b <= g
      /\ g <= H /\ a <= n
  BY <1>1, <1>3, <1>4, HandlersAssumption, FS_CardinalityType
<1> HIDE DEF a, b, c, d, g, H
<1>6. d <= n + H
  BY <1>5
<1> QED
  BY <1>3, <1>4, <1>6 DEF d, H

\* A submission that is not checked yet counts for nothing; its id is new.
LEMMA SubmitCaps ==
  ASSUME Inv, CapsInv, NEW h \in Handlers, NEW x \in Songs, Submit(h, x)
  PROVE  CapsInv'
<1>1. Inv' /\ TypeInv /\ CopiesAgree /\ PersonsCapped /\ QueueCapped
  BY SubmitKeeps DEF Inv, CapsInv
<1>2. /\ Spend("submits") /\ Goto(h, "check") /\ queue' = queue /\ uncapped' = uncapped
  BY DEF Submit, history
<1>3. Given \in Nat /\ Given' = Given + 1
  <2>1. budget \in [submits : 0..MaxSubmits, skips : Nat, edits : Nat]
    BY <1>1 DEF TypeInv
  <2>2. budget'.submits = budget.submits - 1
    BY <1>2, <2>1 DEF Spend
  <2> DEFINE k == Len(Opening)
             b == budget.submits
             c == budget'.submits
  <2>3. Given = k + MaxSubmits - b /\ Given' = k + MaxSubmits - c
    BY DEF Given
  <2>4. k \in Nat /\ MaxSubmits \in Nat /\ b \in Int /\ c = b - 1 /\ Given \in Nat
    BY <1>1, <2>1, <2>2, Counts
  <2> HIDE DEF k, b, c
  <2> QED
    BY <2>3, <2>4
<1> DEFINE e == Entry(x, Given + 1, clock + 1)
           l == Fields(e, mode, local[h].want, local[h].snap)
<1>4. Becomes(local, local', Handlers, h, l)
  <2>1. Len(Opening) + MaxSubmits - budget'["submits"] = Given + 1
    BY <1>3 DEF Given
  <2>2. local' = [local EXCEPT ![h].entry = e, ![h].mode = mode]
    BY <2>1, Zenon DEF Submit
  <2> HIDE DEF e
  <2> QED
    BY <2>2, OfHandler, TwoChanges, Zenon
<1>5. e.id = Given + 1 /\ l.entry = e /\ l.want = local[h].want
  BY DEF Entry, Fields
<1> HIDE DEF e, l
<1>6. OthersStay(h) /\ pc'[h] = "check" /\ local'[h] = l
  BY <1>1, <1>2, <1>4, StepMoves
<1>7. Held("check", l) = Range(local[h].want) \cup {e} /\ Carried("check", l) = {}
  BY <1>5 DEF Held, Carried, Submits, Resubmits
<1>8. Copies' \subseteq Copies \cup {e}
  <2>1. Range(local[h].want) \subseteq Held(pc[h], local[h])
    BY DEF Held
  <2>2. Range(queue) \subseteq Copies
    BY DEF Copies
  <2> QED
    BY <1>2, <1>6, <1>7, <2>1, <2>2, OfOthers
<1>9. \A c \in Copies : c.id \in 1..Given /\ c.id \in 1..Given' /\ c.id # e.id
  BY <1>1, <1>3, <1>5 DEF CopiesAgree
<1>10. CopiesAgree'
  <2>1. \A c \in Copies' : c.id \in 1..Given'
    BY <1>3, <1>5, <1>8, <1>9
  <2>2. \A c, d \in Copies' : c.id = d.id => c.uuid = d.uuid /\ c.kind = d.kind
    BY <1>1, <1>8, <1>9, Zenon DEF CopiesAgree
  <2> QED
    BY <2>1, <2>2, Zenon DEF CopiesAgree
<1>11. PersonsCapped'
  <2> SUFFICES ASSUME NEW u \in Participants
               PROVE  /\ IsFiniteSet(PersonCount(u)')
                      /\ Cardinality(PersonCount(u)') <= PER_PERSON_CAP + Cardinality(Handlers) - 1
    BY Zenon DEF PersonsCapped
  <2>1. InTransit' \subseteq InTransit
    BY <1>6, <1>7, OfOthers
  <2>2. \A c : Alike(c, c)
    BY DEF Alike
  <2>3. \A c \in Range(queue') \cup InTransit' : \E d \in Range(queue) \cup InTransit : Alike(c, d)
    BY <1>2, <2>1, <2>2
  <2> QED
    BY <1>1, <1>2, <2>3, PersonStays
<1>12. QueueCapped'
  <2>1. QueueCount' \subseteq QueueCount
    BY <1>2, <1>6, OfOthers DEF QueueCount
  <2> QED
    BY <1>1, <2>1, QueueStays
<1> QED
  BY <1>10, <1>11, <1>12 DEF CapsInv

\* The test of the person cap counts what is queued; each other request may carry one more.
LEMMA SubmitCheckCaps ==
  ASSUME Inv, CapsInv, NEW h \in Handlers, SubmitCheck(h)
  PROVE  CapsInv'
<1>1. TypeInv /\ CopiesAgree /\ PersonsCapped /\ QueueCapped /\ Given \in Nat
  BY Counts DEF Inv, CapsInv
<1>2. pc[h] = "check" /\ queue' = queue /\ Given' = Given /\ uncapped' = uncapped
  BY DEF SubmitCheck, history, Given
<1>3. CASE Return(h)
  BY <1>2, <1>3, ReturnCaps
<1>4. CASE CheckSubmit(queue, local[h].entry, local[h].mode) /\ Goto(h, "add") /\ UNCHANGED local
  <2> DEFINE e == local[h].entry
  <2>1. OthersStay(h) /\ pc'[h] = "add" /\ local'[h] = local[h]
    BY <1>1, <1>4, StepStays
  <2>2. ~e.grace
    BY <1>2, OfHandler, Zenon DEF HandlerIsSound
  <2>3. /\ Held("add", local[h]) = Held(pc[h], local[h])
        /\ Carried("add", local[h]) = IF local[h].mode = "per-person-1" THEN {e} ELSE {}
    BY <1>2, <2>2 DEF Held, Carried, Submits, Resubmits
  <2>4. \A c : Alike(c, c)
    BY DEF Alike
  <2>5. \A c \in Copies' : \E d \in Copies : Alike(c, d)
    <3>1. Copies' \subseteq Copies
      BY <1>2, <2>1, <2>3, OfOthers DEF Copies
    <3> QED
      BY <2>4, <3>1
  <2>6. CopiesAgree'
    BY <1>1, <1>2, <2>5, CopiesStay
  <2>7. QueueCapped'
    <3>1. QueueCount' \subseteq QueueCount
      BY <1>2, <2>1, OfOthers DEF QueueCount
    <3> QED
      BY <1>1, <3>1, QueueStays
  <2>8. PersonsCapped'
    <3> SUFFICES ASSUME NEW u \in Participants
                 PROVE  /\ IsFiniteSet(PersonCount(u)')
                        /\ Cardinality(PersonCount(u)') <= PER_PERSON_CAP + Cardinality(Handlers) - 1
      BY Zenon DEF PersonsCapped
    <3>1. CASE local[h].mode = "per-person-1" /\ e.uuid = u /\ e.kind = "sing"
      <4> DEFINE A == SungBy(u, Range(queue)) \ uncapped
                 B == SungBy(u, InTransit') \ uncapped
                 f == [g \in Handlers |-> local'[g].entry.id]
      <4>1. queue \in Seq(QueueEntry)
        <5>1. queue \in Seq(MadeBy(clock))
          BY <1>1 DEF TypeInv
        <5>2. Range(queue) \subseteq QueueEntry
          BY <5>1 DEF MadeBy, Range
        <5> QED
          BY <5>1, <5>2, SeqOfRange
      <4>2. /\ IsFiniteSet(SungBy(u, Range(queue)))
            /\ Cardinality(SungBy(u, Range(queue))) <= PER_PERSON_CAP - 1
        BY <1>4, <3>1, <4>1, CheckCounts
      <4>3. PER_PERSON_CAP \in Nat /\ PER_PERSON_CAP - 1 \in Int
        BY CapAssumption
      <4>4. IsFiniteSet(A) /\ Cardinality(A) <= PER_PERSON_CAP - 1
        <5> DEFINE S == SungBy(u, Range(queue))
                   n == PER_PERSON_CAP - 1
        <5>1. A \in SUBSET S /\ IsFiniteSet(S) /\ n \in Int /\ Cardinality(S) <= n
          BY <4>2, <4>3
        <5> HIDE DEF A, S, n
        <5>2. IsFiniteSet(A) /\ Cardinality(A) <= n
          BY <5>1, FewerOf
        <5> QED
          BY <5>2 DEF n
      <4>5. B \subseteq {f[g] : g \in Handlers}
        <5> SUFFICES ASSUME NEW i \in B PROVE \E g \in Handlers : i = local'[g].entry.id
          OBVIOUS
        <5>1. PICK c \in InTransit' : i = c.id
          BY DEF SungBy
        <5>2. PICK g \in Handlers : c \in Carried(pc'[g], local'[g])
          BY Zenon DEF InTransit
        <5> QED
          BY <5>1, <5>2 DEF Carried
      <4>6. PersonCount(u)' = A \cup B
        BY <1>2 DEF PersonCount
      <4> HIDE DEF A, B, f
      <4> DEFINE n == PER_PERSON_CAP - 1
      <4>7. n \in Int /\ Cardinality(A) <= n
        BY <4>3, <4>4
      <4> HIDE DEF n
      <4>8. IsFiniteSet(A \cup B) /\ Cardinality(A \cup B) <= n + Cardinality(Handlers)
        BY <4>4, <4>5, <4>7, OneEach
      <4>9. IsFiniteSet(PersonCount(u)') /\ Cardinality(PersonCount(u)') <= n + Cardinality(Handlers)
        BY <4>6, <4>8
      <4>10. n + Cardinality(Handlers) = PER_PERSON_CAP + Cardinality(Handlers) - 1
        BY <4>3, HandlersAssumption, FS_CardinalityType DEF n
      <4> QED
        BY <4>9, <4>10
    <3>2. CASE ~(local[h].mode = "per-person-1" /\ e.uuid = u /\ e.kind = "sing")
      <4>1. PersonCount(u)' \subseteq PersonCount(u)
        <5>1. InTransit' \subseteq InTransit \cup Carried("add", local[h])
          BY <2>1, OfOthers
        <5> QED
          BY <1>2, <2>3, <3>2, <5>1 DEF PersonCount, SungBy
      <4> DEFINE S == PersonCount(u)
                 T == PersonCount(u)'
      <4>2. IsFiniteSet(S) /\ Cardinality(S) <= PER_PERSON_CAP + Cardinality(Handlers) - 1
            /\ T \in SUBSET S
        BY <1>1, <4>1 DEF PersonsCapped
      <4> HIDE DEF S, T
      <4>3. IsFiniteSet(T) /\ Cardinality(T) <= PER_PERSON_CAP + Cardinality(Handlers) - 1
        BY <4>2, CapsAreNumbers, FewerOf
      <4> QED
        BY <4>3 DEF T
    <3> QED
      BY <3>1, <3>2
  <2> QED
    BY <2>6, <2>7, <2>8 DEF CapsInv
<1> QED
  BY <1>3, <1>4, Zenon DEF SubmitCheck

LEMMA IdsAreFew ==
  ASSUME NEW S, NEW s \in Seq(S)
  PROVE  IsFiniteSet(IdsOf(s)) /\ Cardinality(IdsOf(s)) <= Len(s)
<1> DEFINE n == Len(s)
           f == [i \in 1..n |-> s[i].id]
<1>1. n \in Nat /\ DOMAIN s = 1..n
  OBVIOUS
<1>2. IdsOf(s) = {f[i] : i \in 1..n}
  BY <1>1 DEF IdsOf, Range
<1> HIDE DEF n, f
<1>3. IsFiniteSet(1..n) /\ Cardinality(1..n) = n
  BY <1>1, FS_Interval
<1>4. IsFiniteSet({f[i] : i \in 1..n}) /\ Cardinality({f[i] : i \in 1..n}) <= n
  BY <1>3, ImageIsFinite
<1> QED
  BY <1>2, <1>4 DEF n

\* The test of the queue's length counts what is queued; each other request may push.
LEMMA AddCheckCaps ==
  ASSUME Inv, CapsInv, NEW h \in Handlers, AddCheck(h)
  PROVE  CapsInv'
<1>1. TypeInv /\ CopiesAgree /\ PersonsCapped /\ QueueCapped /\ Given \in Nat
  BY Counts DEF Inv, CapsInv
<1>2. pc[h] = "add" /\ queue' = queue /\ Given' = Given /\ uncapped' = uncapped
  BY DEF AddCheck, Given
<1>3. CASE Return(h)
  BY <1>2, <1>3, ReturnCaps
<1>4. CASE HasRoom /\ Goto(h, "push") /\ UNCHANGED local
  <2>1. OthersStay(h) /\ pc'[h] = "push" /\ local'[h] = local[h]
    BY <1>1, <1>4, StepStays
  <2>2. /\ Held("push", local[h]) = Held(pc[h], local[h])
        /\ Carried("push", local[h]) = Carried(pc[h], local[h])
    BY <1>2 DEF Held, Carried, Submits, Resubmits
  <2>3. Copies' \subseteq Copies /\ InTransit' \subseteq InTransit
    BY <1>2, <2>1, <2>2, OfOthers DEF Copies
  <2>4. \A c : Alike(c, c)
    BY DEF Alike
  <2>5. CopiesAgree'
    <3>1. \A c \in Copies' : \E d \in Copies : Alike(c, d)
      BY <2>3, <2>4
    <3> QED
      BY <1>1, <1>2, <3>1, CopiesStay
  <2>6. PersonsCapped'
    <3> SUFFICES ASSUME NEW u \in Participants
                 PROVE  /\ IsFiniteSet(PersonCount(u)')
                        /\ Cardinality(PersonCount(u)') <= PER_PERSON_CAP + Cardinality(Handlers) - 1
      BY Zenon DEF PersonsCapped
    <3>1. \A c \in Range(queue') \cup InTransit' : \E d \in Range(queue) \cup InTransit : Alike(c, d)
      BY <1>2, <2>3, <2>4
    <3> QED
      BY <1>1, <1>2, <3>1, PersonStays
  <2>7. QueueCapped'
    <3> DEFINE A == IdsOf(queue)
               B == {local'[f].entry.id : f \in {g \in Handlers : pc'[g] = "push"}}
               F == [g \in Handlers |-> local'[g].entry.id]
               n == QUEUE_MAX - 1
    <3>1. queue \in Seq(MadeBy(clock))
      BY <1>1 DEF TypeInv
    <3>2. Len(queue) \in Nat /\ Len(queue) < QUEUE_MAX /\ QUEUE_MAX \in Nat
      BY <1>4, <3>1, BoundsAssumption DEF HasRoom
    <3>3. IsFiniteSet(A) /\ Cardinality(A) <= Len(queue)
      BY <3>1, IdsAreFew
    <3>4. n \in Int /\ Cardinality(A) <= n
      <4>1. Cardinality(A) \in Nat
        BY <3>3, FS_CardinalityType
      <4> HIDE DEF A
      <4> QED
        BY <3>2, <3>3, <4>1
    <3>5. B \subseteq {F[g] : g \in Handlers}
      OBVIOUS
    <3>6. QueueCount' = A \cup B
      BY <1>2 DEF QueueCount
    <3> HIDE DEF A, B, F, n
    <3>7. IsFiniteSet(A \cup B) /\ Cardinality(A \cup B) <= n + Cardinality(Handlers)
      BY <3>3, <3>4, <3>5, OneEach
    <3>8. n + Cardinality(Handlers) = QUEUE_MAX + Cardinality(Handlers) - 1
      BY <3>2, HandlersAssumption, FS_CardinalityType DEF n
    <3>9. IsFiniteSet(QueueCount') /\ Cardinality(QueueCount') <= QUEUE_MAX + Cardinality(Handlers) - 1
      BY <3>6, <3>7, <3>8
    <3> QED
      BY <3>9 DEF QueueCapped
  <2> QED
    BY <2>5, <2>6, <2>7 DEF CapsInv
<1> QED
  BY <1>3, <1>4, Zenon DEF AddCheck

\* What is pushed was counted before, unless it was accepted without the cap.
LEMMA AddPushCaps ==
  ASSUME Inv, CapsInv, NEW h \in Handlers, AddPush(h)
  PROVE  CapsInv'
<1> DEFINE e == local[h].entry
           p == IF e.grace THEN "mode" ELSE "relay"
<1>1. /\ TypeInv /\ Given \in Nat /\ pc[h] = "push" /\ Goto(h, p) /\ local' = local
      /\ queue' = Append(queue, e) /\ Given' = Given
      /\ uncapped' = IF e.grace \/ local[h].mode = "per-person-1"
                     THEN uncapped ELSE uncapped \cup {e.id}
  BY Counts DEF Inv, AddPush, Given
<1>2. OthersStay(h) /\ pc'[h] = p /\ local'[h] = local[h]
  BY <1>1, StepStays
<1>3. p \in {"mode", "relay"}
  OBVIOUS
<1> HIDE DEF p
<1>4. Held(p, local[h]) \subseteq Held(pc[h], local[h]) /\ Carried(p, local[h]) = {}
  BY <1>3 DEF Held, Carried, Submits, Resubmits
<1>5. e \in Held(pc[h], local[h])
  BY <1>1 DEF Held, Submits, Resubmits
<1>6. e.grace \/ local[h].mode = "per-person-1" => e \in Carried(pc[h], local[h])
  BY <1>1 DEF Carried, Resubmits
<1>7. e \in MadeBy(clock)
  BY <1>1, OfHandler DEF HandlerIsSound, Submits, Resubmits
<1>8. Range(queue') = Range(queue) \cup {e} /\ IdsOf(queue') = IdsOf(queue) \cup {e.id}
  BY <1>1, <1>7, PushedIs DEF TypeInv
<1>9. \A c : Alike(c, c)
  BY DEF Alike
<1>10. \A c \in Range(queue') \cup Held(pc'[h], local'[h]) : \E d \in Copies : Alike(c, d)
  <2>1. Range(queue) \subseteq Copies /\ Held(pc[h], local[h]) \subseteq Copies
    BY <1>2, OfOthers DEF Copies
  <2> QED
    BY <1>2, <1>4, <1>5, <1>8, <1>9, <2>1
<1>11. \A c \in Range(queue') \cup Carried(pc'[h], local'[h]) :
         c.id \in uncapped' \/ \E d \in Range(queue) \cup InTransit : Alike(c, d)
  <2>1. e.id \in uncapped' \/ e \in InTransit
    BY <1>1, <1>2, <1>6, OfOthers
  <2> QED
    BY <1>2, <1>4, <1>8, <1>9, <2>1
<1>12. IdsOf(queue') \subseteq QueueCount /\ pc'[h] # "push"
  <2>1. e.id \in QueueCount
    BY <1>1, <1>2, OfOthers
  <2> QED
    BY <1>2, <1>3, <1>8, <2>1 DEF QueueCount
<1>13. uncapped \subseteq uncapped' /\ Given' \in Nat /\ Given <= Given'
  BY <1>1
<1> QED
  BY <1>1, <1>2, <1>10, <1>11, <1>12, <1>13, StepCaps

LEMMA AdvanceCaps ==
  ASSUME Inv, CapsInv, Advance
  PROVE  CapsInv'
<1>1. /\ TypeInv /\ Given \in Nat /\ queue # <<>> /\ queue' = Tail(queue)
      /\ pc' = pc /\ local' = local /\ uncapped' = uncapped /\ Given' = Given
  BY Counts DEF Inv, Advance, Given
<1>2. Range(queue') \subseteq Range(queue)
  BY <1>1, HeadAndTail DEF TypeInv
<1>3. Copies' = Range(queue') \cup UNION {Held(pc[h], local[h]) : h \in Handlers}
  BY <1>1, Zenon DEF Copies
<1>4. InTransit' = InTransit
  BY <1>1, Zenon DEF InTransit
<1>5. QueueCount' = IdsOf(queue') \cup {local[h].entry.id : h \in {g \in Handlers : pc[g] = "push"}}
  BY <1>1, Zenon DEF QueueCount
<1>6. Copies' \subseteq Copies /\ QueueCount' \subseteq QueueCount
  BY <1>2, <1>3, <1>5 DEF Copies, QueueCount, IdsOf
<1>7. \A c : Alike(c, c)
  BY DEF Alike
<1>8. /\ \A c \in Copies' : \E d \in Copies : Alike(c, d)
      /\ \A c \in Range(queue') \cup InTransit' : \E d \in Range(queue) \cup InTransit : Alike(c, d)
  BY <1>2, <1>4, <1>6, <1>7
<1> QED
  BY <1>1, <1>6, <1>8, CapsStay

\* The queue starts within its caps: no more songs of a person under the person cap, and
\* no more songs at all, than racing requests may leave.
OpeningWithinCaps ==
  /\ "per-person-1" \in Modes =>
       \A u \in Participants :
         Cardinality({i \in DOMAIN Opening : Opening[i].uuid = u /\ Opening[i].kind = "sing"})
           <= PER_PERSON_CAP + Cardinality(Handlers) - 1
  /\ Len(Opening) <= QUEUE_MAX + Cardinality(Handlers) - 1

LEMMA InitCaps ==
  ASSUME OpeningWithinCaps, Init
  PROVE  CapsInv
<1> DEFINE n == Len(Opening)
<1>1. /\ n \in Nat /\ DOMAIN Opening = 1..n /\ Cardinality(Handlers) \in Nat /\ QUEUE_MAX \in Nat
      /\ PER_PERSON_CAP \in Nat \ {0}
  BY SongsAssumption, BoundsAssumption, HandlersAssumption, CapAssumption, FS_CardinalityType
<1>2. /\ \A h \in Handlers : pc[h] = "idle" /\ local[h] = NoLocal
      /\ mode \in Modes /\ queue = OrderQueue(OpeningEntries, mode)
      /\ uncapped = IF mode = "per-person-1" THEN {} ELSE 1..n
  BY <1>1, Zenon DEF Init, OpeningEntries
<1>3. Given = n
  <2>1. MaxSubmits \in Nat /\ budget.submits = MaxSubmits
    BY BoundsAssumption DEF Init
  <2> QED
    BY <1>1, <2>1 DEF Given
<1>4. Range(queue) \subseteq Range(OpeningEntries) /\ IdsOf(queue) = 1..n
  BY <1>2, OpeningIsQueued
<1>5. \A e \in Range(queue) :
        e.id \in 1..n /\ e.uuid = Opening[e.id].uuid /\ e.kind = Opening[e.id].kind
  <2> TAKE e \in Range(queue)
  <2>1. PICK i \in 1..n : e = Entry(Opening[i], i, i)
    BY <1>1, <1>4 DEF OpeningEntries, Range
  <2> QED
    BY <2>1 DEF Entry
<1> HIDE DEF n
<1>6. Copies = Range(queue) /\ InTransit = {} /\ QueueCount = 1..n
  <2>1. \A h \in Handlers : /\ Held(pc[h], local[h]) = {} /\ Carried(pc[h], local[h]) = {}
                           /\ pc[h] # "push"
    BY <1>2, NothingHeld
  <2> QED
    BY <1>4, <2>1 DEF Copies, InTransit, QueueCount
<1>7. CopiesAgree
  BY <1>3, <1>5, <1>6 DEF CopiesAgree
<1>8. PersonsCapped
  <2> SUFFICES ASSUME NEW u \in Participants
               PROVE  /\ IsFiniteSet(PersonCount(u))
                      /\ Cardinality(PersonCount(u)) <= PER_PERSON_CAP + Cardinality(Handlers) - 1
    BY Zenon DEF PersonsCapped
  <2> DEFINE T == PersonCount(u)
             S == {i \in DOMAIN Opening : Opening[i].uuid = u /\ Opening[i].kind = "sing"}
  <2>1. CASE mode = "per-person-1"
    <3>1. T \in SUBSET S /\ S \in SUBSET (1..n)
      BY <1>1, <1>5, <1>6 DEF PersonCount, SungBy
    <3>2. Cardinality(S) <= PER_PERSON_CAP + Cardinality(Handlers) - 1
      BY <1>2, <2>1 DEF OpeningWithinCaps
    <3> HIDE DEF S, T
    <3>3. IsFiniteSet(1..n)
      BY <1>1, FS_Interval
    <3>4. IsFiniteSet(S)
      BY <3>1, <3>3, FS_Subset
    <3>5. IsFiniteSet(T) /\ Cardinality(T) <= PER_PERSON_CAP + Cardinality(Handlers) - 1
      BY <3>1, <3>2, <3>4, CapsAreNumbers, FewerOf
    <3> QED
      BY <3>5 DEF T
  <2>2. CASE mode # "per-person-1"
    <3>1. T = {}
      BY <1>2, <1>5, <1>6, <2>2 DEF PersonCount, SungBy
    <3>2. IsFiniteSet(T) /\ Cardinality(T) = 0
      BY <3>1, FS_EmptySet
    <3> HIDE DEF T
    <3>3. Cardinality(T) <= PER_PERSON_CAP + Cardinality(Handlers) - 1
      BY <1>1, <3>2
    <3> QED
      BY <3>2, <3>3 DEF T
  <2> QED
    BY <2>1, <2>2
<1>9. QueueCapped
  <2>1. IsFiniteSet(1..n) /\ Cardinality(1..n) = n
    BY <1>1, FS_Interval
  <2>2. n <= QUEUE_MAX + Cardinality(Handlers) - 1
    BY DEF OpeningWithinCaps, n
  <2> QED
    BY <1>6, <2>1, <2>2 DEF QueueCapped
<1> QED
  BY <1>7, <1>8, <1>9 DEF CapsInv

LEMMA NextCaps == Inv /\ CapsInv /\ [Next]_vars => CapsInv'
<1> SUFFICES ASSUME Inv, CapsInv, [Next]_vars PROVE CapsInv'
  OBVIOUS
<1>1. CASE Advance
  BY <1>1, AdvanceCaps
<1>2. ASSUME NEW h \in Handlers, ReadMode(h) PROVE CapsInv'
  <2>1. /\ Goto(h, "relay") /\ local' = [local EXCEPT ![h].mode = mode]
        /\ queue' = queue /\ Given' = Given /\ uncapped' = uncapped
    BY <1>2 DEF ReadMode, history, Given
  <2> QED
    BY <2>1, ModeCaps
<1>3. ASSUME NEW h \in Handlers, NEW m \in Modes, SwitchMode(h, m) PROVE CapsInv'
  <2>1. /\ Goto(h, "relay") /\ local' = [local EXCEPT ![h].mode = m]
        /\ queue' = queue /\ uncapped' = uncapped /\ Spend("edits")
    BY <1>3 DEF SwitchMode, history
  <2>2. Given' = Given
    BY <2>1, GivenStays DEF Inv
  <2> QED
    BY <2>1, <2>2, ModeCaps
<1>4. CASE UNCHANGED vars
  <2>1. /\ pc' = pc /\ local' = local /\ queue' = queue /\ uncapped' = uncapped /\ Given' = Given
    BY <1>4 DEF vars, Given
  <2>2. Copies' = Copies /\ InTransit' = InTransit /\ QueueCount' = QueueCount
    BY <2>1, Zenon DEF Copies, InTransit, QueueCount
  <2>3. \A c : Alike(c, c)
    BY DEF Alike
  <2>4. Given \in Nat
    BY Counts DEF Inv
  <2> QED
    BY <2>1, <2>2, <2>3, <2>4, CapsStay
<1> QED
  BY <1>1, <1>2, <1>3, <1>4, SubmitCaps, SubmitCheckCaps, AddCheckCaps, AddPushCaps, ReadCaps,
     LastWriteCaps, GraceCaps, Zenon DEF Next

\* Every handler is at one of its steps.
Labelled == pc \in [Handlers -> Labels]

LEMMA LabelsHold == Spec => []Labelled
<1>1. Init => Labelled
  BY DEF Init, Labels, Labelled
<1>2. ASSUME NEW h \in Handlers, NEW p \in Labels, Labelled, Goto(h, p)
      PROVE  Labelled'
  BY <1>2 DEF Goto, Labelled
<1>3. Labelled /\ [Next]_vars => Labelled'
  <2> SUFFICES ASSUME Labelled, [Next]_vars
               PROVE  pc' = pc \/ \E h \in Handlers, p \in Labels : Goto(h, p)
    BY <1>2, Zenon DEF Labelled
  <2>1. /\ "idle" \in Labels /\ "check" \in Labels /\ "add" \in Labels /\ "push" \in Labels
        /\ "mode" \in Labels /\ "relay" \in Labels /\ "relayApply" \in Labels
        /\ "removeHead" \in Labels /\ "removeHeadApply" \in Labels
        /\ "removeApply" \in Labels /\ "reorderApply" \in Labels
    BY DEF Labels
  <2>2. CASE Advance \/ UNCHANGED vars
    BY <2>2, Zenon DEF Advance, vars
  <2>3. ASSUME NEW h \in Handlers,
               \/ \E x \in Songs : Submit(h, x)
               \/ SubmitCheck(h) \/ AddCheck(h) \/ ReadMode(h) \/ RelayRead(h) \/ ApplyOrder(h)
        PROVE  \E p \in Labels : Goto(h, p)
    BY <2>1, <2>3, Zenon DEF Submit, SubmitCheck, AddCheck, ReadMode, RelayRead, ApplyOrder,
       Return, ReadList
  <2>4. ASSUME NEW h \in Handlers, AddPush(h) PROVE \E p \in Labels : Goto(h, p)
    <3>1. (IF local[h].entry.grace THEN "mode" ELSE "relay") \in Labels
      BY <2>1
    <3> QED
      BY <2>4, <3>1, Zenon DEF AddPush
  <2>5. ASSUME NEW h \in Handlers,
               \/ GraceSkip(h) \/ GraceRemoveRead(h) \/ GraceRemoveApply(h)
               \/ \E m \in Modes \ {mode} : SwitchMode(h, m)
               \/ \E id \in IdsOf(queue) : RemoveRead(h, id)
               \/ RemoveApply(h)
               \/ \E id \in IdsOf(queue), k \in 0..(Len(queue) - 1) : ReorderRead(h, id, k)
        PROVE  \E p \in Labels : Goto(h, p)
    BY <2>1, <2>5, Zenon DEF GraceSkip, GraceRemoveRead, GraceRemoveApply, SwitchMode,
       RemoveRead, RemoveApply, ReorderRead, Return, ReadList
  <2> QED
    BY <2>2, <2>3, <2>4, <2>5, Zenon DEF Next
<1> QED
  BY <1>1, <1>3, PTL DEF Spec

\* The check of a submission and its push are apart (queue/route.ts): racing requests
\* overshoot the person cap and the bound of the queue by one song each, and no more,
\* however many requests race, in whatever modes and after whatever edits, when the
\* queue starts within those bounds.
THEOREM RacesOvershootByOneEach ==
  ASSUME OpeningWithinCaps
  PROVE  Spec => []CapsOvershootBoundedly
<1>1. Init => CapsInv
  BY InitCaps
<1>2. Inv /\ CapsInv /\ [Next]_vars => CapsInv'
  BY NextCaps
<1>3. ASSUME Inv, CapsInv, Labelled PROVE CapsOvershootBoundedly
  <2>1. TypeOK
    <3>1. TypeInv
      BY <1>3 DEF Inv
    <3>2. /\ clock \in Nat /\ Given \in Nat /\ acked \subseteq 1..Given /\ 1..Given \subseteq Ids
      BY <3>1, Counts
    <3>3. acked \subseteq Ids
      BY <3>2
    <3>4. \A e \in Range(queue) :
            e.id \in Ids /\ e.uuid \in Participants /\ e.kind \in Kinds /\ e.at \in 1..clock
      <4>1. Range(queue) \subseteq MadeBy(clock)
        BY <3>1 DEF TypeInv, Range
      <4> QED
        BY <4>1 DEF MadeBy, QueueEntry
    <3>5. \A h \in Handlers : local[h].mode \in VenueModes /\ local[h].snap \subseteq Ids
      BY <1>3, OfHandler
    <3> QED
      BY <1>3, <3>1, <3>3, <3>4, <3>5, Zenon DEF TypeOK, TypeInv, Labels, Labelled
  <2>2. PersonCapOvershoot
    <3> SUFFICES ASSUME NEW u \in Participants
                 PROVE  Cardinality({e.id : e \in {f \in Range(queue) : f.uuid = u /\ f.kind = "sing"}}
                                      \ uncapped)
                          <= PER_PERSON_CAP + Cardinality(Handlers) - 1
      BY Zenon DEF PersonCapOvershoot
    <3> DEFINE S == PersonCount(u)
               T == SungBy(u, Range(queue)) \ uncapped
    <3>1. /\ IsFiniteSet(S) /\ Cardinality(S) <= PER_PERSON_CAP + Cardinality(Handlers) - 1
          /\ T \in SUBSET S
      BY <1>3 DEF CapsInv, PersonsCapped, PersonCount
    <3> HIDE DEF S, T
    <3>2. Cardinality(T) <= PER_PERSON_CAP + Cardinality(Handlers) - 1
      BY <3>1, CapsAreNumbers, FewerOf
    <3> QED
      BY <3>2 DEF T, SungBy
  <2>3. QueueBound
    <3> DEFINE S == QueueCount
               T == IdsOf(queue)
    <3>1. /\ IsFiniteSet(S) /\ Cardinality(S) <= QUEUE_MAX + Cardinality(Handlers) - 1
          /\ T \in SUBSET S
      BY <1>3 DEF CapsInv, QueueCapped, QueueCount
    <3> HIDE DEF S, T
    <3>2. Cardinality(T) <= QUEUE_MAX + Cardinality(Handlers) - 1
      BY <3>1, CapsAreNumbers, FewerOf
    <3> QED
      BY <3>2 DEF T, QueueBound
  <2> QED
    BY <2>1, <2>2, <2>3 DEF CapsOvershootBoundedly
<1> QED
  BY <1>1, <1>2, <1>3, InvHolds, LabelsHold, PTL DEF Spec
-----------------------------------------------------------------------------
(* A quiet re-lay restores the order.  What it writes is the order of the    *)
(* list that it read, and the order of a list without copies depends on its  *)
(* head and on its entries, not on how they lay: no two songs have one time. *)

\* When the list still holds the ids that were read, the script writes what is wanted.
LEMMA MergeAll ==
  ASSUME NEW S, NEW q \in Seq(S), NEW want \in Seq(S), NEW snap,
         IdsOf(want) \subseteq IdsOf(q), IdsOf(q) \subseteq snap
  PROVE  Merge(q, want, snap) = want
<1> DEFINE T == {e \in Range(want) : e.id \in IdsOf(q)}
           U == {e \in Range(q) : e.id \notin snap}
<1>1. Range(want) \subseteq T /\ Range(q) \cap U = {}
  BY DEF IdsOf
<1>2. Merge(q, want, snap) = Kept(want, T) \o Kept(q, U)
  BY DEF Merge, Outside
<1> HIDE DEF T, U
<1>3. Kept(want, T) = want /\ Kept(q, U) = <<>>
  BY <1>1, KeptAll, KeptNone
<1>4. want \o <<>> = want
  OBVIOUS
<1> QED
  BY <1>2, <1>3, <1>4

\* The entries of S by their times, and no two of one time.
ByTime(S) == {p \in S \X S : p[1].at < p[2].at}
TimesDiffer(S) == \A c, d \in S : c.at = d.at => c = d

LEMMA TimesOrder ==
  ASSUME NEW S, \A x \in S : x.at \in Int, TimesDiffer(S)
  PROVE  Orders(ByTime(S), S)
<1>1. \A x, y \in S : <<x, y>> \in ByTime(S) <=> x.at < y.at
  BY DEF ByTime
<1>2. \A x \in S : <<x, x>> \notin ByTime(S)
  BY <1>1
<1>3. \A x, y, z \in S : <<x, y>> \in ByTime(S) /\ <<y, z>> \in ByTime(S) => <<x, z>> \in ByTime(S)
  BY <1>1
<1>4. \A x, y \in S : x # y => <<x, y>> \in ByTime(S) \/ <<y, x>> \in ByTime(S)
  BY <1>1 DEF TimesDiffer
<1> QED
  BY <1>2, <1>3, <1>4, Zenon DEF Orders

\* In a sorted list without copies the k-th item has k - 1 items before it.
LEMMA SortedIsRanked ==
  ASSUME NEW S, NEW s \in Seq(S), \A x \in S : x.at \in Int, IsInjective(s), TimesDiffer(Range(s))
  PROVE  /\ SortedByTime(s) \in [1..Len(s) -> Range(s)]
         /\ \A k \in 1..Len(s) :
              Cardinality(Preceding(ByTime(Range(s)), Range(s), SortedByTime(s)[k])) = k - 1
<1> DEFINE n == Len(s)
           P(i) == Preceding(ByTime(Range(s)), Range(s), s[i])
           J(i) == {j \in 1..n : Earlier(s, j, i)}
<1>1. /\ n \in Nat /\ DOMAIN s = 1..n
      /\ \A i \in 1..n : i \in Int /\ s[i] \in S /\ s[i].at \in Int /\ s[i] \in Range(s)
  BY DEF Range
<1>2. PICK index : Places(s, index)
  BY SortedPlaces
<1>3. /\ index \in [1..n -> 1..n] /\ \A k \in 1..n : Cardinality(J(index[k])) = k - 1
      /\ SortedByTime(s) = [k \in 1..n |-> s[index[k]]]
  BY <1>2 DEF Places
<1>4. IsFiniteSet(1..n)
  <2> HIDE DEF n
  <2> QED
    BY <1>1, FS_Interval
<1> HIDE DEF n
<1>5. ASSUME NEW i \in 1..n PROVE Cardinality(P(i)) = Cardinality(J(i))
  <2>1. \A j \in 1..n : Earlier(s, j, i) <=> s[j].at < s[i].at
    BY <1>1 DEF Earlier, TimesDiffer, IsInjective
  <2>2. P(i) = {d \in Range(s) : d.at < s[i].at}
    BY <1>1 DEF Preceding, ByTime
  <2> DEFINE f == [j \in J(i) |-> s[j]]
  <2>3. f \in [J(i) -> P(i)]
    BY <1>1, <2>1, <2>2
  <2>4. \A j, k \in J(i) : f[j] = f[k] => j = k
    BY <1>1 DEF IsInjective
  <2>5. ASSUME NEW d \in P(i) PROVE \E j \in J(i) : f[j] = d
    <3>1. PICK j \in 1..n : d = s[j]
      BY <1>1, <2>2 DEF Range
    <3> QED
      BY <2>1, <2>2, <3>1
  <2> DEFINE A == J(i)
             B == P(i)
  <2>6. f \in [A -> B] /\ (\A j, k \in A : f[j] = f[k] => j = k) /\ \A d \in B : \E j \in A : f[j] = d
    BY <2>3, <2>4, <2>5
  <2>7. A \subseteq 1..n
    OBVIOUS
  <2> HIDE DEF f, A, B
  <2>8. f \in Bijection(A, B)
    BY <2>6 DEF Bijection, Injection, Surjection, IsInjective
  <2>9. IsFiniteSet(A) /\ ExistsBijection(A, B)
    BY <1>4, <2>7, <2>8, FS_Subset DEF ExistsBijection
  <2>10. Cardinality(B) = Cardinality(A)
    BY <2>9, FS_Bijection
  <2> QED
    BY <2>10 DEF A, B
<1> HIDE DEF P, J
<1>6. \A k \in 1..n : Cardinality(P(index[k])) = k - 1
  BY <1>3, <1>5
<1>7. SortedByTime(s) \in [1..n -> Range(s)]
  BY <1>1, <1>3
<1>8. \A k \in 1..n : Cardinality(Preceding(ByTime(Range(s)), Range(s), SortedByTime(s)[k])) = k - 1
  <2> TAKE k \in 1..n
  <2>1. SortedByTime(s)[k] = s[index[k]]
    BY <1>3
  <2>2. Cardinality(P(index[k])) = k - 1
    BY <1>6
  <2> QED
    BY <2>1, <2>2 DEF P
<1> QED
  BY <1>7, <1>8 DEF n

\* So lists of the same items sort to one list.
LEMMA SortedAlike ==
  ASSUME NEW S, NEW s \in Seq(S), NEW t \in Seq(S), \A x \in S : x.at \in Int,
         IsInjective(s), IsInjective(t), Range(s) = Range(t), TimesDiffer(Range(s))
  PROVE  SortedByTime(s) = SortedByTime(t)
<1> DEFINE R == Range(s)
           a == SortedByTime(s)
           b == SortedByTime(t)
           n == Len(s)
<1>1. IsFiniteSet(R) /\ Len(t) = n /\ R \subseteq S
  BY InjectiveLen, RangeOfList
<1>2. /\ a \in [1..n -> R] /\ b \in [1..n -> R]
      /\ \A k \in 1..n : /\ Cardinality(Preceding(ByTime(R), R, a[k])) = k - 1
                         /\ Cardinality(Preceding(ByTime(R), R, b[k])) = k - 1
  <2>1. /\ a \in [1..Len(s) -> Range(s)]
        /\ \A k \in 1..Len(s) : Cardinality(Preceding(ByTime(Range(s)), Range(s), a[k])) = k - 1
    BY SortedIsRanked, Zenon
  <2>2. TimesDiffer(Range(t))
    BY Zenon
  <2>3. /\ b \in [1..Len(t) -> Range(t)]
        /\ \A k \in 1..Len(t) : Cardinality(Preceding(ByTime(Range(t)), Range(t), b[k])) = k - 1
    BY <2>2, SortedIsRanked, Zenon
  <2> HIDE DEF a, b
  <2> QED
    BY <1>1, <2>1, <2>3
<1>3. Orders(ByTime(R), R)
  BY <1>1, TimesOrder
<1> HIDE DEF R, a, b, n
<1>4. \A x, y \in R : Cardinality(Preceding(ByTime(R), R, x)) = Cardinality(Preceding(ByTime(R), R, y)) => x = y
  BY <1>1, <1>3, RanksOfOrder
<1>5. \A k \in 1..n : a[k] = b[k]
  BY <1>2, <1>4
<1>6. a = [k \in 1..n |-> a[k]] /\ b = [k \in 1..n |-> b[k]]
  BY <1>2
<1>7. a = b
  BY <1>5, <1>6, Zenon
<1> QED
  BY <1>7 DEF a, b

\* No two entries of the list have one id, and so none is there twice.
DistinctIds(s) == \A i, j \in DOMAIN s : s[i].id = s[j].id => i = j

LEMMA DistinctIdsCount ==
  ASSUME NEW S, NEW s \in Seq(S)
  PROVE  Cardinality(IdsOf(s)) = Len(s) <=> DistinctIds(s)
<1> DEFINE n == Len(s)
           f == [i \in 1..n |-> s[i].id]
           I == IdsOf(s)
<1>1. n \in Nat /\ DOMAIN s = 1..n
  OBVIOUS
<1>2. I = {s[i].id : i \in 1..n}
  BY <1>1 DEF IdsOf, Range
<1>3. IsFiniteSet(1..n) /\ Cardinality(1..n) = n
  <2> HIDE DEF n
  <2> QED
    BY <1>1, FS_Interval
<1>4. DistinctIds(s) <=> \A i, j \in 1..n : f[i] = f[j] => i = j
  BY <1>1 DEF DistinctIds
<1> HIDE DEF n, I
<1>5. f \in Surjection(1..n, I)
  BY <1>2 DEF Surjection
<1>6. f \in Injection(1..n, I) <=> \A i, j \in 1..n : f[i] = f[j] => i = j
  BY <1>2 DEF Injection, IsInjective
<1> HIDE DEF f
<1>7. Cardinality(I) = Cardinality(1..n) <=> f \in Injection(1..n, I)
  BY <1>3, <1>5, FS_Surjection
<1> QED
  BY <1>3, <1>4, <1>6, <1>7 DEF n, I

LEMMA DistinctIdsMean ==
  ASSUME NEW S, NEW s \in Seq(S), DistinctIds(s)
  PROVE  IsInjective(s) /\ \A c, d \in Range(s) : c.id = d.id => c = d
<1>1. IsInjective(s)
  BY DEF DistinctIds, IsInjective
<1>2. \A c, d \in Range(s) : c.id = d.id => c = d
  BY DEF DistinctIds, Range
<1> QED
  BY <1>1, <1>2

LEMMA ByIdAlike ==
  ASSUME NEW S, NEW s \in Seq(S), NEW t \in Seq(S), Range(s) = Range(t),
         \A c, d \in Range(s) : c.id = d.id => c = d, NEW id \in IdsOf(s)
  PROVE  ById(s, id) = ById(t, id)
<1>1. id \in IdsOf(t)
  BY DEF IdsOf
<1>2. ById(s, id) \in Range(s) /\ ById(s, id).id = id
  BY ByIdFinds
<1>3. ById(t, id) \in Range(t) /\ ById(t, id).id = id
  BY <1>1, ByIdFinds
<1> QED
  BY <1>2, <1>3, Zenon

\* An item put before a list.
LEMMA ConsProperties ==
  ASSUME NEW S, NEW s \in Seq(S), NEW x
  PROVE  Len(<<x>> \o s) = Len(s) + 1 /\ (<<x>> \o s)[1] = x
<1> DEFINE T == S \cup {x}
<1>1. s \in Seq(T) /\ <<x>> \in Seq(T)
  OBVIOUS
<1>2. <<x>> \o s = [i \in 1..(Len(s) + 1) |-> IF i <= 1 THEN x ELSE s[i - 1]]
  OBVIOUS
<1>3. Len(s) \in Nat
  OBVIOUS
<1> QED
  BY <1>2, <1>3

\* orderQueue returns as many entries as it was given, the now-playing one first.
LEMMA OrderQueueLen ==
  ASSUME NEW items \in Seq(QueueEntry), NEW m
  PROVE  /\ Len(OrderQueue(items, m)) = Len(items)
         /\ items # <<>> => OrderQueue(items, m)[1] = items[1]
<1>1. CASE Len(items) <= 1
  BY <1>1 DEF OrderQueue
<1>2. CASE ~(Len(items) <= 1)
  <2> DEFINE pending == Tail(items)
             sorted == SortedByTime(pending)
             E == EngineEntries(sorted)
             order == GetEffectiveOrder(m, E, SeedFromNowPlaying(Head(items)), 0, 0)
             r == [i \in DOMAIN order |-> ById(pending, order[i].id)]
             k == Len(pending)
  <2>1. /\ items # <<>> /\ pending \in Seq(QueueEntry) /\ Head(items) \in QueueEntry
        /\ Len(items) = k + 1 /\ k \in Nat /\ Head(items) = items[1]
    BY <1>2
  <2>2. \A x \in QueueEntry : x.at \in Int
    BY DEF QueueEntry
  <2>3. OrderQueue(items, m) = <<Head(items)>> \o r
    BY <1>2 DEF OrderQueue
  <2> HIDE DEF r, order, E, pending
  <2>4. sorted \in Seq(QueueEntry) /\ Len(sorted) = k
    <3>1. sorted \in Seq(QueueEntry)
      BY <2>1, <2>2, SortedByTimeKeeps
    <3>2. PICK index : Places(pending, index)
      BY <2>1, <2>2, SortedPlaces
    <3>3. sorted = [j \in 1..k |-> pending[index[j]]]
      BY <3>2 DEF Places
    <3> HIDE DEF k, sorted
    <3> QED
      BY <2>1, <3>1, <3>3
  <2> HIDE DEF sorted, k
  <2>5. Numbered(E) /\ Cardinality(E) = k
    <3>1. Numbered(E)
      BY <2>4, EngineEntriesOf DEF E
    <3> DEFINE f == [i \in 1..k |->
                       [id |-> sorted[i].id, uuid |-> sorted[i].uuid, table |-> sorted[i].table,
                        video |-> sorted[i].video, kind |-> sorted[i].kind,
                        grace |-> sorted[i].grace, seq |-> i]]
    <3>2. E = {f[i] : i \in 1..k} /\ \A i \in 1..k : f[i].seq = i
      BY <2>1, <2>4 DEF EngineEntries, E
    <3> HIDE DEF f
    <3> DEFINE g == [i \in 1..k |-> f[i]]
    <3>3. g \in Bijection(1..k, E)
      BY <3>2 DEF Bijection, Injection, Surjection, IsInjective
    <3>4. ExistsBijection(1..k, E)
      BY <3>3 DEF ExistsBijection
    <3>5. IsFiniteSet(1..k) /\ Cardinality(1..k) = k
      BY <2>1, FS_Interval
    <3>6. Cardinality(E) = k
      BY <3>4, <3>5, FS_Bijection
    <3> QED
      BY <3>1, <3>6
  <2>6. Enumerates(order, E)
    BY <2>1, <2>5, SeedIsCredit, OrderKeeps DEF order
  <2>7. Len(order) = k /\ DOMAIN order = 1..Len(order)
    BY <2>5, <2>6, EnumerationSize
  <2>8. DOMAIN r = 1..k
    BY <2>7 DEF r
  <2>9. r = [i \in 1..k |-> r[i]]
    BY <2>8 DEF r
  <2>10. r \in Seq({r[i] : i \in 1..k}) /\ Len(r) = k
    <3> DEFINE U == {r[i] : i \in 1..k}
    <3>1. \A i \in 1..k : r[i] \in U
      OBVIOUS
    <3>2. k \in Nat
      BY <2>1
    <3> HIDE DEF U
    <3>3. r \in Seq(U) /\ Len(r) = k
      BY <2>9, <3>1, <3>2
    <3> QED
      BY <3>3 DEF U
  <2>11. Len(<<Head(items)>> \o r) = k + 1 /\ (<<Head(items)>> \o r)[1] = Head(items)
    BY <2>10, ConsProperties
  <2> QED
    BY <2>1, <2>3, <2>11
<1> QED
  BY <1>1, <1>2

\* Lists of the same entries with one head, each entry once and no two of one time, are
\* ordered alike.
LEMMA OrderQueueAlike ==
  ASSUME NEW items \in Seq(QueueEntry), NEW other \in Seq(QueueEntry), NEW m,
         DistinctIds(items), DistinctIds(other), Range(items) = Range(other),
         Len(items) = Len(other), items # <<>>, items[1] = other[1], TimesDiffer(Range(items))
  PROVE  OrderQueue(items, m) = OrderQueue(other, m)
<1> DEFINE p == Tail(items)
           q == Tail(other)
           x == Head(items)
<1>1. other # <<>> /\ x = items[1] /\ Head(other) = x /\ x \in QueueEntry
  OBVIOUS
<1>2. IsInjective(items) /\ IsInjective(other) /\ \A c, d \in Range(items) : c.id = d.id => c = d
  BY DistinctIdsMean
<1>3. /\ p \in Seq(QueueEntry) /\ IsInjective(p) /\ Range(items) = {x} \cup Range(p) /\ x \notin Range(p)
  BY <1>2, TailProperties, HeadAndTail
<1>4. /\ q \in Seq(QueueEntry) /\ IsInjective(q) /\ Range(other) = {x} \cup Range(q) /\ x \notin Range(q)
  <2>1. Head(other) = x
    BY <1>1
  <2> HIDE DEF x
  <2> QED
    BY <1>1, <1>2, <2>1, TailProperties, HeadAndTail
<1> HIDE DEF p, q, x
<1>5. Range(p) = Range(q) /\ Range(p) \subseteq Range(items)
  <2> DEFINE A == Range(p)
             B == Range(q)
             C == Range(items)
  <2>1. C = {x} \cup A /\ x \notin A /\ C = {x} \cup B /\ x \notin B
    BY <1>3, <1>4
  <2> HIDE DEF A, B, C
  <2>2. A = C \ {x} /\ B = C \ {x}
    BY <2>1, Zenon
  <2>3. A = B /\ A \subseteq C
    BY <2>2, Zenon
  <2> QED
    BY <2>3 DEF A, B, C
<1>6. SortedByTime(p) = SortedByTime(q)
  <2>1. \A y \in QueueEntry : y.at \in Int
    BY DEF QueueEntry
  <2>2. TimesDiffer(Range(p))
    BY <1>5 DEF TimesDiffer
  <2> QED
    BY <1>3, <1>4, <1>5, <2>1, <2>2, SortedAlike
<1> DEFINE E == EngineEntries(SortedByTime(p))
           order == GetEffectiveOrder(m, E, SeedFromNowPlaying(x), 0, 0)
<1>7. Enumerates(order, E) /\ {e.id : e \in E} = IdsOf(p)
  <2>1. \A y \in QueueEntry : y.at \in Int
    BY DEF QueueEntry
  <2>2. SortedByTime(p) \in Seq(QueueEntry) /\ Range(SortedByTime(p)) = Range(p)
    BY <1>3, <2>1, SortedByTimeKeeps
  <2>3. Numbered(E) /\ {e.id : e \in E} = IdsOf(SortedByTime(p))
    BY <2>2, EngineEntriesOf
  <2>4. IdsOf(SortedByTime(p)) = IdsOf(p)
    BY <2>2 DEF IdsOf
  <2> HIDE DEF E
  <2>5. SeedFromNowPlaying(x) \in [GroupKeys -> Int]
    BY <1>1, SeedIsCredit
  <2> QED
    BY <2>3, <2>4, <2>5, OrderKeeps
<1>8. /\ OrderQueue(items, m) = IF Len(items) <= 1 THEN items
                                ELSE <<x>> \o [i \in DOMAIN order |-> ById(p, order[i].id)]
      /\ OrderQueue(other, m) = IF Len(other) <= 1 THEN other
                                ELSE <<x>> \o [i \in DOMAIN order |-> ById(q, order[i].id)]
  BY <1>1, <1>6 DEF OrderQueue, p, q, x
<1> HIDE DEF E, order
<1>9. \A i \in DOMAIN order : ById(p, order[i].id) = ById(q, order[i].id)
  <2> SUFFICES ASSUME NEW i \in DOMAIN order PROVE ById(p, order[i].id) = ById(q, order[i].id)
    OBVIOUS
  <2>1. order[i] \in E
    BY <1>7 DEF Enumerates
  <2>2. order[i].id \in IdsOf(p)
    BY <1>7, <2>1
  <2>3. \A c, d \in Range(p) : c.id = d.id => c = d
    BY <1>2, <1>5
  <2> QED
    BY <1>3, <1>4, <1>5, <2>2, <2>3, ByIdAlike
<1>10. CASE Len(items) <= 1
  <2>1. items = other
    BY <1>10
  <2> QED
    BY <2>1
<1>11. CASE ~(Len(items) <= 1)
  <2>1. [i \in DOMAIN order |-> ById(p, order[i].id)] = [i \in DOMAIN order |-> ById(q, order[i].id)]
    BY <1>9
  <2> QED
    BY <1>8, <1>11, <2>1, Zenon
<1> QED
  BY <1>10, <1>11

\* A re-lay that read q and finds the list r with the same entries, the same head and no
\* copies leaves the order of r.
LEMMA QuietRelay ==
  ASSUME NEW q \in Seq(QueueEntry), NEW r \in Seq(QueueEntry), NEW m, Len(q) > 1,
         NEW want, want = OrderQueue(q, m), Len(r) = Len(want), Range(r) = Range(want),
         DistinctIds(r), r[1] = want[1], TimesDiffer(Range(r))
  PROVE  Merge(r, want, IdsOf(q)) = OrderQueue(r, m)
<1>1. /\ want \in Seq(QueueEntry) /\ Range(want) \subseteq Range(q) /\ IdsOf(want) = IdsOf(q)
      /\ Len(want) = Len(q) /\ want[1] = q[1]
  BY OrderQueueKeeps, OrderQueueLen
<1>2. IdsOf(r) = IdsOf(q)
  BY <1>1 DEF IdsOf
<1>3. Cardinality(IdsOf(r)) = Len(r)
  BY DistinctIdsCount
<1>4. Cardinality(IdsOf(q)) = Len(q)
  BY <1>1, <1>2, <1>3
<1>5. DistinctIds(q)
  BY <1>4, DistinctIdsCount
<1>6. Range(r) = Range(q)
  <2> SUFFICES ASSUME NEW x \in Range(q) PROVE x \in Range(r)
    BY <1>1
  <2>1. x.id \in IdsOf(r)
    BY <1>2 DEF IdsOf
  <2>2. PICK y \in Range(r) : y.id = x.id
    BY <2>1 DEF IdsOf
  <2>3. y \in Range(q)
    BY <1>1, <2>2
  <2>4. \A c, d \in Range(q) : c.id = d.id => c = d
    BY <1>5, DistinctIdsMean
  <2> QED
    BY <2>2, <2>3, <2>4, Zenon
<1>7. Merge(r, want, IdsOf(q)) = want
  BY <1>1, <1>2, MergeAll
<1>8. OrderQueue(q, m) = OrderQueue(r, m)
  <2>1. Len(q) = Len(r) /\ q # <<>> /\ q[1] = r[1] /\ Range(q) = Range(r) /\ TimesDiffer(Range(q))
    BY <1>1, <1>6
  <2> QED
    BY <1>5, <2>1, OrderQueueAlike
<1> QED
  BY <1>7, <1>8

\* What a handler at relayApply knows: the order, under its mode, of the list that it read.
ReadBefore(p, l) ==
  p = "relayApply" =>
    \E q \in Seq(QueueEntry) :
      /\ Len(q) > 1 /\ l.want = OrderQueue(q, l.mode) /\ l.snap = IdsOf(q)
RelaysAreOrders == \A h \in Handlers : ReadBefore(pc[h], local[h])

\* No two songs have one time, whatever copies of them are about: a song takes a time
\* that is later than all.
TimesApart == \A c, d \in Copies : c.at = d.at => c.id = d.id

LEMMA OrdersStay ==
  ASSUME RelaysAreOrders, NEW h \in Handlers, OthersStay(h), ReadBefore(pc'[h], local'[h])
  PROVE  RelaysAreOrders'
<1> SUFFICES ASSUME NEW g \in Handlers PROVE ReadBefore(pc'[g], local'[g])
  BY Zenon DEF RelaysAreOrders
<1> QED
  BY Zenon DEF RelaysAreOrders, OthersStay

\* A step of the handler h that goes to p; only a re-lay's read goes to relayApply.
LEMMA OrdersStayGoing ==
  ASSUME Inv, RelaysAreOrders, NEW h \in Handlers, NEW p, p # "relayApply", Goto(h, p),
         \A g \in Handlers \ {h} : local'[g] = local[g]
  PROVE  RelaysAreOrders'
<1>1. DOMAIN pc = Handlers
  BY DEF Inv, TypeInv
<1>2. OthersStay(h) /\ pc'[h] = p
  BY <1>1 DEF Goto, OthersStay
<1> QED
  BY <1>2, OrdersStay DEF ReadBefore

LEMMA ChangeIsMine ==
  ASSUME NEW h \in Handlers, DOMAIN local = Handlers, NEW x, NEW y, NEW z,
         \/ local' = local
         \/ local' = [local EXCEPT ![h] = x]
         \/ local' = [local EXCEPT ![h].entry = x]
         \/ local' = [local EXCEPT ![h].mode = x]
         \/ local' = [local EXCEPT ![h].entry = x, ![h].mode = y]
         \/ local' = [local EXCEPT ![h].want = x, ![h].snap = y]
         \/ local' = [local EXCEPT ![h].entry = x, ![h].want = y, ![h].snap = z]
  PROVE  \A g \in Handlers \ {h} : local'[g] = local[g]
<1>1. CASE local' = local
  BY <1>1
<1>2. CASE local' = [local EXCEPT ![h] = x]
  BY <1>2
<1>3. CASE local' = [local EXCEPT ![h].entry = x] \/ local' = [local EXCEPT ![h].mode = x]
  BY <1>3
<1>4. CASE local' = [local EXCEPT ![h].entry = x, ![h].mode = y]
  BY <1>4
<1>5. CASE local' = [local EXCEPT ![h].want = x, ![h].snap = y]
  BY <1>5
<1>6. CASE local' = [local EXCEPT ![h].entry = x, ![h].want = y, ![h].snap = z]
  BY <1>6
<1> QED
  BY <1>1, <1>2, <1>3, <1>4, <1>5, <1>6

\* A step of a handler changes no locals but its own.
LEMMA OthersAreLeft ==
  ASSUME NEW h \in Handlers, DOMAIN local = Handlers,
         \/ \E x \in Songs : Submit(h, x)
         \/ SubmitCheck(h) \/ AddCheck(h) \/ AddPush(h) \/ ReadMode(h) \/ ApplyOrder(h)
         \/ GraceSkip(h) \/ GraceRemoveRead(h) \/ GraceRemoveApply(h)
         \/ \E m \in Modes \ {mode} : SwitchMode(h, m)
         \/ \E id \in IdsOf(queue) : RemoveRead(h, id)
         \/ RemoveApply(h)
         \/ \E id \in IdsOf(queue), k \in 0..(Len(queue) - 1) : ReorderRead(h, id, k)
         \/ RelayRead(h)
  PROVE  \A g \in Handlers \ {h} : local'[g] = local[g]
<1>1. CASE \/ SubmitCheck(h) \/ AddCheck(h) \/ AddPush(h) \/ ReadMode(h) \/ ApplyOrder(h)
           \/ \E m \in Modes \ {mode} : SwitchMode(h, m)
           \/ RemoveApply(h)
  BY <1>1, ChangeIsMine, Zenon DEF SubmitCheck, AddCheck, AddPush, ReadMode, ApplyOrder,
     SwitchMode, RemoveApply, Return
<1>2. CASE \/ \E id \in IdsOf(queue) : RemoveRead(h, id)
           \/ \E id \in IdsOf(queue), k \in 0..(Len(queue) - 1) : ReorderRead(h, id, k)
           \/ RelayRead(h)
  BY <1>2, ChangeIsMine, Zenon DEF RemoveRead, ReorderRead, RelayRead, ReadList, Return
<1>3. CASE \/ \E x \in Songs : Submit(h, x)
           \/ GraceSkip(h) \/ GraceRemoveRead(h) \/ GraceRemoveApply(h)
  BY <1>3, ChangeIsMine, Zenon DEF Submit, GraceSkip, GraceRemoveRead, GraceRemoveApply, ReadList
<1> QED
  BY <1>1, <1>2, <1>3, Zenon

LEMMA NextOrders == Inv /\ RelaysAreOrders /\ [Next]_vars => RelaysAreOrders'
<1> SUFFICES ASSUME Inv, RelaysAreOrders, [Next]_vars PROVE RelaysAreOrders'
  OBVIOUS
<1>1. DOMAIN local = Handlers /\ queue \in Seq(QueueEntry)
  <2>1. queue \in Seq(MadeBy(clock)) /\ MadeBy(clock) \subseteq QueueEntry
    BY DEF Inv, TypeInv, MadeBy
  <2>2. Range(queue) \subseteq QueueEntry
    BY <2>1 DEF Range
  <2> QED
    BY <2>1, <2>2, SeqOfRange DEF Inv, TypeInv
<1>2. CASE Advance \/ UNCHANGED vars
  <2>1. pc' = pc /\ local' = local
    BY <1>2 DEF Advance, vars
  <2> QED
    BY <2>1, Zenon DEF RelaysAreOrders
<1>3. ASSUME NEW h \in Handlers, RelayRead(h) PROVE RelaysAreOrders'
  <2>1. CASE Return(h)
    <3>1. Goto(h, "idle")
      BY <2>1 DEF Return
    <3> QED
      BY <1>1, <1>3, <3>1, OthersAreLeft, OrdersStayGoing
  <2>2. CASE Len(queue) > 1 /\ ReadList(h, OrderQueue(queue, local[h].mode), "relayApply")
    <3> DEFINE d == OrderQueue(queue, local[h].mode)
               l == Fields(local[h].entry, local[h].mode, d, IdsOf(queue))
    <3>1. OthersStay(h) /\ pc'[h] = "relayApply" /\ local'[h] = l
      BY <2>2, ReadingMoves
    <3>2. l.want = d /\ l.mode = local[h].mode /\ l.snap = IdsOf(queue)
      BY DEF Fields
    <3> HIDE DEF l
    <3>3. l.want = OrderQueue(queue, l.mode)
      BY <3>2
    <3> HIDE DEF d
    <3>4. ReadBefore(pc'[h], local'[h])
      BY <1>1, <2>2, <3>1, <3>2, <3>3 DEF ReadBefore
    <3> QED
      BY <3>1, <3>4, OrdersStay
  <2> QED
    BY <1>3, <2>1, <2>2, Zenon DEF RelayRead
<1>4. ASSUME NEW h \in Handlers,
             \/ \E x \in Songs : Submit(h, x)
             \/ SubmitCheck(h) \/ AddCheck(h) \/ AddPush(h) \/ ReadMode(h) \/ ApplyOrder(h)
             \/ GraceSkip(h) \/ GraceRemoveRead(h) \/ GraceRemoveApply(h)
             \/ \E m \in Modes \ {mode} : SwitchMode(h, m)
             \/ \E id \in IdsOf(queue) : RemoveRead(h, id)
             \/ RemoveApply(h)
             \/ \E id \in IdsOf(queue), k \in 0..(Len(queue) - 1) : ReorderRead(h, id, k)
      PROVE  RelaysAreOrders'
  <2>1. \A g \in Handlers \ {h} : local'[g] = local[g]
    BY <1>1, <1>4, OthersAreLeft, Zenon
  <2>2. \E p : p # "relayApply" /\ Goto(h, p)
    <3>1. /\ "idle" # "relayApply" /\ "check" # "relayApply" /\ "add" # "relayApply"
          /\ "push" # "relayApply" /\ "mode" # "relayApply" /\ "relay" # "relayApply"
          /\ "removeHead" # "relayApply" /\ "removeHeadApply" # "relayApply"
          /\ "removeApply" # "relayApply" /\ "reorderApply" # "relayApply"
          /\ (IF local[h].entry.grace THEN "mode" ELSE "relay") # "relayApply"
      OBVIOUS
    <3> QED
      BY <1>4, <3>1, Zenon DEF Submit, SubmitCheck, AddCheck, AddPush, ReadMode, ApplyOrder,
         GraceSkip, GraceRemoveRead, GraceRemoveApply, SwitchMode, RemoveRead, RemoveApply,
         ReorderRead, Return, ReadList
  <2> QED
    BY <2>1, <2>2, OrdersStayGoing
<1> QED
  BY <1>2, <1>3, <1>4, Zenon DEF Next

LEMMA CopiesAreMade ==
  ASSUME Inv
  PROVE  Copies \subseteq MadeBy(clock) /\ clock \in Nat
<1>1. queue \in Seq(MadeBy(clock)) /\ clock \in Nat
  BY DEF Inv, TypeInv
<1>2. Range(queue) \subseteq MadeBy(clock)
  BY <1>1 DEF Range
<1>3. ASSUME NEW h \in Handlers PROVE Held(pc[h], local[h]) \subseteq MadeBy(clock)
  <2> DEFINE w == local[h].want
  <2>1. w \in Seq(MadeBy(clock)) /\ HandlerIsSound(pc[h], local[h], clock, Given, acked)
    BY OfHandler
  <2>2. Range(w) \subseteq MadeBy(clock)
    <3> HIDE DEF w
    <3> QED
      BY <2>1 DEF Range
  <2>3. Submits(pc[h], local[h]) \/ Resubmits(pc[h], local[h]) => local[h].entry \in MadeBy(clock)
    BY <2>1 DEF HandlerIsSound
  <2> QED
    BY <2>2, <2>3 DEF Held
<1> QED
  BY <1>1, <1>2, <1>3 DEF Copies

\* A step of h that writes copies, and brings at most one song with a new time.
LEMMA StepTimes ==
  ASSUME Inv, TimesApart, NEW h \in Handlers, OthersStay(h), Range(queue') \subseteq Copies,
         NEW l, local'[h] = l, Range(l.want) \subseteq Copies, NEW n, n.at = clock + 1,
         Submits(pc'[h], l) \/ Resubmits(pc'[h], l) => l.entry \in Copies \cup {n}
  PROVE  TimesApart'
<1>1. Held(pc'[h], local'[h]) \subseteq Copies \cup {n}
  BY DEF Held
<1>2. Copies' \subseteq Copies \cup {n}
  BY <1>1, OfOthers
<1>3. \A c \in Copies : c.at # n.at
  BY CopiesAreMade DEF MadeBy
<1>4. ASSUME NEW c \in Copies', NEW d \in Copies', c.at = d.at PROVE c.id = d.id
  <2>1. CASE c = n \/ d = n
    BY <1>2, <1>3, <1>4, <2>1
  <2>2. CASE c # n /\ d # n
    BY <1>2, <1>4, <2>2 DEF TimesApart
  <2> QED
    BY <2>1, <2>2
<1> QED
  BY <1>4, Zenon DEF TimesApart

\* The copies that a step of h finds.
LEMMA CopiesOf ==
  ASSUME NEW h \in Handlers
  PROVE  /\ Range(queue) \subseteq Copies /\ Range(local[h].want) \subseteq Copies
         /\ Submits(pc[h], local[h]) \/ Resubmits(pc[h], local[h]) => local[h].entry \in Copies
<1>1. Held(pc[h], local[h]) \subseteq Copies
  BY DEF Copies
<1> QED
  BY <1>1 DEF Copies, Held

\* A step that changes at most the label and the mode, or returns.
LEMMA GoingOnTimes ==
  ASSUME Inv, TimesApart, NEW h \in Handlers, Range(queue') \subseteq Copies,
         \/ Return(h)
         \/ \E p, m : Goto(h, p) /\ local' = [local EXCEPT ![h].mode = m]
                       /\ (Submits(p, local[h]) \/ Resubmits(p, local[h])
                             => Submits(pc[h], local[h]) \/ Resubmits(pc[h], local[h]))
         \/ \E p : Goto(h, p) /\ local' = local
                    /\ (Submits(p, local[h]) \/ Resubmits(p, local[h])
                          => Submits(pc[h], local[h]) \/ Resubmits(pc[h], local[h]))
  PROVE  TimesApart'
<1> DEFINE n == [at |-> clock + 1]
<1>1. n.at = clock + 1 /\ TypeInv
  BY DEF Inv
<1> HIDE DEF n
<1>2. CASE Return(h)
  <2>1. OthersStay(h) /\ pc'[h] = "idle" /\ local'[h] = NoLocal
    BY <1>1, <1>2, StepReturns
  <2>2. Range(NoLocal.want) = {} /\ ~Submits("idle", NoLocal) /\ ~Resubmits("idle", NoLocal)
    BY DEF NoLocal, Range, Submits, Resubmits
  <2> QED
    BY <1>1, <2>1, <2>2, StepTimes
<1>3. ASSUME NEW p, NEW m, Goto(h, p), local' = [local EXCEPT ![h].mode = m],
             Submits(p, local[h]) \/ Resubmits(p, local[h])
               => Submits(pc[h], local[h]) \/ Resubmits(pc[h], local[h])
      PROVE  TimesApart'
  <2> DEFINE l == Fields(local[h].entry, m, local[h].want, local[h].snap)
  <2>1. Becomes(local, local', Handlers, h, l)
    <3>1. Becomes(local, [local EXCEPT ![h].mode = m], Handlers, h, l)
      BY OfHandler, FieldChanges, Zenon
    <3> QED
      BY <1>3, <3>1, Zenon
  <2>2. l.entry = local[h].entry /\ l.want = local[h].want
    BY DEF Fields
  <2> HIDE DEF l
  <2>3. OthersStay(h) /\ pc'[h] = p /\ local'[h] = l
    BY <1>1, <1>3, <2>1, StepMoves
  <2>4. Submits(p, l) \/ Resubmits(p, l) => Submits(p, local[h]) \/ Resubmits(p, local[h])
    BY <2>2 DEF Submits, Resubmits
  <2>5. /\ Range(l.want) \subseteq Copies
        /\ Submits(pc'[h], l) \/ Resubmits(pc'[h], l) => l.entry \in Copies \cup {n}
    BY <1>3, <2>2, <2>3, <2>4, CopiesOf
  <2> QED
    BY <1>1, <2>3, <2>5, StepTimes
<1>4. ASSUME NEW p, Goto(h, p), local' = local,
             Submits(p, local[h]) \/ Resubmits(p, local[h])
               => Submits(pc[h], local[h]) \/ Resubmits(pc[h], local[h])
      PROVE  TimesApart'
  <2>1. OthersStay(h) /\ pc'[h] = p /\ local'[h] = local[h]
    BY <1>1, <1>4, StepStays
  <2>2. /\ Range(local[h].want) \subseteq Copies
        /\ Submits(pc'[h], local[h]) \/ Resubmits(pc'[h], local[h]) => local[h].entry \in Copies \cup {n}
    BY <1>4, <2>1, CopiesOf
  <2> QED
    BY <1>1, <2>1, <2>2, StepTimes
<1> QED
  BY <1>2, <1>3, <1>4, Zenon

LEMMA ReadingTimes ==
  ASSUME Inv, TimesApart, NEW h \in Handlers, NEW d, NEW p, ReadList(h, d, p),
         Range(d) \subseteq Range(queue), queue' = queue,
         p \in {"relayApply", "reorderApply", "removeApply", "removeHeadApply"},
         p = "removeHeadApply" => pc[h] = "removeHead"
  PROVE  TimesApart'
<1> DEFINE l == Fields(local[h].entry, local[h].mode, d, IdsOf(queue))
           n == [at |-> clock + 1]
<1>1. OthersStay(h) /\ pc'[h] = p /\ local'[h] = l /\ n.at = clock + 1
  BY ReadingMoves
<1>2. l.entry = local[h].entry /\ l.want = d
  BY DEF Fields
<1> HIDE DEF l, n
<1>3. Range(queue') \subseteq Copies /\ Range(l.want) \subseteq Copies
  BY <1>2, CopiesOf
<1>4. Submits(p, l) \/ Resubmits(p, l) => l.entry \in Copies \cup {n}
  BY <1>2, CopiesOf DEF Submits, Resubmits
<1> QED
  BY <1>1, <1>3, <1>4, StepTimes

LEMMA ReadTimes ==
  ASSUME Inv, TimesApart, NEW h \in Handlers,
         \/ RelayRead(h)
         \/ \E id \in IdsOf(queue) : RemoveRead(h, id)
         \/ \E id \in IdsOf(queue), k \in 0..(Len(queue) - 1) : ReorderRead(h, id, k)
  PROVE  TimesApart'
<1>1. TypeInv /\ queue \in Seq(MadeBy(clock))
  BY DEF Inv, TypeInv
<1>2. CASE RelayRead(h)
  <2>1. queue' = queue
    BY <1>2 DEF RelayRead
  <2>2. CASE Return(h)
    BY <2>1, <2>2, CopiesOf, GoingOnTimes
  <2>3. CASE ReadList(h, OrderQueue(queue, local[h].mode), "relayApply")
    <3> DEFINE d == OrderQueue(queue, local[h].mode)
               p == "relayApply"
    <3>1. ReadList(h, d, p) /\ Range(d) \subseteq Range(queue)
          /\ p \in {"relayApply", "reorderApply", "removeApply", "removeHeadApply"}
          /\ p # "removeHeadApply"
      BY <1>1, <2>3, OrderOfQueue
    <3> HIDE DEF d, p
    <3> QED
      BY <2>1, <3>1, ReadingTimes
  <2> QED
    BY <1>2, <2>2, <2>3, Zenon DEF RelayRead
<1>3. ASSUME NEW id \in IdsOf(queue), RemoveRead(h, id) PROVE TimesApart'
  <2> DEFINE d == Outside(queue, {id})
             p == "removeApply"
  <2>1. /\ ReadList(h, d, p) /\ queue' = queue
        /\ p \in {"relayApply", "reorderApply", "removeApply", "removeHeadApply"}
        /\ p # "removeHeadApply"
    BY <1>3 DEF RemoveRead
  <2>2. Range(d) \subseteq Range(queue)
    BY <1>1, OutsideKeeps
  <2> HIDE DEF d, p
  <2> QED
    BY <2>1, <2>2, ReadingTimes
<1>4. ASSUME NEW id \in IdsOf(queue), NEW k \in 0..(Len(queue) - 1), ReorderRead(h, id, k)
      PROVE  TimesApart'
  <2> DEFINE i == First(queue, id)
             d == Moved(queue, i, k)
             p == "reorderApply"
  <2>1. /\ queue' = queue
        /\ p \in {"relayApply", "reorderApply", "removeApply", "removeHeadApply"}
        /\ p # "removeHeadApply"
    BY <1>4 DEF ReorderRead
  <2>2. ReadList(h, d, p)
    BY <1>4, Zenon DEF ReorderRead, First, Moved
  <2>3. i \in DOMAIN queue
    BY <1>1, FirstIsThere, Zenon
  <2>4. Range(d) = Range(queue)
    BY <1>1, <2>3, MovedKeeps, Zenon
  <2> HIDE DEF d, p
  <2> QED
    BY <2>1, <2>2, <2>4, ReadingTimes
<1> QED
  BY <1>2, <1>3, <1>4, Zenon

LEMMA SubmitTimes ==
  ASSUME Inv, TimesApart, NEW h \in Handlers, NEW x \in Songs, Submit(h, x)
  PROVE  TimesApart'
<1> DEFINE id == Len(Opening) + MaxSubmits - budget'["submits"]
           e == Entry(x, id, clock + 1)
           l == Fields(e, mode, local[h].want, local[h].snap)
<1>1. /\ TypeInv /\ Goto(h, "check") /\ queue' = queue /\ clock' = clock + 1
      /\ local' = [local EXCEPT ![h].entry = e, ![h].mode = mode]
  <2>1. clock' = clock + 1 /\ local' = [local EXCEPT ![h].entry = Entry(x, id, clock'), ![h].mode = mode]
    BY Zenon DEF Submit
  <2> QED
    BY <2>1 DEF Inv, Submit
<1>2. e.at = clock + 1 /\ l.entry = e /\ l.want = local[h].want
  BY DEF Entry, Fields
<1> HIDE DEF e, id
<1>3. Becomes(local, local', Handlers, h, l)
  BY <1>1, OfHandler, TwoChanges, Zenon
<1> HIDE DEF l
<1>4. OthersStay(h) /\ pc'[h] = "check" /\ local'[h] = l
  BY <1>1, <1>3, StepMoves
<1>5. Range(queue') \subseteq Copies /\ Range(l.want) \subseteq Copies
  BY <1>1, <1>2, CopiesOf
<1> QED
  BY <1>2, <1>4, <1>5, StepTimes

LEMMA PushTimes ==
  ASSUME Inv, TimesApart, NEW h \in Handlers, AddPush(h)
  PROVE  TimesApart'
<1> DEFINE e == local[h].entry
           p == IF e.grace THEN "mode" ELSE "relay"
<1>1. pc[h] = "push" /\ queue' = Append(queue, e) /\ Goto(h, p) /\ local' = local
  BY DEF AddPush
<1>2. e \in Copies /\ e \in MadeBy(clock) /\ queue \in Seq(MadeBy(clock))
  <2>1. Submits(pc[h], local[h]) \/ Resubmits(pc[h], local[h])
    BY <1>1 DEF Submits, Resubmits
  <2>2. local[h].entry \in MadeBy(clock)
    BY <2>1, OfHandler DEF HandlerIsSound
  <2> QED
    BY <2>1, <2>2, CopiesOf DEF Inv, TypeInv
<1>3. ~Submits(p, local[h]) /\ ~Resubmits(p, local[h])
  BY DEF Submits, Resubmits
<1> HIDE DEF e, p
<1>4. Range(queue') = Range(queue) \cup {e}
  <2> DEFINE q == Append(queue, e)
             n == Len(queue)
  <2>1. /\ n \in Nat /\ DOMAIN queue = 1..n /\ DOMAIN q = 1..(n + 1)
        /\ \A i \in 1..n : q[i] = queue[i] /\ q[n + 1] = e
    BY <1>2
  <2>2. q[n + 1] = e
    BY <1>2
  <2> HIDE DEF q, n
  <2>3. Range(q) = Range(queue) \cup {e}
    <3>1. \A i \in 1..(n + 1) : i \in 1..n \/ i = n + 1
      BY <2>1
    <3>2. \A i \in 1..n : i \in 1..(n + 1)
      BY <2>1
    <3>3. n + 1 \in 1..(n + 1)
      BY <2>1
    <3> QED
      BY <2>1, <2>2, <3>1, <3>2, <3>3 DEF Range
  <2> QED
    BY <1>1, <2>3 DEF q
<1>5. Range(queue') \subseteq Copies
  BY <1>2, <1>4, CopiesOf
<1> QED
  BY <1>1, <1>3, <1>5, GoingOnTimes

\* The script writes copies.
LEMMA WritesCopies ==
  ASSUME Inv, NEW h \in Handlers, WriteBack(h)
  PROVE  Range(queue') \subseteq Copies
BY WriteBackKeeps, CopiesOf

LEMMA GraceTimes ==
  ASSUME Inv, TimesApart, NEW h \in Handlers,
         GraceSkip(h) \/ GraceRemoveRead(h) \/ GraceRemoveApply(h)
  PROVE  TimesApart'
<1> DEFINE e == local[h].entry
           r == Regraced(h)
           m == local[h].mode
           w == local[h].want
           s == local[h].snap
<1>1. TypeInv /\ queue \in Seq(MadeBy(clock)) /\ DOMAIN local = Handlers
      /\ local[h] = Fields(e, m, w, s)
  BY OfHandler DEF Inv, TypeInv
<1>2. CASE GraceSkip(h)
  <2> DEFINE f == Head(queue)
             l == Fields(f, m, w, s)
             n == [at |-> clock + 1]
  <2>1. /\ Goto(h, "removeHead") /\ queue' = queue /\ queue # <<>>
        /\ local' = [local EXCEPT ![h].entry = f]
    BY <1>2 DEF GraceSkip
  <2>2. f \in Copies
    <3>1. f \in Range(queue)
      BY <1>1, <2>1 DEF Range
    <3> QED
      BY <3>1, CopiesOf
  <2>3. l.entry = f /\ l.want = local[h].want /\ n.at = clock + 1
    BY DEF Fields
  <2> HIDE DEF f, n, e, m, w, s
  <2>4. Becomes(local, local', Handlers, h, l)
    BY <1>1, <2>1, FieldChanges, Zenon
  <2> HIDE DEF l
  <2>5. OthersStay(h) /\ local'[h] = l
    BY <1>1, <2>1, <2>4, StepMoves
  <2>6. Range(queue') \subseteq Copies /\ Range(l.want) \subseteq Copies
    BY <2>1, <2>3, CopiesOf
  <2> QED
    BY <2>2, <2>3, <2>5, <2>6, StepTimes
<1>3. ASSUME pc[h] \in {"removeHead", "removeHeadApply"}, NEW v, NEW k, Goto(h, "add"),
             Becomes(local, local', Handlers, h, Fields(r, m, v, k)),
             Range(v) \subseteq Copies, Range(queue') \subseteq Copies
      PROVE  TimesApart'
  <2> DEFINE l == Fields(r, m, v, k)
  <2>1. r.at = clock + 1
    <3>1. e \in QueueEntry
      BY <1>3, OfHandler DEF HandlerIsSound, Resubmits, MadeBy
    <3>2. r = [e EXCEPT !.grace = TRUE, !.at = clock + 1]
      BY DEF Regraced
    <3> QED
      BY <3>1, <3>2 DEF QueueEntry
  <2>2. l.entry = r /\ l.want = v
    BY DEF Fields
  <2> HIDE DEF l, r
  <2>3. Becomes(local, local', Handlers, h, l)
    BY <1>3 DEF l
  <2>4. OthersStay(h) /\ local'[h] = l
    BY <1>1, <1>3, <2>3, StepMoves
  <2> QED
    BY <1>3, <2>1, <2>2, <2>4, StepTimes
<1>4. CASE GraceRemoveRead(h)
  <2>1. pc[h] = "removeHead" /\ queue' = queue
    BY <1>4 DEF GraceRemoveRead
  <2>2. CASE ReadList(h, Outside(queue, {e.id}), "removeHeadApply")
    <3> DEFINE d == Outside(queue, {e.id})
               p == "removeHeadApply"
    <3>1. Range(d) \subseteq Range(queue)
      BY <1>1, OutsideKeeps
    <3>2. ReadList(h, d, p) /\ p \in {"relayApply", "reorderApply", "removeApply", "removeHeadApply"}
      BY <2>2
    <3> HIDE DEF d, p
    <3> QED
      BY <2>1, <3>1, <3>2, ReadingTimes
  <2>3. CASE local' = [local EXCEPT ![h].entry = r] /\ Goto(h, "add")
    <3>1. Becomes(local, local', Handlers, h, Fields(r, m, w, s))
      BY <1>1, <2>3, FieldChanges, Zenon
    <3>2. Range(w) \subseteq Copies /\ Range(queue') \subseteq Copies
      BY <2>1, CopiesOf
    <3> HIDE DEF e, r, w, m, s
    <3> QED
      BY <1>3, <2>1, <2>3, <3>1, <3>2
  <2> QED
    BY <1>4, <2>2, <2>3, Zenon DEF GraceRemoveRead
<1>5. CASE GraceRemoveApply(h)
  <2> DEFINE x == <<>>
             y == {}
  <2>1. pc[h] = "removeHeadApply" /\ WriteBack(h) /\ Goto(h, "add")
    BY <1>5 DEF GraceRemoveApply
  <2>2. Range(x) \subseteq Copies
    BY DEF Range
  <2>3. local' = [local EXCEPT ![h].entry = r, ![h].want = x, ![h].snap = y]
    BY <1>5, Zenon DEF GraceRemoveApply
  <2> HIDE DEF x, y
  <2> DEFINE k == [local EXCEPT ![h].entry = r]
  <2>4. local' = [k EXCEPT ![h].want = x, ![h].snap = y]
    BY <2>3
  <2> HIDE DEF r, e, m, w, s
  <2>5. Becomes(local, k, Handlers, h, Fields(r, m, w, s))
    BY <1>1, FieldChanges
  <2> HIDE DEF k
  <2>6. DOMAIN k = Handlers /\ k[h] = Fields(r, m, w, s)
    BY <2>5 DEF Becomes
  <2>7. Becomes(k, [k EXCEPT ![h].want = x, ![h].snap = y], Handlers, h, Fields(r, m, x, y))
    BY <2>6, TwoChanges
  <2>8. Becomes(k, local', Handlers, h, Fields(r, m, x, y))
    BY <2>4, <2>7, Zenon
  <2>9. Becomes(local, local', Handlers, h, Fields(r, m, x, y))
    BY <2>5, <2>8 DEF Becomes
  <2>10. Range(queue') \subseteq Copies
    BY <2>1, WritesCopies
  <2> QED
    BY <1>3, <2>1, <2>2, <2>9, <2>10
<1> QED
  BY <1>2, <1>4, <1>5

LEMMA NextTimes == Inv /\ TimesApart /\ [Next]_vars => TimesApart'
<1> SUFFICES ASSUME Inv, TimesApart, [Next]_vars PROVE TimesApart'
  OBVIOUS
<1>1. CASE Advance \/ UNCHANGED vars
  <2>1. pc' = pc /\ local' = local
    BY <1>1 DEF Advance, vars
  <2>2. Range(queue') \subseteq Range(queue)
    <3>1. CASE Advance
      <4>1. queue # <<>> /\ queue' = Tail(queue) /\ queue \in Seq(MadeBy(clock))
        BY <3>1 DEF Advance, Inv, TypeInv
      <4> QED
        BY <4>1, HeadAndTail
    <3>2. CASE UNCHANGED vars
      BY <3>2 DEF vars
    <3> QED
      BY <1>1, <3>1, <3>2
  <2>3. Copies' = Range(queue') \cup UNION {Held(pc[h], local[h]) : h \in Handlers}
    BY <2>1, Zenon DEF Copies
  <2>4. Copies' \subseteq Copies
    BY <2>2, <2>3 DEF Copies
  <2> QED
    BY <2>4, Zenon DEF TimesApart
<1>2. ASSUME NEW h \in Handlers, ReadMode(h) \/ \E m \in Modes : SwitchMode(h, m)
      PROVE  TimesApart'
  <2>1. queue' = queue
    BY <1>2 DEF ReadMode, SwitchMode
  <2>2. PICK m : Goto(h, "relay") /\ local' = [local EXCEPT ![h].mode = m]
    BY <1>2, Zenon DEF ReadMode, SwitchMode
  <2>3. ~Submits("relay", local[h]) /\ ~Resubmits("relay", local[h])
    BY DEF Submits, Resubmits
  <2> QED
    BY <2>1, <2>2, <2>3, CopiesOf, GoingOnTimes
<1>3. ASSUME NEW h \in Handlers, ApplyOrder(h) \/ RemoveApply(h) PROVE TimesApart'
  <2>1. WriteBack(h) /\ Return(h)
    BY <1>3 DEF ApplyOrder, RemoveApply
  <2> QED
    BY <2>1, WritesCopies, GoingOnTimes
<1>4. ASSUME NEW h \in Handlers, SubmitCheck(h) \/ AddCheck(h) PROVE TimesApart'
  <2>1. queue' = queue
    BY <1>4 DEF SubmitCheck, AddCheck
  <2>2. Return(h) \/ \E p \in {"add", "push"} : pc[h] \in {"check", "add"} /\ Goto(h, p) /\ local' = local
    BY <1>4 DEF SubmitCheck, AddCheck
  <2>3. CASE Return(h)
    BY <2>1, <2>3, CopiesOf, GoingOnTimes
  <2>4. ASSUME NEW p \in {"add", "push"}, pc[h] \in {"check", "add"}, Goto(h, p), local' = local
        PROVE  TimesApart'
    <3>1. Submits(pc[h], local[h]) \/ Resubmits(pc[h], local[h])
      BY <2>4 DEF Submits, Resubmits
    <3> QED
      BY <2>1, <2>4, <3>1, CopiesOf, GoingOnTimes
  <2> QED
    BY <2>2, <2>3, <2>4
<1> QED
  BY <1>1, <1>2, <1>3, <1>4, SubmitTimes, PushTimes, ReadTimes, GraceTimes, Zenon DEF Next

LEMMA InitMends == Init => TimesApart /\ RelaysAreOrders
<1> SUFFICES ASSUME Init PROVE TimesApart /\ RelaysAreOrders
  OBVIOUS
<1>1. /\ \A h \in Handlers : pc[h] = "idle" /\ local[h] = NoLocal
      /\ queue = OrderQueue(OpeningEntries, mode)
  BY Zenon DEF Init, OpeningEntries
<1>2. RelaysAreOrders
  BY <1>1 DEF RelaysAreOrders, ReadBefore
<1>3. Copies = Range(queue)
  <2>1. \A h \in Handlers : Held(pc[h], local[h]) = {}
    BY <1>1, NothingHeld
  <2> QED
    BY <2>1 DEF Copies
<1>4. Range(queue) \subseteq Range(OpeningEntries)
  BY <1>1, OpeningIsQueued
<1>5. \A e \in Range(OpeningEntries) : e.at = e.id
  BY DEF OpeningEntries, Entry, Range
<1>6. TimesApart
  BY <1>3, <1>4, <1>5 DEF TimesApart
<1> QED
  BY <1>2, <1>6

\* A handler returns from relayApply only by its script.
LEMMA OnlyApplyReturns ==
  ASSUME Inv, [Next]_vars, NEW h \in Handlers, pc[h] = "relayApply", pc'[h] = "idle"
  PROVE  ApplyOrder(h)
<1>1. DOMAIN pc = Handlers /\ pc' # pc
  BY DEF Inv, TypeInv
<1>2. ~Advance /\ ~(UNCHANGED vars)
  BY <1>1, Zenon DEF Advance, vars
<1>3. PICK g \in Handlers :
        \/ \E x \in Songs : Submit(g, x)
        \/ SubmitCheck(g) \/ AddCheck(g) \/ AddPush(g) \/ ReadMode(g) \/ ApplyOrder(g)
        \/ GraceSkip(g) \/ GraceRemoveRead(g) \/ GraceRemoveApply(g)
        \/ \E m \in Modes \ {mode} : SwitchMode(g, m)
        \/ \E id \in IdsOf(queue) : RemoveRead(g, id)
        \/ RemoveApply(g)
        \/ \E id \in IdsOf(queue), k \in 0..(Len(queue) - 1) : ReorderRead(g, id, k)
        \/ RelayRead(g)
  BY <1>2, Zenon DEF Next
<1>4. g = h
  <2>1. \E p : pc' = [pc EXCEPT ![g] = p]
    BY <1>3, Zenon DEF Submit, SubmitCheck, AddCheck, AddPush, ReadMode, ApplyOrder, GraceSkip,
       GraceRemoveRead, GraceRemoveApply, SwitchMode, RemoveRead, RemoveApply, ReorderRead,
       RelayRead, ReadList, Return, Goto
  <2> QED
    BY <1>1, <2>1
<1>5. CASE \/ \E x \in Songs : Submit(g, x)
           \/ SubmitCheck(g) \/ AddCheck(g) \/ AddPush(g) \/ ReadMode(g)
           \/ GraceSkip(g) \/ GraceRemoveRead(g) \/ GraceRemoveApply(g)
  BY <1>4, <1>5 DEF Submit, SubmitCheck, AddCheck, AddPush, ReadMode, GraceSkip,
     GraceRemoveRead, GraceRemoveApply
<1>6. CASE \/ \E m \in Modes \ {mode} : SwitchMode(g, m)
           \/ \E id \in IdsOf(queue) : RemoveRead(g, id)
           \/ RemoveApply(g)
           \/ \E id \in IdsOf(queue), k \in 0..(Len(queue) - 1) : ReorderRead(g, id, k)
           \/ RelayRead(g)
  BY <1>4, <1>6 DEF SwitchMode, RemoveRead, RemoveApply, ReorderRead, RelayRead
<1> QED
  BY <1>3, <1>4, <1>5, <1>6

\* What races undo mends: what left the queue comes back only by the push of a grace
\* skip, and a re-lay that nothing overtook leaves the effective order with the
\* now-playing entry in its place, whatever raced before it (relayQueue, orderQueue).
THEOREM RacesAreMended == Spec => RacesMend
<1> DEFINE Heals == \A h \in Handlers :
                      pc[h] = "relayApply" /\ pc'[h] = "idle"
                        /\ Len(queue) = Len(local[h].want) /\ Range(queue) = Range(local[h].want)
                        /\ Cardinality(IdsOf(queue)) = Len(queue)
                        /\ queue[1] = local[h].want[1]
                      => queue' = OrderQueue(queue, local[h].mode)
<1>1. Init => TimesApart /\ RelaysAreOrders
  BY InitMends
<1>2. Inv /\ TimesApart /\ RelaysAreOrders /\ [Next]_vars => TimesApart' /\ RelaysAreOrders'
  BY NextTimes, NextOrders
<1>3. ASSUME Inv, TimesApart, RelaysAreOrders, [Next]_vars PROVE Heals
  <2> SUFFICES ASSUME NEW h \in Handlers, pc[h] = "relayApply", pc'[h] = "idle",
                      Len(queue) = Len(local[h].want), Range(queue) = Range(local[h].want),
                      Cardinality(IdsOf(queue)) = Len(queue), queue[1] = local[h].want[1]
               PROVE  queue' = OrderQueue(queue, local[h].mode)
    BY Zenon
  <2>1. ApplyOrder(h)
    BY <1>3, OnlyApplyReturns
  <2> DEFINE m == local[h].mode
             want == local[h].want
             snap == local[h].snap
  <2>2. queue' = Merge(queue, want, snap)
    BY <2>1 DEF ApplyOrder, WriteBack
  <2>3. PICK q \in Seq(QueueEntry) : Len(q) > 1 /\ want = OrderQueue(q, m) /\ snap = IdsOf(q)
    BY <1>3, Zenon DEF RelaysAreOrders, ReadBefore
  <2>4. queue \in Seq(QueueEntry)
    <3>1. queue \in Seq(MadeBy(clock)) /\ Range(queue) \subseteq Copies
      BY <1>3, CopiesOf DEF Inv, TypeInv
    <3>2. Range(queue) \subseteq QueueEntry
      BY <1>3, <3>1, CopiesAreMade DEF MadeBy
    <3> QED
      BY <3>1, <3>2, SeqOfRange
  <2>5. DistinctIds(queue)
    BY <2>4, DistinctIdsCount
  <2>6. TimesDiffer(Range(queue))
    <3>1. \A c, d \in Range(queue) : c.id = d.id => c = d
      BY <2>4, <2>5, DistinctIdsMean
    <3>2. \A c, d \in Range(queue) : c.at = d.at => c.id = d.id
      BY <1>3, CopiesOf DEF TimesApart
    <3> QED
      BY <3>1, <3>2, Zenon DEF TimesDiffer
  <2>7. Len(queue) = Len(want) /\ Range(queue) = Range(want) /\ queue[1] = want[1]
    OBVIOUS
  <2> HIDE DEF want, snap, m
  <2>8. Merge(queue, want, IdsOf(q)) = OrderQueue(queue, m)
    BY <2>3, <2>4, <2>5, <2>6, <2>7, QuietRelay
  <2> QED
    BY <2>2, <2>3, <2>8 DEF m
<1>4. Inv /\ TimesApart /\ RelaysAreOrders /\ [Next]_vars => [Heals]_vars
  BY <1>3, Zenon
<1>5. Spec => RelayHeals
  BY <1>1, <1>2, <1>4, InvHolds, PTL DEF Spec, RelayHeals, Heals
<1> QED
  BY <1>5, NothingComesBackAlone, PTL DEF RacesMend


=============================================================================
