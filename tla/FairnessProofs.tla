--------------------------- MODULE FairnessProofs ---------------------------
(***************************************************************************)
(* Proofs about FairnessQueue, for any participants, tables, videos and    *)
(* number of entries.                                                      *)
(***************************************************************************)
EXTENDS FairnessQueue, ListTheorems

-----------------------------------------------------------------------------
(* The engine's ways to compare entries are strict orders.                 *)

\* Entries as the engine keeps them.
Numbered(S) ==
  S \subseteq Entry /\ IsFiniteSet(S) /\ \A e, f \in S : e.seq = f.seq => e = f

LEMMA KeysAreKeys ==
  ASSUME NEW m, NEW e \in Entry
  PROVE  GroupKey(m, e) \in GroupKeys
BY DEF GroupKey, GroupKeys, PersonKey, TableBucket, Entry

\* Submission orders entries strictly and totally, and so does the credit of their
\* groups, then grace, then submission.
BySubmission(S) == {p \in S \X S : SubmittedBefore(p[1], p[2])}
ByCredit(m, served, S) == {p \in S \X S : ServedBefore(m, served, p[1], p[2])}

LEMMA SubmissionOrders ==
  ASSUME NEW S, Numbered(S)
  PROVE  Orders(BySubmission(S), S)
<1>1. \A e \in S : e.seq \in Int
  BY DEF Numbered, Entry
<1>2. \A e, f \in S : <<e, f>> \in BySubmission(S) <=> e.seq < f.seq
  BY DEF BySubmission, SubmittedBefore
<1>3. \A e, f \in S : e.seq = f.seq => e = f
  BY DEF Numbered
<1> QED
  BY <1>1, <1>2, <1>3 DEF Orders

LEMMA CreditOrders ==
  ASSUME NEW m, NEW S, Numbered(S), NEW served \in [GroupKeys -> Int]
  PROVE  Orders(ByCredit(m, served, S), S)
<1> DEFINE credit == [e \in S |-> served[GroupKey(m, e)]]
           rank == [e \in S |-> IF e.grace THEN 0 ELSE 1]
<1>1. \A e \in S : e \in Entry /\ e.seq \in Int /\ e.grace \in BOOLEAN
  BY DEF Numbered, Entry
<1>2. \A e \in S : credit[e] \in Int
  BY <1>1, KeysAreKeys
<1>3. \A e \in S : rank[e] \in {0, 1}
  OBVIOUS
<1>4. \A e, f \in S : <<e, f>> \in ByCredit(m, served, S) <=>
        \/ credit[e] < credit[f]
        \/ credit[e] = credit[f] /\ rank[e] < rank[f]
        \/ credit[e] = credit[f] /\ rank[e] = rank[f] /\ e.seq < f.seq
  <2> SUFFICES ASSUME NEW e \in S, NEW f \in S
               PROVE  <<e, f>> \in ByCredit(m, served, S) <=>
                        \/ credit[e] < credit[f]
                        \/ credit[e] = credit[f] /\ rank[e] < rank[f]
                        \/ credit[e] = credit[f] /\ rank[e] = rank[f] /\ e.seq < f.seq
    BY Zenon
  <2>1. <<e, f>> \in ByCredit(m, served, S) <=> ServedBefore(m, served, e, f)
    BY DEF ByCredit
  <2>2. rank[e] < rank[f] <=> e.grace /\ ~f.grace
    OBVIOUS
  <2>3. rank[e] = rank[f] <=> (e.grace = f.grace)
    BY <1>1
  <2> QED
    BY <2>1, <2>2, <2>3 DEF ServedBefore, GraceThenSubmitted, SubmittedBefore
<1>5. \A e, f \in S : e.seq = f.seq => e = f
  BY DEF Numbered
<1> HIDE DEF credit, rank
<1>6. \A e \in S : <<e, e>> \notin ByCredit(m, served, S)
  BY <1>1, <1>2, <1>3, <1>4
<1>7. \A e, f, g \in S :
        <<e, f>> \in ByCredit(m, served, S) /\ <<f, g>> \in ByCredit(m, served, S)
          => <<e, g>> \in ByCredit(m, served, S)
  <2> SUFFICES ASSUME NEW e \in S, NEW f \in S, NEW g \in S,
                      <<e, f>> \in ByCredit(m, served, S), <<f, g>> \in ByCredit(m, served, S)
               PROVE  <<e, g>> \in ByCredit(m, served, S)
    BY Zenon
  <2>1. /\ credit[e] \in Int /\ credit[f] \in Int /\ credit[g] \in Int
        /\ rank[e] \in Int /\ rank[f] \in Int /\ rank[g] \in Int
        /\ e.seq \in Int /\ f.seq \in Int /\ g.seq \in Int
    BY <1>1, <1>2, <1>3
  <2>2. /\ \/ credit[e] < credit[f]
           \/ credit[e] = credit[f] /\ rank[e] < rank[f]
           \/ credit[e] = credit[f] /\ rank[e] = rank[f] /\ e.seq < f.seq
        /\ \/ credit[f] < credit[g]
           \/ credit[f] = credit[g] /\ rank[f] < rank[g]
           \/ credit[f] = credit[g] /\ rank[f] = rank[g] /\ f.seq < g.seq
    BY <1>4, Zenon
  <2>3. \/ credit[e] < credit[g]
        \/ credit[e] = credit[g] /\ rank[e] < rank[g]
        \/ credit[e] = credit[g] /\ rank[e] = rank[g] /\ e.seq < g.seq
    BY <2>1, <2>2
  <2> QED
    BY <1>4, <2>3, Zenon
<1>8. \A e, f \in S :
        e # f => <<e, f>> \in ByCredit(m, served, S) \/ <<f, e>> \in ByCredit(m, served, S)
  <2> TAKE e, f \in S
  <2> QED
    BY <1>1, <1>2, <1>3, <1>4, <1>5
<1> QED
  BY <1>6, <1>7, <1>8, Zenon DEF Orders

\* A finite set of numbers has its greatest.
LEMMA MaxOfSet ==
  ASSUME NEW S \in SUBSET Int, IsFiniteSet(S), S # {}
  PROVE  MaxOf(S) \in S /\ \A n \in S : n <= MaxOf(S)
<1> DEFINE R == {p \in S \X S : p[1] > p[2]}
<1>1. \A m, n \in S : <<m, n>> \in R <=> m > n
  OBVIOUS
<1>2. Orders(R, S)
  <2> HIDE DEF R
  <2> QED
    BY <1>1 DEF Orders
<1>3. PICK m \in S : \A n \in S \ {m} : <<m, n>> \in R
  <2> HIDE DEF R
  <2> QED
    BY <1>2, LeastItem
<1> HIDE DEF R
<1>4. ASSUME NEW n \in S PROVE n <= m
  <2>1. n = m \/ m > n
    BY <1>1, <1>3
  <2> QED
    BY <2>1
<1> QED
  BY <1>4 DEF MaxOf

-----------------------------------------------------------------------------
(* roundRobin.                                                             *)

\* Its loop, from the loop's states to what it returns.
RoundStates(sings) ==
  [order : Seq(sings), waiting : SUBSET sings, served : [GroupKeys -> Int], tick : Nat]
BestHead(m, s) ==
  CHOOSE e \in s.waiting : \A f \in s.waiting \ {e} : ServedBefore(m, s.served, e, f)
Round(m, s) ==
  [order   |-> Append(s.order, BestHead(m, s)),
   waiting |-> s.waiting \ {BestHead(m, s)},
   served  |-> [s.served EXCEPT ![GroupKey(m, BestHead(m, s))] = s.tick],
   tick    |-> s.tick + 1]
RoundRobinLoop(loop, m, sings) ==
  loop = [s \in RoundStates(sings) |-> IF s.waiting = {} THEN s.order ELSE loop[Round(m, s)]]
RoundRobinFunction(m, sings) == CHOOSE loop : RoundRobinLoop(loop, m, sings)
RoundStop(sings) == {s \in RoundStates(sings) : s.waiting = {}}
RoundBase(sings) == [s \in RoundStates(sings) |-> s.order]
RoundStep(m, sings) == [s \in RoundStates(sings) |-> Round(m, s)]
RoundsToGo(sings) == [s \in RoundStates(sings) |-> Cardinality(s.waiting)]
FirstRound(m, sings, sang) ==
  [order |-> <<>>, waiting |-> sings, served |-> sang,
   tick |-> MaxOf({0} \cup {sang[GroupKey(m, e)] + 1 : e \in sings})]

LEMMA RoundRobinIsALoop ==
  ASSUME NEW m, NEW sings, NEW sang
  PROVE  RoundRobin(m, sings, sang) =
           RoundRobinFunction(m, sings)[FirstRound(m, sings, sang)]
BY DEF RoundRobin, RoundRobinFunction, RoundRobinLoop, RoundStates, Round, BestHead, FirstRound

\* The best head is a waiting entry that goes before the others, and a round leaves the
\* loop in a state of its own.
LEMMA RoundServes ==
  ASSUME NEW m, NEW sings, Numbered(sings), NEW s \in RoundStates(sings), s.waiting # {}
  PROVE  /\ BestHead(m, s) \in s.waiting
         /\ \A f \in s.waiting \ {BestHead(m, s)} : ServedBefore(m, s.served, BestHead(m, s), f)
         /\ Round(m, s) \in RoundStates(sings)
<1>1. /\ s.order \in Seq(sings) /\ s.waiting \in SUBSET sings
      /\ s.served \in [GroupKeys -> Int] /\ s.tick \in Nat
  BY DEF RoundStates
<1>2. Numbered(s.waiting) /\ IsFiniteSet(s.waiting)
  <2>1. IsFiniteSet(s.waiting)
    BY <1>1, FS_Subset, Zenon DEF Numbered
  <2> QED
    BY <1>1, <2>1 DEF Numbered
<1>3. Orders(ByCredit(m, s.served, s.waiting), s.waiting)
  BY <1>1, <1>2, CreditOrders
<1>4. PICK e \in s.waiting : \A f \in s.waiting \ {e} : <<e, f>> \in ByCredit(m, s.served, s.waiting)
  BY <1>2, <1>3, LeastItem
<1>5. \A f \in s.waiting \ {e} : ServedBefore(m, s.served, e, f)
  BY <1>4 DEF ByCredit
<1>6. /\ BestHead(m, s) \in s.waiting
      /\ \A f \in s.waiting \ {BestHead(m, s)} : ServedBefore(m, s.served, BestHead(m, s), f)
  BY <1>5, Zenon DEF BestHead
<1> DEFINE h == BestHead(m, s)
<1> HIDE DEF h
<1>7. h \in s.waiting /\ h \in sings
  BY <1>1, <1>6 DEF h
<1>8. [s.served EXCEPT ![GroupKey(m, h)] = s.tick] \in [GroupKeys -> Int]
  <2> DEFINE served == s.served
             tick == s.tick
             key == GroupKey(m, h)
  <2>1. served \in [GroupKeys -> Int] /\ tick \in Int
    BY <1>1
  <2> HIDE DEF served, tick, key
  <2>2. [served EXCEPT ![key] = tick] \in [GroupKeys -> Int]
    BY <2>1
  <2> QED
    BY <2>2 DEF served, tick, key
<1>9. Append(s.order, h) \in Seq(sings) /\ s.waiting \ {h} \in SUBSET sings /\ s.tick + 1 \in Nat
  BY <1>1, <1>7
<1>10. Round(m, s) \in RoundStates(sings)
  BY <1>8, <1>9, Zenon DEF Round, RoundStates, h
<1> QED
  BY <1>6, <1>10
\* Every round leaves fewer to go.
LEMMA RoundRobinLoops ==
  ASSUME NEW m, NEW sings, Numbered(sings)
  PROVE  /\ Loops(RoundRobinFunction(m, sings), RoundStates(sings), RoundStop(sings),
                  RoundBase(sings), RoundStep(m, sings))
         /\ \A s \in RoundStates(sings) : RoundsToGo(sings)[s] \in Nat
         /\ \A s \in RoundStates(sings) \ RoundStop(sings) :
              /\ RoundStep(m, sings)[s] \in RoundStates(sings)
              /\ RoundsToGo(sings)[RoundStep(m, sings)[s]] < RoundsToGo(sings)[s]
<1> DEFINE D == RoundStates(sings)
           stop == RoundStop(sings)
           base == RoundBase(sings)
           step == RoundStep(m, sings)
           mu == RoundsToGo(sings)
<1>1. \A s \in D \ stop : step[s] \in D
  BY RoundServes DEF RoundStop, RoundStep
<1>2. \A f : Loops(f, D, stop, base, step) <=> RoundRobinLoop(f, m, sings)
  <2> TAKE f
  <2>1. \A s \in D : (IF s \in stop THEN base[s] ELSE f[step[s]])
                       = (IF s.waiting = {} THEN s.order ELSE f[Round(m, s)])
    BY Zenon DEF RoundStop, RoundBase, RoundStep
  <2> HIDE DEF stop, base, step
  <2> QED
    BY <2>1, Zenon DEF Loops, RoundRobinLoop
<1>3. Loops(RoundRobinFunction(m, sings), D, stop, base, step)
  <2> HIDE DEF D, stop, base, step
  <2>1. \E f : Loops(f, D, stop, base, step)
    BY <1>1, LoopExists
  <2> QED
    BY <1>2, <2>1, Zenon DEF RoundRobinFunction
<1>4. \A s \in D : IsFiniteSet(s.waiting) /\ Cardinality(s.waiting) \in Nat
  <2> TAKE s \in D
  <2>1. IsFiniteSet(s.waiting)
    BY FS_Subset DEF RoundStates, Numbered
  <2> QED
    BY <2>1, FS_CardinalityType
<1>5. ASSUME NEW s \in D, s \notin stop PROVE step[s] \in D /\ mu[step[s]] < mu[s]
  <2> DEFINE h == BestHead(m, s)
             t == Round(m, s)
             w == s.waiting
  <2>1. h \in w /\ t \in D
    BY <1>5, RoundServes DEF RoundStop
  <2>2. t.waiting = w \ {h} /\ step[s] = t
    BY DEF Round, RoundStep
  <2>3. mu[t] = Cardinality(t.waiting) /\ mu[s] = Cardinality(w)
    BY <2>1 DEF RoundsToGo
  <2>4. IsFiniteSet(w)
    BY <1>4
  <2> HIDE DEF h, t, w, mu
  <2>5. Cardinality(w \ {h}) = Cardinality(w) - 1 /\ Cardinality(w) \in Nat
    BY <2>1, <2>4, FS_RemoveElement, FS_CardinalityType
  <2> QED
    BY <2>1, <2>2, <2>3, <2>5
<1> QED
  BY <1>3, <1>4, <1>5 DEF RoundsToGo

\* What every round keeps, the loop's last state has.
KeptByRounds(m, sings, J) ==
  J \subseteq RoundStates(sings) /\ \A s \in J : s.waiting # {} => Round(m, s) \in J

LastRound(m, sings, s, t) == t.waiting = {} /\ RoundRobinFunction(m, sings)[s] = t.order

LEMMA RoundRobinEnds ==
  ASSUME NEW m, NEW sings, Numbered(sings), NEW J, KeptByRounds(m, sings, J), NEW s0 \in J
  PROVE  \E t \in J : LastRound(m, sings, s0, t)
<1> DEFINE D == RoundStates(sings)
           stop == RoundStop(sings)
           base == RoundBase(sings)
           step == RoundStep(m, sings)
           mu == RoundsToGo(sings)
           loop == RoundRobinFunction(m, sings)
<1>1. /\ Loops(loop, D, stop, base, step)
      /\ \A s \in D : mu[s] \in Nat
      /\ \A s \in D \ stop : mu[step[s]] < mu[s]
  BY RoundRobinLoops
<1>2. J \in SUBSET D
  BY DEF KeptByRounds
<1>3. \A s \in J \ stop : step[s] \in J
  BY <1>2 DEF KeptByRounds, RoundStop, RoundStep
<1>4. PICK t \in J \cap stop : loop[s0] = base[t]
  <2> HIDE DEF D, stop, base, step, loop, mu
  <2> QED
    BY <1>1, <1>2, <1>3, LoopEnds
<1> QED
  BY <1>2, <1>4 DEF RoundStop, RoundBase, LastRound

\* A round changes nothing in what is returned.
LEMMA RoundRobinUnfolds ==
  ASSUME NEW m, NEW sings, Numbered(sings), NEW s \in RoundStates(sings), s.waiting # {}
  PROVE  RoundRobinFunction(m, sings)[s] = RoundRobinFunction(m, sings)[Round(m, s)]
<1> DEFINE f == RoundRobinFunction(m, sings)
<1>1. Loops(f, RoundStates(sings), RoundStop(sings), RoundBase(sings), RoundStep(m, sings))
  BY RoundRobinLoops
<1> HIDE DEF f
<1>2. f[s] = IF s \in RoundStop(sings) THEN RoundBase(sings)[s] ELSE f[RoundStep(m, sings)[s]]
  BY <1>1, Zenon DEF Loops
<1>3. s \notin RoundStop(sings) /\ RoundStep(m, sings)[s] = Round(m, s)
  BY DEF RoundStop, RoundStep
<1> QED
  BY <1>2, <1>3 DEF f

\* The clock of roundRobin starts after every waiting group's last turn.
LEMMA FirstTick ==
  ASSUME NEW m, NEW sings, Numbered(sings), NEW sang \in [GroupKeys -> Int]
  PROVE  /\ FirstRound(m, sings, sang) \in RoundStates(sings)
         /\ \A e \in sings : sang[GroupKey(m, e)] < FirstRound(m, sings, sang).tick
<1> DEFINE T == {0} \cup {sang[GroupKey(m, e)] + 1 : e \in sings}
           start == FirstRound(m, sings, sang)
<1>1. T \in SUBSET Int /\ \A e \in sings : sang[GroupKey(m, e)] \in Int
  BY KeysAreKeys DEF Numbered
<1>2. IsFiniteSet(T)
  <2> DEFINE f == [e \in sings |-> sang[GroupKey(m, e)] + 1]
  <2>1. T = {0} \cup {f[e] : e \in sings}
    OBVIOUS
  <2> HIDE DEF f
  <2>2. IsFiniteSet({f[e] : e \in sings})
    BY ImageIsFinite DEF Numbered
  <2> QED
    BY <2>1, <2>2, FS_Singleton, FS_Union, Zenon
<1>3. 0 \in T /\ \A e \in sings : sang[GroupKey(m, e)] + 1 \in T
  OBVIOUS
<1>4. start = [order |-> <<>>, waiting |-> sings, served |-> sang, tick |-> MaxOf(T)]
  BY DEF FirstRound
<1> HIDE DEF T, start
<1>5. MaxOf(T) \in T /\ \A n \in T : n <= MaxOf(T)
  BY <1>1, <1>2, <1>3, MaxOfSet
<1>6. MaxOf(T) \in Nat
  <2>1. MaxOf(T) \in Int /\ 0 <= MaxOf(T)
    BY <1>1, <1>3, <1>5, Zenon
  <2> QED
    BY <2>1
<1>7. start \in RoundStates(sings)
  BY <1>4, <1>6 DEF RoundStates
<1>8. ASSUME NEW e \in sings PROVE sang[GroupKey(m, e)] < MaxOf(T)
  <2>1. sang[GroupKey(m, e)] + 1 <= MaxOf(T)
    BY <1>3, <1>5
  <2> QED
    BY <1>1, <1>6, <2>1
<1> QED
  BY <1>4, <1>7, <1>8 DEF start

\* roundRobin returns each of the entries once.
LEMMA RoundRobinKeeps ==
  ASSUME NEW m, NEW sings, Numbered(sings), NEW sang \in [GroupKeys -> Int]
  PROVE  Enumerates(RoundRobin(m, sings, sang), sings)
<1> DEFINE J == {s \in RoundStates(sings) : /\ Range(s.order) \cup s.waiting = sings
                                            /\ Range(s.order) \cap s.waiting = {}
                                            /\ IsInjective(s.order)}
           start == FirstRound(m, sings, sang)
<1>1. ASSUME NEW s \in J, s.waiting # {} PROVE Round(m, s) \in J
  <2> DEFINE h == BestHead(m, s)
             t == Round(m, s)
  <2>1. h \in s.waiting /\ t \in RoundStates(sings)
    BY <1>1, RoundServes
  <2>2. t.order = Append(s.order, h) /\ t.waiting = s.waiting \ {h}
    BY DEF Round
  <2>3. s.order \in Seq(sings) /\ s.waiting \in SUBSET sings
    BY DEF RoundStates
  <2> HIDE DEF h, t
  <2>4. /\ Range(t.order) = Range(s.order) \cup {h}
        /\ h \notin Range(s.order) => IsInjective(t.order)
    BY <2>1, <2>2, <2>3, AppendProperties
  <2>5. t \in J
    BY <2>1, <2>2, <2>4
  <2> QED
    BY <2>5 DEF t
<1>2. start \in J
  <2>1. start \in RoundStates(sings) /\ start.order = <<>> /\ start.waiting = sings
    BY FirstTick DEF FirstRound
  <2>2. Range(<<>>) = {} /\ IsInjective(<<>>)
    BY DEF Range, IsInjective
  <2> HIDE DEF start
  <2> QED
    BY <2>1, <2>2
<1>3. PICK t \in J : LastRound(m, sings, start, t)
  <2>1. KeptByRounds(m, sings, J)
    BY <1>1, Zenon DEF KeptByRounds
  <2> HIDE DEF J, start
  <2> QED
    BY <1>2, <2>1, RoundRobinEnds
<1>4. RoundRobin(m, sings, sang) = t.order
  BY <1>3, RoundRobinIsALoop, Zenon DEF LastRound
<1>5. Enumerates(t.order, sings)
  BY <1>3 DEF Enumerates, RoundStates, LastRound
<1> QED
  BY <1>4, <1>5, Zenon

\* It returns first the entry that goes before all others.
LEMMA RoundRobinHead ==
  ASSUME NEW m, NEW sings, Numbered(sings), sings # {}, NEW sang \in [GroupKeys -> Int]
  PROVE  LET h == BestHead(m, FirstRound(m, sings, sang))
         IN  /\ RoundRobin(m, sings, sang)[1] = h
             /\ h \in sings /\ \A f \in sings \ {h} : ServedBefore(m, sang, h, f)
<1> DEFINE start == FirstRound(m, sings, sang)
           h == BestHead(m, start)
           next == Round(m, start)
           J == {s \in RoundStates(sings) : s.order # <<>> /\ s.order[1] = h}
<1>1. /\ start \in RoundStates(sings)
      /\ start.waiting = sings /\ start.order = <<>> /\ start.served = sang
  BY FirstTick DEF FirstRound
<1>2. /\ h \in sings /\ \A f \in sings \ {h} : ServedBefore(m, sang, h, f)
      /\ next \in RoundStates(sings) /\ next.order = Append(<<>>, h)
  <2>1. next.order = Append(start.order, h)
    BY DEF Round
  <2> HIDE DEF start, next
  <2> QED
    BY <1>1, <2>1, RoundServes DEF next
<1>3. KeptByRounds(m, sings, J)
  <2> SUFFICES ASSUME NEW s \in J, s.waiting # {} PROVE Round(m, s) \in J
    BY Zenon DEF KeptByRounds
  <2> DEFINE o == s.order
             x == BestHead(m, s)
             t == Round(m, s)
  <2>1. t.order = Append(o, x) /\ t \in RoundStates(sings) /\ x \in sings /\ o \in Seq(sings)
    BY RoundServes DEF Round, RoundStates
  <2>2. o # <<>> /\ o[1] = h
    OBVIOUS
  <2> HIDE DEF o, x, t, h
  <2>3. Append(o, x) # <<>> /\ Append(o, x)[1] = h
    BY <2>1, <2>2
  <2> QED
    BY <2>1, <2>3 DEF t
<1>4. next \in J
  <2> HIDE DEF next, h
  <2>1. Append(<<>>, h) # <<>> /\ Append(<<>>, h)[1] = h
    OBVIOUS
  <2> QED
    BY <1>2, <2>1
<1>5. PICK t \in J : LastRound(m, sings, next, t)
  <2> HIDE DEF J, next
  <2> QED
    BY <1>3, <1>4, RoundRobinEnds
<1>6. RoundRobin(m, sings, sang) = t.order
  <2> HIDE DEF J
  <2>1. RoundRobinFunction(m, sings)[start] = RoundRobinFunction(m, sings)[next]
    BY <1>1, RoundRobinUnfolds
  <2> QED
    BY <1>5, <2>1, RoundRobinIsALoop, Zenon DEF LastRound
<1>7. t.order[1] = h
  BY <1>5
<1> QED
  BY <1>2, <1>6, <1>7, Zenon

\* An entry whose group had more credit spent has the groups with less before it.
CreditFirst(m, sang, o, S) ==
  \A i \in DOMAIN o : \A f \in S :
    sang[GroupKey(m, f)] < sang[GroupKey(m, o[i])]
      => \E j \in 1..(i - 1) : GroupKey(m, o[j]) = GroupKey(m, f)

LEMMA RoundRobinCredit ==
  ASSUME NEW m, NEW sings, Numbered(sings), NEW sang \in [GroupKeys -> Int]
  PROVE  CreditFirst(m, sang, RoundRobin(m, sings, sang), sings)
<1> DEFINE Served(o, k) == \E i \in DOMAIN o : GroupKey(m, o[i]) = k
           J == {s \in RoundStates(sings) :
                   /\ \A f \in sings : f \in Range(s.order) \/ f \in s.waiting
                   /\ \A k \in GroupKeys : Served(s.order, k) \/ s.served[k] = sang[k]
                   /\ CreditFirst(m, sang, s.order, sings)}
           start == FirstRound(m, sings, sang)
<1>1. KeptByRounds(m, sings, J)
  <2> SUFFICES ASSUME NEW s \in J, s.waiting # {} PROVE Round(m, s) \in J
    BY Zenon DEF KeptByRounds
  <2> DEFINE o == s.order
             w == s.waiting
             served == s.served
             h == BestHead(m, s)
             t == Round(m, s)
             p == Append(o, h)
  <2>1. /\ t.order = p /\ t.waiting = w \ {h} /\ t \in RoundStates(sings)
        /\ \A k \in GroupKeys : k # GroupKey(m, h) => t.served[k] = served[k]
    <3>1. t \in RoundStates(sings) /\ t.served = [served EXCEPT ![GroupKey(m, h)] = s.tick]
      BY RoundServes DEF Round
    <3>2. served \in [GroupKeys -> Int]
      BY DEF RoundStates
    <3> HIDE DEF served
    <3> QED
      BY <3>1, <3>2 DEF Round
  <2>2. /\ h \in w /\ \A f \in w \ {h} : ServedBefore(m, served, h, f)
        /\ o \in Seq(sings) /\ w \in SUBSET sings /\ served \in [GroupKeys -> Int]
    BY RoundServes DEF RoundStates
  <2>3. /\ \A f \in sings : f \in Range(o) \/ f \in w
        /\ \A k \in GroupKeys : Served(o, k) \/ served[k] = sang[k]
        /\ CreditFirst(m, sang, o, sings)
    OBVIOUS
  <2> HIDE DEF o, w, served, h, t
  <2>4. /\ Len(o) \in Nat /\ DOMAIN o = 1..Len(o) /\ DOMAIN p = 1..(Len(o) + 1)
        /\ \A i \in 1..Len(o) : p[i] = o[i] /\ o[i] \in sings
        /\ p[Len(o) + 1] = h
    BY <2>2
  <2> HIDE DEF p
  <2>5. \A f \in sings : f \in Range(p) \/ f \in w \ {h}
    BY <2>3, <2>4 DEF Range
  <2>6. \A k \in GroupKeys : Served(p, k) \/ t.served[k] = sang[k]
    <3> TAKE k \in GroupKeys
    <3>1. CASE Served(o, k)
      BY <2>4, <3>1
    <3>2. CASE k = GroupKey(m, h)
      BY <2>4, <3>2
    <3> QED
      BY <2>1, <2>3, <3>1, <3>2
  <2>7. ASSUME NEW f \in sings, sang[GroupKey(m, f)] < sang[GroupKey(m, h)]
        PROVE  \E j \in 1..Len(o) : GroupKey(m, o[j]) = GroupKey(m, f)
    <3> DEFINE k == GroupKey(m, f)
               l == GroupKey(m, h)
    <3>1. k \in GroupKeys /\ l \in GroupKeys
      BY <2>2, KeysAreKeys DEF Numbered
    <3>2. sang[k] \in Int /\ sang[l] \in Int /\ served[k] \in Int /\ served[l] \in Int
      BY <2>2, <3>1
    <3>3. sang[k] < sang[l]
      BY <2>7
    <3>4. Served(o, k) => \E j \in 1..Len(o) : GroupKey(m, o[j]) = k
      BY <2>4
    <3>5. CASE Served(o, l)
      <4>1. PICK i \in 1..Len(o) : GroupKey(m, o[i]) = l
        BY <2>4, <3>5
      <4>2. PICK j \in 1..(i - 1) : GroupKey(m, o[j]) = k
        <5>1. i \in DOMAIN o /\ sang[GroupKey(m, f)] < sang[GroupKey(m, o[i])]
          BY <2>4, <3>3, <4>1
        <5> QED
          BY <2>3, <5>1 DEF CreditFirst
      <4>3. j \in 1..Len(o)
        BY <2>4
      <4> QED
        BY <4>2, <4>3
    <3>6. CASE f \in w /\ ~Served(o, k) /\ ~Served(o, l)
      <4>1. served[k] = sang[k] /\ served[l] = sang[l] /\ f # h
        BY <2>3, <3>1, <3>2, <3>3, <3>6
      <4>2. served[l] <= served[k]
        <5>1. ServedBefore(m, served, h, f)
          BY <2>2, <3>6, <4>1
        <5>2. served[l] < served[k] \/ served[l] = served[k]
          BY <5>1 DEF ServedBefore
        <5> HIDE DEF k, l
        <5> QED
          BY <3>2, <5>2
      <4> HIDE DEF k, l
      <4> QED
        BY <3>2, <3>3, <4>1, <4>2
    <3>7. f \in Range(o) => Served(o, k)
      BY DEF Range
    <3> QED
      BY <2>3, <3>4, <3>5, <3>6, <3>7
  <2>8. CreditFirst(m, sang, p, sings)
    <3> SUFFICES ASSUME NEW i \in DOMAIN p, NEW f \in sings,
                        sang[GroupKey(m, f)] < sang[GroupKey(m, p[i])]
                 PROVE  \E j \in 1..(i - 1) : GroupKey(m, p[j]) = GroupKey(m, f)
      BY DEF CreditFirst
    <3>1. CASE i = Len(o) + 1
      <4>1. PICK j \in 1..Len(o) : GroupKey(m, o[j]) = GroupKey(m, f)
        BY <2>4, <2>7, <3>1
      <4> QED
        BY <2>4, <3>1, <4>1
    <3>2. CASE i \in 1..Len(o)
      <4>1. PICK j \in 1..(i - 1) : GroupKey(m, o[j]) = GroupKey(m, f)
        BY <2>3, <2>4, <3>2 DEF CreditFirst
      <4>2. j \in 1..Len(o)
        BY <2>4, <3>2
      <4> QED
        BY <2>4, <4>1, <4>2
    <3> QED
      BY <2>4, <3>1, <3>2
  <2>9. t \in J
    BY <2>1, <2>5, <2>6, <2>8
  <2> QED
    BY <2>9 DEF t
<1>2. start \in J
  <2>1. /\ start \in RoundStates(sings)
        /\ start.waiting = sings /\ start.order = <<>> /\ start.served = sang
    BY FirstTick DEF FirstRound
  <2>2. CreditFirst(m, sang, <<>>, sings)
    BY DEF CreditFirst
  <2> HIDE DEF start
  <2> QED
    BY <2>1, <2>2
<1>3. PICK t \in J : LastRound(m, sings, start, t)
  <2> HIDE DEF J, start
  <2> QED
    BY <1>1, <1>2, RoundRobinEnds
<1>4. RoundRobin(m, sings, sang) = t.order
  BY <1>3, RoundRobinIsALoop, Zenon DEF LastRound
<1> QED
  BY <1>3, <1>4, Zenon

-----------------------------------------------------------------------------
(* The rounds that its loop makes.                                         *)

Mates(m, S, e) == {f \in S : GroupKey(m, f) = GroupKey(m, e)}
RoundOf(m, S, e) == Cardinality({f \in Mates(m, S, e) : GraceThenSubmitted(f, e)})
HeadOf(m, S, e) ==
  CHOOSE f \in Mates(m, S, e) : \A g \in Mates(m, S, e) \ {f} : GraceThenSubmitted(f, g)
EarlierTurn(m, S, sang, e, f) ==
  \/ RoundOf(m, S, e) < RoundOf(m, S, f)
  \/ /\ RoundOf(m, S, e) = RoundOf(m, S, f)
     /\ ServedBefore(m, sang, HeadOf(m, S, e), HeadOf(m, S, f))

\* Grace and submission order entries strictly and totally.
ByGrace(S) == {p \in S \X S : GraceThenSubmitted(p[1], p[2])}

LEMMA GraceOrders ==
  ASSUME NEW S, Numbered(S)
  PROVE  /\ Orders(ByGrace(S), S)
         /\ \A e, f \in S : <<e, f>> \in ByGrace(S) <=> GraceThenSubmitted(e, f)
<1> DEFINE R == ByCredit("full-karaoke", NeverSang, S)
<1>1. Orders(R, S)
  <2>1. NeverSang \in [GroupKeys -> Int]
    BY DEF NeverSang
  <2> QED
    BY <2>1, CreditOrders
<1>2. ASSUME NEW e \in S, NEW f \in S PROVE <<e, f>> \in R <=> GraceThenSubmitted(e, f)
  <2>1. GroupKey("full-karaoke", e) \in GroupKeys /\ GroupKey("full-karaoke", f) \in GroupKeys
    BY KeysAreKeys DEF Numbered
  <2>2. NeverSang[GroupKey("full-karaoke", e)] = -1 /\ NeverSang[GroupKey("full-karaoke", f)] = -1
    BY <2>1 DEF NeverSang
  <2> QED
    BY <2>2 DEF ByCredit, ServedBefore
<1>3. \A e, f \in S : <<e, f>> \in ByGrace(S) <=> GraceThenSubmitted(e, f)
  BY DEF ByGrace
<1> HIDE DEF R
<1>4. Orders(ByGrace(S), S)
  BY <1>1, <1>2, <1>3, Zenon DEF Orders
<1> QED
  BY <1>3, <1>4

\* Within a group the rounds grow by one with each entry, from 0 for its head.
LEMMA RoundsOfAGroup ==
  ASSUME NEW m, NEW S, Numbered(S), NEW e \in S
  PROVE  /\ RoundOf(m, S, e) \in Nat
         /\ HeadOf(m, S, e) \in S /\ GroupKey(m, HeadOf(m, S, e)) = GroupKey(m, e)
         /\ (\A f \in Mates(m, S, e) \ {e} : GraceThenSubmitted(e, f))
              => RoundOf(m, S, e) = 0 /\ HeadOf(m, S, e) = e
         /\ \A f \in Mates(m, S, e) :
              /\ HeadOf(m, S, f) = HeadOf(m, S, e)
              /\ GraceThenSubmitted(e, f) => RoundOf(m, S, e) < RoundOf(m, S, f)
              /\ /\ GraceThenSubmitted(e, f)
                 /\ \A g \in Mates(m, S, e) \ {e, f} :
                      GraceThenSubmitted(g, e) \/ GraceThenSubmitted(f, g)
                 => RoundOf(m, S, f) = RoundOf(m, S, e) + 1
<1> DEFINE G == Mates(m, S, e)
           R == ByGrace(G)
<1>1. Numbered(G) /\ e \in G /\ IsFiniteSet(G)
  <2>1. G \in SUBSET S /\ e \in G
    BY DEF Mates
  <2> QED
    BY <2>1, FS_Subset DEF Numbered
<1>2. \A f \in G : Mates(m, S, f) = G
  BY DEF Mates
<1>3. \A f \in G : f \in S /\ GroupKey(m, f) = GroupKey(m, e)
  BY DEF Mates
<1> HIDE DEF G
<1>4. Orders(R, G) /\ \A f, g \in G : <<f, g>> \in R <=> GraceThenSubmitted(f, g)
  BY <1>1, GraceOrders
<1> HIDE DEF R
<1>5. \A f \in G : RoundOf(m, S, f) = Cardinality(Preceding(R, G, f))
  <2> TAKE f \in G
  <2>1. {g \in G : GraceThenSubmitted(g, f)} = Preceding(R, G, f)
    BY <1>4 DEF Preceding
  <2> QED
    BY <1>2, <2>1 DEF RoundOf
<1>6. \A f \in G : Cardinality(Preceding(R, G, f)) \in Nat /\ IsFiniteSet(Preceding(R, G, f))
  BY <1>1, FS_Subset, FS_CardinalityType DEF Preceding
<1>7. HeadOf(m, S, e) \in G /\ \A g \in G \ {HeadOf(m, S, e)} : GraceThenSubmitted(HeadOf(m, S, e), g)
  <2>1. PICK x \in G : \A g \in G \ {x} : <<x, g>> \in R
    BY <1>1, <1>4, LeastItem
  <2>2. \A g \in G \ {x} : GraceThenSubmitted(x, g)
    BY <1>4, <2>1
  <2> QED
    BY <2>2, Zenon DEF HeadOf, G
<1>8. ASSUME \A f \in G \ {e} : GraceThenSubmitted(e, f)
      PROVE  RoundOf(m, S, e) = 0 /\ HeadOf(m, S, e) = e
  <2>1. \A f \in G \ {e} : <<e, f>> \in R
    BY <1>1, <1>4, <1>8
  <2>2. Preceding(R, G, e) = {}
    BY <1>1, <1>4, <2>1 DEF Preceding, Orders
  <2>3. RoundOf(m, S, e) = 0
    BY <1>1, <1>5, <2>2, FS_EmptySet
  <2>4. HeadOf(m, S, e) = e
    BY <1>1, <1>4, <1>7, <2>1 DEF Orders
  <2> QED
    BY <2>3, <2>4
<1>9. \A f \in G : HeadOf(m, S, f) = HeadOf(m, S, e)
  BY <1>1, <1>2 DEF HeadOf
<1>10. ASSUME NEW f \in G, GraceThenSubmitted(e, f) PROVE RoundOf(m, S, e) < RoundOf(m, S, f)
  <2>1. <<e, f>> \in R
    BY <1>1, <1>4, <1>10
  <2> QED
    BY <1>1, <1>4, <1>5, <2>1, PrecedingGrows
<1>11. ASSUME NEW f \in G, GraceThenSubmitted(e, f),
              \A g \in G \ {e, f} : GraceThenSubmitted(g, e) \/ GraceThenSubmitted(f, g)
       PROVE  RoundOf(m, S, f) = RoundOf(m, S, e) + 1
  <2> DEFINE P(g) == Preceding(R, G, g)
  <2>1. <<e, f>> \in R /\ \A g \in G \ {e, f} : <<g, e>> \in R \/ <<f, g>> \in R
    BY <1>1, <1>4, <1>11
  <2>2. P(f) = P(e) \cup {e} /\ e \notin P(e)
    <3>1. e \in P(f) /\ e \notin P(e)
      BY <1>1, <1>4, <2>1 DEF Preceding, Orders
    <3>2. ASSUME NEW g \in P(e) PROVE g \in P(f)
      BY <1>1, <1>4, <2>1, <3>2 DEF Preceding, Orders
    <3>3. ASSUME NEW g \in P(f), g # e PROVE g \in P(e)
      <4>1. g \in G /\ <<g, f>> \in R
        BY <3>3 DEF Preceding
      <4>2. g # f /\ <<f, g>> \notin R
        BY <1>4, <4>1 DEF Orders
      <4> QED
        BY <2>1, <3>3, <4>1, <4>2 DEF Preceding
    <3> HIDE DEF P
    <3> QED
      BY <3>1, <3>2, <3>3
  <2> HIDE DEF P
  <2>3. Cardinality(P(f)) = Cardinality(P(e)) + 1
    <3>1. IsFiniteSet(P(e))
      BY <1>1, <1>6 DEF P
    <3> QED
      BY <2>2, <3>1, FS_AddElement
  <2> QED
    BY <1>1, <1>5, <2>3 DEF P
<1> QED
  BY <1>1, <1>3, <1>5, <1>6, <1>7, <1>8, <1>9, <1>10, <1>11 DEF G

LEMMA HeadOfAGroup ==
  ASSUME NEW m, NEW S, Numbered(S), NEW e \in S
  PROVE  GroupKey(m, HeadOf(m, S, e)) = GroupKey(m, e)
BY RoundsOfAGroup

\* ServedBefore on a set of entries.
LEMMA CreditStrict ==
  ASSUME NEW m, NEW S, Numbered(S), NEW served \in [GroupKeys -> Int], NEW e \in S, NEW f \in S
  PROVE  /\ ~(ServedBefore(m, served, e, f) /\ ServedBefore(m, served, f, e))
         /\ e # f => ServedBefore(m, served, e, f) \/ ServedBefore(m, served, f, e)
<1> DEFINE R == ByCredit(m, served, S)
<1>1. Orders(R, S)
  BY CreditOrders
<1>2. /\ <<e, f>> \in R <=> ServedBefore(m, served, e, f)
      /\ <<f, e>> \in R <=> ServedBefore(m, served, f, e)
  BY DEF ByCredit
<1> HIDE DEF R
<1> QED
  BY <1>1, <1>2 DEF Orders

\* A group's first entry among those that wait.
Front(m, w, e) ==
  e \in w /\ \A f \in w \ {e} : GroupKey(m, f) = GroupKey(m, e) => GraceThenSubmitted(e, f)

LEMMA FrontExists ==
  ASSUME NEW m, NEW S, Numbered(S), NEW w \in SUBSET S, NEW f \in w
  PROVE  \E e \in w : /\ Front(m, w, e) /\ GroupKey(m, e) = GroupKey(m, f)
                      /\ e = f \/ GraceThenSubmitted(e, f)
<1> DEFINE G == Mates(m, w, f)
<1>1. Numbered(G) /\ IsFiniteSet(G) /\ f \in G /\ G \in SUBSET w
  <2>1. G \in SUBSET S /\ f \in G /\ G \in SUBSET w
    BY DEF Mates
  <2> QED
    BY <2>1, FS_Subset DEF Numbered
<1>2. Orders(ByGrace(G), G) /\ \A x, y \in G : <<x, y>> \in ByGrace(G) <=> GraceThenSubmitted(x, y)
  <2> HIDE DEF G
  <2> QED
    BY <1>1, GraceOrders
<1>3. PICK e \in G : \A x \in G \ {e} : <<e, x>> \in ByGrace(G)
  <2> HIDE DEF G
  <2> QED
    BY <1>1, <1>2, LeastItem
<1>4. \A x \in G \ {e} : GraceThenSubmitted(e, x)
  BY <1>2, <1>3
<1>5. Front(m, w, e)
  BY <1>1, <1>4 DEF Front, Mates
<1>6. GroupKey(m, e) = GroupKey(m, f) /\ (e = f \/ GraceThenSubmitted(e, f))
  BY <1>1, <1>4 DEF Mates
<1> QED
  BY <1>1, <1>5, <1>6

\* Two groups whose next entries are e and f are at most one round apart, and the one
\* that is behind was served longer ago.
InStep(m, S, sang, served, e, f) ==
  /\ RoundOf(m, S, e) <= RoundOf(m, S, f) + 1
  /\ RoundOf(m, S, e) < RoundOf(m, S, f)
       => /\ served[GroupKey(m, e)] < served[GroupKey(m, f)]
          /\ ServedBefore(m, sang, HeadOf(m, S, f), HeadOf(m, S, e))
  /\ /\ RoundOf(m, S, e) = RoundOf(m, S, f)
     /\ ServedBefore(m, sang, HeadOf(m, S, e), HeadOf(m, S, f))
     => ServedBefore(m, served, e, f)
AllInStep(m, S, sang, served, w) ==
  \A e, f \in w : /\ Front(m, w, e) /\ Front(m, w, f)
                  /\ GroupKey(m, e) # GroupKey(m, f)
                  => InStep(m, S, sang, served, e, f)

\* No group is a round behind that of the best head, or is to go before it in its round.
LEMMA BestHeadIsNext ==
  ASSUME NEW m, NEW S, Numbered(S), NEW sang \in [GroupKeys -> Int],
         NEW served \in [GroupKeys -> Int], NEW w \in SUBSET S, NEW h \in w,
         \A f \in w \ {h} : ServedBefore(m, served, h, f),
         AllInStep(m, S, sang, served, w)
  PROVE  /\ Front(m, w, h)
         /\ \A f \in w : Front(m, w, f) /\ GroupKey(m, f) # GroupKey(m, h) =>
              /\ RoundOf(m, S, h) <= RoundOf(m, S, f)
              /\ RoundOf(m, S, h) = RoundOf(m, S, f) =>
                   ServedBefore(m, sang, HeadOf(m, S, h), HeadOf(m, S, f))
         /\ \A f \in w \ {h} : ~EarlierTurn(m, S, sang, f, h)
<1>1. Front(m, w, h)
  <2> SUFFICES ASSUME NEW f \in w \ {h}, GroupKey(m, f) = GroupKey(m, h)
               PROVE  GraceThenSubmitted(h, f)
    BY DEF Front
  <2>1. ServedBefore(m, served, h, f) /\ served[GroupKey(m, f)] = served[GroupKey(m, h)]
    OBVIOUS
  <2>2. served[GroupKey(m, h)] \in Int
    BY KeysAreKeys DEF Numbered
  <2> QED
    BY <2>1, <2>2 DEF ServedBefore
<1>2. ASSUME NEW f \in w, Front(m, w, f), GroupKey(m, f) # GroupKey(m, h)
      PROVE  /\ RoundOf(m, S, h) <= RoundOf(m, S, f)
             /\ RoundOf(m, S, h) = RoundOf(m, S, f) =>
                  ServedBefore(m, sang, HeadOf(m, S, h), HeadOf(m, S, f))
  <2>1. /\ InStep(m, S, sang, served, f, h)
        /\ RoundOf(m, S, h) \in Nat /\ RoundOf(m, S, f) \in Nat
        /\ HeadOf(m, S, h) \in S /\ HeadOf(m, S, f) \in S
        /\ HeadOf(m, S, h) # HeadOf(m, S, f)
    <3>1. InStep(m, S, sang, served, f, h)
      BY <1>1, <1>2, Zenon DEF AllInStep
    <3>2. /\ RoundOf(m, S, h) \in Nat /\ RoundOf(m, S, f) \in Nat
          /\ HeadOf(m, S, h) \in S /\ HeadOf(m, S, f) \in S
      BY RoundsOfAGroup
    <3>3. /\ GroupKey(m, HeadOf(m, S, h)) = GroupKey(m, h)
          /\ GroupKey(m, HeadOf(m, S, f)) = GroupKey(m, f)
      BY HeadOfAGroup
    <3>4. HeadOf(m, S, h) # HeadOf(m, S, f)
      BY <1>2, <3>3, Zenon
    <3> QED
      BY <3>1, <3>2, <3>4
  <2>2. ServedBefore(m, served, h, f) /\ ~ServedBefore(m, served, f, h)
    BY <1>2, CreditStrict
  <2>3. RoundOf(m, S, h) <= RoundOf(m, S, f)
    <3>1. ASSUME served[GroupKey(m, f)] < served[GroupKey(m, h)] PROVE FALSE
      BY <2>2, <3>1 DEF ServedBefore
    <3> QED
      BY <2>1, <3>1 DEF InStep
  <2>4. ASSUME RoundOf(m, S, h) = RoundOf(m, S, f)
        PROVE  ServedBefore(m, sang, HeadOf(m, S, h), HeadOf(m, S, f))
    <3>1. ~ServedBefore(m, sang, HeadOf(m, S, f), HeadOf(m, S, h))
      BY <2>1, <2>2, <2>4 DEF InStep
    <3> QED
      BY <2>1, <3>1, CreditStrict
  <2> QED
    BY <2>3, <2>4
<1>3. ASSUME NEW f \in w \ {h} PROVE ~EarlierTurn(m, S, sang, f, h)
  <2>1. PICK g \in w : /\ Front(m, w, g) /\ GroupKey(m, g) = GroupKey(m, f)
                       /\ g = f \/ GraceThenSubmitted(g, f)
    BY FrontExists
  <2>2. f \in Mates(m, S, g)
    BY <2>1 DEF Mates
  <2>3. /\ RoundOf(m, S, h) \in Nat /\ RoundOf(m, S, f) \in Nat /\ RoundOf(m, S, g) \in Nat
        /\ HeadOf(m, S, h) \in S /\ HeadOf(m, S, f) \in S
        /\ HeadOf(m, S, f) = HeadOf(m, S, g)
        /\ RoundOf(m, S, g) <= RoundOf(m, S, f)
        /\ GraceThenSubmitted(g, f) => RoundOf(m, S, g) < RoundOf(m, S, f)
    <3>1. /\ RoundOf(m, S, h) \in Nat /\ RoundOf(m, S, f) \in Nat /\ RoundOf(m, S, g) \in Nat
          /\ HeadOf(m, S, h) \in S /\ HeadOf(m, S, f) \in S
      BY RoundsOfAGroup
    <3>2. HeadOf(m, S, f) = HeadOf(m, S, g)
      BY <2>2, RoundsOfAGroup
    <3>3. GraceThenSubmitted(g, f) => RoundOf(m, S, g) < RoundOf(m, S, f)
      BY <2>2, RoundsOfAGroup
    <3> QED
      BY <2>1, <3>1, <3>2, <3>3
  <2>4. CASE GroupKey(m, f) # GroupKey(m, h)
    <3>1. /\ RoundOf(m, S, h) <= RoundOf(m, S, g)
          /\ RoundOf(m, S, h) = RoundOf(m, S, g) =>
               ServedBefore(m, sang, HeadOf(m, S, h), HeadOf(m, S, f))
      BY <1>2, <2>1, <2>3, <2>4
    <3>2. ~(/\ ServedBefore(m, sang, HeadOf(m, S, h), HeadOf(m, S, f))
            /\ ServedBefore(m, sang, HeadOf(m, S, f), HeadOf(m, S, h)))
      BY <2>3, CreditStrict
    <3> QED
      BY <2>3, <3>1, <3>2 DEF EarlierTurn
  <2>5. CASE GroupKey(m, f) = GroupKey(m, h)
    <3>1. GraceThenSubmitted(h, f) /\ f \in Mates(m, S, h)
      BY <1>1, <2>5 DEF Front, Mates
    <3>2. RoundOf(m, S, h) < RoundOf(m, S, f)
      BY <3>1, RoundsOfAGroup
    <3> QED
      BY <2>3, <3>2 DEF EarlierTurn
  <2> QED
    BY <2>4, <2>5
<1> QED
  BY <1>1, <1>2, <1>3

\* Serving it keeps the groups in step.
InOrderOfGrace(m, S, w) ==
  \A e \in S \ w, f \in w : GroupKey(m, e) = GroupKey(m, f) => GraceThenSubmitted(e, f)

IsBest(m, served, w, h) == h \in w /\ \A f \in w \ {h} : ServedBefore(m, served, h, f)
TurnTaken(served, key, tick, after) ==
  \A k \in GroupKeys : after[k] = IF k = key THEN tick ELSE served[k]

LEMMA TakingATurn ==
  ASSUME NEW served \in [GroupKeys -> Int], NEW key, NEW tick \in Int
  PROVE  /\ [served EXCEPT ![key] = tick] \in [GroupKeys -> Int]
         /\ TurnTaken(served, key, tick, [served EXCEPT ![key] = tick])
BY DEF TurnTaken

LEMMA RoundKeepsStep ==
  ASSUME NEW m, NEW S, Numbered(S), NEW sang \in [GroupKeys -> Int],
         NEW served \in [GroupKeys -> Int], NEW w \in SUBSET S, NEW h, IsBest(m, served, w, h),
         AllInStep(m, S, sang, served, w), InOrderOfGrace(m, S, w),
         NEW tick \in Nat, \A e \in S : served[GroupKey(m, e)] < tick,
         NEW after \in [GroupKeys -> Int], TurnTaken(served, GroupKey(m, h), tick, after)
  PROVE  AllInStep(m, S, sang, after, w \ {h}) /\ InOrderOfGrace(m, S, w \ {h})
<1> DEFINE v == w \ {h}
           key(e) == GroupKey(m, e)
           round(e) == RoundOf(m, S, e)
           head(e) == HeadOf(m, S, e)
<1>. h \in w /\ \A f \in w \ {h} : ServedBefore(m, served, h, f)
  BY DEF IsBest
<1>1. Front(m, w, h)
  BY BestHeadIsNext
<1>2. ASSUME NEW f \in w, Front(m, w, f), key(f) # key(h)
      PROVE  /\ round(h) <= round(f)
             /\ round(h) = round(f) => ServedBefore(m, sang, head(h), head(f))
  BY <1>2, BestHeadIsNext
<1>3. InOrderOfGrace(m, S, v)
  BY <1>1 DEF InOrderOfGrace, Front
<1>4. ASSUME NEW e \in v, Front(m, v, e), key(e) # key(h) PROVE Front(m, w, e)
  BY <1>4 DEF Front
<1>5. ASSUME NEW e \in v, Front(m, v, e), key(e) = key(h)
      PROVE  round(e) = round(h) + 1 /\ head(e) = head(h)
  <2>1. e \in Mates(m, S, h) /\ GraceThenSubmitted(h, e)
    BY <1>1, <1>5 DEF Mates, Front
  <2>2. ASSUME NEW g \in Mates(m, S, h) \ {h, e}
        PROVE  GraceThenSubmitted(g, h) \/ GraceThenSubmitted(e, g)
    <3>1. g \in S /\ GroupKey(m, g) = GroupKey(m, h) /\ g # h /\ g # e
      BY DEF Mates
    <3>2. CASE g \in w
      BY <1>5, <3>1, <3>2 DEF Front
    <3>3. CASE g \notin w
      BY <3>1, <3>3 DEF InOrderOfGrace
    <3> QED
      BY <3>2, <3>3
  <2> QED
    BY <2>1, <2>2, RoundsOfAGroup
<1>6. \A e \in S : /\ round(e) \in Nat /\ head(e) \in S
                   /\ served[key(e)] \in Int /\ served[key(e)] < tick
                   /\ after[key(e)] = IF key(e) = key(h) THEN tick ELSE served[key(e)]
  BY RoundsOfAGroup, KeysAreKeys DEF Numbered, TurnTaken
<1>7. ASSUME NEW e \in v, NEW f \in v, Front(m, v, e), Front(m, v, f), key(e) # key(f)
      PROVE  InStep(m, S, sang, after, e, f)
  <2>1. CASE key(e) # key(h) /\ key(f) # key(h)
    <3>1. InStep(m, S, sang, served, e, f)
      BY <1>4, <1>7, <2>1 DEF AllInStep
    <3>2. after[key(e)] = served[key(e)] /\ after[key(f)] = served[key(f)]
      BY <1>6, <2>1
    <3> QED
      BY <3>1, <3>2 DEF InStep, ServedBefore
  <2>2. CASE key(e) = key(h)
    <3>1. /\ round(e) = round(h) + 1 /\ head(e) = head(h)
          /\ InStep(m, S, sang, served, h, f) /\ InStep(m, S, sang, served, f, h)
          /\ round(h) <= round(f)
      BY <1>1, <1>2, <1>4, <1>5, <1>7, <2>2 DEF AllInStep
    <3>2. round(e) <= round(f) + 1 /\ round(f) <= round(e)
      BY <1>6, <3>1 DEF InStep
    <3>3. ~(round(e) = round(f) /\ ServedBefore(m, sang, head(e), head(f)))
      <4>1. ~(/\ ServedBefore(m, sang, head(h), head(f))
              /\ ServedBefore(m, sang, head(f), head(h)))
        BY <1>6, CreditStrict
      <4> QED
        BY <1>6, <3>1, <4>1 DEF InStep
    <3>4. round(e) \in Nat /\ round(f) \in Nat
      BY <1>6
    <3> QED
      BY <3>2, <3>3, <3>4 DEF InStep
  <2>3. CASE key(f) = key(h)
    <3>1. /\ round(f) = round(h) + 1 /\ head(f) = head(h)
          /\ InStep(m, S, sang, served, e, h)
          /\ round(h) <= round(e)
          /\ round(h) = round(e) => ServedBefore(m, sang, head(h), head(e))
      BY <1>1, <1>2, <1>4, <1>5, <1>7, <2>3 DEF AllInStep
    <3>2. round(e) <= round(f) /\ (round(e) < round(f) => round(h) = round(e))
      BY <1>6, <3>1 DEF InStep
    <3>3. after[key(e)] < after[key(f)]
      BY <1>6, <1>7, <2>3
    <3>4. round(e) \in Nat /\ round(f) \in Nat
      BY <1>6
    <3> QED
      BY <3>1, <3>2, <3>3, <3>4 DEF InStep, ServedBefore
  <2> QED
    BY <2>1, <2>2, <2>3
<1> QED
  BY <1>3, <1>7 DEF AllInStep

\* In the list, an entry of an earlier turn is before one of a later turn.
InTurns(m, S, sang, o) ==
  \A i, j \in DOMAIN o : i < j => ~EarlierTurn(m, S, sang, o[j], o[i])

LEMMA RoundRobinTurns ==
  ASSUME NEW m, NEW sings, Numbered(sings), NEW sang \in [GroupKeys -> Int]
  PROVE  InTurns(m, sings, sang, RoundRobin(m, sings, sang))
<1> DEFINE Before(o, w) == \A i \in DOMAIN o : \A f \in w : ~EarlierTurn(m, sings, sang, f, o[i])
           J == {s \in RoundStates(sings) :
                   /\ AllInStep(m, sings, sang, s.served, s.waiting)
                   /\ InOrderOfGrace(m, sings, s.waiting)
                   /\ \A e \in sings : s.served[GroupKey(m, e)] < s.tick
                   /\ InTurns(m, sings, sang, s.order) /\ Before(s.order, s.waiting)}
           start == FirstRound(m, sings, sang)
<1>1. KeptByRounds(m, sings, J)
  <2> SUFFICES ASSUME NEW s \in J, s.waiting # {} PROVE Round(m, s) \in J
    BY Zenon DEF KeptByRounds
  <2> DEFINE o == s.order
             w == s.waiting
             served == s.served
             tick == s.tick
             h == BestHead(m, s)
             t == Round(m, s)
             key == GroupKey(m, h)
             after == [served EXCEPT ![key] = tick]
             p == Append(o, h)
  <2>1. /\ t.order = p /\ t.waiting = w \ {h} /\ t.served = after /\ t.tick = tick + 1
        /\ t \in RoundStates(sings)
    BY RoundServes DEF Round
  <2>2. /\ h \in w /\ \A f \in w \ {h} : ServedBefore(m, served, h, f)
        /\ o \in Seq(sings) /\ w \in SUBSET sings
        /\ served \in [GroupKeys -> Int] /\ tick \in Nat
    BY RoundServes DEF RoundStates
  <2>3. /\ AllInStep(m, sings, sang, served, w) /\ InOrderOfGrace(m, sings, w)
        /\ \A e \in sings : served[GroupKey(m, e)] < tick
        /\ InTurns(m, sings, sang, o) /\ Before(o, w)
    BY Zenon
  <2> HIDE DEF o, w, served, tick, h, key, t, p
  <2>4. /\ after \in [GroupKeys -> Int]
        /\ TurnTaken(served, key, tick, after)
    <3>1. served \in [GroupKeys -> Int] /\ tick \in Int
      BY <2>2
    <3> QED
      BY <3>1, TakingATurn, Zenon
  <2> HIDE DEF after
  <2>5. AllInStep(m, sings, sang, after, w \ {h}) /\ InOrderOfGrace(m, sings, w \ {h})
    <3>1. IsBest(m, served, w, h) /\ TurnTaken(served, GroupKey(m, h), tick, after)
      BY <2>2, <2>4 DEF IsBest, key
    <3> QED
      BY <2>2, <2>3, <2>4, <3>1, RoundKeepsStep
  <2>6. \A e \in sings : after[GroupKey(m, e)] < tick + 1
    <3> TAKE e \in sings
    <3> DEFINE k == GroupKey(m, e)
    <3>1. k \in GroupKeys /\ served[k] \in Int /\ served[k] < tick
      BY <2>2, <2>3, KeysAreKeys DEF Numbered
    <3>2. after[k] = IF k = key THEN tick ELSE served[k]
      BY <2>4, <3>1 DEF TurnTaken
    <3> HIDE DEF k
    <3>3. after[k] < tick + 1
      BY <2>2, <3>1, <3>2
    <3> QED
      BY <3>3 DEF k
  <2>7. \A f \in w \ {h} : ~EarlierTurn(m, sings, sang, f, h)
    BY <2>2, <2>3, BestHeadIsNext
  <2>8. /\ Len(o) \in Nat /\ DOMAIN o = 1..Len(o) /\ DOMAIN p = 1..(Len(o) + 1)
        /\ \A i \in 1..Len(o) : p[i] = o[i]
        /\ p[Len(o) + 1] = h
    BY <2>2 DEF p
  <2>9. InTurns(m, sings, sang, p) /\ Before(p, w \ {h})
    <3>1. ASSUME NEW i \in DOMAIN p, NEW j \in DOMAIN p, i < j
          PROVE  ~EarlierTurn(m, sings, sang, p[j], p[i])
      <4>1. i \in 1..Len(o) /\ (j \in 1..Len(o) \/ j = Len(o) + 1)
        BY <2>8, <3>1
      <4> QED
        BY <2>2, <2>3, <2>8, <3>1, <4>1 DEF InTurns
    <3>2. Before(p, w \ {h})
      <4> SUFFICES ASSUME NEW i \in DOMAIN p, NEW f \in w \ {h}
                   PROVE  ~EarlierTurn(m, sings, sang, f, p[i])
        OBVIOUS
      <4>1. i \in 1..Len(o) \/ i = Len(o) + 1
        BY <2>8
      <4> QED
        BY <2>3, <2>7, <2>8, <4>1
    <3> QED
      BY <3>1, <3>2 DEF InTurns
  <2>10. t \in J
    BY <2>1, <2>5, <2>6, <2>9
  <2> QED
    BY <2>10 DEF t
<1>2. start \in J
  <2>1. /\ start \in RoundStates(sings)
        /\ start.waiting = sings /\ start.order = <<>> /\ start.served = sang
        /\ \A e \in sings : sang[GroupKey(m, e)] < start.tick
    BY FirstTick DEF FirstRound
  <2>2. AllInStep(m, sings, sang, sang, sings)
    <3> SUFFICES ASSUME NEW e \in sings, NEW f \in sings,
                        Front(m, sings, e), Front(m, sings, f)
                 PROVE  InStep(m, sings, sang, sang, e, f)
      BY DEF AllInStep
    <3>1. /\ RoundOf(m, sings, e) = 0 /\ HeadOf(m, sings, e) = e
          /\ RoundOf(m, sings, f) = 0 /\ HeadOf(m, sings, f) = f
      BY RoundsOfAGroup DEF Front, Mates
    <3> QED
      BY <3>1 DEF InStep
  <2>3. InTurns(m, sings, sang, <<>>) /\ InOrderOfGrace(m, sings, sings)
    BY DEF InTurns, InOrderOfGrace
  <2> HIDE DEF start
  <2> QED
    BY <2>1, <2>2, <2>3
<1>3. PICK t \in J : LastRound(m, sings, start, t)
  <2> HIDE DEF J, start
  <2> QED
    BY <1>1, <1>2, RoundRobinEnds
<1>4. RoundRobin(m, sings, sang) = t.order
  BY <1>3, RoundRobinIsALoop, Zenon DEF LastRound
<1>5. InTurns(m, sings, sang, t.order)
  BY <1>3, Zenon
<1> QED
  BY <1>4, <1>5, Zenon

-----------------------------------------------------------------------------
(* interleave.                                                             *)

\* The states of its loop: the order so far, the sings and the listens still to come,
\* the listens played in a row.
MergeStates(sings, listens) ==
  Seq(Range(sings) \cup Range(listens)) \X Seq(Range(sings)) \X Seq(Range(listens)) \X Nat
ListenNext(cap, s) == MayListen(cap, s[4]) /\ SubmittedBefore(Head(s[3]), Head(s[2]))
Played(cap, s) ==
  IF ListenNext(cap, s) THEN <<Append(s[1], Head(s[3])), s[2], Tail(s[3]), s[4] + 1>>
  ELSE <<Append(s[1], Head(s[2])), Tail(s[2]), s[3], 0>>
Rest(s) == IF s[2] = <<>> THEN s[1] \o s[3] ELSE s[1] \o s[2]
MergeLoop(loop, sings, listens, cap) ==
  loop = [s \in MergeStates(sings, listens) |->
            IF s[2] = <<>> \/ s[3] = <<>> THEN Rest(s) ELSE loop[Played(cap, s)]]
MergeFunction(sings, listens, cap) == CHOOSE loop : MergeLoop(loop, sings, listens, cap)
MergeStop(sings, listens) == {s \in MergeStates(sings, listens) : s[2] = <<>> \/ s[3] = <<>>}
MergeBase(sings, listens) == [s \in MergeStates(sings, listens) |-> Rest(s)]
MergeStep(sings, listens, cap) == [s \in MergeStates(sings, listens) |-> Played(cap, s)]
ToMerge(sings, listens) == [s \in MergeStates(sings, listens) |-> Len(s[2]) + Len(s[3])]

LEMMA MergeListensIsALoop ==
  ASSUME NEW sings, NEW listens, NEW cap, NEW run
  PROVE  MergeListens(sings, listens, cap, run) =
           MergeFunction(sings, listens, cap)[<<<<>>, sings, listens, run>>]
<1> DEFINE Body(loop, s) ==
             LET order == s[1]  ss == s[2]  ls == s[3]  played == s[4]
                 listenNext == MayListen(cap, played) /\ SubmittedBefore(Head(ls), Head(ss))
             IN  IF ss = <<>> THEN order \o ls
                 ELSE IF ls = <<>> THEN order \o ss
                 ELSE IF listenNext
                      THEN loop[<<Append(order, Head(ls)), ss, Tail(ls), played + 1>>]
                      ELSE loop[<<Append(order, Head(ss)), Tail(ss), ls, 0>>]
           Is(loop) == loop = [s \in MergeStates(sings, listens) |-> Body(loop, s)]
<1>1. MergeListens(sings, listens, cap, run) = (CHOOSE loop : Is(loop))[<<<<>>, sings, listens, run>>]
  BY DEF MergeListens, MergeStates
<1>2. \A loop, s : Body(loop, s) = IF s[2] = <<>> \/ s[3] = <<>> THEN Rest(s) ELSE loop[Played(cap, s)]
  BY Zenon DEF Rest, Played, ListenNext
<1> HIDE DEF Body
<1>3. \A loop : Is(loop) <=> MergeLoop(loop, sings, listens, cap)
  BY <1>2, Zenon DEF MergeLoop
<1> HIDE DEF Is
<1>4. (CHOOSE loop : Is(loop)) = MergeFunction(sings, listens, cap)
  BY <1>3, Zenon DEF MergeFunction
<1> QED
  BY <1>1, <1>4, Zenon

\* A round plays the next listen or the next sing, and leaves one fewer to merge.
LEMMA MergePlays ==
  ASSUME NEW sings, NEW listens, NEW cap,
         NEW o \in Seq(Range(sings) \cup Range(listens)),
         NEW x \in Seq(Range(sings)), x # <<>>, NEW y \in Seq(Range(listens)), y # <<>>,
         NEW n \in Nat
  PROVE  LET s == <<o, x, y, n>>
             t == Played(cap, s)
         IN  /\ t \in MergeStates(sings, listens) /\ s \in MergeStates(sings, listens)
             /\ ToMerge(sings, listens)[t] < ToMerge(sings, listens)[s]
<1> DEFINE s == <<o, x, y, n>>
           t == Played(cap, s)
           D == MergeStates(sings, listens)
           mu == ToMerge(sings, listens)
<1>1. /\ Head(x) \in Range(sings) /\ Tail(x) \in Seq(Range(sings)) /\ Len(Tail(x)) = Len(x) - 1
      /\ Head(y) \in Range(listens) /\ Tail(y) \in Seq(Range(listens)) /\ Len(Tail(y)) = Len(y) - 1
      /\ Len(x) \in Nat /\ Len(y) \in Nat
  OBVIOUS
<1>2. s \in D /\ mu[s] = Len(x) + Len(y)
  BY DEF MergeStates, ToMerge
<1>3. CASE ListenNext(cap, s)
  <2> DEFINE p == Append(o, Head(y))
             z == Tail(y)
  <2>1. t = <<p, x, z, n + 1>>
    BY <1>3 DEF Played
  <2>2. p \in Seq(Range(sings) \cup Range(listens)) /\ z \in Seq(Range(listens))
    BY <1>1
  <2> HIDE DEF t, p, z
  <2>3. t \in D /\ mu[t] = Len(x) + Len(z)
    BY <2>1, <2>2 DEF MergeStates, ToMerge
  <2> QED
    BY <1>1, <1>2, <2>3 DEF t, z
<1>4. CASE ~ListenNext(cap, s)
  <2> DEFINE p == Append(o, Head(x))
             z == Tail(x)
  <2>1. t = <<p, z, y, 0>>
    BY <1>4 DEF Played
  <2>2. p \in Seq(Range(sings) \cup Range(listens)) /\ z \in Seq(Range(sings))
    BY <1>1
  <2> HIDE DEF t, p, z
  <2>3. t \in D /\ mu[t] = Len(z) + Len(y)
    BY <2>1, <2>2 DEF MergeStates, ToMerge
  <2> QED
    BY <1>1, <1>2, <2>3 DEF t, z
<1> QED
  BY <1>3, <1>4

LEMMA MergeLoops ==
  ASSUME NEW sings, NEW listens, NEW cap
  PROVE  /\ Loops(MergeFunction(sings, listens, cap), MergeStates(sings, listens),
                  MergeStop(sings, listens), MergeBase(sings, listens),
                  MergeStep(sings, listens, cap))
         /\ \A s \in MergeStates(sings, listens) : ToMerge(sings, listens)[s] \in Nat
         /\ \A s \in MergeStates(sings, listens) \ MergeStop(sings, listens) :
              /\ MergeStep(sings, listens, cap)[s] \in MergeStates(sings, listens)
              /\ ToMerge(sings, listens)[MergeStep(sings, listens, cap)[s]] < ToMerge(sings, listens)[s]
<1> DEFINE D == MergeStates(sings, listens)
           stop == MergeStop(sings, listens)
           base == MergeBase(sings, listens)
           step == MergeStep(sings, listens, cap)
           mu == ToMerge(sings, listens)
<1>1. \A s \in D :
        /\ s = <<s[1], s[2], s[3], s[4]>>
        /\ s[1] \in Seq(Range(sings) \cup Range(listens)) /\ s[2] \in Seq(Range(sings))
        /\ s[3] \in Seq(Range(listens)) /\ s[4] \in Nat
  BY DEF MergeStates
<1>2. ASSUME NEW s \in D, s \notin stop PROVE step[s] \in D /\ mu[step[s]] < mu[s]
  <2> DEFINE o == s[1]
             x == s[2]
             y == s[3]
             n == s[4]
  <2>1. /\ s = <<o, x, y, n>> /\ x # <<>> /\ y # <<>> /\ step[s] = Played(cap, s)
        /\ o \in Seq(Range(sings) \cup Range(listens)) /\ x \in Seq(Range(sings))
        /\ y \in Seq(Range(listens)) /\ n \in Nat
    BY <1>1, <1>2 DEF MergeStop, MergeStep
  <2> HIDE DEF o, x, y, n
  <2> QED
    BY <2>1, MergePlays
<1>3. Loops(MergeFunction(sings, listens, cap), D, stop, base, step)
  <2>1. \A f : Loops(f, D, stop, base, step) <=> MergeLoop(f, sings, listens, cap)
    <3> TAKE f
    <3>1. \A s \in D : (IF s \in stop THEN base[s] ELSE f[step[s]])
                         = (IF s[2] = <<>> \/ s[3] = <<>> THEN Rest(s) ELSE f[Played(cap, s)])
      BY Zenon DEF MergeStop, MergeBase, MergeStep
    <3> HIDE DEF stop, base, step
    <3> QED
      BY <3>1, Zenon DEF Loops, MergeLoop
  <2> HIDE DEF D, stop, base, step
  <2>2. \E f : Loops(f, D, stop, base, step)
    BY <1>2, LoopExists
  <2> QED
    BY <2>1, <2>2, Zenon DEF MergeFunction
<1>4. ASSUME NEW s \in D PROVE mu[s] \in Nat
  <2> DEFINE x == Len(s[2])
             y == Len(s[3])
  <2>1. x \in Nat /\ y \in Nat /\ mu[s] = x + y
    BY <1>1 DEF ToMerge
  <2> HIDE DEF x, y
  <2> QED
    BY <2>1
<1> QED
  BY <1>2, <1>3, <1>4

\* What every round keeps, the loop's last state has.
KeptByMerge(sings, listens, cap, J) ==
  /\ J \subseteq MergeStates(sings, listens)
  /\ \A s \in J : s[2] # <<>> /\ s[3] # <<>> => Played(cap, s) \in J
LastMerge(sings, listens, cap, s, t) ==
  (t[2] = <<>> \/ t[3] = <<>>) /\ MergeFunction(sings, listens, cap)[s] = Rest(t)

LEMMA MergeEnds ==
  ASSUME NEW sings, NEW listens, NEW cap, NEW J, KeptByMerge(sings, listens, cap, J), NEW s0 \in J
  PROVE  \E t \in J : LastMerge(sings, listens, cap, s0, t)
<1> DEFINE D == MergeStates(sings, listens)
           stop == MergeStop(sings, listens)
           base == MergeBase(sings, listens)
           step == MergeStep(sings, listens, cap)
           mu == ToMerge(sings, listens)
           loop == MergeFunction(sings, listens, cap)
<1>1. /\ Loops(loop, D, stop, base, step)
      /\ \A s \in D : mu[s] \in Nat
      /\ \A s \in D \ stop : mu[step[s]] < mu[s]
  BY MergeLoops
<1>2. J \in SUBSET D
  BY DEF KeptByMerge
<1>3. \A s \in J \ stop : step[s] \in J
  BY <1>2 DEF KeptByMerge, MergeStop, MergeStep
<1>4. PICK t \in J \cap stop : loop[s0] = base[t]
  <2> HIDE DEF D, stop, base, step, loop, mu
  <2> QED
    BY <1>1, <1>2, <1>3, LoopEnds
<1> QED
  BY <1>2, <1>4 DEF MergeStop, MergeBase, LastMerge

\* x is before y in a list.
Ahead(s, x, y) == \E i, j \in DOMAIN s : i < j /\ x = s[i] /\ y = s[j]

\* What is merged and what is to come: each item once, the items of A in the order of
\* sings.
MergeSound(A, B, sings, o, x, y) ==
  /\ o \in Seq(A \cup B) /\ x \in Seq(A) /\ y \in Seq(B)
  /\ IsInjective(o) /\ IsInjective(x) /\ IsInjective(y)
  /\ Range(o) \cap Range(x) = {} /\ Range(o) \cap Range(y) = {}
  /\ Range(o) \cup Range(x) \cup Range(y) = A \cup B
  /\ \A p, q \in DOMAIN o : p < q /\ o[p] \in A /\ o[q] \in A => Ahead(sings, o[p], o[q])
  /\ \A p, q \in DOMAIN x : p < q => Ahead(sings, x[p], x[q])
  /\ \A p \in DOMAIN o, q \in DOMAIN x : o[p] \in A => Ahead(sings, o[p], x[q])

LEMMA PlayingListens ==
  ASSUME NEW A, NEW B, A \cap B = {}, NEW sings, NEW o, NEW x, NEW y, y # <<>>,
         MergeSound(A, B, sings, o, x, y)
  PROVE  MergeSound(A, B, sings, Append(o, Head(y)), x, Tail(y))
<1> DEFINE h == Head(y)
           z == Tail(y)
           p == Append(o, h)
<1>1. /\ o \in Seq(A \cup B) /\ x \in Seq(A) /\ y \in Seq(B)
      /\ IsInjective(o) /\ IsInjective(x) /\ IsInjective(y)
      /\ Range(o) \cap Range(x) = {} /\ Range(o) \cap Range(y) = {}
      /\ Range(o) \cup Range(x) \cup Range(y) = A \cup B
      /\ \A i, j \in DOMAIN o : i < j /\ o[i] \in A /\ o[j] \in A => Ahead(sings, o[i], o[j])
      /\ \A i \in DOMAIN o, j \in DOMAIN x : o[i] \in A => Ahead(sings, o[i], x[j])
  BY DEF MergeSound
<1>2. /\ h \in B /\ z \in Seq(B)
      /\ Range(y) = {h} \cup Range(z) /\ h \notin Range(z) /\ IsInjective(z)
  BY <1>1, HeadAndTail, TailProperties
<1>3. Range(x) \subseteq A
  BY <1>1 DEF Range
<1> HIDE DEF h, z
<1>4. /\ p \in Seq(A \cup B) /\ Range(p) = Range(o) \cup {h} /\ IsInjective(p)
      /\ DOMAIN o = 1..Len(o) /\ DOMAIN p = 1..(Len(o) + 1) /\ Len(o) \in Nat
      /\ \A i \in DOMAIN o : p[i] = o[i]
      /\ p[Len(o) + 1] = h
  <2>1. h \in A \cup B /\ h \notin Range(o)
    BY <1>1, <1>2
  <2>2. p \in Seq(A \cup B) /\ Range(p) = Range(o) \cup {h} /\ IsInjective(p)
    BY <1>1, <2>1, AppendProperties
  <2> QED
    BY <1>1, <2>1, <2>2
<1> HIDE DEF p
<1>5. \A i \in DOMAIN p : p[i] \in A => i \in DOMAIN o
  BY <1>2, <1>4
<1>6. /\ \A i, j \in DOMAIN p : i < j /\ p[i] \in A /\ p[j] \in A => Ahead(sings, p[i], p[j])
      /\ \A i \in DOMAIN p, j \in DOMAIN x : p[i] \in A => Ahead(sings, p[i], x[j])
  BY <1>1, <1>4, <1>5
<1>7. /\ Range(p) \cap Range(x) = {} /\ Range(p) \cap Range(z) = {}
      /\ Range(p) \cup Range(x) \cup Range(z) = A \cup B
  BY <1>1, <1>2, <1>3, <1>4
<1>8. MergeSound(A, B, sings, p, x, z)
  BY <1>2, <1>4, <1>6, <1>7, Zenon DEF MergeSound
<1> QED
  BY <1>8 DEF p, h, z

LEMMA PlayingSings ==
  ASSUME NEW A, NEW B, A \cap B = {}, NEW sings, NEW o, NEW x, NEW y, x # <<>>,
         MergeSound(A, B, sings, o, x, y)
  PROVE  MergeSound(A, B, sings, Append(o, Head(x)), Tail(x), y)
<1> DEFINE h == Head(x)
           z == Tail(x)
           p == Append(o, h)
<1>1. /\ o \in Seq(A \cup B) /\ x \in Seq(A) /\ y \in Seq(B)
      /\ IsInjective(o) /\ IsInjective(x) /\ IsInjective(y)
      /\ Range(o) \cap Range(x) = {} /\ Range(o) \cap Range(y) = {}
      /\ Range(o) \cup Range(x) \cup Range(y) = A \cup B
      /\ \A i, j \in DOMAIN o : i < j /\ o[i] \in A /\ o[j] \in A => Ahead(sings, o[i], o[j])
      /\ \A i, j \in DOMAIN x : i < j => Ahead(sings, x[i], x[j])
      /\ \A i \in DOMAIN o, j \in DOMAIN x : o[i] \in A => Ahead(sings, o[i], x[j])
  BY DEF MergeSound
<1>2. /\ h \in A /\ z \in Seq(A) /\ h = x[1]
      /\ Range(x) = {h} \cup Range(z) /\ h \notin Range(z) /\ IsInjective(z)
  BY <1>1, HeadAndTail, TailProperties
<1>3. /\ 1 \in DOMAIN x /\ \A i \in DOMAIN z : i + 1 \in DOMAIN x /\ z[i] = x[i + 1] /\ i \in Nat \ {0}
  BY <1>1
<1>4. Range(y) \subseteq B
  BY <1>1 DEF Range
<1> HIDE DEF h, z
<1>5. /\ p \in Seq(A \cup B) /\ Range(p) = Range(o) \cup {h} /\ IsInjective(p)
      /\ DOMAIN o = 1..Len(o) /\ DOMAIN p = 1..(Len(o) + 1) /\ Len(o) \in Nat
      /\ \A i \in DOMAIN o : p[i] = o[i]
      /\ p[Len(o) + 1] = h
  <2>1. h \in A \cup B /\ h \notin Range(o)
    BY <1>1, <1>2
  <2>2. p \in Seq(A \cup B) /\ Range(p) = Range(o) \cup {h} /\ IsInjective(p)
    BY <1>1, <2>1, AppendProperties
  <2> QED
    BY <1>1, <2>1, <2>2
<1> HIDE DEF p
<1>6. ASSUME NEW i \in DOMAIN p, NEW j \in DOMAIN p, i < j, p[i] \in A, p[j] \in A
      PROVE  Ahead(sings, p[i], p[j])
  <2>1. i \in DOMAIN o /\ p[i] = o[i]
    BY <1>5, <1>6
  <2>2. CASE j \in DOMAIN o
    BY <1>1, <1>5, <1>6, <2>1, <2>2
  <2>3. CASE j \notin DOMAIN o
    <3>1. p[j] = x[1]
      BY <1>2, <1>5, <2>3
    <3> QED
      BY <1>1, <1>3, <1>6, <2>1, <3>1
  <2> QED
    BY <2>2, <2>3
<1>7. \A i, j \in DOMAIN z : i < j => Ahead(sings, z[i], z[j])
  <2> SUFFICES ASSUME NEW i \in DOMAIN z, NEW j \in DOMAIN z, i < j PROVE Ahead(sings, z[i], z[j])
    OBVIOUS
  <2>1. i + 1 < j + 1
    BY <1>3
  <2> QED
    BY <1>1, <1>3, <2>1
<1>8. ASSUME NEW i \in DOMAIN p, NEW j \in DOMAIN z, p[i] \in A PROVE Ahead(sings, p[i], z[j])
  <2>1. CASE i \in DOMAIN o
    BY <1>1, <1>3, <1>5, <1>8, <2>1
  <2>2. CASE i \notin DOMAIN o
    <3>1. p[i] = x[1] /\ 1 < j + 1
      BY <1>2, <1>3, <1>5, <2>2
    <3> QED
      BY <1>1, <1>3, <3>1
  <2> QED
    BY <2>1, <2>2
<1>9. /\ Range(p) \cap Range(z) = {} /\ Range(p) \cap Range(y) = {}
      /\ Range(p) \cup Range(z) \cup Range(y) = A \cup B
  BY <1>1, <1>2, <1>4, <1>5
<1>10. MergeSound(A, B, sings, p, z, y)
  BY <1>1, <1>2, <1>5, <1>6, <1>7, <1>8, <1>9, Zenon DEF MergeSound
<1> QED
  BY <1>10 DEF p, h, z

\* interleave returns each of the sings and of the listens once, the sings in their order.
LEMMA MergeListensKeeps ==
  ASSUME NEW A, NEW B, NEW sings, NEW listens, NEW cap, NEW run \in Nat,
         Enumerates(sings, A), Enumerates(listens, B), A \cap B = {}
  PROVE  LET r == MergeListens(sings, listens, cap, run)
         IN  /\ Enumerates(r, A \cup B)
             /\ \A p, q \in DOMAIN r : p < q /\ r[p] \in A /\ r[q] \in A => Ahead(sings, r[p], r[q])
<1> DEFINE J == {s \in MergeStates(sings, listens) : MergeSound(A, B, sings, s[1], s[2], s[3])}
           start == <<<<>>, sings, listens, run>>
<1>1. ASSUME NEW s \in J, s[2] # <<>>, s[3] # <<>> PROVE Played(cap, s) \in J
  <2> DEFINE o == s[1]
             x == s[2]
             y == s[3]
             n == s[4]
             t == Played(cap, s)
  <2>1. /\ s = <<o, x, y, n>> /\ o \in Seq(Range(sings) \cup Range(listens))
        /\ x \in Seq(Range(sings)) /\ y \in Seq(Range(listens)) /\ n \in Nat
    BY DEF MergeStates
  <2>2. MergeSound(A, B, sings, o, x, y) /\ x # <<>> /\ y # <<>>
    BY <1>1
  <2>3. t \in MergeStates(sings, listens)
    <3> HIDE DEF o, x, y, n
    <3> QED
      BY <2>1, <2>2, MergePlays
  <2>4. \/ t[1] = Append(o, Head(y)) /\ t[2] = x /\ t[3] = Tail(y)
        \/ t[1] = Append(o, Head(x)) /\ t[2] = Tail(x) /\ t[3] = y
    BY DEF Played
  <2> HIDE DEF o, x, y, n, t
  <2>5. MergeSound(A, B, sings, t[1], t[2], t[3])
    BY <2>2, <2>4, PlayingListens, PlayingSings
  <2> QED
    BY <2>3, <2>5 DEF t
<1>2. start \in J
  <2>1. sings \in Seq(A) /\ listens \in Seq(B) /\ Range(sings) = A /\ Range(listens) = B
        /\ IsInjective(sings) /\ IsInjective(listens)
    BY DEF Enumerates
  <2>2. start \in MergeStates(sings, listens)
    <3>1. /\ <<>> \in Seq(Range(sings) \cup Range(listens))
          /\ sings \in Seq(Range(sings)) /\ listens \in Seq(Range(listens))
      BY <2>1
    <3> QED
      BY <3>1, Zenon DEF MergeStates
  <2>3. Range(<<>>) = {} /\ IsInjective(<<>>) /\ DOMAIN <<>> = {} /\ <<>> \in Seq(A \cup B)
    BY DEF Range, IsInjective
  <2>4. MergeSound(A, B, sings, <<>>, sings, listens)
    BY <2>1, <2>3 DEF MergeSound, Ahead
  <2> QED
    BY <2>2, <2>4
<1>3. PICK t \in J : LastMerge(sings, listens, cap, start, t)
  <2>1. KeptByMerge(sings, listens, cap, J)
    BY <1>1, Zenon DEF KeptByMerge
  <2> HIDE DEF J, start
  <2> QED
    BY <1>2, <2>1, MergeEnds
<1> DEFINE r == Rest(t)
<1>4. MergeListens(sings, listens, cap, run) = r
  BY <1>3, MergeListensIsALoop, Zenon DEF LastMerge
<1>5. /\ Enumerates(r, A \cup B)
      /\ \A p, q \in DOMAIN r : p < q /\ r[p] \in A /\ r[q] \in A => Ahead(sings, r[p], r[q])
  <2> DEFINE o == t[1]
             x == t[2]
             y == t[3]
  <2>1. MergeSound(A, B, sings, o, x, y) /\ (x = <<>> \/ y = <<>>)
        /\ r = IF x = <<>> THEN o \o y ELSE o \o x
    BY <1>3 DEF LastMerge, Rest
  <2> HIDE DEF J, o, x, y, r
  <2>2. /\ o \in Seq(A \cup B) /\ x \in Seq(A) /\ y \in Seq(B)
        /\ IsInjective(o) /\ IsInjective(x) /\ IsInjective(y)
        /\ Range(o) \cap Range(x) = {} /\ Range(o) \cap Range(y) = {}
        /\ Range(o) \cup Range(x) \cup Range(y) = A \cup B
        /\ \A i, j \in DOMAIN o : i < j /\ o[i] \in A /\ o[j] \in A => Ahead(sings, o[i], o[j])
        /\ \A i, j \in DOMAIN x : i < j => Ahead(sings, x[i], x[j])
        /\ \A i \in DOMAIN o, j \in DOMAIN x : o[i] \in A => Ahead(sings, o[i], x[j])
    BY <2>1, Zenon DEF MergeSound
  <2>3. /\ Range(<<>>) = {} /\ Range(y) \subseteq B
        /\ x \in Seq(A \cup B) /\ y \in Seq(A \cup B)
    BY <2>2 DEF Range
  <2>4. CASE x = <<>>
    <3>1. Enumerates(o \o y, A \cup B)
      BY <2>2, <2>3, <2>4, ConcatProperties DEF Enumerates
    <3>2. \A p \in DOMAIN (o \o y) : (o \o y)[p] \in A => p \in DOMAIN o /\ (o \o y)[p] = o[p]
      <4> SUFFICES ASSUME NEW p \in DOMAIN (o \o y), p \notin DOMAIN o PROVE (o \o y)[p] \in B
        BY <2>2, <2>3
      <4>1. p - Len(o) \in DOMAIN y /\ (o \o y)[p] = y[p - Len(o)]
        BY <2>2, <2>3
      <4> QED
        BY <2>3, <4>1 DEF Range
    <3> QED
      BY <2>1, <2>2, <2>4, <3>1, <3>2
  <2>5. CASE y = <<>> /\ x # <<>>
    <3>1. Enumerates(o \o x, A \cup B)
      BY <2>2, <2>3, <2>5, ConcatProperties DEF Enumerates
    <3>2. ASSUME NEW p \in DOMAIN (o \o x)
          PROVE  \/ p \in DOMAIN o /\ (o \o x)[p] = o[p]
                 \/ p > Len(o) /\ p - Len(o) \in DOMAIN x /\ (o \o x)[p] = x[p - Len(o)]
      BY <2>2, <2>3
    <3>3. ASSUME NEW p \in DOMAIN (o \o x), NEW q \in DOMAIN (o \o x), p < q,
                 (o \o x)[p] \in A, (o \o x)[q] \in A
          PROVE  Ahead(sings, (o \o x)[p], (o \o x)[q])
      <4>1. Len(o) \in Nat /\ p \in Nat /\ q \in Nat /\ DOMAIN o = 1..Len(o)
        BY <2>2, <2>3
      <4>2. CASE p \in DOMAIN o /\ q \in DOMAIN o
        <5>1. (o \o x)[p] = o[p] /\ (o \o x)[q] = o[q]
          BY <3>2, <4>1, <4>2
        <5> QED
          BY <2>2, <3>3, <4>2, <5>1
      <4>3. CASE p \in DOMAIN o /\ q \notin DOMAIN o
        <5>1. q - Len(o) \in DOMAIN x /\ (o \o x)[q] = x[q - Len(o)] /\ (o \o x)[p] = o[p]
          BY <3>2, <4>1, <4>3
        <5> QED
          BY <2>2, <3>3, <4>3, <5>1
      <4>4. CASE p \notin DOMAIN o /\ q \notin DOMAIN o
        <5>1. /\ q - Len(o) \in DOMAIN x /\ (o \o x)[q] = x[q - Len(o)]
              /\ p - Len(o) \in DOMAIN x /\ (o \o x)[p] = x[p - Len(o)]
              /\ p - Len(o) < q - Len(o)
          BY <3>2, <3>3, <4>1, <4>4
        <5> QED
          BY <2>2, <5>1
      <4>5. ~(p \notin DOMAIN o /\ q \in DOMAIN o)
        BY <2>2, <3>3, <4>1
      <4> QED
        BY <4>2, <4>3, <4>4, <4>5
    <3> QED
      BY <2>1, <2>5, <3>1, <3>3
  <2> QED
    BY <2>1, <2>4, <2>5
<1> HIDE DEF r
<1> QED
  BY <1>4, <1>5

\* What is merged first stays first, and the rest is merged as if alone: the loop from
\* a state with something merged goes along with the loop from the state without it.
AfterPlay(cap, T, A, B, o, x, y, n, t) ==
  /\ t[1] # <<>> /\ t[1][1] = o[1] /\ Tail(t[1]) \in Seq(T)
  /\ t[2] \in Seq(A) /\ t[3] \in Seq(B)
  /\ <<Tail(t[1]), t[2], t[3], t[4]>> = Played(cap, <<Tail(o), x, y, n>>)

LEMMA PlayedAfter ==
  ASSUME NEW cap, NEW U, NEW T \in SUBSET U, NEW A \in SUBSET T, NEW B \in SUBSET T,
         NEW o \in Seq(U), o # <<>>, Tail(o) \in Seq(T),
         NEW x \in Seq(A), x # <<>>, NEW y \in Seq(B), y # <<>>, NEW n
  PROVE  AfterPlay(cap, T, A, B, o, x, y, n, Played(cap, <<o, x, y, n>>))
<1> DEFINE s == <<o, x, y, n>>
           u == <<Tail(o), x, y, n>>
           t == Played(cap, s)
           v == Played(cap, u)
<1>1. /\ Head(x) \in A /\ Tail(x) \in Seq(A)
      /\ Head(y) \in B /\ Tail(y) \in Seq(B)
  OBVIOUS
<1>2. ASSUME NEW z \in T
      PROVE  /\ Append(o, z) # <<>> /\ Append(o, z)[1] = o[1]
             /\ Tail(Append(o, z)) = Append(Tail(o), z) /\ Append(Tail(o), z) \in Seq(T)
  <2>1. Append(Tail(o), z) \in Seq(T) /\ z \in U
    OBVIOUS
  <2> QED
    BY <2>1, HeadStays
<1>3. ListenNext(cap, u) <=> ListenNext(cap, s)
  BY DEF ListenNext
<1>4. CASE ListenNext(cap, s)
  <2> DEFINE a == Append(o, Head(y))
             b == Append(Tail(o), Head(y))
             c == Tail(y)
  <2>1. t = <<a, x, c, n + 1>> /\ v = <<b, x, c, n + 1>>
    BY <1>3, <1>4 DEF Played
  <2>2. a # <<>> /\ a[1] = o[1] /\ Tail(a) = b /\ b \in Seq(T) /\ c \in Seq(B)
    BY <1>1, <1>2
  <2> HIDE DEF a, b, c, t, v
  <2>3. t[1] = a /\ t[2] = x /\ t[3] = c /\ t[4] = n + 1
    BY <2>1
  <2> QED
    BY <2>1, <2>2, <2>3 DEF t, v, AfterPlay
<1>5. CASE ~ListenNext(cap, s)
  <2> DEFINE a == Append(o, Head(x))
             b == Append(Tail(o), Head(x))
             c == Tail(x)
  <2>1. t = <<a, c, y, 0>> /\ v = <<b, c, y, 0>>
    BY <1>3, <1>5 DEF Played
  <2>2. a # <<>> /\ a[1] = o[1] /\ Tail(a) = b /\ b \in Seq(T) /\ c \in Seq(A)
    BY <1>1, <1>2
  <2> HIDE DEF a, b, c, t, v
  <2>3. t[1] = a /\ t[2] = c /\ t[3] = y /\ t[4] = 0
    BY <2>1
  <2> QED
    BY <2>1, <2>2, <2>3 DEF t, v, AfterPlay
<1> QED
  BY <1>4, <1>5

MergesAfter(sings, listens, cap, e, ss, ls, n) ==
  /\ MergeListens(ss, ls, cap, n) \in Seq(Range(ss) \cup Range(ls))
  /\ MergeFunction(sings, listens, cap)[<<<<e>>, ss, ls, n>>]
       = <<e>> \o MergeListens(ss, ls, cap, n)

LEMMA MergePrefix ==
  ASSUME NEW sings, NEW listens, NEW cap, NEW ss \in Seq(Range(sings)),
         NEW ls \in Seq(Range(listens)), NEW n \in Nat, NEW e \in Range(sings) \cup Range(listens)
  PROVE  MergesAfter(sings, listens, cap, e, ss, ls, n)
<1> DEFINE D == MergeStates(sings, listens)
           stop == MergeStop(sings, listens)
           base == MergeBase(sings, listens)
           step == MergeStep(sings, listens, cap)
           mu == ToMerge(sings, listens)
           f == MergeFunction(sings, listens, cap)
           E == MergeStates(ss, ls)
           halt == MergeStop(ss, ls)
           end == MergeBase(ss, ls)
           next == MergeStep(ss, ls, cap)
           g == MergeFunction(ss, ls, cap)
           U == Range(sings) \cup Range(listens)
           T == Range(ss) \cup Range(ls)
           In(s) == /\ s[1] # <<>> /\ s[1][1] = e /\ Tail(s[1]) \in Seq(T)
                    /\ s[2] \in Seq(Range(ss)) /\ s[3] \in Seq(Range(ls))
           J == {s \in D : In(s)}
           h == [s \in J |-> <<Tail(s[1]), s[2], s[3], s[4]>>]
           R == {<<<<e>> \o b, b>> : b \in Seq(T)}
           s0 == <<<<e>>, ss, ls, n>>
           t0 == <<<<>>, ss, ls, n>>
<1>1. /\ Loops(f, D, stop, base, step) /\ Loops(g, E, halt, end, next)
      /\ \A s \in D : mu[s] \in Nat
      /\ \A s \in D \ stop : step[s] \in D /\ mu[step[s]] < mu[s]
  BY MergeLoops
<1>2. Range(ss) \subseteq Range(sings) /\ Range(ls) \subseteq Range(listens) /\ T \subseteq U
  BY DEF Range
<1>3. ASSUME NEW s \in J
      PROVE  /\ s \in D /\ h[s] \in E /\ (s \in stop <=> h[s] \in halt)
             /\ h[s] = <<Tail(s[1]), s[2], s[3], s[4]>>
             /\ s = <<s[1], s[2], s[3], s[4]>> /\ s[1] \in Seq(U) /\ s[4] \in Nat
             /\ In(s)
             /\ step[s] = Played(cap, s) /\ next[h[s]] = Played(cap, h[s])
             /\ base[s] = Rest(s) /\ end[h[s]] = Rest(h[s])
  <2>1. /\ s \in D /\ h[s] \in E
        /\ h[s] = <<Tail(s[1]), s[2], s[3], s[4]>>
        /\ s = <<s[1], s[2], s[3], s[4]>> /\ s[1] \in Seq(U) /\ s[4] \in Nat
        /\ In(s)
    <3>1. s \in D /\ In(s) /\ h[s] = <<Tail(s[1]), s[2], s[3], s[4]>>
      OBVIOUS
    <3>2. s = <<s[1], s[2], s[3], s[4]>> /\ s[1] \in Seq(U) /\ s[4] \in Nat
      BY <3>1 DEF MergeStates
    <3>3. <<Tail(s[1]), s[2], s[3], s[4]>> \in E
      BY <3>1, <3>2, Zenon DEF MergeStates
    <3> QED
      BY <3>1, <3>2, <3>3, Zenon
  <2>2. s \in stop <=> h[s] \in halt
    BY <2>1 DEF MergeStop
  <2>3. step[s] = Played(cap, s) /\ next[h[s]] = Played(cap, h[s])
    BY <2>1 DEF MergeStep
  <2>4. base[s] = Rest(s) /\ end[h[s]] = Rest(h[s])
    BY <2>1 DEF MergeBase
  <2> QED
    BY <2>1, <2>2, <2>3, <2>4
<1> HIDE DEF D, stop, base, step, mu, f, E, halt, end, next, g
<1>4. ASSUME NEW s \in J, s \notin stop
      PROVE  step[s] \in J /\ h[step[s]] = next[h[s]]
  <2> DEFINE o == s[1]
             x == s[2]
             y == s[3]
             k == s[4]
             t == Played(cap, s)
  <2>1. /\ o # <<>> /\ o[1] = e /\ Tail(o) \in Seq(T) /\ o \in Seq(U)
        /\ x \in Seq(Range(ss)) /\ y \in Seq(Range(ls)) /\ k \in Nat
        /\ step[s] = t /\ next[h[s]] = Played(cap, h[s])
        /\ s = <<o, x, y, k>> /\ h[s] = <<Tail(o), x, y, k>>
    BY <1>3
  <2>2. t \in D
    <3>1. s \in D /\ step[s] = t
      BY <1>3
    <3> HIDE DEF J, h, t
    <3> QED
      BY <1>1, <1>4, <3>1
  <2>3. x # <<>> /\ y # <<>>
    <3>1. s \in D /\ s \notin stop
      BY <1>3, <1>4
    <3> QED
      BY <3>1 DEF MergeStop, stop, D
  <2>4. /\ In(t) /\ <<Tail(t[1]), t[2], t[3], t[4]>> = Played(cap, <<Tail(o), x, y, k>>)
    <3> HIDE DEF o, x, y, k, h, J
    <3> DEFINE A == Range(ss)
               B == Range(ls)
    <3>1. A \in SUBSET T /\ B \in SUBSET T
      OBVIOUS
    <3> HIDE DEF T, U, A, B
    <3>2. /\ T \in SUBSET U /\ o \in Seq(U) /\ o # <<>> /\ Tail(o) \in Seq(T)
          /\ x \in Seq(A) /\ x # <<>> /\ y \in Seq(B) /\ y # <<>>
      BY <1>2, <2>1, <2>3 DEF A, B
    <3>3. AfterPlay(cap, T, A, B, o, x, y, k, Played(cap, <<o, x, y, k>>))
      BY <3>1, <3>2, PlayedAfter
    <3>4. t = Played(cap, <<o, x, y, k>>)
      BY <2>1, Zenon
    <3> HIDE DEF t
    <3> QED
      BY <2>1, <3>3, <3>4 DEF A, B, AfterPlay
  <2>5. t \in J /\ h[t] = <<Tail(t[1]), t[2], t[3], t[4]>>
    <3>1. t \in J
      BY <2>2, <2>4
    <3> QED
      BY <3>1
  <2> HIDE DEF o, x, y, k, h, J, t
  <2> QED
    BY <2>1, <2>4, <2>5
<1>5. ASSUME NEW s \in J PROVE <<base[s], end[h[s]]>> \in R
  <2> DEFINE o == s[1]
             x == s[2]
             y == s[3]
             b == end[h[s]]
  <2>1. /\ base[s] = Rest(s) /\ b = Rest(h[s]) /\ h[s] = <<Tail(o), x, y, s[4]>>
        /\ o # <<>> /\ o[1] = e /\ Tail(o) \in Seq(T) /\ o \in Seq(U)
        /\ x \in Seq(Range(ss)) /\ y \in Seq(Range(ls))
    BY <1>3
  <2>2. /\ base[s] = IF x = <<>> THEN o \o y ELSE o \o x
        /\ b = IF x = <<>> THEN Tail(o) \o y ELSE Tail(o) \o x
    BY <2>1 DEF Rest
  <2>3. x \in Seq(T) /\ y \in Seq(T) /\ x \in Seq(U) /\ y \in Seq(U)
    <3> HIDE DEF o, x, y, b, J, h, base
    <3> QED
      BY <1>2, <2>1
  <2> HIDE DEF o, x, y, b, T, U, J, h, base
  <2>4. ASSUME NEW z \in Seq(T), z \in Seq(U)
        PROVE  o \o z = <<e>> \o (Tail(o) \o z) /\ Tail(o) \o z \in Seq(T)
    <3>1. Tail(o) \o z \in Seq(T)
      BY <2>1
    <3> QED
      BY <2>1, <2>4, <3>1, HeadStays
  <2>5. base[s] = <<e>> \o b /\ b \in Seq(T)
    BY <2>2, <2>3, <2>4
  <2> QED
    BY <2>5 DEF b
<1>6. s0 \in J /\ h[s0] = t0
  <2>1. <<e>> # <<>> /\ <<e>>[1] = e /\ Tail(<<e>>) = <<>>
    OBVIOUS
  <2>2. <<e>> \in Seq(U) /\ <<>> \in Seq(T) /\ ss \in Seq(Range(ss)) /\ ls \in Seq(Range(ls))
    <3>1. e \in U /\ ss \in Seq(Range(ss)) /\ ls \in Seq(Range(ls))
      BY RangeOfList
    <3> HIDE DEF U, T
    <3>2. <<e>> \in Seq(U) /\ <<>> \in Seq(T)
      BY <3>1
    <3> QED
      BY <3>1, <3>2
  <2>3. s0 \in D
    <3>1. ss \in Seq(Range(sings)) /\ ls \in Seq(Range(listens)) /\ n \in Nat
      OBVIOUS
    <3> QED
      BY <2>2, <3>1, Zenon DEF MergeStates, D
  <2>4. s0[1] = <<e>> /\ s0[2] = ss /\ s0[3] = ls /\ s0[4] = n
    OBVIOUS
  <2> HIDE DEF D, s0, T
  <2>5. s0 \in J
    BY <2>1, <2>2, <2>3, <2>4
  <2> QED
    BY <2>1, <2>4, <2>5
<1>7. CountsDown(mu, J, stop, step)
  BY <1>1, <1>4, Zenon DEF CountsDown
<1>8. GoesAlong(h, J, stop, base, step, E, halt, end, next, R)
  <2> HIDE DEF D, stop, base, step, E, halt, end, next, J, h, R
  <2> QED
    BY <1>3, <1>4, <1>5 DEF GoesAlong
<1>9. <<f[s0], g[h[s0]]>> \in R
  <2>1. J \in SUBSET D
    OBVIOUS
  <2> HIDE DEF D, stop, base, step, mu, f, E, halt, end, next, g, J, h, R, s0
  <2> QED
    BY <1>1, <1>6, <1>7, <1>8, <2>1, LoopsAgree, ZenonT(40)
<1>10. g[t0] = MergeListens(ss, ls, cap, n)
  BY MergeListensIsALoop DEF g
<1>11. <<f[s0], MergeListens(ss, ls, cap, n)>> \in R
  <2> HIDE DEF f, R, s0, t0, g, h
  <2> QED
    BY <1>6, <1>9, <1>10
<1>12. PICK b \in Seq(T) : <<f[s0], MergeListens(ss, ls, cap, n)>> = <<<<e>> \o b, b>>
  <2> HIDE DEF f, s0, T
  <2> QED
    BY <1>11
<1>13. f[s0] = <<e>> \o b /\ MergeListens(ss, ls, cap, n) = b
  <2> HIDE DEF f, s0, T
  <2> QED
    BY <1>12
<1> QED
  BY <1>13 DEF f, MergesAfter

\* interleave, one item at a time: with both kinds to come it returns the next of
\* them first, and then what it makes of the others.
MergesNext(A, B, sings, listens, cap, run) ==
  LET r == MergeListens(sings, listens, cap, run)
      x == MergeListens(Tail(sings), listens, cap, 0)
      y == MergeListens(sings, Tail(listens), cap, run + 1)
  IN  /\ sings = <<>> => r = listens
      /\ sings # <<>> /\ listens = <<>> => r = sings
      /\ sings # <<>> /\ listens # <<>> =>
           IF ListenNext(cap, <<<<>>, sings, listens, run>>)
           THEN r = <<Head(listens)>> \o y /\ y \in Seq(A \cup B)
           ELSE r = <<Head(sings)>> \o x /\ x \in Seq(A \cup B)

LEMMA MergeListensUnfolds ==
  ASSUME NEW A, NEW B, NEW sings \in Seq(A), NEW listens \in Seq(B), NEW cap, NEW run \in Nat
  PROVE  MergesNext(A, B, sings, listens, cap, run)
<1> DEFINE f == MergeFunction(sings, listens, cap)
           D == MergeStates(sings, listens)
           s == <<<<>>, sings, listens, run>>
           U == Range(sings) \cup Range(listens)
<1>1. MergeListens(sings, listens, cap, run) = f[s]
  BY MergeListensIsALoop
<1>2. s \in D
  <2>1. sings \in Seq(Range(sings)) /\ listens \in Seq(Range(listens)) /\ <<>> \in Seq(U)
    BY RangeOfList
  <2> QED
    BY <2>1, Zenon DEF MergeStates
<1>3. f[s] = IF s[2] = <<>> \/ s[3] = <<>> THEN Rest(s) ELSE f[Played(cap, s)]
  <2>1. Loops(f, D, MergeStop(sings, listens), MergeBase(sings, listens),
              MergeStep(sings, listens, cap))
    BY MergeLoops
  <2> HIDE DEF f, s
  <2>2. f[s] = IF s \in MergeStop(sings, listens) THEN MergeBase(sings, listens)[s]
               ELSE f[MergeStep(sings, listens, cap)[s]]
    BY <1>2, <2>1, Zenon DEF Loops
  <2>3. /\ s \in MergeStop(sings, listens) <=> s[2] = <<>> \/ s[3] = <<>>
        /\ MergeBase(sings, listens)[s] = Rest(s)
        /\ MergeStep(sings, listens, cap)[s] = Played(cap, s)
    BY <1>2, Zenon DEF MergeStop, MergeBase, MergeStep
  <2> QED
    BY <2>2, <2>3, Zenon
<1>4. s[1] = <<>> /\ s[2] = sings /\ s[3] = listens /\ s[4] = run
  OBVIOUS
<1> HIDE DEF s, f
<1>5. sings = <<>> \/ listens = <<>> => f[s] = IF sings = <<>> THEN listens ELSE sings
  <2>1. <<>> \o listens = listens /\ <<>> \o sings = sings
    OBVIOUS
  <2> QED
    BY <1>3, <1>4, <2>1 DEF Rest
<1>6. ASSUME sings # <<>>, listens # <<>>, ListenNext(cap, s)
      PROVE  LET y == MergeListens(sings, Tail(listens), cap, run + 1)
             IN  f[s] = <<Head(listens)>> \o y /\ y \in Seq(A \cup B)
  <2> DEFINE e == Head(listens)
             ls == Tail(listens)
             n == run + 1
  <2>1. Played(cap, s) = <<<<e>>, sings, ls, n>>
    <3>1. Append(<<>>, e) = <<e>>
      OBVIOUS
    <3> QED
      BY <1>4, <1>6, <3>1 DEF Played
  <2>2. f[s] = f[<<<<e>>, sings, ls, n>>]
    BY <1>3, <1>4, <1>6, <2>1
  <2>3. /\ e \in U /\ n \in Nat /\ sings \in Seq(Range(sings)) /\ ls \in Seq(Range(listens))
        /\ Range(sings) \subseteq A /\ Range(ls) \subseteq B
    <3>1. ls \in Seq(B) /\ e \in B /\ Range(listens) = {e} \cup Range(ls)
      BY <1>6, HeadAndTail, TailProperties
    <3>2. listens \in Seq(Range(listens)) /\ sings \in Seq(Range(sings))
          /\ Range(sings) \subseteq A /\ Range(ls) \subseteq B
      BY <3>1, RangeOfList
    <3> QED
      BY <1>6, <3>1, <3>2
  <2> HIDE DEF e, ls, n, U
  <2>4. /\ MergeListens(sings, ls, cap, n) \in Seq(Range(sings) \cup Range(ls))
        /\ f[<<<<e>>, sings, ls, n>>] = <<e>> \o MergeListens(sings, ls, cap, n)
    <3>1. MergesAfter(sings, listens, cap, e, sings, ls, n)
      BY <2>3, MergePrefix DEF U
    <3> QED
      BY <3>1 DEF MergesAfter, f
  <2>5. MergeListens(sings, ls, cap, n) \in Seq(A \cup B)
    BY <2>3, <2>4
  <2> QED
    BY <2>2, <2>4, <2>5 DEF e, ls, n
<1>7. ASSUME sings # <<>>, listens # <<>>, ~ListenNext(cap, s)
      PROVE  LET x == MergeListens(Tail(sings), listens, cap, 0)
             IN  f[s] = <<Head(sings)>> \o x /\ x \in Seq(A \cup B)
  <2> DEFINE e == Head(sings)
             ss == Tail(sings)
  <2>1. Played(cap, s) = <<<<e>>, ss, listens, 0>>
    <3>1. Append(<<>>, e) = <<e>>
      OBVIOUS
    <3> QED
      BY <1>4, <1>7, <3>1 DEF Played
  <2>2. f[s] = f[<<<<e>>, ss, listens, 0>>]
    BY <1>3, <1>4, <1>7, <2>1
  <2>3. /\ e \in U /\ listens \in Seq(Range(listens)) /\ ss \in Seq(Range(sings))
        /\ Range(ss) \subseteq A /\ Range(listens) \subseteq B
    <3>1. ss \in Seq(A) /\ e \in A /\ Range(sings) = {e} \cup Range(ss)
      BY <1>7, HeadAndTail, TailProperties
    <3>2. sings \in Seq(Range(sings)) /\ listens \in Seq(Range(listens))
          /\ Range(ss) \subseteq A /\ Range(listens) \subseteq B
      BY <3>1, RangeOfList
    <3> QED
      BY <1>7, <3>1, <3>2
  <2> HIDE DEF e, ss, U
  <2>4. /\ MergeListens(ss, listens, cap, 0) \in Seq(Range(ss) \cup Range(listens))
        /\ f[<<<<e>>, ss, listens, 0>>] = <<e>> \o MergeListens(ss, listens, cap, 0)
    <3>1. MergesAfter(sings, listens, cap, e, ss, listens, 0)
      BY <2>3, MergePrefix DEF U
    <3> QED
      BY <3>1 DEF MergesAfter, f
  <2>5. MergeListens(ss, listens, cap, 0) \in Seq(A \cup B)
    BY <2>3, <2>4
  <2> QED
    BY <2>2, <2>4, <2>5 DEF e, ss
<1> QED
  BY <1>1, <1>5, <1>6, <1>7 DEF s, MergesNext

-----------------------------------------------------------------------------
(* The listens in the order of submission.                                 *)

EarlierListens(B, e) == Preceding(BySubmission(B), B, e)

LEMMA ListensInOrder ==
  ASSUME NEW B, Numbered(B)
  PROVE  /\ Enumerates(SortedBy(SubmittedBefore, B), B)
         /\ \A i \in DOMAIN SortedBy(SubmittedBefore, B) :
              Cardinality(EarlierListens(B, SortedBy(SubmittedBefore, B)[i])) = i - 1
<1> DEFINE R == BySubmission(B)
           n == Cardinality(B)
           y == SortedBy(SubmittedBefore, B)
<1>1. Orders(R, B) /\ IsFiniteSet(B)
  BY SubmissionOrders DEF Numbered
<1>2. \A e \in B : Preceding(R, B, e) = {f \in B : SubmittedBefore(f, e)}
  BY DEF Preceding, BySubmission
<1>3. y = [i \in 1..n |-> CHOOSE e \in B : Cardinality({f \in B : SubmittedBefore(f, e)}) = i - 1]
  BY DEF SortedBy
<1> HIDE DEF R, y
<1>4. \A i \in 1..n : \E e \in B : Cardinality(Preceding(R, B, e)) = i - 1
  BY <1>1, RanksOfOrder
<1>5. \A i \in 1..n : y[i] \in B /\ Cardinality({f \in B : SubmittedBefore(f, y[i])}) = i - 1
  <2> TAKE i \in 1..n
  <2>1. PICK e \in B : Cardinality(Preceding(R, B, e)) = i - 1
    BY <1>4
  <2>2. Cardinality({f \in B : SubmittedBefore(f, e)}) = i - 1
    BY <1>2, <2>1
  <2>3. y[i] = CHOOSE d \in B : Cardinality({f \in B : SubmittedBefore(f, d)}) = i - 1
    BY <1>3
  <2> QED
    BY <2>2, <2>3, Zenon
<1>6. /\ y \in [1..n -> B] /\ DOMAIN y = 1..n
      /\ \A i \in 1..n : Cardinality(Preceding(R, B, y[i])) = i - 1
  BY <1>2, <1>3, <1>5
<1>7. Enumerates(y, B)
  BY <1>1, <1>6, RankedList
<1> QED
  BY <1>6, <1>7 DEF y, R, EarlierListens

\* Without the first of them, the others keep their order.
LEMMA ListensTail ==
  ASSUME NEW B, Numbered(B), B # {}
  PROVE  LET y == SortedBy(SubmittedBefore, B)
         IN  SortedBy(SubmittedBefore, B \ {y[1]}) = Tail(y)
<1> DEFINE y == SortedBy(SubmittedBefore, B)
           h == y[1]
           C == B \ {h}
           z == SortedBy(SubmittedBefore, C)
<1>1. Numbered(C) /\ IsFiniteSet(B) /\ IsFiniteSet(C) /\ C \in SUBSET B
  <2>1. C \in SUBSET B
    OBVIOUS
  <2>2. IsFiniteSet(C)
    BY <2>1, FS_Subset DEF Numbered
  <2> HIDE DEF C
  <2> QED
    BY <2>1, <2>2 DEF Numbered
<1>2. /\ Enumerates(y, B) /\ Enumerates(z, C)
      /\ \A i \in DOMAIN y : Cardinality(EarlierListens(B, y[i])) = i - 1
      /\ \A i \in DOMAIN z : Cardinality(EarlierListens(C, z[i])) = i - 1
  <2> HIDE DEF C
  <2> QED
    BY <1>1, ListensInOrder
<1> HIDE DEF y, z
<1>3. /\ Enumerates(Tail(y), C) /\ h \in B /\ DOMAIN y = 1..Len(y) /\ Len(y) \in Nat \ {0}
      /\ Len(Tail(y)) = Len(y) - 1 /\ \A i \in 1..(Len(y) - 1) : Tail(y)[i] = y[i + 1]
  BY <1>2, EnumerationSize, EnumerationTail
<1>4. /\ DOMAIN z = 1..Len(z) /\ z \in Seq(C) /\ Tail(y) \in Seq(C)
      /\ Len(z) = Len(Tail(y)) /\ DOMAIN Tail(y) = 1..Len(Tail(y))
  <2> HIDE DEF C
  <2>1. Len(z) = Cardinality(C) /\ Len(Tail(y)) = Cardinality(C)
    BY <1>2, <1>3, EnumerationSize
  <2> QED
    BY <1>2, <1>3, <2>1 DEF Enumerates
<1>5. h \notin C
  OBVIOUS
<1>6. ASSUME NEW e \in C
      PROVE  Cardinality(EarlierListens(B, e)) = Cardinality(EarlierListens(C, e)) + 1
  <2>1. Orders(BySubmission(B), B) /\ e \in B /\ e # h
    BY <1>1, SubmissionOrders
  <2>2. EarlierListens(B, h) = {}
    <3>1. Cardinality(EarlierListens(B, h)) = 0
      BY <1>2, <1>3
    <3>2. IsFiniteSet(EarlierListens(B, h))
      BY <1>1, FS_Subset DEF EarlierListens, Preceding
    <3> QED
      BY <3>1, <3>2, FS_EmptySet
  <2>3. <<h, e>> \in BySubmission(B)
    BY <1>3, <2>1, <2>2 DEF Orders, EarlierListens, Preceding
  <2>4. EarlierListens(B, e) = EarlierListens(C, e) \cup {h} /\ h \notin EarlierListens(C, e)
    BY <1>3, <2>1, <2>3 DEF EarlierListens, Preceding, BySubmission
  <2>5. IsFiniteSet(EarlierListens(C, e))
    BY <1>1, FS_Subset DEF EarlierListens, Preceding
  <2> QED
    BY <2>4, <2>5, FS_AddElement
<1> HIDE DEF C, h
<1>7. ASSUME NEW i \in 1..Len(z) PROVE z[i] = Tail(y)[i]
  <2>1. /\ i + 1 \in DOMAIN y /\ Tail(y)[i] = y[i + 1] /\ i \in DOMAIN z
        /\ z[i] \in C /\ Tail(y)[i] \in C /\ i \in Int
    BY <1>3, <1>4
  <2>2. /\ Cardinality(EarlierListens(C, z[i])) = i - 1
        /\ Cardinality(EarlierListens(B, Tail(y)[i])) = (i + 1) - 1
    BY <1>2, <2>1
  <2>3. Cardinality(EarlierListens(C, Tail(y)[i])) = i - 1
    <3>1. Cardinality(EarlierListens(C, Tail(y)[i])) \in Nat
      <4>1. IsFiniteSet(EarlierListens(C, Tail(y)[i]))
        BY <1>1, FS_Subset DEF EarlierListens, Preceding
      <4> QED
        BY <4>1, FS_CardinalityType
    <3> DEFINE b == Cardinality(EarlierListens(B, Tail(y)[i]))
               c == Cardinality(EarlierListens(C, Tail(y)[i]))
    <3>2. b = c + 1 /\ b = (i + 1) - 1 /\ c \in Nat
      BY <1>6, <2>1, <2>2, <3>1
    <3> HIDE DEF b, c
    <3>3. c = i - 1
      BY <2>1, <3>2
    <3> QED
      BY <3>3 DEF c
  <2>4. Orders(BySubmission(C), C)
    BY <1>1, SubmissionOrders
  <2> QED
    BY <1>1, <2>1, <2>2, <2>3, <2>4, RanksOfOrder DEF EarlierListens
<1>8. z = Tail(y)
  BY <1>4, <1>7
<1> QED
  BY <1>8 DEF z, y, C, h

-----------------------------------------------------------------------------
(* roundRobin without its first entry.                                     *)

\* later is sang after a turn of h: h's group has the least credit, the others what
\* they had.
TurnOf(m, S, sang, h, later) ==
  \A e \in S : IF GroupKey(m, e) = GroupKey(m, h)
               THEN \A f \in S : sang[GroupKey(m, f)] < later[GroupKey(m, e)]
               ELSE later[GroupKey(m, e)] = sang[GroupKey(m, e)]

\* served in a run that started at t0 with a turn of h.
RunSince(m, S, sang, h, t0, served, tick) ==
  \A e \in S : \/ t0 < served[GroupKey(m, e)] /\ served[GroupKey(m, e)] < tick
               \/ served[GroupKey(m, e)] = IF GroupKey(m, e) = GroupKey(m, h) THEN t0
                                           ELSE sang[GroupKey(m, e)]

\* The same in the run without h, which starts with later at t1.
Shifted(m, S, later, t0, t1, served) ==
  [k \in GroupKeys |-> IF (\E e \in S : k = GroupKey(m, e)) /\ t0 < served[k]
                       THEN served[k] + (t1 - t0 - 1) ELSE later[k]]

\* The two runs compare entries alike.
LEMMA RunsAgree ==
  ASSUME NEW m, NEW S, Numbered(S), NEW sang \in [GroupKeys -> Int],
         NEW later \in [GroupKeys -> Int], NEW served \in [GroupKeys -> Int],
         NEW h \in S, NEW t0 \in Nat, NEW t1 \in Nat, NEW tick,
         \A e \in S : sang[GroupKey(m, e)] < t0,
         \A e \in S \ {h} : later[GroupKey(m, e)] < t1,
         TurnOf(m, S, sang, h, later), RunSince(m, S, sang, h, t0, served, tick),
         NEW e \in S \ {h}, NEW f \in S \ {h}
  PROVE  ServedBefore(m, served, e, f)
           <=> ServedBefore(m, Shifted(m, S, later, t0, t1, served), e, f)
<1> DEFINE other == Shifted(m, S, later, t0, t1, served)
           H == GroupKey(m, h)
           K == {GroupKey(m, x) : x \in S}
           L == {GroupKey(m, x) : x \in S \ {h}}
<1>1. K \in SUBSET GroupKeys /\ L \in SUBSET K /\ H \in K /\ GroupKey(m, e) \in L /\ GroupKey(m, f) \in L
  BY KeysAreKeys DEF Numbered
<1>2. \A k \in K : /\ sang[k] \in Int /\ later[k] \in Int /\ served[k] \in Int
                   /\ sang[k] < t0
                   /\ t0 < served[k] \/ served[k] = IF k = H THEN t0 ELSE sang[k]
                   /\ IF k = H THEN \A l \in K : sang[l] < later[k]
                      ELSE later[k] = sang[k]
  BY <1>1 DEF TurnOf, RunSince
<1>3. \A k \in L : later[k] < t1
  OBVIOUS
<1>4. \A k \in K : other[k] = IF t0 < served[k] THEN served[k] + (t1 - t0 - 1) ELSE later[k]
  BY <1>1 DEF Shifted
<1> HIDE DEF other, H, K, L
<1>5. ASSUME NEW k \in L, NEW l \in L
      PROVE  /\ served[k] < served[l] <=> other[k] < other[l]
             /\ served[k] = served[l] <=> other[k] = other[l]
  <2> DEFINE a == served[k]
             b == served[l]
             c == later[k]
             d == later[l]
             u == sang[k]
             v == sang[l]
             p == other[k]
             q == other[l]
  <2>1. /\ a \in Int /\ b \in Int /\ c \in Int /\ d \in Int /\ u \in Int /\ v \in Int
        /\ u < t0 /\ v < t0 /\ c < t1 /\ d < t1
        /\ p = (IF t0 < a THEN a + (t1 - t0 - 1) ELSE c)
        /\ q = (IF t0 < b THEN b + (t1 - t0 - 1) ELSE d)
        /\ t0 < a \/ a = IF k = H THEN t0 ELSE u
        /\ t0 < b \/ b = IF l = H THEN t0 ELSE v
        /\ IF k = H THEN v < c ELSE c = u
        /\ IF l = H THEN u < d ELSE d = v
        /\ k = l => a = b /\ p = q
    BY <1>1, <1>2, <1>3, <1>4
  <2> HIDE DEF a, b, c, d, u, v, p, q
  <2>2. (a < b <=> p < q) /\ (a = b <=> p = q)
    BY <2>1
  <2> QED
    BY <2>2 DEF a, b, p, q
<1> QED
  BY <1>1, <1>5 DEF ServedBefore, other

\* A turn in the one run is a turn in the other.
TurnShifted(m, S, later, t0, t1, served, x, tick, after) ==
  Shifted(m, S, later, t0, t1, after)
    = [Shifted(m, S, later, t0, t1, served)
         EXCEPT ![GroupKey(m, x)] = tick + (t1 - t0 - 1)]

LEMMA RunsTurn ==
  ASSUME NEW m, NEW S, Numbered(S), NEW later \in [GroupKeys -> Int],
         NEW served \in [GroupKeys -> Int], NEW t0 \in Nat, NEW t1 \in Nat, NEW tick \in Nat,
         t0 < tick, NEW x \in S, NEW after, TurnTaken(served, GroupKey(m, x), tick, after)
  PROVE  TurnShifted(m, S, later, t0, t1, served, x, tick, after)
<1> DEFINE X == GroupKey(m, x)
           In(k) == \E e \in S : k = GroupKey(m, e)
           a == Shifted(m, S, later, t0, t1, after)
           b == Shifted(m, S, later, t0, t1, served)
           n == tick + (t1 - t0 - 1)
<1>1. X \in GroupKeys /\ In(X)
  BY KeysAreKeys DEF Numbered
<1>2. \A k \in GroupKeys : after[k] = IF k = X THEN tick ELSE served[k]
  BY DEF TurnTaken
<1> DEFINE c == [b EXCEPT ![X] = n]
<1>3. a = [k \in GroupKeys |-> IF In(k) /\ t0 < after[k] THEN after[k] + (t1 - t0 - 1) ELSE later[k]]
  BY DEF Shifted
<1>4. b = [k \in GroupKeys |-> IF In(k) /\ t0 < served[k] THEN served[k] + (t1 - t0 - 1) ELSE later[k]]
  BY DEF Shifted
<1>5. c = [k \in GroupKeys |-> IF k = X THEN n ELSE b[k]]
  BY <1>1, <1>4
<1> HIDE DEF X, In, b, a, c
<1>6. \A k \in GroupKeys : a[k] = IF k = X THEN n ELSE b[k]
  BY <1>1, <1>2, <1>3, <1>4
<1>7. a = c
  BY <1>3, <1>5, <1>6
<1> QED
  BY <1>7 DEF a, b, c, X, TurnShifted

LEMMA RoundRobinTail ==
  ASSUME NEW m, NEW S, Numbered(S), S # {}, NEW sang \in [GroupKeys -> Int],
         NEW later \in [GroupKeys -> Int],
         TurnOf(m, S, sang, RoundRobin(m, S, sang)[1], later)
  PROVE  LET o == RoundRobin(m, S, sang)
             p == RoundRobin(m, S \ {o[1]}, later)
         IN  o = <<o[1]>> \o p /\ p \in Seq(S)
<1> DEFINE start == FirstRound(m, S, sang)
           x == BestHead(m, start)
           second == Round(m, start)
           C == S \ {x}
           first == FirstRound(m, C, later)
           t0 == start.tick
           t1 == first.tick
           f == RoundRobinFunction(m, S)
           g == RoundRobinFunction(m, C)
           Other(served) == Shifted(m, S, later, t0, t1, served)
           J == {s \in RoundStates(S) :
                   /\ s.order # <<>> /\ s.order[1] = x /\ Tail(s.order) \in Seq(C)
                   /\ s.waiting \in SUBSET C /\ t0 < s.tick
                   /\ RunSince(m, S, sang, x, t0, s.served, s.tick)}
           h == [s \in J |-> [order |-> Tail(s.order), waiting |-> s.waiting,
                              served |-> Other(s.served), tick |-> s.tick + (t1 - t0 - 1)]]
           R == {<<<<x>> \o b, b>> : b \in Seq(C)}
           D == RoundStates(S)
           E == RoundStates(C)
           stop == RoundStop(S)
           base == RoundBase(S)
           step == RoundStep(m, S)
           halt == RoundStop(C)
           end == RoundBase(C)
           next == RoundStep(m, C)
           mu == RoundsToGo(S)
<1>1. RoundRobin(m, S, sang)[1] = x /\ x \in S
  BY RoundRobinHead
<1>2. Numbered(C) /\ C \in SUBSET S
  <2>1. C \in SUBSET S
    OBVIOUS
  <2> HIDE DEF C
  <2> QED
    BY <2>1, FS_Subset DEF Numbered
<1>3. /\ start \in D /\ t0 \in Nat /\ \A e \in S : sang[GroupKey(m, e)] < t0
      /\ start.order = <<>> /\ start.waiting = S /\ start.served = sang
  <2>1. start \in D /\ \A e \in S : sang[GroupKey(m, e)] < t0
    BY FirstTick
  <2>2. start.order = <<>> /\ start.waiting = S /\ start.served = sang
    BY DEF FirstRound
  <2> HIDE DEF start
  <2> QED
    BY <2>1, <2>2 DEF RoundStates
<1>4. /\ first \in E /\ t1 \in Nat /\ \A e \in C : later[GroupKey(m, e)] < t1
      /\ first = [order |-> <<>>, waiting |-> C, served |-> later, tick |-> t1]
  <2> HIDE DEF C, x
  <2>1. first \in E /\ \A e \in C : later[GroupKey(m, e)] < t1
    BY <1>2, FirstTick
  <2>2. first = [order |-> <<>>, waiting |-> C, served |-> later, tick |-> t1]
    BY DEF FirstRound
  <2> HIDE DEF first
  <2> QED
    BY <2>1, <2>2 DEF RoundStates
<1>5. TurnOf(m, S, sang, x, later)
  BY <1>1
<1> HIDE DEF start, x, C, first, t0, t1
<1>6. \A served : Other(served) \in [GroupKeys -> Int] \/ served \notin [GroupKeys -> Int]
  <2> SUFFICES ASSUME NEW served \in [GroupKeys -> Int] PROVE Other(served) \in [GroupKeys -> Int]
    OBVIOUS
  <2> QED
    BY <1>3, <1>4 DEF Shifted
<1> HIDE DEF Other
<1>7. ASSUME NEW s \in J
      PROVE  /\ s \in D /\ s.order \in Seq(S) /\ s.served \in [GroupKeys -> Int] /\ s.tick \in Nat
             /\ s.order # <<>> /\ s.order[1] = x /\ Tail(s.order) \in Seq(C)
             /\ s.waiting \in SUBSET C /\ t0 < s.tick
             /\ RunSince(m, S, sang, x, t0, s.served, s.tick)
             /\ h[s].order = Tail(s.order) /\ h[s].waiting = s.waiting
             /\ h[s].served = Other(s.served) /\ h[s].tick = s.tick + (t1 - t0 - 1)
             /\ h[s] \in E
  <2>1. /\ s \in D /\ s.order \in Seq(S) /\ s.served \in [GroupKeys -> Int] /\ s.tick \in Nat
        /\ s.order # <<>> /\ s.order[1] = x /\ Tail(s.order) \in Seq(C)
        /\ s.waiting \in SUBSET C /\ t0 < s.tick
        /\ RunSince(m, S, sang, x, t0, s.served, s.tick)
    BY DEF RoundStates
  <2>2. h[s] = [order |-> Tail(s.order), waiting |-> s.waiting,
                served |-> Other(s.served), tick |-> s.tick + (t1 - t0 - 1)]
    OBVIOUS
  <2>3. s.tick + (t1 - t0 - 1) \in Nat /\ Other(s.served) \in [GroupKeys -> Int]
    BY <1>3, <1>4, <1>6, <2>1
  <2>4. h[s] \in E
    BY <2>1, <2>2, <2>3, Zenon DEF RoundStates
  <2> HIDE DEF J, h
  <2> QED
    BY <2>1, <2>2, <2>4
<1>8. \A s \in J : s \in stop <=> h[s] \in halt
  BY <1>7 DEF RoundStop
<1>9. \A s \in J : step[s] = Round(m, s) /\ next[h[s]] = Round(m, h[s])
                   /\ base[s] = s.order /\ end[h[s]] = h[s].order
  BY <1>7 DEF RoundStep, RoundBase
<1>10. ASSUME NEW s \in J, s \notin stop PROVE step[s] \in J /\ h[step[s]] = next[h[s]]
  <2> DEFINE o == s.order
             w == s.waiting
             served == s.served
             tick == s.tick
             y == BestHead(m, s)
             t == Round(m, s)
             u == h[s]
             v == Round(m, u)
             d == t1 - t0 - 1
  <2>1. /\ o \in Seq(S) /\ o # <<>> /\ o[1] = x /\ Tail(o) \in Seq(C)
        /\ served \in [GroupKeys -> Int] /\ tick \in Nat /\ t0 < tick
        /\ w \in SUBSET C /\ RunSince(m, S, sang, x, t0, served, tick)
        /\ s \in D /\ u \in E
        /\ u.order = Tail(o) /\ u.waiting = w /\ u.served = Other(served) /\ u.tick = tick + d
    BY <1>7
  <2>2. w # {}
    BY <1>10, <2>1 DEF RoundStop
  <2>3. /\ y \in w /\ \A e \in w \ {y} : ServedBefore(m, served, y, e)
        /\ t \in D
    BY <2>1, <2>2, RoundServes
  <2>4. /\ BestHead(m, u) \in w /\ v \in E
        /\ \A e \in w \ {BestHead(m, u)} : ServedBefore(m, Other(served), BestHead(m, u), e)
    <3>1. u.waiting # {} /\ u \in RoundStates(C)
      BY <2>1, <2>2
    <3> HIDE DEF u, w, served, D, E
    <3>2. /\ BestHead(m, u) \in u.waiting /\ v \in RoundStates(C)
          /\ \A e \in u.waiting \ {BestHead(m, u)} : ServedBefore(m, u.served, BestHead(m, u), e)
      BY <1>2, <3>1, RoundServes
    <3> HIDE DEF v
    <3> QED
      BY <2>1, <3>2, Zenon DEF E
  <2>5. BestHead(m, u) = y
    <3> DEFINE z == BestHead(m, u)
    <3> SUFFICES ASSUME z # y PROVE FALSE
      OBVIOUS
    <3>1. z \in S \ {x} /\ y \in S \ {x} /\ z \in S /\ y \in S
      BY <1>2, <2>1, <2>3, <2>4 DEF C
    <3>2. ServedBefore(m, served, y, z) /\ ServedBefore(m, Other(served), z, y)
      BY <2>3, <2>4
    <3> HIDE DEF z, y, served, tick
    <3>3. \A e \in S \ {x} : later[GroupKey(m, e)] < t1
      BY <1>4 DEF C
    <3>4. ServedBefore(m, served, z, y) <=> ServedBefore(m, Other(served), z, y)
      BY <1>1, <1>3, <1>4, <1>5, <2>1, <3>1, <3>3, RunsAgree DEF Other
    <3>5. ~(ServedBefore(m, served, y, z) /\ ServedBefore(m, served, z, y))
      BY <2>1, <3>1, CreditStrict
    <3> QED
      BY <3>2, <3>4, <3>5
  <2> DEFINE p == Append(o, y)
             q == Append(Tail(o), y)
             key == GroupKey(m, y)
             after == [served EXCEPT ![key] = tick]
             other == [Other(served) EXCEPT ![key] = tick + d]
  <2>6. /\ t.order = p /\ t.waiting = w \ {y} /\ t.served = after /\ t.tick = tick + 1
    BY DEF Round
  <2>7. v = [order |-> q, waiting |-> w \ {y}, served |-> other, tick |-> (tick + d) + 1]
    <3> DEFINE z == BestHead(m, u)
    <3>1. v = [order |-> Append(u.order, z), waiting |-> u.waiting \ {z},
               served |-> [u.served EXCEPT ![GroupKey(m, z)] = u.tick], tick |-> u.tick + 1]
      BY Zenon DEF Round
    <3> HIDE DEF u, v, y, z, o, w, served, tick
    <3>2. z = y
      BY <2>5 DEF z
    <3> QED
      BY <2>1, <3>1, <3>2, Zenon
  <2> HIDE DEF o, w, served, tick, y, t, u, v, p, q, after, other
  <2>8. y \in S /\ y \in C
    BY <1>2, <2>1, <2>3
  <2>9. p # <<>> /\ p[1] = x /\ Tail(p) = q /\ q \in Seq(C)
    <3>1. q \in Seq(C)
      BY <2>1, <2>8 DEF q
    <3> QED
      <4>1. o \in Seq(S) /\ o # <<>> /\ y \in S /\ o[1] = x
        BY <2>1, <2>8
      <4>2. \A z \in S : /\ Append(o, z) # <<>> /\ Append(o, z)[1] = o[1]
                        /\ Tail(Append(o, z)) = Append(Tail(o), z)
        BY <4>1, HeadStays, Zenon
      <4>3. p # <<>> /\ p[1] = o[1] /\ Tail(p) = q
        BY <4>1, <4>2, Zenon DEF p, q
      <4> QED
        BY <3>1, <4>1, <4>3
  <2>10. /\ after \in [GroupKeys -> Int] /\ TurnTaken(served, key, tick, after)
    <3>1. tick \in Int
      BY <2>1
    <3> HIDE DEF key
    <3> QED
      BY <2>1, <3>1, TakingATurn, Zenon DEF after
  <2>11. Other(after) = other
    <3>1. TurnShifted(m, S, later, t0, t1, served, y, tick, after)
      BY <1>3, <1>4, <2>1, <2>8, <2>10, RunsTurn
    <3> QED
      BY <3>1 DEF Other, other, TurnShifted
  <2>12. RunSince(m, S, sang, x, t0, after, tick + 1)
    <3> SUFFICES ASSUME NEW e \in S
                 PROVE  \/ t0 < after[GroupKey(m, e)] /\ after[GroupKey(m, e)] < tick + 1
                        \/ after[GroupKey(m, e)] = IF GroupKey(m, e) = GroupKey(m, x) THEN t0
                                                   ELSE sang[GroupKey(m, e)]
      BY Zenon DEF RunSince
    <3> DEFINE k == GroupKey(m, e)
    <3>1. k \in GroupKeys /\ served[k] \in Int
      BY <2>1, KeysAreKeys DEF Numbered
    <3>2. after[k] = IF k = key THEN tick ELSE served[k]
      BY <2>10, <3>1 DEF TurnTaken
    <3>3. \/ t0 < served[k] /\ served[k] < tick
          \/ served[k] = IF k = GroupKey(m, x) THEN t0 ELSE sang[k]
      BY <2>1 DEF RunSince
    <3> HIDE DEF k, key
    <3>4. \/ t0 < after[k] /\ after[k] < tick + 1
          \/ after[k] = IF k = GroupKey(m, x) THEN t0 ELSE sang[k]
      BY <1>3, <2>1, <3>1, <3>2, <3>3
    <3> QED
      BY <3>4 DEF k
  <2>13. w \ {y} \in SUBSET C /\ t0 < tick + 1
    BY <1>3, <2>1
  <2>14. t \in J
    BY <2>3, <2>6, <2>9, <2>12, <2>13
  <2>15. h[t] = [order |-> q, waiting |-> w \ {y}, served |-> other, tick |-> (tick + 1) + d]
    <3>1. h[t] = [order |-> Tail(t.order), waiting |-> t.waiting,
                  served |-> Other(t.served), tick |-> t.tick + d]
      BY <2>14
    <3> HIDE DEF h, J, d
    <3> QED
      BY <2>6, <2>9, <2>11, <3>1
  <2>16. (tick + 1) + d = (tick + d) + 1
    BY <1>3, <1>4, <2>1
  <2> HIDE DEF h, J, d
  <2>17. step[s] = t /\ next[h[s]] = v
    BY <1>9 DEF t, u, v
  <2> QED
    BY <2>7, <2>14, <2>15, <2>16, <2>17
<1>11. ASSUME NEW s \in J PROVE <<base[s], end[h[s]]>> \in R
  <2> DEFINE o == s.order
             b == Tail(o)
  <2>1. /\ base[s] = o /\ end[h[s]] = b /\ o \in Seq(S) /\ o # <<>> /\ o[1] = x /\ b \in Seq(C)
    <3>1. base[s] = s.order /\ end[h[s]] = h[s].order
      BY <1>9
    <3>2. h[s].order = b
      BY <1>7
    <3> HIDE DEF h, base, end, J
    <3> QED
      BY <1>7, <3>1, <3>2
  <2> HIDE DEF o
  <2>2. o = <<x>> \o b
    <3>1. o \o <<>> = <<o[1]>> \o (Tail(o) \o <<>>)
      BY <2>1, HeadStays
    <3>2. o \o <<>> = o /\ Tail(o) \o <<>> = Tail(o)
      BY <2>1
    <3> QED
      BY <2>1, <3>1, <3>2
  <2> HIDE DEF b, base, end, h
  <2> QED
    BY <2>1, <2>2
<1>12. second \in J /\ h[second] = first
  <2> DEFINE key == GroupKey(m, x)
             after == [sang EXCEPT ![key] = t0]
  <2>1. /\ second \in D /\ second.order = <<x>> /\ second.waiting = C
        /\ second.served = after /\ second.tick = t0 + 1
    <3>1. start.waiting # {}
      BY <1>3
    <3>2. second \in D
      BY <1>3, <3>1, RoundServes
    <3>3. Append(<<>>, x) = <<x>>
      OBVIOUS
    <3> QED
      BY <1>3, <3>2, <3>3 DEF Round, x, t0, C
  <2>2. after \in [GroupKeys -> Int] /\ TurnTaken(sang, key, t0, after)
    <3>1. t0 \in Int
      BY <1>3
    <3> HIDE DEF key
    <3> QED
      BY <3>1, TakingATurn, Zenon
  <2> HIDE DEF second, key, after
  <2>3. \A e \in S : /\ GroupKey(m, e) \in GroupKeys
                     /\ after[GroupKey(m, e)] = IF GroupKey(m, e) = key THEN t0
                                                ELSE sang[GroupKey(m, e)]
    BY <2>2, KeysAreKeys DEF Numbered, TurnTaken
  <2>4. RunSince(m, S, sang, x, t0, after, t0 + 1)
    BY <2>3 DEF RunSince, key
  <2>5. <<x>> # <<>> /\ <<x>>[1] = x /\ Tail(<<x>>) = <<>> /\ <<>> \in Seq(C)
    OBVIOUS
  <2>6. second \in J
    <3>1. /\ second.order # <<>> /\ second.order[1] = x /\ Tail(second.order) \in Seq(C)
          /\ second.waiting \in SUBSET C
      BY <2>1, <2>5
    <3>2. t0 < second.tick /\ RunSince(m, S, sang, x, t0, second.served, second.tick)
      BY <1>3, <2>1, <2>4
    <3> QED
      BY <2>1, <3>1, <3>2, Zenon
  <2>7. Other(after) = later
    <3>1. \A k \in GroupKeys : (\E e \in S : k = GroupKey(m, e)) => ~(t0 < after[k])
      <4> SUFFICES ASSUME NEW e \in S PROVE ~(t0 < after[GroupKey(m, e)])
        OBVIOUS
      <4> DEFINE k == GroupKey(m, e)
      <4>1. /\ sang[k] \in Int /\ sang[k] < t0 /\ t0 \in Int
            /\ after[k] = IF k = key THEN t0 ELSE sang[k]
        BY <1>3, <2>3
      <4> HIDE DEF k
      <4>2. ~(t0 < after[k])
        BY <4>1
      <4> QED
        BY <4>2 DEF k
    <3> QED
      BY <3>1 DEF Other, Shifted
  <2>8. h[second] = [order |-> <<>>, waiting |-> C, served |-> later, tick |-> t0 + 1 + (t1 - t0 - 1)]
    <3>1. h[second] = [order |-> Tail(second.order), waiting |-> second.waiting,
                       served |-> Other(second.served), tick |-> second.tick + (t1 - t0 - 1)]
      BY <2>6
    <3> HIDE DEF h, J
    <3> QED
      BY <2>1, <2>5, <2>7, <3>1
  <2>9. t0 + 1 + (t1 - t0 - 1) = t1
    BY <1>3, <1>4
  <2> HIDE DEF h, J
  <2> QED
    BY <1>4, <2>6, <2>8, <2>9
<1>13. /\ Loops(f, D, stop, base, step) /\ Loops(g, E, halt, end, next)
       /\ CountsDown(mu, J, stop, step) /\ J \in SUBSET D
  <2>1. /\ Loops(f, D, stop, base, step) /\ \A s \in D : mu[s] \in Nat
        /\ \A s \in D \ stop : mu[step[s]] < mu[s]
    BY RoundRobinLoops
  <2>2. Loops(g, E, halt, end, next)
    BY <1>2, RoundRobinLoops
  <2>3. J \in SUBSET D
    OBVIOUS
  <2> HIDE DEF f, g, D, E, J, stop, base, step, halt, end, next, mu
  <2> QED
    BY <1>10, <2>1, <2>2, <2>3 DEF CountsDown
<1>14. GoesAlong(h, J, stop, base, step, E, halt, end, next, R)
  <2>1. \A s \in J : h[s] \in E
    BY <1>7
  <2> HIDE DEF D, E, stop, base, step, halt, end, next, J, h, R
  <2> QED
    BY <1>8, <1>10, <1>11, <2>1 DEF GoesAlong
<1>15. <<f[second], g[first]>> \in R
  <2> HIDE DEF D, E, stop, base, step, halt, end, next, J, h, R, f, g, mu, second
  <2>1. <<f[second], g[h[second]]>> \in R
    <3>1. /\ Loops(f, D, stop, base, step) /\ Loops(g, E, halt, end, next)
      BY <1>13
    <3>2. CountsDown(mu, J, stop, step)
      BY <1>13
    <3>3. J \in SUBSET D /\ second \in J
      BY <1>12, <1>13
    <3> QED
      BY <1>14, <3>1, <3>2, <3>3, LoopsAgree
  <2> QED
    BY <1>12, <2>1
<1>16. PICK b \in Seq(C) : <<f[second], g[first]>> = <<<<x>> \o b, b>>
  <2> HIDE DEF f, g, first, second
  <2> QED
    BY <1>15
<1>17. f[start] = f[second] /\ b \in Seq(S)
  <2>1. f[start] = f[second]
    BY <1>3, RoundRobinUnfolds
  <2> QED
    BY <1>2, <2>1
<1>18. RoundRobin(m, S, sang) = f[start] /\ RoundRobin(m, C, later) = g[first]
  BY RoundRobinIsALoop DEF start, first
<1> HIDE DEF f, g, second
<1>19. RoundRobin(m, S, sang) = <<x>> \o b /\ RoundRobin(m, C, later) = b
  BY <1>16, <1>17, <1>18
<1> QED
  BY <1>1, <1>17, <1>19 DEF C
-----------------------------------------------------------------------------
(* getEffectiveOrder.                                                      *)

\* The order has each entry once, the sings as roundRobin has them.
LEMMA OrderKeeps ==
  ASSUME NEW m, NEW S, Numbered(S), NEW sang \in [GroupKeys -> Int],
         NEW cap, NEW run \in Nat
  PROVE  LET A == QueuedSings(S)
             x == RoundRobin(m, A, sang)
             o == GetEffectiveOrder(m, S, sang, cap, run)
         IN  /\ Numbered(A) /\ Enumerates(x, A) /\ Enumerates(o, S)
             /\ \A i, j \in DOMAIN o : i < j /\ o[i] \in A /\ o[j] \in A => Ahead(x, o[i], o[j])
<1> DEFINE A == QueuedSings(S)
           B == S \ A
           x == RoundRobin(m, A, sang)
           y == SortedBy(SubmittedBefore, B)
<1>1. A \in SUBSET S /\ B \in SUBSET S /\ A \cup B = S /\ A \cap B = {}
  BY DEF QueuedSings
<1> HIDE DEF A, B
<1>2. Numbered(A) /\ Numbered(B)
  <2>1. IsFiniteSet(A) /\ IsFiniteSet(B)
    BY <1>1, FS_Subset DEF Numbered
  <2> QED
    BY <1>1, <2>1 DEF Numbered
<1>3. Enumerates(x, A) /\ Enumerates(y, B)
  BY <1>2, RoundRobinKeeps, ListensInOrder
<1>4. GetEffectiveOrder(m, S, sang, cap, run) = MergeListens(x, y, cap, run)
  BY DEF GetEffectiveOrder, A, B
<1> HIDE DEF x, y
<1> DEFINE r == MergeListens(x, y, cap, run)
<1>5. /\ Enumerates(r, A \cup B)
      /\ \A i, j \in DOMAIN r : i < j /\ r[i] \in A /\ r[j] \in A => Ahead(x, r[i], r[j])
  BY <1>1, <1>3, MergeListensKeeps, Zenon
<1> HIDE DEF r
<1>6. /\ Numbered(A) /\ Enumerates(x, A) /\ Enumerates(r, S)
      /\ \A i, j \in DOMAIN r : i < j /\ r[i] \in A /\ r[j] \in A => Ahead(x, r[i], r[j])
  BY <1>1, <1>2, <1>3, <1>5
<1> QED
  BY <1>4, <1>6 DEF A, x, r

\* A listen that is first while a sing waits is within the cap, and a sing that is
\* first is the first of roundRobin.
HeadIsDue(m, S, sang, cap, run, h) ==
  /\ h.kind = "listen" /\ QueuedSings(S) # {} => MayListen(cap, run)
  /\ h.kind = "sing" => h = RoundRobin(m, QueuedSings(S), sang)[1]

\* Without its first entry, the order is that of the other entries: after a listen with
\* one more played, after a sing with the turn charged.
TailIsNext(m, S, sang, cap, run, o) ==
  /\ o[1].kind = "listen" => GetEffectiveOrder(m, S \ {o[1]}, sang, cap, run + 1) = Tail(o)
  /\ o[1].kind = "sing" =>
       \A later \in [GroupKeys -> Int] :
         TurnOf(m, QueuedSings(S), sang, o[1], later)
           => GetEffectiveOrder(m, S \ {o[1]}, later, cap, 0) = Tail(o)

LEMMA OrderUnfolds ==
  ASSUME NEW m, NEW S, Numbered(S), S # {}, NEW sang \in [GroupKeys -> Int],
         NEW cap, NEW run \in Nat
  PROVE  LET o == GetEffectiveOrder(m, S, sang, cap, run)
         IN  /\ o[1] \in S
             /\ HeadIsDue(m, S, sang, cap, run, o[1])
             /\ TailIsNext(m, S, sang, cap, run, o)
<1> DEFINE A == QueuedSings(S)
           B == S \ A
           x == RoundRobin(m, A, sang)
           y == SortedBy(SubmittedBefore, B)
           o == GetEffectiveOrder(m, S, sang, cap, run)
           h == o[1]
           Listened == GetEffectiveOrder(m, S \ {h}, sang, cap, run + 1)
           Sung(later) == GetEffectiveOrder(m, S \ {h}, later, cap, 0)
<1>1. /\ A \in SUBSET S /\ B \in SUBSET S /\ A \cup B = S /\ A \cap B = {}
      /\ \A e \in S : (e \in A <=> e.kind = "sing") /\ (e \in B <=> e.kind = "listen")
  BY DEF QueuedSings, Numbered, Entry, Kinds
<1>2. Enumerates(o, S) /\ Numbered(A) /\ Numbered(B)
  <2>1. Numbered(A) /\ Enumerates(o, S)
    BY OrderKeeps
  <2>2. IsFiniteSet(B)
    BY <1>1, FS_Subset DEF Numbered
  <2> HIDE DEF A, B
  <2> QED
    BY <1>1, <2>1, <2>2 DEF Numbered
<1>3. h \in S
  <2> HIDE DEF o
  <2> QED
    BY <1>2, EnumerationTail
<1>4. o = MergeListens(x, y, cap, run)
  BY DEF GetEffectiveOrder
<1>5. h.kind = "listen" => Listened = MergeListens(x, SortedBy(SubmittedBefore, B \ {h}), cap, run + 1)
  <2>1. h.kind = "listen" => QueuedSings(S \ {h}) = A /\ (S \ {h}) \ A = B \ {h}
    BY <1>1, <1>3 DEF QueuedSings
  <2> HIDE DEF A, B, h
  <2> QED
    BY <2>1 DEF GetEffectiveOrder
<1>6. ASSUME NEW later, h.kind = "sing"
      PROVE  Sung(later) = MergeListens(RoundRobin(m, A \ {h}, later), y, cap, 0)
  <2>1. QueuedSings(S \ {h}) = A \ {h} /\ (S \ {h}) \ (A \ {h}) = B
    BY <1>1, <1>3, <1>6 DEF QueuedSings
  <2> HIDE DEF A, B, h
  <2> QED
    BY <2>1 DEF GetEffectiveOrder
<1> HIDE DEF A, B, o, h, Listened, Sung
<1>7. Enumerates(x, A) /\ Enumerates(y, B)
  BY <1>2, RoundRobinKeeps, ListensInOrder
<1>8. A # {} => \A later \in [GroupKeys -> Int] : TurnOf(m, A, sang, x[1], later) =>
                  /\ x = <<x[1]>> \o RoundRobin(m, A \ {x[1]}, later)
                  /\ RoundRobin(m, A \ {x[1]}, later) \in Seq(A)
  BY <1>2, RoundRobinTail
<1>9. B # {} => SortedBy(SubmittedBefore, B \ {y[1]}) = Tail(y)
  BY <1>2, ListensTail
<1> HIDE DEF x, y
<1>10. /\ x \in Seq(A) /\ (x = <<>> <=> A = {}) /\ (A # {} => Head(x) = x[1] /\ x[1] \in A)
       /\ y \in Seq(B) /\ (y = <<>> <=> B = {}) /\ (B # {} => Head(y) = y[1] /\ y[1] \in B)
  <2>1. Range(<<>>) = {}
    BY DEF Range
  <2> QED
    BY <1>7, <2>1, EnumerationTail DEF Enumerates
<1>11. ASSUME NEW e, NEW z \in Seq(S) PROVE (<<e>> \o z)[1] = e /\ (e \in S => Tail(<<e>> \o z) = z)
  OBVIOUS
<1> DEFINE listened == SortedBy(SubmittedBefore, B \ {h})
           sung(later) == RoundRobin(m, A \ {h}, later)
           next == ListenNext(cap, <<<<>>, x, y, run>>)
<1>12. /\ x = <<>> => o = y
       /\ x # <<>> /\ y = <<>> => o = x
       /\ x # <<>> /\ y # <<>> /\ next =>
            /\ o = <<Head(y)>> \o MergeListens(x, Tail(y), cap, run + 1)
            /\ MergeListens(x, Tail(y), cap, run + 1) \in Seq(A \cup B)
       /\ x # <<>> /\ y # <<>> /\ ~next =>
            /\ o = <<Head(x)>> \o MergeListens(Tail(x), y, cap, 0)
            /\ MergeListens(Tail(x), y, cap, 0) \in Seq(A \cup B)
  <2>1. MergesNext(A, B, x, y, cap, run)
    BY <1>10, MergeListensUnfolds
  <2> QED
    BY <1>4, <2>1 DEF MergesNext
<1>13. ASSUME x = <<>> PROVE h \in B /\ A = {} /\ Listened = Tail(o)
  <2>1. A = {} /\ B # {} /\ o = y /\ h = y[1] /\ h \in B
    BY <1>1, <1>10, <1>12, <1>13 DEF h
  <2>2. Listened = MergeListens(<<>>, Tail(y), cap, run + 1)
    BY <1>1, <1>5, <1>9, <1>13, <2>1
  <2>3. Tail(y) \in Seq(B) /\ <<>> \in Seq(A) /\ run + 1 \in Nat
    BY <1>10, <2>1
  <2>4. MergeListens(<<>>, Tail(y), cap, run + 1) = Tail(y)
    <3>1. MergesNext(A, B, <<>>, Tail(y), cap, run + 1)
      BY <2>3, MergeListensUnfolds
    <3> QED
      BY <3>1 DEF MergesNext
  <2> QED
    BY <2>1, <2>2, <2>4
<1>14. ASSUME x # <<>>, y = <<>>
       PROVE  /\ h \in A /\ h = x[1]
              /\ \A later \in [GroupKeys -> Int] : TurnOf(m, A, sang, h, later) => Sung(later) = Tail(o)
  <2>1. A # {} /\ B = {} /\ o = x /\ h = x[1] /\ h \in A /\ h.kind = "sing"
    BY <1>1, <1>10, <1>12, <1>14 DEF h
  <2> SUFFICES ASSUME NEW later \in [GroupKeys -> Int], TurnOf(m, A, sang, h, later)
               PROVE  Sung(later) = Tail(o)
    BY <2>1
  <2> DEFINE z == RoundRobin(m, A \ {h}, later)
  <2>2. x = <<h>> \o z /\ z \in Seq(A)
    BY <1>8, <2>1
  <2>3. Sung(later) = MergeListens(z, <<>>, cap, 0)
    BY <1>6, <1>14, <2>1
  <2> HIDE DEF z
  <2>4. MergeListens(z, <<>>, cap, 0) = z
    <3>1. <<>> \in Seq(B) /\ 0 \in Nat
      OBVIOUS
    <3>2. MergesNext(A, B, z, <<>>, cap, 0)
      BY <2>2, <3>1, MergeListensUnfolds
    <3> QED
      BY <3>2 DEF MergesNext
  <2>5. Tail(o) = z
    <3>1. z \in Seq(S)
      BY <1>1, <2>2
    <3> QED
      BY <1>3, <1>11, <2>1, <2>2, <3>1
  <2> QED
    BY <2>3, <2>4, <2>5
<1>15. ASSUME x # <<>>, y # <<>>, next PROVE h \in B /\ MayListen(cap, run) /\ Listened = Tail(o)
  <2> DEFINE r == MergeListens(x, Tail(y), cap, run + 1)
  <2>1. o = <<Head(y)>> \o r /\ r \in Seq(A \cup B) /\ B # {} /\ Head(y) = y[1] /\ y[1] \in B
    BY <1>10, <1>12, <1>15
  <2>2. MayListen(cap, run)
    <3>1. <<<<>>, x, y, run>>[4] = run
      OBVIOUS
    <3> QED
      BY <1>15, <3>1 DEF ListenNext
  <2>3. r \in Seq(S)
    <3> HIDE DEF r
    <3> QED
      BY <1>1, <2>1
  <2>4. h = y[1] /\ Tail(o) = r
    <3> HIDE DEF r
    <3> QED
      BY <1>1, <1>11, <2>1, <2>3 DEF h
  <2>5. Listened = r
    BY <1>1, <1>3, <1>5, <1>9, <2>1, <2>4
  <2> QED
    BY <2>1, <2>2, <2>4, <2>5
<1>16. ASSUME x # <<>>, y # <<>>, ~next
       PROVE  /\ h \in A /\ h = x[1]
              /\ \A later \in [GroupKeys -> Int] : TurnOf(m, A, sang, h, later) => Sung(later) = Tail(o)
  <2> DEFINE r == MergeListens(Tail(x), y, cap, 0)
  <2>1. o = <<Head(x)>> \o r /\ r \in Seq(A \cup B) /\ A # {} /\ Head(x) = x[1] /\ x[1] \in A
    BY <1>10, <1>12, <1>16
  <2>2. r \in Seq(S)
    <3> HIDE DEF r
    <3> QED
      BY <1>1, <2>1
  <2>3. h = x[1] /\ Tail(o) = r /\ h \in A /\ h.kind = "sing"
    <3> HIDE DEF r
    <3> QED
      BY <1>1, <1>11, <2>1, <2>2 DEF h
  <2> SUFFICES ASSUME NEW later \in [GroupKeys -> Int], TurnOf(m, A, sang, h, later)
               PROVE  Sung(later) = Tail(o)
    BY <2>3
  <2> DEFINE z == RoundRobin(m, A \ {h}, later)
  <2>4. x = <<h>> \o z /\ z \in Seq(A)
    BY <1>8, <2>1, <2>3
  <2>5. Sung(later) = MergeListens(z, y, cap, 0)
    BY <1>6, <2>3
  <2>6. z = Tail(x)
    <3> HIDE DEF z
    <3>1. z \in Seq(S)
      BY <1>1, <2>4
    <3> QED
      BY <1>3, <1>11, <2>4, <3>1
  <2> QED
    BY <2>3, <2>5, <2>6
<1>17. HeadIsDue(m, S, sang, cap, run, h)
  <2>1. (h \in B => A = {} \/ MayListen(cap, run)) /\ (h \in A => h = x[1])
    BY <1>1, <1>13, <1>14, <1>15, <1>16
  <2> QED
    BY <1>1, <1>3, <2>1 DEF HeadIsDue, A, x
<1>18. TailIsNext(m, S, sang, cap, run, o)
  <2>1. /\ h \in B => Listened = Tail(o)
        /\ h \in A => \A later \in [GroupKeys -> Int] :
                        TurnOf(m, A, sang, h, later) => Sung(later) = Tail(o)
    <3> HIDE DEF next
    <3> QED
      BY <1>1, <1>13, <1>14, <1>15, <1>16
  <2>2. (h \in A <=> h.kind = "sing") /\ (h \in B <=> h.kind = "listen")
    BY <1>1, <1>3
  <2> HIDE DEF TurnOf
  <2> QED
    BY <2>1, <2>2 DEF TailIsNext, A, h, Listened, Sung
<1> QED
  BY <1>3, <1>17, <1>18 DEF o, h
-----------------------------------------------------------------------------
(* The types, and what every step of the engine keeps.                     *)

\* Whatever has been counted was an entry that is gone, and a listen that was played
\* past a singer was played in a row.
EntriesAreCounted ==
  /\ IsFiniteSet(entries)
  /\ singClock + Cardinality(entries) <= nextSeq
  /\ consecutiveListen + Cardinality(entries) <= nextSeq
  /\ \A u \in Participants : noShowStreak[u] + Cardinality(entries) <= nextSeq
  /\ listenRun <= consecutiveListen

TypeInv == TypeOK /\ EntriesAreCounted

\* The entries that the ordering lemmas are about are those of the state.
LEMMA StateIsNumbered ==
  ASSUME TypeInv
  PROVE  /\ Numbered(entries) /\ Numbered(QueuedSings(entries))
         /\ lastSang \in [GroupKeys -> Int] /\ consecutiveListen \in Nat /\ singClock \in Nat
         /\ \A k \in GroupKeys : lastSang[k] <= singClock
         /\ \A e \in entries : e \in Entry /\ GroupKey(venueMode, e) \in GroupKeys
         /\ entries # {} => Order[1] \in entries
<1>1. /\ Numbered(entries) /\ lastSang \in [GroupKeys -> Int] /\ singClock \in Nat
      /\ consecutiveListen \in Nat /\ \A k \in GroupKeys : lastSang[k] <= singClock
      /\ \A e \in entries : e \in Entry
  BY DEF TypeInv, TypeOK, EntriesAreCounted, Numbered
<1>2. Numbered(QueuedSings(entries))
  <2>1. QueuedSings(entries) \in SUBSET entries
    BY DEF QueuedSings
  <2> QED
    BY <1>1, <2>1, FS_Subset DEF Numbered
<1>3. entries # {} => Order[1] \in entries
  BY <1>1, OrderUnfolds DEF Order
<1> QED
  BY <1>1, <1>2, <1>3, KeysAreKeys

\* An entry that leaves.
Leaves(e) == e \in entries /\ entries' = entries \ {e} /\ nextSeq' = nextSeq /\ venueMode' = venueMode

\* A charge moves the clock, and the entry's person and table to it.
LEMMA ChargeIs ==
  ASSUME TypeInv, NEW e, Charge(e)
  PROVE  /\ singClock' = singClock + 1
         /\ lastSang' \in [GroupKeys -> -1..singClock']
         /\ \A k \in GroupKeys :
              lastSang'[k] = IF k = PersonKey(e) \/ k = TableBucket(e) THEN singClock + 1
                             ELSE lastSang[k]
<1>1. singClock \in Nat /\ lastSang \in [GroupKeys -> -1..singClock]
  BY DEF TypeInv, TypeOK
<1>2. /\ singClock' = singClock + 1
      /\ lastSang' = [lastSang EXCEPT ![PersonKey(e)] = singClock + 1,
                                      ![TableBucket(e)] = singClock + 1]
  BY DEF Charge
<1> DEFINE a == PersonKey(e)
           b == TableBucket(e)
           n == singClock + 1
           f == [k \in GroupKeys |-> IF k = a \/ k = b THEN n ELSE lastSang[k]]
<1>3. lastSang' = f
  <2> HIDE DEF a, b, n
  <2>1. [lastSang EXCEPT ![a] = n, ![b] = n] = f
    BY <1>1
  <2> QED
    BY <1>2, <2>1 DEF a, b, n
<1>4. f \in [GroupKeys -> -1..n]
  <2>1. \A k \in GroupKeys : lastSang[k] \in -1..n /\ n \in -1..n
    BY <1>1
  <2> HIDE DEF n, a, b
  <2> QED
    BY <2>1
<1>5. \A k \in GroupKeys : f[k] = IF k = a \/ k = b THEN n ELSE lastSang[k]
  OBVIOUS
<1> HIDE DEF f
<1> QED
  BY <1>2, <1>3, <1>4, <1>5

LEMMA CounterFits ==
  ASSUME NEW N \in Nat, NEW M \in Nat, N <= M, NEW size \in Nat, size > 0,
         NEW c \in Nat, c + size <= N, NEW d \in {0, c, c + 1}
  PROVE  d \in 0..M /\ d + (size - 1) <= N
OBVIOUS

ListensCount ==
  /\ consecutiveListen' \in {0, consecutiveListen, consecutiveListen + 1}
  /\ \/ listenRun' = 0
     \/ listenRun' = listenRun /\ consecutiveListen' \in {consecutiveListen, consecutiveListen + 1}
     \/ listenRun' = listenRun + 1 /\ consecutiveListen' = consecutiveListen + 1

\* When an entry leaves, each counter goes up by one at most.
LEMMA LeavingKeepsTypes ==
  ASSUME TypeInv, NEW e, Leaves(e),
         (singClock' = singClock /\ lastSang' = lastSang) \/ Charge(e),
         ListensCount,
         NEW n \in {0, noShowStreak[e.uuid], noShowStreak[e.uuid] + 1},
         noShowStreak' = [noShowStreak EXCEPT ![e.uuid] = n],
         granted' \subseteq Entry, passed' \in [GroupKeys -> SUBSET GroupKeys]
  PROVE  TypeInv'
<1> DEFINE size == Cardinality(entries)
           left == Cardinality(entries')
           u == e.uuid
<1>1. /\ venueMode' \in VenueModes /\ nextSeq' = nextSeq /\ nextSeq \in 0..MaxSeq
      /\ entries' \subseteq Entry /\ \A f \in entries' : f.seq < nextSeq'
      /\ \A f, g \in entries' : f.seq = g.seq => f = g
      /\ e \in Entry /\ u \in Participants
  BY DEF TypeInv, TypeOK, Leaves, Entry
<1>2. IsFiniteSet(entries') /\ left = size - 1 /\ size \in Nat \ {0} /\ left \in Nat
  <2>1. IsFiniteSet(entries) /\ e \in entries /\ entries' = entries \ {e}
    BY DEF TypeInv, EntriesAreCounted, Leaves
  <2>2. IsFiniteSet(entries') /\ left = size - 1 /\ size \in Nat /\ left \in Nat
    BY <2>1, FS_RemoveElement, FS_CardinalityType, Zenon
  <2> HIDE DEF size, left
  <2> QED
    BY <2>2
<1>3. /\ singClock \in Nat /\ singClock + size <= nextSeq
      /\ consecutiveListen \in Nat /\ consecutiveListen + size <= nextSeq
      /\ noShowStreak \in [Participants -> 0..MaxSeq]
      /\ \A v \in Participants : noShowStreak[v] + size <= nextSeq
      /\ listenRun \in Nat /\ listenRun <= consecutiveListen
      /\ MaxSeq \in Nat /\ nextSeq \in Nat /\ nextSeq <= MaxSeq
  BY MaxSeqAssumption DEF TypeInv, TypeOK, EntriesAreCounted
<1> HIDE DEF size, left, u
<1>4. /\ singClock' \in {singClock, singClock + 1}
      /\ lastSang' \in [GroupKeys -> -1..singClock']
  <2>1. lastSang \in [GroupKeys -> -1..singClock]
    BY DEF TypeInv, TypeOK
  <2> QED
    BY <2>1, ChargeIs
<1>5. ASSUME NEW c \in Nat, c + size <= nextSeq, NEW d \in {0, c, c + 1}
      PROVE  d \in 0..MaxSeq /\ d + left <= nextSeq'
  <2>1. d \in 0..MaxSeq /\ d + (size - 1) <= nextSeq
    BY <1>2, <1>3, <1>5, CounterFits
  <2> QED
    BY <1>1, <1>2, <2>1
<1>6. /\ singClock' \in 0..MaxSeq /\ singClock' + left <= nextSeq'
      /\ consecutiveListen' \in 0..MaxSeq /\ consecutiveListen' + left <= nextSeq'
      /\ listenRun' \in 0..MaxSeq /\ listenRun' <= consecutiveListen'
  <2>1. singClock' \in {0, singClock, singClock + 1}
    BY <1>4
  <2>2. /\ singClock' \in 0..MaxSeq /\ singClock' + left <= nextSeq'
        /\ consecutiveListen' \in 0..MaxSeq /\ consecutiveListen' + left <= nextSeq'
    BY <1>3, <1>5, <2>1 DEF ListensCount
  <2> DEFINE c == consecutiveListen
             d == consecutiveListen'
             l == listenRun
             r == listenRun'
  <2>3. /\ c \in Nat /\ l \in Nat /\ l <= c /\ d \in 0..MaxSeq /\ MaxSeq \in Nat
        /\ r = 0 \/ (r = l /\ d \in {c, c + 1}) \/ (r = l + 1 /\ d = c + 1)
    BY <1>3, <2>2 DEF ListensCount
  <2> HIDE DEF c, d, l, r
  <2>4. r \in 0..MaxSeq /\ r <= d
    BY <2>3
  <2> QED
    BY <2>2, <2>4 DEF r, d
<1>7. /\ noShowStreak' \in [Participants -> 0..MaxSeq]
      /\ \A v \in Participants : noShowStreak'[v] + left <= nextSeq'
  <2>1. n \in 0..MaxSeq /\ n + left <= nextSeq
    BY <1>1, <1>2, <1>3 DEF u
  <2>2. noShowStreak' = [noShowStreak EXCEPT ![u] = n]
    BY DEF u
  <2>3. \A v \in Participants : noShowStreak'[v] = IF v = u THEN n ELSE noShowStreak[v]
    BY <1>3, <2>2
  <2>4. noShowStreak' \in [Participants -> 0..MaxSeq]
    BY <1>3, <2>1, <2>2
  <2>5. ASSUME NEW v \in Participants PROVE noShowStreak'[v] + left <= nextSeq'
    BY <1>1, <1>2, <1>3, <2>1, <2>3
  <2> QED
    BY <2>4, <2>5
<1>8. TypeOK'
  BY <1>1, <1>4, <1>6, <1>7 DEF TypeOK
<1>9. EntriesAreCounted'
  BY <1>2, <1>6, <1>7 DEF EntriesAreCounted, left
<1> QED
  BY <1>8, <1>9 DEF TypeInv

\* A new entry takes the number that was next.
Typed(x) ==
  /\ x.uuid \in Participants /\ x.table \in Tables \cup {NoTable} /\ x.video \in Videos
  /\ x.kind \in Kinds /\ x.grace \in BOOLEAN

LEMMA AddingKeepsTypes ==
  ASSUME TypeInv, NEW x, Typed(x), AddEntry(x), granted' \subseteq Entry,
         passed' \in [GroupKeys -> SUBSET GroupKeys], listenRun' \in {0, listenRun}
  PROVE  /\ TypeInv'
         /\ EntryOf(nextSeq, x) \in entries' /\ EntryOf(nextSeq, x) \notin entries
<1> DEFINE new == EntryOf(nextSeq, x)
           size == Cardinality(entries)
<1>1. /\ nextSeq \in Nat /\ nextSeq < MaxSeq /\ MaxSeq \in Nat
      /\ entries' = entries \cup {new} /\ nextSeq' = nextSeq + 1
      /\ UNCHANGED <<venueMode, singClock, lastSang, consecutiveListen, noShowStreak>>
  BY MaxSeqAssumption DEF AddEntry, TypeInv, TypeOK
<1>2. new \in Entry /\ new.seq = nextSeq
  <2>1. nextSeq \in 0..(MaxSeq - 1)
    BY <1>1
  <2> QED
    BY <2>1 DEF EntryOf, Entry, Typed
<1> HIDE DEF new
<1>3. /\ entries \subseteq Entry /\ \A e \in entries : e.seq < nextSeq /\ e.seq \in Int
      /\ \A e, f \in entries : e.seq = f.seq => e = f
      /\ venueMode \in VenueModes /\ singClock \in 0..MaxSeq
      /\ lastSang \in [GroupKeys -> -1..singClock] /\ consecutiveListen \in 0..MaxSeq
      /\ noShowStreak \in [Participants -> 0..MaxSeq] /\ listenRun \in 0..MaxSeq
      /\ listenRun <= consecutiveListen
      /\ IsFiniteSet(entries) /\ singClock + size <= nextSeq
      /\ consecutiveListen + size <= nextSeq
      /\ \A u \in Participants : noShowStreak[u] + size <= nextSeq
  BY DEF TypeInv, TypeOK, EntriesAreCounted, Entry
<1>4. new \notin entries
  BY <1>1, <1>2, <1>3
<1>5. IsFiniteSet(entries') /\ Cardinality(entries') = size + 1 /\ size \in Nat
  BY <1>1, <1>3, <1>4, FS_AddElement, FS_CardinalityType
<1> HIDE DEF size
<1>6. /\ entries' \subseteq Entry /\ \A e, f \in entries' : e.seq = f.seq => e = f
      /\ \A e \in entries' : e.seq < nextSeq'
  <2>1. \A e \in entries : e.seq # new.seq /\ e.seq < nextSeq + 1
    BY <1>1, <1>2, <1>3
  <2>2. new.seq < nextSeq + 1
    BY <1>1, <1>2
  <2> QED
    BY <1>1, <1>2, <1>3, <2>1, <2>2
<1>7. TypeOK'
  <2>1. nextSeq' \in 0..MaxSeq /\ listenRun' \in 0..MaxSeq
    BY <1>1, <1>3
  <2> QED
    BY <1>1, <1>3, <1>6, <2>1 DEF TypeOK
<1>8. EntriesAreCounted'
  <2>1. \A c \in Nat : c + size <= nextSeq => c + (size + 1) <= nextSeq + 1
    BY <1>1, <1>5
  <2>2. /\ singClock \in Nat /\ consecutiveListen \in Nat
        /\ \A u \in Participants : noShowStreak[u] \in Nat
        /\ 0 <= consecutiveListen
    BY <1>1, <1>3
  <2> QED
    BY <1>1, <1>3, <1>5, <2>1, <2>2 DEF EntriesAreCounted
<1> QED
  BY <1>1, <1>4, <1>7, <1>8 DEF TypeInv, new

LEMMA PassingKeepsTypes ==
  ASSUME TypeInv, NEW Served \in SUBSET GroupKeys, NotePassed(Served)
  PROVE  passed' \in [GroupKeys -> SUBSET GroupKeys]
BY DEF TypeInv, TypeOK, NotePassed

LEMMA InitTypes == Init => TypeInv
<1> SUFFICES ASSUME Init PROVE TypeInv
  OBVIOUS
<1>1. Cardinality({}) = 0 /\ IsFiniteSet({})
  BY FS_EmptySet
<1>2. MaxSeq \in Nat
  BY MaxSeqAssumption
<1> QED
  BY <1>1, <1>2 DEF Init, TypeInv, TypeOK, EntriesAreCounted, NeverSang

\* What a skip, a play and a removal have in common.
LEMMA SkipKeepsTypes ==
  ASSUME TypeInv, NEW e \in entries, SkipEntry(e)
  PROVE  TypeInv' /\ Leaves(e)
<1>1. /\ Leaves(e) /\ ListensCount
      /\ e \in Entry /\ noShowStreak \in [Participants -> 0..MaxSeq]
  BY DEF SkipEntry, Leaves, ListensCount, NoteListen, TypeInv, TypeOK
<1>2. {} \in SUBSET GroupKeys /\ {GroupKey(venueMode, e)} \in SUBSET GroupKeys
  BY <1>1, KeysAreKeys
<1>3. passed' \in [GroupKeys -> SUBSET GroupKeys]
  BY <1>2, PassingKeepsTypes DEF SkipEntry
<1>4. granted' \subseteq Entry
  BY <1>1 DEF SkipEntry
<1>5. (singClock' = singClock /\ lastSang' = lastSang) \/ Charge(e)
  BY DEF SkipEntry
<1>6. PICK n \in {noShowStreak[e.uuid], noShowStreak[e.uuid] + 1} :
        noShowStreak' = [noShowStreak EXCEPT ![e.uuid] = n]
  BY <1>1 DEF SkipEntry
<1>7. TypeInv'
  BY <1>1, <1>3, <1>4, <1>5, <1>6, LeavingKeepsTypes
<1> QED
  BY <1>1, <1>7

LEMMA PlayKeepsTypes ==
  ASSUME TypeInv, Advance
  PROVE  TypeInv' /\ Leaves(Order[1])
<1>1. PICK e \in entries : e = Order[1]
  BY StateIsNumbered DEF Advance
<1>2. /\ Consume(e) /\ UNCHANGED <<venueMode, nextSeq, granted>> /\ NoteListen(e.kind)
      /\ NotePassed(IF e.kind = "sing" THEN {GroupKey(venueMode, e)} ELSE {})
      /\ e \in Entry
  BY <1>1, StateIsNumbered DEF Advance
<1>3. Leaves(e) /\ granted' \subseteq Entry /\ noShowStreak \in [Participants -> 0..MaxSeq]
  BY <1>1, <1>2 DEF Consume, Leaves, TypeInv, TypeOK
<1>4. passed' \in [GroupKeys -> SUBSET GroupKeys]
  BY <1>2, KeysAreKeys, PassingKeepsTypes
<1>5. PICK n \in {0, noShowStreak[e.uuid], noShowStreak[e.uuid] + 1} :
        noShowStreak' = [noShowStreak EXCEPT ![e.uuid] = n]
  BY <1>2, <1>3 DEF Consume
<1>6. (singClock' = singClock /\ lastSang' = lastSang) \/ Charge(e)
  BY <1>2 DEF Consume
<1>7. ListensCount
  BY <1>2 DEF Consume, NoteListen, ListensCount
<1>8. TypeInv'
  BY <1>3, <1>4, <1>5, <1>6, <1>7, LeavingKeepsTypes
<1> QED
  BY <1>1, <1>3, <1>8

LEMMA NextKeepsTypes == TypeInv /\ [Next]_vars => TypeInv'
<1> SUFFICES ASSUME TypeInv, [Next]_vars PROVE TypeInv'
  OBVIOUS
<1>1. CASE UNCHANGED vars
  BY <1>1 DEF vars, TypeInv, TypeOK, EntriesAreCounted
<1>2. {} \in SUBSET GroupKeys
  OBVIOUS
<1>3. CASE Submit
  <2>1. PICK x \in Input : AddEntry(x)
    BY <1>3 DEF Submit
  <2>2. Typed(x) /\ granted' \subseteq Entry /\ listenRun' \in {0, listenRun}
        /\ NotePassed({})
    BY <1>3 DEF Submit, Typed, Input, NoteListen, TypeInv, TypeOK
  <2> QED
    BY <1>2, <2>1, <2>2, AddingKeepsTypes, PassingKeepsTypes
<1>4. CASE GraceRequeue
  <2>1. PICK e \in granted : AddEntry([e EXCEPT !.grace = TRUE])
    BY <1>4 DEF GraceRequeue
  <2> DEFINE x == [e EXCEPT !.grace = TRUE]
  <2>2. Typed(x)
    BY DEF Typed, Entry, TypeInv, TypeOK
  <2> HIDE DEF x
  <2>3. granted' \subseteq Entry /\ listenRun' \in {0, listenRun} /\ NotePassed({})
    BY <1>4 DEF GraceRequeue, NoteListen
  <2> QED
    BY <1>2, <2>1, <2>2, <2>3, AddingKeepsTypes, PassingKeepsTypes DEF x
<1>5. CASE Advance
  BY <1>5, PlayKeepsTypes
<1>6. CASE Skip
  <2>1. Order[1] \in entries /\ SkipEntry(Order[1])
    BY <1>6, StateIsNumbered DEF Skip
  <2> QED
    BY <2>1, SkipKeepsTypes
<1>7. CASE SkipById
  BY <1>7, SkipKeepsTypes DEF SkipById
<1>8. CASE RemoveEntry
  <2>1. PICK e \in entries : entries' = entries \ {e}
    BY <1>8 DEF RemoveEntry
  <2>2. /\ UNCHANGED <<venueMode, nextSeq, singClock, lastSang, consecutiveListen,
                       noShowStreak, granted>>
        /\ NotePassed({}) /\ listenRun' \in {0, listenRun}
    BY <1>8 DEF RemoveEntry, NoteListen
  <2>3. /\ Leaves(e) /\ granted' \subseteq Entry
        /\ noShowStreak' = [noShowStreak EXCEPT ![e.uuid] = noShowStreak[e.uuid]]
    BY <2>1, <2>2 DEF Leaves, TypeInv, TypeOK
  <2> QED
    <3>1. /\ passed' \in [GroupKeys -> SUBSET GroupKeys]
          /\ ListensCount /\ singClock' = singClock /\ lastSang' = lastSang
      BY <1>2, <2>2, PassingKeepsTypes DEF ListensCount
    <3> QED
      BY <2>3, <3>1, LeavingKeepsTypes
<1>9. CASE MoveEntryToTable
  <2>1. PICK e \in entries, t \in Tables \cup {NoTable} :
          entries' = (entries \ {e}) \cup {[e EXCEPT !.table = t]}
    BY <1>9 DEF MoveEntryToTable
  <2> DEFINE f == [e EXCEPT !.table = t]
             rest == entries \ {e}
  <2>2. /\ UNCHANGED <<venueMode, nextSeq, singClock, lastSang, consecutiveListen,
                       noShowStreak, granted>>
        /\ NotePassed({}) /\ listenRun' \in {0, listenRun}
    BY <1>9 DEF MoveEntryToTable, NoteListen
  <2>3. f \in Entry /\ f.seq = e.seq
    BY DEF TypeInv, TypeOK, Entry
  <2>4. f \notin rest /\ entries' = rest \cup {f}
    BY <2>1, <2>3 DEF TypeInv, TypeOK
  <2> HIDE DEF f
  <2>5. IsFiniteSet(entries') /\ Cardinality(entries') = Cardinality(entries)
    <3>1. IsFiniteSet(rest) /\ Cardinality(rest) = Cardinality(entries) - 1
          /\ Cardinality(entries) \in Nat
      BY FS_RemoveElement, FS_CardinalityType DEF TypeInv, EntriesAreCounted
    <3> HIDE DEF rest
    <3>2. IsFiniteSet(rest \cup {f}) /\ Cardinality(rest \cup {f}) = Cardinality(rest) + 1
      BY <2>4, <3>1, FS_AddElement
    <3> QED
      BY <2>4, <3>1, <3>2
  <2>6. /\ entries' \subseteq Entry /\ \A g \in entries' : g.seq < nextSeq
        /\ \A g, h \in entries' : g.seq = h.seq => g = h
    BY <2>3, <2>4 DEF TypeInv, TypeOK
  <2>7. /\ passed' \in [GroupKeys -> SUBSET GroupKeys]
        /\ listenRun' \in 0..listenRun /\ listenRun' \in 0..MaxSeq
    <3>1. listenRun \in 0..MaxSeq /\ MaxSeq \in Nat
      BY MaxSeqAssumption DEF TypeInv, TypeOK
    <3>2. passed' \in [GroupKeys -> SUBSET GroupKeys]
      BY <1>2, <2>2, PassingKeepsTypes
    <3>3. listenRun' \in 0..listenRun /\ listenRun' \in 0..MaxSeq
      <4> DEFINE r == listenRun
                 q == listenRun'
      <4>1. r \in 0..MaxSeq /\ q \in {0, r}
        BY <2>2, <3>1
      <4> HIDE DEF r, q
      <4>2. q \in 0..r /\ q \in 0..MaxSeq
        BY <3>1, <4>1
      <4> QED
        BY <4>2 DEF r, q
    <3> QED
      BY <3>2, <3>3
  <2>8. TypeOK'
    BY <2>2, <2>6, <2>7 DEF TypeInv, TypeOK
  <2>9. EntriesAreCounted'
    BY <2>2, <2>5, <2>7 DEF TypeInv, TypeOK, EntriesAreCounted
  <2> QED
    BY <2>8, <2>9 DEF TypeInv
<1>10. CASE SetVenueMode
  BY <1>10, PassingKeepsTypes DEF SetVenueMode, TypeInv, TypeOK, EntriesAreCounted
<1> QED
  BY <1>1, <1>3, <1>4, <1>5, <1>6, <1>7, <1>8, <1>9, <1>10 DEF Next

LEMMA TypesHold == Spec => []TypeInv
  BY InitTypes, NextKeepsTypes, PTL DEF Spec
-----------------------------------------------------------------------------
(* The announced order.                                                    *)

\* Sings stand in the order as they do in roundRobin's list.
SameOrder(o, x) ==
  \A i, j \in DOMAIN o : \A p, q \in DOMAIN x :
    o[i] = x[p] /\ o[j] = x[q] => (i < j <=> p < q)

LEMMA SingsInOrder ==
  ASSUME NEW m, NEW S, Numbered(S), NEW sang \in [GroupKeys -> Int], NEW cap, NEW run \in Nat
  PROVE  SameOrder(GetEffectiveOrder(m, S, sang, cap, run),
                   RoundRobin(m, QueuedSings(S), sang))
<1> DEFINE A == QueuedSings(S)
           x == RoundRobin(m, A, sang)
           o == GetEffectiveOrder(m, S, sang, cap, run)
<1>1. /\ Enumerates(x, A) /\ Enumerates(o, S)
      /\ \A i, j \in DOMAIN o : i < j /\ o[i] \in A /\ o[j] \in A => Ahead(x, o[i], o[j])
  BY OrderKeeps
<1> HIDE DEF A, x, o
<1>2. /\ DOMAIN x = 1..Len(x) /\ Len(x) \in Nat /\ \A p \in DOMAIN x : x[p] \in A
      /\ \A p, q \in DOMAIN x : x[p] = x[q] => p = q
      /\ DOMAIN o = 1..Len(o) /\ Len(o) \in Nat
      /\ \A i, j \in DOMAIN o : o[i] = o[j] => i = j
  BY <1>1, EnumerationSize
<1>3. ASSUME NEW i \in DOMAIN o, NEW j \in DOMAIN o, NEW p \in DOMAIN x, NEW q \in DOMAIN x,
             o[i] = x[p], o[j] = x[q], i < j
      PROVE  p < q
  <2>1. Ahead(x, o[i], o[j])
    BY <1>1, <1>2, <1>3
  <2>2. PICK a \in DOMAIN x, b \in DOMAIN x : a < b /\ o[i] = x[a] /\ o[j] = x[b]
    BY <2>1 DEF Ahead
  <2>3. a = p /\ b = q
    BY <1>2, <1>3, <2>2
  <2> QED
    BY <2>2, <2>3
<1>4. ASSUME NEW i \in DOMAIN o, NEW j \in DOMAIN o, NEW p \in DOMAIN x, NEW q \in DOMAIN x,
             o[i] = x[p], o[j] = x[q], p < q
      PROVE  i < j
  <2>1. i # j
    BY <1>2, <1>4
  <2>2. ~(j < i)
    BY <1>2, <1>3, <1>4
  <2> QED
    BY <1>2, <2>1, <2>2
<1>5. SameOrder(o, x)
  BY <1>3, <1>4 DEF SameOrder
<1> QED
  BY <1>5 DEF o, x, A

\* What holds of roundRobin's list holds of the announced order: a group with less credit
\* spent has a sing before any of a group with more, and turns are in order.
SungBefore(m, A, sang, o) ==
  \A j \in DOMAIN o : \A f \in A :
    o[j] \in A /\ sang[GroupKey(m, f)] < sang[GroupKey(m, o[j])]
      => \E i \in DOMAIN o : i < j /\ o[i] \in A /\ GroupKey(m, o[i]) = GroupKey(m, f)
TurnsInOrder(m, A, sang, o) ==
  \A i, j \in DOMAIN o : o[i] \in A /\ o[j] \in A /\ EarlierTurn(m, A, sang, o[i], o[j]) => i < j

LEMMA OrderOfTurns ==
  ASSUME NEW m, NEW S, Numbered(S), NEW sang \in [GroupKeys -> Int], NEW cap, NEW run \in Nat
  PROVE  LET A == QueuedSings(S)
             o == GetEffectiveOrder(m, S, sang, cap, run)
         IN  SungBefore(m, A, sang, o) /\ TurnsInOrder(m, A, sang, o)
<1> DEFINE A == QueuedSings(S)
           x == RoundRobin(m, A, sang)
           o == GetEffectiveOrder(m, S, sang, cap, run)
<1>1. Numbered(A) /\ Enumerates(x, A) /\ Enumerates(o, S) /\ SameOrder(o, x) /\ A \subseteq S
  BY OrderKeeps, SingsInOrder DEF QueuedSings
<1> HIDE DEF A
<1>2. CreditFirst(m, sang, x, A) /\ InTurns(m, A, sang, x)
  BY <1>1, RoundRobinCredit, RoundRobinTurns
<1> HIDE DEF x, o
<1>3. /\ DOMAIN x = 1..Len(x) /\ Len(x) \in Nat /\ \A p \in DOMAIN x : x[p] \in A
      /\ \A e \in A : \E p \in DOMAIN x : x[p] = e
      /\ DOMAIN o = 1..Len(o) /\ Len(o) \in Nat
      /\ \A e \in A : \E i \in DOMAIN o : o[i] = e
  <2>1. /\ DOMAIN x = 1..Len(x) /\ Len(x) \in Nat /\ \A p \in 1..Len(x) : x[p] \in A
        /\ \A e \in A : \E p \in 1..Len(x) : x[p] = e
    <3>1. Enumerates(x, A)
      BY <1>1
    <3> QED
      BY <3>1, EnumerationSize, Zenon
  <2>2. DOMAIN o = 1..Len(o) /\ Len(o) \in Nat /\ \A e \in S : \E i \in 1..Len(o) : o[i] = e
    <3>1. Enumerates(o, S)
      BY <1>1
    <3> QED
      BY <3>1, EnumerationSize, Zenon
  <2> QED
    BY <1>1, <2>1, <2>2
<1>4. ASSUME NEW j \in DOMAIN o, NEW f \in A, o[j] \in A,
             sang[GroupKey(m, f)] < sang[GroupKey(m, o[j])]
      PROVE  \E i \in DOMAIN o : i < j /\ o[i] \in A /\ GroupKey(m, o[i]) = GroupKey(m, f)
  <2>1. PICK p \in DOMAIN x : x[p] = o[j]
    BY <1>3, <1>4
  <2>2. PICK q \in 1..(p - 1) : GroupKey(m, x[q]) = GroupKey(m, f)
    BY <1>2, <1>4, <2>1 DEF CreditFirst
  <2>3. q \in DOMAIN x /\ q < p
    BY <1>3, <2>2
  <2>4. PICK i \in DOMAIN o : o[i] = x[q]
    BY <1>3, <2>3
  <2>5. i < j
    BY <1>1, <2>1, <2>3, <2>4 DEF SameOrder
  <2> QED
    BY <1>3, <2>2, <2>3, <2>4, <2>5
<1>5. ASSUME NEW i \in DOMAIN o, NEW j \in DOMAIN o, o[i] \in A, o[j] \in A,
             EarlierTurn(m, A, sang, o[i], o[j])
      PROVE  i < j
  <2>1. PICK p \in DOMAIN x, q \in DOMAIN x : x[p] = o[i] /\ x[q] = o[j]
    BY <1>3, <1>5
  <2>2. ~(q < p)
    BY <1>2, <1>5, <2>1 DEF InTurns
  <2>3. p # q
    <3>1. ASSUME p = q PROVE FALSE
      <4>1. EarlierTurn(m, A, sang, o[i], o[i])
        BY <1>5, <2>1, <3>1
      <4>2. RoundOf(m, A, o[i]) \in Nat /\ HeadOf(m, A, o[i]) \in A
        BY <1>1, <1>5, RoundsOfAGroup
      <4>3. ~ServedBefore(m, sang, HeadOf(m, A, o[i]), HeadOf(m, A, o[i]))
        BY <1>1, <4>2, CreditStrict
      <4> QED
        BY <4>1, <4>2, <4>3 DEF EarlierTurn
    <3> QED
      BY <3>1
  <2>4. p < q
    BY <1>3, <2>2, <2>3
  <2> QED
    BY <1>1, <2>1, <2>4 DEF SameOrder
<1>6. SungBefore(m, A, sang, o) /\ TurnsInOrder(m, A, sang, o)
  BY <1>4, <1>5 DEF SungBefore, TurnsInOrder
<1> QED
  BY <1>6 DEF A, o

\* The place of a group's first sing.
LEMMA FirstTurnIs ==
  ASSUME TypeInv, NEW k, k \in Waiting(venueMode, entries)
  PROVE  LET i == FirstTurn(Order, k)
         IN  /\ i \in DOMAIN Order /\ Order[i] \in QueuedSings(entries)
             /\ GroupKey(venueMode, Order[i]) = k
             /\ \A j \in DOMAIN Order :
                  Order[j] \in QueuedSings(entries) /\ GroupKey(venueMode, Order[j]) = k => i <= j
<1> DEFINE o == Order
           A == QueuedSings(entries)
           N == {i \in 1..Len(o) : o[i].kind = "sing" /\ GroupKey(venueMode, o[i]) = k}
           First(i) == /\ o[i].kind = "sing" /\ GroupKey(venueMode, o[i]) = k
                       /\ \A j \in 1..(i - 1) : o[j].kind = "sing" => GroupKey(venueMode, o[j]) # k
<1>1. Enumerates(o, entries)
  BY StateIsNumbered, OrderKeeps DEF Order
<1> HIDE DEF o
<1>2. /\ DOMAIN o = 1..Len(o) /\ Len(o) \in Nat
      /\ \A i \in 1..Len(o) : o[i] \in entries
      /\ \A e \in entries : \E i \in 1..Len(o) : o[i] = e
  BY <1>1, EnumerationSize
<1>3. \A e \in entries : e \in A <=> e.kind = "sing"
  BY DEF QueuedSings
<1>4. N \in SUBSET Nat /\ N # {}
  <2>1. PICK e \in A : GroupKey(venueMode, e) = k
    BY DEF Waiting
  <2>2. e \in entries /\ e.kind = "sing"
    BY <2>1 DEF QueuedSings
  <2> QED
    BY <1>2, <2>1, <2>2
<1>5. PICK i \in N : \A j \in N : i <= j
  <2> HIDE DEF N
  <2> QED
    BY <1>4, LeastNumber
<1>6. i \in 1..Len(o) /\ First(i)
  BY <1>2, <1>5
<1> DEFINE t == CHOOSE n \in 1..Len(o) : First(n)
<1>7. t \in 1..Len(o) /\ First(t)
  <2> HIDE DEF First
  <2> QED
    BY <1>6, Zenon
<1>8. FirstTurn(o, k) = t
  BY DEF FirstTurn
<1> HIDE DEF t
<1>9. ASSUME NEW j \in 1..Len(o), o[j] \in A, GroupKey(venueMode, o[j]) = k PROVE t <= j
  <2>1. ~(j \in 1..(t - 1))
    BY <1>2, <1>3, <1>7, <1>9
  <2> QED
    BY <1>2, <1>7, <2>1
<1>10. /\ t \in DOMAIN o /\ o[t] \in A /\ GroupKey(venueMode, o[t]) = k
       /\ \A j \in DOMAIN o : o[j] \in A /\ GroupKey(venueMode, o[j]) = k => t <= j
  BY <1>2, <1>3, <1>7, <1>9
<1> QED
  BY <1>8, <1>10 DEF o

LEMMA CreditDecides == TypeInv => CreditDecidesFirstTurns
<1> SUFFICES ASSUME TypeInv, NEW k \in Waiting(venueMode, entries),
                    NEW l \in Waiting(venueMode, entries), lastSang[k] < lastSang[l]
             PROVE  FirstTurn(Order, k) < FirstTurn(Order, l)
  BY DEF CreditDecidesFirstTurns
<1> DEFINE o == Order
           A == QueuedSings(entries)
           i == FirstTurn(o, k)
           j == FirstTurn(o, l)
<1>1. /\ SungBefore(venueMode, A, lastSang, o) /\ DOMAIN o = 1..Len(o) /\ Len(o) \in Nat
  <2>1. Enumerates(o, entries)
    BY StateIsNumbered, OrderKeeps DEF Order
  <2> HIDE DEF o
  <2>2. DOMAIN o = 1..Len(o) /\ Len(o) \in Nat
    BY <2>1, EnumerationSize
  <2>3. SungBefore(venueMode, A, lastSang, o)
    BY StateIsNumbered, OrderOfTurns DEF Order, o
  <2> QED
    BY <2>2, <2>3
<1>2. /\ i \in DOMAIN o
      /\ \A n \in DOMAIN o : o[n] \in A /\ GroupKey(venueMode, o[n]) = k => i <= n
      /\ j \in DOMAIN o /\ o[j] \in A /\ GroupKey(venueMode, o[j]) = l
  BY FirstTurnIs
<1> HIDE DEF i, j, o
<1>3. PICK f \in A : GroupKey(venueMode, f) = k
  BY DEF Waiting
<1>4. PICK n \in DOMAIN o : n < j /\ o[n] \in A /\ GroupKey(venueMode, o[n]) = k
  BY <1>1, <1>2, <1>3 DEF SungBefore
<1>5. i < j
  BY <1>1, <1>2, <1>4
<1> QED
  BY <1>5 DEF i, j, o

LEMMA RoundsDecide == TypeInv => RoundsDecideTheOrder
<1> SUFFICES ASSUME TypeInv PROVE RoundsDecideTheOrder
  OBVIOUS
<1> DEFINE o == Order
           A == QueuedSings(entries)
<1>1. Enumerates(o, entries) /\ TurnsInOrder(venueMode, A, lastSang, o)
  BY StateIsNumbered, OrderKeeps, OrderOfTurns DEF Order
<1> HIDE DEF o
<1>2. Len(o) = Cardinality(entries) /\ Range(o) = entries /\ DOMAIN o = 1..Len(o)
  BY <1>1, EnumerationSize DEF Enumerates
<1>3. ASSUME NEW p \in DOMAIN o, o[p].kind = "sing" PROVE o[p] \in A
  BY <1>2, <1>3 DEF QueuedSings, Range
<1>4. ASSUME NEW p \in DOMAIN o, NEW q \in DOMAIN o, o[p].kind = "sing", o[q].kind = "sing",
             EarlierTurn(venueMode, A, lastSang, o[p], o[q])
      PROVE  p < q
  BY <1>1, <1>3, <1>4 DEF TurnsInOrder
<1> QED
  BY <1>2, <1>4, Zenon DEF RoundsDecideTheOrder, EarlierTurn, RoundOf, HeadOf, Mates, o, A

\* peekUpcoming, after any sequence of the engine's operations: the first turns come in
\* order of recency, and the sings by rounds, whatever the loop that laid them out did.
THEOREM AnnouncedInOrder == Spec => []TurnsAreInOrder
<1>1. TypeInv => TurnsAreInOrder
  BY CreditDecides, RoundsDecide DEF TypeInv, TurnsAreInOrder
<1> QED
  BY <1>1, TypesHold, PTL

-----------------------------------------------------------------------------
(* The caps.                                                               *)

\* Only an accepted submission takes a number.
LEMMA StepsThatAdd ==
  ASSUME TypeInv, [Next]_vars, nextSeq' # nextSeq
  PROVE  \E x : Typed(x) /\ AddEntry(x)
<1>1. CASE Submit
  BY <1>1 DEF Submit, Typed, Input
<1>2. CASE GraceRequeue
  <2>1. PICK e \in granted : AddEntry([e EXCEPT !.grace = TRUE])
    BY <1>2 DEF GraceRequeue
  <2>2. Typed([e EXCEPT !.grace = TRUE])
    BY DEF Typed, Entry, TypeInv, TypeOK
  <2> QED
    BY <2>1, <2>2
<1> QED
  BY <1>1, <1>2 DEF Next, vars, Advance, Consume, Skip, SkipById, SkipEntry, RemoveEntry,
                    MoveEntryToTable, SetVenueMode

\* Only a played listen lengthens the run of listens.
LEMMA StepsThatListen ==
  ASSUME TypeInv, [Next]_vars, listenRun' \notin {0, listenRun}
  PROVE  /\ listenRun' = listenRun + 1 /\ QueuedSings(entries) # {}
         /\ entries # {} /\ Order[1].kind = "listen"
<1>1. Advance
  BY DEF Next, vars, Submit, GraceRequeue, Skip, SkipById, SkipEntry, RemoveEntry,
         MoveEntryToTable, SetVenueMode, NoteListen
<1>2. QueuedSings(entries') \subseteq QueuedSings(entries)
  BY <1>1 DEF Advance, Consume, QueuedSings
<1> QED
  BY <1>1, <1>2 DEF Advance, NoteListen

LEMMA ListensWait ==
  TypeInv /\ ListensNeverStarveSingers /\ [Next]_vars => ListensNeverStarveSingers'
<1> SUFFICES ASSUME TypeInv, ListensNeverStarveSingers, [Next]_vars, MaxConsecutiveListen # NoCap
             PROVE  listenRun' <= MaxConsecutiveListen
  BY DEF ListensNeverStarveSingers
<1>1. /\ MaxConsecutiveListen \in Nat /\ listenRun <= MaxConsecutiveListen
      /\ listenRun \in Nat /\ consecutiveListen \in Nat /\ listenRun <= consecutiveListen
  BY ListenCapAssumption DEF ListensNeverStarveSingers, TypeInv, TypeOK, EntriesAreCounted
<1>2. CASE listenRun' \in {0, listenRun}
  BY <1>1, <1>2
<1>3. CASE listenRun' \notin {0, listenRun}
  <2>1. listenRun' = listenRun + 1 /\ QueuedSings(entries) # {} /\ entries # {}
        /\ Order[1].kind = "listen"
    BY <1>3, StepsThatListen
  <2>2. HeadIsDue(venueMode, entries, lastSang, MaxConsecutiveListen, consecutiveListen, Order[1])
    BY <2>1, StateIsNumbered, OrderUnfolds DEF Order
  <2>3. MayListen(MaxConsecutiveListen, consecutiveListen)
    BY <2>1, <2>2 DEF HeadIsDue
  <2>4. consecutiveListen < MaxConsecutiveListen
    BY <2>3 DEF MayListen
  <2> QED
    BY <1>1, <2>1, <2>4
<1> QED
  BY <1>2, <1>3

\* A group's sings before and after a submission.
LEMMA OneMoreAtMost ==
  ASSUME TypeInv, NEW x, Typed(x), AddEntry(x), venueMode # "full-karaoke", NEW k,
         NEW cap, cap = IF venueMode = "per-table-2" THEN PER_TABLE_CAP ELSE PER_PERSON_CAP
  PROVE  LET held(S) == Cardinality({e \in QueuedSings(S) : GroupKey(venueMode, e) = k})
         IN  held(entries') > cap => held(entries') <= held(entries)
<1> DEFINE new == EntryOf(nextSeq, x)
           H == {e \in QueuedSings(entries) : GroupKey(venueMode, e) = k}
           G == {e \in QueuedSings(entries') : GroupKey(venueMode, e) = k}
<1>1. /\ entries' = entries \cup {new} /\ Accepts(venueMode, entries, x)
      /\ venueMode \in {"per-table-2", "per-person-1"} /\ new \notin entries
      /\ cap \in Nat
  BY CapAssumption DEF AddEntry, TypeInv, TypeOK, VenueModes, EntryOf
<1>2. /\ new.kind = x.kind /\ PersonKey(new) = PersonKey(x) /\ TableBucket(new) = TableBucket(x)
      /\ GroupKey(venueMode, new) = GroupKey(venueMode, x)
  BY DEF EntryOf, PersonKey, TableBucket, GroupKey
<1>3. IsFiniteSet(H) /\ Cardinality(H) \in Nat
  <2>1. H \in SUBSET entries /\ IsFiniteSet(entries)
    BY DEF QueuedSings, TypeInv, EntriesAreCounted
  <2> QED
    BY <2>1, FS_Subset, FS_CardinalityType
<1>4. CASE new.kind = "sing" /\ GroupKey(venueMode, new) = k
  <2>1. G = H \cup {new} /\ new \notin H
    BY <1>1, <1>4 DEF QueuedSings
  <2>2. Cardinality(G) = Cardinality(H) + 1
    BY <1>3, <2>1, FS_AddElement
  <2>3. ~AtCap(H, cap)
    <3>1. ~CapViolation(venueMode, entries, x)
      BY <1>1, <1>2, <1>4 DEF Accepts
    <3>2. CASE venueMode = "per-person-1"
      <4>1. H = {e \in QueuedSings(entries) : e.uuid = x.uuid}
        BY <1>2, <1>4, <3>2 DEF GroupKey, PersonKey
      <4> HIDE DEF H
      <4> QED
        BY <3>1, <3>2, <4>1 DEF CapViolation
    <3>3. CASE venueMode = "per-table-2"
      <4>1. H = {e \in QueuedSings(entries) : TableBucket(e) = TableBucket(x)}
        BY <1>2, <1>4, <3>3 DEF GroupKey
      <4> HIDE DEF H
      <4> QED
        BY <3>1, <3>3, <4>1 DEF CapViolation
    <3> QED
      BY <1>1, <3>2, <3>3
  <2> HIDE DEF G, H
  <2>4. Cardinality(G) <= cap
    BY <1>1, <1>3, <2>2, <2>3 DEF AtCap
  <2>5. ~(Cardinality(G) > cap)
    BY <1>1, <1>3, <2>2, <2>4
  <2> QED
    BY <2>5 DEF G
<1>5. CASE ~(new.kind = "sing" /\ GroupKey(venueMode, new) = k)
  <2>1. G = H
    BY <1>1, <1>5 DEF QueuedSings
  <2> HIDE DEF G, H
  <2>2. Cardinality(G) <= Cardinality(H)
    BY <1>3, <2>1
  <2> QED
    BY <2>2 DEF G, H
<1> QED
  BY <1>4, <1>5

\* The engine's two caps: listens are never played past a waiting
\* singer more often than options.maxConsecutiveListen allows, however the calls of
\* advance, submit and skip are mixed; and submit never grows a group over its cap.
THEOREM CapsAreKept == Spec => CapsHold
<1> DEFINE Drains ==
      nextSeq' > nextSeq /\ venueMode # "full-karaoke" =>
        \A k \in Waiting(venueMode, entries') :
          LET held(S) == Cardinality({e \in QueuedSings(S) : GroupKey(venueMode, e) = k})
              cap == IF venueMode = "per-table-2" THEN PER_TABLE_CAP ELSE PER_PERSON_CAP
          IN  held(entries') > cap => held(entries') <= held(entries)
<1>1. ASSUME TypeInv, [Next]_vars PROVE Drains
  <2> SUFFICES ASSUME nextSeq' > nextSeq, venueMode # "full-karaoke",
                      NEW k \in Waiting(venueMode, entries')
               PROVE  LET held(S) == Cardinality({e \in QueuedSings(S) : GroupKey(venueMode, e) = k})
                          cap == IF venueMode = "per-table-2" THEN PER_TABLE_CAP ELSE PER_PERSON_CAP
                      IN  held(entries') > cap => held(entries') <= held(entries)
    OBVIOUS
  <2>1. nextSeq' # nextSeq
    BY <1>1 DEF TypeInv, TypeOK
  <2>2. PICK x : Typed(x) /\ AddEntry(x)
    BY <1>1, <2>1, StepsThatAdd, Zenon
  <2> QED
    BY <1>1, <2>2, OneMoreAtMost
<1>2. TypeInv /\ [Next]_vars => [Drains]_vars
  BY <1>1, Zenon
<1>3. Init => ListensNeverStarveSingers
  BY ListenCapAssumption DEF Init, ListensNeverStarveSingers
<1> QED
  BY <1>2, <1>3, ListensWait, TypesHold, PTL DEF Spec, CapsHold, OverCapGroupsOnlyDrain, Drains

-----------------------------------------------------------------------------
(* The announced order is played.                                          *)

\* Only advance plays an entry, and it plays the head.
LEMMA StepsThatPlay ==
  ASSUME TypeInv, [Next]_vars, NEW e \in entries, Plays(e)
  PROVE  Advance /\ e = Order[1] /\ Consume(e)
<1>1. e \notin entries'
  BY DEF Plays
<1>2. ASSUME NEW t \in entries, SkipEntry(t) PROVE FALSE
  <2>1. /\ e = t /\ consecutiveListen' = consecutiveListen
        /\ consecutiveListen \in Nat /\ singClock \in Nat
        /\ noShowStreak \in [Participants -> Nat] /\ e.uuid \in Participants
    BY <1>1, <1>2 DEF SkipEntry, TypeInv, TypeOK, Entry
  <2>2. singClock' > singClock /\ noShowStreak'[e.uuid] = 0
    BY <2>1 DEF Plays
  <2>3. noShowStreak' = [noShowStreak EXCEPT ![e.uuid] = @ + 1]
    BY <1>2, <2>1, <2>2 DEF SkipEntry
  <2>4. noShowStreak'[e.uuid] = noShowStreak[e.uuid] + 1 /\ noShowStreak[e.uuid] \in Nat
    BY <2>1, <2>3
  <2> QED
    BY <2>2, <2>4
<1>3. Advance
  <2>1. singClock \in Nat /\ consecutiveListen \in Nat
    BY DEF TypeInv, TypeOK
  <2>2. ~Skip /\ ~SkipById
    <3>1. Skip => Order[1] \in entries /\ SkipEntry(Order[1])
      BY StateIsNumbered DEF Skip
    <3> QED
      BY <1>2, <3>1 DEF SkipById
  <2>3. consecutiveListen' > consecutiveListen \/ singClock' > singClock
    BY DEF Plays
  <2> QED
    <3>1. ~Submit /\ ~GraceRequeue
      BY <1>1 DEF Submit, GraceRequeue, AddEntry
    <3>2. ~RemoveEntry /\ ~MoveEntryToTable /\ ~SetVenueMode /\ ~UNCHANGED vars
      BY <1>1, <2>1, <2>3 DEF RemoveEntry, MoveEntryToTable, SetVenueMode, vars
    <3> QED
      BY <2>2, <3>1, <3>2 DEF Next
<1> QED
  BY <1>1, <1>3 DEF Advance, Consume

\* A charge is a turn of the entry's group, and of no other group of the mode.
LEMMA ChargeOfAGroup ==
  ASSUME TypeInv, NEW h \in Entry, Charge(h), NEW e \in Entry
  PROVE  /\ lastSang' \in [GroupKeys -> Int] /\ singClock' = singClock + 1
         /\ lastSang'[GroupKey(venueMode, e)] =
              IF GroupKey(venueMode, e) = GroupKey(venueMode, h) THEN singClock + 1
              ELSE lastSang[GroupKey(venueMode, e)]
<1>1. /\ lastSang' \in [GroupKeys -> -1..singClock'] /\ singClock' = singClock + 1
      /\ singClock \in Nat
      /\ \A k \in GroupKeys :
           lastSang'[k] = IF k = PersonKey(h) \/ k = TableBucket(h) THEN singClock + 1
                          ELSE lastSang[k]
  BY ChargeIs DEF TypeInv, TypeOK
<1>2. lastSang' \in [GroupKeys -> Int]
  BY <1>1
<1>3. /\ PersonKey(h) # TableBucket(e) /\ PersonKey(e) # TableBucket(h)
      /\ GroupKey(venueMode, e) \in GroupKeys
  BY KeysAreKeys DEF PersonKey, TableBucket
<1>4. (GroupKey(venueMode, e) = PersonKey(h) \/ GroupKey(venueMode, e) = TableBucket(h))
        <=> GroupKey(venueMode, e) = GroupKey(venueMode, h)
  BY <1>3 DEF GroupKey
<1> QED
  BY <1>1, <1>2, <1>3, <1>4

\* What is announced is what plays: an advance plays the entry that
\* peekUpcoming announced first, and leaves the announced rest as it was.
THEOREM AnnouncedIsPlayed == Spec => PeekIsPlay
<1> DEFINE AsAnnounced == (\E e \in entries : Plays(e)) => Order' = Tail(Order)
<1>1. ASSUME TypeInv, [Next]_vars PROVE AsAnnounced
  <2> SUFFICES ASSUME NEW h \in entries, Plays(h) PROVE Order' = Tail(Order)
    OBVIOUS
  <2>1. Advance /\ h = Order[1] /\ Consume(h)
    BY <1>1, StepsThatPlay
  <2>2. /\ venueMode' = venueMode /\ entries' = entries \ {h}
        /\ h \in Entry /\ lastSang \in [GroupKeys -> Int]
    BY <1>1, <2>1, StateIsNumbered DEF Advance, Consume
  <2>3. TailIsNext(venueMode, entries, lastSang, MaxConsecutiveListen, consecutiveListen, Order)
    BY <1>1, StateIsNumbered, OrderUnfolds DEF Order
  <2>4. CASE h.kind = "listen"
    <3>1. consecutiveListen' = consecutiveListen + 1 /\ lastSang' = lastSang
      BY <2>1, <2>4 DEF Consume
    <3> QED
      BY <2>1, <2>2, <2>3, <2>4, <3>1 DEF TailIsNext, Order
  <2>5. CASE h.kind = "sing"
    <3>1. consecutiveListen' = 0 /\ Charge(h)
      BY <2>1, <2>5 DEF Consume
    <3>2. lastSang' \in [GroupKeys -> Int]
      BY <1>1, <2>2, <3>1, ChargeOfAGroup
    <3>3. TurnOf(venueMode, QueuedSings(entries), lastSang, h, lastSang')
      <4> SUFFICES ASSUME NEW e \in QueuedSings(entries)
                   PROVE  IF GroupKey(venueMode, e) = GroupKey(venueMode, h)
                          THEN \A f \in QueuedSings(entries) :
                                 lastSang[GroupKey(venueMode, f)] < lastSang'[GroupKey(venueMode, e)]
                          ELSE lastSang'[GroupKey(venueMode, e)] = lastSang[GroupKey(venueMode, e)]
        BY Zenon DEF TurnOf
      <4>1. e \in Entry
        BY <1>1, StateIsNumbered DEF QueuedSings
      <4>2. lastSang'[GroupKey(venueMode, e)] =
              IF GroupKey(venueMode, e) = GroupKey(venueMode, h) THEN singClock + 1
              ELSE lastSang[GroupKey(venueMode, e)]
        BY <1>1, <2>2, <3>1, <4>1, ChargeOfAGroup
      <4>3. ASSUME NEW f \in QueuedSings(entries) PROVE lastSang[GroupKey(venueMode, f)] < singClock + 1
        <5>1. /\ GroupKey(venueMode, f) \in GroupKeys /\ singClock \in Nat
              /\ lastSang[GroupKey(venueMode, f)] <= singClock
          BY <1>1, StateIsNumbered DEF QueuedSings
        <5> QED
          BY <2>2, <5>1
      <4> QED
        BY <4>2, <4>3
    <3> HIDE DEF TurnOf
    <3>4. GetEffectiveOrder(venueMode, entries \ {h}, lastSang', MaxConsecutiveListen, 0) = Tail(Order)
      BY <2>1, <2>3, <2>5, <3>2, <3>3 DEF TailIsNext
    <3> QED
      BY <2>2, <3>1, <3>4 DEF Order
  <2> QED
    BY <2>2, <2>4, <2>5 DEF Entry, Kinds
<1>2. TypeInv /\ [Next]_vars => [AsAnnounced]_vars
  BY <1>1, Zenon
<1> QED
  BY <1>2, TypesHold, PTL DEF Spec, PeekIsPlay, AsAnnounced

-----------------------------------------------------------------------------
(* Turns come round.                                                       *)

\* Who went past a group that waits has sung, or lost a turn, since it last did.
PassedSung ==
  \A k \in GroupKeys : \A g \in passed[k] : g \in GroupKeys /\ lastSang[k] < lastSang[g]

\* Only a turn, sung or lost, adds to who went past.
LEMMA StepsThatPass ==
  ASSUME TypeInv, [Next]_vars
  PROVE  \/ lastSang' = lastSang /\ \A k \in GroupKeys : passed'[k] \subseteq passed[k]
         \/ \E h \in entries : /\ Charge(h) /\ NotePassed({GroupKey(venueMode, h)})
                               /\ venueMode' = venueMode /\ entries' \subseteq entries
<1> DEFINE Nobody == lastSang' = lastSang /\ \A k \in GroupKeys : passed'[k] \subseteq passed[k]
           Turn(h) == /\ Charge(h) /\ NotePassed({GroupKey(venueMode, h)})
                      /\ venueMode' = venueMode /\ entries' \subseteq entries
<1>1. ASSUME NotePassed({}), lastSang' = lastSang PROVE Nobody
  BY <1>1 DEF NotePassed
<1>2. ASSUME NEW t \in entries, SkipEntry(t) PROVE Nobody \/ Turn(t)
  <2> HIDE DEF Nobody
  <2>1. \/ NotePassed({}) /\ lastSang' = lastSang
        \/ Charge(t) /\ NotePassed({GroupKey(venueMode, t)})
    BY <1>2 DEF SkipEntry
  <2> QED
    BY <1>1, <1>2, <2>1 DEF SkipEntry
<1>3. CASE Advance
  <2>1. PICK h \in entries : h = Order[1]
    BY <1>3, StateIsNumbered DEF Advance
  <2>2. /\ Consume(h) /\ venueMode' = venueMode
        /\ NotePassed(IF h.kind = "sing" THEN {GroupKey(venueMode, h)} ELSE {})
    BY <1>3, <2>1 DEF Advance
  <2>3. CASE h.kind = "sing"
    BY <2>2, <2>3 DEF Consume
  <2>4. CASE h.kind # "sing"
    BY <1>1, <2>2, <2>4 DEF Consume
  <2> QED
    BY <2>3, <2>4
<1>4. CASE Skip \/ SkipById
  BY <1>2, <1>4, StateIsNumbered DEF Skip, SkipById
<1>5. CASE Submit \/ GraceRequeue \/ RemoveEntry \/ MoveEntryToTable \/ SetVenueMode
  BY <1>1, <1>5 DEF Submit, GraceRequeue, AddEntry, RemoveEntry, MoveEntryToTable, SetVenueMode
<1>6. CASE UNCHANGED vars
  BY <1>6 DEF vars
<1> QED
  BY <1>3, <1>4, <1>5, <1>6 DEF Next

LEMMA PassedStaysSung == TypeInv /\ PassedSung /\ [Next]_vars => PassedSung'
<1> SUFFICES ASSUME TypeInv, PassedSung, [Next]_vars PROVE PassedSung'
  OBVIOUS
<1>1. CASE lastSang' = lastSang /\ \A k \in GroupKeys : passed'[k] \subseteq passed[k]
  BY <1>1 DEF PassedSung
<1>2. ASSUME NEW h \in entries, Charge(h), NotePassed({GroupKey(venueMode, h)}),
             venueMode' = venueMode, entries' \subseteq entries
      PROVE  PassedSung'
  <2> DEFINE own == GroupKey(venueMode, h)
  <2>1. /\ h \in Entry /\ own \in GroupKeys /\ singClock \in Nat /\ lastSang \in [GroupKeys -> Int]
        /\ \A k \in GroupKeys : lastSang[k] <= singClock
    BY StateIsNumbered
  <2>2. \A k \in GroupKeys : lastSang'[k] = singClock + 1 \/ lastSang'[k] = lastSang[k]
    BY <1>2, ChargeIs
  <2>3. lastSang'[own] = singClock + 1
    BY <1>2, <2>1, ChargeOfAGroup
  <2> SUFFICES ASSUME NEW k \in GroupKeys, NEW g \in passed'[k]
               PROVE  g \in GroupKeys /\ lastSang'[k] < lastSang'[g]
    BY DEF PassedSung
  <2>4. k \in Waiting(venueMode, entries') \ {own} /\ g \in passed[k] \cup {own}
    <3>1. passed' = [l \in GroupKeys |-> IF l \in Waiting(venueMode, entries') \ {own}
                                         THEN passed[l] \cup {own} ELSE {}]
      BY <1>2 DEF NotePassed
    <3> HIDE DEF own
    <3> QED
      BY <3>1
  <2>5. PICK e \in entries : GroupKey(venueMode, e) = k
    BY <1>2, <2>4 DEF Waiting, QueuedSings
  <2>6. lastSang'[k] = lastSang[k]
    <3>1. e \in Entry /\ GroupKey(venueMode, e) # own
      BY <2>4, <2>5, StateIsNumbered
    <3> QED
      BY <1>2, <2>1, <2>5, <3>1, ChargeOfAGroup
  <2> HIDE DEF own
  <2>7. CASE g = own
    BY <2>1, <2>3, <2>6, <2>7
  <2>8. CASE g # own
    <3>1. g \in GroupKeys /\ lastSang[k] < lastSang[g]
      BY <2>4, <2>8 DEF PassedSung
    <3> QED
      BY <2>1, <2>2, <2>6, <3>1
  <2> QED
    BY <2>7, <2>8
<1> QED
  BY <1>1, <1>2, StepsThatPass, Zenon

\* Only a second no-show in a row counts a second one, and it is charged.
LEMMA StepsThatVanish ==
  ASSUME TypeInv, [Next]_vars, NEW e \in entries, e \notin entries',
         noShowStreak'[e.uuid] >= 2, noShowStreak'[e.uuid] > noShowStreak[e.uuid]
  PROVE  Charge(e) /\ venueMode' = venueMode /\ entries' \subseteq entries
<1>1. /\ noShowStreak \in [Participants -> Nat] /\ e.uuid \in Participants
      /\ noShowStreak[e.uuid] \in Nat
  BY DEF TypeInv, TypeOK, Entry
<1>2. noShowStreak' # noShowStreak
  BY <1>1
<1>3. CASE Advance
  <2>1. noShowStreak' = [noShowStreak EXCEPT ![Order[1].uuid] = 0]
    BY <1>2, <1>3 DEF Advance, Consume
  <2> QED
    BY <1>1, <2>1
<1>4. ASSUME NEW t \in entries, SkipEntry(t)
      PROVE  Charge(e) /\ venueMode' = venueMode /\ entries' \subseteq entries
  <2>1. e = t /\ venueMode' = venueMode /\ entries' \subseteq entries
    BY <1>4 DEF SkipEntry
  <2>2. noShowStreak' = [noShowStreak EXCEPT ![e.uuid] = @ + 1]
    BY <1>2, <1>4, <2>1 DEF SkipEntry
  <2>3. noShowStreak'[e.uuid] = noShowStreak[e.uuid] + 1
    BY <1>1, <2>2
  <2>4. noShowStreak[e.uuid] # 0
    BY <2>3
  <2> QED
    BY <1>2, <1>4, <2>1, <2>4 DEF SkipEntry
<1>5. CASE Skip \/ SkipById
  BY <1>4, <1>5, StateIsNumbered DEF Skip, SkipById
<1> QED
  BY <1>2, <1>3, <1>5 DEF Next, vars, Submit, GraceRequeue, AddEntry, RemoveEntry,
                          MoveEntryToTable, SetVenueMode

\* CreditDecidesFirstTurns with its state as parameters.
FirstIn(m, o, k) ==
  CHOOSE i \in 1..Len(o) :
    /\ o[i].kind = "sing" /\ GroupKey(m, o[i]) = k
    /\ \A j \in 1..(i - 1) : o[j].kind = "sing" => GroupKey(m, o[j]) # k
CreditIn(m, S, served, o) ==
  \A k, l \in Waiting(m, S) : served[k] < served[l] => FirstIn(m, o, k) < FirstIn(m, o, l)
CreditNow == CreditIn(venueMode, entries, lastSang, Order)

LEMMA CreditNowDecides == TypeInv => CreditNow
  BY CreditDecides, Zenon DEF CreditDecidesFirstTurns, CreditNow, CreditIn, FirstIn, FirstTurn

\* Who has just been charged comes after everyone who waits.
LEMMA ChargedComesLast ==
  ASSUME TypeInv, CreditNow', NEW e \in entries, Charge(e),
         venueMode' = venueMode, entries' \subseteq entries,
         NEW l \in Waiting(venueMode, entries') \ {GroupKey(venueMode, e)},
         GroupKey(venueMode, e) \in Waiting(venueMode, entries')
  PROVE  FirstTurn(Order', l) < FirstTurn(Order', GroupKey(venueMode, e))
<1> DEFINE k == GroupKey(venueMode, e)
<1>1. PICK f \in entries : GroupKey(venueMode, f) = l
  BY DEF Waiting, QueuedSings
<1>2. /\ e \in Entry /\ f \in Entry /\ l \in GroupKeys /\ singClock \in Nat
      /\ lastSang \in [GroupKeys -> Int] /\ lastSang[l] <= singClock
  BY <1>1, StateIsNumbered
<1>3. lastSang'[k] = singClock + 1 /\ lastSang'[l] = lastSang[l]
  BY <1>1, <1>2, ChargeOfAGroup
<1>4. lastSang'[l] < lastSang'[k]
  BY <1>2, <1>3
<1>5. l \in Waiting(venueMode', entries') /\ k \in Waiting(venueMode', entries')
  OBVIOUS
<1> HIDE DEF k
<1>6. FirstIn(venueMode', Order', l) < FirstIn(venueMode', Order', k)
  BY <1>4, <1>5 DEF CreditNow, CreditIn
<1>7. \A g : FirstTurn(Order', g) = FirstIn(venueMode', Order', g)
  BY Zenon DEF FirstTurn, FirstIn
<1> QED
  BY <1>6, <1>7 DEF k

\* The round-robin across separate calls: however submit, skip, remove, move and a
\* change of mode come between, advance never lets a group sing twice past one that has
\* been waiting, and skip puts who vanished twice in a row behind everyone.
THEOREM NobodyIsPassedTwice == Spec => TurnsComeRound
<1> DEFINE OnceEach ==
      \A e \in QueuedSings(entries) :
        Plays(e) =>
          \A k \in Waiting(venueMode, entries) \ {GroupKey(venueMode, e)} :
            GroupKey(venueMode, e) \notin passed[k]
    DropsBack ==
      \A e \in QueuedSings(entries) \ entries' :
        LET k == GroupKey(venueMode, e)
            order == Order'
        IN  noShowStreak'[e.uuid] >= 2 /\ noShowStreak'[e.uuid] > noShowStreak[e.uuid]
              => \A l \in Waiting(venueMode, entries') \ {k} :
                   k \in Waiting(venueMode, entries')
                     => FirstTurn(order, l) < FirstTurn(order, k)
<1>1. ASSUME TypeInv, PassedSung, [Next]_vars PROVE OnceEach
  <2> SUFFICES ASSUME NEW e \in QueuedSings(entries), Plays(e),
                      NEW k \in Waiting(venueMode, entries), GroupKey(venueMode, e) \in passed[k]
               PROVE  FALSE
    BY Zenon
  <2>1. e \in entries /\ e = Order[1]
    BY <1>1, StepsThatPlay DEF QueuedSings
  <2>2. PICK f \in QueuedSings(entries) : GroupKey(venueMode, f) = k
    BY DEF Waiting
  <2>3. k \in GroupKeys
    BY <1>1, <2>2, StateIsNumbered DEF QueuedSings
  <2>4. lastSang[GroupKey(venueMode, f)] < lastSang[GroupKey(venueMode, e)]
    BY <1>1, <2>2, <2>3 DEF PassedSung
  <2>5. /\ SungBefore(venueMode, QueuedSings(entries), lastSang, Order)
        /\ DOMAIN Order = 1..Len(Order) /\ 1 \in DOMAIN Order
    <3>1. Enumerates(Order, entries)
      BY <1>1, StateIsNumbered, OrderKeeps DEF Order
    <3>2. DOMAIN Order = 1..Len(Order) /\ 1 \in DOMAIN Order
      BY <2>1, <3>1, EnumerationSize
    <3> QED
      BY <1>1, <3>2, StateIsNumbered, OrderOfTurns DEF Order
  <2>6. PICK i \in DOMAIN Order : i < 1
    BY <2>1, <2>4, <2>5 DEF SungBefore
  <2> QED
    BY <2>5, <2>6
<1>2. ASSUME TypeInv, CreditNow', [Next]_vars PROVE DropsBack
  <2> SUFFICES ASSUME NEW e \in QueuedSings(entries) \ entries',
                      noShowStreak'[e.uuid] >= 2, noShowStreak'[e.uuid] > noShowStreak[e.uuid],
                      NEW l \in Waiting(venueMode, entries') \ {GroupKey(venueMode, e)},
                      GroupKey(venueMode, e) \in Waiting(venueMode, entries')
               PROVE  FirstTurn(Order', l) < FirstTurn(Order', GroupKey(venueMode, e))
    OBVIOUS
  <2>1. e \in entries
    BY DEF QueuedSings
  <2>2. Charge(e) /\ venueMode' = venueMode /\ entries' \subseteq entries
    BY <1>2, <2>1, StepsThatVanish
  <2> QED
    BY <1>2, <2>1, <2>2, ChargedComesLast
<1> HIDE DEF OnceEach, DropsBack
<1>3. TypeInv /\ PassedSung /\ [Next]_vars => [OnceEach]_vars
  BY <1>1, Zenon
<1>4. TypeInv /\ CreditNow' /\ [Next]_vars => [DropsBack]_vars
  BY <1>2, Zenon
<1>5. Init => PassedSung
  BY DEF Init, PassedSung
<1>6. Spec => []PassedSung
  BY <1>5, PassedStaysSung, TypesHold, PTL DEF Spec
<1>7. Spec => [][OnceEach]_vars
  BY <1>3, <1>6, TypesHold, PTL DEF Spec
<1>8. Spec => [][DropsBack]_vars
  BY <1>4, CreditNowDecides, TypesHold, PTL DEF Spec
<1> QED
  BY <1>7, <1>8 DEF TurnsComeRound, NoGroupSingsTwicePastAnother, VanishingDropsBehindEveryone,
                    OnceEach, DropsBack

=============================================================================
