---------------------------- MODULE ListTheorems ----------------------------
(***************************************************************************)
(* What the proofs cite about lists, strict orders, loops and              *)
(* enumerations.                                                           *)
(***************************************************************************)
EXTENDS Lists, FiniteSetTheorems, TLAPS

-----------------------------------------------------------------------------
(* Lemmas about Kept.                                                      *)

Positions(s, T) == {i \in 1..Len(s) : s[i] \in T}
Below(at, i) == {j \in at : j < i}
Rank(at) == [i \in at |-> Cardinality(Below(at, i)) + 1]

\* The rank of a position is its place among the positions of a finite set of
\* numbers: ranks number them 1 to n.
LEMMA RankIsBijection ==
  ASSUME NEW n \in Nat, NEW at \in SUBSET (1..n)
  PROVE  /\ IsFiniteSet(at) /\ Cardinality(at) \in Nat
         /\ Rank(at) \in [at -> 1..Cardinality(at)]
         /\ \A i, j \in at : Rank(at)[i] = Rank(at)[j] => i = j
         /\ \A k \in 1..Cardinality(at) : \E i \in at : Rank(at)[i] = k
<1> DEFINE m == Cardinality(at)
<1>1. IsFiniteSet(at) /\ m \in Nat
  <2>1. IsFiniteSet(1..n)
    BY FS_Interval
  <2>2. IsFiniteSet(at)
    BY <2>1, FS_Subset, Zenon
  <2> QED
    BY <2>2, FS_CardinalityType
<1>2. \A i \in at : IsFiniteSet(Below(at, i)) /\ Cardinality(Below(at, i)) \in Nat
  BY <1>1, FS_Subset, FS_CardinalityType DEF Below
<1>3. \A i \in at : Cardinality(Below(at, i)) < m
  <2> TAKE i \in at
  <2>1. Below(at, i) \in SUBSET at /\ i \notin Below(at, i)
    BY DEF Below
  <2>2. Cardinality(Below(at, i)) <= m /\ (Cardinality(Below(at, i)) = m => Below(at, i) = at)
    BY <1>1, <2>1, FS_Subset, Zenon
  <2> QED
    BY <1>1, <1>2, <2>1, <2>2
<1>4. Rank(at) \in [at -> 1..m]
  BY <1>1, <1>2, <1>3 DEF Rank
<1>5. \A i, j \in at : i < j => Rank(at)[i] < Rank(at)[j]
  <2> TAKE i, j \in at
  <2> HAVE i < j
  <2>1. Below(at, i) \in SUBSET Below(at, j) /\ i \in Below(at, j) /\ i \notin Below(at, i)
    <3>1. \A k \in at : k \in Int
      OBVIOUS
    <3>2. \A k \in Below(at, i) : k \in Below(at, j)
      BY <3>1 DEF Below
    <3>3. i \in Below(at, j) /\ i \notin Below(at, i)
      BY <3>1 DEF Below
    <3> QED
      BY <3>2, <3>3
  <2>2. /\ Cardinality(Below(at, i)) <= Cardinality(Below(at, j))
        /\ Cardinality(Below(at, i)) = Cardinality(Below(at, j)) => Below(at, i) = Below(at, j)
    BY <1>2, <2>1, FS_Subset, Zenon
  <2> QED
    BY <1>2, <2>1, <2>2 DEF Rank
<1>6. \A i, j \in at : Rank(at)[i] = Rank(at)[j] => i = j
  <2> TAKE i, j \in at
  <2>1. i < j \/ j < i \/ i = j
    OBVIOUS
  <2> QED
    BY <1>4, <1>5, <2>1
<1>7. \A k \in 1..m : \E i \in at : Rank(at)[i] = k
  <2>1. Rank(at) \in Injection(at, 1..m)
    BY <1>4, <1>6 DEF Injection, IsInjective, Rank
  <2>2. IsFiniteSet(1..m) /\ Cardinality(1..m) = m
    BY <1>1, FS_Interval
  <2>3. Rank(at) \in Surjection(at, 1..m)
    BY <2>1, <2>2, FS_Injection
  <2> QED
    BY <2>3 DEF Surjection
<1> QED
  BY <1>1, <1>4, <1>6, <1>7

\* Filtering a list yields a list of the same kind that holds exactly the items
\* of the list that are wanted, each as often as before at most.
LEMMA KeptProperties ==
  ASSUME NEW S, NEW s \in Seq(S), NEW T
  PROVE  /\ Kept(s, T) \in Seq(S)
         /\ Range(Kept(s, T)) = Range(s) \cap T
         /\ IsInjective(s) => IsInjective(Kept(s, T))
<1> DEFINE at == Positions(s, T)
           m == Cardinality(at)
           pos(k) == CHOOSE i \in at : Cardinality(Below(at, i)) = k - 1
<1>1. Len(s) \in Nat /\ at \in SUBSET (1..Len(s)) /\ DOMAIN s = 1..Len(s)
      /\ \A i \in 1..Len(s) : s[i] \in S
  BY DEF Positions
<1>2. m \in Nat /\ Rank(at) \in [at -> 1..m]
  BY <1>1, RankIsBijection
<1>3. \A i, j \in at : Rank(at)[i] = Rank(at)[j] => i = j
  BY <1>1, RankIsBijection
<1>4. \A k \in 1..m : \E i \in at : Rank(at)[i] = k
  BY <1>1, RankIsBijection
<1>5. \A i \in at : Cardinality(Below(at, i)) \in Nat
  <2> TAKE i \in at
  <2>1. IsFiniteSet(at) /\ Below(at, i) \in SUBSET at
    BY <1>1, RankIsBijection DEF Below
  <2> QED
    BY <2>1, FS_Subset, FS_CardinalityType
<1>6. Kept(s, T) = [k \in 1..m |-> s[pos(k)]]
  BY DEF Kept, Positions, Below
<1>7. \A k \in 1..m : pos(k) \in at /\ Rank(at)[pos(k)] = k
  <2> TAKE k \in 1..m
  <2>1. \E i \in at : Cardinality(Below(at, i)) = k - 1
    BY <1>2, <1>4, <1>5 DEF Rank
  <2>2. pos(k) \in at /\ Cardinality(Below(at, pos(k))) = k - 1
    BY <2>1
  <2> QED
    BY <1>2, <2>2 DEF Rank
<1>8. \A i \in at : Rank(at)[i] \in 1..m /\ pos(Rank(at)[i]) = i
  BY <1>2, <1>3, <1>7
<1> HIDE DEF pos
<1>9. Kept(s, T) \in Seq(S)
  <2>1. \A k \in 1..m : s[pos(k)] \in S
    BY <1>1, <1>7
  <2> QED
    BY <1>2, <1>6, <2>1
<1>10. Range(Kept(s, T)) = Range(s) \cap T
  <2>1. ASSUME NEW x \in Range(Kept(s, T)) PROVE x \in Range(s) \cap T
    <3>1. PICK k \in 1..m : x = s[pos(k)]
      BY <1>6 DEF Range
    <3> QED
      BY <3>1, <1>1, <1>7 DEF Positions, Range
  <2>2. ASSUME NEW x \in Range(s) \cap T PROVE x \in Range(Kept(s, T))
    <3>1. PICK i \in 1..Len(s) : x = s[i]
      BY <1>1 DEF Range
    <3>2. i \in at
      BY <3>1, <2>2 DEF Positions
    <3>3. Rank(at)[i] \in 1..m /\ Kept(s, T)[Rank(at)[i]] = s[i]
      BY <3>2, <1>6, <1>8
    <3> QED
      BY <3>1, <3>3, <1>6 DEF Range
  <2> QED
    BY <2>1, <2>2
<1>11. ASSUME IsInjective(s) PROVE IsInjective(Kept(s, T))
  <2> SUFFICES ASSUME NEW k \in 1..m, NEW l \in 1..m, s[pos(k)] = s[pos(l)]
               PROVE  k = l
    BY <1>6 DEF IsInjective
  <2>1. pos(k) = pos(l)
    BY <1>1, <1>7, <1>11 DEF IsInjective
  <2> QED
    BY <2>1, <1>7
<1> QED
  BY <1>9, <1>10, <1>11

\* Filtering out everything, and nothing.
LEMMA KeptNone ==
  ASSUME NEW S, NEW s \in Seq(S), NEW T, Range(s) \cap T = {}
  PROVE  Kept(s, T) = <<>>
<1> DEFINE t == Kept(s, T)
<1>1. t \in Seq(S) /\ Range(t) = {}
  BY KeptProperties
<1> HIDE DEF t
<1>2. Len(t) \in Nat /\ DOMAIN t = 1..Len(t)
  BY <1>1
<1>3. Len(t) = 0
  <2> SUFFICES ASSUME Len(t) # 0 PROVE FALSE
    OBVIOUS
  <2>1. 1 \in DOMAIN t
    BY <1>2
  <2> QED
    BY <1>1, <2>1 DEF Range
<1>4. t = <<>>
  BY <1>1, <1>3
<1> QED
  BY <1>4 DEF t

LEMMA KeptAll ==
  ASSUME NEW S, NEW s \in Seq(S), NEW T, Range(s) \subseteq T
  PROVE  Kept(s, T) = s
<1> DEFINE n == Len(s)
           at == {i \in 1..n : s[i] \in T}
           before(i) == {j \in 1..n : j < i}
<1>1. n \in Nat /\ DOMAIN s = 1..n /\ s = [i \in 1..n |-> s[i]]
  OBVIOUS
<1>2. at = 1..n
  BY <1>1 DEF Range
<1>3. Kept(s, T) = [k \in 1..Cardinality(at) |->
                      s[CHOOSE i \in at : Cardinality({j \in at : j < i}) = k - 1]]
  BY DEF Kept
<1> HIDE DEF at
<1> HIDE DEF n
<1>4. \A i \in 1..n : Cardinality(before(i)) = i - 1
  <2> TAKE i \in 1..n
  <2> DEFINE k == i - 1
  <2>1. before(i) = 1..k /\ k \in Nat
    BY <1>1
  <2> HIDE DEF k
  <2>2. Cardinality(1..k) = k
    BY <2>1, FS_Interval
  <2> QED
    BY <2>1, <2>2 DEF k
<1>5. Cardinality(1..n) = n
  <2>1. n \in Nat
    BY <1>1
  <2> QED
    BY <2>1, FS_Interval
<1>6. Kept(s, T) = [k \in 1..n |-> s[CHOOSE i \in 1..n : Cardinality(before(i)) = k - 1]]
  BY <1>2, <1>3, <1>5
<1> HIDE DEF before
<1>7. ASSUME NEW k \in 1..n PROVE (CHOOSE i \in 1..n : Cardinality(before(i)) = k - 1) = k
  <2> DEFINE c == CHOOSE i \in 1..n : Cardinality(before(i)) = k - 1
  <2>1. c \in 1..n /\ Cardinality(before(c)) = k - 1
    BY <1>4
  <2> HIDE DEF c
  <2>2. c = k
    BY <1>1, <1>4, <2>1
  <2> QED
    BY <2>2 DEF c
<1> QED
  BY <1>1, <1>6, <1>7

LEMMA WithoutProperties ==
  ASSUME NEW S, NEW s \in Seq(S), NEW x
  PROVE  /\ Without(s, x) \in Seq(S)
         /\ Range(Without(s, x)) = Range(s) \ {x}
         /\ IsInjective(s) => IsInjective(Without(s, x))
  BY KeptProperties DEF Without

-----------------------------------------------------------------------------
(* Sequences without duplicates.                                           *)

\* Two lists with nothing in common join into one without duplicates.
LEMMA ConcatProperties ==
  ASSUME NEW S, NEW s \in Seq(S), NEW t \in Seq(S)
  PROVE  /\ s \o t \in Seq(S)
         /\ Range(s \o t) = Range(s) \cup Range(t)
         /\ IsInjective(s) /\ IsInjective(t) /\ Range(s) \cap Range(t) = {}
              => IsInjective(s \o t)
<1> DEFINE u == s \o t
<1>1. /\ u \in Seq(S) /\ DOMAIN u = 1..(Len(s) + Len(t))
      /\ DOMAIN s = 1..Len(s) /\ DOMAIN t = 1..Len(t) /\ Len(s) \in Nat /\ Len(t) \in Nat
      /\ \A i \in DOMAIN s : i \in DOMAIN u /\ u[i] = s[i]
      /\ \A i \in DOMAIN t : i + Len(s) \in DOMAIN u /\ u[i + Len(s)] = t[i]
      /\ \A i \in DOMAIN u \ DOMAIN s : i - Len(s) \in DOMAIN t /\ u[i] = t[i - Len(s)]
  OBVIOUS
<1> HIDE DEF u
<1>2. Range(u) = Range(s) \cup Range(t)
  <2>1. \A x \in Range(u) : x \in Range(s) \cup Range(t)
    BY <1>1 DEF Range
  <2>2. \A x \in Range(s) \cup Range(t) : x \in Range(u)
    BY <1>1 DEF Range
  <2> QED
    BY <2>1, <2>2
<1>3. ASSUME IsInjective(s), IsInjective(t), Range(s) \cap Range(t) = {}
      PROVE  IsInjective(u)
  <2> SUFFICES ASSUME NEW i \in DOMAIN u, NEW j \in DOMAIN u, u[i] = u[j] PROVE i = j
    BY DEF IsInjective
  <2>1. CASE i \in DOMAIN s /\ j \in DOMAIN s
    BY <1>1, <1>3, <2>1 DEF IsInjective
  <2>2. CASE i \notin DOMAIN s /\ j \notin DOMAIN s
    <3>1. i - Len(s) \in DOMAIN t /\ j - Len(s) \in DOMAIN t
          /\ t[i - Len(s)] = t[j - Len(s)]
      BY <1>1, <2>2
    <3>2. i - Len(s) = j - Len(s)
      BY <3>1, <1>3 DEF IsInjective
    <3> QED
      BY <3>2, <1>1
  <2>3. ASSUME NEW k \in DOMAIN s, NEW l \in DOMAIN u, l \notin DOMAIN s PROVE u[k] # u[l]
    <3>1. u[k] = s[k] /\ s[k] \in Range(s)
      BY <1>1 DEF Range
    <3>2. u[l] = t[l - Len(s)] /\ l - Len(s) \in DOMAIN t
      BY <1>1, <2>3
    <3>3. t[l - Len(s)] \in Range(t)
      BY <3>2 DEF Range
    <3> QED
      BY <1>3, <3>1, <3>2, <3>3
  <2> QED
    BY <2>1, <2>2, <2>3
<1> QED
  BY <1>1, <1>2, <1>3 DEF u

\* A list without duplicates is as long as it has items.
LEMMA InjectiveLen ==
  ASSUME NEW S, NEW s \in Seq(S), IsInjective(s)
  PROVE  IsFiniteSet(Range(s)) /\ Cardinality(Range(s)) = Len(s)
<1>1. Len(s) \in Nat /\ DOMAIN s = 1..Len(s)
  OBVIOUS
<1>2. s \in Bijection(1..Len(s), Range(s))
  BY <1>1 DEF Bijection, Injection, Surjection, IsInjective, Range
<1>3. ExistsBijection(1..Len(s), Range(s))
  BY <1>2 DEF ExistsBijection
<1> QED
  BY <1>1, <1>3, FS_CountingElements, FS_NatBijection

\* A list is a list of its items.
LEMMA RangeOfList ==
  ASSUME NEW S, NEW s \in Seq(S)
  PROVE  s \in Seq(Range(s)) /\ Range(s) \subseteq S
<1>1. Len(s) \in Nat /\ DOMAIN s = 1..Len(s) /\ s = [i \in 1..Len(s) |-> s[i]]
      /\ \A i \in 1..Len(s) : s[i] \in S
  OBVIOUS
<1>2. \A i \in 1..Len(s) : s[i] \in Range(s)
  BY <1>1 DEF Range
<1>3. s \in Seq(Range(s))
  <2> DEFINE T == Range(s)
  <2> HIDE DEF T
  <2>1. s \in Seq(T)
    BY <1>1, <1>2 DEF T
  <2> QED
    BY <2>1 DEF T
<1> QED
  BY <1>1, <1>3 DEF Range

\* Dropping the head of a list leaves a list of its other items.
LEMMA TailProperties ==
  ASSUME NEW S, NEW s \in Seq(S), s # <<>>
  PROVE  /\ Tail(s) \in Seq(S) /\ Len(Tail(s)) = Len(s) - 1
         /\ Range(Tail(s)) \subseteq Range(s)
         /\ IsInjective(s) => IsInjective(Tail(s))
<1>1. /\ Tail(s) \in Seq(S) /\ Len(Tail(s)) = Len(s) - 1 /\ Len(s) \in Nat
      /\ DOMAIN s = 1..Len(s) /\ DOMAIN Tail(s) = 1..(Len(s) - 1)
      /\ \A i \in DOMAIN Tail(s) : i \in Int /\ i + 1 \in DOMAIN s /\ Tail(s)[i] = s[i + 1]
  OBVIOUS
<1>2. \A x \in Range(Tail(s)) : x \in Range(s)
  BY <1>1 DEF Range
<1>3. IsInjective(s) => IsInjective(Tail(s))
  BY <1>1 DEF IsInjective
<1> QED
  BY <1>1, <1>2, <1>3

\* A list is its head and its tail.
LEMMA HeadAndTail ==
  ASSUME NEW S, NEW s \in Seq(S), s # <<>>
  PROVE  /\ Head(s) \in S /\ Head(s) = s[1]
         /\ Range(s) = {Head(s)} \cup Range(Tail(s))
         /\ IsInjective(s) => Head(s) \notin Range(Tail(s))
<1>1. /\ Len(s) \in Nat /\ DOMAIN s = 1..Len(s) /\ DOMAIN Tail(s) = 1..(Len(s) - 1)
      /\ 1 \in DOMAIN s /\ Head(s) = s[1] /\ s[1] \in S
      /\ \A i \in DOMAIN Tail(s) : i \in Int /\ i > 0 /\ i + 1 \in DOMAIN s /\ Tail(s)[i] = s[i + 1]
      /\ \A i \in DOMAIN s : i \in Int /\ (i # 1 => i - 1 \in DOMAIN Tail(s) /\ Tail(s)[i - 1] = s[i])
  OBVIOUS
<1>2. \A x \in Range(s) : x \in {Head(s)} \cup Range(Tail(s))
  <2> SUFFICES ASSUME NEW i \in DOMAIN s PROVE s[i] = Head(s) \/ s[i] \in Range(Tail(s))
    BY DEF Range
  <2>1. CASE i = 1
    BY <1>1, <2>1
  <2>2. CASE i # 1
    <3>1. i - 1 \in DOMAIN Tail(s) /\ Tail(s)[i - 1] = s[i]
      BY <1>1, <2>2
    <3> QED
      BY <3>1 DEF Range
  <2> QED
    BY <2>1, <2>2
<1>3. \A x \in {Head(s)} \cup Range(Tail(s)) : x \in Range(s)
  BY <1>1 DEF Range
<1>4. IsInjective(s) => Head(s) \notin Range(Tail(s))
  <2> SUFFICES ASSUME IsInjective(s), NEW i \in DOMAIN Tail(s) PROVE Tail(s)[i] # s[1]
    BY <1>1 DEF Range
  <2> QED
    BY <1>1 DEF IsInjective
<1> QED
  BY <1>1, <1>2, <1>3, <1>4

\* An item or a list at the end of a list leaves its head.
LEMMA HeadStays ==
  ASSUME NEW S, NEW s \in Seq(S), s # <<>>
  PROVE  /\ Head(s) = s[1] /\ \A x \in S : /\ Append(s, x) # <<>> /\ Append(s, x)[1] = s[1]
                                           /\ Tail(Append(s, x)) = Append(Tail(s), x)
         /\ \A t \in Seq(S) : s \o t = <<s[1]>> \o (Tail(s) \o t)
<1>1. ASSUME NEW x \in S
      PROVE  /\ Append(s, x) # <<>> /\ Append(s, x)[1] = s[1]
             /\ Tail(Append(s, x)) = Append(Tail(s), x)
  <2>1. Append(s, x) # <<>> /\ Append(s, x)[1] = s[1]
    OBVIOUS
  <2>2. Tail(Append(s, x)) = Append(Tail(s), x)
    OBVIOUS
  <2> QED
    BY <2>1, <2>2
<1>2. ASSUME NEW t \in Seq(S) PROVE s \o t = <<s[1]>> \o (Tail(s) \o t)
  <2> DEFINE a == s \o t
             b == <<s[1]>> \o (Tail(s) \o t)
  <2>1. s[1] \in S /\ Tail(s) \in Seq(S) /\ Len(Tail(s)) = Len(s) - 1 /\ Len(s) \in Nat \ {0}
    OBVIOUS
  <2>2. a \in Seq(S) /\ b \in Seq(S) /\ Len(a) = Len(b)
    BY <2>1
  <2>3. ASSUME NEW i \in 1..Len(a) PROVE a[i] = b[i]
    BY <2>1, SMTT(30)
  <2> HIDE DEF a, b
  <2>4. a = b
    BY <2>2, <2>3
  <2> QED
    BY <2>4 DEF a, b
<1> QED
  BY <1>1, <1>2

\* A new item at the end is the only change an append makes.
LEMMA AppendProperties ==
  ASSUME NEW S, NEW s \in Seq(S), NEW x \in S
  PROVE  /\ Append(s, x) \in Seq(S) /\ Len(Append(s, x)) = Len(s) + 1
         /\ Range(Append(s, x)) = Range(s) \cup {x}
         /\ IsInjective(s) /\ x \notin Range(s) => IsInjective(Append(s, x))
<1>1. /\ Append(s, x) \in Seq(S) /\ Len(Append(s, x)) = Len(s) + 1 /\ Len(s) \in Nat
      /\ DOMAIN s = 1..Len(s) /\ DOMAIN Append(s, x) = 1..(Len(s) + 1)
      /\ \A i \in DOMAIN s : Append(s, x)[i] = s[i]
      /\ Append(s, x)[Len(s) + 1] = x
  OBVIOUS
<1>2. \A i \in DOMAIN Append(s, x) : i \in DOMAIN s \/ i = Len(s) + 1
  BY <1>1
<1>3. \A y \in Range(Append(s, x)) : y \in Range(s) \cup {x}
  BY <1>1, <1>2 DEF Range
<1>4. \A y \in Range(s) \cup {x} : y \in Range(Append(s, x))
  BY <1>1 DEF Range
<1>5. IsInjective(s) /\ x \notin Range(s) => IsInjective(Append(s, x))
  BY <1>1, <1>2 DEF Range, IsInjective
<1> QED
  BY <1>1, <1>3, <1>4, <1>5

\* The two parts of a list cut at k.
LEMMA SubSeqProperties ==
  ASSUME NEW S, NEW s \in Seq(S), NEW k \in 0..Len(s)
  PROVE  LET a == SubSeq(s, 1, k)
             b == SubSeq(s, k + 1, Len(s))
         IN  /\ a \in Seq(S) /\ b \in Seq(S)
             /\ Range(a) \cup Range(b) = Range(s)
             /\ IsInjective(s) => /\ IsInjective(a) /\ IsInjective(b)
                                  /\ Range(a) \cap Range(b) = {}
<1> DEFINE a == SubSeq(s, 1, k)
           b == SubSeq(s, k + 1, Len(s))
<1>1. /\ Len(s) \in Nat /\ DOMAIN s = 1..Len(s) /\ k \in Nat /\ k <= Len(s)
  OBVIOUS
<1>2. /\ a \in Seq(S) /\ DOMAIN a = 1..k
      /\ \A i \in 1..k : i \in Int /\ i <= k /\ i \in 1..Len(s) /\ a[i] = s[i]
  BY <1>1
<1>3. /\ b \in Seq(S) /\ DOMAIN b = 1..(Len(s) - k)
      /\ \A i \in 1..(Len(s) - k) :
           i \in Int /\ i > 0 /\ i + k \in 1..Len(s) /\ b[i] = s[i + k]
  BY <1>1
<1> HIDE DEF a, b
<1>4. \A x \in Range(a) \cup Range(b) : x \in Range(s)
  <2>1. \A x \in Range(a) : x \in Range(s)
    BY <1>1, <1>2 DEF Range
  <2>2. \A x \in Range(b) : x \in Range(s)
    BY <1>1, <1>3 DEF Range
  <2> QED
    BY <2>1, <2>2
<1>5. \A x \in Range(s) : x \in Range(a) \cup Range(b)
  <2> TAKE x \in Range(s)
  <2>1. PICK i \in 1..Len(s) : x = s[i]
    BY <1>1 DEF Range
  <2>2. CASE i <= k
    BY <1>1, <1>2, <2>1, <2>2 DEF Range
  <2>3. CASE i > k
    <3>1. i - k \in 1..(Len(s) - k) /\ b[i - k] = s[i]
      BY <1>1, <1>3, <2>3
    <3> QED
      BY <1>3, <2>1, <3>1 DEF Range
  <2> QED
    BY <1>1, <2>2, <2>3
<1>6. ASSUME IsInjective(s)
      PROVE  IsInjective(a) /\ IsInjective(b) /\ Range(a) \cap Range(b) = {}
  <2>1. IsInjective(a)
    BY <1>1, <1>2, <1>6 DEF IsInjective
  <2>2. IsInjective(b)
    <3> SUFFICES ASSUME NEW i \in 1..(Len(s) - k), NEW j \in 1..(Len(s) - k), b[i] = b[j]
                 PROVE  i = j
      BY <1>3 DEF IsInjective
    <3>1. i + k = j + k
      BY <1>1, <1>3, <1>6 DEF IsInjective
    <3> QED
      BY <1>1, <1>3, <3>1
  <2>3. ASSUME NEW i \in 1..k, NEW j \in 1..(Len(s) - k) PROVE a[i] # b[j]
    <3>1. i \in DOMAIN s /\ j + k \in DOMAIN s /\ a[i] = s[i] /\ b[j] = s[j + k]
      BY <1>1, <1>2, <1>3
    <3>2. i # j + k
      BY <1>1, <1>2, <1>3
    <3> QED
      BY <1>6, <3>1, <3>2 DEF IsInjective
  <2> QED
    BY <1>2, <1>3, <2>1, <2>2, <2>3 DEF Range
<1> QED
  BY <1>2, <1>3, <1>4, <1>5, <1>6 DEF a, b
-----------------------------------------------------------------------------
(* Least elements.                                                         *)

\* A set of numbers has a least one.
LEMMA LeastNumber ==
  ASSUME NEW N \in SUBSET Nat, N # {}
  PROVE  \E m \in N : \A n \in N : m <= n
<1>1. PICK b \in N : TRUE
  OBVIOUS
<1> DEFINE Segments == {1..m : m \in {n \in N : n <= b}}
<1>2. b \in Nat /\ Segments # {} /\ Segments \subseteq SUBSET (1..b)
  BY <1>1
<1>3. SUBSET (1..b) = FiniteSubsetsOf(1..b)
  <2>1. IsFiniteSet(1..b)
    BY <1>2, FS_Interval
  <2> QED
    BY <2>1, FS_FiniteSubsetsOfFinite, Zenon
<1>4. PICK s \in Segments : \A t \in Segments : ~(<<t, s>> \in StrictSubsetOrdering(1..b))
  <2> HIDE DEF Segments
  <2> QED
    BY <1>2, <1>3, FS_StrictSubsetOrderingWellFounded, WFMin
<1>5. PICK m \in N : m <= b /\ s = 1..m
  BY <1>4
<1>6. ASSUME NEW n \in N, n < m PROVE FALSE
  <2> DEFINE t == 1..n
  <2>1. t \in Segments
    BY <1>2, <1>5, <1>6
  <2>2. t \in SUBSET (1..b) /\ s \in SUBSET (1..b) /\ t \subseteq s /\ t # s
    <3>1. m \in s /\ m \notin t
      BY <1>5, <1>6
    <3> QED
      BY <1>2, <1>5, <1>6, <3>1
  <2> HIDE DEF t, Segments
  <2> QED
    BY <1>4, <2>1, <2>2 DEF StrictSubsetOrdering
<1> QED
  BY <1>5, <1>6

\* A set of pairs orders S strictly and totally; what it has before x.
Orders(R, S) ==
  /\ \A x \in S : <<x, x>> \notin R
  /\ \A x, y, z \in S : <<x, y>> \in R /\ <<y, z>> \in R => <<x, z>> \in R
  /\ \A x, y \in S : x # y => <<x, y>> \in R \/ <<y, x>> \in R
Preceding(R, S, x) == {y \in S : <<y, x>> \in R}

\* A list of each member of S once.
Enumerates(s, S) == s \in Seq(S) /\ Range(s) = S /\ IsInjective(s)

\* In a finite set so ordered, an item has more before it than any item before it.
LEMMA PrecedingGrows ==
  ASSUME NEW S, IsFiniteSet(S), NEW R, Orders(R, S), NEW x \in S
  PROVE  /\ Cardinality(Preceding(R, S, x)) \in 0..(Cardinality(S) - 1)
         /\ \A y \in S : <<y, x>> \in R =>
              Cardinality(Preceding(R, S, y)) < Cardinality(Preceding(R, S, x))
<1> DEFINE P(y) == Preceding(R, S, y)
<1>1. \A y \in S : /\ P(y) \in SUBSET S /\ y \notin P(y)
                   /\ IsFiniteSet(P(y)) /\ Cardinality(P(y)) \in Nat
                   /\ Cardinality(P(y)) <= Cardinality(S)
                   /\ (Cardinality(P(y)) = Cardinality(S) => P(y) = S)
  <2> TAKE y \in S
  <2>1. P(y) \in SUBSET S /\ y \notin P(y)
    BY DEF Orders, Preceding
  <2> HIDE DEF P
  <2> QED
    BY <2>1, FS_Subset, FS_CardinalityType
<1>2. Cardinality(S) \in Nat
  BY FS_CardinalityType
<1>3. ASSUME NEW y \in S, <<y, x>> \in R PROVE Cardinality(P(y)) < Cardinality(P(x))
  <2>1. P(y) \subseteq P(x) /\ y \in P(x) /\ y \notin P(y)
    BY <1>1, <1>3 DEF Orders, Preceding
  <2> HIDE DEF P
  <2>2. /\ Cardinality(P(y)) <= Cardinality(P(x))
        /\ Cardinality(P(y)) = Cardinality(P(x)) => P(y) = P(x)
    BY <1>1, <2>1, FS_Subset
  <2> QED
    BY <1>1, <2>1, <2>2
<1> HIDE DEF P
<1>4. Cardinality(P(x)) \in 0..(Cardinality(S) - 1)
  BY <1>1, <1>2
<1> QED
  BY <1>3, <1>4 DEF P

\* A finite set so ordered has a least item.
LEMMA LeastItem ==
  ASSUME NEW S, IsFiniteSet(S), S # {}, NEW R, Orders(R, S)
  PROVE  \E x \in S : \A y \in S \ {x} : <<x, y>> \in R
<1> DEFINE N == {Cardinality(Preceding(R, S, x)) : x \in S}
<1>1. N \in SUBSET Nat /\ N # {}
  <2>1. \A x \in S : Cardinality(Preceding(R, S, x)) \in Nat
    <3> TAKE x \in S
    <3>1. Cardinality(Preceding(R, S, x)) \in 0..(Cardinality(S) - 1)
      BY PrecedingGrows
    <3> QED
      BY <3>1
  <2> QED
    BY <2>1
<1>2. PICK x \in S : \A n \in N : Cardinality(Preceding(R, S, x)) <= n
  <2> HIDE DEF N
  <2>1. \E m \in N : \A n \in N : m <= n
    BY <1>1, LeastNumber
  <2> QED
    BY <2>1 DEF N
<1>3. ASSUME NEW y \in S, <<y, x>> \in R PROVE FALSE
  <2>1. Cardinality(Preceding(R, S, y)) < Cardinality(Preceding(R, S, x))
    BY <1>3, PrecedingGrows
  <2>2. Cardinality(Preceding(R, S, x)) <= Cardinality(Preceding(R, S, y))
    BY <1>2
  <2>3. Cardinality(Preceding(R, S, y)) \in Nat /\ Cardinality(Preceding(R, S, x)) \in Nat
    BY <1>1
  <2> QED
    BY <2>1, <2>2, <2>3
<1> QED
  BY <1>3 DEF Orders

\* So its items have 0, 1, ... n - 1 items before them.
LEMMA RanksOfOrder ==
  ASSUME NEW S, IsFiniteSet(S), NEW R, Orders(R, S)
  PROVE  /\ \A i \in 1..Cardinality(S) : \E x \in S : Cardinality(Preceding(R, S, x)) = i - 1
         /\ \A x, y \in S : Cardinality(Preceding(R, S, x)) = Cardinality(Preceding(R, S, y)) => x = y
<1> DEFINE n == Cardinality(S)
           rank == [x \in S |-> Cardinality(Preceding(R, S, x)) + 1]
<1>1. n \in Nat
  BY FS_CardinalityType
<1>2. \A x \in S : Cardinality(Preceding(R, S, x)) \in 0..(n - 1)
  BY PrecedingGrows
<1>3. rank \in [S -> 1..n]
  BY <1>1, <1>2
<1>4. \A x, y \in S : rank[x] = rank[y] => x = y
  <2> SUFFICES ASSUME NEW x \in S, NEW y \in S, <<x, y>> \in R PROVE rank[x] # rank[y]
    BY DEF Orders
  <2>1. Cardinality(Preceding(R, S, x)) < Cardinality(Preceding(R, S, y))
    BY PrecedingGrows
  <2> QED
    BY <1>2, <2>1
<1> HIDE DEF n
<1>5. \A i \in 1..n : \E x \in S : rank[x] = i
  <2>1. rank \in Injection(S, 1..n)
    BY <1>3, <1>4 DEF Injection, IsInjective
  <2>2. IsFiniteSet(1..n) /\ Cardinality(1..n) = n
    BY <1>1, FS_Interval
  <2>3. rank \in Surjection(S, 1..n)
    BY <2>1, <2>2, FS_Injection DEF n
  <2> QED
    BY <2>3 DEF Surjection
<1>6. \A i \in 1..n : \E x \in S : Cardinality(Preceding(R, S, x)) = i - 1
  <2> TAKE i \in 1..n
  <2>1. PICK x \in S : rank[x] = i
    BY <1>5
  <2>2. Cardinality(Preceding(R, S, x)) + 1 = i
    BY <2>1
  <2> QED
    BY <1>2, <2>2
<1>7. \A x, y \in S : Cardinality(Preceding(R, S, x)) = Cardinality(Preceding(R, S, y)) => x = y
  BY <1>4
<1> QED
  BY <1>6, <1>7 DEF n

\* A list whose item at i has i - 1 items before it holds each of them once.
LEMMA RankedList ==
  ASSUME NEW S, IsFiniteSet(S), NEW R, Orders(R, S), NEW s \in [1..Cardinality(S) -> S],
         \A i \in 1..Cardinality(S) : Cardinality(Preceding(R, S, s[i])) = i - 1
  PROVE  Enumerates(s, S)
<1> DEFINE n == Cardinality(S)
<1>1. n \in Nat /\ s \in Seq(S)
  BY FS_CardinalityType
<1>2. \A x \in S : Cardinality(Preceding(R, S, x)) \in 0..(n - 1)
  BY PrecedingGrows
<1>3. \A x, y \in S : Cardinality(Preceding(R, S, x)) = Cardinality(Preceding(R, S, y)) => x = y
  BY RanksOfOrder
<1> HIDE DEF n
<1>4. \A x \in S : \E i \in 1..n : s[i] = x
  <2> TAKE x \in S
  <2> DEFINE i == Cardinality(Preceding(R, S, x)) + 1
  <2>1. i \in 1..n /\ Cardinality(Preceding(R, S, x)) = i - 1
    BY <1>1, <1>2
  <2>2. s[i] \in S /\ Cardinality(Preceding(R, S, s[i])) = i - 1
    BY <2>1 DEF n
  <2> QED
    BY <1>3, <2>1, <2>2
<1>5. Range(s) = S
  BY <1>4 DEF Range, n
<1>6. IsInjective(s)
  BY DEF IsInjective
<1> QED
  BY <1>1, <1>5, <1>6 DEF Enumerates

-----------------------------------------------------------------------------
(* Loops: recursive functions that call themselves once, at the end.       *)

\* f maps a state of the loop to what the loop returns from there: the base of a
\* state that stops it, or what it returns from the next state.
Loops(f, D, stop, base, step) ==
  f = [s \in D |-> IF s \in stop THEN base[s] ELSE f[step[s]]]

\* Such a function exists, whether the loop ends or not: a state is mapped to the base
\* of a stop among the states that it reaches.
LEMMA LoopExists ==
  ASSUME NEW D, NEW stop, NEW base, NEW step, \A s \in D \ stop : step[s] \in D
  PROVE  \E f : Loops(f, D, stop, base, step)
<1> DEFINE Closed(C) == C \in SUBSET D /\ \A c \in C \ stop : step[c] \in C
           Stops(s) == {t \in D : t \in stop /\ \A C \in SUBSET D : Closed(C) /\ s \in C => t \in C}
           End(X) == CHOOSE t : t \in X
           f == [s \in D |-> base[End(Stops(s))]]
<1>1. \A s \in D : s \in stop => End(Stops(s)) = s
  <2> SUFFICES ASSUME NEW s \in D, s \in stop PROVE Stops(s) = {s}
    BY Zenon
  <2>1. Closed({s})
    OBVIOUS
  <2>2. \A t \in Stops(s) : t \in {s}
    BY <2>1
  <2>3. s \in Stops(s)
    OBVIOUS
  <2> QED
    BY <2>2, <2>3
<1>2. \A s \in D : s \notin stop => Stops(s) = Stops(step[s])
  <2> SUFFICES ASSUME NEW s \in D, s \notin stop PROVE Stops(s) = Stops(step[s])
    OBVIOUS
  <2>1. ASSUME NEW t \in Stops(s) PROVE t \in Stops(step[s])
    <3> SUFFICES ASSUME NEW C \in SUBSET D, Closed(C), step[s] \in C PROVE t \in C
      BY <2>1
    <3>1. Closed(C \cup {s})
      OBVIOUS
    <3>2. t \in C \cup {s} /\ t \in stop
      BY <2>1, <3>1
    <3> QED
      BY <3>2
  <2>2. ASSUME NEW t \in Stops(step[s]) PROVE t \in Stops(s)
    <3> SUFFICES ASSUME NEW C \in SUBSET D, Closed(C), s \in C PROVE t \in C
      BY <2>2
    <3>1. step[s] \in C
      OBVIOUS
    <3> QED
      BY <2>2, <3>1
  <2> QED
    BY <2>1, <2>2
<1> HIDE DEF Stops, End
<1>3. \A s \in D : f[s] = IF s \in stop THEN base[s] ELSE f[step[s]]
  BY <1>1, <1>2, Zenon
<1> HIDE DEF f
<1>4. DOMAIN f = D /\ f = [s \in DOMAIN f |-> f[s]]
  BY DEF f
<1>5. Loops(f, D, stop, base, step)
  BY <1>3, <1>4, Zenon DEF Loops
<1> QED
  BY <1>5

\* From a set of states that the loop does not leave, and in which a count goes down
\* with every round, it returns the base of one that stops it.
LEMMA LoopEnds ==
  ASSUME NEW D, NEW stop, NEW base, NEW step, NEW f, Loops(f, D, stop, base, step),
         NEW J \in SUBSET D, NEW mu, \A s \in J : mu[s] \in Nat,
         \A s \in J \ stop : step[s] \in J /\ mu[step[s]] < mu[s],
         NEW s0 \in J
  PROVE  \E t \in J \cap stop : f[s0] = base[t]
<1> DEFINE T == {s \in J : f[s] = f[s0]}
           N == {mu[s] : s \in T}
<1>1. \A s \in J : f[s] = IF s \in stop THEN base[s] ELSE f[step[s]]
  BY Zenon DEF Loops
<1>2. N \in SUBSET Nat /\ N # {}
  OBVIOUS
<1>3. PICK t \in T : \A n \in N : mu[t] <= n
  <2> HIDE DEF N
  <2>1. \E m \in N : \A n \in N : m <= n
    BY <1>2, LeastNumber
  <2> QED
    BY <2>1 DEF N
<1>4. t \in stop
  <2> SUFFICES ASSUME t \notin stop PROVE FALSE
    OBVIOUS
  <2>1. step[t] \in T /\ mu[step[t]] < mu[t]
    BY <1>1
  <2>2. mu[t] <= mu[step[t]] /\ mu[t] \in Nat /\ mu[step[t]] \in Nat
    BY <1>3, <2>1
  <2> QED
    BY <2>1, <2>2
<1> QED
  BY <1>1, <1>4

\* mu counts down on J, which the loop does not leave.
CountsDown(mu, J, stop, step) ==
  /\ \A s \in J : mu[s] \in Nat
  /\ \A s \in J \ stop : step[s] \in J /\ mu[step[s]] < mu[s]

\* h maps the states in J to states of a loop that goes along with this one, and R
\* relates what the two return in the end.
GoesAlong(h, J, stop, base, step, E, halt, end, next, R) ==
  /\ \A s \in J : h[s] \in E /\ (s \in stop <=> h[s] \in halt)
  /\ \A s \in J \ stop : h[step[s]] = next[h[s]]
  /\ \A s \in J \cap stop : <<base[s], end[h[s]]>> \in R

LEMMA LoopsAgree ==
  ASSUME NEW D, NEW stop, NEW base, NEW step, NEW f, Loops(f, D, stop, base, step),
         NEW E, NEW halt, NEW end, NEW next, NEW g, Loops(g, E, halt, end, next),
         NEW J \in SUBSET D, NEW mu, CountsDown(mu, J, stop, step),
         NEW h, NEW R, GoesAlong(h, J, stop, base, step, E, halt, end, next, R),
         NEW s0 \in J
  PROVE  <<f[s0], g[h[s0]]>> \in R
<1> DEFINE T == {s \in J : f[s] = f[s0] /\ g[h[s]] = g[h[s0]]}
           N == {mu[s] : s \in T}
<1>1. \A s \in J : f[s] = IF s \in stop THEN base[s] ELSE f[step[s]]
  BY Zenon DEF Loops
<1>2. \A s \in J : g[h[s]] = IF h[s] \in halt THEN end[h[s]] ELSE g[next[h[s]]]
  BY Zenon DEF Loops, GoesAlong
<1>3. N \in SUBSET Nat /\ N # {}
  BY DEF CountsDown
<1>4. PICK t \in T : \A n \in N : mu[t] <= n
  <2> HIDE DEF N
  <2>1. \E m \in N : \A n \in N : m <= n
    BY <1>3, LeastNumber
  <2> QED
    BY <2>1 DEF N
<1>5. t \in stop
  <2> SUFFICES ASSUME t \notin stop PROVE FALSE
    OBVIOUS
  <2>1. step[t] \in T /\ mu[step[t]] < mu[t]
    BY <1>1, <1>2 DEF CountsDown, GoesAlong
  <2>2. mu[t] <= mu[step[t]] /\ mu[t] \in Nat /\ mu[step[t]] \in Nat
    BY <1>4, <2>1 DEF CountsDown
  <2> QED
    BY <2>1, <2>2
<1> QED
  BY <1>1, <1>2, <1>5 DEF GoesAlong

-----------------------------------------------------------------------------
(* Finite sets.                                                            *)

\* What a function makes of a finite set is finite, and no larger.
LEMMA ImageIsFinite ==
  ASSUME NEW S, IsFiniteSet(S), NEW f
  PROVE  /\ IsFiniteSet({f[x] : x \in S})
         /\ Cardinality({f[x] : x \in S}) <= Cardinality(S)
<1> DEFINE g == [x \in S |-> f[x]]
<1>1. g \in Surjection(S, {f[x] : x \in S})
  BY DEF Surjection
<1> QED
  BY <1>1, FS_Surjection

-----------------------------------------------------------------------------
(* Enumerations.                                                           *)

\* An enumeration of a set is as long as the set is large.
LEMMA EnumerationSize ==
  ASSUME NEW S, NEW s, Enumerates(s, S)
  PROVE  /\ IsFiniteSet(S) /\ Len(s) \in Nat /\ Len(s) = Cardinality(S)
         /\ DOMAIN s = 1..Len(s)
         /\ \A i \in 1..Len(s) : s[i] \in S
         /\ \A i, j \in 1..Len(s) : s[i] = s[j] => i = j
         /\ \A x \in S : \E i \in 1..Len(s) : s[i] = x
<1>1. /\ s \in Seq(S) /\ Len(s) \in Nat /\ DOMAIN s = 1..Len(s)
      /\ \A i \in 1..Len(s) : s[i] \in S
      /\ \A x \in S : \E i \in 1..Len(s) : s[i] = x
      /\ \A i, j \in 1..Len(s) : s[i] = s[j] => i = j
  BY DEF Enumerates, Range, IsInjective
<1> DEFINE n == Len(s)
<1>2. s \in [1..n -> S]
  BY <1>1
<1> HIDE DEF n
<1>3. s \in Bijection(1..n, S)
  BY <1>1, <1>2 DEF Bijection, Injection, Surjection, IsInjective, n
<1>4. ExistsBijection(1..n, S)
  BY <1>3 DEF ExistsBijection
<1>5. IsFiniteSet(S) /\ Cardinality(S) = n
  <2>1. n \in Nat
    BY <1>1 DEF n
  <2> QED
    BY <1>4, <2>1, FS_CountingElements, FS_NatBijection
<1> QED
  BY <1>1, <1>5 DEF n

\* Of an enumeration, the first item, and the enumeration of the others.
LEMMA EnumerationTail ==
  ASSUME NEW S, NEW s, Enumerates(s, S), S # {}
  PROVE  /\ s # <<>> /\ Head(s) = s[1] /\ s[1] \in S
         /\ Enumerates(Tail(s), S \ {s[1]})
         /\ Len(Tail(s)) = Len(s) - 1
         /\ \A i \in 1..(Len(s) - 1) : Tail(s)[i] = s[i + 1]
<1>1. /\ s \in Seq(S) /\ Len(s) \in Nat /\ DOMAIN s = 1..Len(s)
      /\ Range(s) = S /\ IsInjective(s)
  BY DEF Enumerates
<1>2. s # <<>>
  <2>1. Range(<<>>) = {}
    BY DEF Range
  <2> QED
    BY <1>1, <2>1
<1>3. /\ Head(s) = s[1] /\ s[1] \in S /\ Tail(s) \in Seq(S)
      /\ Len(Tail(s)) = Len(s) - 1
      /\ \A i \in 1..(Len(s) - 1) : Tail(s)[i] = s[i + 1]
  BY <1>1, <1>2
<1>4. /\ Range(s) = {Head(s)} \cup Range(Tail(s))
      /\ Head(s) \notin Range(Tail(s)) /\ IsInjective(Tail(s))
  BY <1>1, <1>2, HeadAndTail, TailProperties
<1> DEFINE t == Tail(s)
<1>5. t \in Seq(S) /\ Range(t) = S \ {s[1]} /\ IsInjective(t)
  BY <1>1, <1>3, <1>4
<1> HIDE DEF t
<1>6. t \in Seq(S \ {s[1]})
  <2>1. DOMAIN t = 1..Len(t) /\ Len(t) \in Nat /\ \A i \in 1..Len(t) : t[i] \in Range(t)
    BY <1>5 DEF Range
  <2> QED
    BY <1>5, <2>1
<1>7. Enumerates(t, S \ {s[1]})
  BY <1>5, <1>6 DEF Enumerates
<1> QED
  BY <1>2, <1>3, <1>7 DEF t

=============================================================================
