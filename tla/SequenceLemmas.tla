--------------------------- MODULE SequenceLemmas ---------------------------
(***************************************************************************)
(* Facts that proofs about several components need and the library does    *)
(* not state: induction as a fact about a set of numbers, what a fold over *)
(* a sequence computes, and that a strict order of a finite set numbers    *)
(* its elements.                                                           *)
(***************************************************************************)
EXTENDS SequencesExt, FiniteSetTheorems, WellFoundedInduction, TLAPS

-----------------------------------------------------------------------------
(* Numbers                                                                 *)

\* A set that contains 0 and with a number its successor contains them all.
LEMMA SetInduction ==
    ASSUME NEW S, 0 \in S, \A n \in Nat : n \in S => n + 1 \in S
    PROVE  \A n \in Nat : n \in S
<1>1. SUFFICES ASSUME NEW m \in Nat, m \notin S
               PROVE  FALSE
  OBVIOUS
<1> DEFINE U == {n \in Nat : n \notin S}
<1>2. U \subseteq Nat /\ U # {}
  BY <1>1
<1>3. PICK u \in U : \A v \in U : ~(<<v, u>> \in OpToRel(<, Nat))
  <2> HIDE DEF U
  <2> QED BY <1>2, NatLessThanWellFounded, WFMin, Zenon
<1>4. u \in Nat /\ u \notin S
  OBVIOUS
<1>5. u # 0
  BY <1>4
<1>6. u - 1 \in Nat /\ u - 1 < u
  BY <1>4, <1>5
<1>7. <<u - 1, u>> \in OpToRel(<, Nat)
  BY <1>4, <1>6 DEF OpToRel
<1>8. u - 1 \in S
  BY <1>3, <1>6, <1>7
<1> QED BY <1>4, <1>6, <1>8

\* A set of numbers between 1 and n has a greatest element.
LEMMA GreatestUpTo ==
    ASSUME NEW n \in Nat, NEW T \in SUBSET (1..n), T # {}
    PROVE  Max(T) \in T /\ \A y \in T : y <= Max(T)
<1> DEFINE Good == {m \in Nat : \A U \in SUBSET (1..m) : U # {} => \E x \in U : \A y \in U : x >= y}
<1>1. 0 \in Good
  <2>1. 1..0 = {}
    OBVIOUS
  <2>2. \A U \in SUBSET (1..0) : U = {}
    BY <2>1
  <2> QED BY <2>2
<1>2. ASSUME NEW m \in Nat, m \in Good
      PROVE  m + 1 \in Good
  <2>1. ASSUME NEW U \in SUBSET (1..(m + 1)), U # {}
        PROVE  \E x \in U : \A y \in U : x >= y
    <3>1. CASE m + 1 \in U
      BY <3>1
    <3>2. CASE m + 1 \notin U
      <4>1. U \in SUBSET (1..m)
        BY <3>2
      <4> QED BY <1>2, <2>1, <4>1
    <3> QED BY <3>1, <3>2
  <2> QED BY <2>1
<1>3. n \in Good
  <2>1. \A m \in Nat : m \in Good => m + 1 \in Good
    BY <1>2
  <2> HIDE DEF Good
  <2> QED BY <1>1, <2>1, SetInduction
<1>4. \E x \in T : \A y \in T : x >= y
  BY <1>3
<1>5. Max(T) \in T /\ \A y \in T : Max(T) >= y
  BY <1>4 DEF Max
<1> QED BY <1>5

\* Of finitely many things one has the greatest value.
LEMMA GreatestBy ==
    ASSUME NEW S, IsFiniteSet(S), S # {}, NEW f \in [S -> Int]
    PROVE  \E x \in S : \A y \in S : f[y] <= f[x]
<1>1. PICK n \in Nat : \E b : b \in Surjection(1..n, S)
  BY FS_NatSurjection, Zenon DEF ExistsSurjection
<1>2. PICK b \in [1..n -> S] : \A y \in S : \E k \in 1..n : b[k] = y
  BY <1>1 DEF Surjection
<1> DEFINE Good == {m \in Nat : m = 0 \/ (m <= n => \E k \in 1..m : \A l \in 1..m : f[b[l]] <= f[b[k]])}
<1>3. ASSUME NEW m \in Nat, m \in Good
      PROVE  m + 1 \in Good
  <2>1. SUFFICES ASSUME m + 1 <= n
                 PROVE  \E k \in 1..(m + 1) : \A l \in 1..(m + 1) : f[b[l]] <= f[b[k]]
    OBVIOUS
  <2>2. \A l \in 1..(m + 1) : b[l] \in S /\ f[b[l]] \in Int /\ (l = m + 1 \/ l \in 1..m)
    BY <1>2, <2>1
  <2>3. CASE m = 0
    <3>1. m + 1 \in 1..(m + 1) /\ \A l \in 1..(m + 1) : l = m + 1
      BY <2>3
    <3>2. \A l \in 1..(m + 1) : f[b[l]] <= f[b[m + 1]]
      BY <2>2, <3>1
    <3> QED BY <3>1, <3>2
  <2>4. CASE m # 0
    <3>1. PICK k \in 1..m : \A l \in 1..m : f[b[l]] <= f[b[k]]
      BY <1>3, <2>1, <2>4
    <3>2. k \in 1..(m + 1) /\ m + 1 \in 1..(m + 1) /\ f[b[k]] \in Int /\ f[b[m + 1]] \in Int
      BY <2>2
    <3>3. CASE f[b[m + 1]] <= f[b[k]]
      BY <2>2, <3>1, <3>2, <3>3
    <3>4. CASE f[b[k]] <= f[b[m + 1]]
      <4>1. ASSUME NEW l \in 1..(m + 1)
            PROVE  f[b[l]] <= f[b[m + 1]]
        <5>1. CASE l = m + 1
          BY <3>2, <5>1
        <5>2. CASE l \in 1..m
          <6>1. f[b[l]] <= f[b[k]] /\ f[b[l]] \in Int
            BY <2>2, <3>1, <5>2
          <6> QED BY <3>2, <3>4, <6>1
        <5> QED BY <2>2, <5>1, <5>2
      <4> QED BY <3>2, <4>1
    <3> QED BY <3>2, <3>3, <3>4
  <2> QED BY <2>3, <2>4
<1>4. n \in Good
  <2>1. 0 \in Good
    OBVIOUS
  <2>2. \A m \in Nat : m \in Good => m + 1 \in Good
    BY <1>3
  <2> HIDE DEF Good
  <2> QED BY <2>1, <2>2, SetInduction
<1>5. n # 0
  <2>1. SUFFICES ASSUME n = 0
                 PROVE  FALSE
    OBVIOUS
  <2>2. \A k \in 1..n : FALSE
    BY <2>1
  <2> QED BY <1>2, <2>2
<1>6. PICK k \in 1..n : \A l \in 1..n : f[b[l]] <= f[b[k]]
  BY <1>4, <1>5
<1>7. b[k] \in S /\ \A y \in S : f[y] <= f[b[k]]
  BY <1>2, <1>6
<1> QED BY <1>7

\* And one of those that rank first by one number is the first by another.
LEMMA GreatestByBoth ==
    ASSUME NEW S, IsFiniteSet(S), S # {}, NEW f \in [S -> Int], NEW g \in [S -> Int]
    PROVE  \E x \in S : \A y \in S : f[y] < f[x] \/ (f[y] = f[x] /\ g[y] <= g[x])
<1> DEFINE T == {x \in S : \A y \in S : f[y] <= f[x]}
           h == [x \in T |-> g[x]]
<1>1. T # {}
  BY GreatestBy
<1>2. T \in SUBSET S /\ IsFiniteSet(T)
  <2>1. T \in SUBSET S
    OBVIOUS
  <2> HIDE DEF T
  <2> QED BY <2>1, FS_Subset
<1>3. h \in [T -> Int]
  <2> HIDE DEF T
  <2> QED BY <1>2
<1>4. PICK x \in T : \A y \in T : h[y] <= h[x]
  <2> HIDE DEF h, T
  <2> QED BY <1>1, <1>2, <1>3, GreatestBy
<1>5. ASSUME NEW y \in S
      PROVE  f[y] < f[x] \/ (f[y] = f[x] /\ g[y] <= g[x])
  <2>1. x \in S /\ f[y] <= f[x] /\ f[x] \in Int /\ f[y] \in Int
    OBVIOUS
  <2>2. ASSUME f[y] = f[x]
        PROVE  g[y] <= g[x]
    <3>1. y \in T
      BY <2>2
    <3> HIDE DEF T
    <3> QED BY <1>4, <3>1
  <2> HIDE DEF T
  <2> QED BY <2>1, <2>2
<1> QED BY <1>2, <1>5

-----------------------------------------------------------------------------
(* Folds                                                                   *)

\* What a step keeps, all the steps of a sequence keep.
LEMMA FoldStays ==
    ASSUME NEW A, NEW n \in Nat, NEW c, c[{}] \in A,
           \A k \in 1..n : c[1..(k - 1)] \in A => c[1..k] \in A
    PROVE  c[1..n] \in A
<1> DEFINE Good == {m \in Nat : m <= n => c[1..m] \in A}
<1>1. 0 \in Good
  <2>1. 1..0 = {}
    OBVIOUS
  <2> QED BY <2>1
<1>2. \A m \in Nat : m \in Good => m + 1 \in Good
  <2>1. ASSUME NEW m \in Nat, m \in Good, m + 1 <= n
        PROVE  c[1..(m + 1)] \in A
    <3>1. PICK k \in 1..n : k = m + 1
      BY <2>1
    <3>2. k - 1 = m /\ m <= n
      BY <2>1, <3>1
    <3>3. c[1..(k - 1)] \in A
      BY <2>1, <3>2
    <3> QED BY <3>1, <3>3
  <2> QED BY <2>1
<1>3. n \in Good
  <2> HIDE DEF Good
  <2> QED BY <1>1, <1>2, SetInduction
<1> QED BY <1>3

\* it is the recursive function by which Folds defines a fold over 1..n, of the
\* step G from base.
IsFoldTable(it, A, base, n, G) ==
    /\ it \in [SUBSET (1..n) -> A]
    /\ \A t \in SUBSET (1..n) :
          it[t] = IF t = {} THEN base ELSE G[<<Max(t), it[t \ {Max(t)}]>>]

\* That function exists, whatever the step: it is built up from the empty set.
LEMMA FoldTableExists ==
    ASSUME NEW A, NEW base \in A, NEW n \in Nat, NEW G \in [(1..n) \X A -> A]
    PROVE  \E it : IsFoldTable(it, A, base, n, G)
<1> DEFINE Table(m, it) ==
              \A t \in SUBSET (1..m) :
                 it[t] = IF t = {} THEN base ELSE G[<<Max(t), it[t \ {Max(t)}]>>]
           Has(m) == m <= n => \E it \in [SUBSET (1..m) -> A] : Table(m, it)
           Good == {m \in Nat : Has(m)}
<1>1. 0 \in Good
  <2> DEFINE it == [t \in SUBSET (1..0) |-> base]
  <2>1. \A t \in SUBSET (1..0) : t = {}
    OBVIOUS
  <2>2. it \in [SUBSET (1..0) -> A]
    OBVIOUS
  <2>3. Table(0, it)
    BY <2>1
  <2> QED BY <2>2, <2>3
<1>2. ASSUME NEW m \in Nat, m \in Good
      PROVE  m + 1 \in Good
  <2>0. SUFFICES Has(m + 1)
    <3> HIDE DEF Has
    <3> QED OBVIOUS
  <2>1. SUFFICES ASSUME m + 1 <= n
                 PROVE  \E it \in [SUBSET (1..(m + 1)) -> A] : Table(m + 1, it)
    <3> HIDE DEF Table
    <3> QED OBVIOUS
  <2>2. PICK low \in [SUBSET (1..m) -> A] : Table(m, low)
    <3>1. m <= n
      BY <2>1
    <3> HIDE DEF Table
    <3> QED BY <1>2, <3>1
  <2> DEFINE it == [t \in SUBSET (1..(m + 1)) |->
                      IF m + 1 \in t THEN G[<<m + 1, low[t \ {m + 1}]>>] ELSE low[t]]
  <2>3. ASSUME NEW t \in SUBSET (1..(m + 1))
        PROVE  it[t] \in A /\ it[t] = IF t = {} THEN base ELSE G[<<Max(t), it[t \ {Max(t)}]>>]
    <3>1. CASE m + 1 \in t
      <4>1. Max(t) \in t /\ \A y \in t : y <= Max(t)
        <5>1. m + 1 \in Nat /\ t # {}
          BY <3>1
        <5> HIDE DEF it, Table, Good
        <5> QED BY <5>1, GreatestUpTo
      <4>2. Max(t) = m + 1
        <5>1. Max(t) \in 1..(m + 1) /\ m + 1 <= Max(t)
          BY <3>1, <4>1
        <5> QED BY <5>1
      <4>3. t \ {m + 1} \in SUBSET (1..m) /\ t \ {m + 1} \in SUBSET (1..(m + 1))
        OBVIOUS
      <4>4. it[t \ {m + 1}] = low[t \ {m + 1}]
        BY <4>3
      <4>5. it[t] = G[<<m + 1, low[t \ {m + 1}]>>]
        BY <3>1
      <4>6. low[t \ {m + 1}] \in A
        BY <2>2, <4>3
      <4>7. <<m + 1, low[t \ {m + 1}]>> \in (1..n) \X A
        BY <2>1, <4>6
      <4>8. G[<<m + 1, low[t \ {m + 1}]>>] \in A
        BY <4>7
      <4>9. t # {}
        BY <3>1
      <4> HIDE DEF it
      <4> QED BY <4>2, <4>4, <4>5, <4>8, <4>9
    <3>2. CASE m + 1 \notin t
      <4>1. t \in SUBSET (1..m)
        BY <3>2
      <4>2. it[t] = low[t]
        BY <3>2
      <4>3. low[t] \in A
        BY <2>2, <4>1
      <4>4. CASE t = {}
        <5>1. low[t] = base
          BY <2>2, <4>1, <4>4
        <5> HIDE DEF it
        <5> QED BY <4>2, <4>3, <4>4, <5>1
      <4>5. CASE t # {}
        <5>1. Max(t) \in t
          BY <4>1, <4>5, GreatestUpTo
        <5>2. /\ t \ {Max(t)} \in SUBSET (1..(m + 1)) /\ t \ {Max(t)} \in SUBSET (1..m)
              /\ m + 1 \notin t \ {Max(t)}
          BY <3>2, <4>1
        <5>3. it[t \ {Max(t)}] = low[t \ {Max(t)}]
          <6> DEFINE d == t \ {Max(t)}
          <6>1. d \in SUBSET (1..(m + 1)) /\ m + 1 \notin d
            BY <5>2
          <6>2. it[d] = low[d]
            <7> HIDE DEF d
            <7> QED BY <6>1
          <6> QED BY <6>2
        <5>4. low[t] = G[<<Max(t), low[t \ {Max(t)}]>>]
          BY <2>2, <4>1, <4>5
        <5> HIDE DEF it
        <5> QED BY <4>2, <4>3, <4>5, <5>3, <5>4
      <4> QED BY <4>4, <4>5
    <3> QED BY <3>1, <3>2
  <2>4. it \in [SUBSET (1..(m + 1)) -> A]
    <3>1. \A t \in SUBSET (1..(m + 1)) : it[t] \in A
      BY <2>3
    <3> QED BY <3>1
  <2>5. Table(m + 1, it)
    BY <2>3
  <2> HIDE DEF it, Table
  <2> QED BY <2>4, <2>5
<1>3. n \in Good
  <2>1. \A m \in Nat : m \in Good => m + 1 \in Good
    BY <1>2
  <2> HIDE DEF Good
  <2> QED BY <1>1, <2>1, SetInduction
<1>4. n \in Nat /\ n <= n
  OBVIOUS
<1>5. PICK it \in [SUBSET (1..n) -> A] : Table(n, it)
  BY <1>3, <1>4
<1> QED BY <1>5 DEF IsFoldTable

\* The greatest element of 1..k, which a fold over a sequence takes last.
LEMMA LastOfInterval ==
    ASSUME NEW k \in Nat, k # 0
    PROVE  /\ Max(1..k) = k /\ (1..k) \ {k} = 1..(k - 1) /\ 1..k # {} /\ k - 1 \in Nat
<1>1. k \in 1..k /\ 1..k # {} /\ 1..k \in SUBSET (1..k)
  OBVIOUS
<1>2. Max(1..k) \in 1..k /\ \A y \in 1..k : y <= Max(1..k)
  BY <1>1, GreatestUpTo
<1>3. Max(1..k) = k
  BY <1>1, <1>2
<1>4. (1..k) \ {k} = 1..(k - 1) /\ k - 1 \in Nat
  OBVIOUS
<1> QED BY <1>1, <1>3, <1>4

-----------------------------------------------------------------------------
(* Orders                                                                  *)

\* In a strict total order of a finite set the elements have 0, 1, ... others
\* before them: each number up to the size once.
LEMMA OrderNumbers ==
    ASSUME NEW S, IsFiniteSet(S), NEW R \in SUBSET (S \X S),
           \A i \in S : <<i, i>> \notin R,
           \A i, j, k \in S : <<i, j>> \in R /\ <<j, k>> \in R => <<i, k>> \in R,
           \A i, j \in S : i # j => <<i, j>> \in R \/ <<j, i>> \in R
    PROVE  /\ Cardinality(S) \in Nat
           /\ \A k \in 1..Cardinality(S) : \E i \in S : Cardinality({j \in S : <<j, i>> \in R}) = k - 1
           /\ \A i \in S : Cardinality({j \in S : <<j, i>> \in R}) + 1 \in 1..Cardinality(S)
           /\ \A i, j \in S : <<i, j>> \in R <=>
                 Cardinality({l \in S : <<l, i>> \in R}) < Cardinality({l \in S : <<l, j>> \in R})
<1> DEFINE Below(i) == {j \in S : <<j, i>> \in R}
           n == Cardinality(S)
<1>1. n \in Nat
  BY FS_CardinalityType
<1>2. ASSUME NEW i \in S
      PROVE  /\ IsFiniteSet(Below(i)) /\ Cardinality(Below(i)) \in Nat
             /\ Cardinality(Below(i)) + 1 <= n
  <2>1. IsFiniteSet(S \ {i}) /\ Cardinality(S \ {i}) = n - 1
    BY FS_RemoveElement
  <2>2. Below(i) \in SUBSET (S \ {i})
    OBVIOUS
  <2>3. IsFiniteSet(Below(i)) /\ Cardinality(Below(i)) <= n - 1
    <3> HIDE DEF Below, n
    <3> QED BY <2>1, <2>2, FS_Subset
  <2>4. Cardinality(Below(i)) \in Nat
    <3> HIDE DEF Below
    <3> QED BY <2>3, FS_CardinalityType
  <2> HIDE DEF Below, n
  <2> QED BY <1>1, <2>3, <2>4
<1>3. ASSUME NEW i \in S, NEW j \in S, <<i, j>> \in R
      PROVE  Cardinality(Below(i)) < Cardinality(Below(j))
  <2>1. Below(i) \in SUBSET Below(j) /\ i \in Below(j) /\ i \notin Below(i)
    BY <1>3
  <2>2. /\ IsFiniteSet(Below(j)) /\ Cardinality(Below(i)) \in Nat /\ Cardinality(Below(j)) \in Nat
    BY <1>2
  <2> HIDE DEF Below
  <2>3. /\ Cardinality(Below(i)) <= Cardinality(Below(j))
        /\ Cardinality(Below(j)) = Cardinality(Below(i)) => Below(j) = Below(i)
    BY <2>1, <2>2, FS_Subset
  <2> QED BY <2>1, <2>2, <2>3
<1> DEFINE rank == [i \in S |-> Cardinality(Below(i)) + 1]
<1>4. rank \in [S -> 1..n]
  <2>1. \A i \in S : Cardinality(Below(i)) + 1 \in 1..n
    <3> HIDE DEF Below, n
    <3> QED BY <1>1, <1>2
  <2> HIDE DEF Below, n
  <2> QED BY <2>1
<1>5. rank \in Injection(S, 1..n)
  <2>1. ASSUME NEW i \in S, NEW j \in S, i # j
        PROVE  rank[i] # rank[j]
    <3>1. CASE <<i, j>> \in R
      <4>1. Cardinality(Below(i)) < Cardinality(Below(j))
        BY <1>3, <3>1
      <4>2. Cardinality(Below(i)) \in Nat /\ Cardinality(Below(j)) \in Nat
        BY <1>2
      <4> HIDE DEF Below
      <4> QED BY <4>1, <4>2
    <3>2. CASE <<j, i>> \in R
      <4>1. Cardinality(Below(j)) < Cardinality(Below(i))
        BY <1>3, <3>2
      <4>2. Cardinality(Below(i)) \in Nat /\ Cardinality(Below(j)) \in Nat
        BY <1>2
      <4> HIDE DEF Below
      <4> QED BY <4>1, <4>2
    <3> QED BY <2>1, <3>1, <3>2
  <2> HIDE DEF rank, n
  <2> QED BY <1>4, <2>1 DEF Injection, IsInjective
<1>6. IsFiniteSet(1..n) /\ Cardinality(1..n) = n
  BY <1>1, FS_Interval
<1>7. rank \in Surjection(S, 1..n)
  <2> HIDE DEF rank
  <2> QED BY <1>5, <1>6, FS_Injection
<1>8. ASSUME NEW k \in 1..n
      PROVE  \E i \in S : Cardinality(Below(i)) = k - 1
  <2>1. PICK i \in S : rank[i] = k
    <3> HIDE DEF rank, n
    <3> QED BY <1>7 DEF Surjection
  <2>2. Cardinality(Below(i)) \in Nat
    BY <1>2
  <2>3. Cardinality(Below(i)) + 1 = k
    BY <2>1
  <2> HIDE DEF Below
  <2> QED BY <2>2, <2>3
<1>9. ASSUME NEW i \in S, NEW j \in S
      PROVE  <<i, j>> \in R <=> Cardinality(Below(i)) < Cardinality(Below(j))
  <2>1. Cardinality(Below(i)) \in Nat /\ Cardinality(Below(j)) \in Nat
    BY <1>2
  <2>2. <<i, j>> \in R => Cardinality(Below(i)) < Cardinality(Below(j))
    BY <1>3
  <2>3. <<j, i>> \in R => Cardinality(Below(j)) < Cardinality(Below(i))
    BY <1>3
  <2>4. i = j \/ <<i, j>> \in R \/ <<j, i>> \in R
    OBVIOUS
  <2> HIDE DEF Below
  <2> QED BY <2>1, <2>2, <2>3, <2>4
<1>10. \A i \in S : Cardinality(Below(i)) + 1 \in 1..n
  <2> HIDE DEF Below, n
  <2> QED BY <1>1, <1>2
<1> QED BY <1>1, <1>8, <1>9, <1>10

\* A sequence that puts each element of S where its place in the order is lists
\* all of them once, in that order.
LEMMA OrderedSequence ==
    ASSUME NEW S, IsFiniteSet(S), NEW R \in SUBSET (S \X S),
           \A i \in S : <<i, i>> \notin R,
           \A i, j, k \in S : <<i, j>> \in R /\ <<j, k>> \in R => <<i, k>> \in R,
           \A i, j \in S : i # j => <<i, j>> \in R \/ <<j, i>> \in R,
           NEW s \in [1..Cardinality(S) -> S],
           \A k \in 1..Cardinality(S) : Cardinality({j \in S : <<j, s[k]>> \in R}) = k - 1
    PROVE  /\ Cardinality(S) \in Nat /\ s \in Seq(S) /\ Len(s) = Cardinality(S)
           /\ \A i \in S : \E k \in 1..Cardinality(S) : s[k] = i
           /\ \A k, l \in 1..Cardinality(S) : <<s[k], s[l]>> \in R <=> k < l
<1> DEFINE n == Cardinality(S)
           Place(i) == Cardinality({j \in S : <<j, i>> \in R})
<1>1. /\ n \in Nat
      /\ \A i \in S : Place(i) + 1 \in 1..n
      /\ \A i, j \in S : <<i, j>> \in R <=> Place(i) < Place(j)
  BY OrderNumbers
<1>2. \A k \in 1..n : s[k] \in S /\ Place(s[k]) = k - 1
  OBVIOUS
<1>3. s \in Seq(S) /\ Len(s) = n
  <2> HIDE DEF n
  <2>1. s \in [1..n -> S]
    BY DEF n
  <2> QED BY <1>1, <2>1
<1>4. \A k, l \in 1..n : <<s[k], s[l]>> \in R <=> k < l
  <2>1. ASSUME NEW k \in 1..n, NEW l \in 1..n
        PROVE  <<s[k], s[l]>> \in R <=> k < l
    <3>1. <<s[k], s[l]>> \in R <=> Place(s[k]) < Place(s[l])
      BY <1>1, <1>2
    <3>2. Place(s[k]) = k - 1 /\ Place(s[l]) = l - 1
      BY <1>2
    <3> HIDE DEF Place
    <3> QED BY <1>1, <3>1, <3>2
  <2> QED BY <2>1
<1>5. ASSUME NEW i \in S
      PROVE  \E k \in 1..n : s[k] = i
  <2>1. PICK k : k = Place(i) + 1
    OBVIOUS
  <2>2. k \in 1..n /\ s[k] \in S /\ Place(s[k]) = k - 1
    BY <1>1, <1>2, <2>1
  <2>3. Place(i) = k - 1 /\ Place(i) \in Int
    <3>1. Place(i) + 1 \in 1..n
      BY <1>1
    <3>2. Place(i) \in Nat
      <4> DEFINE L == {j \in S : <<j, i>> \in R}
      <4>1. L \in SUBSET S
        OBVIOUS
      <4>2. Cardinality(L) \in Nat
        <5> HIDE DEF L
        <5> QED BY <4>1, FS_Subset, FS_CardinalityType
      <4> QED BY <4>2
    <3> HIDE DEF Place
    <3> QED BY <1>1, <2>1, <3>1, <3>2
  <2>4. ~(<<s[k], i>> \in R) /\ ~(<<i, s[k]>> \in R)
    <3>1. /\ <<s[k], i>> \in R <=> Place(s[k]) < Place(i)
          /\ <<i, s[k]>> \in R <=> Place(i) < Place(s[k])
      BY <1>1, <2>2
    <3> HIDE DEF Place
    <3> QED BY <2>2, <2>3, <3>1
  <2>5. s[k] = i
    BY <2>2, <2>4
  <2> QED BY <2>2, <2>5
<1> HIDE DEF n
<1> QED BY <1>1, <1>3, <1>4, <1>5 DEF n

-----------------------------------------------------------------------------
(* Sequences                                                               *)

\* A sequence is its head and its tail.
LEMMA HeadAndTail ==
    ASSUME NEW S, NEW t \in Seq(S), t # <<>>
    PROVE  /\ Tail(t) \in Seq(S) /\ (Tail(t) # <<>> <=> Len(t) # 1)
           /\ {t[i] : i \in DOMAIN t} = {Head(t)} \cup {Tail(t)[i] : i \in DOMAIN Tail(t)}
<1>1. Len(t) \in Nat /\ Len(t) # 0 /\ DOMAIN t = 1..Len(t)
  OBVIOUS
<1>2. Tail(t) \in Seq(S) /\ Len(Tail(t)) = Len(t) - 1 /\ \A i \in 1..(Len(t) - 1) : Tail(t)[i] = t[i + 1]
  BY <1>1
<1>3. DOMAIN Tail(t) = 1..(Len(t) - 1)
  BY <1>1, <1>2
<1>4. Tail(t) # <<>> <=> Len(t) # 1
  BY <1>1, <1>2, <1>3
<1>5. \A i \in 1..Len(t) : t[i] = Head(t) \/ \E k \in 1..(Len(t) - 1) : t[i] = Tail(t)[k]
  <2>1. SUFFICES ASSUME NEW i \in 1..Len(t), i # 1
                 PROVE  i - 1 \in 1..(Len(t) - 1) /\ t[i] = Tail(t)[i - 1]
    BY <1>1
  <2>2. i - 1 \in 1..(Len(t) - 1) /\ (i - 1) + 1 = i
    BY <1>1, <2>1
  <2> QED BY <1>2, <2>2
<1>6. \A k \in 1..(Len(t) - 1) : k + 1 \in 1..Len(t) /\ Tail(t)[k] = t[k + 1]
  BY <1>1, <1>2
<1>7. 1 \in 1..Len(t) /\ Head(t) = t[1]
  BY <1>1
<1>8. ASSUME NEW x
      PROVE  x \in {t[i] : i \in DOMAIN t} <=> x \in {Head(t)} \cup {Tail(t)[i] : i \in DOMAIN Tail(t)}
  <2>1. (\E i \in 1..Len(t) : x = t[i]) <=> (x = Head(t) \/ \E k \in 1..(Len(t) - 1) : x = Tail(t)[k])
    BY <1>5, <1>6, <1>7
  <2> QED BY <1>1, <1>3, <2>1
<1>9. {t[i] : i \in DOMAIN t} = {Head(t)} \cup {Tail(t)[i] : i \in DOMAIN Tail(t)}
  BY ONLY <1>8
<1> QED BY <1>2, <1>4, <1>9
=============================================================================
