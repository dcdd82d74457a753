---------------------------- MODULE FiniteSetLemmas ----------------------------
(***************************************************************************)
(* Facts about sets of numbers and finite sets that several proofs rest    *)
(* on: counting up to a number, for what is built step by step; the        *)
(* greatest number of a finite set; the least number that is not taken,    *)
(* which tells a new vertex, edge or node from those there are (operator   *)
(* Fresh of module HierarchyGraph); the size of an image; and a count of   *)
(* parts and of attempts at each, which shows that a call ends.            *)
(***************************************************************************)
EXTENDS Integers, FiniteSets, FiniteSetTheorems, TLAPS

\* A set of natural numbers that is not empty has a least one.
LEMMA LeastNumber ==
  ASSUME NEW K, K \subseteq Nat, K # {}
  PROVE  \E k \in K : \A j \in K : k <= j
PROOF
<1> DEFINE f == [k \in Nat |-> 1..k]
           T == { f[k] : k \in K }
<1>1. \A k \in Nat : f[k] \in FiniteSubsetsOf(Nat)
  <2> SUFFICES ASSUME NEW k \in Nat PROVE 1..k \in FiniteSubsetsOf(Nat)
    OBVIOUS
  <2>1. IsFiniteSet(1..k)
    BY FS_Interval
  <2> QED
    BY <2>1 DEF FiniteSubsetsOf
<1>2. T \subseteq FiniteSubsetsOf(Nat) /\ T # {}
  BY <1>1
<1>3. PICK x \in T : \A y \in T : <<y, x>> \notin StrictSubsetOrdering(Nat)
  BY <1>2, FS_StrictSubsetOrderingWellFounded, WFMin
<1>4. PICK k \in K : x = f[k]
  BY <1>3
<1>5. ASSUME NEW j \in K, j < k PROVE FALSE
  <2>1. k \in Nat /\ j \in Nat
    OBVIOUS
  <2>2. f[j] \in SUBSET Nat /\ f[k] \in SUBSET Nat /\ f[j] \subseteq f[k] /\ k \in f[k] /\ k \notin f[j]
    BY <1>5, <2>1
  <2>3. <<f[j], f[k]>> \in StrictSubsetOrdering(Nat)
    BY <2>2 DEF StrictSubsetOrdering
  <2> QED
    BY <1>3, <1>4, <2>3
<1> QED
  BY <1>5

\* What holds for one, and for each number after one for which it holds, holds
\* for all of them (G is the set of those for which it does).
LEMMA CountingUp ==
  ASSUME NEW m \in Nat, NEW G, 1 \in G, \A i \in 1..(m - 1) : i \in G => i + 1 \in G
  PROVE  1..m \subseteq G
PROOF
<1> DEFINE K == { i \in 1..m : i \notin G }
<1>1. SUFFICES ASSUME K # {} PROVE FALSE
  OBVIOUS
<1>2. K \subseteq Nat
  OBVIOUS
<1>3. PICK k \in K : \A j \in K : k <= j
  <2> HIDE DEF K
  <2> QED
    BY <1>1, <1>2, LeastNumber
<1>4. k \in 1..m /\ k \notin G /\ k # 1
  OBVIOUS
<1>5. k - 1 \in 1..(m - 1) /\ k - 1 \in 1..m /\ ~(k <= k - 1) /\ (k - 1) + 1 = k
  BY <1>4
<1>6. k - 1 \notin K
  <2> HIDE DEF K
  <2> QED
    BY <1>3, <1>5
<1>7. k - 1 \in G
  BY <1>5, <1>6
<1> QED
  BY <1>4, <1>5, <1>7

\* A finite set of numbers that is not empty has a greatest one.
LEMMA GreatestNumber ==
  ASSUME NEW S, IsFiniteSet(S), S # {}, S \subseteq Nat
  PROVE  \E m \in S : \A x \in S : x <= m
PROOF
<1> DEFINE top(T) == \E m \in T : \A x \in T : x <= m
           G == { n \in Nat : \A T \in SUBSET S : Cardinality(T) = n => top(T) }
           N == Cardinality(S)
<1>1. N \in Nat /\ N # 0
  BY FS_CardinalityType, FS_EmptySet
<1>2. 1 \in G
  <2> SUFFICES ASSUME NEW T \in SUBSET S, Cardinality(T) = 1 PROVE top(T)
    OBVIOUS
  <2>1. IsFiniteSet(T)
    BY FS_Subset
  <2>2. PICK x : T = {x}
    BY <2>1, FS_Singleton
  <2> QED
    BY <2>2
<1>3. ASSUME NEW n \in 1..(N - 1), n \in G PROVE n + 1 \in G
  <2> SUFFICES ASSUME NEW T \in SUBSET S, Cardinality(T) = n + 1 PROVE top(T)
    BY <1>1
  <2>1. IsFiniteSet(T) /\ T # {}
    <3>1. IsFiniteSet(T)
      BY FS_Subset
    <3>2. n + 1 # 0
      BY <1>1
    <3>3. Cardinality({}) = 0
      BY FS_EmptySet
    <3> QED
      BY <3>1, <3>2, <3>3
  <2>2. PICK x \in T : TRUE
    BY <2>1
  <2>3. Cardinality(T \ {x}) = n
    <3>1. Cardinality(T \ {x}) = Cardinality(T) - 1
      BY <2>1, <2>2, FS_RemoveElement
    <3> QED
      BY <1>1, <3>1
  <2>4. PICK m \in T \ {x} : \A y \in T \ {x} : y <= m
    BY <1>3, <2>3
  <2>5. x \in Nat /\ m \in Nat /\ T \subseteq Nat
    OBVIOUS
  <2>6. CASE x <= m
    BY <2>4, <2>6
  <2>7. CASE ~(x <= m)
    <3>1. \A y \in T : y <= x
      BY <2>4, <2>5, <2>7
    <3> QED
      BY <3>1
  <2> QED
    BY <2>6, <2>7
<1> HIDE DEF G
<1>4. 1..N \subseteq G
  BY <1>1, <1>2, <1>3, CountingUp
<1>5. N \in G
  BY <1>1, <1>4
<1>6. top(S)
  BY <1>5 DEF G
<1> QED
  BY <1>6

\* There is a least number that is not in a finite set, and it is no further
\* than one behind the size of the set.
LEMMA LeastFreeNumber ==
  ASSUME NEW taken, IsFiniteSet(taken)
  PROVE  \E m \in 1..(Cardinality(taken) + 1) : m \notin taken /\ \A j \in 1..(m - 1) : j \in taken
PROOF
<1> DEFINE n == Cardinality(taken)
           K == { k \in 1..(n + 1) : k \notin taken }
<1>1. n \in Nat
  BY FS_CardinalityType
<1>2. K # {}
  <2> SUFFICES ASSUME 1..(n + 1) \subseteq taken PROVE FALSE
    OBVIOUS
  <2>1. Cardinality(1..(n + 1)) <= n
    BY FS_Subset
  <2>2. Cardinality(1..(n + 1)) = n + 1
    BY <1>1, FS_Interval
  <2> QED
    BY <1>1, <2>1, <2>2
<1>3. PICK k \in K : \A j \in K : k <= j
  <2>1. K \subseteq Nat
    BY <1>1
  <2> HIDE DEF K
  <2> QED
    BY <1>2, <2>1, LeastNumber
<1>4. \A j \in 1..(k - 1) : j \in taken
  BY <1>1, <1>3
<1>5. k \in 1..(Cardinality(taken) + 1) /\ k \notin taken
  OBVIOUS
<1> QED
  BY <1>4, <1>5

\* The members of a finite set, each with something of its own, are finite.
LEMMA FiniteImage ==
  ASSUME NEW S, IsFiniteSet(S), NEW f, DOMAIN f = S
  PROVE  IsFiniteSet({ f[x] : x \in S })
PROOF
<1> DEFINE T == { f[x] : x \in S }
           h == [x \in S |-> f[x]]
<1>1. h \in Surjection(S, T)
  BY DEF Surjection
<1> QED
  BY <1>1, FS_Surjection

\* When no two members have the same image, there are as many images as members.
LEMMA SameSize ==
  ASSUME NEW S, IsFiniteSet(S), NEW f, DOMAIN f = S, \A x, y \in S : f[x] = f[y] => x = y
  PROVE  Cardinality({ f[x] : x \in S }) = Cardinality(S)
PROOF
<1> DEFINE T == { f[x] : x \in S }
           h == [x \in S |-> f[x]]
<1>1. h \in Surjection(S, T)
  BY DEF Surjection
<1>2. h \in Injection(S, T)
  BY DEF Injection, IsInjective
<1> QED
  BY <1>1, <1>2, FS_Surjection

\* What is left of something in s parts, when each of them is tried m times at
\* most and the first of them t times more.
Weight(s, m, t) == IF s = 0 THEN 0 ELSE (s - 1) * m + t

\* An attempt less counts, and so does a part less whatever the attempts.
LEMMA WeightFalls ==
  ASSUME NEW n \in Nat, NEW m \in Nat,
         NEW s \in 0..n, NEW t \in 1..m, NEW s2 \in 0..n, NEW t2 \in 1..m
  PROVE  /\ Weight(s, m, t) \in 0..(n * m)
         /\ s2 < s => Weight(s2, m, t2) \in 0..(Weight(s, m, t) - 1)
         /\ s > 0 /\ t2 < t => Weight(s, m, t2) \in 0..(Weight(s, m, t) - 1)
PROOF
<1>1. \A k \in Nat : k * m \in Nat
  OBVIOUS
<1>2. ASSUME NEW a \in Nat, NEW b \in Nat, a < b
      PROVE  a * m + m <= b * m
  <2>1. b - a - 1 \in Nat
    BY <1>2
  <2>2. b * m = a * m + m + (b - a - 1) * m
    BY <1>2
  <2>3. (b - a - 1) * m \in Nat
    BY <1>1, <2>1
  <2> QED
    BY <1>1, <2>2, <2>3
<1>3. s > 0 => Weight(s, m, t) = (s - 1) * m + t /\ Weight(s, m, t2) = (s - 1) * m + t2
  BY DEF Weight
<1>4. s > 0 => (s - 1) * m \in Nat /\ (s - 1) * m + m <= n * m
  <2> SUFFICES ASSUME s > 0 PROVE (s - 1) * m \in Nat /\ (s - 1) * m + m <= n * m
    OBVIOUS
  <2>1. s - 1 \in Nat /\ s - 1 < n
    OBVIOUS
  <2> QED
    BY <1>1, <1>2, <2>1
<1>5. Weight(s, m, t) \in 0..(n * m)
  <2>1. CASE s = 0
    BY <1>1, <2>1 DEF Weight
  <2>2. CASE s > 0
    <3> DEFINE before == (s - 1) * m
               all == n * m
    <3>1. before \in Nat /\ all \in Nat /\ before + m <= all /\ Weight(s, m, t) = before + t
      BY <1>1, <1>3, <1>4, <2>2
    <3> HIDE DEF before, all
    <3>2. Weight(s, m, t) \in 0..all
      BY <3>1
    <3> QED
      BY <3>2 DEF all
  <2> QED
    BY <2>1, <2>2
<1>6. s > 0 /\ t2 < t => Weight(s, m, t2) \in 0..(Weight(s, m, t) - 1)
  <2> DEFINE before == (s - 1) * m
  <2>1. s > 0 => /\ before \in Nat
                 /\ Weight(s, m, t) = before + t /\ Weight(s, m, t2) = before + t2
    BY <1>3, <1>4
  <2> HIDE DEF before
  <2> QED
    BY <2>1
<1>7. s2 < s => Weight(s2, m, t2) \in 0..(Weight(s, m, t) - 1)
  <2> SUFFICES ASSUME s2 < s PROVE Weight(s2, m, t2) \in 0..(Weight(s, m, t) - 1)
    OBVIOUS
  <2> DEFINE before == (s - 1) * m
             before2 == (s2 - 1) * m
  <2>1. before \in Nat /\ Weight(s, m, t) = before + t
    BY <1>3, <1>4
  <2>2. CASE s2 = 0
    <3>1. Weight(s2, m, t2) = 0
      BY <2>2 DEF Weight
    <3> HIDE DEF before
    <3> QED
      BY <2>1, <3>1
  <2>3. CASE s2 > 0
    <3>1. s2 - 1 \in Nat /\ s - 1 \in Nat /\ s2 - 1 < s - 1
      BY <2>3
    <3>2. before2 \in Nat /\ before2 + m <= before
      BY <1>1, <1>2, <3>1
    <3>3. Weight(s2, m, t2) = before2 + t2
      BY <2>3 DEF Weight
    <3> HIDE DEF before, before2
    <3> QED
      BY <2>1, <3>2, <3>3
  <2> QED
    BY <2>2, <2>3
<1> QED
  BY <1>5, <1>6, <1>7
================================================================================
