--------------------------------- MODULE SetLemmas ---------------------------------
(***************************************************************************)
(* Facts about finite sets of numbers, about counting and about division,  *)
(* that the proofs of several modules rest on.                             *)
(***************************************************************************)
EXTENDS Integers, FiniteSets, FiniteSetTheorems, TLAPS

\* A finite set of integers has a largest and a smallest element.
LEMMA FiniteHasMax ==
  ASSUME NEW S \in SUBSET Int, IsFiniteSet(S), S # {}
  PROVE  \E m \in S : \A n \in S : n <= m
<1> DEFINE Above(m) == {n \in S : n > m}
           R == StrictSubsetOrdering(S)
           T == {Above(m) : m \in S}
<1>1. IsWellFoundedOn(R, SUBSET S)
  BY FS_StrictSubsetOrderingWellFounded, FS_FiniteSubsetsOfFinite
<1>2. T \subseteq SUBSET S /\ T # {}
  OBVIOUS
<1> HIDE DEF R, T
<1>3. PICK x \in T : \A y \in T : <<y, x>> \notin R
  BY <1>1, <1>2, WFMin
<1>4. PICK m \in S : x = Above(m)
  BY <1>3 DEF T
<1>5. ASSUME NEW n \in S, n > m PROVE FALSE
  <2>1. Above(n) \in T
    BY DEF T
  <2>2. Above(n) \subseteq x /\ n \in x /\ n \notin Above(n)
    <3>1. \A k \in S : k \in Int
      OBVIOUS
    <3>2. \A k \in S : k > n => k > m
      BY <1>5, <3>1
    <3>3. ~(n > n)
      BY <3>1
    <3> QED
      BY <1>4, <1>5, <3>2, <3>3
  <2>3. <<Above(n), x>> \in R
    <3>1. Above(n) \in SUBSET S /\ x \in SUBSET S
      BY <1>4
    <3> HIDE DEF Above
    <3> QED
      BY <2>2, <3>1 DEF R, StrictSubsetOrdering
  <2> QED
    BY <1>3, <2>1, <2>3
<1> QED
  BY <1>4, <1>5

LEMMA FiniteHasMin ==
  ASSUME NEW S \in SUBSET Int, IsFiniteSet(S), S # {}
  PROVE  \E m \in S : \A n \in S : m <= n
<1> DEFINE Below(m) == {n \in S : n < m}
           R == StrictSubsetOrdering(S)
           T == {Below(m) : m \in S}
<1>1. IsWellFoundedOn(R, SUBSET S)
  BY FS_StrictSubsetOrderingWellFounded, FS_FiniteSubsetsOfFinite
<1>2. T \subseteq SUBSET S /\ T # {}
  OBVIOUS
<1> HIDE DEF R, T
<1>3. PICK x \in T : \A y \in T : <<y, x>> \notin R
  BY <1>1, <1>2, WFMin
<1>4. PICK m \in S : x = Below(m)
  BY <1>3 DEF T
<1>5. ASSUME NEW n \in S, n < m PROVE FALSE
  <2>1. Below(n) \in T
    BY DEF T
  <2>2. Below(n) \subseteq x /\ n \in x /\ n \notin Below(n)
    <3>1. \A k \in S : k \in Int
      OBVIOUS
    <3>2. \A k \in S : k < n => k < m
      BY <1>5, <3>1
    <3>3. ~(n < n)
      BY <3>1
    <3> QED
      BY <1>4, <1>5, <3>2, <3>3
  <2>3. <<Below(n), x>> \in R
    <3>1. Below(n) \in SUBSET S /\ x \in SUBSET S
      BY <1>4
    <3> HIDE DEF Below
    <3> QED
      BY <2>2, <3>1 DEF R, StrictSubsetOrdering
  <2> QED
    BY <1>3, <2>1, <2>3
<1> QED
  BY <1>4, <1>5

\* A set of natural numbers has a least element.
LEMMA NatHasMin ==
  ASSUME NEW S \in SUBSET Nat, S # {}
  PROVE  \E m \in S : \A n \in S : m <= n
<1>1. PICK x \in S : TRUE
  OBVIOUS
<1> DEFINE T == {n \in S : n <= x}
<1>2. x \in T /\ T \in SUBSET Nat /\ \A n \in T : n <= x
  <2>1. x \in Nat /\ x <= x
    OBVIOUS
  <2> QED
    BY <2>1, Zenon
<1>3. IsFiniteSet(T)
  BY <1>2, FS_BoundedSetOfNaturals
<1>4. PICK m \in T : \A n \in T : m <= n
  <2>1. T \in SUBSET Int /\ T # {}
    BY <1>2
  <2> QED
    BY <1>3, <2>1, FiniteHasMin
<1> QED
  BY <1>4

\* Induction up to n.
LEMMA UpTo ==
  ASSUME NEW n \in Nat, NEW P, 0 \in P, \A k \in 0..n : k # n /\ k \in P => k + 1 \in P
  PROVE  \A k \in 0..n : k \in P
<1> DEFINE Bad == {k \in 0..n : k \notin P}
<1>1. ASSUME Bad # {} PROVE FALSE
  <2>1. Bad \in SUBSET Nat
    OBVIOUS
  <2>2. PICK k \in Bad : \A j \in Bad : k <= j
    BY <1>1, <2>1, NatHasMin
  <2>3. k \in 0..n /\ k \notin P /\ k # 0
    BY <2>2
  <2>4. k - 1 \in 0..n /\ k - 1 # n /\ k - 1 \notin Bad
    BY <2>2, <2>3
  <2>5. (k - 1) + 1 \in P
    BY <2>4
  <2> QED
    BY <2>3, <2>5
<1> QED
  BY <1>1

\* Division: the quotient and the remainder of a multiple.
LEMMA Multiple ==
  ASSUME NEW n \in Nat, n > 0, NEW p \in Nat
  PROVE  /\ p \div n \in Nat
         /\ p % n = 0 => p = n * (p \div n)
         /\ \A q \in Nat : p = n * q => p % n = 0 /\ p \div n = q
<1>1. /\ p \div n \in Int /\ p % n \in 0..(n - 1) /\ p = n * (p \div n) + (p % n)
  OBVIOUS
<1>2. p \div n \in Nat
  BY <1>1
<1>3. ASSUME NEW q \in Nat, p = n * q PROVE p % n = 0 /\ p \div n = q
  <2> DEFINE d == p \div n
             m == p % n
  <2>1. d \in Int /\ m \in Int /\ 0 <= m /\ m < n /\ n * q = n * d + m
    BY <1>1, <1>3
  <2> HIDE DEF d, m
  <2>2. n * (q - d) = m
    BY <2>1
  <2>3. q - d = 0
    <3>1. CASE q - d > 0
      <4>1. n * (q - d) >= n
        BY <2>1, <3>1
      <4> QED
        BY <2>1, <2>2, <4>1
    <3>2. CASE q - d < 0
      <4>1. n * (q - d) <= -n
        BY <2>1, <3>2
      <4> QED
        BY <2>1, <2>2, <4>1
    <3> QED
      BY <2>1, <3>1, <3>2
  <2>4. q = d /\ m = 0
    BY <2>1, <2>2, <2>3
  <2> QED
    BY <2>4 DEF d, m
<1> QED
  BY <1>1, <1>2, <1>3
====================================================================================
