--------------------------------- MODULE SlabProofs ---------------------------------
(***************************************************************************)
(* Theorems about module Slab, for any page size, any caches and tables of *)
(* any length: until a stale entry of PAGE_ALLOCS is matched the slab      *)
(* pages, the page allocator's blocks and what callers hold agree, and to  *)
(* its callers kmalloc, with Rust's allocator beside it, is an allocator.  *)
(***************************************************************************)
EXTENDS Slab, SetLemmas, SequenceTheorems

------------------------------------------------------------------------------------
(* Lists *)

\* What the lists of slab.c are: each element of R once.
Lists(s, R) == s \in Seq(R) /\ IsInjective(s) /\ ToSet(s) = R

\* Taking the head of a list.
LEMMA TailLists ==
  ASSUME NEW R, NEW s, Lists(s, R), s # <<>>
  PROVE  Head(s) \in R /\ Lists(Tail(s), R \ {Head(s)}) /\ Len(Tail(s)) = Len(s) - 1 /\ Len(s) \in Nat \ {0}
<1> DEFINE t == Tail(s)
           x == Head(s)
<1>1. s \in Seq(R) /\ Len(s) \in Nat /\ DOMAIN s = 1..Len(s) /\ Len(s) # 0
  BY EmptySeq, LenProperties DEF Lists
<1>2. /\ x \in R /\ t \in Seq(R) /\ Len(t) = Len(s) - 1 /\ DOMAIN t = 1..Len(t)
      /\ \A i \in 1..Len(t) : t[i] = s[i + 1]
  BY <1>1, HeadTailProperties, LenProperties
<1>3. x = s[1]
  BY <1>1
<1>4. \A i, j \in 1..Len(s) : s[i] = s[j] => i = j
  BY <1>1 DEF Lists, IsInjective
<1>5. R = {s[i] : i \in 1..Len(s)}
  BY <1>1 DEF Lists, ToSet
<1> HIDE DEF t, x
<1>6. \A i \in 1..Len(t) : t[i] \in R \ {x}
  <2> TAKE i \in 1..Len(t)
  <2>1. i + 1 \in 1..Len(s) /\ i + 1 # 1 /\ 1 \in 1..Len(s)
    BY <1>1, <1>2
  <2> QED
    BY <1>2, <1>3, <1>4, <1>5, <2>1
<1>7. t \in Seq(R \ {x})
  <2>1. t \in [1..Len(t) -> R \ {x}] /\ Len(t) \in Nat
    BY <1>1, <1>2, <1>6, LenProperties
  <2> QED
    BY <2>1, SeqDef
<1>8. IsInjective(t)
  <2>1. ASSUME NEW i \in 1..Len(t), NEW j \in 1..Len(t), t[i] = t[j] PROVE i = j
    <3>1. i + 1 \in 1..Len(s) /\ j + 1 \in 1..Len(s) /\ s[i + 1] = s[j + 1]
      BY <1>1, <1>2, <2>1
    <3> QED
      BY <1>4, <3>1
  <2> QED
    BY <1>2, <2>1 DEF IsInjective
<1>9. ASSUME NEW y \in R \ {x} PROVE \E i \in 1..Len(t) : t[i] = y
  <2>1. PICK j \in 1..Len(s) : s[j] = y
    BY <1>5
  <2>2. j # 1
    BY <1>3, <2>1
  <2>3. j - 1 \in 1..Len(t) /\ t[j - 1] = s[(j - 1) + 1] /\ (j - 1) + 1 = j
    BY <1>1, <1>2, <2>2
  <2> QED
    BY <2>1, <2>3
<1> QED
  BY <1>1, <1>2, <1>6, <1>7, <1>8, <1>9 DEF Lists, ToSet, t, x

\* A new head.
LEMMA ConsLists ==
  ASSUME NEW R, NEW s, Lists(s, R), NEW x, x \notin R
  PROVE  Lists(<<x>> \o s, R \cup {x}) /\ Len(<<x>> \o s) = Len(s) + 1 /\ Len(s) \in Nat
<1> DEFINE t == <<x>> \o s
           Q == R \cup {x}
<1>1. s \in Seq(Q) /\ <<x>> \in Seq(Q) /\ Len(<<x>>) = 1 /\ <<x>>[1] = x
  BY SeqMonotonic DEF Lists
<1>2. /\ s \in Seq(R) /\ Len(s) \in Nat /\ DOMAIN s = 1..Len(s)
  BY LenProperties DEF Lists
<1>3. t \in Seq(Q) /\ Len(t) = Len(s) + 1 /\ DOMAIN t = 1..Len(t)
  BY <1>1, <1>2, ConcatProperties, LenProperties
<1>4. \A i \in 1..Len(t) : t[i] = IF i = 1 THEN x ELSE s[i - 1]
  <2> TAKE i \in 1..Len(t)
  <2>1. i \in 1..(Len(<<x>>) + Len(s))
    BY <1>1, <1>2, <1>3
  <2>2. t[i] = IF i <= 1 THEN <<x>>[i] ELSE s[i - 1]
    BY <1>1, <2>1, ConcatProperties
  <2> QED
    BY <1>1, <1>2, <1>3, <2>2
<1>5. \A i, j \in 1..Len(s) : s[i] = s[j] => i = j
  BY <1>2 DEF Lists, IsInjective
<1>6. R = {s[i] : i \in 1..Len(s)}
  BY <1>2 DEF Lists, ToSet
<1> HIDE DEF t
<1>7. ASSUME NEW i \in 1..Len(t) PROVE i # 1 => i - 1 \in 1..Len(s) /\ t[i] = s[i - 1] /\ t[i] \in R
  BY <1>2, <1>3, <1>4, <1>6
<1>8. IsInjective(t)
  <2>1. ASSUME NEW i \in 1..Len(t), NEW j \in 1..Len(t), t[i] = t[j] PROVE i = j
    <3>1. CASE i = 1 \/ j = 1
      <4>1. ASSUME NEW m \in 1..Len(t), t[m] = x PROVE m = 1
        BY <1>7, <4>1
      <4>2. t[i] = x \/ t[j] = x
        BY <1>4, <3>1
      <4> QED
        BY <2>1, <4>1, <4>2, Zenon
    <3>2. CASE i # 1 /\ j # 1
      <4>1. i - 1 \in 1..Len(s) /\ j - 1 \in 1..Len(s) /\ s[i - 1] = s[j - 1]
        BY <1>7, <2>1, <3>2
      <4>2. i - 1 = j - 1
        BY <1>5, <4>1
      <4> QED
        BY <4>2
    <3> QED
      BY <3>1, <3>2
  <2> QED
    BY <1>3, <2>1 DEF IsInjective
<1>9. ToSet(t) = Q
  <2>1. ASSUME NEW y \in Q PROVE \E i \in 1..Len(t) : t[i] = y
    <3>1. CASE y = x
      <4>1. 1 \in 1..Len(t)
        BY <1>2, <1>3
      <4> QED
        BY <1>4, <3>1, <4>1
    <3>2. CASE y \in R
      <4>1. PICK j \in 1..Len(s) : s[j] = y
        BY <1>6, <3>2
      <4>2. j + 1 \in 1..Len(t) /\ j + 1 # 1 /\ (j + 1) - 1 = j
        BY <1>2, <1>3
      <4> QED
        BY <1>4, <4>1, <4>2
    <3> QED
      BY <3>1, <3>2
  <2>2. \A i \in 1..Len(t) : t[i] \in Q
    BY <1>4, <1>7
  <2> QED
    BY <1>3, <2>1, <2>2 DEF ToSet
<1> QED
  BY <1>2, <1>3, <1>8, <1>9 DEF Lists, t

\* slab_cache_del_page: an element is unlinked.
LEMMA RemoveLists ==
  ASSUME NEW R, NEW s, Lists(s, R), NEW x \in R
  PROVE  Lists(RemoveFirst(s, x), R \ {x})
<1> DEFINE I == {i \in 1..Len(s) : s[i] = x}
           k == Min(I)
           n == Len(s)
           l == SubSeq(s, 1, k - 1)
           r == SubSeq(s, k + 1, n)
           t == l \o r
<1>1. /\ s \in Seq(R) /\ n \in Nat /\ DOMAIN s = 1..n
      /\ \A i \in 1..n : s[i] \in R
  BY LenProperties, ElementOfSeq DEF Lists
<1>2. \A i, j \in 1..n : s[i] = s[j] => i = j
  BY <1>1 DEF Lists, IsInjective
<1>3. R = {s[i] : i \in 1..n}
  BY <1>1 DEF Lists, ToSet
<1>4. k \in 1..n /\ s[k] = x
  <2>1. PICK i \in 1..n : s[i] = x
    BY <1>3
  <2>2. I = {i}
    BY <1>2, <2>1
  <2>3. \E j \in I : \A m \in I : j <= m
    BY <1>1, <2>1, <2>2
  <2>4. k \in I
    <3> HIDE DEF I
    <3> QED
      BY <2>3 DEF Min
  <2> QED
    BY <2>4
<1>5. RemoveFirst(s, x) = t
  <2>1. I # {} /\ \E i \in 1..Len(s) : s[i] = x
    BY <1>4
  <2> QED
    BY <2>1 DEF RemoveFirst, RemoveAt, SelectInSeq
<1> HIDE DEF k, n
<1>6. /\ l \in Seq(R) /\ Len(l) = k - 1 /\ \A i \in 1..(k - 1) : l[i] = s[i]
  <2>1. \A i \in 1..(k - 1) : s[i] \in R
    BY <1>1, <1>4
  <2>2. 1 \in Int /\ k - 1 \in Int /\ (k - 1) - 1 + 1 = k - 1 /\ k - 1 \in Nat
    BY <1>1, <1>4
  <2>3. /\ l \in Seq(R) /\ Len(l) = IF 1 <= k - 1 THEN (k - 1) - 1 + 1 ELSE 0
        /\ \A i \in 1..((k - 1) - 1 + 1) : l[i] = s[1 + i - 1]
    BY <2>1, <2>2, SubSeqProperties
  <2> HIDE DEF l
  <2>4. \A i \in 1..(k - 1) : 1 + i - 1 = i
    BY <2>2
  <2> QED
    BY <2>2, <2>3, <2>4
<1>7. /\ r \in Seq(R) /\ Len(r) = n - k /\ \A i \in 1..(n - k) : r[i] = s[k + i]
  <2>1. \A i \in (k + 1)..n : s[i] \in R
    BY <1>1, <1>4
  <2>2. n \in Int /\ k + 1 \in Int /\ n - (k + 1) + 1 = n - k /\ n - k \in Nat
    BY <1>1, <1>4
  <2>3. /\ r \in Seq(R) /\ Len(r) = IF k + 1 <= n THEN n - (k + 1) + 1 ELSE 0
        /\ \A i \in 1..(n - (k + 1) + 1) : r[i] = s[(k + 1) + i - 1]
    BY <2>1, <2>2, SubSeqProperties
  <2> HIDE DEF r
  <2>4. \A i \in 1..(n - k) : (k + 1) + i - 1 = k + i
    BY <1>1, <1>4
  <2> QED
    BY <1>1, <1>4, <2>2, <2>3, <2>4
<1> HIDE DEF l, r
<1>8. /\ t \in Seq(R) /\ Len(t) = n - 1 /\ DOMAIN t = 1..(n - 1)
      /\ \A i \in 1..(n - 1) : t[i] = IF i < k THEN s[i] ELSE s[i + 1]
  <2>1. /\ t \in Seq(R) /\ Len(t) = Len(l) + Len(r)
        /\ \A i \in 1..(Len(l) + Len(r)) : t[i] = IF i <= Len(l) THEN l[i] ELSE r[i - Len(l)]
    BY <1>6, <1>7, ConcatProperties
  <2>2. Len(l) + Len(r) = n - 1
    BY <1>1, <1>4, <1>6, <1>7
  <2>3. DOMAIN t = 1..(n - 1)
    BY <2>1, <2>2, LenProperties
  <2> HIDE DEF t
  <2>4. ASSUME NEW i \in 1..(n - 1) PROVE t[i] = IF i < k THEN s[i] ELSE s[i + 1]
    <3>1. t[i] = IF i <= k - 1 THEN l[i] ELSE r[i - (k - 1)]
      BY <1>6, <2>1, <2>2
    <3>2. CASE i < k
      BY <1>1, <1>4, <1>6, <3>1, <3>2
    <3>3. CASE ~(i < k)
      <4>1. i - (k - 1) \in 1..(n - k) /\ k + (i - (k - 1)) = i + 1 /\ ~(i <= k - 1)
        BY <1>1, <1>4, <3>3
      <4> QED
        BY <1>7, <3>1, <3>3, <4>1
    <3> QED
      BY <3>2, <3>3
  <2> QED
    BY <2>1, <2>2, <2>3, <2>4
<1> HIDE DEF t
<1>9. \A i \in 1..(n - 1) : t[i] \in R \ {x}
  <2> TAKE i \in 1..(n - 1)
  <2>1. i \in 1..n /\ i + 1 \in 1..n
    BY <1>1
  <2> QED
    BY <1>1, <1>2, <1>4, <1>8, <2>1
<1>10. t \in Seq(R \ {x})
  <2>1. t \in [1..(n - 1) -> R \ {x}] /\ n - 1 \in Nat
    BY <1>1, <1>4, <1>8, <1>9, LenProperties
  <2> QED
    BY <2>1, SeqDef
<1>11. IsInjective(t)
  <2>1. ASSUME NEW i \in 1..(n - 1), NEW j \in 1..(n - 1), t[i] = t[j] PROVE i = j
    <3>1. i \in 1..n /\ i + 1 \in 1..n /\ j \in 1..n /\ j + 1 \in 1..n
      BY <1>1
    <3>2. CASE i < k /\ j < k
      BY <1>2, <1>8, <2>1, <3>1, <3>2
    <3>3. CASE i < k /\ ~(j < k)
      BY <1>2, <1>4, <1>8, <2>1, <3>1, <3>3
    <3>4. CASE ~(i < k) /\ j < k
      BY <1>2, <1>4, <1>8, <2>1, <3>1, <3>4
    <3>5. CASE ~(i < k) /\ ~(j < k)
      <4>1. i + 1 = j + 1
        BY <1>2, <1>8, <2>1, <3>1, <3>5
      <4> QED
        BY <4>1
    <3> QED
      BY <3>2, <3>3, <3>4, <3>5
  <2> QED
    BY <1>8, <2>1 DEF IsInjective
<1>12. ASSUME NEW y \in R \ {x} PROVE \E i \in 1..(n - 1) : t[i] = y
  <2>1. PICK j \in 1..n : s[j] = y
    BY <1>3
  <2>2. j # k
    BY <1>4, <2>1
  <2>3. CASE j < k
    <3>1. j \in 1..(n - 1)
      BY <1>1, <1>4, <2>3
    <3> QED
      BY <1>8, <2>1, <2>3, <3>1
  <2>4. CASE j > k
    <3>1. j - 1 \in 1..(n - 1) /\ ~(j - 1 < k) /\ (j - 1) + 1 = j
      BY <1>1, <1>4, <2>4
    <3> QED
      BY <1>8, <2>1, <3>1
  <2> QED
    BY <1>1, <1>4, <2>2, <2>3, <2>4
<1>13. ToSet(t) = R \ {x}
  <2>1. ToSet(t) = {t[i] : i \in 1..(n - 1)}
    BY <1>8 DEF ToSet
  <2> QED
    BY <1>9, <1>12, <2>1
<1> QED
  BY <1>5, <1>10, <1>11, <1>13 DEF Lists

\* The length of a list is the number of its elements.
LEMMA ListsCount ==
  ASSUME NEW R, NEW s, Lists(s, R)
  PROVE  IsFiniteSet(R) /\ Len(s) = Cardinality(R) /\ Len(s) \in Nat
<1>1. s \in [1..Len(s) -> R] /\ Len(s) \in Nat
  BY LenProperties DEF Lists
<1>2. DOMAIN s = 1..Len(s)
  BY <1>1
<1>3. IsInjective(s) /\ \A y \in R : \E i \in 1..Len(s) : s[i] = y
  BY <1>2 DEF Lists, ToSet
<1>4. s \in Injection(1..Len(s), R) /\ s \in Surjection(1..Len(s), R)
  BY <1>1, <1>3, Zenon DEF Injection, Surjection
<1>5. ExistsBijection(1..Len(s), R)
  BY <1>4 DEF Bijection, ExistsBijection
<1>6. IsFiniteSet(1..Len(s)) /\ Cardinality(1..Len(s)) = Len(s)
  <2>1. 1 \in Int /\ Len(s) \in Int /\ (1 > Len(s) => Len(s) = 0) /\ Len(s) - 1 + 1 = Len(s)
    BY <1>1
  <2>2. IsFiniteSet(1..Len(s)) /\ Cardinality(1..Len(s)) = IF 1 > Len(s) THEN 0 ELSE Len(s) - 1 + 1
    BY <2>1, FS_Interval
  <2> QED
    BY <2>1, <2>2
<1> QED
  BY <1>1, <1>5, <1>6, FS_Bijection

------------------------------------------------------------------------------------
(* Spans and orders *)

\* A table of spans up to order n.
Spans(h, n) == h = [i \in 0..n |-> IF i = 0 THEN PageSize ELSE 2 * h[i - 1]]

\* PAGE_SIZE << order can be tabulated up to any order.
LEMMA SpansExist == ASSUME NEW n \in Nat PROVE \E h : Spans(h, n)
<1> DEFINE Bad == {k \in Nat : ~ \E h : Spans(h, k)}
<1>1. ASSUME Bad # {} PROVE FALSE
  <2>1. PICK k \in Bad : \A j \in Bad : k <= j
    BY <1>1, NatHasMin
  <2>2. k # 0
    <3>1. Spans([i \in 0..0 |-> PageSize], 0)
      BY DEF Spans
    <3> QED
      BY <2>1, <3>1
  <2>3. k - 1 \in Nat /\ k - 1 \notin Bad
    BY <2>1, <2>2
  <2>4. PICK h : Spans(h, k - 1)
    BY <2>3
  <2> DEFINE x == 2 * h[k - 1]
             g == [i \in 0..k |-> IF i = k THEN x ELSE h[i]]
  <2>5. Spans(g, k)
    <3> HIDE DEF x
    <3>1. \A i \in 0..k : g[i] = IF i = k THEN x ELSE h[i]
      OBVIOUS
    <3>2. \A i \in 0..(k - 1) : h[i] = IF i = 0 THEN PageSize ELSE 2 * h[i - 1]
      BY <2>4 DEF Spans
    <3>3. ASSUME NEW i \in 0..k PROVE g[i] = IF i = 0 THEN PageSize ELSE 2 * g[i - 1]
      <4>1. i # 0 => i - 1 \in 0..k /\ i - 1 # k /\ g[i - 1] = h[i - 1]
        BY <2>1, <3>1
      <4>2. CASE i = k
        BY <2>2, <3>1, <4>1, <4>2 DEF x
      <4>3. CASE i # k
        BY <2>1, <3>1, <3>2, <4>1, <4>3
      <4> QED
        BY <4>2, <4>3
    <3> HIDE DEF g
    <3>4. g = [i \in 0..k |-> g[i]]
      BY DEF g
    <3> QED
      BY <3>3, <3>4 DEF Spans
  <2> QED
    BY <2>1, <2>5
<1> QED
  BY <1>1

\* Tables of different lengths agree.
LEMMA SpansAgree ==
  ASSUME NEW m \in Nat, NEW n \in Nat, NEW g, NEW h, Spans(g, m), Spans(h, n)
  PROVE  \A i \in Nat : i <= m /\ i <= n => g[i] = h[i]
<1> DEFINE Bad == {i \in Nat : i <= m /\ i <= n /\ g[i] # h[i]}
<1>1. ASSUME Bad # {} PROVE FALSE
  <2>1. PICK k \in Bad : \A j \in Bad : k <= j
    BY <1>1, NatHasMin
  <2>2. /\ \A i \in 0..m : g[i] = IF i = 0 THEN PageSize ELSE 2 * g[i - 1]
        /\ \A i \in 0..n : h[i] = IF i = 0 THEN PageSize ELSE 2 * h[i - 1]
    BY DEF Spans
  <2>3. k \in 0..m /\ k \in 0..n
    BY <2>1
  <2>4. k # 0
    BY <2>1, <2>2, <2>3
  <2>5. k - 1 \in Nat /\ k - 1 <= m /\ k - 1 <= n /\ ~(k <= k - 1)
    BY <2>1, <2>4
  <2>6. g[k - 1] = h[k - 1]
    BY <2>1, <2>5
  <2> QED
    BY <2>1, <2>2, <2>3, <2>4, <2>6
<1> QED
  BY <1>1

\* PAGE_SIZE << order doubles with every order.
LEMMA SpanDef == Span = [o \in Nat |-> IF o = 0 THEN PageSize ELSE 2 * Span[o - 1]]
<1> DEFINE T(n) == CHOOSE h : Spans(h, n)
           f == [n \in Nat |-> T(n)[n]]
<1>1. \A n \in Nat : Spans(T(n), n)
  BY SpansExist
<1> HIDE DEF T
<1>2. ASSUME NEW n \in Nat PROVE f[n] = IF n = 0 THEN PageSize ELSE 2 * f[n - 1]
  <2>1. T(n)[n] = IF n = 0 THEN PageSize ELSE 2 * T(n)[n - 1]
    <3>1. n \in 0..n
      OBVIOUS
    <3> QED
      BY <1>1, <3>1 DEF Spans
  <2>2. n # 0 => n - 1 \in Nat /\ T(n)[n - 1] = T(n - 1)[n - 1]
    <3> SUFFICES ASSUME n # 0 PROVE n - 1 \in Nat /\ T(n)[n - 1] = T(n - 1)[n - 1]
      OBVIOUS
    <3>1. n - 1 \in Nat /\ n - 1 <= n /\ n - 1 <= n - 1
      OBVIOUS
    <3>2. Spans(T(n), n) /\ Spans(T(n - 1), n - 1)
      BY <1>1, <3>1
    <3> QED
      BY <3>1, <3>2, SpansAgree
  <2> QED
    BY <2>1, <2>2
<1>3. f = [n \in Nat |-> IF n = 0 THEN PageSize ELSE 2 * f[n - 1]]
  <2>1. f = [n \in Nat |-> f[n]]
    OBVIOUS
  <2> HIDE DEF f
  <2> QED
    BY <1>2, <2>1
<1>4. \E g : g = [n \in Nat |-> IF n = 0 THEN PageSize ELSE 2 * g[n - 1]]
  BY <1>3
<1> QED
  BY <1>4 DEF Span

\* Span computes PAGE_SIZE << order: a page, and twice as much with each order.
LEMMA SpanIs ==
  /\ Span[0] = PageSize
  /\ \A o \in Nat : Span[o + 1] = 2 * Span[o]
<1>1. \A o \in Nat : Span[o] = IF o = 0 THEN PageSize ELSE 2 * Span[o - 1]
  BY SpanDef
<1>2. ASSUME NEW o \in Nat PROVE Span[o + 1] = 2 * Span[o]
  <2>1. o + 1 \in Nat /\ o + 1 # 0 /\ (o + 1) - 1 = o
    OBVIOUS
  <2> QED
    BY <1>1, <2>1
<1> QED
  BY <1>1, <1>2

\* A span is a number of pages, and there are spans of any size.
LEMMA SpanPages ==
  ASSUME NEW o \in Nat
  PROVE  Span[o] \in Nat \ {0} /\ Span[o] > o /\ Span[o] >= PageSize /\ \E k \in Nat \ {0} : Span[o] = PageSize * k
<1> DEFINE Good(i) == /\ Span[i] \in Nat \ {0} /\ Span[i] > i /\ Span[i] >= PageSize
                      /\ \E k \in Nat \ {0} : Span[i] = PageSize * k
           Bad == {i \in Nat : ~Good(i)}
<1>1. ASSUME Bad # {} PROVE FALSE
  <2>1. PICK k \in Bad : \A j \in Bad : k <= j
    BY <1>1, NatHasMin
  <2>2. Good(0)
    <3>1. Span[0] = PageSize * 1 /\ 1 \in Nat \ {0}
      BY SpanIs, PageAssumption
    <3> QED
      BY <3>1, SpanIs, PageAssumption
  <2>3. k # 0
    BY <2>1, <2>2
  <2>4. k - 1 \in Nat /\ (k - 1) + 1 = k /\ Good(k - 1)
    BY <2>1, <2>3
  <2>5. Span[k] = 2 * Span[k - 1]
    BY <2>4, SpanIs
  <2>6. PICK m \in Nat \ {0} : Span[k - 1] = PageSize * m
    BY <2>4
  <2>7. Span[k] = PageSize * (2 * m) /\ 2 * m \in Nat \ {0}
    <3>1. 2 * (PageSize * m) = PageSize * (2 * m)
      BY PageAssumption
    <3> QED
      BY <2>5, <2>6, <3>1
  <2>8. Good(k)
    BY <2>4, <2>5, <2>7, PageAssumption
  <2> QED
    BY <2>1, <2>8
<1>2. o \notin Bad
  BY <1>1
<1> QED
  BY <1>2

\* get_order_ul: the block is large enough, and no smaller one is.
LEMMA OrderIs ==
  ASSUME NEW size \in Nat
  PROVE  /\ Order(size) \in Nat
         /\ Span[Order(size)] >= size
         /\ Order(size) = 0 \/ Span[Order(size) - 1] < size
<1> DEFINE Fit == {o \in Nat : Span[o] >= size}
<1>1. size \in Fit
  BY SpanPages
<1>2. PICK o \in Fit : \A p \in Fit : o <= p
  BY <1>1, NatHasMin
<1>3. o \in 0..size /\ Span[o] >= size
  BY <1>1, <1>2
<1>4. o = 0 \/ Span[o - 1] < size
  <2>1. CASE o # 0
    <3>1. o - 1 \in Nat /\ ~(o <= o - 1)
      BY <1>2, <2>1
    <3>2. o - 1 \notin Fit /\ Span[o - 1] \in Nat
      BY <1>2, <3>1, SpanPages
    <3> QED
      BY <3>1, <3>2
  <2> QED
    BY <2>1
<1>5. \E q \in 0..size : Span[q] >= size /\ (q = 0 \/ Span[q - 1] < size)
  BY <1>3, <1>4
<1>6. Order(size) \in 0..size /\ Span[Order(size)] >= size /\ (Order(size) = 0 \/ Span[Order(size) - 1] < size)
  BY <1>5 DEF Order
<1> QED
  BY <1>6

\* An aligned block starts at a page.
LEMMA AlignedToPage ==
  ASSUME NEW p \in Nat, NEW o \in Nat, p % Span[o] = 0
  PROVE  p % PageSize = 0
<1> DEFINE n == Span[o]
           d == p \div n
<1>1. n \in Nat /\ n > 0
  BY SpanPages
<1>2. PICK k \in Nat \ {0} : n = PageSize * k
  BY SpanPages
<1>3. d \in Nat /\ p = n * d
  BY <1>1, Multiple
<1> HIDE DEF n, d
<1>4. p = PageSize * (k * d) /\ k * d \in Nat
  <2>1. (PageSize * k) * d = PageSize * (k * d)
    BY <1>2, <1>3, PageAssumption
  <2>2. k * d \in Nat
    BY <1>2, <1>3
  <2> QED
    BY <1>2, <1>3, <2>1, <2>2
<1> DEFINE q == k * d
<1>5. q \in Nat /\ p = PageSize * q
  BY <1>4
<1> HIDE DEF q
<1>6. PageSize \in Nat /\ PageSize > 0
  BY PageAssumption
<1> QED
  BY <1>5, <1>6, Multiple

------------------------------------------------------------------------------------
(* The objects of a page *)

\* slab_sizes holds positive sizes.
LEMMA CacheSize == ASSUME NEW c \in Caches PROVE SlabSizes[c] \in Nat \ {0}
BY SizesAssumption, ElementOfSeq DEF Caches

\* The places for objects on a page of cache c.
Objects(p, c) ==
    LET size == SlabSizes[c]
        page == Extent(p, Span[Order(size)])
    IN {addr \in page : (addr - p) % size = 0 /\ Extent(addr, size) \subseteq page}

\* Where an object lies: after the page's start, a multiple of the size on, and wholly in the page.
LEMMA ObjectIn ==
  ASSUME NEW p \in Nat, NEW c \in Caches, NEW a
  PROVE  a \in Objects(p, c) <=>
            /\ a \in Nat /\ a >= p /\ (a - p) % SlabSizes[c] = 0
            /\ a + SlabSizes[c] <= p + Span[Order(SlabSizes[c])]
<1> DEFINE n == SlabSizes[c]
           s == Span[Order(n)]
<1>1. n \in Nat \ {0} /\ s \in Nat \ {0}
  BY CacheSize, OrderIs, SpanPages
<1>2. Objects(p, c) = {addr \in Extent(p, s) : (addr - p) % n = 0 /\ Extent(addr, n) \subseteq Extent(p, s)}
  BY DEF Objects
<1> HIDE DEF n, s
<1>3. ASSUME a \in Extent(p, s)
      PROVE  a \in Nat /\ a >= p /\ (Extent(a, n) \subseteq Extent(p, s) <=> a + n <= p + s)
  <2>1. a \in Nat /\ a >= p
    BY <1>1, <1>3 DEF Extent
  <2>2. ASSUME Extent(a, n) \subseteq Extent(p, s) PROVE a + n <= p + s
    <3>1. a + n - 1 \in Extent(a, n)
      BY <1>1, <2>1 DEF Extent
    <3>2. a + n - 1 \in Extent(p, s)
      BY <2>2, <3>1
    <3> QED
      BY <1>1, <2>1, <3>2 DEF Extent
  <2>3. ASSUME a + n <= p + s PROVE Extent(a, n) \subseteq Extent(p, s)
    BY <1>1, <2>1, <2>3 DEF Extent
  <2> QED
    BY <2>1, <2>2, <2>3
<1>4. ASSUME a \in Nat, a >= p, a + n <= p + s PROVE a \in Extent(p, s)
  BY <1>1, <1>4 DEF Extent
<1> QED
  BY <1>2, <1>3, <1>4 DEF n, s

\* What span / size is.
LEMMA Quotient ==
  ASSUME NEW n \in Nat, n > 0, NEW s \in Nat
  PROVE  s \div n \in Int /\ n * (s \div n) <= s /\ s < n * (s \div n + 1)
<1> DEFINE d == s \div n
           m == s % n
<1>1. d \in Int /\ m \in 0..(n - 1) /\ s = n * d + m
  OBVIOUS
<1> HIDE DEF d, m
<1>2. n * (d + 1) = n * d + n /\ n * d \in Int
  BY <1>1
<1>3. n * d <= s /\ s < n * (d + 1)
  BY <1>1, <1>2
<1> QED
  BY <1>1, <1>3 DEF d

\* A page holds at least one object, and no more than it has cells.
LEMMA CapacityIs ==
  ASSUME NEW c \in Caches
  PROVE  Capacity(c) \in 1..PageSize
<1> DEFINE n == SlabSizes[c]
           o == Order(n)
           s == Span[o]
           k == s \div n
<1>1. n \in Nat \ {0} /\ o \in Nat /\ s \in Nat \ {0} /\ s >= n /\ PageSize \in Nat \ {0}
  BY CacheSize, OrderIs, SpanPages, PageAssumption
<1>2. o = 0 => s = PageSize
  BY SpanIs
<1>3. o # 0 => s < 2 * n
  <2> SUFFICES ASSUME o # 0 PROVE s < 2 * n
    OBVIOUS
  <2>1. o - 1 \in Nat /\ (o - 1) + 1 = o /\ Span[o - 1] < n
    BY <1>1, OrderIs
  <2>2. s = 2 * Span[o - 1] /\ Span[o - 1] \in Nat
    BY <2>1, SpanIs, SpanPages
  <2> QED
    BY <1>1, <2>1, <2>2
<1>4. k \in Int /\ n * k <= s /\ s < n * (k + 1)
  <2>1. n \in Nat /\ n > 0 /\ s \in Nat
    BY <1>1
  <2> HIDE DEF n, s
  <2> QED
    BY <2>1, Quotient
<1>5. Capacity(c) = k
  BY DEF Capacity
<1> HIDE DEF n, o, s, k
<1>6. k >= 1
  <2>1. CASE k <= 0
    <3>1. n * (k + 1) <= n
      BY <1>1, <1>4, <2>1
    <3> QED
      BY <1>1, <1>4, <3>1
  <2> QED
    BY <1>4, <2>1
<1>7. k <= s
  <2>1. n * k >= k
    BY <1>1, <1>4, <1>6
  <2>2. \A x, y, z \in Int : x >= y /\ x <= z => y <= z
    OBVIOUS
  <2>3. n * k \in Int
    BY <1>1, <1>4
  <2> QED
    BY <1>1, <1>4, <2>1, <2>2, <2>3
<1>8. o # 0 => k <= 1
  <2>1. CASE o # 0 /\ k >= 2
    <3>1. n * k >= n * 2
      BY <1>1, <1>4, <2>1
    <3>2. n * 2 = 2 * n /\ n * k \in Int
      BY <1>1, <1>4
    <3> QED
      BY <1>1, <1>3, <1>4, <2>1, <3>1, <3>2
  <2> QED
    BY <1>4, <2>1
<1> QED
  BY <1>1, <1>2, <1>4, <1>5, <1>6, <1>7, <1>8

\* A multiple of n below n is 0.
LEMMA SmallMultiple ==
  ASSUME NEW n \in Nat, NEW x \in Nat, x < n, x % n = 0
  PROVE  x = 0
<1>1. n > 0 /\ x \div n \in Nat /\ x = n * (x \div n)
  BY Multiple
<1> DEFINE d == x \div n
<1>2. d \in Nat /\ x = n * d
  BY <1>1
<1> HIDE DEF d
<1>3. CASE d >= 1
  <2>1. n * d >= n
    BY <1>1, <1>2, <1>3
  <2> QED
    BY <1>2, <2>1
<1>4. CASE d = 0
  BY <1>2, <1>4
<1> QED
  BY <1>2, <1>3, <1>4

\* The only object of a slab page that starts at a page is the first one.
LEMMA PageObject ==
  ASSUME NEW p \in Nat, NEW c \in Caches, NEW a \in Objects(p, c), p % PageSize = 0, a % PageSize = 0
  PROVE  a = p
<1> DEFINE n == SlabSizes[c]
           o == Order(n)
           s == Span[o]
<1>1. n \in Nat \ {0} /\ o \in Nat /\ s \in Nat \ {0} /\ s >= n /\ PageSize \in Nat \ {0} /\ PageSize > 0
  BY CacheSize, OrderIs, SpanPages, PageAssumption
<1>2. a \in Nat /\ a >= p /\ (a - p) % n = 0 /\ a + n <= p + s
  BY ObjectIn
<1>3. CASE o = 0
  <2>1. s = PageSize
    BY <1>3, SpanIs
  <2>2. a - p \in Nat /\ a - p < PageSize
    <3> HIDE DEF n, s
    <3> QED
      BY <1>1, <1>2, <2>1
  <2>3. (a - p) % PageSize = 0
    <3> DEFINE i == a \div PageSize
               j == p \div PageSize
    <3>1. i \in Nat /\ j \in Nat /\ a = PageSize * i /\ p = PageSize * j
      BY <1>1, <1>2, Multiple
    <3> HIDE DEF i, j
    <3>2. a - p = PageSize * (i - j)
      BY <1>1, <3>1
    <3>3. i - j \in Nat
      <4>1. CASE i - j < 0
        <5>1. PageSize * (i - j) < 0
          BY <1>1, <3>1, <4>1
        <5> QED
          BY <1>1, <2>2, <3>2, <5>1
      <4> QED
        BY <3>1, <4>1
    <3> QED
      BY <1>1, <2>2, <3>2, <3>3, Multiple
  <2>4. a - p = 0
    BY <1>1, <2>2, <2>3, SmallMultiple
  <2> QED
    BY <1>2, <2>4
<1>4. CASE o # 0
  <2>1. o - 1 \in Nat /\ (o - 1) + 1 = o /\ Span[o - 1] < n
    BY <1>1, <1>4, OrderIs
  <2>2. s = 2 * Span[o - 1] /\ Span[o - 1] \in Nat
    BY <2>1, SpanIs, SpanPages
  <2>3. a - p \in Nat /\ a - p < n
    <3> HIDE DEF n, s, o
    <3> QED
      BY <1>1, <1>2, <2>1, <2>2
  <2>4. a - p = 0
    BY <1>1, <1>2, <2>3, SmallMultiple
  <2> QED
    BY <1>2, <2>4
<1> QED
  BY <1>3, <1>4

\* Objects of a page do not overlap.
LEMMA ObjectsApart ==
  ASSUME NEW p \in Nat, NEW c \in Caches, NEW a \in Objects(p, c), NEW b \in Objects(p, c), a # b
  PROVE  Extent(a, SlabSizes[c]) \cap Extent(b, SlabSizes[c]) = {}
<1> DEFINE n == SlabSizes[c]
<1>1. n \in Nat \ {0} /\ n > 0
  BY CacheSize
<1>2. /\ a \in Nat /\ a >= p /\ (a - p) % n = 0
      /\ b \in Nat /\ b >= p /\ (b - p) % n = 0
  BY ObjectIn
<1> DEFINE i == (a - p) \div n
           j == (b - p) \div n
<1>3. i \in Nat /\ j \in Nat /\ a - p = n * i /\ b - p = n * j
  <2>1. a - p \in Nat /\ b - p \in Nat
    BY <1>2
  <2> QED
    BY <1>1, <1>2, <2>1, Multiple
<1> HIDE DEF n, i, j
<1>4. a - b = n * (i - j)
  BY <1>1, <1>2, <1>3
<1>5. CASE i > j
  <2>1. n * (i - j) >= n
    BY <1>1, <1>3, <1>5
  <2>2. a >= b + n
    BY <1>1, <1>2, <1>4, <2>1
  <2> QED
    BY <1>1, <1>2, <2>2 DEF Extent, n
<1>6. CASE i < j
  <2>1. n * (i - j) <= -n
    BY <1>1, <1>3, <1>6
  <2>2. b >= a + n
    BY <1>1, <1>2, <1>4, <2>1
  <2> QED
    BY <1>1, <1>2, <2>2 DEF Extent, n
<1>7. CASE i = j
  BY <1>2, <1>3, <1>7
<1> QED
  BY <1>3, <1>5, <1>6, <1>7

\* slab_grow threads every object of the new page on its free list.
LEMMA FreshLists ==
  ASSUME NEW p \in Nat, NEW c \in Caches
  PROVE  Lists(FreshList(p, c), Objects(p, c)) /\ Len(FreshList(p, c)) = Capacity(c) /\ FreshList(p, c) # <<>>
<1> DEFINE n == SlabSizes[c]
           s == Span[Order(n)]
           k == Capacity(c)
           f == FreshList(p, c)
           R == Objects(p, c)
<1>1. n \in Nat \ {0} /\ n > 0 /\ s \in Nat /\ k \in Nat \ {0}
  BY CacheSize, OrderIs, SpanPages, CapacityIs, PageAssumption
<1>2. f = [i \in 1..k |-> p + (k - i) * n]
  BY DEF FreshList
<1>3. n * k <= s /\ s < n * (k + 1)
  <2>1. k = s \div n
    BY DEF Capacity
  <2> HIDE DEF n, s, k
  <2> QED
    BY <1>1, <2>1, Quotient
<1>4. \A a : a \in R <=> a \in Nat /\ a >= p /\ (a - p) % n = 0 /\ a + n <= p + s
  BY ObjectIn
<1> HIDE DEF n, s, k, f, R
<1>5. ASSUME NEW i \in 1..k PROVE f[i] = p + (k - i) * n /\ f[i] \in R
  <2> DEFINE m == k - i
             x == p + m * n
  <2>1. m \in Nat /\ m <= k - 1 /\ f[i] = x
    BY <1>1, <1>2
  <2> HIDE DEF m
  <2>2. m * n = n * m /\ n * m \in Nat
    BY <1>1, <2>1
  <2>3. n * m + n <= n * k
    <3>1. n * (k - m) >= n
      BY <1>1, <2>1
    <3>2. n * (k - m) = n * k - n * m
      BY <1>1, <2>1
    <3>3. n * k \in Int
      BY <1>1
    <3> QED
      BY <1>1, <2>2, <3>1, <3>2, <3>3
  <2>4. x \in Nat /\ x >= p /\ x - p = n * m /\ x - p \in Nat
    BY <2>2
  <2>5. (x - p) % n = 0
    BY <1>1, <2>1, <2>4, Multiple
  <2>6. x + n <= p + s
    <3>1. n * k \in Int
      BY <1>1
    <3> QED
      BY <1>1, <1>3, <2>2, <2>3, <2>4, <3>1
  <2> QED
    BY <1>2, <1>4, <2>1, <2>4, <2>5, <2>6 DEF m
<1>6. Len(f) = k /\ DOMAIN f = 1..k /\ f \in Seq(R)
  <2>1. f \in [1..k -> R] /\ k \in Nat
    BY <1>1, <1>2, <1>5
  <2>2. f \in Seq(R)
    BY <2>1, SeqDef
  <2> QED
    BY <2>1, <2>2
<1>7. IsInjective(f)
  <2>1. ASSUME NEW i \in 1..k, NEW j \in 1..k, f[i] = f[j] PROVE i = j
    <3> DEFINE u == (k - i) * n
               v == (k - j) * n
    <3>1. p + u = p + v
      BY <1>5, <2>1
    <3>2. u \in Int /\ v \in Int /\ u - v = (j - i) * n
      BY <1>1
    <3> HIDE DEF u, v
    <3>3. u - v = 0
      BY <3>1, <3>2
    <3>4. (j - i) * n = 0
      BY <3>2, <3>3
    <3>5. CASE j > i
      <4>1. (j - i) * n >= n
        BY <1>1, <3>5
      <4> QED
        BY <1>1, <3>4, <4>1
    <3>6. CASE j < i
      <4>1. (j - i) * n <= -n
        BY <1>1, <3>6
      <4> QED
        BY <1>1, <3>4, <4>1
    <3> QED
      BY <3>5, <3>6
  <2> QED
    BY <1>6, <2>1 DEF IsInjective
<1>8. ASSUME NEW a \in R PROVE \E i \in 1..k : f[i] = a
  <2> DEFINE d == (a - p) \div n
  <2>1. a \in Nat /\ a >= p /\ (a - p) % n = 0 /\ a + n <= p + s /\ a - p \in Nat
    BY <1>4
  <2>2. d \in Nat /\ a - p = n * d
    BY <1>1, <2>1, Multiple
  <2> HIDE DEF d
  <2>3. d < k
    <3>1. CASE d >= k
      <4>1. n * (d - k) >= 0
        BY <1>1, <2>2, <3>1
      <4>2. n * (d - k) = n * d - n * k /\ n * (k + 1) = n * k + n /\ n * k \in Int
        BY <1>1, <2>2
      <4> QED
        BY <1>1, <1>3, <2>1, <2>2, <4>1, <4>2
    <3> QED
      BY <1>1, <2>2, <3>1
  <2>4. k - d \in 1..k /\ k - (k - d) = d
    BY <1>1, <2>2, <2>3
  <2>5. f[k - d] = p + d * n /\ d * n = n * d
    BY <1>1, <1>5, <2>2, <2>4
  <2> QED
    BY <2>1, <2>2, <2>4, <2>5
<1>9. ToSet(f) = R
  BY <1>5, <1>6, <1>8 DEF ToSet
<1>10. f # <<>>
  BY <1>1, <1>6
<1> QED
  BY <1>6, <1>7, <1>9, <1>10 DEF Lists, f, R, k

------------------------------------------------------------------------------------
(* The inductive invariant *)

\* The cells of a block.
At(b) == Extent(b.pa, Span[b.order])

\* The addresses of the large allocations.
Vas == {l.va : l \in large}

\* What callers hold of Rust's large path.
RustHeld == {g \in held : g.addr \notin DOMAIN slab \cup Vas /\ g.size >= LARGE_THRESHOLD}

\* What is held on a page.
HeldAt(p, c, H) == {h \in H : h.addr \in Objects(p, c)}

\* A task between the page allocator's refusal and kmalloc.
Asking == [kind : {"fallback"}, size : RustSizes]

\* A task between the page allocator and PAGE_ALLOCS.
Recordings == [kind : {"check", "index", "write", "load", "store", "panic"},
              size : RustSizes, addr : Cells, at : Nat]

\* What a caller may hold.
Handles == [addr : Cells, size : Sizes \cup RustSizes, by : {"c", "rust"}]

\* Types, and the tables' limits.
Typed ==
    /\ blocks \subseteq [pa : Cells, order : 0..MaxOrder]
    /\ slab = [p \in DOMAIN slab |-> slab[p]]
    /\ DOMAIN slab \subseteq Cells /\ Cardinality(DOMAIN slab) <= MAX_SLAB_PAGES
    /\ partial \in [Caches -> Seq(Cells)]
    /\ large \subseteq [va : Cells, order : 0..MaxOrder] /\ Cardinality(large) <= MAX_LARGE_ALLOCS
    /\ IsFiniteSet(large)
    /\ table \in [1..MAX_PAGE_ALLOCS -> Cells \cup {NULL}] /\ count \in Nat
    /\ op \in [Tasks -> {Idle} \cup Asking \cup Recordings]
    /\ held \subseteq Handles /\ IsFiniteSet(held)

\* Only large sizes take Rust's large path.
LargeAsks == \A t \in Tasks : op[t] # Idle => op[t].size >= LARGE_THRESHOLD

\* A slab page: its objects are held or free, each once, and inuse counts the held ones.
\* The list and the count together have the page's capacity, which an alloc relies on.
PageOK(p, sp, H) ==
    /\ sp \in [cache : Caches, inuse : Nat \ {0}, freelist : Seq(Cells)]
    /\ sp.inuse + Len(sp.freelist) = Capacity(sp.cache)
    /\ sp.inuse = Cardinality(HeldAt(p, sp.cache, H))
    /\ Lists(sp.freelist, Objects(p, sp.cache) \ {h.addr : h \in HeldAt(p, sp.cache, H)})

PagesOK == \A p \in DOMAIN slab : PageOK(p, slab[p], held)

\* Blocks in use start at a page, lie in memory and share no cell.
BlocksApart ==
    /\ \A b \in blocks : b.pa % PageSize = 0 /\ At(b) \subseteq Cells
    /\ \A a, b \in blocks : a # b => At(a) \cap At(b) = {}

PendingBlocks == {Block(op[t].addr, RustOrder(op[t].size)) : t \in Pending}
HeldBlocks == {Block(h.addr, RustOrder(h.size)) : h \in RustHeld}

\* The page allocator's books: each block in use has an owner or is lost.
Exact == blocks = SlabBlocks \cup LargeBlocks \cup PendingBlocks \cup HeldBlocks \cup leaked

\* No address has two owners.
OwnersApart ==
    /\ \A p \in DOMAIN slab : p \notin Vas
    /\ \A t \in Pending : /\ op[t].addr \notin DOMAIN slab \cup Vas
                          /\ \A u \in Pending : op[u].addr = op[t].addr => u = t
                          /\ \A h \in held : h.addr # op[t].addr
    /\ \A b \in leaked : /\ b.pa \notin DOMAIN slab \cup Vas
                         /\ \A t \in Pending : op[t].addr # b.pa
                         /\ \A h \in held : h.addr # b.pa
    /\ \A g, h \in held : g.addr = h.addr => g = h

\* An object held lies on the page, and is large enough.
OnPage(h, p, sp) == h.addr \in Objects(p, sp.cache) /\ h.size <= SlabSizes[sp.cache]

\* What a caller holds is an object of a page, a large allocation, or a block of Rust's own.
Placed(h) ==
    \/ \E p \in DOMAIN slab : OnPage(h, p, slab[p])
    \/ \E l \in large : l.va = h.addr /\ h.size <= Span[l.order]
    \/ h \in RustHeld /\ h.by = "rust"
HeldPlaced == \A h \in held : Placed(h)

\* Each cache's list holds the cache's pages, each once.
ListsExact == \A c \in Caches : Lists(partial[c], {p \in DOMAIN slab : slab[p].cache = c})

\* An entry of PAGE_ALLOCS is the start of a page, so that it can match no object but a page's first.
TableAligned == \A i \in 1..MAX_PAGE_ALLOCS : table[i] # NULL => table[i] % PageSize = 0

State == /\ Typed /\ LargeAsks /\ PagesOK /\ BlocksApart /\ Exact /\ OwnersApart
         /\ HeldPlaced /\ ListsExact /\ TableAligned
IInv == ~confused => State

------------------------------------------------------------------------------------
(* Facts about a state *)

\* The linear map is a finite range of addresses, and NULL is none of them.
LEMMA CellsNat == Cells \subseteq Nat /\ IsFiniteSet(Cells) /\ NULL \notin Cells
<1> DEFINE a == FirstPage * PageSize
           b == (FirstPage + Pages) * PageSize - 1
<1>1. a \in Nat /\ b \in Int
  BY PageAssumption
<1>2. Cells = a..b
  BY DEF Cells
<1> HIDE DEF a, b
<1> QED
  BY <1>1, <1>2, FS_Interval, NullAssumption

\* The address, the order and the cells of a block.
LEMMA BlockFields ==
  ASSUME NEW pa, NEW o
  PROVE  Block(pa, o).pa = pa /\ Block(pa, o).order = o /\ At(Block(pa, o)) = Extent(pa, Span[o])
BY DEF Block, At

\* A block in use: it starts with its own first cell, and the cell tells the block.
LEMMA InUse ==
  ASSUME Typed, BlocksApart
  PROVE  /\ \A b \in blocks : /\ b.pa \in Nat /\ b.pa \in Cells /\ b.order \in Nat /\ b.order <= MaxOrder
                              /\ b = Block(b.pa, b.order)
                              /\ b.pa \in At(b) /\ At(b) \subseteq Cells
         /\ \A a, b \in blocks : a.pa = b.pa => a = b
         /\ \A a, b \in blocks : \A x : x \in At(a) /\ x \in At(b) => a = b
<1>1. ASSUME NEW b \in blocks
      PROVE  /\ b.pa \in Nat /\ b.pa \in Cells /\ b.order \in Nat /\ b.order <= MaxOrder
             /\ b = Block(b.pa, b.order) /\ b.pa \in At(b) /\ At(b) \subseteq Cells
  <2>1. b \in [pa : Cells, order : 0..MaxOrder]
    BY DEF Typed
  <2>2. b.pa \in Nat /\ b.pa \in Cells /\ b.order \in Nat /\ b.order <= MaxOrder /\ b = Block(b.pa, b.order)
    <3>1. b = [pa |-> b.pa, order |-> b.order] /\ b.pa \in Cells /\ b.order \in 0..MaxOrder
      BY <2>1
    <3>2. b.order \in Nat /\ b.order <= MaxOrder
      BY <3>1, LimitsAssumption
    <3> QED
      BY <3>1, <3>2, CellsNat DEF Block
  <2>3. Span[b.order] \in Nat \ {0}
    BY <2>2, SpanPages
  <2>4. b.pa \in At(b)
    BY <2>2, <2>3 DEF At, Extent
  <2> QED
    BY <2>2, <2>4 DEF BlocksApart
<1>2. \A a, b \in blocks : \A x : x \in At(a) /\ x \in At(b) => a = b
  BY DEF BlocksApart
<1>3. \A a, b \in blocks : a.pa = b.pa => a = b
  BY <1>1, <1>2
<1> QED
  BY <1>1, <1>2, <1>3, Zenon

\* The block of every owner.
LEMMA Owned ==
  ASSUME Exact
  PROVE  /\ \A p \in DOMAIN slab : Block(p, Order(SlabSizes[slab[p].cache])) \in blocks
         /\ \A l \in large : Block(l.va, l.order) \in blocks
         /\ \A t \in Pending : Block(op[t].addr, RustOrder(op[t].size)) \in blocks
         /\ \A h \in RustHeld : Block(h.addr, RustOrder(h.size)) \in blocks
         /\ leaked \subseteq blocks
BY DEF Exact, SlabBlocks, LargeBlocks, PendingBlocks, HeldBlocks

\* The objects of a slab page lie in its block.
LEMMA ObjectsInside ==
  ASSUME NEW p \in Nat, NEW c \in Caches
  PROVE  Objects(p, c) \subseteq At(Block(p, Order(SlabSizes[c])))
BY BlockFields DEF Objects

\* The descriptor of a slab page has its type.
LEMMA PageTypes ==
  ASSUME Typed, PagesOK, NEW p \in DOMAIN slab
  PROVE  p \in Nat /\ p \in Cells /\ slab[p].cache \in Caches /\ slab[p].inuse \in Nat \ {0}
         /\ slab[p].freelist \in Seq(Cells) /\ PageOK(p, slab[p], held)
BY CellsNat DEF Typed, PagesOK, PageOK

\* The first object of a page.
LEMMA FirstObject ==
  ASSUME NEW p \in Nat, NEW c \in Caches
  PROVE  p \in Objects(p, c)
<1> DEFINE n == SlabSizes[c]
<1>1. n \in Nat \ {0} /\ n > 0 /\ Span[Order(n)] >= n /\ Span[Order(n)] \in Nat
  BY CacheSize, OrderIs, SpanPages
<1>2. 0 = n * 0 /\ 0 \in Nat /\ p - p = 0
  BY <1>1
<1>3. (p - p) % n = 0
  <2> HIDE DEF n
  <2> QED
    BY <1>1, <1>2, Multiple
<1>4. p + n <= p + Span[Order(n)]
  <2> HIDE DEF n
  <2> QED
    BY <1>1
<1> QED
  BY <1>3, <1>4, ObjectIn

\* Every object that is held lies in a block in use.
LEMMA HeldInside ==
  ASSUME State, NEW h \in held
  PROVE  /\ \A p \in DOMAIN slab : OnPage(h, p, slab[p]) => h.addr \in At(Block(p, Order(SlabSizes[slab[p].cache])))
         /\ \E b \in blocks : h.addr \in At(b)
<1>1. Typed /\ PagesOK /\ BlocksApart /\ Exact /\ HeldPlaced
  BY DEF State
<1>2. ASSUME NEW p \in DOMAIN slab, OnPage(h, p, slab[p])
      PROVE  h.addr \in At(Block(p, Order(SlabSizes[slab[p].cache])))
  BY <1>1, <1>2, PageTypes, ObjectsInside DEF OnPage
<1>3. CASE \E p \in DOMAIN slab : OnPage(h, p, slab[p])
  BY <1>1, <1>2, <1>3, Owned
<1>4. CASE \E l \in large : l.va = h.addr
  <2>1. PICK l \in large : l.va = h.addr
    BY <1>4
  <2> DEFINE b == Block(l.va, l.order)
  <2>2. b \in blocks /\ b.pa = h.addr
    BY <1>1, <2>1, Owned, BlockFields
  <2> QED
    BY <1>1, <1>2, <2>2, InUse
<1>5. CASE h \in RustHeld
  <2> DEFINE b == Block(h.addr, RustOrder(h.size))
  <2>1. b \in blocks /\ b.pa = h.addr
    BY <1>1, <1>5, Owned, BlockFields
  <2> QED
    BY <1>1, <1>2, <2>1, InUse
<1> QED
  BY <1>1, <1>2, <1>3, <1>4, <1>5 DEF HeldPlaced, Placed

\* A block that alloc_phys_pages may hand out meets nothing that is in use.
LEMMA FreshBlock ==
  ASSUME State, NEW o \in Nat, NEW pa \in FreeBlocks(o)
  PROVE  LET b == Block(pa, o)
         IN /\ pa \in Cells /\ pa \in Nat /\ pa # NULL /\ o <= MaxOrder /\ b \in [pa : Cells, order : 0..MaxOrder]
            /\ pa % PageSize = 0 /\ At(b) \subseteq Cells /\ pa \in At(b)
            /\ b \notin blocks
            /\ \A a \in blocks : At(a) \cap At(b) = {} /\ a.pa # pa
            /\ pa \notin DOMAIN slab /\ pa \notin Vas
            /\ \A t \in Pending : op[t].addr # pa
            /\ \A h \in held : h.addr \notin At(b) /\ h.addr # pa
            /\ \A a \in leaked : a.pa # pa
<1> DEFINE b == Block(pa, o)
<1>1. Typed /\ PagesOK /\ BlocksApart /\ Exact /\ HeldPlaced
  BY DEF State
<1>2. /\ pa \in Cells /\ pa \in Nat /\ pa # NULL /\ o <= MaxOrder /\ pa % Span[o] = 0
      /\ Extent(pa, Span[o]) \subseteq Cells
      /\ \A a \in blocks : Extent(pa, Span[o]) \cap At(a) = {}
  BY CellsNat DEF FreeBlocks, At
<1>3. b \in [pa : Cells, order : 0..MaxOrder] /\ b.pa = pa /\ At(b) = Extent(pa, Span[o])
  BY <1>2, LimitsAssumption, BlockFields DEF Block
<1>4. pa % PageSize = 0
  BY <1>2, AlignedToPage
<1>5. pa \in At(b)
  <2>1. Span[o] \in Nat \ {0}
    BY SpanPages
  <2> QED
    BY <1>2, <1>3, <2>1 DEF Extent
<1> HIDE DEF b
<1>6. \A a \in blocks : At(a) \cap At(b) = {} /\ a.pa # pa /\ a # b
  BY <1>1, <1>2, <1>3, <1>5, InUse
<1>7. \A h \in held : h.addr \notin At(b) /\ h.addr # pa
  BY <1>5, <1>6, HeldInside
<1>8. /\ \A p \in DOMAIN slab : p # pa
      /\ \A l \in large : l.va # pa
      /\ \A t \in Pending : op[t].addr # pa
      /\ \A a \in leaked : a.pa # pa
  BY <1>1, <1>6, Owned, BlockFields
<1> QED
  BY <1>2, <1>3, <1>4, <1>5, <1>6, <1>7, <1>8 DEF Vas, b

------------------------------------------------------------------------------------
(* Steps on the pages: an object taken or put back *)

\* What is held elsewhere does not count for a page.
LEMMA HeldElsewhere ==
  ASSUME NEW p, NEW sp, NEW H, NEW n, n.addr \notin Objects(p, sp.cache)
  PROVE  /\ PageOK(p, sp, H) => PageOK(p, sp, H \cup {n})
         /\ PageOK(p, sp, H) => PageOK(p, sp, H \ {n})
<1>1. /\ HeldAt(p, sp.cache, H \cup {n}) = HeldAt(p, sp.cache, H)
      /\ HeldAt(p, sp.cache, H \ {n}) = HeldAt(p, sp.cache, H)
  BY DEF HeldAt
<1> QED
  BY <1>1 DEF PageOK

\* An object of a slab page is in no other block, and its page is the only one.
LEMMA ObjectOfOne ==
  ASSUME State, NEW p \in DOMAIN slab, NEW a \in Objects(p, slab[p].cache)
  PROVE  /\ \A q \in DOMAIN slab : a \in At(Block(q, Order(SlabSizes[slab[q].cache]))) => q = p
         /\ \A q \in DOMAIN slab : a \in Objects(q, slab[q].cache) => q = p
         /\ a \notin Vas
         /\ \A h \in RustHeld : h.addr # a
         /\ \A t \in Pending : op[t].addr # a
         /\ \A b \in leaked : b.pa # a
         /\ a \in Cells /\ a # NULL
<1>1. Typed /\ PagesOK /\ BlocksApart /\ Exact /\ OwnersApart
  BY DEF State
<1> DEFINE B(q) == Block(q, Order(SlabSizes[slab[q].cache]))
<1>2. \A q \in DOMAIN slab : B(q) \in blocks /\ B(q).pa = q /\ Objects(q, slab[q].cache) \subseteq At(B(q))
  BY <1>1, Owned, BlockFields, PageTypes, ObjectsInside
<1>3. B(p) \in blocks /\ a \in At(B(p)) /\ B(p).pa = p
  BY <1>2
<1>4. a \in Cells /\ a # NULL
  BY <1>1, <1>3, InUse, CellsNat
<1>5. ASSUME NEW b \in blocks, a \in At(b) PROVE b.pa = p
  BY <1>1, <1>3, <1>5, InUse
<1> HIDE DEF B
<1>6. \A q \in DOMAIN slab : a \in At(B(q)) => q = p
  BY <1>2, <1>5
<1>7. ASSUME NEW b \in blocks, b.pa = a PROVE a = p
  <2>1. a \in At(b)
    BY <1>1, <1>7, InUse
  <2> QED
    BY <1>5, <1>7, <2>1
<1>8. a \notin Vas
  <2> SUFFICES ASSUME NEW l \in large, l.va = a PROVE FALSE
    BY DEF Vas
  <2>1. Block(l.va, l.order) \in blocks /\ Block(l.va, l.order).pa = a
    BY <1>1, Owned, BlockFields
  <2> QED
    BY <1>1, <1>7, <2>1 DEF OwnersApart, Vas
<1>9. \A h \in RustHeld : h.addr # a
  <2> SUFFICES ASSUME NEW h \in RustHeld, h.addr = a PROVE FALSE
    OBVIOUS
  <2>1. Block(h.addr, RustOrder(h.size)) \in blocks /\ Block(h.addr, RustOrder(h.size)).pa = a
    BY <1>1, Owned, BlockFields
  <2> QED
    BY <1>7, <2>1 DEF RustHeld
<1>10. \A t \in Pending : op[t].addr # a
  <2> SUFFICES ASSUME NEW t \in Pending, op[t].addr = a PROVE FALSE
    OBVIOUS
  <2>1. Block(op[t].addr, RustOrder(op[t].size)) \in blocks /\ Block(op[t].addr, RustOrder(op[t].size)).pa = a
    BY <1>1, Owned, BlockFields
  <2> QED
    BY <1>1, <1>7, <2>1 DEF OwnersApart
<1>11. \A b \in leaked : b.pa # a
  BY <1>1, <1>7, Owned DEF OwnersApart
<1> QED
  BY <1>2, <1>4, <1>6, <1>8, <1>9, <1>10, <1>11 DEF B

\* What a caller holds has its type.
LEMMA HandleTypes ==
  ASSUME NEW h \in Handles
  PROVE  h.addr \in Cells /\ h.addr \in Nat /\ h.size \in Nat /\ h.by \in {"c", "rust"}
<1>1. h.addr \in Cells /\ h.size \in Sizes \cup RustSizes /\ h.by \in {"c", "rust"}
  BY DEF Handles
<1>2. Sizes \cup RustSizes \subseteq Nat
  BY SizesAssumption
<1> QED
  BY <1>1, <1>2, CellsNat

\* What the C part of a call leaves alone.
RustKept ==
    /\ table' = table /\ count' = count /\ leaked' = leaked
    /\ op' \in [Tasks -> {Idle} \cup Asking \cup Recordings]
    /\ LargeAsks'
    /\ Pending' = Pending /\ \A t \in Pending : op'[t] = op[t]

\* The blocks that Rust has not recorded yet stay when its locals do.
LEMMA PendingKept ==
  ASSUME RustKept
  PROVE  PendingBlocks' = PendingBlocks
<1>1. Pending' = Pending /\ \A t \in Pending : op'[t] = op[t]
  BY DEF RustKept
<1>2. PendingBlocks' = {Block(op'[t].addr, RustOrder(op'[t].size)) : t \in Pending'}
  BY DEF PendingBlocks
<1>3. {Block(op'[t].addr, RustOrder(op'[t].size)) : t \in Pending} = {Block(op[t].addr, RustOrder(op[t].size)) : t \in Pending}
  BY <1>1
<1> QED
  BY <1>1, <1>2, <1>3 DEF PendingBlocks

\* slab_grow: a new page, of which one object is handed out.
LEMMA GrowStep ==
  ASSUME State, NEW c \in Caches, NEW n \in Handles, n.size <= SlabSizes[c], n.size < LARGE_THRESHOLD,
         NEW pa \in FreeBlocks(Order(SlabSizes[c])), ~PoolFull,
         n.addr = Head(FreshList(pa, c)),
         blocks' = blocks \cup {Block(pa, Order(SlabSizes[c]))},
         slab' = [p \in DOMAIN slab \cup {pa} |->
                    IF p = pa THEN [cache |-> c, inuse |-> 1, freelist |-> Tail(FreshList(pa, c))]
                    ELSE slab[p]],
         partial' = [partial EXCEPT ![c] = <<pa>> \o @],
         held' = held \cup {n}, UNCHANGED large, RustKept
  PROVE  State'
<1> DEFINE o == Order(SlabSizes[c])
           b == Block(pa, o)
           f == FreshList(pa, c)
           sp == [cache |-> c, inuse |-> 1, freelist |-> Tail(f)]
<1>1. Typed /\ PagesOK /\ BlocksApart /\ Exact /\ OwnersApart /\ HeldPlaced /\ ListsExact /\ TableAligned
  BY DEF State
<1>2. o \in Nat
  BY CacheSize, OrderIs
<1>3. /\ pa \in Cells /\ pa \in Nat /\ pa # NULL /\ o <= MaxOrder /\ b \in [pa : Cells, order : 0..MaxOrder]
      /\ pa % PageSize = 0 /\ At(b) \subseteq Cells /\ pa \in At(b) /\ b \notin blocks
      /\ \A a \in blocks : At(a) \cap At(b) = {} /\ a.pa # pa
      /\ pa \notin DOMAIN slab /\ pa \notin Vas
      /\ \A t \in Pending : op[t].addr # pa
      /\ \A h \in held : h.addr \notin At(b) /\ h.addr # pa
      /\ \A a \in leaked : a.pa # pa
  BY <1>2, FreshBlock
<1>4. /\ DOMAIN slab' = DOMAIN slab \cup {pa} /\ slab'[pa] = sp
      /\ \A p \in DOMAIN slab : slab'[p] = slab[p]
  BY <1>3
<1>5. /\ f # <<>> /\ Len(f) = Capacity(c) /\ n.addr \in Objects(pa, c)
      /\ Lists(Tail(f), Objects(pa, c) \ {n.addr}) /\ Len(Tail(f)) = Len(f) - 1 /\ Len(f) \in Nat
  BY <1>3, FreshLists, TailLists
<1>6. Objects(pa, c) \subseteq At(b) /\ b.pa = pa
  BY <1>3, ObjectsInside, BlockFields
<1>7. n.addr \in At(b) /\ n \notin held /\ n.addr \in Cells
  BY <1>3, <1>5, <1>6
<1>8. Vas' = Vas
  BY DEF Vas
<1>9. ASSUME NEW p \in DOMAIN slab PROVE n.addr \notin Objects(p, slab[p].cache) /\ p # n.addr /\ p # pa
  <2>1. Block(p, Order(SlabSizes[slab[p].cache])) \in blocks
    BY <1>1, Owned
  <2>2. Objects(p, slab[p].cache) \subseteq At(Block(p, Order(SlabSizes[slab[p].cache])))
    BY <1>1, PageTypes, ObjectsInside
  <2>3. p \in At(Block(p, Order(SlabSizes[slab[p].cache])))
    BY <1>1, <2>1, InUse, BlockFields
  <2> QED
    BY <1>3, <1>7, <2>1, <2>2, <2>3
<1>10. /\ n.addr \notin Vas /\ \A t \in Pending : op[t].addr # n.addr
       /\ \A a \in leaked : a.pa # n.addr
       /\ \A h \in held : h.addr # n.addr
  <2>1. ASSUME NEW a \in blocks PROVE a.pa # n.addr
    BY <1>1, <1>3, <1>7, InUse
  <2>2. \A l \in large : l.va # n.addr
    BY <1>1, <2>1, Owned, BlockFields
  <2>3. \A t \in Pending : op[t].addr # n.addr
    BY <1>1, <2>1, Owned, BlockFields
  <2>4. \A a \in leaked : a.pa # n.addr
    BY <1>1, <2>1, Owned
  <2> QED
    BY <1>3, <1>7, <2>2, <2>3, <2>4 DEF Vas
<1>11. RustHeld' = RustHeld
  <2>1. ~(n.size >= LARGE_THRESHOLD)
    <3>1. n.size \in Nat /\ LARGE_THRESHOLD \in Nat
      BY HandleTypes, LimitsAssumption
    <3> QED
      BY <3>1
  <2>2. n \notin RustHeld'
    BY <2>1 DEF RustHeld
  <2> QED
    BY <1>3, <1>4, <1>8, <2>2 DEF RustHeld
<1> HIDE DEF f, b, o
<1>12. Typed'
  <2>1. blocks' \subseteq [pa : Cells, order : 0..MaxOrder]
    BY <1>1, <1>3 DEF Typed, b, o
  <2>2. slab' = [p \in DOMAIN slab' |-> slab'[p]] /\ DOMAIN slab' \subseteq Cells
    BY <1>1, <1>3, <1>4 DEF Typed
  <2>3. Cardinality(DOMAIN slab') <= MAX_SLAB_PAGES
    <3>1. IsFiniteSet(DOMAIN slab)
      BY <1>1, CellsNat, FS_Subset DEF Typed
    <3>2. Cardinality(DOMAIN slab \cup {pa}) = Cardinality(DOMAIN slab) + 1 /\ Cardinality(DOMAIN slab) \in Nat
      BY <1>3, <3>1, FS_AddElement, FS_CardinalityType
    <3>3. Cardinality(DOMAIN slab) < MAX_SLAB_PAGES
      BY <1>1, <3>2, LimitsAssumption DEF Typed, PoolFull
    <3> QED
      BY <1>4, <3>2, <3>3, LimitsAssumption
  <2>4. partial' \in [Caches -> Seq(Cells)]
    <3>1. partial[c] \in Seq(Cells) /\ <<pa>> \in Seq(Cells)
      BY <1>1, <1>3 DEF Typed
    <3>2. <<pa>> \o partial[c] \in Seq(Cells)
      BY <3>1, ConcatProperties
    <3> QED
      BY <1>1, <3>2 DEF Typed
  <2>5. held' \subseteq Handles /\ IsFiniteSet(held')
    BY <1>1, FS_AddElement DEF Typed
  <2> QED
    BY <1>1, <2>1, <2>2, <2>3, <2>4, <2>5 DEF Typed, RustKept
<1>13. PagesOK'
  <2>1. ASSUME NEW p \in DOMAIN slab PROVE PageOK(p, slab[p], held \cup {n})
    BY <1>1, <1>9, PageTypes, HeldElsewhere
  <2>2. PageOK(pa, sp, held \cup {n})
    <3>1. HeldAt(pa, c, held \cup {n}) = {n}
      BY <1>3, <1>5, <1>6 DEF HeldAt
    <3>2. Cardinality({n}) = 1
      BY FS_Singleton
    <3>3. Tail(f) \in Seq(Cells)
      <4>1. Tail(f) \in Seq(Objects(pa, c) \ {n.addr}) /\ Objects(pa, c) \ {n.addr} \subseteq Cells
        BY <1>3, <1>5, <1>6 DEF Lists
      <4> QED
        BY <4>1, SeqMonotonic
    <3>4. {h.addr : h \in {n}} = {n.addr}
      OBVIOUS
    <3>5. 1 + Len(Tail(f)) = Capacity(c)
      BY <1>5
    <3>6. /\ sp \in [cache : Caches, inuse : Nat \ {0}, freelist : Seq(Cells)]
          /\ sp.cache = c /\ sp.inuse = 1 /\ sp.freelist = Tail(f)
      BY <3>3
    <3> HIDE DEF sp
    <3> QED
      BY <1>5, <3>1, <3>2, <3>4, <3>5, <3>6 DEF PageOK
  <2> QED
    BY <1>4, <2>1, <2>2 DEF PagesOK
<1>14. BlocksApart'
  <2>1. blocks' = blocks \cup {b}
    BY DEF b, o
  <2> QED
    BY <1>1, <1>3, <1>6, <2>1 DEF BlocksApart
<1>15. Exact'
  <2>1. SlabBlocks' = SlabBlocks \cup {b} /\ blocks' = blocks \cup {b}
    BY <1>4 DEF b, o, SlabBlocks
  <2>2. LargeBlocks' = LargeBlocks /\ PendingBlocks' = PendingBlocks /\ HeldBlocks' = HeldBlocks /\ leaked' = leaked
    BY <1>11, PendingKept DEF LargeBlocks, HeldBlocks, RustKept
  <2> QED
    BY <1>1, <2>1, <2>2 DEF Exact
<1>16. OwnersApart'
  <2>1. \A p \in DOMAIN slab' : p \notin Vas'
    BY <1>1, <1>3, <1>4, <1>8 DEF OwnersApart
  <2>2. \A t \in Pending' : /\ op'[t].addr \notin DOMAIN slab' \cup Vas'
                            /\ \A u \in Pending' : op'[u].addr = op'[t].addr => u = t
                            /\ \A h \in held' : h.addr # op'[t].addr
    BY <1>1, <1>3, <1>4, <1>8, <1>10 DEF OwnersApart, RustKept
  <2>3. \A a \in leaked' : /\ a.pa \notin DOMAIN slab' \cup Vas'
                           /\ \A t \in Pending' : op'[t].addr # a.pa
                           /\ \A h \in held' : h.addr # a.pa
    BY <1>1, <1>3, <1>4, <1>8, <1>10 DEF OwnersApart, RustKept
  <2>4. \A g, h \in held' : g.addr = h.addr => g = h
    BY <1>1, <1>10 DEF OwnersApart
  <2> QED
    BY <2>1, <2>2, <2>3, <2>4 DEF OwnersApart
<1>17. HeldPlaced'
  <2>1. OnPage(n, pa, slab'[pa]) /\ pa \in DOMAIN slab'
    BY <1>4, <1>5 DEF OnPage
  <2>2. ASSUME NEW h \in held PROVE Placed(h)'
    <3>1. Placed(h)
      BY <1>1 DEF HeldPlaced
    <3>2. CASE \E p \in DOMAIN slab : OnPage(h, p, slab[p])
      BY <1>4, <3>2 DEF Placed
    <3>3. CASE ~ \E p \in DOMAIN slab : OnPage(h, p, slab[p])
      BY <1>11, <3>1, <3>3 DEF Placed
    <3> QED
      BY <3>2, <3>3
  <2>3. Placed(n)'
    BY <2>1 DEF Placed
  <2> QED
    BY <2>2, <2>3 DEF HeldPlaced
<1>18. ListsExact'
  <2> SUFFICES ASSUME NEW d \in Caches PROVE Lists(partial'[d], {p \in DOMAIN slab' : slab'[p].cache = d})
    BY DEF ListsExact
  <2> DEFINE R == {p \in DOMAIN slab : slab[p].cache = d}
  <2>1. Lists(partial[d], R) /\ pa \notin R
    BY <1>1, <1>3 DEF ListsExact
  <2>2. CASE d = c
    <3>1. {p \in DOMAIN slab' : slab'[p].cache = d} = R \cup {pa}
      BY <1>4, <2>2
    <3>2. partial'[d] = <<pa>> \o partial[d]
      BY <1>1, <2>2 DEF Typed
    <3> DEFINE s == partial[d]
    <3> HIDE DEF R, s
    <3>3. Lists(<<pa>> \o s, R \cup {pa})
      BY <2>1, ConsLists DEF s
    <3> QED
      BY <3>1, <3>2, <3>3 DEF s
  <2>3. CASE d # c
    <3>1. {p \in DOMAIN slab' : slab'[p].cache = d} = R
      BY <1>4, <2>3
    <3>2. partial'[d] = partial[d]
      BY <1>1, <2>3 DEF Typed
    <3> QED
      BY <2>1, <3>1, <3>2
  <2> QED
    BY <2>2, <2>3
<1>19. TableAligned' /\ LargeAsks'
  BY <1>1 DEF TableAligned, RustKept
<1> QED
  BY <1>12, <1>13, <1>14, <1>15, <1>16, <1>17, <1>18, <1>19 DEF State

------------------------------------------------------------------------------------
(* Steps of kmalloc *)

\* Nothing but Rust's own locals changed.
LEMMA KeepStep ==
  ASSUME State, UNCHANGED <<blocks, slab, partial, large, held>>, RustKept
  PROVE  State'
<1>1. Typed /\ PagesOK /\ BlocksApart /\ Exact /\ OwnersApart /\ HeldPlaced /\ ListsExact /\ TableAligned
  BY DEF State
<1>2. Vas' = Vas /\ RustHeld' = RustHeld
  BY DEF Vas, RustHeld
<1>3. Typed'
  BY <1>1 DEF Typed, RustKept
<1>4. PagesOK' /\ BlocksApart' /\ ListsExact' /\ TableAligned' /\ LargeAsks'
  BY <1>1 DEF PagesOK, BlocksApart, ListsExact, TableAligned, RustKept
<1>5. Exact'
  <2>1. /\ SlabBlocks' = SlabBlocks /\ LargeBlocks' = LargeBlocks /\ HeldBlocks' = HeldBlocks
        /\ PendingBlocks' = PendingBlocks /\ leaked' = leaked
    BY <1>2, PendingKept DEF SlabBlocks, LargeBlocks, HeldBlocks, RustKept
  <2> QED
    BY <1>1, <2>1 DEF Exact
<1>6. OwnersApart'
  BY <1>1, <1>2 DEF OwnersApart, RustKept
<1>7. HeldPlaced'
  BY <1>1, <1>2 DEF HeldPlaced, Placed
<1> QED
  BY <1>3, <1>4, <1>5, <1>6, <1>7 DEF State

\* slab_alloc: the first free object of a page is handed out.
LEMMA TakeStep ==
  ASSUME State, NEW s \in DOMAIN slab, slab[s].freelist # <<>>,
         NEW n \in Handles, n.size <= SlabSizes[slab[s].cache], n.size < LARGE_THRESHOLD,
         n.addr = Head(slab[s].freelist),
         slab' = [slab EXCEPT ![s].freelist = Tail(@), ![s].inuse = @ + 1],
         held' = held \cup {n}, UNCHANGED <<blocks, partial, large>>, RustKept
  PROVE  State'
<1> DEFINE c == slab[s].cache
           f == slab[s].freelist
           sp == [cache |-> c, inuse |-> slab[s].inuse + 1, freelist |-> Tail(f)]
           T == {h.addr : h \in HeldAt(s, c, held)}
<1>1. Typed /\ PagesOK /\ BlocksApart /\ Exact /\ OwnersApart /\ HeldPlaced /\ ListsExact /\ TableAligned
  BY DEF State
<1>2. /\ s \in Nat /\ s \in Cells /\ c \in Caches /\ slab[s].inuse \in Nat \ {0} /\ f \in Seq(Cells)
      /\ slab[s].inuse + Len(f) = Capacity(c) /\ slab[s].inuse = Cardinality(HeldAt(s, c, held))
      /\ Lists(f, Objects(s, c) \ T)
      /\ slab[s] \in [cache : Caches, inuse : Nat \ {0}, freelist : Seq(Cells)]
  BY <1>1, PageTypes DEF PageOK
<1>3. DOMAIN slab' = DOMAIN slab /\ slab'[s] = sp /\ \A p \in DOMAIN slab : p # s => slab'[p] = slab[p]
  <2>1. slab = [p \in DOMAIN slab |-> slab[p]]
    BY <1>1 DEF Typed
  <2>2. slab[s] = [cache |-> c, inuse |-> slab[s].inuse, freelist |-> f]
    BY <1>2
  <2> QED
    BY <2>1, <2>2
<1>4. /\ n.addr \in Objects(s, c) /\ n.addr \notin T /\ Lists(Tail(f), (Objects(s, c) \ T) \ {n.addr})
      /\ Len(Tail(f)) = Len(f) - 1 /\ Len(f) \in Nat
  <2> DEFINE R == Objects(s, c) \ T
  <2>1. Lists(f, R) /\ f # <<>> /\ n.addr = Head(f)
    BY <1>2
  <2> HIDE DEF R, f
  <2>2. n.addr \in R /\ Lists(Tail(f), R \ {n.addr}) /\ Len(Tail(f)) = Len(f) - 1 /\ Len(f) \in Nat
    BY <2>1, TailLists
  <2> QED
    BY <2>2 DEF R
<1>5. /\ \A q \in DOMAIN slab : n.addr \in Objects(q, slab[q].cache) => q = s
      /\ n.addr \notin Vas
      /\ \A t \in Pending : op[t].addr # n.addr
      /\ \A b \in leaked : b.pa # n.addr
      /\ \A h \in RustHeld : h.addr # n.addr
  BY <1>4, ObjectOfOne
<1>6. \A h \in held : h.addr # n.addr
  BY <1>4 DEF HeldAt
<1>7. Vas' = Vas
  BY DEF Vas
<1>8. RustHeld' = RustHeld
  <2>1. ~(n.size >= LARGE_THRESHOLD)
    <3>1. n.size \in Nat /\ LARGE_THRESHOLD \in Nat
      BY HandleTypes, LimitsAssumption
    <3> QED
      BY <3>1
  <2> QED
    BY <1>3, <1>7, <2>1 DEF RustHeld
<1>9. DOMAIN slab' = DOMAIN slab /\ \A p \in DOMAIN slab : slab'[p].cache = slab[p].cache
  BY <1>3
<1> HIDE DEF f
<1>10. Typed'
  <2>1. slab' = [p \in DOMAIN slab' |-> slab'[p]]
    OBVIOUS
  <2>2. held' \subseteq Handles /\ IsFiniteSet(held')
    BY <1>1, FS_AddElement DEF Typed
  <2> QED
    BY <1>1, <1>3, <2>1, <2>2 DEF Typed, RustKept
<1>11. PagesOK'
  <2>1. ASSUME NEW p \in DOMAIN slab, p # s PROVE PageOK(p, slab[p], held \cup {n})
    BY <1>1, <1>5, <2>1, PageTypes, HeldElsewhere
  <2>2. PageOK(s, sp, held \cup {n})
    <3>1. HeldAt(s, c, held \cup {n}) = HeldAt(s, c, held) \cup {n} /\ n \notin HeldAt(s, c, held)
      BY <1>4, <1>6 DEF HeldAt
    <3>2. Cardinality(HeldAt(s, c, held) \cup {n}) = slab[s].inuse + 1
      <4>1. IsFiniteSet(HeldAt(s, c, held))
        BY <1>1, FS_Subset DEF Typed, HeldAt
      <4> QED
        BY <1>2, <3>1, <4>1, FS_AddElement
    <3>3. {h.addr : h \in HeldAt(s, c, held) \cup {n}} = T \cup {n.addr}
      OBVIOUS
    <3>4. (Objects(s, c) \ T) \ {n.addr} = Objects(s, c) \ (T \cup {n.addr})
      OBVIOUS
    <3>5. Tail(f) \in Seq(Cells)
      BY <1>2, HeadTailProperties DEF f
    <3>6. slab[s].inuse + 1 + Len(Tail(f)) = Capacity(c) /\ slab[s].inuse + 1 \in Nat \ {0}
      <4> DEFINE k == slab[s].inuse
                 m == Len(f)
                 j == Len(Tail(f))
      <4>1. k \in Nat /\ m \in Nat /\ j = m - 1 /\ k + m = Capacity(c)
        BY <1>2, <1>4
      <4> HIDE DEF k, m, j
      <4>2. k + 1 + j = k + m /\ k + 1 \in Nat \ {0}
        BY <4>1
      <4> QED
        BY <4>1, <4>2 DEF k, m, j
    <3>7. /\ sp \in [cache : Caches, inuse : Nat \ {0}, freelist : Seq(Cells)]
          /\ sp.cache = c /\ sp.inuse = slab[s].inuse + 1 /\ sp.freelist = Tail(f)
      BY <1>2, <3>5, <3>6
    <3> HIDE DEF sp, T, c
    <3> QED
      BY <1>4, <3>1, <3>2, <3>3, <3>4, <3>6, <3>7 DEF PageOK
  <2> QED
    BY <1>3, <2>1, <2>2 DEF PagesOK
<1>12. BlocksApart'
  BY <1>1 DEF BlocksApart
<1>13. Exact'
  <2>1. SlabBlocks' = SlabBlocks
    <3>1. SlabBlocks' = {Block(p, Order(SlabSizes[slab'[p].cache])) : p \in DOMAIN slab}
      BY <1>3 DEF SlabBlocks
    <3> QED
      BY <1>9, <3>1 DEF SlabBlocks
  <2>2. LargeBlocks' = LargeBlocks /\ PendingBlocks' = PendingBlocks /\ HeldBlocks' = HeldBlocks /\ leaked' = leaked
    BY <1>8, PendingKept DEF LargeBlocks, HeldBlocks, RustKept
  <2> QED
    BY <1>1, <2>1, <2>2 DEF Exact
<1>14. OwnersApart'
  <2>1. \A p \in DOMAIN slab' : p \notin Vas'
    BY <1>1, <1>3, <1>7 DEF OwnersApart
  <2>2. \A t \in Pending' : /\ op'[t].addr \notin DOMAIN slab' \cup Vas'
                            /\ \A u \in Pending' : op'[u].addr = op'[t].addr => u = t
                            /\ \A h \in held' : h.addr # op'[t].addr
    <3>1. /\ Pending' = Pending /\ \A t \in Pending : op'[t] = op[t]
      BY DEF RustKept
    <3>2. \A t \in Pending : /\ op[t].addr \notin DOMAIN slab \cup Vas
                              /\ \A u \in Pending : op[u].addr = op[t].addr => u = t
                              /\ \A h \in held : h.addr # op[t].addr
      BY <1>1 DEF OwnersApart
    <3> QED
      BY <1>5, <1>7, <1>9, <3>1, <3>2
  <2>3. \A a \in leaked' : /\ a.pa \notin DOMAIN slab' \cup Vas'
                           /\ \A t \in Pending' : op'[t].addr # a.pa
                           /\ \A h \in held' : h.addr # a.pa
    BY <1>1, <1>3, <1>5, <1>7 DEF OwnersApart, RustKept
  <2>4. \A g, h \in held' : g.addr = h.addr => g = h
    BY <1>1, <1>6 DEF OwnersApart
  <2> QED
    BY <2>1, <2>2, <2>3, <2>4 DEF OwnersApart
<1>15. HeldPlaced'
  <2>1. OnPage(n, s, slab'[s]) /\ s \in DOMAIN slab'
    BY <1>4, <1>9 DEF OnPage
  <2>2. ASSUME NEW h \in held PROVE Placed(h)'
    <3>1. Placed(h)
      BY <1>1 DEF HeldPlaced
    <3>2. CASE \E p \in DOMAIN slab : OnPage(h, p, slab[p])
      BY <1>3, <1>9, <3>2 DEF Placed, OnPage
    <3>3. CASE ~ \E p \in DOMAIN slab : OnPage(h, p, slab[p])
      BY <1>8, <3>1, <3>3 DEF Placed
    <3> QED
      BY <3>2, <3>3
  <2>3. Placed(n)'
    BY <2>1 DEF Placed
  <2> QED
    BY <2>2, <2>3 DEF HeldPlaced
<1>16. ListsExact'
  <2> SUFFICES ASSUME NEW d \in Caches PROVE Lists(partial'[d], {p \in DOMAIN slab' : slab'[p].cache = d})
    BY DEF ListsExact
  <2>1. {p \in DOMAIN slab' : slab'[p].cache = d} = {p \in DOMAIN slab : slab[p].cache = d}
    BY <1>3, <1>9
  <2> QED
    BY <1>1, <2>1 DEF ListsExact
<1>17. TableAligned' /\ LargeAsks'
  BY <1>1 DEF TableAligned, RustKept
<1> QED
  BY <1>10, <1>11, <1>12, <1>13, <1>14, <1>15, <1>16, <1>17 DEF State

\* large_alloc: a block of its own.
LEMMA LargeStep ==
  ASSUME State, NEW n \in Handles,
         NEW pa \in FreeBlocks(Order(n.size)), Cardinality(large) # MAX_LARGE_ALLOCS, n.addr = pa,
         blocks' = blocks \cup {Block(pa, Order(n.size))},
         large' = large \cup {[va |-> pa, order |-> Order(n.size)]},
         held' = held \cup {n}, UNCHANGED <<slab, partial>>, RustKept
  PROVE  State'
<1> DEFINE o == Order(n.size)
           b == Block(pa, o)
           l == [va |-> pa, order |-> o]
<1>1. Typed /\ PagesOK /\ BlocksApart /\ Exact /\ OwnersApart /\ HeldPlaced /\ ListsExact /\ TableAligned
  BY DEF State
<1>2. o \in Nat /\ Span[o] >= n.size /\ n.size \in Nat /\ Span[o] \in Nat
  BY HandleTypes, OrderIs, SpanPages
<1>3. /\ pa \in Cells /\ pa \in Nat /\ pa # NULL /\ o <= MaxOrder /\ b \in [pa : Cells, order : 0..MaxOrder]
      /\ pa % PageSize = 0 /\ At(b) \subseteq Cells /\ pa \in At(b) /\ b \notin blocks
      /\ \A a \in blocks : At(a) \cap At(b) = {} /\ a.pa # pa
      /\ pa \notin DOMAIN slab /\ pa \notin Vas
      /\ \A t \in Pending : op[t].addr # pa
      /\ \A h \in held : h.addr \notin At(b) /\ h.addr # pa
      /\ \A a \in leaked : a.pa # pa
  BY <1>2, FreshBlock
<1>4. b.pa = pa /\ blocks' = blocks \cup {b} /\ large' = large \cup {l}
  BY BlockFields
<1>5. Vas' = Vas \cup {pa}
  <2>1. l.va = pa
    OBVIOUS
  <2> HIDE DEF l
  <2> QED
    BY <1>4, <2>1 DEF Vas
<1>6. RustHeld' = RustHeld
  BY <1>3, <1>5 DEF RustHeld
<1>7. l \in [va : Cells, order : 0..MaxOrder] /\ l \notin large
  BY <1>2, <1>3, LimitsAssumption DEF Vas
<1>8. \A p \in DOMAIN slab : pa \notin Objects(p, slab[p].cache)
  <2> TAKE p \in DOMAIN slab
  <2>1. Block(p, Order(SlabSizes[slab[p].cache])) \in blocks
    BY <1>1, Owned
  <2>2. Objects(p, slab[p].cache) \subseteq At(Block(p, Order(SlabSizes[slab[p].cache])))
    BY <1>1, PageTypes, ObjectsInside
  <2> QED
    BY <1>3, <2>1, <2>2
<1> HIDE DEF b, l, o
<1>9. Typed'
  <2>1. blocks' \subseteq [pa : Cells, order : 0..MaxOrder] /\ large' \subseteq [va : Cells, order : 0..MaxOrder]
    BY <1>1, <1>3, <1>4, <1>7 DEF Typed
  <2>2. IsFiniteSet(large') /\ Cardinality(large') <= MAX_LARGE_ALLOCS
    <3>1. IsFiniteSet(large) /\ Cardinality(large) \in Nat /\ Cardinality(large) <= MAX_LARGE_ALLOCS
      BY <1>1, FS_CardinalityType DEF Typed
    <3>2. IsFiniteSet(large \cup {l}) /\ Cardinality(large \cup {l}) = Cardinality(large) + 1
      BY <1>7, <3>1, FS_AddElement
    <3> QED
      BY <1>4, <3>1, <3>2, LimitsAssumption
  <2>3. held' \subseteq Handles /\ IsFiniteSet(held')
    BY <1>1, FS_AddElement DEF Typed
  <2> QED
    BY <1>1, <2>1, <2>2, <2>3 DEF Typed, RustKept
<1>10. PagesOK'
  <2>1. ASSUME NEW p \in DOMAIN slab PROVE PageOK(p, slab[p], held \cup {n})
    BY <1>1, <1>8, PageTypes, HeldElsewhere
  <2> QED
    BY <2>1 DEF PagesOK
<1>11. BlocksApart'
  BY <1>1, <1>3, <1>4 DEF BlocksApart
<1>12. Exact'
  <2>1. LargeBlocks' = LargeBlocks \cup {b}
    <3>1. Block(l.va, l.order) = b
      BY DEF l, b
    <3> QED
      BY <1>4, <3>1 DEF LargeBlocks
  <2>2. SlabBlocks' = SlabBlocks /\ PendingBlocks' = PendingBlocks /\ HeldBlocks' = HeldBlocks /\ leaked' = leaked
    BY <1>6, PendingKept DEF SlabBlocks, HeldBlocks, RustKept
  <2> QED
    BY <1>1, <1>4, <2>1, <2>2 DEF Exact
<1>13. OwnersApart'
  <2>1. \A p \in DOMAIN slab' : p \notin Vas'
    BY <1>1, <1>3, <1>5 DEF OwnersApart
  <2>2. \A t \in Pending' : /\ op'[t].addr \notin DOMAIN slab' \cup Vas'
                            /\ \A u \in Pending' : op'[u].addr = op'[t].addr => u = t
                            /\ \A h \in held' : h.addr # op'[t].addr
    BY <1>1, <1>3, <1>5 DEF OwnersApart, RustKept
  <2>3. \A a \in leaked' : /\ a.pa \notin DOMAIN slab' \cup Vas'
                           /\ \A t \in Pending' : op'[t].addr # a.pa
                           /\ \A h \in held' : h.addr # a.pa
    BY <1>1, <1>3, <1>5 DEF OwnersApart, RustKept
  <2>4. \A g, h \in held' : g.addr = h.addr => g = h
    BY <1>1, <1>3 DEF OwnersApart
  <2> QED
    BY <2>1, <2>2, <2>3, <2>4 DEF OwnersApart
<1>14. HeldPlaced'
  <2>1. l \in large' /\ l.va = n.addr /\ n.size <= Span[l.order]
    <3>1. l.order = o /\ l.va = pa
      BY DEF l
    <3> QED
      BY <1>2, <1>4, <3>1
  <2>2. ASSUME NEW h \in held PROVE Placed(h)'
    <3>1. Placed(h)
      BY <1>1 DEF HeldPlaced
    <3> QED
      BY <1>4, <1>6, <3>1 DEF Placed
  <2>3. Placed(n)'
    BY <2>1 DEF Placed
  <2> QED
    BY <2>2, <2>3 DEF HeldPlaced
<1>15. ListsExact' /\ TableAligned' /\ LargeAsks'
  BY <1>1 DEF ListsExact, TableAligned, RustKept
<1> QED
  BY <1>9, <1>10, <1>11, <1>12, <1>13, <1>14, <1>15 DEF State

------------------------------------------------------------------------------------
(* Steps of Rust's large path *)

\* alloc and dealloc never ask the page allocator for more than its largest order.
LEMMA RustOrderIs ==
  ASSUME NEW size \in Nat
  PROVE  RustOrder(size) \in Nat /\ RustOrder(size) <= MaxOrder
BY OrderIs, LimitsAssumption DEF RustOrder

\* The size that a task of Rust's large path carries is a large one.
LEMMA OpTypes ==
  ASSUME Typed, LargeAsks, NEW t \in Tasks, op[t] # Idle
  PROVE  /\ op[t].size \in RustSizes /\ op[t].size \in Nat /\ op[t].size >= LARGE_THRESHOLD
         /\ op[t].kind # "fallback" => op[t] \in Recordings /\ op[t].addr \in Cells /\ op[t].at \in Nat
         /\ t \in Pending <=> op[t].kind # "fallback"
<1>1. op[t] \in Asking \cup Recordings
  BY DEF Typed
<1>2. op[t].size \in RustSizes
  BY <1>1 DEF Asking, Recordings
<1>3. /\ op[t].kind # "fallback" => op[t] \in Recordings /\ op[t].addr \in Cells /\ op[t].at \in Nat
      /\ t \in Pending <=> op[t].kind # "fallback"
  <2>1. op[t] \in Asking => op[t].kind = "fallback"
    BY DEF Asking
  <2>2. op[t] \in Recordings => op[t].kind # "idle" /\ op[t].addr \in Cells /\ op[t].at \in Nat
    BY DEF Recordings
  <2> QED
    BY <1>1, <2>1, <2>2 DEF Pending
<1>4. op[t].size \in Nat /\ op[t].size >= LARGE_THRESHOLD
  BY <1>2, SizesAssumption DEF LargeAsks
<1> QED
  BY <1>2, <1>3, <1>4

\* alloc has its pages and has yet to record them.
LEMMA ClaimStep ==
  ASSUME State, NEW t \in Tasks, op[t] = Idle, NEW size \in RustSizes, size >= LARGE_THRESHOLD,
         NEW pa \in FreeBlocks(RustOrder(size)),
         blocks' = blocks \cup {Block(pa, RustOrder(size))},
         op' = [op EXCEPT ![t] = [kind |-> "check", size |-> size, addr |-> pa, at |-> 0]],
         UNCHANGED <<slab, partial, large, table, count, held, leaked>>
  PROVE  State'
<1> DEFINE o == RustOrder(size)
           b == Block(pa, o)
           r == [kind |-> "check", size |-> size, addr |-> pa, at |-> 0]
<1>1. /\ Typed /\ LargeAsks /\ PagesOK /\ BlocksApart /\ Exact /\ OwnersApart /\ HeldPlaced
      /\ ListsExact /\ TableAligned
  BY DEF State
<1>2. size \in Nat /\ o \in Nat
  <2>1. size \in Nat
    BY SizesAssumption
  <2> QED
    BY <2>1, RustOrderIs
<1>3. /\ pa \in Cells /\ pa \in Nat /\ pa # NULL /\ o <= MaxOrder /\ b \in [pa : Cells, order : 0..MaxOrder]
      /\ pa % PageSize = 0 /\ At(b) \subseteq Cells /\ pa \in At(b) /\ b \notin blocks
      /\ \A a \in blocks : At(a) \cap At(b) = {} /\ a.pa # pa
      /\ pa \notin DOMAIN slab /\ pa \notin Vas
      /\ \A u \in Pending : op[u].addr # pa
      /\ \A h \in held : h.addr \notin At(b) /\ h.addr # pa
      /\ \A a \in leaked : a.pa # pa
  BY <1>2, FreshBlock
<1>4. b.pa = pa /\ blocks' = blocks \cup {b}
  BY BlockFields
<1>5. /\ op' \in [Tasks -> {Idle} \cup Asking \cup Recordings] /\ op'[t] = r
      /\ \A u \in Tasks : u # t => op'[u] = op[u]
  <2>1. r \in Recordings
    BY <1>3 DEF Recordings
  <2>2. op \in [Tasks -> {Idle} \cup Asking \cup Recordings]
    BY <1>1 DEF Typed
  <2> HIDE DEF r
  <2> QED
    BY <2>1, <2>2 DEF r
<1>6. r.kind \notin {"idle", "fallback"} /\ r.size = size /\ r.addr = pa /\ Block(r.addr, RustOrder(r.size)) = b /\ r # Idle
  BY DEF Idle
<1>7. t \notin Pending
  BY DEF Pending, Idle
<1> HIDE DEF b, o, r
<1>8. Pending' = Pending \cup {t} /\ \A u \in Pending : op'[u] = op[u]
  BY <1>5, <1>6, <1>7 DEF Pending
<1>9. Vas' = Vas /\ RustHeld' = RustHeld
  BY DEF Vas, RustHeld
<1>10. Typed' /\ LargeAsks'
  <2>1. blocks' \subseteq [pa : Cells, order : 0..MaxOrder]
    BY <1>1, <1>3, <1>4 DEF Typed
  <2>2. Typed'
    BY <1>1, <1>5, <2>1 DEF Typed
  <2>3. ASSUME NEW u \in Tasks, op'[u] # Idle PROVE op'[u].size >= LARGE_THRESHOLD
    <3>1. CASE u = t
      BY <1>5, <1>6, <3>1
    <3>2. CASE u # t
      BY <1>1, <1>5, <2>3, <3>2 DEF LargeAsks
    <3> QED
      BY <3>1, <3>2
  <2> QED
    BY <2>2, <2>3 DEF LargeAsks
<1>11. PagesOK' /\ ListsExact' /\ TableAligned'
  BY <1>1 DEF PagesOK, ListsExact, TableAligned
<1>12. BlocksApart'
  BY <1>1, <1>3, <1>4 DEF BlocksApart
<1>13. Exact'
  <2>1. PendingBlocks' = PendingBlocks \cup {b}
    <3>1. PendingBlocks' = {Block(op'[u].addr, RustOrder(op'[u].size)) : u \in Pending \cup {t}}
      BY <1>8 DEF PendingBlocks
    <3>2. {Block(op'[u].addr, RustOrder(op'[u].size)) : u \in Pending} = PendingBlocks
      BY <1>8 DEF PendingBlocks
    <3>3. Block(op'[t].addr, RustOrder(op'[t].size)) = b
      BY <1>5, <1>6
    <3> QED
      BY <3>1, <3>2, <3>3
  <2>2. SlabBlocks' = SlabBlocks /\ LargeBlocks' = LargeBlocks /\ HeldBlocks' = HeldBlocks /\ leaked' = leaked
    BY <1>9 DEF SlabBlocks, LargeBlocks, HeldBlocks
  <2> QED
    BY <1>1, <1>4, <2>1, <2>2 DEF Exact
<1>14. OwnersApart'
  <2>1. op'[t].addr = pa
    BY <1>5, <1>6
  <2>2. ASSUME NEW u \in Pending'
        PROVE  /\ op'[u].addr \notin DOMAIN slab' \cup Vas'
               /\ \A v \in Pending' : op'[v].addr = op'[u].addr => v = u
               /\ \A h \in held' : h.addr # op'[u].addr
    <3>1. CASE u = t
      BY <1>3, <1>8, <1>9, <2>1, <3>1
    <3>2. CASE u \in Pending
      <4>1. /\ op[u].addr \notin DOMAIN slab \cup Vas
            /\ \A v \in Pending : op[v].addr = op[u].addr => v = u
            /\ \A h \in held : h.addr # op[u].addr
        BY <1>1, <3>2 DEF OwnersApart
      <4> QED
        BY <1>3, <1>8, <1>9, <2>1, <3>2, <4>1
    <3> QED
      BY <1>8, <3>1, <3>2
  <2>3. \A a \in leaked' : /\ a.pa \notin DOMAIN slab' \cup Vas'
                           /\ \A u \in Pending' : op'[u].addr # a.pa
                           /\ \A h \in held' : h.addr # a.pa
    BY <1>1, <1>3, <1>8, <1>9, <2>1 DEF OwnersApart
  <2>4. \A g, h \in held' : g.addr = h.addr => g = h
    BY <1>1 DEF OwnersApart
  <2>5. \A p \in DOMAIN slab' : p \notin Vas'
    BY <1>1, <1>9 DEF OwnersApart
  <2> QED
    BY <2>2, <2>3, <2>4, <2>5 DEF OwnersApart
<1>15. HeldPlaced'
  BY <1>1, <1>9 DEF HeldPlaced, Placed
<1> QED
  BY <1>10, <1>11, <1>12, <1>13, <1>14, <1>15 DEF State

\* alloc goes on with PAGE_ALLOCS, its block in hand.
LEMMA LocalStep ==
  ASSUME State, NEW t \in Pending, NEW r \in Recordings, r.size = op[t].size, r.addr = op[t].addr,
         op' = [op EXCEPT ![t] = r],
         \/ \E i : table' = [table EXCEPT ![i] = op[t].addr]
         \/ UNCHANGED table,
         UNCHANGED <<blocks, slab, partial, large, count, held, leaked>>
  PROVE  State'
<1>1. /\ Typed /\ LargeAsks /\ PagesOK /\ BlocksApart /\ Exact /\ OwnersApart /\ HeldPlaced
      /\ ListsExact /\ TableAligned
  BY DEF State
<1>2. t \in Tasks /\ op[t] # Idle
  BY DEF Pending, Idle
<1>3. op[t].addr \in Cells /\ op[t].addr % PageSize = 0 /\ op[t].size >= LARGE_THRESHOLD
  <2>1. op[t].addr \in Cells /\ op[t].size >= LARGE_THRESHOLD
    BY <1>1, <1>2, OpTypes DEF Pending
  <2>2. Block(op[t].addr, RustOrder(op[t].size)) \in blocks
    BY <1>1, Owned
  <2> QED
    BY <1>1, <2>1, <2>2, BlockFields DEF BlocksApart
<1>4. /\ op' \in [Tasks -> {Idle} \cup Asking \cup Recordings] /\ op'[t] = r
      /\ \A u \in Tasks : u # t => op'[u] = op[u]
  BY <1>1, <1>2 DEF Typed
<1>5. r.kind \notin {"idle", "fallback"}
  BY DEF Recordings
<1>6. Pending' = Pending
  BY <1>2, <1>4, <1>5 DEF Pending
<1>7. \A u \in Pending : op'[u].addr = op[u].addr /\ op'[u].size = op[u].size
  BY <1>4 DEF Pending
<1>8. Vas' = Vas /\ RustHeld' = RustHeld /\ PendingBlocks' = PendingBlocks
  <2>1. PendingBlocks' = {Block(op'[u].addr, RustOrder(op'[u].size)) : u \in Pending}
    BY <1>6 DEF PendingBlocks
  <2> QED
    BY <1>7, <2>1 DEF Vas, RustHeld, PendingBlocks
<1>9. Typed' /\ LargeAsks' /\ TableAligned'
  <2>1. table' \in [1..MAX_PAGE_ALLOCS -> Cells \cup {NULL}]
    BY <1>1, <1>3 DEF Typed
  <2>2. Typed'
    BY <1>1, <1>4, <2>1 DEF Typed
  <2>3. LargeAsks'
    <3> SUFFICES ASSUME NEW u \in Tasks, op'[u] # Idle PROVE op'[u].size >= LARGE_THRESHOLD
      BY DEF LargeAsks
    <3> QED
      BY <1>1, <1>3, <1>4 DEF LargeAsks
  <2>4. ASSUME NEW i \in 1..MAX_PAGE_ALLOCS, table'[i] # NULL PROVE table'[i] % PageSize = 0
    <3>1. table'[i] = table[i] \/ table'[i] = op[t].addr
      BY <1>1 DEF Typed
    <3> QED
      BY <1>1, <1>3, <2>4, <3>1 DEF TableAligned
  <2> QED
    BY <2>2, <2>3, <2>4 DEF TableAligned
<1>10. PagesOK' /\ BlocksApart' /\ ListsExact'
  BY <1>1 DEF PagesOK, BlocksApart, ListsExact
<1>11. Exact'
  <2>1. SlabBlocks' = SlabBlocks /\ LargeBlocks' = LargeBlocks /\ HeldBlocks' = HeldBlocks
    BY <1>8 DEF SlabBlocks, LargeBlocks, HeldBlocks
  <2> QED
    BY <1>1, <1>8, <2>1 DEF Exact
<1>12. OwnersApart'
  BY <1>1, <1>6, <1>7, <1>8 DEF OwnersApart
<1>13. HeldPlaced'
  BY <1>1, <1>8 DEF HeldPlaced, Placed
<1> QED
  BY <1>9, <1>10, <1>11, <1>12, <1>13 DEF State

\* The block is handed out, whatever the counter has become.
LEMMA ReturnStep ==
  ASSUME State, NEW t \in Pending, NEW n \in Handles,
         n.addr = op[t].addr, n.size = op[t].size, n.by = "rust",
         count' \in Nat,
         held' = held \cup {n}, op' = [op EXCEPT ![t] = Idle],
         UNCHANGED <<blocks, slab, partial, large, table, leaked>>
  PROVE  State'
<1> DEFINE b == Block(n.addr, RustOrder(n.size))
<1>1. /\ Typed /\ LargeAsks /\ PagesOK /\ BlocksApart /\ Exact /\ OwnersApart /\ HeldPlaced
      /\ ListsExact /\ TableAligned
  BY DEF State
<1>2. t \in Tasks /\ op[t] # Idle
  BY DEF Pending, Idle
<1>3. n.size >= LARGE_THRESHOLD /\ n.addr \in Cells
  BY <1>1, <1>2, OpTypes DEF Pending
<1>4. b \in blocks /\ b.pa = n.addr /\ n.addr % PageSize = 0
  <2>1. b \in blocks /\ b.pa = n.addr
    BY <1>1, <1>2, Owned, BlockFields
  <2> QED
    BY <1>1, <2>1 DEF BlocksApart
<1>5. /\ n.addr \notin DOMAIN slab \cup Vas
      /\ \A u \in Pending : op[u].addr = n.addr => u = t
      /\ \A h \in held : h.addr # n.addr
      /\ \A a \in leaked : a.pa # n.addr
  BY <1>1, <1>2 DEF OwnersApart
<1>6. /\ op' \in [Tasks -> {Idle} \cup Asking \cup Recordings] /\ op'[t] = Idle
      /\ \A u \in Tasks : u # t => op'[u] = op[u]
  <2>1. op \in [Tasks -> {Idle} \cup Asking \cup Recordings]
    BY <1>1 DEF Typed
  <2> QED
    BY <1>2, <2>1
<1>7. Pending' = Pending \ {t} /\ \A u \in Pending' : op'[u] = op[u]
  <2>1. Idle.kind = "idle"
    BY DEF Idle
  <2> QED
    BY <1>2, <1>6, <2>1 DEF Pending
<1>8. Vas' = Vas /\ RustHeld' = RustHeld \cup {n}
  BY <1>3, <1>5 DEF Vas, RustHeld
<1>9. Typed' /\ LargeAsks'
  <2>1. held' \subseteq Handles /\ IsFiniteSet(held')
    BY <1>1, FS_AddElement DEF Typed
  <2>2. Typed'
    BY <1>1, <1>6, <2>1 DEF Typed
  <2> QED
    BY <1>1, <1>6, <2>2 DEF LargeAsks
<1>10. PagesOK'
  <2>1. ASSUME NEW p \in DOMAIN slab PROVE n.addr \notin Objects(p, slab[p].cache)
    BY <1>2, ObjectOfOne
  <2>2. ASSUME NEW p \in DOMAIN slab PROVE PageOK(p, slab[p], held \cup {n})
    BY <1>1, <2>1, PageTypes, HeldElsewhere
  <2> QED
    BY <2>2 DEF PagesOK
<1>11. BlocksApart' /\ ListsExact'
  BY <1>1 DEF BlocksApart, ListsExact
<1>12. TableAligned'
  BY <1>1 DEF TableAligned
<1>13. Exact'
  <2>1. HeldBlocks' = HeldBlocks \cup {b}
    BY <1>8 DEF HeldBlocks
  <2>2. PendingBlocks = PendingBlocks' \cup {b}
    <3>1. PendingBlocks' = {Block(op'[u].addr, RustOrder(op'[u].size)) : u \in Pending'}
      BY DEF PendingBlocks
    <3>2. PendingBlocks' = {Block(op[u].addr, RustOrder(op[u].size)) : u \in Pending \ {t}}
      BY <1>7, <3>1
    <3> QED
      BY <1>2, <3>2 DEF PendingBlocks
  <2>3. SlabBlocks' = SlabBlocks /\ LargeBlocks' = LargeBlocks
    BY DEF SlabBlocks, LargeBlocks
  <2> QED
    BY <1>1, <2>1, <2>2, <2>3 DEF Exact
<1>14. OwnersApart'
  <2>1. \A u \in Pending' : op'[u] = op[u] /\ u \in Pending /\ u # t
    BY <1>7
  <2>2. \A u \in Pending' : /\ op'[u].addr \notin DOMAIN slab' \cup Vas'
                            /\ \A v \in Pending' : op'[v].addr = op'[u].addr => v = u
                            /\ \A h \in held' : h.addr # op'[u].addr
    BY <1>1, <1>5, <1>8, <2>1 DEF OwnersApart
  <2>3. \A a \in leaked' : /\ a.pa \notin DOMAIN slab' \cup Vas'
                           /\ \A u \in Pending' : op'[u].addr # a.pa
                           /\ \A h \in held' : h.addr # a.pa
    BY <1>1, <1>5, <1>8, <2>1 DEF OwnersApart
  <2>4. \A g, h \in held' : g.addr = h.addr => g = h
    BY <1>1, <1>5 DEF OwnersApart
  <2>5. \A p \in DOMAIN slab' : p \notin Vas'
    BY <1>1, <1>8 DEF OwnersApart
  <2> QED
    BY <2>2, <2>3, <2>4, <2>5 DEF OwnersApart
<1>15. HeldPlaced'
  <2>1. ASSUME NEW h \in held' PROVE Placed(h)'
    <3>1. CASE h = n
      BY <1>8, <3>1 DEF Placed
    <3>2. CASE h \in held
      BY <1>1, <1>8, <3>2 DEF HeldPlaced, Placed
    <3> QED
      BY <3>1, <3>2
  <2> QED
    BY <2>1 DEF HeldPlaced
<1> QED
  BY <1>9, <1>10, <1>11, <1>12, <1>13, <1>14, <1>15 DEF State

------------------------------------------------------------------------------------
(* Steps of kfree *)

\* large_free: the block and its descriptor go.
LEMMA FreeLargeStep ==
  ASSUME State, NEW h \in held, NEW l \in large, l.va = h.addr,
         blocks' = blocks \ {Block(l.va, l.order)}, large' = large \ {l},
         held' = held \ {h}, UNCHANGED <<slab, partial>>, RustKept
  PROVE  State' /\ Block(l.va, l.order) \in blocks
<1> DEFINE b == Block(l.va, l.order)
<1>1. /\ Typed /\ LargeAsks /\ PagesOK /\ BlocksApart /\ Exact /\ OwnersApart /\ HeldPlaced
      /\ ListsExact /\ TableAligned
  BY DEF State
<1>2. b \in blocks /\ b.pa = h.addr /\ h.addr \in Vas
  BY <1>1, Owned, BlockFields DEF Vas
<1>3. ASSUME NEW m \in large, m.va = l.va PROVE m = l
  <2>1. Block(m.va, m.order) \in blocks /\ Block(m.va, m.order).pa = b.pa
    BY <1>1, <1>2, <1>3, Owned, BlockFields
  <2>2. Block(m.va, m.order) = b
    BY <1>1, <1>2, <2>1, InUse
  <2>3. m.order = l.order
    BY <2>2, BlockFields
  <2>4. m \in [va : Cells, order : 0..MaxOrder] /\ l \in [va : Cells, order : 0..MaxOrder]
    BY <1>1 DEF Typed
  <2> QED
    BY <1>3, <2>3, <2>4
<1>4. Vas' = Vas \ {h.addr}
  BY <1>3 DEF Vas
<1>5. \A g \in held : g.addr = h.addr => g = h
  BY <1>1 DEF OwnersApart
<1>6. RustHeld' = RustHeld
  BY <1>2, <1>4, <1>5 DEF RustHeld
<1>7. \A p \in DOMAIN slab : h.addr \notin Objects(p, slab[p].cache)
  BY <1>2, ObjectOfOne
<1> HIDE DEF b
<1>8. Typed' /\ LargeAsks'
  <2>1. IsFiniteSet(large') /\ Cardinality(large') <= MAX_LARGE_ALLOCS
    <3>1. IsFiniteSet(large) /\ Cardinality(large) \in Nat /\ Cardinality(large) <= MAX_LARGE_ALLOCS
      BY <1>1, FS_CardinalityType DEF Typed
    <3>2. IsFiniteSet(large') /\ Cardinality(large') <= Cardinality(large) /\ Cardinality(large') \in Nat
      BY <3>1, FS_Subset, FS_CardinalityType
    <3> QED
      BY <3>1, <3>2, LimitsAssumption
  <2>2. held' \subseteq Handles /\ IsFiniteSet(held')
    BY <1>1, FS_Subset DEF Typed
  <2>3. blocks' \subseteq [pa : Cells, order : 0..MaxOrder] /\ large' \subseteq [va : Cells, order : 0..MaxOrder]
    BY <1>1 DEF Typed
  <2> QED
    BY <1>1, <2>1, <2>2, <2>3 DEF Typed, RustKept
<1>9. PagesOK'
  <2>1. ASSUME NEW p \in DOMAIN slab PROVE PageOK(p, slab[p], held \ {h})
    BY <1>1, <1>7, PageTypes, HeldElsewhere
  <2> QED
    BY <2>1 DEF PagesOK
<1>10. BlocksApart' /\ ListsExact' /\ TableAligned'
  BY <1>1 DEF BlocksApart, ListsExact, TableAligned, RustKept
<1>11. Exact'
  <2>1. LargeBlocks' = LargeBlocks \ {b}
    <3>1. \A m \in large : m # l => Block(m.va, m.order) # b
      BY <1>2, <1>3, BlockFields
    <3> QED
      BY <3>1 DEF LargeBlocks, b
  <2>2. SlabBlocks' = SlabBlocks /\ PendingBlocks' = PendingBlocks /\ HeldBlocks' = HeldBlocks /\ leaked' = leaked
    BY <1>6, PendingKept DEF SlabBlocks, HeldBlocks, RustKept
  <2>3. b \notin SlabBlocks
    BY <1>1, <1>2, BlockFields DEF SlabBlocks, OwnersApart
  <2>4. b \notin PendingBlocks
    BY <1>1, <1>2, BlockFields DEF PendingBlocks, OwnersApart
  <2>5. b \notin HeldBlocks
    BY <1>2, BlockFields DEF HeldBlocks, RustHeld
  <2>6. b \notin leaked
    BY <1>1, <1>2 DEF OwnersApart
  <2> QED
    BY <1>1, <2>1, <2>2, <2>3, <2>4, <2>5, <2>6 DEF Exact, b
<1>12. OwnersApart'
  <2>1. Pending' = Pending /\ leaked' = leaked /\ \A t \in Pending : op'[t] = op[t]
    BY DEF RustKept
  <2> QED
    BY <1>1, <1>4, <2>1 DEF OwnersApart
<1>13. HeldPlaced'
  <2>1. ASSUME NEW g \in held, g # h PROVE Placed(g)'
    <3>1. Placed(g)
      BY <1>1 DEF HeldPlaced
    <3>2. ASSUME NEW m \in large, m.va = g.addr PROVE m \in large'
      BY <1>5, <2>1, <3>2
    <3> QED
      BY <1>6, <3>1, <3>2 DEF Placed
  <2> QED
    BY <2>1 DEF HeldPlaced
<1> QED
  BY <1>2, <1>8, <1>9, <1>10, <1>11, <1>12, <1>13 DEF State, b

\* slab_free_obj: the object returns to the free list of its page.
LEMMA FreeObjStep ==
  ASSUME State, NEW h \in held, NEW s \in DOMAIN slab, h.addr \in Objects(s, slab[s].cache), slab[s].inuse > 1,
         slab' = [slab EXCEPT ![s].freelist = <<h.addr>> \o @, ![s].inuse = @ - 1],
         held' = held \ {h}, UNCHANGED <<blocks, partial, large>>, RustKept
  PROVE  State' /\ slab' # slab
<1> DEFINE c == slab[s].cache
           f == slab[s].freelist
           k == slab[s].inuse
           sp == [cache |-> c, inuse |-> k - 1, freelist |-> <<h.addr>> \o f]
           T == {g.addr : g \in HeldAt(s, c, held)}
<1>1. /\ Typed /\ LargeAsks /\ PagesOK /\ BlocksApart /\ Exact /\ OwnersApart /\ HeldPlaced
      /\ ListsExact /\ TableAligned
  BY DEF State
<1>2. /\ s \in Nat /\ s \in Cells /\ c \in Caches /\ k \in Nat \ {0} /\ f \in Seq(Cells)
      /\ k + Len(f) = Capacity(c) /\ k = Cardinality(HeldAt(s, c, held))
      /\ Lists(f, Objects(s, c) \ T)
      /\ slab[s] \in [cache : Caches, inuse : Nat \ {0}, freelist : Seq(Cells)]
  BY <1>1, PageTypes DEF PageOK
<1>3. DOMAIN slab' = DOMAIN slab /\ slab'[s] = sp /\ \A p \in DOMAIN slab : p # s => slab'[p] = slab[p]
  <2>1. slab = [p \in DOMAIN slab |-> slab[p]]
    BY <1>1 DEF Typed
  <2>2. slab[s] = [cache |-> c, inuse |-> k, freelist |-> f]
    BY <1>2
  <2> QED
    BY <2>1, <2>2
<1>4. /\ \A q \in DOMAIN slab : h.addr \in Objects(q, slab[q].cache) => q = s
      /\ h.addr \notin Vas /\ h.addr \in Cells
      /\ h \notin RustHeld
  BY ObjectOfOne
<1>5. \A g \in held : g.addr = h.addr => g = h
  BY <1>1 DEF OwnersApart
<1>6. h \in HeldAt(s, c, held) /\ h.addr \in T
  BY DEF HeldAt
<1>7. DOMAIN slab' = DOMAIN slab /\ \A p \in DOMAIN slab : slab'[p].cache = slab[p].cache
  BY <1>3
<1>8. Vas' = Vas /\ RustHeld' = RustHeld
  BY <1>4, <1>7 DEF Vas, RustHeld
<1>9. slab' # slab
  <2>1. slab'[s].inuse = k - 1 /\ k - 1 # k
    BY <1>2, <1>3
  <2> QED
    BY <2>1
<1> HIDE DEF f
<1>10. Typed'
  <2>1. slab' = [p \in DOMAIN slab' |-> slab'[p]]
    OBVIOUS
  <2>2. held' \subseteq Handles /\ IsFiniteSet(held')
    BY <1>1, FS_Subset DEF Typed
  <2> QED
    BY <1>1, <1>7, <2>1, <2>2 DEF Typed, RustKept
<1>11. PagesOK'
  <2>1. ASSUME NEW p \in DOMAIN slab, p # s PROVE PageOK(p, slab[p], held \ {h})
    BY <1>1, <1>4, <2>1, PageTypes, HeldElsewhere
  <2>2. PageOK(s, sp, held \ {h})
    <3>1. HeldAt(s, c, held \ {h}) = HeldAt(s, c, held) \ {h}
      BY DEF HeldAt
    <3>2. Cardinality(HeldAt(s, c, held) \ {h}) = k - 1
      <4>1. IsFiniteSet(HeldAt(s, c, held))
        BY <1>1, FS_Subset DEF Typed, HeldAt
      <4> DEFINE A == HeldAt(s, c, held)
      <4>2. IsFiniteSet(A) /\ h \in A /\ Cardinality(A) = k
        BY <1>2, <1>6, <4>1
      <4> HIDE DEF A, k
      <4>3. Cardinality(A \ {h}) = k - 1
        BY <4>2, FS_RemoveElement
      <4> QED
        BY <4>3 DEF A
    <3>3. {g.addr : g \in HeldAt(s, c, held) \ {h}} = T \ {h.addr}
      BY <1>5 DEF HeldAt
    <3> DEFINE R == Objects(s, c) \ T
    <3>4. Objects(s, c) \ (T \ {h.addr}) = R \cup {h.addr} /\ h.addr \notin R
      BY <1>6
    <3>5. Lists(<<h.addr>> \o f, R \cup {h.addr}) /\ Len(<<h.addr>> \o f) = Len(f) + 1 /\ Len(f) \in Nat
      <4>1. Lists(f, R) /\ h.addr \notin R
        BY <1>2, <3>4
      <4> HIDE DEF R
      <4> QED
        BY <4>1, ConsLists
    <3>6. <<h.addr>> \o f \in Seq(Cells)
      <4>1. <<h.addr>> \in Seq(Cells)
        BY <1>4
      <4> QED
        BY <1>2, <4>1, ConcatProperties
    <3>7. (k - 1) + Len(<<h.addr>> \o f) = Capacity(c) /\ k - 1 \in Nat \ {0}
      <4> DEFINE m == Len(f)
                 j == Len(<<h.addr>> \o f)
      <4>1. k \in Nat /\ k > 1 /\ m \in Nat /\ j = m + 1 /\ k + m = Capacity(c)
        BY <1>2, <3>5
      <4> HIDE DEF k, m, j
      <4>2. (k - 1) + j = k + m /\ k - 1 \in Nat \ {0}
        BY <4>1
      <4> QED
        BY <4>1, <4>2 DEF j
    <3>8. /\ sp \in [cache : Caches, inuse : Nat \ {0}, freelist : Seq(Cells)]
          /\ sp.cache = c /\ sp.inuse = k - 1 /\ sp.freelist = <<h.addr>> \o f
      BY <1>2, <3>6, <3>7
    <3> HIDE DEF sp, T, c, R, k
    <3> QED
      BY <3>1, <3>2, <3>3, <3>4, <3>5, <3>7, <3>8 DEF PageOK
  <2> QED
    BY <1>3, <2>1, <2>2 DEF PagesOK
<1>12. BlocksApart' /\ TableAligned' /\ LargeAsks'
  BY <1>1 DEF BlocksApart, TableAligned, RustKept
<1>13. Exact'
  <2>1. SlabBlocks' = SlabBlocks
    <3>1. SlabBlocks' = {Block(p, Order(SlabSizes[slab'[p].cache])) : p \in DOMAIN slab}
      BY <1>7 DEF SlabBlocks
    <3> QED
      BY <1>7, <3>1 DEF SlabBlocks
  <2>2. LargeBlocks' = LargeBlocks /\ PendingBlocks' = PendingBlocks /\ HeldBlocks' = HeldBlocks /\ leaked' = leaked
    BY <1>8, PendingKept DEF LargeBlocks, HeldBlocks, RustKept
  <2> QED
    BY <1>1, <2>1, <2>2 DEF Exact
<1>14. OwnersApart'
  <2>1. Pending' = Pending /\ leaked' = leaked /\ \A t \in Pending : op'[t] = op[t]
    BY DEF RustKept
  <2> QED
    BY <1>1, <1>7, <1>8, <2>1 DEF OwnersApart
<1>15. HeldPlaced'
  <2>1. ASSUME NEW g \in held PROVE Placed(g)'
    <3>1. Placed(g)
      BY <1>1 DEF HeldPlaced
    <3>2. CASE \E p \in DOMAIN slab : OnPage(g, p, slab[p])
      BY <1>7, <3>2 DEF Placed, OnPage
    <3>3. CASE ~ \E p \in DOMAIN slab : OnPage(g, p, slab[p])
      BY <1>8, <3>1, <3>3 DEF Placed
    <3> QED
      BY <3>2, <3>3
  <2> QED
    BY <2>1 DEF HeldPlaced
<1>16. ListsExact'
  <2> SUFFICES ASSUME NEW d \in Caches PROVE Lists(partial'[d], {p \in DOMAIN slab' : slab'[p].cache = d})
    BY DEF ListsExact
  <2>1. {p \in DOMAIN slab' : slab'[p].cache = d} = {p \in DOMAIN slab : slab[p].cache = d}
    BY <1>7
  <2> QED
    BY <1>1, <2>1 DEF ListsExact
<1> QED
  BY <1>9, <1>10, <1>11, <1>12, <1>13, <1>14, <1>15, <1>16 DEF State

\* slab_destroy_page: with its last object the page goes back.
LEMMA DestroyStep ==
  ASSUME State, NEW h \in held, NEW s \in DOMAIN slab, h.addr \in Objects(s, slab[s].cache), slab[s].inuse <= 1,
         partial' = [partial EXCEPT ![slab[s].cache] = RemoveFirst(@, s)],
         blocks' = blocks \ {Block(s, Order(SlabSizes[slab[s].cache]))},
         slab' = [q \in DOMAIN slab \ {s} |-> slab[q]],
         held' = held \ {h}, UNCHANGED large, RustKept
  PROVE  State' /\ Block(s, Order(SlabSizes[slab[s].cache])) \in blocks
<1> DEFINE c == slab[s].cache
           b == Block(s, Order(SlabSizes[c]))
<1>1. /\ Typed /\ LargeAsks /\ PagesOK /\ BlocksApart /\ Exact /\ OwnersApart /\ HeldPlaced
      /\ ListsExact /\ TableAligned
  BY DEF State
<1>2. /\ s \in Nat /\ c \in Caches /\ slab[s].inuse \in Nat \ {0}
      /\ slab[s].inuse = Cardinality(HeldAt(s, c, held))
  BY <1>1, PageTypes DEF PageOK
<1>3. DOMAIN slab' = DOMAIN slab \ {s} /\ \A p \in DOMAIN slab' : slab'[p] = slab[p]
  OBVIOUS
<1>4. /\ \A q \in DOMAIN slab : h.addr \in Objects(q, slab[q].cache) => q = s
      /\ h \notin RustHeld
  BY ObjectOfOne
<1>5. HeldAt(s, c, held) = {h}
  <2>1. IsFiniteSet(HeldAt(s, c, held)) /\ h \in HeldAt(s, c, held)
    BY <1>1, FS_Subset DEF Typed, HeldAt
  <2>2. Cardinality(HeldAt(s, c, held)) = 1
    BY <1>2
  <2>3. PICK x : HeldAt(s, c, held) = {x}
    BY <2>1, <2>2, FS_Singleton
  <2> QED
    BY <2>1, <2>3
<1>6. \A g \in held : g # h => g.addr \notin Objects(s, c) /\ g.addr # s
  <2>1. s \in Objects(s, c)
    BY <1>2, FirstObject
  <2> QED
    BY <1>5, <2>1 DEF HeldAt
<1>7. Vas' = Vas
  BY DEF Vas
<1>8. RustHeld' = RustHeld
  BY <1>3, <1>4, <1>6, <1>7 DEF RustHeld
<1>9. b \in blocks /\ b.pa = s /\ blocks' = blocks \ {b}
  BY <1>1, Owned, BlockFields
<1> HIDE DEF b
<1>10. Typed'
  <2>1. slab' = [p \in DOMAIN slab' |-> slab'[p]] /\ DOMAIN slab' \subseteq Cells
    BY <1>1, <1>3 DEF Typed
  <2>2. held' \subseteq Handles /\ IsFiniteSet(held')
    BY <1>1, FS_Subset DEF Typed
  <2>3. Cardinality(DOMAIN slab') <= MAX_SLAB_PAGES
    <3>1. IsFiniteSet(DOMAIN slab)
      BY <1>1, CellsNat, FS_Subset DEF Typed
    <3>2. /\ Cardinality(DOMAIN slab) \in Nat /\ Cardinality(DOMAIN slab') \in Nat
          /\ Cardinality(DOMAIN slab') <= Cardinality(DOMAIN slab) /\ Cardinality(DOMAIN slab) <= MAX_SLAB_PAGES
      BY <1>1, <1>3, <3>1, FS_Subset, FS_CardinalityType DEF Typed
    <3> QED
      BY <3>2, LimitsAssumption
  <2>4. partial' \in [Caches -> Seq(Cells)]
    <3>1. Lists(RemoveFirst(partial[c], s), {p \in DOMAIN slab : slab[p].cache = c} \ {s})
      BY <1>1, <1>2, RemoveLists DEF ListsExact
    <3>2. {p \in DOMAIN slab : slab[p].cache = c} \ {s} \subseteq Cells
      BY <1>1 DEF Typed
    <3>3. RemoveFirst(partial[c], s) \in Seq(Cells)
      BY <3>1, <3>2, SeqMonotonic DEF Lists
    <3> QED
      BY <1>1, <1>2, <3>3 DEF Typed
  <2>5. blocks' \subseteq [pa : Cells, order : 0..MaxOrder]
    BY <1>1 DEF Typed
  <2> QED
    BY <1>1, <2>1, <2>2, <2>3, <2>4, <2>5 DEF Typed, RustKept
<1>11. PagesOK'
  <2>1. ASSUME NEW p \in DOMAIN slab, p # s PROVE PageOK(p, slab[p], held \ {h})
    BY <1>1, <1>4, <2>1, PageTypes, HeldElsewhere
  <2> QED
    BY <1>3, <2>1 DEF PagesOK
<1>12. BlocksApart' /\ TableAligned' /\ LargeAsks'
  BY <1>1 DEF BlocksApart, TableAligned, RustKept
<1>13. Exact'
  <2>1. SlabBlocks' = SlabBlocks \ {b}
    <3>1. SlabBlocks' = {Block(p, Order(SlabSizes[slab[p].cache])) : p \in DOMAIN slab \ {s}}
      BY <1>3 DEF SlabBlocks
    <3>2. \A p \in DOMAIN slab : p # s => Block(p, Order(SlabSizes[slab[p].cache])) # b
      BY <1>9, BlockFields
    <3> QED
      BY <3>1, <3>2 DEF SlabBlocks, b
  <2>2. LargeBlocks' = LargeBlocks /\ PendingBlocks' = PendingBlocks /\ HeldBlocks' = HeldBlocks /\ leaked' = leaked
    BY <1>8, PendingKept DEF LargeBlocks, HeldBlocks, RustKept
  <2>3. b \notin LargeBlocks
    BY <1>1, <1>9, BlockFields DEF LargeBlocks, OwnersApart, Vas
  <2>4. b \notin PendingBlocks
    BY <1>1, <1>9, BlockFields DEF PendingBlocks, OwnersApart
  <2>5. b \notin HeldBlocks
    BY <1>9, BlockFields DEF HeldBlocks, RustHeld
  <2>6. b \notin leaked
    BY <1>1, <1>9 DEF OwnersApart
  <2> QED
    BY <1>1, <1>9, <2>1, <2>2, <2>3, <2>4, <2>5, <2>6 DEF Exact
<1>14. OwnersApart'
  <2>1. Pending' = Pending /\ leaked' = leaked /\ \A t \in Pending : op'[t] = op[t]
    BY DEF RustKept
  <2> QED
    BY <1>1, <1>3, <1>7, <2>1 DEF OwnersApart
<1>15. HeldPlaced'
  <2>1. ASSUME NEW g \in held, g # h PROVE Placed(g)'
    <3>1. Placed(g)
      BY <1>1 DEF HeldPlaced
    <3>2. ASSUME NEW p \in DOMAIN slab, OnPage(g, p, slab[p]) PROVE p \in DOMAIN slab' /\ slab'[p] = slab[p]
      BY <1>3, <1>6, <2>1, <3>2 DEF OnPage
    <3>3. CASE \E p \in DOMAIN slab : OnPage(g, p, slab[p])
      BY <3>2, <3>3 DEF Placed
    <3>4. CASE ~ \E p \in DOMAIN slab : OnPage(g, p, slab[p])
      BY <1>8, <3>1, <3>4 DEF Placed
    <3> QED
      BY <3>3, <3>4
  <2> QED
    BY <2>1 DEF HeldPlaced
<1>16. ListsExact'
  <2> SUFFICES ASSUME NEW d \in Caches PROVE Lists(partial'[d], {p \in DOMAIN slab' : slab'[p].cache = d})
    BY DEF ListsExact
  <2> DEFINE R == {p \in DOMAIN slab : slab[p].cache = d}
  <2>1. Lists(partial[d], R)
    BY <1>1 DEF ListsExact
  <2>2. CASE d = c
    <3>1. {p \in DOMAIN slab' : slab'[p].cache = d} = R \ {s} /\ s \in R
      BY <1>3, <2>2
    <3>2. partial'[d] = RemoveFirst(partial[d], s)
      BY <1>1, <1>2, <2>2 DEF Typed
    <3> DEFINE l == partial[d]
    <3> HIDE DEF R, l
    <3>3. Lists(RemoveFirst(l, s), R \ {s})
      BY <2>1, <3>1, RemoveLists DEF l
    <3> QED
      BY <3>1, <3>2, <3>3 DEF l
  <2>3. CASE d # c
    <3>1. {p \in DOMAIN slab' : slab'[p].cache = d} = R
      BY <1>3, <2>3
    <3>2. partial'[d] = partial[d]
      BY <1>1, <2>3 DEF Typed
    <3> QED
      BY <2>1, <3>1, <3>2
  <2> QED
    BY <2>2, <2>3
<1> QED
  BY <1>9, <1>10, <1>11, <1>12, <1>13, <1>14, <1>15, <1>16 DEF State, b

\* Rust's caller gives back a block: to the page allocator when it was found in PAGE_ALLOCS,
\* to nobody otherwise.
LEMMA DeallocStep ==
  ASSUME State, NEW h \in RustHeld, held' = held \ {h},
         \/ blocks' = blocks \ {Block(h.addr, RustOrder(h.size))} /\ leaked' = leaked
         \/ blocks' = blocks /\ leaked' = leaked \cup {Block(h.addr, RustOrder(h.size))},
         UNCHANGED <<slab, partial, large, table, count, op>>
  PROVE  State'
<1> DEFINE b == Block(h.addr, RustOrder(h.size))
<1>1. /\ Typed /\ LargeAsks /\ PagesOK /\ BlocksApart /\ Exact /\ OwnersApart /\ HeldPlaced
      /\ ListsExact /\ TableAligned
  BY DEF State
<1>2. b \in blocks /\ b.pa = h.addr /\ h \in held /\ h.addr \notin DOMAIN slab \cup Vas
  BY <1>1, Owned, BlockFields DEF RustHeld
<1>3. \A g \in held : g.addr = h.addr => g = h
  BY <1>1, <1>2 DEF OwnersApart
<1>4. Vas' = Vas /\ Pending' = Pending /\ RustHeld' = RustHeld \ {h}
  BY DEF Vas, Pending, RustHeld
<1>5. \A p \in DOMAIN slab : h.addr \notin Objects(p, slab[p].cache)
  BY ObjectOfOne
<1>6. \/ blocks' = blocks \ {b} /\ leaked' = leaked
      \/ blocks' = blocks /\ leaked' = leaked \cup {b}
  OBVIOUS
<1> HIDE DEF b
<1>7. Typed' /\ LargeAsks'
  <2>1. held' \subseteq Handles /\ IsFiniteSet(held')
    BY <1>1, FS_Subset DEF Typed
  <2>2. blocks' \subseteq [pa : Cells, order : 0..MaxOrder]
    BY <1>1, <1>6 DEF Typed
  <2> QED
    BY <1>1, <2>1, <2>2 DEF Typed, LargeAsks
<1>8. PagesOK'
  <2>1. ASSUME NEW p \in DOMAIN slab PROVE PageOK(p, slab[p], held \ {h})
    BY <1>1, <1>5, PageTypes, HeldElsewhere
  <2> QED
    BY <2>1 DEF PagesOK
<1>9. BlocksApart'
  BY <1>1, <1>6 DEF BlocksApart
<1>10. ListsExact' /\ TableAligned'
  BY <1>1 DEF ListsExact, TableAligned
<1>11. Exact'
  <2>1. HeldBlocks' = HeldBlocks \ {b}
    <3>1. \A g \in RustHeld : g # h => Block(g.addr, RustOrder(g.size)) # b
      BY <1>2, <1>3, BlockFields DEF RustHeld
    <3> QED
      BY <1>4, <3>1 DEF HeldBlocks, b
  <2>2. SlabBlocks' = SlabBlocks /\ PendingBlocks' = PendingBlocks /\ LargeBlocks' = LargeBlocks
    BY <1>4 DEF SlabBlocks, PendingBlocks, LargeBlocks
  <2>3. b \notin SlabBlocks
    BY <1>2, BlockFields DEF SlabBlocks
  <2>4. b \notin LargeBlocks
    BY <1>2, BlockFields DEF LargeBlocks, Vas
  <2>5. b \notin PendingBlocks
    BY <1>1, <1>2, BlockFields DEF PendingBlocks, OwnersApart
  <2>6. b \notin leaked /\ b \in HeldBlocks
    BY <1>1, <1>2 DEF OwnersApart, HeldBlocks, b
  <2> QED
    BY <1>1, <1>6, <2>1, <2>2, <2>3, <2>4, <2>5, <2>6 DEF Exact
<1>12. OwnersApart'
  <2>1. \A a \in leaked' : a \in leaked \/ a = b
    BY <1>6
  <2>2. \A a \in leaked' : /\ a.pa \notin DOMAIN slab' \cup Vas'
                           /\ \A t \in Pending' : op'[t].addr # a.pa
                           /\ \A g \in held' : g.addr # a.pa
    BY <1>1, <1>2, <1>3, <1>4, <2>1 DEF OwnersApart
  <2> QED
    BY <1>1, <1>4, <2>2 DEF OwnersApart
<1>13. HeldPlaced'
  BY <1>1, <1>4 DEF HeldPlaced, Placed
<1> QED
  BY <1>7, <1>8, <1>9, <1>10, <1>11, <1>12, <1>13 DEF State

------------------------------------------------------------------------------------
(* kmalloc and kfree *)

\* find_slab_cache finds a cache whose objects are large enough.
LEMMA CacheFound ==
  ASSUME NEW size \in Nat, size <= SZ_8K
  PROVE  FindSlabCache(size) \in Caches /\ size <= SlabSizes[FindSlabCache(size)]
<1> DEFINE I == {i \in 1..Len(SlabSizes) : size <= SlabSizes[i]}
<1>1. Len(SlabSizes) \in Nat \ {0} /\ SlabSizes[Len(SlabSizes)] = SZ_8K
  BY SizesAssumption, EmptySeq
<1>2. Len(SlabSizes) \in I /\ I \in SUBSET Nat
  BY <1>1
<1> HIDE DEF I
<1>3. \E m \in I : \A j \in I : m <= j
  BY <1>2, NatHasMin
<1>4. Min(I) \in I
  BY <1>3 DEF Min
<1>5. FindSlabCache(size) = Min(I)
  BY <1>2 DEF FindSlabCache, SelectInSeq, I
<1> QED
  BY <1>4, <1>5 DEF I, Caches

\* The first page of a list with a free object.
LEMMA PageFound ==
  ASSUME State, NEW c \in Caches,
         SelectInSeq(partial[c], LAMBDA p : slab[p].freelist # <<>>) # 0
  PROVE  LET s == partial[c][SelectInSeq(partial[c], LAMBDA p : slab[p].freelist # <<>>)]
         IN s \in DOMAIN slab /\ slab[s].cache = c /\ slab[s].freelist # <<>>
<1> DEFINE I == {i \in 1..Len(partial[c]) : slab[partial[c][i]].freelist # <<>>}
           k == SelectInSeq(partial[c], LAMBDA p : slab[p].freelist # <<>>)
<1>1. k = IF I # {} THEN Min(I) ELSE 0
  BY DEF SelectInSeq
<1>2. Lists(partial[c], {p \in DOMAIN slab : slab[p].cache = c})
  BY DEF State, ListsExact
<1>3. \A i \in 1..Len(partial[c]) : partial[c][i] \in {p \in DOMAIN slab : slab[p].cache = c}
  BY <1>2, ElementOfSeq DEF Lists
<1>4. I # {} /\ I \in SUBSET Nat /\ k = Min(I)
  <2>1. Len(partial[c]) \in Nat
    BY <1>2, LenProperties DEF Lists
  <2> QED
    BY <1>1, <2>1
<1>5. k \in I
  <2> HIDE DEF I, k
  <2>1. \E m \in I : \A j \in I : m <= j
    BY <1>4, NatHasMin
  <2> QED
    BY <1>4, <2>1 DEF Min
<1> QED
  BY <1>3, <1>5

\* kmalloc.
LEMMA KmallocStep ==
  ASSUME State, NEW size \in Sizes \cup RustSizes, NEW by \in {"c", "rust"}, Kmalloc(size, by), RustKept
  PROVE  State'
<1>1. size \in Nat
  BY SizesAssumption
<1> DEFINE Of(a) == [addr |-> a, size |-> size, by |-> by]
<1>2. ASSUME NEW a \in Cells PROVE Of(a) \in Handles /\ Of(a).addr = a /\ Of(a).size = size
  BY DEF Handles
<1>3. ASSUME NEW a \in Cells, Hand(a, size, by) PROVE held' = held \cup {Of(a)}
  BY <1>3, CellsNat DEF Hand
<1>4. Hand(NULL, size, by) => held' = held
  BY DEF Hand
<1> HIDE DEF Of
<1>5. CASE size = 0 \/ size > SZ_4M
  <2>1. UNCHANGED <<blocks, slab, partial, large, held>>
    BY <1>4, <1>5 DEF Kmalloc, caches
  <2> QED
    BY <2>1, KeepStep
<1>6. CASE ~(size = 0 \/ size > SZ_4M) /\ size <= SZ_8K
  <2> DEFINE c == FindSlabCache(size)
             k == SelectInSeq(partial[c], LAMBDA p : slab[p].freelist # <<>>)
             s == partial[c][k]
  <2>1. c \in Caches /\ size <= SlabSizes[c] /\ size < LARGE_THRESHOLD
    <3>1. size < LARGE_THRESHOLD
      <4>1. SZ_8K \in Nat
        BY SizesAssumption, ElementOfSeq, EmptySeq
      <4> QED
        BY <1>1, <1>6, <4>1, LimitsAssumption
    <3> QED
      BY <1>1, <1>6, <3>1, CacheFound
  <2>2. SlabAlloc(c, size, by) /\ UNCHANGED large
    BY <1>6 DEF Kmalloc
  <2>3. CASE k = 0
    <3>1. SlabGrow(c, size, by)
      BY <2>2, <2>3 DEF SlabAlloc
    <3> HIDE DEF c, k, s
    <3>2. CASE PoolFull \/ FreeBlocks(Order(SlabSizes[c])) = {}
      <4>1. UNCHANGED <<blocks, slab, partial, large, held>>
        BY <1>4, <2>2, <3>1, <3>2 DEF SlabGrow, caches
      <4> QED
        BY <4>1, KeepStep
    <3>3. CASE ~(PoolFull \/ FreeBlocks(Order(SlabSizes[c])) = {})
      <4>1. PICK pa \in FreeBlocks(Order(SlabSizes[c])) :
              /\ blocks' = blocks \cup {Block(pa, Order(SlabSizes[c]))}
              /\ slab' = [p \in DOMAIN slab \cup {pa} |->
                            IF p = pa THEN [cache |-> c, inuse |-> 1, freelist |-> Tail(FreshList(pa, c))]
                            ELSE slab[p]]
              /\ partial' = [partial EXCEPT ![c] = <<pa>> \o @]
              /\ Hand(Head(FreshList(pa, c)), size, by)
        BY <3>1, <3>3 DEF SlabGrow
      <4>2. Head(FreshList(pa, c)) \in Cells
        <5>1. Order(SlabSizes[c]) \in Nat
          BY <2>1, CacheSize, OrderIs
        <5>2. pa \in Nat /\ At(Block(pa, Order(SlabSizes[c]))) \subseteq Cells
          BY <5>1, FreshBlock
        <5>3. Head(FreshList(pa, c)) \in Objects(pa, c)
          BY <2>1, <5>2, FreshLists, TailLists
        <5> QED
          BY <2>1, <5>2, <5>3, ObjectsInside
      <4> DEFINE n == Of(Head(FreshList(pa, c)))
      <4>3. n \in Handles /\ n.addr = Head(FreshList(pa, c)) /\ n.size = size /\ held' = held \cup {n}
        BY <1>2, <1>3, <4>1, <4>2
      <4> HIDE DEF n
      <4>4. ~PoolFull /\ n.size <= SlabSizes[c] /\ n.size < LARGE_THRESHOLD /\ UNCHANGED large
        BY <2>1, <2>2, <3>3, <4>3
      <4> QED
        BY <2>1, <4>1, <4>3, <4>4, GrowStep
    <3> QED
      BY <3>2, <3>3
  <2>4. CASE k # 0
    <3>1. s \in DOMAIN slab /\ slab[s].cache = c /\ slab[s].freelist # <<>>
      <4> HIDE DEF c
      <4> QED
        BY <2>1, <2>4, PageFound
    <3>2. /\ slab' = [slab EXCEPT ![s].freelist = Tail(@), ![s].inuse = @ + 1]
          /\ Hand(Head(slab[s].freelist), size, by)
          /\ UNCHANGED <<blocks, partial>>
      BY <2>2, <2>4 DEF SlabAlloc
    <3> HIDE DEF c, k, s
    <3>3. Head(slab[s].freelist) \in Cells
      <4>1. slab[s].freelist \in Seq(Cells)
        BY <3>1, PageTypes DEF State
      <4> QED
        BY <3>1, <4>1, HeadTailProperties
    <3> DEFINE n == Of(Head(slab[s].freelist))
    <3>4. n \in Handles /\ n.addr = Head(slab[s].freelist) /\ n.size = size /\ held' = held \cup {n}
      BY <1>2, <1>3, <3>2, <3>3
    <3> HIDE DEF n
    <3>5. n.size <= SlabSizes[slab[s].cache] /\ n.size < LARGE_THRESHOLD /\ UNCHANGED <<blocks, partial, large>>
      BY <2>1, <2>2, <3>1, <3>2, <3>4
    <3> QED
      BY <3>1, <3>2, <3>4, <3>5, TakeStep
  <2> QED
    BY <2>3, <2>4
<1>7. CASE ~(size = 0 \/ size > SZ_4M) /\ ~(size <= SZ_8K)
  <2>1. LargeAlloc(size, by) /\ UNCHANGED <<slab, partial>>
    BY <1>7 DEF Kmalloc, caches
  <2>2. CASE Cardinality(large) = MAX_LARGE_ALLOCS \/ FreeBlocks(Order(size)) = {}
    <3>1. UNCHANGED <<blocks, slab, partial, large, held>>
      BY <1>4, <2>1, <2>2 DEF LargeAlloc
    <3> QED
      BY <3>1, KeepStep
  <2>3. CASE ~(Cardinality(large) = MAX_LARGE_ALLOCS \/ FreeBlocks(Order(size)) = {})
    <3>1. PICK pa \in FreeBlocks(Order(size)) :
            /\ blocks' = blocks \cup {Block(pa, Order(size))}
            /\ large' = large \cup {[va |-> pa, order |-> Order(size)]}
            /\ Hand(pa, size, by)
      BY <2>1, <2>3 DEF LargeAlloc
    <3>2. pa \in Cells
      BY DEF FreeBlocks
    <3> DEFINE n == Of(pa)
    <3>3. n \in Handles /\ n.addr = pa /\ n.size = size /\ held' = held \cup {n}
      BY <1>2, <1>3, <3>1, <3>2
    <3> HIDE DEF n
    <3> QED
      BY <2>1, <2>3, <3>1, <3>3, LargeStep
  <2> QED
    BY <2>2, <2>3
<1> QED
  BY <1>5, <1>6, <1>7

\* The ways in which an object is freed.
LargeFreed(h) ==
    \E l \in large : /\ l.va = h.addr /\ blocks' = blocks \ {Block(l.va, l.order)} /\ large' = large \ {l}
                     /\ UNCHANGED <<slab, partial>>
ObjectFreed(h) ==
    \E s \in DOMAIN slab :
        /\ h.addr \in Objects(s, slab[s].cache) /\ slab[s].inuse > 1
        /\ slab' = [slab EXCEPT ![s].freelist = <<h.addr>> \o @, ![s].inuse = @ - 1]
        /\ UNCHANGED <<blocks, partial, large>>
PageFreed(h) ==
    \E s \in DOMAIN slab :
        /\ h.addr \in Objects(s, slab[s].cache) /\ slab[s].inuse <= 1
        /\ partial' = [partial EXCEPT ![slab[s].cache] = RemoveFirst(@, s)]
        /\ blocks' = blocks \ {Block(s, Order(SlabSizes[slab[s].cache]))}
        /\ slab' = [q \in DOMAIN slab \ {s} |-> slab[q]]
        /\ UNCHANGED large

\* kfree of what kmalloc has handed out finds it, whether a large one or an object of a page.
LEMMA KfreeEffect ==
  ASSUME State, NEW h \in held, h \notin RustHeld \/ h.by = "c", Kfree(h.addr)
  PROVE  (LargeFreed(h) \/ ObjectFreed(h) \/ PageFreed(h)) /\ (blocks' # blocks \/ slab' # slab)
<1>1. Typed /\ PagesOK /\ HeldPlaced /\ Exact
  BY DEF State
<1>2. CASE \E l \in large : l.va = h.addr
  <2>1. PICK l \in large : /\ l.va = h.addr /\ blocks' = blocks \ {Block(l.va, l.order)} /\ large' = large \ {l}
                           /\ UNCHANGED <<slab, partial>>
    <3>1. {l \in large : l.va = h.addr} # {}
      BY <1>2
    <3> QED
      BY <3>1 DEF Kfree, FreeLargeMeta, caches
  <2>2. Block(l.va, l.order) \in blocks
    BY <1>1, Owned
  <2> QED
    BY <2>1, <2>2 DEF LargeFreed
<1>3. CASE ~ \E l \in large : l.va = h.addr
  <2>1. SlabFreeObj(h.addr) /\ UNCHANGED large
    BY <1>3 DEF Kfree
  <2>2. PICK s \in DOMAIN slab : OnPage(h, s, slab[s])
    BY <1>1, <1>3 DEF HeldPlaced, Placed
  <2>3. h.addr \in Objects(s, slab[s].cache)
    BY <2>2 DEF OnPage
  <2> DEFINE P == {p \in DOMAIN slab : h.addr \in Extent(p, Span[Order(SlabSizes[slab[p].cache])])}
  <2>4. P = {s}
    <3>1. \A p \in DOMAIN slab : Extent(p, Span[Order(SlabSizes[slab[p].cache])]) = At(Block(p, Order(SlabSizes[slab[p].cache])))
      BY BlockFields
    <3>2. h.addr \in At(Block(s, Order(SlabSizes[slab[s].cache])))
      BY <2>2, HeldInside
    <3>3. \A q \in DOMAIN slab : h.addr \in At(Block(q, Order(SlabSizes[slab[q].cache]))) => q = s
      BY <2>3, ObjectOfOne
    <3> QED
      BY <3>1, <3>2, <3>3
  <2>5. IF LastObject(s) THEN SlabDestroyPage(s)
        ELSE /\ slab' = [slab EXCEPT ![s].freelist = <<h.addr>> \o @, ![s].inuse = @ - 1]
             /\ UNCHANGED <<blocks, partial>>
    <3>1. P # {}
      BY <2>4
    <3>2. \E p \in P : IF LastObject(p) THEN SlabDestroyPage(p)
                       ELSE /\ slab' = [slab EXCEPT ![p].freelist = <<h.addr>> \o @, ![p].inuse = @ - 1]
                            /\ UNCHANGED <<blocks, partial>>
      BY <2>1, <3>1 DEF SlabFreeObj
    <3> HIDE DEF P
    <3> QED
      BY <2>4, <3>2
  <2>6. CASE LastObject(s)
    <3>1. /\ partial' = [partial EXCEPT ![slab[s].cache] = RemoveFirst(@, s)]
          /\ blocks' = blocks \ {Block(s, Order(SlabSizes[slab[s].cache]))}
          /\ slab' = [q \in DOMAIN slab \ {s} |-> slab[q]]
          /\ slab[s].inuse <= 1
      BY <2>5, <2>6 DEF SlabDestroyPage, SlabCacheDelPage, LastObject
    <3>2. Block(s, Order(SlabSizes[slab[s].cache])) \in blocks
      BY <1>1, Owned
    <3>3. blocks' # blocks
      BY <3>1, <3>2
    <3>4. PageFreed(h)
      BY <2>1, <2>3, <3>1, Zenon DEF PageFreed
    <3> QED
      BY <3>3, <3>4
  <2>7. CASE ~LastObject(s)
    <3>1. slab[s].inuse > 1 /\ slab[s].inuse \in Nat
      BY <1>1, <2>7, PageTypes DEF LastObject
    <3>2. ObjectFreed(h)
      BY <2>1, <2>3, <2>5, <2>7, <3>1 DEF ObjectFreed
    <3>3. slab'[s].inuse = slab[s].inuse - 1
      <4>1. slab = [p \in DOMAIN slab |-> slab[p]] /\ slab[s] \in [cache : Caches, inuse : Nat \ {0}, freelist : Seq(Cells)]
        BY <1>1, PageTypes DEF Typed, PageOK
      <4>2. slab' = [slab EXCEPT ![s].freelist = <<h.addr>> \o @, ![s].inuse = @ - 1]
        BY <2>5, <2>7
      <4> QED
        BY <4>1, <4>2
    <3> QED
      BY <3>1, <3>2, <3>3
  <2> QED
    BY <2>6, <2>7
<1> QED
  BY <1>2, <1>3

\* kfree keeps the invariant, whichever of its three paths it takes.
LEMMA KfreeStep ==
  ASSUME State, NEW h \in held, held' = held \ {h}, RustKept,
         LargeFreed(h) \/ ObjectFreed(h) \/ PageFreed(h)
  PROVE  State'
<1>1. CASE LargeFreed(h)
  BY <1>1, FreeLargeStep DEF LargeFreed
<1>2. CASE ObjectFreed(h)
  BY <1>2, FreeObjStep DEF ObjectFreed
<1>3. CASE PageFreed(h)
  BY <1>3, DestroyStep DEF PageFreed
<1> QED
  BY <1>1, <1>2, <1>3

\* kfree knows nothing of a block that Rust took from the page allocator.
LEMMA KfreeOfPages ==
  ASSUME State, NEW h \in RustHeld, Kfree(h.addr)
  PROVE  UNCHANGED <<blocks, slab, partial, large>>
<1>1. Typed /\ PagesOK /\ Exact /\ BlocksApart
  BY DEF State
<1>2. Block(h.addr, RustOrder(h.size)) \in blocks /\ Block(h.addr, RustOrder(h.size)).pa = h.addr
  BY <1>1, Owned, BlockFields
<1>3. h.addr \notin DOMAIN slab /\ h.addr \notin Vas
  BY DEF RustHeld
<1>4. ASSUME NEW p \in DOMAIN slab, h.addr \in Extent(p, Span[Order(SlabSizes[slab[p].cache])]) PROVE FALSE
  <2> DEFINE b == Block(p, Order(SlabSizes[slab[p].cache]))
  <2>1. b \in blocks /\ b.pa = p /\ h.addr \in At(b)
    BY <1>1, <1>4, Owned, BlockFields
  <2>2. h.addr \in At(Block(h.addr, RustOrder(h.size)))
    BY <1>1, <1>2, InUse
  <2>3. b = Block(h.addr, RustOrder(h.size))
    BY <1>1, <1>2, <2>1, <2>2, InUse
  <2> QED
    BY <1>2, <1>3, <2>1, <2>3
<1>5. {l \in large : l.va = h.addr} = {}
  BY <1>3 DEF Vas
<1>6. {p \in DOMAIN slab : h.addr \in Extent(p, Span[Order(SlabSizes[slab[p].cache])])} = {}
  BY <1>4
<1>7. SlabFreeObj(h.addr) /\ UNCHANGED large
  BY <1>5 DEF Kfree
<1> QED
  BY <1>6, <1>7 DEF SlabFreeObj, caches

------------------------------------------------------------------------------------
(* The invariant of the specification *)

\* Nothing is in use at first.
LEMMA SlabInit == Init => State
<1> SUFFICES ASSUME Init PROVE State
  OBVIOUS
<1> USE DEF Init
<1>1. DOMAIN slab = {} /\ slab = [p \in DOMAIN slab |-> slab[p]]
  OBVIOUS
<1>2. Vas = {} /\ Pending = {} /\ RustHeld = {}
  <2>1. Idle.kind = "idle"
    BY DEF Idle
  <2> QED
    BY <2>1 DEF Vas, Pending, RustHeld
<1>3. Typed
  <2>1. Cardinality({}) = 0 /\ IsFiniteSet({})
    BY FS_EmptySet
  <2> QED
    BY <1>1, <2>1, LimitsAssumption DEF Typed
<1>4. ListsExact
  <2> SUFFICES ASSUME NEW c \in Caches PROVE Lists(<<>>, {})
    BY <1>1 DEF ListsExact
  <2> QED
    BY DEF Lists, IsInjective, ToSet
<1>5. LargeAsks /\ PagesOK /\ BlocksApart /\ OwnersApart /\ HeldPlaced /\ TableAligned
  BY <1>1, <1>2 DEF LargeAsks, PagesOK, BlocksApart, OwnersApart, HeldPlaced, TableAligned
<1>6. Exact
  BY <1>1, <1>2 DEF Exact, SlabBlocks, LargeBlocks, PendingBlocks, HeldBlocks
<1> QED
  BY <1>3, <1>4, <1>5, <1>6 DEF State

\* kmalloc and kfree leave Rust's locals alone.
LEMMA SameRust ==
  ASSUME State, UNCHANGED <<table, count, op, leaked>>
  PROVE  RustKept
BY DEF RustKept, State, Typed, LargeAsks, Pending

\* C's kmalloc keeps the invariant.
LEMMA CAllocStep == ASSUME State, NEW size \in Sizes, CAlloc(size) PROVE State'
<1>1. Kmalloc(size, "c") /\ UNCHANGED <<table, count, op, leaked>>
  BY DEF CAlloc, rust
<1> QED
  BY <1>1, SameRust, KmallocStep

\* A small allocation of Rust's keeps the invariant.
LEMMA RustSmallStep == ASSUME State, NEW size \in RustSizes, RustSmall(size) PROVE State'
<1>1. Kmalloc(size, "rust") /\ UNCHANGED <<table, count, op, leaked>>
  BY DEF RustSmall, rust
<1> QED
  BY <1>1, SameRust, KmallocStep

\* C's kfree keeps the invariant.
LEMMA CFreeStep == ASSUME State, NEW h \in held, CFree(h) PROVE State'
<1>1. h.by = "c" /\ held' = held \ {h} /\ Kfree(h.addr) /\ UNCHANGED <<table, count, op, leaked>>
  BY DEF CFree, rust
<1>2. LargeFreed(h) \/ ObjectFreed(h) \/ PageFreed(h)
  BY <1>1, KfreeEffect
<1> QED
  BY <1>1, <1>2, SameRust, KfreeStep

\* kmalloc for Rust, when there are no pages, keeps the invariant.
LEMMA RustFallbackStep == ASSUME State, NEW t \in Tasks, RustFallback(t) PROVE State'
<1>1. Typed /\ LargeAsks
  BY DEF State
<1>2. /\ op[t].kind = "fallback" /\ Kmalloc(op[t].size, "rust") /\ op' = [op EXCEPT ![t] = Idle]
      /\ UNCHANGED <<table, count, leaked>>
  BY DEF RustFallback, Become
<1>3. op[t] # Idle /\ t \notin Pending
  BY <1>2 DEF Idle, Pending
<1>4. op[t].size \in RustSizes
  BY <1>1, <1>3, OpTypes
<1>5. /\ op' \in [Tasks -> {Idle} \cup Asking \cup Recordings] /\ op'[t] = Idle
      /\ \A u \in Tasks : u # t => op'[u] = op[u]
  BY <1>1, <1>2 DEF Typed
<1>6. RustKept
  <2>1. Idle.kind = "idle"
    BY DEF Idle
  <2>2. Pending' = Pending /\ \A u \in Pending : op'[u] = op[u]
    BY <1>3, <1>5, <2>1 DEF Pending
  <2>3. LargeAsks'
    BY <1>1, <1>5 DEF LargeAsks
  <2> QED
    BY <1>2, <1>5, <2>2, <2>3 DEF RustKept
<1> QED
  BY <1>2, <1>4, <1>6, KmallocStep

\* The pages of a large allocation of Rust's keep the invariant.
LEMMA RustLargeStep == ASSUME State, NEW t \in Tasks, NEW size \in RustSizes, RustLarge(t, size) PROVE State'
<1>1. Typed /\ LargeAsks
  BY DEF State
<1>2. op[t] = Idle /\ size >= LARGE_THRESHOLD /\ UNCHANGED <<slab, partial, large, table, count, held, leaked>>
  BY DEF RustLarge, caches
<1>3. CASE FreeBlocks(RustOrder(size)) = {}
  <2> DEFINE r == [kind |-> "fallback", size |-> size]
  <2>1. op' = [op EXCEPT ![t] = r] /\ UNCHANGED blocks
    BY <1>3 DEF RustLarge, Become
  <2>2. r \in Asking /\ r.kind = "fallback" /\ r.size = size
    BY DEF Asking
  <2>3. t \notin Pending
    BY <1>2 DEF Pending, Idle
  <2> HIDE DEF r
  <2>4. /\ op' \in [Tasks -> {Idle} \cup Asking \cup Recordings] /\ op'[t] = r
        /\ \A u \in Tasks : u # t => op'[u] = op[u]
    BY <1>1, <2>1, <2>2 DEF Typed
  <2>5. RustKept
    <3>1. Pending' = Pending /\ \A u \in Pending : op'[u] = op[u]
      BY <2>2, <2>3, <2>4 DEF Pending
    <3>2. LargeAsks'
      BY <1>1, <1>2, <2>2, <2>4 DEF LargeAsks
    <3> QED
      BY <1>2, <2>4, <3>1, <3>2 DEF RustKept
  <2> QED
    BY <1>2, <2>1, <2>5, KeepStep
<1>4. CASE FreeBlocks(RustOrder(size)) # {}
  <2>1. PICK pa \in FreeBlocks(RustOrder(size)) :
          /\ blocks' = blocks \cup {Block(pa, RustOrder(size))}
          /\ op' = [op EXCEPT ![t] = [kind |-> "check", size |-> size, addr |-> pa, at |-> 0]]
    BY <1>4 DEF RustLarge, Become
  <2> QED
    BY <1>2, <2>1, ClaimStep
<1> QED
  BY <1>3, <1>4

\* What alloc's steps with PAGE_ALLOCS have in common.
LEMMA RecordingTask ==
  ASSUME State, NEW t \in Tasks, NEW kind \in {"check", "index", "write", "load", "store"}, Recording(t, kind)
  PROVE  /\ t \in Pending /\ op[t] \in Recordings /\ op[t].kind = kind
         /\ UNCHANGED <<blocks, slab, partial, large, leaked>>
<1>1. op[t].kind = kind /\ UNCHANGED <<blocks, slab, partial, large, leaked>>
  BY DEF Recording, caches
<1>2. op[t] # Idle
  BY <1>1 DEF Idle
<1> QED
  BY <1>1, <1>2, OpTypes DEF State, Pending

\* alloc's return keeps the invariant.
LEMMA ReturnKeeps ==
  ASSUME State, NEW t \in Pending, op[t] \in Recordings, Return(t), count' \in Nat,
         UNCHANGED <<blocks, slab, partial, large, table, leaked>>
  PROVE  State'
<1> DEFINE n == [addr |-> op[t].addr, size |-> op[t].size, by |-> "rust"]
<1>1. op[t].addr \in Cells /\ op[t].size \in RustSizes
  BY DEF Recordings
<1>2. held' = held \cup {n} /\ op' = [op EXCEPT ![t] = Idle]
  BY <1>1, CellsNat DEF Return, Hand, Become
<1>3. n \in Handles /\ n.addr = op[t].addr /\ n.size = op[t].size /\ n.by = "rust"
  BY <1>1 DEF Handles
<1> HIDE DEF n
<1> QED
  BY <1>2, <1>3, ReturnStep

\* Each step with PAGE_ALLOCS keeps the invariant, in a full or overwritten table too.
LEMMA RustRecordStep ==
  ASSUME State, NEW t \in Tasks,
         RustCheck(t) \/ RustIndex(t) \/ RustWrite(t) \/ RustLoad(t) \/ RustStore(t)
  PROVE  State'
<1>1. count \in Nat
  BY DEF State, Typed
<1>2. CASE RustCheck(t)
  <2>1. /\ t \in Pending /\ op[t] \in Recordings /\ UNCHANGED <<blocks, slab, partial, large, leaked, table, count>>
    BY <1>2, RecordingTask DEF RustCheck
  <2>2. CASE Return(t)
    BY <1>1, <2>1, <2>2, ReturnKeeps
  <2>3. CASE op' = [op EXCEPT ![t] = [op[t] EXCEPT !.kind = "index"]] /\ UNCHANGED held
    <3> DEFINE r == [op[t] EXCEPT !.kind = "index"]
    <3>1. r \in Recordings /\ r.size = op[t].size /\ r.addr = op[t].addr
      BY <2>1 DEF Recordings
    <3> HIDE DEF r
    <3>2. op' = [op EXCEPT ![t] = r]
      BY <2>3 DEF r
    <3> QED
      BY <2>1, <2>3, <3>1, <3>2, LocalStep
  <2> QED
    BY <1>2, <2>2, <2>3 DEF RustCheck, Become
<1>3. CASE RustIndex(t)
  <2>1. /\ t \in Pending /\ op[t] \in Recordings /\ UNCHANGED <<blocks, slab, partial, large, leaked, table, count, held>>
    BY <1>3, RecordingTask DEF RustIndex
  <2> DEFINE r == IF count < MAX_PAGE_ALLOCS THEN [op[t] EXCEPT !.kind = "write", !.at = count]
                  ELSE [op[t] EXCEPT !.kind = "panic"]
  <2>2. r \in Recordings /\ r.size = op[t].size /\ r.addr = op[t].addr
    BY <1>1, <2>1 DEF Recordings
  <2>3. op' = [op EXCEPT ![t] = r]
    BY <1>3 DEF RustIndex, Become
  <2> HIDE DEF r
  <2> QED
    BY <2>1, <2>2, <2>3, LocalStep
<1>4. CASE RustWrite(t)
  <2>1. /\ t \in Pending /\ op[t] \in Recordings /\ UNCHANGED <<blocks, slab, partial, large, leaked, count, held>>
    BY <1>4, RecordingTask DEF RustWrite
  <2> DEFINE r == [op[t] EXCEPT !.kind = "load"]
  <2>2. r \in Recordings /\ r.size = op[t].size /\ r.addr = op[t].addr
    BY <2>1 DEF Recordings
  <2>3. op' = [op EXCEPT ![t] = r] /\ table' = [table EXCEPT ![op[t].at + 1] = op[t].addr]
    BY <1>4 DEF RustWrite, Become
  <2> HIDE DEF r
  <2> QED
    BY <2>1, <2>2, <2>3, LocalStep
<1>5. CASE RustLoad(t)
  <2>1. /\ t \in Pending /\ op[t] \in Recordings /\ UNCHANGED <<blocks, slab, partial, large, leaked, table, count, held>>
    BY <1>5, RecordingTask DEF RustLoad
  <2> DEFINE r == [op[t] EXCEPT !.kind = "store", !.at = count]
  <2>2. r \in Recordings /\ r.size = op[t].size /\ r.addr = op[t].addr
    BY <1>1, <2>1 DEF Recordings
  <2>3. op' = [op EXCEPT ![t] = r]
    BY <1>5 DEF RustLoad, Become
  <2> HIDE DEF r
  <2> QED
    BY <2>1, <2>2, <2>3, LocalStep
<1>6. CASE RustStore(t)
  <2>1. /\ t \in Pending /\ op[t] \in Recordings /\ UNCHANGED <<blocks, slab, partial, large, leaked, table>>
    BY <1>6, RecordingTask DEF RustStore
  <2>2. Return(t) /\ count' \in Nat
    BY <1>6, <2>1 DEF RustStore, Recordings
  <2> QED
    BY <2>1, <2>2, ReturnKeeps
<1> QED
  BY <1>2, <1>3, <1>4, <1>5, <1>6

\* dealloc: a match of an entry that is not the object's own is recorded as such.
LEMMA RustDeallocStep ==
  ASSUME State, NEW h \in held, RustDealloc(h)
  PROVE  State' \/ confused'
<1>1. Typed /\ PagesOK /\ HeldPlaced /\ TableAligned /\ BlocksApart /\ Exact
  BY DEF State
<1>2. h.by = "rust" /\ held' = held \ {h} /\ UNCHANGED <<table, count, op>>
  BY DEF RustDealloc, rust
<1>3. h \in Handles /\ h.addr \in Cells
  BY <1>1, HandleTypes DEF Typed
<1>4. CASE Recorded(h.addr)
  <2>1. /\ blocks' = blocks \ {Block(h.addr, RustOrder(h.size))}
        /\ confused' = (confused \/ h.addr \in Vas \cup DOMAIN slab)
        /\ UNCHANGED <<slab, partial, large, leaked>>
    BY <1>4 DEF RustDealloc, caches, Vas
  <2>2. h.addr % PageSize = 0
    <3>1. PICK i \in 1..MAX_PAGE_ALLOCS : table[i] = h.addr
      BY <1>4 DEF Recorded
    <3>2. table[i] # NULL
      BY <1>3, <3>1, CellsNat
    <3> QED
      BY <1>1, <3>1, <3>2 DEF TableAligned
  <2>3. CASE \E p \in DOMAIN slab : OnPage(h, p, slab[p])
    <3>1. PICK p \in DOMAIN slab : OnPage(h, p, slab[p])
      BY <2>3
    <3>2. p \in Nat /\ slab[p].cache \in Caches
      BY <1>1, PageTypes
    <3>3. p % PageSize = 0
      <4>1. Block(p, Order(SlabSizes[slab[p].cache])) \in blocks /\ Block(p, Order(SlabSizes[slab[p].cache])).pa = p
        BY <1>1, Owned, BlockFields
      <4> QED
        BY <1>1, <4>1 DEF BlocksApart
    <3>4. h.addr = p
      BY <2>2, <3>1, <3>2, <3>3, PageObject DEF OnPage
    <3> QED
      BY <2>1, <3>4
  <2>4. CASE h.addr \in Vas
    BY <2>1, <2>4
  <2>5. CASE h \in RustHeld
    BY <1>2, <2>1, <2>5, DeallocStep
  <2> QED
    BY <1>1, <2>3, <2>4, <2>5 DEF HeldPlaced, Placed, Vas
<1>5. CASE ~Recorded(h.addr)
  <2>1. /\ Kfree(h.addr)
        /\ leaked' = IF blocks' # blocks \/ slab' # slab THEN leaked ELSE leaked \cup {Block(h.addr, RustOrder(h.size))}
    BY <1>5 DEF RustDealloc
  <2>2. CASE h \in RustHeld
    <3>1. UNCHANGED <<blocks, slab, partial, large>>
      BY <2>1, <2>2, KfreeOfPages
    <3>2. leaked' = leaked \cup {Block(h.addr, RustOrder(h.size))}
      BY <2>1, <3>1
    <3> QED
      BY <1>2, <2>2, <3>1, <3>2, DeallocStep
  <2>3. CASE h \notin RustHeld
    <3>1. (LargeFreed(h) \/ ObjectFreed(h) \/ PageFreed(h)) /\ (blocks' # blocks \/ slab' # slab)
      BY <2>1, <2>3, KfreeEffect
    <3>2. leaked' = leaked
      BY <2>1, <3>1
    <3> QED
      BY <1>2, <3>1, <3>2, SameRust, KfreeStep
  <2> QED
    BY <2>2, <2>3
<1> QED
  BY <1>4, <1>5

\* Every step keeps the invariant.
LEMMA SlabStep == IInv /\ [Next]_vars => IInv'
<1> SUFFICES ASSUME IInv, [Next]_vars, ~confused' PROVE State'
  BY DEF IInv
<1>1. CASE UNCHANGED vars
  <2>1. State /\ UNCHANGED <<blocks, slab, partial, large, table, count, op, held, leaked>>
    BY <1>1 DEF vars, IInv
  <2> QED
    BY <2>1, SameRust, KeepStep
<1>2. ASSUME NEW size \in Sizes, CAlloc(size) PROVE State'
  BY <1>2, CAllocStep DEF IInv, CAlloc
<1>3. ASSUME NEW size \in RustSizes, RustSmall(size) PROVE State'
  BY <1>3, RustSmallStep DEF IInv, RustSmall
<1>4. ASSUME NEW t \in Tasks, NEW size \in RustSizes, RustLarge(t, size) PROVE State'
  BY <1>4, RustLargeStep DEF IInv, RustLarge
<1>5. ASSUME NEW t \in Tasks, RustFallback(t) PROVE State'
  BY <1>5, RustFallbackStep DEF IInv, RustFallback
<1>6. ASSUME NEW t \in Tasks,
             RustCheck(t) \/ RustIndex(t) \/ RustWrite(t) \/ RustLoad(t) \/ RustStore(t)
      PROVE  State'
  BY <1>6, RustRecordStep DEF IInv, RustCheck, RustIndex, RustWrite, RustLoad, RustStore, Recording
<1>7. ASSUME NEW h \in held, CFree(h) PROVE State'
  BY <1>7, CFreeStep DEF IInv, CFree
<1>8. ASSUME NEW h \in held, RustDealloc(h) PROVE State'
  BY <1>8, RustDeallocStep DEF IInv, RustDealloc
<1> QED
  BY <1>1, <1>2, <1>3, <1>4, <1>5, <1>6, <1>7, <1>8 DEF Next

\* kmalloc's books balance.
THEOREM SlabInvariant == Spec => []IInv
<1>1. Init => IInv
  BY SlabInit DEF IInv
<1> QED
  BY <1>1, SlabStep, PTL DEF Spec

\* What the run checks of the slab pages follows from the invariant.
LEMMA PagesExact == IInv => SlabPagesExact
<1> SUFFICES ASSUME State PROVE
      /\ TypeOK
      /\ \A c \in Caches : /\ IsInjective(partial[c])
                            /\ ToSet(partial[c]) = {p \in DOMAIN slab : slab[p].cache = c}
      /\ \A p \in DOMAIN slab :
          LET onlist == ToSet(slab[p].freelist)
              taken == {h.addr : h \in HeldIn(p)}
          IN /\ Len(slab[p].freelist) = Cardinality(onlist)
             /\ onlist \cap taken = {}
             /\ onlist \cup taken = ObjectsOf(p)
             /\ slab[p].inuse = Cardinality(HeldIn(p))
  BY DEF IInv, SlabPagesExact
<1>1. Typed /\ PagesOK /\ ListsExact
  BY DEF State
<1>2. ASSUME NEW p \in DOMAIN slab PROVE slab[p] \in [cache : Caches, inuse : 1..PageSize, freelist : Seq(Cells)]
  <2>1. /\ slab[p] \in [cache : Caches, inuse : Nat \ {0}, freelist : Seq(Cells)]
        /\ slab[p].inuse + Len(slab[p].freelist) = Capacity(slab[p].cache)
        /\ slab[p].cache \in Caches /\ slab[p].inuse \in Nat \ {0} /\ slab[p].freelist \in Seq(Cells)
    BY <1>1, PageTypes DEF PageOK
  <2>2. Capacity(slab[p].cache) \in 1..PageSize /\ Len(slab[p].freelist) \in Nat
    BY <2>1, CapacityIs, LenProperties
  <2> DEFINE k == slab[p].inuse
             m == Len(slab[p].freelist)
             n == Capacity(slab[p].cache)
  <2>3. k \in Nat \ {0} /\ m \in Nat /\ n \in 1..PageSize /\ k + m = n
    BY <2>1, <2>2
  <2> HIDE DEF k, m, n
  <2>4. k \in 1..PageSize
    BY <2>3, PageAssumption
  <2>5. slab[p].inuse \in 1..PageSize
    BY <2>4 DEF k
  <2> QED
    BY <2>1, <2>5
<1>3. TypeOK
  BY <1>1, <1>2 DEF Typed, TypeOK, Handles
<1>4. \A c \in Caches : /\ IsInjective(partial[c])
                        /\ ToSet(partial[c]) = {p \in DOMAIN slab : slab[p].cache = c}
  BY <1>1 DEF ListsExact, Lists
<1>5. ASSUME NEW p \in DOMAIN slab
      PROVE  LET onlist == ToSet(slab[p].freelist)
                 taken == {h.addr : h \in HeldIn(p)}
             IN /\ Len(slab[p].freelist) = Cardinality(onlist)
                /\ onlist \cap taken = {}
                /\ onlist \cup taken = ObjectsOf(p)
                /\ slab[p].inuse = Cardinality(HeldIn(p))
  <2> DEFINE c == slab[p].cache
             T == {h.addr : h \in HeldAt(p, c, held)}
             R == Objects(p, c) \ T
             f == slab[p].freelist
  <2>1. ObjectsOf(p) = Objects(p, c) /\ HeldIn(p) = HeldAt(p, c, held)
    BY DEF ObjectsOf, Objects, HeldIn, HeldAt
  <2>2. Lists(f, R) /\ slab[p].inuse = Cardinality(HeldAt(p, c, held))
    BY <1>1, PageTypes DEF PageOK
  <2>3. ToSet(f) = R
    BY <2>2 DEF Lists
  <2>4. Len(f) = Cardinality(R)
    <3> HIDE DEF R, f
    <3> QED
      BY <2>2, ListsCount
  <2>5. T \subseteq Objects(p, c)
    BY DEF HeldAt
  <2> QED
    BY <2>1, <2>2, <2>3, <2>4, <2>5
<1> QED
  BY <1>3, <1>4, <1>5

\* However kmalloc and kfree are called from C and from Rust, until a stale entry of
\* PAGE_ALLOCS is matched: every object of a slab page is held by one caller or on the free
\* list once, inuse counts the held ones, every page is on its own cache's list once, and no
\* fixed table overflows.
THEOREM SlabPagesAreExact == Spec => []SlabPagesExact
BY SlabInvariant, PagesExact, PTL

\* Until a stale entry is matched, the page allocator's blocks in use are those of the slab
\* pages, of the large allocations, of Rust's callers, and the lost ones: kfree and dealloc
\* give back nothing else, and nothing else leaks.
THEOREM BlocksAreExact == Spec => []BlocksExact
<1>1. IInv => BlocksExact
  BY DEF IInv, State, Exact, BlocksExact, RustBlocks, PendingBlocks, HeldBlocks, Pending, RustHeld, Vas
<1> QED
  BY <1>1, SlabInvariant, PTL

------------------------------------------------------------------------------------
(* kmalloc is an allocator *)

\* kmalloc hands out at most one object, of the size its caller asked for.
LEMMA KmallocHands ==
  ASSUME NEW size, NEW by, Kmalloc(size, by)
  PROVE  \E a : Hand(a, size, by)
<1>1. ASSUME NEW c, SlabGrow(c, size, by) PROVE \E a : Hand(a, size, by)
  BY <1>1, Zenon DEF SlabGrow
<1>2. ASSUME NEW c, SlabAlloc(c, size, by) PROVE \E a : Hand(a, size, by)
  BY <1>1, <1>2, Zenon DEF SlabAlloc
<1>3. LargeAlloc(size, by) => \E a : Hand(a, size, by)
  BY Zenon DEF LargeAlloc
<1> QED
  BY <1>2, <1>3, Zenon DEF Kmalloc

\* A caller gets an object.
Handed(a, size, by) == held' = held \cup {[addr |-> a, size |-> size, by |-> by]}

\* What a step does to the objects in callers' hands: it hands one out, takes one back, or
\* leaves them alone.
LEMMA HeldStep ==
  ASSUME [Next]_vars
  PROVE  \/ held' = held
         \/ \E a, s, by : Handed(a, s, by)
         \/ \E h \in held : held' = held \ {h}
<1>1. ASSUME NEW a, NEW size, NEW by, Hand(a, size, by) PROVE held' = held \/ Handed(a, size, by)
  BY <1>1 DEF Hand, Handed
<1>2. ASSUME NEW size, NEW by, Kmalloc(size, by) PROVE held' = held \/ \E a : Handed(a, size, by)
  BY <1>1, <1>2, KmallocHands, Zenon
<1>3. ASSUME NEW size, CAlloc(size) \/ RustSmall(size) PROVE held' = held \/ \E a, s, by : Handed(a, s, by)
  BY <1>2, <1>3, Zenon DEF CAlloc, RustSmall
<1>4. ASSUME NEW t \in Tasks, RustFallback(t) PROVE held' = held \/ \E a, s, by : Handed(a, s, by)
  BY <1>2, <1>4, Zenon DEF RustFallback
<1>5. ASSUME NEW t \in Tasks,
             RustCheck(t) \/ RustIndex(t) \/ RustWrite(t) \/ RustLoad(t) \/ RustStore(t)
      PROVE  held' = held \/ \E a, s, by : Handed(a, s, by)
  <2>1. held' = held \/ Return(t)
    BY <1>5, Zenon DEF RustCheck, RustIndex, RustWrite, RustLoad, RustStore
  <2> QED
    BY <1>1, <2>1, Zenon DEF Return
<1>6. ASSUME NEW t, NEW size, RustLarge(t, size) PROVE held' = held
  BY <1>6 DEF RustLarge
<1>7. ASSUME NEW h \in held, CFree(h) \/ RustDealloc(h) PROVE held' = held \ {h}
  BY <1>7 DEF CFree, RustDealloc
<1>8. UNCHANGED vars => held' = held
  BY DEF vars
<1> QED
  BY <1>3, <1>4, <1>5, <1>6, <1>7, <1>8, Zenon DEF Next

\* A caller gets no more than it asked for, and no more than the largest block.
LEMMA GivenIs ==
  ASSUME NEW size \in Nat
  PROVE  Given(size) \in Nat /\ Given(size) <= size /\ Given(size) <= Span[MaxOrder]
<1>1. Span[MaxOrder] \in Nat
  BY SpanPages, LimitsAssumption
<1> QED
  BY <1>1 DEF Given

\* The block a held object lies in.
LEMMA HeldHome ==
  ASSUME State, NEW h \in held
  PROVE  \E b \in blocks :
            /\ Extent(h.addr, Given(h.size)) \subseteq At(b)
            /\ \/ b.pa \in DOMAIN slab /\ OnPage(h, b.pa, slab[b.pa])
               \/ b.pa \notin DOMAIN slab /\ b.pa = h.addr
<1>1. Typed /\ PagesOK /\ BlocksApart /\ Exact /\ OwnersApart /\ HeldPlaced
  BY DEF State
<1>2. h.addr \in Nat /\ h.size \in Nat /\ h \in Handles /\ Given(h.size) \in Nat /\ Given(h.size) <= h.size
  BY <1>1, CellsNat, SizesAssumption, GivenIs DEF Typed, Handles
<1>3. ASSUME NEW o \in Nat, Given(h.size) <= Span[o]
      PROVE  Extent(h.addr, Given(h.size)) \subseteq At(Block(h.addr, o))
  <2>1. Span[o] \in Nat
    BY SpanPages
  <2> QED
    BY <1>2, <1>3, <2>1, BlockFields DEF Extent
<1>4. ASSUME NEW p \in DOMAIN slab, OnPage(h, p, slab[p])
      PROVE  \E b \in blocks :
            /\ Extent(h.addr, Given(h.size)) \subseteq At(b)
            /\ b.pa \in DOMAIN slab /\ OnPage(h, b.pa, slab[b.pa])
  <2> DEFINE c == slab[p].cache
             n == SlabSizes[c]
             b == Block(p, Order(n))
  <2>1. p \in Nat /\ c \in Caches
    BY <1>1, PageTypes
  <2>2. n \in Nat /\ Order(n) \in Nat /\ Span[Order(n)] \in Nat
    BY <2>1, CacheSize, OrderIs, SpanPages
  <2>3. h.addr >= p /\ h.addr + n <= p + Span[Order(n)] /\ h.size <= n
    BY <1>4, <2>1, ObjectIn DEF OnPage
  <2>4. b \in blocks
    BY <1>1, Owned
  <2>5. b.pa = p /\ At(b) = Extent(p, Span[Order(n)])
    BY BlockFields
  <2>6. Extent(h.addr, Given(h.size)) \subseteq At(b)
    <3> DEFINE w == Span[Order(n)]
    <3>1. w \in Nat /\ h.addr + n <= p + w
      BY <2>2, <2>3
    <3> HIDE DEF w, n, c, b
    <3>2. Extent(h.addr, Given(h.size)) \subseteq Extent(p, w)
      BY <1>2, <2>1, <2>2, <2>3, <3>1 DEF Extent
    <3> QED
      BY <2>5, <3>2 DEF w
  <2> QED
    BY <1>4, <2>4, <2>5, <2>6
<1>5. ASSUME NEW l \in large, l.va = h.addr, h.size <= Span[l.order]
      PROVE  \E b \in blocks :
            /\ Extent(h.addr, Given(h.size)) \subseteq At(b)
            /\ b.pa \notin DOMAIN slab /\ b.pa = h.addr
  <2>1. Block(l.va, l.order) \in blocks
    BY <1>1, Owned
  <2>2. l.order \in Nat
    <3>1. l \in [va : Cells, order : 0..MaxOrder]
      BY <1>1, Zenon DEF Typed
    <3> QED
      BY <3>1, LimitsAssumption
  <2>3. l.va \notin DOMAIN slab
    <3>1. l.va \in Vas
      BY DEF Vas
    <3> QED
      BY <1>1, <3>1, Zenon DEF OwnersApart
  <2>4. Given(h.size) <= Span[l.order]
    BY <1>2, <1>5, <2>2, SpanPages
  <2> QED
    BY <1>3, <1>5, <2>1, <2>2, <2>3, <2>4, BlockFields
<1>6. ASSUME h \in RustHeld, h.by = "rust"
      PROVE  \E b \in blocks :
            /\ Extent(h.addr, Given(h.size)) \subseteq At(b)
            /\ b.pa \notin DOMAIN slab /\ b.pa = h.addr
  <2>1. Block(h.addr, RustOrder(h.size)) \in blocks
    BY <1>1, <1>6, Owned
  <2>2. RustOrder(h.size) \in Nat /\ Given(h.size) <= Span[RustOrder(h.size)]
    <3>1. CASE Order(h.size) > MaxOrder
      BY <1>2, <3>1, GivenIs, LimitsAssumption DEF RustOrder
    <3>2. CASE ~(Order(h.size) > MaxOrder)
      <4>1. /\ Order(h.size) \in Nat /\ Span[Order(h.size)] \in Nat /\ h.size <= Span[Order(h.size)]
            /\ Given(h.size) \in Nat /\ Given(h.size) <= h.size
        BY <1>2, OrderIs, SpanPages, GivenIs
      <4> QED
        BY <1>2, <3>2, <4>1 DEF RustOrder
    <3> QED
      BY <3>1, <3>2
  <2>3. h.addr \notin DOMAIN slab
    BY <1>6 DEF RustHeld
  <2> QED
    BY <1>3, <2>1, <2>2, <2>3, BlockFields
<1> QED
  BY <1>1, <1>4, <1>5, <1>6 DEF HeldPlaced, Placed

\* What callers hold is theirs alone: in memory, apart from each other, told by the address.
HeldApart ==
    /\ \A h \in held : /\ h.addr \in Cells /\ h.size \in Sizes \cup RustSizes
                       /\ h.addr \in Nat
                       /\ Extent(h.addr, Given(h.size)) \subseteq Cells
    /\ \A g, h \in held : /\ g.addr = h.addr => g = h
                          /\ g # h => Extent(g.addr, Given(g.size)) \cap Extent(h.addr, Given(h.size)) = {}

\* What callers hold is theirs alone, from the invariant.
LEMMA HeldAreApart ==
  ASSUME State
  PROVE  HeldApart
<1>1. Typed /\ PagesOK /\ BlocksApart /\ Exact /\ OwnersApart /\ HeldPlaced
  BY DEF State
<1>2. \A h \in held : /\ h.addr \in Cells /\ h.size \in Sizes \cup RustSizes /\ h.addr \in Nat /\ h.size \in Nat
                       /\ Given(h.size) \in Nat /\ Given(h.size) <= h.size
  BY <1>1, CellsNat, SizesAssumption, GivenIs DEF Typed, Handles
<1>3. ASSUME NEW h \in held PROVE Extent(h.addr, Given(h.size)) \subseteq Cells
  BY <1>1, HeldHome, InUse
<1>4. \A g, h \in held : g.addr = h.addr => g = h
  BY <1>1 DEF OwnersApart
<1>5. ASSUME NEW g \in held, NEW h \in held, g # h
      PROVE  Extent(g.addr, Given(g.size)) \cap Extent(h.addr, Given(h.size)) = {}
  <2>1. PICK a \in blocks :
            /\ Extent(g.addr, Given(g.size)) \subseteq At(a)
            /\ \/ a.pa \in DOMAIN slab /\ OnPage(g, a.pa, slab[a.pa])
               \/ a.pa \notin DOMAIN slab /\ a.pa = g.addr
    BY HeldHome
  <2>2. PICK b \in blocks :
            /\ Extent(h.addr, Given(h.size)) \subseteq At(b)
            /\ \/ b.pa \in DOMAIN slab /\ OnPage(h, b.pa, slab[b.pa])
               \/ b.pa \notin DOMAIN slab /\ b.pa = h.addr
    BY HeldHome
  <2>3. CASE a # b
    BY <1>1, <2>1, <2>2, <2>3 DEF BlocksApart
  <2>4. CASE a = b
    <3> DEFINE p == a.pa
               c == slab[p].cache
    <3>1. g.addr # h.addr
      BY <1>4, <1>5
    <3>2. p \in DOMAIN slab /\ OnPage(g, p, slab[p]) /\ OnPage(h, p, slab[p])
      BY <2>1, <2>2, <2>4, <3>1
    <3>3. p \in Nat /\ c \in Caches
      BY <1>1, <3>2, PageTypes
    <3>4. g.addr \in Objects(p, c) /\ h.addr \in Objects(p, c) /\ g.size <= SlabSizes[c] /\ h.size <= SlabSizes[c]
      BY <3>2 DEF OnPage
    <3>5. Extent(g.addr, SlabSizes[c]) \cap Extent(h.addr, SlabSizes[c]) = {}
      BY <3>1, <3>3, <3>4, ObjectsApart
    <3>6. SlabSizes[c] \in Nat
      BY <3>3, CacheSize
    <3>7. /\ Extent(g.addr, Given(g.size)) \subseteq Extent(g.addr, SlabSizes[c])
          /\ Extent(h.addr, Given(h.size)) \subseteq Extent(h.addr, SlabSizes[c])
      BY <1>2, <3>4, <3>6 DEF Extent
    <3> QED
      BY <3>5, <3>7
  <2> QED
    BY <2>3, <2>4
<1> QED
  BY <1>2, <1>3, <1>4, <1>5 DEF HeldApart

\* What a step does to the objects held is a step of the abstract allocator.
LEMMA SlabRefinesStep ==
  ASSUME State, HeldApart, HeldApart', [Next]_vars
  PROVE  [PA!Next]_({<<h.addr, Given(h.size)>> : h \in held})
<1> DEFINE O == {<<h.addr, Given(h.size)>> : h \in held}
<1> SUFFICES ASSUME O' # O PROVE PA!Next
  OBVIOUS
<1>1. ASSUME NEW a, NEW s, NEW by, Handed(a, s, by) PROVE PA!Next
  <2> DEFINE r == [addr |-> a, size |-> s, by |-> by]
  <2>1. held' = held \cup {r} /\ r.addr = a /\ r.size = s
    BY <1>1 DEF Handed
  <2>2. r \notin held
    BY <2>1
  <2>3. a \in Cells /\ s \in Sizes \cup RustSizes /\ Extent(a, Given(s)) \subseteq Cells
    BY <2>1 DEF HeldApart
  <2>4. \A h \in held : Extent(a, Given(s)) \cap Extent(h.addr, Given(h.size)) = {}
    BY <2>1, <2>2 DEF HeldApart
  <2>5. O' = O \cup {<<a, Given(s)>>}
    BY <2>1
  <2>6. \A b \in O : Extent(a, Given(s)) \cap Extent(b[1], b[2]) = {}
    BY <2>4
  <2> QED
    BY <2>3, <2>5, <2>6 DEF PA!Next, PA!Alloc
<1>2. ASSUME NEW h \in held, held' = held \ {h} PROVE PA!Next
  <2>1. O' = O \ {<<h.addr, Given(h.size)>>}
    <3>1. \A g \in held : <<g.addr, Given(g.size)>> = <<h.addr, Given(h.size)>> => g = h
      BY DEF HeldApart
    <3> QED
      BY <1>2, <3>1
  <2>2. <<h.addr, Given(h.size)>> \in O
    OBVIOUS
  <2> QED
    BY <2>1, <2>2 DEF PA!Next, PA!Free
<1>3. held' = held => O' = O
  OBVIOUS
<1> QED
  BY <1>1, <1>2, <1>3, HeldStep

\* kmalloc, with Rust's allocator beside it, implements the abstract allocator of the cells
\* it really gives, on every run on which no stale entry of PAGE_ALLOCS is matched.
THEOREM SlabImplementsPageAlloc == Spec /\ []~confused => ImplementsPageAlloc
<1>1. Init => PA!Init
  BY DEF Init, PA!Init
<1>2. IInv /\ ~confused => State /\ HeldApart
  BY HeldAreApart DEF IInv
<1>3. State /\ HeldApart /\ HeldApart' /\ [Next]_vars => [PA!Next]_({<<h.addr, Given(h.size)>> : h \in held})
  BY SlabRefinesStep
<1> QED
  BY <1>1, <1>2, <1>3, SlabInvariant, PTL DEF Spec, ImplementsPageAlloc, PA!Spec
====================================================================================
