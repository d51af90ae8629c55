--------------------------------- MODULE VmapProofs ---------------------------------
(***************************************************************************)
(* Theorems about module Vmap, for any range, any number of frames and any *)
(* tasks: the areas always partition the range, each busy one has exactly  *)
(* one holder, no frame is lost, and the area manager is an allocator.     *)
(***************************************************************************)
EXTENDS Vmap, SetLemmas, FunctionTheorems

------------------------------------------------------------------------------------
(* The inductive invariant *)

Unused == UNION {Covered(a) : a \in free}

\* The areas, their order stated with their bounds.
AreasOK ==
    /\ free \subseteq Area /\ busy \subseteq Area
    /\ IsFiniteSet(free) /\ IsFiniteSet(busy)
    /\ free \cap busy = {}
    /\ \A a \in Areas : a.start < a.end
    /\ \A a, b \in Areas : a # b => a.end <= b.start \/ b.end <= a.start
    /\ \A v \in Space : \E a \in Areas : a.start <= v /\ v < a.end
    /\ nr_busy = Cardinality(busy)
    /\ total_free # Garbage => total_free = Cardinality(Unused)

LostRecords == [by : {"lost"}, addr : Space, nr : 1..MaxPages, frames : 0..Frames]

ListsOK ==
    /\ vm_list \subseteq Extents /\ io_map_list \subseteq Extents /\ dma_map_list \subseteq Extents
    /\ io_live \subseteq Space
    /\ lost \subseteq LostRecords
    /\ mapped \in [Space -> {"none", "ram", "device"}]

FrameKinds == {"dma", "dma_free", "dma_put"}
AreaKinds == {"vmalloc", "pages", "cleanup", "give_up", "vfree", "ioremap"} \cup FrameKinds
AreaCalls == [kind : AreaKinds, addr : Space, nr : 1..MaxPages, got : Nat]
FrameCalls == [kind : {"dma_area"}, nr : 1..MaxPages, got : Nat]

\* The frames that a call has, by where it is.
GotOK(w) ==
    /\ w.kind \in {"vmalloc", "ioremap", "give_up"} => w.got = 0
    /\ w.kind = "pages" => w.got <= w.nr
    /\ w.kind = "vfree" => w.got = w.nr
    /\ w.kind \in FrameKinds => w.got = DmaFrames(w.nr)
    /\ w.kind = "dma" => w.got <= Frames

OpOK(w) ==
    \/ w = Idle
    \/ w \in FrameCalls /\ w.got = DmaFrames(w.nr) /\ w.got <= Frames
    \/ w \in AreaCalls /\ GotOK(w)

OpsOK ==
    /\ op = [t \in Tasks |-> op[t]]
    /\ \A t \in Tasks : OpOK(op[t])

\* The part of OneHolder that is about holdings, and the sizes of the recorded windows.
HoldersOK ==
    /\ OneHolder
    /\ \A io \in io_map_list :
          io.addr \in io_live /\ \E a \in busy : a.start = io.addr /\ io.nr <= Size(a)

\* A page that is mapped to memory belongs to a recorded buffer, to a lost one, or to a
\* call that will unmap it before it frees the frames.
Backs(h) ==
    \/ h.by \in {"vm_list", "dma_map_list"}
    \/ h.by = "lost" /\ h.frames > 0
    \/ h.by = "call" /\ \E t \in WithArea : h = Holding(t) /\ op[t].kind \in {"vfree", "dma_free"}

RamBacked ==
    \A v \in Space : mapped[v] = "ram" =>
        \E h \in Holdings : Backs(h) /\ v \in PageRange(h.addr, h.nr)

FramesCounted ==
    /\ nfree \in Nat
    /\ IsFiniteSet(FramesOf(Owners))
    /\ nfree + Cardinality(FramesOf(Owners)) = Frames

IInv == AreasOK /\ ListsOK /\ OpsOK /\ HoldersOK /\ RamBacked /\ FramesCounted

------------------------------------------------------------------------------------
(* Choosing an area *)

LEMMA SizesOf ==
  ASSUME AreasOK, NEW a \in Areas
  PROVE  /\ a \in Area /\ a.start \in Nat /\ a.end \in Nat /\ Size(a) \in Nat \ {0}
         /\ a.start < a.end /\ a.start \in Space /\ a.end <= SpacePages
         /\ Size(a) = a.end - a.start
BY SpaceAssumption DEF AreasOK, Areas, Area, Space, Size

\* va_find_best_fit finds one of the fitting areas when there is one.
LEMMA BestFits ==
  ASSUME AreasOK, NEW size \in Nat, Fitting(size) # {}
  PROVE  BestFit(size) \in free /\ Size(BestFit(size)) >= size
<1> DEFINE F == Fitting(size)
           Sizes == {Size(a) : a \in F}
<1>1. \A a \in F : a \in free /\ a.start \in Nat /\ Size(a) \in Nat
  BY SizesOf DEF Fitting, Areas
<1>2. PICK n \in Sizes : \A m \in Sizes : n <= m
  <2>1. Sizes \in SUBSET Nat /\ Sizes # {}
    BY <1>1
  <2> QED
    BY <2>1, NatHasMin
<1> DEFINE G == {a \in F : Size(a) = n}
           Starts == {a.start : a \in G}
<1>3. PICK s \in Starts : \A r \in Starts : s <= r
  <2>1. Starts \in SUBSET Nat /\ Starts # {}
    BY <1>1, <1>2
  <2> QED
    BY <2>1, NatHasMin
<1>4. PICK a \in F : Size(a) = n /\ a.start = s
  BY <1>3
<1>5. \A b \in F : Size(a) < Size(b) \/ (Size(a) = Size(b) /\ a.start <= b.start)
  <2> TAKE b \in F
  <2>1. n <= Size(b)
    BY <1>2
  <2>2. Size(b) = n => s <= b.start
    BY <1>3
  <2> QED
    BY <2>1, <2>2, <1>1, <1>4
<1>6. BestFit(size) \in F
  BY <1>4, <1>5 DEF BestFit
<1> QED
  BY <1>6 DEF Fitting

\* The frames of a DMA buffer.
LEMMA DmaFramesType ==
  ASSUME NEW nr \in 1..MaxPages
  PROVE  DmaFrames(nr) \in Nat \ {0}
<1> DEFINE K == {k \in DmaBlocks : k >= nr}
<1>1. K \in SUBSET Nat /\ K # {}
  <2>1. 1024 \in K
    BY MaxAssumption DEF DmaBlocks
  <2> QED
    BY <2>1 DEF DmaBlocks
<1>2. PICK k \in K : \A j \in K : k <= j
  <2> HIDE DEF K
  <2> QED
    BY <1>1, NatHasMin
<1>3. DmaFrames(nr) \in DmaBlocks
  BY <1>2 DEF DmaFrames
<1> QED
  BY <1>3 DEF DmaBlocks

------------------------------------------------------------------------------------
(* Areas *)

LEMMA UnusedIs ==
  ASSUME AreasOK
  PROVE  /\ \A v : v \in Unused <=> \E a \in free : v \in a.start..(a.end - 1)
         /\ Unused \subseteq Space /\ IsFiniteSet(Unused) /\ Cardinality(Unused) \in Nat
<1>1. \A v : v \in Unused <=> \E a \in free : v \in a.start..(a.end - 1)
  BY DEF Unused, Covered
<1>2. Unused \subseteq Space
  <2> SUFFICES ASSUME NEW v \in Unused PROVE v \in Space
    OBVIOUS
  <2>1. PICK a \in free : v \in a.start..(a.end - 1)
    BY <1>1
  <2> QED
    BY <2>1, SizesOf, SpaceAssumption DEF Space, Areas
<1>3. IsFiniteSet(Space)
  BY FS_Interval, SpaceAssumption DEF Space
<1> QED
  BY <1>1, <1>2, <1>3, FS_Subset, FS_CardinalityType

\* A page range, counted.
LEMMA CoveredCount ==
  ASSUME NEW m \in Nat, NEW n \in Nat, m <= n
  PROVE  IsFiniteSet(m..(n - 1)) /\ Cardinality(m..(n - 1)) = n - m
<1>1. m \in Int /\ n - 1 \in Int
  OBVIOUS
<1>2. /\ IsFiniteSet(m..(n - 1))
      /\ Cardinality(m..(n - 1)) = IF m > n - 1 THEN 0 ELSE (n - 1) - m + 1
  BY <1>1, FS_Interval
<1> QED
  BY <1>2

\* va_alloc takes the front of a free area, or all of it.
LEMMA VaAllocKeeps ==
  ASSUME AreasOK, NEW size \in Nat \ {0}, NEW ok \in BOOLEAN,
         Fitting(size) # {}, VaAlloc(size, ok)
  PROVE  /\ AreasOK'
         /\ \E got \in busy' : /\ busy' = busy \cup {got} /\ got \notin busy
                               /\ got.start = BestFit(size).start /\ size <= Size(got)
                               /\ \A b \in busy : b.start # got.start
<1> DEFINE a == BestFit(size)
           got == Taken(a, size, ok)
           r == RestOf(a, size)
<1>1. /\ a \in free /\ a \in Areas /\ a \in Area /\ a.start \in Nat /\ a.end \in Nat
      /\ a.start + size <= a.end /\ a.start < a.end /\ a.end <= SpacePages /\ Size(a) = a.end - a.start
  <2>1. a \in free /\ Size(a) >= size
    BY BestFits
  <2>2. a \in Areas
    BY <2>1 DEF Areas
  <2> QED
    BY <2>1, <2>2, SizesOf
<1>2. /\ free' = (free \ {a}) \cup (IF Splits(a, size, ok) THEN {r} ELSE {})
      /\ busy' = busy \cup {got} /\ nr_busy' = nr_busy + 1
      /\ total_free' = Less(total_free, Size(got))
  BY DEF VaAlloc, Counted
<1> HIDE DEF a
<1>3. /\ got \in Area /\ got.start = a.start /\ got.end \in Nat
      /\ a.start + size <= got.end /\ got.end <= a.end
      /\ ~Splits(a, size, ok) => got = a
  BY <1>1, SpaceAssumption DEF Taken, Area, Space
<1>4. ASSUME Splits(a, size, ok)
      PROVE  r \in Area /\ r.start = got.end /\ r.end = a.end /\ r.start < r.end
  BY <1>1, <1>4, SpaceAssumption DEF Taken, RestOf, Splits, Area, Space
<1> HIDE DEF got, r
<1>5. \A b \in Areas : b # a => b.end <= a.start \/ a.end <= b.start
  BY <1>1 DEF AreasOK
<1>6. \A b \in Areas : /\ b \in Area /\ b.start \in Nat /\ b.end \in Nat /\ b.start < b.end
                       /\ b.end <= SpacePages
  BY SizesOf
<1>7. \A b \in busy : b \in Areas /\ b # a /\ b.start # a.start /\ b # got
  BY <1>1, <1>3, <1>5, <1>6 DEF AreasOK, Areas
<1>8. \A b \in free : b \in Areas
  BY DEF Areas
<1>9. \A b : b \in free' <=> (b \in free /\ b # a) \/ (b = r /\ Splits(a, size, ok))
  BY <1>2
<1>10. \A b : b \in busy' <=> b \in busy \/ b = got
  BY <1>2
<1>11. \A b : b \in Areas' <=> \/ b \in Areas /\ b # a
                               \/ b = got
                               \/ b = r /\ Splits(a, size, ok)
  BY <1>7, <1>9, <1>10 DEF Areas
<1>12. free' \subseteq Area /\ busy' \subseteq Area
  BY <1>3, <1>4, <1>9, <1>10 DEF AreasOK
<1>13. IsFiniteSet(free') /\ IsFiniteSet(busy') /\ Cardinality(busy') = Cardinality(busy) + 1
  <2>1. got \notin busy
    BY <1>7
  <2>2. IsFiniteSet(free \ {a})
    BY FS_RemoveElement DEF AreasOK
  <2>3. IsFiniteSet((free \ {a}) \cup {r})
    BY <2>2, FS_AddElement
  <2>4. free' = free \ {a} \/ free' = (free \ {a}) \cup {r}
    BY <1>2
  <2>5. IsFiniteSet(busy \cup {got}) /\ Cardinality(busy \cup {got}) = Cardinality(busy) + 1
    BY <2>1, FS_AddElement DEF AreasOK
  <2> QED
    BY <1>2, <2>2, <2>3, <2>4, <2>5
<1>14. \A b \in Areas' : b.start \in Nat /\ b.end \in Nat /\ b.start < b.end
  BY <1>1, <1>3, <1>4, <1>6, <1>11
<1>15. \A b, c \in Areas' : b # c => b.end <= c.start \/ c.end <= b.start
  <2>1. \A b \in Areas : b # a => /\ b.end <= got.start \/ got.end <= b.start
                                  /\ Splits(a, size, ok) => b.end <= r.start \/ r.end <= b.start
    BY <1>1, <1>3, <1>4, <1>5, <1>6
  <2>2. \A b, c \in Areas : b # c => b.end <= c.start \/ c.end <= b.start
    BY DEF AreasOK
  <2>3. Splits(a, size, ok) => got.end <= r.start
    BY <1>3, <1>4
  <2> QED
    BY <1>11, <2>1, <2>2, <2>3
<1>16. free' \cap busy' = {}
  <2>1. \A b \in free : b # a => b # got
    BY <1>1, <1>3, <1>5, <1>6, <1>8
  <2>2. Splits(a, size, ok) => r # got /\ r \notin busy
    <3> HAVE Splits(a, size, ok)
    <3>1. r # got
      BY <1>1, <1>3, <1>4
    <3>2. \A b \in busy : b.end <= a.start \/ a.end <= b.start
      BY <1>5, <1>7
    <3>3. \A b \in busy : b # r
      BY <1>1, <1>3, <1>4, <1>6, <1>7, <3>2
    <3> QED
      BY <3>1, <3>3
  <2> QED
    BY <1>9, <1>10, <2>1, <2>2 DEF AreasOK
<1>17. \A v \in Space : \E b \in Areas' : b.start <= v /\ v < b.end
  <2> TAKE v \in Space
  <2>1. v \in Nat
    BY SpaceAssumption DEF Space
  <2>2. PICK b \in Areas : b.start <= v /\ v < b.end
    BY DEF AreasOK
  <2>3. CASE b # a
    BY <1>11, <2>2, <2>3
  <2>4. CASE b = a /\ v < got.end
    BY <1>3, <1>11, <2>2, <2>4
  <2>5. CASE b = a /\ ~(v < got.end)
    BY <1>1, <1>3, <1>4, <1>11, <2>1, <2>2, <2>5
  <2> QED
    BY <2>3, <2>4, <2>5
<1>18. total_free' # Garbage => total_free' = Cardinality(Unused')
  <2> HAVE total_free' # Garbage
  <2> DEFINE C == got.start..(got.end - 1)
  <2>1. total_free # Garbage /\ total_free = Cardinality(Unused)
        /\ total_free' = total_free - (got.end - got.start)
    BY <1>2 DEF Less, AreasOK, Size
  <2>2. \A v : v \in Unused' <=> \E b \in free' : v \in b.start..(b.end - 1)
    BY DEF Unused, Covered
  <2>3. \A v : v \in Unused' => v \in Unused /\ v \notin C
    <3> TAKE v
    <3> HAVE v \in Unused'
    <3>1. PICK b \in free' : v \in b.start..(b.end - 1)
      BY <2>2
    <3>2. CASE b \in free /\ b # a
      <4>1. b.end <= a.start \/ a.end <= b.start
        BY <1>5, <1>8, <3>2
      <4>2. v \notin C
        BY <1>1, <1>3, <1>6, <1>8, <3>1, <3>2, <4>1
      <4> QED
        BY UnusedIs, <3>1, <3>2, <4>2
    <3>3. CASE b = r /\ Splits(a, size, ok)
      <4>1. v \in a.start..(a.end - 1) /\ v \notin C
        BY <1>1, <1>3, <1>4, <3>1, <3>3
      <4> QED
        BY UnusedIs, <1>1, <4>1
    <3> QED
      BY <1>9, <3>1, <3>2, <3>3
  <2>4. \A v : v \in Unused /\ v \notin C => v \in Unused'
    <3> TAKE v
    <3> HAVE v \in Unused /\ v \notin C
    <3>1. PICK b \in free : v \in b.start..(b.end - 1)
      BY UnusedIs
    <3>2. CASE b # a
      BY <1>9, <2>2, <3>1, <3>2
    <3>3. CASE b = a
      <4>1. v \in Nat /\ a.start <= v /\ v < a.end /\ ~(v < got.end)
        BY <1>1, <1>3, <3>1, <3>3
      <4>2. Splits(a, size, ok)
        BY <1>3, <4>1
      <4>3. v \in r.start..(r.end - 1)
        BY <1>1, <1>3, <1>4, <4>1, <4>2
      <4> QED
        BY <1>9, <2>2, <4>2, <4>3
    <3> QED
      BY <3>2, <3>3
  <2>5. \A v \in C : v \in Unused
    <3> TAKE v \in C
    <3>1. v \in a.start..(a.end - 1)
      BY <1>1, <1>3
    <3> QED
      BY <1>1, <3>1, UnusedIs
  <2> HIDE DEF C
  <2>6. Unused' = Unused \ C /\ Unused \cap C = C
    BY <2>3, <2>4, <2>5
  <2>7. Cardinality(C) = got.end - got.start
    <3>1. got.start \in Nat /\ got.end \in Nat /\ got.start <= got.end
      BY <1>1, <1>3
    <3> QED
      BY <3>1, CoveredCount DEF C
  <2>8. Cardinality(Unused \ C) = Cardinality(Unused) - Cardinality(Unused \cap C)
    BY UnusedIs, FS_Difference
  <2> QED
    BY <2>1, <2>6, <2>7, <2>8
<1>19. AreasOK'
  BY <1>2, <1>12, <1>13, <1>14, <1>15, <1>16, <1>17, <1>18 DEF AreasOK
<1>20. got \in busy' /\ got \notin busy /\ size <= Size(got) /\ \A b \in busy : b.start # got.start
  BY <1>1, <1>3, <1>7, <1>10 DEF Size
<1> QED
  BY <1>2, <1>3, <1>19, <1>20 DEF a

\* va_free finds no right neighbour to merge with, and at most one on the left.
LEMMA Neighbours ==
  ASSUME AreasOK, NEW a \in busy
  PROVE  /\ Right(a.end) = {}
         /\ Left(a) = {} \/ \E p \in free : Left(a) = {p} /\ p.end = a.start
<1>1. \A b \in free : b \in Areas /\ b.start \in Nat /\ b.end \in Nat
  BY SizesOf DEF Areas
<1>2. a.start \in Nat /\ a.end \in Nat
  BY SizesOf DEF Areas
<1>3. Right(a.end) = {}
  BY <1>1, <1>2 DEF Right, NextFree
<1>4. \A p, q \in Left(a) : p = q
  <2> TAKE p, q \in Left(a)
  <2>1. p \in free /\ q \in free /\ p.end = q.end
    BY DEF Left, PrevFree
  <2>2. p.start < p.end /\ q.start < q.end
    BY <1>1, <2>1, SizesOf
  <2> QED
    BY <1>1, <2>1, <2>2 DEF AreasOK
<1>5. ASSUME Left(a) # {} PROVE \E p \in free : Left(a) = {p} /\ p.end = a.start
  <2>1. PICK p \in Left(a) : TRUE
    BY <1>5
  <2>2. p \in free /\ p.end = a.start
    BY <2>1 DEF Left, PrevFree
  <2>3. Left(a) = {p}
    BY <1>4, <2>1
  <2> QED
    BY <2>2, <2>3
<1> QED
  BY <1>3, <1>5

\* va_free turns a busy area into a free one, merged with its left neighbour if there is one.
LEMMA VaFreeKeeps ==
  ASSUME AreasOK, NEW x \in busy, VaFree(x.start)
  PROVE  AreasOK' /\ busy' = busy \ {x}
<1>1. \A b \in Areas : /\ b \in Area /\ b.start \in Nat /\ b.end \in Nat /\ b.start < b.end
                       /\ b.end <= SpacePages
  BY SizesOf
<1>2. x \in Areas /\ \A b \in free : b \in Areas /\ b # x
  BY DEF Areas, AreasOK
<1>3. \A b \in busy : b \in Areas
  BY DEF Areas
<1>4. \A b \in Areas : b # x => b.end <= x.start \/ x.end <= b.start
  BY <1>2 DEF AreasOK
<1>5. (CHOOSE y \in busy : y.start = x.start) = x
  <2>1. \A y \in busy : y.start = x.start => y = x
    BY <1>1, <1>2, <1>3, <1>4
  <2> QED
    BY <2>1
<1> DEFINE left == Left(x)
           start == IF left = {} THEN x.start ELSE (CHOOSE p \in left : TRUE).start
           merged == [start |-> start, end |-> x.end]
<1>6. /\ busy' = busy \ {x} /\ nr_busy' = nr_busy - 1
      /\ total_free' = IF left = {} THEN Less(total_free, start - x.end) ELSE Garbage
      /\ free' = (free \ left) \cup {merged}
  <2>1. Right(x.end) = {}
    BY Neighbours
  <2>2. ~(\A y \in busy : y.start # x.start)
    OBVIOUS
  <2> QED
    BY <1>5, <2>1, <2>2 DEF VaFree
<1>7. \/ left = {} /\ start = x.start
      \/ \E p \in free : left = {p} /\ p.end = x.start /\ start = p.start
  BY Neighbours
<1> HIDE DEF left, start
<1>8. /\ start \in Nat /\ start <= x.start /\ start \in Space
      /\ \A b \in Areas : b # x /\ b \notin left => b.end <= start \/ x.end <= b.start
  <2>1. CASE left = {} /\ start = x.start
    BY <1>1, <1>2, <1>4, <2>1 DEF Area
  <2>2. ASSUME NEW p \in free, left = {p}, p.end = x.start, start = p.start
        PROVE  /\ start \in Nat /\ start <= x.start /\ start \in Space
               /\ \A b \in Areas : b # x /\ b \notin left => b.end <= start \/ x.end <= b.start
    <3>1. \A b \in Areas : b # p => b.end <= p.start \/ p.end <= b.start
      BY <1>2 DEF AreasOK
    <3> QED
      BY <1>1, <1>2, <1>4, <2>2, <3>1 DEF Area
  <2> QED
    BY <1>7, <2>1, <2>2
<1>9. merged \in Area /\ merged.start = start /\ merged.end = x.end
  BY <1>1, <1>2, <1>8 DEF Area
<1> HIDE DEF merged
<1>10. \A b : b \in free' <=> (b \in free /\ b \notin left) \/ b = merged
  BY <1>6
<1>11. left \subseteq free
  BY <1>7
<1>12. \A b : b \in Areas' <=> (b \in Areas /\ b # x /\ b \notin left) \/ b = merged
  BY <1>2, <1>6, <1>10, <1>11 DEF Areas, AreasOK
<1>13. free' \subseteq Area /\ busy' \subseteq Area
  BY <1>6, <1>9, <1>10 DEF AreasOK
<1>14. /\ IsFiniteSet(free') /\ IsFiniteSet(busy') /\ nr_busy' = Cardinality(busy')
  <2>1. IsFiniteSet(free \ left)
    BY FS_Difference DEF AreasOK
  <2>2. IsFiniteSet((free \ left) \cup {merged})
    BY <2>1, FS_AddElement
  <2>3. IsFiniteSet(busy \ {x}) /\ Cardinality(busy \ {x}) = Cardinality(busy) - 1
    BY FS_RemoveElement DEF AreasOK
  <2> QED
    BY <1>6, <2>2, <2>3 DEF AreasOK
<1>15. \A b \in Areas' : b.start < b.end
  BY <1>1, <1>2, <1>8, <1>9, <1>12
<1>16. \A b, c \in Areas' : b # c => b.end <= c.start \/ c.end <= b.start
  <2>1. \A b, c \in Areas : b # c => b.end <= c.start \/ c.end <= b.start
    BY DEF AreasOK
  <2> QED
    BY <1>8, <1>9, <1>12, <2>1
<1>17. free' \cap busy' = {}
  <2>1. \A b \in busy : b # x => b # merged
    BY <1>1, <1>2, <1>3, <1>8, <1>9, <1>11 DEF AreasOK
  <2> QED
    BY <1>6, <1>10, <2>1 DEF AreasOK
<1>18. \A v \in Space : \E b \in Areas' : b.start <= v /\ v < b.end
  <2> TAKE v \in Space
  <2>1. v \in Nat
    BY SpaceAssumption DEF Space
  <2>2. PICK b \in Areas : b.start <= v /\ v < b.end
    BY DEF AreasOK
  <2>3. CASE b # x /\ b \notin left
    BY <1>12, <2>2, <2>3
  <2>4. CASE b = x
    BY <1>1, <1>2, <1>8, <1>9, <1>12, <2>1, <2>2, <2>4
  <2>5. CASE b \in left
    <3>1. b.end = x.start /\ start = b.start
      BY <1>7, <2>5
    <3>2. start <= v /\ v < x.end
      BY <1>1, <1>2, <2>1, <2>2, <3>1
    <3> QED
      BY <1>9, <1>12, <3>2
  <2> QED
    BY <2>3, <2>4, <2>5
<1>19. total_free' # Garbage => total_free' = Cardinality(Unused')
  <2> HAVE total_free' # Garbage
  <2> DEFINE C == x.start..(x.end - 1)
  <2>1. left = {} /\ total_free # Garbage
    BY <1>6 DEF Less
  <2>2. /\ total_free = Cardinality(Unused) /\ total_free \in Nat
        /\ total_free' = total_free + (x.end - x.start)
    <3>1. total_free = Cardinality(Unused) /\ total_free \in Nat
      BY <2>1, UnusedIs DEF AreasOK
    <3>2. start = x.start
      BY <1>7, <2>1
    <3>3. total_free' = total_free - (x.start - x.end)
      BY <1>6, <2>1, <3>2 DEF Less
    <3> QED
      BY <1>1, <1>2, <3>1, <3>3
  <2>3. merged.start = x.start /\ merged.end = x.end
    BY <1>7, <1>9, <2>1
  <2>4. \A b : b \in free' <=> b \in free \/ b = merged
    BY <1>10, <2>1
  <2>5. \A v : v \in Unused' <=> \E b \in free' : v \in b.start..(b.end - 1)
    BY DEF Unused, Covered
  <2>6. \A v : v \in Unused' <=> v \in Unused \/ v \in C
    BY <2>3, <2>4, <2>5, UnusedIs
  <2>7. \A v \in C : v \notin Unused
    <3> TAKE v \in C
    <3> SUFFICES ASSUME NEW b \in free, v \in b.start..(b.end - 1) PROVE FALSE
      BY UnusedIs
    <3> QED
      BY <1>1, <1>2, <1>4
  <2> HIDE DEF C
  <2>8. Unused' = Unused \cup C /\ Unused \cap C = {}
    BY <2>6, <2>7
  <2>9. IsFiniteSet(C) /\ Cardinality(C) = x.end - x.start
    <3>1. x.start \in Nat /\ x.end \in Nat /\ x.start <= x.end
      BY <1>1, <1>2
    <3> QED
      BY <3>1, CoveredCount DEF C
  <2>10. Cardinality(Unused \cup C) = Cardinality(Unused) + Cardinality(C) - Cardinality(Unused \cap C)
    BY <2>9, UnusedIs, FS_Union
  <2>11. Cardinality(Unused \cap C) = 0
    BY <2>8, FS_EmptySet
  <2> QED
    BY <1>1, <1>2, <2>2, <2>8, <2>9, <2>10, <2>11
<1> QED
  BY <1>6, <1>13, <1>14, <1>15, <1>16, <1>17, <1>18, <1>19 DEF AreasOK

LEMMA AreasStay == AreasOK /\ UNCHANGED areas => AreasOK'
BY DEF AreasOK, areas, Areas, Unused, Covered

------------------------------------------------------------------------------------
(* Holdings, by where they are recorded *)

Vms == {Held("vm_list", vm.addr, vm.nr, vm.nr) : vm \in vm_list}
Dmas == {Held("dma_map_list", d.addr, d.nr, DmaFrames(d.nr)) : d \in dma_map_list}
Drivers == {Held("driver", addr, 1, 0) : addr \in io_live}
Calls == {Holding(t) : t \in WithArea}
Waits == {[by |-> "dma_area", task |-> t, frames |-> op[t].got] : t \in WithFrames}

LEMMA Parts ==
  /\ Holdings = Vms \cup Dmas \cup Drivers \cup lost \cup Calls
  /\ Owners = Holdings \cup Waits
BY DEF Holdings, Vms, Dmas, Drivers, Calls, Owners, Waits

LEMMA Tags ==
  ASSUME ListsOK
  PROVE  /\ \A h \in Vms : h.by = "vm_list"
         /\ \A h \in Dmas : h.by = "dma_map_list"
         /\ \A h \in Drivers : h.by = "driver"
         /\ \A h \in lost : h.by = "lost"
         /\ \A h \in Calls : h.by = "call"
         /\ \A h \in Waits : h.by = "dma_area"
BY DEF ListsOK, LostRecords, Vms, Dmas, Drivers, Calls, Waits, Held, Holding

\* A call that holds an area has the fields of its kind.
LEMMA CallTypes ==
  ASSUME OpsOK, NEW t \in Tasks
  PROVE  /\ t \in WithArea => op[t] \in AreaCalls /\ GotOK(op[t])
         /\ t \in WithFrames => /\ op[t] \in FrameCalls /\ op[t].got = DmaFrames(op[t].nr)
                                /\ op[t].got <= Frames
         /\ t \in WithArea => t \notin WithFrames
         /\ t \in WithArea <=> op[t].kind \in AreaKinds
         /\ t \in WithFrames <=> op[t].kind = "dma_area"
         /\ Doing(t, "idle") <=> t \notin WithArea /\ t \notin WithFrames
BY DEF OpsOK, OpOK, WithArea, WithFrames, Doing, Idle, FrameCalls, AreaCalls, AreaKinds, FrameKinds

LEMMA HoldingTypes ==
  ASSUME ListsOK, OpsOK, NEW h \in Holdings
  PROVE  h.addr \in Space /\ h.nr \in 1..MaxPages /\ h.frames \in Nat
<1>1. CASE h \in Vms
  BY <1>1 DEF Vms, Held, ListsOK, Extents
<1>2. CASE h \in Dmas
  BY <1>2, DmaFramesType DEF Dmas, Held, ListsOK, Extents
<1>3. CASE h \in Drivers
  BY <1>3, MaxAssumption DEF Drivers, Held, ListsOK
<1>4. CASE h \in lost
  BY <1>4, FramesAssumption DEF ListsOK, LostRecords
<1>5. CASE h \in Calls
  <2>1. PICK t \in WithArea : h = Holding(t)
    BY <1>5 DEF Calls
  <2>2. op[t] \in AreaCalls
    BY <2>1, CallTypes DEF WithArea
  <2> QED
    BY <2>1, <2>2 DEF Holding, Held, AreaCalls
<1> QED
  BY <1>1, <1>2, <1>3, <1>4, <1>5, Parts

\* Records of the lists are told apart by what they say.
LEMMA HeldIs ==
  ASSUME NEW by, NEW addr, NEW nr, NEW frames
  PROVE  /\ Held(by, addr, nr, frames).by = by /\ Held(by, addr, nr, frames).addr = addr
         /\ Held(by, addr, nr, frames).nr = nr /\ Held(by, addr, nr, frames).frames = frames
BY DEF Held

LEMMA ListHoldings ==
  ASSUME ListsOK
  PROVE  /\ \A vm \in vm_list : Held("vm_list", vm.addr, vm.nr, vm.nr) \in Vms
         /\ \A d \in dma_map_list : Held("dma_map_list", d.addr, d.nr, DmaFrames(d.nr)) \in Dmas
         /\ \A addr \in io_live : Held("driver", addr, 1, 0) \in Drivers
         /\ \A vm \in Extents :
               vm_list' = vm_list \ {vm} =>
                  Vms' = Vms \ {Held("vm_list", vm.addr, vm.nr, vm.nr)}
         /\ \A d \in Extents :
               dma_map_list' = dma_map_list \ {d} =>
                  Dmas' = Dmas \ {Held("dma_map_list", d.addr, d.nr, DmaFrames(d.nr))}
         /\ \A addr \in Space :
               io_live' = io_live \ {addr} => Drivers' = Drivers \ {Held("driver", addr, 1, 0)}
<1>1. \A u, v \in Extents : u.addr = v.addr /\ u.nr = v.nr => u = v
  BY DEF Extents
<1>2. \A vm \in vm_list : Held("vm_list", vm.addr, vm.nr, vm.nr) \in Vms
  BY DEF Vms
<1>3. \A d \in dma_map_list : Held("dma_map_list", d.addr, d.nr, DmaFrames(d.nr)) \in Dmas
  BY DEF Dmas
<1>4. \A addr \in io_live : Held("driver", addr, 1, 0) \in Drivers
  BY DEF Drivers
<1>5. ASSUME NEW vm \in Extents, vm_list' = vm_list \ {vm}
      PROVE  Vms' = Vms \ {Held("vm_list", vm.addr, vm.nr, vm.nr)}
  <2>1. \A u \in vm_list :
           Held("vm_list", u.addr, u.nr, u.nr) = Held("vm_list", vm.addr, vm.nr, vm.nr) => u = vm
    BY <1>1, HeldIs DEF ListsOK
  <2> QED
    BY <1>5, <2>1, Zenon DEF Vms
<1>6. ASSUME NEW d \in Extents, dma_map_list' = dma_map_list \ {d}
      PROVE  Dmas' = Dmas \ {Held("dma_map_list", d.addr, d.nr, DmaFrames(d.nr))}
  <2>1. \A u \in dma_map_list :
           Held("dma_map_list", u.addr, u.nr, DmaFrames(u.nr))
             = Held("dma_map_list", d.addr, d.nr, DmaFrames(d.nr)) => u = d
    BY <1>1, HeldIs DEF ListsOK
  <2> QED
    BY <1>6, <2>1, Zenon DEF Dmas
<1>7. ASSUME NEW addr \in Space, io_live' = io_live \ {addr}
      PROVE  Drivers' = Drivers \ {Held("driver", addr, 1, 0)}
  <2>1. \A u \in io_live : Held("driver", u, 1, 0) = Held("driver", addr, 1, 0) => u = addr
    BY HeldIs
  <2> QED
    BY <1>7, <2>1, Zenon DEF Drivers
<1> QED
  BY <1>2, <1>3, <1>4, <1>5, <1>6, <1>7

------------------------------------------------------------------------------------
(* What a step of one call does to the calls *)

LEMMA OpBecomes ==
  ASSUME OpsOK, NEW t \in Tasks, NEW w, OpOK(w), Become(t, w)
  PROVE  /\ OpsOK'
         /\ op'[t] = w /\ \A u \in Tasks : u # t => op'[u] = op[u]
         /\ t \in WithArea' <=> w.kind \in AreaKinds
         /\ t \in WithFrames' <=> w.kind = "dma_area"
         /\ \A u \in Tasks : u # t => /\ u \in WithArea' <=> u \in WithArea
                                      /\ u \in WithFrames' <=> u \in WithFrames
                                      /\ Holding(u)' = Holding(u)
<1>1. op'[t] = w /\ \A u \in Tasks : u # t => op'[u] = op[u]
  BY DEF OpsOK, Become
<1>2. OpsOK'
  BY <1>1 DEF OpsOK, Become
<1>3. \A u \in Tasks : /\ u \in WithArea' <=> op'[u].kind \in AreaKinds
                       /\ u \in WithFrames' <=> op'[u].kind = "dma_area"
  BY <1>2 DEF OpsOK, OpOK, WithArea, WithFrames, Doing, Idle, FrameCalls, AreaCalls, AreaKinds, FrameKinds
<1>4. \A u \in Tasks : u # t => Holding(u)' = Holding(u)
  BY <1>1 DEF Holding, Held
<1> QED
  BY <1>1, <1>2, <1>3, <1>4, CallTypes

\* The holding of a call in state w.
AsCall(w) == Held("call", w.addr, w.nr, w.got)
AsWait(t, w) == [by |-> "dma_area", task |-> t, frames |-> w.got]

\* A call that goes on with its area, one that ends or leaves it to a list, one that gets
\* an area.
LEMMA CallsMove ==
  ASSUME OpsOK, HoldersOK, NEW t \in Tasks, NEW w, OpOK(w), Become(t, w)
  PROVE  /\ t \in WithArea /\ w.kind \in AreaKinds =>
               Calls' = (Calls \ {Holding(t)}) \cup {AsCall(w)} /\ Waits' = Waits
         /\ t \in WithArea /\ w = Idle => Calls' = Calls \ {Holding(t)} /\ Waits' = Waits
         /\ Doing(t, "idle") /\ w.kind \in AreaKinds => Calls' = Calls \cup {AsCall(w)} /\ Waits' = Waits
         /\ t \in WithFrames /\ w.kind \in AreaKinds =>
               Calls' = Calls \cup {AsCall(w)} /\ Waits' = Waits \ {AsWait(t, op[t])}
         /\ t \in WithFrames /\ w = Idle => Calls' = Calls /\ Waits' = Waits \ {AsWait(t, op[t])}
         /\ Doing(t, "idle") /\ w.kind = "dma_area" =>
               Calls' = Calls /\ Waits' = Waits \cup {AsWait(t, w)}
<1>1. OpsOK' /\ op'[t] = w /\ \A u \in Tasks : u # t => op'[u] = op[u]
  BY OpBecomes
<1>2. \A u \in Tasks : u # t => /\ u \in WithArea' <=> u \in WithArea
                                /\ u \in WithFrames' <=> u \in WithFrames
                                /\ Holding(u)' = Holding(u)
  BY OpBecomes
<1>3. t \in WithArea' <=> w.kind \in AreaKinds
  BY OpBecomes
<1>4. t \in WithFrames' <=> w.kind = "dma_area"
  BY OpBecomes
<1>5. t \in WithArea' => Holding(t)' = AsCall(w)
  BY <1>1 DEF Holding, AsCall
<1>6. \A u \in WithArea : u # t /\ t \in WithArea => Holding(u) # Holding(t)
  <2>1. \A u, v \in WithArea : op[u].addr = op[v].addr => u = v
    BY DEF HoldersOK, OneHolder
  <2> QED
    BY <2>1, HeldIs DEF Holding
<1>7. \A h : h \in Calls <=> \E u \in WithArea : h = Holding(u)
  BY DEF Calls
<1>8. \A h : h \in Calls' <=> \E u \in WithArea' : h = Holding(u)'
  BY DEF Calls
<1>9. WithArea \subseteq Tasks /\ WithArea' \subseteq Tasks /\ WithFrames \subseteq Tasks /\ WithFrames' \subseteq Tasks
  BY DEF WithArea, WithFrames
<1>10. \A h : h \in Calls' <=> \/ \E u \in WithArea : u # t /\ h = Holding(u)
                               \/ w.kind \in AreaKinds /\ h = AsCall(w)
  BY <1>2, <1>3, <1>5, <1>8, <1>9
<1>11. t \in WithArea => \A h : (\E u \in WithArea : u # t /\ h = Holding(u)) <=> h \in Calls /\ h # Holding(t)
  BY <1>6, <1>7
<1>12. t \notin WithArea => \A h : (\E u \in WithArea : u # t /\ h = Holding(u)) <=> h \in Calls
  BY <1>7
<1>13. \A u, v \in Tasks : \A m, n : [by |-> "dma_area", task |-> u, frames |-> m]
                                   = [by |-> "dma_area", task |-> v, frames |-> n] => u = v
  OBVIOUS
<1>14. \A h : h \in Waits <=> \E u \in WithFrames : h = AsWait(u, op[u])
  BY DEF Waits, AsWait
<1>15. \A h : h \in Waits' <=> \E u \in WithFrames' : h = AsWait(u, op'[u])
  BY DEF Waits, AsWait
<1>16. \A u \in Tasks : u # t => AsWait(u, op'[u]) = AsWait(u, op[u]) /\ AsWait(u, op[u]) # AsWait(t, op[t])
  BY <1>1, <1>13 DEF AsWait
<1>17. \A h : h \in Waits' <=> \/ \E u \in WithFrames : u # t /\ h = AsWait(u, op[u])
                               \/ w.kind = "dma_area" /\ h = AsWait(t, w)
  BY <1>1, <1>2, <1>4, <1>9, <1>15, <1>16
<1>18. /\ t \in WithArea => t \notin WithFrames
       /\ Doing(t, "idle") => t \notin WithArea /\ t \notin WithFrames
       /\ Idle.kind = "idle" /\ "idle" \notin AreaKinds /\ "dma_area" \notin AreaKinds
  BY CallTypes DEF Idle, AreaKinds, FrameKinds
<1>19. t \in WithFrames => \A h : (\E u \in WithFrames : u # t /\ h = AsWait(u, op[u])) <=> h \in Waits /\ h # AsWait(t, op[t])
  BY <1>9, <1>14, <1>16
<1>20. t \notin WithFrames => \A h : (\E u \in WithFrames : u # t /\ h = AsWait(u, op[u])) <=> h \in Waits
  BY <1>14
<1> HIDE DEF Calls, Waits
<1>21. w.kind # "dma_area" /\ t \notin WithFrames => Waits' = Waits
  BY <1>17, <1>20
<1>22. w.kind # "dma_area" /\ t \in WithFrames => Waits' = Waits \ {AsWait(t, op[t])}
  BY <1>17, <1>19
<1>23. w.kind = "dma_area" /\ t \notin WithFrames => Waits' = Waits \cup {AsWait(t, w)}
  BY <1>17, <1>20
<1>24. w.kind \notin AreaKinds /\ t \notin WithArea => Calls' = Calls
  BY <1>10, <1>12
<1>25. w.kind \in AreaKinds /\ t \notin WithArea => Calls' = Calls \cup {AsCall(w)}
  BY <1>10, <1>12
<1>26. w.kind \notin AreaKinds /\ t \in WithArea => Calls' = Calls \ {Holding(t)}
  BY <1>10, <1>11
<1>27. w.kind \in AreaKinds /\ t \in WithArea => Calls' = (Calls \ {Holding(t)}) \cup {AsCall(w)}
  BY <1>10, <1>11
<1>28. t \in WithFrames => t \notin WithArea
  BY <1>18
<1> QED
  BY <1>18, <1>21, <1>22, <1>23, <1>24, <1>25, <1>26, <1>27, <1>28

------------------------------------------------------------------------------------
(* Counting frames *)

\* Another owner brings his frames, and a former one takes his with him.
LEMMA OwnerJoins ==
  ASSUME NEW S, IsFiniteSet(FramesOf(S)), NEW k, k \notin S, k.frames \in Nat
  PROVE  /\ IsFiniteSet(FramesOf(S \cup {k}))
         /\ Cardinality(FramesOf(S \cup {k})) = Cardinality(FramesOf(S)) + k.frames
<1> DEFINE P == {k} \X (1..k.frames)
<1>1. FramesOf(S \cup {k}) = FramesOf(S) \cup P
  BY DEF FramesOf
<1>2. FramesOf(S) \cap P = {}
  BY DEF FramesOf
<1>3. IsFiniteSet(1..k.frames) /\ Cardinality(1..k.frames) = k.frames
  <2>1. 1 \in Int /\ k.frames \in Int
    OBVIOUS
  <2>2. /\ IsFiniteSet(1..k.frames)
        /\ Cardinality(1..k.frames) = IF 1 > k.frames THEN 0 ELSE k.frames - 1 + 1
    BY <2>1, FS_Interval
  <2> QED
    BY <2>2
<1>4. IsFiniteSet(P) /\ Cardinality(P) = k.frames
  <2>1. IsFiniteSet({k}) /\ Cardinality({k}) = 1
    BY FS_Singleton
  <2>2. IsFiniteSet(P) /\ Cardinality(P) = Cardinality({k}) * Cardinality(1..k.frames)
    BY <1>3, <2>1, FS_Product
  <2> QED
    BY <1>3, <2>1, <2>2
<1> HIDE DEF P
<1>5. /\ IsFiniteSet(FramesOf(S) \cup P)
      /\ Cardinality(FramesOf(S) \cup P)
           = Cardinality(FramesOf(S)) + Cardinality(P) - Cardinality(FramesOf(S) \cap P)
  BY <1>4, FS_Union
<1>6. Cardinality(FramesOf(S) \cap P) = 0
  BY <1>2, FS_EmptySet
<1>7. Cardinality(FramesOf(S)) \in Nat
  BY FS_CardinalityType
<1> DEFINE F == FramesOf(S)
           G == FramesOf(S \cup {k})
<1>8. G = F \cup P /\ Cardinality(F) \in Nat /\ IsFiniteSet(F \cup P)
      /\ Cardinality(F \cup P) = Cardinality(F) + Cardinality(P) - Cardinality(F \cap P)
      /\ Cardinality(F \cap P) = 0
  BY <1>1, <1>5, <1>6, <1>7
<1> HIDE DEF F, G
<1>9. IsFiniteSet(G) /\ Cardinality(G) = Cardinality(F) + k.frames
  BY <1>4, <1>8
<1> QED
  BY <1>9 DEF F, G

LEMMA OwnerLeaves ==
  ASSUME NEW S, IsFiniteSet(FramesOf(S)), NEW h \in S, h.frames \in Nat
  PROVE  /\ IsFiniteSet(FramesOf(S \ {h}))
         /\ Cardinality(FramesOf(S \ {h})) = Cardinality(FramesOf(S)) - h.frames
         /\ h.frames <= Cardinality(FramesOf(S))
<1>1. FramesOf(S \ {h}) \in SUBSET FramesOf(S)
  BY DEF FramesOf
<1>2. IsFiniteSet(FramesOf(S \ {h})) /\ Cardinality(FramesOf(S \ {h})) \in Nat
  BY <1>1, FS_Subset, FS_CardinalityType
<1> DEFINE R == S \ {h}
<1>3. h \notin R /\ R \cup {h} = S /\ IsFiniteSet(FramesOf(R)) /\ Cardinality(FramesOf(R)) \in Nat
  BY <1>2
<1> HIDE DEF R
<1>4. Cardinality(FramesOf(R \cup {h})) = Cardinality(FramesOf(R)) + h.frames
  BY <1>3, OwnerJoins
<1>5. Cardinality(FramesOf(S)) = Cardinality(FramesOf(R)) + h.frames
  BY <1>3, <1>4
<1>6. /\ IsFiniteSet(FramesOf(R)) /\ Cardinality(FramesOf(R)) = Cardinality(FramesOf(S)) - h.frames
      /\ h.frames <= Cardinality(FramesOf(S))
  BY <1>3, <1>5
<1> QED
  BY <1>6 DEF R

\* Frames change hands.
LEMMA OwnerReplaced ==
  ASSUME NEW S, IsFiniteSet(FramesOf(S)), NEW h \in S, h.frames \in Nat,
         NEW k, k \notin S \ {h}, k.frames \in Nat
  PROVE  /\ IsFiniteSet(FramesOf((S \ {h}) \cup {k}))
         /\ Cardinality(FramesOf((S \ {h}) \cup {k})) = Cardinality(FramesOf(S)) - h.frames + k.frames
<1>1. /\ IsFiniteSet(FramesOf(S \ {h}))
      /\ Cardinality(FramesOf(S \ {h})) = Cardinality(FramesOf(S)) - h.frames
  BY OwnerLeaves
<1>2. Cardinality(FramesOf(S)) \in Nat
  BY FS_CardinalityType
<1> DEFINE R == S \ {h}
<1>3. k \notin R /\ IsFiniteSet(FramesOf(R)) /\ Cardinality(FramesOf(R)) = Cardinality(FramesOf(S)) - h.frames
  BY <1>1
<1> HIDE DEF R
<1>4. /\ IsFiniteSet(FramesOf(R \cup {k}))
      /\ Cardinality(FramesOf(R \cup {k})) = Cardinality(FramesOf(S)) - h.frames + k.frames
  BY <1>3, OwnerJoins
<1> QED
  BY <1>4 DEF R

------------------------------------------------------------------------------------
(* How holdings change *)

\* An area changes hands: from a call to a list, from a list to a call, or from one state
\* of a call to the next.
LEMMA Handover ==
  ASSUME IInv, UNCHANGED areas, UNCHANGED Waits,
         NEW h \in Holdings, NEW k, Holdings' = (Holdings \ {h}) \cup {k},
         k.addr = h.addr, k.by # "dma_area", k.frames \in Nat,
         \E a \in busy : a.start = h.addr /\ k.nr <= Size(a),
         nfree' = nfree + h.frames - k.frames, nfree' \in Nat
  PROVE  /\ AreasOK' /\ FramesCounted'
         /\ \A a \in busy' : \E g \in Holdings' : g.addr = a.start
         /\ \A g, l \in Holdings' : g.addr = l.addr => g = l
         /\ \A g \in Holdings' : \E a \in busy' : a.start = g.addr /\ g.nr <= Size(a)
<1>1. AreasOK' /\ busy' = busy
  BY AreasStay DEF IInv, areas
<1>2. /\ \A a \in busy : \E g \in Holdings : g.addr = a.start
      /\ \A g, l \in Holdings : g.addr = l.addr => g = l
      /\ \A g \in Holdings : \E a \in busy : a.start = g.addr /\ g.nr <= Size(a)
  BY DEF IInv, HoldersOK, OneHolder
<1>3. k \notin Holdings \ {h}
  BY <1>2
<1>4. \A a \in busy' : \E g \in Holdings' : g.addr = a.start
  <2> TAKE a \in busy'
  <2>1. PICK g \in Holdings : g.addr = a.start
    BY <1>1, <1>2
  <2>2. CASE g = h
    BY <2>1, <2>2
  <2>3. CASE g # h
    BY <2>1, <2>3
  <2> QED
    BY <2>2, <2>3
<1>5. \A g, l \in Holdings' : g.addr = l.addr => g = l
  BY <1>2
<1>6. \A g \in Holdings' : \E a \in busy' : a.start = g.addr /\ g.nr <= Size(a)
  BY <1>1, <1>2
<1>7. h.frames \in Nat /\ k.frames \in Nat
  BY HoldingTypes DEF IInv
<1>8. /\ Owners = Holdings \cup Waits /\ Owners' = (Owners \ {h}) \cup {k}
      /\ h \in Owners /\ k \notin Owners \ {h}
  <2>1. Owners = Holdings \cup Waits /\ Owners' = Holdings' \cup Waits'
    BY DEF Owners, Waits
  <2>2. \A g \in Waits : g.by = "dma_area"
    BY Tags DEF IInv
  <2>3. h.by # "dma_area"
    <3>1. h \in Vms \cup Dmas \cup Drivers \cup lost \cup Calls
      BY Parts
    <3> QED
      BY <3>1, Tags DEF IInv
  <2>4. h \notin Waits /\ k \notin Waits
    BY <2>2, <2>3
  <2> QED
    BY <1>3, <2>1, <2>4
<1>9. /\ IsFiniteSet(FramesOf(Owners'))
      /\ Cardinality(FramesOf(Owners')) = Cardinality(FramesOf(Owners)) - h.frames + k.frames
  BY <1>7, <1>8, OwnerReplaced DEF IInv, FramesCounted
<1>10. FramesOf(Owners)' = FramesOf(Owners')
  BY DEF FramesOf
<1>11. Cardinality(FramesOf(Owners)) \in Nat
  BY FS_CardinalityType DEF IInv, FramesCounted
<1>12. FramesCounted'
  BY <1>7, <1>9, <1>10, <1>11, FramesAssumption DEF IInv, FramesCounted
<1> QED
  BY <1>1, <1>4, <1>5, <1>6, <1>12

\* Two calls never come to hold the same address.
CallsApart == \A u, v \in WithArea : op[u].addr = op[v].addr => u = v

LEMMA ApartStays ==
  ASSUME OpsOK, HoldersOK, NEW t \in Tasks, NEW w, OpOK(w), Become(t, w),
         w.kind \in AreaKinds => \/ t \in WithArea /\ w.addr = op[t].addr
                                 \/ \A u \in WithArea : op[u].addr # w.addr
  PROVE  CallsApart'
<1>1. \A u, v \in WithArea : op[u].addr = op[v].addr => u = v
  BY DEF HoldersOK, OneHolder
<1>2. op'[t] = w /\ \A u \in Tasks : u # t => op'[u] = op[u]
  BY OpBecomes
<1>3. \A u \in Tasks : u # t => (u \in WithArea' <=> u \in WithArea)
  BY OpBecomes
<1>4. t \in WithArea' <=> w.kind \in AreaKinds
  BY OpBecomes
<1>5. WithArea \subseteq Tasks /\ WithArea' \subseteq Tasks
  BY DEF WithArea
<1>6. \A u \in WithArea' : u # t => u \in WithArea /\ op'[u] = op[u]
  BY <1>2, <1>3, <1>5
<1> QED
  BY <1>1, <1>2, <1>4, <1>6 DEF CallsApart

\* Which calls back their pages.
LEMMA CallBacks ==
  ASSUME ListsOK, OpsOK, HoldersOK, NEW t \in WithArea
  PROVE  Backs(Holding(t)) <=> op[t].kind \in {"vfree", "dma_free"}
<1>1. Holding(t).by = "call" /\ Holding(t).addr = op[t].addr
  BY HeldIs DEF Holding
<1>2. \A u \in WithArea : Holding(u) = Holding(t) => u = t
  BY HeldIs DEF Holding, HoldersOK, OneHolder
<1> QED
  BY <1>1, <1>2 DEF Backs

\* What other holders back stays backed.
LEMMA BacksStays ==
  ASSUME OpsOK, NEW t \in Tasks, NEW w, OpOK(w), Become(t, w),
         NEW g, Backs(g), t \in WithArea => g # Holding(t)
  PROVE  Backs(g)'
<1>1. \A u \in Tasks : u # t => /\ u \in WithArea' <=> u \in WithArea
                                /\ Holding(u)' = Holding(u) /\ op'[u] = op[u]
  BY OpBecomes
<1>2. CASE g.by = "call" /\ \E u \in WithArea : g = Holding(u) /\ op[u].kind \in {"vfree", "dma_free"}
  <2>1. PICK u \in WithArea : g = Holding(u) /\ op[u].kind \in {"vfree", "dma_free"}
    BY <1>2
  <2>2. u \in Tasks /\ u # t
    BY <2>1 DEF WithArea
  <2>3. u \in WithArea' /\ g = Holding(u)' /\ op'[u].kind \in {"vfree", "dma_free"}
    BY <1>1, <2>1, <2>2
  <2> QED
    BY <1>2, <2>3 DEF Backs
<1> QED
  BY <1>2 DEF Backs

LEMMA RamStays ==
  ASSUME IInv, NEW t \in Tasks, NEW w, OpOK(w), Become(t, w), NEW h,
         \A g \in Holdings : g # h => g \in Holdings',
         t \in WithArea => h = Holding(t),
         \A v \in Space : mapped'[v] = "ram" =>
             \/ mapped[v] = "ram"
             \/ \E k \in Holdings' : Backs(k)' /\ v \in PageRange(k.addr, k.nr),
         h \in Holdings /\ Backs(h) =>
             \A v \in Space : v \in PageRange(h.addr, h.nr) /\ mapped'[v] = "ram" =>
                 \E k \in Holdings' : Backs(k)' /\ v \in PageRange(k.addr, k.nr)
  PROVE  RamBacked'
<1> SUFFICES ASSUME NEW v \in Space, mapped'[v] = "ram"
             PROVE  \E k \in Holdings' : Backs(k)' /\ v \in PageRange(k.addr, k.nr)
  BY DEF RamBacked, PageRange
<1>1. CASE mapped[v] = "ram"
  <2>1. PICK g \in Holdings : Backs(g) /\ v \in PageRange(g.addr, g.nr)
    BY <1>1 DEF IInv, RamBacked
  <2>2. CASE g = h
    BY <2>1, <2>2
  <2>3. CASE g # h
    <3>1. Backs(g)'
      BY <2>1, <2>3, BacksStays DEF IInv
    <3> QED
      BY <2>1, <2>3, <3>1
  <2> QED
    BY <2>2, <2>3
<1> QED
  BY <1>1

LEMMA CallIsHolding ==
  ASSUME NEW t \in WithArea
  PROVE  Holding(t) \in Holdings /\ Holding(t) \in Calls
BY Parts DEF Calls

LEMMA Holder ==
  ASSUME IInv, NEW t \in WithArea
  PROVE  \E a \in busy : a.start = op[t].addr /\ op[t].nr <= Size(a)
<1>1. Holding(t).addr = op[t].addr /\ Holding(t).nr = op[t].nr
  BY HeldIs DEF Holding
<1> QED
  BY <1>1, CallIsHolding DEF IInv, HoldersOK, OneHolder

\* A call goes on with the same area.
LEMMA InPlace ==
  ASSUME IInv, NEW t \in WithArea, NEW w, OpOK(w), w.kind \in AreaKinds,
         w.addr = op[t].addr, w.nr = op[t].nr, Become(t, w),
         UNCHANGED areas, UNCHANGED lists,
         nfree' = nfree + op[t].got - w.got, nfree' \in Nat,
         mapped' \in [Space -> {"none", "ram", "device"}],
         \A v \in Space : mapped'[v] = "ram" => mapped[v] = "ram",
         op[t].kind \in {"vfree", "dma_free"} =>
             \A v \in Space : v \in Pages(t) => mapped'[v] # "ram"
  PROVE  IInv'
<1>1. t \in Tasks /\ op[t] \in AreaCalls /\ w \in AreaCalls
  BY CallTypes DEF IInv, WithArea, OpOK, Idle, FrameCalls, AreaKinds, FrameKinds
<1>2. OpsOK' /\ ListsOK'
  BY <1>1, OpBecomes DEF IInv, ListsOK, lists
<1>3. Calls' = (Calls \ {Holding(t)}) \cup {AsCall(w)} /\ Waits' = Waits
  BY <1>1, CallsMove DEF IInv
<1> DEFINE h == Holding(t)
           k == AsCall(w)
<1>4. /\ h.by = "call" /\ h.addr = op[t].addr /\ h.nr = op[t].nr /\ h.frames = op[t].got
      /\ k.by = "call" /\ k.addr = w.addr /\ k.nr = w.nr /\ k.frames = w.got
  BY HeldIs DEF Holding, AsCall
<1>5. h \in Holdings /\ h \in Calls
  BY CallIsHolding
<1> HIDE DEF h, k
<1>6. Holdings' = (Holdings \ {h}) \cup {k}
  <2>1. Vms' = Vms /\ Dmas' = Dmas /\ Drivers' = Drivers /\ lost' = lost
    BY DEF lists, Vms, Dmas, Drivers
  <2>2. Holdings' = Vms \cup Dmas \cup Drivers \cup lost \cup Calls'
    BY <2>1 DEF Holdings, Vms, Dmas, Drivers, Calls
  <2>3. h \notin Vms /\ h \notin Dmas /\ h \notin Drivers /\ h \notin lost
    BY <1>4, Tags DEF IInv
  <2>4. Calls' = (Calls \ {h}) \cup {k}
    BY <1>3 DEF h, k
  <2> QED
    BY <2>2, <2>3, <2>4, Parts
<1>7. \E a \in busy : a.start = h.addr /\ k.nr <= Size(a)
  BY <1>4, Holder
<1>8. k.frames \in Nat /\ nfree' = nfree + h.frames - k.frames /\ k.addr = h.addr /\ k.by # "dma_area"
  BY <1>1, <1>4 DEF AreaCalls
<1>9. /\ AreasOK' /\ FramesCounted'
      /\ \A a \in busy' : \E g \in Holdings' : g.addr = a.start
      /\ \A g, l \in Holdings' : g.addr = l.addr => g = l
      /\ \A g \in Holdings' : \E a \in busy' : a.start = g.addr /\ g.nr <= Size(a)
  BY <1>3, <1>5, <1>6, <1>7, <1>8, Handover
<1>10. CallsApart'
  BY <1>1, ApartStays DEF IInv
<1>11. HoldersOK'
  BY <1>9, <1>10 DEF IInv, HoldersOK, OneHolder, CallsApart, lists, areas
<1>12. RamBacked'
  <2>1. Backs(h) => op[t].kind \in {"vfree", "dma_free"}
    BY CallBacks DEF IInv, h
  <2>2. \A g \in Holdings : g # h => g \in Holdings'
    BY <1>6
  <2>3. PageRange(h.addr, h.nr) = Pages(t)
    BY <1>4 DEF Pages
  <2>4. Backs(h) => \A v \in Space : v \in PageRange(h.addr, h.nr) => mapped'[v] # "ram"
    BY <2>1, <2>3
  <2>5. t \in WithArea => h = Holding(t)
    BY DEF h
  <2> QED
    BY <1>1, <2>2, <2>4, <2>5, RamStays
<1> QED
  BY <1>2, <1>9, <1>11, <1>12 DEF IInv

------------------------------------------------------------------------------------
(* The steps of a call that keeps its area *)

LEMMA InPlaceSteps ==
  ASSUME IInv, NEW t \in Tasks,
         VmallocMeta(t) \/ VmallocPage(t) \/ VmallocCleanup(t) \/ VfreeUnmap(t) \/ DmaUnmap(t)
  PROVE  IInv'
<1>1. op[t].kind \in {"vmalloc", "pages", "cleanup", "vfree", "dma_free"}
  BY DEF VmallocMeta, VmallocPage, VmallocCleanup, VfreeUnmap, DmaUnmap, Doing
<1>2. t \in WithArea /\ op[t] \in AreaCalls /\ GotOK(op[t])
  BY <1>1, CallTypes DEF IInv, AreaKinds, FrameKinds
<1>3. /\ op[t].got \in Nat /\ op[t].nr \in 1..MaxPages /\ op[t].nr \in Nat /\ nfree \in Nat
      /\ mapped \in [Space -> {"none", "ram", "device"}]
  BY <1>2, MaxAssumption DEF IInv, AreaCalls, FramesCounted, ListsOK
<1>4. ASSUME NEW kind \in AreaKinds, NEW got \in Nat
      PROVE  LET w == [op[t] EXCEPT !.kind = kind, !.got = got]
             IN  w \in AreaCalls /\ w.kind = kind /\ w.addr = op[t].addr /\ w.nr = op[t].nr /\ w.got = got
  BY <1>2 DEF AreaCalls
<1>5. ASSUME NEW kind \in AreaKinds
      PROVE  [op[t] EXCEPT !.kind = kind] = [op[t] EXCEPT !.kind = kind, !.got = op[t].got]
  BY <1>2 DEF AreaCalls
<1>6. ASSUME NEW got \in Nat
      PROVE  [op[t] EXCEPT !.got = got] = [op[t] EXCEPT !.kind = op[t].kind, !.got = got]
  BY <1>2 DEF AreaCalls
<1>7. CASE VmallocMeta(t)
  <2>1. PICK kind \in {"pages", "give_up"} : Become(t, [op[t] EXCEPT !.kind = kind])
    BY <1>7 DEF VmallocMeta, NoMeta
  <2> DEFINE w == [op[t] EXCEPT !.kind = kind, !.got = op[t].got]
  <2>2. Become(t, w) /\ op[t].kind = "vmalloc"
    BY <1>5, <1>7, <2>1 DEF VmallocMeta, Doing, AreaKinds
  <2>3. w \in AreaCalls /\ w.kind = kind /\ w.addr = op[t].addr /\ w.nr = op[t].nr /\ w.got = op[t].got
    BY <1>3, <1>4 DEF AreaKinds
  <2> HIDE DEF w
  <2>4. OpOK(w)
    BY <1>2, <1>3, <2>2, <2>3 DEF OpOK, GotOK, FrameKinds
  <2>5. UNCHANGED areas /\ UNCHANGED lists /\ mapped' = mapped /\ nfree' = nfree
    BY <1>7 DEF VmallocMeta, areas, lists
  <2> QED
    BY <1>2, <1>3, <2>2, <2>3, <2>4, <2>5, InPlace DEF AreaKinds
<1>8. CASE VmallocPage(t)
  <2>1. op[t].kind = "pages" /\ op[t].got # op[t].nr /\ op[t].got <= op[t].nr
    BY <1>2, <1>8 DEF VmallocPage, Doing, AllPages, GotOK
  <2>2. UNCHANGED areas /\ UNCHANGED lists /\ mapped' = mapped
    BY <1>8 DEF VmallocPage, areas, lists
  <2>3. CASE nfree > 0
    <3> DEFINE w == [op[t] EXCEPT !.kind = op[t].kind, !.got = op[t].got + 1]
    <3>1. Become(t, [op[t] EXCEPT !.got = op[t].got + 1]) /\ nfree' = nfree - 1
      BY <1>8, <2>3 DEF VmallocPage
    <3>2. Become(t, w)
      BY <1>3, <1>6, <3>1
    <3>3. w \in AreaCalls /\ w.kind = "pages" /\ w.addr = op[t].addr /\ w.nr = op[t].nr /\ w.got = op[t].got + 1
      <4>1. op[t].kind \in AreaKinds /\ op[t].got + 1 \in Nat
        BY <1>3, <2>1 DEF AreaKinds
      <4>2. w \in AreaCalls /\ w.kind = op[t].kind /\ w.addr = op[t].addr /\ w.nr = op[t].nr
            /\ w.got = op[t].got + 1
        BY <1>4, <4>1
      <4> QED
        BY <2>1, <4>2
    <3> HIDE DEF w
    <3>4. OpOK(w)
      BY <1>3, <2>1, <3>3 DEF OpOK, GotOK, FrameKinds
    <3>5. nfree' \in Nat /\ nfree' = nfree + op[t].got - w.got
      BY <1>3, <2>3, <3>1, <3>3
    <3> QED
      BY <1>2, <1>3, <2>1, <2>2, <3>2, <3>3, <3>4, <3>5, InPlace DEF AreaKinds
  <2>4. CASE ~(nfree > 0)
    <3> DEFINE w == [op[t] EXCEPT !.kind = "cleanup", !.got = op[t].got]
    <3>1. Become(t, [op[t] EXCEPT !.kind = "cleanup"]) /\ nfree' = nfree
      BY <1>8, <2>4 DEF VmallocPage
    <3>2. Become(t, w)
      BY <1>5, <3>1 DEF AreaKinds
    <3>3. w \in AreaCalls /\ w.kind = "cleanup" /\ w.addr = op[t].addr /\ w.nr = op[t].nr /\ w.got = op[t].got
      BY <1>3, <1>4 DEF AreaKinds
    <3> HIDE DEF w
    <3>4. OpOK(w)
      BY <3>3 DEF OpOK, GotOK, FrameKinds
    <3> QED
      BY <1>2, <1>3, <2>1, <2>2, <3>1, <3>2, <3>3, <3>4, InPlace DEF AreaKinds
  <2> QED
    BY <2>3, <2>4
<1>9. CASE VmallocCleanup(t)
  <2> DEFINE w == [op[t] EXCEPT !.kind = "give_up", !.got = 0]
  <2>1. op[t].kind = "cleanup" /\ Become(t, w)
    BY <1>9 DEF VmallocCleanup, Doing
  <2>2. UNCHANGED areas /\ UNCHANGED lists /\ mapped' = mapped /\ nfree' = nfree + op[t].got
    BY <1>3, <1>9 DEF VmallocCleanup, areas, lists, FreePages
  <2>3. w \in AreaCalls /\ w.kind = "give_up" /\ w.addr = op[t].addr /\ w.nr = op[t].nr /\ w.got = 0
    BY <1>4 DEF AreaKinds
  <2> HIDE DEF w
  <2>4. OpOK(w)
    BY <2>3 DEF OpOK, GotOK, FrameKinds
  <2>5. nfree' \in Nat /\ nfree' = nfree + op[t].got - w.got
    BY <1>3, <2>2, <2>3
  <2> QED
    BY <1>2, <1>3, <2>1, <2>2, <2>3, <2>4, <2>5, InPlace DEF AreaKinds
<1>10. ASSUME VfreeUnmap(t) \/ DmaUnmap(t) PROVE IInv'
  <2>1. PICK kind \in {"cleanup", "dma_put"} :
             /\ Become(t, [op[t] EXCEPT !.kind = kind])
             /\ kind = "dma_put" => op[t].kind = "dma_free"
    BY <1>10 DEF VfreeUnmap, DmaUnmap, Doing
  <2> DEFINE w == [op[t] EXCEPT !.kind = kind, !.got = op[t].got]
  <2>2. Become(t, w)
    BY <1>5, <2>1 DEF AreaKinds, FrameKinds
  <2>3. w \in AreaCalls /\ w.kind = kind /\ w.addr = op[t].addr /\ w.nr = op[t].nr /\ w.got = op[t].got
    BY <1>3, <1>4 DEF AreaKinds, FrameKinds
  <2> HIDE DEF w
  <2>4. OpOK(w)
    BY <1>2, <2>1, <2>3 DEF OpOK, GotOK, FrameKinds
  <2>5. UNCHANGED areas /\ UNCHANGED lists /\ nfree' = nfree
    BY <1>10 DEF VfreeUnmap, DmaUnmap, areas, lists
  <2>6. mapped' = [v \in Space |-> IF v \in Pages(t) THEN "none" ELSE mapped[v]]
    BY <1>10 DEF VfreeUnmap, DmaUnmap, UnmapFirst, UnmapKernelPages
  <2>7. /\ mapped' \in [Space -> {"none", "ram", "device"}]
        /\ \A v \in Space : mapped'[v] = "ram" => mapped[v] = "ram" /\ v \notin Pages(t)
    BY <1>3, <2>6
  <2>8. nfree' \in Nat /\ nfree' = nfree + op[t].got - w.got
    BY <1>3, <2>3, <2>5
  <2>9. w.kind \in AreaKinds
    BY <2>3 DEF AreaKinds, FrameKinds
  <2> QED
    BY <1>2, <2>2, <2>3, <2>4, <2>5, <2>7, <2>8, <2>9, InPlace
<1> QED
  BY <1>7, <1>8, <1>9, <1>10

------------------------------------------------------------------------------------
(* A call ends and leaves its area to a record *)

Records == Vms \cup Dmas \cup Drivers \cup lost

LEMMA Settles ==
  ASSUME IInv, NEW t \in WithArea, Become(t, Idle), op[t].kind \notin {"vfree", "dma_free"},
         UNCHANGED areas, ListsOK',
         NEW k, Records' = Records \cup {k},
         k.by \in {"vm_list", "dma_map_list", "driver", "lost"},
         k.addr = op[t].addr, k.nr \in Nat, k.nr <= op[t].nr, k.frames \in Nat,
         nfree' = nfree + op[t].got - k.frames, nfree' \in Nat,
         io_live \subseteq io_live',
         \A io \in io_map_list' : \/ io \in io_map_list
                                  \/ io.addr = op[t].addr /\ io.nr = op[t].nr /\ io.addr \in io_live',
         \A v \in Space : mapped'[v] = "ram" =>
             mapped[v] = "ram" \/ (Backs(k)' /\ v \in PageRange(k.addr, k.nr))
  PROVE  IInv'
<1>1. t \in Tasks /\ op[t] \in AreaCalls
  BY CallTypes DEF IInv, WithArea
<1>2. OpOK(Idle) /\ Idle.kind \notin AreaKinds
  BY DEF OpOK, Idle, AreaKinds, FrameKinds
<1>3. OpsOK'
  BY <1>1, <1>2, OpBecomes DEF IInv
<1>4. Calls' = Calls \ {Holding(t)} /\ Waits' = Waits
  BY <1>1, <1>2, CallsMove DEF IInv
<1> DEFINE h == Holding(t)
<1>5. /\ h.by = "call" /\ h.addr = op[t].addr /\ h.nr = op[t].nr /\ h.frames = op[t].got
  BY HeldIs DEF Holding
<1>6. h \in Holdings /\ h \in Calls
  BY CallIsHolding
<1>7. Calls' = Calls \ {h}
  BY <1>4
<1> HIDE DEF h
<1>8. Holdings' = (Holdings \ {h}) \cup {k}
  <2>1. Holdings = Records \cup Calls
    BY Parts DEF Records
  <2>2. Holdings' = Records' \cup Calls'
    BY DEF Holdings, Records, Vms, Dmas, Drivers, Calls
  <2>3. h \notin Records
    BY <1>5, Tags DEF IInv, Records
  <2> QED
    BY <1>7, <2>1, <2>2, <2>3
<1>9. PICK a \in busy : a.start = op[t].addr /\ op[t].nr <= Size(a)
  BY Holder
<1>10. op[t].nr \in Nat /\ Size(a) \in Nat
  BY <1>1, <1>9, SizesOf, MaxAssumption DEF IInv, AreaCalls, Areas
<1>11. \E b \in busy : b.start = h.addr /\ k.nr <= Size(b)
  BY <1>5, <1>9, <1>10
<1>12. /\ AreasOK' /\ FramesCounted'
       /\ \A b \in busy' : \E g \in Holdings' : g.addr = b.start
       /\ \A g, l \in Holdings' : g.addr = l.addr => g = l
       /\ \A g \in Holdings' : \E b \in busy' : b.start = g.addr /\ g.nr <= Size(b)
  <2>1. k.addr = h.addr /\ k.by # "dma_area" /\ nfree' = nfree + h.frames - k.frames
    BY <1>5
  <2> QED
    BY <1>4, <1>6, <1>8, <1>11, <2>1, Handover
<1>13. CallsApart'
  BY <1>1, <1>2, ApartStays DEF IInv
<1>14. \A io \in io_map_list' : io.addr \in io_live' /\ \E b \in busy' : b.start = io.addr /\ io.nr <= Size(b)
  <2>1. busy' = busy
    BY DEF areas
  <2> TAKE io \in io_map_list'
  <2>2. CASE io \in io_map_list
    BY <2>1, <2>2 DEF IInv, HoldersOK
  <2>3. CASE io.addr = op[t].addr /\ io.nr = op[t].nr /\ io.addr \in io_live'
    BY <1>9, <2>1, <2>3
  <2> QED
    BY <2>2, <2>3
<1>15. HoldersOK'
  BY <1>12, <1>13, <1>14 DEF HoldersOK, OneHolder, CallsApart, Size
<1>16. RamBacked'
  <2>1. ~Backs(h)
    BY CallBacks DEF IInv, h
  <2>2. \A g \in Holdings : g # h => g \in Holdings'
    BY <1>8
  <2>3. k \in Holdings'
    BY <1>8
  <2>4. \A v \in Space : mapped'[v] = "ram" =>
             \/ mapped[v] = "ram"
             \/ \E l \in Holdings' : Backs(l)' /\ v \in PageRange(l.addr, l.nr)
    BY <2>3
  <2>5. t \in WithArea => h = Holding(t)
    BY DEF h
  <2> QED
    BY <1>1, <1>2, <2>1, <2>2, <2>4, <2>5, RamStays
<1> QED
  BY <1>3, <1>12, <1>15, <1>16 DEF IInv

LEMMA SettlingSteps ==
  ASSUME IInv, NEW t \in Tasks,
         VmallocMap(t) \/ IoremapMap(t) \/ DmaMap(t) \/ DmaPut(t)
  PROVE  IInv'
<1>1. op[t].kind \in {"pages", "ioremap", "dma", "dma_put"}
  BY DEF VmallocMap, IoremapMap, DmaMap, DmaPut, Doing
<1>2. t \in WithArea /\ op[t] \in AreaCalls /\ GotOK(op[t])
  BY <1>1, CallTypes DEF IInv, AreaKinds, FrameKinds
<1>3. /\ op[t].addr \in Space /\ op[t].got \in Nat /\ op[t].nr \in 1..MaxPages /\ op[t].nr \in Nat
      /\ nfree \in Nat /\ ListsOK /\ 1 <= op[t].nr
      /\ mapped \in [Space -> {"none", "ram", "device"}]
  BY <1>2, MaxAssumption DEF IInv, AreaCalls, FramesCounted, ListsOK
<1> DEFINE rec == [addr |-> op[t].addr, nr |-> op[t].nr]
<1>4. rec \in Extents /\ rec.addr = op[t].addr /\ rec.nr = op[t].nr
  BY <1>3 DEF Extents
<1> HIDE DEF rec
<1>5. op[t].kind \notin {"vfree", "dma_free"}
  BY <1>1
<1>6. CASE VmallocMap(t)
  <2>k. PICK k : k = Held("vm_list", rec.addr, rec.nr, rec.nr)
    OBVIOUS
  <2>1. /\ k.by = "vm_list" /\ k.addr = op[t].addr /\ k.nr = op[t].nr /\ k.frames = op[t].nr
    BY <2>k, <1>4, HeldIs
  <2>2. /\ vm_list' = vm_list \cup {rec} /\ Become(t, Idle) /\ op[t].got = op[t].nr
        /\ UNCHANGED <<areas, io_map_list, dma_map_list, io_live, lost, nfree>>
    BY <1>6 DEF VmallocMap, AllPages, rec
  <2>3. Records' = Records \cup {k}
    <3>1. Vms' = Vms \cup {k}
      BY <2>k, <2>2 DEF Vms
    <3>2. Dmas' = Dmas /\ Drivers' = Drivers /\ lost' = lost
      BY <2>2 DEF Dmas, Drivers
    <3> QED
      BY <3>1, <3>2 DEF Records
  <2>4. PICK done \in SUBSET Pages(t) :
             mapped' = [v \in Space |-> IF v \in done THEN "ram" ELSE mapped[v]]
    BY <1>6 DEF VmallocMap, MapKernelPages
  <2>5. ListsOK'
    BY <1>3, <1>4, <2>2, <2>4 DEF ListsOK
  <2>6. \A v \in Space : mapped'[v] = "ram" =>
             mapped[v] = "ram" \/ (Backs(k)' /\ v \in PageRange(k.addr, k.nr))
    BY <2>1, <2>4 DEF Backs, Pages
  <2>7. nfree' \in Nat /\ nfree' = nfree + op[t].got - k.frames /\ UNCHANGED areas /\ io_live' = io_live
        /\ io_map_list' = io_map_list
    BY <1>3, <2>1, <2>2
  <2>8. /\ k.by \in {"vm_list", "dma_map_list", "driver", "lost"} /\ k.addr = op[t].addr
        /\ k.nr \in Nat /\ k.nr <= op[t].nr /\ k.frames \in Nat
    BY <1>3, <2>1
  <2>9. Become(t, Idle)
    BY <2>2
  <2> QED
    BY <1>2, <1>5, <2>3, <2>5, <2>6, <2>7, <2>8, <2>9, Settles
<1>7. CASE IoremapMap(t)
  <2>k. PICK k : k = Held("driver", op[t].addr, 1, 0)
    OBVIOUS
  <2>1. /\ k.by = "driver" /\ k.addr = op[t].addr /\ k.nr = 1 /\ k.frames = 0
    BY <2>k, HeldIs
  <2>2. /\ io_live' = io_live \cup {op[t].addr} /\ Become(t, Idle) /\ op[t].got = 0
        /\ io_map_list' = io_map_list \cup {rec} \/ io_map_list' = io_map_list
        /\ UNCHANGED <<areas, vm_list, dma_map_list, lost, nfree>>
    BY <1>2, <1>7 DEF IoremapMap, GotOK, Doing, rec
  <2>3. Records' = Records \cup {k}
    <3>1. Drivers' = Drivers \cup {k}
      BY <2>k, <2>2 DEF Drivers
    <3>2. Dmas' = Dmas /\ Vms' = Vms /\ lost' = lost
      BY <2>2 DEF Dmas, Vms
    <3> QED
      BY <3>1, <3>2 DEF Records
  <2>4. PICK done \in SUBSET Pages(t) :
             mapped' = [v \in Space |-> IF v \in done THEN "device" ELSE mapped[v]]
    BY <1>7 DEF IoremapMap, MapKernelPages
  <2>5. ListsOK'
    BY <1>3, <1>4, <2>2, <2>4 DEF ListsOK
  <2>6. \A v \in Space : mapped'[v] = "ram" => mapped[v] = "ram"
    BY <2>4
  <2>7. nfree' \in Nat /\ nfree' = nfree + op[t].got - k.frames /\ UNCHANGED areas
    BY <1>3, <2>1, <2>2
  <2>8. /\ k.by \in {"vm_list", "dma_map_list", "driver", "lost"} /\ k.addr = op[t].addr
        /\ k.nr \in Nat /\ k.nr <= op[t].nr /\ k.frames \in Nat
    BY <1>3, <2>1
  <2>9. /\ io_live \subseteq io_live'
        /\ \A io \in io_map_list' : \/ io \in io_map_list
                                    \/ io.addr = op[t].addr /\ io.nr = op[t].nr /\ io.addr \in io_live'
    BY <1>4, <2>2
  <2>10. Become(t, Idle)
    BY <2>2
  <2> QED
    BY <1>2, <1>5, <2>3, <2>5, <2>6, <2>7, <2>8, <2>9, <2>10, Settles
<1>8. CASE DmaMap(t)
  <2>1. op[t].kind = "dma" /\ op[t].got = DmaFrames(op[t].nr) /\ op[t].got <= Frames /\ op[t].got > 0
    BY <1>2, <1>3, <1>8, DmaFramesType DEF DmaMap, Doing, GotOK, FrameKinds
  <2>2. Become(t, Idle) /\ UNCHANGED <<areas, vm_list, io_map_list, io_live, nfree>>
    BY <1>8 DEF DmaMap
  <2>3. PICK done \in SUBSET Pages(t) :
             mapped' = [v \in Space |-> IF v \in done THEN "ram" ELSE mapped[v]]
    BY <1>8 DEF DmaMap, MapKernelPages
  <2>4. CASE dma_map_list' = dma_map_list \cup {rec} /\ UNCHANGED lost
    <3>k. PICK k : k = Held("dma_map_list", rec.addr, rec.nr, DmaFrames(rec.nr))
      OBVIOUS
    <3>1. /\ k.by = "dma_map_list" /\ k.addr = op[t].addr /\ k.nr = op[t].nr /\ k.frames = op[t].got
      BY <3>k, <1>4, <2>1, HeldIs
    <3>2. Records' = Records \cup {k}
      <4>1. Dmas' = Dmas \cup {k}
        BY <3>k, <2>4 DEF Dmas
      <4>2. Drivers' = Drivers /\ Vms' = Vms /\ lost' = lost
        BY <2>2, <2>4 DEF Drivers, Vms
      <4> QED
        BY <4>1, <4>2 DEF Records
    <3>3. ListsOK'
      BY <1>3, <1>4, <2>2, <2>3, <2>4 DEF ListsOK
    <3>4. \A v \in Space : mapped'[v] = "ram" =>
               mapped[v] = "ram" \/ (Backs(k)' /\ v \in PageRange(k.addr, k.nr))
      BY <2>3, <3>1 DEF Backs, Pages
    <3>5. nfree' \in Nat /\ nfree' = nfree + op[t].got - k.frames /\ UNCHANGED areas /\ io_live' = io_live
          /\ io_map_list' = io_map_list
      BY <1>3, <2>2, <3>1
    <3>6. /\ k.by \in {"vm_list", "dma_map_list", "driver", "lost"} /\ k.addr = op[t].addr
          /\ k.nr \in Nat /\ k.nr <= op[t].nr /\ k.frames \in Nat
      BY <1>3, <3>1
    <3> QED
      BY <1>2, <1>5, <2>2, <3>2, <3>3, <3>4, <3>5, <3>6, Settles
  <2>5. CASE lost' = lost \cup {Held("lost", op[t].addr, op[t].nr, op[t].got)} /\ UNCHANGED dma_map_list
    <3>k. PICK k : k = Held("lost", op[t].addr, op[t].nr, op[t].got)
      OBVIOUS
    <3>1. /\ k.by = "lost" /\ k.addr = op[t].addr /\ k.nr = op[t].nr /\ k.frames = op[t].got
      BY <3>k, HeldIs
    <3>2. Records' = Records \cup {k}
      <4>1. Drivers' = Drivers /\ Vms' = Vms /\ Dmas' = Dmas /\ lost' = lost \cup {k}
        BY <3>k, <2>2, <2>5 DEF Drivers, Vms, Dmas
      <4> QED
        BY <4>1 DEF Records
    <3>3. ListsOK'
      <4>1. k \in LostRecords
        BY <3>k, <1>3, <2>1 DEF LostRecords, Held
      <4> QED
        BY <3>k, <1>3, <2>2, <2>3, <2>5, <4>1 DEF ListsOK
    <3>4. \A v \in Space : mapped'[v] = "ram" =>
               mapped[v] = "ram" \/ (Backs(k)' /\ v \in PageRange(k.addr, k.nr))
      BY <2>1, <2>3, <3>1 DEF Backs, Pages
    <3>5. nfree' \in Nat /\ nfree' = nfree + op[t].got - k.frames /\ UNCHANGED areas /\ io_live' = io_live
          /\ io_map_list' = io_map_list
      BY <1>3, <2>2, <3>1
    <3>6. /\ k.by \in {"vm_list", "dma_map_list", "driver", "lost"} /\ k.addr = op[t].addr
          /\ k.nr \in Nat /\ k.nr <= op[t].nr /\ k.frames \in Nat
      BY <1>3, <3>1
    <3> QED
      BY <1>2, <1>5, <2>2, <3>2, <3>3, <3>4, <3>5, <3>6, Settles
  <2> QED
    BY <1>8, <2>4, <2>5 DEF DmaMap, rec
<1>9. CASE DmaPut(t)
  <2>k. PICK k : k = Held("lost", op[t].addr, op[t].nr, 0)
    OBVIOUS
  <2>1. /\ k.by = "lost" /\ k.addr = op[t].addr /\ k.nr = op[t].nr /\ k.frames = 0
    BY <2>k, HeldIs
  <2>2. /\ nfree' = nfree + op[t].got /\ lost' = lost \cup {k} /\ Become(t, Idle)
        /\ UNCHANGED <<areas, mapped, vm_list, io_map_list, dma_map_list, io_live>>
    BY <2>k, <1>9 DEF DmaPut
  <2>3. Records' = Records \cup {k}
    <3>1. Drivers' = Drivers /\ Vms' = Vms /\ Dmas' = Dmas
      BY <2>k, <2>2 DEF Drivers, Vms, Dmas
    <3> QED
      BY <2>2, <3>1 DEF Records
  <2>4. ListsOK'
    <3>1. k \in LostRecords
      BY <2>k, <1>3, FramesAssumption DEF LostRecords, Held
    <3> QED
      BY <1>3, <2>2, <3>1 DEF ListsOK
  <2>5. nfree' \in Nat /\ nfree' = nfree + op[t].got - k.frames /\ UNCHANGED areas /\ io_live' = io_live
        /\ io_map_list' = io_map_list /\ mapped' = mapped
    BY <1>3, <2>1, <2>2
  <2>6. /\ k.by \in {"vm_list", "dma_map_list", "driver", "lost"} /\ k.addr = op[t].addr
        /\ k.nr \in Nat /\ k.nr <= op[t].nr /\ k.frames \in Nat
    BY <1>3, <2>1
  <2> QED
    BY <1>2, <1>5, <2>2, <2>3, <2>4, <2>5, <2>6, Settles
<1> QED
  BY <1>6, <1>7, <1>8, <1>9

------------------------------------------------------------------------------------
(* A call takes over the area of a record *)

LEMMA TakesOver ==
  ASSUME IInv, NEW t \in Tasks, Doing(t, "idle"), NEW w, OpOK(w), w.kind \in AreaKinds, Become(t, w),
         UNCHANGED areas, ListsOK',
         NEW h \in Records, Records' = Records \ {h},
         w.addr = h.addr, w.got = h.frames, UNCHANGED nfree,
         \E a \in busy : a.start = h.addr /\ w.nr <= Size(a),
         \A io \in io_map_list' : io \in io_map_list /\ io.addr \in io_live',
         \A v \in Space : mapped'[v] = "ram" => mapped[v] = "ram",
         Backs(h) => w.nr = h.nr /\ w.kind \in {"vfree", "dma_free"}
  PROVE  IInv'
<1>1. t \notin WithArea /\ w \in AreaCalls
  BY CallTypes DEF IInv, OpOK, Idle, FrameCalls, AreaKinds, FrameKinds
<1>2. OpsOK'
  BY OpBecomes DEF IInv
<1>3. Calls' = Calls \cup {AsCall(w)} /\ Waits' = Waits
  BY CallsMove DEF IInv
<1>k. PICK k : k = AsCall(w)
  OBVIOUS
<1>4. k.by = "call" /\ k.addr = w.addr /\ k.nr = w.nr /\ k.frames = w.got
  BY <1>k, HeldIs DEF AsCall
<1>5. Holdings = Records \cup Calls /\ h \in Holdings
  BY Parts DEF Records
<1>6. h \notin Calls /\ h.by # "call"
  BY Tags DEF IInv, Records
<1>7. Holdings' = (Holdings \ {h}) \cup {k}
  <2>1. Holdings' = Records' \cup Calls'
    BY DEF Holdings, Records, Vms, Dmas, Drivers, Calls
  <2> QED
    BY <1>3, <1>5, <1>6, <1>k, <2>1
<1>8. nfree \in Nat /\ w.got \in Nat /\ nfree' = nfree + h.frames - k.frames
  BY <1>1, <1>4 DEF IInv, FramesCounted, AreaCalls
<1>9. /\ AreasOK' /\ FramesCounted'
      /\ \A b \in busy' : \E g \in Holdings' : g.addr = b.start
      /\ \A g, l \in Holdings' : g.addr = l.addr => g = l
      /\ \A g \in Holdings' : \E b \in busy' : b.start = g.addr /\ g.nr <= Size(b)
  <2>1. k.addr = h.addr /\ k.by # "dma_area" /\ k.frames \in Nat /\ nfree' \in Nat
        /\ \E a \in busy : a.start = h.addr /\ k.nr <= Size(a)
    BY <1>4, <1>8
  <2> QED
    BY <1>3, <1>5, <1>7, <1>8, <2>1, Handover
<1>10. \A u \in WithArea : op[u].addr # w.addr
  <2> TAKE u \in WithArea
  <2>1. Holding(u) \in Holdings /\ Holding(u).by = "call" /\ Holding(u).addr = op[u].addr
    BY CallIsHolding, HeldIs DEF Holding
  <2> QED
    BY <1>5, <1>6, <2>1 DEF IInv, HoldersOK, OneHolder
<1>11. CallsApart'
  BY <1>10, ApartStays DEF IInv
<1>12. HoldersOK'
  <2>1. busy' = busy
    BY DEF areas
  <2> QED
    BY <1>9, <1>11, <2>1 DEF IInv, HoldersOK, OneHolder, CallsApart, Size
<1>13. RamBacked'
  <2>1. \A g \in Holdings : g # h => g \in Holdings'
    BY <1>7
  <2>2. k \in Holdings'
    BY <1>7
  <2>3. Backs(h) => Backs(k)' /\ PageRange(k.addr, k.nr) = PageRange(h.addr, h.nr)
    <3> HAVE Backs(h)
    <3>1. w.nr = h.nr /\ w.kind \in {"vfree", "dma_free"}
      OBVIOUS
    <3>2. op'[t] = w /\ t \in WithArea'
      BY OpBecomes DEF IInv
    <3>3. Holding(t)' = k
      BY <1>k, <3>2 DEF Holding, AsCall
    <3> QED
      BY <1>4, <3>1, <3>2, <3>3 DEF Backs
  <2>4. t \in WithArea => h = Holding(t)
    BY <1>1
  <2> QED
    BY <2>1, <2>2, <2>3, <2>4, RamStays
<1> QED
  BY <1>2, <1>9, <1>12, <1>13 DEF IInv

LEMMA TakingSteps ==
  ASSUME IInv, NEW t \in Tasks,
         \/ \E vm \in vm_list : Vfree(t, vm)
         \/ \E addr \in io_live : Iounmap(t, addr)
         \/ \E d \in dma_map_list : DmaFree(t, d)
  PROVE  IInv'
<1>1. ListsOK /\ nfree \in Nat /\ mapped \in [Space -> {"none", "ram", "device"}]
  BY DEF IInv, FramesCounted, ListsOK
<1>2. \A g \in Records : g \in Holdings
  BY Parts DEF Records
<1>3. ASSUME NEW vm \in vm_list, Vfree(t, vm) PROVE IInv'
  <2>h. PICK h : h = Held("vm_list", vm.addr, vm.nr, vm.nr)
    OBVIOUS
  <2>w. PICK w : w = [kind |-> "vfree", addr |-> vm.addr, nr |-> vm.nr, got |-> vm.nr]
    OBVIOUS
  <2>1. h.by = "vm_list" /\ h.addr = vm.addr /\ h.nr = vm.nr /\ h.frames = vm.nr
    BY <2>h, HeldIs
  <2>2. w.kind = "vfree" /\ w.addr = vm.addr /\ w.nr = vm.nr /\ w.got = vm.nr
    BY <2>w
  <2>3. vm \in Extents /\ vm.addr \in Space /\ vm.nr \in 1..MaxPages /\ vm.nr \in Nat
    BY <1>1, MaxAssumption DEF ListsOK, Extents
  <2>4. OpOK(w) /\ w.kind \in AreaKinds
    BY <2>2, <2>3, <2>w DEF OpOK, AreaCalls, AreaKinds, FrameKinds, GotOK
  <2>5. /\ vm_list' = vm_list \ {vm} /\ Become(t, w) /\ Doing(t, "idle")
        /\ UNCHANGED <<areas, mapped, io_map_list, dma_map_list, io_live, lost, nfree>>
    BY <1>3, <2>w DEF Vfree
  <2>6. Vms' = Vms \ {h} /\ h \in Vms
    BY <1>1, <2>3, <2>5, <2>h, ListHoldings
  <2>7. Drivers' = Drivers /\ Dmas' = Dmas /\ lost' = lost
    BY <2>5 DEF Drivers, Dmas
  <2>8. Records' = Records \ {h} /\ h \in Records
    <3>1. h \notin Drivers /\ h \notin Dmas /\ h \notin lost
      BY <1>1, <2>1, Tags
    <3> QED
      BY <2>6, <2>7, <3>1 DEF Records
  <2>9. ListsOK'
    BY <1>1, <2>5 DEF ListsOK
  <2>10. \E a \in busy : a.start = h.addr /\ w.nr <= Size(a)
    BY <1>2, <2>1, <2>2, <2>8 DEF IInv, HoldersOK, OneHolder
  <2>11. UNCHANGED areas /\ UNCHANGED nfree /\ mapped' = mapped
         /\ \A io \in io_map_list' : io \in io_map_list /\ io.addr \in io_live'
    BY <2>5 DEF IInv, HoldersOK
  <2> QED
    BY <2>1, <2>2, <2>4, <2>5, <2>8, <2>9, <2>10, <2>11, TakesOver
<1>4. ASSUME NEW d \in dma_map_list, DmaFree(t, d) PROVE IInv'
  <2>h. PICK h : h = Held("dma_map_list", d.addr, d.nr, DmaFrames(d.nr))
    OBVIOUS
  <2>w. PICK w : w = [kind |-> "dma_free", addr |-> d.addr, nr |-> d.nr, got |-> DmaFrames(d.nr)]
    OBVIOUS
  <2>1. h.by = "dma_map_list" /\ h.addr = d.addr /\ h.nr = d.nr /\ h.frames = DmaFrames(d.nr)
    BY <2>h, HeldIs
  <2>2. w.kind = "dma_free" /\ w.addr = d.addr /\ w.nr = d.nr /\ w.got = DmaFrames(d.nr)
    BY <2>w
  <2>3. d \in Extents /\ d.addr \in Space /\ d.nr \in 1..MaxPages /\ DmaFrames(d.nr) \in Nat
    BY <1>1, DmaFramesType DEF ListsOK, Extents
  <2>4. OpOK(w) /\ w.kind \in AreaKinds
    BY <2>2, <2>3, <2>w DEF OpOK, AreaCalls, AreaKinds, FrameKinds, GotOK
  <2>5. /\ dma_map_list' = dma_map_list \ {d} /\ Become(t, w) /\ Doing(t, "idle")
        /\ UNCHANGED <<areas, mapped, io_map_list, vm_list, io_live, lost, nfree>>
    BY <1>4, <2>w DEF DmaFree
  <2>6. Dmas' = Dmas \ {h} /\ h \in Dmas
    BY <1>1, <2>3, <2>5, <2>h, ListHoldings
  <2>7. Drivers' = Drivers /\ Vms' = Vms /\ lost' = lost
    BY <2>5 DEF Drivers, Vms
  <2>8. Records' = Records \ {h} /\ h \in Records
    <3>1. h \notin Drivers /\ h \notin Vms /\ h \notin lost
      BY <1>1, <2>1, Tags
    <3> QED
      BY <2>6, <2>7, <3>1 DEF Records
  <2>9. ListsOK'
    BY <1>1, <2>5 DEF ListsOK
  <2>10. \E a \in busy : a.start = h.addr /\ w.nr <= Size(a)
    BY <1>2, <2>1, <2>2, <2>8 DEF IInv, HoldersOK, OneHolder
  <2>11. UNCHANGED areas /\ UNCHANGED nfree /\ mapped' = mapped
         /\ \A io \in io_map_list' : io \in io_map_list /\ io.addr \in io_live'
    BY <2>5 DEF IInv, HoldersOK
  <2> QED
    BY <2>1, <2>2, <2>4, <2>5, <2>8, <2>9, <2>10, <2>11, TakesOver
<1>5. ASSUME NEW addr \in io_live, Iounmap(t, addr) PROVE IInv'
  <2> DEFINE found == {io \in io_map_list : io.addr = addr}
             nr == IF found = {} THEN 1 ELSE (CHOOSE io \in found : TRUE).nr
  <2>h. PICK h : h = Held("driver", addr, 1, 0)
    OBVIOUS
  <2>w. PICK w : w = [kind |-> "give_up", addr |-> addr, nr |-> nr, got |-> 0]
    OBVIOUS
  <2>1. h.by = "driver" /\ h.addr = addr /\ h.nr = 1 /\ h.frames = 0
    BY <2>h, HeldIs
  <2>2. w.kind = "give_up" /\ w.addr = addr /\ w.nr = nr /\ w.got = 0
    BY <2>w
  <2>3. addr \in Space
    BY <1>1 DEF ListsOK
  <2>4. h \in Drivers /\ h \in Records
    BY <1>1, <2>h, ListHoldings DEF Records
  <2>5. /\ nr \in 1..MaxPages /\ \E a \in busy : a.start = addr /\ nr <= Size(a)
    <3>1. CASE found = {}
      <4>1. PICK a \in busy : a.start = h.addr /\ h.nr <= Size(a)
        BY <1>2, <2>4 DEF IInv, HoldersOK, OneHolder
      <4> QED
        BY <2>1, <3>1, <4>1, MaxAssumption
    <3>2. CASE found # {}
      <4>1. PICK io \in io_map_list : io.addr = addr /\ nr = io.nr
        BY <3>2
      <4>2. io.nr \in 1..MaxPages
        BY <1>1 DEF ListsOK, Extents
      <4> QED
        BY <4>1, <4>2 DEF IInv, HoldersOK
    <3> QED
      BY <3>1, <3>2
  <2>6. /\ io_live' = io_live \ {addr} /\ io_map_list' = io_map_list \ found
        /\ mapped' = [v \in Space |-> IF v \in PageRange(addr, nr) THEN "none" ELSE mapped[v]]
        /\ Become(t, w) /\ Doing(t, "idle")
        /\ UNCHANGED <<areas, vm_list, dma_map_list, lost, nfree>>
    BY <1>5, <2>w DEF Iounmap, UnmapKernelPages
  <2>7. \A io \in io_map_list' : io \in io_map_list /\ io.addr \in io_live'
    BY <2>6 DEF IInv, HoldersOK
  <2> HIDE DEF nr, found
  <2>8. OpOK(w) /\ w.kind \in AreaKinds
    BY <2>2, <2>3, <2>5, <2>w DEF OpOK, AreaCalls, AreaKinds, FrameKinds, GotOK
  <2>9. Drivers' = Drivers \ {h}
    BY <1>1, <2>3, <2>6, <2>h, ListHoldings
  <2>10. Dmas' = Dmas /\ Vms' = Vms /\ lost' = lost
    BY <2>6 DEF Dmas, Vms
  <2>11. Records' = Records \ {h}
    <3>1. h \notin Dmas /\ h \notin Vms /\ h \notin lost
      BY <1>1, <2>1, Tags
    <3> QED
      BY <2>9, <2>10, <3>1 DEF Records
  <2>12. /\ mapped' \in [Space -> {"none", "ram", "device"}]
         /\ \A v \in Space : mapped'[v] = "ram" => mapped[v] = "ram"
    BY <1>1, <2>6
  <2>13. ListsOK'
    BY <1>1, <2>6, <2>12 DEF ListsOK
  <2>14. ~Backs(h)
    BY <2>1 DEF Backs
  <2>15. UNCHANGED areas /\ UNCHANGED nfree
    BY <2>6
  <2> QED
    BY <2>1, <2>2, <2>4, <2>5, <2>6, <2>7, <2>8, <2>11, <2>12, <2>13, <2>14, <2>15, TakesOver
<1> QED
  BY <1>3, <1>4, <1>5

------------------------------------------------------------------------------------
(* A call gets an area, or gives one back *)

LEMMA StartsApart ==
  ASSUME AreasOK, NEW a \in Areas, NEW b \in Areas, a.start = b.start
  PROVE  a = b
<1>1. a.start \in Nat /\ a.start < a.end /\ a.end \in Nat /\ b.start \in Nat /\ b.start < b.end /\ b.end \in Nat
  BY SizesOf
<1> QED
  BY <1>1 DEF AreasOK

LEMMA NewArea ==
  ASSUME IInv, NEW t \in Tasks, NEW size \in 1..MaxPages, NEW ok \in BOOLEAN,
         Fitting(size) # {}, VaAlloc(size, ok),
         NEW w, OpOK(w), w.kind \in AreaKinds, Become(t, w),
         w.addr = BestFit(size).start, w.nr = size,
         UNCHANGED <<mapped, lists, nfree>>,
         \/ Doing(t, "idle") /\ w.got = 0
         \/ t \in WithFrames /\ w.got = op[t].got
  PROVE  IInv'
<1>1. size \in Nat \ {0}
  BY MaxAssumption
<1>2. AreasOK'
  BY <1>1, VaAllocKeeps DEF IInv
<1>3. PICK got \in busy' : /\ busy' = busy \cup {got} /\ got.start = w.addr /\ size <= Size(got)
                           /\ \A b \in busy : b.start # w.addr
  BY <1>1, VaAllocKeeps DEF IInv
<1>4. OpsOK' /\ ListsOK'
  BY OpBecomes DEF IInv, ListsOK, lists
<1>5. t \notin WithArea /\ w \in AreaCalls
  BY CallTypes DEF IInv, OpOK, Idle, FrameCalls, AreaKinds, FrameKinds
<1>k. PICK k : k = AsCall(w)
  OBVIOUS
<1>6. k.by = "call" /\ k.addr = w.addr /\ k.nr = size /\ k.frames = w.got
  BY <1>k, HeldIs DEF AsCall
<1>7. Calls' = Calls \cup {k}
  BY <1>k, CallsMove DEF IInv
<1>8. Holdings' = Holdings \cup {k}
  <2>1. Vms' = Vms /\ Dmas' = Dmas /\ Drivers' = Drivers /\ lost' = lost
    BY DEF lists, Vms, Dmas, Drivers
  <2>2. Holdings' = Vms \cup Dmas \cup Drivers \cup lost \cup Calls'
    BY <2>1 DEF Holdings, Vms, Dmas, Drivers, Calls
  <2> QED
    BY <1>7, <2>2, Parts
<1>9. /\ \A a \in busy : \E g \in Holdings : g.addr = a.start
      /\ \A g, l \in Holdings : g.addr = l.addr => g = l
      /\ \A g \in Holdings : \E a \in busy : a.start = g.addr /\ g.nr <= Size(a)
  BY DEF IInv, HoldersOK, OneHolder
<1>10. \A g \in Holdings : g.addr # w.addr
  BY <1>3, <1>9
<1>11. /\ \A a \in busy' : \E g \in Holdings' : g.addr = a.start
       /\ \A g, l \in Holdings' : g.addr = l.addr => g = l
       /\ \A g \in Holdings' : \E a \in busy' : a.start = g.addr /\ g.nr <= Size(a)
  <2>1. \A a \in busy' : \E g \in Holdings' : g.addr = a.start
    BY <1>3, <1>6, <1>8, <1>9
  <2>2. \A g, l \in Holdings' : g.addr = l.addr => g = l
    BY <1>6, <1>8, <1>9, <1>10
  <2>3. \A g \in Holdings' : \E a \in busy' : a.start = g.addr /\ g.nr <= Size(a)
    BY <1>3, <1>6, <1>8, <1>9
  <2> QED
    BY <2>1, <2>2, <2>3
<1>12. CallsApart'
  <2>1. \A u \in WithArea : op[u].addr # w.addr
    <3> TAKE u \in WithArea
    <3>1. Holding(u) \in Holdings /\ Holding(u).addr = op[u].addr
      BY CallIsHolding, HeldIs DEF Holding
    <3> QED
      BY <1>10, <3>1
  <2> QED
    BY <2>1, ApartStays DEF IInv
<1>13. HoldersOK'
  <2>1. io_map_list' = io_map_list /\ io_live' = io_live
    BY DEF lists
  <2>2. \A io \in io_map_list' : io.addr \in io_live' /\ \E a \in busy' : a.start = io.addr /\ io.nr <= Size(a)
    BY <1>3, <2>1 DEF IInv, HoldersOK
  <2> QED
    BY <1>11, <1>12, <2>2 DEF HoldersOK, OneHolder, CallsApart, Size
<1>14. RamBacked'
  <2>1. \A g \in Holdings : g \in Holdings'
    BY <1>8
  <2> QED
    BY <1>5, <2>1, <1>10, <1>6, RamStays
<1>15. FramesCounted'
  <2>1. Owners = Holdings \cup Waits /\ Owners' = Holdings' \cup Waits'
    BY DEF Owners, Waits
  <2>2. k \notin Owners
    BY <1>6, <1>10, <2>1, Tags DEF IInv
  <2>3. w.got \in Nat /\ nfree \in Nat /\ nfree' = nfree /\ FramesOf(Owners)' = FramesOf(Owners')
    BY <1>5 DEF AreaCalls, IInv, FramesCounted, FramesOf
  <2>4. IsFiniteSet(FramesOf(Owners)) /\ Cardinality(FramesOf(Owners)) \in Nat
        /\ nfree + Cardinality(FramesOf(Owners)) = Frames
    BY FS_CardinalityType DEF IInv, FramesCounted
  <2>5. CASE Doing(t, "idle") /\ w.got = 0
    <3>1. Waits' = Waits
      BY <2>5, CallsMove DEF IInv
    <3>2. Owners' = Owners \cup {k}
      BY <1>8, <2>1, <3>1
    <3>3. IsFiniteSet(FramesOf(Owners')) /\ Cardinality(FramesOf(Owners')) = Cardinality(FramesOf(Owners)) + 0
      BY <1>6, <2>2, <2>4, <2>5, <3>2, OwnerJoins
    <3> QED
      BY <2>3, <2>4, <3>3 DEF FramesCounted
  <2>6. CASE t \in WithFrames /\ w.got = op[t].got
    <3>h. PICK h : h = AsWait(t, op[t])
      OBVIOUS
    <3>1. Waits' = Waits \ {h}
      BY <2>6, <3>h, CallsMove DEF IInv
    <3>2. h \in Waits /\ h.frames = w.got /\ h.by = "dma_area"
      BY <2>6, <3>h DEF Waits, AsWait
    <3>3. h \notin Holdings
      BY <3>2, Tags, Parts DEF IInv
    <3>4. Owners' = (Owners \ {h}) \cup {k} /\ h \in Owners /\ k \notin Owners \ {h}
      BY <1>8, <2>1, <2>2, <3>1, <3>2, <3>3
    <3>5. /\ IsFiniteSet(FramesOf(Owners'))
          /\ Cardinality(FramesOf(Owners')) = Cardinality(FramesOf(Owners)) - h.frames + k.frames
      BY <1>6, <2>3, <2>4, <3>2, <3>4, OwnerReplaced
    <3>6. Cardinality(FramesOf(Owners')) = Cardinality(FramesOf(Owners))
      BY <1>6, <2>3, <2>4, <3>2, <3>5
    <3> QED
      BY <2>3, <2>4, <3>5, <3>6 DEF FramesCounted
  <2> QED
    BY <2>5, <2>6
<1> QED
  BY <1>2, <1>4, <1>13, <1>14, <1>15 DEF IInv

LEMMA GiveUpStep ==
  ASSUME IInv, NEW t \in Tasks, GiveUp(t)
  PROVE  IInv'
<1>1. t \in WithArea /\ op[t] \in AreaCalls /\ op[t].got = 0
  BY CallTypes DEF IInv, GiveUp, Doing, AreaKinds, GotOK
<1>2. Become(t, Idle) /\ VaFree(op[t].addr) /\ UNCHANGED <<mapped, lists, nfree>> /\ op[t].kind = "give_up"
  BY DEF GiveUp, Doing
<1>3. OpOK(Idle) /\ Idle.kind \notin AreaKinds
  BY DEF OpOK, Idle, AreaKinds, FrameKinds
<1>4. OpsOK' /\ ListsOK'
  BY <1>2, <1>3, OpBecomes DEF IInv, ListsOK, lists
<1>5. PICK x \in busy : x.start = op[t].addr
  BY <1>1, Holder
<1>6. AreasOK' /\ busy' = busy \ {x}
  BY <1>2, <1>5, VaFreeKeeps DEF IInv
<1>h. PICK h : h = Holding(t)
  OBVIOUS
<1>7. h.by = "call" /\ h.addr = op[t].addr /\ h.frames = 0 /\ h \in Holdings /\ h \in Calls
  BY <1>1, <1>h, CallIsHolding, HeldIs DEF Holding
<1>8. Calls' = Calls \ {h} /\ Waits' = Waits
  BY <1>1, <1>2, <1>3, <1>h, CallsMove DEF IInv
<1>9. Holdings' = Holdings \ {h}
  <2>1. Vms' = Vms /\ Dmas' = Dmas /\ Drivers' = Drivers /\ lost' = lost
    BY <1>2 DEF lists, Vms, Dmas, Drivers
  <2>2. Holdings' = Vms \cup Dmas \cup Drivers \cup lost \cup Calls'
    BY <2>1 DEF Holdings, Vms, Dmas, Drivers, Calls
  <2>3. h \notin Vms /\ h \notin Dmas /\ h \notin Drivers /\ h \notin lost
    BY <1>7, Tags DEF IInv
  <2> QED
    BY <1>8, <2>2, <2>3, Parts
<1>10. /\ \A a \in busy : \E g \in Holdings : g.addr = a.start
       /\ \A g, l \in Holdings : g.addr = l.addr => g = l
       /\ \A g \in Holdings : \E a \in busy : a.start = g.addr /\ g.nr <= Size(a)
  BY DEF IInv, HoldersOK, OneHolder
<1>11. \A a \in busy : a # x => a.start # x.start
  BY StartsApart DEF IInv, Areas
<1>12. \A a \in busy' : \E g \in Holdings' : g.addr = a.start
  BY <1>5, <1>6, <1>7, <1>9, <1>10, <1>11
<1>13. \A g \in Holdings' : \E a \in busy' : a.start = g.addr /\ g.nr <= Size(a)
  <2> TAKE g \in Holdings'
  <2>1. g \in Holdings /\ g.addr # h.addr
    BY <1>7, <1>9, <1>10
  <2>2. PICK a \in busy : a.start = g.addr /\ g.nr <= Size(a)
    BY <1>10, <2>1
  <2>3. a \in busy'
    BY <1>5, <1>6, <1>7, <2>1, <2>2
  <2> QED
    BY <2>2, <2>3
<1>14. \A io \in io_map_list' : io.addr \in io_live' /\ \E a \in busy' : a.start = io.addr /\ io.nr <= Size(a)
  <2> TAKE io \in io_map_list'
  <2>1. io \in io_map_list /\ io_live' = io_live
    BY <1>2 DEF lists
  <2>2. io.addr \in io_live
    BY <2>1 DEF IInv, HoldersOK
  <2>3. PICK a \in busy : a.start = io.addr /\ io.nr <= Size(a)
    BY <2>1 DEF IInv, HoldersOK
  <2>4. PICK g \in Holdings : g.by = "driver" /\ g.addr = io.addr
    BY <2>2, ListHoldings, HeldIs, Parts DEF IInv
  <2>5. io.addr # op[t].addr
    BY <1>7, <1>10, <2>4
  <2>6. a \in busy'
    BY <1>5, <1>6, <2>3, <2>5
  <2> QED
    BY <2>1, <2>2, <2>3, <2>6
<1>15. CallsApart'
  BY <1>2, <1>3, ApartStays DEF IInv
<1>16. HoldersOK'
  BY <1>9, <1>10, <1>12, <1>13, <1>14, <1>15 DEF HoldersOK, OneHolder, CallsApart, Size
<1>17. RamBacked'
  <2>1. ~Backs(h)
    BY <1>1, <1>2, <1>h, CallBacks DEF IInv
  <2>2. \A g \in Holdings : g # h => g \in Holdings'
    BY <1>9
  <2> QED
    BY <1>2, <1>3, <1>h, <2>1, <2>2, RamStays
<1>18. FramesCounted'
  <2>1. Owners = Holdings \cup Waits /\ Owners' = Holdings' \cup Waits'
    BY DEF Owners, Waits
  <2>2. h \notin Waits
    BY <1>7, Tags DEF IInv
  <2>3. Owners' = Owners \ {h} /\ h \in Owners
    BY <1>7, <1>8, <1>9, <2>1, <2>2
  <2>4. IsFiniteSet(FramesOf(Owners)) /\ Cardinality(FramesOf(Owners)) \in Nat /\ nfree \in Nat
        /\ nfree + Cardinality(FramesOf(Owners)) = Frames /\ FramesOf(Owners)' = FramesOf(Owners')
    BY FS_CardinalityType DEF IInv, FramesCounted, FramesOf
  <2>5. IsFiniteSet(FramesOf(Owners')) /\ Cardinality(FramesOf(Owners')) = Cardinality(FramesOf(Owners)) - h.frames
    BY <1>7, <2>3, <2>4, OwnerLeaves
  <2>6. nfree' = nfree
    BY <1>2
  <2> QED
    BY <1>7, <2>4, <2>5, <2>6 DEF FramesCounted
<1> QED
  BY <1>4, <1>6, <1>16, <1>17, <1>18 DEF IInv

\* A DMA buffer's frames are taken before its area, and go back when there is none.
LEMMA FramesOnly ==
  ASSUME IInv, NEW t \in Tasks, NEW w, OpOK(w), Become(t, w),
         UNCHANGED <<areas, mapped, lists>>, nfree' \in Nat,
         \/ Doing(t, "idle") /\ w.kind = "dma_area" /\ nfree' = nfree - w.got /\ w.got \in Nat
         \/ t \in WithFrames /\ w = Idle /\ nfree' = nfree + op[t].got
  PROVE  IInv'
<1>1. w.kind \notin AreaKinds /\ t \notin WithArea
  BY CallTypes DEF IInv, Idle, AreaKinds, FrameKinds
<1>2. OpsOK' /\ ListsOK' /\ AreasOK'
  BY OpBecomes, AreasStay DEF IInv, ListsOK, lists
<1>3. Calls' = Calls
  BY CallsMove DEF IInv
<1>4. Holdings' = Holdings
  BY <1>3 DEF lists, Holdings, Calls
<1>5. CallsApart'
  BY <1>1, ApartStays DEF IInv
<1>6. HoldersOK'
  <2>1. busy' = busy /\ io_map_list' = io_map_list /\ io_live' = io_live
    BY DEF areas, lists
  <2> QED
    BY <1>4, <1>5, <2>1 DEF IInv, HoldersOK, OneHolder, CallsApart, Size
<1>7. RamBacked'
  <2>1. \A g \in Holdings : g \in Holdings'
    BY <1>4
  <2>2. PICK h : h \notin Holdings
    <3>1. AsWait(t, w) \notin Holdings
      <4>1. AsWait(t, w).by = "dma_area"
        BY DEF AsWait
      <4> QED
        BY <4>1, Tags, Parts DEF IInv
    <3> QED
      BY <3>1
  <2> QED
    BY <1>1, <2>1, <2>2, RamStays
<1>8. FramesCounted'
  <2>1. Owners = Holdings \cup Waits /\ Owners' = Holdings' \cup Waits'
    BY DEF Owners, Waits
  <2>2. IsFiniteSet(FramesOf(Owners)) /\ Cardinality(FramesOf(Owners)) \in Nat /\ nfree \in Nat
        /\ nfree + Cardinality(FramesOf(Owners)) = Frames /\ FramesOf(Owners)' = FramesOf(Owners')
    BY FS_CardinalityType DEF IInv, FramesCounted, FramesOf
  <2>3. CASE Doing(t, "idle") /\ w.kind = "dma_area" /\ nfree' = nfree - w.got /\ w.got \in Nat
    <3>k. PICK k : k = AsWait(t, w)
      OBVIOUS
    <3>1. k.by = "dma_area" /\ k.frames = w.got /\ k.task = t
      BY <3>k DEF AsWait
    <3>2. k \notin Holdings
      BY <3>1, Tags, Parts DEF IInv
    <3>3. k \notin Waits
      <4>1. t \notin WithFrames
        BY <2>3, CallTypes DEF IInv
      <4>2. \A g \in Waits : g.task \in WithFrames
        BY DEF Waits
      <4> QED
        BY <3>1, <4>1, <4>2
    <3>4. Waits' = Waits \cup {k}
      BY <2>3, <3>k, CallsMove DEF IInv
    <3>5. Owners' = Owners \cup {k} /\ k \notin Owners
      BY <1>4, <2>1, <3>2, <3>3, <3>4
    <3>6. IsFiniteSet(FramesOf(Owners')) /\ Cardinality(FramesOf(Owners')) = Cardinality(FramesOf(Owners)) + w.got
      BY <2>2, <2>3, <3>1, <3>5, OwnerJoins
    <3> QED
      BY <2>2, <2>3, <3>6 DEF FramesCounted
  <2>4. CASE t \in WithFrames /\ w = Idle /\ nfree' = nfree + op[t].got
    <3>h. PICK h : h = AsWait(t, op[t])
      OBVIOUS
    <3>1. Waits' = Waits \ {h}
      BY <2>4, <3>h, CallsMove DEF IInv
    <3>2. h \in Waits /\ h.frames = op[t].got /\ h.by = "dma_area" /\ op[t].got \in Nat
      BY <2>4, <3>h, CallTypes DEF Waits, AsWait, IInv, FrameCalls
    <3>3. h \notin Holdings
      BY <3>2, Tags, Parts DEF IInv
    <3>4. Owners' = Owners \ {h} /\ h \in Owners
      BY <1>4, <2>1, <3>1, <3>2, <3>3
    <3>5. /\ IsFiniteSet(FramesOf(Owners'))
          /\ Cardinality(FramesOf(Owners')) = Cardinality(FramesOf(Owners)) - h.frames
      BY <2>2, <3>2, <3>4, OwnerLeaves
    <3> QED
      BY <2>2, <2>4, <3>2, <3>5 DEF FramesCounted
  <2> QED
    BY <2>3, <2>4
<1> QED
  BY <1>2, <1>6, <1>7, <1>8 DEF IInv

LEMMA BeginStep ==
  ASSUME IInv, NEW t \in Tasks, NEW kind \in {"vmalloc", "ioremap", "dma"}, NEW nr \in 1..MaxPages,
         NEW got, Begin(t, kind, nr, got), UNCHANGED nfree,
         \/ Doing(t, "idle") /\ kind # "dma" /\ got = 0
         \/ t \in WithFrames /\ kind = "dma" /\ got = op[t].got /\ nr = op[t].nr
  PROVE  IInv' \/ UNCHANGED vars
<1>1. CASE Fitting(nr) = {}
  BY <1>1 DEF Begin, areas, lists, vars
<1>2. CASE Fitting(nr) # {}
  <2>1. PICK ok \in BOOLEAN :
             /\ VaAlloc(nr, ok)
             /\ Become(t, [kind |-> kind, addr |-> BestFit(nr).start, nr |-> nr, got |-> got])
    BY <1>2 DEF Begin, Kmalloc
  <2>w. PICK w : w = [kind |-> kind, addr |-> BestFit(nr).start, nr |-> nr, got |-> got]
    OBVIOUS
  <2>2. w.kind = kind /\ w.addr = BestFit(nr).start /\ w.nr = nr /\ w.got = got
    BY <2>w
  <2>3. BestFit(nr).start \in Space
    <3>1. nr \in Nat /\ BestFit(nr) \in free
      BY <1>2, BestFits, MaxAssumption DEF IInv
    <3> QED
      BY <3>1, SizesOf DEF IInv, Areas
  <2>4. got \in Nat /\ (kind = "dma" => got = DmaFrames(nr) /\ got <= Frames)
    BY CallTypes DEF IInv, FrameCalls
  <2>5. OpOK(w) /\ w.kind \in AreaKinds
    BY <2>2, <2>3, <2>4, <2>w DEF OpOK, AreaCalls, AreaKinds, FrameKinds, GotOK
  <2>6. UNCHANGED <<mapped, lists, nfree>>
    BY DEF Begin
  <2>7. Become(t, w)
    BY <2>1, <2>w
  <2>8. \/ Doing(t, "idle") /\ w.got = 0
        \/ t \in WithFrames /\ w.got = op[t].got
    BY <2>2
  <2> QED
    BY <1>2, <2>1, <2>2, <2>5, <2>6, <2>7, <2>8, NewArea
<1> QED
  BY <1>1, <1>2

LEMMA Stutters == IInv /\ UNCHANGED vars => IInv'
<1> SUFFICES ASSUME IInv, UNCHANGED vars PROVE IInv'
  OBVIOUS
<1>1. AreasOK' /\ ListsOK' /\ OpsOK'
  BY AreasStay DEF IInv, vars, areas, ListsOK, OpsOK
<1>2. Holdings' = Holdings /\ Owners' = Owners
  BY DEF vars, Holdings, Owners, WithArea, WithFrames, Holding, Doing
<1>3. HoldersOK'
  BY <1>2 DEF IInv, vars, HoldersOK, OneHolder, WithArea, Doing
<1>4. RamBacked'
  BY <1>2 DEF IInv, vars, RamBacked, Backs, WithArea, Holding, Doing
<1>5. FramesCounted'
  BY <1>2 DEF IInv, vars, FramesCounted, FramesOf
<1> QED
  BY <1>1, <1>3, <1>4, <1>5 DEF IInv

LEMMA DmaSteps ==
  ASSUME IInv, NEW t \in Tasks,
         DmaArea(t) \/ \E nr \in 1..MaxPages : DmaAlloc(t, nr)
  PROVE  IInv'
<1>1. nfree \in Nat /\ nfree <= Frames
  BY FS_CardinalityType, FramesAssumption DEF IInv, FramesCounted
<1>2. ASSUME NEW nr \in 1..MaxPages, DmaAlloc(t, nr) PROVE IInv'
  <2>w. PICK w : w = [kind |-> "dma_area", nr |-> nr, got |-> DmaFrames(nr)]
    OBVIOUS
  <2>1. w.kind = "dma_area" /\ w.nr = nr /\ w.got = DmaFrames(nr) /\ w.got \in Nat
    BY <2>w, DmaFramesType
  <2>2. /\ Become(t, w) /\ Doing(t, "idle") /\ UNCHANGED <<areas, mapped, lists>>
        /\ nfree >= w.got /\ nfree' = nfree - w.got
    BY <1>2, <2>1, <2>w DEF DmaAlloc
  <2>3. nfree' \in Nat /\ w.got <= Frames
    BY <1>1, <2>1, <2>2, FramesAssumption
  <2>4. OpOK(w)
    BY <2>1, <2>3, <2>w DEF OpOK, FrameCalls
  <2> QED
    BY <2>1, <2>2, <2>3, <2>4, FramesOnly
<1>3. CASE DmaArea(t)
  <2>1. t \in WithFrames
    BY <1>3 DEF DmaArea, WithFrames
  <2>2. op[t].nr \in 1..MaxPages /\ op[t].got \in Nat
    BY <2>1, CallTypes DEF IInv, FrameCalls
  <2>3. CASE Fitting(op[t].nr) = {}
    <3>1. Become(t, Idle) /\ nfree' = nfree + op[t].got /\ UNCHANGED <<areas, mapped, lists>>
      BY <1>3, <2>3 DEF DmaArea, ReturnFrames
    <3>2. nfree' \in Nat /\ OpOK(Idle)
      BY <1>1, <2>2, <3>1 DEF OpOK
    <3> QED
      BY <2>1, <3>1, <3>2, FramesOnly
  <2>4. CASE Fitting(op[t].nr) # {}
    <3>n. PICK nr, got : nr = op[t].nr /\ got = op[t].got
      OBVIOUS
    <3>1. Begin(t, "dma", nr, got) /\ UNCHANGED nfree
      BY <1>3, <2>4, <3>n DEF DmaArea
    <3> QED
      BY <2>1, <2>2, <3>n, <3>1, BeginStep, Stutters
  <2> QED
    BY <2>3, <2>4
<1> QED
  BY <1>2, <1>3

LEMMA InitIInv == Init => IInv
<1> SUFFICES ASSUME Init PROVE IInv
  OBVIOUS
<1>i. PICK all : all = [start |-> 0, end |-> SpacePages]
  OBVIOUS
<1>1. all \in Area /\ all.start = 0 /\ all.end = SpacePages
  BY <1>i, SpaceAssumption DEF Area, Space
<1>2. free = {all} /\ busy = {} /\ Areas = {all}
  BY <1>i DEF Init, Areas
<1>3. WithArea = {} /\ WithFrames = {}
  BY DEF Init, WithArea, WithFrames, Doing, Idle
<1>4. Holdings = {} /\ Owners = {}
  BY <1>3 DEF Init, Holdings, Owners
<1>5. AreasOK
  <2>1. Unused = 0..(SpacePages - 1)
    BY <1>1, <1>2 DEF Unused, Covered
  <2>2. Cardinality(0..(SpacePages - 1)) = SpacePages - 0
    BY SpaceAssumption, CoveredCount
  <2>3. total_free = Cardinality(Unused)
    BY <2>1, <2>2, SpaceAssumption DEF Init
  <2>4. IsFiniteSet(free) /\ IsFiniteSet(busy) /\ Cardinality(busy) = 0
    BY <1>2, FS_Singleton, FS_EmptySet
  <2>5. \A v \in Space : all.start <= v /\ v < all.end
    BY <1>1, SpaceAssumption DEF Space
  <2> QED
    BY <1>1, <1>2, <2>3, <2>4, <2>5, SpaceAssumption DEF AreasOK, Init
<1>6. ListsOK
  BY DEF Init, ListsOK
<1>7. OpsOK
  BY DEF Init, OpsOK, OpOK
<1>8. HoldersOK
  BY <1>2, <1>3, <1>4 DEF Init, HoldersOK, OneHolder
<1>9. RamBacked
  BY DEF Init, RamBacked
<1>10. FramesCounted
  <2>1. FramesOf(Owners) = {}
    BY <1>4 DEF FramesOf
  <2> QED
    BY <2>1, FS_EmptySet, FramesAssumption DEF Init, FramesCounted
<1> QED
  BY <1>5, <1>6, <1>7, <1>8, <1>9, <1>10 DEF IInv

LEMMA NextIInv == IInv /\ [Next]_vars => IInv'
<1> SUFFICES ASSUME IInv, [Next]_vars PROVE IInv'
  OBVIOUS
<1>1. CASE UNCHANGED vars
  BY <1>1, Stutters
<1>2. ASSUME NEW t \in Tasks, Call(t) PROVE IInv'
  <2>1. ASSUME NEW nr \in 1..MaxPages, Vmalloc(t, nr) PROVE IInv'
    BY <2>1, BeginStep, Stutters DEF Vmalloc
  <2>2. ASSUME NEW nr \in 1..MaxPages, Ioremap(t, nr) PROVE IInv'
    BY <2>2, BeginStep, Stutters DEF Ioremap
  <2>3. ASSUME NEW nr \in 1..MaxPages, DmaAlloc(t, nr) PROVE IInv'
    BY <2>3, DmaSteps
  <2> QED
    BY <1>2, <2>1, <2>2, <2>3, TakingSteps DEF Call
<1>3. ASSUME NEW t \in Tasks, Step(t) PROVE IInv'
  BY <1>3, InPlaceSteps, SettlingSteps, GiveUpStep, DmaSteps DEF Step
<1> QED
  BY <1>1, <1>2, <1>3 DEF Next

\* Every reachable state satisfies the inductive invariant.
THEOREM InductiveInvariant == Spec => []IInv
BY InitIInv, NextIInv, PTL DEF Spec

------------------------------------------------------------------------------------
(* What the invariant says *)

\* The number of areas is bounded by the pages of the range.
LEMMA CountersInRange ==
  ASSUME AreasOK
  PROVE  nr_busy \in 0..SpacePages /\ total_free \in (0..SpacePages) \cup {Garbage}
<1>1. IsFiniteSet(Space) /\ Cardinality(Space) = SpacePages
  <2>1. IsFiniteSet(0..(SpacePages - 1)) /\ Cardinality(0..(SpacePages - 1)) = SpacePages - 0
    BY SpaceAssumption, CoveredCount
  <2> QED
    BY <2>1, SpaceAssumption DEF Space
<1> DEFINE f == [a \in busy |-> a.start]
<1>2. f \in Injection(busy, Space)
  <2>1. f \in [busy -> Space]
    BY SizesOf DEF Areas
  <2>2. \A a, b \in busy : f[a] = f[b] => a = b
    BY StartsApart DEF Areas
  <2> QED
    BY <2>1, <2>2 DEF Injection, IsInjective
<1>3. Cardinality(busy) <= SpacePages /\ Cardinality(busy) \in Nat
  <2> HIDE DEF f
  <2> QED
    BY <1>1, <1>2, FS_Injection, FS_CardinalityType DEF AreasOK
<1>4. Cardinality(Unused) <= SpacePages /\ Cardinality(Unused) \in Nat
  BY <1>1, UnusedIs, FS_Subset
<1> QED
  BY <1>3, <1>4, SpaceAssumption DEF AreasOK

LEMMA Typed == IInv => TypeOK
<1> SUFFICES ASSUME IInv PROVE TypeOK
  OBVIOUS
<1>1. nfree \in 0..Frames
  BY FS_CardinalityType, FramesAssumption DEF IInv, FramesCounted
<1>2. nr_busy \in 0..SpacePages /\ total_free \in (0..SpacePages) \cup {Garbage}
  BY CountersInRange DEF IInv
<1> QED
  BY <1>1, <1>2 DEF IInv, AreasOK, ListsOK, TypeOK, LostRecords

LEMMA Partitioned == IInv => AreasPartition
<1> SUFFICES ASSUME IInv PROVE AreasPartition
  OBVIOUS
<1>1. \A a \in Areas : a \in Area /\ a.start \in Nat /\ a.end \in Nat /\ Size(a) > 0 /\ a.end <= SpacePages
  BY SizesOf DEF IInv
<1>2. \A a, b \in Areas : a # b => Covered(a) \cap Covered(b) = {}
  <2> TAKE a, b \in Areas
  <2> HAVE a # b
  <2>1. a.end <= b.start \/ b.end <= a.start
    BY DEF IInv, AreasOK
  <2> QED
    BY <1>1, <2>1 DEF Covered
<1>3. UNION {Covered(a) : a \in Areas} = Space
  <2>1. \A a \in Areas : Covered(a) \subseteq Space
    BY <1>1, SpaceAssumption DEF Covered, Space
  <2>2. \A v \in Space : \E a \in Areas : v \in Covered(a)
    <3> TAKE v \in Space
    <3>1. PICK a \in Areas : a.start <= v /\ v < a.end
      BY DEF IInv, AreasOK
    <3>2. v \in Int
      BY DEF Space
    <3> QED
      BY <1>1, <3>1, <3>2 DEF Covered
  <2> QED
    BY <2>1, <2>2
<1> QED
  BY <1>1, <1>2, <1>3, Typed DEF IInv, AreasOK, AreasPartition, Unused

LEMMA FramesAreExact == IInv => FramesExact
<1> SUFFICES ASSUME IInv PROVE FramesExact
  OBVIOUS
<1>1. \A h \in Holdings : Backs(h) => h.frames > 0
  <2> TAKE h \in Holdings
  <2> HAVE Backs(h)
  <2>1. CASE h \in Vms
    BY <2>1, HoldingTypes, HeldIs, MaxAssumption DEF IInv, Vms, ListsOK, Extents
  <2>2. CASE h \in Dmas
    BY <2>2, DmaFramesType, HeldIs DEF IInv, Dmas, ListsOK, Extents
  <2>3. CASE h \in Drivers
    BY <2>3, Tags DEF IInv, Backs
  <2>4. CASE h \in lost
    BY <2>4, Tags DEF IInv, Backs
  <2>5. CASE h \in Calls
    <3>1. PICK t \in WithArea : h = Holding(t) /\ op[t].kind \in {"vfree", "dma_free"}
      BY <2>5, Tags DEF IInv, Backs
    <3>2. t \in Tasks
      BY DEF WithArea
    <3>3. op[t].nr \in 1..MaxPages /\ GotOK(op[t])
      BY <3>1, <3>2, CallTypes DEF IInv, AreaCalls
    <3>4. op[t].got > 0
      BY <3>1, <3>3, DmaFramesType, MaxAssumption DEF GotOK, FrameKinds
    <3> QED
      BY <3>1, <3>4, HeldIs DEF Holding
  <2> QED
    BY <2>1, <2>2, <2>3, <2>4, <2>5, Parts
<1> QED
  BY <1>1 DEF IInv, FramesCounted, RamBacked, FramesExact

\* The free and the busy areas partition the range in every reachable state, and nr_busy
\* and total_free (until it is spoilt) count them, for every size of the range (va_alloc,
\* va_free).
THEOREM AreasStayPartitioned == Spec => []AreasPartition
BY InductiveInvariant, Partitioned, PTL

\* Every busy area has exactly one holder, who asked for no more than it has (vmalloc,
\* vfree, ioremap, iounmap, dma_alloc_coherent, dma_free_coherent).
THEOREM AreasHaveOneHolder == Spec => []OneHolder
<1>1. IInv => OneHolder
  BY DEF IInv, HoldersOK
<1> QED
  BY <1>1, InductiveInvariant, PTL

\* No frame is lost or freed twice, and none is freed while a page is mapped to it (the
\* failure paths of vmalloc and dma_alloc_coherent, the order of vfree).
THEOREM FramesStayExact == Spec => []FramesExact
BY InductiveInvariant, FramesAreExact, PTL

------------------------------------------------------------------------------------
(* Refinement *)

\* A step leaves the busy areas alone, or adds one, or removes one.
LEMMA BusyMoves ==
  ASSUME IInv, [Next]_vars
  PROVE  \/ busy' = busy
         \/ \E got \in busy' : busy' = busy \cup {got} /\ \A b \in busy : b.start # got.start
         \/ \E x \in busy : busy' = busy \ {x}
<1> DEFINE Moves == \/ busy' = busy
                    \/ \E got \in busy' : busy' = busy \cup {got} /\ \A b \in busy : b.start # got.start
                    \/ \E x \in busy : busy' = busy \ {x}
<1>1. CASE UNCHANGED vars
  BY <1>1 DEF vars
<1>2. ASSUME NEW t \in Tasks, NEW kind, NEW nr \in 1..MaxPages, NEW got, Begin(t, kind, nr, got)
      PROVE  Moves
  <2>1. CASE Fitting(nr) = {}
    BY <1>2, <2>1 DEF Begin, areas
  <2>2. CASE Fitting(nr) # {}
    <3>1. PICK ok \in BOOLEAN : VaAlloc(nr, ok)
      BY <1>2, <2>2 DEF Begin, Kmalloc
    <3>2. nr \in Nat \ {0}
      BY MaxAssumption
    <3> QED
      BY <2>2, <3>1, <3>2, VaAllocKeeps DEF IInv
  <2> QED
    BY <2>1, <2>2
<1>3. ASSUME NEW t \in Tasks, Call(t) PROVE Moves
  <2>1. ASSUME NEW nr \in 1..MaxPages, Vmalloc(t, nr) \/ Ioremap(t, nr) PROVE Moves
    BY <1>2, <2>1 DEF Vmalloc, Ioremap
  <2>2. CASE UNCHANGED areas
    BY <2>2 DEF areas
  <2> QED
    BY <1>3, <2>1, <2>2 DEF Call, DmaAlloc, Vfree, Iounmap, DmaFree
<1>4. ASSUME NEW t \in Tasks, Step(t) PROVE Moves
  <2>1. CASE UNCHANGED areas
    BY <2>1 DEF areas
  <2>2. CASE GiveUp(t)
    <3>1. t \in WithArea /\ VaFree(op[t].addr)
      BY <2>2, CallTypes DEF IInv, GiveUp, Doing, AreaKinds
    <3>2. PICK x \in busy : x.start = op[t].addr
      BY <3>1, Holder
    <3> QED
      BY <3>1, <3>2, VaFreeKeeps DEF IInv
  <2>3. CASE DmaArea(t)
    <3>1. op[t].nr \in 1..MaxPages
      BY <2>3, CallTypes DEF IInv, DmaArea, Doing, FrameCalls
    <3>n. PICK nr, got : nr = op[t].nr /\ got = op[t].got
      OBVIOUS
    <3>2. Begin(t, "dma", nr, got) \/ UNCHANGED areas
      BY <2>3, <3>n DEF DmaArea
    <3> QED
      BY <1>2, <2>1, <3>1, <3>n, <3>2
  <2> QED
    BY <1>4, <2>1, <2>2, <2>3
       DEF Step, VmallocMeta, VmallocPage, VmallocMap, VmallocCleanup, VfreeUnmap, IoremapMap,
           DmaMap, DmaUnmap, DmaPut
<1> QED
  BY <1>1, <1>3, <1>4 DEF Next

\* The blocks of the abstract allocator that a set of areas stands for.
Blocks(B) == {<<a.start, Size(a)>> : a \in B}

LEMMA StepRefines == IInv /\ IInv' /\ [Next]_vars => [PA!Next]_(Blocks(busy))
<1> SUFFICES ASSUME IInv, IInv', [Next]_vars PROVE [PA!Next]_(Blocks(busy))
  OBVIOUS
<1>1. \A a \in busy : /\ a.start \in Space /\ a.start \in Nat /\ a.end \in Nat /\ a.end <= SpacePages
                      /\ Size(a) \in 1..SpacePages /\ Size(a) = a.end - a.start
  BY SizesOf, SpaceAssumption DEF IInv, Areas
<1>2. CASE busy' = busy
  BY <1>2 DEF Blocks, Size
<1>3. ASSUME NEW got \in busy', busy' = busy \cup {got}, \A b \in busy : b.start # got.start
      PROVE  PA!Next
  <2>1. /\ got.start \in Space /\ got.start \in Nat /\ got.end \in Nat /\ got.end <= SpacePages
        /\ Size(got) \in 1..SpacePages /\ Size(got) = got.end - got.start
    <3>1. got \in Area /\ got.start < got.end
      BY <1>3 DEF IInv, AreasOK, Areas
    <3> QED
      BY <3>1, SpaceAssumption DEF Area, Space, Size
  <2>2. Blocks(busy)' = Blocks(busy) \cup {<<got.start, Size(got)>>}
    BY <1>3 DEF Blocks, Size
  <2>3. Blocks(busy)' # Blocks(busy)
    <3>b. PICK b : b = <<got.start, Size(got)>>
      OBVIOUS
    <3>1. b \notin Blocks(busy)
      BY <1>3, <3>b DEF Blocks
    <3>2. b \in Blocks(busy)'
      BY <2>2, <3>b
    <3> QED
      BY <3>1, <3>2
  <2>4. PageRange(got.start, Size(got)) \subseteq Space
    BY <2>1, SpaceAssumption DEF PageRange, Space
  <2>5. \A b \in Blocks(busy) : PageRange(got.start, Size(got)) \cap PageRange(b[1], b[2]) = {}
    <3> TAKE b \in Blocks(busy)
    <3>1. PICK a \in busy : b = <<a.start, Size(a)>>
      BY DEF Blocks
    <3>2. a.end <= got.start \/ got.end <= a.start
      BY <1>3 DEF IInv, AreasOK, Areas
    <3> QED
      BY <1>1, <2>1, <3>1, <3>2 DEF PageRange
  <2> QED
    BY <2>1, <2>2, <2>3, <2>4, <2>5 DEF PA!Next, PA!Alloc, Blocks
<1>4. ASSUME NEW x \in busy, busy' = busy \ {x} PROVE PA!Next
  <2>b. PICK b : b = <<x.start, Size(x)>>
    OBVIOUS
  <2>1. b \in Blocks(busy)
    BY <2>b DEF Blocks
  <2>2. \A a \in busy : a.start = x.start => a = x
    BY StartsApart DEF IInv, Areas
  <2>3. Blocks(busy)' = Blocks(busy) \ {b}
    BY <1>4, <2>b, <2>2 DEF Blocks, Size
  <2>4. Blocks(busy)' # Blocks(busy)
    BY <2>1, <2>3
  <2> QED
    BY <2>1, <2>3, <2>4 DEF PA!Next, PA!Free, Blocks
<1> QED
  BY <1>2, <1>3, <1>4, BusyMoves

\* The area manager, with everything that uses it, implements the abstract allocator on
\* the pages of the range (va_alloc, va_free).
THEOREM Refinement == Spec => ImplementsPageAlloc
<1>1. Init => PA!Init
  BY DEF Init, PA!Init
<1>2. IInv /\ IInv' /\ [Next]_vars => [PA!Next]_({<<a.start, Size(a)>> : a \in busy})
  BY StepRefines DEF Blocks
<1> QED
  BY <1>1, <1>2, InductiveInvariant, PTL DEF Spec, ImplementsPageAlloc, PA!Spec
====================================================================================
