----------------------------- MODULE BuddyProofs -----------------------------
(***************************************************************************)
(* The buddy allocator is correct for every size of memory and every       *)
(* maximal order: proofs of the invariants of module Buddy, and of its     *)
(* refinement of PageAlloc.                                                *)
(***************************************************************************)
EXTENDS Buddy, SetLemmas

\* The list operations: appending a new element and list_del of an element.
LEMMA AppendIsList ==
  ASSUME NEW S, NEW R \in SUBSET S, NEW s \in Seq(S), IsListOf(s, R),
         NEW x \in S, x \notin R
  PROVE  /\ Append(s, x) \in Seq(S)
         /\ Len(Append(s, x)) = Len(s) + 1
         /\ IsListOf(Append(s, x), R \cup {x})
<1> DEFINE t == Append(s, x)
<1>1. t \in Seq(S) /\ Len(t) = Len(s) + 1
  OBVIOUS
<1>2. \A i \in 1..Len(s) : t[i] = s[i] /\ s[i] \in R
  BY DEF IsListOf
<1>3. t[Len(s) + 1] = x
  OBVIOUS
<1>4. \A i, j \in 1..Len(t) : t[i] = t[j] => i = j
  <2> SUFFICES ASSUME NEW i \in 1..Len(t), NEW j \in 1..Len(t), t[i] = t[j]
               PROVE  i = j
    OBVIOUS
  <2> HIDE DEF t
  <2>1. CASE i \in 1..Len(s) /\ j \in 1..Len(s)
    BY <1>2, <2>1 DEF IsListOf
  <2>2. CASE i = Len(s) + 1 \/ j = Len(s) + 1
    BY <1>1, <1>2, <1>3, <2>2
  <2> QED
    BY <1>1, <2>1, <2>2
<1>5. {t[i] : i \in 1..Len(t)} = R \cup {x}
  <2> HIDE DEF t
  <2>1. R = {s[i] : i \in 1..Len(s)}
    BY DEF IsListOf
  <2>2. ASSUME NEW y \in R \cup {x} PROVE \E i \in 1..Len(t) : t[i] = y
    BY <1>1, <1>2, <1>3, <2>1
  <2>3. ASSUME NEW i \in 1..Len(t) PROVE t[i] \in R \cup {x}
    BY <1>1, <1>2, <1>3
  <2> QED
    BY <2>2, <2>3
<1> QED
  BY <1>1, <1>4, <1>5 DEF IsListOf

LEMMA ListDelIsList ==
  ASSUME NEW S, NEW R \in SUBSET S, NEW s \in Seq(S), IsListOf(s, R), NEW x \in R
  PROVE  /\ ListDel(s, x) \in Seq(S)
         /\ Len(ListDel(s, x)) = Len(s) - 1
         /\ Len(s) > 0
         /\ IsListOf(ListDel(s, x), R \ {x})
<1> DEFINE at == CHOOSE i \in 1..Len(s) : s[i] = x
           t  == ListDel(s, x)
<1>1. Len(s) \in Nat /\ at \in 1..Len(s) /\ s[at] = x
  BY DEF IsListOf
<1>2. t = [i \in 1..(Len(s) - 1) |-> IF i < at THEN s[i] ELSE s[i + 1]]
  BY DEF ListDel
<1> HIDE DEF at, t
<1>3. t \in Seq(S) /\ Len(t) = Len(s) - 1
  <2>1. Len(s) - 1 \in Nat
    BY <1>1
  <2>2. \A i \in 1..(Len(s) - 1) : (IF i < at THEN s[i] ELSE s[i + 1]) \in S
    BY <1>1
  <2> QED
    BY <1>2, <2>1, <2>2
<1>4. \A i \in 1..Len(t) : t[i] = IF i < at THEN s[i] ELSE s[i + 1]
  BY <1>2, <1>3
<1>5. \A i, j \in 1..Len(t) : t[i] = t[j] => i = j
  BY <1>1, <1>3, <1>4 DEF IsListOf
<1>6. {t[i] : i \in 1..Len(t)} = R \ {x}
  <2>1. R = {s[i] : i \in 1..Len(s)}
    BY DEF IsListOf
  <2>2. ASSUME NEW y \in R \ {x} PROVE \E i \in 1..Len(t) : t[i] = y
    <3>1. PICK j \in 1..Len(s) : s[j] = y
      BY <2>1
    <3>2. CASE j < at
      BY <1>1, <1>3, <1>4, <3>1, <3>2
    <3>3. CASE j > at
      <4>1. j - 1 \in 1..Len(t) /\ t[j - 1] = s[j]
        BY <1>1, <1>3, <1>4, <3>3
      <4> QED
        BY <4>1, <3>1
    <3> QED
      BY <1>1, <3>1, <3>2, <3>3
  <2>3. ASSUME NEW i \in 1..Len(t) PROVE t[i] \in R \ {x}
    BY <1>1, <1>3, <1>4, <2>1 DEF IsListOf
  <2> QED
    BY <2>2, <2>3
<1> QED
  BY <1>1, <1>3, <1>5, <1>6 DEF IsListOf, t

-----------------------------------------------------------------------------
(* Arithmetic of blocks *)

LEMMA BlockFacts ==
  ASSUME NEW o \in Orders
  PROVE  /\ BlockPages[o] \in Nat \ {0}
         /\ o < MaxOrder => o + 1 \in Orders /\ BlockPages[o + 1] = 2 * BlockPages[o]
         /\ o > 0 => o - 1 \in Orders /\ BlockPages[o] = 2 * BlockPages[o - 1]
BY SizeAssumption, ShiftAssumption DEF Orders

\* The buddy of a block is one of its two neighbours.
LEMMA BuddyIsNeighbour ==
  ASSUME NEW p \in Nat, NEW o \in Orders
  PROVE  /\ BuddyPfn(p, o) \in Nat
         /\ \/ BuddyPfn(p, o) = p + BlockPages[o]
            \/ BuddyPfn(p, o) = p - BlockPages[o]
<1> DEFINE n == BlockPages[o]
<1>1. n \in Nat /\ n > 0
  BY BlockFacts
<1>2. CASE (p \div n) % 2 = 0
  BY <1>1, <1>2 DEF BuddyPfn
<1>3. CASE (p \div n) % 2 # 0
  <2>1. p >= n
    <3> SUFFICES ASSUME p < n PROVE p \div n = 0
      BY <1>1, <1>3
    <3> HIDE DEF n
    <3> QED
      BY <1>1
  <2> QED
    BY <1>1, <1>3, <2>1 DEF BuddyPfn
<1> QED
  BY <1>2, <1>3

-----------------------------------------------------------------------------
(* Every action preserves the invariant *)

LEMMA InitIInv == Init => IInv
<1> SUFFICES ASSUME Init PROVE IInv
  OBVIOUS
<1> USE SizeAssumption DEF Init
<1>1. TypeOK
  BY DEF TypeOK, Orders, Pages, Errors
<1>2. BlocksDisjoint
  BY DEF BlocksDisjoint, Heads, InFlight, Managed, Pages
<1>3. NoFrameLost
  BY DEF NoFrameLost, InFlight, Managed
<1>4. FreeListsAgree
  BY DEF FreeListsAgree, IsListOf, FreeHeads, Pages
<1> QED
  BY <1>1, <1>2, <1>3, <1>4 DEF IInv

\* A free head is linked in the list of its order, a linked page is a free head.
LEMMA LinkedIsFree ==
  ASSUME IInv, NEW o \in Orders
  PROVE  /\ \A i \in 1..Len(free_list[o]) :
              free_list[o][i] \in FreeHeads /\ order[free_list[o][i]] = o
         /\ free_list[o] \in Seq(Pages)
         /\ {p \in FreeHeads : order[p] = o} \in SUBSET Pages
BY DEF IInv, TypeOK, FreeListsAgree, IsListOf, FreeHeads

\* Linking a page that heads no block keeps the lists and the flags in agreement.
LEMMA AddKeepsLists ==
  ASSUME IInv, NEW p \in Pages, NEW o \in Orders, p \notin FreeHeads,
         FreeHeads' = FreeHeads \cup {p}, order'[p] = o,
         \A q \in FreeHeads : order'[q] = order[q],
         free_list' = [free_list EXCEPT ![o] = Append(@, p)],
         nr_free' = [nr_free EXCEPT ![o] = @ + 1]
  PROVE  FreeListsAgree' /\ free_list' \in [Orders -> Seq(Pages)] /\ nr_free' \in [Orders -> Nat]
<1> DEFINE R(k) == {q \in FreeHeads : order[q] = k}
<1>1. free_list \in [Orders -> Seq(Pages)] /\ nr_free \in [Orders -> Nat]
      /\ flags \in [Pages -> {"none", "reserved", "buddy", "allocated"}]
      /\ order \in [Pages -> Orders]
  BY DEF IInv, TypeOK
<1>2. \A k \in Orders : IsListOf(free_list[k], R(k)) /\ nr_free[k] = Len(free_list[k])
  BY DEF IInv, FreeListsAgree
<1>3. /\ Append(free_list[o], p) \in Seq(Pages)
      /\ Len(Append(free_list[o], p)) = Len(free_list[o]) + 1
      /\ IsListOf(Append(free_list[o], p), R(o) \cup {p})
  <2>1. R(o) \in SUBSET Pages /\ p \notin R(o) /\ free_list[o] \in Seq(Pages)
    BY <1>1 DEF FreeHeads
  <2> QED
    BY <1>2, <2>1, AppendIsList
<1>4. R(o)' = R(o) \cup {p}
  OBVIOUS
<1>5. \A k \in Orders \ {o} : R(k)' = R(k)
  OBVIOUS
<1>6. /\ free_list' = [free_list EXCEPT ![o] = Append(@, p)]
      /\ nr_free' = [nr_free EXCEPT ![o] = @ + 1]
  OBVIOUS
<1>7. free_list' \in [Orders -> Seq(Pages)] /\ nr_free' \in [Orders -> Nat]
  BY <1>1, <1>3, <1>6
<1>8. ASSUME NEW k \in Orders
      PROVE  IsListOf(free_list'[k], R(k)') /\ nr_free'[k] = Len(free_list'[k])
  <2>1. CASE k = o
    <3>1. free_list'[o] = Append(free_list[o], p) /\ nr_free'[o] = nr_free[o] + 1
      BY <1>1, <1>6
    <3>2. nr_free'[o] = Len(free_list'[o])
      BY <1>2, <1>3, <3>1
    <3> QED
      BY <1>3, <1>4, <2>1, <3>1, <3>2, Zenon
  <2>2. CASE k # o
    <3>1. free_list'[k] = free_list[k] /\ nr_free'[k] = nr_free[k] /\ R(k)' = R(k)
      BY <1>1, <1>5, <1>6, <2>2
    <3> QED
      BY <1>2, <3>1, Zenon
  <2> QED
    BY <2>1, <2>2
<1> QED
  BY <1>7, <1>8 DEF FreeListsAgree

\* Unlinking a free head of order o, likewise.
LEMMA RemoveKeepsLists ==
  ASSUME IInv, NEW o \in Orders, NEW p \in FreeHeads, order[p] = o,
         RemoveFromFreeArea(p, o)
  PROVE  FreeListsAgree' /\ free_list' \in [Orders -> Seq(Pages)] /\ nr_free' \in [Orders -> Nat]
<1> DEFINE R(k) == {q \in FreeHeads : order[q] = k}
<1>1. free_list \in [Orders -> Seq(Pages)] /\ nr_free \in [Orders -> Nat]
      /\ flags \in [Pages -> {"none", "reserved", "buddy", "allocated"}]
      /\ order \in [Pages -> Orders] /\ p \in Pages
  BY DEF IInv, TypeOK, FreeHeads
<1>2. \A k \in Orders : IsListOf(free_list[k], R(k)) /\ nr_free[k] = Len(free_list[k])
  BY DEF IInv, FreeListsAgree
<1>3. /\ ListDel(free_list[o], p) \in Seq(Pages)
      /\ Len(ListDel(free_list[o], p)) = Len(free_list[o]) - 1
      /\ Len(free_list[o]) > 0
      /\ IsListOf(ListDel(free_list[o], p), R(o) \ {p})
  <2>1. R(o) \in SUBSET Pages /\ p \in R(o) /\ free_list[o] \in Seq(Pages)
    BY <1>1 DEF FreeHeads
  <2> QED
    BY <1>2, <2>1, ListDelIsList
<1>4. R(o)' = R(o) \ {p}
  BY <1>1 DEF RemoveFromFreeArea, FreeHeads
<1>5. \A k \in Orders \ {o} : R(k)' = R(k)
  BY <1>1 DEF RemoveFromFreeArea, FreeHeads
<1>6. /\ free_list' = [free_list EXCEPT ![o] = ListDel(@, p)]
      /\ nr_free' = [nr_free EXCEPT ![o] = @ - 1]
  BY DEF RemoveFromFreeArea
<1>7. free_list' \in [Orders -> Seq(Pages)] /\ nr_free' \in [Orders -> Nat]
  <2>1. nr_free[o] \in Nat /\ nr_free[o] > 0
    BY <1>1, <1>2, <1>3
  <2>2. nr_free[o] - 1 \in Nat
    BY <2>1
  <2> QED
    BY <1>1, <1>3, <1>6, <2>2
<1>8. ASSUME NEW k \in Orders
      PROVE  IsListOf(free_list'[k], R(k)') /\ nr_free'[k] = Len(free_list'[k])
  <2>1. CASE k = o
    BY <1>1, <1>2, <1>3, <1>4, <1>6, <2>1
  <2>2. CASE k # o
    BY <1>1, <1>2, <1>5, <1>6, <2>2
  <2> QED
    BY <2>1, <2>2
<1> QED
  BY <1>7, <1>8 DEF FreeListsAgree

\* The frames of a block, and that a head lies in its own block.
LEMMA HeadFacts ==
  ASSUME IInv, NEW p \in Heads
  PROVE  /\ p \in Pages /\ p \in Nat /\ order[p] \in Orders
         /\ p \in Block(p, order[p])
         /\ p \notin InFlight
         /\ p \in Managed
<1>1. p \in Pages /\ p \in Nat /\ order[p] \in Orders
  BY SizeAssumption DEF IInv, TypeOK, Heads, Pages
<1>2. p \in Block(p, order[p])
  BY <1>1, BlockFacts DEF Block
<1> QED
  BY <1>1, <1>2 DEF IInv, BlocksDisjoint

LEMMA InitBlockStep == ASSUME IInv, InitBlock PROVE IInv'
<1> USE SizeAssumption
<1>1. PICK o \in Orders :
       /\ InitFits(o)
       /\ flags' = [p \in Pages |-> IF p = pfn THEN "buddy"
                                    ELSE IF p \in Block(pfn, o) THEN "none"
                                    ELSE flags[p]]
       /\ order' = [p \in Pages |-> IF p = pfn THEN o
                                    ELSE IF p \in Block(pfn, o) THEN 0
                                    ELSE order[p]]
       /\ free_list' = [free_list EXCEPT ![o] = Append(@, pfn)]
       /\ nr_free' = [nr_free EXCEPT ![o] = @ + 1]
       /\ pfn' = pfn + BlockPages[o]
  BY DEF InitBlock, InitOrder
<1>2. /\ pc = "init" /\ pc' = "init" /\ UNCHANGED <<ref_count, last_error, high, low>>
      /\ pfn \in Pages /\ pfn \in Nat
  BY DEF InitBlock, IInv, TypeOK, Pages
<1>3. /\ BlockPages[o] \in Nat \ {0} /\ pfn + BlockPages[o] <= TotalPages
      /\ Block(pfn, o) \subseteq InFlight
  BY <1>1, <1>2, BlockFacts DEF InitFits, Block, InFlight
<1>4. \A p \in Heads : p \notin Block(pfn, o) /\ p # pfn
  BY <1>2, <1>3, HeadFacts DEF Block
<1>5. Heads' = Heads \cup {pfn} /\ FreeHeads' = FreeHeads \cup {pfn}
  BY <1>1, <1>2, <1>4 DEF Heads, FreeHeads
<1>6. order'[pfn] = o /\ \A p \in Heads : order'[p] = order[p]
  BY <1>1, <1>2, <1>4 DEF Heads
<1>7. InFlight' = (pfn + BlockPages[o])..(TotalPages - 1) /\ InFlight = pfn..(TotalPages - 1)
  BY <1>1, <1>2 DEF InFlight
<1>8. FreeListsAgree' /\ free_list' \in [Orders -> Seq(Pages)] /\ nr_free' \in [Orders -> Nat]
  <2>1. pfn \notin FreeHeads /\ \A q \in FreeHeads : order'[q] = order[q]
    BY <1>4, <1>6 DEF Heads, FreeHeads
  <2> QED
    BY <1>1, <1>2, <1>5, <1>6, <2>1, AddKeepsLists
<1>9. TypeOK'
  <2>1. 0 \in Orders
    BY DEF Orders
  <2>2. /\ flags' \in [Pages -> {"none", "reserved", "buddy", "allocated"}]
        /\ order' \in [Pages -> Orders]
    BY <1>1, <2>1 DEF IInv, TypeOK
  <2>3. pfn' \in 0..TotalPages
    BY <1>1, <1>2, <1>3
  <2> QED
    BY <1>2, <1>8, <2>2, <2>3 DEF IInv, TypeOK
<1>10. BlocksDisjoint'
  BY <1>2, <1>3, <1>5, <1>6, <1>7 DEF IInv, BlocksDisjoint, Block
<1>11. NoFrameLost'
  BY <1>2, <1>3, <1>5, <1>6, <1>7 DEF IInv, NoFrameLost, Block, Managed
<1> QED
  BY <1>8, <1>9, <1>10, <1>11 DEF IInv

LEMMA InitDoneStep == ASSUME IInv, InitDone PROVE IInv'
<1> USE SizeAssumption DEF InitDone
<1>1. InFlight = {} /\ InFlight' = {}
  BY DEF InFlight
<1>2. Heads' = Heads /\ FreeHeads' = FreeHeads
  BY DEF Heads, FreeHeads
<1>3. TypeOK'
  BY DEF IInv, TypeOK
<1> QED
  BY <1>1, <1>2, <1>3 DEF IInv, BlocksDisjoint, NoFrameLost, FreeListsAgree

\* The steps that change neither a block nor a list nor the locals.
LEMMA QuietStep ==
  ASSUME IInv, UNCHANGED <<flags, order, free_list, nr_free, pc, pfn, high, low>>,
         last_error' \in Errors, ref_count' \in [Pages -> Nat]
  PROVE  IInv'
<1>1. Heads' = Heads /\ FreeHeads' = FreeHeads /\ InFlight' = InFlight
  BY DEF Heads, FreeHeads, InFlight
<1>2. TypeOK'
  BY DEF IInv, TypeOK
<1> QED
  BY <1>1, <1>2 DEF IInv, BlocksDisjoint, NoFrameLost, FreeListsAgree

LEMMA AllocTakeStep ==
  ASSUME IInv, NEW o \in 0..(MaxOrder + 1), NEW dma \in BOOLEAN, AllocTake(o, dma)
  PROVE  IInv'
<1> USE SizeAssumption
<1>1. PICK cur \in o..MaxOrder :
        /\ Usable(cur, dma)
        /\ RemoveFromFreeArea(Head(free_list[cur]), cur)
        /\ pfn' = Head(free_list[cur])
        /\ high' = cur
  BY DEF AllocTake
<1> DEFINE p == Head(free_list[cur])
<1>2. /\ pc = "idle" /\ o <= MaxOrder /\ low' = o /\ pc' = "expand"
      /\ UNCHANGED <<ref_count, last_error>>
      /\ cur \in Orders /\ o \in Orders /\ o <= cur
  BY DEF AllocTake, Orders
<1>3. p \in FreeHeads /\ order[p] = cur /\ p \in Pages
  <2>1. free_list[cur] \in Seq(Pages) /\ free_list[cur] # <<>>
    BY <1>1, <1>2, LinkedIsFree DEF Usable
  <2>2. 1 \in 1..Len(free_list[cur]) /\ p = free_list[cur][1]
    BY <2>1
  <2> HIDE DEF p
  <2> QED
    BY <1>2, <2>2, LinkedIsFree DEF FreeHeads
<1> HIDE DEF p
<1>4. FreeListsAgree' /\ free_list' \in [Orders -> Seq(Pages)] /\ nr_free' \in [Orders -> Nat]
  BY <1>1, <1>2, <1>3, RemoveKeepsLists DEF p
<1>5. /\ flags' = [flags EXCEPT ![p] = "none"] /\ order' = [order EXCEPT ![p] = 0]
      /\ flags \in [Pages -> {"none", "reserved", "buddy", "allocated"}]
      /\ order \in [Pages -> Orders]
  BY <1>1 DEF p, RemoveFromFreeArea, IInv, TypeOK
<1>6. /\ Heads' = Heads \ {p} /\ p \in Heads
      /\ \A q \in Heads \ {p} : order'[q] = order[q]
  BY <1>3, <1>5 DEF Heads, FreeHeads
<1>7. InFlight = {} /\ InFlight' = Block(p, order[p])
  BY <1>1, <1>2, <1>3 DEF InFlight, p
<1>8. TypeOK'
  <2>1. 0 \in Orders /\ pfn' \in 0..TotalPages
    BY <1>1, <1>3 DEF Orders, Pages, p
  <2>2. /\ flags' \in [Pages -> {"none", "reserved", "buddy", "allocated"}]
        /\ order' \in [Pages -> Orders]
    BY <1>5, <2>1
  <2> QED
    BY <1>1, <1>2, <1>4, <2>1, <2>2 DEF IInv, TypeOK
<1>9. BlocksDisjoint'
  BY <1>6, <1>7 DEF IInv, BlocksDisjoint
<1>10. NoFrameLost'
  BY <1>6, <1>7 DEF IInv, NoFrameLost
<1> QED
  BY <1>4, <1>8, <1>9, <1>10 DEF IInv

LEMMA ExpandBlockStep == ASSUME IInv, ExpandBlock PROVE IInv'
<1> USE SizeAssumption
<1> DEFINE k == high - 1
           r == pfn + BlockPages[k]
<1>1. /\ pc = "expand" /\ pc' = "expand" /\ high > low /\ high' = k
      /\ UNCHANGED <<ref_count, last_error, pfn, low>>
      /\ AddToFreeArea(r, k)
  BY DEF ExpandBlock, RightHalf
<1>2. /\ high \in Orders /\ low \in Orders /\ k \in Orders /\ low <= k
      /\ BlockPages[k] \in Nat \ {0} /\ BlockPages[high] = 2 * BlockPages[k]
      /\ pfn \in Nat
  BY <1>1, BlockFacts DEF IInv, TypeOK, Orders
<1>3. InFlight = Block(pfn, high) /\ InFlight' = Block(pfn, k)
  BY <1>1 DEF InFlight
<1> HIDE DEF k
<1>4. r \in Nat /\ r \in InFlight /\ InFlight = Block(pfn, k) \cup Block(r, k)
  BY <1>2, <1>3 DEF Block
<1>5. InFlight' \cap Block(r, k) = {}
  BY <1>2, <1>3 DEF Block
<1> HIDE DEF r
<1>6. r \in Pages /\ r \notin Heads /\ r \notin FreeHeads
  BY <1>4, HeadFacts DEF IInv, BlocksDisjoint, Managed, Pages, Heads, FreeHeads
<1>7. /\ flags' = [flags EXCEPT ![r] = "buddy"] /\ order' = [order EXCEPT ![r] = k]
      /\ flags \in [Pages -> {"none", "reserved", "buddy", "allocated"}]
      /\ order \in [Pages -> Orders]
  BY <1>1 DEF AddToFreeArea, IInv, TypeOK
<1>8. /\ Heads' = Heads \cup {r} /\ FreeHeads' = FreeHeads \cup {r}
      /\ order'[r] = k /\ \A q \in Heads : order'[q] = order[q]
  BY <1>6, <1>7 DEF Heads, FreeHeads
<1>9. FreeListsAgree' /\ free_list' \in [Orders -> Seq(Pages)] /\ nr_free' \in [Orders -> Nat]
  <2>1. \A q \in FreeHeads : order'[q] = order[q]
    BY <1>8 DEF Heads, FreeHeads
  <2> QED
    BY <1>1, <1>2, <1>6, <1>8, <2>1, AddKeepsLists DEF AddToFreeArea
<1>10. TypeOK'
  <2>1. /\ flags' \in [Pages -> {"none", "reserved", "buddy", "allocated"}]
        /\ order' \in [Pages -> Orders]
    BY <1>2, <1>7
  <2> QED
    BY <1>1, <1>2, <1>9, <2>1 DEF IInv, TypeOK
<1>11. BlocksDisjoint'
  BY <1>3, <1>4, <1>5, <1>8 DEF IInv, BlocksDisjoint
<1>12. NoFrameLost'
  BY <1>3, <1>4, <1>8 DEF IInv, NoFrameLost
<1> QED
  BY <1>9, <1>10, <1>11, <1>12 DEF IInv

LEMMA AllocDoneStep == ASSUME IInv, AllocDone PROVE IInv'
<1> USE SizeAssumption
<1>1. /\ pc = "expand" /\ pc' = "idle" /\ high = low
      /\ flags' = [flags EXCEPT ![pfn] = "allocated"]
      /\ order' = [order EXCEPT ![pfn] = high]
      /\ ref_count' = [ref_count EXCEPT ![pfn] = 1]
      /\ last_error' = "OK" /\ pfn' = 0 /\ high' = 0 /\ low' = 0
      /\ UNCHANGED <<free_list, nr_free>>
  BY DEF AllocDone, MarkPageAllocated, lists
<1>2. /\ flags \in [Pages -> {"none", "reserved", "buddy", "allocated"}]
      /\ order \in [Pages -> Orders] /\ high \in Orders /\ pfn \in Nat
      /\ ref_count \in [Pages -> Nat] /\ 0 \in Orders
  BY DEF IInv, TypeOK, Orders
<1>3. InFlight = Block(pfn, high) /\ InFlight' = {} /\ pfn \in InFlight
  BY <1>1, <1>2, BlockFacts DEF InFlight, Block
<1>4. pfn \in Pages /\ pfn \notin Heads
  BY <1>3, HeadFacts DEF IInv, BlocksDisjoint, Managed, Pages
<1>5. /\ Heads' = Heads \cup {pfn} /\ FreeHeads' = FreeHeads
      /\ order'[pfn] = high /\ \A q \in Heads : order'[q] = order[q]
  BY <1>1, <1>2, <1>4 DEF Heads, FreeHeads
<1>6. FreeListsAgree'
  <2>1. \A q \in FreeHeads : order'[q] = order[q]
    BY <1>5 DEF Heads, FreeHeads
  <2>2. \A o \in Orders : {q \in FreeHeads' : order'[q] = o} = {q \in FreeHeads : order[q] = o}
    BY <1>5, <2>1
  <2> QED
    BY <1>1, <2>2 DEF IInv, FreeListsAgree
<1>7. TypeOK'
  <2>1. /\ flags' \in [Pages -> {"none", "reserved", "buddy", "allocated"}]
        /\ order' \in [Pages -> Orders]
        /\ ref_count' \in [Pages -> Nat]
    BY <1>1, <1>2
  <2>2. pfn' \in 0..TotalPages /\ last_error' \in Errors
    BY <1>1 DEF Errors
  <2> QED
    BY <1>1, <1>2, <2>1, <2>2 DEF IInv, TypeOK
<1>8. BlocksDisjoint'
  BY <1>3, <1>4, <1>5 DEF IInv, BlocksDisjoint
<1>9. NoFrameLost'
  BY <1>3, <1>5 DEF IInv, NoFrameLost
<1> QED
  BY <1>6, <1>7, <1>8, <1>9 DEF IInv

\* free_phys_pages, refused or accepted, with whatever arguments.
LEMMA FreePhysPagesStep ==
  ASSUME IInv, pc = "idle", NEW p \in 0..TotalPages, NEW aligned \in BOOLEAN,
         NEW o \in 0..(MaxOrder + 1), FreePhysPages(p, aligned, o),
         ref_count' \in [Pages -> Nat]
  PROVE  IInv'
<1> USE SizeAssumption
<1> DEFINE err == FreeCheck(p, aligned, o)
<1>1. CASE err # "OK"
  <2>1. err \in Errors
    BY DEF FreeCheck, PageCheck, Errors
  <2>2. last_error' = err /\ UNCHANGED <<flags, order, free_list, nr_free, pc, pfn, high, low>>
    BY <1>1 DEF FreePhysPages, locals
  <2> QED
    BY <2>1, <2>2, QuietStep
<1>2. CASE err = "OK"
  <2>1. /\ p \in Pages /\ flags[p] = "allocated" /\ order[p] = o /\ o \in Orders
    BY <1>2 DEF FreeCheck, PageCheck, PaInRange, Pages, Orders
  <2>2. /\ flags' = [flags EXCEPT ![p] = "none"] /\ order' = [order EXCEPT ![p] = 0]
        /\ pc' = "merge" /\ pfn' = p /\ high' = o
        /\ UNCHANGED <<free_list, nr_free, last_error, low>>
    BY <1>2 DEF FreePhysPages
  <2>3. /\ flags \in [Pages -> {"none", "reserved", "buddy", "allocated"}]
        /\ order \in [Pages -> Orders] /\ 0 \in Orders
    BY DEF IInv, TypeOK, Orders
  <2>4. /\ p \in Heads /\ Heads' = Heads \ {p} /\ FreeHeads' = FreeHeads /\ p \notin FreeHeads
        /\ \A q \in Pages \ {p} : order'[q] = order[q]
    BY <2>1, <2>2, <2>3 DEF Heads, FreeHeads
  <2>5. InFlight = {} /\ InFlight' = Block(p, order[p])
    BY <2>1, <2>2 DEF InFlight
  <2>6. FreeListsAgree'
    <3>1. \A k \in Orders : {q \in FreeHeads' : order'[q] = k} = {q \in FreeHeads : order[q] = k}
      BY <2>4 DEF FreeHeads
    <3> QED
      BY <2>2, <3>1 DEF IInv, FreeListsAgree
  <2>7. TypeOK'
    <3>1. /\ flags' \in [Pages -> {"none", "reserved", "buddy", "allocated"}]
          /\ order' \in [Pages -> Orders] /\ pfn' \in 0..TotalPages
      BY <2>2, <2>3
    <3> QED
      BY <2>1, <2>2, <3>1 DEF IInv, TypeOK
  <2>8. BlocksDisjoint'
    <3>1. \A q \in Heads' : q \in Heads /\ q # p /\ order'[q] = order[q]
      BY <2>4 DEF Heads
    <3> QED
      BY <2>4, <2>5, <3>1 DEF IInv, BlocksDisjoint
  <2>9. NoFrameLost'
    <3>1. \A q \in Heads \ {p} : q \in Heads' /\ order'[q] = order[q]
      BY <2>4 DEF Heads
    <3> QED
      BY <2>5, <3>1 DEF IInv, NoFrameLost
  <2> QED
    BY <2>6, <2>7, <2>8, <2>9 DEF IInv
<1> QED
  BY <1>1, <1>2

LEMMA MergeBuddyStep == ASSUME IInv, MergeBuddy PROVE IInv'
<1> USE SizeAssumption
<1> DEFINE b == BuddyPfn(pfn, high)
           m == IF b < pfn THEN b ELSE pfn
<1>1. /\ pc = "merge" /\ pc' = "merge" /\ high < MaxOrder /\ high' = high + 1 /\ pfn' = m
      /\ b < TotalPages /\ flags[b] = "buddy" /\ order[b] = high
      /\ RemoveFromFreeArea(b, high)
      /\ UNCHANGED <<ref_count, last_error, low>>
  BY DEF MergeBuddy, MergeBound, MergedHead, CanMerge
<1>2. /\ high \in Orders /\ high + 1 \in Orders /\ pfn \in Nat
      /\ BlockPages[high] \in Nat \ {0} /\ BlockPages[high + 1] = 2 * BlockPages[high]
  BY <1>1, BlockFacts DEF IInv, TypeOK
<1>3. b \in Nat /\ (b = pfn + BlockPages[high] \/ b = pfn - BlockPages[high])
  BY <1>2, BuddyIsNeighbour
<1> HIDE DEF b
<1>4. m \in Nat /\ Block(m, high + 1) = Block(pfn, high) \cup Block(b, high)
  BY <1>2, <1>3 DEF Block
<1>5. b \in Pages /\ b \in FreeHeads
  BY <1>1, <1>3 DEF Pages, FreeHeads
<1>6. FreeListsAgree' /\ free_list' \in [Orders -> Seq(Pages)] /\ nr_free' \in [Orders -> Nat]
  BY <1>1, <1>2, <1>5, RemoveKeepsLists
<1>7. /\ flags' = [flags EXCEPT ![b] = "none"] /\ order' = [order EXCEPT ![b] = 0]
      /\ flags \in [Pages -> {"none", "reserved", "buddy", "allocated"}]
      /\ order \in [Pages -> Orders] /\ 0 \in Orders
  BY <1>1 DEF RemoveFromFreeArea, IInv, TypeOK, Orders
<1>8. /\ b \in Heads /\ Heads' = Heads \ {b}
      /\ \A q \in Heads \ {b} : order'[q] = order[q]
  BY <1>5, <1>7 DEF Heads, FreeHeads
<1>9. InFlight = Block(pfn, high) /\ InFlight' = InFlight \cup Block(b, order[b])
  BY <1>1, <1>4 DEF InFlight
<1>10. TypeOK'
  <2>1. /\ flags' \in [Pages -> {"none", "reserved", "buddy", "allocated"}]
        /\ order' \in [Pages -> Orders]
    BY <1>7
  <2>2. pfn' \in 0..TotalPages
    BY <1>1, <1>3, <1>4 DEF IInv, TypeOK
  <2> QED
    BY <1>1, <1>2, <1>6, <2>1, <2>2 DEF IInv, TypeOK
<1>11. BlocksDisjoint'
  BY <1>8, <1>9 DEF IInv, BlocksDisjoint
<1>12. NoFrameLost'
  BY <1>8, <1>9 DEF IInv, NoFrameLost
<1> QED
  BY <1>6, <1>10, <1>11, <1>12 DEF IInv

LEMMA MergeDoneStep == ASSUME IInv, MergeDone PROVE IInv'
<1> USE SizeAssumption
<1>1. /\ pc = "merge" /\ pc' = "idle" /\ pfn' = 0 /\ high' = 0 /\ last_error' = "OK"
      /\ AddToFreeArea(pfn, high)
      /\ UNCHANGED <<ref_count, low>>
  BY DEF MergeDone
<1>2. /\ flags' = [flags EXCEPT ![pfn] = "buddy"] /\ order' = [order EXCEPT ![pfn] = high]
      /\ flags \in [Pages -> {"none", "reserved", "buddy", "allocated"}]
      /\ order \in [Pages -> Orders] /\ high \in Orders /\ 0 \in Orders /\ pfn \in Nat
  BY <1>1 DEF AddToFreeArea, IInv, TypeOK, Orders
<1>3. InFlight = Block(pfn, high) /\ InFlight' = {} /\ pfn \in InFlight
  BY <1>1, <1>2, BlockFacts DEF InFlight, Block
<1>4. pfn \in Pages /\ pfn \notin Heads /\ pfn \notin FreeHeads
  <2>1. pfn \in Pages /\ pfn \notin Heads
    BY <1>3, HeadFacts DEF IInv, BlocksDisjoint, Managed, Pages
  <2> QED
    BY <2>1 DEF Heads, FreeHeads
<1>5. /\ Heads' = Heads \cup {pfn} /\ FreeHeads' = FreeHeads \cup {pfn}
      /\ order'[pfn] = high /\ \A q \in Heads : order'[q] = order[q]
  BY <1>2, <1>4 DEF Heads, FreeHeads
<1>6. FreeListsAgree' /\ free_list' \in [Orders -> Seq(Pages)] /\ nr_free' \in [Orders -> Nat]
  <2>1. \A q \in FreeHeads : order'[q] = order[q]
    BY <1>5 DEF Heads, FreeHeads
  <2> QED
    BY <1>1, <1>2, <1>4, <1>5, <2>1, AddKeepsLists DEF AddToFreeArea
<1>7. TypeOK'
  <2>1. /\ flags' \in [Pages -> {"none", "reserved", "buddy", "allocated"}]
        /\ order' \in [Pages -> Orders]
    BY <1>2
  <2>2. pfn' \in 0..TotalPages /\ last_error' \in Errors
    BY <1>1 DEF Errors
  <2> QED
    BY <1>1, <1>2, <1>6, <2>1, <2>2 DEF IInv, TypeOK
<1>8. BlocksDisjoint'
  BY <1>3, <1>4, <1>5 DEF IInv, BlocksDisjoint
<1>9. NoFrameLost'
  BY <1>3, <1>5 DEF IInv, NoFrameLost
<1> QED
  BY <1>6, <1>7, <1>8, <1>9 DEF IInv

LEMMA CallStep == ASSUME IInv, Call PROVE IInv'
<1>1. ASSUME NEW o \in 0..(MaxOrder + 1), AllocBadOrder(o) PROVE IInv'
  BY <1>1, QuietStep DEF AllocBadOrder, Fail, locals, Errors, IInv, TypeOK
<1>2. ASSUME NEW o \in 0..(MaxOrder + 1), NEW dma \in BOOLEAN, AllocNoMemory(o, dma)
      PROVE  IInv'
  BY <1>2, QuietStep DEF AllocNoMemory, Fail, locals, Errors, IInv, TypeOK
<1>3. ASSUME NEW p \in 0..TotalPages, NEW aligned \in BOOLEAN, NEW o \in 0..(MaxOrder + 1),
             FreeBegin(p, aligned, o)
      PROVE  IInv'
  <2>1. ref_count' \in [Pages -> Nat] /\ pc = "idle" /\ FreePhysPages(p, aligned, o)
    BY <1>3 DEF FreeBegin, IInv, TypeOK
  <2> QED
    BY <2>1, FreePhysPagesStep
<1>4. ASSUME NEW p \in Pages, GetPage(p) PROVE IInv'
  <2>1. ref_count' \in [Pages -> Nat]
    BY <1>4 DEF GetPage, IInv, TypeOK
  <2> QED
    BY <1>4, <2>1, QuietStep DEF GetPage, locals, IInv, TypeOK
<1>5. ASSUME NEW p \in Pages, PutPage(p) PROVE IInv'
  <2>1. pc = "idle" /\ ref_count' \in [Pages -> Nat]
    BY <1>5 DEF PutPage, IInv, TypeOK
  <2>2. p \in 0..TotalPages /\ 0 \in 0..(MaxOrder + 1)
    BY SizeAssumption DEF Pages
  <2>3. CASE FreePhysPages(p, TRUE, 0)
    BY <2>1, <2>2, <2>3, FreePhysPagesStep
  <2>4. CASE UNCHANGED <<flags, order, free_list, nr_free, last_error, locals>>
    BY <2>1, <2>4, QuietStep DEF locals, IInv, TypeOK
  <2> QED
    BY <1>5, <2>3, <2>4 DEF PutPage
<1> QED
  BY <1>1, <1>2, <1>3, <1>4, <1>5, AllocTakeStep DEF Call

-----------------------------------------------------------------------------
(* The theorems *)

\* The invariant of module Buddy holds of every behaviour of pmm.c.
THEOREM InductiveInvariant == Spec => []IInv
<1>1. IInv /\ [Next]_vars => IInv'
  <2> SUFFICES ASSUME IInv, [Next]_vars PROVE IInv'
    OBVIOUS
  <2>1. CASE Step
    BY <2>1, InitBlockStep, InitDoneStep, ExpandBlockStep, AllocDoneStep,
       MergeBuddyStep, MergeDoneStep DEF Step
  <2>2. CASE Call
    BY <2>2, CallStep
  <2>3. CASE UNCHANGED vars
    BY <2>3, QuietStep DEF vars, IInv, TypeOK
  <2> QED
    BY <2>1, <2>2, <2>3 DEF Next
<1> QED
  BY <1>1, InitIInv, PTL DEF Spec

\* TypeOK holds of every behaviour of pmm.c.
THEOREM TypeCorrect == Spec => []TypeOK
<1>1. IInv => TypeOK
  BY DEF IInv
<1> QED
  BY <1>1, InductiveInvariant, PTL

\* No frame is ever in two blocks, whatever is allocated, split, freed, freed
\* twice or merged, and none of the kernel's frames is handed out.
THEOREM FramesNeverShared == Spec => []BlocksDisjoint
<1>1. IInv => BlocksDisjoint
  BY DEF IInv
<1> QED
  BY <1>1, InductiveInvariant, PTL

\* No frame is ever lost to splitting or merging.
THEOREM FramesNeverLost == Spec => []NoFrameLost
<1>1. IInv => NoFrameLost
  BY DEF IInv
<1> QED
  BY <1>1, InductiveInvariant, PTL

\* free_area and mem_map always agree about what is free.
THEOREM ListsAndFlagsAgree == Spec => []FreeListsAgree
<1>1. IInv => FreeListsAgree
  BY DEF IInv
<1> QED
  BY <1>1, InductiveInvariant, PTL

\* pmm.c implements the abstract page allocator: every step of a call either
\* leaves the set of blocks handed out alone, or hands out a block disjoint from
\* all of them, or takes one of them back.
THEOREM Refinement == Spec => ImplementsPageAlloc
<1> USE SizeAssumption
<1>1. Init => PA!Init
  BY DEF Init, PA!Init, Owned, UsedHeads
<1>2. IInv /\ [Next]_vars => [PA!Next]_Owned
  <2> SUFFICES ASSUME IInv, [Next]_vars PROVE PA!Next \/ Owned' = Owned
    OBVIOUS
  <2>0. /\ flags \in [Pages -> {"none", "reserved", "buddy", "allocated"}]
        /\ order \in [Pages -> Orders]
    BY DEF IInv, TypeOK
  <2>1. CASE InitBlock
    <3>1. PICK o \in Orders :
            /\ InitFits(o)
            /\ flags' = [p \in Pages |-> IF p = pfn THEN "buddy"
                                         ELSE IF p \in Block(pfn, o) THEN "none"
                                         ELSE flags[p]]
            /\ order' = [p \in Pages |-> IF p = pfn THEN o
                                         ELSE IF p \in Block(pfn, o) THEN 0
                                         ELSE order[p]]
      BY <2>1 DEF InitBlock, InitOrder
    <3>2. Block(pfn, o) \subseteq InFlight /\ pfn \in InFlight
      <4>1. pc = "init" /\ pfn < TotalPages /\ pfn \in Nat /\ TotalPages \in Nat
        BY <2>1 DEF InitBlock, IInv, TypeOK
      <4>2. BlockPages[o] \in Nat /\ BlockPages[o] <= TotalPages - pfn
        BY <3>1, BlockFacts DEF InitFits
      <4> QED
        BY <4>1, <4>2 DEF InFlight, Block
    <3>3. \A p \in Heads : p \notin Block(pfn, o) /\ p # pfn
      BY <3>2, HeadFacts
    <3>4. UsedHeads' = UsedHeads /\ \A p \in UsedHeads : order'[p] = order[p]
      BY <3>1, <3>3 DEF UsedHeads, Heads
    <3> QED
      BY <3>4 DEF Owned
  <2>2. ASSUME NEW p \in Pages, NEW o \in Orders, flags[p] # "allocated",
               AddToFreeArea(p, o) \/ RemoveFromFreeArea(p, o)
        PROVE  Owned' = Owned
    <3>1. UsedHeads' = UsedHeads /\ \A q \in UsedHeads : order'[q] = order[q]
      BY <2>0, <2>2 DEF AddToFreeArea, RemoveFromFreeArea, UsedHeads
    <3> QED
      BY <3>1 DEF Owned
  <2>3. CASE UNCHANGED <<flags, order>>
    BY <2>3 DEF Owned, UsedHeads
  <2>4. ASSUME NEW p \in Pages, flags[p] = "allocated",
               flags' = [flags EXCEPT ![p] = "none"], order' = [order EXCEPT ![p] = 0]
        PROVE  PA!Next
    <3>1. UsedHeads' = UsedHeads \ {p} /\ p \in UsedHeads
          /\ \A q \in UsedHeads' : order'[q] = order[q]
      BY <2>0, <2>4 DEF UsedHeads
    <3>2. <<p, order[p]>> \in Owned /\ Owned' = Owned \ {<<p, order[p]>>}
      BY <3>1 DEF Owned
    <3> QED
      BY <3>2 DEF PA!Next, PA!Free
  <2>5. CASE AllocDone
    <3>1. /\ pc = "expand" /\ high = low /\ low \in Orders /\ pfn \in Nat
          /\ flags' = [flags EXCEPT ![pfn] = "allocated"]
          /\ order' = [order EXCEPT ![pfn] = low]
      BY <2>5 DEF AllocDone, MarkPageAllocated, IInv, TypeOK
    <3>2. InFlight = Block(pfn, low) /\ pfn \in InFlight
      BY <3>1, BlockFacts DEF InFlight, Block
    <3>3. pfn \in Managed /\ pfn \in Pages /\ pfn \notin Heads /\ Block(pfn, low) \subseteq Managed
      <4>1. Block(pfn, low) \subseteq Managed /\ pfn \in Managed /\ pfn \notin Heads
        BY <3>2, HeadFacts DEF IInv, BlocksDisjoint
      <4> QED
        BY <4>1 DEF Managed, Pages
    <3>4. UsedHeads' = UsedHeads \cup {pfn} /\ order'[pfn] = low
          /\ \A q \in UsedHeads : order'[q] = order[q]
      BY <2>0, <3>1, <3>3 DEF UsedHeads, Heads
    <3>5. Owned' = Owned \cup {<<pfn, low>>}
      BY <3>4 DEF Owned
    <3>6. ASSUME NEW c \in Owned PROVE Block(pfn, low) \cap Block(c[1], c[2]) = {}
      <4>1. PICK q \in UsedHeads : c = <<q, order[q]>>
        BY DEF Owned
      <4>2. q \in Heads
        BY DEF UsedHeads, Heads
      <4> QED
        BY <3>2, <4>1, <4>2 DEF IInv, BlocksDisjoint
    <3>7. <<pfn, low>> \notin Owned
      BY <3>3 DEF Owned, UsedHeads, Heads
    <3> QED
      BY <3>1, <3>3, <3>5, <3>6, <3>7 DEF PA!Next, PA!Alloc
  <2>6. CASE ExpandBlock
    <3> DEFINE k == high - 1
               r == pfn + BlockPages[k]
    <3>1. /\ k \in Orders /\ BlockPages[k] \in Nat \ {0} /\ BlockPages[high] = 2 * BlockPages[k]
          /\ pfn \in Nat /\ AddToFreeArea(r, k) /\ pc = "expand"
      BY <2>6, BlockFacts DEF ExpandBlock, RightHalf, IInv, TypeOK, Orders
    <3>2. r \in InFlight
      BY <3>1 DEF InFlight, Block
    <3> HIDE DEF r, k
    <3>3. r \in Pages /\ r \notin Heads
      BY <3>2, HeadFacts DEF IInv, BlocksDisjoint, Managed, Pages
    <3> QED
      BY <2>2, <3>1, <3>3 DEF Heads
  <2>7. CASE MergeBuddy
    <3>1. /\ BuddyPfn(pfn, high) < TotalPages /\ flags[BuddyPfn(pfn, high)] = "buddy"
          /\ RemoveFromFreeArea(BuddyPfn(pfn, high), high)
      BY <2>7 DEF MergeBuddy, CanMerge
    <3>2. high \in Orders /\ pfn \in Nat
      BY DEF IInv, TypeOK
    <3>3. BuddyPfn(pfn, high) \in Pages
      BY <3>1, <3>2, BuddyIsNeighbour DEF Pages
    <3> QED
      BY <2>2, <3>1, <3>2, <3>3
  <2>8. CASE MergeDone
    <3>1. pc = "merge" /\ high \in Orders /\ pfn \in Nat /\ AddToFreeArea(pfn, high)
      BY <2>8 DEF MergeDone, IInv, TypeOK
    <3>2. pfn \in InFlight
      BY <3>1, BlockFacts DEF InFlight, Block
    <3>3. pfn \in Pages /\ pfn \notin Heads
      BY <3>2, HeadFacts DEF IInv, BlocksDisjoint, Managed, Pages
    <3> QED
      BY <2>2, <3>1, <3>3 DEF Heads
  <2>9. ASSUME NEW o \in 0..(MaxOrder + 1), NEW dma \in BOOLEAN, AllocTake(o, dma)
        PROVE  Owned' = Owned
    <3>1. PICK cur \in o..MaxOrder : Usable(cur, dma) /\ RemoveFromFreeArea(Head(free_list[cur]), cur)
      BY <2>9 DEF AllocTake
    <3>2. cur \in Orders
      BY DEF Orders
    <3>3. free_list[cur] \in Seq(Pages) /\ free_list[cur] # <<>>
      BY <3>1, <3>2, LinkedIsFree DEF Usable
    <3>4. 1 \in 1..Len(free_list[cur]) /\ Head(free_list[cur]) = free_list[cur][1]
      BY <3>3
    <3>5. Head(free_list[cur]) \in Pages /\ flags[Head(free_list[cur])] = "buddy"
      BY <3>2, <3>4, LinkedIsFree DEF FreeHeads
    <3> QED
      BY <2>2, <3>1, <3>2, <3>5
  <2>10. ASSUME NEW p \in 0..TotalPages, NEW aligned \in BOOLEAN, NEW o \in 0..(MaxOrder + 1),
                FreePhysPages(p, aligned, o)
         PROVE  PA!Next \/ UNCHANGED <<flags, order>>
    <3>1. CASE FreeCheck(p, aligned, o) # "OK"
      BY <2>10, <3>1 DEF FreePhysPages
    <3>2. CASE FreeCheck(p, aligned, o) = "OK"
      <4>1. p \in Pages /\ flags[p] = "allocated"
        BY <3>2 DEF FreeCheck, PageCheck, PaInRange, Pages
      <4>2. flags' = [flags EXCEPT ![p] = "none"] /\ order' = [order EXCEPT ![p] = 0]
        BY <2>10, <3>2 DEF FreePhysPages
      <4> QED
        BY <2>4, <4>1, <4>2
    <3> QED
      BY <3>1, <3>2
  <2>11. ASSUME NEW p \in Pages, PutPage(p) PROVE PA!Next \/ UNCHANGED <<flags, order>>
    <3>1. p \in 0..TotalPages /\ 0 \in 0..(MaxOrder + 1)
      BY DEF Pages
    <3> QED
      BY <2>10, <2>11, <3>1 DEF PutPage
  <2>12. CASE Call
    BY <2>3, <2>9, <2>10, <2>11, <2>12 DEF Call, AllocBadOrder, AllocNoMemory, Fail,
       FreeBegin, GetPage
  <2>13. CASE Step
    BY <2>1, <2>3, <2>5, <2>6, <2>7, <2>8, <2>13 DEF Step, InitDone
  <2> QED
    BY <2>3, <2>12, <2>13 DEF Next, vars
<1> QED
  BY <1>1, <1>2, InductiveInvariant, PTL DEF Spec, ImplementsPageAlloc, PA!Spec

-----------------------------------------------------------------------------
(* Alignment and merging.  A block and its buddy are the halves of an         *)
(* aligned block of the next order.                                         *)

\* Both halves of an aligned block are aligned.
LEMMA HalvesAligned ==
  ASSUME NEW p \in Nat, NEW o \in Orders, o < MaxOrder, PfnAlignedToOrder(p, o + 1)
  PROVE  /\ PfnAlignedToOrder(p, o) /\ PfnAlignedToOrder(p + BlockPages[o], o)
         /\ BuddyPfn(p + BlockPages[o], o) = p
<1> DEFINE n == BlockPages[o]
<1>1. n \in Nat /\ n > 0 /\ BlockPages[o + 1] = 2 * n
  BY BlockFacts
<1> HIDE DEF n
<1>2. PICK q \in Nat : p = (2 * n) * q
  BY <1>1, Multiple DEF PfnAlignedToOrder
<1>3. p = n * (2 * q) /\ p + n = n * (2 * q + 1) /\ p + n \in Nat /\ 2 * q \in Nat /\ 2 * q + 1 \in Nat
  BY <1>1, <1>2
<1>4. p % n = 0 /\ (p + n) % n = 0 /\ (p + n) \div n = 2 * q + 1
  BY <1>1, <1>3, Multiple
<1> DEFINE b == p + n
<1>5. b % n = 0 /\ b \div n = 2 * q + 1 /\ b - n = p
  BY <1>1, <1>4
<1>6. (2 * q + 1) % 2 # 0
  OBVIOUS
<1> HIDE DEF b
<1>7. (b \div n) % 2 # 0
  BY <1>5, <1>6
<1>8. BuddyPfn(b, o) = p /\ PfnAlignedToOrder(p, o) /\ PfnAlignedToOrder(b, o)
  BY <1>4, <1>5, <1>7 DEF BuddyPfn, PfnAlignedToOrder, n
<1> QED
  BY <1>8 DEF b, n

\* The lower one of a block and its buddy heads an aligned block of the next order, the
\* buddy is aligned, and the block is the buddy of its buddy.
LEMMA BuddyAligned ==
  ASSUME NEW p \in Nat, NEW o \in Orders, PfnAlignedToOrder(p, o)
  PROVE  /\ PfnAlignedToOrder(BuddyPfn(p, o), o)
         /\ BuddyPfn(BuddyPfn(p, o), o) = p
         /\ o < MaxOrder => PfnAlignedToOrder(MergedHead(p, BuddyPfn(p, o)), o + 1)
         /\ BuddyPfn(p, o) = p + BlockPages[o] \/ p = BuddyPfn(p, o) + BlockPages[o]
<1> DEFINE n == BlockPages[o]
           q == p \div n
           b == BuddyPfn(p, o)
<1>1. n \in Nat /\ n > 0 /\ (o < MaxOrder => BlockPages[o + 1] = 2 * n)
  BY BlockFacts
<1>2. q \in Nat /\ p = n * q
  BY <1>1, Multiple DEF PfnAlignedToOrder
<1>3. b = IF q % 2 = 0 THEN p + n ELSE p - n
  BY DEF BuddyPfn
<1> HIDE DEF n, q, b
<1>4. CASE q % 2 = 0
  <2>1. PICK j \in Nat : q = 2 * j
    BY <1>2, <1>4
  <2>2. b = p + n /\ b = n * (q + 1) /\ b \in Nat /\ q + 1 \in Nat /\ p = (2 * n) * j /\ 2 * n \in Nat /\ 2 * n > 0
    BY <1>1, <1>2, <1>3, <1>4, <2>1
  <2>3. b % n = 0 /\ b \div n = q + 1
    BY <1>1, <2>2, Multiple
  <2>4. (q + 1) % 2 = 1
    BY <2>1
  <2>5. BuddyPfn(b, o) = b - n
    BY <2>3, <2>4 DEF BuddyPfn, n
  <2>6. b - n = p /\ MergedHead(p, b) = p
    BY <1>1, <2>2 DEF MergedHead
  <2>7. p % (2 * n) = 0
    <3> DEFINE N == 2 * n
    <3>1. N \in Nat /\ N > 0 /\ p = N * j
      BY <2>2
    <3> HIDE DEF N
    <3>2. p % N = 0
      BY <3>1, Multiple
    <3> QED
      BY <3>2 DEF N
  <2>8. o < MaxOrder => PfnAlignedToOrder(p, o + 1)
    BY <1>1, <2>7 DEF PfnAlignedToOrder
  <2>9. PfnAlignedToOrder(b, o) /\ BuddyPfn(b, o) = p /\ (o < MaxOrder => PfnAlignedToOrder(MergedHead(p, b), o + 1))
    BY <2>3, <2>5, <2>6, <2>8 DEF PfnAlignedToOrder, n
  <2> QED
    BY <2>2, <2>9 DEF b, n
<1>5. CASE q % 2 # 0
  <2>1. PICK j \in Nat : q = 2 * j + 1
    BY <1>2, <1>5
  <2>2. b = p - n /\ b = n * (2 * j) /\ b \in Nat /\ 2 * j \in Nat /\ b = (2 * n) * j /\ 2 * n \in Nat /\ 2 * n > 0
    BY <1>1, <1>2, <1>3, <1>5, <2>1
  <2>3. b % n = 0 /\ b \div n = 2 * j
    BY <1>1, <2>2, Multiple
  <2>4. (2 * j) % 2 = 0
    OBVIOUS
  <2>5. BuddyPfn(b, o) = b + n
    BY <2>3, <2>4 DEF BuddyPfn, n
  <2>6. b + n = p /\ MergedHead(p, b) = b
    BY <1>1, <2>2 DEF MergedHead
  <2>7. b % (2 * n) = 0
    BY <1>1, <2>2, Multiple
  <2>8. o < MaxOrder => PfnAlignedToOrder(b, o + 1)
    BY <1>1, <2>7 DEF PfnAlignedToOrder
  <2>9. PfnAlignedToOrder(b, o) /\ BuddyPfn(b, o) = p /\ (o < MaxOrder => PfnAlignedToOrder(MergedHead(p, b), o + 1))
    BY <2>3, <2>5, <2>6, <2>8 DEF PfnAlignedToOrder, n
  <2> QED
    BY <2>6, <2>9 DEF b, n
<1> QED
  BY <1>4, <1>5
\* At every step, between calls or not, no two free blocks could be merged.
NoFreePair == \A p \in FreeHeads : order[p] < MaxOrder => ~CanMerge(p, order[p])

\* What buddy_init has linked so far could not have been larger.
InitMaximal ==
  pc = "init" => \A p \in FreeHeads : order[p] < MaxOrder =>
      ~(PfnAlignedToOrder(p, order[p] + 1) /\ p + BlockPages[order[p] + 1] <= TotalPages)

AInv == BlocksAligned /\ NoFreePair /\ InitMaximal

\* A free block with a free buddy, as a pair of free heads.
LEMMA PairIs ==
  ASSUME IInv, NEW p \in FreeHeads, NEW o, o = order[p]
  PROVE  /\ p \in Nat /\ o \in Orders /\ p \in Heads
         /\ CanMerge(p, o) <=> BuddyPfn(p, o) \in FreeHeads /\ order[BuddyPfn(p, o)] = o
<1>1. p \in Heads
  BY DEF Heads, FreeHeads
<1>2. p \in Nat /\ o \in Orders
  BY <1>1, HeadFacts
<1> DEFINE b == BuddyPfn(p, o)
<1>3. b \in Nat
  BY <1>2, BuddyIsNeighbour
<1> HIDE DEF b
<1>4. b < TotalPages <=> b \in Pages
  BY <1>3, SizeAssumption DEF Pages
<1>5. CanMerge(p, o) <=> b < TotalPages /\ flags[b] = "buddy" /\ order[b] = o
  BY DEF CanMerge, b
<1> QED
  BY <1>1, <1>2, <1>4, <1>5 DEF FreeHeads, b

\* The same after a step.
LEMMA PairNext ==
  ASSUME TypeOK', NEW p \in FreeHeads', NEW o, o = order'[p], o < MaxOrder, CanMerge(p, order[p])'
  PROVE  /\ p \in Nat /\ o \in Orders
         /\ BuddyPfn(p, o) \in FreeHeads' /\ order'[BuddyPfn(p, o)] = o /\ BuddyPfn(p, o) # p
<1>1. p \in Pages /\ p \in Nat /\ o \in Orders
  BY SizeAssumption DEF TypeOK, FreeHeads, Pages
<1> DEFINE b == BuddyPfn(p, o)
<1>2. b \in Nat /\ b # p
  BY <1>1, BuddyIsNeighbour, BlockFacts
<1>3. b < TotalPages /\ flags'[b] = "buddy" /\ order'[b] = o
  BY DEF CanMerge, BuddyPfn
<1> HIDE DEF b
<1>4. b \in Pages
  BY <1>2, <1>3, SizeAssumption DEF Pages
<1> QED
  BY <1>1, <1>2, <1>3, <1>4 DEF FreeHeads, b

\* No new free block.
LEMMA NoneAdded ==
  ASSUME IInv, IInv', NoFreePair, FreeHeads' \subseteq FreeHeads,
         \A q \in FreeHeads' : order'[q] = order[q]
  PROVE  NoFreePair'
<1> SUFFICES ASSUME NEW p \in FreeHeads', order'[p] < MaxOrder, CanMerge(p, order[p])' PROVE FALSE
  BY DEF NoFreePair
<1> DEFINE o == order'[p]
           b == BuddyPfn(p, o)
<1>2. b \in FreeHeads' /\ order'[b] = o
  BY PairNext DEF IInv
<1>3. p \in FreeHeads /\ order[p] = o /\ b \in FreeHeads /\ order[b] = o
  BY <1>2
<1> QED
  BY <1>3, PairIs DEF NoFreePair

\* A new free block whose buddy is not free.
LEMMA OneAdded ==
  ASSUME IInv, IInv', AInv, NEW x, NEW k \in Orders, FreeHeads' = FreeHeads \cup {x},
         order'[x] = k, \A q \in FreeHeads : order'[q] = order[q],
         x \in Nat, PfnAlignedToOrder(x, k),
         k < MaxOrder => ~(BuddyPfn(x, k) \in FreeHeads /\ order[BuddyPfn(x, k)] = k)
  PROVE  NoFreePair'
<1> SUFFICES ASSUME NEW p \in FreeHeads', order'[p] < MaxOrder, CanMerge(p, order[p])' PROVE FALSE
  BY DEF NoFreePair
<1> DEFINE o == order'[p]
           b == BuddyPfn(p, o)
<1>2. b \in FreeHeads' /\ order'[b] = o /\ p \in Nat /\ o \in Orders /\ b # p
  BY PairNext DEF IInv
<1>4. CASE p = x
  BY <1>2, <1>4
<1>5. CASE p # x /\ b = x
  <2>1. p \in FreeHeads /\ order[p] = o /\ k = o /\ p \in Heads
    BY <1>2, <1>5, PairIs DEF FreeHeads, Heads
  <2>2. PfnAlignedToOrder(p, o)
    BY <2>1 DEF AInv, BlocksAligned
  <2>3. BuddyPfn(x, k) = p
    BY <1>2, <1>5, <2>1, <2>2, BuddyAligned
  <2> QED
    BY <2>1, <2>3
<1>6. CASE p # x /\ b # x
  <2>1. p \in FreeHeads /\ order[p] = o /\ b \in FreeHeads /\ order[b] = o
    BY <1>2, <1>6
  <2> QED
    BY <2>1, PairIs DEF AInv, NoFreePair
<1> QED
  BY <1>4, <1>5, <1>6

\* At first there are no blocks.
LEMMA InitAInv == Init => AInv
BY DEF Init, AInv, BlocksAligned, NoFreePair, InitMaximal, Heads, FreeHeads

\* buddy_init links the largest block that fits, which is not the other half of the last one.
LEMMA InitBlockAligned == ASSUME IInv, IInv', AInv, InitBlock PROVE AInv'
<1> USE SizeAssumption
<1>1. PICK o \in Orders :
       /\ InitOrder(o)
       /\ flags' = [p \in Pages |-> IF p = pfn THEN "buddy"
                                    ELSE IF p \in Block(pfn, o) THEN "none"
                                    ELSE flags[p]]
       /\ order' = [p \in Pages |-> IF p = pfn THEN o
                                    ELSE IF p \in Block(pfn, o) THEN 0
                                    ELSE order[p]]
  BY DEF InitBlock
<1>2. /\ pc = "init" /\ pc' = "init" /\ pfn \in Pages /\ pfn \in Nat
  BY DEF InitBlock, IInv, TypeOK, Pages
<1>3. /\ BlockPages[o] \in Nat \ {0} /\ BlockPages[o] <= TotalPages - pfn /\ PfnAlignedToOrder(pfn, o)
      /\ Block(pfn, o) \subseteq InFlight
  BY <1>1, <1>2, BlockFacts DEF InitOrder, InitFits, Block, InFlight
<1>4. \A p \in Heads : p \notin Block(pfn, o) /\ p # pfn
  BY <1>2, <1>3, HeadFacts DEF Block
<1>5. /\ Heads' = Heads \cup {pfn} /\ FreeHeads' = FreeHeads \cup {pfn}
      /\ order'[pfn] = o /\ \A p \in Heads : order'[p] = order[p]
  BY <1>1, <1>2, <1>4 DEF Heads, FreeHeads
<1>6. FreeHeads \subseteq Heads
  BY DEF Heads, FreeHeads
<1>7. BlocksAligned'
  <2>1. \A p \in Heads' : PfnAlignedToOrder(p, order'[p])
    BY <1>3, <1>5 DEF AInv, BlocksAligned
  <2>2. \A p \in Heads' : PfnAlignedToOrder(p, order[p])'
    BY <2>1 DEF PfnAlignedToOrder
  <2> QED
    BY <1>2, <2>2 DEF BlocksAligned
<1>8. InitMaximal'
  <2> SUFFICES ASSUME NEW p \in FreeHeads', order'[p] < MaxOrder,
                      PfnAlignedToOrder(p, order'[p] + 1), p + BlockPages[order'[p] + 1] <= TotalPages
               PROVE  FALSE
    BY DEF InitMaximal, PfnAlignedToOrder
  <2>1. CASE p = pfn
    <3>1. o < MaxOrder /\ o + 1 \in (o + 1)..MaxOrder /\ o + 1 \in Orders /\ BlockPages[o + 1] \in Nat
      BY <1>5, <2>1, BlockFacts DEF Orders
    <3>2. InitFits(o + 1)
      BY <1>2, <1>5, <2>1, <3>1 DEF InitFits
    <3> QED
      BY <1>1, <3>1, <3>2 DEF InitOrder
  <2>2. CASE p # pfn
    <3>1. p \in FreeHeads /\ order'[p] = order[p]
      BY <1>5, <1>6, <2>2
    <3> QED
      BY <1>2, <3>1 DEF AInv, InitMaximal
  <2> QED
    BY <2>1, <2>2
<1>9. NoFreePair'
  <2> DEFINE b == BuddyPfn(pfn, o)
  <2>1. ASSUME o < MaxOrder, b \in FreeHeads, order[b] = o PROVE FALSE
    <3>1. b \in Nat /\ b \in Heads /\ Block(b, o) \cap InFlight = {}
      BY <1>6, <2>1, HeadFacts DEF IInv, BlocksDisjoint
    <3>2. InFlight = pfn..(TotalPages - 1)
      BY <1>2 DEF InFlight
    <3>3. b < pfn
      BY <1>2, <1>3, <3>1, <3>2, <2>1, HeadFacts DEF Pages
    <3>4. pfn = b + BlockPages[o] /\ PfnAlignedToOrder(MergedHead(pfn, b), o + 1)
      BY <1>2, <1>3, <2>1, <3>1, <3>3, BuddyAligned
    <3>5. PfnAlignedToOrder(b, o + 1)
      BY <3>3, <3>4 DEF MergedHead
    <3>6. BlockPages[o + 1] = 2 * BlockPages[o]
      BY <2>1, BlockFacts
    <3>7. b + BlockPages[o + 1] <= TotalPages
      BY <1>2, <1>3, <3>1, <3>4, <3>6
    <3> QED
      BY <1>2, <2>1, <3>5, <3>7 DEF AInv, InitMaximal
  <2>2. \A q \in FreeHeads : order'[q] = order[q]
    BY <1>5, <1>6
  <2> QED
    BY <1>2, <1>3, <1>5, <2>1, <2>2, OneAdded
<1> QED
  BY <1>7, <1>8, <1>9 DEF AInv

\* A step that leaves the blocks and the block in flight as they are.
LEMMA StillAligned ==
  ASSUME IInv, IInv', AInv, UNCHANGED <<flags, order>>, pc' # "init",
         pc' \in {"expand", "merge"} => UNCHANGED <<pc, pfn, high>>
  PROVE  AInv'
<1>1. Heads' = Heads /\ FreeHeads' = FreeHeads
  BY DEF Heads, FreeHeads
<1>2. NoFreePair'
  BY <1>1, NoneAdded DEF AInv
<1>3. BlocksAligned'
  BY <1>1 DEF AInv, BlocksAligned, PfnAlignedToOrder
<1> QED
  BY <1>2, <1>3 DEF AInv, InitMaximal

\* The block taken was aligned as a free one.
LEMMA AllocTakeAligned ==
  ASSUME IInv, IInv', AInv, NEW o \in 0..(MaxOrder + 1), NEW dma \in BOOLEAN, AllocTake(o, dma)
  PROVE  AInv'
<1> USE SizeAssumption
<1>1. PICK cur \in o..MaxOrder :
        /\ Usable(cur, dma)
        /\ RemoveFromFreeArea(Head(free_list[cur]), cur)
        /\ pfn' = Head(free_list[cur])
        /\ high' = cur
  BY DEF AllocTake
<1> DEFINE p == Head(free_list[cur])
<1>2. pc' = "expand" /\ cur \in Orders
  BY DEF AllocTake, Orders
<1>3. p \in FreeHeads /\ order[p] = cur /\ p \in Pages
  <2>1. free_list[cur] \in Seq(Pages) /\ free_list[cur] # <<>>
    BY <1>1, <1>2, LinkedIsFree DEF Usable
  <2>2. 1 \in 1..Len(free_list[cur]) /\ p = free_list[cur][1]
    BY <2>1
  <2> HIDE DEF p
  <2> QED
    BY <1>2, <2>2, LinkedIsFree DEF FreeHeads
<1> HIDE DEF p
<1>4. /\ flags' = [flags EXCEPT ![p] = "none"] /\ order' = [order EXCEPT ![p] = 0]
      /\ flags \in [Pages -> {"none", "reserved", "buddy", "allocated"}]
      /\ order \in [Pages -> Orders]
  BY <1>1 DEF p, RemoveFromFreeArea, IInv, TypeOK
<1>5. /\ Heads' = Heads \ {p} /\ FreeHeads' = FreeHeads \ {p} /\ p \in Heads
      /\ \A q \in Pages \ {p} : order'[q] = order[q]
  BY <1>3, <1>4 DEF Heads, FreeHeads
<1>6. NoFreePair'
  <2>1. \A q \in FreeHeads' : order'[q] = order[q]
    BY <1>5 DEF FreeHeads
  <2> QED
    BY <1>5, <2>1, NoneAdded DEF AInv
<1>7. BlocksAligned'
  <2>1. \A q \in Heads' : PfnAlignedToOrder(q, order[q])'
    BY <1>5 DEF AInv, BlocksAligned, PfnAlignedToOrder, Heads
  <2>2. PfnAlignedToOrder(pfn, high)'
    BY <1>1, <1>3, <1>5 DEF AInv, BlocksAligned, PfnAlignedToOrder, p
  <2> QED
    BY <2>1, <2>2 DEF BlocksAligned
<1> QED
  BY <1>2, <1>6, <1>7 DEF AInv, InitMaximal

\* expand_block: the buddy of the right half is the left one, which is in flight.
LEMMA ExpandBlockAligned == ASSUME IInv, IInv', AInv, ExpandBlock PROVE AInv'
<1> USE SizeAssumption
<1> DEFINE k == high - 1
           r == pfn + BlockPages[k]
<1>1. /\ pc = "expand" /\ pc' = "expand" /\ high > low /\ high' = k /\ pfn' = pfn
      /\ AddToFreeArea(r, k)
  BY DEF ExpandBlock, RightHalf
<1>2. /\ high \in Orders /\ k \in Orders /\ k < MaxOrder /\ k + 1 = high
      /\ BlockPages[k] \in Nat \ {0} /\ BlockPages[high] = 2 * BlockPages[k]
      /\ pfn \in Nat
  BY <1>1, BlockFacts DEF IInv, TypeOK, Orders
<1>3. InFlight = Block(pfn, high)
  BY <1>1 DEF InFlight
<1> HIDE DEF k
<1>4. PfnAlignedToOrder(pfn, k + 1)
  BY <1>1, <1>2 DEF AInv, BlocksAligned
<1>5. PfnAlignedToOrder(pfn, k) /\ PfnAlignedToOrder(r, k) /\ BuddyPfn(r, k) = pfn
  BY <1>2, <1>4, HalvesAligned
<1>6. r \in Nat /\ r \in InFlight /\ pfn \in InFlight
  BY <1>2, <1>3 DEF Block
<1> HIDE DEF r
<1>7. r \in Pages /\ r \notin Heads /\ pfn \notin FreeHeads
  BY <1>6, HeadFacts DEF IInv, BlocksDisjoint, Managed, Pages, Heads, FreeHeads
<1>8. /\ flags' = [flags EXCEPT ![r] = "buddy"] /\ order' = [order EXCEPT ![r] = k]
      /\ flags \in [Pages -> {"none", "reserved", "buddy", "allocated"}]
      /\ order \in [Pages -> Orders]
  BY <1>1 DEF AddToFreeArea, IInv, TypeOK
<1>9. /\ Heads' = Heads \cup {r} /\ FreeHeads' = FreeHeads \cup {r}
      /\ order'[r] = k /\ \A q \in Heads : order'[q] = order[q]
  BY <1>7, <1>8 DEF Heads, FreeHeads
<1>10. \A q \in FreeHeads : order'[q] = order[q]
  BY <1>9 DEF Heads, FreeHeads
<1>11. NoFreePair'
  BY <1>2, <1>5, <1>6, <1>7, <1>9, <1>10, OneAdded
<1>12. BlocksAligned'
  <2>1. \A q \in Heads' : PfnAlignedToOrder(q, order'[q])
    BY <1>5, <1>9 DEF AInv, BlocksAligned
  <2>2. PfnAlignedToOrder(pfn', high')
    BY <1>1, <1>5
  <2> QED
    BY <2>1, <2>2 DEF BlocksAligned, PfnAlignedToOrder
<1> QED
  BY <1>1, <1>11, <1>12 DEF AInv, InitMaximal

\* The block is handed out.
LEMMA AllocDoneAligned == ASSUME IInv, IInv', AInv, AllocDone PROVE AInv'
<1> USE SizeAssumption
<1>1. /\ pc = "expand" /\ pc' = "idle" /\ high = low
      /\ flags' = [flags EXCEPT ![pfn] = "allocated"]
      /\ order' = [order EXCEPT ![pfn] = high]
  BY DEF AllocDone, MarkPageAllocated
<1>2. /\ flags \in [Pages -> {"none", "reserved", "buddy", "allocated"}]
      /\ order \in [Pages -> Orders] /\ high \in Orders /\ pfn \in Nat
  BY DEF IInv, TypeOK
<1>3. InFlight = Block(pfn, high) /\ pfn \in InFlight
  BY <1>1, <1>2, BlockFacts DEF InFlight, Block
<1>4. pfn \in Pages /\ pfn \notin Heads
  <2>1. pfn \in Managed
    BY <1>3 DEF IInv, BlocksDisjoint
  <2>2. pfn \notin Heads
    BY <1>3, HeadFacts
  <2> QED
    BY <2>1, <2>2 DEF Managed, Pages
<1>5. /\ Heads' = Heads \cup {pfn} /\ FreeHeads' = FreeHeads
      /\ order'[pfn] = high /\ \A q \in Heads : order'[q] = order[q]
  BY <1>1, <1>2, <1>4 DEF Heads, FreeHeads
<1>6. \A q \in FreeHeads : order'[q] = order[q]
  BY <1>5 DEF Heads, FreeHeads
<1>7. NoFreePair'
  BY <1>5, <1>6, NoneAdded DEF AInv
<1>8. BlocksAligned'
  <2>1. \A q \in Heads' : PfnAlignedToOrder(q, order'[q])
    BY <1>1, <1>5 DEF AInv, BlocksAligned
  <2> QED
    BY <1>1, <2>1 DEF BlocksAligned, PfnAlignedToOrder
<1> QED
  BY <1>1, <1>7, <1>8 DEF AInv, InitMaximal

\* A block that is freed was aligned when it was allocated.
LEMMA FreePhysPagesAligned ==
  ASSUME IInv, IInv', AInv, pc = "idle", NEW p \in 0..TotalPages, NEW aligned \in BOOLEAN,
         NEW o \in 0..(MaxOrder + 1), FreePhysPages(p, aligned, o)
  PROVE  AInv'
<1> USE SizeAssumption
<1> DEFINE err == FreeCheck(p, aligned, o)
<1>1. CASE err # "OK"
  <2>1. UNCHANGED <<flags, order, pc, pfn, high>>
    BY <1>1 DEF FreePhysPages, locals
  <2> QED
    BY <2>1, StillAligned
<1>2. CASE err = "OK"
  <2>1. /\ p \in Pages /\ flags[p] = "allocated" /\ order[p] = o
    BY <1>2 DEF FreeCheck, PageCheck, PaInRange, Pages
  <2>2. /\ flags' = [flags EXCEPT ![p] = "none"] /\ order' = [order EXCEPT ![p] = 0]
        /\ pc' = "merge" /\ pfn' = p /\ high' = o
    BY <1>2 DEF FreePhysPages
  <2>3. /\ flags \in [Pages -> {"none", "reserved", "buddy", "allocated"}]
        /\ order \in [Pages -> Orders]
    BY DEF IInv, TypeOK
  <2>4. /\ p \in Heads /\ Heads' = Heads \ {p} /\ FreeHeads' = FreeHeads /\ p \notin FreeHeads
        /\ \A q \in Pages \ {p} : order'[q] = order[q]
    BY <2>1, <2>2, <2>3 DEF Heads, FreeHeads
  <2>5. NoFreePair'
    <3>1. \A q \in FreeHeads' : order'[q] = order[q]
      BY <2>4 DEF FreeHeads
    <3> QED
      BY <2>4, <3>1, NoneAdded DEF AInv
  <2>6. BlocksAligned'
    <3>1. \A q \in Heads' : PfnAlignedToOrder(q, order'[q])
      BY <2>4 DEF AInv, BlocksAligned, Heads
    <3>2. PfnAlignedToOrder(pfn', high')
      BY <2>1, <2>2, <2>4 DEF AInv, BlocksAligned
    <3> QED
      BY <3>1, <3>2 DEF BlocksAligned, PfnAlignedToOrder
  <2> QED
    BY <2>2, <2>5, <2>6 DEF AInv, InitMaximal
<1> QED
  BY <1>1, <1>2

\* buddy_merge_pfn: the two halves are an aligned block.
LEMMA MergeBuddyAligned == ASSUME IInv, IInv', AInv, MergeBuddy PROVE AInv'
<1> USE SizeAssumption
<1> DEFINE b == BuddyPfn(pfn, high)
<1>1. /\ pc = "merge" /\ pc' = "merge" /\ high < MaxOrder /\ high' = high + 1
      /\ pfn' = MergedHead(pfn, b)
      /\ b < TotalPages /\ flags[b] = "buddy" /\ order[b] = high
      /\ RemoveFromFreeArea(b, high)
  BY DEF MergeBuddy, MergeBound, CanMerge
<1>2. high \in Orders /\ pfn \in Nat /\ PfnAlignedToOrder(pfn, high)
  BY <1>1 DEF IInv, TypeOK, AInv, BlocksAligned
<1>3. b \in Nat /\ PfnAlignedToOrder(MergedHead(pfn, b), high + 1)
  BY <1>1, <1>2, BuddyIsNeighbour, BuddyAligned
<1> HIDE DEF b
<1>4. b \in Pages /\ b \in FreeHeads
  BY <1>1, <1>3 DEF Pages, FreeHeads
<1>5. /\ flags' = [flags EXCEPT ![b] = "none"] /\ order' = [order EXCEPT ![b] = 0]
      /\ flags \in [Pages -> {"none", "reserved", "buddy", "allocated"}]
      /\ order \in [Pages -> Orders]
  BY <1>1 DEF RemoveFromFreeArea, IInv, TypeOK
<1>6. /\ Heads' = Heads \ {b} /\ FreeHeads' = FreeHeads \ {b}
      /\ \A q \in Pages \ {b} : order'[q] = order[q]
  BY <1>4, <1>5 DEF Heads, FreeHeads
<1>7. NoFreePair'
  <2>1. \A q \in FreeHeads' : order'[q] = order[q]
    BY <1>6 DEF FreeHeads
  <2> QED
    BY <1>6, <2>1, NoneAdded DEF AInv
<1>8. BlocksAligned'
  <2>1. \A q \in Heads' : PfnAlignedToOrder(q, order'[q])
    BY <1>6 DEF AInv, BlocksAligned, Heads
  <2>2. PfnAlignedToOrder(pfn', high')
    BY <1>1, <1>3
  <2> QED
    BY <2>1, <2>2 DEF BlocksAligned, PfnAlignedToOrder
<1> QED
  BY <1>1, <1>7, <1>8 DEF AInv, InitMaximal

\* The loop ends where the buddy is not free.
LEMMA MergeDoneAligned == ASSUME IInv, IInv', AInv, MergeDone PROVE AInv'
<1> USE SizeAssumption
<1>1. /\ pc = "merge" /\ pc' = "idle" /\ ~(high < MaxOrder /\ CanMerge(pfn, high))
      /\ AddToFreeArea(pfn, high)
  BY DEF MergeDone, MergeBound
<1>2. /\ flags' = [flags EXCEPT ![pfn] = "buddy"] /\ order' = [order EXCEPT ![pfn] = high]
      /\ flags \in [Pages -> {"none", "reserved", "buddy", "allocated"}]
      /\ order \in [Pages -> Orders] /\ high \in Orders /\ pfn \in Nat
  BY <1>1 DEF AddToFreeArea, IInv, TypeOK
<1>3. InFlight = Block(pfn, high) /\ pfn \in InFlight /\ PfnAlignedToOrder(pfn, high)
  BY <1>1, <1>2, BlockFacts DEF InFlight, Block, AInv, BlocksAligned
<1>4. pfn \in Pages /\ pfn \notin Heads
  <2>1. pfn \in Managed
    BY <1>3 DEF IInv, BlocksDisjoint
  <2>2. pfn \notin Heads
    BY <1>3, HeadFacts
  <2> QED
    BY <2>1, <2>2 DEF Managed, Pages
<1>5. /\ Heads' = Heads \cup {pfn} /\ FreeHeads' = FreeHeads \cup {pfn}
      /\ order'[pfn] = high /\ \A q \in Heads : order'[q] = order[q]
  BY <1>2, <1>4 DEF Heads, FreeHeads
<1>6. \A q \in FreeHeads : order'[q] = order[q]
  BY <1>5 DEF Heads, FreeHeads
<1>7. NoFreePair'
  <2> DEFINE b == BuddyPfn(pfn, high)
  <2>1. ASSUME high < MaxOrder, b \in FreeHeads, order[b] = high PROVE FALSE
    <3>1. flags[b] = "buddy" /\ b < TotalPages
      BY <2>1 DEF FreeHeads, Pages
    <3> QED
      BY <1>1, <2>1, <3>1 DEF CanMerge
  <2> QED
    BY <1>2, <1>3, <1>5, <1>6, <2>1, OneAdded
<1>8. BlocksAligned'
  <2>1. \A q \in Heads' : PfnAlignedToOrder(q, order'[q])
    BY <1>3, <1>5 DEF AInv, BlocksAligned
  <2> QED
    BY <1>1, <2>1 DEF BlocksAligned, PfnAlignedToOrder
<1> QED
  BY <1>1, <1>7, <1>8 DEF AInv, InitMaximal

\* Every step, given the invariant before and after it.
LEMMA StepAligned == ASSUME IInv, IInv', AInv, Next PROVE AInv'
<1>1. CASE Step
  <2>1. CASE InitDone
    <3>1. UNCHANGED <<flags, order>> /\ pc' = "idle"
      BY <2>1 DEF InitDone
    <3> QED
      BY <3>1, StillAligned
  <2> QED
    BY <1>1, <2>1, InitBlockAligned, ExpandBlockAligned, AllocDoneAligned,
       MergeBuddyAligned, MergeDoneAligned DEF Step
<1>2. CASE Call
  <2>1. ASSUME pc = "idle", UNCHANGED <<flags, order, pc>> PROVE AInv'
    BY <2>1, StillAligned
  <2>2. ASSUME NEW o \in 0..(MaxOrder + 1), AllocBadOrder(o) PROVE AInv'
    BY <2>1, <2>2 DEF AllocBadOrder, Fail, locals
  <2>3. ASSUME NEW o \in 0..(MaxOrder + 1), NEW dma \in BOOLEAN, AllocNoMemory(o, dma) PROVE AInv'
    BY <2>1, <2>3 DEF AllocNoMemory, Fail, locals
  <2>4. ASSUME NEW p \in 0..TotalPages, NEW aligned \in BOOLEAN, NEW o \in 0..(MaxOrder + 1),
               FreeBegin(p, aligned, o)
        PROVE  AInv'
    BY <2>4, FreePhysPagesAligned DEF FreeBegin
  <2>5. ASSUME NEW p \in Pages, GetPage(p) PROVE AInv'
    BY <2>1, <2>5 DEF GetPage, locals
  <2>6. ASSUME NEW p \in Pages, PutPage(p) PROVE AInv'
    <3>1. CASE FreePhysPages(p, TRUE, 0)
      <4>1. p \in 0..TotalPages /\ 0 \in 0..(MaxOrder + 1)
        BY SizeAssumption DEF Pages
      <4> QED
        BY <2>6, <3>1, <4>1, FreePhysPagesAligned DEF PutPage
    <3>2. CASE UNCHANGED <<flags, order, pc>>
      BY <2>1, <2>6, <3>2 DEF PutPage
    <3> QED
      BY <2>6, <3>1, <3>2 DEF PutPage, locals
  <2> QED
    BY <1>2, <2>2, <2>3, <2>4, <2>5, <2>6, AllocTakeAligned DEF Call
<1> QED
  BY <1>1, <1>2 DEF Next

\* Alignment and full merging are preserved by every step.
THEOREM AlignmentInvariant == Spec => []AInv
<1>1. IInv /\ IInv' /\ AInv /\ [Next]_vars => AInv'
  <2> SUFFICES ASSUME IInv, IInv', AInv, [Next]_vars PROVE AInv'
    OBVIOUS
  <2>1. CASE UNCHANGED vars
    <3>1. Heads' = Heads /\ FreeHeads' = FreeHeads /\ UNCHANGED <<flags, order, pc, pfn, high>>
      BY <2>1 DEF vars, Heads, FreeHeads
    <3>2. NoFreePair'
      BY <3>1, NoneAdded DEF AInv
    <3> QED
      BY <3>1, <3>2 DEF AInv, BlocksAligned, InitMaximal, PfnAlignedToOrder
  <2> QED
    BY <2>1, StepAligned
<1> QED
  BY <1>1, InitAInv, InductiveInvariant, PTL DEF Spec

\* Every block, free, allocated or in the loop of expand_block or buddy_merge_pfn, starts at
\* a multiple of its size: the xor of buddy_pfn names the other half of a real block.
THEOREM BlocksStayAligned == Spec => []BlocksAligned
<1>1. AInv => BlocksAligned
  BY DEF AInv
<1> QED
  BY <1>1, AlignmentInvariant, PTL

\* Free memory is never left split between calls: buddy_merge_pfn looks at one buddy per
\* order only, and that is enough in whatever order blocks were allocated and freed.
THEOREM FreeMemoryIsMerged == Spec => []FullyMerged
<1>1. AInv => FullyMerged
  BY DEF AInv, NoFreePair, FullyMerged
<1> QED
  BY <1>1, AlignmentInvariant, PTL
=============================================================================
