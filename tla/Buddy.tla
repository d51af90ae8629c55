-------------------------------- MODULE Buddy --------------------------------
(***************************************************************************)
(* The buddy allocator of kernel/pmm.c.                                    *)
(*                                                                         *)
(* A page frame has flags, an order and a reference count (struct page);   *)
(* the heads of the free blocks of each order are kept in a list           *)
(* (free_area[order]).  pmm.c takes no lock: its callers are serialised in *)
(* this module, so at most one call is in flight.  The loops of            *)
(* expand_block, buddy_merge_pfn and buddy_init take one step per          *)
(* iteration; pc, pfn, high and low are the locals of the call in flight.  *)
(***************************************************************************)
EXTENDS Integers, Sequences, FiniteSets

CONSTANTS
  MaxOrder,     \* MAX_ORDER, the largest order of a block
  BlockPages,   \* BlockPages[o] is 1UL << o, the pages of a block of order o
  TotalPages,   \* TOTAL_PAGES, the page frames of the physical memory
  KernelPages,  \* the frames below buddy_mem_start, occupied by the kernel
  DmaEndPfn,    \* dma_end_pfn, the end of the DMA zone
  MaxRef        \* bound: no reference count grows beyond it

Orders == 0..MaxOrder
Pages  == 0..(TotalPages - 1)

ASSUME SizeAssumption ==
  /\ MaxOrder \in Nat
  /\ TotalPages \in Nat
  /\ KernelPages \in Nat /\ KernelPages < TotalPages
  /\ DmaEndPfn \in Nat
  /\ MaxRef \in Nat

ASSUME ShiftAssumption ==
  /\ BlockPages \in [Orders -> Nat]
  /\ BlockPages[0] = 1
  /\ \A o \in Orders : o < MaxOrder => BlockPages[o + 1] = 2 * BlockPages[o]
  /\ \A o \in Orders : BlockPages[o] > 0

VARIABLES
  flags,       \* page -> "none", "reserved", "buddy" or "allocated"
  order,       \* page -> the order of the block it heads
  ref_count,   \* page -> reference count
  free_list,   \* order -> the heads of its free blocks, in list order
  nr_free,     \* order -> the length the code keeps for free_list
  last_error,  \* buddy_last_error
  pc,          \* "idle", or the loop the call in flight is in
  pfn,         \* the block the call in flight holds
  high,        \* ... its order
  low          \* ... the order an allocation asks for

meta   == <<flags, order>>
lists  == <<free_list, nr_free>>
locals == <<pc, pfn, high, low>>
vars   == <<flags, order, ref_count, free_list, nr_free, last_error,
            pc, pfn, high, low>>

Errors == {"OK", "BAD_ORDER", "NO_MEMORY", "OUT_OF_RANGE", "UNALIGNED",
           "NOT_ALLOCATED", "DOUBLE_FREE"}

Fail(err) == /\ last_error' = err
             /\ UNCHANGED <<flags, order, ref_count, free_list, nr_free, locals>>

-----------------------------------------------------------------------------
(* Page frame numbers *)

\* Mutated form: the buddy is always the block on the right.
RightNeighbour(p, o) == p + BlockPages[o]

\* pfn ^ (1UL << order): the other half of the block of the next order.
BuddyPfn(p, o) == IF (p \div BlockPages[o]) % 2 = 0 THEN p + BlockPages[o]
                                                    ELSE p - BlockPages[o]

PfnAlignedToOrder(p, o) == p % BlockPages[o] = 0

Block(p, o) == p..(p + BlockPages[o] - 1)

-----------------------------------------------------------------------------
(* The free lists *)

\* list_del: x leaves the list s.
ListDel(s, x) ==
  LET at == CHOOSE i \in 1..Len(s) : s[i] = x
  IN  [i \in 1..(Len(s) - 1) |-> IF i < at THEN s[i] ELSE s[i + 1]]

AddToFreeArea(p, o) ==
  /\ flags' = [flags EXCEPT ![p] = "buddy"]
  /\ order' = [order EXCEPT ![p] = o]
  /\ free_list' = [free_list EXCEPT ![o] = Append(@, p)]
  /\ nr_free' = [nr_free EXCEPT ![o] = @ + 1]

\* Mutated form: the counter of the free area is not decremented.
RemoveUncounted(p, o) ==
  /\ flags' = [flags EXCEPT ![p] = "none"]
  /\ order' = [order EXCEPT ![p] = 0]
  /\ free_list' = [free_list EXCEPT ![o] = ListDel(@, p)]
  /\ UNCHANGED nr_free

RemoveFromFreeArea(p, o) ==
  /\ flags' = [flags EXCEPT ![p] = "none"]
  /\ order' = [order EXCEPT ![p] = 0]
  /\ free_list' = [free_list EXCEPT ![o] = ListDel(@, p)]
  /\ nr_free' = [nr_free EXCEPT ![o] = @ - 1]

-----------------------------------------------------------------------------
(* buddy_init: every frame is reserved, then [KernelPages, TotalPages) is   *)
(* given back as the largest aligned blocks that fit, from left to right.   *)

Init ==
  /\ flags = [p \in Pages |-> "reserved"]
  /\ order = [p \in Pages |-> 0]
  /\ ref_count = [p \in Pages |-> 0]
  /\ free_list = [o \in Orders |-> <<>>]
  /\ nr_free = [o \in Orders |-> 0]
  /\ last_error = "OK"
  /\ pc = "init" /\ pfn = KernelPages /\ high = 0 /\ low = 0

InitFits(o) == /\ BlockPages[o] <= TotalPages - pfn
               /\ PfnAlignedToOrder(pfn, o)

InitOrder(o) == InitFits(o) /\ \A k \in (o + 1)..MaxOrder : ~InitFits(k)

InitBlock ==
  /\ pc = "init" /\ pfn < TotalPages
  /\ \E o \in Orders :
       /\ InitOrder(o)
       /\ flags' = [p \in Pages |-> IF p = pfn THEN "buddy"
                                    ELSE IF p \in Block(pfn, o) THEN "none"
                                    ELSE flags[p]]
       /\ order' = [p \in Pages |-> IF p = pfn THEN o
                                    ELSE IF p \in Block(pfn, o) THEN 0
                                    ELSE order[p]]
       /\ free_list' = [free_list EXCEPT ![o] = Append(@, pfn)]
       /\ nr_free' = [nr_free EXCEPT ![o] = @ + 1]
       /\ pfn' = pfn + BlockPages[o]
  /\ UNCHANGED <<ref_count, last_error, pc, high, low>>

InitDone ==
  /\ pc = "init" /\ pfn = TotalPages
  /\ pc' = "idle" /\ pfn' = 0
  /\ UNCHANGED <<flags, order, ref_count, free_list, nr_free, last_error, high, low>>

-----------------------------------------------------------------------------
(* alloc_phys_pages(order, flags); dma is flags & GFP_DMA.                  *)

\* Only the head of a list is looked at, also for GFP_DMA.
Usable(o, dma) == /\ free_list[o] # <<>>
                  /\ ~(dma /\ Head(free_list[o]) >= DmaEndPfn)

AllocBadOrder(o) ==
  /\ pc = "idle" /\ o > MaxOrder
  /\ Fail("BAD_ORDER")

AllocNoMemory(o, dma) ==
  /\ pc = "idle" /\ o <= MaxOrder
  /\ \A cur \in o..MaxOrder : ~Usable(cur, dma)
  /\ Fail("NO_MEMORY")

\* buddy_alloc_pfn: the first list at or above the order asked for.
AllocTake(o, dma) ==
  /\ pc = "idle" /\ o <= MaxOrder
  /\ \E cur \in o..MaxOrder :
       /\ Usable(cur, dma) /\ \A k \in o..(cur - 1) : ~Usable(k, dma)
       /\ LET p == Head(free_list[cur])
          IN  /\ RemoveFromFreeArea(p, cur)
              /\ pfn' = p
       /\ high' = cur
  /\ low' = o /\ pc' = "expand"
  /\ UNCHANGED <<ref_count, last_error>>

\* Mutated form: the right half is looked for one size further.
RightHalfBeyond(p, o) == p + 2 * BlockPages[o]

RightHalf(p, o) == p + BlockPages[o]

\* One iteration of expand_block: the right half goes to the next lower list.
ExpandBlock ==
  /\ pc = "expand" /\ high > low
  /\ high' = high - 1
  /\ AddToFreeArea(RightHalf(pfn, high - 1), high - 1)
  /\ UNCHANGED <<ref_count, last_error, pc, pfn, low>>

MarkPageAllocated(p, o) ==
  /\ flags' = [flags EXCEPT ![p] = "allocated"]
  /\ order' = [order EXCEPT ![p] = o]

AllocDone ==
  /\ pc = "expand" /\ high = low
  /\ MarkPageAllocated(pfn, low)
  /\ ref_count' = [ref_count EXCEPT ![pfn] = 1]
  /\ last_error' = "OK"
  /\ pc' = "idle" /\ pfn' = 0 /\ high' = 0 /\ low' = 0
  /\ UNCHANGED lists

-----------------------------------------------------------------------------
(* free_phys_pages(pa, order): p is the frame of pa, aligned whether pa is   *)
(* the address of its first byte.                                           *)

PaInRange(p) == KernelPages <= p /\ p < TotalPages

\* Mutated form: the order is not compared with the one allocated.
NoOrderCheck(p, o) == IF flags[p] = "buddy" THEN "DOUBLE_FREE"
                      ELSE IF flags[p] # "allocated" THEN "NOT_ALLOCATED"
                      ELSE "OK"

\* The checks of the page's own state; flags other than "allocated" and
\* "buddy" have no PG_HEAD.
PageCheck(p, o) == IF flags[p] = "buddy" THEN "DOUBLE_FREE"
                   ELSE IF flags[p] # "allocated" THEN "NOT_ALLOCATED"
                   ELSE IF order[p] # o THEN "BAD_ORDER"
                   ELSE "OK"

FreeCheck(p, aligned, o) == IF o > MaxOrder THEN "BAD_ORDER"
                            ELSE IF ~PaInRange(p) THEN "OUT_OF_RANGE"
                            ELSE IF ~aligned \/ ~PfnAlignedToOrder(p, o) THEN "UNALIGNED"
                            ELSE PageCheck(p, o)

\* The effect on everything but ref_count, shared with put_page.
FreePhysPages(p, aligned, o) ==
  LET err == FreeCheck(p, aligned, o)
  IN  \/ /\ err # "OK"
         /\ last_error' = err
         /\ UNCHANGED <<flags, order, free_list, nr_free, locals>>
      \/ /\ err = "OK"
         /\ flags' = [flags EXCEPT ![p] = "none"]
         /\ order' = [order EXCEPT ![p] = 0]
         /\ pc' = "merge" /\ pfn' = p /\ high' = o
         /\ UNCHANGED <<free_list, nr_free, last_error, low>>

FreeBegin(p, aligned, o) ==
  /\ pc = "idle"
  /\ FreePhysPages(p, aligned, o)
  /\ UNCHANGED ref_count

CanMerge(p, o) == /\ BuddyPfn(p, o) < TotalPages
                  /\ flags[BuddyPfn(p, o)] = "buddy"
                  /\ order[BuddyPfn(p, o)] = o

\* Mutated form: merging stops one order too early.
MergeBelowLast == high < MaxOrder - 1

MergeBound == high < MaxOrder

\* Mutated form: the merged block keeps the head of the freed one.
MergedHeadUnmoved(p, b) == p

MergedHead(p, b) == IF b < p THEN b ELSE p

\* One iteration of buddy_merge_pfn.
MergeBuddy ==
  /\ pc = "merge" /\ MergeBound /\ CanMerge(pfn, high)
  /\ LET b == BuddyPfn(pfn, high)
     IN  /\ RemoveFromFreeArea(b, high)
         /\ pfn' = MergedHead(pfn, b)
  /\ high' = high + 1
  /\ UNCHANGED <<ref_count, last_error, pc, low>>

MergeDone ==
  /\ pc = "merge" /\ ~(MergeBound /\ CanMerge(pfn, high))
  /\ AddToFreeArea(pfn, high)
  /\ last_error' = "OK"
  /\ pc' = "idle" /\ pfn' = 0 /\ high' = 0
  /\ UNCHANGED <<ref_count, low>>

-----------------------------------------------------------------------------
(* get_page and put_page *)

\* The callers (fork, PhysPage::clone) share a page they hold.
GetPage(p) ==
  /\ pc = "idle" /\ flags[p] = "allocated" /\ ref_count[p] < MaxRef
  /\ ref_count' = [ref_count EXCEPT ![p] = @ + 1]
  /\ UNCHANGED <<flags, order, free_list, nr_free, last_error, locals>>

\* The last reference frees the page as a block of order 0.
PutPage(p) ==
  /\ pc = "idle" /\ ref_count[p] > 0
  /\ ref_count' = [ref_count EXCEPT ![p] = @ - 1]
  /\ \/ ref_count[p] = 1 /\ FreePhysPages(p, TRUE, 0)
     \/ ref_count[p] > 1 /\ UNCHANGED <<flags, order, free_list, nr_free, last_error, locals>>

-----------------------------------------------------------------------------
Step == InitBlock \/ InitDone \/ ExpandBlock \/ AllocDone \/ MergeBuddy \/ MergeDone

Call == \/ \E o \in 0..(MaxOrder + 1) : AllocBadOrder(o)
        \/ \E o \in 0..(MaxOrder + 1), dma \in BOOLEAN :
             AllocNoMemory(o, dma) \/ AllocTake(o, dma)
        \/ \E p \in 0..TotalPages, aligned \in BOOLEAN, o \in 0..(MaxOrder + 1) :
             FreeBegin(p, aligned, o)
        \/ \E p \in Pages : GetPage(p) \/ PutPage(p)

Next == Step \/ Call

Spec == Init /\ [][Next]_vars

-----------------------------------------------------------------------------
(* Properties *)

Managed   == KernelPages..(TotalPages - 1)
FreeHeads == {p \in Pages : flags[p] = "buddy"}
UsedHeads == {p \in Pages : flags[p] = "allocated"}
Heads     == {p \in Pages : flags[p] \in {"buddy", "allocated"}}

\* The frames the call in flight has taken out of the lists.
InFlight == IF pc = "init" THEN pfn..(TotalPages - 1)
            ELSE IF pc = "idle" THEN {}
            ELSE Block(pfn, high)

\* Every variable has its type.
TypeOK ==
  /\ flags \in [Pages -> {"none", "reserved", "buddy", "allocated"}]
  /\ order \in [Pages -> Orders]
  /\ ref_count \in [Pages -> Nat]
  /\ free_list \in [Orders -> Seq(Pages)]
  /\ nr_free \in [Orders -> Nat]
  /\ last_error \in Errors
  /\ pc \in {"init", "idle", "expand", "merge"}
  /\ pfn \in 0..TotalPages
  /\ high \in Orders /\ low \in Orders
  /\ pc = "expand" => low <= high

\* No frame belongs to two blocks, free, allocated or in the hands of the call
\* in flight, and no block reaches outside the memory pmm.c manages, into the
\* kernel's frames in particular: what splitting (expand_block) and merging
\* (buddy_merge_pfn) must keep, also when a caller frees twice, with a wrong
\* order or at an address that is not a block's head.
BlocksDisjoint ==
  /\ \A p, q \in Heads : p # q => Block(p, order[p]) \cap Block(q, order[q]) = {}
  /\ \A p \in Heads : Block(p, order[p]) \cap InFlight = {}
  /\ \A p \in Heads : Block(p, order[p]) \subseteq Managed
  /\ InFlight \subseteq Managed

\* No frame is lost: each managed frame is in a free block, in an allocated one
\* or in the block of the call in flight.
NoFrameLost ==
  \A q \in Managed : q \in InFlight \/ \E p \in Heads : q \in Block(p, order[p])

\* The list s holds the elements of R, each of them once.
IsListOf(s, R) ==
  /\ \A i, j \in 1..Len(s) : s[i] = s[j] => i = j
  /\ {s[i] : i \in 1..Len(s)} = R

\* The two records of what is free agree: the list of an order holds, once, the
\* pages whose flags say they head a free block of it, and nr_free counts them.
FreeListsAgree ==
  \A o \in Orders :
    /\ IsListOf(free_list[o], {p \in FreeHeads : order[p] = o})
    /\ nr_free[o] = Len(free_list[o])

\* The part of the properties that is preserved by every step.
IInv == TypeOK /\ BlocksDisjoint /\ NoFrameLost /\ FreeListsAgree

\* doc/algorithm.md: a free block of order N starts at a multiple of 2^N.  The
\* pairing by buddy_pfn is only right if allocated blocks keep it too.
BlocksAligned ==
  /\ \A p \in Heads : PfnAlignedToOrder(p, order[p])
  /\ pc \in {"expand", "merge"} => PfnAlignedToOrder(pfn, high)

\* Free memory is never left split: between calls no free block has a free buddy
\* of its order, whatever the order in which blocks were allocated and freed.
FullyMerged ==
  pc = "idle" => \A p \in FreeHeads : order[p] < MaxOrder => ~CanMerge(p, order[p])

Owned == {<<p, order[p]>> : p \in UsedHeads}

PA == INSTANCE PageAlloc WITH Frames <- Managed, Sizes <- Orders,
                              Extent <- Block, owned <- Owned

\* pmm.c keeps the promise of a page allocator: the block alloc_phys_pages
\* returns is disjoint from every block not yet freed, and free_phys_pages and
\* put_page take back nothing but a block that was handed out.
ImplementsPageAlloc == PA!Spec

=============================================================================
