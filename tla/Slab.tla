------------------------------------ MODULE Slab ------------------------------------
(***************************************************************************)
(* The object allocator of kernel/slab.c (kmalloc, kfree) and Rust's       *)
(* global allocator on top of it (rust/src/allocator.rs).                  *)
(*                                                                         *)
(* Memory is a range of cells; an address is a cell and doubles as the     *)
(* physical address of the linear map.  kmalloc and kfree run under        *)
(* slab_lock with interrupts masked and are one step.  Rust's large        *)
(* allocations take no lock: each access to PAGE_ALLOCS and its counter is *)
(* a step, as the unoptimised build makes them (rust/Cargo.toml:16).       *)
(* dealloc's scan is one step: what it finds depends only on the moment it *)
(* reads the counter and on the entry that matches.  The page allocator    *)
(* hands out any free aligned block (module Buddy).  Callers free what     *)
(* they hold, once.                                                        *)
(***************************************************************************)
EXTENDS Integers, Sequences, FiniteSets, SequencesExt

CONSTANTS Tasks,
          PageSize,       \* cells of a page
          FirstPage, Pages,  \* the pages FirstPage .. FirstPage + Pages - 1
          MaxOrder,       \* largest order of the page allocator
          SlabSizes,      \* slab_sizes: the object sizes, ascending
          SZ_8K,          \* largest size served by a cache
          SZ_4M,          \* largest size kmalloc serves
          MAX_SLAB_PAGES, MAX_LARGE_ALLOCS,
          LARGE_THRESHOLD, MAX_PAGE_ALLOCS,
          Sizes, RustSizes,  \* the sizes that C and Rust ask for
          NULL

ASSUME PageAssumption == PageSize \in Nat \ {0} /\ FirstPage \in Nat \ {0} /\ Pages \in Nat
ASSUME SizesAssumption ==
    /\ SlabSizes \in Seq(Nat \ {0}) /\ SlabSizes # <<>>
    /\ \A i \in 1..(Len(SlabSizes) - 1) : SlabSizes[i] < SlabSizes[i + 1]
    /\ SlabSizes[Len(SlabSizes)] = SZ_8K
    /\ Sizes \subseteq Nat /\ RustSizes \subseteq Nat /\ SZ_4M \in Nat
ASSUME LimitsAssumption ==
    /\ MaxOrder \in Nat /\ MAX_SLAB_PAGES \in Nat /\ MAX_LARGE_ALLOCS \in Nat
    /\ MAX_PAGE_ALLOCS \in Nat /\ LARGE_THRESHOLD \in Nat /\ SZ_8K < LARGE_THRESHOLD

VARIABLES blocks,   \* the page allocator's blocks in use: [pa, order]
          slab,     \* slab_pages in use: address -> [cache, inuse, freelist]
          partial,  \* slab_caches[c].partial, pages by address
          large,    \* large_allocs in use: [va, order]
          table,    \* PAGE_ALLOCS, its first MAX_PAGE_ALLOCS entries
          count,    \* PAGE_ALLOC_COUNT
          op,       \* what each task is doing in Rust's allocator
          held,     \* the objects callers hold: [addr, size, by]
          leaked,   \* history: blocks that nobody can give back
          confused  \* history: a stale entry of PAGE_ALLOCS was matched

vars == <<blocks, slab, partial, large, table, count, op, held, leaked, confused>>
caches == <<slab, partial>>
rust == <<table, count, op>>

Cells == (FirstPage * PageSize)..((FirstPage + Pages) * PageSize - 1)
Caches == 1..Len(SlabSizes)
Idle == [kind |-> "idle"]
ASSUME NullAssumption == NULL \notin Cells

Init ==
    /\ blocks = {} /\ slab = <<>> /\ partial = [c \in Caches |-> <<>>] /\ large = {}
    /\ table = [i \in 1..MAX_PAGE_ALLOCS |-> NULL] /\ count = 0
    /\ op = [t \in Tasks |-> Idle]
    /\ held = {} /\ leaked = {} /\ confused = FALSE

------------------------------------------------------------------------------------
\* PAGE_SIZE << order
Span[order \in Nat] == IF order = 0 THEN PageSize ELSE 2 * Span[order - 1]
Extent(addr, size) == addr..(addr + size - 1)

\* get_order_ul, slab_order_for_size: the smallest order whose span holds size.
Order(size) == CHOOSE o \in 0..size : Span[o] >= size /\ (o = 0 \/ Span[o - 1] < size)

\* Where alloc_phys_pages may put a block: module Buddy hands out aligned free blocks.
FreeBlocks(order) ==
    {pa \in Cells : /\ order <= MaxOrder
                    /\ pa % Span[order] = 0
                    /\ Extent(pa, Span[order]) \subseteq Cells
                    /\ \A b \in blocks : Extent(pa, Span[order]) \cap Extent(b.pa, Span[b.order]) = {}}

Block(pa, order) == [pa |-> pa, order |-> order]

\* find_slab_cache
FindSlabCache(size) == SelectInSeq(SlabSizes, LAMBDA s : size <= s)

\* Mutated form: one object too many.
CapacityPlusOne(c) == Span[Order(SlabSizes[c])] \div SlabSizes[c] + 1

Capacity(c) == Span[Order(SlabSizes[c])] \div SlabSizes[c]

\* slab_grow's free list: the last object first.
FreshList(pa, c) == [i \in 1..Capacity(c) |-> pa + (Capacity(c) - i) * SlabSizes[c]]

\* alloc_slab_page_meta finds no unused descriptor.
PoolFull == Cardinality(DOMAIN slab) = MAX_SLAB_PAGES

\* What kmalloc returns to its caller: by asked for size.
Hand(addr, size, by) ==
    held' = IF addr = NULL THEN held ELSE held \cup {[addr |-> addr, size |-> size, by |-> by]}

\* slab_grow, and the first object taken.
SlabGrow(c, size, by) ==
    LET order == Order(SlabSizes[c])
    IN IF PoolFull \/ FreeBlocks(order) = {}
       THEN Hand(NULL, size, by) /\ UNCHANGED <<blocks, caches>>
       ELSE \E pa \in FreeBlocks(order) :
              LET objs == FreshList(pa, c)
              IN /\ blocks' = blocks \cup {Block(pa, order)}
                 /\ slab' = [p \in DOMAIN slab \cup {pa} |->
                                IF p = pa THEN [cache |-> c, inuse |-> 1, freelist |-> Tail(objs)]
                                ELSE slab[p]]
                 /\ partial' = [partial EXCEPT ![c] = <<pa>> \o @]
                 /\ Hand(Head(objs), size, by)

\* slab_alloc: the first page of the list that has a free object, or a new page.
SlabAlloc(c, size, by) ==
    LET i == SelectInSeq(partial[c], LAMBDA p : slab[p].freelist # <<>>)
        sp == partial[c][i]
    IN IF i = 0 THEN SlabGrow(c, size, by)
       ELSE /\ slab' = [slab EXCEPT ![sp].freelist = Tail(@), ![sp].inuse = @ + 1]
            /\ Hand(Head(slab[sp].freelist), size, by)
            /\ UNCHANGED <<blocks, partial>>

\* large_alloc
LargeAlloc(size, by) ==
    IF Cardinality(large) = MAX_LARGE_ALLOCS \/ FreeBlocks(Order(size)) = {}
    THEN Hand(NULL, size, by) /\ UNCHANGED <<blocks, large>>
    ELSE \E pa \in FreeBlocks(Order(size)) :
           /\ blocks' = blocks \cup {Block(pa, Order(size))}
           /\ large' = large \cup {[va |-> pa, order |-> Order(size)]}
           /\ Hand(pa, size, by)

\* kmalloc
Kmalloc(size, by) ==
    IF size = 0 \/ size > SZ_4M THEN Hand(NULL, size, by) /\ UNCHANGED <<blocks, caches, large>>
    ELSE IF size <= SZ_8K THEN SlabAlloc(FindSlabCache(size), size, by) /\ UNCHANGED large
    ELSE LargeAlloc(size, by) /\ UNCHANGED caches

\* slab_cache_del_page
SlabCacheDelPage(p) == partial' = [partial EXCEPT ![slab[p].cache] = RemoveFirst(@, p)]

\* slab_destroy_page
SlabDestroyPage(p) ==
    /\ SlabCacheDelPage(p)
    /\ blocks' = blocks \ {Block(p, Order(SlabSizes[slab[p].cache]))}
    /\ slab' = [q \in DOMAIN slab \ {p} |-> slab[q]]

\* Mutated form: the page goes with one object still in use.
OneLeft(p) == slab[p].inuse <= 2

LastObject(p) == slab[p].inuse <= 1

\* slab_free_obj
SlabFreeObj(addr) ==
    LET sp == {p \in DOMAIN slab : addr \in Extent(p, Span[Order(SlabSizes[slab[p].cache])])}
    IN IF sp = {} THEN UNCHANGED <<blocks, caches>>
       ELSE \E p \in sp :
              IF LastObject(p) THEN SlabDestroyPage(p)
              ELSE /\ slab' = [slab EXCEPT ![p].freelist = <<addr>> \o @, ![p].inuse = @ - 1]
                   /\ UNCHANGED <<blocks, partial>>

\* Mutated form: the descriptor stays.
KeepMeta(la) == UNCHANGED large

FreeLargeMeta(la) == large' = large \ {la}

\* kfree
Kfree(addr) ==
    LET la == {l \in large : l.va = addr}
    IN IF la = {} THEN SlabFreeObj(addr) /\ UNCHANGED large
       ELSE \E l \in la : /\ blocks' = blocks \ {Block(l.va, l.order)}
                          /\ FreeLargeMeta(l)
                          /\ UNCHANGED caches

------------------------------------------------------------------------------------
CAlloc(size) ==
    /\ Kmalloc(size, "c")
    /\ UNCHANGED <<rust, leaked, confused>>

CFree(h) ==
    /\ h.by = "c"
    /\ held' = held \ {h}
    /\ Kfree(h.addr)
    /\ UNCHANGED <<rust, leaked, confused>>

Become(t, what) == op' = [op EXCEPT ![t] = what]

\* GlobalAlloc::alloc of a small size.
RustSmall(size) ==
    /\ size < LARGE_THRESHOLD
    /\ Kmalloc(size, "rust")
    /\ UNCHANGED <<rust, leaked, confused>>

\* The order that alloc and dealloc compute from the size.
RustOrder(size) == IF Order(size) > MaxOrder THEN MaxOrder ELSE Order(size)

\* GlobalAlloc::alloc of a large size: the pages first.
RustLarge(t, size) ==
    /\ op[t] = Idle /\ size >= LARGE_THRESHOLD
    /\ IF FreeBlocks(RustOrder(size)) = {}
       THEN Become(t, [kind |-> "fallback", size |-> size]) /\ UNCHANGED blocks
       ELSE \E pa \in FreeBlocks(RustOrder(size)) :
              /\ blocks' = blocks \cup {Block(pa, RustOrder(size))}
              /\ Become(t, [kind |-> "check", size |-> size, addr |-> pa, at |-> 0])
    /\ UNCHANGED <<caches, large, table, count, held, leaked, confused>>

\* Without pages, kmalloc.
RustFallback(t) ==
    /\ op[t].kind = "fallback"
    /\ Kmalloc(op[t].size, "rust")
    /\ Become(t, Idle)
    /\ UNCHANGED <<table, count, leaked, confused>>

\* The block goes to the caller.
Return(t) == Hand(op[t].addr, op[t].size, "rust") /\ Become(t, Idle)

Recording(t, kind) ==
    op[t].kind = kind /\ UNCHANGED <<blocks, caches, large, leaked, confused>>

\* The first read of PAGE_ALLOC_COUNT: a full table is silently left alone.
RustCheck(t) ==
    /\ Recording(t, "check")
    /\ IF count < MAX_PAGE_ALLOCS
       THEN Become(t, [op[t] EXCEPT !.kind = "index"]) /\ UNCHANGED held
       ELSE Return(t)
    /\ UNCHANGED <<table, count>>

\* The second read is the index of the entry.  Out of range it panics, and the task stays
\* in the panic handler's loop with its block.
RustIndex(t) ==
    /\ Recording(t, "index")
    /\ Become(t, IF count < MAX_PAGE_ALLOCS THEN [op[t] EXCEPT !.kind = "write", !.at = count]
                 ELSE [op[t] EXCEPT !.kind = "panic"])
    /\ UNCHANGED <<table, count, held>>

RustWrite(t) ==
    /\ Recording(t, "write")
    /\ table' = [table EXCEPT ![op[t].at + 1] = op[t].addr]
    /\ Become(t, [op[t] EXCEPT !.kind = "load"])
    /\ UNCHANGED <<count, held>>

\* PAGE_ALLOC_COUNT += 1 is a load and a store.
RustLoad(t) ==
    /\ Recording(t, "load")
    /\ Become(t, [op[t] EXCEPT !.kind = "store", !.at = count])
    /\ UNCHANGED <<table, count, held>>

RustStore(t) ==
    /\ Recording(t, "store")
    /\ count' = op[t].at + 1
    /\ Return(t)
    /\ UNCHANGED table

\* An entry below the counter that no one has written holds zero, which is no address.
Recorded(addr) == \E i \in 1..MAX_PAGE_ALLOCS : i <= count /\ table[i] = addr

\* GlobalAlloc::dealloc.  Entries are never removed, so an address may match an entry of
\* an allocation freed long ago; an unrecorded large one goes to kfree, which knows
\* nothing of it.  A counter beyond the table makes a scan without a match panic: the
\* object is then never freed.
RustDealloc(h) ==
    LET b == Block(h.addr, RustOrder(h.size))
    IN /\ h.by = "rust"
       /\ Recorded(h.addr) \/ count <= MAX_PAGE_ALLOCS
       /\ held' = held \ {h}
       /\ IF Recorded(h.addr)
          THEN /\ blocks' = blocks \ {b}
               /\ confused' = (confused \/ h.addr \in {l.va : l \in large} \cup DOMAIN slab)
               /\ UNCHANGED <<caches, large, leaked>>
          ELSE /\ Kfree(h.addr)
               /\ leaked' = IF blocks' # blocks \/ slab' # slab THEN leaked ELSE leaked \cup {b}
               /\ UNCHANGED confused
       /\ UNCHANGED rust

------------------------------------------------------------------------------------
Next ==
    \/ \E size \in Sizes : CAlloc(size)
    \/ \E size \in RustSizes : RustSmall(size)
    \/ \E t \in Tasks, size \in RustSizes : RustLarge(t, size)
    \/ \E t \in Tasks : RustFallback(t) \/ RustCheck(t) \/ RustIndex(t) \/ RustWrite(t)
                        \/ RustLoad(t) \/ RustStore(t)
    \/ \E h \in held : CFree(h) \/ RustDealloc(h)

Spec == Init /\ [][Next]_vars

------------------------------------------------------------------------------------
\* Every variable has its type, and the pools of descriptors never overflow.  The counter
\* of PAGE_ALLOCS may pass the end of its table.
TypeOK ==
    /\ blocks \subseteq [pa : Cells, order : 0..MaxOrder]
    /\ DOMAIN slab \subseteq Cells /\ Cardinality(DOMAIN slab) <= MAX_SLAB_PAGES
    /\ \A p \in DOMAIN slab : slab[p] \in [cache : Caches, inuse : 1..PageSize, freelist : Seq(Cells)]
    /\ partial \in [Caches -> Seq(Cells)]
    /\ large \subseteq [va : Cells, order : 0..MaxOrder] /\ Cardinality(large) <= MAX_LARGE_ALLOCS
    /\ table \in [1..MAX_PAGE_ALLOCS -> Cells \cup {NULL}] /\ count \in Nat
    /\ held \subseteq [addr : Cells, size : Sizes \cup RustSizes, by : {"c", "rust"}]

\* The places for objects on a slab page.
ObjectsOf(p) ==
    LET size == SlabSizes[slab[p].cache]
        page == Extent(p, Span[Order(size)])
    IN {addr \in page : (addr - p) % size = 0 /\ Extent(addr, size) \subseteq page}

HeldIn(p) == {h \in held : h.addr \in ObjectsOf(p)}

\* The objects of a slab page are either held by a caller or on its free list, each once,
\* and inuse counts the held ones (slab_alloc, slab_free_obj): otherwise an object is
\* handed out twice, or the page is given back under its users.  And a page with a user
\* is on the list of its own cache, once, and on no other (slab_grow, slab_destroy_page).
SlabPagesExact ==
  ~confused =>
    /\ TypeOK
    /\ \A c \in Caches : /\ IsInjective(partial[c])
                          /\ ToSet(partial[c]) = {p \in DOMAIN slab : slab[p].cache = c}
    /\ \A p \in DOMAIN slab :
          LET onlist == ToSet(slab[p].freelist)
              taken == {h.addr : h \in HeldIn(p)}
          IN /\ Len(slab[p].freelist) = Cardinality(onlist)
             /\ onlist \cap taken = {}
             /\ onlist \cup taken = ObjectsOf(p)
             /\ slab[p].inuse = Cardinality(HeldIn(p))

SlabBlocks == {Block(p, Order(SlabSizes[slab[p].cache])) : p \in DOMAIN slab}
LargeBlocks == {Block(l.va, l.order) : l \in large}
\* The tasks that have pages in hand which no caller holds yet.
Pending == {t \in Tasks : op[t].kind \notin {"idle", "fallback"}}
RustBlocks ==
    {Block(op[t].addr, RustOrder(op[t].size)) : t \in Pending}
    \cup {Block(h.addr, RustOrder(h.size)) : h \in
            {g \in held : g.addr \notin DOMAIN slab \cup {l.va : l \in large} /\ g.size >= LARGE_THRESHOLD}}

\* The page allocator's blocks in use are exactly those of the slab pages, of the large
\* allocations and of Rust's callers, and the ones that a full or overwritten PAGE_ALLOCS
\* has lost: nothing else leaks and nothing in use is given back.
BlocksExact ==
    ~confused => blocks = SlabBlocks \cup LargeBlocks \cup RustBlocks \cup leaked

\* The cells a caller really gets: Rust's allocator serves a layout above the largest
\* block with the largest block.
Given(size) == IF size > Span[MaxOrder] THEN Span[MaxOrder] ELSE size

\* To its callers kmalloc, with Rust's allocator beside it, is an allocator of the cells it
\* really gives: it hands out cells that nobody holds and takes back only what is held,
\* for as long as no stale entry of PAGE_ALLOCS has been matched.
PA == INSTANCE PageAlloc WITH
        Frames <- Cells, Sizes <- {Given(s) : s \in Sizes \cup RustSizes},
        owned <- {<<h.addr, Given(h.size)>> : h \in held}

\* The allocator of module PageAlloc, on cells.
ImplementsPageAlloc == PA!Spec
====================================================================================
