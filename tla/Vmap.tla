------------------------------------ MODULE Vmap ------------------------------------
(***************************************************************************)
(* Kernel virtual memory: the area manager of kernel/vmap.c and its users  *)
(* in kernel/vmalloc.c (vmalloc, ioremap, DMA buffers).                    *)
(*                                                                         *)
(* Addresses are page numbers 0 .. SpacePages-1 of the vmalloc range.  The *)
(* sorted list and the red-black tree hold the same areas, here one set.   *)
(* va_alloc and va_free run under va_mgr.lock with interrupts masked and   *)
(* are one step; their callers are preemptible between any two steps.      *)
(* Every caller asks for page alignment, so va_alloc wastes no space in    *)
(* front of an area.  kmalloc may fail wherever Fallible says.             *)
(***************************************************************************)
EXTENDS Integers, FiniteSets

CONSTANTS Tasks,
          SpacePages,   \* VMALLOC_SIZE, in pages
          Frames,       \* how many physical frames there are
          MaxPages,     \* bound on the pages of one request
          Fallible,     \* which kmalloc calls may fail: "remain", "vm", "record"
          Garbage       \* what va_size reads from a freed descriptor

ASSUME SpaceAssumption == SpacePages \in Nat \ {0}
ASSUME FramesAssumption == Frames \in Nat
ASSUME MaxAssumption == MaxPages \in 1..1024
ASSUME GarbageAssumption == Garbage \notin Int

VARIABLES free,        \* va_mgr's free areas [start, end]
          busy,        \* va_mgr.busy_list
          total_free,  \* va_mgr.total_free, Garbage once it is spoilt
          nr_busy,     \* va_mgr.nr_busy
          mapped,      \* what a page of the range is mapped to
          vm_list,     \* the vm_structs: [addr, nr]
          io_map_list, \* the io_mappings: [addr, nr]
          dma_map_list,\* the dma_mappings: [addr, nr]
          io_live,     \* addresses that drivers got from ioremap and still use
          lost,        \* history: areas that nobody can give back any more
          nfree,       \* free frames
          op           \* the call each task is in, with its locals

areas == <<free, busy, total_free, nr_busy>>
lists == <<vm_list, io_map_list, dma_map_list, io_live, lost>>
vars == <<free, busy, total_free, nr_busy, mapped, vm_list, io_map_list, dma_map_list,
          io_live, lost, nfree, op>>

Space == 0..(SpacePages - 1)
Size(a) == a.end - a.start
PageRange(addr, nr) == addr..(addr + nr - 1)
Idle == [kind |-> "idle"]

\* kmalloc's answer: it succeeds, or it may fail.
Kmalloc(what) == {TRUE} \cup {b \in {FALSE} : what \in Fallible}

\* va_manager_init
Init ==
    /\ free = {[start |-> 0, end |-> SpacePages]}
    /\ busy = {}
    /\ total_free = SpacePages
    /\ nr_busy = 0
    /\ mapped = [v \in Space |-> "none"]
    /\ vm_list = {} /\ io_map_list = {} /\ dma_map_list = {} /\ io_live = {} /\ lost = {}
    /\ nfree = Frames
    /\ op = [t \in Tasks |-> Idle]

------------------------------------------------------------------------------------
(* vmap.c                                                                          *)

Fitting(size) == {a \in free : Size(a) >= size}

\* va_find_best_fit: the smallest area that fits, of equal ones the first.  (The search
\* in the tree asks for an area that starts at 0 and finds none.)
BestFit(size) ==
    CHOOSE a \in Fitting(size) : \A b \in Fitting(size) :
        Size(a) < Size(b) \/ (Size(a) = Size(b) /\ a.start <= b.start)

\* Mutated form: the rest is cut off one page early.
RestOverlaps(a, size) == [start |-> a.start + size - 1, end |-> a.end]

RestOf(a, size) == [start |-> a.start + size, end |-> a.end]

\* A rest of one page is not worth a descriptor, and without one the area stays whole.
Splits(a, size, ok) == Size(a) > size + 1 /\ ok

\* The area that va_alloc returns, given kmalloc's answer for the rest.
Taken(a, size, ok) ==
    IF Splits(a, size, ok) THEN [start |-> a.start, end |-> a.start + size] ELSE a

Less(n, k) == IF n = Garbage THEN Garbage ELSE n - k

Counted(got, size) == Size(got)

\* va_alloc, when some area fits.
VaAlloc(size, ok) ==
    LET a == BestFit(size)
        got == Taken(a, size, ok)
    IN /\ free' = (free \ {a}) \cup (IF Splits(a, size, ok) THEN {RestOf(a, size)} ELSE {})
       /\ busy' = busy \cup {got}
       /\ nr_busy' = nr_busy + 1
       /\ total_free' = Less(total_free, Counted(got, size))

\* va_find_prev_free: the last of the sorted list that ends at or below addr.
PrevFree(addr) == {a \in free : a.end <= addr /\ \A b \in free : b.end <= addr => b.start <= a.start}

\* va_find_next_free: the first that starts above addr.
NextFree(addr) == {a \in free : a.start > addr /\ \A b \in free : b.start > addr => a.start <= b.start}

\* Mutated form: a neighbour is merged although it does not touch.
AnyLeft(a) == PrevFree(a.start)

Left(a) == {p \in PrevFree(a.start) : p.end = a.start}
Right(end) == {n \in NextFree(end) : n.start = end}

\* va_free.  total_free is read from the descriptor after a merge has freed it.
VaFree(addr) ==
    LET a == CHOOSE x \in busy : x.start = addr
        left == Left(a)
        start == IF left = {} THEN a.start ELSE (CHOOSE p \in left : TRUE).start
        right == Right(a.end)
        end == IF right = {} THEN a.end ELSE (CHOOSE n \in right : TRUE).end
    IN IF \A x \in busy : x.start # addr THEN UNCHANGED areas
       ELSE /\ busy' = busy \ {a}
            /\ nr_busy' = nr_busy - 1
            /\ total_free' = IF left = {} THEN Less(total_free, start - end) ELSE Garbage
            /\ free' = (free \ (left \cup right)) \cup {[start |-> start, end |-> end]}

------------------------------------------------------------------------------------
(* vmalloc.c                                                                       *)

Become(t, what) == op' = [op EXCEPT ![t] = what]
Doing(t, kind) == op[t].kind = kind
Pages(t) == PageRange(op[t].addr, op[t].nr)

\* map_kernel_page ignores a failure to get a table, so some pages may stay unmapped.
MapKernelPages(t, what) ==
    \E done \in SUBSET Pages(t) :
        mapped' = [v \in Space |-> IF v \in done THEN what ELSE mapped[v]]

UnmapKernelPages(pages) == mapped' = [v \in Space |-> IF v \in pages THEN "none" ELSE mapped[v]]

\* va_alloc for a caller: on success its area, otherwise NULL.
Begin(t, kind, nr, frames) ==
    /\ IF Fitting(nr) = {} THEN UNCHANGED <<areas, op>>
       ELSE \E ok \in Kmalloc("remain") :
              /\ VaAlloc(nr, ok)
              /\ Become(t, [kind |-> kind, addr |-> BestFit(nr).start, nr |-> nr, got |-> frames])
    /\ UNCHANGED <<mapped, lists>>

Vmalloc(t, nr) == Doing(t, "idle") /\ Begin(t, "vmalloc", nr, 0) /\ UNCHANGED nfree

\* Mutated form: the area is forgotten.
ForgetArea(t) == Become(t, Idle)

NoMeta(t) == Become(t, [op[t] EXCEPT !.kind = "give_up"])

\* The descriptor and the page array, or give the area back.
VmallocMeta(t) ==
    /\ Doing(t, "vmalloc")
    /\ \E ok \in Kmalloc("vm") :
          IF ok THEN Become(t, [op[t] EXCEPT !.kind = "pages"]) ELSE NoMeta(t)
    /\ UNCHANGED <<areas, mapped, lists, nfree>>

AllPages(t) == op[t].got = op[t].nr

VmallocPage(t) ==
    /\ Doing(t, "pages") /\ ~AllPages(t)
    /\ IF nfree > 0 THEN /\ nfree' = nfree - 1
                         /\ Become(t, [op[t] EXCEPT !.got = @ + 1])
                    ELSE /\ Become(t, [op[t] EXCEPT !.kind = "cleanup"])
                         /\ UNCHANGED nfree
    /\ UNCHANGED <<areas, mapped, lists>>

\* Mapping and recording are one step: nobody else looks at the pages of the area.
VmallocMap(t) ==
    /\ Doing(t, "pages") /\ AllPages(t)
    /\ MapKernelPages(t, "ram")
    /\ vm_list' = vm_list \cup {[addr |-> op[t].addr, nr |-> op[t].nr]}
    /\ Become(t, Idle)
    /\ UNCHANGED <<areas, io_map_list, dma_map_list, io_live, lost, nfree>>

\* Mutated form: the roll-back forgets one page.
FreeAllButOne(t) == nfree' = nfree + op[t].got - 1

FreePages(t) == nfree' = nfree + op[t].got

\* fail_cleanup_pages: the pages got so far go back.
VmallocCleanup(t) ==
    /\ Doing(t, "cleanup")
    /\ IF op[t].got = 0 THEN UNCHANGED nfree ELSE FreePages(t)
    /\ Become(t, [op[t] EXCEPT !.kind = "give_up", !.got = 0])
    /\ UNCHANGED <<areas, mapped, lists>>

\* fail, and the end of vfree and iounmap: the area goes back.
GiveUp(t) ==
    /\ Doing(t, "give_up")
    /\ VaFree(op[t].addr)
    /\ Become(t, Idle)
    /\ UNCHANGED <<mapped, lists, nfree>>

\* vfree of an address that is on the list; on others it only prints.
Vfree(t, vm) ==
    /\ Doing(t, "idle") /\ vm \in vm_list
    /\ vm_list' = vm_list \ {vm}
    /\ Become(t, [kind |-> "vfree", addr |-> vm.addr, nr |-> vm.nr, got |-> vm.nr])
    /\ UNCHANGED <<areas, mapped, io_map_list, dma_map_list, io_live, lost, nfree>>

UnmapFirst(t) == UnmapKernelPages(Pages(t))

VfreeUnmap(t) ==
    /\ Doing(t, "vfree")
    /\ UnmapFirst(t)
    /\ Become(t, [op[t] EXCEPT !.kind = "cleanup"])
    /\ UNCHANGED <<areas, lists, nfree>>

Ioremap(t, nr) == Doing(t, "idle") /\ Begin(t, "ioremap", nr, 0) /\ UNCHANGED nfree

\* Without a record the driver gets the address all the same.
IoremapMap(t) ==
    /\ Doing(t, "ioremap")
    /\ MapKernelPages(t, "device")
    /\ \E ok \in Kmalloc("record") :
          io_map_list' = IF ok THEN io_map_list \cup {[addr |-> op[t].addr, nr |-> op[t].nr]}
                               ELSE io_map_list
    /\ io_live' = io_live \cup {op[t].addr}
    /\ Become(t, Idle)
    /\ UNCHANGED <<areas, vm_list, dma_map_list, lost, nfree>>

\* iounmap: without a record one page is unmapped.
Iounmap(t, addr) ==
    LET found == {io \in io_map_list : io.addr = addr}
        nr == IF found = {} THEN 1 ELSE (CHOOSE io \in found : TRUE).nr
    IN /\ Doing(t, "idle") /\ addr \in io_live
       /\ io_live' = io_live \ {addr}
       /\ io_map_list' = io_map_list \ found
       /\ UnmapKernelPages(PageRange(addr, nr))
       /\ Become(t, [kind |-> "give_up", addr |-> addr, nr |-> nr, got |-> 0])
       /\ UNCHANGED <<areas, vm_list, dma_map_list, lost, nfree>>

\* 2^order, for the orders up to MAX_ORDER
DmaBlocks == {1, 2, 4, 8, 16, 32, 64, 128, 256, 512, 1024}

\* The block that dma_alloc_coherent takes: 2^order frames for nr pages.
DmaFrames(nr) == CHOOSE k \in DmaBlocks : k >= nr /\ \A j \in DmaBlocks : j >= nr => k <= j

\* dma_alloc_coherent: frames first, then the area; without an area the frames go back.
DmaAlloc(t, nr) ==
    /\ Doing(t, "idle") /\ nfree >= DmaFrames(nr)
    /\ nfree' = nfree - DmaFrames(nr)
    /\ Become(t, [kind |-> "dma_area", nr |-> nr, got |-> DmaFrames(nr)])
    /\ UNCHANGED <<areas, mapped, lists>>

ReturnFrames(t) == Become(t, Idle) /\ nfree' = nfree + op[t].got

DmaArea(t) ==
    /\ Doing(t, "dma_area")
    /\ IF Fitting(op[t].nr) = {} THEN ReturnFrames(t) /\ UNCHANGED <<areas, mapped, lists>>
       ELSE Begin(t, "dma", op[t].nr, op[t].got) /\ UNCHANGED nfree

\* Who holds the area at addr, for how many pages and with how many frames behind it.
Held(by, addr, nr, frames) == [by |-> by, addr |-> addr, nr |-> nr, frames |-> frames]

\* Without a record the buffer can never be freed.
DmaMap(t) ==
    /\ Doing(t, "dma")
    /\ MapKernelPages(t, "ram")
    /\ \E ok \in Kmalloc("record") :
          IF ok THEN /\ dma_map_list' = dma_map_list \cup {[addr |-> op[t].addr, nr |-> op[t].nr]}
                     /\ UNCHANGED lost
                ELSE /\ lost' = lost \cup {Held("lost", op[t].addr, op[t].nr, op[t].got)}
                     /\ UNCHANGED dma_map_list
    /\ Become(t, Idle)
    /\ UNCHANGED <<areas, vm_list, io_map_list, io_live, nfree>>

\* dma_free_coherent gives the frames back and keeps the area.
DmaFree(t, dma) ==
    /\ Doing(t, "idle") /\ dma \in dma_map_list
    /\ dma_map_list' = dma_map_list \ {dma}
    /\ Become(t, [kind |-> "dma_free", addr |-> dma.addr, nr |-> dma.nr, got |-> DmaFrames(dma.nr)])
    /\ UNCHANGED <<areas, mapped, vm_list, io_map_list, io_live, lost, nfree>>

DmaUnmap(t) ==
    /\ Doing(t, "dma_free")
    /\ UnmapKernelPages(Pages(t))
    /\ Become(t, [op[t] EXCEPT !.kind = "dma_put"])
    /\ UNCHANGED <<areas, lists, nfree>>

DmaPut(t) ==
    /\ Doing(t, "dma_put")
    /\ nfree' = nfree + op[t].got
    /\ lost' = lost \cup {Held("lost", op[t].addr, op[t].nr, 0)}
    /\ Become(t, Idle)
    /\ UNCHANGED <<areas, mapped, vm_list, io_map_list, dma_map_list, io_live>>

------------------------------------------------------------------------------------
Call(t) ==
    \/ \E nr \in 1..MaxPages : Vmalloc(t, nr) \/ Ioremap(t, nr) \/ DmaAlloc(t, nr)
    \/ \E vm \in vm_list : Vfree(t, vm)
    \/ \E addr \in io_live : Iounmap(t, addr)
    \/ \E dma \in dma_map_list : DmaFree(t, dma)

Step(t) ==
    \/ VmallocMeta(t) \/ VmallocPage(t) \/ VmallocMap(t)
    \/ VmallocCleanup(t) \/ GiveUp(t) \/ VfreeUnmap(t)
    \/ IoremapMap(t)
    \/ DmaArea(t) \/ DmaMap(t) \/ DmaUnmap(t) \/ DmaPut(t)

Next == \E t \in Tasks : Call(t) \/ Step(t)

Spec == Init /\ [][Next]_vars

------------------------------------------------------------------------------------
Area == [start : Space, end : 1..SpacePages]
Extents == [addr : Space, nr : 1..MaxPages]

\* Every variable has its type, and no counter leaves its range.
TypeOK ==
    /\ free \subseteq Area /\ busy \subseteq Area
    /\ total_free \in 0..SpacePages \cup {Garbage} /\ nr_busy \in 0..SpacePages
    /\ mapped \in [Space -> {"none", "ram", "device"}]
    /\ vm_list \subseteq Extents /\ io_map_list \subseteq Extents /\ dma_map_list \subseteq Extents
    /\ io_live \subseteq Space
    /\ lost \subseteq [by : {"lost"}, addr : Space, nr : 1..MaxPages, frames : 0..Frames]
    /\ nfree \in 0..Frames

Covered(a) == a.start..(a.end - 1)
Areas == free \cup busy

\* The areas of the free list and of the busy list are never empty, never overlap and
\* always make up the whole range, however often va_alloc has split one and va_free has
\* merged two, and also when kmalloc had no descriptor for a rest (va_alloc, va_free).
\* nr_busy counts the busy ones and total_free the free pages, for as long as no merge
\* with a left neighbour has spoilt it.
AreasPartition ==
    /\ TypeOK
    /\ free \cap busy = {}
    /\ \A a \in Areas : Size(a) > 0
    /\ \A a, b \in Areas : a # b => Covered(a) \cap Covered(b) = {}
    /\ UNION {Covered(a) : a \in Areas} = Space
    /\ nr_busy = Cardinality(busy)
    /\ total_free # Garbage => total_free = Cardinality(UNION {Covered(a) : a \in free})

\* The calls that hold an area, and those that hold frames only.
WithArea == {t \in Tasks : ~Doing(t, "idle") /\ ~Doing(t, "dma_area")}
WithFrames == {t \in Tasks : Doing(t, "dma_area")}

Holding(t) == Held("call", op[t].addr, op[t].nr, op[t].got)

\* Everybody who holds an area.
Holdings ==
    {Held("vm_list", vm.addr, vm.nr, vm.nr) : vm \in vm_list}
    \cup {Held("dma_map_list", d.addr, d.nr, DmaFrames(d.nr)) : d \in dma_map_list}
    \cup {Held("driver", addr, 1, 0) : addr \in io_live}
    \cup lost \cup {Holding(t) : t \in WithArea}

\* Every busy area is somebody's and nobody else's: a recorded vmalloc or DMA buffer, a
\* driver's window, a call in progress, or one of the areas dma_free_coherent keeps; and
\* whoever holds an address holds a busy area large enough for it.
OneHolder ==
    /\ \A a \in busy : \E h \in Holdings : h.addr = a.start
    /\ \A h, k \in Holdings : h.addr = k.addr => h = k
    /\ \A t, u \in WithArea : op[t].addr = op[u].addr => t = u
    /\ \A h \in Holdings : \E a \in busy : a.start = h.addr /\ h.nr <= Size(a)

\* Everybody who holds frames, and the frames of some of them, numbered for each.
Owners == Holdings \cup {[by |-> "dma_area", task |-> t, frames |-> op[t].got] : t \in WithFrames}
FramesOf(S) == UNION {{h} \X (1..h.frames) : h \in S}

\* No frame is lost or freed twice: the free ones, those behind recorded buffers, those
\* of calls in progress and those of unrecorded DMA buffers are all there are, whatever
\* request failed half-way (fail_cleanup_pages, dma_alloc_coherent); and a page that is
\* mapped to memory belongs to a buffer whose frames have not been given back: vfree and
\* dma_free_coherent unmap before they free.
FramesExact ==
    /\ nfree + Cardinality(FramesOf(Owners)) = Frames
    /\ \A v \in Space : mapped[v] = "ram" =>
           \E h \in Holdings : h.frames > 0 /\ v \in PageRange(h.addr, h.nr)

\* The area manager is an allocator of address ranges: it hands out ranges that nobody
\* holds and takes back only what it has handed out.
PA == INSTANCE PageAlloc WITH
        Frames <- Space, Sizes <- 1..SpacePages,
        Extent <- PageRange,
        owned <- {<<a.start, Size(a)>> : a \in busy}

\* The allocator of module PageAlloc, on the pages of the range.
ImplementsPageAlloc == PA!Spec
====================================================================================
