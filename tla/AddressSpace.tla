-------------------------------- MODULE AddressSpace --------------------------------
(***************************************************************************)
(* Address spaces: the page tables of kernel/mmu.c, the page fault handler *)
(* of kernel/page_fault.c, the areas of rust/src/kernel/mm.rs, fork's copy *)
(* and the ELF loader behind execve.                                       *)
(*                                                                         *)
(* The three table levels below a root are collapsed to one: Table[v] is   *)
(* the table that holds page v's entry.  An address space is named by the  *)
(* frame of its root, as Task.pgd and TTBR0 name it; the kernel's own      *)
(* table (TTBR1) is shared by all processes.  System calls and the fault   *)
(* handler run with interrupts on, so another process may run between any  *)
(* two steps.  fork's copy of one table and the free of a whole tree are   *)
(* single steps: only their own process reads or writes the two trees, and *)
(* the reference counts they change commute with those of other processes. *)
(*                                                                         *)
(* A process may be killed between any two steps, in the middle of a       *)
(* handler too, since every nested interrupt ends with a look at the       *)
(* signals.  Its tables stay until its Task is dropped.                    *)
(***************************************************************************)
EXTENDS Integers, FiniteSets, Sequences, FiniteSetsExt

CONSTANTS Procs, First,       \* the processes, and the one that boot loads
          Memory,             \* the number of frames for user memory and tables
          Frames,             \* names of the data frames
          UserSpaces,         \* names of the page tables of processes
          Pages,              \* pages of the user half, an interval of integers
          KPages,             \* pages from MMAP_BASE on, in the kernel's half
          Table,              \* the table that holds a page's entry
          KernelRoot, None,
          Image,              \* what load_elf maps: [page, prot, stack], in its order
          BootAreas,          \* the areas of the first process
          AreaFlags,          \* flags a program passes to mmap
          Hints,              \* addresses a program passes to mmap
          MaxLen,             \* pages a program maps or unmaps in one call
          AnonProcs,          \* who maps at an address of the kernel's choice
          MaxCalls            \* bound on the system calls and faults of a behaviour

AllPages == Pages \cup KPages
Prots == {"rw", "ro", "rx"}
Cells == [frame : Frames, prot : Prots]

\* The user half lies below the kernel's, and each range is an interval.
ASSUME PageAssumption ==
    /\ AllPages \subseteq Nat /\ IsFiniteSet(AllPages)
    /\ \A v \in Pages, k \in KPages : v < k
    /\ \A v, w \in Pages : v..w \subseteq Pages
    /\ \A v, w \in KPages : v..w \subseteq KPages
    /\ Table \in [AllPages -> Nat]

ASSUME NameAssumption ==
    /\ First \in Procs /\ IsFiniteSet(Procs)
    /\ UserSpaces # {} /\ IsFiniteSet(UserSpaces) /\ KernelRoot \notin UserSpaces
    /\ IsFiniteSet(Frames)
    /\ None \notin Frames /\ None \notin UserSpaces /\ None \notin Cells

\* Boot has the frames it needs, and a frame that is not a table or a root has a name.
ASSUME MemoryAssumption ==
    /\ Memory \in Nat /\ Memory <= Cardinality(Frames) + 1
    /\ Image \in Seq([page : Pages, prot : Prots, stack : BOOLEAN])
    /\ 2 * Len(Image) + 1 <= Memory

ASSUME AreaAssumption ==
    /\ IsFiniteSet(BootAreas) /\ None \notin BootAreas
    /\ \A a \in BootAreas : a.start \in Pages /\ a.end \in Nat /\ a.end - 1 \in Pages /\ a.start < a.end
    /\ \A a, b \in BootAreas : a = b \/ a.end <= b.start \/ b.end <= a.start
    /\ None \notin [start : Nat, end : Nat, flags : AreaFlags \cup {{"r", "w"}}]
    /\ Hints \subseteq Pages \cup {0} /\ MaxLen \in Nat

VARIABLES mem,    \* physical memory: counts, tables, entries
          pgd,    \* Task.pgd, per process
          vmas,   \* MmStruct.vmas, per process: [start, end, flags]
          brk,    \* MmStruct.brk
          cur,    \* the running process
          ttbr0,  \* TTBR0_EL1: a root
          op,     \* the handler each process is in, with its locals
          twice,  \* history: execve's second free of a tree met a frame in use
          calls   \* how many calls and faults there have been

vars == <<mem, pgd, vmas, brk, cur, ttbr0, op, twice, calls>>

Tables == {Table[v] : v \in AllPages}
UserTables == {Table[v] : v \in Pages}
Spaces == UserSpaces \cup {KernelRoot}

User == [kind |-> "user"]
Dead == [kind |-> "dead"]

------------------------------------------------------------------------------------
(* Memory as a value.  mem.free counts free frames.  A data frame has a name and a  *)
(* reference count (0 is free); the frames of roots and tables are only counted:    *)
(* mem.roots are the spaces that have a root, mem.tab[r] the tables of r.  mem.lost *)
(* is a history of the references that no entry and no handler stands for any more. *)

NoMemory(m) == m.free = 0

\* alloc_phys_pages for data; free frames are alike, so one of them stands for all.
NewFrame(m) == CHOOSE f \in Frames : m.ref[f] = 0
Take(m, f) == [m EXCEPT !.ref[f] = 1, !.free = @ - 1]

\* create_user_pgd
NewRoot(m) == CHOOSE r \in Spaces \ {KernelRoot} : r \notin m.roots
TakeRoot(m, r) == [m EXCEPT !.roots = @ \cup {r}, !.free = @ - 1]

\* put_page k times: at zero the frame is free, and below it nothing happens.
PutPages(m, k) ==
    LET left == [f \in Frames |-> Max({0, m.ref[f] - k[f]})]
    IN [m EXCEPT !.ref = left,
                 !.free = @ + Cardinality({f \in Frames : m.ref[f] > 0 /\ left[f] = 0})]
PutPage(m, f) == PutPages(m, [g \in Frames |-> IF g = f THEN 1 ELSE 0])

Lose(m, f) == [m EXCEPT !.lost[f] = @ + 1]

MissingTable(m, r, v) == Table[v] \notin m.tab[r]

\* arm64_map_one_page fails only when it needs a table and there is no frame.
CanMap(m, r, v) == MissingTable(m, r, v) => ~NoMemory(m)

\* It overwrites whatever the entry held.
MapPage(m, r, v, f, prot) ==
    LET tabled == IF MissingTable(m, r, v)
                    THEN [m EXCEPT !.tab[r] = @ \cup {Table[v]}, !.free = @ - 1] ELSE m
        mapped == [tabled EXCEPT !.pte[r][v] = [frame |-> f, prot |-> prot]]
    IN IF m.pte[r][v] = None THEN mapped ELSE Lose(mapped, m.pte[r][v].frame)

\* Mutated form: a table is freed while other pages of it are mapped.
AnyTable(m, r, t) == TRUE

\* pte_table_empty
EmptyTable(m, r, t) == \A w \in AllPages : Table[w] = t => m.pte[r][w] = None

\* arm64_unmap_one_page: clear the entry, free the table if that was its last.
UnmapPage(m, r, v) ==
    LET cleared == [m EXCEPT !.pte[r][v] = None]
    IN IF m.pte[r][v] # None /\ EmptyTable(cleared, r, Table[v])
         THEN [cleared EXCEPT !.tab[r] = @ \ {Table[v]}, !.free = @ + 1]
         ELSE cleared

\* Mutated form: the page is unmapped and its reference kept.
UnmapOnly(m, r, v) == UnmapPage(m, r, v)

\* unmap one page and give up the reference its entry held.
DropPage(m, r, v) ==
    IF m.pte[r][v] = None THEN m ELSE PutPage(UnmapPage(m, r, v), m.pte[r][v].frame)

\* How often the entries of a tree, among the pages V, map each frame.
Uses(pte, V) == [f \in Frames |-> Cardinality({v \in V : pte[v] # None /\ pte[v].frame = f})]

NoPages == [v \in AllPages |-> None]

\* free_page_table_tree: a reference for every entry, then the tables and the root.
FreeTree(m, r) ==
    [PutPages(m, Uses(m.pte[r], AllPages))
        EXCEPT !.free = @ + Cardinality(m.tab[r]) + 1, !.roots = @ \ {r},
               !.tab[r] = {}, !.pte[r] = NoPages]

\* Mutated form: the child's copy stays writable.
SharedWritable(e) == e

\* copy_user_page_table marks the child's copy of a writable page read-only.
Shared(e) == IF e = None \/ e.prot # "rw" THEN e ELSE [e EXCEPT !.prot = "ro"]

\* One table of the parent, copied: every page gains a reference.
CopyTable(m, src, dst, t) ==
    LET here == {v \in Pages : Table[v] = t}
        more == Uses(m.pte[src], here)
    IN [m EXCEPT !.free = @ - 1,
                 !.tab[dst] = @ \cup {t},
                 !.pte[dst] = [v \in AllPages |-> IF v \in here THEN Shared(m.pte[src][v]) ELSE @[v]],
                 !.ref = [f \in Frames |-> @[f] + more[f]]]

------------------------------------------------------------------------------------
(* Areas.                                                                          *)

Before(p, lim) == {a \in vmas[p] : a.start < lim}
Latest(A) == CHOOSE a \in A : \A b \in A : b.start <= a.start

\* The last area that starts below lim, if it ends above start.
LastBelow(p, start, lim) ==
    IF Before(p, lim) # {} /\ Latest(Before(p, lim)).end > start
      THEN Latest(Before(p, lim)) ELSE None

\* vma_find
Find(p, v) == LastBelow(p, v, v + 1)

\* Mutated form: only the area below the new one is looked at.
OverlapsBelow(p, start, lim) == LastBelow(p, start, start + 1) # None

\* The check of do_mmap and do_brk: only the last area below the new one's end counts.
Overlaps(p, start, lim) == LastBelow(p, start, lim) # None

\* find_free_area: the first gap of len pages from MMAP_BASE on.
Gaps(p, len) == {a \in KPages : /\ a + len - 1 \in KPages
                                /\ \A x \in vmas[p] : ~(a < x.end /\ a + len > x.start)}
FindFreeArea(p, len) == Min(Gaps(p, len))

------------------------------------------------------------------------------------
Running(p) == cur = p
Idle(p) == Running(p) /\ op[p].kind = "user"
Doing(p, kind) == Running(p) /\ op[p].kind = kind
Become(p, what) == op' = [op EXCEPT ![p] = what]
Advance(p, field, value) == [op[p] EXCEPT ![field] = value]

Root(v) == IF v \in Pages THEN ttbr0 ELSE KernelRoot

\* The bound on address spaces, leaked ones included.
SpaceLeft == UserSpaces \ mem.roots # {}

\* Who may touch a page of the shared range.
InReach(p, v) == v \in Pages \/ p \in AnonProcs

\* load_elf and create_user_process for the first process.
BootMem ==
    LET bare == [free |-> Memory,
                 ref |-> [f \in Frames |-> 0],
                 lost |-> [f \in Frames |-> 0],
                 roots |-> {},
                 tab |-> [r \in Spaces |-> {}],
                 pte |-> [r \in Spaces |-> NoPages]]
        root == NewRoot(bare)
        load[i \in 0..Len(Image)] ==
            IF i = 0 THEN TakeRoot(bare, root)
            ELSE LET f == NewFrame(load[i - 1])
                 IN MapPage(Take(load[i - 1], f), root, Image[i].page, f, Image[i].prot)
    IN load[Len(Image)]

Init ==
    /\ mem = BootMem
    /\ \E root \in mem.roots : /\ pgd = [p \in Procs |-> IF p = First THEN root ELSE None]
                               /\ ttbr0 = root
    /\ vmas = [p \in Procs |-> IF p = First THEN BootAreas ELSE {}]
    /\ brk = [p \in Procs |-> 0]
    /\ cur = First
    /\ op = [p \in Procs |-> User]
    /\ twice = FALSE
    /\ calls = 0

\* Mutated form: schedule leaves TTBR0 alone, unless exit has cleared it.
KeepRoot(p) == IF ttbr0 = None THEN pgd[p] ELSE ttbr0

\* schedule loads the next process's table; kernel threads have none and leave the
\* old one in place, so p may also be the process that ran before.
LoadRoot(p) == pgd[p]

\* An execve between its two frees learns that somebody else ran.
Disturbed(p) == IF p # cur /\ op[cur].kind = "refree" THEN [op EXCEPT ![cur].alone = FALSE] ELSE op

Switch(p) ==
    /\ pgd[p] # None /\ op[p] # Dead
    /\ cur' = p
    /\ ttbr0' = LoadRoot(p)
    /\ op' = Disturbed(p)
    /\ UNCHANGED <<mem, pgd, vmas, brk>>

\* do_exit_with, called or forced by a signal in whatever handler the process is: the
\* handler never ends, and a frame or a root that only it knows is never given back.
Exit(p) ==
    /\ Running(p) /\ op[p] # Dead
    /\ mem' = IF "frame" \in DOMAIN op[p] /\ op[p].frame # None THEN Lose(mem, op[p].frame) ELSE mem
    /\ ttbr0' = None
    /\ Become(p, Dead)
    /\ UNCHANGED <<pgd, vmas, brk, cur>>

\* The last Arc of a reaped task goes (find_zombie_child's retain, or schedule itself): the
\* page table is dropped with it.  The name may stand for a new process then.
Release(p) ==
    /\ op[p] = Dead /\ cur # p
    /\ mem' = FreeTree(mem, pgd[p])
    /\ pgd' = [pgd EXCEPT ![p] = None]
    /\ vmas' = [vmas EXCEPT ![p] = {}]
    /\ brk' = [brk EXCEPT ![p] = 0]
    /\ Become(p, User)
    /\ UNCHANGED <<cur, ttbr0>>

------------------------------------------------------------------------------------
(* mmap, munmap, brk.                                                              *)

\* do_mmap with an address or, given 0, with one of find_free_area's.
Mmap(p, hint, len, flags) ==
    LET addr == IF hint = 0 THEN FindFreeArea(p, len) ELSE hint
    IN /\ Idle(p)
       /\ hint = 0 => p \in AnonProcs /\ Gaps(p, len) # {}
       /\ hint # 0 => hint + len - 1 \in Pages
       /\ ~Overlaps(p, addr, addr + len)
       /\ vmas' = [vmas EXCEPT ![p] = @ \cup {[start |-> addr, end |-> addr + len, flags |-> flags]}]
       /\ Become(p, [kind |-> "mmap", addr |-> addr, at |-> addr, end |-> addr + len, frame |-> None])
       /\ UNCHANGED <<mem, pgd, brk, cur, ttbr0>>

MmapAlloc(p) ==
    /\ Doing(p, "mmap") /\ op[p].frame = None /\ op[p].at < op[p].end
    /\ IF NoMemory(mem)
         THEN Become(p, Advance(p, "kind", "undo")) /\ UNCHANGED mem
         ELSE /\ mem' = Take(mem, NewFrame(mem))
              /\ Become(p, Advance(p, "frame", NewFrame(mem)))
    /\ UNCHANGED <<pgd, vmas, brk, cur, ttbr0>>

MmapPage(p) ==
    LET v == op[p].at
        f == op[p].frame
    IN /\ Doing(p, "mmap") /\ f # None
       /\ IF CanMap(mem, Root(v), v)
            THEN /\ mem' = MapPage(mem, Root(v), v, f, "rw")
                 /\ Become(p, [op[p] EXCEPT !.frame = None, !.at = @ + 1])
            ELSE /\ mem' = PutPage(mem, f)
                 /\ Become(p, [op[p] EXCEPT !.frame = None, !.kind = "undo"])
       /\ UNCHANGED <<pgd, vmas, brk, cur, ttbr0>>

MmapDone(p) ==
    /\ Doing(p, "mmap") /\ op[p].frame = None /\ op[p].at = op[p].end
    /\ Become(p, User)
    /\ UNCHANGED <<mem, pgd, vmas, brk, cur, ttbr0>>

\* Roll-back: the pages below the one that failed, downwards, then the area.
Undo(p) ==
    /\ Doing(p, "undo") /\ op[p].at > op[p].addr
    /\ mem' = DropPage(mem, Root(op[p].at - 1), op[p].at - 1)
    /\ Become(p, Advance(p, "at", op[p].at - 1))
    /\ UNCHANGED <<pgd, vmas, brk, cur, ttbr0>>

UndoDone(p) ==
    /\ Doing(p, "undo") /\ op[p].at = op[p].addr
    /\ vmas' = [vmas EXCEPT ![p] = {a \in @ : a.start # op[p].addr}]
    /\ Become(p, User)
    /\ UNCHANGED <<mem, pgd, brk, cur, ttbr0>>

\* do_munmap drops the whole area and unmaps the part of it that was named.
Munmap(p, v, len) ==
    /\ Idle(p) /\ InReach(p, v)
    /\ Find(p, v) # None
    /\ vmas' = [vmas EXCEPT ![p] = @ \ {Find(p, v)}]
    /\ Become(p, [kind |-> "unmap", at |-> v, end |-> Min({v + len, Find(p, v).end}), brk |-> brk[p]])
    /\ UNCHANGED <<mem, pgd, brk, cur, ttbr0>>

\* do_brk upwards: one more area, pages come on demand.
BrkGrow(p, new) ==
    /\ Idle(p) /\ new > brk[p]
    /\ ~Overlaps(p, brk[p], new)
    /\ vmas' = [vmas EXCEPT ![p] = @ \cup {[start |-> brk[p], end |-> new, flags |-> {"r", "w"}]}]
    /\ brk' = [brk EXCEPT ![p] = new]
    /\ UNCHANGED <<mem, pgd, cur, ttbr0, op>>

\* do_brk downwards removes the area that starts at the old end of the heap.
BrkShrink(p, new) ==
    /\ Idle(p) /\ new < brk[p]
    /\ vmas' = [vmas EXCEPT ![p] = {a \in @ : a.start # brk[p]}]
    /\ Become(p, [kind |-> "unmap", at |-> new, end |-> brk[p], brk |-> new])
    /\ UNCHANGED <<mem, pgd, brk, cur, ttbr0>>

UnmapOne(p) ==
    /\ Doing(p, "unmap") /\ op[p].at < op[p].end
    /\ mem' = DropPage(mem, Root(op[p].at), op[p].at)
    /\ Become(p, Advance(p, "at", op[p].at + 1))
    /\ UNCHANGED <<pgd, vmas, brk, cur, ttbr0>>

UnmapDone(p) ==
    /\ Doing(p, "unmap") /\ op[p].at >= op[p].end
    /\ brk' = [brk EXCEPT ![p] = op[p].brk]
    /\ Become(p, User)
    /\ UNCHANGED <<mem, pgd, vmas, cur, ttbr0>>

------------------------------------------------------------------------------------
(* fork: create_user_pgd, copy_user_page_table, MmStruct::copy_from.               *)

Fork(p, child) ==
    /\ Idle(p) /\ pgd[child] = None
    /\ \A q \in Procs : op[q].kind = "fork" => op[q].child # child
    /\ ~NoMemory(mem) /\ SpaceLeft
    /\ mem' = TakeRoot(mem, NewRoot(mem))
    /\ Become(p, [kind |-> "fork", root |-> NewRoot(mem), todo |-> UserTables, child |-> child])
    /\ UNCHANGED <<pgd, vmas, brk, cur, ttbr0>>

\* A table the child cannot get is skipped with all its pages.
ForkTable(p) ==
    LET t == Min(op[p].todo)
    IN /\ Doing(p, "fork") /\ op[p].todo # {}
       /\ mem' = IF t \notin mem.tab[pgd[p]] \/ NoMemory(mem) THEN mem
                 ELSE CopyTable(mem, pgd[p], op[p].root, t)
       /\ Become(p, Advance(p, "todo", op[p].todo \ {t}))
       /\ UNCHANGED <<pgd, vmas, brk, cur, ttbr0>>

ForkDone(p) ==
    LET child == op[p].child
    IN /\ Doing(p, "fork") /\ op[p].todo = {}
       /\ pgd' = [pgd EXCEPT ![child] = op[p].root]
       /\ vmas' = [vmas EXCEPT ![child] = vmas[p]]
       /\ brk' = [brk EXCEPT ![child] = brk[p]]
       /\ Become(p, User)
       /\ UNCHANGED <<mem, cur, ttbr0>>

------------------------------------------------------------------------------------
(* execve: load_elf builds the new space through TTBR0.                            *)

Exec(p) ==
    /\ Idle(p) /\ ~NoMemory(mem) /\ SpaceLeft
    /\ mem' = TakeRoot(mem, NewRoot(mem))
    /\ Become(p, [kind |-> "exec", root |-> NewRoot(mem), next |-> 1,
                  frame |-> None, old |-> None, inStack |-> FALSE])
    /\ UNCHANGED <<pgd, vmas, brk, cur, ttbr0>>

\* load_elf returns an error: the new space is not freed, TTBR0 is as it is.
ExecFail(p, m) == mem' = m /\ Become(p, User)

\* Before the stack's pages TTBR0 is set to the new space for the whole loop.
ExecStack(p) ==
    /\ Doing(p, "exec") /\ op[p].next <= Len(Image) /\ Image[op[p].next].stack
    /\ ~op[p].inStack
    /\ ttbr0' = op[p].root
    /\ Become(p, Advance(p, "inStack", TRUE))
    /\ UNCHANGED <<mem, pgd, vmas, brk, cur>>

\* alloc_and_map_page: allocate, remember TTBR0, load the new space ...
ExecAlloc(p) ==
    /\ Doing(p, "exec") /\ op[p].frame = None
    /\ op[p].next <= Len(Image) /\ op[p].inStack = Image[op[p].next].stack
    /\ IF NoMemory(mem)
         THEN ExecFail(p, mem) /\ UNCHANGED ttbr0
         ELSE /\ mem' = Take(mem, NewFrame(mem))
              /\ ttbr0' = op[p].root
              /\ Become(p, [op[p] EXCEPT !.frame = NewFrame(mem), !.old = ttbr0])
    /\ UNCHANGED <<pgd, vmas, brk, cur>>

\* ... map through whatever TTBR0 holds by then, and restore it.
ExecMap(p) ==
    LET seg == Image[op[p].next]
        f == op[p].frame
    IN /\ Doing(p, "exec") /\ f # None
       /\ IF CanMap(mem, ttbr0, seg.page)
            THEN /\ mem' = MapPage(mem, ttbr0, seg.page, f, seg.prot)
                 /\ Become(p, [op[p] EXCEPT !.frame = None, !.old = None, !.next = @ + 1])
            ELSE ExecFail(p, PutPage(mem, f))
       /\ ttbr0' = op[p].old
       /\ UNCHANGED <<pgd, vmas, brk, cur>>

\* Mutated form: the new program runs on the old tables.
OldRoot(p) == pgd[p]

\* switch_page_table(new_pgd)
ExecRoot(p) == op[p].root

\* task.pgd = PageTable::new(new) drops the old one, which frees its tree; the areas stay.
ExecDone(p) ==
    LET old == pgd[p]
    IN /\ Doing(p, "exec") /\ op[p].next > Len(Image)
       /\ mem' = FreeTree(mem, old)
       /\ pgd' = [pgd EXCEPT ![p] = op[p].root]
       /\ ttbr0' = ExecRoot(p)
       /\ Become(p, [kind |-> "refree", pte |-> mem.pte[old], alone |-> TRUE])
       /\ UNCHANGED <<vmas, brk, cur>>

\* free_pgd_tree(old_pgd), once more, through tables that are free.  Undisturbed, they still
\* hold their entries, the free of the tables themselves is refused, and the pages that are
\* still in use lose one reference too many; else the frames may be anything by now.
ExecRefree(p) ==
    LET again == Uses(op[p].pte, AllPages)
        live == \E f \in Frames : again[f] > 0 /\ mem.ref[f] > 0
    IN /\ Doing(p, "refree")
       /\ mem' = PutPages(mem, again)
       /\ twice' \in {live, live \/ ~op[p].alone}
       /\ Become(p, User)
       /\ UNCHANGED <<pgd, vmas, brk, cur, ttbr0>>

------------------------------------------------------------------------------------
(* Page faults.                                                                    *)

Entry(v) == mem.pte[Root(v)][v]

\* The hardware's check of an access ("ro" and "rw" pages are not executable).
Faults(v, access) ==
    Entry(v) # None => CASE access = "read" -> FALSE
                         [] access = "write" -> Entry(v).prot # "rw"
                         [] access = "exec" -> Entry(v).prot # "rx"

\* Without an area, or for a write where the area allows none, the handler sends SIGKILL or
\* SIGSEGV: Exit.  With a frame at hand: copy on write for a present page, else a zeroed page.  Without
\* one the handler returns and the access faults again.
FaultAlloc(p, v, access) ==
    /\ Idle(p) /\ InReach(p, v) /\ Faults(v, access)
    /\ Find(p, v) # None
    /\ access = "write" => "w" \in Find(p, v).flags
    /\ ~NoMemory(mem)
    /\ mem' = Take(mem, NewFrame(mem))
    /\ Become(p, IF Entry(v) # None /\ access = "write"
                   THEN [kind |-> "cow", page |-> v, frame |-> NewFrame(mem)]
                   ELSE [kind |-> "demand", page |-> v, frame |-> NewFrame(mem),
                         prot |-> IF "x" \in Find(p, v).flags THEN "ro" ELSE "rw"])
    /\ UNCHANGED <<pgd, vmas, brk, cur, ttbr0>>

\* The old page is unmapped and put before the new one is mapped.
CowUnmap(p) ==
    /\ Doing(p, "cow")
    /\ mem' = DropPage(mem, Root(op[p].page), op[p].page)
    /\ Become(p, [kind |-> "demand", page |-> op[p].page, frame |-> op[p].frame, prot |-> "rw"])
    /\ UNCHANGED <<pgd, vmas, brk, cur, ttbr0>>

FaultMap(p) ==
    LET v == op[p].page
        f == op[p].frame
    IN /\ Doing(p, "demand")
       /\ mem' = IF CanMap(mem, Root(v), v) THEN MapPage(mem, Root(v), v, f, op[p].prot)
                 ELSE PutPage(mem, f)
       /\ Become(p, User)
       /\ UNCHANGED <<pgd, vmas, brk, cur, ttbr0>>

------------------------------------------------------------------------------------
Calls(p) ==
    \/ \E len \in 1..MaxLen : \/ \E a \in Hints, fl \in AreaFlags : Mmap(p, a, len, fl)
                              \/ \E v \in AllPages : Munmap(p, v, len)
    \/ \E new \in Pages : BrkGrow(p, new) \/ BrkShrink(p, new)
    \/ \E c \in Procs : Fork(p, c)
    \/ Exec(p)
    \/ \E v \in AllPages, access \in {"read", "write", "exec"} :
            FaultAlloc(p, v, access)

Steps(p) ==
    \/ MmapAlloc(p) \/ MmapPage(p) \/ MmapDone(p) \/ Undo(p) \/ UndoDone(p)
    \/ UnmapOne(p) \/ UnmapDone(p)
    \/ ForkTable(p) \/ ForkDone(p)
    \/ ExecStack(p) \/ ExecAlloc(p) \/ ExecMap(p) \/ ExecDone(p)
    \/ CowUnmap(p) \/ FaultMap(p)

\* What memory holds once a frame in use has been freed is not followed.
Next ==
    /\ ~twice
    /\ \E p \in Procs :
          \/ calls < MaxCalls /\ Calls(p) /\ calls' = calls + 1 /\ UNCHANGED twice
          \/ (Steps(p) \/ Switch(p) \/ Exit(p) \/ Release(p)) /\ UNCHANGED <<calls, twice>>
          \/ ExecRefree(p) /\ UNCHANGED calls

Spec == Init /\ [][Next]_vars

------------------------------------------------------------------------------------
Kinds == {"user", "dead", "mmap", "undo", "unmap", "fork", "exec", "refree", "cow", "demand"}

\* Types; the running process has an address space, and TTBR0 a root unless it has exited.
TypeOK ==
    /\ mem.free \in 0..Memory
    /\ mem.ref \in [Frames -> Nat] /\ mem.lost \in [Frames -> Nat]
    /\ mem.roots \subseteq UserSpaces
    /\ mem.tab \in [Spaces -> SUBSET Tables]
    /\ \A r \in Spaces : \A v \in AllPages :
          mem.pte[r][v] # None => mem.pte[r][v] \in Cells
    /\ pgd \in [Procs -> mem.roots \cup {None}]
    /\ \A p \in Procs : \A a \in vmas[p] : a.start < a.end
    /\ brk \in [Procs -> Nat]
    /\ cur \in Procs /\ pgd[cur] # None
    /\ ttbr0 \in mem.roots \cup {None} /\ (ttbr0 = None => op[cur] = Dead)
    /\ \A p \in Procs : op[p].kind \in Kinds
    /\ twice \in BOOLEAN

Entries(f) == {x \in Spaces \X AllPages : /\ mem.pte[x[1]][x[2]] # None
                                          /\ mem.pte[x[1]][x[2]].frame = f}
Holders(f) == {p \in Procs : "frame" \in DOMAIN op[p] /\ op[p].frame = f}

\* The reference count of a frame is exactly the number of entries that map it and of
\* running handlers that hold it (and of the references that overwritten entries and killed
\* handlers left behind): no frame is freed while something maps it, and every roll-back,
\* unmap, fork, copy-on-write, exit and reaping gives back and takes what it should, until
\* an execve frees a frame twice that is in use.
RefsExact ==
    twice \/ \A f \in Frames :
        mem.ref[f] = Cardinality(Entries(f)) + Cardinality(Holders(f)) + mem.lost[f]

\* No frame of a page table is lost or freed early, while processes come and go: what is not
\* free is data, a root or a table, and no page is mapped without its table, until an execve
\* frees a frame twice that is in use.
TablesExact ==
    \/ twice
    \/ /\ mem.free = Memory - Cardinality({f \in Frames : mem.ref[f] > 0}) - Cardinality(mem.roots)
                            - Cardinality({x \in Spaces \X Tables : x[2] \in mem.tab[x[1]]})
       /\ \A r \in Spaces : \A v \in AllPages : mem.pte[r][v] # None => Table[v] \in mem.tab[r]

\* However often processes fork and fault, a frame is writable through one entry at most.
WritableByOne ==
    \A f \in Frames : Cardinality({x \in Entries(f) : mem.pte[x[1]][x[2]].prot = "rw"}) <= 1

\* The areas of a process never overlap, whatever order mmap, munmap, brk and their
\* roll-backs come in.
AreasDisjoint ==
    \A p \in Procs : \A a, b \in vmas[p] : a = b \/ a.end <= b.start \/ b.end <= a.start

\* No handler, preempted or killed wherever it may be, and no reaping changes the user table
\* of another process that lives.
OthersUntouched ==
    [][\A q \in Procs : q # cur /\ pgd[q] # None /\ op[q] # Dead =>
          mem'.pte[pgd[q]] = mem.pte[pgd[q]] /\ mem'.tab[pgd[q]] = mem.tab[pgd[q]]]_vars

\* What fork's comment promises: a page that somebody can write is seen by nobody else.
CowSeparates ==
    \A f \in Frames : (\E x \in Entries(f) : mem.pte[x[1]][x[2]].prot = "rw") =>
                          Cardinality(Entries(f)) = 1

\* No frame is freed while an address space still maps it.
NoDangling == \A f \in Frames : mem.ref[f] >= Cardinality(Entries(f))
====================================================================================
