# A TLA+ model of myos-arm64

myos-arm64 is a small preemptive kernel for one ARMv8-A board (QEMU virt): C for
memory and exceptions, Rust for processes, synchronisation and files. These modules
model its core step by step; TLC checks them on small instances, and TLAPS proves
what matters most for every size. `PROJECT.json` maps each definition to the lines it
models, and lists the runs, the mutants, the findings, the hazards and the theorems.

## 1. The system

| Component | State | Operations | What makes it correct |
|---|---|---|---|
| Physical pages, `kernel/pmm.c` | `struct page` (flags, order, ref_count), `free_area` lists and counts | `buddy_init`, `alloc_phys_pages`, `free_phys_pages`, `get_page`, `put_page`, statistics | no frame in two blocks, none lost, lists, flags and counts agree, free memory is merged |
| Scheduler, `scheduler.rs`, `context.rs` | `READY_QUEUE` per priority, `CURRENT_TASK`, `NEED_RESCHED`, `ALL_TASKS` | `schedule`, `add_task`, `rust_timer_tick`, `rust_check_and_schedule` | a runnable task is queued once, is found, and runs again |
| Exceptions, `vector.S`, `handler.c` | `irq_nest_level`, PSTATE.I, kernel stacks | SVC, IRQ, return | user code is interruptible, levels match frames |
| Wait and sleep queues, `wait.rs` | `WaitQueue`, `SLEEP_QUEUE` | `wait_event`, `wake_up`, `sleep`, `rust_check_sleepers` | no lost and no double wake-up, no early one |
| Processes and signals, `task.rs`, `signal.rs` | state, parent, pending signals | fork, exit, wait4, kill, delivery | a zombie is kept until reaped, the parent is told, a killed task ends |
| Locks, `sync/mod.rs` | `QSpinlock.tail`, one `McsNode` per CPU | `lock`, `try_lock`, `unlock` of `QSpinlock` and `KMutex` | exclusion, FIFO order, every call returns |
| Address spaces, `mmu.c`, `page_fault.c`, `mm.rs`, `elf.rs` | page tables, areas, frames' reference counts | map, fork's copy, copy on write, mmap, munmap, brk, execve, exit | isolation of parent and child, each frame freed once |
| Kernel heap, `vmap.c`, `vmalloc.c`, `slab.c`, `allocator.rs` | free and busy areas, slabs, metadata pools | `va_alloc`, `va_free`, `vmalloc`, `kmalloc`, `kfree` | disjoint areas and objects, nothing leaked on failure |
| Red-black tree, `ds/rbtree.c` | nodes, colours, the shared sentinel | `rb_tree_insert`, `rb_tree_delete`, `rb_tree_search` | sorted, balanced, nothing lost by a rotation |
| Files, `vfs.rs`, `fat32.rs`, `virtio.rs`, `bio.rs` | descriptors, FAT, directories, virtio rings | open, read, write, create, remove, truncate, sector I/O | cluster chains are disjoint, a request ends |
| Terminal, `tty.rs` | line buffer, `line_ready`, foreground | `input_char`, `read_line` | a line is read once and whole |
| Sleeping locks, `semaphore.rs`, `mutex.rs`, `RwLock`, `rwsem.c` | counts, queues, owners | down, up, read, write | exclusion, priority restored, writers not overtaken |

How they interact: a system call enters through `vector.S` and `handler.c`, which
call `handle_syscall`; interrupts come the same way and call the timer, UART and
virtio handlers, which wake tasks by appending them to `READY_QUEUE`. On the way out
signals are checked and `schedule()` may run. Everything that owns memory calls
`pmm.c` in the end. Only one CPU is started.

What is hard:

* **The kernel is preemptible.** `el1_exception_entry` unmasks interrupts while
  `irq_nest_level` is at most 4, so an interrupt may come between any two steps of a
  system call or of `schedule()` itself, which takes no lock.
* **`irq_nest_level` leaks.** Every task that exits or blocks inside an exception
  leaves its level behind. After a few, handlers run masked: the same kernel is
  preemptible at first and is not later. Both are checked.
* **Sleeping**: a condition is tested, the task is queued, the lock is dropped, and
  only then the CPU is given up.
* **Ownership**: frames are shared by reference count and freed from several places.

## 2. The modules

| Module | Models | Remarks |
|---|---|---|
| `PageAlloc` | abstract allocator | a set of disjoint extents handed out and taken back; frames, kernel pages and heap cells are three instances |
| `Buddy` | `kernel/pmm.c` | the loops of `buddy_init`, `expand_block` and `buddy_merge_pfn` take a step per iteration |
| `BuddyProofs` | theorems about `Buddy` | section 4 |
| `Sched` | scheduler, wait and sleep queues, signals, process life, exceptions | `stack[t]` is what task t has still to do in the kernel |
| `SchedProofs` | theorems about `Sched` | with a preemptible kernel and with a masked one; section 4 |
| `FifoLock` | abstract lock | a queue, served in order |
| `QSpinlock` | `QSpinlock` and `KMutex` | each atomic operation is a step |
| `QSpinlockProofs` | theorems about `QSpinlock` | section 4 |
| `AddressSpace` | `mmu.c`, `page_fault.c`, `mm.rs`, `elf.rs`, execve, exit and reaping | page tables, areas and reference counts |
| `AddressSpaceProofs` | theorems about `AddressSpace` | section 4 |
| `Vmap` | `vmap.c`, `vmalloc.c` | address ranges and the buffers in them, with every roll-back |
| `VmapProofs` | theorems about `Vmap` | section 4 |
| `Slab` | `slab.c`, `allocator.rs` | kmalloc, and Rust's allocator that shares its memory |
| `SlabProofs` | theorems about `Slab` | section 4 |
| `Rbtree` | `ds/rbtree.c` | a step per loop iteration |
| `RbtreeProofs` | theorems about `Rbtree` | section 4 |
| `Fat32` | `fs/fat32.rs` | cluster chains and directory entries of the root directory |
| `SetLemmas` | lemmas | largest and smallest elements of finite sets of integers, induction up to n, quotients of multiples; all the proofs but `QSpinlockProofs` cite them |
| `MC...` | instances for TLC | values of constants that a cfg cannot write |

**Buddy.** The variables are the fields of `struct page` and `free_area`, plus the
locals of the call in flight. `pmm.c` takes no lock, so at most one call is in flight
here; what happens when a handler allocates inside another task's call is a hazard
this module does not cover. Calls take any argument, valid or not: wrong order, wrong
address, double free. `FreeCheck` is the list of early returns of `free_phys_pages`.

**Sched.** A step of a task is what the code does between two points at which an
interrupt can be taken; what runs masked (under a `KMutex` or in an interrupt handler
before the end-of-interrupt write) is one step. `stack[t]` lists the program points
ahead of t, next first; `<<>>` is user mode, or idle's loop. `masked` is inherited by a task
that resumes inside the kernel and cleared for one that is entered for the first time.
Sleep deadlines are kept as ticks left, so the clock needs no bound. The terminal is
reduced to "a line is ready". `SignalState.blocked`, signal handlers and `PREEMPT_COUNT`
are never set by any caller and are left out.

`schedule()` takes no lock and, called from `wait_event`, `sleep`, exit or a handler at a
low level, runs with interrupts on; its points are steps of their own: the test
whether the running task goes back (`Enqueue`), the push (`Push`), the scan of the user
queue (`PickUser`, `PassUsers`), the scan of idle's (`PickIdle`, or `Panic` when
`expect` fails), the store of `CURRENT_TASK` (`Store`) and `context_switch`
(`ContextSwitch`). A task popped and not yet stored is a point on the stack of whoever
popped it. `cur` is `CURRENT_TASK` and `sp` the task whose stack the CPU is on: they
differ between `Store` and `ContextSwitch`, and a handler that calls `schedule()` there
saves the old stack into the next task's context. That, a handler that uses `READY_QUEUE`
while it interrupts another use of it (`HalfDone`), and an interrupt between the writes of
`ELR_EL1` and `eret` when a process is first entered, leave memory undefined: `torn`
records it and no step follows. A kernel whose `expect` has failed stays in the panic
handler's loop. `kill` reaches every registered task whose pid is among `Targets`, idle
(pid 1) included.

**QSpinlock.** A node is named by its CPU. A thread in `lock`, `unlock` or with a
guard has interrupts masked, so its CPU runs nothing else, unless it calls `schedule()`
itself (`Block`), as `blk_request` does under `io_lock`. A thread holds one guard at a
time in the run; the code nests them (`blk_request` takes the queue's lock under `io_lock`),
which is safe for the one node per CPU only while no other CPU waits. Memory is sequentially
consistent. `order` is a history variable: who swapped himself in, in order.

**AddressSpace.** `mem` is physical memory as a value: the count of free frames, the
reference counts of data frames, the roots and tables of every address space, and the
entries. The three levels below a root are collapsed to one (`Table[v]` holds the entry of
page v), so a table is allocated and freed where the code allocates and frees the chain.
The loops of mmap and its roll-back, of munmap, brk and the ELF loader handle a page per
step, and another process may run between two of them. fork copies a table per step, and the
free of a whole tree is one step: no other process reads or writes the two trees meanwhile,
and the reference counts they change commute with what others do. What that
leaves out is a process killed in the middle of a copy or a free.

A process may be killed between any two other steps (`Exit`): its handler never goes on,
what only that handler knew is lost, and `TTBR0` is cleared. Its tables stay until its Task
is dropped, which `find_zombie_child` or `schedule()` does with the last `Arc`: `Release`
frees the tree, and the name may be used by a new process. execve frees the old tree by dropping the old `PageTable`
(`ExecDone`) and once more (`ExecRefree`). Undisturbed, the second free meets the entries
the first left behind; if others ran in between, the frames may be anything by then.
`twice` records a second free that met a frame in use, and no step follows it: what memory
holds then is another process's. A fork followed by an execve is therefore in every run
up to that point. One restriction is the environment's: `AnonProcs` (one process maps at
addresses of the kernel's choice, because `MMAP_BASE` lies in the half that all
processes share). `MaxCalls` bounds the behaviours. `mem.lost` is a history of references
whose entry was overwritten or whose handler was killed.

**Vmap.** An area is `[start, end]`, the free and busy lists are sets: the code's tree
and list only order them, and `BestFit` chooses as the code's walk does. `va_alloc` and
`va_free` run under `va_mgr.lock` and are one step; the rest of `vmalloc`, `ioremap` and
`dma_alloc_coherent` has no lock and interleaves. `kmalloc` of a descriptor may fail
where `Fallible` says so. `va_free` adds the size of a descriptor it has just freed after
a merge to the left: `total_free` becomes `Garbage` and stays it. Mapping and unmapping a
range of kernel pages is one step each; the tables below them are left out, and with them
the race of a mapping (`mmu.c:83`) with an unmap that frees a table gone empty
(`mmu.c:149`). Areas that
`dma_free_coherent` does not give back are kept in the history `lost`.

**Slab.** Memory is a row of cells, a page is `PageSize` of them. Two caches, the fixed
pools of slab and large descriptors, and `PAGE_ALLOCS`. `alloc` records a large block
without a lock, and each of its accesses is a step: the test of the counter, the read of
the index, the write of the entry, the load and the store of the counter (the
development build is not optimised, `Cargo.toml:16`). So two tasks may overwrite an entry,
one may find the table full between test and index and panic, and the counter may pass the
end of the table, after which a `dealloc` that matches nothing panics too. Entries are never removed: `confused` records that a stale
one matched an object of the slab. It stays set; the invariants speak of the states before,
and the run `slab` does not go on from there (`NotConfused`), because what follows is memory
corruption. `leaked` records blocks that a full or
overwritten table has lost. A layout above the largest block gets the largest block:
`Given` is the size a caller really gets, and the refinement speaks of the cells given; what
the caller believes to have may overlap its neighbour's.

**Rbtree.** NIL is a node like the others, as in the code, and its parent is written by
the delete. The two mirrored halves of each fix-up are one definition with a side.

**Fat32.** One call at a time. `write_at` extends the chain a cluster per step. Contents,
sub-directories and the second copy of the table are left out.

## 3. The runs

| Run | Instance | Shows |
|---|---|---|
| `buddy` | 8 frames, 3 of the kernel, orders 0..2, counts up to 2 | frames stay partitioned into aligned, fully merged blocks on which lists, lists, flags and counters agree; refinement of `PageAlloc` |
| `sched_preempt` | 3 tasks, 2 levels leaked, interrupts nested | with a preemptible kernel no wake-up is lost, none is early or late, and levels match frames until a context is torn |
| `sched_masked` | 3 tasks, 5 levels leaked, kills of every task but idle | with handlers masked no task is lost or queued twice, the parent is told, `schedule()` finds a task, nothing is torn, ready tasks run, killed tasks end |
| `sched_lost_task` | 3 levels leaked | finding: a tick inside `schedule()` loses the woken reader |
| `qspinlock` | 3 CPUs, a thread each, one lock | exclusion, FIFO (refinement of `FifoLock`), every call returns |
| `addrspace` | 2 processes, memory of 10 frames, 3 user pages under 2 tables, 2 pages from `MMAP_BASE`, 4 calls | counts exact, no table lost or early freed, through exit and reaping too; one writer per frame, areas disjoint, no handler changes another living process's table |
| `addrspace_fork` | as above | finding: fork leaves the parent's entry writable |
| `addrspace_exec` | as above, memory of 12 frames | finding: execve frees the old tree twice |
| `vmap` | 2 tasks, 4 pages of range, 3 frames, requests up to 2 pages | areas partition the range, each has one holder, no frame is lost, pages are unmapped before their frames go; refinement of `PageAlloc` |
| `slab` | 4 pages of 2 cells, caches of 1 and 3 cells, 2 slab and 1 large descriptor, `PAGE_ALLOCS` of 2, 2 tasks, layouts up to more than the largest block | free lists, counters and lists agree, blocks are accounted for; refinement of `PageAlloc` |
| `rbtree` | 7 nodes | sorted and linked at every step, balanced between calls, search exact, every loop ends |
| `fat32_append` | 5 clusters of 2 units, 2 names, 1 descriptor | finding: an append that just passes the last cluster does not extend the chain |

The structural invariant of `Vmap`, `Slab` and `Rbtree` contains the module's type
invariant.

**Bounds.** Eight frames with three orders have blocks that split twice and merge
twice, and an odd start (3) that no larger block fits; an end in the middle of a large block
is left to the proofs, which hold for every size. `MaxRef` bounds only how often `get_page`
may be called. Three tasks are the least with idle, a parent and a
child; a task number is never reused, so `fork` is bounded by `Tasks`. `NestLimit` is
the code's 4; `Leaked` chooses how much of it is left. `Targets` are the tasks whose pid a process may
pass to kill. `MaxEntries` stops nested
interrupts once the queues hold that many entries, because the code itself can queue
a task again and again; the cases of interest need three. `MaxSleep` = 2 lets two
sleepers have different deadlines. Three CPUs are the least with a holder, a waiter
that has not linked and a third that arrives. Ten frames of memory, nine of which can hold data, run out in every loop of
`AddressSpace`, and four calls are enough for fork, a fault on each side and an unmap, or
for an mmap that fails after a fork. Four pages of range leave room for a merge on either
side and for a request that fits nowhere; three frames make the second `vmalloc` fail
half-way. In `Slab` every table is small enough to be full, `RustSizes` has a small size, one
that takes the largest block and one above it, and a page goes from one
cache to another. Seven nodes are enough for every case of both fix-ups to happen
(TLC reports each of their disjuncts as taken).

**Fairness.** In `Sched` the CPU goes on with the kernel code of the running task
(WF), and a pending timer interrupt is taken when interrupts are on again, however
short that is (SF): the hardware keeps it pending. Nothing obliges a process to make
a system call or a user to type. In `QSpinlock` code that runs goes on (WF), a guard
is dropped in the end although its holder may sleep before (SF), and a thread that can
be dispatched is (SF, the scheduler's round robin). In `Rbtree` only the loops of a call in flight are fair: its
caller holds `va_mgr.lock` with interrupts masked. `Buddy`, `AddressSpace`, `Vmap`, `Slab` and
`Fat32` have safety properties only.

**Deadlock** is checked in every passing run but two. In `sched_preempt` a torn context stops the
model, and so does a panic the kernel. In the runs of `AddressSpace` `MaxCalls` ends every
behaviour, and so does a second free that meets a frame in use (`twice`). Of the runs that show a finding, those of the
preemptible `Sched` do not look for deadlock for the first reason.

## 4. The proofs

Every inductive invariant was a TLC invariant of the module's run before it was proved.
Invariants are conjunctions of named parts, each action has a lemma of its own, and the
facts about queues, sets and counts are lemmas that the actions cite.

### Buddy

`BuddyProofs` holds for every memory size, kernel size and maximal order. It rests on
`SizeAssumption` (naturals, the kernel smaller than memory) and `ShiftAssumption`:
`BlockPages[o]` is a positive power of two, stated as a table because the provers do
not know `2^o`.

The inductive invariant is
`IInv == TypeOK /\ BlocksDisjoint /\ NoFrameLost /\ FreeListsAgree`. None of the parts
is inductive alone. A merge unlinks the buddy it finds in `flags` and `order`, so
it needs to know that exactly the list of that order holds it, once
(`FreeListsAgree`). A split carves `pfn + 2^(o-1)` out of the block in flight and needs
it disjoint from every block (`BlocksDisjoint`, which counts the block in flight). The
merged block must be the union of two blocks (`BuddyIsNeighbour`: the buddy is next to
it, on one side or the other).

* `InductiveInvariant`: every reachable state satisfies `IInv`; a lemma per action.
* `TypeCorrect`, `FramesNeverShared`, `FramesNeverLost`, `ListsAndFlagsAgree`: its parts.
* `Refinement`: `Spec => PageAlloc!Spec`. Splits and merges stutter; `AllocDone`
  hands out a block disjoint from all others, and the frees take back one that was
  handed out.
* `BlocksStayAligned`, `FreeMemoryIsMerged`, from a second invariant `AInv` on top of
  `IInv`. That no free block has a free buddy holds at every step, not only between
  calls (`NoFreePair`): a split adds a right half whose buddy is in flight, and the merge
  loop ends only where the buddy is not free. It needs alignment, because only then is a block
  the buddy of its buddy (`BuddyAligned`); and, while `buddy_init` runs, that no block it
  linked could have been larger (`InitMaximal`), or the next one might be its buddy. The
  arithmetic is one lemma on quotients (`Multiple`, in `SetLemmas`) and two on halves and
  buddies.

### QSpinlock

`QSpinlockProofs` is about any number of locks, threads and CPUs. The code has one node
per CPU for all locks, so the lock is correct only while no two acquisitions use the same
node at once. That condition is the state predicate `OneLockPerCpu`, the hypothesis of
the three theorems; that the code meets it is not proved. It does where one CPU runs and
nobody blocks with a guard in hand, but `blk_request` sleeps with `io_lock`, and
takes the queue's lock below it (`virtio.rs:320`).

* `PointersAreValid`, `LockExcludes`, `LockIsFifo`: under `[]OneLockPerCpu` the type
  invariant, mutual exclusion and the refinement of `FifoLock`.

The invariant ties the pointers to `order`, the history of swaps: `tail` is the last of
`order`, a thread's `next` is its successor once that has linked, exactly the first is
not spinning, and the thread that has swapped but not linked knows its predecessor.
Exclusion is not inductive without it: `unlock` hands over to whatever `next` names.

### Sched

`SchedProofs` is about any set of tasks and priorities, any number of leaked levels, and
interrupts nested wherever the model allows them. It assumes that there are finitely many
priorities (the code has `PRIO_NR` queues) and that idle's is below every other.

* `StateIsTyped` and `LevelCountsFrames`, with interrupts between any two points of
  `schedule()`. The level counts the frames until a context is torn: from then on a stack
  may be run twice and no count means anything. The counting needs to know how a frame that
  has still to leave its exception looks on a stack, and that a forked child starts with
  none (`FramesCounted`, `ForkAtBottom`, `NewIsFresh`). Frames are counted as a set of
  pairs (task, position from the bottom), since the top of a stack is what moves.
* `WakeupsAreNotLost` follows from the same invariant: the queueing and the test of
  `wait_event` are separated from `wake_up` by the lock, not from each other by luck.
* `SleepersAreFound`: with no stop signal (neither from `kill` nor Ctrl-Z) a SLEEPING
  task is on the wait queue or the sleep queue. With stop signals it is false: SIGSTOP
  marks a task SLEEPING and queues it nowhere.
* `SleepersWakeWhenDue`: a tick takes exactly the due entries off the sleep queue. The scan
  stops at the first entry that is not due, so this needs the queue to be sorted (`Sorted`),
  and that the insertion counts a prefix of it (`InsertSplits`).

The second half of `SchedProofs` is about the regime `Leaked >= NestLimit`, which the kernel
reaches after a few exits since each leaves a level behind; below it the five properties do
not hold (section 5). SIGCONT is excluded, since `do_kill` makes its target RUNNING and
queues it nowhere. The theorems are `RunnableStaysQueued`, `QueuedAtMostOnce`,
`ExitNotifies`, `ContextsAreWhole` and `ScheduleFindsATask`. The invariant `MInv` says three
things that need each other:

* `StacksOK`: interrupts are on exactly in user mode, so no interrupt finds the kernel
  half-way through `schedule()`, and the CPU is on another stack than CURRENT_TASK's only
  at the switch itself; a task that is switched out has only calm points on its
  stack, and the running one at most one of the sequences that end in the switch. It rests
  on `LevelCountsFrames`: the level never drops below `Leaked`.
* `QueuesOnce`: a task is at most once in the ready queue, the wait queue and the sleep queue
  together.
* `StatesOK`: whoever sleeps in a queue is not RUNNING, whoever is RUNNING and not current is
  ready or just popped, and the current task is in a queue only between its queueing and the
  switch.

`ContextsAreWhole` follows: nothing tears where nothing interrupts. `ScheduleFindsATask`
assumes besides that idle is not among `Targets`: `do_kill` does not refuse it, and with it
the property is false. Then idle is always RUNNING and has no signal
(`IdleInv`), so that it is in its queue whenever another task scans.

### Vmap

`VmapProofs` is about any range of pages, any number of tasks and any set of frames, with
every call interrupted at every step the model has. It assumes that the range is not empty,
that a request is of 1 to 1024 pages (`MAX_ORDER` is 10: a larger one has no order) and that
an order read from freed memory (`Garbage`) is not a number.

The inductive invariant adds to what the run checks the facts about a call that is under
way. An area belongs to exactly one of the free list, the mapped buffers, the windows on
device memory, the calls, and the areas that no one can give back; each holding is tagged
with the list it comes from, so that the records of two lists never coincide (`HoldersOK`).
A call knows how many frames it has taken so far (`OpsOK`), and a page mapped to memory
belongs to a holder that still has all its frames (`RamBacked`). An action changes a holding
in one of three ways, and each way is a lemma: an area changes hands (`Handover`), a new
area is carved from a free one, an area is given back and merged with its neighbours.

* `AreasStayPartitioned`: the free and the busy areas cover the range without overlap,
  `nr_busy` counts the busy ones, and `total_free` the free pages until a merge to the left
  spoils it (`Garbage`, for good). Best fit needs a smallest fitting area, which exists because
  the range is finite (`SetLemmas`).
* `AreasHaveOneHolder`, `FramesStayExact`: no roll-back leaves an area with two holders, or
  drops or frees twice a frame. Frames are counted as the cardinality of a union of disjoint
  sets, since a sum over a set is an induction.
* `Refinement`: the area manager implements `PageAlloc` on the pages of the range; every
  step of a caller that is neither `va_alloc` nor `va_free` stutters.

### AddressSpace

`AddressSpaceProofs` is about any number of processes, pages, frames and calls, with every
handler preempted between any two pages and every allocation able to fail. It assumes that
the user's pages lie below the kernel's and each half has no holes, that the image and the
areas of the first process fit into memory and do not overlap, and that every data frame has
a name (`Memory <= Cardinality(Frames) + 1`: one frame is always a root).

There are two invariants. `SInv` always holds:

* a root is known to one process only: as its `pgd`, as what fork fills or as what execve
  builds (`Mine`); TTBR0 holds one of the running process, or nothing after its exit;
* areas are disjoint, not empty and within one half. `do_mmap` compares a request only with
  the last area that starts below its end; that is enough because the areas are already
  disjoint, so that no earlier one reaches further.

From it follow `AreasNeverOverlap` and `OthersStayUntouched`: whatever a handler writes, it
writes below a root of the running process or the kernel's.

`MInv` is about the counts, and holds until an execve frees a frame twice that is in use
(`twice`, section 5); of the state in which the model stops then only `LeftInv` is claimed:
types, the count of free frames, and one writer per frame. A fork followed by an
execve is covered up to that free. The parts of `MInv` need each other:

* a reference count is the number of entries, plus one for the handler that holds the frame
  between its allocation and its mapping (`Held`, each frame by one handler), plus what was
  overwritten or held by a handler when it was killed; a frame without references has no entry;
* what is not free is data, a root or a table, and an entry lies in a table below a root
  that exists, so that freeing a tree, at execve or when a dead process is dropped, gives
  back as many frames as it had;
* each handler's locals fit the memory it finds when it goes on (`OpFits`): the tables that
  fork has still to copy do not exist in the child yet, and the frame that a handler maps is
  its own. The second free of execve changes nothing if all its frames are free by then;
  that is the case `twice` leaves.

The loop that loads the first program is a recursive function. That it has a value after
every iteration, and that each value is well formed, is shown by the least iteration that
would lack it, since the library's induction cannot be instantiated.

* `MemoryIsTyped`, `ReferencesBalance`, `TablesBalance`, `OneWriter` follow from both. That a
  frame has one writer needs to know that the frame a handler holds is mapped nowhere
  (`HeldUnmapped`): every writable entry is made from such a frame, and fork's copies are
  read-only.

### Slab

`SlabProofs` is about any page size, any caches, and tables of any length, with any number
of tasks inside Rust's allocator. It assumes that a page has a cell and that page 0 is not
handed out (`PageAssumption`), that object sizes ascend to `SZ_8K` (`SizesAssumption`), that
what Rust takes from the page allocator is larger than any cached object
(`LimitsAssumption`), and that NULL is no address (`NullAssumption`).

The inductive invariant is `IInv == ~confused => State`; nothing is claimed of a heap that a
stale entry has already corrupted. The parts of `State` need each other:

* `PagesOK`: an object of a slab page is held by one caller or on the free list once, `inuse`
  counts the held ones, and `inuse` and the length of the list add up to the page's capacity.
  The sum says without counting again that a list is empty only when every object is held,
  and bounds `inuse`.
* `BlocksApart`, `Exact`: the page allocator's blocks are disjoint, and each has an owner or
  is lost. `kfree` finds the page of an address by its range, so a free reaches the right
  page only because ranges are disjoint.
* `OwnersApart`, `HeldPlaced`: no address is at once a slab page, a large allocation, an
  allocation that is still to be recorded and a lost block; what a caller holds lies where its
  size says. `kfree` chooses the large path by the address alone.
* `TableAligned`: an entry of `PAGE_ALLOCS` is the start of a page, so a stale one can match
  the first object of a page and no other. A match that does
  not set `confused` is therefore of one of Rust's large blocks, which dealloc rightly gives
  back.
* `ListsExact`, `Typed`, `LargeAsks`: each cache's list has its pages once, the tables do not
  overflow, and only large sizes take the large path.

The theorems:

* `SlabPagesAreExact`, `BlocksAreExact`: the two invariants of the run.
* `SlabImplementsPageAlloc`: to its callers it is an allocator of the disjoint cells it really
  gives (`Given`), whatever sizes they ask for, as long as nothing is confused. Above the
  largest order that is less than was asked for (section 5).

### Rbtree

`RbtreeProofs` is about any number of nodes (`NAssumption`: a natural). The invariant says
that two functions exist that the code does not keep: bounds `B` between which the subtree of
each node lies, and black heights `H`.

* `Shape`: links agree in both directions, a child's bounds are those its side gives it, and
  where a child is missing no key of the tree lies between the bounds. With that, "in order"
  and "nothing lost" are facts about a node and its children, which a rotation changes at
  three nodes only; the property the run checks speaks of whole subtrees, which a step of
  the proof cannot.
* `OpOK` says what the loop under way has kept. `Inserting`: heights are right, and only `z`
  may be red below a red node. `Deleting`: one black is missing on the side where `x` hangs,
  and only there may red meet red. `Descending`: the new key belongs where the walk stands.
  `Succeeding`: no key lies between `z` and the subtree of `y`. `Searching`: a key of the
  tree is below `cur`.

Each rotation and each splice is a lemma that gives the new `B` and `H` (`Turned`, `Widened`,
`Narrowed`, `Swapped`); a delete with two children is shown as the removal of the successor
followed by putting it in the deleted node's place. The cases of the fix-ups then only choose
among them, for both sides at once.

* `RbtreeInvariant`: every reachable state satisfies the invariant.
* `TreeIsExact`: at every step, in the middle of any rotation or splice too, the tree has
  exactly the nodes inserted and not deleted, in order and linked both ways. What the run
  computes level by level (`Below`) is the set of keys between the bounds, since bounds
  shrink on the way down.
* `TreeIsRedBlack`: between calls no red node has a red child and all paths have the same
  number of black nodes. Along a path, the black nodes met and the height below add up to
  the same.
* `SearchesAreExact`: a search ends at the node with the key exactly when the tree has it.

### Only model-checked

Liveness (`CallsEnd` of `Rbtree`, `CallsReturn` of `QSpinlock`, `ReadyRuns`
and `KilledExits` of `Sched`), which is out of the prover's reach, and `Fat32`, whose one
run is a finding. Every invariant and every refinement that a passing run checks is stated
by a theorem, some under the hypotheses named above. Induction over data cannot be cited
from the library; where a recursive function matters, the proof goes by the least argument
for which the claim would fail (`UpTo`).

## 5. What the runs found

1. `schedule()` is documented to run with interrupts off and does not; preempted after
   it skipped the enqueue of a sleeping task, it drops the task once that is awake
   (`scheduler.rs:190`, run `sched_lost_task`).
2. fork makes the child's entries read-only and leaves the parent's writable: what the
   parent writes afterwards shows in the child (`mmu.c:353`, run `addrspace_fork`).
   `WritableByOne` shows that still at most one entry of a frame is writable.
3. execve assigns `task.pgd`, which drops and frees the old tables, and frees them again:
   after a fork the other process maps freed frames (`syscall.rs:586`, run
   `addrspace_exec`).
4. A write that passes the end of the last cluster by less than a cluster does not extend
   the chain and overwrites the last cluster (`fat32.rs:366`, run `fat32_append`).

Met while modelling, in the model or restricted in its environment, without a run:

* A tick between the pop of the next task and the store of `CURRENT_TASK` finds that task in
  no queue; if it was idle, `expect` fails (`scheduler.rs:194`).
* A tick between the store of `CURRENT_TASK` and `context_switch` runs `schedule()` on the old
  task's stack in the name of the next one, whose context then holds that stack
  (`scheduler.rs:203`).
* `do_exit_with` preempted between ZOMBIE and SIGCHLD never tells the parent (`task.rs:380`).
* `kill(1, SIGKILL)` marks idle DEAD, and once no process is left `schedule()` panics, at any
  nesting level (`task.rs:812`).
* A layout above 4 MiB gets a block of 4 MiB, and `read_whole_file` asks for up to 8 MiB
  (`allocator.rs:29`).
* Entries of `PAGE_ALLOCS` are never removed, and `dealloc` of a kmalloc object at an old
  address gives its slab page away (`allocator.rs:61`).
* `wait_event` may be woken between its test and `schedule()` and is queued twice
  (`wait.rs:49`); therefore `NoDoubleEnqueue` and `ExitNotifiesParent` are checked with
  handlers masked only.
* `do_kill(SIGKILL)` marks the target DEAD before it exits, and wait4 forgets it
  (`scheduler.rs:115`). SIGCONT marks a stopped process RUNNING without queueing it
  (`task.rs:843`). Ctrl-C wakes no reader (`tty.rs:94`).
* A sleeping holder of `io_lock` makes the next disk user spin with interrupts masked on
  the only CPU (`virtio.rs:320`).
* `total_used_pages` counts the kernel's frames twice (`pmm.c:554`).
* `va_free` reads a descriptor it has freed (`vmap.c:222`) and never merges with the right
  neighbour (`vmap.c:97`); `dma_free_coherent` keeps the area (`vmalloc.c:236`); an
  `ioremap` without a record is unmapped by one page (`vmalloc.c:247`); `vmalloc` ignores
  a failed mapping (`vmalloc.c:44`).
* The counter of `PAGE_ALLOCS` is racy (`allocator.rs:34`): a block is never freed, or the
  index panics.
* `READY_QUEUE` has no lock (`scheduler.rs:183`), and the first `eret` of a process is not masked
  (`vector.S:806`); what follows is undefined (`torn`), so only the masked regime is claimed to
  be free of it (`NeverTorn`).
* A process killed in the middle of execve's first free loses the rest of its tree
  (`syscall.rs:582`); the free of a tree is one step here.
* truncate leaves `first_cluster` behind (`fat32.rs:571`).
* `MMAP_BASE` lies in the kernel's half (`mm.rs:11`).

## 6. Not modelled, and the plan

By far most lines under `src/` are the vendored CMSIS headers (`arch/arm64/Core`) and
libfdt, which are not the program's own logic and are not modelled; the share of the whole
tree that the map covers says little for that reason. Not worth a model either: device
registers (GIC, UART), `printk`, boot, the user programs (the environment of `Sched` and
`AddressSpace`), ELF header parsing, locks whose waiting is a stub (completion, semaphore,
RCU), and code without a caller (`rw_semaphore`, `BioQueue`, `kernel/mm.c`,
`kernel/brk.c`).

Left out so far, and what each would take:

* virtio rings: a model of the device, which is not in the tree; the lost completion
  (`virtio.rs:208`) and the termination of `blk_request` would be its properties.
* The terminal's line buffer against the receive interrupt (`tty.rs:179`), the
  descriptor table of the VFS, `RwLock`, `Semaphore` with its priority inheritance (used by
  boot tests only), the timer list (one boot test).
* Two allocations at once: `pmm.c` takes no lock (`pmm.c:146`); a composition of `Sched`
  and `Buddy` would show what a preempted split leaves to the next caller. Likewise two
  calls into `Fat32` (`fat32.rs:145`).
* That the cluster chains of `Fat32` are disjoint: it is false after truncate (`fat32.rs:571`),
  and would be the property to check and to prove of a corrected one.
