--------------------------------- MODULE QSpinlock ---------------------------------
(***************************************************************************)
(* QSpinlock, the MCS queue lock of rust/src/sync/mod.rs, and KMutex,      *)
(* which takes it with interrupts masked.                                  *)
(*                                                                         *)
(* A waiter's queue node is that of the CPU it runs on (MCS_NODES), one    *)
(* node for all the locks it takes.  While a thread is in lock(), holds a  *)
(* KMutex or is in unlock() its CPU's interrupts are masked, so no other   *)
(* thread runs there, unless the holder itself calls schedule(), as        *)
(* blk_request does under io_lock.  Each atomic operation is one step and  *)
(* memory is sequentially consistent.                                      *)
(***************************************************************************)
EXTENDS Integers, Sequences

CONSTANTS CPUs, Threads, Locks,
          CpuOf,    \* the CPU each thread runs on
          Null,     \* the null pointer, no thread
          MaxHeld   \* how many locks a thread may hold at once

ASSUME CpuAssumption == CpuOf \in [Threads -> CPUs]
ASSUME NullAssumption == Null \notin CPUs /\ Null \notin Threads /\ Null \notin Locks
ASSUME LockAssumption == MaxHeld \in Nat

VARIABLES tail,    \* QSpinlock.tail, per lock: a node, named by its CPU
          next,    \* McsNode.next, per CPU
          locked,  \* McsNode.locked, per CPU
          pc,      \* where a thread is in lock(), try_lock() or unlock()
          lk,      \* the lock it is working on
          prev,    \* lock()'s local prev
          held,    \* the KMutexGuards it owns, the latest last
          on,      \* the thread each CPU runs
          order    \* history: per lock, its holder and waiters in the order of swap

nodes == <<tail, next, locked>>
vars == <<tail, next, locked, pc, lk, prev, held, on, order>>

Points == {"free", "init", "try_init", "swap", "try", "link", "spin",
           "load", "cas", "wait_next", "signal"}

Running(t) == on[CpuOf[t]] = t

Init ==
    /\ tail = [l \in Locks |-> Null]
    /\ next = [c \in CPUs |-> Null]
    /\ locked = [c \in CPUs |-> FALSE]
    /\ pc = [t \in Threads |-> "free"]
    /\ lk = [t \in Threads |-> Null]
    /\ prev = [t \in Threads |-> Null]
    /\ held = [t \in Threads |-> <<>>]
    /\ on = [c \in CPUs |-> Null]
    /\ order = [l \in Locks |-> <<>>]

Goto(t, p) == pc' = [pc EXCEPT ![t] = p]

\* The function returns and its locals are gone.
Return(t) == /\ Goto(t, "free")
             /\ lk' = [lk EXCEPT ![t] = Null]
             /\ prev' = [prev EXCEPT ![t] = Null]

\* KMutex::lock and KMutex::try_lock: mask interrupts, then the lock.
Call(t, l, p) ==
    /\ pc[t] = "free" /\ Running(t)
    /\ Len(held[t]) < MaxHeld
    /\ \A i \in DOMAIN held[t] : held[t][i] # l
    /\ lk' = [lk EXCEPT ![t] = l]
    /\ Goto(t, p)
    /\ UNCHANGED <<nodes, prev, held, on, order>>

\* Mutated form: the node's next pointer keeps its old value.
StaleNext(c) == next

ClearNext(c) == [next EXCEPT ![c] = Null]

\* Mutated form: the node's flag keeps its old value.
StaleFlag(c) == locked

ClearFlag(c) == [locked EXCEPT ![c] = FALSE]

\* The node is reset before it is published.
InitNode(t, from, to) ==
    /\ pc[t] = from
    /\ next' = ClearNext(CpuOf[t])
    /\ locked' = ClearFlag(CpuOf[t])
    /\ Goto(t, to)
    /\ UNCHANGED <<tail, lk, prev, held, on, order>>

\* Mutated form: lock does not look whether the old tail is null.
NeverFirst(t) == FALSE

Uncontended(t) == tail[lk[t]] = Null

\* lock: swap the node in; with no predecessor the lock is taken.
SwapTail(t) ==
    /\ pc[t] = "swap"
    /\ tail' = [tail EXCEPT ![lk[t]] = CpuOf[t]]
    /\ order' = [order EXCEPT ![lk[t]] = Append(@, t)]
    /\ IF Uncontended(t)
         THEN /\ held' = [held EXCEPT ![t] = Append(@, lk[t])]
              /\ Return(t)
         ELSE /\ prev' = [prev EXCEPT ![t] = tail[lk[t]]]
              /\ Goto(t, "link")
              /\ UNCHANGED <<held, lk>>
    /\ UNCHANGED <<next, locked, on>>

Link(t) ==
    /\ pc[t] = "link"
    /\ next' = [next EXCEPT ![prev[t]] = CpuOf[t]]
    /\ Goto(t, "spin")
    /\ UNCHANGED <<tail, locked, lk, prev, held, on, order>>

Spin(t) ==
    /\ pc[t] = "spin" /\ locked[CpuOf[t]]
    /\ held' = [held EXCEPT ![t] = Append(@, lk[t])]
    /\ Return(t)
    /\ UNCHANGED <<nodes, on, order>>

\* try_lock: one compare-and-swap from null.
TryTail(t) ==
    /\ pc[t] = "try"
    /\ IF Uncontended(t)
         THEN /\ tail' = [tail EXCEPT ![lk[t]] = CpuOf[t]]
              /\ order' = [order EXCEPT ![lk[t]] = Append(@, t)]
              /\ held' = [held EXCEPT ![t] = Append(@, lk[t])]
         ELSE UNCHANGED <<tail, order, held>>
    /\ Return(t)
    /\ UNCHANGED <<next, locked, on>>

\* KMutexGuard::drop of the latest guard, and unlock.
Drop(t) ==
    /\ pc[t] = "free" /\ Running(t) /\ held[t] # <<>>
    /\ lk' = [lk EXCEPT ![t] = held[t][Len(held[t])]]
    /\ Goto(t, "load")
    /\ UNCHANGED <<nodes, prev, held, on, order>>

\* unlock reads next: a successor to signal, or the tail to clear.
LoadNext(t) ==
    /\ pc[t] = "load"
    /\ Goto(t, IF next[CpuOf[t]] = Null THEN "cas" ELSE "signal")
    /\ UNCHANGED <<nodes, lk, prev, held, on, order>>

\* The lock leaves t: the guard and the history entry go with it.
Leave(t) ==
    /\ held' = [held EXCEPT ![t] = SubSeq(@, 1, Len(@) - 1)]
    /\ order' = [order EXCEPT ![lk[t]] = Tail(@)]

\* Mutated form: the tail is cleared although another waiter has come.
ClearsAlways(t) == TRUE

\* The compare_exchange of unlock succeeds while the tail still is t's node.
StillLast(t) == tail[lk[t]] = CpuOf[t]

ClearTail(t) ==
    /\ pc[t] = "cas" /\ StillLast(t)
    /\ tail' = [tail EXCEPT ![lk[t]] = Null]
    /\ Leave(t)
    /\ Return(t)
    /\ UNCHANGED <<next, locked, on>>

SomeoneCame(t) ==
    /\ pc[t] = "cas" /\ ~StillLast(t)
    /\ Goto(t, "wait_next")
    /\ UNCHANGED <<nodes, lk, prev, held, on, order>>

WaitNext(t) ==
    /\ pc[t] = "wait_next" /\ next[CpuOf[t]] # Null
    /\ Goto(t, "signal")
    /\ UNCHANGED <<nodes, lk, prev, held, on, order>>

Signal(t) ==
    /\ pc[t] = "signal"
    /\ locked' = [locked EXCEPT ![next[CpuOf[t]]] = TRUE]
    /\ Leave(t)
    /\ Return(t)
    /\ UNCHANGED <<tail, next, on>>

\* schedule() by a holder: its guards stay, and its CPU is free for another thread.
Block(t) ==
    /\ pc[t] = "free" /\ Running(t) /\ held[t] # <<>>
    /\ on' = [on EXCEPT ![CpuOf[t]] = Null]
    /\ UNCHANGED <<nodes, pc, lk, prev, held, order>>

\* A CPU whose thread has interrupts on, or none, goes on with thread t.
Interruptible(c) == on[c] # Null => pc[on[c]] = "free" /\ held[on[c]] = <<>>

Dispatch(t) ==
    /\ ~Running(t) /\ Interruptible(CpuOf[t])
    /\ on' = [on EXCEPT ![CpuOf[t]] = t]
    /\ UNCHANGED <<nodes, pc, lk, prev, held, order>>

Acquiring(t) == \/ InitNode(t, "init", "swap") \/ InitNode(t, "try_init", "try")
                \/ SwapTail(t) \/ Link(t) \/ Spin(t) \/ TryTail(t)
Releasing(t) == LoadNext(t) \/ ClearTail(t) \/ SomeoneCame(t) \/ WaitNext(t) \/ Signal(t)

Next == \E t \in Threads :
            \/ \E l \in Locks : Call(t, l, "init") \/ Call(t, l, "try_init")
            \/ Acquiring(t) \/ Drop(t) \/ Releasing(t) \/ Block(t) \/ Dispatch(t)

Spec == Init /\ [][Next]_vars

\* A CPU goes on with the code it runs, a guard is dropped in the end (its holder sleeps
\* only so often), and a thread that can be dispatched is.
FairSpec == Spec /\ \A t \in Threads : /\ WF_vars(Acquiring(t))
                                       /\ SF_vars(Drop(t))
                                       /\ WF_vars(Releasing(t))
                                       /\ SF_vars(Dispatch(t))

------------------------------------------------------------------------------------
\* Types; the pointers that lock() and unlock() follow are never null.
TypeOK ==
    /\ tail \in [Locks -> CPUs \cup {Null}]
    /\ next \in [CPUs -> CPUs \cup {Null}]
    /\ locked \in [CPUs -> BOOLEAN]
    /\ pc \in [Threads -> Points]
    /\ lk \in [Threads -> Locks \cup {Null}]
    /\ prev \in [Threads -> CPUs \cup {Null}]
    /\ held \in [Threads -> Seq(Locks)]
    /\ on \in [CPUs -> Threads \cup {Null}]
    /\ order \in [Locks -> Seq(Threads)]
    /\ \A t \in Threads : /\ pc[t] = "link" => prev[t] \in CPUs
                          /\ pc[t] = "signal" => next[CpuOf[t]] \in CPUs

Holds(t, l) == \E i \in DOMAIN held[t] : held[t][i] = l

\* Two threads never hold the same KMutex, whatever the order of the atomic steps of
\* lock(), try_lock() and unlock() on several CPUs.
MutualExclusion ==
    \A l \in Locks : \A t, u \in Threads : Holds(t, l) /\ Holds(u, l) => t = u

HolderOf(l) == IF \E t \in Threads : Holds(t, l)
               THEN CHOOSE t \in Threads : Holds(t, l) ELSE Null

FL == INSTANCE FifoLock WITH Nobody <- Null, queue <- order,
                             holder <- [l \in Locks |-> HolderOf(l)]

\* KMutex is a FIFO lock: threads get it one at a time in the order of their swap.
ImplementsFifoLock == FL!Spec

\* lock() returns: whoever asks for a lock gets it, and unlock() returns, too.
CallsReturn == \A t \in Threads : pc[t] # "free" ~> pc[t] = "free"
====================================================================================
