----------------------------- MODULE QSpinlockProofs -----------------------------
(***************************************************************************)
(* The MCS queue lock is a FIFO lock on any number of CPUs, with any       *)
(* number of threads and locks, as long as a CPU's one node serves one     *)
(* lock at a time.                                                         *)
(***************************************************************************)
EXTENDS QSpinlock, TLAPS

Entering == {"init", "try_init", "swap", "try", "link", "spin"}
Leaving == {"load", "cas", "wait_next", "signal"}

\* The thread's calls use the node of its CPU.
Busy(t) == pc[t] # "free" \/ held[t] # <<>>

\* What MCS_NODES, one node per CPU, asks of the callers: a CPU has one thread in or
\* under a KMutex, and that thread takes no second lock.  Not every caller keeps to it:
\* blk_request sleeps under io_lock and takes the lock of its wait queue (virtio.rs:320).
OneLockPerCpu ==
    /\ \A t, u \in Threads : Busy(t) /\ Busy(u) /\ CpuOf[t] = CpuOf[u] => t = u
    /\ \A t \in Threads : pc[t] \in Entering => held[t] = <<>>

------------------------------------------------------------------------------------
(* The inductive invariant *)

\* The types proper, without the pointers' being non-null.
Types ==
    /\ tail \in [Locks -> CPUs \cup {Null}]
    /\ next \in [CPUs -> CPUs \cup {Null}]
    /\ locked \in [CPUs -> BOOLEAN]
    /\ pc \in [Threads -> Points]
    /\ lk \in [Threads -> Locks \cup {Null}]
    /\ prev \in [Threads -> CPUs \cup {Null}]
    /\ held \in [Threads -> Seq(Locks)]
    /\ on \in [CPUs -> Threads \cup {Null}]
    /\ order \in [Locks -> Seq(Threads)]

\* A thread's own state: what it works on and what it holds.
Local(t) ==
    /\ held[t] = <<>> \/ \E l \in Locks : held[t] = <<l>>
    /\ pc[t] \in Entering => lk[t] \in Locks
    /\ pc[t] \in Leaving => lk[t] \in Locks /\ held[t] = <<lk[t]>>
    /\ pc[t] \in {"swap", "try"} => next[CpuOf[t]] = Null /\ ~locked[CpuOf[t]]
    /\ pc[t] = "signal" => next[CpuOf[t]] # Null

\* t has swapped its node into the queue of l and has not left it.
Waiting(t) == pc[t] \in {"link", "spin"}
Engaged(t, l) == held[t] = <<l>> \/ (Waiting(t) /\ lk[t] = l)

Queue(l) == 1..Len(order[l])

\* The history lists the engaged threads, each once.
ListsEngaged(l) ==
    /\ \A i, j \in Queue(l) : order[l][i] = order[l][j] => i = j
    /\ \A i \in Queue(l) : Engaged(order[l][i], l)
    /\ \A t \in Threads : Engaged(t, l) => \E i \in Queue(l) : order[l][i] = t

\* The tail is the node of the last thread of the queue.
TailIsLast(l) ==
    /\ Len(order[l]) = 0 => tail[l] = Null
    /\ Len(order[l]) > 0 => tail[l] = CpuOf[order[l][Len(order[l])]]

\* The first of the queue has the lock or has been signalled; the others wait, their
\* flags down, and know the node before theirs until they have linked to it.
FirstGoes(l) ==
    \A i \in Queue(l) :
        /\ i = 1 => \/ held[order[l][i]] = <<l>>
                    \/ pc[order[l][i]] = "spin" /\ locked[CpuOf[order[l][i]]]
        /\ i > 1 => Waiting(order[l][i]) /\ ~locked[CpuOf[order[l][i]]]
        /\ i > 1 /\ pc[order[l][i]] = "link" =>
             prev[order[l][i]] = CpuOf[order[l][i - 1]]

\* The nodes of a queue are chained, with a gap where a waiter has still to link.
Chained(l) ==
    \A i \in Queue(l) :
        /\ i < Len(order[l]) /\ pc[order[l][i + 1]] = "spin" =>
             next[CpuOf[order[l][i]]] = CpuOf[order[l][i + 1]]
        /\ i < Len(order[l]) /\ pc[order[l][i + 1]] # "spin" =>
             next[CpuOf[order[l][i]]] = Null
        /\ i = Len(order[l]) => next[CpuOf[order[l][i]]] = Null

QueueOK(l) == ListsEngaged(l) /\ TailIsLast(l) /\ FirstGoes(l) /\ Chained(l)

IInv == /\ Types
        /\ \A t \in Threads : Local(t)
        /\ \A l \in Locks : QueueOK(l)

------------------------------------------------------------------------------------
(* Queues and nodes *)

\* Sequences of at most one guard.
LEMMA OneGuard ==
  ASSUME NEW l \in Locks, NEW m \in Locks
  PROVE  /\ <<l>> # <<>> /\ Len(<<l>>) = 1 /\ <<l>>[1] = l
         /\ <<l>> = <<m>> => l = m
         /\ Append(<<>>, l) = <<l>>
         /\ SubSeq(<<l>>, 1, Len(<<l>>) - 1) = <<>>
OBVIOUS

\* A queued thread is a thread that uses the node of its CPU.
LEMMA QueuedIsBusy ==
  ASSUME IInv, NEW l \in Locks, NEW i \in Queue(l)
  PROVE  /\ order[l][i] \in Threads /\ CpuOf[order[l][i]] \in CPUs
         /\ Engaged(order[l][i], l) /\ Busy(order[l][i])
<1>1. order[l][i] \in Threads /\ Engaged(order[l][i], l)
  BY DEF IInv, Types, QueueOK, ListsEngaged, Queue
<1>2. Busy(order[l][i])
  BY <1>1, OneGuard DEF Engaged, Waiting, Busy
<1> QED
  BY <1>1, <1>2, CpuAssumption

\* A thread waits for or holds one lock only.
LEMMA EngagedOnce ==
  ASSUME OneLockPerCpu, NEW t \in Threads, NEW l \in Locks, NEW m \in Locks,
         Engaged(t, l), Engaged(t, m)
  PROVE  l = m
BY OneGuard DEF Engaged, Waiting, OneLockPerCpu, Entering

\* The nodes of all the queues are different.
LEMMA OneNode ==
  ASSUME IInv, OneLockPerCpu, NEW l \in Locks, NEW m \in Locks,
         NEW i \in Queue(l), NEW j \in Queue(m),
         CpuOf[order[l][i]] = CpuOf[order[m][j]]
  PROVE  l = m /\ i = j
<1>1. order[l][i] = order[m][j]
  BY QueuedIsBusy DEF OneLockPerCpu
<1>2. l = m
  BY <1>1, QueuedIsBusy, EngagedOnce
<1> QED
  BY <1>1, <1>2 DEF IInv, QueueOK, ListsEngaged

\* The node of a busy thread that is in no queue is in none.
LEMMA NodeNotQueued ==
  ASSUME IInv, OneLockPerCpu, NEW t \in Threads, Busy(t),
         NEW m \in Locks, ~Engaged(t, m), NEW i \in Queue(m)
  PROVE  order[m][i] # t /\ CpuOf[order[m][i]] # CpuOf[t]
BY QueuedIsBusy DEF OneLockPerCpu

\* A queue stays in order while its history and its tail do, and its threads wait, hold
\* and are linked as before.
LEMMA QueueFrame ==
  ASSUME IInv, NEW l \in Locks, order'[l] = order[l], tail'[l] = tail[l],
         \A u \in Threads : Engaged(u, l)' <=> Engaged(u, l),
         \A i \in Queue(l) :
            LET u == order[l][i] IN
            /\ held'[u] = held[u] /\ prev'[u] = prev[u]
            /\ (Waiting(u) \/ Waiting(u)') => pc'[u] = pc[u]
            /\ next'[CpuOf[u]] = next[CpuOf[u]]
            /\ locked'[CpuOf[u]] = locked[CpuOf[u]]
  PROVE  QueueOK(l)'
<1> DEFINE q == order[l]
<1>1. /\ q \in Seq(Threads) /\ Len(q) \in Nat /\ order'[l] = q
      /\ Queue(l) = 1..Len(q) /\ Queue(l)' = 1..Len(q)
  BY DEF IInv, Types, Queue
<1>2. QueueOK(l)
  BY DEF IInv
<1>3. \A i \in 1..Len(q) : q[i] \in Threads
  BY <1>1
<1>4. ListsEngaged(l)' /\ TailIsLast(l)'
  BY <1>1, <1>2, <1>3 DEF QueueOK, ListsEngaged, TailIsLast
<1>5. FirstGoes(l)'
  <2> SUFFICES ASSUME NEW i \in 1..Len(q) PROVE FirstGoes(l)!(i)'
    BY <1>1 DEF FirstGoes
  <2>1. FirstGoes(l)!(i)
    BY <1>1, <1>2 DEF QueueOK, FirstGoes
  <2>2. /\ held'[q[i]] = held[q[i]] /\ prev'[q[i]] = prev[q[i]]
        /\ (Waiting(q[i]) \/ Waiting(q[i])') => pc'[q[i]] = pc[q[i]]
        /\ locked'[CpuOf[q[i]]] = locked[CpuOf[q[i]]]
    BY <1>1
  <2> QED
    BY <1>1, <2>1, <2>2 DEF Waiting
<1>6. Chained(l)'
  <2> SUFFICES ASSUME NEW i \in 1..Len(q) PROVE Chained(l)!(i)'
    BY <1>1 DEF Chained
  <2>1. Chained(l)!(i) /\ next'[CpuOf[q[i]]] = next[CpuOf[q[i]]]
    BY <1>1, <1>2 DEF QueueOK, Chained
  <2>2. CASE i = Len(q)
    BY <1>1, <2>1, <2>2
  <2>3. CASE i < Len(q)
    <3>1. i + 1 \in 1..Len(q)
      BY <1>1, <2>3
    <3>2. pc'[q[i + 1]] = "spin" <=> pc[q[i + 1]] = "spin"
      BY <1>1, <3>1 DEF Waiting
    <3> QED
      BY <1>1, <2>1, <3>2, <2>3
  <2> QED
    BY <1>1, <2>2, <2>3
<1> QED
  BY <1>4, <1>5, <1>6 DEF QueueOK

------------------------------------------------------------------------------------
(* Every action preserves the invariant *)

LEMMA InitIInv == Init => IInv
BY CpuAssumption, NullAssumption
   DEF Init, IInv, Types, Local, QueueOK, ListsEngaged, TailIsLast, FirstGoes, Chained,
       Engaged, Waiting, Queue, Points, Entering, Leaving

LEMMA CallStep ==
  ASSUME IInv, OneLockPerCpu, OneLockPerCpu', NEW t \in Threads, NEW l \in Locks,
         NEW p \in {"init", "try_init"}, Call(t, l, p)
  PROVE  IInv'
<1> USE DEF Call, Goto, nodes
<1>1. Types'
  BY DEF IInv, Types, Points
<1>2. \A u \in Threads : Local(u)'
  BY DEF IInv, Types, Local, Entering, Leaving, OneLockPerCpu
<1>3. ASSUME NEW m \in Locks PROVE QueueOK(m)'
  <2>1. \A u \in Threads : /\ Engaged(u, m)' <=> Engaged(u, m)
                           /\ Waiting(u)' <=> Waiting(u)
                           /\ Waiting(u) => pc'[u] = pc[u]
    BY DEF IInv, Types, Engaged, Waiting
  <2> QED
    BY <2>1, QueueFrame, QueuedIsBusy
<1> QED
  BY <1>1, <1>2, <1>3 DEF IInv

LEMMA InitNodeStep ==
  ASSUME IInv, OneLockPerCpu, NEW t \in Threads,
         \/ InitNode(t, "init", "swap")
         \/ InitNode(t, "try_init", "try")
  PROVE  IInv'
<1> USE DEF InitNode, Goto, ClearNext, ClearFlag
<1>1. Types'
  BY CpuAssumption DEF IInv, Types, Points
<1>2. Busy(t) /\ \A m \in Locks : ~Engaged(t, m)
  BY OneGuard DEF Busy, Engaged, Waiting, OneLockPerCpu, Entering
<1>3. ASSUME NEW u \in Threads PROVE Local(u)'
  <2>1. CASE u = t
    BY <2>1, CpuAssumption DEF IInv, Types, Local, Entering, Leaving
  <2>2. CASE u # t
    <3>1. pc[u] # "free" => CpuOf[u] # CpuOf[t]
      BY <1>2, <2>2 DEF OneLockPerCpu, Busy
    <3> QED
      BY <2>2, <3>1, CpuAssumption DEF IInv, Types, Local, Entering, Leaving
  <2> QED
    BY <2>1, <2>2
<1>4. ASSUME NEW m \in Locks PROVE QueueOK(m)'
  <2>1. \A u \in Threads : /\ Engaged(u, m)' <=> Engaged(u, m)
                           /\ Waiting(u)' <=> Waiting(u)
                           /\ Waiting(u) => pc'[u] = pc[u]
    BY DEF IInv, Types, Engaged, Waiting
  <2>2. ASSUME NEW i \in Queue(m)
        PROVE  /\ next'[CpuOf[order[m][i]]] = next[CpuOf[order[m][i]]]
               /\ locked'[CpuOf[order[m][i]]] = locked[CpuOf[order[m][i]]]
    <3>1. CpuOf[order[m][i]] \in CPUs \ {CpuOf[t]}
      BY <1>2, NodeNotQueued, QueuedIsBusy
    <3> QED
      BY <3>1 DEF IInv, Types
  <2> QED
    BY <2>1, <2>2, QueueFrame, QueuedIsBusy
<1> QED
  BY <1>1, <1>3, <1>4 DEF IInv

\* The steps that change no node: the first steps of unlock, and a CPU's change of threads.
LEMMA HolderStep ==
  ASSUME IInv, NEW t \in Threads,
         Drop(t) \/ LoadNext(t) \/ SomeoneCame(t) \/ WaitNext(t) \/ Block(t) \/ Dispatch(t)
  PROVE  IInv'
<1> USE DEF Drop, LoadNext, SomeoneCame, WaitNext, Block, Dispatch, Goto, nodes
<1>0. Drop(t) => held[t][Len(held[t])] \in Locks /\ held[t] = <<held[t][Len(held[t])]>>
  <2> SUFFICES ASSUME Drop(t)
               PROVE  held[t][Len(held[t])] \in Locks /\ held[t] = <<held[t][Len(held[t])]>>
    OBVIOUS
  <2>1. PICK l \in Locks : held[t] = <<l>>
    BY DEF IInv, Local
  <2> QED
    BY <2>1, OneGuard
<1>1. Types'
  <2>1. pc' \in [Threads -> Points] /\ lk' \in [Threads -> Locks \cup {Null}]
    BY <1>0 DEF IInv, Types, Points
  <2>2. on' \in [CPUs -> Threads \cup {Null}]
    BY CpuAssumption DEF IInv, Types
  <2> QED
    BY <2>1, <2>2 DEF IInv, Types
<1>2. ASSUME NEW u \in Threads PROVE Local(u)'
  <2>1. CASE u = t
    BY <1>0, <2>1 DEF IInv, Types, Local, Entering, Leaving
  <2>2. CASE u # t
    BY <2>2 DEF IInv, Types, Local, Entering, Leaving
  <2> QED
    BY <2>1, <2>2
<1>3. ASSUME NEW m \in Locks PROVE QueueOK(m)'
  <2>1. \A u \in Threads : /\ Engaged(u, m)' <=> Engaged(u, m)
                           /\ Waiting(u)' <=> Waiting(u)
                           /\ Waiting(u) => pc'[u] = pc[u]
    BY DEF IInv, Types, Engaged, Waiting
  <2> QED
    BY <2>1, QueueFrame, QueuedIsBusy
<1> QED
  BY <1>1, <1>2, <1>3 DEF IInv

\* What the swap of lock() and a successful try_lock change: the thread's fresh node goes
\* to the end of the queue, and with no predecessor the thread holds the lock.
LEMMA EnqueueEffect ==
  ASSUME IInv, OneLockPerCpu, NEW t \in Threads,
         SwapTail(t) \/ (TryTail(t) /\ Uncontended(t)),
         NEW l \in Locks, l = lk[t]
  PROVE  /\ /\ held[t] = <<>> /\ CpuOf[t] \in CPUs
            /\ next[CpuOf[t]] = Null /\ ~locked[CpuOf[t]]
            /\ Busy(t) /\ pc[t] \in {"swap", "try"}
            /\ \A m \in Locks : ~Engaged(t, m)
         /\ /\ tail' = [tail EXCEPT ![l] = CpuOf[t]]
            /\ order' = [order EXCEPT ![l] = Append(order[l], t)]
            /\ next' = next /\ locked' = locked /\ on' = on
            /\ pc' = [pc EXCEPT ![t] = IF tail[l] = Null THEN "free" ELSE "link"]
            /\ held' = [held EXCEPT ![t] = IF tail[l] = Null THEN <<l>> ELSE <<>>]
            /\ lk' = [lk EXCEPT ![t] = IF tail[l] = Null THEN Null ELSE l]
            /\ prev' = [prev EXCEPT ![t] = tail[l]]
<1>1. /\ held[t] = <<>> /\ CpuOf[t] \in CPUs
      /\ next[CpuOf[t]] = Null /\ ~locked[CpuOf[t]]
      /\ Busy(t) /\ pc[t] \in {"swap", "try"}
      /\ \A m \in Locks : ~Engaged(t, m)
  BY OneGuard, CpuAssumption
     DEF IInv, Local, OneLockPerCpu, Entering, SwapTail, TryTail, Busy, Engaged, Waiting
<1>2. /\ tail' = [tail EXCEPT ![l] = CpuOf[t]]
      /\ order' = [order EXCEPT ![l] = Append(order[l], t)]
      /\ next' = next /\ locked' = locked /\ on' = on
      /\ pc' = [pc EXCEPT ![t] = IF tail[l] = Null THEN "free" ELSE "link"]
      /\ held' = [held EXCEPT ![t] = IF tail[l] = Null THEN <<l>> ELSE <<>>]
      /\ lk' = [lk EXCEPT ![t] = IF tail[l] = Null THEN Null ELSE l]
      /\ prev' = [prev EXCEPT ![t] = tail[l]]
  <2>1. Append(held[t], l) = <<l>>
    BY <1>1, OneGuard
  <2>2. lk[t] = l /\ held = [held EXCEPT ![t] = <<>>] /\ lk = [lk EXCEPT ![t] = l]
    BY <1>1 DEF IInv, Types
  <2>3. CASE tail[l] = Null
    BY <2>1, <2>2, <2>3 DEF SwapTail, TryTail, Uncontended, Return, Goto
  <2>4. CASE tail[l] # Null
    BY <2>1, <2>2, <2>4 DEF SwapTail, TryTail, Uncontended, Return, Goto
  <2> QED
    BY <2>3, <2>4
<1> QED
  BY <1>1, <1>2

LEMMA EnqueueStep ==
  ASSUME IInv, OneLockPerCpu, NEW t \in Threads,
         SwapTail(t) \/ (TryTail(t) /\ Uncontended(t))
  PROVE  IInv'
<1>1. PICK l \in Locks : l = lk[t]
  BY DEF IInv, Local, SwapTail, TryTail, Entering
<1> DEFINE q == order[l]
<1>2. /\ held[t] = <<>> /\ CpuOf[t] \in CPUs
      /\ next[CpuOf[t]] = Null /\ ~locked[CpuOf[t]]
      /\ Busy(t) /\ pc[t] \in {"swap", "try"}
      /\ \A m \in Locks : ~Engaged(t, m)
  BY <1>1, EnqueueEffect
<1>3. /\ tail' = [tail EXCEPT ![l] = CpuOf[t]]
      /\ order' = [order EXCEPT ![l] = Append(q, t)]
      /\ next' = next /\ locked' = locked /\ on' = on
      /\ pc' = [pc EXCEPT ![t] = IF tail[l] = Null THEN "free" ELSE "link"]
      /\ held' = [held EXCEPT ![t] = IF tail[l] = Null THEN <<l>> ELSE <<>>]
      /\ lk' = [lk EXCEPT ![t] = IF tail[l] = Null THEN Null ELSE l]
      /\ prev' = [prev EXCEPT ![t] = tail[l]]
  BY <1>1, EnqueueEffect
<1>4. Types'
  <2>1. <<l>> \in Seq(Locks) /\ <<>> \in Seq(Locks) /\ Append(q, t) \in Seq(Threads)
    BY DEF IInv, Types
  <2> QED
    BY <1>2, <1>3, <2>1 DEF IInv, Types, Points
<1>5. ASSUME NEW u \in Threads PROVE Local(u)'
  <2>1. CASE u = t
    BY <1>3, <2>1 DEF IInv, Types, Local, Entering, Leaving
  <2>2. CASE u # t
    BY <1>3, <2>2 DEF IInv, Types, Local, Entering, Leaving
  <2> QED
    BY <2>1, <2>2
<1>6. ASSUME NEW u \in Threads, u # t
      PROVE  /\ held'[u] = held[u] /\ prev'[u] = prev[u]
             /\ pc'[u] = pc[u] /\ lk'[u] = lk[u]
  BY <1>3, <1>6 DEF IInv, Types
<1>7. /\ tail[l] = Null => held'[t] = <<l>> /\ pc'[t] = "free"
      /\ tail[l] # Null => /\ held'[t] = <<>> /\ pc'[t] = "link"
                           /\ lk'[t] = l /\ prev'[t] = tail[l]
  BY <1>3 DEF IInv, Types
<1>8. ASSUME NEW m \in Locks, m # l PROVE QueueOK(m)'
  <2>1. order'[m] = order[m] /\ tail'[m] = tail[m]
    BY <1>3, <1>8 DEF IInv, Types
  <2>2. ASSUME NEW u \in Threads PROVE Engaged(u, m)' <=> Engaged(u, m)
    <3>1. CASE u = t
      BY <1>2, <1>7, <1>8, <3>1, OneGuard DEF Engaged, Waiting
    <3>2. CASE u # t
      BY <1>6, <3>2 DEF Engaged, Waiting
    <3> QED
      BY <3>1, <3>2
  <2>3. \A i \in Queue(m) : order[m][i] \in Threads \ {t}
    BY <1>2, NodeNotQueued, QueuedIsBusy
  <2> QED
    BY <1>3, <1>6, <2>1, <2>2, <2>3, QueueFrame
<1>9. QueueOK(l)'
  <2>1. /\ q \in Seq(Threads) /\ Len(q) \in Nat
        /\ Len(order'[l]) = Len(q) + 1
        /\ order'[l][Len(q) + 1] = t /\ \A i \in 1..Len(q) : order'[l][i] = q[i]
    BY <1>3 DEF IInv, Types
  <2>2. Queue(l) = 1..Len(q) /\ Queue(l)' = 1..(Len(q) + 1)
    BY <2>1 DEF Queue
  <2>3. QueueOK(l)
    BY DEF IInv
  <2>4. ASSUME NEW i \in 1..Len(q)
        PROVE  q[i] \in Threads \ {t} /\ CpuOf[q[i]] \in CPUs \ {CpuOf[t]}
    BY <1>2, <2>2, NodeNotQueued, QueuedIsBusy
  <2>5. tail[l] = Null <=> Len(q) = 0
    BY <2>1, <2>3, <2>4, NullAssumption DEF QueueOK, TailIsLast
  <2>6. tail'[l] = CpuOf[t]
    BY <1>3 DEF IInv, Types
  <2>7. Len(q) > 0 => tail[l] = CpuOf[q[Len(q)]]
    BY <2>3 DEF QueueOK, TailIsLast
  <2>8. ASSUME NEW u \in Threads
        PROVE  Engaged(u, l)' <=> (Engaged(u, l) \/ u = t)
    <3>1. CASE u = t
      BY <1>7, <3>1 DEF Engaged, Waiting
    <3>2. CASE u # t
      BY <1>6, <3>2 DEF Engaged, Waiting
    <3> QED
      BY <3>1, <3>2
  <2> HIDE DEF q
  <2>9. ListsEngaged(l)'
    <3>1. /\ \A i, j \in 1..Len(q) : q[i] = q[j] => i = j
          /\ \A i \in 1..Len(q) : Engaged(q[i], l)
          /\ \A u \in Threads : Engaged(u, l) => \E i \in 1..Len(q) : q[i] = u
      BY <2>2, <2>3 DEF QueueOK, ListsEngaged, q
    <3>2. \A i, j \in 1..(Len(q) + 1) : order'[l][i] = order'[l][j] => i = j
      <4> SUFFICES ASSUME NEW i \in 1..(Len(q) + 1), NEW j \in 1..(Len(q) + 1),
                          order'[l][i] = order'[l][j]
                   PROVE  i = j
        OBVIOUS
      <4>1. CASE i \in 1..Len(q) /\ j \in 1..Len(q)
        BY <2>1, <3>1, <4>1
      <4>2. CASE i = Len(q) + 1 \/ j = Len(q) + 1
        BY <2>1, <2>4, <4>2
      <4> QED
        BY <2>1, <4>1, <4>2
    <3>3. ASSUME NEW i \in 1..(Len(q) + 1) PROVE Engaged(order[l][i], l)'
      <4>1. PICK u \in Threads : u = order'[l][i]
        BY <2>1, <2>4
      <4>2. Engaged(u, l)'
        BY <2>1, <2>8, <3>1, <4>1
      <4> QED
        BY <4>1, <4>2 DEF Engaged, Waiting
    <3>4. ASSUME NEW u \in Threads, Engaged(u, l)'
          PROVE  \E i \in 1..(Len(q) + 1) : order'[l][i] = u
      <4>1. CASE u = t
        BY <2>1, <4>1
      <4>2. CASE u # t
        BY <2>1, <2>8, <3>1, <3>4, <4>2
      <4> QED
        BY <4>1, <4>2
    <3> QED
      BY <2>2, <3>2, <3>3, <3>4 DEF ListsEngaged
  <2>10. TailIsLast(l)'
    BY <2>1, <2>6 DEF TailIsLast
  <2>11. FirstGoes(l)'
    <3> SUFFICES ASSUME NEW i \in 1..(Len(q) + 1) PROVE FirstGoes(l)!(i)'
      BY <2>2 DEF FirstGoes
    <3>1. CASE i = Len(q) + 1
      BY <1>2, <1>3, <1>7, <2>1, <2>5, <2>7, <3>1 DEF Waiting
    <3>2. CASE i \in 1..Len(q)
      <4>1. FirstGoes(l)!(i)
        BY <2>2, <2>3, <3>2 DEF QueueOK, FirstGoes
      <4>2. i > 1 => i - 1 \in 1..Len(q)
        BY <2>1, <3>2
      <4> QED
        BY <1>3, <1>6, <2>1, <2>4, <3>2, <4>1, <4>2 DEF Waiting, q
    <3> QED
      BY <2>1, <3>1, <3>2
  <2>12. Chained(l)'
    <3> SUFFICES ASSUME NEW i \in 1..(Len(q) + 1) PROVE Chained(l)!(i)'
      BY <2>2 DEF Chained
    <3>1. CASE i = Len(q) + 1
      BY <1>2, <1>3, <2>1, <3>1
    <3>2. CASE i \in 1..Len(q)
      <4>1. Chained(l)!(i)
        BY <2>2, <2>3, <3>2 DEF QueueOK, Chained
      <4>2. CASE i = Len(q)
        BY <1>3, <1>7, <2>1, <2>5, <3>2, <4>1, <4>2 DEF q
      <4>3. CASE i < Len(q)
        <5>1. i + 1 \in 1..Len(q)
          BY <2>1, <3>2, <4>3
        <5> QED
          BY <1>3, <1>6, <2>1, <2>4, <3>2, <4>1, <4>3, <5>1 DEF q
      <4> QED
        BY <2>1, <3>2, <4>2, <4>3
    <3> QED
      BY <2>1, <3>1, <3>2
  <2> QED
    BY <2>9, <2>10, <2>11, <2>12 DEF QueueOK
<1> QED
  BY <1>4, <1>5, <1>8, <1>9 DEF IInv

\* A try_lock that finds the lock taken changes nothing but the thread's own state.
LEMMA TryFailStep ==
  ASSUME IInv, OneLockPerCpu, NEW t \in Threads, TryTail(t), ~Uncontended(t)
  PROVE  IInv'
<1> USE DEF TryTail, Return, Goto
<1>1. Types'
  BY DEF IInv, Types, Points
<1>2. ASSUME NEW u \in Threads PROVE Local(u)'
  BY DEF IInv, Types, Local, Entering, Leaving
<1>3. ASSUME NEW m \in Locks PROVE QueueOK(m)'
  <2>1. Busy(t) /\ ~Engaged(t, m)
    BY OneGuard DEF Busy, Engaged, Waiting, OneLockPerCpu, Entering
  <2>2. \A u \in Threads : Engaged(u, m)' <=> Engaged(u, m)
    BY <2>1 DEF IInv, Types, Engaged, Waiting
  <2>3. \A i \in Queue(m) : order[m][i] \in Threads \ {t}
    BY <2>1, NodeNotQueued, QueuedIsBusy
  <2>4. \A u \in Threads \ {t} : pc'[u] = pc[u] /\ prev'[u] = prev[u]
    BY DEF IInv, Types
  <2> QED
    BY <2>2, <2>3, <2>4, QueueFrame
<1> QED
  BY <1>1, <1>2, <1>3 DEF IInv

\* The waiter's predecessor is the thread before it in the queue, and learns its node.
LEMMA LinkStep ==
  ASSUME IInv, OneLockPerCpu, NEW t \in Threads, Link(t)
  PROVE  IInv'
<1>1. PICK l \in Locks : l = lk[t]
  BY DEF IInv, Local, Link, Entering
<1> DEFINE q == order[l]
<1>2. /\ pc[t] = "link" /\ Engaged(t, l) /\ held[t] = <<>> /\ QueueOK(l)
      /\ q \in Seq(Threads) /\ Len(q) \in Nat /\ Queue(l) = 1..Len(q)
  BY <1>1 DEF IInv, Types, Link, Engaged, Waiting, OneLockPerCpu, Entering, Queue
<1>3. PICK k \in 1..Len(q) : q[k] = t
  BY <1>2 DEF QueueOK, ListsEngaged
<1>4. k > 1 /\ prev[t] = CpuOf[q[k - 1]] /\ k - 1 \in 1..Len(q)
  <2>1. FirstGoes(l)!(k)
    BY <1>2 DEF QueueOK, FirstGoes
  <2>2. k # 1
    BY <1>2, <1>3, <2>1, OneGuard
  <2> QED
    BY <1>2, <1>3, <2>1, <2>2
<1>5. CpuOf[t] \in CPUs /\ q[k - 1] \in Threads /\ CpuOf[q[k - 1]] \in CPUs
  BY <1>2, <1>4, CpuAssumption
<1>6. /\ next' = [next EXCEPT ![CpuOf[q[k - 1]]] = CpuOf[t]]
      /\ pc' = [pc EXCEPT ![t] = "spin"]
      /\ UNCHANGED <<tail, locked, lk, prev, held, on, order>>
  BY <1>4 DEF Link, Goto
<1>7. Types'
  BY <1>5, <1>6 DEF IInv, Types, Points
<1>8. /\ \A u \in Threads : u # t => pc'[u] = pc[u]
      /\ \A u \in Threads, m \in Locks : Engaged(u, m)' <=> Engaged(u, m)
      /\ pc'[t] = "spin"
  BY <1>2, <1>6 DEF IInv, Types, Engaged, Waiting
<1>9. ASSUME NEW u \in Threads PROVE Local(u)'
  <2>1. Local(u)
    BY DEF IInv
  <2>2. pc[u] \in {"swap", "try"} => next'[CpuOf[u]] = next[CpuOf[u]]
    <3> SUFFICES ASSUME pc[u] \in {"swap", "try"} PROVE CpuOf[u] # CpuOf[q[k - 1]]
      BY <1>5, <1>6, CpuAssumption DEF IInv, Types
    <3>1. Busy(u) /\ ~Engaged(u, l)
      BY OneGuard DEF Busy, Engaged, Waiting, OneLockPerCpu, Entering
    <3> QED
      BY <1>2, <1>4, <3>1, NodeNotQueued
  <2>3. next[CpuOf[u]] # Null => next'[CpuOf[u]] # Null
    BY <1>5, <1>6, CpuAssumption, NullAssumption DEF IInv, Types
  <2>4. CASE u = t
    BY <1>2, <1>6, <1>8, <2>1, <2>4 DEF Local, Entering, Leaving
  <2>5. CASE u # t
    BY <1>6, <1>8, <2>1, <2>2, <2>3, <2>5 DEF Local, Entering, Leaving
  <2> QED
    BY <2>4, <2>5
<1>10. ASSUME NEW m \in Locks, NEW i \in Queue(m), m # l \/ i # k - 1
       PROVE  next'[CpuOf[order[m][i]]] = next[CpuOf[order[m][i]]]
  <2>1. CpuOf[order[m][i]] \in CPUs /\ CpuOf[order[m][i]] # CpuOf[q[k - 1]]
    BY <1>2, <1>4, <1>10, OneNode, QueuedIsBusy
  <2> QED
    BY <1>6, <2>1 DEF IInv, Types
<1>11. ASSUME NEW m \in Locks, m # l PROVE QueueOK(m)'
  <2>1. \A i \in Queue(m) : order[m][i] \in Threads \ {t}
    BY <1>2, <1>11, QueuedIsBusy, EngagedOnce
  <2> QED
    BY <1>6, <1>8, <1>10, <1>11, <2>1, QueueFrame
<1>12. QueueOK(l)'
  <2>1. order' = order /\ Queue(l)' = 1..Len(q)
    BY <1>2, <1>6 DEF Queue
  <2>2. ListsEngaged(l)' /\ TailIsLast(l)'
    BY <1>2, <1>6, <1>8, <2>1 DEF QueueOK, ListsEngaged, TailIsLast
  <2>3. \A i \in 1..Len(q) : i # k => q[i] \in Threads \ {t}
    BY <1>2, <1>3 DEF QueueOK, ListsEngaged
  <2>4. FirstGoes(l)'
    <3> SUFFICES ASSUME NEW i \in 1..Len(q) PROVE FirstGoes(l)!(i)'
      BY <2>1 DEF FirstGoes
    <3>1. FirstGoes(l)!(i)
      BY <1>2 DEF QueueOK, FirstGoes
    <3>2. CASE i = k
      BY <1>3, <1>4, <1>6, <1>8, <3>1, <3>2 DEF Waiting
    <3>3. CASE i # k
      BY <1>6, <1>8, <2>3, <3>1, <3>3 DEF Waiting
    <3> QED
      BY <3>2, <3>3
  <2>5. Chained(l)'
    <3> SUFFICES ASSUME NEW i \in 1..Len(q) PROVE Chained(l)!(i)'
      BY <2>1 DEF Chained
    <3>1. Chained(l)!(i)
      BY <1>2 DEF QueueOK, Chained
    <3>2. CASE i = k - 1
      BY <1>3, <1>4, <1>5, <1>6, <1>8, <3>2 DEF IInv, Types
    <3>3. CASE i # k - 1
      <4>1. next'[CpuOf[q[i]]] = next[CpuOf[q[i]]]
        BY <1>2, <1>10, <3>3
      <4>2. i < Len(q) => pc'[q[i + 1]] = pc[q[i + 1]]
        BY <1>2, <1>4, <1>8, <2>3, <3>3
      <4> QED
        BY <1>6, <3>1, <4>1, <4>2
    <3> QED
      BY <3>2, <3>3
  <2> QED
    BY <2>2, <2>4, <2>5 DEF QueueOK
<1> QED
  BY <1>7, <1>9, <1>11, <1>12 DEF IInv

\* A signalled waiter is the first of its queue and takes the lock.
LEMMA SpinEffect ==
  ASSUME IInv, OneLockPerCpu, NEW t \in Threads, Spin(t), NEW l \in Locks, l = lk[t]
  PROVE  /\ held[t] = <<>> /\ 1 \in 1..Len(order[l]) /\ order[l][1] = t
         /\ held' = [held EXCEPT ![t] = <<l>>]
         /\ pc' = [pc EXCEPT ![t] = "free"]
         /\ lk' = [lk EXCEPT ![t] = Null] /\ prev' = [prev EXCEPT ![t] = Null]
         /\ UNCHANGED <<tail, next, locked, on, order>>
<1> DEFINE q == order[l]
<1>1. /\ pc[t] = "spin" /\ locked[CpuOf[t]] /\ Engaged(t, l) /\ held[t] = <<>>
      /\ q \in Seq(Threads) /\ Len(q) \in Nat /\ Queue(l) = 1..Len(q) /\ QueueOK(l)
  BY DEF IInv, Types, Spin, Engaged, Waiting, OneLockPerCpu, Entering, Queue
<1>2. 1 \in 1..Len(q) /\ q[1] = t
  <2>1. PICK k \in 1..Len(q) : q[k] = t
    BY <1>1 DEF QueueOK, ListsEngaged
  <2>2. FirstGoes(l)!(k)
    BY <1>1 DEF QueueOK, FirstGoes
  <2> QED
    BY <1>1, <2>1, <2>2
<1>3. /\ held' = [held EXCEPT ![t] = <<l>>]
      /\ pc' = [pc EXCEPT ![t] = "free"]
      /\ lk' = [lk EXCEPT ![t] = Null] /\ prev' = [prev EXCEPT ![t] = Null]
      /\ UNCHANGED <<tail, next, locked, on, order>>
  <2>1. Append(held[t], lk[t]) = <<l>>
    BY <1>1, OneGuard
  <2> QED
    BY <2>1 DEF Spin, Return, Goto, nodes
<1> QED
  BY <1>1, <1>2, <1>3

LEMMA SpinStep ==
  ASSUME IInv, OneLockPerCpu, NEW t \in Threads, Spin(t)
  PROVE  IInv'
<1>1. PICK l \in Locks : l = lk[t]
  BY DEF IInv, Local, Spin, Entering
<1> DEFINE q == order[l]
<1>2. /\ pc[t] = "spin" /\ locked[CpuOf[t]] /\ Engaged(t, l) /\ held[t] = <<>>
      /\ q \in Seq(Threads) /\ Len(q) \in Nat /\ Queue(l) = 1..Len(q) /\ QueueOK(l)
  BY <1>1 DEF IInv, Types, Spin, Engaged, Waiting, OneLockPerCpu, Entering, Queue
<1>3. 1 \in 1..Len(q) /\ q[1] = t
  BY <1>1, SpinEffect
<1>4. /\ held' = [held EXCEPT ![t] = <<l>>]
      /\ pc' = [pc EXCEPT ![t] = "free"]
      /\ lk' = [lk EXCEPT ![t] = Null] /\ prev' = [prev EXCEPT ![t] = Null]
      /\ UNCHANGED <<tail, next, locked, on, order>>
  BY <1>1, SpinEffect
<1>5. Types'
  <2>1. <<l>> \in Seq(Locks)
    OBVIOUS
  <2> QED
    BY <1>4, <2>1 DEF IInv, Types, Points
<1>6. ASSUME NEW u \in Threads PROVE Local(u)'
  BY <1>4 DEF IInv, Types, Local, Entering, Leaving
<1>7. ASSUME NEW u \in Threads, u # t
      PROVE  held'[u] = held[u] /\ prev'[u] = prev[u] /\ pc'[u] = pc[u] /\ lk'[u] = lk[u]
  BY <1>4, <1>7 DEF IInv, Types
<1>8. held'[t] = <<l>> /\ pc'[t] = "free"
  BY <1>4 DEF IInv, Types
<1>9. ASSUME NEW m \in Locks, NEW u \in Threads PROVE Engaged(u, m)' <=> Engaged(u, m)
  <2>1. CASE u = t
    BY <1>1, <1>2, <1>8, <2>1, OneGuard DEF Engaged, Waiting
  <2>2. CASE u # t
    BY <1>7, <2>2 DEF Engaged, Waiting
  <2> QED
    BY <2>1, <2>2
<1>10. ASSUME NEW m \in Locks, m # l PROVE QueueOK(m)'
  <2>1. \A i \in Queue(m) : order[m][i] \in Threads \ {t}
    BY <1>2, <1>10, QueuedIsBusy, EngagedOnce
  <2> QED
    BY <1>4, <1>7, <1>9, <1>10, <2>1, QueueFrame
<1>11. QueueOK(l)'
  <2>1. order' = order /\ Queue(l)' = 1..Len(q)
    BY <1>2, <1>4 DEF Queue
  <2>2. ListsEngaged(l)' /\ TailIsLast(l)'
    BY <1>2, <1>4, <1>9, <2>1 DEF QueueOK, ListsEngaged, TailIsLast
  <2>3. \A i \in 1..Len(q) : i # 1 => q[i] \in Threads \ {t}
    BY <1>2, <1>3 DEF QueueOK, ListsEngaged
  <2>4. FirstGoes(l)'
    <3> SUFFICES ASSUME NEW i \in 1..Len(q) PROVE FirstGoes(l)!(i)'
      BY <2>1 DEF FirstGoes
    <3>1. FirstGoes(l)!(i)
      BY <1>2 DEF QueueOK, FirstGoes
    <3>2. CASE i = 1
      BY <1>3, <1>4, <1>8, <3>2
    <3>3. CASE i # 1
      BY <1>4, <1>7, <2>3, <3>1, <3>3 DEF Waiting
    <3> QED
      BY <3>2, <3>3
  <2>5. Chained(l)'
    <3> SUFFICES ASSUME NEW i \in 1..Len(q) PROVE Chained(l)!(i)'
      BY <2>1 DEF Chained
    <3>1. Chained(l)!(i)
      BY <1>2 DEF QueueOK, Chained
    <3>2. i < Len(q) => pc'[q[i + 1]] = pc[q[i + 1]]
      BY <1>2, <1>7, <2>3
    <3> QED
      BY <1>4, <3>1, <3>2
  <2> QED
    BY <2>2, <2>4, <2>5 DEF QueueOK
<1> QED
  BY <1>5, <1>6, <1>10, <1>11 DEF IInv

\* The thread in unlock() is the first of the queue.
LEMMA LeaverIsFirst ==
  ASSUME IInv, NEW t \in Threads, pc[t] \in Leaving, NEW l \in Locks, l = lk[t]
  PROVE  Len(order[l]) > 0 /\ order[l][1] = t /\ held[t] = <<l>>
<1>1. held[t] = <<l>> /\ Engaged(t, l) /\ QueueOK(l) /\ order[l] \in Seq(Threads)
  BY DEF IInv, Types, Local, Engaged
<1>2. PICK k \in Queue(l) : order[l][k] = t
  BY <1>1 DEF QueueOK, ListsEngaged
<1>3. FirstGoes(l)!(k)
  BY <1>1 DEF QueueOK, FirstGoes
<1> QED
  BY <1>1, <1>2, <1>3 DEF Queue, Waiting, Leaving

\* What the last step of unlock() changes: the first of the queue leaves it.
LEMMA DequeueEffect ==
  ASSUME IInv, NEW t \in Threads, ClearTail(t) \/ Signal(t), NEW l \in Locks, l = lk[t]
  PROVE  /\ held[t] = <<l>> /\ Len(order[l]) > 0 /\ order[l][1] = t /\ pc[t] \in Leaving
         /\ held' = [held EXCEPT ![t] = <<>>]
         /\ order' = [order EXCEPT ![l] = Tail(order[l])]
         /\ pc' = [pc EXCEPT ![t] = "free"]
         /\ lk' = [lk EXCEPT ![t] = Null] /\ prev' = [prev EXCEPT ![t] = Null]
         /\ next' = next /\ on' = on
<1>1. held[t] = <<l>> /\ Len(order[l]) > 0 /\ order[l][1] = t /\ pc[t] \in Leaving
  BY LeaverIsFirst DEF ClearTail, Signal, Leaving
<1>2. SubSeq(held[t], 1, Len(held[t]) - 1) = <<>>
  BY <1>1, OneGuard
<1> QED
  BY <1>1, <1>2 DEF ClearTail, Signal, Leave, Return, Goto

\* unlock() passes the lock on: the tail is cleared when the holder is alone in the
\* queue, or the second of the queue, which has linked, is signalled.
LEMMA DequeueStep ==
  ASSUME IInv, OneLockPerCpu, NEW t \in Threads, ClearTail(t) \/ Signal(t)
  PROVE  IInv'
<1>1. PICK l \in Locks : l = lk[t]
  BY DEF IInv, Local, ClearTail, Signal, Leaving
<1> DEFINE q == order[l]
<1>2. /\ q \in Seq(Threads) /\ Len(q) \in Nat /\ Queue(l) = 1..Len(q) /\ QueueOK(l)
      /\ held[t] = <<l>> /\ 1 \in 1..Len(q) /\ q[1] = t /\ pc[t] \in Leaving
      /\ CpuOf[t] \in CPUs
  BY <1>1, DequeueEffect, CpuAssumption DEF IInv, Types, Queue
<1>b. Len(q) \in Nat /\ (Len(q) = 1 \/ Len(q) > 1)
  <2>1. \A n \in Nat : 1 \in 1..n => n = 1 \/ n > 1
    OBVIOUS
  <2> QED
    BY <1>2, <2>1
<1>3. /\ held' = [held EXCEPT ![t] = <<>>]
      /\ order' = [order EXCEPT ![l] = Tail(q)]
      /\ pc' = [pc EXCEPT ![t] = "free"]
      /\ lk' = [lk EXCEPT ![t] = Null] /\ prev' = [prev EXCEPT ![t] = Null]
      /\ next' = next /\ on' = on
  BY <1>1, DequeueEffect
<1>4. \/ Len(q) = 1 /\ tail' = [tail EXCEPT ![l] = Null] /\ locked' = locked
      \/ /\ 2 \in 1..Len(q) /\ pc[q[2]] = "spin"
         /\ tail' = tail /\ locked' = [locked EXCEPT ![CpuOf[q[2]]] = TRUE]
  <2>1. CASE ClearTail(t)
    <3>1. tail[l] = CpuOf[q[Len(q)]] /\ tail[l] = CpuOf[t]
      BY <1>1, <1>2, <2>1 DEF QueueOK, TailIsLast, ClearTail, StillLast
    <3>2. Len(q) \in Queue(l)
      BY <1>2
    <3>3. Len(q) = 1
      <4>1. \A i, j \in Queue(l) : CpuOf[q[i]] = CpuOf[q[j]] => i = j
        BY OneNode
      <4> QED
        BY <1>2, <3>1, <3>2, <4>1
    <3> QED
      BY <1>1, <2>1, <3>3 DEF ClearTail
  <2>2. CASE Signal(t)
    <3>1. next[CpuOf[t]] # Null
      BY <2>2 DEF Signal, IInv, Local
    <3>2. Chained(l)!(1)
      BY <1>2 DEF QueueOK, Chained
    <3>3. 2 \in 1..Len(q) /\ pc[q[2]] = "spin" /\ next[CpuOf[t]] = CpuOf[q[2]]
      <4>0. Len(q) # 1
        BY <1>2, <3>1, <3>2
      <4>1. 1 < Len(q) /\ 1 + 1 = 2 /\ 2 \in 1..Len(q)
        BY <1>b, <4>0
      <4> QED
        BY <1>2, <3>1, <3>2, <4>1
    <3> QED
      BY <2>2, <3>3 DEF Signal
  <2> QED
    BY <2>1, <2>2
<1>5. \A i \in 1..Len(q) : q[i] \in Threads /\ CpuOf[q[i]] \in CPUs
  BY <1>2, QueuedIsBusy
<1>6. Types'
  <2>1. <<>> \in Seq(Locks) /\ Tail(q) \in Seq(Threads)
    BY <1>2
  <2>2. tail' \in [Locks -> CPUs \cup {Null}] /\ locked' \in [CPUs -> BOOLEAN]
    BY <1>4, <1>5 DEF IInv, Types
  <2> QED
    BY <1>3, <2>1, <2>2 DEF IInv, Types, Points
<1>7. ASSUME NEW u \in Threads, u # t
      PROVE  held'[u] = held[u] /\ prev'[u] = prev[u] /\ pc'[u] = pc[u] /\ lk'[u] = lk[u]
  BY <1>3, <1>7 DEF IInv, Types
<1>8. held'[t] = <<>> /\ pc'[t] = "free"
  BY <1>3 DEF IInv, Types
<1>9. ASSUME NEW u \in Threads PROVE Local(u)'
  <2>1. CASE u = t
    BY <1>8, <2>1 DEF Local, Entering, Leaving
  <2>2. CASE u # t
    <3>1. pc[u] \in {"swap", "try"} => locked'[CpuOf[u]] = locked[CpuOf[u]]
      <4> SUFFICES ASSUME pc[u] \in {"swap", "try"}, 2 \in 1..Len(q)
                   PROVE  CpuOf[u] # CpuOf[q[2]]
        BY <1>4, <1>5, CpuAssumption DEF IInv, Types
      <4>1. Busy(u) /\ ~Engaged(u, l)
        BY OneGuard DEF Busy, Engaged, Waiting, OneLockPerCpu, Entering
      <4> QED
        BY <1>2, <4>1, NodeNotQueued
    <3>2. Local(u)
      BY DEF IInv
    <3> QED
      BY <1>3, <1>7, <2>2, <3>1, <3>2 DEF Local, Entering, Leaving
  <2> QED
    BY <2>1, <2>2
<1>10. ASSUME NEW m \in Locks, NEW i \in Queue(m), m # l \/ i # 2
       PROVE  locked'[CpuOf[order[m][i]]] = locked[CpuOf[order[m][i]]]
  <2>1. 2 \in 1..Len(q) => CpuOf[order[m][i]] # CpuOf[q[2]]
    BY <1>2, <1>10, OneNode
  <2> QED
    BY <1>4, <1>5, <2>1, QueuedIsBusy DEF IInv, Types
<1>11. ASSUME NEW m \in Locks, m # l PROVE QueueOK(m)'
  <2>1. ~Engaged(t, m) /\ \A i \in Queue(m) : order[m][i] \in Threads \ {t}
    BY <1>2, <1>11, QueuedIsBusy, EngagedOnce DEF Engaged
  <2>2. ASSUME NEW u \in Threads PROVE Engaged(u, m)' <=> Engaged(u, m)
    <3>1. CASE u = t
      BY <1>8, <2>1, <3>1, OneGuard DEF Engaged, Waiting
    <3>2. CASE u # t
      BY <1>7, <3>2 DEF Engaged, Waiting
    <3> QED
      BY <3>1, <3>2
  <2>3. order'[m] = order[m] /\ tail'[m] = tail[m]
    BY <1>3, <1>4, <1>11 DEF IInv, Types
  <2> QED
    BY <1>3, <1>7, <1>10, <1>11, <2>1, <2>2, <2>3, QueueFrame
<1>12. QueueOK(l)'
  <2>1. /\ Len(order'[l]) = Len(q) - 1
        /\ \A i \in 1..(Len(q) - 1) : order'[l][i] = q[i + 1]
    BY <1>2, <1>3 DEF IInv, Types
  <2>2. Queue(l)' = 1..(Len(q) - 1)
    BY <2>1 DEF Queue
  <2>3. \A i \in 1..(Len(q) - 1) : i + 1 \in 1..Len(q) /\ q[i + 1] \in Threads \ {t}
    BY <1>2 DEF QueueOK, ListsEngaged
  <2>4. ASSUME NEW u \in Threads PROVE Engaged(u, l)' <=> (Engaged(u, l) /\ u # t)
    <3>1. CASE u = t
      BY <1>8, <3>1, OneGuard DEF Engaged, Waiting
    <3>2. CASE u # t
      BY <1>7, <3>2 DEF Engaged, Waiting
    <3> QED
      BY <3>1, <3>2
  <2> HIDE DEF q
  <2>5. ListsEngaged(l)'
    <3>1. /\ \A i, j \in 1..Len(q) : q[i] = q[j] => i = j
          /\ \A i \in 1..Len(q) : Engaged(q[i], l)
          /\ \A u \in Threads : Engaged(u, l) => \E i \in 1..Len(q) : q[i] = u
      BY <1>2 DEF QueueOK, ListsEngaged, q
    <3>2. ASSUME NEW i \in 1..(Len(q) - 1), NEW j \in 1..(Len(q) - 1),
                 order'[l][i] = order'[l][j]
          PROVE  i = j
      <4>1. i + 1 = j + 1
        BY <2>1, <2>3, <3>1, <3>2
      <4> QED
        BY <1>2, <4>1
    <3>3. ASSUME NEW i \in 1..(Len(q) - 1) PROVE Engaged(order[l][i], l)'
      <4>1. PICK u \in Threads \ {t} : u = order'[l][i] /\ u = q[i + 1]
        BY <2>1, <2>3
      <4>2. Engaged(u, l)'
        BY <2>3, <2>4, <3>1, <4>1
      <4> QED
        BY <4>1, <4>2 DEF Engaged, Waiting
    <3>4. ASSUME NEW u \in Threads, Engaged(u, l)'
          PROVE  \E i \in 1..(Len(q) - 1) : order'[l][i] = u
      <4>1. PICK k \in 1..Len(q) : q[k] = u /\ k # 1
        BY <1>2, <2>4, <3>1, <3>4
      <4>2. k - 1 \in 1..(Len(q) - 1) /\ order'[l][k - 1] = u
        BY <1>2, <2>1, <4>1
      <4> QED
        BY <4>2
    <3> QED
      BY <2>2, <3>2, <3>3, <3>4 DEF ListsEngaged
  <2>6. TailIsLast(l)'
    <3>1. CASE Len(q) = 1
      BY <1>2, <1>4, <2>1, <3>1 DEF TailIsLast, IInv, Types
    <3>2. CASE Len(q) > 1
      <4>1. tail'[l] = CpuOf[q[Len(q)]]
        BY <1>2, <1>b, <1>4, <3>2 DEF QueueOK, TailIsLast, q
      <4>2. Len(q) - 1 \in 1..(Len(q) - 1) /\ order'[l][Len(q) - 1] = q[Len(q)]
        <5>1. Len(q) - 1 \in 1..(Len(q) - 1) /\ (Len(q) - 1) + 1 = Len(q)
          BY <1>b, <3>2
        <5> QED
          BY <2>1, <5>1
      <4> QED
        BY <1>b, <2>1, <3>2, <4>1, <4>2 DEF TailIsLast
    <3> QED
      BY <1>b, <3>1, <3>2
  <2>7. FirstGoes(l)'
    <3> SUFFICES ASSUME NEW i \in 1..(Len(q) - 1) PROVE FirstGoes(l)!(i)'
      BY <2>2 DEF FirstGoes
    <3>1. FirstGoes(l)!(i + 1) /\ i + 1 \in 1..Len(q) /\ i + 1 > 1
      BY <1>2, <2>3 DEF QueueOK, FirstGoes
    <3>2. order'[l][i] = q[i + 1] /\ pc'[q[i + 1]] = pc[q[i + 1]] /\ prev'[q[i + 1]] = prev[q[i + 1]]
      BY <1>7, <2>1, <2>3
    <3>3. CASE i = 1
      BY <1>2, <1>4, <1>5, <3>1, <3>2, <3>3 DEF IInv, Types, Waiting
    <3>4. CASE i > 1
      <4>1. order'[l][i - 1] = q[i] /\ (i + 1) - 1 = i
        <5>1. i - 1 \in 1..(Len(q) - 1) /\ (i - 1) + 1 = i /\ (i + 1) - 1 = i
          BY <1>2, <3>4
        <5> QED
          BY <2>1, <5>1
      <4>2. locked'[CpuOf[q[i + 1]]] = locked[CpuOf[q[i + 1]]]
        BY <1>2, <1>10, <3>1, <3>4 DEF q
      <4> QED
        BY <3>1, <3>2, <3>4, <4>1, <4>2 DEF Waiting, q
    <3> QED
      BY <1>2, <3>3, <3>4
  <2>8. Chained(l)'
    <3> SUFFICES ASSUME NEW i \in 1..(Len(q) - 1) PROVE Chained(l)!(i)'
      BY <2>2 DEF Chained
    <3>1. Chained(l)!(i + 1) /\ i + 1 \in 1..Len(q)
      BY <1>2, <2>3 DEF QueueOK, Chained
    <3>2. CASE i = Len(q) - 1
      BY <1>2, <1>3, <2>1, <3>1, <3>2 DEF q
    <3>3. CASE i < Len(q) - 1
      <4>1. /\ i + 1 \in 1..(Len(q) - 1) /\ order'[l][i] = q[i + 1]
            /\ order'[l][i + 1] = q[(i + 1) + 1]
            /\ pc'[q[(i + 1) + 1]] = pc[q[(i + 1) + 1]]
        <5>1. i + 1 \in 1..(Len(q) - 1)
          BY <1>2, <3>3
        <5> QED
          BY <1>7, <2>1, <2>3, <5>1
      <4> QED
        BY <1>2, <1>3, <2>1, <3>1, <3>3, <4>1 DEF q
    <3>4. i = Len(q) - 1 \/ i < Len(q) - 1
      BY <1>2
    <3> QED
      BY <3>2, <3>3, <3>4
  <2> QED
    BY <2>5, <2>6, <2>7, <2>8 DEF QueueOK
<1> QED
  BY <1>6, <1>9, <1>11, <1>12 DEF IInv

LEMMA StepIInv == IInv /\ OneLockPerCpu /\ OneLockPerCpu' /\ [Next]_vars => IInv'
<1> SUFFICES ASSUME IInv, OneLockPerCpu, OneLockPerCpu', [Next]_vars PROVE IInv'
  OBVIOUS
<1>1. CASE UNCHANGED vars
  BY <1>1 DEF vars, IInv, Types, Local, QueueOK, ListsEngaged, TailIsLast, FirstGoes, Chained,
              Engaged, Waiting, Queue
<1>2. ASSUME NEW t \in Threads, NEW l \in Locks,
             Call(t, l, "init") \/ Call(t, l, "try_init")
      PROVE  IInv'
  BY <1>2, CallStep
<1>3. ASSUME NEW t \in Threads, Acquiring(t) PROVE IInv'
  BY <1>3, InitNodeStep, EnqueueStep, LinkStep, SpinStep, TryFailStep DEF Acquiring
<1>4. ASSUME NEW t \in Threads, Drop(t) \/ Block(t) \/ Dispatch(t) PROVE IInv'
  BY <1>4, HolderStep
<1>5. ASSUME NEW t \in Threads, Releasing(t) PROVE IInv'
  BY <1>5, HolderStep, DequeueStep DEF Releasing
<1> QED
  BY <1>1, <1>2, <1>3, <1>4, <1>5 DEF Next

LEMMA Invariance == Spec /\ []OneLockPerCpu => []IInv
BY InitIInv, StepIInv, PTL DEF Spec

------------------------------------------------------------------------------------
(* The theorems *)

\* When a CPU's node serves one lock at a time, the pointers that lock() and unlock()
\* follow without a check, prev in lock() and next in unlock(), are never null.
THEOREM PointersAreValid == Spec /\ []OneLockPerCpu => []TypeOK
<1>1. IInv /\ OneLockPerCpu => TypeOK
  <2> SUFFICES ASSUME IInv, OneLockPerCpu, NEW t \in Threads
               PROVE  /\ pc[t] = "link" => prev[t] \in CPUs
                      /\ pc[t] = "signal" => next[CpuOf[t]] \in CPUs
    BY DEF IInv, Types, TypeOK
  <2>1. pc[t] = "signal" => next[CpuOf[t]] \in CPUs
    BY CpuAssumption DEF IInv, Types, Local
  <2>2. ASSUME pc[t] = "link" PROVE prev[t] \in CPUs
    <3>1. PICK l \in Locks : Engaged(t, l)
      BY <2>2 DEF IInv, Local, Engaged, Waiting, Entering
    <3>2. PICK k \in Queue(l) : order[l][k] = t
      BY <3>1 DEF IInv, QueueOK, ListsEngaged
    <3>3. FirstGoes(l)!(k) /\ held[t] = <<>> /\ order[l] \in Seq(Threads)
      BY <2>2 DEF IInv, Types, QueueOK, FirstGoes, OneLockPerCpu, Entering
    <3>4. k > 1 /\ k - 1 \in Queue(l)
      BY <2>2, <3>2, <3>3, OneGuard DEF Queue
    <3> QED
      BY <2>2, <3>2, <3>3, <3>4, QueuedIsBusy
  <2> QED
    BY <2>1, <2>2
<1> QED
  BY <1>1, Invariance, PTL

\* Only the first of the queue holds the lock.
LEMMA HolderIsFirst ==
  IInv /\ OneLockPerCpu =>
    \A l \in Locks : \A t \in Threads :
      Holds(t, l) <=> Len(order[l]) > 0 /\ t = order[l][1] /\ held[t] = <<l>>
<1> SUFFICES ASSUME IInv, OneLockPerCpu, NEW l \in Locks, NEW t \in Threads
             PROVE  Holds(t, l) <=> Len(order[l]) > 0 /\ t = order[l][1] /\ held[t] = <<l>>
  OBVIOUS
<1>1. Holds(t, l) <=> held[t] = <<l>>
  <2>1. CASE held[t] = <<>>
    BY <2>1, OneGuard DEF Holds
  <2>2. ASSUME NEW m \in Locks, held[t] = <<m>>
        PROVE  Holds(t, l) <=> held[t] = <<l>>
    <3>1. DOMAIN held[t] = {1} /\ held[t][1] = m
      BY <2>2
    <3> QED
      BY <2>2, <3>1, OneGuard DEF Holds
  <2> QED
    BY <2>1, <2>2 DEF IInv, Local
<1>2. ASSUME held[t] = <<l>> PROVE Len(order[l]) > 0 /\ t = order[l][1]
  <2>1. Engaged(t, l) /\ QueueOK(l) /\ order[l] \in Seq(Threads)
    BY <1>2 DEF IInv, Types, Engaged
  <2>2. PICK k \in Queue(l) : order[l][k] = t
    BY <2>1 DEF QueueOK, ListsEngaged
  <2>3. FirstGoes(l)!(k)
    BY <2>1 DEF QueueOK, FirstGoes
  <2>4. ~Waiting(t)
    BY <1>2, OneGuard DEF Waiting, OneLockPerCpu, Entering
  <2> QED
    BY <2>1, <2>2, <2>3, <2>4 DEF Queue
<1> QED
  BY <1>1, <1>2

\* Two threads never hold the same KMutex: for every number of CPUs, threads and locks,
\* as long as a CPU's node serves one lock at a time.
THEOREM LockExcludes == Spec /\ []OneLockPerCpu => []MutualExclusion
<1>1. IInv /\ OneLockPerCpu => MutualExclusion
  BY HolderIsFirst DEF MutualExclusion
<1> QED
  BY <1>1, Invariance, PTL

------------------------------------------------------------------------------------
(* Refinement of FifoLock *)

\* The holder that the abstract lock sees.
FirstHolds(l) == Len(order[l]) > 0 /\ held[order[l][1]] = <<l>>
HolderIs(l) == /\ FirstHolds(l) => HolderOf(l) = order[l][1]
               /\ ~FirstHolds(l) => HolderOf(l) = Null

LEMMA HolderMapped == IInv /\ OneLockPerCpu => \A l \in Locks : HolderIs(l)
<1> SUFFICES ASSUME IInv, OneLockPerCpu, NEW l \in Locks PROVE HolderIs(l)
  OBVIOUS
<1>1. Len(order[l]) > 0 => order[l][1] \in Threads
  BY DEF IInv, Types
<1>2. \A t \in Threads :
         Holds(t, l) <=> Len(order[l]) > 0 /\ t = order[l][1] /\ held[t] = <<l>>
  BY HolderIsFirst
<1> QED
  BY <1>1, <1>2 DEF HolderIs, FirstHolds, HolderOf

LEMMA HolderMappedNext == (IInv /\ OneLockPerCpu)' => (\A l \in Locks : HolderIs(l))'
BY HolderMapped, PTL

\* Every step of the queue lock is a step of the FIFO lock or leaves it as it is.
LEMMA StepIsFifo ==
  ASSUME IInv, OneLockPerCpu, IInv', OneLockPerCpu', [Next]_vars
  PROVE  [FL!Next]_<<order, [l \in Locks |-> HolderOf(l)]>>
<1> DEFINE holder == [l \in Locks |-> HolderOf(l)]
<1>1. \A l \in Locks : HolderIs(l) /\ holder[l] = HolderOf(l)
  BY HolderMapped
<1>2. \A l \in Locks : HolderIs(l)' /\ holder'[l] = HolderOf(l)'
  BY HolderMappedNext
<1>3. ASSUME order' = order, held' = held
      PROVE  UNCHANGED <<order, [l \in Locks |-> HolderOf(l)]>>
  BY <1>3 DEF HolderOf, Holds
<1>4. ASSUME NEW t \in Threads, SwapTail(t) \/ (TryTail(t) /\ Uncontended(t))
      PROVE  FL!Next
  <2>1. PICK l \in Locks : l = lk[t]
    BY <1>4 DEF IInv, Local, SwapTail, TryTail, Entering
  <2>2. /\ held[t] = <<>> /\ \A m \in Locks : ~Engaged(t, m)
        /\ order' = [order EXCEPT ![l] = Append(order[l], t)]
        /\ held' = [held EXCEPT ![t] = IF tail[l] = Null THEN <<l>> ELSE <<>>]
    BY <1>4, <2>1, EnqueueEffect
  <2>3. tail[l] = Null <=> Len(order[l]) = 0
    <3>1. TailIsLast(l) /\ order[l] \in Seq(Threads)
      BY DEF IInv, Types, QueueOK
    <3>2. ASSUME Len(order[l]) # 0 PROVE tail[l] # Null
      <4>1. Len(order[l]) \in Queue(l) /\ Len(order[l]) > 0
        BY <3>1, <3>2 DEF Queue
      <4> QED
        BY <3>1, <4>1, QueuedIsBusy, NullAssumption DEF TailIsLast
    <3> QED
      BY <3>1, <3>2 DEF TailIsLast
  <2>4. /\ order[l] \in Seq(Threads) /\ order'[l] = Append(order[l], t)
        /\ \A m \in Locks : m # l => order'[m] = order[m]
        /\ held'[t] = (IF tail[l] = Null THEN <<l>> ELSE <<>>)
        /\ \A u \in Threads : u # t => held'[u] = held[u]
    BY <2>2 DEF IInv, Types
  <2>5. ASSUME NEW m \in Locks, m # l PROVE holder'[m] = holder[m]
    <3>1. Len(order[m]) > 0 => order[m][1] \in Threads /\ order[m][1] # t
      <4> SUFFICES ASSUME Len(order[m]) > 0 PROVE order[m][1] \in Threads /\ order[m][1] # t
        OBVIOUS
      <4>1. 1 \in Queue(m)
        BY DEF Queue, IInv, Types
      <4> QED
        BY <2>2, <4>1, QueuedIsBusy
    <3>2. FirstHolds(m)' <=> FirstHolds(m)
      BY <2>4, <2>5, <3>1 DEF FirstHolds
    <3> QED
      BY <1>1, <1>2, <2>4, <2>5, <3>2 DEF HolderIs
  <2>6. CASE Len(order[l]) = 0
    <3>1. order[l] = <<>> /\ holder[l] = Null
      BY <1>1, <2>4, <2>6 DEF HolderIs, FirstHolds
    <3>2. order'[l] = <<t>> /\ held'[t] = <<l>>
      BY <2>3, <2>4, <2>6, <3>1
    <3>5. Len(order'[l]) > 0 /\ order'[l][1] = t
      BY <3>2
    <3>6. FirstHolds(l)'
      BY <3>2, <3>5 DEF FirstHolds
    <3>3. holder' = [holder EXCEPT ![l] = t]
      BY <1>2, <2>5, <3>5, <3>6 DEF HolderIs
    <3>4. order' = [order EXCEPT ![l] = <<t>>]
      BY <2>2, <2>4, <3>2
    <3> QED
      BY <3>1, <3>3, <3>4 DEF FL!Next, FL!AskAndAcquire
  <2>7. CASE Len(order[l]) # 0
    <3>1. Len(order[l]) > 0 /\ order'[l][1] = order[l][1] /\ Len(order'[l]) > 0
      BY <2>4, <2>7
    <3>2. order[l][1] \in Threads /\ order[l][1] # t
      <4>1. 1 \in Queue(l)
        BY <2>4, <3>1 DEF Queue
      <4> QED
        BY <2>2, <4>1, QueuedIsBusy
    <3>3. FirstHolds(l)' <=> FirstHolds(l)
      BY <2>4, <3>1, <3>2 DEF FirstHolds
    <3>4. holder'[l] = holder[l]
      BY <1>1, <1>2, <3>1, <3>3 DEF HolderIs
    <3>5. holder' = holder
      BY <2>5, <3>4
    <3> QED
      BY <2>2, <3>5 DEF FL!Next, FL!Ask
  <2> QED
    BY <2>6, <2>7
<1>5. ASSUME NEW t \in Threads, Spin(t) PROVE FL!Next
  <2>1. PICK l \in Locks : l = lk[t]
    BY <1>5 DEF IInv, Local, Spin, Entering
  <2>2. /\ held[t] = <<>> /\ 1 \in 1..Len(order[l]) /\ order[l][1] = t
        /\ held' = [held EXCEPT ![t] = <<l>>] /\ order' = order
    BY <1>5, <2>1, SpinEffect
  <2>3. /\ held'[t] = <<l>> /\ \A u \in Threads : u # t => held'[u] = held[u]
        /\ order[l] \in Seq(Threads) /\ Len(order[l]) > 0
    BY <2>2 DEF IInv, Types
  <2>4. holder[l] = Null /\ order[l] # <<>> /\ Head(order[l]) = t
    <3>1. ~FirstHolds(l)
      BY <2>2, OneGuard DEF FirstHolds
    <3>2. holder[l] = Null
      BY <1>1, <3>1 DEF HolderIs
    <3>3. order[l] # <<>>
      BY <2>3
    <3>4. Head(order[l]) = order[l][1]
      BY <2>3, <3>3
    <3> QED
      BY <2>2, <3>2, <3>3, <3>4
  <2>5. holder'[l] = t
    BY <1>2, <2>2, <2>3 DEF HolderIs, FirstHolds
  <2>6. ASSUME NEW m \in Locks, m # l PROVE holder'[m] = holder[m]
    <3>1. FirstHolds(m)' <=> FirstHolds(m)
      <4>1. Len(order[m]) > 0 => order[m][1] \in Threads
        BY DEF IInv, Types
      <4> QED
        BY <2>2, <2>3, <2>6, <4>1, OneGuard DEF FirstHolds
    <3> QED
      BY <1>1, <1>2, <2>2, <3>1 DEF HolderIs
  <2>7. holder' = [holder EXCEPT ![l] = t]
    BY <2>5, <2>6
  <2> QED
    BY <2>2, <2>4, <2>7 DEF FL!Next, FL!Acquire
<1>6. ASSUME NEW t \in Threads, ClearTail(t) \/ Signal(t) PROVE FL!Next
  <2>1. PICK l \in Locks : l = lk[t]
    BY <1>6 DEF IInv, Local, ClearTail, Signal, Leaving
  <2>2. /\ held[t] = <<l>> /\ Len(order[l]) > 0 /\ order[l][1] = t /\ pc[t] \in Leaving
        /\ held' = [held EXCEPT ![t] = <<>>]
        /\ order' = [order EXCEPT ![l] = Tail(order[l])]
    BY <1>6, <2>1, DequeueEffect
  <2>3. /\ held'[t] = <<>> /\ \A u \in Threads : u # t => held'[u] = held[u]
        /\ order[l] \in Seq(Threads) /\ order'[l] = Tail(order[l])
        /\ \A m \in Locks : m # l => order'[m] = order[m]
    BY <2>2 DEF IInv, Types
  <2>4. holder[l] = t
    BY <1>1, <2>2 DEF HolderIs, FirstHolds
  <2>5. holder'[l] = Null
    <3>1. ASSUME Len(order'[l]) > 0 PROVE held'[order'[l][1]] # <<l>>
      <4>1. 2 \in Queue(l) /\ order'[l][1] = order[l][2]
        BY <2>3, <3>1 DEF Queue
      <4>2. order[l][2] \in Threads /\ order[l][2] # t /\ Waiting(order[l][2])
        <5>1. 1 \in Queue(l)
          BY <2>2, <2>3 DEF Queue
        <5> QED
          <6>1. ListsEngaged(l) /\ FirstGoes(l)
            BY DEF IInv, QueueOK
          <6>2. order[l][1] # order[l][2]
            BY <4>1, <5>1, <6>1 DEF ListsEngaged
          <6>3. Waiting(order[l][2])
            BY <4>1, <6>1 DEF FirstGoes
          <6> QED
            BY <2>2, <4>1, <6>2, <6>3, QueuedIsBusy
      <4>3. held[order[l][2]] = <<>>
        BY <4>2 DEF OneLockPerCpu, Waiting, Entering
      <4> QED
        BY <2>3, <4>1, <4>2, <4>3, OneGuard
    <3> QED
      BY <1>2, <3>1 DEF HolderIs, FirstHolds
  <2>6. ASSUME NEW m \in Locks, m # l PROVE holder'[m] = holder[m]
    <3>1. FirstHolds(m)' <=> FirstHolds(m)
      <4>1. Len(order[m]) > 0 => order[m][1] \in Threads
        BY DEF IInv, Types
      <4> QED
        BY <2>2, <2>3, <2>6, <4>1, OneGuard DEF FirstHolds
    <3> QED
      BY <1>1, <1>2, <2>3, <2>6, <3>1 DEF HolderIs
  <2>7. holder' = [holder EXCEPT ![l] = Null]
    BY <2>5, <2>6
  <2> QED
    BY <2>2, <2>4, <2>7 DEF FL!Next, FL!Release
<1>7. CASE UNCHANGED vars
  BY <1>3, <1>7 DEF vars
<1>8. ASSUME NEW t \in Threads, NEW l \in Locks, NEW p \in {"init", "try_init"}, Call(t, l, p)
      PROVE  UNCHANGED <<order, [m \in Locks |-> HolderOf(m)]>>
  BY <1>3, <1>8 DEF Call
<1>9. ASSUME NEW t \in Threads,
             \/ InitNode(t, "init", "swap") \/ InitNode(t, "try_init", "try") \/ Link(t)
             \/ TryTail(t) /\ ~Uncontended(t)
             \/ Drop(t) \/ LoadNext(t) \/ SomeoneCame(t) \/ WaitNext(t)
             \/ Block(t) \/ Dispatch(t)
      PROVE  UNCHANGED <<order, [l \in Locks |-> HolderOf(l)]>>
  BY <1>3, <1>9 DEF InitNode, Link, TryTail, Drop, LoadNext, SomeoneCame, WaitNext, Block,
                    Dispatch
<1> QED
  BY <1>4, <1>5, <1>6, <1>7, <1>8, <1>9 DEF Next, Acquiring, Releasing

\* KMutex is a FIFO lock: on any number of CPUs, threads get a lock one at a time in the
\* order of their swap of the tail, and it is free between its holders.
THEOREM LockIsFifo == Spec /\ []OneLockPerCpu => ImplementsFifoLock
<1>1. Init => FL!Init
  BY DEF Init, FL!Init, HolderOf, Holds
<1>2. /\ IInv /\ OneLockPerCpu /\ IInv' /\ OneLockPerCpu' /\ [Next]_vars
      => [FL!Next]_<<order, [l \in Locks |-> HolderOf(l)]>>
  BY StepIsFifo
<1> QED
  BY <1>1, <1>2, Invariance, PTL DEF Spec, ImplementsFifoLock, FL!Spec

====================================================================================
