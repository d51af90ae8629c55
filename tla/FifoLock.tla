--------------------------------- MODULE FifoLock ---------------------------------
(***************************************************************************)
(* What the kernel's spin locks promise (sync/mod.rs: FIFO, safe on many   *)
(* cores): threads queue for a lock, only the first of the queue gets it,  *)
(* and only when nobody has it.                                            *)
(***************************************************************************)
EXTENDS Sequences

CONSTANTS Threads, Locks, Nobody

VARIABLES queue,  \* per lock, the threads that asked for it, its holder first
          holder  \* per lock, the thread that has it

Init == /\ queue = [l \in Locks |-> <<>>]
        /\ holder = [l \in Locks |-> Nobody]

Ask(t, l) == /\ queue' = [queue EXCEPT ![l] = Append(@, t)]
             /\ UNCHANGED holder

Acquire(t, l) == /\ queue[l] # <<>> /\ Head(queue[l]) = t /\ holder[l] = Nobody
                 /\ holder' = [holder EXCEPT ![l] = t]
                 /\ UNCHANGED queue

\* Nobody waits: asking and acquiring are one step.
AskAndAcquire(t, l) == /\ queue[l] = <<>> /\ holder[l] = Nobody
                       /\ queue' = [queue EXCEPT ![l] = <<t>>]
                       /\ holder' = [holder EXCEPT ![l] = t]

Release(t, l) == /\ holder[l] = t
                 /\ queue' = [queue EXCEPT ![l] = Tail(@)]
                 /\ holder' = [holder EXCEPT ![l] = Nobody]

Next == \E t \in Threads, l \in Locks :
            Ask(t, l) \/ Acquire(t, l) \/ AskAndAcquire(t, l) \/ Release(t, l)

Spec == Init /\ [][Next]_<<queue, holder>>
====================================================================================
