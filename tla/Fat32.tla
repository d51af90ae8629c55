----------------------------------- MODULE Fat32 -----------------------------------
(***************************************************************************)
(* Files of the FAT32 file system (rust/src/kernel/fs/fat32.rs) in the     *)
(* root directory: cluster chains, directory entries and open inodes.      *)
(*                                                                         *)
(* Lengths are counted in units of which a cluster holds ClusBytes.  One   *)
(* system call runs at a time.  The second copy of the table is written    *)
(* after the first and never read, and file contents are left out.         *)
(***************************************************************************)
EXTENDS Integers, FiniteSets

CONSTANTS Last,       \* the clusters are 2 .. Last
          ClusBytes,  \* units of a cluster
          Slots,      \* directory entries of a cluster
          Names, Fds,
          MaxEnd,     \* bound on the length of a file
          None

FAT_EOC == Last + 1
Clusters == 2..Last
RootClus == 2
FreeSlot == [name |-> None, fc |-> 0]

VARIABLES fat,   \* the table; entries 0 and 1 are reserved and read as the end of a chain
          dir,   \* the slots of the clusters of the root directory
          inode, \* the open inode of a descriptor: [fc, size, pos]
          op     \* the write in progress

vars == <<fat, dir, inode, op>>
Idle == [kind |-> "idle"]

Init ==
    /\ fat = [c \in 0..Last |-> IF c \in {0, 1, RootClus} THEN FAT_EOC ELSE 0]
    /\ dir = [c \in {RootClus} |-> [i \in 1..Slots |-> FreeSlot]]
    /\ inode = [f \in Fds |-> None]
    /\ op = Idle

------------------------------------------------------------------------------------
\* The clusters of a chain, as chain_size and free_chain walk it.
Chain(start) ==
    LET reach[k \in 0..Last] ==
          IF k = 0 THEN {start} \cap Clusters
          ELSE LET near == reach[k-1] IN near \cup ({fat[c] : c \in near} \cap Clusters)
    IN reach[Last]

\* The cluster where extend and write stop after hops steps from c.
Walk(c, hops) ==
    LET at[k \in 0..hops] ==
          IF k = 0 THEN c ELSE LET p == at[k-1] IN IF fat[p] >= FAT_EOC THEN p ELSE fat[p]
    IN at[hops]

FreeClusters == {c \in Clusters : fat[c] = 0}
Lowest(S) == CHOOSE c \in S : \A d \in S : c <= d

\* alloc_cluster: the table with the first free cluster taken.
NewCluster == Lowest(FreeClusters)
Allocated == [fat EXCEPT ![NewCluster] = FAT_EOC]

Entries == {e \in UNION {{dir[c][i] : i \in 1..Slots} : c \in DOMAIN dir} : e # FreeSlot}
Named(name) == {e \in Entries : e.name = name}

Opened(f, fc, size) == inode' = [inode EXCEPT ![f] = [fc |-> fc, size |-> size, pos |-> 0]]

\* lookup: the size is that of the chain.  sys_open without O_TRUNC.
Open(f, name) ==
    /\ op = Idle /\ inode[f] = None
    /\ \E e \in Named(name) : Opened(f, e.fc, Cardinality(Chain(e.fc)) * ClusBytes)
    /\ UNCHANGED <<fat, dir, op>>

\* truncate: sys_open with O_TRUNC frees the chain; entry and inode keep its first cluster.
OpenTrunc(f, name) ==
    /\ op = Idle /\ inode[f] = None
    /\ \E e \in Named(name) :
          /\ fat' = [c \in 0..Last |-> IF c \in Chain(e.fc) THEN 0 ELSE fat[c]]
          /\ Opened(f, e.fc, 0)
    /\ UNCHANGED <<dir, op>>

FreeSlots == {s \in (DOMAIN dir) \X (1..Slots) : dir[s[1]][s[2]] = FreeSlot}

\* create, with a free entry in the directory.
Create(f, name) ==
    /\ op = Idle /\ inode[f] = None /\ Named(name) = {}
    /\ FreeClusters # {}
    /\ fat' = Allocated
    /\ \E s \in FreeSlots : dir' = [dir EXCEPT ![s[1]][s[2]] = [name |-> name, fc |-> NewCluster]]
    /\ Opened(f, NewCluster, 0)
    /\ UNCHANGED op

\* create in a full directory: a second cluster goes to the directory, and without one
\* the cluster of the file is lost.
CreateExtends(f, name) ==
    LET more == FreeClusters \ {NewCluster}
        slots(fc) == [i \in 1..Slots |-> IF i = 1 THEN [name |-> name, fc |-> fc] ELSE FreeSlot]
        tail == Walk(RootClus, Last)
    IN /\ op = Idle /\ inode[f] = None /\ Named(name) = {}
       /\ FreeClusters # {} /\ FreeSlots = {}
       /\ IF more = {} THEN fat' = Allocated /\ UNCHANGED <<dir, inode>>
          ELSE /\ fat' = [Allocated EXCEPT ![Lowest(more)] = FAT_EOC, ![tail] = Lowest(more)]
               /\ dir' = [c \in DOMAIN dir \cup {Lowest(more)} |->
                            IF c = Lowest(more) THEN slots(NewCluster) ELSE dir[c]]
               /\ Opened(f, NewCluster, 0)
       /\ UNCHANGED op

\* remove: the entry and the chain go; open inodes are not told.
Remove(name) ==
    /\ op = Idle
    /\ \E e \in Named(name) :
          /\ dir' = [c \in DOMAIN dir |-> [i \in 1..Slots |-> IF dir[c][i] = e THEN FreeSlot ELSE dir[c][i]]]
          /\ fat' = [c \in 0..Last |-> IF c \in Chain(e.fc) THEN 0 ELSE fat[c]]
    /\ UNCHANGED <<inode, op>>

Close(f) ==
    /\ op = Idle /\ inode[f] # None
    /\ inode' = [inode EXCEPT ![f] = None]
    /\ UNCHANGED <<fat, dir, op>>

\* write_at: a write past the end extends the chain first.
Write(f, len) ==
    /\ op = Idle /\ inode[f] # None /\ inode[f].pos + len <= MaxEnd
    /\ op' = [kind |-> "extend", fd |-> f, len |-> len,
              current |-> inode[f].size, last |-> inode[f].fc]
    /\ UNCHANGED <<fat, dir, inode>>

EndNeeded == inode[op.fd].pos + op.len
Growing == EndNeeded > inode[op.fd].size /\ op.current + ClusBytes < EndNeeded

\* One iteration of the loop that extends the chain; without a free cluster it fails.
Extend ==
    /\ op.kind = "extend" /\ Growing
    /\ IF fat[op.last] < FAT_EOC
       THEN op' = [op EXCEPT !.current = @ + ClusBytes, !.last = fat[op.last]] /\ UNCHANGED fat
       ELSE IF FreeClusters = {} THEN op' = Idle /\ UNCHANGED fat
       ELSE /\ fat' = [Allocated EXCEPT ![op.last] = NewCluster]
            /\ op' = [op EXCEPT !.current = @ + ClusBytes, !.last = NewCluster]
    /\ UNCHANGED <<dir, inode>>

\* Where the data loop stops: at the end, or where the chain leads to no cluster.
Stop ==
    LET file == inode[op.fd]
        lost == {p \in file.pos..(EndNeeded - 1) : Walk(file.fc, p \div ClusBytes) \notin Clusters}
    IN IF lost = {} THEN EndNeeded ELSE Lowest(lost)

\* The data is written (to wherever the chain leads), the size and the position follow.
WriteDone ==
    /\ op.kind = "extend" /\ ~Growing
    /\ inode' = [inode EXCEPT ![op.fd].size = IF EndNeeded > @ THEN EndNeeded ELSE @,
                              ![op.fd].pos = Stop]
    /\ op' = Idle
    /\ UNCHANGED <<fat, dir>>

Next ==
    \/ \E f \in Fds, n \in Names : Open(f, n) \/ OpenTrunc(f, n) \/ Create(f, n) \/ CreateExtends(f, n)
    \/ \E f \in Fds : Close(f) \/ \E len \in 1..MaxEnd : Write(f, len)
    \/ \E n \in Names : Remove(n)
    \/ Extend \/ WriteDone

Spec == Init /\ [][Next]_vars

------------------------------------------------------------------------------------
\* Between calls an open file that is in the directory has a cluster for every unit of its
\* length: write_at extends the chain whenever the file has to grow, as its comment says.
LengthHasClusters ==
    op = Idle => \A f \in Fds, e \in Entries : inode[f] # None /\ inode[f].fc = e.fc =>
        inode[f].size <= Cardinality(Chain(e.fc)) * ClusBytes
====================================================================================
