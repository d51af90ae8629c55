----------------------------- MODULE AddressSpaceProofs -----------------------------
(***************************************************************************)
(* Proofs about address spaces, for every number of processes, pages and   *)
(* frames, through fork, execve, exit and reaping: the areas of a process  *)
(* never overlap, nothing changes the user table of another process, a     *)
(* frame is writable through one entry only, and every reference and every *)
(* frame of a table is accounted for until execve frees a frame twice that *)
(* is in use.                                                              *)
(***************************************************************************)
EXTENDS AddressSpace, SetLemmas, SequenceTheorems

------------------------------------------------------------------------------------
(* The invariant of areas and roots *)

Fields(o, F) == o = [k \in F |-> o[k]]

\* Memory is a record whose tables are given for every space.
MemShape(m) ==
    /\ Fields(m, {"free", "ref", "lost", "roots", "tab", "pte"})
    /\ m.tab = [r \in Spaces |-> m.tab[r]] /\ m.pte = [r \in Spaces |-> m.pte[r]]
    /\ m.roots \subseteq UserSpaces

\* What a handler remembers.
OpShape(o) ==
    \/ o = User \/ o = Dead
    \/ o.kind \in {"mmap", "undo"} /\ Fields(o, {"kind", "addr", "at", "end", "frame"})
    \/ /\ o.kind = "unmap" /\ Fields(o, {"kind", "at", "end", "brk"})
       /\ o.brk \in Pages \cup {0}
    \/ /\ o.kind = "fork" /\ Fields(o, {"kind", "root", "todo", "child"})
       /\ o.child \in Procs
    \/ o.kind = "exec" /\ Fields(o, {"kind", "root", "next", "frame", "old", "inStack"})
    \/ o.kind = "refree" /\ Fields(o, {"kind", "pte", "alone"})
    \/ o.kind = "cow" /\ Fields(o, {"kind", "page", "frame"})
    \/ o.kind = "demand" /\ Fields(o, {"kind", "page", "frame", "prot"})

\* The roots a process may load or hand to its handler.
OpRoots(o) == IF o.kind = "fork" THEN {o.root} ELSE IF o.kind = "exec" THEN {o.root, o.old} ELSE {}
Mine(p) == ({pgd[p]} \cup OpRoots(op[p]) \cup (IF p = cur THEN {ttbr0} ELSE {})) \ {None}

\* No root is known to two processes.
SpacesOK ==
    /\ MemShape(mem) /\ op = [p \in Procs |-> op[p]] /\ \A p \in Procs : OpShape(op[p])
    /\ pgd \in [Procs -> mem.roots \cup {None}]
    /\ cur \in Procs /\ pgd[cur] # None
    /\ \A p \in Procs : Mine(p) \subseteq mem.roots
    /\ \A p, q \in Procs : p # q => Mine(p) \cap Mine(q) = {}
    /\ \A p \in Procs : op[p].kind \in {"fork", "exec"} => op[p].root # None /\ op[p].root # pgd[p]
    /\ \A p \in Procs : op[p].kind = "exec" /\ op[p].frame # None => op[p].old # None
    /\ op[cur].kind = "fork" => op[cur].root # ttbr0
    /\ \A p \in Procs : pgd[p] = None => op[p] = User
    /\ \A p \in Procs : op[p].kind = "fork" => pgd[op[p].child] = None
    /\ \A p, q \in Procs : op[p].kind = "fork" /\ op[q].kind = "fork" /\ op[p].child = op[q].child => p = q

\* While a process runs, TTBR0 holds a root.
RootsOK == SpacesOK /\ ttbr0 # None

\* An area lies in the user half, or the heap below a page of it, or the kernel's half.
AreaOK(a) ==
    /\ a # None /\ a.start \in Nat /\ a.end \in Nat /\ a.start < a.end
    /\ \/ a.end \in Pages \/ a.end - 1 \in Pages
       \/ a.start \in KPages /\ a.end - 1 \in KPages

AreasOK ==
    /\ vmas = [p \in Procs |-> vmas[p]] /\ brk \in [Procs -> Pages \cup {0}]
    /\ \A p \in Procs : IsFiniteSet(vmas[p]) /\ \A a \in vmas[p] : AreaOK(a)
    /\ AreasDisjoint

RInv == RootsOK /\ AreasOK

\* Exit clears TTBR0 until the next process is picked.
SInv == SpacesOK /\ AreasOK /\ (ttbr0 # None \/ op[cur] = Dead)

------------------------------------------------------------------------------------
(* The invariant of memory *)

MemType(m) ==
    m \in [free : Nat, ref : [Frames -> Nat], lost : [Frames -> Nat], roots : SUBSET UserSpaces,
           tab : [Spaces -> SUBSET Tables], pte : [Spaces -> [AllPages -> Cells \cup {None}]]]

\* The entries of f, the frames that are not free and the tables.
Maps(m, f) == {x \in Spaces \X AllPages : m.pte[x[1]][x[2]] # None /\ m.pte[x[1]][x[2]].frame = f}
Used(m) == {f \in Frames : m.ref[f] > 0}
Tabled(m) == {x \in Spaces \X Tables : x[2] \in m.tab[x[1]]}

\* H are the frames that handlers hold, each one of them once.
Balanced(m, H) ==
    \A f \in Frames : m.ref[f] = Cardinality(Maps(m, f)) + (IF f \in H THEN 1 ELSE 0) + m.lost[f]
HeldUnmapped(m, H) == \A f \in H : Maps(m, f) = {}
Counted(m) == m.free = Memory - Cardinality(Used(m)) - Cardinality(m.roots) - Cardinality(Tabled(m))
Rooted(m) ==
    /\ \A r \in Spaces : \A v \in AllPages : m.pte[r][v] # None => Table[v] \in m.tab[r]
    /\ \A r \in UserSpaces \ m.roots : m.tab[r] = {} /\ m.pte[r] = NoPages
Writable(m, f) == {x \in Maps(m, f) : m.pte[x[1]][x[2]].prot = "rw"}
WritableOnce(m) == \A f \in Frames : \A x, y \in Writable(m, f) : x = y

MemOK(m, H) ==
    /\ MemType(m) /\ H \subseteq Frames
    /\ Balanced(m, H) /\ HeldUnmapped(m, H) /\ Counted(m) /\ Rooted(m) /\ WritableOnce(m)

Held == {f \in Frames : \E p \in Procs : "frame" \in DOMAIN op[p] /\ op[p].frame = f}

\* The locals of a handler fit the memory.
OpFits(o, m) ==
    /\ "frame" \in DOMAIN o => o.frame \in Frames \cup {None}
    /\ o.kind \in {"mmap", "undo"} =>
          /\ o.addr \in Nat /\ o.at \in Nat /\ o.end \in Nat
          /\ o.addr <= o.at /\ o.at <= o.end
          /\ o.addr..(o.end - 1) \subseteq AllPages
          /\ o.frame # None => o.kind = "mmap" /\ o.at < o.end
    /\ o.kind = "unmap" => o.at \in Nat /\ o.end \in Nat /\ o.at..(o.end - 1) \subseteq AllPages
    /\ o.kind = "fork" => o.todo \subseteq UserTables \ m.tab[o.root]
    /\ o.kind = "exec" => /\ o.next \in 1..(Len(Image) + 1)
                          /\ o.frame # None => o.next <= Len(Image)
    /\ o.kind \in {"cow", "demand"} => o.page \in AllPages /\ o.frame # None
    /\ o.kind = "demand" => o.prot \in Prots
OpOK(p) == OpFits(op[p], mem)

HeldOnce ==
    \A p, q \in Procs :
        ("frame" \in DOMAIN op[p] /\ "frame" \in DOMAIN op[q]
            /\ op[p].frame = op[q].frame /\ op[p].frame # None) => p = q

MInv == MemOK(mem, Held) /\ HeldOnce /\ \A p \in Procs : OpOK(p)

\* What is left of it when execve has freed a frame in use.
LeftInv == MemType(mem) /\ Counted(mem) /\ WritableOnce(mem)

------------------------------------------------------------------------------------
(* Areas *)

\* A finite set of areas has a latest one.
LEMMA LatestIs ==
  ASSUME NEW A, IsFiniteSet(A), A # {}, \A a \in A : a.start \in Nat
  PROVE  Latest(A) \in A /\ \A b \in A : b.start <= Latest(A).start
<1> DEFINE S == {a.start : a \in A}
<1>1. S \in SUBSET Int /\ S # {}
  OBVIOUS
<1>2. IsFiniteSet(S)
  <2>1. [a \in A |-> a.start] \in Surjection(A, S)
    BY DEF Surjection
  <2> QED
    BY <2>1, FS_Surjection, Zenon
<1>3. PICK m \in S : \A n \in S : n <= m
  BY <1>1, <1>2, FiniteHasMax
<1>4. \E a \in A : \A b \in A : b.start <= a.start
  BY <1>3
<1> QED
  BY <1>4 DEF Latest

\* The last area that starts below a limit.
LEMMA LastBelowIs ==
  ASSUME AreasOK, NEW p \in Procs, NEW start \in Nat, NEW lim \in Nat
  PROVE  /\ LastBelow(p, start, lim) # None =>
              /\ LastBelow(p, start, lim) \in vmas[p]
              /\ LastBelow(p, start, lim).start < lim /\ LastBelow(p, start, lim).end > start
         /\ LastBelow(p, start, lim) = None =>
              \A a \in vmas[p] : a.end <= start \/ lim <= a.start
<1> DEFINE B == Before(p, lim)
           l == Latest(B)
<1>1. /\ B \subseteq vmas[p] /\ IsFiniteSet(B) /\ \A a \in B : AreaOK(a) /\ a.start < lim
      /\ \A a \in vmas[p] : a \notin B => ~(a.start < lim)
  <2>1. B \subseteq vmas[p] /\ IsFiniteSet(vmas[p]) /\ \A a \in vmas[p] : AreaOK(a)
    BY DEF AreasOK, Before
  <2> QED
    BY <2>1, FS_Subset DEF Before
<1>2. ASSUME B # {} PROVE l \in B /\ \A b \in B : b.start <= l.start
  BY <1>1, <1>2, LatestIs DEF AreaOK
<1> HIDE DEF B
<1>4. LastBelow(p, start, lim) = IF B # {} /\ l.end > start THEN l ELSE None
  BY DEF LastBelow, B
<1> HIDE DEF l
<1>5. CASE B # {} /\ l.end > start
  BY <1>1, <1>2, <1>4, <1>5 DEF AreaOK
<1>6. CASE ~(B # {} /\ l.end > start)
  <2>1. ASSUME NEW a \in vmas[p] PROVE a.end <= start \/ lim <= a.start
    <3>1. AreaOK(a)
      BY DEF AreasOK
    <3>2. CASE a \notin B
      BY <1>1, <3>1, <3>2 DEF AreaOK
    <3>3. CASE a \in B
      <4>1. l \in B /\ a.start <= l.start /\ AreaOK(l) /\ l \in vmas[p] /\ l.end <= start
        BY <1>1, <1>2, <1>6, <3>3 DEF AreaOK
      <4>2. a = l \/ a.end <= l.start \/ l.end <= a.start
        BY <4>1 DEF AreasOK, AreasDisjoint
      <4> QED
        BY <3>1, <4>1, <4>2 DEF AreaOK
    <3> QED
      BY <3>2, <3>3
  <2> QED
    BY <1>4, <1>6, <2>1
<1> QED
  BY <1>5, <1>6

\* vma_find returns an area that holds the page.
LEMMA FindIs ==
  ASSUME AreasOK, NEW p \in Procs, NEW v \in AllPages, Find(p, v) # None
  PROVE  /\ Find(p, v) \in vmas[p] /\ Find(p, v).start <= v /\ v < Find(p, v).end
         /\ AreaOK(Find(p, v))
<1>1. v \in Nat /\ v + 1 \in Nat
  BY PageAssumption
<1>2. /\ Find(p, v) \in vmas[p] /\ Find(p, v).start < v + 1 /\ Find(p, v).end > v
  BY <1>1, LastBelowIs DEF Find
<1>3. AreaOK(Find(p, v))
  BY <1>2 DEF AreasOK
<1> QED
  BY <1>1, <1>2, <1>3 DEF AreaOK

\* A new area that passes the check of do_mmap and do_brk.
LEMMA AddArea ==
  ASSUME AreasOK, NEW p \in Procs, NEW n, AreaOK(n), ~Overlaps(p, n.start, n.end),
         vmas' = [vmas EXCEPT ![p] = @ \cup {n}], brk' \in [Procs -> Pages \cup {0}]
  PROVE  AreasOK'
<1>1. n.start \in Nat /\ n.end \in Nat
  BY DEF AreaOK
<1>2. \A a \in vmas[p] : a.end <= n.start \/ n.end <= a.start
  BY <1>1, LastBelowIs DEF Overlaps
<1>3. vmas' = [q \in Procs |-> IF q = p THEN vmas[p] \cup {n} ELSE vmas[q]]
  BY DEF AreasOK
<1>4. IsFiniteSet(vmas[p] \cup {n})
  BY FS_AddElement DEF AreasOK
<1>5. \A q \in Procs : IsFiniteSet(vmas'[q]) /\ \A a \in vmas'[q] : AreaOK(a)
  BY <1>3, <1>4 DEF AreasOK
<1>6. AreasDisjoint'
  BY <1>2, <1>3 DEF AreasOK, AreasDisjoint
<1>7. vmas' = [q \in Procs |-> vmas'[q]]
  BY <1>3
<1> QED
  BY <1>5, <1>6, <1>7 DEF AreasOK, AreaOK

\* Fewer areas, or those of another process.
LEMMA LessAreas ==
  ASSUME AreasOK, NEW p \in Procs, NEW q \in Procs, NEW S, S \subseteq vmas[q],
         vmas' = [vmas EXCEPT ![p] = S], brk' \in [Procs -> Pages \cup {0}]
  PROVE  AreasOK'
<1>1. vmas' = [t \in Procs |-> IF t = p THEN S ELSE vmas[t]]
  BY DEF AreasOK
<1>2. IsFiniteSet(S)
  BY FS_Subset DEF AreasOK
<1>3. \A t \in Procs : IsFiniteSet(vmas'[t]) /\ \A a \in vmas'[t] : AreaOK(a)
  BY <1>1, <1>2 DEF AreasOK
<1>4. AreasDisjoint'
  BY <1>1 DEF AreasOK, AreasDisjoint
<1>5. vmas' = [t \in Procs |-> vmas'[t]]
  BY <1>1
<1> QED
  BY <1>3, <1>4, <1>5 DEF AreasOK, AreaOK

------------------------------------------------------------------------------------
(* Roots *)

\* From m to n only counts change, or the tables of r as well.
OnlyCounts(m, n) == MemShape(n) /\ n.roots = m.roots /\ n.pte = m.pte /\ n.tab = m.tab
OnlyTree(m, n, r) ==
    /\ MemShape(n) /\ n.roots = m.roots
    /\ \A s \in Spaces \ {r} : n.pte[s] = m.pte[s] /\ n.tab[s] = m.tab[s]

\* Taking a frame changes no table of a space.
LEMMA TakeOnly ==
  ASSUME NEW m, MemShape(m), NEW f
  PROVE  OnlyCounts(m, Take(m, f))
BY DEF MemShape, Fields, OnlyCounts, Take

\* Giving frames back changes no table of a space.
LEMMA PutOnly ==
  ASSUME NEW m, MemShape(m)
  PROVE  /\ \A k : OnlyCounts(m, PutPages(m, k))
         /\ \A f : OnlyCounts(m, PutPage(m, f))
BY DEF MemShape, Fields, OnlyCounts, PutPages, PutPage

\* arm64_map_one_page writes below its own root only.
LEMMA MapOnly ==
  ASSUME NEW m, MemShape(m), NEW r \in Spaces, NEW v, NEW f, NEW prot
  PROVE  OnlyTree(m, MapPage(m, r, v, f, prot), r)
BY DEF MemShape, Fields, OnlyTree, MapPage, Lose

\* Unmapping and putting a page writes below its own root only.
LEMMA DropOnly ==
  ASSUME NEW m, MemShape(m), NEW r \in Spaces, NEW v
  PROVE  OnlyTree(m, DropPage(m, r, v), r)
<1>1. OnlyTree(m, UnmapPage(m, r, v), r)
  BY DEF MemShape, Fields, OnlyTree, UnmapPage
<1> DEFINE n == UnmapPage(m, r, v)
<1> HIDE DEF n
<1>2. OnlyCounts(n, PutPage(n, m.pte[r][v].frame))
  BY <1>1, PutOnly DEF OnlyTree, n
<1> QED
  BY <1>1, <1>2 DEF DropPage, OnlyTree, OnlyCounts, n

\* fork's copy writes below the child's root only.
LEMMA CopyOnly ==
  ASSUME NEW m, MemShape(m), NEW src, NEW dst \in Spaces, NEW t
  PROVE  OnlyTree(m, CopyTable(m, src, dst, t), dst)
BY DEF MemShape, Fields, OnlyTree, CopyTable

\* free_page_table_tree empties the space it is given and no other.
LEMMA FreeTreeOnly ==
  ASSUME NEW m, MemShape(m), NEW r \in Spaces
  PROVE  /\ MemShape(FreeTree(m, r)) /\ FreeTree(m, r).roots = m.roots \ {r}
         /\ \A s \in Spaces \ {r} : /\ FreeTree(m, r).pte[s] = m.pte[s]
                                    /\ FreeTree(m, r).tab[s] = m.tab[s]
<1> DEFINE n == PutPages(m, Uses(m.pte[r], AllPages))
<1>1. OnlyCounts(m, n)
  BY PutOnly
<1> HIDE DEF n
<1>2. FreeTree(m, r) = [n EXCEPT !.free = @ + Cardinality(m.tab[r]) + 1, !.roots = @ \ {r},
                                 !.tab[r] = {}, !.pte[r] = NoPages]
  BY DEF FreeTree, n
<1> DEFINE l == FreeTree(m, r)
           F == {"free", "ref", "lost", "roots", "tab", "pte"}
<1>3. /\ Fields(l, F) /\ l.roots = n.roots \ {r}
      /\ l.tab = [n.tab EXCEPT ![r] = {}] /\ l.pte = [n.pte EXCEPT ![r] = NoPages]
  BY <1>1, <1>2 DEF OnlyCounts, MemShape, Fields
<1> HIDE DEF l
<1>4. n.tab = [s \in Spaces |-> n.tab[s]] /\ n.pte = [s \in Spaces |-> n.pte[s]]
  BY <1>1 DEF OnlyCounts, MemShape
<1>5. /\ l.tab = [s \in Spaces |-> IF s = r THEN {} ELSE n.tab[s]]
      /\ l.pte = [s \in Spaces |-> IF s = r THEN NoPages ELSE n.pte[s]]
  BY <1>3, <1>4
<1>6. MemShape(l)
  <2>1. l.roots \subseteq UserSpaces
    BY <1>1, <1>3 DEF OnlyCounts, MemShape
  <2>2. l.tab = [s \in Spaces |-> l.tab[s]] /\ l.pte = [s \in Spaces |-> l.pte[s]]
    BY <1>5
  <2> QED
    BY <1>3, <2>1, <2>2 DEF MemShape
<1> QED
  BY <1>1, <1>3, <1>5, <1>6 DEF OnlyCounts, l

\* create_user_pgd returns a root nobody has.
LEMMA NewRootIs ==
  ASSUME NEW m, MemShape(m), UserSpaces \ m.roots # {}
  PROVE  /\ NewRoot(m) \in UserSpaces \ m.roots
         /\ MemShape(TakeRoot(m, NewRoot(m)))
         /\ TakeRoot(m, NewRoot(m)).roots = m.roots \cup {NewRoot(m)}
         /\ TakeRoot(m, NewRoot(m)).pte = m.pte /\ TakeRoot(m, NewRoot(m)).tab = m.tab
<1>1. NewRoot(m) \in UserSpaces \ m.roots
  <2>1. \E r \in Spaces \ {KernelRoot} : r \notin m.roots
    BY NameAssumption DEF Spaces
  <2> QED
    BY <2>1 DEF NewRoot, Spaces
<1> DEFINE r == NewRoot(m)
<1> HIDE DEF r
<1>2. TakeRoot(m, r) = [m EXCEPT !.roots = @ \cup {r}, !.free = @ - 1] /\ r \in UserSpaces
  BY <1>1 DEF TakeRoot, r
<1> DEFINE n == TakeRoot(m, r)
           F == {"free", "ref", "lost", "roots", "tab", "pte"}
<1>3. /\ Fields(n, F) /\ n.roots = m.roots \cup {r} /\ n.pte = m.pte /\ n.tab = m.tab
  BY <1>2 DEF MemShape, Fields
<1>4. MemShape(n)
  <2>1. m.roots \cup {r} \subseteq UserSpaces
    BY <1>2 DEF MemShape
  <2> HIDE DEF n
  <2>2. n.tab = [s \in Spaces |-> n.tab[s]] /\ n.pte = [s \in Spaces |-> n.pte[s]]
    BY <1>3 DEF MemShape
  <2> QED
    BY <1>3, <2>1, <2>2 DEF MemShape
<1> QED
  BY <1>1, <1>3, <1>4 DEF r

\* A step of the running process that gives its roots to nobody, with new roots N.
LEMMA OwnStep ==
  ASSUME RootsOK, MemShape(mem'), cur' = cur, pgd' = pgd,
         NEW o, OpShape(o), op' = [op EXCEPT ![cur] = o],
         NEW N, N \cap mem.roots = {}, mem'.roots = mem.roots \cup N,
         ttbr0' \in Mine(cur), OpRoots(o) \subseteq Mine(cur) \cup N \cup {None},
         o.kind \in {"fork", "exec"} => o.root # None /\ o.root # pgd[cur],
         o.kind = "exec" /\ o.frame # None => o.old # None,
         o.kind = "fork" => /\ pgd[o.child] = None /\ o.root # ttbr0'
                            /\ \A q \in Procs \ {cur} : op[q].kind = "fork" => op[q].child # o.child
  PROVE  RootsOK'
<1>1. op' = [q \in Procs |-> IF q = cur THEN o ELSE op[q]]
  BY DEF RootsOK, SpacesOK
<1>2. cur \in Procs /\ pgd[cur] # None
  BY DEF RootsOK, SpacesOK
<1>3. Mine(cur)' \subseteq Mine(cur) \cup N
  BY <1>1, <1>2 DEF Mine
<1>4. \A q \in Procs \ {cur} : Mine(q)' = Mine(q) /\ op'[q] = op[q]
  BY <1>1 DEF Mine
<1>5. \A p \in Procs : Mine(p) \subseteq mem.roots
  BY DEF RootsOK, SpacesOK
<1>6. \A p \in Procs : Mine(p)' \subseteq mem'.roots
  BY <1>3, <1>4, <1>5
<1>7. \A p, q \in Procs : p # q => Mine(p) \cap Mine(q) = {}
  BY DEF RootsOK, SpacesOK
<1>8. \A p, q \in Procs : p # q => Mine(p)' \cap Mine(q)' = {}
  BY <1>2, <1>3, <1>4, <1>5, <1>7
<1>9. op' = [p \in Procs |-> op'[p]] /\ \A p \in Procs : OpShape(op'[p])
  BY <1>1 DEF RootsOK, SpacesOK
<1>10. pgd' \in [Procs -> mem'.roots \cup {None}]
  BY DEF RootsOK, SpacesOK
<1>11. ttbr0' # None
  BY DEF Mine
<1>12. \A p \in Procs : op'[p].kind \in {"fork", "exec"} => op'[p].root # None /\ op'[p].root # pgd'[p]
  BY <1>1, <1>2 DEF RootsOK, SpacesOK
<1>13. \A p \in Procs : op'[p].kind = "exec" /\ op'[p].frame # None => op'[p].old # None
  BY <1>1, <1>2 DEF RootsOK, SpacesOK
<1>14. \A p \in Procs : pgd'[p] = None => op'[p] = User
  BY <1>1, <1>2 DEF RootsOK, SpacesOK
<1>15. \A p \in Procs : op'[p].kind = "fork" => pgd'[op'[p].child] = None
  BY <1>1, <1>2 DEF RootsOK, SpacesOK
<1>16. \A p, q \in Procs : op'[p].kind = "fork" /\ op'[q].kind = "fork" /\ op'[p].child = op'[q].child => p = q
  BY <1>1, <1>2 DEF RootsOK, SpacesOK
<1>17. op'[cur'].kind = "fork" => op'[cur'].root # ttbr0'
  BY <1>1, <1>2
<1> QED
  BY <1>2, <1>6, <1>8, <1>9, <1>10, <1>11, <1>12, <1>13, <1>14, <1>15, <1>16, <1>17
  DEF RootsOK, SpacesOK, OpShape, Fields, MemShape

\* A step changes the tables of one root, of the running process or the kernel's.
TouchesOwn ==
    \E r \in Mine(cur) \cup {KernelRoot} :
        \A s \in Spaces \ {r} : mem'.pte[s] = mem.pte[s] /\ mem'.tab[s] = mem.tab[s]

\* A page is looked up below a root of the running process or below that of the kernel.
LEMMA OwnRoots ==
  ASSUME RootsOK
  PROVE  /\ ttbr0 \in Mine(cur) /\ pgd[cur] \in Mine(cur)
         /\ Mine(cur) \subseteq mem.roots /\ mem.roots \subseteq UserSpaces /\ UserSpaces \subseteq Spaces
         /\ \A v : Root(v) \in Mine(cur) \cup {KernelRoot} /\ Root(v) \in Spaces
<1>1. ttbr0 \in Mine(cur) /\ pgd[cur] \in Mine(cur)
  BY DEF RootsOK, SpacesOK, Mine
<1>2. Mine(cur) \subseteq mem.roots /\ mem.roots \subseteq UserSpaces /\ UserSpaces \subseteq Spaces
  BY DEF RootsOK, SpacesOK, MemShape, Spaces
<1> QED
  BY <1>1, <1>2 DEF Root, Spaces

\* A step of the running process that keeps its roots.
LEMMA PlainStep ==
  ASSUME RootsOK, NEW o, OpShape(o), op' = [op EXCEPT ![cur] = o], o.kind \notin {"fork", "exec"},
         UNCHANGED <<pgd, cur, ttbr0>>,
         \/ mem' = mem \/ OnlyCounts(mem, mem')
         \/ \E r \in Mine(cur) \cup {KernelRoot} : OnlyTree(mem, mem', r)
  PROVE  RootsOK' /\ TouchesOwn
<1>1. MemShape(mem') /\ mem'.roots = mem.roots
  BY DEF RootsOK, SpacesOK, OnlyCounts, OnlyTree
<1>2. RootsOK'
  <2>1. OpRoots(o) = {}
    BY DEF OpRoots
  <2>2. ttbr0' \in Mine(cur)
    BY OwnRoots
  <2>3. {} \cap mem.roots = {} /\ mem'.roots = mem.roots \cup {}
    BY <1>1
  <2> QED
    BY <1>1, <2>1, <2>2, <2>3, OwnStep
<1>3. TouchesOwn
  BY DEF TouchesOwn, OnlyCounts, OnlyTree
<1> QED
  BY <1>2, <1>3

\* The shapes of what a handler starts with.
LEMMA NewOps ==
  /\ OpShape(User) /\ User.kind = "user" /\ OpShape(Dead) /\ Dead.kind = "dead"
  /\ \A a, b, c, d : LET o == [kind |-> "mmap", addr |-> a, at |-> b, end |-> c, frame |-> d]
                     IN OpShape(o) /\ o.kind = "mmap"
  /\ \A a, b : \A c \in Pages \cup {0} :
        LET o == [kind |-> "unmap", at |-> a, end |-> b, brk |-> c]
        IN OpShape(o) /\ o.kind = "unmap"
  /\ \A a, b : \A c \in Procs : LET o == [kind |-> "fork", root |-> a, todo |-> b, child |-> c]
                                IN OpShape(o) /\ o.kind = "fork"
  /\ \A a, b, c, d, e :
        LET o == [kind |-> "exec", root |-> a, next |-> b, frame |-> c, old |-> d, inStack |-> e]
        IN OpShape(o) /\ o.kind = "exec"
  /\ \A a, b : LET o == [kind |-> "refree", pte |-> a, alone |-> b] IN OpShape(o) /\ o.kind = "refree"
  /\ \A a, b : LET o == [kind |-> "cow", page |-> a, frame |-> b] IN OpShape(o) /\ o.kind = "cow"
  /\ \A a, b, c : LET o == [kind |-> "demand", page |-> a, frame |-> b, prot |-> c]
                  IN OpShape(o) /\ o.kind = "demand"
<1>1. OpShape(User) /\ User.kind = "user" /\ OpShape(Dead) /\ Dead.kind = "dead"
  BY DEF OpShape, User, Dead
<1>2. \A a, b, c, d : LET o == [kind |-> "mmap", addr |-> a, at |-> b, end |-> c, frame |-> d]
                      IN OpShape(o) /\ o.kind = "mmap"
  BY DEF OpShape, Fields
<1>3. \A a, b : \A c \in Pages \cup {0} :
         LET o == [kind |-> "unmap", at |-> a, end |-> b, brk |-> c]
         IN OpShape(o) /\ o.kind = "unmap"
  BY DEF OpShape, Fields
<1>4. \A a, b : \A c \in Procs : LET o == [kind |-> "fork", root |-> a, todo |-> b, child |-> c]
                                 IN OpShape(o) /\ o.kind = "fork"
  BY DEF OpShape, Fields
<1>5. \A a, b, c, d, e :
         LET o == [kind |-> "exec", root |-> a, next |-> b, frame |-> c, old |-> d, inStack |-> e]
         IN OpShape(o) /\ o.kind = "exec"
  BY DEF OpShape, Fields
<1>6. \A a, b : LET o == [kind |-> "refree", pte |-> a, alone |-> b] IN OpShape(o) /\ o.kind = "refree"
  BY DEF OpShape, Fields
<1>7. \A a, b : LET o == [kind |-> "cow", page |-> a, frame |-> b] IN OpShape(o) /\ o.kind = "cow"
  BY DEF OpShape, Fields
<1>8. \A a, b, c : LET o == [kind |-> "demand", page |-> a, frame |-> b, prot |-> c]
                   IN OpShape(o) /\ o.kind = "demand"
  BY DEF OpShape, Fields
<1> QED
  BY <1>1, <1>2, <1>3, <1>4, <1>5, <1>6, <1>7, <1>8

\* The fields of each handler.
LEMMA KeptOps ==
  ASSUME NEW o, OpShape(o)
  PROVE  /\ o.kind \in {"mmap", "undo"} => Fields(o, {"kind", "addr", "at", "end", "frame"})
         /\ o.kind = "unmap" => Fields(o, {"kind", "at", "end", "brk"}) /\ o.brk \in Pages \cup {0}
         /\ o.kind = "fork" => Fields(o, {"kind", "root", "todo", "child"}) /\ o.child \in Procs
         /\ o.kind = "exec" => Fields(o, {"kind", "root", "next", "frame", "old", "inStack"})
         /\ o.kind = "refree" => Fields(o, {"kind", "pte", "alone"})
         /\ o.kind = "cow" => Fields(o, {"kind", "page", "frame"})
         /\ o.kind = "demand" => Fields(o, {"kind", "page", "frame", "prot"})
         /\ o.kind \in Kinds /\ (o.kind = "user" => o = User)
BY DEF OpShape, Kinds, User, Dead

\* do_mmap, its loop and its roll-back.
LEMMA MmapKeeps ==
  ASSUME RInv, NEW p \in Procs,
         \/ \E hint \in Hints, len \in 1..MaxLen, flags \in AreaFlags : Mmap(p, hint, len, flags)
         \/ MmapAlloc(p) \/ MmapPage(p) \/ MmapDone(p) \/ Undo(p) \/ UndoDone(p)
  PROVE  RInv' /\ TouchesOwn
<1> DEFINE F == {"kind", "addr", "at", "end", "frame"}
<1>0. /\ RootsOK /\ AreasOK /\ MemShape(mem) /\ OpShape(op[p])
      /\ brk \in [Procs -> Pages \cup {0}]
  BY DEF RInv, RootsOK, SpacesOK, AreasOK
<1>1. ASSUME NEW hint \in Hints, NEW len \in 1..MaxLen, NEW flags \in AreaFlags, Mmap(p, hint, len, flags)
      PROVE  RInv' /\ TouchesOwn
  <2> DEFINE addr == IF hint = 0 THEN FindFreeArea(p, len) ELSE hint
             n == [start |-> addr, end |-> addr + len, flags |-> flags]
  <2>1. /\ cur = p /\ ~Overlaps(p, addr, addr + len)
        /\ vmas' = [vmas EXCEPT ![p] = @ \cup {n}]
        /\ op' = [op EXCEPT ![p] = [kind |-> "mmap", addr |-> addr, at |-> addr,
                                    end |-> addr + len, frame |-> None]]
        /\ UNCHANGED <<mem, pgd, brk, cur, ttbr0>>
        /\ hint = 0 => Gaps(p, len) # {}
        /\ hint # 0 => hint + len - 1 \in Pages
    BY <1>1 DEF Mmap, Idle, Running, Become
  <2>2. RootsOK' /\ TouchesOwn
    BY <1>0, <2>1, NewOps, PlainStep
  <2>3. hint = 0 => addr \in Gaps(p, len)
    <3>1. Gaps(p, len) \in SUBSET Nat
      BY PageAssumption DEF Gaps, AllPages
    <3>2. Gaps(p, len) # {} => Min(Gaps(p, len)) \in Gaps(p, len)
      BY <3>1, NatHasMin DEF Min
    <3> QED
      BY <2>1, <3>2 DEF FindFreeArea
  <2>4. /\ addr \in Nat /\ addr + len \in Nat /\ addr < addr + len
        /\ (addr + len) - 1 \in Pages \/ (addr \in KPages /\ (addr + len) - 1 \in KPages)
    <3>1. len \in Nat /\ len > 0
      BY AreaAssumption
    <3>2. hint # 0 => hint \in Nat
      BY AreaAssumption, PageAssumption DEF AllPages
    <3>3. \A a \in Gaps(p, len) : a \in Nat /\ a \in KPages /\ a + len - 1 \in KPages
      BY PageAssumption DEF Gaps, AllPages
    <3> QED
      BY <2>1, <2>3, <3>1, <3>2, <3>3
  <2> HIDE DEF addr
  <2>5. AreaOK(n)
    <3>1. n \in [start : Nat, end : Nat, flags : AreaFlags \cup {{"r", "w"}}]
      BY <2>4
    <3>2. n # None
      BY <3>1, AreaAssumption
    <3> QED
      BY <2>4, <3>2 DEF AreaOK
  <2>6. AreasOK'
    BY <1>0, <2>1, <2>5, AddArea
  <2> QED
    BY <2>2, <2>6 DEF RInv
<1>2. CASE MmapAlloc(p)
  <2>1. /\ cur = p /\ op[p].kind = "mmap" /\ UNCHANGED <<pgd, vmas, brk, cur, ttbr0>>
    BY <1>2 DEF MmapAlloc, Doing, Running
  <2>2. PICK o : op' = [op EXCEPT ![p] = o] /\ OpShape(o) /\ o.kind \in {"mmap", "undo"}
    <3>1. Fields(op[p], F)
      BY <1>0, <2>1, KeptOps
    <3>2. \A x : LET o == Advance(p, "frame", x) IN Fields(o, F) /\ o.kind = "mmap"
      BY <2>1, <3>1 DEF Fields, Advance
    <3>3. LET o == Advance(p, "kind", "undo") IN Fields(o, F) /\ o.kind = "undo"
      BY <2>1, <3>1 DEF Fields, Advance
    <3> QED
      BY <1>2, <3>2, <3>3 DEF MmapAlloc, OpShape, Become
  <2>3. mem' = mem \/ OnlyCounts(mem, mem')
    BY <1>0, <1>2, TakeOnly DEF MmapAlloc
  <2>4. RootsOK' /\ TouchesOwn
    BY <1>0, <2>1, <2>2, <2>3, PlainStep
  <2> QED
    BY <1>0, <2>1, <2>4 DEF RInv, AreasOK, AreasDisjoint, AreaOK
<1>3. CASE MmapPage(p)
  <2>1. /\ cur = p /\ op[p].kind = "mmap" /\ UNCHANGED <<pgd, vmas, brk, cur, ttbr0>>
    BY <1>3 DEF MmapPage, Doing, Running
  <2>2. PICK o : op' = [op EXCEPT ![p] = o] /\ OpShape(o) /\ o.kind \in {"mmap", "undo"}
    <3>1. Fields(op[p], F)
      BY <1>0, <2>1, KeptOps
    <3>2. LET o == [op[p] EXCEPT !.frame = None, !.at = @ + 1] IN Fields(o, F) /\ o.kind = "mmap"
      BY <2>1, <3>1 DEF Fields
    <3>3. LET o == [op[p] EXCEPT !.frame = None, !.kind = "undo"] IN Fields(o, F) /\ o.kind = "undo"
      BY <2>1, <3>1 DEF Fields
    <3> QED
      BY <1>3, <3>2, <3>3 DEF MmapPage, OpShape, Become
  <2>3. OnlyCounts(mem, mem') \/ OnlyTree(mem, mem', Root(op[p].at))
    <3>1. Root(op[p].at) \in Spaces
      BY <1>0, OwnRoots
    <3> QED
      BY <1>0, <1>3, <3>1, PutOnly, MapOnly DEF MmapPage
  <2>4. RootsOK' /\ TouchesOwn
    BY <1>0, <2>1, <2>2, <2>3, PlainStep, OwnRoots
  <2> QED
    BY <1>0, <2>1, <2>4 DEF RInv, AreasOK, AreasDisjoint, AreaOK
<1>4. CASE MmapDone(p)
  <2>1. RootsOK' /\ TouchesOwn
    BY <1>0, <1>4, NewOps, PlainStep DEF MmapDone, Doing, Running, Become
  <2> QED
    BY <1>0, <1>4, <2>1 DEF MmapDone, RInv, AreasOK, AreasDisjoint, AreaOK
<1>5. CASE Undo(p)
  <2>1. /\ cur = p /\ op[p].kind = "undo" /\ UNCHANGED <<pgd, vmas, brk, cur, ttbr0>>
    BY <1>5 DEF Undo, Doing, Running
  <2>2. PICK o : op' = [op EXCEPT ![p] = o] /\ OpShape(o) /\ o.kind = "undo"
    <3>1. Fields(op[p], F)
      BY <1>0, <2>1, KeptOps
    <3>2. \A x : LET o == Advance(p, "at", x) IN Fields(o, F) /\ o.kind = "undo"
      BY <2>1, <3>1 DEF Fields, Advance
    <3> QED
      BY <1>5, <3>2 DEF Undo, OpShape, Become
  <2>3. OnlyTree(mem, mem', Root(op[p].at - 1))
    <3>1. Root(op[p].at - 1) \in Spaces
      BY <1>0, OwnRoots
    <3> QED
      BY <1>0, <1>5, <3>1, DropOnly DEF Undo
  <2>4. RootsOK' /\ TouchesOwn
    BY <1>0, <2>1, <2>2, <2>3, PlainStep, OwnRoots
  <2> QED
    BY <1>0, <2>1, <2>4 DEF RInv, AreasOK, AreasDisjoint, AreaOK
<1>6. CASE UndoDone(p)
  <2>1. RootsOK' /\ TouchesOwn
    BY <1>0, <1>6, NewOps, PlainStep DEF UndoDone, Doing, Running, Become
  <2>2. AreasOK'
    <3> DEFINE S == {a \in vmas[p] : a.start # op[p].addr}
    <3>1. S \subseteq vmas[p] /\ vmas' = [vmas EXCEPT ![p] = S] /\ brk' = brk
      BY <1>6 DEF UndoDone
    <3> HIDE DEF S
    <3> QED
      BY <1>0, <3>1, LessAreas
  <2> QED
    BY <2>1, <2>2 DEF RInv
<1> QED
  BY <1>1, <1>2, <1>3, <1>4, <1>5, <1>6

\* do_munmap and do_brk.
LEMMA UnmapKeeps ==
  ASSUME RInv, NEW p \in Procs,
         \/ \E v \in AllPages, len \in 1..MaxLen : Munmap(p, v, len)
         \/ \E new \in Pages : BrkGrow(p, new) \/ BrkShrink(p, new)
         \/ UnmapOne(p) \/ UnmapDone(p)
  PROVE  RInv' /\ TouchesOwn
<1>0. /\ RootsOK /\ AreasOK /\ MemShape(mem) /\ OpShape(op[p])
      /\ brk \in [Procs -> Pages \cup {0}] /\ brk[p] \in Pages \cup {0}
  BY DEF RInv, RootsOK, SpacesOK, AreasOK
<1>1. ASSUME NEW v \in AllPages, NEW len \in 1..MaxLen, Munmap(p, v, len) PROVE RInv' /\ TouchesOwn
  <2>1. RootsOK' /\ TouchesOwn
    BY <1>0, <1>1, NewOps, PlainStep DEF Munmap, Idle, Running, Become
  <2>2. AreasOK'
    <3> DEFINE S == vmas[p] \ {Find(p, v)}
    <3>1. S \subseteq vmas[p] /\ vmas' = [vmas EXCEPT ![p] = S] /\ brk' = brk
      BY <1>1 DEF Munmap
    <3> HIDE DEF S
    <3> QED
      BY <1>0, <3>1, LessAreas
  <2> QED
    BY <2>1, <2>2 DEF RInv
<1>2. ASSUME NEW new \in Pages, BrkGrow(p, new) PROVE RInv' /\ TouchesOwn
  <2> DEFINE n == [start |-> brk[p], end |-> new, flags |-> {"r", "w"}]
  <2>1. /\ cur = p /\ op[p].kind = "user" /\ new > brk[p] /\ ~Overlaps(p, brk[p], new)
        /\ vmas' = [vmas EXCEPT ![p] = @ \cup {n}] /\ brk' = [brk EXCEPT ![p] = new]
        /\ UNCHANGED <<mem, pgd, cur, ttbr0, op>>
    BY <1>2 DEF BrkGrow, Idle, Running
  <2>2. op' = [op EXCEPT ![p] = User] /\ op[p] = User
    BY <1>0, <2>1, KeptOps DEF RootsOK, SpacesOK
  <2>3. RootsOK' /\ TouchesOwn
    BY <1>0, <2>1, <2>2, NewOps, PlainStep
  <2>4. AreaOK(n)
    <3>1. brk[p] \in Nat /\ new \in Nat
      BY <1>0, PageAssumption DEF AllPages
    <3>2. n \in [start : Nat, end : Nat, flags : AreaFlags \cup {{"r", "w"}}]
      BY <3>1
    <3>3. n # None
      BY <3>2, AreaAssumption
    <3> QED
      BY <2>1, <3>1, <3>3 DEF AreaOK
  <2>5. brk' \in [Procs -> Pages \cup {0}]
    BY <1>0, <2>1
  <2>6. AreasOK'
    BY <1>0, <2>1, <2>4, <2>5, AddArea
  <2> QED
    BY <2>3, <2>6 DEF RInv
<1>3. ASSUME NEW new \in Pages, BrkShrink(p, new) PROVE RInv' /\ TouchesOwn
  <2>1. RootsOK' /\ TouchesOwn
    BY <1>0, <1>3, NewOps, PlainStep DEF BrkShrink, Idle, Running, Become
  <2>2. AreasOK'
    <3> DEFINE S == {a \in vmas[p] : a.start # brk[p]}
    <3>1. S \subseteq vmas[p] /\ vmas' = [vmas EXCEPT ![p] = S] /\ brk' = brk
      BY <1>3 DEF BrkShrink
    <3> HIDE DEF S
    <3> QED
      BY <1>0, <3>1, LessAreas
  <2> QED
    BY <2>1, <2>2 DEF RInv
<1>4. CASE UnmapOne(p)
  <2>1. /\ cur = p /\ op[p].kind = "unmap" /\ UNCHANGED <<pgd, vmas, brk, cur, ttbr0>>
    BY <1>4 DEF UnmapOne, Doing, Running
  <2>2. PICK o : op' = [op EXCEPT ![p] = o] /\ OpShape(o) /\ o.kind = "unmap"
    <3> DEFINE F == {"kind", "at", "end", "brk"}
    <3>1. Fields(op[p], F) /\ op[p].brk \in Pages \cup {0}
      BY <1>0, <2>1, KeptOps
    <3>2. \A x : LET o == Advance(p, "at", x)
                 IN Fields(o, F) /\ o.kind = "unmap" /\ o.brk \in Pages \cup {0}
      BY <2>1, <3>1 DEF Fields, Advance
    <3> QED
      BY <1>4, <3>2 DEF UnmapOne, OpShape, Become
  <2>3. OnlyTree(mem, mem', Root(op[p].at))
    <3>1. Root(op[p].at) \in Spaces
      BY <1>0, OwnRoots
    <3> QED
      BY <1>0, <1>4, <3>1, DropOnly DEF UnmapOne
  <2>4. RootsOK' /\ TouchesOwn
    BY <1>0, <2>1, <2>2, <2>3, PlainStep, OwnRoots
  <2> QED
    BY <1>0, <2>1, <2>4 DEF RInv, AreasOK, AreasDisjoint, AreaOK
<1>5. CASE UnmapDone(p)
  <2>1. RootsOK' /\ TouchesOwn
    BY <1>0, <1>5, NewOps, PlainStep DEF UnmapDone, Doing, Running, Become
  <2>2. op[p].brk \in Pages \cup {0}
    BY <1>0, <1>5, KeptOps DEF UnmapDone, Doing
  <2>3. brk' \in [Procs -> Pages \cup {0}] /\ vmas' = vmas
    BY <1>0, <1>5, <2>2 DEF UnmapDone
  <2> QED
    BY <1>0, <2>1, <2>3 DEF RInv, AreasOK, AreasDisjoint, AreaOK
<1> QED
  BY <1>1, <1>2, <1>3, <1>4, <1>5

\* The page fault handler.
LEMMA FaultKeeps ==
  ASSUME RInv, NEW p \in Procs,
         \/ \E v \in AllPages, access \in {"read", "write", "exec"} : FaultAlloc(p, v, access)
         \/ CowUnmap(p) \/ FaultMap(p) \/ ExecRefree(p)
  PROVE  RInv' /\ TouchesOwn
<1>0. /\ RootsOK /\ AreasOK /\ MemShape(mem) /\ OpShape(op[p])
  BY DEF RInv, RootsOK, SpacesOK
<1>1. ASSUME NEW v \in AllPages, NEW access \in {"read", "write", "exec"}, FaultAlloc(p, v, access)
      PROVE  RootsOK' /\ TouchesOwn
  <2>1. /\ cur = p /\ UNCHANGED <<pgd, cur, ttbr0>> /\ mem' = Take(mem, NewFrame(mem))
    BY <1>1 DEF FaultAlloc, Idle, Running
  <2>2. PICK o : op' = [op EXCEPT ![p] = o] /\ OpShape(o) /\ o.kind \in {"cow", "demand"}
    <3> DEFINE c == [kind |-> "cow", page |-> v, frame |-> NewFrame(mem)]
               d == [kind |-> "demand", page |-> v, frame |-> NewFrame(mem),
                     prot |-> IF "x" \in Find(p, v).flags THEN "ro" ELSE "rw"]
    <3>1. OpShape(c) /\ c.kind = "cow" /\ OpShape(d) /\ d.kind = "demand"
      BY NewOps
    <3>2. op' = [op EXCEPT ![p] = c] \/ op' = [op EXCEPT ![p] = d]
      BY <1>1 DEF FaultAlloc, Become
    <3> HIDE DEF c, d
    <3> QED
      BY <3>1, <3>2
  <2>3. OnlyCounts(mem, mem')
    BY <1>0, <2>1, TakeOnly
  <2> QED
    BY <1>0, <2>1, <2>2, <2>3, PlainStep
<1>2. ASSUME CowUnmap(p) PROVE RootsOK' /\ TouchesOwn
  <2>1. /\ cur = p /\ UNCHANGED <<pgd, cur, ttbr0>>
    BY <1>2 DEF CowUnmap, Doing, Running
  <2>2. PICK o : op' = [op EXCEPT ![p] = o] /\ OpShape(o) /\ o.kind = "demand"
    <3> DEFINE d == [kind |-> "demand", page |-> op[p].page, frame |-> op[p].frame, prot |-> "rw"]
    <3>1. OpShape(d) /\ d.kind = "demand"
      BY NewOps
    <3>2. op' = [op EXCEPT ![p] = d]
      BY <1>2 DEF CowUnmap, Become
    <3> HIDE DEF d
    <3> QED
      BY <3>1, <3>2
  <2>3. OnlyTree(mem, mem', Root(op[p].page))
    <3>1. Root(op[p].page) \in Spaces
      BY <1>0, OwnRoots
    <3> QED
      BY <1>0, <1>2, <3>1, DropOnly DEF CowUnmap
  <2> QED
    BY <1>0, <2>1, <2>2, <2>3, PlainStep, OwnRoots
<1>3. ASSUME FaultMap(p) PROVE RootsOK' /\ TouchesOwn
  <2>1. /\ cur = p /\ UNCHANGED <<pgd, cur, ttbr0>> /\ op' = [op EXCEPT ![p] = User]
    BY <1>3 DEF FaultMap, Doing, Running, Become
  <2>2. OnlyCounts(mem, mem') \/ OnlyTree(mem, mem', Root(op[p].page))
    <3>1. Root(op[p].page) \in Spaces
      BY <1>0, OwnRoots
    <3> QED
      BY <1>0, <1>3, <3>1, PutOnly, MapOnly DEF FaultMap
  <2> QED
    BY <1>0, <2>1, <2>2, NewOps, PlainStep, OwnRoots
<1>4. ASSUME ExecRefree(p) PROVE RootsOK' /\ TouchesOwn
  <2>1. /\ cur = p /\ UNCHANGED <<pgd, cur, ttbr0>> /\ op' = [op EXCEPT ![p] = User]
    BY <1>4 DEF ExecRefree, Doing, Running, Become
  <2>2. OnlyCounts(mem, mem')
    BY <1>0, <1>4, PutOnly DEF ExecRefree
  <2> QED
    BY <1>0, <2>1, <2>2, NewOps, PlainStep
<1>5. UNCHANGED <<vmas, brk>>
  BY DEF FaultAlloc, CowUnmap, FaultMap, ExecRefree
<1>6. AreasOK'
  BY <1>0, <1>5 DEF AreasOK, AreasDisjoint, AreaOK
<1> QED
  BY <1>1, <1>2, <1>3, <1>4, <1>6 DEF RInv

\* do_fork up to the return of copy_user_page_table.
LEMMA ForkKeeps ==
  ASSUME RInv, NEW p \in Procs, (\E c \in Procs : Fork(p, c)) \/ ForkTable(p)
  PROVE  RInv' /\ TouchesOwn
<1>0. /\ RootsOK /\ AreasOK /\ MemShape(mem) /\ OpShape(op[p])
  BY DEF RInv, RootsOK, SpacesOK
<1>1. ASSUME NEW c \in Procs, Fork(p, c) PROVE RootsOK' /\ TouchesOwn
  <2> DEFINE r == NewRoot(mem)
             o == [kind |-> "fork", root |-> r, todo |-> UserTables, child |-> c]
  <2>1. /\ cur = p /\ pgd[c] = None /\ UserSpaces \ mem.roots # {}
        /\ \A q \in Procs : op[q].kind = "fork" => op[q].child # c
        /\ mem' = TakeRoot(mem, r) /\ op' = [op EXCEPT ![p] = o] /\ UNCHANGED <<pgd, cur, ttbr0>>
    BY <1>1 DEF Fork, Idle, Running, Become, SpaceLeft
  <2>2. /\ r \in UserSpaces \ mem.roots /\ MemShape(mem') /\ mem'.roots = mem.roots \cup {r}
        /\ mem'.pte = mem.pte /\ mem'.tab = mem.tab
    BY <1>0, <2>1, NewRootIs
  <2>3. OpShape(o) /\ o.kind = "fork" /\ o.root = r /\ o.child = c
    BY NewOps
  <2> HIDE DEF o, r
  <2>4. OpRoots(o) = {r}
    BY <2>3 DEF OpRoots
  <2>5. ttbr0 \in Mine(cur) /\ ttbr0 # r /\ pgd[cur] # r /\ r # None /\ {r} \cap mem.roots = {}
    BY <1>0, <2>2, OwnRoots, NameAssumption
  <2>6. RootsOK'
    BY <1>0, <2>1, <2>2, <2>3, <2>4, <2>5, OwnStep
  <2> QED
    BY <2>2, <2>6 DEF TouchesOwn
<1>2. ASSUME ForkTable(p) PROVE RootsOK' /\ TouchesOwn
  <2> DEFINE t == Min(op[p].todo)
             o == Advance(p, "todo", op[p].todo \ {t})
             F == {"kind", "root", "todo", "child"}
  <2>1. /\ cur = p /\ op[p].kind = "fork" /\ op' = [op EXCEPT ![p] = o] /\ UNCHANGED <<pgd, cur, ttbr0>>
        /\ mem' = mem \/ mem' = CopyTable(mem, pgd[p], op[p].root, t)
    BY <1>2 DEF ForkTable, Doing, Running, Become
  <2>2. Fields(op[p], F) /\ op[p].child \in Procs
    BY <1>0, <2>1, KeptOps
  <2>3. Fields(o, F) /\ o.kind = "fork" /\ o.root = op[p].root /\ o.child = op[p].child
    BY <2>1, <2>2 DEF Fields, Advance
  <2> HIDE DEF o, t
  <2>4. OpShape(o)
    BY <2>2, <2>3 DEF OpShape
  <2>5. op[p].root \in Mine(cur) /\ op[p].root \in Spaces /\ OpRoots(o) = {op[p].root}
    <3>1. op[p].root \in Mine(cur)
      BY <1>0, <2>1 DEF RootsOK, SpacesOK, Mine, OpRoots
    <3> QED
      BY <1>0, <2>3, <3>1, OwnRoots DEF OpRoots
  <2>6. mem' = mem \/ OnlyTree(mem, mem', op[p].root)
    BY <1>0, <2>1, <2>5, CopyOnly
  <2>7. TouchesOwn
    BY <2>5, <2>6 DEF TouchesOwn, OnlyTree
  <2>8. MemShape(mem') /\ mem'.roots = mem.roots \cup {} /\ {} \cap mem.roots = {}
    BY <1>0, <2>6 DEF OnlyTree
  <2>9. /\ pgd[o.child] = None /\ o.root # ttbr0 /\ o.root # None /\ o.root # pgd[cur]
        /\ \A q \in Procs \ {cur} : op[q].kind = "fork" => op[q].child # o.child
    BY <1>0, <2>1, <2>3 DEF RootsOK, SpacesOK
  <2>10. RootsOK'
    <3>1. /\ ttbr0' \in Mine(cur) /\ OpRoots(o) \subseteq Mine(cur) \cup {} \cup {None}
          /\ ttbr0' = ttbr0 /\ cur' = cur /\ pgd' = pgd
      BY <1>0, <2>1, <2>5, OwnRoots
    <3>2. op' = [op EXCEPT ![cur] = o]
      BY <2>1
    <3> QED
      BY <1>0, <2>3, <2>4, <2>8, <2>9, <3>1, <3>2, OwnStep
  <2> QED
    BY <2>7, <2>10
<1>3. UNCHANGED <<vmas, brk>>
  BY DEF Fork, ForkTable
<1>4. AreasOK'
  BY <1>0, <1>3 DEF AreasOK, AreasDisjoint, AreaOK
<1> QED
  BY <1>1, <1>2, <1>4 DEF RInv

\* The child gets the new root, of which nobody else knows.
LEMMA ForkDoneKeeps ==
  ASSUME RInv, NEW p \in Procs, ForkDone(p)
  PROVE  RInv' /\ TouchesOwn
<1> PICK c, r : c = op[p].child /\ r = op[p].root
  OBVIOUS
<1>0. /\ RootsOK /\ AreasOK /\ MemShape(mem) /\ OpShape(op[p])
      /\ pgd \in [Procs -> mem.roots \cup {None}]
  BY DEF RInv, RootsOK, SpacesOK
<1>1. /\ cur = p /\ op[p].kind = "fork" /\ pgd' = [pgd EXCEPT ![c] = r]
      /\ vmas' = [vmas EXCEPT ![c] = vmas[p]] /\ brk' = [brk EXCEPT ![c] = brk[p]]
      /\ op' = [op EXCEPT ![p] = User] /\ UNCHANGED <<mem, cur, ttbr0>>
  BY DEF ForkDone, Doing, Running, Become
<1>2. /\ c \in Procs /\ pgd[c] = None /\ c # p /\ op[c] = User
      /\ r # None /\ r # pgd[p] /\ r # ttbr0 /\ r \in Mine(p) /\ r \in mem.roots
  <2>1. c \in Procs
    BY <1>0, <1>1, KeptOps
  <2>2. pgd[c] = None /\ r # None /\ r # pgd[p] /\ r # ttbr0 /\ pgd[p] # None /\ op[c] = User
    BY <1>0, <1>1, <2>1 DEF RootsOK, SpacesOK
  <2>3. r \in Mine(p)
    BY <1>1, <2>2 DEF Mine, OpRoots
  <2> QED
    BY <1>0, <1>1, <2>1, <2>2, <2>3, OwnRoots
<1>3. op' = [q \in Procs |-> IF q = p THEN User ELSE op[q]]
  BY <1>0, <1>1 DEF RootsOK, SpacesOK
<1>4. pgd' = [q \in Procs |-> IF q = c THEN r ELSE pgd[q]]
  BY <1>0, <1>1
<1>5. /\ Mine(p)' \subseteq Mine(p) \ {r} /\ Mine(c)' = {r}
      /\ \A q \in Procs \ {c, p} : Mine(q)' = Mine(q)
  BY <1>1, <1>2, <1>3, <1>4, NewOps DEF Mine, OpRoots
<1>6. \A q, s \in Procs : Mine(q) \subseteq mem.roots /\ (q # s => Mine(q) \cap Mine(s) = {})
  BY <1>0 DEF RootsOK, SpacesOK
<1>7. \A q \in Procs : Mine(q)' \subseteq mem.roots
  BY <1>2, <1>5, <1>6
<1>8. \A q, s \in Procs : q # s => Mine(q)' \cap Mine(s)' = {}
  BY <1>2, <1>5, <1>6
<1>9. \A q \in Procs : OpShape(op'[q]) /\ op'[q].kind = "fork" => op[q] = op'[q] /\ q # p /\ q # c
  BY <1>2, <1>3, NewOps
<1>10. RootsOK'
  <2>1. pgd' \in [Procs -> mem.roots \cup {None}] /\ pgd'[p] # None
    BY <1>0, <1>1, <1>2, <1>4 DEF RootsOK, SpacesOK
  <2>2. op' = [q \in Procs |-> op'[q]] /\ \A q \in Procs : OpShape(op'[q])
    BY <1>0, <1>3, NewOps DEF RootsOK, SpacesOK
  <2>3. \A q \in Procs : op'[q].kind \in {"fork", "exec"} => op'[q].root # None /\ op'[q].root # pgd'[q]
    BY <1>0, <1>2, <1>3, <1>4, NewOps DEF RootsOK, SpacesOK
  <2>4. \A q \in Procs : op'[q].kind = "exec" /\ op'[q].frame # None => op'[q].old # None
    BY <1>0, <1>3, NewOps DEF RootsOK, SpacesOK
  <2>5. op'[p].kind # "fork"
    BY <1>3, NewOps
  <2>6. \A q \in Procs : pgd'[q] = None => op'[q] = User
    BY <1>0, <1>2, <1>3, <1>4 DEF RootsOK, SpacesOK
  <2>7. \A q \in Procs : op'[q].kind = "fork" => pgd'[op'[q].child] = None
    <3>1. ASSUME NEW q \in Procs, op'[q].kind = "fork" PROVE pgd'[op'[q].child] = None
      <4>1. op'[q] = op[q] /\ q # p
        BY <2>2, <3>1, <1>9
      <4>2. op[q].child \in Procs /\ op[q].child # c /\ pgd[op[q].child] = None
        <5>1. OpShape(op[q]) /\ op[q].kind = "fork"
          BY <2>2, <3>1, <4>1
        <5>2. op[q].child \in Procs
          BY <5>1, KeptOps
        <5> QED
          BY <1>0, <1>1, <4>1, <5>1, <5>2 DEF RootsOK, SpacesOK
      <4> QED
        BY <1>4, <4>1, <4>2
    <3> QED
      BY <3>1
  <2>8. \A q, s \in Procs : op'[q].kind = "fork" /\ op'[s].kind = "fork" /\ op'[q].child = op'[s].child => q = s
    BY <1>0, <2>2, <1>9 DEF RootsOK, SpacesOK
  <2>9. MemShape(mem') /\ cur' \in Procs /\ ttbr0' # None
    BY <1>0, <1>1 DEF RootsOK, SpacesOK
  <2> QED
    BY <1>1, <1>7, <1>8, <2>1, <2>2, <2>3, <2>4, <2>5, <2>6, <2>7, <2>8, <2>9 DEF RootsOK, SpacesOK, OpShape, Fields, MemShape
<1>11. AreasOK'
  <2>1. brk' \in [Procs -> Pages \cup {0}]
    BY <1>0, <1>1 DEF AreasOK
  <2>2. vmas[p] \subseteq vmas[p]
    OBVIOUS
  <2> QED
    BY <1>0, <1>1, <1>2, <2>1, <2>2, LessAreas
<1>12. TouchesOwn
  BY <1>1 DEF TouchesOwn
<1> QED
  BY <1>10, <1>11, <1>12 DEF RInv

\* execve until the new space is complete or given up.
LEMMA ExecKeeps ==
  ASSUME RInv, NEW p \in Procs, Exec(p) \/ ExecStack(p) \/ ExecAlloc(p) \/ ExecMap(p)
  PROVE  RInv' /\ TouchesOwn
<1> DEFINE F == {"kind", "root", "next", "frame", "old", "inStack"}
<1>0. /\ RootsOK /\ AreasOK /\ MemShape(mem) /\ OpShape(op[p])
  BY DEF RInv, RootsOK, SpacesOK
<1>1. ASSUME Exec(p) PROVE RootsOK' /\ TouchesOwn
  <2> DEFINE r == NewRoot(mem)
             o == [kind |-> "exec", root |-> r, next |-> 1, frame |-> None, old |-> None, inStack |-> FALSE]
  <2>1. /\ cur = p /\ UserSpaces \ mem.roots # {}
        /\ mem' = TakeRoot(mem, r) /\ op' = [op EXCEPT ![p] = o] /\ UNCHANGED <<pgd, cur, ttbr0>>
    BY <1>1 DEF Exec, Idle, Running, Become, SpaceLeft
  <2>2. /\ r \in UserSpaces \ mem.roots /\ MemShape(mem') /\ mem'.roots = mem.roots \cup {r}
        /\ mem'.pte = mem.pte /\ mem'.tab = mem.tab
    BY <1>0, <2>1, NewRootIs
  <2>3. OpShape(o) /\ o.kind = "exec" /\ o.root = r /\ o.old = None /\ o.frame = None
    BY NewOps
  <2> HIDE DEF o, r
  <2>4. OpRoots(o) = {r, None}
    BY <2>3 DEF OpRoots
  <2>5. ttbr0 \in Mine(cur) /\ pgd[cur] # r /\ r # None /\ {r} \cap mem.roots = {}
    BY <1>0, <2>2, OwnRoots, NameAssumption
  <2>6. RootsOK'
    BY <1>0, <2>1, <2>2, <2>3, <2>4, <2>5, OwnStep
  <2> QED
    BY <2>2, <2>6 DEF TouchesOwn
<1>2. ASSUME op[p].kind = "exec", cur = p
      PROVE  /\ Fields(op[p], F) /\ op[p].root \in Mine(cur) /\ op[p].root # pgd[cur] /\ op[p].root # None
             /\ op[p].old # None => op[p].old \in Mine(cur)
             /\ op[p].frame # None => op[p].old # None
  <2>1. op[p].root # pgd[cur] /\ op[p].root # None /\ (op[p].frame # None => op[p].old # None)
    BY <1>0, <1>2 DEF RootsOK, SpacesOK
  <2>2. Fields(op[p], F)
    BY <1>0, <1>2, KeptOps
  <2> QED
    BY <1>2, <2>1, <2>2 DEF Mine, OpRoots
\* The handler goes on with the same root.
<1>3. ASSUME op[p].kind = "exec", cur = p, NEW o, Fields(o, F), o.kind = "exec", o.root = op[p].root,
             o.old \in Mine(cur) \cup {None}, o.frame # None => o.old # None,
             op' = [op EXCEPT ![p] = o], UNCHANGED <<pgd, cur>>, ttbr0' \in Mine(cur),
             \/ mem' = mem \/ OnlyCounts(mem, mem')
             \/ \E r \in Mine(cur) \cup {KernelRoot} : OnlyTree(mem, mem', r)
      PROVE  RootsOK' /\ TouchesOwn
  <2>1. MemShape(mem') /\ mem'.roots = mem.roots \cup {} /\ {} \cap mem.roots = {}
    BY <1>0, <1>3 DEF OnlyCounts, OnlyTree
  <2>2. OpShape(o) /\ OpRoots(o) \subseteq Mine(cur) \cup {} \cup {None}
    BY <1>2, <1>3 DEF OpShape, OpRoots
  <2>3. o.root # None /\ o.root # pgd[cur]
    BY <1>2, <1>3
  <2>4. op' = [op EXCEPT ![cur] = o] /\ cur' = cur /\ pgd' = pgd
    BY <1>3
  <2>5. RootsOK'
    BY <1>0, <1>3, <2>1, <2>2, <2>3, <2>4, OwnStep
  <2>6. TouchesOwn
    BY <1>3 DEF TouchesOwn, OnlyCounts, OnlyTree
  <2> QED
    BY <2>5, <2>6
<1>4. ASSUME ExecStack(p) PROVE RootsOK' /\ TouchesOwn
  <2> DEFINE o == Advance(p, "inStack", TRUE)
  <2>1. /\ op[p].kind = "exec" /\ cur = p /\ op' = [op EXCEPT ![p] = o] /\ UNCHANGED <<pgd, cur, mem>>
        /\ ttbr0' = op[p].root
    BY <1>4 DEF ExecStack, Doing, Running, Become
  <2>2. Fields(o, F) /\ o.kind = "exec" /\ o.root = op[p].root /\ o.old = op[p].old /\ o.frame = op[p].frame
    BY <1>2, <2>1 DEF Fields, Advance
  <2> HIDE DEF o
  <2>3. o.old \in Mine(cur) \cup {None} /\ (o.frame # None => o.old # None) /\ ttbr0' \in Mine(cur)
    BY <1>2, <2>1, <2>2
  <2> QED
    BY <1>3, <2>1, <2>2, <2>3
<1>5. ASSUME ExecAlloc(p) PROVE RootsOK' /\ TouchesOwn
  <2>1. op[p].kind = "exec" /\ cur = p /\ UNCHANGED <<pgd, cur>>
    BY <1>5 DEF ExecAlloc, Doing, Running
  <2>2. CASE NoMemory(mem)
    <3>1. mem' = mem /\ op' = [op EXCEPT ![cur] = User] /\ UNCHANGED <<pgd, cur, ttbr0>>
      BY <1>5, <2>1, <2>2 DEF ExecAlloc, ExecFail, Become
    <3> QED
      BY <1>0, <3>1, NewOps, PlainStep
  <2>3. CASE ~NoMemory(mem)
    <3> DEFINE o == [op[p] EXCEPT !.frame = NewFrame(mem), !.old = ttbr0]
    <3>1. op' = [op EXCEPT ![p] = o] /\ mem' = Take(mem, NewFrame(mem)) /\ ttbr0' = op[p].root
      BY <1>5, <2>3 DEF ExecAlloc, Become
    <3>2. Fields(o, F) /\ o.kind = "exec" /\ o.root = op[p].root /\ o.old = ttbr0
      BY <1>2, <2>1 DEF Fields
    <3> HIDE DEF o
    <3>3. o.old \in Mine(cur) \cup {None} /\ o.old # None /\ ttbr0' \in Mine(cur)
      BY <1>0, <1>2, <2>1, <3>1, <3>2, OwnRoots DEF RootsOK, SpacesOK
    <3>4. OnlyCounts(mem, mem')
      BY <1>0, <3>1, TakeOnly
    <3> QED
      BY <1>3, <2>1, <3>1, <3>2, <3>3, <3>4
  <2> QED
    BY <2>2, <2>3
<1>6. ASSUME ExecMap(p) PROVE RootsOK' /\ TouchesOwn
  <2> DEFINE seg == Image[op[p].next]
  <2>1. /\ op[p].kind = "exec" /\ cur = p /\ UNCHANGED <<pgd, cur>> /\ op[p].frame # None
        /\ ttbr0' = op[p].old
    BY <1>6 DEF ExecMap, Doing, Running
  <2>2. ttbr0' \in Mine(cur)
    BY <1>2, <2>1
  <2>3. CASE CanMap(mem, ttbr0, seg.page)
    <3> DEFINE o == [op[p] EXCEPT !.frame = None, !.old = None, !.next = @ + 1]
    <3>1. op' = [op EXCEPT ![p] = o] /\ mem' = MapPage(mem, ttbr0, seg.page, op[p].frame, seg.prot)
      BY <1>6, <2>3 DEF ExecMap, Become
    <3>2. Fields(o, F) /\ o.kind = "exec" /\ o.root = op[p].root /\ o.old = None /\ o.frame = None
      BY <1>2, <2>1 DEF Fields
    <3> HIDE DEF o
    <3>3. ttbr0 \in Mine(cur) /\ ttbr0 \in Spaces
      BY <1>0, OwnRoots
    <3>4. OnlyTree(mem, mem', ttbr0)
      BY <1>0, <3>1, <3>3, MapOnly
    <3> QED
      BY <1>3, <2>1, <2>2, <3>1, <3>2, <3>3, <3>4
  <2>4. CASE ~CanMap(mem, ttbr0, seg.page)
    <3>1. op' = [op EXCEPT ![cur] = User] /\ mem' = PutPage(mem, op[p].frame)
      BY <1>6, <2>1, <2>4 DEF ExecMap, ExecFail, Become
    <3>2. OnlyCounts(mem, mem')
      BY <1>0, <3>1, PutOnly
    <3>3. OpRoots(User) = {} /\ User.kind = "user" /\ OpShape(User)
      BY NewOps DEF OpRoots
    <3>4. /\ MemShape(mem') /\ mem'.roots = mem.roots \cup {} /\ {} \cap mem.roots = {}
          /\ OpRoots(User) \subseteq Mine(cur) \cup {} \cup {None} /\ cur' = cur /\ pgd' = pgd
      BY <2>1, <3>2, <3>3 DEF OnlyCounts
    <3>5. RootsOK'
      BY <1>0, <2>2, <3>1, <3>3, <3>4, OwnStep
    <3> QED
      BY <3>2, <3>5 DEF TouchesOwn, OnlyCounts
  <2> QED
    BY <2>3, <2>4
<1>7. UNCHANGED <<vmas, brk>>
  BY DEF Exec, ExecStack, ExecAlloc, ExecMap
<1>8. AreasOK'
  BY <1>0, <1>7 DEF AreasOK, AreasDisjoint, AreaOK
<1> QED
  BY <1>1, <1>4, <1>5, <1>6, <1>8 DEF RInv

\* execve ends: the old root is free, the new one takes its place.
LEMMA ExecDoneKeeps ==
  ASSUME RInv, NEW p \in Procs, ExecDone(p)
  PROVE  RInv' /\ TouchesOwn
<1> PICK old, r, o : old = pgd[p] /\ r = op[p].root /\ o = [kind |-> "refree", pte |-> mem.pte[old], alone |-> TRUE]
  OBVIOUS
<1>0. /\ RootsOK /\ AreasOK /\ MemShape(mem) /\ OpShape(op[p])
      /\ pgd \in [Procs -> mem.roots \cup {None}]
  BY DEF RInv, RootsOK, SpacesOK
<1>1. /\ cur = p /\ op[p].kind = "exec" /\ mem' = FreeTree(mem, old)
      /\ pgd' = [pgd EXCEPT ![p] = r] /\ ttbr0' = r /\ op' = [op EXCEPT ![p] = o]
      /\ UNCHANGED <<vmas, brk, cur>>
  BY DEF ExecDone, Doing, Running, Become, ExecRoot
<1>2. OpShape(o) /\ o.kind = "refree" /\ OpRoots(o) = {}
  BY NewOps DEF OpRoots
<1>3. r # None /\ r # old /\ r \in Mine(p) /\ old \in Mine(p) /\ r \in mem.roots /\ old \in Spaces
  <2>1. r # None /\ r # old
    BY <1>0, <1>1 DEF RootsOK, SpacesOK
  <2>2. r \in Mine(p)
    BY <1>1, <2>1 DEF Mine, OpRoots
  <2>3. old \in Mine(p) /\ old \in Spaces
    BY <1>0, <1>1, OwnRoots
  <2> QED
    BY <1>0, <1>1, <2>1, <2>2, <2>3, OwnRoots
<1>4. /\ MemShape(mem') /\ mem'.roots = mem.roots \ {old}
      /\ \A s \in Spaces \ {old} : mem'.pte[s] = mem.pte[s] /\ mem'.tab[s] = mem.tab[s]
  BY <1>0, <1>1, <1>3, FreeTreeOnly
<1>5. op' = [q \in Procs |-> IF q = p THEN o ELSE op[q]]
  BY <1>0, <1>1 DEF RootsOK, SpacesOK
<1>6. pgd' = [q \in Procs |-> IF q = p THEN r ELSE pgd[q]]
  BY <1>0, <1>1
<1>7. Mine(p)' = {r} /\ \A q \in Procs \ {p} : Mine(q)' = Mine(q)
  BY <1>1, <1>2, <1>3, <1>5, <1>6 DEF Mine
<1>8. \A q, s \in Procs : Mine(q) \subseteq mem.roots /\ (q # s => Mine(q) \cap Mine(s) = {})
  BY <1>0 DEF RootsOK, SpacesOK
<1>9. \A q \in Procs : Mine(q)' \subseteq mem'.roots
  BY <1>3, <1>4, <1>7, <1>8
<1>10. \A q, s \in Procs : q # s => Mine(q)' \cap Mine(s)' = {}
  BY <1>3, <1>7, <1>8
<1>11. RootsOK'
  <2>1. pgd' \in [Procs -> mem'.roots \cup {None}] /\ pgd'[p] # None
    <3>1. \A q \in Procs \ {p} : pgd[q] \in mem'.roots \cup {None}
      <4>1. \A q \in Procs \ {p} : pgd[q] # None => pgd[q] \in Mine(q)
        BY DEF Mine
      <4>2. \A q \in Procs \ {p} : pgd[q] # old
        BY <1>3, <1>8, <4>1, NameAssumption, <1>0, <1>4 DEF MemShape
      <4> QED
        BY <1>0, <1>4, <4>2
    <3> QED
      BY <1>3, <1>4, <1>6, <3>1
  <2>2. op' = [q \in Procs |-> op'[q]] /\ \A q \in Procs : OpShape(op'[q])
    BY <1>0, <1>2, <1>5 DEF RootsOK, SpacesOK
  <2>3. \A q \in Procs : op'[q].kind \in {"fork", "exec"} => op'[q].root # None /\ op'[q].root # pgd'[q]
    BY <1>0, <1>2, <1>5, <1>6 DEF RootsOK, SpacesOK
  <2>4. \A q \in Procs : op'[q].kind = "exec" /\ op'[q].frame # None => op'[q].old # None
    BY <1>0, <1>2, <1>5 DEF RootsOK, SpacesOK
  <2>5. op'[p].kind # "fork"
    BY <1>2, <1>5
  <2>6. \A q \in Procs : pgd'[q] = None => op'[q] = User
    BY <1>0, <1>3, <1>5, <1>6 DEF RootsOK, SpacesOK
  <2>7. \A q \in Procs : op'[q].kind = "fork" => pgd'[op'[q].child] = None
    <3>1. ASSUME NEW q \in Procs, op'[q].kind = "fork" PROVE pgd'[op'[q].child] = None
      <4>1. op'[q] = op[q] /\ q # p
        BY <1>2, <1>5, <3>1
      <4>2. op[q].child \in Procs /\ pgd[op[q].child] = None
        BY <1>0, <2>2, <3>1, <4>1, KeptOps DEF RootsOK, SpacesOK
      <4>3. pgd[p] # None
        BY <1>0, <1>1 DEF RootsOK, SpacesOK
      <4> QED
        BY <1>6, <4>1, <4>2, <4>3
    <3> QED
      BY <3>1
  <2>8. \A q, s \in Procs : op'[q].kind = "fork" /\ op'[s].kind = "fork" /\ op'[q].child = op'[s].child => q = s
    BY <1>0, <1>2, <1>5 DEF RootsOK, SpacesOK
  <2> QED
    BY <1>1, <1>3, <1>4, <1>9, <1>10, <2>1, <2>2, <2>3, <2>4, <2>5, <2>6, <2>7, <2>8
    DEF RootsOK, SpacesOK, OpShape, Fields, MemShape
<1>12. TouchesOwn
  BY <1>1, <1>3, <1>4 DEF TouchesOwn
<1>13. AreasOK'
  BY <1>0, <1>1 DEF AreasOK, AreasDisjoint, AreaOK
<1> QED
  BY <1>11, <1>12, <1>13 DEF RInv

\* Every step of a handler keeps the roots and touches the running process's tables only.
LEMMA RunKeeps ==
  ASSUME RInv, NEW p \in Procs, Calls(p) \/ Steps(p) \/ ExecRefree(p)
  PROVE  RInv' /\ TouchesOwn
<1>1. CASE Calls(p)
  BY <1>1, MmapKeeps, UnmapKeeps, ForkKeeps, ExecKeeps, FaultKeeps DEF Calls
<1>2. CASE Steps(p)
  BY <1>2, MmapKeeps, UnmapKeeps, ForkKeeps, ForkDoneKeeps, ExecKeeps, ExecDoneKeeps, FaultKeeps DEF Steps
<1>3. CASE ExecRefree(p)
  BY <1>3, FaultKeeps
<1> QED
  BY <1>1, <1>2, <1>3

\* A step changes no table of another process that lives.
Untouched ==
    \A q \in Procs : q # cur /\ pgd[q] # None /\ op[q] # Dead =>
        mem'.pte[pgd[q]] = mem.pte[pgd[q]] /\ mem'.tab[pgd[q]] = mem.tab[pgd[q]]

\* The tables of the running process are nobody else's.
LEMMA OwnIsOwn ==
  ASSUME SpacesOK, TouchesOwn
  PROVE  Untouched
<1>1. PICK r \in Mine(cur) \cup {KernelRoot} :
          \A s \in Spaces \ {r} : mem'.pte[s] = mem.pte[s] /\ mem'.tab[s] = mem.tab[s]
  BY DEF TouchesOwn
<1>2. ASSUME NEW q \in Procs, q # cur, pgd[q] # None PROVE pgd[q] \in Spaces \ {r}
  <2>1. pgd[q] \in Mine(q)
    BY <1>2 DEF Mine
  <2>2. Mine(q) \cap Mine(cur) = {} /\ Mine(q) \subseteq mem.roots /\ mem.roots \subseteq UserSpaces
    BY <1>2 DEF SpacesOK, MemShape
  <2>3. KernelRoot \notin UserSpaces
    BY NameAssumption
  <2> QED
    BY <2>1, <2>2, <2>3 DEF Spaces
<1> QED
  BY <1>1, <1>2 DEF Untouched

\* A handler runs: its process has not exited.
LEMMA HandlersLive ==
  ASSUME SInv, NEW p \in Procs, Calls(p) \/ Steps(p) \/ ExecRefree(p) \/ Exit(p)
  PROVE  RInv /\ cur = p /\ op[p] # Dead
<1>1. cur = p /\ (op[p].kind # "dead" \/ op[p] # Dead)
  <2>1. CASE Calls(p)
    BY <2>1 DEF Calls, Mmap, Munmap, BrkGrow, BrkShrink, Fork, Exec, FaultAlloc, Idle, Running
  <2>2. CASE Steps(p)
    BY <2>2 DEF Steps, MmapAlloc, MmapPage, MmapDone, Undo, UndoDone, UnmapOne, UnmapDone, ForkTable,
                ForkDone, ExecStack, ExecAlloc, ExecMap, ExecDone, CowUnmap, FaultMap, Doing, Running
  <2>3. CASE ExecRefree(p) \/ Exit(p)
    BY <2>3 DEF ExecRefree, Exit, Doing, Running
  <2> QED
    BY <2>1, <2>2, <2>3
<1>2. op[p] # Dead
  BY <1>1 DEF Dead
<1> QED
  BY <1>1, <1>2 DEF SInv, RInv, RootsOK

\* A switch loads the root of the process it picks; an execve in between its frees learns of it.
LEMMA SwitchKeeps ==
  ASSUME SInv, NEW p \in Procs, Switch(p)
  PROVE  RInv' /\ Untouched
<1>0. SpacesOK /\ AreasOK
  BY DEF SInv
<1>1. /\ pgd[p] # None /\ cur' = p /\ ttbr0' = pgd[p] /\ op' = Disturbed(p)
      /\ UNCHANGED <<mem, pgd, vmas, brk>>
  BY DEF Switch, LoadRoot
<1>2. /\ op' = [q \in Procs |-> op'[q]]
      /\ \A q \in Procs : \/ op'[q] = op[q]
                          \/ op[q].kind = "refree" /\ op'[q].kind = "refree" /\ OpShape(op'[q])
  <2>1. cur \in Procs /\ op = [q \in Procs |-> op[q]] /\ OpShape(op[cur])
    BY <1>0 DEF SpacesOK
  <2>2. CASE p # cur /\ op[cur].kind = "refree"
    <3> DEFINE o == [op[cur] EXCEPT !.alone = FALSE]
    <3>1. op' = [op EXCEPT ![cur] = o]
      BY <1>1, <2>2 DEF Disturbed
    <3>2. Fields(op[cur], {"kind", "pte", "alone"})
      BY <2>1, <2>2, KeptOps
    <3>3. Fields(o, {"kind", "pte", "alone"}) /\ o.kind = "refree"
      BY <2>2, <3>2 DEF Fields
    <3> HIDE DEF o
    <3>4. OpShape(o)
      BY <3>3 DEF OpShape
    <3>5. op' = [q \in Procs |-> IF q = cur THEN o ELSE op[q]]
      BY <2>1, <3>1
    <3> QED
      BY <2>2, <3>3, <3>4, <3>5
  <2>3. CASE ~(p # cur /\ op[cur].kind = "refree")
    BY <1>1, <2>1, <2>3 DEF Disturbed
  <2> QED
    BY <2>2, <2>3
<1>3. \A q \in Procs : /\ OpShape(op'[q]) /\ op'[q].kind = op[q].kind /\ OpRoots(op'[q]) = OpRoots(op[q])
                       /\ op[q].kind # "refree" => op'[q] = op[q]
  BY <1>0, <1>2 DEF SpacesOK, OpRoots
<1>4. \A q \in Procs : Mine(q)' \subseteq Mine(q)
  BY <1>1, <1>3 DEF Mine
<1>5. \A q, s \in Procs : Mine(q) \subseteq mem.roots /\ (q # s => Mine(q) \cap Mine(s) = {})
  BY <1>0 DEF SpacesOK
<1>6. \A q, s \in Procs : Mine(q)' \subseteq mem.roots /\ (q # s => Mine(q)' \cap Mine(s)' = {})
  BY <1>4, <1>5
<1>7. op'[cur'].kind = "fork" => op'[cur'].root # ttbr0'
  BY <1>0, <1>1, <1>3 DEF SpacesOK
<1>8. \A q \in Procs : pgd'[q] = None => op'[q] = User
  BY <1>0, <1>1, <1>3, NewOps DEF SpacesOK
<1>9. SpacesOK'
  <2>1. /\ MemShape(mem') /\ \A q \in Procs : OpShape(op'[q])
        /\ pgd' \in [Procs -> mem'.roots \cup {None}] /\ cur' \in Procs /\ pgd'[cur'] # None
    BY <1>0, <1>1, <1>3 DEF SpacesOK
  <2>2. \A q \in Procs : op'[q].kind \in {"fork", "exec"} => op'[q].root # None /\ op'[q].root # pgd'[q]
    BY <1>0, <1>1, <1>3 DEF SpacesOK
  <2>3. \A q \in Procs : op'[q].kind = "exec" /\ op'[q].frame # None => op'[q].old # None
    BY <1>0, <1>1, <1>3 DEF SpacesOK
  <2>4. /\ \A q \in Procs : op'[q].kind = "fork" => pgd'[op'[q].child] = None
        /\ \A q, s \in Procs : op'[q].kind = "fork" /\ op'[s].kind = "fork" /\ op'[q].child = op'[s].child => q = s
    BY <1>0, <1>1, <1>3 DEF SpacesOK
  <2>5. \A q \in Procs : Mine(q)' \subseteq mem'.roots
    BY <1>1, <1>6
  <2> QED
    BY <1>2, <1>6, <1>7, <1>8, <2>1, <2>2, <2>3, <2>4, <2>5 DEF SpacesOK, OpShape, Fields, MemShape
<1>10. AreasOK'
  BY <1>0, <1>1 DEF AreasOK, AreasDisjoint, AreaOK
<1> QED
  BY <1>1, <1>9, <1>10 DEF RInv, RootsOK, Untouched

\* Exit: the process keeps its table and nothing else, and TTBR0 is cleared.
LEMMA ExitKeeps ==
  ASSUME RInv, NEW p \in Procs, Exit(p)
  PROVE  SInv' /\ TouchesOwn
<1>0. RootsOK /\ SpacesOK /\ AreasOK /\ MemShape(mem)
  BY DEF RInv, RootsOK, SpacesOK
<1>1. /\ cur = p /\ ttbr0' = None /\ op' = [op EXCEPT ![p] = Dead] /\ UNCHANGED <<pgd, vmas, brk, cur>>
  BY DEF Exit, Running, Become
<1>2. mem' = mem \/ OnlyCounts(mem, mem')
  <2>1. \A f : OnlyCounts(mem, Lose(mem, f))
    BY <1>0 DEF OnlyCounts, Lose, MemShape, Fields
  <2> QED
    BY <2>1 DEF Exit
<1>3. MemShape(mem') /\ mem'.roots = mem.roots
  BY <1>0, <1>2 DEF OnlyCounts
<1>4. op' = [q \in Procs |-> IF q = p THEN Dead ELSE op[q]] /\ OpShape(Dead) /\ Dead.kind = "dead" /\ OpRoots(Dead) = {}
  BY <1>0, <1>1, NewOps DEF SpacesOK, OpRoots
<1>5. \A q \in Procs : Mine(q)' \subseteq Mine(q)
  BY <1>1, <1>4 DEF Mine
<1>6. \A q, s \in Procs : Mine(q) \subseteq mem.roots /\ (q # s => Mine(q) \cap Mine(s) = {})
  BY <1>0 DEF SpacesOK
<1>7. \A q, s \in Procs : Mine(q)' \subseteq mem'.roots /\ (q # s => Mine(q)' \cap Mine(s)' = {})
  BY <1>3, <1>5, <1>6
<1>8. SpacesOK'
  <2>1. /\ op' = [q \in Procs |-> op'[q]] /\ \A q \in Procs : OpShape(op'[q])
        /\ pgd' \in [Procs -> mem'.roots \cup {None}] /\ cur' \in Procs /\ pgd'[cur'] # None
    BY <1>0, <1>1, <1>3, <1>4 DEF SpacesOK
  <2>2. \A q \in Procs : op'[q].kind \in {"fork", "exec"} => op'[q] = op[q] /\ q # p
    BY <1>4
  <2>3. /\ \A q \in Procs : op'[q].kind \in {"fork", "exec"} => op'[q].root # None /\ op'[q].root # pgd'[q]
        /\ \A q \in Procs : op'[q].kind = "exec" /\ op'[q].frame # None => op'[q].old # None
        /\ \A q \in Procs : op'[q].kind = "fork" => pgd'[op'[q].child] = None
        /\ \A q, s \in Procs : op'[q].kind = "fork" /\ op'[s].kind = "fork" /\ op'[q].child = op'[s].child => q = s
    BY <1>0, <1>1, <2>2 DEF SpacesOK
  <2>4. \A q \in Procs : pgd'[q] = None => op'[q] = User
    BY <1>0, <1>1, <1>4 DEF SpacesOK
  <2>5. op'[cur'].kind # "fork"
    BY <1>1, <1>4
  <2> QED
    BY <1>3, <1>7, <2>1, <2>3, <2>4, <2>5 DEF SpacesOK, OpShape, Fields, MemShape
<1>9. AreasOK'
  BY <1>0, <1>1 DEF AreasOK, AreasDisjoint, AreaOK
<1>10. op'[cur'] = Dead
  BY <1>1, <1>4
<1>11. TouchesOwn
  BY <1>2 DEF TouchesOwn, OnlyCounts
<1> QED
  BY <1>8, <1>9, <1>10, <1>11 DEF SInv

\* The free of a dead process's tree touches no other process.
LEMMA ReleaseKeeps ==
  ASSUME SInv, NEW p \in Procs, Release(p)
  PROVE  /\ SInv' /\ Untouched /\ pgd[p] \in mem.roots /\ pgd[p] \in Spaces
         /\ \A s \in Spaces \ {pgd[p]} : mem'.pte[s] = mem.pte[s] /\ mem'.tab[s] = mem.tab[s]
<1> PICK r : r = pgd[p]
  OBVIOUS
<1>0. SpacesOK /\ AreasOK /\ MemShape(mem) /\ brk \in [Procs -> Pages \cup {0}]
  BY DEF SInv, SpacesOK, AreasOK
<1>1. /\ op[p] = Dead /\ cur # p /\ mem' = FreeTree(mem, r) /\ pgd' = [pgd EXCEPT ![p] = None]
      /\ vmas' = [vmas EXCEPT ![p] = {}] /\ brk' = [brk EXCEPT ![p] = 0] /\ op' = [op EXCEPT ![p] = User]
      /\ UNCHANGED <<cur, ttbr0>>
  BY DEF Release, Become
<1>2. r # None /\ r \in Mine(p) /\ r \in mem.roots /\ r \in Spaces
  <2>1. Dead # User
    BY NewOps
  <2>2. r # None
    BY <1>0, <1>1, <2>1 DEF SpacesOK
  <2>3. r \in Mine(p)
    BY <2>2 DEF Mine
  <2> QED
    BY <1>0, <2>2, <2>3 DEF SpacesOK, MemShape, Spaces
<1>3. /\ MemShape(mem') /\ mem'.roots = mem.roots \ {r}
      /\ \A s \in Spaces \ {r} : mem'.pte[s] = mem.pte[s] /\ mem'.tab[s] = mem.tab[s]
  BY <1>0, <1>1, <1>2, FreeTreeOnly
<1>4. /\ op' = [q \in Procs |-> IF q = p THEN User ELSE op[q]]
      /\ pgd' = [q \in Procs |-> IF q = p THEN None ELSE pgd[q]]
      /\ OpShape(User) /\ User.kind = "user" /\ OpRoots(User) = {}
  BY <1>0, <1>1, NewOps DEF SpacesOK, OpRoots
<1>5. Mine(p)' = {} /\ \A q \in Procs \ {p} : Mine(q)' = Mine(q)
  BY <1>1, <1>4 DEF Mine
<1>6. \A q, s \in Procs : Mine(q) \subseteq mem.roots /\ (q # s => Mine(q) \cap Mine(s) = {})
  BY <1>0 DEF SpacesOK
<1>7. \A q, s \in Procs : Mine(q)' \subseteq mem'.roots /\ (q # s => Mine(q)' \cap Mine(s)' = {})
  BY <1>2, <1>3, <1>5, <1>6
<1>8. \A q \in Procs \ {p} : pgd[q] # None => pgd[q] \in Mine(q) /\ pgd[q] # r
  BY <1>2, <1>6 DEF Mine
<1>9. SpacesOK'
  <2>1. pgd' \in [Procs -> mem'.roots \cup {None}]
    <3>1. \A q \in Procs \ {p} : pgd[q] \in mem'.roots \cup {None}
      BY <1>0, <1>3, <1>8 DEF SpacesOK
    <3> QED
      BY <1>4, <3>1
  <2>2. /\ op' = [q \in Procs |-> op'[q]] /\ \A q \in Procs : OpShape(op'[q])
        /\ cur' \in Procs /\ pgd'[cur'] # None
    BY <1>0, <1>1, <1>4 DEF SpacesOK
  <2>3. \A q \in Procs : op'[q].kind \in {"fork", "exec"} => op'[q] = op[q] /\ q # p
    BY <1>4
  <2>4. /\ \A q \in Procs : op'[q].kind \in {"fork", "exec"} => op'[q].root # None /\ op'[q].root # pgd'[q]
        /\ \A q \in Procs : op'[q].kind = "exec" /\ op'[q].frame # None => op'[q].old # None
        /\ \A q, s \in Procs : op'[q].kind = "fork" /\ op'[s].kind = "fork" /\ op'[q].child = op'[s].child => q = s
    BY <1>0, <1>4, <2>3 DEF SpacesOK
  <2>5. \A q \in Procs : op'[q].kind = "fork" => pgd'[op'[q].child] = None
    <3>1. ASSUME NEW q \in Procs, op'[q].kind = "fork" PROVE pgd'[op'[q].child] = None
      <4>1. op'[q] = op[q] /\ op[q].kind = "fork" /\ OpShape(op[q])
        BY <2>2, <2>3, <3>1
      <4>2. op[q].child \in Procs /\ pgd[op[q].child] = None
        BY <1>0, <4>1, KeptOps DEF SpacesOK
      <4> QED
        BY <1>4, <4>1, <4>2
    <3> QED
      BY <3>1
  <2>6. \A q \in Procs : pgd'[q] = None => op'[q] = User
    BY <1>0, <1>4 DEF SpacesOK
  <2>7. op'[cur'].kind = "fork" => op'[cur'].root # ttbr0'
    BY <1>0, <1>1, <1>4 DEF SpacesOK
  <2> QED
    BY <1>3, <1>7, <2>1, <2>2, <2>4, <2>5, <2>6, <2>7 DEF SpacesOK, OpShape, Fields, MemShape
<1>10. AreasOK'
  <2>1. brk' \in [Procs -> Pages \cup {0}]
    BY <1>0, <1>1
  <2>2. PICK S : S = {}
    OBVIOUS
  <2>3. AreasOK /\ vmas' = [vmas EXCEPT ![p] = S] /\ S \subseteq vmas[p]
    BY <1>0, <1>1, <2>2
  <2> QED
    BY <2>1, <2>3, LessAreas
<1>11. ttbr0' # None \/ op'[cur'] = Dead
  BY <1>0, <1>1, <1>4 DEF SInv, SpacesOK
<1>12. Untouched
  <2>1. ASSUME NEW q \in Procs, q # cur, pgd[q] # None, op[q] # Dead PROVE pgd[q] \in Spaces \ {r}
    <3>1. q # p
      BY <1>1, <2>1
    <3> QED
      BY <1>0, <1>6, <1>8, <2>1, <3>1 DEF MemShape, Spaces
  <2> QED
    BY <1>3, <2>1 DEF Untouched
<1> QED
  BY <1>2, <1>3, <1>9, <1>10, <1>11, <1>12 DEF SInv

\* Every step keeps the roots apart and the areas disjoint, and touches no table of others.
LEMMA RootInvariance == SInv /\ [Next]_vars => SInv' /\ (Untouched \/ UNCHANGED vars)
<1> SUFFICES ASSUME SInv, [Next]_vars PROVE SInv' /\ (Untouched \/ UNCHANGED vars)
  OBVIOUS
<1>a. RInv => SInv
  BY DEF RInv, SInv, RootsOK
<1>b. RInv' => SInv'
  BY DEF RInv, SInv, RootsOK
<1>c. SpacesOK
  BY DEF SInv
<1>1. ASSUME NEW p \in Procs, Calls(p) \/ Steps(p) \/ ExecRefree(p) PROVE SInv' /\ Untouched
  <2>1. RInv
    BY <1>1, HandlersLive
  <2>2. RInv' /\ TouchesOwn
    BY <1>1, <2>1, RunKeeps
  <2> QED
    BY <1>b, <1>c, <2>2, OwnIsOwn
<1>2. ASSUME NEW p \in Procs, Switch(p) PROVE SInv' /\ Untouched
  BY <1>2, <1>b, SwitchKeeps
<1>3. ASSUME NEW p \in Procs, Exit(p) PROVE SInv' /\ Untouched
  BY <1>3, <1>c, HandlersLive, ExitKeeps, OwnIsOwn
<1>4. ASSUME NEW p \in Procs, Release(p) PROVE SInv' /\ Untouched
  BY <1>4, ReleaseKeeps
<1>5. CASE UNCHANGED vars
  <2>1. UNCHANGED <<mem, pgd, vmas, brk, cur, ttbr0, op>>
    BY <1>5 DEF vars
  <2>2. \A p \in Procs : Mine(p)' = Mine(p)
    BY <2>1 DEF Mine
  <2>3. SpacesOK'
    BY <2>1, <2>2 DEF SInv, SpacesOK
  <2>4. AreasOK'
    BY <2>1 DEF SInv, AreasOK, AreasDisjoint, AreaOK
  <2> QED
    BY <1>5, <2>1, <2>3, <2>4 DEF SInv
<1> QED
  BY <1>1, <1>2, <1>3, <1>4, <1>5 DEF Next

------------------------------------------------------------------------------------
(* Counting *)

\* Everything that is counted is finite.
LEMMA FiniteParts ==
  /\ IsFiniteSet(Spaces) /\ IsFiniteSet(Tables)
  /\ IsFiniteSet(Spaces \X AllPages) /\ IsFiniteSet(Spaces \X Tables)
<1>1. IsFiniteSet(Spaces)
  BY NameAssumption, FS_AddElement DEF Spaces
<1>2. IsFiniteSet(AllPages)
  BY PageAssumption
<1>3. IsFiniteSet(Tables)
  <2>1. [v \in AllPages |-> Table[v]] \in Surjection(AllPages, Tables)
    BY DEF Surjection, Tables
  <2> QED
    BY <1>2, <2>1, FS_Surjection, Zenon
<1>4. IsFiniteSet(Spaces \X AllPages)
  BY <1>1, <1>2, FS_Product
<1>5. IsFiniteSet(Spaces \X Tables)
  BY <1>1, <1>3, FS_Product
<1> QED
  BY <1>1, <1>3, <1>4, <1>5

\* The counters are naturals.
LEMMA Counts ==
  ASSUME NEW m, MemType(m)
  PROVE  /\ \A f : IsFiniteSet(Maps(m, f)) /\ Cardinality(Maps(m, f)) \in Nat
         /\ \A f : Cardinality(Maps(m, f)) = 0 <=> Maps(m, f) = {}
         /\ IsFiniteSet(Used(m)) /\ Cardinality(Used(m)) \in Nat
         /\ IsFiniteSet(m.roots) /\ Cardinality(m.roots) \in Nat
         /\ (Cardinality(m.roots) = 0 <=> m.roots = {})
         /\ IsFiniteSet(Tabled(m)) /\ Cardinality(Tabled(m)) \in Nat
<1>1. /\ \A f : Maps(m, f) \subseteq Spaces \X AllPages
      /\ Used(m) \subseteq Frames /\ m.roots \subseteq UserSpaces /\ Tabled(m) \subseteq Spaces \X Tables
  BY DEF Maps, Used, Tabled, MemType
<1>2. \A f : IsFiniteSet(Maps(m, f))
  BY <1>1, FiniteParts, FS_Subset
<1>3. IsFiniteSet(Used(m)) /\ IsFiniteSet(m.roots) /\ IsFiniteSet(Tabled(m))
  BY <1>1, FiniteParts, NameAssumption, FS_Subset
<1> QED
  BY <1>2, <1>3, FS_CardinalityType, FS_EmptySet

\* Fields of the right types make up memory.
LEMMA MemTyped ==
  ASSUME NEW n, Fields(n, {"free", "ref", "lost", "roots", "tab", "pte"}),
         n.free \in Nat, n.ref \in [Frames -> Nat], n.lost \in [Frames -> Nat],
         n.roots \in SUBSET UserSpaces, n.tab \in [Spaces -> SUBSET Tables],
         n.pte \in [Spaces -> [AllPages -> Cells \cup {None}]]
  PROVE  MemType(n)
BY DEF Fields, MemType

\* The types of the fields of memory.
LEMMA MemParts ==
  ASSUME NEW m, MemType(m)
  PROVE  /\ Fields(m, {"free", "ref", "lost", "roots", "tab", "pte"})
         /\ m.free \in Nat /\ m.ref \in [Frames -> Nat] /\ m.lost \in [Frames -> Nat]
         /\ m.roots \in SUBSET UserSpaces /\ m.tab \in [Spaces -> SUBSET Tables]
         /\ m.pte \in [Spaces -> [AllPages -> Cells \cup {None}]]
BY DEF Fields, MemType

\* A frame taken from the free ones.
LEMMA TakeKeeps ==
  ASSUME NEW m, NEW H, MemOK(m, H), m.free > 0, m.roots # {}
  PROVE  /\ NewFrame(m) \in Frames \ H /\ MemOK(Take(m, NewFrame(m)), H \cup {NewFrame(m)})
         /\ LET n == Take(m, NewFrame(m))
            IN n.pte = m.pte /\ n.tab = m.tab /\ n.roots = m.roots /\ n.free = m.free - 1
         /\ m.ref[NewFrame(m)] = 0 /\ \A g \in Frames \ {NewFrame(m)} : Take(m, NewFrame(m)).ref[g] = m.ref[g]
<1> PICK f : f = NewFrame(m)
  OBVIOUS
<1>1. /\ MemType(m) /\ H \subseteq Frames /\ Balanced(m, H) /\ HeldUnmapped(m, H)
      /\ Counted(m) /\ Rooted(m) /\ WritableOnce(m)
  BY DEF MemOK
<1>2. f \in Frames /\ m.ref[f] = 0
  <2>1. ASSUME \A g \in Frames : m.ref[g] # 0 PROVE FALSE
    <3>1. Used(m) = Frames
      BY <1>1, <2>1 DEF Used, MemType
    <3>2. /\ Cardinality(Frames) \in Nat /\ Cardinality(m.roots) \in Nat /\ Cardinality(Tabled(m)) \in Nat
          /\ Cardinality(m.roots) # 0
      BY <1>1, <3>1, Counts
    <3>3. m.free = Memory - Cardinality(Frames) - Cardinality(m.roots) - Cardinality(Tabled(m))
      BY <1>1, <3>1 DEF Counted
    <3> QED
      BY <3>2, <3>3, MemoryAssumption
  <2> QED
    BY <2>1 DEF NewFrame
<1> DEFINE n == Take(m, f)
<1>3. /\ n.ref = [m.ref EXCEPT ![f] = 1] /\ n.free = m.free - 1 /\ n.lost = m.lost
      /\ n.roots = m.roots /\ n.tab = m.tab /\ n.pte = m.pte
      /\ Fields(n, {"free", "ref", "lost", "roots", "tab", "pte"})
  <2>1. /\ n.ref = [m.ref EXCEPT ![f] = 1] /\ n.free = m.free - 1 /\ n.lost = m.lost
        /\ n.roots = m.roots /\ n.tab = m.tab /\ n.pte = m.pte
    BY <1>1 DEF Take, MemType
  <2>2. Fields(n, {"free", "ref", "lost", "roots", "tab", "pte"})
    BY <1>1 DEF Take, MemType, Fields
  <2> QED
    BY <2>1, <2>2
<1> HIDE DEF n
<1>4. MemType(n)
  <2>1. [m.ref EXCEPT ![f] = 1] \in [Frames -> Nat] /\ m.free - 1 \in Nat
    BY <1>1, <1>2 DEF MemType
  <2> QED
    BY <1>1, <1>3, <2>1, MemTyped, MemParts
<1>5. /\ \A g : Maps(n, g) = Maps(m, g)
      /\ \A g : Writable(n, g) = Writable(m, g) /\ Tabled(n) = Tabled(m)
  BY <1>3 DEF Maps, Writable, Tabled
<1>6. Maps(m, f) = {} /\ f \notin H /\ m.lost[f] = 0
  <2>1. m.ref[f] = Cardinality(Maps(m, f)) + (IF f \in H THEN 1 ELSE 0) + m.lost[f]
    BY <1>1, <1>2 DEF Balanced
  <2>2. Cardinality(Maps(m, f)) \in Nat /\ m.lost[f] \in Nat
    BY <1>1, <1>2, Counts DEF MemType
  <2> QED
    BY <1>1, <1>2, <2>1, <2>2, Counts
<1>7. Balanced(n, H \cup {f})
  <2>1. ASSUME NEW g \in Frames
        PROVE  n.ref[g] = Cardinality(Maps(n, g)) + (IF g \in H \cup {f} THEN 1 ELSE 0) + n.lost[g]
    <3>1. CASE g = f
      <4>1. n.ref[f] = 1 /\ Cardinality(Maps(n, f)) = 0 /\ n.lost[f] = 0
        BY <1>1, <1>2, <1>3, <1>5, <1>6, FS_EmptySet DEF MemType
      <4> QED
        BY <3>1, <4>1
    <3>2. CASE g # f
      BY <1>1, <1>3, <1>5, <3>2 DEF Balanced, MemType
    <3> QED
      BY <3>1, <3>2
  <2> QED
    BY <2>1 DEF Balanced
<1>8. Used(n) = Used(m) \cup {f} /\ f \notin Used(m)
  BY <1>1, <1>2, <1>3 DEF Used, MemType
<1>9. Counted(n)
  <2>1. Cardinality(Used(n)) = Cardinality(Used(m)) + 1
    BY <1>1, <1>8, Counts, FS_AddElement
  <2> QED
    BY <1>1, <1>3, <1>5, <2>1, Counts, MemoryAssumption DEF Counted, MemType
<1>10. HeldUnmapped(n, H \cup {f}) /\ Rooted(n) /\ WritableOnce(n)
  BY <1>1, <1>3, <1>5, <1>6 DEF HeldUnmapped, Rooted, WritableOnce
<1>11. \A g \in Frames \ {f} : n.ref[g] = m.ref[g]
  BY <1>1, <1>3 DEF MemType
<1> QED
  BY <1>1, <1>2, <1>3, <1>4, <1>6, <1>7, <1>9, <1>10, <1>11 DEF MemOK, n

\* A page for a new root taken from the free ones.
LEMMA TakeRootKeeps ==
  ASSUME NEW m, NEW H, MemOK(m, H), m.free > 0, UserSpaces \ m.roots # {}
  PROVE  /\ NewRoot(m) \in UserSpaces \ m.roots /\ MemOK(TakeRoot(m, NewRoot(m)), H)
         /\ LET n == TakeRoot(m, NewRoot(m))
            IN /\ n.pte = m.pte /\ n.tab = m.tab /\ n.ref = m.ref
               /\ n.roots = m.roots \cup {NewRoot(m)} /\ n.free = m.free - 1
<1> PICK r : r = NewRoot(m)
  OBVIOUS
<1>1. /\ MemType(m) /\ H \subseteq Frames /\ Balanced(m, H) /\ HeldUnmapped(m, H)
      /\ Counted(m) /\ Rooted(m) /\ WritableOnce(m)
  BY DEF MemOK
<1>2. r \in UserSpaces \ m.roots
  <2>1. \E s \in Spaces \ {KernelRoot} : s \notin m.roots
    BY NameAssumption DEF Spaces
  <2> QED
    BY <2>1 DEF NewRoot, Spaces
<1> DEFINE n == TakeRoot(m, r)
<1>3. /\ n.ref = m.ref /\ n.free = m.free - 1 /\ n.lost = m.lost
      /\ n.roots = m.roots \cup {r} /\ n.tab = m.tab /\ n.pte = m.pte
      /\ Fields(n, {"free", "ref", "lost", "roots", "tab", "pte"})
  <2>1. /\ n.ref = m.ref /\ n.free = m.free - 1 /\ n.lost = m.lost
        /\ n.roots = m.roots \cup {r} /\ n.tab = m.tab /\ n.pte = m.pte
    BY <1>1 DEF TakeRoot, MemType
  <2>2. Fields(n, {"free", "ref", "lost", "roots", "tab", "pte"})
    BY <1>1 DEF TakeRoot, MemType, Fields
  <2> QED
    BY <2>1, <2>2
<1> HIDE DEF n
<1>4. MemType(n)
  <2>1. m.roots \cup {r} \in SUBSET UserSpaces /\ m.free - 1 \in Nat
    BY <1>1, <1>2, MemParts
  <2> QED
    BY <1>1, <1>3, <2>1, MemTyped, MemParts
<1>5. /\ \A g : Maps(n, g) = Maps(m, g)
      /\ \A g : Writable(n, g) = Writable(m, g) /\ Tabled(n) = Tabled(m) /\ Used(n) = Used(m)
  BY <1>3 DEF Maps, Writable, Tabled, Used
<1>6. Counted(n)
  <2>1. Cardinality(n.roots) = Cardinality(m.roots) + 1
    BY <1>1, <1>2, <1>3, Counts, FS_AddElement
  <2>2. m.free \in Nat /\ Cardinality(m.roots) \in Nat /\ Memory \in Nat
        /\ Cardinality(Used(m)) \in Nat /\ Cardinality(Tabled(m)) \in Nat
    BY <1>1, Counts, MemParts, MemoryAssumption
  <2>3. n.free = m.free - 1 /\ Cardinality(Used(n)) = Cardinality(Used(m))
        /\ Cardinality(Tabled(n)) = Cardinality(Tabled(m))
    BY <1>3, <1>5
  <2> QED
    BY <1>1, <2>1, <2>2, <2>3 DEF Counted
<1>7. Balanced(n, H) /\ HeldUnmapped(n, H) /\ Rooted(n) /\ WritableOnce(n)
  BY <1>1, <1>3, <1>5 DEF Balanced, HeldUnmapped, Rooted, WritableOnce
<1> QED
  BY <1>1, <1>2, <1>3, <1>4, <1>6, <1>7 DEF MemOK, n

\* A count that stops at zero, as put_page does.
LEMMA MaxOf ==
  ASSUME NEW x \in Int
  PROVE  Max({0, x}) = IF x > 0 THEN x ELSE 0
<1> DEFINE M == Max({0, x})
<1>1. \E y \in {0, x} : \A z \in {0, x} : y >= z
  OBVIOUS
<1>2. M \in {0, x} /\ \A z \in {0, x} : M >= z
  BY <1>1 DEF Max
<1> HIDE DEF M
<1> QED
  BY <1>2 DEF M

\* put_page for many frames at once.
LEMMA PutPagesIs ==
  ASSUME NEW m, MemType(m), Counted(m), NEW k \in [Frames -> Nat]
  PROVE  LET n == PutPages(m, k)
         IN /\ MemType(n) /\ Counted(n)
            /\ n.lost = m.lost /\ n.roots = m.roots /\ n.tab = m.tab /\ n.pte = m.pte
            /\ \A f \in Frames : n.ref[f] = IF m.ref[f] > k[f] THEN m.ref[f] - k[f] ELSE 0
<1> DEFINE left == [f \in Frames |-> Max({0, m.ref[f] - k[f]})]
           Freed == {f \in Frames : m.ref[f] > 0 /\ left[f] = 0}
           n == PutPages(m, k)
<1>1. \A f \in Frames : m.ref[f] \in Nat /\ k[f] \in Nat
  BY DEF MemType
<1>2. \A f \in Frames : left[f] = IF m.ref[f] > k[f] THEN m.ref[f] - k[f] ELSE 0
  <2>1. ASSUME NEW f \in Frames PROVE left[f] = IF m.ref[f] > k[f] THEN m.ref[f] - k[f] ELSE 0
    <3>1. m.ref[f] - k[f] \in Int
      BY <1>1
    <3>2. left[f] = IF m.ref[f] - k[f] > 0 THEN m.ref[f] - k[f] ELSE 0
      BY <3>1, MaxOf
    <3> QED
      BY <1>1, <3>2
  <2> QED
    BY <2>1
<1>3. left \in [Frames -> Nat]
  <2>1. \A f \in Frames : left[f] \in Nat
    BY <1>1, <1>2
  <2> QED
    BY <2>1
<1>4. n = [m EXCEPT !.ref = left, !.free = @ + Cardinality(Freed)]
  BY DEF PutPages
<1> HIDE DEF left
<1>5. /\ Freed \subseteq Used(m) /\ IsFiniteSet(Used(m)) /\ Cardinality(Used(m)) \in Nat
      /\ IsFiniteSet(Freed) /\ Cardinality(Freed) \in Nat
  <2>1. Freed \subseteq Used(m)
    BY DEF Used
  <2>2. IsFiniteSet(Used(m)) /\ Cardinality(Used(m)) \in Nat
    BY Counts
  <2> HIDE DEF Freed
  <2> QED
    BY <2>1, <2>2, FS_Subset, FS_CardinalityType
<1> HIDE DEF n
<1>6. /\ n.ref = left /\ n.free = m.free + Cardinality(Freed) /\ n.lost = m.lost
      /\ n.roots = m.roots /\ n.tab = m.tab /\ n.pte = m.pte
  <2> HIDE DEF Freed
  <2> QED
    BY <1>4 DEF MemType
<1>7. Fields(n, {"free", "ref", "lost", "roots", "tab", "pte"})
  <2> HIDE DEF Freed
  <2> QED
    BY <1>4 DEF MemType, Fields
<1>8. MemType(n)
  <2>1. n.free \in Nat
    BY <1>5, <1>6, MemParts
  <2> QED
    BY <1>3, <1>6, <1>7, <2>1, MemTyped, MemParts
<1>9. Used(n) = Used(m) \ Freed
  BY <1>1, <1>2, <1>6 DEF Used
<1>10. Counted(n)
  <2>1. Used(m) \cap Freed = Freed
    BY <1>5
  <2> HIDE DEF Freed
  <2>2. Cardinality(Used(n)) = Cardinality(Used(m)) - Cardinality(Freed)
    BY <1>5, <1>9, <2>1, FS_Difference
  <2>3. m.free \in Nat /\ Cardinality(m.roots) \in Nat /\ Cardinality(Tabled(m)) \in Nat /\ Memory \in Nat
    BY Counts, MemParts, MemoryAssumption
  <2>4. Tabled(n) = Tabled(m)
    BY <1>6 DEF Tabled
  <2> QED
    BY <1>5, <1>6, <2>2, <2>3, <2>4 DEF Counted
<1> QED
  BY <1>2, <1>6, <1>8, <1>10 DEF n

\* A handler gives back the frame it holds.
LEMMA PutKeeps ==
  ASSUME NEW m, NEW H, MemOK(m, H), NEW f \in H
  PROVE  /\ MemOK(PutPage(m, f), H \ {f})
         /\ LET n == PutPage(m, f)
            IN n.pte = m.pte /\ n.tab = m.tab /\ n.roots = m.roots
<1>1. /\ MemType(m) /\ H \subseteq Frames /\ Balanced(m, H) /\ HeldUnmapped(m, H)
      /\ Counted(m) /\ Rooted(m) /\ WritableOnce(m)
  BY DEF MemOK
<1> DEFINE k == [g \in Frames |-> IF g = f THEN 1 ELSE 0]
           n == PutPage(m, f)
<1>2. k \in [Frames -> Nat] /\ n = PutPages(m, k)
  BY DEF PutPage
<1> HIDE DEF k, n
<1>3. /\ MemType(n) /\ Counted(n)
      /\ n.lost = m.lost /\ n.roots = m.roots /\ n.tab = m.tab /\ n.pte = m.pte
      /\ \A g \in Frames : n.ref[g] = IF m.ref[g] > k[g] THEN m.ref[g] - k[g] ELSE 0
  BY <1>1, <1>2, PutPagesIs
<1>4. /\ \A g : Maps(n, g) = Maps(m, g) /\ Writable(n, g) = Writable(m, g)
  BY <1>3 DEF Maps, Writable
<1>5. Balanced(n, H \ {f})
  <2>1. ASSUME NEW g \in Frames
        PROVE  n.ref[g] = Cardinality(Maps(n, g)) + (IF g \in H \ {f} THEN 1 ELSE 0) + n.lost[g]
    <3>1. /\ m.ref[g] = Cardinality(Maps(m, g)) + (IF g \in H THEN 1 ELSE 0) + m.lost[g]
          /\ Cardinality(Maps(m, g)) \in Nat /\ m.lost[g] \in Nat /\ m.ref[g] \in Nat
      BY <1>1, Counts DEF Balanced, MemType
    <3>2. n.ref[g] = IF m.ref[g] > k[g] THEN m.ref[g] - k[g] ELSE 0
      BY <1>3
    <3>3. k[g] = IF g = f THEN 1 ELSE 0
      BY DEF k
    <3> QED
      BY <1>3, <1>4, <3>1, <3>2, <3>3
  <2> QED
    BY <2>1 DEF Balanced
<1>6. HeldUnmapped(n, H \ {f}) /\ Rooted(n) /\ WritableOnce(n)
  BY <1>1, <1>3, <1>4 DEF HeldUnmapped, Rooted, WritableOnce
<1> QED
  BY <1>1, <1>3, <1>5, <1>6 DEF MemOK, n

\* One entry changes: what m and n map, and what they map writable.
EntryIs(m, n, r, v, e) ==
    /\ \A s \in Spaces : \A w \in AllPages : n.pte[s][w] = IF s = r /\ w = v THEN e ELSE m.pte[s][w]
    /\ \A g : Maps(n, g) = (Maps(m, g) \ {<<r, v>>}) \cup
                              (IF e # None /\ e.frame = g THEN {<<r, v>>} ELSE {})
    /\ \A g : Writable(n, g) \subseteq Writable(m, g) \cup
                   (IF e # None /\ e.frame = g THEN {<<r, v>>} ELSE {})
    /\ \A s \in Spaces \ {r} : n.pte[s] = m.pte[s]
    /\ n.pte \in [Spaces -> [AllPages -> Cells \cup {None}]]

\* A write to one entry leaves every other as it was.
LEMMA EntryChanges ==
  ASSUME NEW m, MemType(m), NEW n, NEW r \in Spaces, NEW v \in AllPages, NEW e \in Cells \cup {None},
         n.pte = [m.pte EXCEPT ![r] = [m.pte[r] EXCEPT ![v] = e]]
  PROVE  EntryIs(m, n, r, v, e)
<1>1. m.pte \in [Spaces -> [AllPages -> Cells \cup {None}]]
  BY MemParts
<1>2. \A s \in Spaces : n.pte[s] = IF s = r THEN [m.pte[r] EXCEPT ![v] = e] ELSE m.pte[s]
  BY <1>1
<1>3. \A s \in Spaces : \A w \in AllPages : n.pte[s][w] = IF s = r /\ w = v THEN e ELSE m.pte[s][w]
  BY <1>1, <1>2
<1>4. n.pte \in [Spaces -> [AllPages -> Cells \cup {None}]]
  <2>1. [m.pte[r] EXCEPT ![v] = e] \in [AllPages -> Cells \cup {None}]
    BY <1>1
  <2> QED
    BY <1>1, <2>1
<1>5. \A x \in Spaces \X AllPages : n.pte[x[1]][x[2]] = IF x = <<r, v>> THEN e ELSE m.pte[x[1]][x[2]]
  BY <1>3
<1>6. \A g : Maps(n, g) = (Maps(m, g) \ {<<r, v>>}) \cup (IF e # None /\ e.frame = g THEN {<<r, v>>} ELSE {})
  BY <1>5 DEF Maps
<1>7. \A g : Writable(n, g) \subseteq Writable(m, g) \cup (IF e # None /\ e.frame = g THEN {<<r, v>>} ELSE {})
  <2> TAKE g
  <2>1. ASSUME NEW x \in Writable(n, g), x # <<r, v>> PROVE x \in Writable(m, g)
    <3>1. x \in Spaces \X AllPages /\ n.pte[x[1]][x[2]] = m.pte[x[1]][x[2]]
      BY <1>5, <2>1 DEF Writable, Maps
    <3> QED
      BY <2>1, <3>1 DEF Writable, Maps
  <2>2. ASSUME <<r, v>> \in Writable(n, g) PROVE e # None /\ e.frame = g
    <3>1. <<r, v>> \in Maps(n, g)
      BY <2>2 DEF Writable
    <3> QED
      BY <1>6, <3>1
  <2> QED
    BY <2>1, <2>2
<1> QED
  BY <1>2, <1>3, <1>4, <1>6, <1>7 DEF EntryIs

\* arm64_map_one_page, field by field.
LEMMA MapIs ==
  ASSUME NEW m, MemType(m), NEW r \in Spaces, NEW v \in AllPages, NEW f \in Frames, NEW prot \in Prots,
         CanMap(m, r, v)
  PROVE  LET n == MapPage(m, r, v, f, prot)
         IN /\ n.pte = [m.pte EXCEPT ![r] = [m.pte[r] EXCEPT ![v] = [frame |-> f, prot |-> prot]]]
            /\ n.tab = [m.tab EXCEPT ![r] = @ \cup {Table[v]}]
            /\ n.free = IF MissingTable(m, r, v) THEN m.free - 1 ELSE m.free
            /\ n.free \in Nat
            /\ n.lost = IF m.pte[r][v] = None THEN m.lost
                        ELSE [m.lost EXCEPT ![m.pte[r][v].frame] = @ + 1]
            /\ n.ref = m.ref /\ n.roots = m.roots
            /\ Fields(n, {"free", "ref", "lost", "roots", "tab", "pte"})
<1> DEFINE F == {"free", "ref", "lost", "roots", "tab", "pte"}
           e == [frame |-> f, prot |-> prot]
<1> PICK t : t = IF MissingTable(m, r, v)
                   THEN [m EXCEPT !.tab[r] = @ \cup {Table[v]}, !.free = @ - 1] ELSE m
  OBVIOUS
<1> PICK q : q = [t EXCEPT !.pte[r][v] = e]
  OBVIOUS
<1>1. /\ t.pte = m.pte /\ t.tab = [m.tab EXCEPT ![r] = @ \cup {Table[v]}]
      /\ t.free = IF MissingTable(m, r, v) THEN m.free - 1 ELSE m.free
      /\ t.lost = m.lost /\ t.ref = m.ref /\ t.roots = m.roots /\ Fields(t, F)
  <2>1. CASE MissingTable(m, r, v)
    BY <2>1 DEF MemType, Fields
  <2>2. CASE ~MissingTable(m, r, v)
    <3>1. t = m /\ m.tab[r] \cup {Table[v]} = m.tab[r]
      BY <2>2 DEF MissingTable
    <3>2. m.tab = [m.tab EXCEPT ![r] = m.tab[r]]
      BY DEF MemType
    <3> QED
      BY <2>2, <3>1, <3>2, MemParts
  <2> QED
    BY <2>1, <2>2
<1>2. /\ q.pte = [t.pte EXCEPT ![r] = [t.pte[r] EXCEPT ![v] = e]]
      /\ q.tab = t.tab /\ q.free = t.free /\ q.lost = t.lost /\ q.ref = t.ref /\ q.roots = t.roots
      /\ Fields(q, F)
  BY <1>1 DEF Fields
<1> DEFINE n == MapPage(m, r, v, f, prot)
<1>3. n = IF m.pte[r][v] = None THEN q ELSE Lose(q, m.pte[r][v].frame)
  BY DEF MapPage
<1> HIDE DEF n
<1>4. /\ n.pte = q.pte /\ n.tab = q.tab /\ n.free = q.free /\ n.ref = q.ref /\ n.roots = q.roots
      /\ Fields(n, F)
      /\ n.lost = IF m.pte[r][v] = None THEN q.lost ELSE [q.lost EXCEPT ![m.pte[r][v].frame] = @ + 1]
  BY <1>2, <1>3 DEF Lose, Fields
<1>5. n.free \in Nat
  <2>1. m.free \in Nat /\ (MissingTable(m, r, v) => m.free # 0)
    BY MemParts DEF CanMap, NoMemory
  <2> QED
    BY <1>1, <1>2, <1>4, <2>1
<1> QED
  BY <1>1, <1>2, <1>4, <1>5 DEF n

\* A table more, or the same ones.
LEMMA TableAdded ==
  ASSUME NEW m, MemType(m), NEW n, NEW r \in Spaces, NEW t \in Tables,
         n.tab = [m.tab EXCEPT ![r] = @ \cup {t}]
  PROVE  /\ n.tab \in [Spaces -> SUBSET Tables]
         /\ \A s \in Spaces : n.tab[s] = IF s = r THEN m.tab[r] \cup {t} ELSE m.tab[s]
         /\ Cardinality(Tabled(n)) = Cardinality(Tabled(m)) + (IF t \in m.tab[r] THEN 0 ELSE 1)
<1>1. m.tab \in [Spaces -> SUBSET Tables]
  BY MemParts
<1>2. \A s \in Spaces : n.tab[s] = IF s = r THEN m.tab[r] \cup {t} ELSE m.tab[s]
  BY <1>1
<1>3. n.tab \in [Spaces -> SUBSET Tables]
  BY <1>1
<1>4. Tabled(n) = Tabled(m) \cup {<<r, t>>} /\ (<<r, t>> \in Tabled(m) <=> t \in m.tab[r])
  BY <1>2 DEF Tabled
<1>5. IsFiniteSet(Tabled(m)) /\ Cardinality(Tabled(m)) \in Nat
  BY Counts
<1>6. Cardinality(Tabled(n)) = Cardinality(Tabled(m)) + (IF t \in m.tab[r] THEN 0 ELSE 1)
  <2>1. CASE t \in m.tab[r]
    <3>1. Tabled(n) = Tabled(m)
      BY <1>4, <2>1
    <3> QED
      BY <1>5, <2>1, <3>1
  <2>2. CASE t \notin m.tab[r]
    <3>1. Cardinality(Tabled(n)) = Cardinality(Tabled(m)) + 1
      BY <1>4, <1>5, <2>2, FS_AddElement
    <3> QED
      BY <2>2, <3>1
  <2> QED
    BY <2>1, <2>2
<1> QED
  BY <1>2, <1>3, <1>6

\* No root is added, and at most one frame taken.
CostsOne(m, n) == n.roots = m.roots /\ n.free >= m.free - 1

\* A page is mapped to a frame that the handler held.
LEMMA MapKeeps ==
  ASSUME NEW m, NEW H, MemOK(m, H), NEW r \in m.roots \cup {KernelRoot}, NEW v \in AllPages, NEW f \in H,
         NEW prot \in Prots, CanMap(m, r, v)
  PROVE  /\ MemOK(MapPage(m, r, v, f, prot), H \ {f})
         /\ CostsOne(m, MapPage(m, r, v, f, prot))
<1>1. /\ MemType(m) /\ H \subseteq Frames /\ Balanced(m, H) /\ HeldUnmapped(m, H)
      /\ Counted(m) /\ Rooted(m) /\ WritableOnce(m) /\ f \in Frames
  BY DEF MemOK
<1>2. r \in Spaces /\ r \notin UserSpaces \ m.roots
  BY <1>1, NameAssumption DEF Spaces, MemType
<1> DEFINE n == MapPage(m, r, v, f, prot)
           e == [frame |-> f, prot |-> prot]
           x == <<r, v>>
           old == m.pte[r][v]
<1>3. /\ n.pte = [m.pte EXCEPT ![r] = [m.pte[r] EXCEPT ![v] = e]]
      /\ n.tab = [m.tab EXCEPT ![r] = @ \cup {Table[v]}]
      /\ n.free = (IF MissingTable(m, r, v) THEN m.free - 1 ELSE m.free) /\ n.free \in Nat
      /\ n.lost = (IF old = None THEN m.lost ELSE [m.lost EXCEPT ![old.frame] = @ + 1])
      /\ n.ref = m.ref /\ n.roots = m.roots
      /\ Fields(n, {"free", "ref", "lost", "roots", "tab", "pte"})
  BY <1>1, <1>2, MapIs
<1> HIDE DEF n
<1>4. e \in Cells /\ e # None /\ e.frame = f /\ e.prot = prot
  BY <1>1, NameAssumption DEF Cells
<1>5. Table[v] \in Tables
  BY DEF Tables
<1>6. old \in Cells \cup {None} /\ (old # None => old.frame \in Frames)
  BY <1>1, <1>2 DEF MemType, Cells
<1> HIDE DEF e
<1>7. EntryIs(m, n, r, v, e)
  <2>1. e \in Cells \cup {None}
    BY <1>4
  <2>2. n.pte = [m.pte EXCEPT ![r] = [m.pte[r] EXCEPT ![v] = e]]
    BY <1>3 DEF e
  <2> QED
    BY <1>1, <1>2, <2>1, <2>2, EntryChanges
<1>8. /\ n.tab \in [Spaces -> SUBSET Tables]
      /\ \A s \in Spaces : n.tab[s] = IF s = r THEN m.tab[r] \cup {Table[v]} ELSE m.tab[s]
      /\ Cardinality(Tabled(n)) = Cardinality(Tabled(m)) + (IF Table[v] \in m.tab[r] THEN 0 ELSE 1)
  BY <1>1, <1>2, <1>3, <1>5, TableAdded
<1>9. MemType(n)
  <2>1. n.lost \in [Frames -> Nat]
    BY <1>1, <1>3, <1>6 DEF MemType
  <2>2. m.ref \in [Frames -> Nat] /\ m.roots \in SUBSET UserSpaces
    BY <1>1, MemParts
  <2> QED
    BY <1>3, <1>7, <1>8, <2>1, <2>2, MemTyped DEF EntryIs
<1>10. Maps(m, f) = {} /\ Maps(n, f) = {x}
  BY <1>1, <1>4, <1>7 DEF HeldUnmapped, EntryIs
<1>11. \A g \in Frames \ {f} : Maps(n, g) = Maps(m, g) \ {x}
  BY <1>4, <1>7 DEF EntryIs
<1>12. \A g \in Frames : x \in Maps(m, g) <=> old # None /\ old.frame = g
  BY <1>2 DEF Maps
<1>13. old # None => old.frame # f
  BY <1>1, <1>10, <1>12
<1>14. Balanced(n, H \ {f})
  <2>1. ASSUME NEW g \in Frames
        PROVE  n.ref[g] = Cardinality(Maps(n, g)) + (IF g \in H \ {f} THEN 1 ELSE 0) + n.lost[g]
    <3>1. /\ m.ref[g] = Cardinality(Maps(m, g)) + (IF g \in H THEN 1 ELSE 0) + m.lost[g]
          /\ Cardinality(Maps(m, g)) \in Nat /\ IsFiniteSet(Maps(m, g)) /\ m.lost[g] \in Nat /\ n.ref[g] = m.ref[g]
      BY <1>1, <1>3, Counts DEF Balanced, MemType
    <3>2. n.lost[g] = IF old # None /\ old.frame = g THEN m.lost[g] + 1 ELSE m.lost[g]
      <4>1. m.lost \in [Frames -> Nat]
        BY <1>1, MemParts
      <4> QED
        BY <1>3, <1>6, <4>1
    <3>3. CASE g = f
      <4>1. Cardinality(Maps(m, f)) = 0 /\ Cardinality(Maps(n, f)) = 1
        BY <1>10, FS_EmptySet, FS_Singleton
      <4>2. n.lost[f] = m.lost[f]
        BY <1>13, <3>2, <3>3
      <4> QED
        BY <3>1, <3>3, <4>1, <4>2
    <3>4. CASE g # f
      <4>1. Cardinality(Maps(n, g)) = IF x \in Maps(m, g) THEN Cardinality(Maps(m, g)) - 1
                                      ELSE Cardinality(Maps(m, g))
        BY <1>11, <3>1, <3>4, FS_RemoveElement
      <4>2. x \in Maps(m, g) <=> old # None /\ old.frame = g
        BY <1>12
      <4> HIDE DEF x, old
      <4> QED
        BY <3>1, <3>2, <3>4, <4>1, <4>2
    <3> QED
      BY <3>3, <3>4
  <2> QED
    BY <2>1 DEF Balanced
<1>15. HeldUnmapped(n, H \ {f})
  BY <1>1, <1>11 DEF HeldUnmapped
<1>16. Counted(n)
  <2>1. /\ m.free \in Nat /\ Cardinality(m.roots) \in Nat /\ Cardinality(Used(m)) \in Nat
        /\ Cardinality(Tabled(m)) \in Nat /\ Memory \in Nat
    BY <1>1, Counts, MemParts, MemoryAssumption
  <2>2. Used(n) = Used(m) /\ n.roots = m.roots
    BY <1>3 DEF Used
  <2>3. m.free - n.free = Cardinality(Tabled(n)) - Cardinality(Tabled(m))
    BY <1>3, <1>8, <2>1 DEF MissingTable
  <2> QED
    BY <1>1, <1>3, <1>8, <2>1, <2>2, <2>3 DEF Counted, MissingTable
<1>17. Rooted(n)
  <2>1. \A s \in Spaces : \A w \in AllPages : n.pte[s][w] # None => Table[w] \in n.tab[s]
    BY <1>1, <1>7, <1>8 DEF Rooted, EntryIs
  <2>2. \A s \in UserSpaces \ n.roots : n.tab[s] = {} /\ n.pte[s] = NoPages
    <3>1. \A s \in UserSpaces \ n.roots : s # r /\ s \in Spaces
      BY <1>2, <1>3 DEF Spaces
    <3> QED
      BY <1>1, <1>3, <1>7, <1>8, <3>1 DEF Rooted, EntryIs
  <2> QED
    BY <2>1, <2>2 DEF Rooted
<1>18. WritableOnce(n)
  <2>1. \A g \in Frames : Writable(n, g) \subseteq Maps(n, g)
    BY DEF Writable
  <2>2. \A g \in Frames \ {f} : Writable(n, g) \subseteq Writable(m, g)
    BY <1>4, <1>7 DEF EntryIs
  <2> QED
    BY <1>1, <1>10, <2>1, <2>2 DEF WritableOnce
<1>19. n.free >= m.free - 1
  BY <1>1, <1>3, MemParts
<1> QED
  BY <1>1, <1>3, <1>7, <1>8, <1>9, <1>14, <1>15, <1>16, <1>17, <1>18, <1>19 DEF MemOK, EntryIs, CostsOne, n

\* arm64_unmap_one_page: the entry goes, and its table if that was the last of it.
LEMMA UnmapIs ==
  ASSUME NEW m, MemType(m), Counted(m), Rooted(m), NEW r \in m.roots \cup {KernelRoot},
         NEW v \in AllPages, m.pte[r][v] # None
  PROVE  LET u == UnmapPage(m, r, v)
         IN /\ MemType(u) /\ Counted(u) /\ Rooted(u) /\ EntryIs(m, u, r, v, None)
            /\ u.ref = m.ref /\ u.lost = m.lost /\ u.roots = m.roots
            /\ \A s \in Spaces \ {r} : u.tab[s] = m.tab[s]
            /\ u.tab[r] \subseteq m.tab[r]
<1> DEFINE u == UnmapPage(m, r, v)
           t == Table[v]
           F == {"free", "ref", "lost", "roots", "tab", "pte"}
<1> PICK c : c = [m EXCEPT !.pte[r][v] = None]
  OBVIOUS
<1>0. r \in Spaces /\ r \notin UserSpaces \ m.roots
  BY NameAssumption DEF Spaces, MemType
<1>1. /\ c.pte = [m.pte EXCEPT ![r] = [m.pte[r] EXCEPT ![v] = None]] /\ Fields(c, F)
      /\ c.free = m.free /\ c.ref = m.ref /\ c.lost = m.lost /\ c.roots = m.roots /\ c.tab = m.tab
  BY DEF MemType, Fields
<1>2. EntryIs(m, c, r, v, None)
  <2>1. None \in Cells \cup {None}
    OBVIOUS
  <2> QED
    BY <1>0, <1>1, <2>1, EntryChanges
<1>3. MemType(c)
  BY <1>1, <1>2, MemTyped, MemParts DEF EntryIs
<1>4. t \in m.tab[r] /\ t \in Tables
  BY <1>0 DEF Rooted, Tables
<1>5. u = IF EmptyTable(c, r, t) THEN [c EXCEPT !.tab[r] = @ \ {t}, !.free = @ + 1] ELSE c
  BY DEF UnmapPage
<1> HIDE DEF u, t
<1>6. /\ m.free \in Nat /\ Cardinality(m.roots) \in Nat /\ Cardinality(Used(m)) \in Nat
      /\ Cardinality(Tabled(m)) \in Nat /\ IsFiniteSet(Tabled(m)) /\ Memory \in Nat
      /\ m.tab \in [Spaces -> SUBSET Tables]
  BY Counts, MemParts, MemoryAssumption
<1>7. CASE ~EmptyTable(c, r, t)
  <2>1. u = c
    BY <1>5, <1>7
  <2>2. Counted(c)
    <3>1. Used(c) = Used(m) /\ Tabled(c) = Tabled(m)
      BY <1>1 DEF Used, Tabled
    <3> QED
      BY <1>1, <3>1 DEF Counted
  <2>3. Rooted(c)
    <3>1. \A s \in Spaces : \A w \in AllPages : c.pte[s][w] # None => Table[w] \in c.tab[s]
      BY <1>1, <1>2 DEF Rooted, EntryIs
    <3>2. \A s \in UserSpaces \ c.roots : c.tab[s] = {} /\ c.pte[s] = NoPages
      BY <1>0, <1>1, <1>2 DEF Rooted, EntryIs, Spaces
    <3> QED
      BY <3>1, <3>2 DEF Rooted
  <2> QED
    BY <1>1, <1>2, <1>3, <2>1, <2>2, <2>3 DEF u
<1>8. CASE EmptyTable(c, r, t)
  <2>1. /\ u.tab = [c.tab EXCEPT ![r] = @ \ {t}] /\ u.free = c.free + 1
        /\ u.pte = c.pte /\ u.ref = c.ref /\ u.lost = c.lost /\ u.roots = c.roots /\ Fields(u, F)
    BY <1>1, <1>5, <1>8 DEF Fields
  <2>2. \A s \in Spaces : u.tab[s] = IF s = r THEN m.tab[r] \ {t} ELSE m.tab[s]
    BY <1>1, <1>6, <2>1
  <2>3. MemType(u)
    <3>1. u.tab \in [Spaces -> SUBSET Tables] /\ u.free \in Nat
      <4>1. m.tab[r] \ {t} \in SUBSET Tables /\ u.tab = [m.tab EXCEPT ![r] = @ \ {t}]
        BY <1>0, <1>1, <1>6, <2>1
      <4>2. u.tab \in [Spaces -> SUBSET Tables]
        BY <1>6, <4>1
      <4> QED
        BY <1>1, <1>6, <2>1, <4>2
    <3> QED
      BY <1>3, <2>1, <3>1, MemTyped, MemParts
  <2>4. Counted(u)
    <3>1. Used(u) = Used(m)
      BY <1>1, <2>1 DEF Used
    <3>2. PICK y : Tabled(u) = Tabled(m) \ {y} /\ y \in Tabled(m)
      <4>1. Tabled(u) = Tabled(m) \ {<<r, t>>} /\ <<r, t>> \in Tabled(m)
        BY <1>0, <1>4, <2>2 DEF Tabled
      <4> QED
        BY <4>1, Zenon
    <3>3. Cardinality(Tabled(u)) = Cardinality(Tabled(m)) - 1
      <4>1. PICK S : S = Tabled(m)
        OBVIOUS
      <4>2. IsFiniteSet(S) /\ y \in S
        BY <1>6, <3>2, <4>1
      <4>3. Cardinality(S \ {y}) = Cardinality(S) - 1
        BY <4>2, FS_RemoveElement
      <4> QED
        BY <3>2, <4>1, <4>3
    <3> QED
      BY <1>1, <1>6, <2>1, <3>1, <3>3 DEF Counted
  <2>5. EntryIs(m, u, r, v, None)
    <3>1. u.pte = [m.pte EXCEPT ![r] = [m.pte[r] EXCEPT ![v] = None]]
      BY <1>1, <2>1
    <3>2. None \in Cells \cup {None}
      OBVIOUS
    <3> QED
      BY <1>0, <3>1, <3>2, EntryChanges
  <2>6. Rooted(u)
    <3>1. ASSUME NEW s \in Spaces, NEW w \in AllPages, u.pte[s][w] # None PROVE Table[w] \in u.tab[s]
      <4>1. Table[w] \in m.tab[s]
        BY <2>5, <3>1 DEF Rooted, EntryIs
      <4>2. s = r => Table[w] # t
        BY <1>8, <2>1, <3>1 DEF EmptyTable
      <4> QED
        BY <2>2, <4>1, <4>2
    <3>2. \A s \in UserSpaces \ u.roots : u.tab[s] = {} /\ u.pte[s] = NoPages
      BY <1>0, <1>1, <2>1, <2>2, <2>5 DEF Rooted, EntryIs, Spaces
    <3> QED
      BY <3>1, <3>2 DEF Rooted
  <2> QED
    BY <1>0, <1>1, <2>1, <2>2, <2>3, <2>4, <2>5, <2>6 DEF u
<1> QED
  BY <1>7, <1>8

\* A page is unmapped and its reference given back.
LEMMA DropKeeps ==
  ASSUME NEW m, NEW H, MemOK(m, H), NEW r \in m.roots \cup {KernelRoot}, NEW v \in AllPages
  PROVE  /\ MemOK(DropPage(m, r, v), H)
         /\ LET n == DropPage(m, r, v)
            IN /\ n.roots = m.roots
               /\ \A s \in Spaces \ {r} : n.pte[s] = m.pte[s] /\ n.tab[s] = m.tab[s]
               /\ n.tab[r] \subseteq m.tab[r]
<1>1. /\ MemType(m) /\ H \subseteq Frames /\ Balanced(m, H) /\ HeldUnmapped(m, H)
      /\ Counted(m) /\ Rooted(m) /\ WritableOnce(m)
  BY DEF MemOK
<1>2. CASE m.pte[r][v] = None
  <2>1. DropPage(m, r, v) = m
    BY <1>2 DEF DropPage
  <2> QED
    BY <2>1
<1>3. CASE m.pte[r][v] # None
  <2> DEFINE n == DropPage(m, r, v)
             x == <<r, v>>
  <2> PICK u, f : u = UnmapPage(m, r, v) /\ f = m.pte[r][v].frame
    OBVIOUS
  <2> PICK k : k = [g \in Frames |-> IF g = f THEN 1 ELSE 0]
    OBVIOUS
  <2>1. n = PutPages(u, k) /\ k \in [Frames -> Nat]
    BY <1>3 DEF DropPage, PutPage
  <2>2. /\ MemType(u) /\ Counted(u) /\ Rooted(u) /\ EntryIs(m, u, r, v, None)
        /\ u.ref = m.ref /\ u.lost = m.lost /\ u.roots = m.roots
        /\ \A s \in Spaces \ {r} : u.tab[s] = m.tab[s]
        /\ u.tab[r] \subseteq m.tab[r]
    BY <1>1, <1>3, UnmapIs
  <2> HIDE DEF n
  <2>3. /\ MemType(n) /\ Counted(n)
        /\ n.lost = u.lost /\ n.roots = u.roots /\ n.tab = u.tab /\ n.pte = u.pte
        /\ \A g \in Frames : n.ref[g] = IF u.ref[g] > k[g] THEN u.ref[g] - k[g] ELSE 0
    BY <2>1, <2>2, PutPagesIs
  <2>4. r \in Spaces /\ f \in Frames
    BY <1>1, <1>3, NameAssumption DEF Spaces, MemType, Cells
  <2>5. \A g : Maps(n, g) = Maps(m, g) \ {x} /\ Writable(n, g) \subseteq Writable(m, g)
    <3>1. \A g : Maps(n, g) = Maps(u, g) /\ Writable(n, g) = Writable(u, g)
      BY <2>3 DEF Maps, Writable
    <3>2. \A g : Maps(u, g) = Maps(m, g) \ {x} /\ Writable(u, g) \subseteq Writable(m, g)
      BY <2>2 DEF EntryIs
    <3> QED
      BY <3>1, <3>2
  <2>6. \A g \in Frames : x \in Maps(m, g) <=> g = f
    BY <1>3, <2>4 DEF Maps
  <2>7. Balanced(n, H)
    <3>1. ASSUME NEW g \in Frames
          PROVE  n.ref[g] = Cardinality(Maps(n, g)) + (IF g \in H THEN 1 ELSE 0) + n.lost[g]
      <4>1. /\ m.ref[g] = Cardinality(Maps(m, g)) + (IF g \in H THEN 1 ELSE 0) + m.lost[g]
            /\ Cardinality(Maps(m, g)) \in Nat /\ IsFiniteSet(Maps(m, g)) /\ m.lost[g] \in Nat /\ m.ref[g] \in Nat
        BY <1>1, Counts DEF Balanced, MemType
      <4>2. n.ref[g] = (IF m.ref[g] > k[g] THEN m.ref[g] - k[g] ELSE 0) /\ n.lost[g] = m.lost[g]
        BY <2>2, <2>3
      <4>3. CASE g = f
        <5>1. Cardinality(Maps(n, g)) = Cardinality(Maps(m, g)) - 1 /\ x \in Maps(m, g)
          BY <2>5, <2>6, <4>1, <4>3, FS_RemoveElement
        <5>2. Cardinality(Maps(m, g)) # 0
          BY <4>1, <5>1, FS_EmptySet
        <5>3. k[g] = 1
          BY <4>3
        <5> QED
          BY <4>1, <4>2, <5>1, <5>2, <5>3
      <4>4. CASE g # f
        <5>1. Maps(n, g) = Maps(m, g) /\ k[g] = 0
          BY <2>5, <2>6, <4>4
        <5> QED
          BY <4>1, <4>2, <5>1
      <4> QED
        BY <4>3, <4>4
    <3> QED
      BY <3>1 DEF Balanced
  <2>8. HeldUnmapped(n, H)
    BY <1>1, <2>5 DEF HeldUnmapped
  <2>9. Rooted(n)
    BY <2>2, <2>3 DEF Rooted
  <2>10. WritableOnce(n)
    BY <1>1, <2>5 DEF WritableOnce
  <2>11. \A s \in Spaces \ {r} : n.pte[s] = m.pte[s]
    BY <2>2, <2>3 DEF EntryIs
  <2> QED
    BY <1>1, <2>2, <2>3, <2>7, <2>8, <2>9, <2>10, <2>11 DEF MemOK, n
<1> QED
  BY <1>2, <1>3

\* What fork writes into the child names the same frame and is not writable.
LEMMA SharedIs ==
  ASSUME NEW e \in Cells \cup {None}
  PROVE  /\ Shared(e) \in Cells \cup {None} /\ (Shared(e) = None <=> e = None)
         /\ e # None => Shared(e).frame = e.frame /\ Shared(e).prot # "rw"
BY NameAssumption DEF Shared, Cells, Prots

\* As many entries as pages.
LEMMA CountRow ==
  ASSUME NEW d, NEW A, IsFiniteSet(A)
  PROVE  LET S == {<<d, v>> : v \in A} IN IsFiniteSet(S) /\ Cardinality(S) = Cardinality(A)
<1> DEFINE S == {<<d, v>> : v \in A}
           b == [v \in A |-> <<d, v>>]
<1>1. b \in Bijection(A, S)
  <2>1. b \in [A -> S] /\ \A v \in A : b[v] = <<d, v>>
    OBVIOUS
  <2>2. \A v, w \in A : b[v] = b[w] => v = w
    OBVIOUS
  <2>3. \A x \in S : \E v \in A : b[v] = x
    OBVIOUS
  <2> HIDE DEF b, S
  <2>4. b \in Injection(A, S) /\ b \in Surjection(A, S)
    BY <2>1, <2>2, <2>3 DEF Injection, IsInjective, Surjection
  <2> QED
    BY <2>4 DEF Bijection
<1>2. ExistsBijection(A, S)
  BY <1>1 DEF ExistsBijection
<1> HIDE DEF S
<1>3. IsFiniteSet(S) /\ Cardinality(S) = Cardinality(A)
  BY <1>2, FS_Bijection
<1> QED
  BY <1>3 DEF S

\* fork copies one table of the parent.
LEMMA CopyKeeps ==
  ASSUME NEW m, NEW H, MemOK(m, H), NEW src \in m.roots, NEW dst \in m.roots, src # dst,
         NEW t \in Tables, t \notin m.tab[dst], m.free > 0
  PROVE  /\ MemOK(CopyTable(m, src, dst, t), H)
         /\ LET n == CopyTable(m, src, dst, t)
            IN /\ n.roots = m.roots
               /\ \A s \in Spaces \ {dst} : n.pte[s] = m.pte[s] /\ n.tab[s] = m.tab[s]
               /\ n.tab[dst] = m.tab[dst] \cup {t}
<1> DEFINE n == CopyTable(m, src, dst, t)
           F == {"free", "ref", "lost", "roots", "tab", "pte"}
<1> PICK here : here = {v \in Pages : Table[v] = t}
  OBVIOUS
<1> DEFINE A(g) == {v \in here : m.pte[src][v] # None /\ m.pte[src][v].frame = g}
           New(g) == {<<dst, v>> : v \in A(g)}
<1>1. /\ MemType(m) /\ H \subseteq Frames /\ Balanced(m, H) /\ HeldUnmapped(m, H)
      /\ Counted(m) /\ Rooted(m) /\ WritableOnce(m)
  BY DEF MemOK
<1>2. /\ src \in Spaces /\ dst \in Spaces /\ here \subseteq AllPages /\ IsFiniteSet(here)
      /\ m.pte \in [Spaces -> [AllPages -> Cells \cup {None}]]
      /\ m.ref \in [Frames -> Nat] /\ m.free \in Nat /\ m.roots \in SUBSET UserSpaces
  <2>1. m.roots \in SUBSET UserSpaces
    BY <1>1, MemParts
  <2>2. here \subseteq AllPages /\ IsFiniteSet(here)
    <3>1. here \subseteq AllPages
      BY DEF AllPages
    <3> QED
      BY <3>1, PageAssumption, FS_Subset
  <2> QED
    BY <1>1, <2>1, <2>2, MemParts DEF Spaces
<1> PICK row : row = [v \in AllPages |-> IF v \in here THEN Shared(m.pte[src][v]) ELSE m.pte[dst][v]]
  OBVIOUS
<1>3. /\ n.free = m.free - 1 /\ n.lost = m.lost /\ n.roots = m.roots /\ Fields(n, F)
      /\ n.tab = [m.tab EXCEPT ![dst] = @ \cup {t}] /\ n.pte = [m.pte EXCEPT ![dst] = row]
      /\ n.ref = [f \in Frames |-> m.ref[f] + Cardinality(A(f))]
  <2> PICK more : more = Uses(m.pte[src], here)
    OBVIOUS
  <2>1. \A f \in Frames : more[f] = Cardinality(A(f))
    BY DEF Uses
  <2>2. n = [m EXCEPT !.free = @ - 1, !.tab[dst] = @ \cup {t}, !.pte[dst] = row,
                      !.ref = [f \in Frames |-> m.ref[f] + more[f]]]
    BY DEF CopyTable
  <2> HIDE DEF n, A
  <2>3. Fields(m, F)
    BY <1>1, MemParts
  <2>4. /\ n.free = m.free - 1 /\ n.lost = m.lost /\ n.roots = m.roots /\ Fields(n, F)
        /\ n.tab = [m.tab EXCEPT ![dst] = @ \cup {t}] /\ n.pte = [m.pte EXCEPT ![dst] = row]
        /\ n.ref = [f \in Frames |-> m.ref[f] + more[f]]
    BY <2>2, <2>3 DEF Fields
  <2> QED
    BY <2>1, <2>4
<1> HIDE DEF n
<1>4. \A v \in here : m.pte[dst][v] = None
  BY <1>1, <1>2 DEF Rooted
<1>5. row \in [AllPages -> Cells \cup {None}]
  <2>1. \A v \in AllPages : row[v] \in Cells \cup {None}
    BY <1>2, SharedIs
  <2> QED
    BY <2>1
<1>6. \A s \in Spaces : n.pte[s] = IF s = dst THEN row ELSE m.pte[s]
  BY <1>2, <1>3
<1>7. /\ n.tab \in [Spaces -> SUBSET Tables]
      /\ \A s \in Spaces : n.tab[s] = IF s = dst THEN m.tab[dst] \cup {t} ELSE m.tab[s]
      /\ Cardinality(Tabled(n)) = Cardinality(Tabled(m)) + 1
  <2>1. /\ n.tab \in [Spaces -> SUBSET Tables]
        /\ \A s \in Spaces : n.tab[s] = IF s = dst THEN m.tab[dst] \cup {t} ELSE m.tab[s]
    BY <1>1, <1>2, <1>3 DEF MemType
  <2>2. PICK y : Tabled(n) = Tabled(m) \cup {y} /\ y \notin Tabled(m)
    <3>1. Tabled(n) = Tabled(m) \cup {<<dst, t>>} /\ <<dst, t>> \notin Tabled(m)
      BY <1>2, <2>1 DEF Tabled
    <3> QED
      BY <3>1, Zenon
  <2>3. IsFiniteSet(Tabled(m))
    BY <1>1, Counts
  <2>4. Cardinality(Tabled(n)) = Cardinality(Tabled(m)) + 1
    BY <2>2, <2>3, FS_AddElement
  <2> QED
    BY <2>1, <2>4
<1>8. \A g : A(g) \subseteq here /\ IsFiniteSet(A(g)) /\ Cardinality(A(g)) \in Nat
  <2>1. \A g : A(g) \subseteq here
    OBVIOUS
  <2> HIDE DEF A
  <2> QED
    BY <1>2, <2>1, FS_Subset, FS_CardinalityType
<1>9. \A g : Maps(n, g) = Maps(m, g) \cup New(g) /\ Maps(m, g) \cap New(g) = {}
  <2> TAKE g
  <2>1. Maps(n, g) \subseteq Maps(m, g) \cup New(g)
    <3>1. ASSUME NEW x \in Maps(n, g), x \notin Maps(m, g) PROVE x \in New(g)
      <4>1. /\ x \in Spaces \X AllPages /\ n.pte[x[1]][x[2]] # None /\ n.pte[x[1]][x[2]].frame = g
            /\ n.pte[x[1]][x[2]] # m.pte[x[1]][x[2]]
        BY <3>1 DEF Maps
      <4>2. x[1] = dst /\ x[2] \in here /\ x = <<dst, x[2]>> /\ n.pte[x[1]][x[2]] = Shared(m.pte[src][x[2]])
        BY <1>6, <4>1
      <4>3. m.pte[src][x[2]] \in Cells \cup {None}
        BY <1>2, <4>2
      <4>4. m.pte[src][x[2]] # None /\ m.pte[src][x[2]].frame = g
        BY <4>1, <4>2, <4>3, SharedIs
      <4> QED
        BY <4>2, <4>4
    <3> QED
      BY <3>1
  <2>2. ASSUME NEW x \in Maps(m, g) PROVE x \in Maps(n, g) /\ x \notin New(g)
    <3>1. x \in Spaces \X AllPages /\ m.pte[x[1]][x[2]] # None /\ m.pte[x[1]][x[2]].frame = g
      BY <2>2 DEF Maps
    <3>2. ~(x[1] = dst /\ x[2] \in here)
      BY <1>4, <3>1
    <3>3. n.pte[x[1]][x[2]] = m.pte[x[1]][x[2]]
      BY <1>6, <3>1, <3>2
    <3> QED
      BY <3>1, <3>2, <3>3 DEF Maps
  <2>3. ASSUME NEW v \in A(g) PROVE <<dst, v>> \in Maps(n, g)
    <3>1. v \in AllPages /\ n.pte[dst][v] = Shared(m.pte[src][v]) /\ m.pte[src][v] \in Cells
      BY <1>2, <1>6, <2>3
    <3>2. n.pte[dst][v] # None /\ n.pte[dst][v].frame = g
      BY <2>3, <3>1, SharedIs, NameAssumption
    <3> QED
      BY <1>2, <3>1, <3>2 DEF Maps
  <2>4. New(g) \subseteq Maps(n, g)
    BY <2>3
  <2> HIDE DEF New, A
  <2> QED
    BY <2>1, <2>2, <2>4
<1>10. \A g : Cardinality(Maps(n, g)) = Cardinality(Maps(m, g)) + Cardinality(A(g))
  <2> TAKE g
  <2>1. IsFiniteSet(New(g)) /\ Cardinality(New(g)) = Cardinality(A(g))
    <3> HIDE DEF A
    <3> QED
      BY <1>8, CountRow
  <2>2. IsFiniteSet(Maps(m, g)) /\ Cardinality(Maps(m, g)) \in Nat
    BY <1>1, Counts
  <2> HIDE DEF New, A
  <2> PICK M, N, c : M = Maps(m, g) /\ N = New(g) /\ c = Cardinality(A(g))
    OBVIOUS
  <2>3. Cardinality(M \cup N) = Cardinality(M) + Cardinality(N) - Cardinality(M \cap N)
    BY <2>1, <2>2, FS_Union
  <2>4. M \cap N = {} /\ Maps(n, g) = M \cup N /\ c \in Nat /\ Cardinality(N) = c /\ Cardinality(M) \in Nat
    BY <1>8, <1>9, <2>1, <2>2
  <2>5. Cardinality(M \cap N) = 0
    BY <2>4, FS_EmptySet
  <2>6. Cardinality(M \cup N) = Cardinality(M) + c
    BY <2>3, <2>4, <2>5
  <2> QED
    BY <2>4, <2>6
<1>11. \A g \in Frames : A(g) # {} => Maps(m, g) # {}
  <2>1. ASSUME NEW g \in Frames, NEW v \in A(g) PROVE <<src, v>> \in Maps(m, g)
    BY <1>2, <2>1 DEF Maps
  <2> QED
    BY <2>1
<1> HIDE DEF A, New
<1>12. MemType(n)
  <2>1. n.ref \in [Frames -> Nat]
    BY <1>2, <1>3, <1>8
  <2>2. n.pte \in [Spaces -> [AllPages -> Cells \cup {None}]]
    BY <1>2, <1>3, <1>5
  <2>3. n.free \in Nat
    BY <1>2, <1>3
  <2> QED
    BY <1>1, <1>3, <1>7, <2>1, <2>2, <2>3, MemTyped, MemParts
<1>13. Balanced(n, H)
  <2>1. ASSUME NEW g \in Frames
        PROVE  n.ref[g] = Cardinality(Maps(n, g)) + (IF g \in H THEN 1 ELSE 0) + n.lost[g]
    <3>1. /\ m.ref[g] = Cardinality(Maps(m, g)) + (IF g \in H THEN 1 ELSE 0) + m.lost[g]
          /\ Cardinality(Maps(m, g)) \in Nat /\ m.lost[g] \in Nat /\ m.ref[g] \in Nat
      BY <1>1, Counts DEF Balanced, MemType
    <3>2. n.ref[g] = m.ref[g] + Cardinality(A(g)) /\ n.lost[g] = m.lost[g] /\ Cardinality(A(g)) \in Nat
      BY <1>3, <1>8
    <3> QED
      BY <1>10, <3>1, <3>2
  <2> QED
    BY <2>1 DEF Balanced
<1>14. HeldUnmapped(n, H)
  <2>1. ASSUME NEW g \in H PROVE Maps(n, g) = {}
    <3>1. Maps(m, g) = {} /\ A(g) = {}
      BY <1>1, <1>11 DEF HeldUnmapped
    <3> QED
      BY <1>9, <3>1 DEF New
  <2> QED
    BY <2>1 DEF HeldUnmapped
<1>15. Counted(n)
  <2>1. Used(n) = Used(m)
    <3>1. ASSUME NEW g \in Frames PROVE n.ref[g] > 0 <=> m.ref[g] > 0
      <4>1. /\ m.ref[g] = Cardinality(Maps(m, g)) + (IF g \in H THEN 1 ELSE 0) + m.lost[g]
            /\ Cardinality(Maps(m, g)) \in Nat /\ m.lost[g] \in Nat /\ m.ref[g] \in Nat
        BY <1>1, Counts DEF Balanced, MemType
      <4>2. n.ref[g] = m.ref[g] + Cardinality(A(g)) /\ Cardinality(A(g)) \in Nat
        BY <1>3, <1>8
      <4>3. Cardinality(A(g)) # 0 => Cardinality(Maps(m, g)) # 0
        BY <1>1, <1>8, <1>11, Counts, FS_EmptySet
      <4> QED
        BY <4>1, <4>2, <4>3
    <3> QED
      BY <3>1 DEF Used
  <2>2. /\ m.free \in Nat /\ Cardinality(m.roots) \in Nat /\ Cardinality(Used(m)) \in Nat
        /\ Cardinality(Tabled(m)) \in Nat /\ Memory \in Nat
    BY <1>1, Counts, MemParts, MemoryAssumption
  <2> QED
    BY <1>1, <1>3, <1>7, <2>1, <2>2 DEF Counted
<1>16. Rooted(n)
  <2>1. ASSUME NEW s \in Spaces, NEW w \in AllPages, n.pte[s][w] # None PROVE Table[w] \in n.tab[s]
    <3>1. CASE s = dst /\ w \in here
      BY <1>7, <3>1
    <3>2. CASE ~(s = dst /\ w \in here)
      <4>1. n.pte[s][w] = m.pte[s][w]
        BY <1>6, <3>2
      <4> QED
        BY <1>1, <1>7, <2>1, <4>1 DEF Rooted
    <3> QED
      BY <3>1, <3>2
  <2>2. \A s \in UserSpaces \ n.roots : n.tab[s] = {} /\ n.pte[s] = NoPages
    BY <1>1, <1>3, <1>6, <1>7 DEF Rooted, Spaces
  <2> QED
    BY <2>1, <2>2 DEF Rooted
<1>17. WritableOnce(n)
  <2>1. ASSUME NEW g \in Frames, NEW x \in Writable(n, g) PROVE x \in Writable(m, g)
    <3>1. x \in Spaces \X AllPages /\ n.pte[x[1]][x[2]] # None /\ n.pte[x[1]][x[2]].frame = g
          /\ n.pte[x[1]][x[2]].prot = "rw"
      BY <2>1 DEF Writable, Maps
    <3>2. ~(x[1] = dst /\ x[2] \in here)
      <4>1. ASSUME x[1] = dst, x[2] \in here PROVE FALSE
        <5>1. n.pte[x[1]][x[2]] = Shared(m.pte[src][x[2]]) /\ m.pte[src][x[2]] \in Cells \cup {None}
          BY <1>2, <1>6, <3>1, <4>1
        <5> QED
          BY <3>1, <5>1, SharedIs
      <4> QED
        BY <4>1
    <3>3. n.pte[x[1]][x[2]] = m.pte[x[1]][x[2]]
      BY <1>6, <3>1, <3>2
    <3> QED
      BY <3>1, <3>3 DEF Writable, Maps
  <2> QED
    BY <1>1, <2>1 DEF WritableOnce
<1> QED
  BY <1>1, <1>2, <1>3, <1>6, <1>7, <1>12, <1>13, <1>14, <1>15, <1>16, <1>17 DEF MemOK, n

\* The entries of f in the tree of r.
Row(m, r, f) == {x \in Maps(m, f) : x[1] = r}

\* The references a tree holds on each frame are numbers, positive where an entry names it.
LEMMA UsesIs ==
  ASSUME NEW pte, NEW k, k = Uses(pte, AllPages)
  PROVE  /\ k \in [Frames -> Nat]
         /\ \A f \in Frames : k[f] > 0 <=> \E v \in AllPages : pte[v] # None /\ pte[v].frame = f
<1> DEFINE A(g) == {v \in AllPages : pte[v] # None /\ pte[v].frame = g}
<1>1. \A g : A(g) \subseteq AllPages
  OBVIOUS
<1>2. \A g : (\E v \in AllPages : pte[v] # None /\ pte[v].frame = g) <=> A(g) # {}
  OBVIOUS
<1>3. k = [f \in Frames |-> Cardinality(A(f))]
  BY DEF Uses
<1> HIDE DEF A
<1>4. \A g : IsFiniteSet(A(g)) /\ Cardinality(A(g)) \in Nat
  BY <1>1, PageAssumption, FS_Subset, FS_CardinalityType
<1>5. \A g : Cardinality(A(g)) > 0 <=> A(g) # {}
  BY <1>4, FS_EmptySet
<1> QED
  BY <1>2, <1>3, <1>4, <1>5

\* The entries of a frame in one space and in the others.
LEMMA RowIs ==
  ASSUME NEW m, MemType(m), NEW r \in Spaces, NEW k, k = Uses(m.pte[r], AllPages)
  PROVE  \A f \in Frames : Row(m, r, f) \subseteq Maps(m, f) /\ k[f] = Cardinality(Row(m, r, f))
<1> DEFINE A(g) == {v \in AllPages : m.pte[r][v] # None /\ m.pte[r][v].frame = g}
<1> TAKE f \in Frames
<1>1. Row(m, r, f) = {<<r, v>> : v \in A(f)}
  <2>1. ASSUME NEW x \in Row(m, r, f) PROVE x = <<r, x[2]>> /\ x[2] \in A(f)
    BY <2>1 DEF Row, Maps
  <2>2. ASSUME NEW v \in A(f) PROVE <<r, v>> \in Row(m, r, f)
    BY <2>2 DEF Row, Maps
  <2> HIDE DEF A
  <2> QED
    BY <2>1, <2>2
<1>2. k[f] = Cardinality(A(f))
  BY DEF Uses
<1>3. IsFiniteSet(A(f))
  <2>1. A(f) \subseteq AllPages
    OBVIOUS
  <2> HIDE DEF A
  <2> QED
    BY <2>1, PageAssumption, FS_Subset
<1>4. Row(m, r, f) \subseteq Maps(m, f)
  BY DEF Row
<1> HIDE DEF A
<1> QED
  BY <1>1, <1>2, <1>3, <1>4, CountRow

\* free_page_table_tree gives back every reference and every table of a space.
LEMMA FreeKeeps ==
  ASSUME NEW m, NEW H, MemOK(m, H), NEW r \in m.roots
  PROVE  /\ MemOK(FreeTree(m, r), H)
         /\ LET n == FreeTree(m, r)
            IN /\ n.roots = m.roots \ {r}
               /\ \A s \in Spaces \ {r} : n.pte[s] = m.pte[s] /\ n.tab[s] = m.tab[s]
<1> DEFINE n == FreeTree(m, r)
           F == {"free", "ref", "lost", "roots", "tab", "pte"}
<1> PICK k : k = Uses(m.pte[r], AllPages)
  OBVIOUS
<1> PICK u : u = PutPages(m, k)
  OBVIOUS
<1>1. /\ MemType(m) /\ H \subseteq Frames /\ Balanced(m, H) /\ HeldUnmapped(m, H)
      /\ Counted(m) /\ Rooted(m) /\ WritableOnce(m)
  BY DEF MemOK
<1>2. r \in UserSpaces /\ r \in Spaces
  BY <1>1 DEF MemType, Spaces
<1>3. /\ k \in [Frames -> Nat]
      /\ \A f \in Frames : k[f] > 0 <=> \E v \in AllPages : m.pte[r][v] # None /\ m.pte[r][v].frame = f
  BY UsesIs
<1>4. \A f \in Frames : Row(m, r, f) \subseteq Maps(m, f) /\ k[f] = Cardinality(Row(m, r, f))
  BY <1>1, <1>2, RowIs
<1>5. /\ MemType(u) /\ Counted(u)
      /\ u.lost = m.lost /\ u.roots = m.roots /\ u.tab = m.tab /\ u.pte = m.pte
      /\ \A f \in Frames : u.ref[f] = IF m.ref[f] > k[f] THEN m.ref[f] - k[f] ELSE 0
  BY <1>1, <1>3, PutPagesIs
<1>6. n = [u EXCEPT !.free = @ + Cardinality(m.tab[r]) + 1, !.roots = @ \ {r},
                    !.tab[r] = {}, !.pte[r] = NoPages]
  BY DEF FreeTree
<1> HIDE DEF n
<1>7. /\ n.free = u.free + Cardinality(m.tab[r]) + 1 /\ n.ref = u.ref /\ n.lost = m.lost
      /\ n.roots = m.roots \ {r} /\ n.tab = [m.tab EXCEPT ![r] = {}] /\ n.pte = [m.pte EXCEPT ![r] = NoPages]
  <2>1. /\ n.free = u.free + Cardinality(m.tab[r]) + 1 /\ n.ref = u.ref /\ n.lost = u.lost
        /\ n.roots = u.roots \ {r} /\ n.tab = [u.tab EXCEPT ![r] = {}] /\ n.pte = [u.pte EXCEPT ![r] = NoPages]
    BY <1>5, <1>6 DEF MemType
  <2> QED
    BY <1>5, <2>1
<1>8. Fields(n, F)
  BY <1>5, <1>6 DEF MemType, Fields
<1>9. /\ m.tab \in [Spaces -> SUBSET Tables] /\ m.pte \in [Spaces -> [AllPages -> Cells \cup {None}]]
      /\ u.free \in Nat /\ u.ref \in [Frames -> Nat] /\ m.lost \in [Frames -> Nat] /\ m.roots \in SUBSET UserSpaces
  BY <1>1, <1>5, MemParts
<1>10. /\ \A s \in Spaces : n.tab[s] = IF s = r THEN {} ELSE m.tab[s]
       /\ \A s \in Spaces : n.pte[s] = IF s = r THEN NoPages ELSE m.pte[s]
  BY <1>2, <1>7, <1>9
<1>11. IsFiniteSet(m.tab[r]) /\ Cardinality(m.tab[r]) \in Nat
  BY <1>2, <1>9, FiniteParts, FS_Subset, FS_CardinalityType
<1>12. MemType(n)
  <2>1. NoPages \in [AllPages -> Cells \cup {None}]
    BY DEF NoPages
  <2>2. n.pte \in [Spaces -> [AllPages -> Cells \cup {None}]]
    BY <1>7, <1>9, <2>1
  <2>3. n.tab \in [Spaces -> SUBSET Tables]
    BY <1>7, <1>9
  <2>4. n.free \in Nat /\ n.roots \in SUBSET UserSpaces
    BY <1>7, <1>9, <1>11
  <2> QED
    BY <1>7, <1>8, <1>9, <2>2, <2>3, <2>4, MemTyped
<1>13. \A f : Maps(n, f) = Maps(m, f) \ Row(m, r, f) /\ Writable(n, f) \subseteq Writable(m, f)
  <2>1. ASSUME NEW s \in Spaces, NEW v \in AllPages
        PROVE  n.pte[s][v] = IF s = r THEN None ELSE m.pte[s][v]
    BY <1>10 DEF NoPages
  <2>2. \A x \in Spaces \X AllPages : n.pte[x[1]][x[2]] = IF x[1] = r THEN None ELSE m.pte[x[1]][x[2]]
    BY <2>1
  <2>3. \A f : Maps(n, f) = Maps(m, f) \ Row(m, r, f)
    BY <2>2 DEF Maps, Row
  <2>4. \A f : Writable(n, f) \subseteq Writable(m, f)
    BY <2>2 DEF Maps, Writable
  <2> QED
    BY <2>3, <2>4
<1>14. Balanced(n, H)
  <2>1. ASSUME NEW f \in Frames
        PROVE  n.ref[f] = Cardinality(Maps(n, f)) + (IF f \in H THEN 1 ELSE 0) + n.lost[f]
    <3> PICK M, R, h : M = Maps(m, f) /\ R = Row(m, r, f) /\ h = IF f \in H THEN 1 ELSE 0
      OBVIOUS
    <3>1. /\ m.ref[f] = Cardinality(M) + h + m.lost[f] /\ IsFiniteSet(M) /\ h \in Nat
          /\ Cardinality(M) \in Nat /\ m.lost[f] \in Nat /\ m.ref[f] \in Nat
      BY <1>1, Counts DEF Balanced, MemType
    <3>2. R \subseteq M /\ k[f] = Cardinality(R) /\ k[f] \in Nat
      BY <1>3, <1>4
    <3>3. M \cap R = R /\ Maps(n, f) = M \ R
      BY <1>13, <3>2
    <3>4. Cardinality(M \ R) = Cardinality(M) - Cardinality(R) /\ Cardinality(R) <= Cardinality(M)
      <4>1. Cardinality(M \ R) = Cardinality(M) - Cardinality(M \cap R)
        BY <3>1, FS_Difference
      <4>2. Cardinality(R) <= Cardinality(M)
        BY <3>1, <3>2, FS_Subset
      <4> QED
        BY <3>3, <4>1, <4>2
    <3>5. n.ref[f] = (IF m.ref[f] > k[f] THEN m.ref[f] - k[f] ELSE 0) /\ n.lost[f] = m.lost[f]
      BY <1>5, <1>7
    <3> QED
      BY <3>1, <3>2, <3>3, <3>4, <3>5
  <2> QED
    BY <2>1 DEF Balanced
<1>15. Counted(n)
  <2>1. Used(n) = Used(u) /\ Tabled(u) = Tabled(m)
    BY <1>5, <1>7 DEF Used, Tabled
  <2>2. Cardinality(n.roots) = Cardinality(m.roots) - 1 /\ Cardinality(m.roots) \in Nat
    BY <1>1, <1>7, Counts, FS_RemoveElement
  <2>3. Cardinality(Tabled(n)) = Cardinality(Tabled(m)) - Cardinality(m.tab[r])
    <3> PICK T, S : T = Tabled(m) /\ S = {<<r, t>> : t \in m.tab[r]}
      OBVIOUS
    <3>1. S \subseteq T /\ Tabled(n) = T \ S
      <4>1. S \subseteq T
        BY <1>2, <1>9 DEF Tabled
      <4>2. \A x \in Spaces \X Tables : x \in S <=> x[1] = r /\ x[2] \in m.tab[r]
        OBVIOUS
      <4>3. Tabled(n) = T \ S
        BY <1>10, <4>2 DEF Tabled
      <4> QED
        BY <4>1, <4>3
    <3>2. Cardinality(S) = Cardinality(m.tab[r]) /\ IsFiniteSet(T)
      <4>1. Cardinality({<<r, t>> : t \in m.tab[r]}) = Cardinality(m.tab[r])
        BY <1>11, CountRow
      <4> QED
        BY <1>1, <4>1, Counts
    <3>3. T \cap S = S
      BY <3>1
    <3>4. Cardinality(T \ S) = Cardinality(T) - Cardinality(T \cap S)
      BY <3>2, FS_Difference
    <3> QED
      BY <3>1, <3>2, <3>3, <3>4
  <2>4. /\ u.free = Memory - Cardinality(Used(u)) - Cardinality(m.roots) - Cardinality(Tabled(m))
        /\ Cardinality(Used(u)) \in Nat /\ Cardinality(Tabled(m)) \in Nat /\ Memory \in Nat
    BY <1>1, <1>5, <2>1, Counts, MemoryAssumption DEF Counted
  <2> QED
    BY <1>7, <1>11, <2>1, <2>2, <2>3, <2>4 DEF Counted
<1>16. Rooted(n)
  <2>1. ASSUME NEW s \in Spaces, NEW w \in AllPages, n.pte[s][w] # None PROVE Table[w] \in n.tab[s]
    BY <1>1, <1>10, <2>1 DEF Rooted, NoPages
  <2>2. \A s \in UserSpaces \ n.roots : n.tab[s] = {} /\ n.pte[s] = NoPages
    BY <1>1, <1>7, <1>10 DEF Rooted, Spaces
  <2> QED
    BY <2>1, <2>2 DEF Rooted
<1>17. HeldUnmapped(n, H) /\ WritableOnce(n)
  BY <1>1, <1>13 DEF HeldUnmapped, WritableOnce
<1> QED
  BY <1>1, <1>7, <1>10, <1>12, <1>14, <1>15, <1>16, <1>17 DEF MemOK, n

\* put_page on frames that are free already.
LEMMA RefreeKeeps ==
  ASSUME NEW m, NEW H, MemOK(m, H), NEW k \in [Frames -> Nat], \A f \in Frames : k[f] > 0 => m.ref[f] = 0
  PROVE  /\ MemOK(PutPages(m, k), H)
         /\ LET n == PutPages(m, k) IN n.roots = m.roots /\ n.tab = m.tab /\ n.pte = m.pte
<1> PICK n : n = PutPages(m, k)
  OBVIOUS
<1>1. /\ MemType(m) /\ H \subseteq Frames /\ Balanced(m, H) /\ HeldUnmapped(m, H)
      /\ Counted(m) /\ Rooted(m) /\ WritableOnce(m)
  BY DEF MemOK
<1>2. /\ MemType(n) /\ Counted(n)
      /\ n.lost = m.lost /\ n.roots = m.roots /\ n.tab = m.tab /\ n.pte = m.pte
      /\ \A f \in Frames : n.ref[f] = IF m.ref[f] > k[f] THEN m.ref[f] - k[f] ELSE 0
  BY <1>1, PutPagesIs
<1>3. ASSUME NEW f \in Frames PROVE n.ref[f] = m.ref[f]
  <2>1. m.ref[f] \in Nat /\ k[f] \in Nat
    BY <1>1 DEF MemType
  <2> QED
    BY <1>2, <2>1
<1>4. \A f : Maps(n, f) = Maps(m, f) /\ Writable(n, f) = Writable(m, f)
  BY <1>2 DEF Maps, Writable
<1>5. Balanced(n, H) /\ HeldUnmapped(n, H) /\ Rooted(n) /\ WritableOnce(n)
  BY <1>1, <1>2, <1>3, <1>4 DEF Balanced, HeldUnmapped, Rooted, WritableOnce
<1> QED
  BY <1>1, <1>2, <1>5 DEF MemOK

------------------------------------------------------------------------------------
(* Boot *)

BareMem == [free |-> Memory, ref |-> [f \in Frames |-> 0], lost |-> [f \in Frames |-> 0],
            roots |-> {}, tab |-> [r \in Spaces |-> {}], pte |-> [r \in Spaces |-> NoPages]]
BootRoot == NewRoot(BareMem)
LoadPage(m, i) ==
    LET f == NewFrame(m) IN MapPage(Take(m, f), BootRoot, Image[i].page, f, Image[i].prot)
Loads(load, n) ==
    load = [i \in 0..n |-> IF i = 0 THEN TakeRoot(BareMem, BootRoot) ELSE LoadPage(load[i - 1], i)]

\* The loop that loads the first program has a value after every iteration: no first iteration lacks one.
LEMMA LoadExists == ASSUME NEW n \in Nat PROVE \E h : Loads(h, n)
<1> DEFINE Bad == {k \in Nat : ~ \E h : Loads(h, k)}
<1>1. ASSUME Bad # {} PROVE FALSE
  <2>1. PICK k \in Bad : \A j \in Bad : k <= j
    BY <1>1, NatHasMin
  <2>2. k # 0
    <3>1. Loads([i \in 0..0 |-> TakeRoot(BareMem, BootRoot)], 0)
      BY DEF Loads
    <3> QED
      BY <2>1, <3>1
  <2>3. k - 1 \in Nat /\ k - 1 \notin Bad
    BY <2>1, <2>2
  <2>4. PICK h : Loads(h, k - 1)
    BY <2>3
  <2> DEFINE x == LoadPage(h[k - 1], k)
             g == [i \in 0..k |-> IF i = k THEN x ELSE h[i]]
  <2>5. Loads(g, k)
    <3> HIDE DEF x
    <3>1. \A i \in 0..k : g[i] = IF i = k THEN x ELSE h[i]
      OBVIOUS
    <3>2. \A i \in 0..(k-1) : h[i] = IF i = 0 THEN TakeRoot(BareMem, BootRoot) ELSE LoadPage(h[i - 1], i)
      BY <2>4 DEF Loads
    <3>3. ASSUME NEW i \in 0..k
          PROVE  g[i] = IF i = 0 THEN TakeRoot(BareMem, BootRoot) ELSE LoadPage(g[i - 1], i)
      <4>1. i # 0 => i - 1 \in 0..k /\ i - 1 # k /\ g[i - 1] = h[i - 1]
        BY <2>1, <3>1
      <4>2. CASE i = k
        BY <2>2, <3>1, <4>1, <4>2 DEF x
      <4>3. CASE i # k
        BY <2>1, <3>1, <3>2, <4>1, <4>3
      <4> QED
        BY <4>2, <4>3
    <3> HIDE DEF g
    <3>4. g = [i \in 0..k |-> g[i]]
      BY DEF g
    <3> QED
      BY <3>3, <3>4 DEF Loads
  <2> QED
    BY <2>1, <2>5
<1> QED
  BY <1>1

\* BootMem is the loop's last value.
LEMMA BootIs == \E load : Loads(load, Len(Image)) /\ BootMem = load[Len(Image)]
<1>1. Len(Image) \in Nat
  BY MemoryAssumption
<1>2. PICK h : Loads(h, Len(Image))
  BY <1>1, LoadExists
<1>3. \E load : load = [i \in 0..Len(Image) |-> IF i = 0 THEN TakeRoot(BareMem, BootRoot)
            ELSE LET f == NewFrame(load[i - 1])
                 IN MapPage(Take(load[i - 1], f), BootRoot, Image[i].page, f, Image[i].prot)]
  BY <1>2 DEF Loads, LoadPage
<1>4. Loads((CHOOSE load : load = [i \in 0..Len(Image) |-> IF i = 0 THEN TakeRoot(BareMem, BootRoot)
            ELSE LET f == NewFrame(load[i - 1])
                 IN MapPage(Take(load[i - 1], f), BootRoot, Image[i].page, f, Image[i].prot)]), Len(Image))
  BY <1>3 DEF Loads, LoadPage
<1> QED
  BY <1>4 DEF BootMem, BareMem, BootRoot

\* Memory before the first process.
LEMMA BareOK == MemOK(BareMem, {}) /\ BareMem.free = Memory /\ BareMem.roots = {}
<1> DEFINE n == BareMem
<1>1. /\ n.free = Memory /\ n.ref = [f \in Frames |-> 0] /\ n.lost = [f \in Frames |-> 0] /\ n.roots = {}
      /\ n.tab = [r \in Spaces |-> {}] /\ n.pte = [r \in Spaces |-> NoPages]
  BY DEF BareMem
<1>2. Fields(n, {"free", "ref", "lost", "roots", "tab", "pte"})
  BY DEF BareMem, Fields
<1> HIDE DEF n
<1>3. MemType(n)
  <2>1. NoPages \in [AllPages -> Cells \cup {None}]
    BY DEF NoPages
  <2>2. n.pte \in [Spaces -> [AllPages -> Cells \cup {None}]]
    BY <1>1, <2>1
  <2>3. n.tab \in [Spaces -> SUBSET Tables]
    BY <1>1
  <2>4. n.ref \in [Frames -> Nat] /\ n.lost \in [Frames -> Nat] /\ n.roots \in SUBSET UserSpaces
    BY <1>1
  <2>5. n.free \in Nat
    BY <1>1, MemoryAssumption
  <2> QED
    BY <1>2, <2>2, <2>3, <2>4, <2>5, MemTyped
<1>4. \A r \in Spaces : \A v \in AllPages : n.pte[r][v] = None
  BY <1>1 DEF NoPages
<1>5. /\ \A f : Maps(n, f) = {} /\ Writable(n, f) = {}
      /\ Used(n) = {} /\ Tabled(n) = {}
  BY <1>1, <1>4 DEF Maps, Writable, Used, Tabled
<1>6. Balanced(n, {})
  <2>1. \A f \in Frames : n.ref[f] = 0 /\ n.lost[f] = 0 /\ Cardinality(Maps(n, f)) = 0
    BY <1>1, <1>5, FS_EmptySet
  <2> QED
    BY <2>1 DEF Balanced
<1>7. Counted(n)
  BY <1>1, <1>5, FS_EmptySet, MemoryAssumption DEF Counted
<1>8. HeldUnmapped(n, {}) /\ Rooted(n) /\ WritableOnce(n)
  BY <1>1, <1>4, <1>5 DEF HeldUnmapped, Rooted, WritableOnce, Spaces
<1> QED
  BY <1>1, <1>3, <1>6, <1>7, <1>8 DEF MemOK, n

\* An iteration of the loop that loads the first program.
LEMMA LoadKeeps ==
  ASSUME NEW m, MemOK(m, {}), NEW i \in 1..Len(Image), m.roots = {BootRoot}, BootRoot \in UserSpaces,
         m.free >= Memory - 1 - 2 * (i - 1)
  PROVE  LET n == LoadPage(m, i)
         IN MemOK(n, {}) /\ n.roots = {BootRoot} /\ n.free >= Memory - 1 - 2 * i
<1> PICK f, u : f = NewFrame(m) /\ u = Take(m, f)
  OBVIOUS
<1>1. /\ Len(Image) \in Nat /\ Memory \in Nat /\ m.free \in Nat /\ m.free >= 2 /\ i \in Nat
  <2>1. Len(Image) \in Nat /\ Memory \in Nat /\ 2 * Len(Image) + 1 <= Memory
    BY MemoryAssumption
  <2>2. m.free \in Nat
    BY MemParts DEF MemOK
  <2> QED
    BY <2>1, <2>2
<1>2. Image[i].page \in AllPages /\ Image[i].prot \in Prots
  <2>1. Image[i] \in [page : Pages, prot : Prots, stack : BOOLEAN]
    <3> PICK S : S = [page : Pages, prot : Prots, stack : BOOLEAN]
      OBVIOUS
    <3>1. Image \in Seq(S)
      BY MemoryAssumption
    <3>2. Image[i] \in S
      BY <3>1, ElementOfSeq, Zenon
    <3> QED
      BY <3>2
  <2> QED
    BY <2>1 DEF AllPages
<1>3. /\ f \in Frames /\ MemOK(u, {} \cup {f}) /\ u.roots = m.roots /\ u.free = m.free - 1
  <2> PICK E : E = {}
    OBVIOUS
  <2>1. MemOK(m, E) /\ m.free > 0 /\ m.roots # {}
    BY <1>1
  <2>2. f \in Frames /\ MemOK(u, E \cup {f}) /\ u.roots = m.roots /\ u.free = m.free - 1
    BY <2>1, TakeKeeps
  <2> QED
    BY <2>2
<1>4. CanMap(u, BootRoot, Image[i].page)
  BY <1>1, <1>3 DEF CanMap, NoMemory
<1>a. PICK H, r, v, prot : H = {f} /\ r = BootRoot /\ v = Image[i].page /\ prot = Image[i].prot
  OBVIOUS
<1>5. MemOK(u, H) /\ r \in u.roots \cup {KernelRoot} /\ v \in AllPages /\ f \in H /\ prot \in Prots /\ CanMap(u, r, v)
  <2>1. {} \cup {f} = H
    BY <1>a
  <2> QED
    BY <1>a, <1>2, <1>3, <1>4, <2>1
<1>b. PICK n : n = MapPage(u, r, v, f, prot)
  OBVIOUS
<1>6. MemOK(n, H \ {f}) /\ n.roots = u.roots /\ n.free >= u.free - 1
  <2>1. MemOK(n, H \ {f})
    BY <1>b, <1>5, MapKeeps
  <2>2. CostsOne(u, n)
    BY <1>b, <1>5, MapKeeps
  <2> QED
    BY <2>1, <2>2 DEF CostsOne
<1>7. n = LoadPage(m, i) /\ H \ {f} = {}
  BY <1>a, <1>b DEF LoadPage
<1>8. n.free \in Nat
  BY <1>6, MemParts DEF MemOK
<1>9. n.free >= Memory - 1 - 2 * i
  <2>1. u.free \in Nat /\ u.free = m.free - 1 /\ n.free >= u.free - 1
    BY <1>1, <1>3, <1>6
  <2> QED
    BY <1>1, <1>8, <2>1
<1> QED
  BY <1>3, <1>6, <1>7, <1>9

\* Memory when the first process starts.
LEMMA BootOK == MemOK(BootMem, {}) /\ BootMem.roots = {BootRoot} /\ BootRoot \in UserSpaces
<1>1. PICK load : Loads(load, Len(Image)) /\ BootMem = load[Len(Image)]
  BY BootIs
<1> DEFINE Good(i) == /\ MemOK(load[i], {}) /\ load[i].roots = {BootRoot}
                      /\ load[i].free >= Memory - 1 - 2 * i
           Bad == {i \in 0..Len(Image) : ~Good(i)}
<1>2. /\ load[0] = TakeRoot(BareMem, BootRoot)
      /\ \A i \in 1..Len(Image) : load[i] = LoadPage(load[i - 1], i)
  BY <1>1, MemoryAssumption DEF Loads
<1>3. BootRoot \in UserSpaces /\ Good(0)
  <2>1. MemOK(BareMem, {}) /\ BareMem.free > 0 /\ UserSpaces \ BareMem.roots # {}
    BY BareOK, MemoryAssumption, NameAssumption
  <2>2. /\ BootRoot \in UserSpaces \ BareMem.roots /\ MemOK(load[0], {})
        /\ load[0].roots = BareMem.roots \cup {BootRoot} /\ load[0].free = BareMem.free - 1
    BY <1>2, <2>1, TakeRootKeeps DEF BootRoot
  <2> QED
    BY <2>2, BareOK, MemoryAssumption
<1>4. ASSUME Bad # {} PROVE FALSE
  <2>1. PICK i \in Bad : \A j \in Bad : i <= j
    <3>1. Bad \in SUBSET Nat
      OBVIOUS
    <3> HIDE DEF Bad
    <3> QED
      BY <1>4, <3>1, NatHasMin
  <2>2. i \in 1..Len(Image) /\ i - 1 \in 0..Len(Image) /\ i - 1 \notin Bad
    <3> HIDE DEF Good
    <3> QED
      BY <1>3, <2>1, MemoryAssumption
  <2>3. Good(i - 1)
    <3> HIDE DEF Good
    <3> QED
      BY <2>2
  <2>4. Good(i)
    BY <1>2, <1>3, <2>2, <2>3, LoadKeeps
  <2> HIDE DEF Good
  <2> QED
    BY <2>1, <2>4
<1>5. Good(Len(Image))
  <2> HIDE DEF Good
  <2> QED
    BY <1>4, MemoryAssumption
<1> QED
  BY <1>1, <1>3, <1>5

\* Both invariants hold at the start.
LEMMA InitKeeps == Init => RInv /\ MInv /\ ~twice /\ twice \in BOOLEAN
<1> SUFFICES ASSUME Init PROVE RInv /\ MInv /\ ~twice /\ twice \in BOOLEAN
  OBVIOUS
<1>1. PICK root \in mem.roots : /\ pgd = [p \in Procs |-> IF p = First THEN root ELSE None] /\ ttbr0 = root
  BY DEF Init
<1>2. /\ mem = BootMem /\ cur = First /\ op = [p \in Procs |-> User] /\ brk = [p \in Procs |-> 0]
      /\ vmas = [p \in Procs |-> IF p = First THEN BootAreas ELSE {}]
  BY DEF Init
<1>3. MemOK(mem, {}) /\ MemType(mem)
  BY <1>2, BootOK DEF MemOK
<1>4. First \in Procs /\ None \notin UserSpaces /\ root \in UserSpaces /\ root # None
  BY <1>3, NameAssumption, MemParts
<1>5. MemShape(mem)
  <2>1. /\ Fields(mem, {"free", "ref", "lost", "roots", "tab", "pte"}) /\ mem.roots \in SUBSET UserSpaces
        /\ mem.tab \in [Spaces -> SUBSET Tables] /\ mem.pte \in [Spaces -> [AllPages -> Cells \cup {None}]]
    BY <1>3, MemParts
  <2> QED
    BY <2>1 DEF MemShape
<1>6. User.kind = "user" /\ "frame" \notin DOMAIN User /\ OpShape(User)
  BY DEF User, OpShape
<1>7. RootsOK
  <2>1. \A p \in Procs : op[p] = User /\ OpRoots(op[p]) = {}
    BY <1>2, <1>6 DEF OpRoots
  <2>2. \A p \in Procs : Mine(p) = IF p = First THEN {root} ELSE {}
    BY <1>1, <1>2, <1>4, <2>1 DEF Mine
  <2>3. \A p, q \in Procs : p # q => Mine(p) \cap Mine(q) = {}
    BY <2>2
  <2>4. \A p \in Procs : Mine(p) \subseteq mem.roots
    BY <2>2
  <2>5. pgd \in [Procs -> mem.roots \cup {None}] /\ pgd[cur] # None /\ ttbr0 # None /\ cur \in Procs
    BY <1>1, <1>2, <1>4
  <2>6. \A p \in Procs : OpShape(op[p]) /\ op[p].kind \notin {"fork", "exec"}
    BY <1>6, <2>1
  <2> QED
    BY <1>2, <1>5, <2>1, <2>3, <2>4, <2>5, <2>6 DEF RootsOK, SpacesOK
<1>8. AreasOK
  <2>1. ASSUME NEW a \in BootAreas PROVE AreaOK(a)
    <3>1. a # None /\ a.start \in Pages /\ a.end \in Nat /\ a.end - 1 \in Pages /\ a.start < a.end
      BY AreaAssumption
    <3>2. a.start \in Nat
      BY <3>1, PageAssumption DEF AllPages
    <3> QED
      BY <3>1, <3>2 DEF AreaOK
  <2>2. \A p \in Procs : vmas[p] = BootAreas \/ vmas[p] = {}
    BY <1>2
  <2>3. IsFiniteSet(BootAreas) /\ IsFiniteSet({}) /\ \A a, b \in BootAreas : a = b \/ a.end <= b.start \/ b.end <= a.start
    BY AreaAssumption, FS_EmptySet
  <2>4. AreasDisjoint
    BY <2>2, <2>3 DEF AreasDisjoint
  <2>5. \A p \in Procs : IsFiniteSet(vmas[p]) /\ \A a \in vmas[p] : AreaOK(a)
    BY <2>1, <2>2, <2>3
  <2> QED
    BY <1>2, <2>4, <2>5 DEF AreasOK
<1>9. MInv
  <2>1. \A p \in Procs : "frame" \notin DOMAIN op[p] /\ op[p].kind = "user"
    BY <1>2, <1>6
  <2>2. Held = {} /\ HeldOnce /\ \A p \in Procs : OpOK(p)
    BY <2>1 DEF Held, HeldOnce, OpOK, OpFits
  <2> QED
    BY <1>3, <2>2 DEF MInv
<1>10. ~twice /\ twice \in BOOLEAN
  BY DEF Init
<1> QED
  BY <1>7, <1>8, <1>9, <1>10 DEF RInv

------------------------------------------------------------------------------------
(* What holds whatever execve does *)

\* The areas of a process never overlap: the check of do_mmap and do_brk, which looks at
\* one area only, is enough after any sequence of mmap, munmap, brk, fork and roll-backs.
THEOREM AreasNeverOverlap == Spec => []AreasDisjoint
<1>1. SInv /\ [Next]_vars => SInv'
  BY RootInvariance
<1>2. SInv => AreasDisjoint
  BY DEF SInv, AreasOK
<1>3. Init => SInv
  BY InitKeeps DEF RInv, RootsOK, SInv
<1> QED
  BY <1>1, <1>2, <1>3, PTL DEF Spec

\* No step changes the user table of another process that lives: the root in TTBR0, the one
\* fork fills and the one execve builds are the running process's own, and the tree that is
\* freed when a task is dropped is nobody's.
THEOREM OthersStayUntouched == Spec => OthersUntouched
<1>1. SInv /\ [Next]_vars => SInv'
  BY RootInvariance
<1>2. SInv /\ [Next]_vars => [Untouched]_vars
  BY RootInvariance
<1>3. Init => SInv
  BY InitKeeps DEF RInv, RootsOK, SInv
<1> QED
  BY <1>1, <1>2, <1>3, PTL DEF Spec, OthersUntouched, Untouched

------------------------------------------------------------------------------------
(* Handlers and memory *)

FrameOf(o) == IF "frame" \in DOMAIN o THEN {o.frame} \ {None} ELSE {}

\* Which handlers hold a frame.
LEMMA FrameIs ==
  ASSUME NEW o, OpShape(o)
  PROVE  /\ o.kind \in {"mmap", "undo", "exec", "cow", "demand"} =>
              "frame" \in DOMAIN o /\ FrameOf(o) = {o.frame} \ {None}
         /\ o.kind \in {"user", "dead", "unmap", "fork", "refree"} =>
              "frame" \notin DOMAIN o /\ FrameOf(o) = {}
<1>1. ASSUME NEW F, Fields(o, F) PROVE DOMAIN o = F
  BY <1>1 DEF Fields
<1>2. /\ o.kind \in {"mmap", "undo", "exec", "cow", "demand"} => "frame" \in DOMAIN o
      /\ o.kind \in {"unmap", "fork", "refree"} => "frame" \notin DOMAIN o
  BY <1>1, KeptOps
<1>3. o.kind \in {"user", "dead"} => "frame" \notin DOMAIN o
  BY DEF OpShape, User, Dead
<1> QED
  BY <1>2, <1>3 DEF FrameOf

\* A step of the running process that ends with the handler in state o.
LEMMA MemStep ==
  ASSUME RInv, MInv, TouchesOwn, cur' = cur, NEW o, OpShape(o), op' = [op EXCEPT ![cur] = o], OpFits(o, mem'),
         \/ FrameOf(o) = FrameOf(op[cur]) /\ MemOK(mem', Held)
         \/ \E f \in Frames \ Held : FrameOf(op[cur]) = {} /\ FrameOf(o) = {f} /\ MemOK(mem', Held \cup {f})
         \/ \E f : FrameOf(op[cur]) = {f} /\ FrameOf(o) = {} /\ MemOK(mem', Held \ {f})
  PROVE  MInv'
<1>1. op' = [q \in Procs |-> IF q = cur THEN o ELSE op[q]] /\ cur \in Procs
  BY DEF RInv, RootsOK, SpacesOK
<1>2. \A q \in Procs : FrameOf(op[q]) \subseteq Frames /\ OpFits(op[q], mem)
  BY DEF MInv, OpOK, OpFits, FrameOf
<1>3. Held = UNION {FrameOf(op[q]) : q \in Procs}
  <2>1. \A q \in Procs, f \in Frames : f \in FrameOf(op[q]) <=> "frame" \in DOMAIN op[q] /\ op[q].frame = f
    BY NameAssumption DEF FrameOf
  <2> QED
    BY <1>2, <2>1 DEF Held
<1>4. FrameOf(o) \subseteq Frames
  BY DEF OpFits, FrameOf
<1>5. Held' = UNION {FrameOf(op'[q]) : q \in Procs}
  <2>1. \A q \in Procs : FrameOf(op'[q]) \subseteq Frames
    BY <1>1, <1>2, <1>4
  <2>2. \A q \in Procs, f \in Frames : f \in FrameOf(op'[q]) <=> "frame" \in DOMAIN op'[q] /\ op'[q].frame = f
    BY NameAssumption DEF FrameOf
  <2> QED
    BY <2>1, <2>2 DEF Held
<1>6. \A q, s \in Procs : q # s => FrameOf(op[q]) \cap FrameOf(op[s]) = {}
  BY DEF MInv, HeldOnce, FrameOf
<1>7. \A f : (\E q \in Procs \ {cur} : f \in FrameOf(op[q])) <=> f \in Held \ FrameOf(op[cur])
  BY <1>1, <1>3, <1>6
<1>8. Held' = (Held \ FrameOf(op[cur])) \cup FrameOf(o)
  <2>1. \A f : f \in Held' <=> f \in FrameOf(o) \/ \E q \in Procs \ {cur} : f \in FrameOf(op[q])
    BY <1>1, <1>5
  <2> QED
    BY <1>7, <2>1
<1>9. FrameOf(op[cur]) \subseteq Held
  BY <1>1, <1>3
<1>10. MemOK(mem', Held') /\ FrameOf(o) \cap (Held \ FrameOf(op[cur])) = {}
  <2>1. CASE FrameOf(o) = FrameOf(op[cur]) /\ MemOK(mem', Held)
    <3>1. Held' = Held
      BY <1>8, <1>9, <2>1
    <3> QED
      BY <2>1, <3>1
  <2>2. ASSUME NEW f \in Frames \ Held, FrameOf(op[cur]) = {}, FrameOf(o) = {f}, MemOK(mem', Held \cup {f})
        PROVE  MemOK(mem', Held') /\ FrameOf(o) \cap (Held \ FrameOf(op[cur])) = {}
    <3>1. Held' = Held \cup {f}
      BY <1>8, <2>2
    <3> QED
      BY <2>2, <3>1
  <2>3. ASSUME NEW f, FrameOf(op[cur]) = {f}, FrameOf(o) = {}, MemOK(mem', Held \ {f})
        PROVE  MemOK(mem', Held') /\ FrameOf(o) \cap (Held \ FrameOf(op[cur])) = {}
    <3>1. Held' = Held \ {f}
      BY <1>8, <2>3
    <3> QED
      BY <2>3, <3>1
  <2> QED
    BY <2>1, <2>2, <2>3
<1>11. \A q, s \in Procs : q # s => FrameOf(op'[q]) \cap FrameOf(op'[s]) = {}
  <2>1. \A q \in Procs \ {cur} : FrameOf(op[q]) \cap FrameOf(o) = {}
    BY <1>7, <1>10
  <2> QED
    BY <1>1, <1>6, <2>1
<1>12. HeldOnce'
  <2>1. ASSUME NEW q \in Procs, NEW s \in Procs, "frame" \in DOMAIN op'[q], "frame" \in DOMAIN op'[s],
               op'[q].frame = op'[s].frame, op'[q].frame # None
        PROVE  q = s
    <3>1. op'[q].frame \in FrameOf(op'[q]) /\ op'[q].frame \in FrameOf(op'[s])
      BY <2>1 DEF FrameOf
    <3> QED
      BY <1>11, <3>1
  <2> QED
    BY <2>1 DEF HeldOnce
<1>13. ASSUME NEW q \in Procs PROVE OpOK(q)'
  <2>1. CASE q = cur
    BY <1>1, <2>1 DEF OpOK
  <2>2. CASE q # cur
    <3>1. op'[q] = op[q] /\ OpFits(op[q], mem)
      BY <1>1, <2>2 DEF MInv, OpOK
    <3>2. op[q].kind = "fork" => mem'.tab[op[q].root] = mem.tab[op[q].root]
      <4> SUFFICES ASSUME op[q].kind = "fork" PROVE mem'.tab[op[q].root] = mem.tab[op[q].root]
        OBVIOUS
      <4>1. op[q].root # None
        BY DEF RInv, RootsOK, SpacesOK
      <4>2. op[q].root \in Mine(q)
        BY <4>1 DEF Mine, OpRoots
      <4>3. Mine(q) \cap Mine(cur) = {} /\ Mine(q) \subseteq UserSpaces
        BY <1>1, <2>2 DEF RInv, RootsOK, SpacesOK, MemShape
      <4>4. op[q].root \in Spaces /\ op[q].root \notin Mine(cur) \cup {KernelRoot}
        BY <4>2, <4>3, NameAssumption DEF Spaces
      <4> QED
        BY <4>4 DEF TouchesOwn
    <3>3. OpFits(op[q], mem')
      BY <3>1, <3>2 DEF OpFits
    <3> QED
      BY <3>1, <3>3 DEF OpOK
  <2> QED
    BY <2>1, <2>2
<1> QED
  BY <1>10, <1>12, <1>13 DEF MInv

\* A step that changes neither memory nor what the handlers hold.
LEMMA StillMem ==
  ASSUME MInv, UNCHANGED <<mem, op>>
  PROVE  MInv'
<1>1. Held' = Held /\ HeldOnce'
  BY DEF MInv, Held, HeldOnce
<1>2. \A p \in Procs : OpOK(p)'
  BY DEF MInv, OpOK
<1> QED
  BY <1>1, <1>2 DEF MInv

\* What a handler knows of memory when it goes on.
LEMMA MemFacts ==
  ASSUME RInv, MInv
  PROVE  /\ MemOK(mem, Held) /\ MemType(mem) /\ mem.free \in Nat /\ mem.roots # {}
         /\ cur \in Procs /\ OpShape(op[cur]) /\ OpFits(op[cur], mem) /\ FrameOf(op[cur]) \subseteq Held
         /\ pgd[cur] \in mem.roots /\ ttbr0 \in mem.roots /\ \A v : Root(v) \in mem.roots \cup {KernelRoot}
<1>1. MemOK(mem, Held) /\ MemType(mem) /\ mem.free \in Nat
  BY MemParts DEF MInv, MemOK
<1>2. cur \in Procs /\ OpShape(op[cur]) /\ OpFits(op[cur], mem)
  BY DEF RInv, RootsOK, SpacesOK, MInv, OpOK
<1>3. FrameOf(op[cur]) \subseteq Held
  BY <1>2 DEF FrameOf, Held, OpFits
<1>4. pgd[cur] \in mem.roots /\ ttbr0 \in mem.roots
  BY OwnRoots DEF RInv
<1> QED
  BY <1>1, <1>2, <1>3, <1>4 DEF Root

\* alloc_phys_pages returns a free frame.
LEMMA NewFrameIs ==
  ASSUME RInv, MInv, ~NoMemory(mem)
  PROVE  NewFrame(mem) \in Frames /\ NewFrame(mem) # None
<1>1. PICK m, H : m = mem /\ H = Held
  OBVIOUS
<1>2. MemOK(m, H) /\ m.free > 0 /\ m.roots # {}
  BY <1>1, MemFacts DEF NoMemory
<1>3. NewFrame(m) \in Frames \ H
  BY <1>2, TakeKeeps
<1> QED
  BY <1>1, <1>3, NameAssumption

\* A handler that takes a frame.
LEMMA TakeStep ==
  ASSUME RInv, MInv, TouchesOwn, cur' = cur, ~NoMemory(mem), mem' = Take(mem, NewFrame(mem)),
         NEW o, OpShape(o), op' = [op EXCEPT ![cur] = o],
         FrameOf(op[cur]) = {}, FrameOf(o) = {NewFrame(mem)},
         NewFrame(mem) \in Frames /\ NewFrame(mem) # None => OpFits(o, mem')
  PROVE  MInv'
<1>1. MemOK(mem, Held) /\ mem.free > 0 /\ mem.roots # {}
  BY MemFacts DEF NoMemory
<1>2. PICK m, H, f : m = mem /\ H = Held /\ f = NewFrame(m)
  OBVIOUS
<1>3. f \in Frames \ H /\ MemOK(Take(m, f), H \cup {f})
  BY <1>1, <1>2, TakeKeeps
<1>4. f # None
  BY <1>3, NameAssumption
<1>5. OpFits(o, mem')
  BY <1>2, <1>3, <1>4
<1>6. FrameOf(o) = {f} /\ MemOK(mem', Held \cup {f}) /\ f \in Frames \ Held
  BY <1>2, <1>3
<1> QED
  BY <1>5, <1>6, MemStep

\* A handler that maps the frame it holds, or gives it back.
LEMMA GiveStep ==
  ASSUME RInv, MInv, TouchesOwn, cur' = cur, NEW f, FrameOf(op[cur]) = {f},
         \/ mem' = PutPage(mem, f)
         \/ \E r \in mem.roots \cup {KernelRoot}, v \in AllPages, prot \in Prots :
               CanMap(mem, r, v) /\ mem' = MapPage(mem, r, v, f, prot),
         NEW o, OpShape(o), op' = [op EXCEPT ![cur] = o], FrameOf(o) = {}, OpFits(o, mem')
  PROVE  MInv'
<1>1. PICK m, H : m = mem /\ H = Held
  OBVIOUS
<1>2. MemOK(m, H) /\ f \in H
  BY <1>1, MemFacts
<1>3. CASE mem' = PutPage(mem, f)
  <2>1. MemOK(PutPage(m, f), H \ {f})
    BY <1>2, PutKeeps
  <2>2. MemOK(mem', Held \ {f})
    BY <1>1, <1>3, <2>1
  <2> QED
    BY <2>2, MemStep
<1>4. ASSUME NEW r \in m.roots \cup {KernelRoot}, NEW v \in AllPages, NEW prot \in Prots,
             CanMap(m, r, v), mem' = MapPage(m, r, v, f, prot)
      PROVE  MInv'
  <2>1. MemOK(MapPage(m, r, v, f, prot), H \ {f})
    BY <1>2, <1>4, MapKeeps
  <2>2. MemOK(mem', Held \ {f})
    BY <1>1, <1>4, <2>1
  <2> QED
    BY <2>2, MemStep
<1> QED
  BY <1>1, <1>3, <1>4

\* A handler that unmaps a page, or leaves memory alone.
LEMMA DropStep ==
  ASSUME RInv, MInv, TouchesOwn, cur' = cur,
         mem' = mem \/ \E v \in AllPages : mem' = DropPage(mem, Root(v), v),
         NEW o, OpShape(o), op' = [op EXCEPT ![cur] = o], FrameOf(o) = FrameOf(op[cur]), OpFits(o, mem')
  PROVE  MInv'
<1>1. MemOK(mem', Held)
  <2>1. CASE mem' = mem
    BY <2>1, MemFacts
  <2>2. ASSUME NEW v \in AllPages, mem' = DropPage(mem, Root(v), v) PROVE MemOK(mem', Held)
    <3>1. PICK m, H, r : m = mem /\ H = Held /\ r = Root(v)
      OBVIOUS
    <3>2. MemOK(m, H) /\ r \in m.roots \cup {KernelRoot}
      BY <3>1, MemFacts
    <3>3. MemOK(DropPage(m, r, v), H)
      BY <3>2, DropKeeps
    <3> QED
      BY <2>2, <3>1, <3>3
  <2> QED
    BY <2>1, <2>2
<1> QED
  BY <1>1, MemStep

\* A handler that has ended holds nothing.
LEMMA EndFits ==
  /\ FrameOf(User) = {} /\ FrameOf(Dead) = {} /\ \A m : OpFits(User, m) /\ OpFits(Dead, m)
  /\ OpShape(User) /\ OpShape(Dead)
BY DEF FrameOf, OpFits, OpShape, User, Dead

\* do_mmap, its loop and its roll-back.
LEMMA MmapMem ==
  ASSUME RInv, MInv, TouchesOwn, NEW p \in Procs,
         \/ \E hint \in Hints, len \in 1..MaxLen, flags \in AreaFlags : Mmap(p, hint, len, flags)
         \/ MmapAlloc(p) \/ MmapPage(p) \/ MmapDone(p) \/ Undo(p) \/ UndoDone(p)
  PROVE  MInv'
<1> DEFINE F == {"kind", "addr", "at", "end", "frame"}
<1>0. OpShape(op[cur]) /\ OpFits(op[cur], mem) /\ FrameOf(op[cur]) \subseteq Held
  BY MemFacts
<1>1. ASSUME NEW hint \in Hints, NEW len \in 1..MaxLen, NEW flags \in AreaFlags, Mmap(p, hint, len, flags)
      PROVE  MInv'
  <2> DEFINE addr == IF hint = 0 THEN FindFreeArea(p, len) ELSE hint
             o == [kind |-> "mmap", addr |-> addr, at |-> addr, end |-> addr + len, frame |-> None]
  <2>1. /\ cur = p /\ cur' = cur /\ mem' = mem /\ op[cur].kind = "user"
        /\ op' = [op EXCEPT ![cur] = o]
        /\ hint = 0 => Gaps(p, len) # {}
        /\ hint # 0 => hint + len - 1 \in Pages
    BY <1>1 DEF Mmap, Idle, Running, Become
  <2>2. hint = 0 => addr \in Gaps(p, len)
    <3>1. Gaps(p, len) \in SUBSET Nat
      BY PageAssumption DEF Gaps, AllPages
    <3>2. Gaps(p, len) # {} => Min(Gaps(p, len)) \in Gaps(p, len)
      BY <3>1, NatHasMin DEF Min
    <3> QED
      BY <2>1, <3>2 DEF FindFreeArea
  <2>3. len \in Nat /\ addr \in Nat /\ addr..(addr + len - 1) \subseteq AllPages
    <3>1. len \in Nat
      BY AreaAssumption
    <3>2. CASE hint = 0
      <4>1. addr \in KPages /\ addr + len - 1 \in KPages
        BY <2>2, <3>2 DEF Gaps
      <4> HIDE DEF addr
      <4> QED
        BY <3>1, <4>1, PageAssumption DEF AllPages
    <3>3. CASE hint # 0
      <4>1. addr \in Pages /\ addr + len - 1 \in Pages
        BY <2>1, <3>3, AreaAssumption
      <4> HIDE DEF addr
      <4> QED
        BY <3>1, <4>1, PageAssumption DEF AllPages
    <3> QED
      BY <3>2, <3>3
  <2> HIDE DEF addr
  <2>4. OpShape(o)
    BY NewOps
  <2>5. FrameOf(o) = {} /\ FrameOf(op[cur]) = {}
    BY <1>0, <2>1, FrameIs DEF FrameOf
  <2>6. OpFits(o, mem')
    BY <2>3 DEF OpFits
  <2> HIDE DEF o
  <2> QED
    BY <2>1, <2>4, <2>5, <2>6, DropStep
<1>a. ASSUME op[cur].kind \in {"mmap", "undo"}
      PROVE  /\ Fields(op[cur], F) /\ FrameOf(op[cur]) = {op[cur].frame} \ {None}
             /\ op[cur].addr \in Nat /\ op[cur].at \in Nat /\ op[cur].end \in Nat
             /\ op[cur].addr <= op[cur].at /\ op[cur].at <= op[cur].end
             /\ op[cur].addr..(op[cur].end - 1) \subseteq AllPages
             /\ op[cur].frame \in Frames \cup {None}
             /\ op[cur].frame # None => op[cur].kind = "mmap" /\ op[cur].at < op[cur].end
  BY <1>0, <1>a, KeptOps, FrameIs DEF OpFits
<1>b. ASSUME NEW o, Fields(o, F), o.kind \in {"mmap", "undo"},
             o.addr = op[cur].addr, o.end = op[cur].end, op[cur].kind \in {"mmap", "undo"},
             o.at \in Nat, o.addr <= o.at, o.at <= o.end, o.frame \in Frames \cup {None},
             o.frame # None => o.kind = "mmap" /\ o.at < o.end
      PROVE  OpShape(o) /\ FrameOf(o) = {o.frame} \ {None} /\ OpFits(o, mem')
  <2>1. OpShape(o)
    BY <1>b DEF OpShape
  <2>2. FrameOf(o) = {o.frame} \ {None}
    BY <1>b, <2>1, FrameIs
  <2>3. /\ o.addr \in Nat /\ o.end \in Nat /\ o.addr..(o.end - 1) \subseteq AllPages
    BY <1>a, <1>b
  <2>4. OpFits(o, mem')
    BY <1>b, <2>3 DEF OpFits
  <2> QED
    BY <2>1, <2>2, <2>4
<1>2. CASE MmapAlloc(p)
  <2>1. /\ cur = p /\ cur' = cur /\ op[cur].kind = "mmap" /\ op[cur].frame = None /\ op[cur].at < op[cur].end
    BY <1>2 DEF MmapAlloc, Doing, Running
  <2>2. CASE NoMemory(mem)
    <3> DEFINE o == Advance(p, "kind", "undo")
    <3>1. mem' = mem /\ op' = [op EXCEPT ![cur] = o]
      BY <1>2, <2>1, <2>2 DEF MmapAlloc, Become
    <3>2. /\ Fields(o, F) /\ o.kind = "undo" /\ o.addr = op[cur].addr /\ o.at = op[cur].at
          /\ o.end = op[cur].end /\ o.frame = None
      BY <1>a, <2>1 DEF Fields, Advance
    <3> HIDE DEF o
    <3>3. OpShape(o) /\ FrameOf(o) = {} /\ OpFits(o, mem') /\ FrameOf(op[cur]) = {}
      BY <1>a, <1>b, <2>1, <3>2
    <3> QED
      BY <2>1, <3>1, <3>3, DropStep
  <2>3. CASE ~NoMemory(mem)
    <3>a. PICK f : f = NewFrame(mem)
      OBVIOUS
    <3> DEFINE o == Advance(p, "frame", f)
    <3>1. mem' = Take(mem, NewFrame(mem)) /\ op' = [op EXCEPT ![cur] = o]
      BY <1>2, <2>1, <2>3, <3>a DEF MmapAlloc, Become
    <3>2. /\ Fields(o, F) /\ o.kind = "mmap" /\ o.addr = op[cur].addr /\ o.at = op[cur].at
          /\ o.end = op[cur].end /\ o.frame = f
      BY <1>a, <2>1 DEF Fields, Advance
    <3> HIDE DEF o
    <3>3. f \in Frames /\ f # None
      BY <2>3, <3>a, NewFrameIs
    <3>4. OpShape(o) /\ FrameOf(o) = {f} /\ OpFits(o, mem') /\ FrameOf(op[cur]) = {}
      BY <1>a, <1>b, <2>1, <3>2, <3>3
    <3> QED
      BY <2>1, <2>3, <3>a, <3>1, <3>4, TakeStep
  <2> QED
    BY <2>2, <2>3
<1>3. CASE MmapPage(p)
  <2>a. PICK f : f = op[cur].frame
    OBVIOUS
  <2>1. /\ cur = p /\ cur' = cur /\ op[cur].kind = "mmap" /\ f # None /\ op[cur].at \in AllPages
        /\ FrameOf(op[cur]) = {f}
    <3>1. cur = p /\ cur' = cur /\ op[cur].kind = "mmap" /\ f # None
      BY <1>3, <2>a DEF MmapPage, Doing, Running
    <3> QED
      BY <1>a, <2>a, <3>1
  <2>2. CASE CanMap(mem, Root(op[p].at), op[p].at)
    <3> DEFINE o == [op[p] EXCEPT !.frame = None, !.at = @ + 1]
    <3>1. mem' = MapPage(mem, Root(op[cur].at), op[cur].at, f, "rw") /\ op' = [op EXCEPT ![cur] = o]
      BY <1>3, <2>a, <2>1, <2>2 DEF MmapPage, Become
    <3>2. /\ Fields(o, F) /\ o.kind = "mmap" /\ o.addr = op[cur].addr /\ o.at = op[cur].at + 1
          /\ o.end = op[cur].end /\ o.frame = None
      BY <1>a, <2>1 DEF Fields
    <3> HIDE DEF o
    <3>3. OpShape(o) /\ FrameOf(o) = {} /\ OpFits(o, mem')
      BY <1>a, <1>b, <2>a, <2>1, <3>2
    <3>4. Root(op[cur].at) \in mem.roots \cup {KernelRoot} /\ "rw" \in Prots
      BY MemFacts DEF Prots
    <3> QED
      BY <2>1, <2>2, <3>1, <3>3, <3>4, GiveStep
  <2>3. CASE ~CanMap(mem, Root(op[p].at), op[p].at)
    <3> DEFINE o == [op[p] EXCEPT !.frame = None, !.kind = "undo"]
    <3>1. mem' = PutPage(mem, f) /\ op' = [op EXCEPT ![cur] = o]
      BY <1>3, <2>a, <2>1, <2>3 DEF MmapPage, Become
    <3>2. /\ Fields(o, F) /\ o.kind = "undo" /\ o.addr = op[cur].addr /\ o.at = op[cur].at
          /\ o.end = op[cur].end /\ o.frame = None
      BY <1>a, <2>1 DEF Fields
    <3> HIDE DEF o
    <3>3. OpShape(o) /\ FrameOf(o) = {} /\ OpFits(o, mem')
      BY <1>a, <1>b, <2>1, <3>2
    <3> QED
      BY <2>1, <3>1, <3>3, GiveStep
  <2> QED
    BY <2>2, <2>3
<1>4. CASE MmapDone(p) \/ UndoDone(p)
  <2>1. /\ cur = p /\ cur' = cur /\ mem' = mem /\ op[cur].kind \in {"mmap", "undo"}
        /\ op[cur].kind = "mmap" => op[cur].frame = None
        /\ op' = [op EXCEPT ![cur] = User]
    BY <1>4 DEF MmapDone, UndoDone, Doing, Running, Become
  <2>2. FrameOf(op[cur]) = {}
    BY <1>a, <2>1
  <2> QED
    BY <2>1, <2>2, EndFits, DropStep
<1>5. CASE Undo(p)
  <2> DEFINE o == Advance(p, "at", op[p].at - 1)
  <2>1. /\ cur = p /\ cur' = cur /\ op[cur].kind = "undo" /\ op[cur].at > op[cur].addr
        /\ mem' = DropPage(mem, Root(op[cur].at - 1), op[cur].at - 1) /\ op' = [op EXCEPT ![cur] = o]
    BY <1>5 DEF Undo, Doing, Running, Become
  <2>2. /\ Fields(o, F) /\ o.kind = "undo" /\ o.addr = op[cur].addr /\ o.at = op[cur].at - 1
        /\ o.end = op[cur].end /\ o.frame = op[cur].frame
    BY <1>a, <2>1 DEF Fields, Advance
  <2> HIDE DEF o
  <2>3. op[cur].frame = None /\ op[cur].at - 1 \in AllPages
    BY <1>a, <2>1
  <2>a. o.at \in Nat /\ o.addr <= o.at /\ o.at <= o.end
    BY <1>a, <2>1, <2>2
  <2>b. OpShape(o) /\ FrameOf(o) = {o.frame} \ {None} /\ OpFits(o, mem')
    BY <1>b, <2>1, <2>2, <2>3, <2>a
  <2>4. OpShape(o) /\ FrameOf(o) = FrameOf(op[cur]) /\ OpFits(o, mem')
    BY <1>a, <2>1, <2>2, <2>b
  <2> QED
    BY <2>1, <2>3, <2>4, DropStep
<1> QED
  BY <1>1, <1>2, <1>3, <1>4, <1>5

\* do_munmap and do_brk.
LEMMA UnmapMem ==
  ASSUME RInv, MInv, TouchesOwn, NEW p \in Procs,
         \/ \E v \in AllPages, len \in 1..MaxLen : Munmap(p, v, len)
         \/ \E new \in Pages : BrkGrow(p, new) \/ BrkShrink(p, new)
         \/ UnmapOne(p) \/ UnmapDone(p)
  PROVE  MInv'
<1>0. /\ OpShape(op[cur]) /\ OpFits(op[cur], mem) /\ AreasOK /\ brk[p] \in Pages \cup {0}
      /\ op[cur].kind \in {"user", "unmap"} => FrameOf(op[cur]) = {}
  BY MemFacts, FrameIs DEF RInv, AreasOK
<1>b. ASSUME NEW o, OpShape(o), o.kind = "unmap", o.at \in Nat, o.end \in Nat, o.at..(o.end - 1) \subseteq AllPages
      PROVE  FrameOf(o) = {} /\ OpFits(o, mem')
  BY <1>b, FrameIs DEF OpFits
<1>1. ASSUME NEW v \in AllPages, NEW len \in 1..MaxLen, Munmap(p, v, len) PROVE MInv'
  <2>a. PICK a, e : a = Find(p, v) /\ e = Min({v + len, a.end})
    OBVIOUS
  <2> DEFINE o == [kind |-> "unmap", at |-> v, end |-> e, brk |-> brk[p]]
  <2>1. /\ cur = p /\ cur' = cur /\ mem' = mem /\ op[cur].kind = "user" /\ a # None
        /\ op' = [op EXCEPT ![cur] = o]
    BY <1>1, <2>a DEF Munmap, Idle, Running, Become
  <2>2. a.start <= v /\ v < a.end /\ AreaOK(a)
    BY <1>0, <2>a, <2>1, FindIs
  <2>3. e \in Nat /\ e <= a.end
    <3>1. v \in Nat /\ len \in Nat /\ v + len \in Nat /\ a.end \in Nat
      BY <2>2, PageAssumption, AreaAssumption DEF AreaOK
    <3>2. {v + len, a.end} \in SUBSET Nat /\ {v + len, a.end} # {}
      BY <3>1
    <3>3. PICK x \in {v + len, a.end} : \A y \in {v + len, a.end} : x <= y
      BY <3>2, NatHasMin
    <3>4. e \in {v + len, a.end} /\ \A y \in {v + len, a.end} : e <= y
      BY <2>a, <3>3 DEF Min
    <3> QED
      BY <3>1, <3>4
  <2>4. v..(a.end - 1) \subseteq AllPages
    <3>1. v \in Nat /\ v \in Pages \cup KPages /\ a.start \in Nat /\ a.end \in Nat
      BY <2>2, PageAssumption DEF AllPages, AreaOK
    <3>2. CASE v \in Pages
      <4>1. a.end \in Pages \/ a.end - 1 \in Pages
        <5>1. a.start \notin KPages
          BY <2>2, <3>1, <3>2, PageAssumption DEF AllPages
        <5> QED
          BY <2>2, <5>1 DEF AreaOK
      <4>2. v..a.end \subseteq Pages \/ v..(a.end - 1) \subseteq Pages
        BY <3>2, <4>1, PageAssumption
      <4> QED
        BY <3>1, <4>2 DEF AllPages
    <3>3. CASE v \in KPages
      <4>1. a.end \notin Pages /\ a.end - 1 \notin Pages
        BY <2>2, <3>1, <3>3, PageAssumption DEF AllPages
      <4>2. a.end - 1 \in KPages
        BY <2>2, <4>1 DEF AreaOK
      <4>3. v..(a.end - 1) \subseteq KPages
        BY <3>3, <4>2, PageAssumption
      <4> QED
        BY <4>3 DEF AllPages
    <3> QED
      BY <3>1, <3>2, <3>3
  <2>5. v \in Nat /\ v..(e - 1) \subseteq AllPages
    BY <2>2, <2>3, <2>4, PageAssumption DEF AreaOK
  <2>6. OpShape(o)
    BY <1>0, NewOps
  <2>7. FrameOf(o) = {} /\ OpFits(o, mem')
    BY <1>b, <2>3, <2>5, <2>6
  <2> HIDE DEF o
  <2> QED
    BY <1>0, <2>1, <2>6, <2>7, DropStep
<1>2. ASSUME NEW new \in Pages, BrkGrow(p, new) PROVE MInv'
  BY <1>2, StillMem DEF BrkGrow
<1>3. ASSUME NEW new \in Pages, BrkShrink(p, new) PROVE MInv'
  <2> DEFINE o == [kind |-> "unmap", at |-> new, end |-> brk[p], brk |-> new]
  <2>1. /\ cur = p /\ cur' = cur /\ mem' = mem /\ op[cur].kind = "user" /\ new < brk[p]
        /\ op' = [op EXCEPT ![cur] = o]
    BY <1>3 DEF BrkShrink, Idle, Running, Become
  <2>2. new \in Nat /\ brk[p] \in Nat /\ brk[p] \in Pages
    BY <1>0, <2>1, PageAssumption DEF AllPages
  <2>3. new..brk[p] \subseteq Pages
    BY <2>2, PageAssumption
  <2>4. new..(brk[p] - 1) \subseteq AllPages
    BY <2>2, <2>3 DEF AllPages
  <2>5. OpShape(o)
    BY NewOps
  <2>6. FrameOf(o) = {} /\ OpFits(o, mem')
    BY <1>b, <2>2, <2>4, <2>5
  <2> HIDE DEF o
  <2> QED
    BY <1>0, <2>1, <2>5, <2>6, DropStep
<1>4. CASE UnmapOne(p)
  <2> DEFINE o == Advance(p, "at", op[p].at + 1)
             F == {"kind", "at", "end", "brk"}
  <2>1. /\ cur = p /\ cur' = cur /\ op[cur].kind = "unmap" /\ op[cur].at < op[cur].end
        /\ mem' = DropPage(mem, Root(op[cur].at), op[cur].at) /\ op' = [op EXCEPT ![cur] = o]
    BY <1>4 DEF UnmapOne, Doing, Running, Become
  <2>2. Fields(op[cur], F) /\ op[cur].brk \in Pages \cup {0}
    BY <1>0, <2>1, KeptOps
  <2>3. /\ Fields(o, F) /\ o.kind = "unmap" /\ o.at = op[cur].at + 1 /\ o.end = op[cur].end
        /\ o.brk = op[cur].brk
    BY <2>1, <2>2 DEF Fields, Advance
  <2> HIDE DEF o
  <2>4. OpShape(o)
    BY <2>2, <2>3 DEF OpShape
  <2>5. op[cur].at \in Nat /\ op[cur].end \in Nat /\ op[cur].at..(op[cur].end - 1) \subseteq AllPages
    BY <1>0, <2>1 DEF OpFits
  <2>6. op[cur].at \in AllPages /\ o.at \in Nat /\ o.end \in Nat /\ o.at..(o.end - 1) \subseteq AllPages
    BY <2>1, <2>3, <2>5
  <2>7. FrameOf(o) = {} /\ OpFits(o, mem')
    BY <1>b, <2>3, <2>4, <2>6
  <2> QED
    BY <1>0, <2>1, <2>4, <2>6, <2>7, DropStep
<1>5. CASE UnmapDone(p)
  <2>1. /\ cur = p /\ cur' = cur /\ mem' = mem /\ op[cur].kind = "unmap" /\ op' = [op EXCEPT ![cur] = User]
    BY <1>5 DEF UnmapDone, Doing, Running, Become
  <2> QED
    BY <1>0, <2>1, EndFits, DropStep
<1> QED
  BY <1>1, <1>2, <1>3, <1>4, <1>5

\* The page fault handler: demand paging and copy on write.
LEMMA FaultMem ==
  ASSUME RInv, MInv, TouchesOwn, NEW p \in Procs,
         \/ \E v \in AllPages, access \in {"read", "write", "exec"} : FaultAlloc(p, v, access)
         \/ CowUnmap(p) \/ FaultMap(p)
  PROVE  MInv'
<1>0. /\ OpShape(op[cur]) /\ OpFits(op[cur], mem)
      /\ op[cur].kind = "user" => FrameOf(op[cur]) = {}
      /\ op[cur].kind \in {"cow", "demand"} =>
            /\ FrameOf(op[cur]) = {op[cur].frame} /\ op[cur].page \in AllPages
            /\ op[cur].frame \in Frames /\ op[cur].frame # None
  BY MemFacts, FrameIs DEF OpFits
<1>1. ASSUME NEW v \in AllPages, NEW access \in {"read", "write", "exec"}, FaultAlloc(p, v, access) PROVE MInv'
  <2>a. PICK f : f = NewFrame(mem)
    OBVIOUS
  <2> DEFINE prot == IF "x" \in Find(p, v).flags THEN "ro" ELSE "rw"
             c == [kind |-> "cow", page |-> v, frame |-> f]
             d == [kind |-> "demand", page |-> v, frame |-> f, prot |-> prot]
             o == IF Entry(v) # None /\ access = "write" THEN c ELSE d
  <2>1. /\ cur = p /\ cur' = cur /\ op[cur].kind = "user" /\ ~NoMemory(mem)
        /\ mem' = Take(mem, NewFrame(mem)) /\ op' = [op EXCEPT ![cur] = o]
    BY <1>1, <2>a DEF FaultAlloc, Idle, Running, Become
  <2>2. f \in Frames /\ f # None
    BY <2>a, <2>1, NewFrameIs
  <2>3. prot \in Prots
    BY DEF Prots
  <2> HIDE DEF prot
  <2>4. OpShape(c) /\ FrameOf(c) = {f} /\ OpFits(c, mem')
    BY <2>2, NewOps DEF FrameOf, OpFits
  <2>5. OpShape(d) /\ FrameOf(d) = {f} /\ OpFits(d, mem')
    BY <2>2, <2>3, NewOps DEF FrameOf, OpFits
  <2> HIDE DEF c, d
  <2>6. OpShape(o) /\ FrameOf(o) = {NewFrame(mem)} /\ OpFits(o, mem')
    BY <2>a, <2>4, <2>5
  <2> HIDE DEF o
  <2> QED
    BY <1>0, <2>1, <2>6, TakeStep
<1>2. CASE CowUnmap(p)
  <2>a. PICK v, f : v = op[cur].page /\ f = op[cur].frame
    OBVIOUS
  <2> DEFINE o == [kind |-> "demand", page |-> v, frame |-> f, prot |-> "rw"]
  <2>1. /\ cur = p /\ cur' = cur /\ op[cur].kind = "cow" /\ mem' = DropPage(mem, Root(v), v)
        /\ op' = [op EXCEPT ![cur] = o]
    BY <1>2, <2>a DEF CowUnmap, Doing, Running, Become
  <2>2. v \in AllPages /\ f \in Frames /\ f # None /\ FrameOf(op[cur]) = {f}
    BY <1>0, <2>a, <2>1
  <2>3. OpShape(o) /\ FrameOf(o) = {f} /\ OpFits(o, mem')
    BY <2>2, NewOps DEF FrameOf, OpFits, Prots
  <2> HIDE DEF o
  <2> QED
    BY <2>1, <2>2, <2>3, DropStep
<1>3. CASE FaultMap(p)
  <2>a. PICK v, f, prot : v = op[cur].page /\ f = op[cur].frame /\ prot = op[cur].prot
    OBVIOUS
  <2>1. /\ cur = p /\ cur' = cur /\ op[cur].kind = "demand" /\ op' = [op EXCEPT ![cur] = User]
        /\ mem' = IF CanMap(mem, Root(v), v) THEN MapPage(mem, Root(v), v, f, prot) ELSE PutPage(mem, f)
    BY <1>3, <2>a DEF FaultMap, Doing, Running, Become
  <2>2. v \in AllPages /\ FrameOf(op[cur]) = {f} /\ prot \in Prots
    BY <1>0, <2>a, <2>1 DEF OpFits
  <2>3. Root(v) \in mem.roots \cup {KernelRoot}
    BY MemFacts
  <2> QED
    BY <2>1, <2>2, <2>3, EndFits, GiveStep
<1> QED
  BY <1>1, <1>2, <1>3

\* do_fork: the child takes one reference for every entry it copies.
LEMMA ForkMem ==
  ASSUME RInv, MInv, TouchesOwn, NEW p \in Procs, (\E c \in Procs : Fork(p, c)) \/ ForkTable(p) \/ ForkDone(p)
  PROVE  MInv'
<1>0. /\ MemOK(mem, Held) /\ MemType(mem) /\ OpShape(op[cur]) /\ OpFits(op[cur], mem)
      /\ op[cur].kind \in {"user", "fork"} => FrameOf(op[cur]) = {}
  BY MemFacts, FrameIs
<1>1. ASSUME NEW c \in Procs, Fork(p, c) PROVE MInv'
  <2>a. PICK m, H, r : m = mem /\ H = Held /\ r = NewRoot(m)
    OBVIOUS
  <2> DEFINE o == [kind |-> "fork", root |-> r, todo |-> UserTables, child |-> c]
  <2>1. /\ cur = p /\ cur' = cur /\ op[cur].kind = "user" /\ ~NoMemory(m) /\ UserSpaces \ m.roots # {}
        /\ mem' = TakeRoot(m, r) /\ op' = [op EXCEPT ![cur] = o]
    BY <1>1, <2>a DEF Fork, Idle, Running, Become, SpaceLeft
  <2>2. MemOK(m, H) /\ m.free > 0
    BY <1>0, <2>a, <2>1, MemParts DEF NoMemory
  <2>3. r \in UserSpaces \ m.roots /\ MemOK(TakeRoot(m, r), H) /\ TakeRoot(m, r).tab = m.tab
    BY <2>a, <2>1, <2>2, TakeRootKeeps
  <2>4. m.tab[r] = {}
    BY <2>2, <2>3 DEF MemOK, Rooted
  <2>5. OpShape(o) /\ o.kind = "fork" /\ o.root = r /\ o.todo = UserTables
    BY NewOps
  <2> HIDE DEF o
  <2>6. FrameOf(o) = {} /\ "frame" \notin DOMAIN o
    BY <2>5, FrameIs
  <2>7. OpFits(o, mem')
    BY <2>1, <2>3, <2>4, <2>5, <2>6 DEF OpFits
  <2>8. MemOK(mem', Held)
    BY <2>a, <2>1, <2>3
  <2> QED
    BY <1>0, <2>1, <2>5, <2>6, <2>7, <2>8, MemStep
<1>2. CASE ForkTable(p)
  <2>a. PICK m, H, r, s, todo : m = mem /\ H = Held /\ r = op[cur].root /\ s = pgd[cur] /\ todo = op[cur].todo
    OBVIOUS
  <2>b. PICK t : t = Min(todo)
    OBVIOUS
  <2> DEFINE o == Advance(p, "todo", todo \ {t})
             F == {"kind", "root", "todo", "child"}
  <2>1. /\ cur = p /\ cur' = cur /\ op[cur].kind = "fork" /\ todo # {} /\ op' = [op EXCEPT ![cur] = o]
        /\ mem' = IF t \notin m.tab[s] \/ NoMemory(m) THEN m ELSE CopyTable(m, s, r, t)
    BY <1>2, <2>a, <2>b DEF ForkTable, Doing, Running, Become
  <2>2. Fields(op[cur], F) /\ op[cur].child \in Procs
    BY <1>0, <2>1, KeptOps
  <2>3. Fields(o, F) /\ o.kind = "fork" /\ o.root = r /\ o.todo = todo \ {t} /\ o.child \in Procs
    BY <2>a, <2>1, <2>2 DEF Fields, Advance
  <2> HIDE DEF o
  <2>4. OpShape(o)
    BY <2>3 DEF OpShape
  <2>5. todo \subseteq UserTables \ m.tab[r]
    BY <1>0, <2>a, <2>1 DEF OpFits
  <2>6. t \in todo
    <3>1. todo \in SUBSET Nat
      BY <2>5, PageAssumption DEF UserTables, AllPages
    <3>2. PICK x \in todo : \A y \in todo : x <= y
      BY <2>1, <3>1, NatHasMin
    <3> QED
      BY <2>b, <3>2 DEF Min
  <2>7. t \in Tables /\ t \notin m.tab[r]
    BY <2>5, <2>6 DEF UserTables, Tables, AllPages
  <2>8. s \in m.roots /\ r \in m.roots /\ s # r /\ r \in Spaces
    <3>1. cur \in Procs /\ RootsOK
      BY MemFacts DEF RInv
    <3>2. r # None /\ r # pgd[cur] /\ Mine(cur) \subseteq mem.roots /\ r \in Mine(cur)
      BY <2>a, <2>1, <3>1 DEF RootsOK, SpacesOK, Mine, OpRoots
    <3> QED
      BY <1>0, <2>a, <3>2, MemFacts, MemParts DEF Spaces
  <2>9. MemOK(mem', H) /\ mem'.tab[r] \subseteq m.tab[r] \cup {t}
    <3>1. CASE t \notin m.tab[s] \/ NoMemory(m)
      BY <1>0, <2>a, <2>1, <3>1
    <3>2. CASE ~(t \notin m.tab[s] \/ NoMemory(m))
      <4>1. MemOK(m, H) /\ m.free > 0 /\ mem' = CopyTable(m, s, r, t)
        BY <1>0, <2>a, <2>1, <3>2, MemParts DEF NoMemory
      <4>2. MemOK(CopyTable(m, s, r, t), H)
        BY <2>7, <2>8, <4>1, CopyKeeps
      <4>3. CopyTable(m, s, r, t).tab[r] = m.tab[r] \cup {t}
        BY <2>7, <2>8, <4>1, CopyKeeps
      <4> QED
        BY <4>1, <4>2, <4>3
    <3> QED
      BY <3>1, <3>2
  <2>10. FrameOf(o) = {} /\ "frame" \notin DOMAIN o
    BY <2>3, <2>4, FrameIs
  <2>11. OpFits(o, mem')
    BY <2>3, <2>5, <2>9, <2>10 DEF OpFits
  <2>12. MemOK(mem', Held)
    BY <2>a, <2>9
  <2> QED
    BY <1>0, <2>1, <2>4, <2>10, <2>11, <2>12, MemStep
<1>3. CASE ForkDone(p)
  <2>1. /\ cur = p /\ cur' = cur /\ mem' = mem /\ op[cur].kind = "fork" /\ op' = [op EXCEPT ![cur] = User]
    BY <1>3 DEF ForkDone, Doing, Running, Become
  <2> QED
    BY <1>0, <2>1, EndFits, DropStep
<1> QED
  BY <1>1, <1>2, <1>3

\* execve, its failures and the first of its frees.
LEMMA ExecMem ==
  ASSUME RInv, MInv, TouchesOwn, NEW p \in Procs,
         Exec(p) \/ ExecStack(p) \/ ExecAlloc(p) \/ ExecMap(p) \/ ExecDone(p)
  PROVE  MInv'
<1> DEFINE F == {"kind", "root", "next", "frame", "old", "inStack"}
<1>0. /\ MemOK(mem, Held) /\ MemType(mem) /\ OpShape(op[cur]) /\ OpFits(op[cur], mem)
      /\ op[cur].kind = "user" => FrameOf(op[cur]) = {}
      /\ op[cur].kind = "exec" => /\ FrameOf(op[cur]) = {op[cur].frame} \ {None} /\ Fields(op[cur], F)
                                  /\ op[cur].frame \in Frames \cup {None} /\ op[cur].next \in 1..(Len(Image) + 1)
                                  /\ op[cur].frame # None => op[cur].next <= Len(Image)
  BY MemFacts, FrameIs, KeptOps DEF OpFits
<1>b. ASSUME NEW o, Fields(o, F), o.kind = "exec", o.next \in 1..(Len(Image) + 1),
             o.frame \in Frames \cup {None}, o.frame # None => o.next <= Len(Image)
      PROVE  OpShape(o) /\ FrameOf(o) = {o.frame} \ {None} /\ OpFits(o, mem')
  <2>1. OpShape(o)
    BY <1>b DEF OpShape
  <2> QED
    BY <1>b, <2>1, FrameIs DEF OpFits
<1>c. Len(Image) \in Nat
  BY MemoryAssumption
<1>1. CASE Exec(p)
  <2>a. PICK m, H, r : m = mem /\ H = Held /\ r = NewRoot(m)
    OBVIOUS
  <2> DEFINE o == [kind |-> "exec", root |-> r, next |-> 1, frame |-> None, old |-> None, inStack |-> FALSE]
  <2>1. /\ cur = p /\ cur' = cur /\ op[cur].kind = "user" /\ ~NoMemory(m) /\ UserSpaces \ m.roots # {}
        /\ mem' = TakeRoot(m, r) /\ op' = [op EXCEPT ![cur] = o]
    BY <1>1, <2>a DEF Exec, Idle, Running, Become, SpaceLeft
  <2>2. MemOK(m, H) /\ m.free > 0
    BY <1>0, <2>a, <2>1, MemParts DEF NoMemory
  <2>3. MemOK(TakeRoot(m, r), H)
    BY <2>a, <2>1, <2>2, TakeRootKeeps
  <2>4. Fields(o, F) /\ o.kind = "exec" /\ o.next = 1 /\ o.frame = None
    BY DEF Fields
  <2> HIDE DEF o
  <2>5. OpShape(o) /\ FrameOf(o) = {} /\ OpFits(o, mem')
    BY <1>b, <1>c, <2>4
  <2>6. MemOK(mem', Held)
    BY <2>a, <2>1, <2>3
  <2> QED
    BY <1>0, <2>1, <2>5, <2>6, MemStep
<1>2. CASE ExecStack(p)
  <2> DEFINE o == Advance(p, "inStack", TRUE)
  <2>1. /\ cur = p /\ cur' = cur /\ op[cur].kind = "exec" /\ mem' = mem /\ op' = [op EXCEPT ![cur] = o]
    BY <1>2 DEF ExecStack, Doing, Running, Become
  <2>2. Fields(o, F) /\ o.kind = "exec" /\ o.next = op[cur].next /\ o.frame = op[cur].frame
    BY <1>0, <2>1 DEF Fields, Advance
  <2> HIDE DEF o
  <2>3. OpShape(o) /\ FrameOf(o) = FrameOf(op[cur]) /\ OpFits(o, mem')
    BY <1>0, <1>b, <2>1, <2>2
  <2> QED
    BY <2>1, <2>3, DropStep
<1>3. CASE ExecAlloc(p)
  <2>1. /\ cur = p /\ cur' = cur /\ op[cur].kind = "exec" /\ op[cur].frame = None /\ op[cur].next <= Len(Image)
    BY <1>3 DEF ExecAlloc, Doing, Running
  <2>2. CASE NoMemory(mem)
    <3>1. mem' = mem /\ op' = [op EXCEPT ![cur] = User]
      BY <1>3, <2>1, <2>2 DEF ExecAlloc, ExecFail, Become
    <3>2. FrameOf(op[cur]) = {}
      BY <1>0, <2>1
    <3> QED
      BY <2>1, <3>1, <3>2, EndFits, DropStep
  <2>3. CASE ~NoMemory(mem)
    <3>a. PICK f : f = NewFrame(mem)
      OBVIOUS
    <3> DEFINE o == [op[p] EXCEPT !.frame = f, !.old = ttbr0]
    <3>1. mem' = Take(mem, NewFrame(mem)) /\ op' = [op EXCEPT ![cur] = o]
      BY <1>3, <2>1, <2>3, <3>a DEF ExecAlloc, Become
    <3>2. Fields(o, F) /\ o.kind = "exec" /\ o.next = op[cur].next /\ o.frame = f
      BY <1>0, <2>1 DEF Fields
    <3> HIDE DEF o
    <3>3. f \in Frames /\ f # None
      BY <2>3, <3>a, NewFrameIs
    <3>4. OpShape(o) /\ FrameOf(o) = {f} /\ OpFits(o, mem') /\ FrameOf(op[cur]) = {}
      BY <1>0, <1>b, <2>1, <3>2, <3>3
    <3> QED
      BY <2>1, <2>3, <3>a, <3>1, <3>4, TakeStep
  <2> QED
    BY <2>2, <2>3
<1>4. CASE ExecMap(p)
  <2>a. PICK f, v, prot : f = op[cur].frame /\ v = Image[op[cur].next].page /\ prot = Image[op[cur].next].prot
    OBVIOUS
  <2>1. cur = p /\ cur' = cur /\ op[cur].kind = "exec" /\ f # None
    BY <1>4, <2>a DEF ExecMap, Doing, Running
  <2>2. op[cur].next \in 1..Len(Image) /\ FrameOf(op[cur]) = {f}
    BY <1>0, <1>c, <2>a, <2>1
  <2>3. v \in AllPages /\ prot \in Prots
    <3>a. PICK i : i = op[cur].next
      OBVIOUS
    <3>b. PICK S : S = [page : Pages, prot : Prots, stack : BOOLEAN]
      OBVIOUS
    <3>1. Image \in Seq(S) /\ i \in 1..Len(Image)
      BY <2>2, <3>a, <3>b, MemoryAssumption
    <3>2. Image[i] \in S
      BY <3>1, ElementOfSeq, Zenon
    <3> QED
      BY <2>a, <3>a, <3>b, <3>2 DEF AllPages
  <2>4. CASE CanMap(mem, ttbr0, v)
    <3> DEFINE o == [op[p] EXCEPT !.frame = None, !.old = None, !.next = @ + 1]
    <3>1. mem' = MapPage(mem, ttbr0, v, f, prot) /\ op' = [op EXCEPT ![cur] = o]
      BY <1>4, <2>a, <2>1, <2>4 DEF ExecMap, Become
    <3>2. Fields(o, F) /\ o.kind = "exec" /\ o.next = op[cur].next + 1 /\ o.frame = None
      BY <1>0, <2>1 DEF Fields
    <3> HIDE DEF o
    <3>3. o.next \in 1..(Len(Image) + 1)
      BY <1>c, <2>2, <3>2
    <3>4. OpShape(o) /\ FrameOf(o) = {} /\ OpFits(o, mem')
      BY <1>b, <3>2, <3>3
    <3>5. ttbr0 \in mem.roots \cup {KernelRoot}
      BY MemFacts
    <3> QED
      BY <2>1, <2>2, <2>3, <2>4, <3>1, <3>4, <3>5, GiveStep
  <2>5. CASE ~CanMap(mem, ttbr0, v)
    <3>1. mem' = PutPage(mem, f) /\ op' = [op EXCEPT ![cur] = User]
      BY <1>4, <2>a, <2>1, <2>5 DEF ExecMap, ExecFail, Become
    <3> QED
      BY <2>1, <2>2, <3>1, EndFits, GiveStep
  <2> QED
    BY <2>4, <2>5
<1>5. CASE ExecDone(p)
  <2>a. PICK m, H, r : m = mem /\ H = Held /\ r = pgd[cur]
    OBVIOUS
  <2> DEFINE o == [kind |-> "refree", pte |-> m.pte[r], alone |-> TRUE]
  <2>1. /\ cur = p /\ cur' = cur /\ op[cur].kind = "exec" /\ op[cur].next > Len(Image)
        /\ mem' = FreeTree(m, r) /\ op' = [op EXCEPT ![cur] = o]
    BY <1>5, <2>a DEF ExecDone, Doing, Running, Become
  <2>2. op[cur].frame = None /\ FrameOf(op[cur]) = {}
    BY <1>0, <1>c, <2>1
  <2>3. MemOK(m, H) /\ r \in m.roots /\ r \in Spaces
    BY <1>0, <2>a, MemFacts, MemParts DEF Spaces
  <2>4. MemOK(FreeTree(m, r), H)
    BY <2>3, FreeKeeps
  <2>5. OpShape(o) /\ o.kind = "refree" /\ o.pte = m.pte[r]
    BY NewOps
  <2> HIDE DEF o
  <2>6. FrameOf(o) = {} /\ "frame" \notin DOMAIN o
    BY <2>5, FrameIs
  <2>7. OpFits(o, mem')
    BY <2>5, <2>6 DEF OpFits
  <2>8. MemOK(mem', Held)
    BY <2>a, <2>1, <2>4
  <2> QED
    BY <2>1, <2>2, <2>5, <2>6, <2>7, <2>8, MemStep
<1> QED
  BY <1>1, <1>2, <1>3, <1>4, <1>5

\* A killed handler loses the frame it holds.
LEMMA LoseKeeps ==
  ASSUME NEW m, NEW H, MemOK(m, H), NEW f \in H
  PROVE  MemOK(Lose(m, f), H \ {f})
<1> PICK n : n = Lose(m, f)
  OBVIOUS
<1>1. /\ MemType(m) /\ H \subseteq Frames /\ Balanced(m, H) /\ HeldUnmapped(m, H)
      /\ Counted(m) /\ Rooted(m) /\ WritableOnce(m) /\ f \in Frames
  BY DEF MemOK
<1>2. /\ n.free = m.free /\ n.ref = m.ref /\ n.roots = m.roots /\ n.tab = m.tab /\ n.pte = m.pte
      /\ n.lost = [m.lost EXCEPT ![f] = @ + 1] /\ Fields(n, {"free", "ref", "lost", "roots", "tab", "pte"})
  BY <1>1 DEF Lose, MemType, Fields
<1>3. /\ m.free \in Nat /\ m.ref \in [Frames -> Nat] /\ m.lost \in [Frames -> Nat]
      /\ m.roots \in SUBSET UserSpaces /\ m.tab \in [Spaces -> SUBSET Tables]
      /\ m.pte \in [Spaces -> [AllPages -> Cells \cup {None}]]
  BY <1>1, MemParts
<1>4. n.lost \in [Frames -> Nat] /\ \A g \in Frames : n.lost[g] = IF g = f THEN m.lost[g] + 1 ELSE m.lost[g]
  BY <1>1, <1>2, <1>3
<1>5. MemType(n)
  BY <1>2, <1>3, <1>4, MemTyped
<1>6. \A g : Maps(n, g) = Maps(m, g) /\ Writable(n, g) = Writable(m, g)
  BY <1>2 DEF Maps, Writable
<1>7. Used(n) = Used(m) /\ Tabled(n) = Tabled(m)
  BY <1>2 DEF Used, Tabled
<1>8. Counted(n)
  BY <1>1, <1>2, <1>7 DEF Counted
<1>9. Balanced(n, H \ {f})
  <2>1. ASSUME NEW g \in Frames
        PROVE  n.ref[g] = Cardinality(Maps(n, g)) + (IF g \in H \ {f} THEN 1 ELSE 0) + n.lost[g]
    <3>1. m.ref[g] = Cardinality(Maps(m, g)) + (IF g \in H THEN 1 ELSE 0) + m.lost[g]
      BY <1>1 DEF Balanced
    <3>2. Cardinality(Maps(m, g)) \in Nat /\ m.lost[g] \in Nat
      BY <1>1, <1>3, Counts
    <3>3. Maps(n, g) = Maps(m, g) /\ n.ref[g] = m.ref[g]
      BY <1>2, <1>6
    <3>4. n.lost[g] = IF g = f THEN m.lost[g] + 1 ELSE m.lost[g]
      BY <1>4
    <3> QED
      BY <3>1, <3>2, <3>3, <3>4
  <2> QED
    BY <2>1 DEF Balanced
<1>10. HeldUnmapped(n, H \ {f}) /\ Rooted(n) /\ WritableOnce(n)
  BY <1>1, <1>2, <1>6 DEF HeldUnmapped, Rooted, WritableOnce
<1> QED
  BY <1>1, <1>5, <1>8, <1>9, <1>10 DEF MemOK

\* Exit: the frame of the handler is lost, its roots and tables stay.
LEMMA ExitMem ==
  ASSUME RInv, MInv, TouchesOwn, NEW p \in Procs, Exit(p)
  PROVE  MInv'
<1> PICK m, H : m = mem /\ H = Held
  OBVIOUS
<1>1. /\ cur = p /\ cur' = cur /\ op' = [op EXCEPT ![cur] = Dead]
      /\ mem' = IF "frame" \in DOMAIN op[cur] /\ op[cur].frame # None THEN Lose(m, op[cur].frame) ELSE m
  BY DEF Exit, Running, Become
<1>2. /\ MemOK(m, H) /\ FrameOf(op[cur]) \subseteq H
      /\ FrameOf(Dead) = {} /\ OpShape(Dead) /\ OpFits(Dead, mem')
  BY MemFacts, EndFits
<1>3. CASE "frame" \in DOMAIN op[cur] /\ op[cur].frame # None
  <2> PICK f : f = op[cur].frame
    OBVIOUS
  <2>1. FrameOf(op[cur]) = {f} /\ f \in H /\ mem' = Lose(m, f)
    BY <1>1, <1>2, <1>3 DEF FrameOf
  <2>2. MemOK(Lose(m, f), H \ {f})
    BY <1>2, <2>1, LoseKeeps
  <2>3. MemOK(mem', Held \ {f})
    BY <2>1, <2>2
  <2> QED
    BY <1>1, <1>2, <2>1, <2>3, MemStep
<1>4. CASE ~("frame" \in DOMAIN op[cur] /\ op[cur].frame # None)
  <2>1. FrameOf(op[cur]) = {} /\ mem' = mem
    BY <1>1, <1>4 DEF FrameOf
  <2> QED
    BY <1>1, <1>2, <2>1, DropStep
<1> QED
  BY <1>3, <1>4

\* A process that is not running changes the state of its handler and holds no frame.
LEMMA AsideMem ==
  ASSUME SpacesOK, MInv, MemOK(mem', Held), op' = [q \in Procs |-> op'[q]],
         \A q \in Procs : \/ op'[q] = op[q]
                          \/ FrameOf(op[q]) = {} /\ FrameOf(op'[q]) = {} /\ OpFits(op'[q], mem'),
         \A q \in Procs : op[q].kind = "fork" /\ op'[q] = op[q] => mem'.tab[op[q].root] = mem.tab[op[q].root]
  PROVE  MInv'
<1>1. \A q \in Procs, f \in Frames : f \in FrameOf(op[q]) <=> "frame" \in DOMAIN op[q] /\ op[q].frame = f
  BY NameAssumption DEF FrameOf
<1>2. \A q \in Procs, f \in Frames : f \in FrameOf(op'[q]) <=> "frame" \in DOMAIN op'[q] /\ op'[q].frame = f
  BY NameAssumption DEF FrameOf
<1>3. \A q \in Procs : FrameOf(op'[q]) = FrameOf(op[q])
  OBVIOUS
<1>4. Held' = Held
  BY <1>1, <1>2, <1>3 DEF Held
<1>5. HeldOnce'
  <2>1. ASSUME NEW q \in Procs, NEW s \in Procs, "frame" \in DOMAIN op'[q], "frame" \in DOMAIN op'[s],
               op'[q].frame = op'[s].frame, op'[q].frame # None
        PROVE  q = s
    <3>1. op'[q].frame \in FrameOf(op'[q]) /\ op'[q].frame \in FrameOf(op'[s])
      BY <2>1 DEF FrameOf
    <3>2. op'[q].frame \in FrameOf(op[q]) /\ op'[q].frame \in FrameOf(op[s])
      BY <1>3, <3>1
    <3>3. /\ "frame" \in DOMAIN op[q] /\ op[q].frame = op'[q].frame /\ op[q].frame # None
          /\ "frame" \in DOMAIN op[s] /\ op[s].frame = op'[q].frame
      BY <3>2 DEF FrameOf
    <3> QED
      BY <3>3 DEF MInv, HeldOnce
  <2> QED
    BY <2>1 DEF HeldOnce
<1>6. \A q \in Procs : OpOK(q)'
  <2>1. ASSUME NEW q \in Procs, op'[q] = op[q] PROVE OpFits(op'[q], mem')
    <3>1. OpFits(op[q], mem)
      BY DEF MInv, OpOK
    <3>2. op[q].kind = "fork" => mem'.tab[op[q].root] = mem.tab[op[q].root]
      BY <2>1
    <3> QED
      BY <2>1, <3>1, <3>2 DEF OpFits
  <2> QED
    BY <2>1 DEF OpOK
<1> QED
  BY <1>4, <1>5, <1>6 DEF MInv

\* A switch leaves memory alone.
LEMMA SwitchMem ==
  ASSUME SInv, MInv, NEW p \in Procs, Switch(p)
  PROVE  MInv'
<1>1. SpacesOK /\ mem' = mem /\ op' = Disturbed(p) /\ MemOK(mem', Held)
  BY DEF SInv, Switch, MInv
<1>2. cur \in Procs /\ op = [q \in Procs |-> op[q]] /\ OpShape(op[cur]) /\ OpFits(op[cur], mem)
  BY <1>1 DEF SpacesOK, MInv, OpOK
<1>3. CASE p # cur /\ op[cur].kind = "refree"
  <2> DEFINE o == [op[cur] EXCEPT !.alone = FALSE]
  <2>1. op' = [op EXCEPT ![cur] = o]
    BY <1>1, <1>3 DEF Disturbed
  <2>2. Fields(op[cur], {"kind", "pte", "alone"})
    BY <1>2, <1>3, KeptOps
  <2>3. Fields(o, {"kind", "pte", "alone"}) /\ o.kind = "refree"
    BY <1>3, <2>2 DEF Fields
  <2> HIDE DEF o
  <2>4. FrameOf(o) = {} /\ FrameOf(op[cur]) = {} /\ "frame" \notin DOMAIN o
    BY <2>2, <2>3 DEF FrameOf, Fields
  <2>5. OpFits(o, mem')
    BY <2>3, <2>4 DEF OpFits
  <2>6. op' = [q \in Procs |-> IF q = cur THEN o ELSE op[q]]
    BY <1>2, <2>1
  <2>7. \A q \in Procs : \/ op'[q] = op[q]
                         \/ FrameOf(op[q]) = {} /\ FrameOf(op'[q]) = {} /\ OpFits(op'[q], mem')
    BY <2>4, <2>5, <2>6
  <2>8. op' = [q \in Procs |-> op'[q]]
    BY <2>6
  <2> QED
    BY <1>1, <2>7, <2>8, AsideMem
<1>4. CASE ~(p # cur /\ op[cur].kind = "refree")
  <2>1. op' = op
    BY <1>1, <1>4 DEF Disturbed
  <2> QED
    BY <1>1, <2>1, StillMem
<1> QED
  BY <1>3, <1>4

\* A dead process's tree is freed with every reference and every table of it.
LEMMA ReleaseMem ==
  ASSUME SInv, MInv, NEW p \in Procs, Release(p)
  PROVE  MInv'
<1> PICK m, H, r : m = mem /\ H = Held /\ r = pgd[p]
  OBVIOUS
<1>1. SpacesOK /\ op[p] = Dead /\ mem' = FreeTree(m, r) /\ op' = [op EXCEPT ![p] = User] /\ MemOK(m, H)
  BY DEF SInv, Release, Become, MInv
<1>2. r \in m.roots
  BY ReleaseKeeps
<1>3. MemOK(FreeTree(m, r), H)
  BY <1>1, <1>2, FreeKeeps
<1>4. MemOK(mem', Held)
  BY <1>1, <1>3
<1>5. op' = [q \in Procs |-> IF q = p THEN User ELSE op[q]]
  BY <1>1 DEF SpacesOK
<1>6. \A q \in Procs : \/ op'[q] = op[q]
                       \/ FrameOf(op[q]) = {} /\ FrameOf(op'[q]) = {} /\ OpFits(op'[q], mem')
  BY <1>1, <1>5, EndFits
<1>7. ASSUME NEW q \in Procs, op[q].kind = "fork", op'[q] = op[q]
      PROVE  mem'.tab[op[q].root] = mem.tab[op[q].root]
  <2>1. q # p
    BY <1>1, <1>7, NewOps
  <2>2. op[q].root # None /\ op[q].root \in Mine(q)
    BY <1>1, <1>7 DEF SpacesOK, Mine, OpRoots
  <2>3. r \in Mine(p)
    BY <1>1, <1>2, NameAssumption DEF Mine, SpacesOK, MemShape
  <2>4. Mine(q) \cap Mine(p) = {} /\ Mine(q) \subseteq Spaces
    BY <1>1, <2>1 DEF SpacesOK, MemShape, Spaces
  <2>5. op[q].root \in Spaces \ {r}
    BY <2>2, <2>3, <2>4
  <2> QED
    BY <2>5, ReleaseKeeps
<1>8. op' = [q \in Procs |-> op'[q]]
  BY <1>5
<1> QED
  BY <1>1, <1>4, <1>6, <1>7, <1>8, AsideMem

\* execve's second free: nothing happens to memory, or a frame in use is freed.
LEMMA RefreeMem ==
  ASSUME RInv, MInv, TouchesOwn, NEW p \in Procs, ExecRefree(p)
  PROVE  /\ twice' \in BOOLEAN /\ LeftInv'
         /\ ~twice' => MInv'
<1> PICK m, H, pte, k : m = mem /\ H = Held /\ pte = op[cur].pte /\ k = Uses(pte, AllPages)
  OBVIOUS
<1> DEFINE live == \E f \in Frames : k[f] > 0 /\ m.ref[f] > 0
<1>1. /\ cur = p /\ cur' = cur /\ op[cur].kind = "refree" /\ mem' = PutPages(m, k)
      /\ op' = [op EXCEPT ![cur] = User] /\ twice' \in {live, live \/ ~op[cur].alone}
  BY DEF ExecRefree, Doing, Running, Become
<1>2. k \in [Frames -> Nat]
  BY UsesIs
<1>3. MemOK(m, H) /\ MemType(m) /\ Counted(m) /\ WritableOnce(m) /\ FrameOf(op[cur]) = {}
  BY <1>1, MemFacts, FrameIs DEF MemOK
<1>4. LeftInv'
  <2> PICK n : n = PutPages(m, k)
    OBVIOUS
  <2>1. MemType(n) /\ Counted(n) /\ n.pte = m.pte
    BY <1>2, <1>3, PutPagesIs
  <2>2. WritableOnce(n)
    BY <1>3, <2>1 DEF WritableOnce, Writable, Maps
  <2> QED
    BY <1>1, <2>1, <2>2 DEF LeftInv
<1>5. twice' \in BOOLEAN /\ (live => twice')
  BY <1>1, Zenon
<1>6. ASSUME ~twice' PROVE MInv'
  <2>1. ~live
    BY <1>5, <1>6
  <2>2. \A f \in Frames : k[f] > 0 => m.ref[f] = 0
    <3>1. \A f \in Frames : m.ref[f] \in Nat
      BY <1>3 DEF MemType
    <3> QED
      BY <2>1, <3>1
  <2>3. MemOK(PutPages(m, k), H)
    BY <1>2, <1>3, <2>2, RefreeKeeps
  <2>4. MemOK(mem', Held)
    BY <1>1, <2>3
  <2> QED
    BY <1>1, <1>3, <2>4, EndFits, MemStep
<1> QED
  BY <1>4, <1>5, <1>6

\* What the invariant leaves when it is given up.
LEMMA MemLeaves == MInv => LeftInv
BY DEF MInv, MemOK, LeftInv

AllInv == SInv /\ LeftInv /\ twice \in BOOLEAN /\ (twice \/ MInv)

\* Every step keeps the counts exact, until execve frees a frame twice that is in use.
LEMMA MemInvariance == AllInv /\ [Next]_vars => AllInv'
<1> SUFFICES ASSUME AllInv, [Next]_vars PROVE AllInv'
  OBVIOUS
<1>0. SInv /\ SInv' /\ LeftInv /\ twice \in BOOLEAN /\ (twice \/ MInv)
  BY RootInvariance DEF AllInv
<1>a. MInv' => LeftInv'
  BY DEF MInv, MemOK, LeftInv
<1>1. ASSUME MInv, NEW p \in Procs, Calls(p) \/ Steps(p) PROVE MInv'
  <2>1. RInv
    BY <1>0, <1>1, HandlersLive
  <2>2. TouchesOwn
    BY <1>1, <2>1, RunKeeps
  <2>3. CASE Calls(p)
    BY <1>1, <2>1, <2>2, <2>3, MmapMem, UnmapMem, ForkMem, ExecMem, FaultMem DEF Calls
  <2>4. CASE Steps(p)
    BY <1>1, <2>1, <2>2, <2>4, MmapMem, UnmapMem, ForkMem, ExecMem, FaultMem DEF Steps
  <2> QED
    BY <1>1, <2>3, <2>4
<1>2. ASSUME MInv, NEW p \in Procs, Switch(p) PROVE MInv'
  BY <1>0, <1>2, SwitchMem
<1>3. ASSUME MInv, NEW p \in Procs, Exit(p) PROVE MInv'
  <2>1. RInv /\ TouchesOwn
    BY <1>0, <1>3, HandlersLive, ExitKeeps
  <2> QED
    BY <1>3, <2>1, ExitMem
<1>4. ASSUME MInv, NEW p \in Procs, Release(p) PROVE MInv'
  BY <1>0, <1>4, ReleaseMem
<1>5. ASSUME MInv, NEW p \in Procs, ExecRefree(p)
      PROVE  twice' \in BOOLEAN /\ LeftInv' /\ (twice' \/ MInv')
  <2>1. RInv
    BY <1>0, <1>5, HandlersLive
  <2>2. TouchesOwn
    BY <1>5, <2>1, RunKeeps
  <2> QED
    BY <1>5, <2>1, <2>2, RefreeMem
<1>6. CASE UNCHANGED vars
  <2>1. UNCHANGED <<mem, op, twice>>
    BY <1>6 DEF vars
  <2>2. MInv => MInv'
    BY <2>1, StillMem
  <2>3. LeftInv'
    BY <1>0, <2>1 DEF LeftInv
  <2> QED
    BY <1>0, <2>1, <2>2, <2>3 DEF AllInv
<1>7. CASE Next
  <2>1. ~twice /\ MInv
    BY <1>0, <1>7 DEF Next
  <2>2. PICK p \in Procs :
            \/ (Calls(p) \/ Steps(p) \/ Switch(p) \/ Exit(p) \/ Release(p)) /\ twice' = twice
            \/ ExecRefree(p)
    BY <1>7 DEF Next
  <2>3. CASE ExecRefree(p)
    BY <1>0, <1>5, <2>1, <2>3 DEF AllInv
  <2>4. CASE (Calls(p) \/ Steps(p) \/ Switch(p) \/ Exit(p) \/ Release(p)) /\ twice' = twice
    <3>1. MInv'
      BY <1>1, <1>2, <1>3, <1>4, <2>1, <2>4
    <3> QED
      BY <1>0, <1>a, <2>4, <3>1 DEF AllInv
  <2> QED
    BY <2>2, <2>3, <2>4
<1> QED
  BY <1>6, <1>7

------------------------------------------------------------------------------------
(* What holds of memory *)

\* The invariant implies the type invariant.
LEMMA MemTypes == AllInv => TypeOK
<1> SUFFICES ASSUME AllInv PROVE TypeOK
  OBVIOUS
<1>1. /\ MemType(mem) /\ Counted(mem) /\ SpacesOK /\ AreasOK /\ twice \in BOOLEAN
      /\ ttbr0 # None \/ op[cur] = Dead
  BY DEF AllInv, SInv, LeftInv
<1>2. /\ mem.free \in Nat /\ mem.ref \in [Frames -> Nat] /\ mem.lost \in [Frames -> Nat]
      /\ mem.roots \in SUBSET UserSpaces /\ mem.tab \in [Spaces -> SUBSET Tables]
      /\ mem.pte \in [Spaces -> [AllPages -> Cells \cup {None}]]
  BY <1>1, MemParts
<1>3. mem.free \in 0..Memory
  <2>1. /\ Cardinality(Used(mem)) \in Nat /\ Cardinality(mem.roots) \in Nat /\ Cardinality(Tabled(mem)) \in Nat
        /\ Memory \in Nat
    BY <1>1, Counts, MemoryAssumption
  <2> QED
    BY <1>1, <1>2, <2>1 DEF Counted
<1>4. \A r \in Spaces : \A v \in AllPages : mem.pte[r][v] # None => mem.pte[r][v] \in Cells
  BY <1>2
<1>5. /\ \A p \in Procs : \A a \in vmas[p] : a.start < a.end
      /\ brk \in [Procs -> Nat]
  <2>1. Pages \cup {0} \subseteq Nat
    BY PageAssumption DEF AllPages
  <2> QED
    BY <1>1, <2>1 DEF AreasOK, AreaOK
<1>6. /\ pgd \in [Procs -> mem.roots \cup {None}] /\ cur \in Procs /\ pgd[cur] # None
      /\ \A p \in Procs : OpShape(op[p])
  BY <1>1 DEF RootsOK, SpacesOK
<1>7. ttbr0 \in mem.roots \cup {None} /\ (ttbr0 = None => op[cur] = Dead)
  <2>1. ttbr0 # None => ttbr0 \in Mine(cur)
    BY DEF Mine
  <2> QED
    BY <1>1, <1>6, <2>1 DEF SpacesOK
<1>8. \A p \in Procs : op[p].kind \in Kinds
  BY <1>6, KeptOps
<1> QED
  BY <1>1, <1>2, <1>3, <1>4, <1>5, <1>6, <1>7, <1>8 DEF TypeOK

\* The invariant implies what the run checks of the counts.
LEMMA MemExact == AllInv => RefsExact /\ TablesExact /\ WritableByOne
<1> SUFFICES ASSUME AllInv PROVE RefsExact /\ TablesExact /\ WritableByOne
  OBVIOUS
<1>1. /\ WritableOnce(mem)
      /\ ~twice => MInv /\ MemType(mem) /\ Balanced(mem, Held) /\ Counted(mem) /\ Rooted(mem)
  BY DEF AllInv, LeftInv, MInv, MemOK
<1>2. \A f : Entries(f) = Maps(mem, f)
  BY DEF Entries, Maps
<1>3. RefsExact
  <2> SUFFICES ASSUME ~twice PROVE RefsExact
    BY DEF RefsExact
  <2>1. ASSUME NEW f \in Frames PROVE Cardinality(Holders(f)) = IF f \in Held THEN 1 ELSE 0
    <3>1. CASE f \in Held
      <4>1. PICK p \in Procs : "frame" \in DOMAIN op[p] /\ op[p].frame = f
        BY <3>1 DEF Held
      <4>2. f # None
        BY NameAssumption
      <4>3. Holders(f) = {p}
        BY <1>1, <4>1, <4>2 DEF Holders, MInv, HeldOnce
      <4> QED
        BY <3>1, <4>3, FS_Singleton
    <3>2. CASE f \notin Held
      <4>1. Holders(f) = {}
        BY <3>2 DEF Holders, Held
      <4> QED
        BY <3>2, <4>1, FS_EmptySet
    <3> QED
      BY <3>1, <3>2
  <2> QED
    BY <1>1, <1>2, <2>1 DEF RefsExact, Balanced
<1>4. TablesExact
  BY <1>1 DEF TablesExact, Counted, Rooted, Used, Tabled
<1>5. WritableByOne
  <2>1. ASSUME NEW f \in Frames
        PROVE  Cardinality({x \in Entries(f) : mem.pte[x[1]][x[2]].prot = "rw"}) <= 1
    <3> DEFINE W == {x \in Entries(f) : mem.pte[x[1]][x[2]].prot = "rw"}
    <3>1. \A x, y \in W : x = y
      <4>1. W = Writable(mem, f)
        BY <1>2 DEF Writable
      <4> QED
        BY <1>1, <4>1 DEF WritableOnce
    <3> HIDE DEF W
    <3>2. CASE W = {}
      <4>1. Cardinality(W) = 0
        BY <3>2, FS_EmptySet
      <4> QED
        BY <4>1 DEF W
    <3>3. CASE W # {}
      <4>1. PICK x : W = {x}
        BY <3>1, <3>3
      <4>2. Cardinality(W) = 1
        BY <4>1, FS_Singleton, Zenon
      <4>3. Cardinality(W) <= 1
        BY <4>2
      <4> QED
        BY <4>3, Zenon DEF W
    <3> QED
      BY <3>2, <3>3
  <2> QED
    BY <2>1 DEF WritableByOne
<1> QED
  BY <1>3, <1>4, <1>5

\* The invariants together.
LEMMA Invariance == Spec => []AllInv
<1>1. Init => AllInv
  BY InitKeeps, MemLeaves DEF RInv, RootsOK, SInv, AllInv
<1>2. AllInv /\ [Next]_vars => AllInv'
  BY MemInvariance
<1> QED
  BY <1>1, <1>2, PTL DEF Spec

\* Memory, tables, areas and TTBR0 stay well formed: the running process always has a
\* table, and TTBR0 holds a root that exists until the process exits.
THEOREM MemoryIsTyped == Spec => []TypeOK
BY Invariance, MemTypes, PTL

\* put_page and get_page balance: through mmap and its roll-back, munmap, brk, fork, copy
\* on write, demand paging, execve, exit and reaping, preempted anywhere, a frame has as
\* many references as entries and handlers that use it, those of overwritten entries and
\* killed handlers aside, until an execve frees a frame twice that is in use.
THEOREM ReferencesBalance == Spec => []RefsExact
BY Invariance, MemExact, PTL

\* Every frame of a page table is accounted for, and a table lives as long as a page
\* of it is mapped: arm64_unmap_one_page and free_page_table_tree free what is theirs,
\* until an execve frees a frame twice that is in use.
THEOREM TablesBalance == Spec => []TablesExact
BY Invariance, MemExact, PTL

\* Copy on write: however often processes fork, fault, replace their memory and exit, at
\* most one entry of one address space lets a frame be written.
THEOREM OneWriter == Spec => []WritableByOne
BY Invariance, MemExact, PTL
=====================================================================================
