----------------------------------- MODULE Rbtree -----------------------------------
(***************************************************************************)
(* The red-black tree of kernel/ds/rbtree.c, in which the area manager     *)
(* keeps its free areas.  Nodes are 1..N in the order of compare; NIL is   *)
(* the tree's sentinel, a node like the others whose fields the code reads *)
(* and writes.  One step is one iteration of a loop.  The left and right   *)
(* halves of the code are mirror images, written once with a side d.  A    *)
(* deleted node is its owner's again, so its fields are reset.             *)
(***************************************************************************)
EXTENDS Integers, FiniteSets

CONSTANT N
ASSUME NAssumption == N \in Nat

Nodes == 1..N
NIL == 0
Sides == {"left", "right"}
Other(d) == IF d = "left" THEN "right" ELSE "left"

VARIABLES tree,  \* [root, parent, child, color]
          op,    \* the call in progress, with its locals
          set    \* history: the nodes that are to be in the tree

vars == <<tree, op, set>>
Idle == [kind |-> "idle"]

\* rb_tree_init
Init ==
    /\ tree = [root |-> NIL,
               parent |-> [n \in Nodes \cup {NIL} |-> NIL],
               child |-> [d \in Sides |-> [n \in Nodes \cup {NIL} |-> NIL]],
               color |-> [n \in Nodes \cup {NIL} |-> "black"]]
    /\ op = Idle
    /\ set = {}

------------------------------------------------------------------------------------
\* Mutated form: v always becomes a left child.
ReplaceLeft(T, u, v) ==
    LET p == T.parent[u]
    IN IF p = NIL THEN [T EXCEPT !.root = v] ELSE [T EXCEPT !.child["left"][p] = v]

\* u's place below its parent is taken by v.
Replace(T, u, v) ==
    LET p == T.parent[u]
    IN IF p = NIL THEN [T EXCEPT !.root = v]
       ELSE IF u = T.child["left"][p] THEN [T EXCEPT !.child["left"][p] = v]
       ELSE [T EXCEPT !.child["right"][p] = v]

\* rb_transplant: also when v is the sentinel.
Transplant(T, u, v) == [Replace(T, u, v) EXCEPT !.parent[v] = T.parent[u]]

\* Mutated form: the parent of the subtree that changes sides is not set.
RotateLosesParent(T, d, x) ==
    LET e == Other(d)
        y == T.child[e][x]
        T1 == [T EXCEPT !.child[e][x] = T.child[d][y], !.parent[y] = T.parent[x]]
    IN [Replace(T1, x, y) EXCEPT !.child[d][y] = x, !.parent[x] = y]

\* rb_left_rotate (d = "left") and rb_right_rotate.
Rotate(T, d, x) ==
    LET e == Other(d)
        y == T.child[e][x]
        c == T.child[d][y]
        T1 == [T EXCEPT !.child[e][x] = c,
                        !.parent[c] = IF c = NIL THEN @ ELSE x,
                        !.parent[y] = T.parent[x]]
    IN [Replace(T1, x, y) EXCEPT !.child[d][y] = x, !.parent[x] = y]

Paint(T, n, c) == [T EXCEPT !.color[n] = c]
Side(T, n) == IF n = T.child["left"][T.parent[n]] THEN "left" ELSE "right"

------------------------------------------------------------------------------------
Less(a, b) == a < b
Toward(a, b) == IF Less(a, b) THEN "left" ELSE "right"

\* rb_tree_insert: down from the root to the parent y of the new leaf.
Insert(z) ==
    /\ op = Idle /\ z \notin set
    /\ op' = [kind |-> "descend", z |-> z, y |-> NIL, x |-> tree.root]
    /\ UNCHANGED <<tree, set>>

Descend ==
    /\ op.kind = "descend" /\ op.x # NIL
    /\ op' = [op EXCEPT !.y = op.x, !.x = tree.child[Toward(op.z, op.x)][op.x]]
    /\ UNCHANGED <<tree, set>>

Link ==
    /\ op.kind = "descend" /\ op.x = NIL
    /\ LET z == op.z
           linked == IF op.y = NIL THEN [tree EXCEPT !.root = z]
                     ELSE [tree EXCEPT !.child[Toward(z, op.y)][op.y] = z]
       IN tree' = [linked EXCEPT !.parent[z] = op.y, !.color[z] = "red",
                                 !.child["left"][z] = NIL, !.child["right"][z] = NIL]
    /\ op' = [kind |-> "insert_fixup", z |-> op.z]
    /\ set' = set \cup {op.z}

RedParent(z) == tree.color[tree.parent[z]] = "red"

Sibling(T, p) == T.child[Other(Side(T, p))][T.parent[p]]

\* rb_insert_fixup, red uncle: the redness moves up.
RaiseRed ==
    LET p == tree.parent[op.z]
        y == Sibling(tree, p)
    IN /\ op.kind = "insert_fixup" /\ RedParent(op.z) /\ tree.color[y] = "red"
       /\ tree' = Paint(Paint(Paint(tree, p, "black"), y, "black"), tree.parent[p], "red")
       /\ op' = [op EXCEPT !.z = tree.parent[p]]
       /\ UNCHANGED set

BlackUncle(p) == tree.color[Sibling(tree, p)] = "black"

\* rb_insert_fixup, black uncle and an inner node: it is turned into an outer one, ...
TurnOuter ==
    LET p == tree.parent[op.z]
        d == Side(tree, p)
    IN /\ op.kind = "insert_fixup" /\ RedParent(op.z) /\ BlackUncle(p)
       /\ op.z = tree.child[Other(d)][p]
       /\ tree' = Rotate(tree, d, p)
       /\ op' = [op EXCEPT !.z = p]
       /\ UNCHANGED set

\* ... and an outer one is rotated up.
RotateRed ==
    LET p == tree.parent[op.z]
        g == tree.parent[p]
        d == Side(tree, p)
    IN /\ op.kind = "insert_fixup" /\ RedParent(op.z) /\ BlackUncle(p)
       /\ op.z = tree.child[d][p]
       /\ tree' = Rotate(Paint(Paint(tree, p, "black"), g, "red"), Other(d), g)
       /\ UNCHANGED <<op, set>>

BlackenRoot(T) == Paint(T, T.root, "black")

InsertDone ==
    /\ op.kind = "insert_fixup" /\ ~RedParent(op.z)
    /\ tree' = BlackenRoot(tree)
    /\ op' = Idle
    /\ UNCHANGED set

------------------------------------------------------------------------------------
Forget(T, z) ==
    [T EXCEPT !.parent[z] = NIL, !.child["left"][z] = NIL, !.child["right"][z] = NIL, !.color[z] = "black"]

FixupDue(color) == color = "black"

\* What is left of rb_tree_delete: T without z; x has taken the place of a node of
\* the given colour.
Unlinked(T, z, x, color) ==
    /\ tree' = Forget(T, z)
    /\ set' = set \ {z}
    /\ op' = IF FixupDue(color) THEN [kind |-> "delete_fixup", x |-> x] ELSE Idle

\* rb_tree_delete of a node with at most one child.
DeleteOuter(z) ==
    /\ op = Idle /\ z \in set
    /\ \/ /\ tree.child["left"][z] = NIL
          /\ Unlinked(Transplant(tree, z, tree.child["right"][z]), z, tree.child["right"][z], tree.color[z])
       \/ /\ tree.child["left"][z] # NIL /\ tree.child["right"][z] = NIL
          /\ Unlinked(Transplant(tree, z, tree.child["left"][z]), z, tree.child["left"][z], tree.color[z])

\* rb_tree_delete of a node with two children: rb_tree_min of the right subtree, ...
DeleteInner(z) ==
    /\ op = Idle /\ z \in set
    /\ tree.child["left"][z] # NIL /\ tree.child["right"][z] # NIL
    /\ op' = [kind |-> "min", z |-> z, y |-> tree.child["right"][z]]
    /\ UNCHANGED <<tree, set>>

Min ==
    /\ op.kind = "min" /\ tree.child["left"][op.y] # NIL
    /\ op' = [op EXCEPT !.y = tree.child["left"][@]]
    /\ UNCHANGED <<tree, set>>

\* Mutated form: the successor keeps its own colour.
KeepsColor(T, z, y) == T.color[y]

TakesColor(T, z, y) == T.color[z]

\* ... which takes z's place and its colour.
Splice ==
    LET z == op.z
        y == op.y
        x == tree.child["right"][y]
        T1 == IF tree.parent[y] = z THEN [tree EXCEPT !.parent[x] = y]
              ELSE LET cut == Transplant(tree, y, x)
                       r == cut.child["right"][z]
                   IN [cut EXCEPT !.child["right"][y] = r, !.parent[r] = y]
        T2 == Transplant(T1, z, y)
        l == T2.child["left"][z]
    IN /\ op.kind = "min" /\ tree.child["left"][y] = NIL
       /\ Unlinked([T2 EXCEPT !.child["left"][y] = l, !.parent[l] = y, !.color[y] = TakesColor(T2, z, y)],
                   z, x, tree.color[y])

\* rb_delete_fixup goes on as long as x stands for a black too many below the root.
DoubleBlack == op.kind = "delete_fixup" /\ op.x # tree.root /\ tree.color[op.x] = "black"

\* rb_delete_fixup, red sibling: it is rotated away, within the same iteration.
RedSibling ==
    LET p == tree.parent[op.x]
        w == Sibling(tree, op.x)
    IN /\ DoubleBlack /\ tree.color[w] = "red"
       /\ tree' = Rotate(Paint(Paint(tree, w, "black"), p, "red"), Side(tree, op.x), p)
       /\ UNCHANGED <<op, set>>

\* The nephew of x on side s, below a black sibling.
Nephew(s) == tree.child[s][Sibling(tree, op.x)]
NephewIs(s, c) ==
    /\ DoubleBlack /\ tree.color[Sibling(tree, op.x)] = "black"
    /\ tree.color[Nephew(s)] = c

\* rb_delete_fixup, black nephews: the missing black moves up.
RaiseBlack ==
    /\ \A s \in Sides : NephewIs(s, "black")
    /\ tree' = Paint(tree, Sibling(tree, op.x), "red")
    /\ op' = [op EXCEPT !.x = tree.parent[@]]
    /\ UNCHANGED set

\* rb_delete_fixup, only the near nephew is red: it becomes the sibling.
NearNephew ==
    LET d == Side(tree, op.x)
        w == Sibling(tree, op.x)
    IN /\ NephewIs(d, "red") /\ NephewIs(Other(d), "black")
       /\ tree' = Rotate(Paint(Paint(tree, Nephew(d), "black"), w, "red"), Other(d), w)
       /\ UNCHANGED <<op, set>>

\* Mutated form: x stays where it is.
StayPut(x, root) == x

Leave(x, root) == root

\* rb_delete_fixup, the far nephew is red: the last rotation, and x becomes the root.
RotateBlack ==
    LET p == tree.parent[op.x]
        d == Side(tree, op.x)
        w == Sibling(tree, op.x)
        painted == Paint(Paint(Paint(tree, w, tree.color[p]), p, "black"), Nephew(Other(d)), "black")
    IN /\ NephewIs(Other(d), "red")
       /\ tree' = Rotate(painted, d, p)
       /\ op' = [op EXCEPT !.x = Leave(@, tree'.root)]
       /\ UNCHANGED set

DeleteDone ==
    /\ op.kind = "delete_fixup" /\ ~DoubleBlack
    /\ tree' = Paint(tree, op.x, "black")
    /\ op' = Idle
    /\ UNCHANGED set

------------------------------------------------------------------------------------
\* rb_tree_search
Search(k) ==
    /\ op = Idle
    /\ op' = [kind |-> "search", key |-> k, cur |-> tree.root]
    /\ UNCHANGED <<tree, set>>

SearchStep ==
    /\ op.kind = "search" /\ op.cur # NIL /\ op.cur # op.key
    /\ op' = [op EXCEPT !.cur = tree.child[Toward(op.key, @)][@]]
    /\ UNCHANGED <<tree, set>>

SearchDone ==
    /\ op.kind = "search" /\ op.cur \in {NIL, op.key}
    /\ op' = Idle
    /\ UNCHANGED <<tree, set>>

Step ==
    \/ Descend \/ Link \/ RaiseRed \/ TurnOuter \/ RotateRed \/ InsertDone
    \/ Min \/ Splice \/ RedSibling \/ RaiseBlack \/ NearNephew \/ RotateBlack \/ DeleteDone
    \/ SearchStep \/ SearchDone

Next ==
    \/ \E n \in Nodes : Insert(n) \/ DeleteOuter(n) \/ DeleteInner(n) \/ Search(n)
    \/ Step

\* The caller holds va_mgr.lock with interrupts masked: a call runs to its end.
Spec == Init /\ [][Next]_vars /\ WF_vars(Step)

------------------------------------------------------------------------------------
\* Every pointer is a node or the sentinel, and a call keeps the locals of its loop.
TypeOK ==
    /\ tree \in [root : Nodes \cup {NIL}, parent : [Nodes \cup {NIL} -> Nodes \cup {NIL}],
                 child : [Sides -> [Nodes \cup {NIL} -> Nodes \cup {NIL}]],
                 color : [Nodes \cup {NIL} -> {"red", "black"}]]
    /\ set \subseteq Nodes
    /\ op \in [kind : {"idle"}]
          \cup [kind : {"descend"}, z : Nodes, y : Nodes \cup {NIL}, x : Nodes \cup {NIL}]
          \cup [kind : {"insert_fixup"}, z : Nodes] \cup [kind : {"min"}, z : Nodes, y : Nodes]
          \cup [kind : {"delete_fixup"}, x : Nodes \cup {NIL}]
          \cup [kind : {"search"}, key : Nodes, cur : Nodes \cup {NIL}]

\* The nodes of the subtree at n: all that are reached in at most N steps.
Below(n) ==
    LET reach[k \in 0..N] ==
          IF k = 0 THEN {n}
          ELSE LET near == reach[k-1] IN near \cup {tree.child[d][m] : d \in Sides, m \in near}
    IN reach[N] \ {NIL}

\* At every moment of every call the tree holds exactly the nodes inserted and not
\* deleted, every node comes after its left and before its right subtree, and parent
\* pointers mirror child pointers: no rotation and no splice loses or misplaces one.  The
\* sentinel stays black and childless although fix-ups paint nodes that may be it; only its
\* parent changes, for rb_delete_fixup.
TreeExact ==
    /\ TypeOK
    /\ Below(tree.root) = set
    /\ \A n \in set : /\ \A m \in Below(tree.child["left"][n]) : Less(m, n)
                      /\ \A m \in Below(tree.child["right"][n]) : Less(n, m)
                      /\ \A d \in Sides : tree.child[d][n] # NIL => tree.parent[tree.child[d][n]] = n
    /\ tree.root # NIL => tree.parent[tree.root] = NIL
    /\ tree.color[NIL] = "black" /\ \A d \in Sides : tree.child[d][NIL] = NIL

\* Between calls the tree is balanced: the root is black, no red node has a red child, and
\* all paths down to a missing child cross equally many black nodes.
RedBlack ==
    op = Idle =>
        LET ends == {n \in set : \E d \in Sides : tree.child[d][n] = NIL}
            blacks(n) == Cardinality({m \in set : n \in Below(m) /\ tree.color[m] = "black"})
        IN /\ tree.color[tree.root] = "black"
           /\ \A n \in set, d \in Sides : tree.color[n] = "red" => tree.color[tree.child[d][n]] = "black"
           /\ \A m, n \in ends : blacks(m) = blacks(n)

\* A search ends on its key exactly when the key is in the tree.
SearchExact ==
    op.kind = "search" /\ op.cur \in {NIL, op.key} => (op.cur = op.key <=> op.key \in set)

\* Every call ends: the fix-up loops reach a black parent or the root.
CallsEnd == op # Idle ~> op = Idle
====================================================================================
