------------------------------- MODULE RbtreeProofs -------------------------------
(***************************************************************************)
(* Every state of Rbtree is a search tree between calls and within them:   *)
(* the nodes are those that were inserted and not deleted, in order, and   *)
(* between calls the tree is red-black balanced.  The invariant gives each *)
(* node its bounds B and its black height H, neither of which the code     *)
(* keeps, and says what the loop of the call in progress has preserved.    *)
(***************************************************************************)
EXTENDS Rbtree, SetLemmas, TLAPS

------------------------------------------------------------------------------------
\* The invariant: a search tree between bounds, with black heights, and what each loop keeps.

\* The nodes and the sentinel, their colours, and the records the code can keep in a tree.
Node0 == Nodes \cup {NIL}
Colors == {"red", "black"}
Trees == [root : Node0, parent : [Node0 -> Node0], child : [Sides -> [Node0 -> Node0]], color : [Node0 -> Colors]]

\* a lies on the d side of b.
Lt(d, a, b) == IF d = "left" THEN a < b ELSE b < a
\* The bounds of the root: no key is outside them.
End(d) == IF d = "left" THEN 0 ELSE N + 1

\* The keys that belong below n: those between its bounds.
In(B, n, k) == \A d \in Sides : Lt(d, B[d][n], k)

\* A child has the bounds that its side gives it; where there is none no key is missing.
Linked(T, S, B, n, d) ==
    \/ /\ T.child[d][n] = NIL
       /\ \A k \in S : ~(Lt(d, k, n) /\ Lt(d, B[d][n], k))
    \/ /\ T.child[d][n] \in S
       /\ T.parent[T.child[d][n]] = n
       /\ B[d][T.child[d][n]] = B[d][n]
       /\ B[Other(d)][T.child[d][n]] = n

\* The root is a node exactly when there is one, and nothing is above it.
Rooted(T, S, B) ==
    \/ T.root = NIL /\ S = {}
    \/ T.root \in S /\ T.parent[T.root] = NIL /\ \A d \in Sides : B[d][T.root] = End(d)

\* A node is a child of its parent.
Hangs(T, S, n) == T.parent[n] \in S /\ \E d \in Sides : T.child[d][T.parent[n]] = n

\* T is a search tree of the nodes S: bounds B, links in both directions, and a sentinel without children.
Shape(T, S, B) ==
    /\ T \in Trees /\ S \subseteq Nodes /\ B \in [Sides -> [S -> 0..(N + 1)]]
    /\ Rooted(T, S, B)
    /\ \A n \in S : In(B, n, n)
    /\ \A n \in S, d \in Sides : Linked(T, S, B, n, d)
    /\ \A n \in S : n # T.root => Hangs(T, S, n)
    /\ \A d \in Sides : T.child[d][NIL] = NIL
    /\ T.color[NIL] = "black"

\* What a node adds to the black height.
Black(T, n) == IF T.color[n] = "black" THEN 1 ELSE 0
\* One black is missing below q on side d.
Extra(q, d, n, s) == IF n = q /\ s = d THEN 1 ELSE 0
\* H is a black height but for the one black that is missing below q on side d.
Balanced(T, S, H, q, d) ==
    /\ H \in [Node0 -> Nat] /\ H[NIL] = 0
    /\ \A n \in S, s \in Sides : H[n] = H[T.child[s][n]] + Extra(q, d, n, s) + Black(T, n)

\* No red node has a red child, but for the child E and the parent F.
Reds(T, S, E, F) ==
    \A n \in S, s \in Sides :
        T.color[n] = "red" /\ T.color[T.child[s][n]] = "red" => T.child[s][n] = E \/ n = F

\* The root is black unless it is E.
RootBlack(T, E) == T.color[T.root] = "black" \/ T.root = E

\* Between calls: a red-black tree.
Fine(T, S, H) == Balanced(T, S, H, NIL, "left") /\ Reds(T, S, NIL, NIL) /\ T.color[T.root] = "black"

\* rb_insert_fixup: only z may be red below a red node, or a red root.
Inserting(T, S, H, z) ==
    /\ z \in S /\ T.color[z] = "red"
    /\ Balanced(T, S, H, NIL, "left") /\ Reds(T, S, z, NIL) /\ RootBlack(T, z)

\* rb_delete_fixup: x stands for one black more than it has, and only x may be red below a red node.
Deleting(T, S, H, x) ==
    /\ x \in S \cup {NIL} /\ Reds(T, S, x, x) /\ RootBlack(T, x)
    /\ \/ x = T.root /\ Balanced(T, S, H, NIL, "left")
       \/ /\ T.parent[x] \in S
          /\ \E d \in Sides : T.child[d][T.parent[x]] = x /\ Balanced(T, S, H, T.parent[x], d)

\* rb_tree_insert on its way down: z belongs below y, on the side where x is.
Descending(T, S, B, o) ==
    /\ o \in [kind : {"descend"}, z : Nodes, y : Node0, x : Node0] /\ o.z \notin S
    /\ \/ o.y = NIL /\ o.x = T.root
       \/ o.y \in S /\ In(B, o.y, o.z) /\ o.x = T.child[Toward(o.z, o.y)][o.y]

\* rb_tree_min: no node lies between z and the subtree at y.
Succeeding(T, S, B, o) ==
    /\ o \in [kind : {"min"}, z : Nodes, y : Nodes]
    /\ o.z \in S /\ o.y \in S /\ B["left"][o.y] = o.z
    /\ T.child["left"][o.z] # NIL /\ T.child["right"][o.z] # NIL

\* rb_tree_search: a key of the tree is still below cur.
Searching(T, S, B, o) ==
    /\ o \in [kind : {"search"}, key : Nodes, cur : Node0] /\ o.cur \in S \cup {NIL}
    /\ o.key \in S => o.cur # NIL /\ In(B, o.cur, o.key)

\* What the call in progress has kept.
OpOK(T, S, B, H, o) ==
    \/ o = Idle /\ Fine(T, S, H)
    \/ Descending(T, S, B, o) /\ Fine(T, S, H)
    \/ o \in [kind : {"insert_fixup"}, z : Nodes] /\ Inserting(T, S, H, o.z)
    \/ Succeeding(T, S, B, o) /\ Fine(T, S, H)
    \/ o \in [kind : {"delete_fixup"}, x : Node0] /\ Deleting(T, S, H, o.x)
    \/ Searching(T, S, B, o) /\ Fine(T, S, H)

\* Bounds and black heights exist.
Good(T, S, o) ==
    \E B \in [Sides -> [S -> 0..(N + 1)]], H \in [Node0 -> Nat] : Shape(T, S, B) /\ OpOK(T, S, B, H, o)

\* The inductive invariant.
IInv == Good(tree, set, op)

------------------------------------------------------------------------------------
\* Order, shape, and what the updates of the code do to the fields.

\* There are two sides, each the other of the other.
LEMMA SidesAre ==
  /\ "left" \in Sides /\ "right" \in Sides
  /\ \A d \in Sides : /\ Other(d) \in Sides /\ Other(d) # d /\ Other(Other(d)) = d
                      /\ \A s \in Sides : s = d \/ s = Other(d)
BY DEF Sides, Other

\* Lt orders the keys, one way from each side.
LEMMA LtOrder ==
  ASSUME NEW d \in Sides, NEW a \in Int, NEW b \in Int
  PROVE  /\ ~Lt(d, a, a) /\ (Lt(d, a, b) => ~Lt(d, b, a)) /\ (a = b \/ Lt(d, a, b) \/ Lt(d, b, a))
         /\ Lt(Other(d), a, b) = Lt(d, b, a)
         /\ \A c \in Int : Lt(d, a, b) /\ Lt(d, b, c) => Lt(d, a, c)
BY DEF Sides, Other, Lt

\* Nodes and the sentinel are numbers, and differ.
LEMMA NodeTypes ==
  /\ Nodes \subseteq Int /\ NIL \in Int /\ NIL \notin Nodes
  /\ Nodes \subseteq Node0 /\ NIL \in Node0 /\ Node0 = 0..N /\ Node0 \subseteq Int
BY NAssumption DEF Nodes, NIL, Node0

\* Every field of a tree holds a node or a colour.
LEMMA TreeTypes ==
  ASSUME NEW T \in Trees
  PROVE  /\ T.root \in Node0
         /\ \A n \in Node0 : T.parent[n] \in Node0 /\ T.color[n] \in Colors
         /\ \A n \in Node0, d \in Sides : T.child[d][n] \in Node0
BY DEF Trees

\* The nodes of a tree and their bounds are numbers.
LEMMA ShapeTypes ==
  ASSUME NEW T, NEW S, NEW B, Shape(T, S, B)
  PROVE  /\ T \in Trees
         /\ \A n \in S : /\ n \in Nodes /\ n \in Int /\ n \in Node0 /\ n # NIL
                         /\ \A d \in Sides : B[d][n] \in 0..(N + 1) /\ B[d][n] \in Int
<1>1. B \in [Sides -> [S -> 0..(N + 1)]] /\ S \subseteq Nodes /\ T \in Trees
  BY DEF Shape
<1> QED
  BY <1>1, NodeTypes, NAssumption

\* A child of a node, on its side.
LEMMA ChildFacts ==
  ASSUME NEW T, NEW S, NEW B, Shape(T, S, B), NEW n \in S, NEW d \in Sides
  PROVE  LET c == T.child[d][n]
         IN c = NIL \/ /\ c \in S /\ T.parent[c] = n /\ B[d][c] = B[d][n] /\ B[Other(d)][c] = n
                       /\ Lt(d, c, n) /\ Lt(d, B[d][n], c) /\ c # n /\ c # T.root
<1> DEFINE c == T.child[d][n]
           e == Other(d)
<1> SUFFICES ASSUME c # NIL
             PROVE  /\ c \in S /\ T.parent[c] = n /\ B[d][c] = B[d][n] /\ B[e][c] = n
                    /\ Lt(d, c, n) /\ Lt(d, B[d][n], c) /\ c # n /\ c # T.root
  OBVIOUS
<1>1. c \in S /\ T.parent[c] = n /\ B[d][c] = B[d][n] /\ B[e][c] = n
  BY DEF Shape, Linked
<1>2. In(B, c, c)
  BY <1>1 DEF Shape
<1>3. Lt(d, B[d][c], c) /\ Lt(e, B[e][c], c) /\ e \in Sides
  BY <1>2, SidesAre DEF In
<1>4. c \in Int /\ n \in Int /\ n # NIL
  BY <1>1, ShapeTypes
<1>5. Lt(d, c, n)
  BY <1>1, <1>3, <1>4, LtOrder
<1>6. c # n
  BY <1>4, <1>5, LtOrder
<1>7. c # T.root
  BY <1>1, <1>4 DEF Shape, Rooted
<1> QED
  BY <1>1, <1>3, <1>5, <1>6, <1>7

\* A child is on one side only.
LEMMA SideOf ==
  ASSUME NEW T, NEW S, NEW B, Shape(T, S, B), NEW n \in S, NEW d \in Sides, T.child[d][n] # NIL
  PROVE  Side(T, T.child[d][n]) = d /\ T.child[Other(d)][n] # T.child[d][n]
<1> DEFINE c == T.child[d][n]
           e == Other(d)
<1>1. c \in S /\ T.parent[c] = n /\ Lt(d, c, n)
  BY ChildFacts
<1>2. T.child[e][n] # c
  <2> SUFFICES ASSUME T.child[e][n] = c PROVE FALSE
    OBVIOUS
  <2>1. Lt(e, c, n) /\ e \in Sides
    BY ChildFacts, SidesAre
  <2>2. c \in Int /\ n \in Int
    BY <1>1, ShapeTypes
  <2> QED
    BY <1>1, <2>1, <2>2, LtOrder
<1> HIDE DEF c
<1>3. ASSUME d = "left" PROVE Side(T, c) = "left"
  <2>1. T.child["left"][n] = c
    BY <1>3 DEF c
  <2> QED
    BY <1>1, <1>3, <2>1 DEF Side
<1>4. ASSUME d = "right" PROVE Side(T, c) = "right"
  <2>1. T.child["left"][n] # c
    BY <1>2, <1>4 DEF Other
  <2> QED
    BY <1>1, <1>4, <2>1 DEF Side
<1>5. Side(T, c) = d
  BY <1>3, <1>4 DEF Sides
<1> QED
  BY <1>2, <1>5 DEF c

\* Where a node hangs.
LEMMA HangsAt ==
  ASSUME NEW T, NEW S, NEW B, Shape(T, S, B), NEW n \in S, n # T.root
  PROVE  LET p == T.parent[n]
             d == Side(T, n)
         IN p \in S /\ d \in Sides /\ T.child[d][p] = n
<1>1. T.parent[n] \in S /\ \E d \in Sides : T.child[d][T.parent[n]] = n
  BY DEF Shape, Hangs
<1>2. PICK d \in Sides : T.child[d][T.parent[n]] = n
  BY <1>1
<1>3. n # NIL
  BY ShapeTypes
<1>4. Side(T, n) = d
  BY <1>1, <1>2, <1>3, SideOf
<1> QED
  BY <1>1, <1>2, <1>4

\* The parent of a node: missing for the root only.
LEMMA RootIs ==
  ASSUME NEW T, NEW S, NEW B, Shape(T, S, B), NEW n \in S
  PROVE  T.parent[n] = NIL <=> n = T.root
<1>1. n = T.root => T.parent[n] = NIL
  BY ShapeTypes DEF Shape, Rooted
<1>2. n # T.root => T.parent[n] # NIL
  <2>1. n # T.root => T.parent[n] \in S
    BY HangsAt
  <2> QED
    BY <2>1, ShapeTypes
<1> QED
  BY <1>1, <1>2

------------------------------------------------------------------------------------

\* One field is written ...
SetChild(T, d, p, v) == [T EXCEPT !.child[d][p] = v]
SetParent(T, v, w) == [T EXCEPT !.parent[v] = w]

\* ... and what the record then holds.
ChildPut(R, T, d, p, v) ==
    /\ R \in Trees /\ R.parent = T.parent /\ R.color = T.color /\ R.root = T.root
    /\ \A s \in Sides, n \in Node0 : R.child[s][n] = IF s = d /\ n = p THEN v ELSE T.child[s][n]
\* The same for a parent, ...
ParentPut(R, T, v, w) ==
    /\ R \in Trees /\ R.child = T.child /\ R.color = T.color /\ R.root = T.root
    /\ \A n \in Node0 : R.parent[n] = IF n = v THEN w ELSE T.parent[n]
\* ... a colour, ...
Painted(R, T, v, c) ==
    /\ R \in Trees /\ R.child = T.child /\ R.parent = T.parent /\ R.root = T.root
    /\ \A n \in Node0 : R.color[n] = IF n = v THEN c ELSE T.color[n]
\* ... a place below a parent, ...
Replaced(R, T, u, v) ==
    /\ R \in Trees /\ R.parent = T.parent /\ R.color = T.color
    /\ R.root = IF T.parent[u] = NIL THEN v ELSE T.root
    /\ \A s \in Sides, n \in Node0 :
          R.child[s][n] = IF T.parent[u] # NIL /\ s = Side(T, u) /\ n = T.parent[u] THEN v ELSE T.child[s][n]
\* ... rb_transplant, ...
Transplanted(R, T, u, v) ==
    /\ R \in Trees /\ R.color = T.color
    /\ R.root = IF T.parent[u] = NIL THEN v ELSE T.root
    /\ \A n \in Node0 : R.parent[n] = IF n = v THEN T.parent[u] ELSE T.parent[n]
    /\ \A s \in Sides, n \in Node0 :
          R.child[s][n] = IF T.parent[u] # NIL /\ s = Side(T, u) /\ n = T.parent[u] THEN v ELSE T.child[s][n]
\* ... a node given back to its owner, ...
Forgotten(R, T, z) ==
    /\ R \in Trees /\ R.root = T.root
    /\ \A n \in Node0 : /\ R.parent[n] = IF n = z THEN NIL ELSE T.parent[n]
                        /\ R.color[n] = IF n = z THEN "black" ELSE T.color[n]
    /\ \A s \in Sides, n \in Node0 : R.child[s][n] = IF n = z THEN NIL ELSE T.child[s][n]
\* ... and a rotation about x, whose child y takes its place and leaves c to it.
Rotated(R, T, d, e, x, y, c, p) ==
    /\ R \in Trees /\ R.color = T.color
    /\ R.root = IF p = NIL THEN y ELSE T.root
    /\ \A n \in Node0 : R.parent[n] = IF n = x THEN y ELSE IF n = y THEN p
                                      ELSE IF n = c /\ c # NIL THEN x ELSE T.parent[n]
    /\ \A s \in Sides, n \in Node0 :
          R.child[s][n] = IF n = x /\ s = e THEN c ELSE IF n = y /\ s = d THEN x
                          ELSE IF p # NIL /\ n = p /\ s = Side(T, x) THEN y ELSE T.child[s][n]

\* Writing a child does what ChildPut says.
LEMMA PutChild ==
  ASSUME NEW T \in Trees, NEW d \in Sides, NEW p \in Node0, NEW v \in Node0
  PROVE  ChildPut(SetChild(T, d, p, v), T, d, p, v)
<1> DEFINE C == [T.child EXCEPT ![d][p] = v]
<1>1. T.child \in [Sides -> [Node0 -> Node0]]
  BY DEF Trees
<1>2. C \in [Sides -> [Node0 -> Node0]] /\ \A s \in Sides, n \in Node0 : C[s][n] = IF s = d /\ n = p THEN v ELSE T.child[s][n]
  BY <1>1
<1> DEFINE R == SetChild(T, d, p, v)
<1>3. R = [T EXCEPT !.child = C]
  BY DEF Trees, SetChild
<1> HIDE DEF C, R
<1>4. /\ R \in Trees /\ R.parent = T.parent /\ R.color = T.color /\ R.root = T.root /\ R.child = C
  BY <1>2, <1>3 DEF Trees
<1>5. ChildPut(R, T, d, p, v)
  BY <1>2, <1>4 DEF ChildPut
<1> QED
  BY <1>5 DEF R

\* Writing a parent does what ParentPut says.
LEMMA PutParent ==
  ASSUME NEW T \in Trees, NEW v \in Node0, NEW w \in Node0
  PROVE  ParentPut(SetParent(T, v, w), T, v, w)
BY DEF Trees, SetParent, ParentPut

\* Painting changes one colour.
LEMMA PaintFields ==
  ASSUME NEW T \in Trees, NEW v \in Node0, NEW c \in Colors
  PROVE  Painted(Paint(T, v, c), T, v, c)
BY DEF Trees, Paint, Painted

\* Replace changes the root or one child of the parent.
LEMMA ReplaceFields ==
  ASSUME NEW T \in Trees, NEW u \in Node0, NEW v \in Node0
  PROVE  Replaced(Replace(T, u, v), T, u, v)
<1> DEFINE p == T.parent[u]
<1>1. p \in Node0 /\ "left" \in Sides /\ "right" \in Sides /\ "left" # "right"
  BY TreeTypes, SidesAre
<1>2. CASE p = NIL
  BY <1>2 DEF Replace, Trees, Replaced
<1>3. CASE p # NIL /\ u = T.child["left"][p]
  <2>1. Replace(T, u, v) = SetChild(T, "left", p, v) /\ Side(T, u) = "left"
    BY <1>3 DEF Replace, Side, SetChild
  <2>2. ChildPut(Replace(T, u, v), T, "left", p, v)
    BY <1>1, <2>1, PutChild
  <2> QED
    BY <1>1, <1>3, <2>1, <2>2 DEF ChildPut, Replaced
<1>4. CASE p # NIL /\ u # T.child["left"][p]
  <2>1. Replace(T, u, v) = SetChild(T, "right", p, v) /\ Side(T, u) = "right"
    BY <1>4 DEF Replace, Side, SetChild
  <2>2. ChildPut(Replace(T, u, v), T, "right", p, v)
    BY <1>1, <2>1, PutChild
  <2> QED
    BY <1>1, <1>4, <2>1, <2>2 DEF ChildPut, Replaced
<1> QED
  BY <1>2, <1>3, <1>4

\* rb_transplant
LEMMA TransplantFields ==
  ASSUME NEW T \in Trees, NEW u \in Node0, NEW v \in Node0
  PROVE  Transplanted(Transplant(T, u, v), T, u, v)
<1> DEFINE Q == Replace(T, u, v)
<1>1. Replaced(Q, T, u, v)
  BY ReplaceFields
<1>2. T.parent[u] \in Node0 /\ Q \in Trees
  BY <1>1, TreeTypes DEF Replaced
<1>3. Transplant(T, u, v) = SetParent(Q, v, T.parent[u])
  BY DEF Transplant, SetParent
<1> HIDE DEF Q
<1>4. ParentPut(Transplant(T, u, v), Q, v, T.parent[u])
  BY <1>2, <1>3, PutParent
<1> QED
  BY <1>1, <1>4 DEF ParentPut, Replaced, Transplanted

\* A deleted node's fields.
LEMMA ForgetFields ==
  ASSUME NEW T \in Trees, NEW z \in Node0
  PROVE  Forgotten(Forget(T, z), T, z)
<1> DEFINE Q == SetParent(T, z, NIL)
           Q1 == SetChild(Q, "left", z, NIL)
           Q2 == SetChild(Q1, "right", z, NIL)
           R == Forget(T, z)
<1>1. R = Paint(Q2, z, "black")
  BY DEF Forget, Paint, SetChild, SetParent
<1>2. ParentPut(Q, T, z, NIL)
  BY PutParent, NodeTypes
<1> HIDE DEF Q
<1>3. ChildPut(Q1, Q, "left", z, NIL)
  BY <1>2, PutChild, SidesAre, NodeTypes DEF ParentPut
<1> HIDE DEF Q1
<1>4. ChildPut(Q2, Q1, "right", z, NIL)
  <2>1. Q1 \in Trees
    BY <1>3 DEF ChildPut
  <2> QED
    BY <2>1, PutChild, SidesAre, NodeTypes
<1> HIDE DEF Q2
<1>5. Painted(R, Q2, z, "black")
  BY <1>1, <1>4, PaintFields DEF Colors, ChildPut
<1> HIDE DEF R
<1>6. ASSUME NEW s \in Sides, NEW n \in Node0
      PROVE  R.child[s][n] = IF n = z THEN NIL ELSE T.child[s][n]
  <2>1. s = "left" \/ s = "right"
    BY DEF Sides
  <2>2. R.child[s][n] = IF s = "right" /\ n = z THEN NIL ELSE IF s = "left" /\ n = z THEN NIL ELSE T.child[s][n]
    BY <1>2, <1>3, <1>4, <1>5 DEF ParentPut, ChildPut, Painted
  <2> QED
    BY <2>1, <2>2
<1>7. \A n \in Node0 : /\ R.parent[n] = IF n = z THEN NIL ELSE T.parent[n]
                       /\ R.color[n] = IF n = z THEN "black" ELSE T.color[n]
  BY <1>2, <1>3, <1>4, <1>5 DEF ParentPut, ChildPut, Painted
<1>8. R \in Trees /\ R.root = T.root
  BY <1>2, <1>3, <1>4, <1>5 DEF ParentPut, ChildPut, Painted
<1>9. Forgotten(R, T, z)
  BY <1>6, <1>7, <1>8 DEF Forgotten
<1> QED
  BY <1>9 DEF R

\* What a rotation writes, in a tree in which the four nodes it touches are distinct.
LEMMA RotateFields ==
  ASSUME NEW T \in Trees, NEW d \in Sides, NEW x \in Nodes,
         T.child[Other(d)][x] \in Nodes,
         T.child[Other(d)][x] # x,
         T.child[d][T.child[Other(d)][x]] \notin {x, T.child[Other(d)][x]},
         T.parent[x] \notin {x, T.child[Other(d)][x]}
  PROVE  Rotated(Rotate(T, d, x), T, d, Other(d), x, T.child[Other(d)][x], T.child[d][T.child[Other(d)][x]], T.parent[x])
<1> DEFINE e == Other(d)
           y == T.child[e][x]
           c == T.child[d][y]
           p == T.parent[x]
           Q1 == SetChild(T, e, x, c)
           Q2 == SetParent(Q1, c, IF c = NIL THEN T.parent[c] ELSE x)
           Q3 == SetParent(Q2, y, p)
           Q4 == Replace(Q3, x, y)
           Q5 == SetChild(Q4, d, y, x)
           R == Rotate(T, d, x)
<1>1. e \in Sides /\ e # d /\ x \in Node0 /\ y \in Node0 /\ y \in Nodes /\ c \in Node0 /\ p \in Node0
      /\ x # y /\ c # x /\ c # y /\ p # x /\ p # y /\ T.parent[c] \in Node0
  BY SidesAre, NodeTypes, TreeTypes
<1>2. R = SetParent(Q5, x, y)
  BY DEF Rotate, Trees, SetChild, SetParent
<1>3. ChildPut(Q1, T, e, x, c)
  <2> HIDE DEF e, c
  <2> QED
    BY <1>1, PutChild
<1> HIDE DEF Q1
<1>4. /\ Q2 \in Trees /\ Q2.child = Q1.child /\ Q2.color = Q1.color /\ Q2.root = Q1.root
      /\ \A n \in Node0 : Q2.parent[n] = IF n = c /\ c # NIL THEN x ELSE Q1.parent[n]
  <2> DEFINE w == IF c = NIL THEN T.parent[c] ELSE x
  <2>1. w \in Node0
    BY <1>1
  <2> HIDE DEF w
  <2>2. ParentPut(Q2, Q1, c, w)
    <3>1. Q2 = SetParent(Q1, c, w)
      BY DEF w
    <3> HIDE DEF Q2, c
    <3> QED
      BY <1>1, <1>3, <2>1, <3>1, PutParent DEF ChildPut
  <2> HIDE DEF Q2, c
  <2> QED
    BY <1>1, <1>3, <2>2 DEF w, ParentPut, ChildPut
<1> HIDE DEF Q2
<1>5. ParentPut(Q3, Q2, y, p)
  <2> HIDE DEF y, p
  <2> QED
    BY <1>1, <1>4, PutParent
<1> HIDE DEF Q3
<1>6. Q3.parent[x] = p
  BY <1>1, <1>3, <1>4, <1>5 DEF ParentPut, ChildPut
<1>7. p # NIL => Side(Q3, x) = Side(T, x)
  <2>1. \A s \in Sides : Q3.child[s][p] = T.child[s][p]
    BY <1>1, <1>3, <1>4, <1>5 DEF ParentPut, ChildPut
  <2> QED
    BY <1>6, <2>1, SidesAre DEF Side
<1>8. /\ Q4 \in Trees /\ Q4.parent = Q3.parent /\ Q4.color = Q3.color
      /\ Q4.root = IF p = NIL THEN y ELSE Q3.root
      /\ \A s \in Sides, n \in Node0 :
            Q4.child[s][n] = IF p # NIL /\ s = Side(T, x) /\ n = p THEN y ELSE Q3.child[s][n]
  <2>1. Replaced(Q4, Q3, x, y)
    <3> HIDE DEF y
    <3> QED
      BY <1>1, <1>5, ReplaceFields DEF ParentPut
  <2> HIDE DEF Q4, y, p
  <2> QED
    BY <1>6, <1>7, <2>1 DEF Replaced
<1> HIDE DEF Q4
<1>9. ChildPut(Q5, Q4, d, y, x)
  <2> HIDE DEF y
  <2> QED
    BY <1>1, <1>8, PutChild
<1> HIDE DEF Q5
<1>10. ParentPut(R, Q5, x, y)
  <2> HIDE DEF y, R
  <2> QED
    BY <1>1, <1>2, <1>9, PutParent DEF ChildPut
<1> HIDE DEF R, y, c, p, e
<1>11. \A n \in Node0 : R.parent[n] = IF n = x THEN y ELSE IF n = y THEN p
                                      ELSE IF n = c /\ c # NIL THEN x ELSE T.parent[n]
  BY <1>3, <1>4, <1>5, <1>8, <1>9, <1>10 DEF ParentPut, ChildPut
<1>12. \A s \in Sides, n \in Node0 :
                  R.child[s][n] = IF n = x /\ s = e THEN c ELSE IF n = y /\ s = d THEN x
                                  ELSE IF p # NIL /\ n = p /\ s = Side(T, x) THEN y ELSE T.child[s][n]
  BY <1>1, <1>3, <1>4, <1>5, <1>8, <1>9, <1>10 DEF ParentPut, ChildPut
<1>13. R \in Trees /\ R.color = T.color /\ R.root = IF p = NIL THEN y ELSE T.root
  BY <1>3, <1>4, <1>5, <1>8, <1>9, <1>10 DEF ParentPut, ChildPut
<1>14. Rotated(R, T, d, e, x, y, c, p)
  BY <1>11, <1>12, <1>13 DEF Rotated
<1> QED
  BY <1>14 DEF R, y, c, p, e

\* The room between the bounds of a node.
Width(B, n) == B["right"][n] - B["left"][n]

\* It shrinks on every way down, so that subtrees end.
LEMMA WidthIs ==
  ASSUME NEW T, NEW S, NEW B, Shape(T, S, B), NEW n \in S
  PROVE  /\ Width(B, n) \in Nat /\ 2 <= Width(B, n) /\ Width(B, n) <= N + 1
         /\ \A d \in Sides : T.child[d][n] # NIL => Width(B, T.child[d][n]) < Width(B, n)
<1>1. In(B, n, n)
  BY DEF Shape
<1>2. n \in Int /\ \A d \in Sides : B[d][n] \in 0..(N + 1)
  BY ShapeTypes
<1>3. B["left"][n] < n /\ n < B["right"][n]
  BY <1>1 DEF In, Lt, Sides
<1>4. ASSUME NEW d \in Sides, T.child[d][n] # NIL PROVE Width(B, T.child[d][n]) < Width(B, n)
  <2> DEFINE c == T.child[d][n]
  <2>1. c \in S /\ B[d][c] = B[d][n] /\ B[Other(d)][c] = n
    BY <1>4, ChildFacts
  <2> HIDE DEF c
  <2>2. CASE d = "left"
    BY <1>2, <1>3, <2>1, <2>2, SidesAre DEF Width, Other, c
  <2>3. CASE d = "right"
    BY <1>2, <1>3, <2>1, <2>3, SidesAre DEF Width, Other, c
  <2> QED
    BY <2>2, <2>3 DEF Sides
<1> QED
  BY <1>2, <1>3, <1>4, NAssumption, SidesAre DEF Width

\* What holds at the root and passes from a node to its children holds everywhere.
LEMMA TopDown ==
  ASSUME NEW T, NEW S, NEW B, Shape(T, S, B), NEW P,
         T.root \in S => T.root \in P,
         \A n \in S \cap P, d \in Sides : T.child[d][n] \in S => T.child[d][n] \in P
  PROVE  S \subseteq P
<1> DEFINE Bad == {k \in Nat : \E n \in S : n \notin P /\ k = N + 1 - Width(B, n)}
<1>1. ASSUME NEW m \in S, m \notin P PROVE FALSE
  <2>1. \A n \in S : N + 1 - Width(B, n) \in Nat
    BY WidthIs, NAssumption
  <2>2. Bad # {} /\ Bad \subseteq Nat
    BY <1>1, <2>1
  <2>3. PICK k \in Bad : \A j \in Bad : k <= j
    BY <2>2, NatHasMin
  <2>4. PICK n \in S : n \notin P /\ k = N + 1 - Width(B, n)
    BY <2>3
  <2>5. n # T.root /\ n # NIL
    BY <2>4, ShapeTypes
  <2>6. PICK p \in S, d \in Sides : T.child[d][p] = n
    <3>1. T.parent[n] \in S /\ Side(T, n) \in Sides /\ T.child[Side(T, n)][T.parent[n]] = n
      BY <2>5, HangsAt
    <3> QED
      BY <3>1
  <2>7. p \notin P
    BY <2>4, <2>6
  <2>8. Width(B, n) < Width(B, p) /\ Width(B, p) \in Nat /\ Width(B, n) \in Nat
    BY <2>5, <2>6, WidthIs
  <2>9. N + 1 - Width(B, p) \in Bad
    BY <2>1, <2>7
  <2> QED
    BY <2>3, <2>4, <2>8, <2>9, NAssumption
<1> QED
  BY <1>1

\* What holds of a node when it holds of its children holds everywhere.
LEMMA BottomUp ==
  ASSUME NEW T, NEW S, NEW B, Shape(T, S, B), NEW P,
         \A n \in S : (\A d \in Sides : T.child[d][n] \in S => T.child[d][n] \in P) => n \in P
  PROVE  S \subseteq P
<1> DEFINE Bad == {k \in Nat : \E n \in S : n \notin P /\ k = Width(B, n)}
<1>1. ASSUME NEW m \in S, m \notin P PROVE FALSE
  <2>1. \A n \in S : Width(B, n) \in Nat
    BY WidthIs
  <2>2. Bad # {} /\ Bad \subseteq Nat
    BY <1>1, <2>1
  <2>3. PICK k \in Bad : \A j \in Bad : k <= j
    BY <2>2, NatHasMin
  <2>4. PICK n \in S : n \notin P /\ k = Width(B, n)
    BY <2>3
  <2>5. PICK d \in Sides : T.child[d][n] \in S /\ T.child[d][n] \notin P
    BY <2>4
  <2>6. T.child[d][n] # NIL
    BY <2>5, ShapeTypes
  <2>7. Width(B, T.child[d][n]) < Width(B, n) /\ Width(B, T.child[d][n]) \in Bad
    BY <2>1, <2>5, <2>6, WidthIs
  <2> QED
    BY <2>1, <2>3, <2>4, <2>5, <2>7
<1> QED
  BY <1>1

\* The way down to a key.
LEMMA WayDown ==
  ASSUME NEW T, NEW S, NEW B, Shape(T, S, B), NEW n \in S, NEW k \in Int, In(B, n, k),
         NEW d \in Sides, Lt(d, k, n)
  PROVE  /\ T.child[d][n] # NIL => T.child[d][n] \in S /\ In(B, T.child[d][n], k)
         /\ k \in S => T.child[d][n] # NIL
<1>1. ASSUME T.child[d][n] # NIL PROVE T.child[d][n] \in S /\ In(B, T.child[d][n], k)
  <2> DEFINE c == T.child[d][n]
             e == Other(d)
  <2>1. c \in S /\ B[d][c] = B[d][n] /\ B[e][c] = n /\ n \in Int /\ e \in Sides
    BY <1>1, ChildFacts, ShapeTypes, SidesAre
  <2>2. Lt(d, B[d][c], k)
    BY <2>1 DEF In
  <2>3. Lt(e, B[e][c], k)
    BY <2>1, LtOrder
  <2> QED
    BY <2>1, <2>2, <2>3, SidesAre DEF In
<1>2. k \in S => T.child[d][n] # NIL
  <2>1. Lt(d, B[d][n], k)
    BY DEF In
  <2>2. Linked(T, S, B, n, d)
    BY DEF Shape
  <2> QED
    BY <2>1, <2>2, ShapeTypes DEF Linked
<1> QED
  BY <1>1, <1>2

\* A bound is a node above, whose own keys include those between the bounds.
LEMMA BoundsNest ==
  ASSUME NEW T, NEW S, NEW B, Shape(T, S, B), NEW n \in S, NEW d \in Sides
  PROVE  B[d][n] = End(d) \/ (B[d][n] \in S /\ ~Lt(Other(d), B[Other(d)][n], B[Other(d)][B[d][n]]))
<1> DEFINE Ok(m, s) == B[s][m] = End(s) \/ (B[s][m] \in S /\ ~Lt(Other(s), B[Other(s)][m], B[Other(s)][B[s][m]]))
           P == {m \in S : \A s \in Sides : Ok(m, s)}
<1>1. T.root \in S => T.root \in P
  BY ShapeTypes DEF Shape, Rooted
<1>2. ASSUME NEW m \in S \cap P, NEW s \in Sides, T.child[s][m] \in S PROVE T.child[s][m] \in P
  <2> DEFINE c == T.child[s][m]
             e == Other(s)
  <2>1. c # NIL
    BY <1>2, ShapeTypes
  <2>2. c \in S /\ B[s][c] = B[s][m] /\ B[e][c] = m /\ e \in Sides /\ Other(e) = s
    BY <2>1, ChildFacts, SidesAre
  <2> HIDE DEF c, e
  <2>3. m \in Int /\ B[s][m] \in Int /\ B[e][m] \in Int
    BY <2>2, ShapeTypes
  <2>4. Lt(e, B[e][m], m) /\ Lt(s, B[s][m], m)
    BY <2>2 DEF Shape, In
  <2>5. Ok(c, s)
    <3>1. CASE B[s][m] = End(s)
      BY <2>2, <3>1
    <3>2. CASE B[s][m] \in S /\ ~Lt(e, B[e][m], B[e][B[s][m]])
      <4> DEFINE b == B[s][m]
      <4>1. B[e][b] \in Int
        BY <2>2, <3>2, ShapeTypes
      <4>2. ~Lt(e, m, B[e][b])
        BY <2>2, <2>3, <2>4, <3>2, <4>1, LtOrder
      <4> QED
        BY <2>2, <3>2, <4>2 DEF e
    <3> QED
      BY <1>2, <3>1, <3>2 DEF e
  <2>6. Ok(c, e)
    <3>1. ~Lt(s, B[s][c], B[s][m])
      BY <2>2, <2>3, LtOrder
    <3> QED
      BY <2>2, <3>1
  <2>7. \A r \in Sides : r = s \/ r = e
    BY SidesAre DEF e
  <2> QED
    BY <2>2, <2>5, <2>6, <2>7 DEF c
<1>3. S \subseteq P
  <2> HIDE DEF P
  <2> QED
    BY <1>1, <1>2, TopDown
<1> QED
  BY <1>3

\* The keys below a node that is itself below n lie on its side of n.
LEMMA Laminar ==
  ASSUME NEW T, NEW S, NEW B, Shape(T, S, B), NEW n \in S, NEW m \in S, In(B, n, m),
         NEW d \in Sides, Lt(d, m, n)
  PROVE  ~Lt(d, B[d][m], B[d][n]) /\ ~Lt(d, n, B[Other(d)][m])
<1> DEFINE Ok(a, s) == ~Lt(s, B[s][m], B[s][a]) /\ ~Lt(s, a, B[Other(s)][m])
           P == {a \in S : In(B, a, m) => \A s \in Sides : Lt(s, m, a) => Ok(a, s)}
<1>1. ASSUME NEW a \in S, \A s \in Sides : T.child[s][a] \in S => T.child[s][a] \in P PROVE a \in P
  <2> SUFFICES ASSUME In(B, a, m), NEW s \in Sides, Lt(s, m, a) PROVE Ok(a, s)
    OBVIOUS
  <2> DEFINE c == T.child[s][a]
             e == Other(s)
  <2>1. m \in Int /\ a \in Int /\ e \in Sides /\ Other(e) = s /\ B[s][m] \in Int /\ B[e][m] \in Int /\ B[s][a] \in Int
    BY ShapeTypes, SidesAre
  <2>2. c # NIL /\ c \in S /\ In(B, c, m)
    BY <2>1, WayDown
  <2>3. B[s][c] = B[s][a] /\ B[e][c] = a /\ Lt(s, c, a) /\ Lt(s, B[s][a], c) /\ c \in Int
    BY <2>2, ChildFacts, ShapeTypes
  <2>4. c \in P
    BY <1>1, <2>2
  <2> HIDE DEF c, e
  <2>5. CASE m = c
    <3>1. ~Lt(s, B[s][a], B[s][a]) /\ ~Lt(s, a, a)
      BY <2>1, LtOrder
    <3> QED
      BY <2>3, <2>5, <3>1 DEF e
  <2>6. CASE Lt(s, m, c)
    <3>1. ~Lt(s, B[s][m], B[s][c]) /\ ~Lt(s, c, B[e][m])
      BY <2>2, <2>4, <2>6 DEF e
    <3>2. ~Lt(s, a, B[e][m])
      BY <2>1, <2>3, <3>1, LtOrder
    <3> QED
      BY <2>3, <3>1, <3>2 DEF e
  <2>7. CASE Lt(e, m, c)
    <3>1. ~Lt(e, B[e][m], B[e][c]) /\ ~Lt(e, c, B[s][m])
      BY <2>1, <2>2, <2>4, <2>7
    <3>2. ~Lt(s, a, B[e][m]) /\ ~Lt(s, B[s][m], c)
      BY <2>1, <2>3, <3>1, LtOrder DEF e
    <3>3. ~Lt(s, B[s][m], B[s][a])
      BY <2>1, <2>3, <3>2, LtOrder
    <3> QED
      BY <3>2, <3>3 DEF e
  <2>8. m = c \/ Lt(s, m, c) \/ Lt(e, m, c)
    BY <2>1, <2>3, LtOrder DEF e
  <2> QED
    BY <2>5, <2>6, <2>7, <2>8
<1>2. S \subseteq P
  <2> HIDE DEF P
  <2> QED
    BY <1>1, BottomUp
<1> QED
  BY <1>2

------------------------------------------------------------------------------------
\* Painting and rotating keep the shape.

\* Colours are not part of the shape, but for the sentinel's.
LEMMA PaintShape ==
  ASSUME NEW T, NEW S, NEW B, Shape(T, S, B), NEW v \in Node0, NEW k \in Colors, v = NIL => k = "black"
  PROVE  Shape(Paint(T, v, k), S, B) /\ Painted(Paint(T, v, k), T, v, k)
<1> DEFINE R == Paint(T, v, k)
<1>1. Painted(R, T, v, k)
  BY PaintFields DEF Shape
<1> HIDE DEF R
<1>2. R \in Trees /\ R.child = T.child /\ R.parent = T.parent /\ R.root = T.root
  BY <1>1 DEF Painted
<1>3. R.color[NIL] = "black"
  BY <1>1, NodeTypes DEF Painted, Shape
<1>4. Shape(R, S, B)
  BY <1>2, <1>3 DEF Shape, Rooted, Linked, Hangs
<1> QED
  BY <1>1, <1>4 DEF R

\* The nodes around a rotation.
LEMMA RotateAt ==
  ASSUME NEW T, NEW S, NEW B, Shape(T, S, B), NEW d \in Sides, NEW x \in S,
         NEW e, Other(d) = e, NEW y, T.child[e][x] = y, y # NIL,
         NEW c, T.child[d][y] = c, NEW p, T.parent[x] = p
  PROVE  /\ Rotated(Rotate(T, d, x), T, d, e, x, y, c, p)
         /\ e \in Sides /\ e # d /\ Other(e) = d
         /\ y \in S /\ T.parent[y] = x /\ B[e][y] = B[e][x] /\ B[d][y] = x /\ Lt(e, y, x) /\ Lt(d, x, y)
         /\ x # y /\ c # x /\ c # y /\ p # x /\ p # y
         /\ c = NIL \/ (c \in S /\ T.parent[c] = y /\ B[d][c] = x /\ B[e][c] = y)
         /\ p = NIL <=> x = T.root
         /\ p # NIL => p \in S /\ Side(T, x) \in Sides /\ T.child[Side(T, x)][p] = x
         /\ T.root # y /\ (c = NIL \/ T.root # c)
<1>1. e \in Sides /\ e # d /\ Other(e) = d
  BY SidesAre
<1>2. y \in S /\ T.parent[y] = x /\ B[e][y] = B[e][x] /\ B[d][y] = x /\ Lt(e, y, x) /\ x # y /\ T.root # y
  BY <1>1, ChildFacts
<1>3. x \in Int /\ y \in Int /\ x \in Nodes /\ y \in Nodes /\ x # NIL
  BY <1>2, ShapeTypes
<1>4. Lt(d, x, y)
  BY <1>1, <1>2, <1>3, LtOrder
<1>5. c = NIL \/ (c \in S /\ T.parent[c] = y /\ B[d][c] = x /\ B[e][c] = y /\ c # y /\ c # T.root /\ Lt(d, x, c))
  BY <1>2, ChildFacts
<1>6. c # x /\ c # y
  BY <1>2, <1>3, <1>5, LtOrder
<1>7. p = NIL <=> x = T.root
  BY RootIs
<1>8. ASSUME p # NIL PROVE p \in S /\ Side(T, x) \in Sides /\ T.child[Side(T, x)][p] = x
  BY <1>7, <1>8, HangsAt
<1>9. p # x /\ p # y
  <2>1. CASE p = NIL
    BY <1>2, <1>3, <2>1, ShapeTypes
  <2>2. CASE p # NIL
    <3>1. Width(B, x) < Width(B, p)
      BY <1>3, <1>8, <2>2, WidthIs
    <3>2. Width(B, y) < Width(B, x)
      BY <1>1, WidthIs
    <3>3. Width(B, x) \in Nat /\ Width(B, y) \in Nat
      BY <1>2, WidthIs
    <3> QED
      BY <3>1, <3>2, <3>3
  <2> QED
    BY <2>1, <2>2
<1>10. Rotated(Rotate(T, d, x), T, d, e, x, y, c, p)
  <2>1. T \in Trees
    BY DEF Shape
  <2> QED
    BY <1>2, <1>3, <1>6, <1>9, <2>1, RotateFields
<1> QED
  BY <1>1, <1>2, <1>4, <1>5, <1>6, <1>7, <1>8, <1>9, <1>10

\* The bounds after a rotation about x: only those of x and y change.
Turned(S, B, d, x, y) ==
    [s \in Sides |-> [n \in S |-> IF s = Other(d) /\ n = x THEN y
                                  ELSE IF s = d /\ n = y THEN B[d][x] ELSE B[s][n]]]

\* A rotation keeps the order of the keys.
LEMMA RotateShape ==
  ASSUME NEW T, NEW S, NEW B, Shape(T, S, B), NEW d \in Sides, NEW x \in S, T.child[Other(d)][x] # NIL
  PROVE  Shape(Rotate(T, d, x), S, Turned(S, B, d, x, T.child[Other(d)][x]))
<1> DEFINE e == Other(d)
           y == T.child[e][x]
           c == T.child[d][y]
           p == T.parent[x]
           R == Rotate(T, d, x)
           C == Turned(S, B, d, x, y)
<1>1. /\ Rotated(R, T, d, e, x, y, c, p)
      /\ e \in Sides /\ e # d /\ Other(e) = d
      /\ y \in S /\ T.parent[y] = x /\ B[e][y] = B[e][x] /\ B[d][y] = x /\ Lt(e, y, x) /\ Lt(d, x, y)
      /\ x # y /\ c # x /\ c # y /\ p # x /\ p # y
      /\ c = NIL \/ (c \in S /\ T.parent[c] = y /\ B[d][c] = x /\ B[e][c] = y)
      /\ p = NIL <=> x = T.root
      /\ p # NIL => p \in S /\ Side(T, x) \in Sides /\ T.child[Side(T, x)][p] = x
      /\ T.root # y /\ (c = NIL \/ T.root # c)
  BY RotateAt
<1>2. /\ R \in Trees /\ R.color = T.color
      /\ R.root = IF p = NIL THEN y ELSE T.root
      /\ \A n \in Node0 : R.parent[n] = IF n = x THEN y ELSE IF n = y THEN p
                                        ELSE IF n = c /\ c # NIL THEN x ELSE T.parent[n]
      /\ \A s \in Sides, n \in Node0 :
            R.child[s][n] = IF n = x /\ s = e THEN c ELSE IF n = y /\ s = d THEN x
                            ELSE IF p # NIL /\ n = p /\ s = Side(T, x) THEN y ELSE T.child[s][n]
  BY <1>1 DEF Rotated
<1>3. /\ \A n \in S : n \in Nodes /\ n \in Node0 /\ n \in Int /\ n # NIL /\ \A s \in Sides : B[s][n] \in 0..(N + 1) /\ B[s][n] \in Int
      /\ \A s \in Sides : s = d \/ s = e
      /\ S \subseteq Nodes /\ B \in [Sides -> [S -> 0..(N + 1)]]
  BY ShapeTypes, SidesAre DEF Shape
<1>4. /\ C \in [Sides -> [S -> 0..(N + 1)]]
      /\ \A s \in Sides, n \in S : C[s][n] = IF s = e /\ n = x THEN y ELSE IF s = d /\ n = y THEN B[d][x] ELSE B[s][n]
  <2> HIDE DEF y
  <2>1. y \in 0..(N + 1) /\ B[d][x] \in 0..(N + 1)
    <3>1. y \in 1..N
      BY <1>1, <1>3 DEF Nodes
    <3> QED
      BY <1>3, <3>1, NAssumption
  <2>2. C = [s \in Sides |-> [n \in S |-> IF s = Other(d) /\ n = x THEN y
                                         ELSE IF s = d /\ n = y THEN B[d][x] ELSE B[s][n]]]
    BY DEF Turned
  <2> HIDE DEF C
  <2>3. \A s \in Sides, n \in S : C[s][n] = IF s = e /\ n = x THEN y ELSE IF s = d /\ n = y THEN B[d][x] ELSE B[s][n]
    BY <2>2
  <2>4. \A s \in Sides, n \in S : C[s][n] \in 0..(N + 1)
    BY <1>3, <2>1, <2>3
  <2>5. C \in [Sides -> [S -> 0..(N + 1)]]
    BY <2>2, <2>4
  <2> QED
    BY <2>3, <2>5
<1>5. /\ \A n \in S, s \in Sides : Linked(T, S, B, n, s)
      /\ \A n \in S : In(B, n, n)
      /\ \A n \in S : n # T.root => Hangs(T, S, n)
      /\ Rooted(T, S, B)
      /\ \A s \in Sides : T.child[s][NIL] = NIL
      /\ T.color[NIL] = "black"
  BY DEF Shape
<1>6. ASSUME NEW n \in S, NEW s \in Sides, T.child[s][n] # NIL
      PROVE  LET q == T.child[s][n]
             IN q \in S /\ T.parent[q] = n /\ B[s][q] = B[s][n] /\ B[Other(s)][q] = n /\ q # n /\ q # T.root
                /\ Side(T, q) = s /\ T.child[Other(s)][n] # q
  BY <1>6, ChildFacts, SideOf
<1> HIDE DEF R, C, p, c, y, e
<1>7. Rooted(R, S, C)
  <2>1. CASE p = NIL
    <3>1. R.root = y /\ R.parent[y] = NIL
      BY <1>1, <1>2, <1>3, <2>1
    <3>2. \A s \in Sides : C[s][y] = B[s][x]
      BY <1>1, <1>3, <1>4
    <3>3. \A s \in Sides : B[s][x] = End(s)
      BY <1>1, <1>3, <1>5, <2>1 DEF Rooted
    <3> QED
      BY <1>1, <3>1, <3>2, <3>3 DEF Rooted
  <2>2. CASE p # NIL
    <3>1. T.root \in S /\ T.parent[T.root] = NIL /\ \A s \in Sides : B[s][T.root] = End(s)
      BY <1>5 DEF Rooted
    <3>2. T.root # x /\ T.root # y /\ (c = NIL \/ T.root # c)
      BY <1>1, <2>2
    <3>3. R.root = T.root /\ R.parent[T.root] = NIL
      BY <1>2, <1>3, <2>2, <3>1, <3>2
    <3>4. \A s \in Sides : C[s][T.root] = B[s][T.root]
      BY <1>4, <3>1, <3>2
    <3> QED
      BY <3>1, <3>3, <3>4 DEF Rooted
  <2> QED
    BY <2>1, <2>2
<1>8. ASSUME NEW n \in S PROVE In(C, n, n)
  <2> SUFFICES ASSUME NEW s \in Sides PROVE Lt(s, C[s][n], n)
    BY DEF In
  <2>1. Lt(s, B[s][n], n) /\ Lt(d, B[d][x], x)
    BY <1>5 DEF In
  <2>2. CASE s = e /\ n = x
    BY <1>1, <1>4, <2>2
  <2>3. CASE s = d /\ n = y
    <3>1. Lt(d, B[d][x], y)
      BY <1>1, <1>3, <2>1, LtOrder
    <3> QED
      BY <1>1, <1>4, <2>3, <3>1
  <2>4. CASE ~(s = e /\ n = x) /\ ~(s = d /\ n = y)
    BY <1>4, <2>1, <2>4
  <2> QED
    BY <2>2, <2>3, <2>4
<1>9. ASSUME NEW n \in S, NEW s \in Sides PROVE Linked(R, S, C, n, s)
  <2>1. CASE n = x /\ s = e
    <3>1. R.child[e][x] = c /\ C[e][x] = y
      BY <1>1, <1>2, <1>3, <1>4
    <3>2. CASE c = NIL
      <4>1. \A k \in S : ~(Lt(d, k, y) /\ Lt(d, x, k))
        <5>1. Linked(T, S, B, y, d) /\ T.child[d][y] = NIL
          BY <1>1, <1>5, <3>2 DEF c
        <5> QED
          BY <1>1, <1>3, <5>1 DEF Linked
      <4>2. \A k \in S : (Lt(e, k, x) <=> Lt(d, x, k)) /\ (Lt(e, y, k) <=> Lt(d, k, y))
        BY <1>1, <1>3, LtOrder DEF e
      <4> QED
        BY <2>1, <3>1, <3>2, <4>1, <4>2 DEF Linked
    <3>3. CASE c # NIL
      <4>1. c \in S /\ R.parent[c] = x /\ C[e][c] = y /\ C[d][c] = x
        BY <1>1, <1>2, <1>3, <1>4, <3>3
      <4> QED
        BY <1>1, <2>1, <3>1, <4>1 DEF Linked
    <3> QED
      BY <3>2, <3>3
  <2>2. CASE n = y /\ s = d
    <3>1. R.child[d][y] = x /\ R.parent[x] = y /\ C[d][x] = B[d][x] /\ C[d][y] = B[d][x] /\ C[e][x] = y
      BY <1>1, <1>2, <1>3, <1>4
    <3> QED
      BY <2>2, <3>1 DEF Linked, e
  <2>3. CASE p # NIL /\ n = p /\ s = Side(T, x)
    <3>1. R.child[s][n] = y /\ R.parent[y] = p /\ y \in S
      BY <1>1, <1>2, <1>3, <2>3
    <3>2. \A r \in Sides : C[r][y] = B[r][x] /\ C[r][n] = B[r][n]
      BY <1>1, <1>3, <1>4, <2>3
    <3>3. B[s][x] = B[s][n] /\ B[Other(s)][x] = n /\ Other(s) \in Sides
      BY <1>1, <1>3, <1>6, <2>3, SidesAre
    <3> QED
      BY <2>3, <3>1, <3>2, <3>3 DEF Linked
  <2>4. CASE ~(n = x /\ s = e) /\ ~(n = y /\ s = d) /\ ~(p # NIL /\ n = p /\ s = Side(T, x))
    <3> DEFINE q == T.child[s][n]
    <3>1. R.child[s][n] = q /\ C[s][n] = B[s][n]
      BY <1>2, <1>3, <1>4, <2>4
    <3>2. CASE q = NIL
      BY <1>5, <1>3, <3>1, <3>2 DEF Linked
    <3>3. CASE q # NIL
      <4>1. q \in S /\ T.parent[q] = n /\ B[s][q] = B[s][n] /\ B[Other(s)][q] = n /\ q # n /\ Side(T, q) = s /\ q # T.root
        BY <1>6, <3>3
      <4>2. q # x
        <5>1. p # NIL => n # p \/ s # Side(T, x)
          BY <2>4
        <5> QED
          BY <1>1, <4>1, <5>1 DEF p
      <4>3. q # y
        <5>1. SUFFICES ASSUME q = y PROVE FALSE
          OBVIOUS
        <5>2. n = x
          BY <1>1, <4>1, <5>1
        <5>3. T.child[e][x] = y
          BY DEF y
        <5>4. Side(T, y) = e
          BY <1>1, <1>3, <1>6, <5>3
        <5> QED
          BY <2>4, <4>1, <5>1, <5>2, <5>4
      <4>4. q # c
        <5>1. SUFFICES ASSUME q = c PROVE FALSE
          OBVIOUS
        <5>2. n = y
          BY <1>1, <3>3, <4>1, <5>1
        <5>3. T.child[d][y] = c
          BY DEF c
        <5>4. Side(T, c) = d
          BY <1>1, <1>6, <3>3, <5>1, <5>3
        <5> QED
          BY <2>4, <4>1, <5>1, <5>2, <5>4
      <4>5. R.parent[q] = n
        BY <1>2, <1>3, <4>1, <4>2, <4>3, <4>4
      <4>6. \A r \in Sides : C[r][q] = B[r][q]
        BY <1>4, <4>1, <4>2, <4>3
      <4>7. Other(s) \in Sides
        BY SidesAre
      <4> QED
        BY <3>1, <4>1, <4>5, <4>6, <4>7 DEF Linked
    <3> QED
      BY <3>2, <3>3
  <2> QED
    BY <2>1, <2>2, <2>3, <2>4
<1>10. ASSUME NEW n \in S, n # R.root PROVE Hangs(R, S, n)
  <2>1. CASE n = x
    BY <1>1, <1>2, <1>3, <2>1 DEF Hangs
  <2>2. CASE n = y
    <3>1. p # NIL
      BY <1>2, <1>10, <2>2
    <3> QED
      BY <1>1, <1>2, <1>3, <2>2, <3>1 DEF Hangs
  <2>3. CASE n = c
    <3>1. R.parent[n] = x /\ R.child[e][x] = n
      BY <1>1, <1>2, <1>3, <2>3
    <3> QED
      BY <1>1, <3>1 DEF Hangs
  <2>4. CASE n # x /\ n # y /\ n # c
    <3>1. n # T.root
      BY <1>1, <1>2, <1>10, <2>4
    <3>2. T.parent[n] \in S /\ \E s \in Sides : T.child[s][T.parent[n]] = n
      BY <1>5, <3>1 DEF Hangs
    <3>3. PICK s \in Sides : T.child[s][T.parent[n]] = n
      BY <3>2
    <3>4. R.parent[n] = T.parent[n]
      BY <1>2, <1>3, <2>4
    <3>5. R.child[s][T.parent[n]] = n
      <4>1. ~(T.parent[n] = x /\ s = e) /\ ~(T.parent[n] = y /\ s = d)
        BY <2>4, <3>3 DEF y, c
      <4>2. ~(p # NIL /\ T.parent[n] = p /\ s = Side(T, x))
        BY <1>1, <2>4, <3>3
      <4> QED
        BY <1>2, <1>3, <3>2, <3>3, <4>1, <4>2
    <3> QED
      BY <3>2, <3>4, <3>5 DEF Hangs
  <2> QED
    BY <2>1, <2>2, <2>3, <2>4
<1>11. \A s \in Sides : R.child[s][NIL] = NIL
  BY <1>1, <1>2, <1>3, <1>5, NodeTypes
<1>12. R.color[NIL] = "black"
  BY <1>2, <1>5
<1>13. Shape(R, S, C)
  BY <1>2, <1>3, <1>4, <1>7, <1>8, <1>9, <1>10, <1>11, <1>12 DEF Shape
<1> QED
  BY <1>13 DEF R, C, y, e

------------------------------------------------------------------------------------
\* A new leaf.

\* A bound beyond which there is no node is the end, and every other one is a node.
LEMMA BoundIs ==
  ASSUME NEW T, NEW S, NEW B, Shape(T, S, B), NEW n \in S, NEW d \in Sides
  PROVE  B[d][n] = End(d) \/ B[d][n] \in S
BY BoundsNest

\* Two missing children do not make room for the same key.
LEMMA GapsApart ==
  ASSUME NEW T, NEW S, NEW B, Shape(T, S, B), NEW z \in Nodes,
         NEW n \in S, NEW s \in Sides, T.child[s][n] = NIL, Lt(s, z, n), Lt(s, B[s][n], z),
         NEW y \in S, NEW d \in Sides, T.child[d][y] = NIL, Lt(d, z, y), Lt(d, B[d][y], z)
  PROVE  n = y /\ s = d
<1>1. /\ n \in Int /\ y \in Int /\ z \in Int /\ n \in 1..N /\ y \in 1..N /\ z \in 1..N /\ N \in Nat
      /\ \A r \in Sides : B[r][n] \in Int /\ B[r][y] \in Int
  BY ShapeTypes, NodeTypes, NAssumption DEF Nodes
<1>2. /\ \A k \in S : ~(Lt(s, k, n) /\ Lt(s, B[s][n], k))
      /\ \A k \in S : ~(Lt(d, k, y) /\ Lt(d, B[d][y], k))
  BY ShapeTypes DEF Shape, Linked
<1>3. CASE s = d
  <2>1. ASSUME Lt(s, n, y) PROVE FALSE
    <3>1. Lt(s, B[d][y], n)
      BY <1>1, <1>3, LtOrder
    <3> QED
      BY <1>2, <1>3, <2>1, <3>1
  <2>2. ASSUME Lt(s, y, n) PROVE FALSE
    <3>1. Lt(s, B[s][n], y)
      BY <1>1, <1>3, LtOrder
    <3> QED
      BY <1>2, <2>2, <3>1
  <2> QED
    BY <1>1, <1>3, <2>1, <2>2, LtOrder
<1>4. CASE s # d
  <2> DEFINE b == B[d][y]
             a == B[s][n]
  <2>1. s = Other(d) /\ d = Other(s)
    BY <1>4 DEF Sides, Other
  <2>2. Lt(d, n, z) /\ Lt(d, z, a) /\ Lt(d, z, y) /\ Lt(d, b, z)
    BY <1>1, <2>1, LtOrder
  <2>3. b = n
    <3>1. b = End(d) \/ b \in S
      BY BoundIs
    <3>2. b # End(d)
      <4>1. ~Lt(d, b, n)  
        <5>1. Lt(d, n, y)
          BY <1>1, <2>2, LtOrder
        <5> QED
          BY <1>2, <5>1
      <4>2. Lt(d, End(d), n)
        BY <1>1 DEF Lt, End
      <4> QED
        BY <4>1, <4>2
    <3>3. b \in S
      BY <3>1, <3>2
    <3>4. ~Lt(d, n, b)
      <4>1. Lt(d, b, a)
        BY <1>1, <2>2, LtOrder
      <4>2. Lt(s, a, b) /\ (Lt(d, n, b) => Lt(s, b, n))
        BY <1>1, <2>1, <4>1, LtOrder
      <4> QED
        BY <1>2, <3>3, <4>2
    <3>5. ~Lt(d, b, n)
      <4>1. Lt(d, n, y)
        BY <1>1, <2>2, LtOrder
      <4> QED
        BY <1>2, <4>1
    <3> QED
      BY <1>1, <3>4, <3>5, LtOrder
  <2>4. a = y
    <3>1. a = End(s) \/ a \in S
      BY BoundIs
    <3>2. Lt(s, y, n)
      BY <1>1, <2>1, <2>2, LtOrder
    <3>3. ~Lt(s, a, y)
      BY <1>2, <3>2
    <3>4. a # End(s)
      <4>1. Lt(s, End(s), y)
        BY <1>1 DEF Lt, End
      <4> QED
        BY <3>3, <4>1
    <3>5. a \in S
      BY <3>1, <3>4
    <3>6. ~Lt(s, y, a)
      <4>1. Lt(d, b, a)
        BY <1>1, <2>2, LtOrder
      <4>2. Lt(s, y, a) => Lt(d, a, y)
        BY <1>1, <2>1, LtOrder
      <4> QED
        BY <1>2, <3>5, <4>1, <4>2
    <3> QED
      BY <1>1, <3>3, <3>6, LtOrder
  <2>5. ~Lt(Other(s), B[Other(s)][n], B[Other(s)][y])
    <3>1. y # End(s)
      BY <1>1 DEF End
    <3> QED
      BY <2>4, <3>1, BoundsNest
  <2>6. Lt(d, B[d][n], n)
    BY DEF Shape, In
  <2> QED
    BY <2>1, <2>3, <2>5, <2>6
<1> QED
  BY <1>3, <1>4

\* rb_tree_insert's new leaf z below y, on its side.
Leaf(T, z, y) ==
    LET linked == IF y = NIL THEN [T EXCEPT !.root = z] ELSE [T EXCEPT !.child[Toward(z, y)][y] = z]
    IN [linked EXCEPT !.parent[z] = y, !.color[z] = "red", !.child["left"][z] = NIL, !.child["right"][z] = NIL]

\* What the tree holds with the leaf z below y.
LeafPut(R, T, z, y) ==
    /\ R \in Trees /\ R.root = IF y = NIL THEN z ELSE T.root
    /\ \A n \in Node0 : /\ R.parent[n] = IF n = z THEN y ELSE T.parent[n]
                        /\ R.color[n] = IF n = z THEN "red" ELSE T.color[n]
    /\ \A s \in Sides, n \in Node0 :
          R.child[s][n] = IF n = z THEN NIL ELSE IF y # NIL /\ n = y /\ s = Toward(z, y) THEN z ELSE T.child[s][n]

\* rb_tree_insert links a leaf as LeafPut says.
LEMMA LeafFields ==
  ASSUME NEW T \in Trees, NEW z \in Node0, NEW y \in Node0
  PROVE  LeafPut(Leaf(T, z, y), T, z, y)
<1> DEFINE L == IF y = NIL THEN [T EXCEPT !.root = z] ELSE SetChild(T, Toward(z, y), y, z)
           P == SetParent(L, z, y)
           K == Paint(P, z, "red")
           Q1 == SetChild(K, "left", z, NIL)
           R == SetChild(Q1, "right", z, NIL)
<1>1. Leaf(T, z, y) = R
  BY DEF Leaf, SetChild, SetParent, Paint
<1>2. Toward(z, y) \in Sides
  BY DEF Toward, Sides
<1>3. /\ L \in Trees /\ L.parent = T.parent /\ L.color = T.color /\ L.root = IF y = NIL THEN z ELSE T.root
      /\ \A s \in Sides, n \in Node0 : L.child[s][n] = IF y # NIL /\ n = y /\ s = Toward(z, y) THEN z ELSE T.child[s][n]
  <2>1. CASE y = NIL
    BY <2>1 DEF Trees
  <2>2. CASE y # NIL
    <3>1. ChildPut(L, T, Toward(z, y), y, z)
      BY <1>2, <2>2, PutChild
    <3> QED
      BY <2>2, <3>1 DEF ChildPut
  <2> QED
    BY <2>1, <2>2
<1> HIDE DEF L
<1>4. ParentPut(P, L, z, y)
  BY <1>3, PutParent
<1> HIDE DEF P
<1>5. Painted(K, P, z, "red")
  BY <1>4, PaintFields DEF ParentPut, Colors
<1> HIDE DEF K
<1>6. ChildPut(Q1, K, "left", z, NIL)
  BY <1>5, PutChild, SidesAre, NodeTypes DEF Painted
<1> HIDE DEF Q1
<1>7. ChildPut(R, Q1, "right", z, NIL)
  <2>1. Q1 \in Trees
    BY <1>6 DEF ChildPut
  <2> QED
    BY <2>1, PutChild, SidesAre, NodeTypes
<1> HIDE DEF R
<1>8. /\ R \in Trees /\ R.root = IF y = NIL THEN z ELSE T.root
      /\ \A n \in Node0 : /\ R.parent[n] = IF n = z THEN y ELSE T.parent[n]
                          /\ R.color[n] = IF n = z THEN "red" ELSE T.color[n]
  BY <1>3, <1>4, <1>5, <1>6, <1>7 DEF ParentPut, Painted, ChildPut
<1>9. ASSUME NEW s \in Sides, NEW n \in Node0
      PROVE  R.child[s][n] = IF n = z THEN NIL ELSE IF y # NIL /\ n = y /\ s = Toward(z, y) THEN z ELSE T.child[s][n]
  <2>1. R.child[s][n] = IF n = z THEN NIL ELSE K.child[s][n]
    BY <1>6, <1>7 DEF ChildPut, Sides
  <2>2. K.child = L.child
    BY <1>4, <1>5 DEF ParentPut, Painted
  <2> QED
    BY <1>3, <2>1, <2>2
<1>10. LeafPut(R, T, z, y)
  BY <1>8, <1>9 DEF LeafPut
<1> QED
  BY <1>1, <1>10

\* The bounds with those of a new leaf below y, or of the first node.
Widened(S, B, z, y) ==
    [s \in Sides |-> [n \in S \cup {z} |->
        IF n # z THEN B[s][n] ELSE IF y = NIL THEN End(s) ELSE IF s = Toward(z, y) THEN B[s][y] ELSE y]]

\* A new leaf leaves the tree in order.
LEMMA LeafShape ==
  ASSUME NEW T, NEW S, NEW B, Shape(T, S, B), NEW z \in Nodes, z \notin S, NEW y,
         \/ y = NIL /\ T.root = NIL
         \/ y \in S /\ In(B, y, z) /\ T.child[Toward(z, y)][y] = NIL
  PROVE  Shape(Leaf(T, z, y), S \cup {z}, Widened(S, B, z, y)) /\ LeafPut(Leaf(T, z, y), T, z, y)
<1> DEFINE R == Leaf(T, z, y)
           U == S \cup {z}
           C == Widened(S, B, z, y)
           d == Toward(z, y)
<1>1. LeafPut(R, T, z, y)
  BY LeafFields, ShapeTypes, NodeTypes DEF Shape
<1>2. /\ R \in Trees /\ R.root = IF y = NIL THEN z ELSE T.root
      /\ \A n \in Node0 : /\ R.parent[n] = IF n = z THEN y ELSE T.parent[n]
                          /\ R.color[n] = IF n = z THEN "red" ELSE T.color[n]
      /\ \A s \in Sides, n \in Node0 :
            R.child[s][n] = IF n = z THEN NIL ELSE IF y # NIL /\ n = y /\ s = d THEN z ELSE T.child[s][n]
  BY <1>1 DEF LeafPut
<1>3. /\ \A n \in S : n \in Nodes /\ n \in Node0 /\ n \in Int /\ n # NIL /\ \A s \in Sides : B[s][n] \in 0..(N + 1) /\ B[s][n] \in Int
      /\ z \in Int /\ z \in Node0 /\ z # NIL /\ z \in 1..N /\ N \in Nat
      /\ d \in Sides /\ Other(d) \in Sides /\ Other(d) # d /\ \A s \in Sides : s = d \/ s = Other(d)
      /\ U \subseteq Nodes /\ B \in [Sides -> [S -> 0..(N + 1)]]
  <2>1. d \in Sides
    BY DEF Toward, Sides
  <2>2. S \subseteq Nodes /\ B \in [Sides -> [S -> 0..(N + 1)]]
    BY DEF Shape
  <2>3. z \in Int /\ z \in Node0 /\ z # NIL /\ z \in 1..N /\ N \in Nat
    BY NodeTypes, NAssumption DEF Nodes
  <2> QED
    BY <2>1, <2>2, <2>3, ShapeTypes, SidesAre
<1>4. /\ \A n \in S, s \in Sides : Linked(T, S, B, n, s)
      /\ \A n \in S : In(B, n, n)
      /\ \A n \in S : n # T.root => Hangs(T, S, n)
      /\ Rooted(T, S, B)
      /\ \A s \in Sides : T.child[s][NIL] = NIL
      /\ T.color[NIL] = "black"
  BY DEF Shape
<1> HIDE DEF R
<1>5. CASE y = NIL
  <2>1. S = {} /\ U = {z}
    BY <1>3, <1>4, <1>5 DEF Rooted
  <2>2. C = [s \in Sides |-> [n \in U |-> End(s)]]
    BY <1>5, <2>1 DEF Widened
  <2> HIDE DEF C
  <2>3. C \in [Sides -> [U -> 0..(N + 1)]] /\ \A s \in Sides : C[s][z] = End(s)
    BY <1>3, <2>2 DEF End
  <2>4. In(C, z, z)
    BY <1>3, <2>3 DEF In, Lt, End
  <2>5. R.root = z /\ R.parent[z] = NIL /\ \A s \in Sides : R.child[s][z] = NIL
    BY <1>2, <1>3, <1>5
  <2>6. \A s \in Sides : Linked(R, U, C, z, s)
    <3>1. \A s \in Sides : ~Lt(s, z, z)
      BY <1>3, LtOrder
    <3> QED
      BY <2>1, <2>5, <3>1 DEF Linked
  <2>7. Rooted(R, U, C)
    BY <2>1, <2>3, <2>5 DEF Rooted
  <2>8. R.color[NIL] = "black" /\ \A s \in Sides : R.child[s][NIL] = NIL
    <3>1. NIL \in Node0
      BY NodeTypes
    <3> QED
      BY <1>2, <1>3, <1>4, <1>5, <3>1
  <2>9. Shape(R, U, C)
    <3> HIDE DEF U, d
    <3>1. R \in Trees /\ U \subseteq Nodes
      BY <1>2, <1>3
    <3>2. \A n \in U : n = z
      BY <2>1
    <3> QED
      BY <2>3, <2>4, <2>5, <2>6, <2>7, <2>8, <3>1, <3>2 DEF Shape
  <2> QED
    BY <1>1, <2>9 DEF R, C
<1>6. CASE y # NIL
  <2>1. y \in S /\ In(B, y, z) /\ T.child[d][y] = NIL /\ y # z /\ y \in Int
    BY <1>3, <1>6
  <2>2. Lt(d, z, y) /\ Lt(d, B[d][y], z)
    <3>1. Lt(d, z, y)
      BY <1>3, <2>1 DEF Toward, Lt, Less
    <3>2. Lt(d, B[d][y], z)
      BY <1>3, <2>1 DEF In
    <3> QED
      BY <1>3, <2>1, <3>1, <3>2, LtOrder
  <2> DEFINE e == Other(d)
  <2>3. /\ C \in [Sides -> [U -> 0..(N + 1)]]
        /\ \A s \in Sides, n \in S : C[s][n] = B[s][n]
        /\ C[d][z] = B[d][y] /\ C[e][z] = y
    <3> HIDE DEF d
    <3>1. C = [s \in Sides |-> [n \in U |-> IF n # z THEN B[s][n] ELSE IF s = d THEN B[s][y] ELSE y]]
      BY <1>6 DEF Widened, d
    <3> HIDE DEF C
    <3>2. \A s \in Sides, n \in U : C[s][n] = IF n # z THEN B[s][n] ELSE IF s = d THEN B[s][y] ELSE y
      BY <3>1
    <3>3. y \in 0..(N + 1)
      <4>1. y \in 1..N
        BY <1>3, <2>1 DEF Nodes
      <4> QED
        BY <1>3, <4>1
    <3>4. \A s \in Sides, n \in U : C[s][n] \in 0..(N + 1)
      BY <1>3, <2>1, <3>2, <3>3
    <3> QED
      BY <1>3, <3>1, <3>2, <3>4
  <2> HIDE DEF C, U, d
  <2>4. z \in U /\ \A n : n \in U <=> n \in S \/ n = z
    BY DEF U
  <2>5. \A n \in U : In(C, n, n)
    <3>1. In(C, z, z)
      <4>1. Lt(e, y, z)
        BY <1>3, <2>1, <2>2, LtOrder
      <4> QED
        BY <1>3, <2>2, <2>3, <4>1 DEF In
    <3>2. \A n \in S : In(C, n, n)
      BY <1>4, <2>3 DEF In
    <3> QED
      BY <2>4, <3>1, <3>2
  <2>6. ASSUME NEW s \in Sides PROVE Linked(R, U, C, z, s)
    <3>1. R.child[s][z] = NIL
      BY <1>2, <1>3
    <3>2. \A k \in S : ~(Lt(d, k, y) /\ Lt(d, B[d][y], k))
      <4>1. Linked(T, S, B, y, d)
        BY <1>3, <1>4, <2>1
      <4> QED
        BY <1>3, <2>1, <4>1 DEF Linked
    <3>3. ASSUME NEW k \in U, Lt(s, k, z), Lt(s, C[s][z], k) PROVE FALSE
      <4>1. k \in S /\ k \in Int
        BY <1>3, <2>4, <3>3, LtOrder
      <4>2. CASE s = d
        <5>1. Lt(d, k, y)
          BY <1>3, <2>1, <2>2, <3>3, <4>1, <4>2, LtOrder
        <5> QED
          BY <2>3, <3>2, <3>3, <4>1, <4>2, <5>1
      <4>3. CASE s = e
        <5>1. Lt(e, k, z) /\ Lt(e, y, k)
          BY <2>3, <3>3, <4>3
        <5>2. Lt(d, z, k) /\ Lt(d, k, y)
          BY <1>3, <2>1, <4>1, <5>1, LtOrder
        <5>3. Lt(d, B[d][y], k)
          BY <1>3, <2>1, <2>2, <4>1, <5>2, LtOrder
        <5> QED
          BY <3>2, <4>1, <5>2, <5>3
      <4> QED
        BY <1>3, <4>2, <4>3
    <3> QED
      BY <3>1, <3>3 DEF Linked
  <2>7. ASSUME NEW n \in S, NEW s \in Sides PROVE Linked(R, U, C, n, s)
    <3>1. CASE n = y /\ s = d
      <4>1. R.child[d][y] = z /\ R.parent[z] = y
        BY <1>2, <1>3, <1>6, <2>1
      <4> QED
        BY <2>1, <2>3, <2>4, <3>1, <4>1 DEF Linked
    <3>2. CASE ~(n = y /\ s = d)
      <4>1. R.child[s][n] = T.child[s][n] /\ Linked(T, S, B, n, s)
        BY <1>2, <1>3, <1>4, <3>2
      <4>2. CASE T.child[s][n] = NIL
        <5>1. ~(Lt(s, z, n) /\ Lt(s, B[s][n], z))
          BY <1>3, <2>1, <2>2, <3>2, <4>2, GapsApart
        <5>2. \A k \in S : ~(Lt(s, k, n) /\ Lt(s, B[s][n], k))
          BY <1>3, <4>1, <4>2 DEF Linked
        <5> QED
          BY <2>3, <2>4, <4>1, <4>2, <5>1, <5>2 DEF Linked
      <4>3. CASE T.child[s][n] # NIL
        <5>1. /\ T.child[s][n] \in S /\ T.parent[T.child[s][n]] = n
              /\ B[s][T.child[s][n]] = B[s][n] /\ B[Other(s)][T.child[s][n]] = n
          BY <4>1, <4>3 DEF Linked
        <5>2. R.parent[T.child[s][n]] = n
          BY <1>2, <1>3, <5>1
        <5>3. Other(s) \in Sides
          BY SidesAre
        <5> QED
          BY <2>3, <2>4, <4>1, <5>1, <5>2, <5>3 DEF Linked
      <4> QED
        BY <4>2, <4>3
    <3> QED
      BY <3>1, <3>2
  <2>8. ASSUME NEW n \in U, n # R.root PROVE Hangs(R, U, n)
    <3>1. CASE n = z
      <4>1. R.parent[z] = y /\ R.child[d][y] = z
        BY <1>2, <1>3, <1>6, <2>1
      <4> QED
        BY <1>3, <2>1, <2>4, <3>1, <4>1 DEF Hangs
    <3>2. CASE n # z
      <4>1. n \in S /\ Hangs(T, S, n)
        BY <1>2, <1>4, <1>6, <2>4, <2>8, <3>2
      <4>2. PICK s \in Sides : T.child[s][T.parent[n]] = n
        BY <4>1 DEF Hangs
      <4>3. R.parent[n] = T.parent[n] /\ T.parent[n] \in S
        BY <1>2, <1>3, <3>2, <4>1 DEF Hangs
      <4>4. R.child[s][T.parent[n]] = n
        BY <1>2, <1>3, <2>1, <4>1, <4>2, <4>3
      <4> QED
        BY <2>4, <4>3, <4>4 DEF Hangs
    <3> QED
      BY <3>1, <3>2
  <2>9. R.color[NIL] = "black" /\ \A s \in Sides : R.child[s][NIL] = NIL
    <3>1. NIL \in Node0
      BY NodeTypes
    <3> QED
      BY <1>2, <1>3, <1>4, <1>6, <3>1
  <2>10. Rooted(R, U, C)
    <3>1. T.root \in S /\ T.parent[T.root] = NIL /\ \A s \in Sides : B[s][T.root] = End(s)
      BY <1>4, <2>1 DEF Rooted
    <3> QED
      BY <1>2, <1>3, <1>6, <2>3, <2>4, <3>1 DEF Rooted
  <2>11. Shape(R, U, C)
    BY <1>2, <1>3, <2>3, <2>4, <2>5, <2>6, <2>7, <2>8, <2>9, <2>10 DEF Shape
  <2> QED
    BY <1>1, <2>11 DEF R, C, U
<1> QED
  BY <1>5, <1>6

------------------------------------------------------------------------------------
\* Removal of a node with at most one child.

\* T without z, whose place x takes.
Removed(R, T, z, x) ==
    /\ R \in Trees /\ R.root = IF T.parent[z] = NIL THEN x ELSE T.root
    /\ \A n \in Node0 : /\ R.parent[n] = IF n = z THEN NIL ELSE IF n = x THEN T.parent[z] ELSE T.parent[n]
                        /\ R.color[n] = IF n = z THEN "black" ELSE T.color[n]
    /\ \A s \in Sides, n \in Node0 :
          R.child[s][n] = IF n = z THEN NIL
                          ELSE IF T.parent[z] # NIL /\ s = Side(T, z) /\ n = T.parent[z] THEN x ELSE T.child[s][n]

\* rb_transplant and the reset of z remove z as Removed says.
LEMMA RemoveFields ==
  ASSUME NEW T \in Trees, NEW z \in Node0, NEW x \in Node0
  PROVE  Removed(Forget(Transplant(T, z, x), z), T, z, x)
<1> DEFINE Q == Transplant(T, z, x)
           R == Forget(Q, z)
<1>1. Transplanted(Q, T, z, x)
  BY TransplantFields
<1> HIDE DEF Q
<1>2. Q \in Trees
  BY <1>1 DEF Transplanted
<1>3. Forgotten(R, Q, z)
  BY <1>2, ForgetFields
<1> HIDE DEF R
<1>4. Removed(R, T, z, x)
  BY <1>1, <1>3 DEF Transplanted, Forgotten, Removed
<1> QED
  BY <1>4 DEF R, Q

\* The bounds when z is gone.
Narrowed(S, B, z) ==
    [s \in Sides |-> [n \in S \ {z} |-> IF B[s][n] = z THEN B[s][z] ELSE B[s][n]]]

\* Nothing lies below z on a side without a child.
LEMMA NoneBelow ==
  ASSUME NEW T, NEW S, NEW B, Shape(T, S, B), NEW z \in S, NEW a \in Sides, T.child[a][z] = NIL,
         NEW n \in S, NEW s \in Sides, B[s][n] = z
  PROVE  s = a
<1>1. SUFFICES ASSUME s # a PROVE FALSE
  OBVIOUS
<1>2. s = Other(a) /\ a = Other(s)
  BY <1>1 DEF Sides, Other
<1>3. /\ z \in Int /\ n \in Int /\ z \in 1..N /\ N \in Nat
      /\ \A r \in Sides : B[r][n] \in Int /\ B[r][z] \in Int
  BY ShapeTypes, NAssumption DEF Nodes
<1>4. z # End(s)
  BY <1>3 DEF End
<1>5. ~Lt(a, B[a][n], B[a][z])
  BY <1>2, <1>4, BoundsNest
<1>6. Lt(a, B[a][n], n) /\ Lt(s, z, n)
  BY DEF Shape, In
<1>7. Lt(a, n, z)
  BY <1>2, <1>3, <1>6, LtOrder
<1>8. Lt(a, B[a][z], n)
  BY <1>3, <1>5, <1>6, LtOrder
<1>9. Linked(T, S, B, z, a) /\ NIL \notin S
  BY ShapeTypes DEF Shape
<1> QED
  BY <1>7, <1>8, <1>9 DEF Linked

\* The key between a node's bound and the node is below its child.
LEMMA Beside ==
  ASSUME NEW T, NEW S, NEW B, Shape(T, S, B), NEW n \in S, NEW d \in Sides, NEW k \in S,
         Lt(d, k, n), Lt(d, B[d][n], k)
  PROVE  T.child[d][n] \in S /\ In(B, T.child[d][n], k)
<1>1. /\ n \in Int /\ k \in Int /\ \A r \in Sides : B[r][n] \in Int /\ B[r][k] \in Int
      /\ Other(d) \in Sides /\ \A s \in Sides : s = d \/ s = Other(d)
  BY ShapeTypes, SidesAre
<1>2. Lt(Other(d), B[Other(d)][n], n)
  BY <1>1 DEF Shape, In
<1>3. Lt(Other(d), n, k)
  BY <1>1, LtOrder
<1>4. Lt(Other(d), B[Other(d)][n], k)
  BY <1>1, <1>2, <1>3, LtOrder
<1>5. In(B, n, k)
  BY <1>1, <1>4 DEF In
<1> QED
  BY <1>1, <1>5, WayDown

\* A leaf has nothing else below it.
LEMMA Alone ==
  ASSUME NEW T, NEW S, NEW B, Shape(T, S, B), NEW z \in S, \A d \in Sides : T.child[d][z] = NIL,
         NEW k \in S, In(B, z, k)
  PROVE  k = z
<1>1. z \in Int /\ k \in Int
  BY ShapeTypes
<1>2. ASSUME NEW d \in Sides, Lt(d, k, z) PROVE FALSE
  BY <1>1, <1>2, WayDown
<1> QED
  BY <1>1, <1>2, LtOrder, SidesAre DEF Lt

\* The tree stays in order when a node with at most one child goes.
LEMMA RemoveShape ==
  ASSUME NEW T, NEW S, NEW B, Shape(T, S, B), NEW z \in S, NEW a \in Sides, T.child[a][z] = NIL,
         NEW x, T.child[Other(a)][z] = x
  PROVE  LET R == Forget(Transplant(T, z, x), z)
         IN Shape(R, S \ {z}, Narrowed(S, B, z)) /\ Removed(R, T, z, x)
<1> DEFINE R == Forget(Transplant(T, z, x), z)
           U == S \ {z}
           C == Narrowed(S, B, z)
           b == Other(a)
           p == T.parent[z]
           f == Side(T, z)
<1>1. /\ \A n \in S : n \in Nodes /\ n \in Node0 /\ n \in Int /\ n # NIL /\ \A s \in Sides : B[s][n] \in 0..(N + 1) /\ B[s][n] \in Int
      /\ z \in 1..N /\ N \in Nat
      /\ b \in Sides /\ b # a /\ Other(b) = a /\ \A s \in Sides : s = a \/ s = b
      /\ S \subseteq Nodes /\ B \in [Sides -> [S -> 0..(N + 1)]] /\ T \in Trees
      /\ NIL \in Node0 /\ x \in Node0
  <2>1. S \subseteq Nodes /\ B \in [Sides -> [S -> 0..(N + 1)]] /\ T \in Trees
    BY DEF Shape
  <2>2. z \in 1..N /\ N \in Nat /\ NIL \in Node0 /\ z \in Node0
    BY ShapeTypes, NodeTypes, NAssumption DEF Nodes
  <2>3. x \in Node0
    BY <2>1, <2>2, TreeTypes, SidesAre
  <2> QED
    BY <2>1, <2>2, <2>3, ShapeTypes, SidesAre
<1>2. Removed(R, T, z, x)
  BY <1>1, RemoveFields
<1> HIDE DEF R
<1>3. /\ R \in Trees /\ R.root = IF p = NIL THEN x ELSE T.root
      /\ \A n \in Node0 : /\ R.parent[n] = IF n = z THEN NIL ELSE IF n = x THEN p ELSE T.parent[n]
                          /\ R.color[n] = IF n = z THEN "black" ELSE T.color[n]
      /\ \A s \in Sides, n \in Node0 :
            R.child[s][n] = IF n = z THEN NIL ELSE IF p # NIL /\ s = f /\ n = p THEN x ELSE T.child[s][n]
  BY <1>2 DEF Removed
<1>4. /\ \A n \in S, s \in Sides : Linked(T, S, B, n, s)
      /\ \A n \in S : In(B, n, n)
      /\ \A n \in S : n # T.root => Hangs(T, S, n)
      /\ Rooted(T, S, B)
      /\ \A s \in Sides : T.child[s][NIL] = NIL
      /\ T.color[NIL] = "black"
  BY DEF Shape
<1>5. ASSUME NEW n \in S, NEW s \in Sides, T.child[s][n] # NIL
      PROVE  LET q == T.child[s][n]
             IN q \in S /\ T.parent[q] = n /\ B[s][q] = B[s][n] /\ B[Other(s)][q] = n /\ q # n /\ q # T.root
                /\ Side(T, q) = s /\ T.child[Other(s)][n] # q
  BY <1>5, ChildFacts, SideOf
<1>6. /\ p = NIL <=> z = T.root
      /\ p # NIL => p \in S /\ f \in Sides /\ T.child[f][p] = z
  <2>1. p = NIL <=> z = T.root
    BY RootIs
  <2> QED
    BY <2>1, HangsAt
<1>7. x = NIL \/ (x \in S /\ T.parent[x] = z /\ B[b][x] = B[b][z] /\ B[a][x] = z /\ x # z /\ x # T.root)
  BY <1>1, <1>5
<1>8. \A n \in S, s \in Sides : B[s][n] = z => s = a
  BY NoneBelow
<1>9. \A k \in S : ~(Lt(a, k, z) /\ Lt(a, B[a][z], k))
  BY <1>1, <1>4 DEF Linked
<1>10. ASSUME p # NIL
       PROVE  /\ p # z /\ B[f][z] = B[f][p] /\ B[Other(f)][z] = p /\ Lt(f, z, p)
              /\ \A r \in Sides : B[r][p] # z
  <2>1. p # z /\ B[f][z] = B[f][p] /\ B[Other(f)][z] = p /\ Lt(f, z, p) /\ p \in S /\ f \in Sides
    BY <1>1, <1>6, <1>10, ChildFacts
  <2>2. B[f][p] # z
    <3>1. Lt(f, B[f][z], z)
      BY <1>4, <2>1 DEF In
    <3> QED
      BY <1>1, <2>1, <3>1, LtOrder
  <2>3. B[Other(f)][p] # z
    <3>1. Lt(Other(f), B[Other(f)][p], p)
      BY <1>4, <2>1, SidesAre DEF In
    <3>2. ~Lt(Other(f), z, p)
      BY <1>1, <2>1, LtOrder
    <3> QED
      BY <3>1, <3>2
  <2> QED
    BY <2>1, <2>2, <2>3, SidesAre
<1>11. /\ C \in [Sides -> [U -> 0..(N + 1)]]
       /\ \A s \in Sides, n \in U : C[s][n] = IF B[s][n] = z THEN B[s][z] ELSE B[s][n]
  <2>1. C = [s \in Sides |-> [n \in U |-> IF B[s][n] = z THEN B[s][z] ELSE B[s][n]]]
    BY DEF Narrowed
  <2> HIDE DEF C
  <2>2. \A s \in Sides, n \in U : C[s][n] = IF B[s][n] = z THEN B[s][z] ELSE B[s][n]
    BY <2>1
  <2>3. \A s \in Sides, n \in U : C[s][n] \in 0..(N + 1)
    BY <1>1, <2>2
  <2> QED
    BY <2>1, <2>2, <2>3
<1> HIDE DEF C, U, b, p, f
<1>12. \A n : n \in U <=> n \in S /\ n # z
  BY DEF U
<1>13. x # NIL => \A r \in Sides : C[r][x] = B[r][z]
  <2>1. ASSUME x # NIL PROVE \A r \in Sides : C[r][x] = B[r][z]
    <3>1. x \in U /\ B[b][x] = B[b][z] /\ B[a][x] = z
      BY <1>7, <1>12, <2>1
    <3>2. C[a][x] = B[a][z]
      BY <1>11, <3>1
    <3>3. C[b][x] = B[b][z]
      BY <1>1, <1>7, <1>8, <1>11, <3>1
    <3> QED
      BY <1>1, <3>2, <3>3
  <2> QED
    BY <2>1
<1>14. ASSUME NEW n \in U PROVE In(C, n, n)
  <2> SUFFICES ASSUME NEW s \in Sides PROVE Lt(s, C[s][n], n)
    BY DEF In
  <2>1. n \in S /\ Lt(s, B[s][n], n) /\ Lt(s, B[s][z], z)
    BY <1>4, <1>12 DEF In
  <2>2. CASE B[s][n] = z
    BY <1>1, <1>11, <2>1, <2>2, LtOrder
  <2>3. CASE B[s][n] # z
    BY <1>11, <2>1, <2>3
  <2> QED
    BY <2>2, <2>3
<1>15. x = NIL => \A k \in S : In(B, z, k) => k = z
  <2>1. ASSUME x = NIL PROVE \A d \in Sides : T.child[d][z] = NIL
    BY <1>1, <2>1 DEF b
  <2> QED
    BY <2>1, Alone
<1>16. ASSUME NEW n \in U, NEW s \in Sides PROVE Linked(R, U, C, n, s)
  <2>1. n \in S /\ n # z /\ Linked(T, S, B, n, s)
    BY <1>4, <1>12
  <2>2. CASE p # NIL /\ s = f /\ n = p
    <3>1. R.child[s][n] = x /\ C[s][n] = B[s][n]
      BY <1>1, <1>3, <1>10, <1>11, <2>1, <2>2
    <3>2. CASE x = NIL
      <4>1. ASSUME NEW k \in U, Lt(s, k, n), Lt(s, C[s][n], k) PROVE FALSE
        <5>1. In(B, z, k) /\ k \in S
          BY <1>6, <1>12, <2>1, <2>2, <3>1, <4>1, Beside
        <5> QED
          BY <1>12, <1>15, <3>2, <5>1
      <4> QED
        BY <3>1, <3>2, <4>1 DEF Linked
    <3>3. CASE x # NIL
      <4>1. x \in U /\ R.parent[x] = p
        BY <1>1, <1>3, <1>7, <1>12, <3>3
      <4>2. C[s][x] = B[s][z] /\ C[Other(s)][x] = B[Other(s)][z]
        BY <1>13, <3>3, SidesAre
      <4> QED
        BY <1>10, <2>2, <3>1, <4>1, <4>2 DEF Linked
    <3> QED
      BY <3>2, <3>3
  <2>3. CASE ~(p # NIL /\ s = f /\ n = p)
    <3> DEFINE q == T.child[s][n]
    <3>1. R.child[s][n] = q
      BY <1>1, <1>3, <2>1, <2>3
    <3>2. CASE q = NIL
      <4>1. \A k \in S : ~(Lt(s, k, n) /\ Lt(s, B[s][n], k))
        BY <1>1, <2>1, <3>2 DEF Linked
      <4>2. ASSUME NEW k \in U, Lt(s, k, n), Lt(s, C[s][n], k) PROVE FALSE
        <5>1. k \in S /\ k # z /\ k \in Int /\ z \in Int
          BY <1>1, <1>12
        <5>2. B[s][n] = z /\ s = a /\ Lt(a, B[a][z], k)
          BY <1>8, <1>11, <2>1, <4>1, <4>2, <5>1
        <5>3. ~Lt(a, z, k)
          BY <4>1, <4>2, <5>1, <5>2
        <5>4. Lt(a, k, z)
          BY <5>1, <5>3, LtOrder
        <5> QED
          BY <1>9, <5>1, <5>2, <5>4
      <4> QED
        BY <3>1, <3>2, <4>2 DEF Linked
    <3>3. CASE q # NIL
      <4>1. q \in S /\ T.parent[q] = n /\ B[s][q] = B[s][n] /\ B[Other(s)][q] = n /\ Side(T, q) = s /\ q # T.root
        BY <1>5, <2>1, <3>3
      <4>2. q # z
        BY <1>6, <2>3, <4>1 DEF p, f
      <4>3. q # x
        BY <1>7, <2>1, <3>3, <4>1
      <4>4. q \in U /\ R.parent[q] = n
        BY <1>1, <1>3, <1>12, <4>1, <4>2, <4>3
      <4>5. C[s][q] = C[s][n] /\ C[Other(s)][q] = n
        BY <1>11, <2>1, <4>1, <4>4, SidesAre
      <4> QED
        BY <3>1, <4>4, <4>5 DEF Linked
    <3> QED
      BY <3>2, <3>3
  <2> QED
    BY <2>2, <2>3
<1>17. ASSUME NEW n \in U, n # R.root PROVE Hangs(R, U, n)
  <2>1. n \in S /\ n # z /\ n \in Node0 /\ n # NIL
    BY <1>1, <1>12
  <2>2. CASE n = x
    <3>1. p # NIL
      BY <1>3, <1>17, <2>2
    <3>2. R.parent[n] = p /\ p \in U
      BY <1>3, <1>6, <1>10, <1>12, <2>1, <2>2, <3>1
    <3>3. f \in Sides /\ R.child[f][p] = n
      BY <1>1, <1>3, <1>6, <1>10, <2>2, <3>1
    <3> QED
      BY <3>2, <3>3 DEF Hangs
  <2>3. CASE n # x
    <3>1. n # T.root
      BY <1>3, <1>6, <1>17, <2>1
    <3>2. Hangs(T, S, n)
      BY <1>4, <2>1, <3>1
    <3>3. PICK s \in Sides : T.child[s][T.parent[n]] = n
      BY <3>2 DEF Hangs
    <3>4. R.parent[n] = T.parent[n] /\ T.parent[n] \in S
      BY <1>3, <2>1, <2>3, <3>2 DEF Hangs
    <3>5. T.parent[n] # z
      <4>1. T.child[a][z] = NIL /\ T.child[b][z] = x
        BY DEF b
      <4> QED
        BY <1>1, <2>1, <2>3, <3>3, <4>1
    <3>6. R.child[s][T.parent[n]] = n
      <4>1. ~(p # NIL /\ s = f /\ T.parent[n] = p)
        BY <1>6, <2>1, <3>3
      <4> QED
        BY <1>1, <1>3, <3>3, <3>4, <3>5, <4>1
    <3> QED
      BY <1>12, <3>4, <3>5, <3>6 DEF Hangs
  <2> QED
    BY <2>2, <2>3
<1>18. Rooted(R, U, C)
  <2>1. T.root \in S /\ T.parent[T.root] = NIL /\ \A s \in Sides : B[s][T.root] = End(s)
    BY <1>4 DEF Rooted
  <2>2. CASE p = NIL
    <3>1. z = T.root /\ R.root = x
      BY <1>3, <1>6, <2>2
    <3>2. CASE x = NIL
      <4>1. ASSUME NEW k \in S PROVE In(B, z, k)
        <5>1. k \in 1..N
          BY <1>1 DEF Nodes
        <5> QED
          BY <1>1, <2>1, <3>1, <5>1 DEF In, End, Lt
      <4>2. U = {}
        BY <1>12, <1>15, <3>2, <4>1
      <4> QED
        BY <3>1, <3>2, <4>2 DEF Rooted
    <3>3. CASE x # NIL
      <4>1. x \in U /\ R.parent[x] = NIL
        BY <1>1, <1>3, <1>7, <1>12, <2>2, <3>3
      <4> QED
        BY <1>13, <2>1, <3>1, <3>3, <4>1 DEF Rooted
    <3> QED
      BY <3>2, <3>3
  <2>3. CASE p # NIL
    <3>1. T.root \in U /\ T.root # x /\ R.root = T.root
      BY <1>1, <1>3, <1>6, <1>7, <1>12, <2>1, <2>3
    <3>2. R.parent[T.root] = NIL
      BY <1>1, <1>3, <1>12, <2>1, <3>1
    <3>3. \A s \in Sides : End(s) # z
      BY <1>1 DEF End
    <3>4. \A s \in Sides : C[s][T.root] = End(s)
      BY <1>11, <2>1, <3>1, <3>3
    <3> QED
      BY <3>1, <3>2, <3>4 DEF Rooted
  <2> QED
    BY <2>2, <2>3
<1>19. R.color[NIL] = "black" /\ \A s \in Sides : R.child[s][NIL] = NIL
  BY <1>1, <1>3, <1>4, <1>6
<1>20. U \subseteq Nodes
  BY <1>1, <1>12
<1>21. Shape(R, U, C)
  BY <1>3, <1>11, <1>14, <1>16, <1>17, <1>18, <1>19, <1>20 DEF Shape
<1> QED
  BY <1>2, <1>21 DEF R, C, U

------------------------------------------------------------------------------------
\* The successor takes the place of the node that is deleted.

\* y in place of z.
Swap(z, y, n) == IF n = z THEN y ELSE n

\* R is T with y in the place of z.
Renamed(R, T, S, z, y) ==
    /\ R \in Trees /\ R.root = Swap(z, y, T.root)
    /\ \A n \in S : /\ R.parent[Swap(z, y, n)] = Swap(z, y, T.parent[n])
                    /\ R.color[Swap(z, y, n)] = T.color[n]
                    /\ \A s \in Sides : R.child[s][Swap(z, y, n)] = Swap(z, y, T.child[s][n])
    /\ \A s \in Sides : R.child[s][NIL] = NIL
    /\ R.color[NIL] = "black"

\* The bounds after y took the place of z.
Swapped(S, B, z, y) ==
    [s \in Sides |-> [m \in (S \ {z}) \cup {y} |-> Swap(z, y, B[s][IF m = y THEN z ELSE m])]]

\* A successor keeps the order.
LEMMA SwapOrder ==
  ASSUME NEW S \in SUBSET Nodes, NEW z \in S, NEW y \in Nodes, y \notin S, z < y,
         \A k \in S : ~(z < k /\ k < y),
         NEW a \in S \cup {0, N + 1}, NEW b \in S \cup {0, N + 1}, NEW d \in Sides
  PROVE  Lt(d, Swap(z, y, a), Swap(z, y, b)) <=> Lt(d, a, b)
<1>1. /\ z \in 1..N /\ y \in 1..N /\ N \in Nat
      /\ (a \in 1..N /\ a # y /\ ~(z < a /\ a < y)) \/ a = 0 \/ a = N + 1
      /\ (b \in 1..N /\ b # y /\ ~(z < b /\ b < y)) \/ b = 0 \/ b = N + 1
  BY NAssumption DEF Nodes
<1> QED
  BY <1>1 DEF Lt, Swap

\* The tree stays in order when a node's successor takes its place.
LEMMA RenameShape ==
  ASSUME NEW T, NEW S, NEW B, Shape(T, S, B), NEW z \in S, NEW y \in Nodes, y \notin S, z < y,
         \A k \in S : ~(z < k /\ k < y), NEW R, Renamed(R, T, S, z, y)
  PROVE  Shape(R, (S \ {z}) \cup {y}, Swapped(S, B, z, y))
<1> DEFINE f(n) == Swap(z, y, n)
           U == (S \ {z}) \cup {y}
           C == Swapped(S, B, z, y)
<1>1. /\ \A n \in S : n \in Nodes /\ n \in Node0 /\ n \in Int /\ n # NIL /\ \A s \in Sides : B[s][n] \in 0..(N + 1) /\ B[s][n] \in Int
      /\ z \in 1..N /\ y \in 1..N /\ y # NIL /\ N \in Nat
      /\ S \subseteq Nodes /\ B \in [Sides -> [S -> 0..(N + 1)]]
      /\ \A s \in Sides : Other(s) \in Sides
  <2>1. S \subseteq Nodes /\ B \in [Sides -> [S -> 0..(N + 1)]]
    BY DEF Shape
  <2>2. z \in 1..N /\ y \in 1..N /\ y # NIL /\ N \in Nat
    BY <2>1, NodeTypes, NAssumption DEF Nodes
  <2> QED
    BY <2>1, <2>2, ShapeTypes, SidesAre
<1>2. /\ R \in Trees /\ R.root = f(T.root)
      /\ \A n \in S : /\ R.parent[f(n)] = f(T.parent[n])
                      /\ \A s \in Sides : R.child[s][f(n)] = f(T.child[s][n])
      /\ \A s \in Sides : R.child[s][NIL] = NIL
      /\ R.color[NIL] = "black"
  BY DEF Renamed
<1>3. /\ \A n \in S, s \in Sides : Linked(T, S, B, n, s)
      /\ \A n \in S : In(B, n, n)
      /\ \A n \in S : n # T.root => Hangs(T, S, n)
      /\ Rooted(T, S, B)
  BY DEF Shape
<1>4. /\ \A n \in S : f(n) \in U /\ (f(n) = y <=> n = z)
      /\ \A m \in U : \E n \in S : m = f(n)
      /\ f(NIL) = NIL
  BY <1>1 DEF Swap
<1>5. /\ C \in [Sides -> [U -> 0..(N + 1)]]
      /\ \A s \in Sides, n \in S : C[s][f(n)] = f(B[s][n])
  <2>1. C = [s \in Sides |-> [m \in U |-> f(B[s][IF m = y THEN z ELSE m])]]
    BY DEF Swapped
  <2> HIDE DEF C
  <2>2. \A s \in Sides, m \in U : C[s][m] = f(B[s][IF m = y THEN z ELSE m])
    BY <2>1
  <2>3. y \in 0..(N + 1)
    BY <1>1
  <2>4. \A s \in Sides, m \in U : C[s][m] \in 0..(N + 1)
    BY <1>1, <2>2, <2>3 DEF Swap
  <2>5. C \in [Sides -> [U -> 0..(N + 1)]]
    BY <2>1, <2>4
  <2>6. ASSUME NEW s \in Sides, NEW n \in S PROVE C[s][f(n)] = f(B[s][n])
    <3>1. f(n) \in U /\ (IF f(n) = y THEN z ELSE f(n)) = n
      BY <1>4 DEF Swap
    <3> QED
      BY <2>2, <3>1
  <2> QED
    BY <2>5, <2>6
<1>6. \A n \in S, s \in Sides : B[s][n] \in S \cup {0, N + 1}
  BY BoundIs DEF End
<1>7. \A a, b \in S \cup {0, N + 1}, d \in Sides : Lt(d, f(a), f(b)) <=> Lt(d, a, b)
  BY <1>1, SwapOrder
<1>8. U \subseteq Nodes
  BY <1>1
<1>9. \A s \in Sides : f(End(s)) = End(s)
  BY <1>1 DEF End, Swap
<1> HIDE DEF f, U, C
<1>10. ASSUME NEW m \in U PROVE In(C, m, m)
  <2>1. PICK n \in S : m = f(n)
    BY <1>4
  <2>2. \A s \in Sides : Lt(s, B[s][n], n)
    BY <1>3 DEF In
  <2>3. \A s \in Sides : Lt(s, f(B[s][n]), f(n))
    BY <1>6, <1>7, <2>2
  <2> QED
    BY <1>5, <2>1, <2>3 DEF In
<1>11. ASSUME NEW m \in U, NEW s \in Sides PROVE Linked(R, U, C, m, s)
  <2>1. PICK n \in S : m = f(n)
    BY <1>4
  <2>2. R.child[s][m] = f(T.child[s][n]) /\ Linked(T, S, B, n, s)
    BY <1>2, <1>3, <2>1
  <2>3. CASE T.child[s][n] = NIL
    <3>1. ASSUME NEW k \in U, Lt(s, k, m), Lt(s, C[s][m], k) PROVE FALSE
      <4>1. PICK j \in S : k = f(j)
        BY <1>4
      <4>2. Lt(s, f(j), f(n)) /\ Lt(s, f(B[s][n]), f(j))
        BY <1>5, <2>1, <3>1, <4>1
      <4>3. Lt(s, j, n) /\ Lt(s, B[s][n], j)
        BY <1>6, <1>7, <4>2
      <4> QED
        BY <1>1, <2>2, <2>3, <4>3 DEF Linked
    <3> QED
      BY <1>4, <2>2, <2>3, <3>1 DEF Linked
  <2>4. CASE T.child[s][n] # NIL
    <3> DEFINE c == T.child[s][n]
    <3>1. c \in S /\ T.parent[c] = n /\ B[s][c] = B[s][n] /\ B[Other(s)][c] = n
      BY <2>2, <2>4 DEF Linked
    <3> HIDE DEF c
    <3>2. f(c) \in U /\ R.parent[f(c)] = f(n) /\ C[s][f(c)] = C[s][f(n)] /\ C[Other(s)][f(c)] = f(n)
      BY <1>1, <1>2, <1>4, <1>5, <3>1
    <3> QED
      BY <2>1, <2>2, <3>2 DEF Linked, c
  <2> QED
    BY <2>3, <2>4
<1>12. ASSUME NEW m \in U, m # R.root PROVE Hangs(R, U, m)
  <2>1. PICK n \in S : m = f(n)
    BY <1>4
  <2>2. Hangs(T, S, n)
    BY <1>2, <1>3, <1>12, <2>1
  <2>3. T.parent[n] \in S /\ \E s \in Sides : T.child[s][T.parent[n]] = n
    BY <2>2 DEF Hangs
  <2> QED
    BY <1>2, <1>4, <2>1, <2>3 DEF Hangs
<1>13. Rooted(R, U, C)
  <2>1. T.root \in S /\ T.parent[T.root] = NIL /\ \A s \in Sides : B[s][T.root] = End(s)
    BY <1>3 DEF Rooted
  <2> QED
    BY <1>2, <1>4, <1>5, <1>9, <2>1 DEF Rooted
<1>14. Shape(R, U, C)
  BY <1>2, <1>5, <1>8, <1>10, <1>11, <1>12, <1>13 DEF Shape
<1> QED
  BY <1>14 DEF U, C

\* What rb_tree_delete makes of T when y is the least node of z's right subtree.
Rewired(T, z, y) ==
    LET x == T.child["right"][y]
    IN IF T.parent[y] = z THEN [T EXCEPT !.parent[x] = y]
       ELSE LET cut == Transplant(T, y, x)
                r == cut.child["right"][z]
            IN [cut EXCEPT !.child["right"][y] = r, !.parent[r] = y]
\* Splice's tree with y in the place of z, before z is reset.
Lifted(T, z, y) ==
    LET T2 == Transplant(Rewired(T, z, y), z, y)
        l == T2.child["left"][z]
    IN [T2 EXCEPT !.child["left"][y] = l, !.parent[l] = y, !.color[y] = TakesColor(T2, z, y)]

\* z with two children, y its successor, and the nodes around them.
Near(T, S, z, y, x, l, r, p, q) ==
    /\ z \in S /\ y \in S /\ l \in S /\ r \in S /\ q \in S /\ y # z /\ l # y /\ l # z /\ r # z /\ l # r /\ l # q /\ q # y
    /\ l = T.child["left"][z] /\ r = T.child["right"][z] /\ x = T.child["right"][y] /\ T.child["left"][y] = NIL
    /\ p = T.parent[z] /\ q = T.parent[y] /\ T.parent[l] = z /\ T.parent[r] = z
    /\ x # z /\ x # l /\ x # r /\ x # y /\ (x = NIL \/ (x \in S /\ T.parent[x] = y))
    /\ q = z => r = y /\ Side(T, y) = "right"
    /\ q # z => r # y /\ Side(T, y) = "left" /\ T.child["left"][q] = y
    /\ p # y /\ p # z /\ p # q
    /\ z < y /\ y # T.root /\ \A k \in S : ~(z < k /\ k < y)

\* What surrounds a node z with two children and its successor y.
LEMMA NearHolds ==
  ASSUME NEW T, NEW S, NEW B, Shape(T, S, B), NEW z \in S, NEW y \in S, B["left"][y] = z,
         T.child["left"][z] # NIL, T.child["right"][z] # NIL, T.child["left"][y] = NIL
  PROVE  Near(T, S, z, y, T.child["right"][y], T.child["left"][z], T.child["right"][z], T.parent[z], T.parent[y])
<1> DEFINE x == T.child["right"][y]
           l == T.child["left"][z]
           r == T.child["right"][z]
           p == T.parent[z]
           q == T.parent[y]
<1>1. "left" \in Sides /\ "right" \in Sides /\ Other("left") = "right" /\ Other("right") = "left"
  BY DEF Sides, Other
<1>2. /\ l \in S /\ T.parent[l] = z /\ l # z /\ Lt("left", l, z)
      /\ r \in S /\ T.parent[r] = z /\ r # z /\ Lt("right", r, z) /\ B["left"][r] = z
  BY <1>1, ChildFacts
<1>3. x = NIL \/ (x \in S /\ T.parent[x] = y /\ x # y /\ Lt("right", x, y))
  BY <1>1, ChildFacts
<1>4. /\ \A n \in S : n \in Int /\ n # NIL /\ n \in 1..N
      /\ N \in Nat
  BY ShapeTypes, NAssumption DEF Nodes
<1>5. z < y
  BY <1>1 DEF Shape, In, Lt
<1>6. l < z /\ z < r /\ (x = NIL \/ y < x)
  BY <1>2, <1>3 DEF Lt
<1>7. y # T.root
  BY <1>1, <1>4 DEF Shape, Rooted, End
<1>8. q \in S /\ Side(T, y) \in Sides /\ T.child[Side(T, y)][q] = y
  BY <1>7, HangsAt
<1>9. /\ Side(T, y) = "left" => Lt("left", y, q) /\ B["left"][q] = z
      /\ Side(T, y) = "right" => q = z
  BY <1>1, <1>4, <1>8, ChildFacts
<1>10. q # y
  <2>1. Side(T, y) = "left" => y < q
    BY <1>9 DEF Lt
  <2> QED
    BY <1>4, <1>5, <1>8, <1>9, <2>1 DEF Sides
<1>11. q = z => r = y /\ Side(T, y) = "right"
  <2>1. q = z => Side(T, y) # "left"
    <3>1. B["left"][q] = z => z < q
      BY <1>1, <1>8 DEF Shape, In, Lt
    <3> QED
      BY <1>4, <1>9, <3>1
  <2> QED
    BY <1>8, <2>1 DEF Sides
<1>12. q # z => r # y /\ Side(T, y) = "left" /\ T.child["left"][q] = y
  BY <1>2, <1>8, <1>9 DEF Sides
<1>13. p # y /\ p # z /\ p # q
  <2>1. CASE z = T.root
    <3>1. p = NIL
      BY <2>1 DEF Shape, Rooted
    <3> QED
      BY <1>4, <1>8, <3>1
  <2>2. CASE z # T.root
    <3>1. p \in S /\ Side(T, z) \in Sides /\ T.child[Side(T, z)][p] = z
      BY <2>2, HangsAt
    <3>2. (Side(T, z) = "left" => z < p) /\ (Side(T, z) = "right" => p < z)
      BY <1>1, <1>4, <3>1, ChildFacts DEF Lt
    <3>3. p # y
      BY <1>4, <1>5, <3>1, <3>2 DEF Sides
    <3>4. p # z
      BY <1>4, <3>1, <3>2 DEF Sides
    <3>5. p # q
      <4>1. CASE q = z
        BY <3>4, <4>1
      <4>2. CASE q # z
        <5>1. T.child["left"][q] = y /\ z < q
          <6>1. B["left"][q] = z
            BY <1>8, <1>9, <1>12, <4>2
          <6> QED
            BY <1>1, <1>8, <1>12, <4>2, <6>1 DEF Shape, In, Lt
        <5> QED
          BY <1>4, <1>5, <1>8, <3>1, <3>2, <5>1 DEF Sides
      <4> QED
        BY <4>1, <4>2
    <3> QED
      BY <3>3, <3>4, <3>5
  <2> QED
    BY <2>1, <2>2
<1>14. \A k \in S : ~(z < k /\ k < y)
  <2>1. Linked(T, S, B, y, "left")
    BY <1>1 DEF Shape
  <2> QED
    BY <1>4, <2>1 DEF Linked, Lt
<1>15. l # q
  <2>1. CASE q = z
    BY <1>2, <2>1
  <2>2. CASE q # z
    <3>1. B["left"][q] = z
      BY <1>8, <1>9, <1>12, <2>2
    <3>2. z < q
      BY <1>1, <1>8, <3>1 DEF Shape, In, Lt
    <3> QED
      BY <1>2, <1>4, <1>6, <1>8, <3>2
  <2> QED
    BY <2>1, <2>2
<1>16. x # z /\ x # l /\ x # r /\ x # y
  <2>1. CASE x = NIL
    BY <1>2, <1>4, <2>1
  <2>2. CASE x # NIL
    <3>1. x \in S /\ T.parent[x] = y /\ y < x
      BY <1>3, <1>6, <2>2
    <3> QED
      BY <1>2, <1>4, <1>5, <1>6, <3>1
  <2> QED
    BY <2>1, <2>2
<1>17. l # y /\ l # r
  BY <1>2, <1>4, <1>5, <1>6
<1> QED
  BY <1>2, <1>3, <1>4, <1>5, <1>7, <1>8, <1>10, <1>11, <1>12, <1>13, <1>14, <1>15, <1>16, <1>17 DEF Near

\* What the tree holds after y took the place of z.
Spliced(R, T, z, y, x, l, r, p, q) ==
    /\ R \in Trees /\ R.root = IF p = NIL THEN y ELSE T.root
    /\ \A n \in Node0 :
          /\ R.parent[n] = IF n = z THEN NIL ELSE IF n = y THEN p ELSE IF n \in {l, r} THEN y
                           ELSE IF n = x THEN (IF q = z THEN y ELSE q) ELSE T.parent[n]
          /\ R.color[n] = IF n = z THEN "black" ELSE IF n = y THEN T.color[z] ELSE T.color[n]
    /\ \A n \in Node0, s \in Sides :
          R.child[s][n] = IF n = z THEN NIL
                          ELSE IF n = y THEN (IF s = "left" THEN l ELSE IF q = z THEN x ELSE r)
                          ELSE IF n = q /\ s = "left" THEN x
                          ELSE IF p # NIL /\ n = p /\ s = Side(T, z) THEN y ELSE T.child[s][n]

\* The trees on the way.
Wired(R, T, z, y, x, r, q) ==
    /\ R \in Trees /\ R.root = T.root /\ R.color = T.color
    /\ \A n \in Node0 :
          R.parent[n] = IF q = z THEN (IF n = x THEN y ELSE T.parent[n])
                        ELSE IF n = r THEN y ELSE IF n = x THEN q ELSE T.parent[n]
    /\ \A n \in Node0, s \in Sides :
          R.child[s][n] = IF q = z THEN T.child[s][n]
                          ELSE IF n = y /\ s = "right" THEN r
                          ELSE IF n = q /\ s = "left" THEN x ELSE T.child[s][n]

\* The first half of the splice does what Wired says.
LEMMA RewireFields ==
  ASSUME NEW T \in Trees, NEW S \in SUBSET Nodes, NEW z, NEW y, NEW x, NEW l, NEW r, NEW p, NEW q, Near(T, S, z, y, x, l, r, p, q)
  PROVE  Wired(Rewired(T, z, y), T, z, y, x, r, q)
<1>1. /\ z \in Node0 /\ y \in Node0 /\ x \in Node0 /\ r \in Node0 /\ q \in Node0 /\ q # NIL
      /\ "left" \in Sides /\ "right" \in Sides
  BY NodeTypes DEF Near, Sides
<1>2. x = T.child["right"][y] /\ q = T.parent[y] /\ r = T.child["right"][z]
  BY DEF Near
<1>3. CASE q = z
  <2>1. Rewired(T, z, y) = SetParent(T, x, y)
    BY <1>2, <1>3 DEF Rewired, SetParent
  <2>2. ParentPut(SetParent(T, x, y), T, x, y)
    BY <1>1, PutParent
  <2> HIDE DEF SetParent
  <2> QED
    BY <1>3, <2>1, <2>2 DEF ParentPut, Wired
<1>4. CASE q # z
  <2> DEFINE cut == Transplant(T, y, x)
             Q == SetChild(cut, "right", y, r)
             R == SetParent(Q, r, y)
  <2>1. Transplanted(cut, T, y, x)
    BY <1>1, TransplantFields
  <2>2. Side(T, y) = "left" /\ z # q
    BY <1>4 DEF Near
  <2>3. cut.child["right"][z] = r
    <3> HIDE DEF cut
    <3> QED
      BY <1>1, <1>2, <2>1, <2>2 DEF Transplanted
  <2>4. Rewired(T, z, y) = R
    BY <1>2, <1>4, <2>3 DEF Rewired, SetChild, SetParent
  <2> HIDE DEF cut
  <2>5. cut \in Trees
    BY <2>1 DEF Transplanted
  <2>6. ChildPut(Q, cut, "right", y, r)
    BY <1>1, <2>5, PutChild
  <2> HIDE DEF Q
  <2>7. Q \in Trees
    BY <2>6 DEF ChildPut
  <2>8. ParentPut(R, Q, r, y)
    BY <1>1, <2>7, PutParent
  <2> HIDE DEF R
  <2>9. /\ R \in Trees /\ R.root = T.root /\ R.color = T.color
        /\ \A n \in Node0 : R.parent[n] = IF n = r THEN y ELSE IF n = x THEN q ELSE T.parent[n]
    BY <1>1, <1>2, <2>1, <2>6, <2>8 DEF Transplanted, ChildPut, ParentPut
  <2>10. \A n \in Node0, s \in Sides :
          R.child[s][n] = IF n = y /\ s = "right" THEN r ELSE IF n = q /\ s = "left" THEN x ELSE T.child[s][n]
    BY <1>1, <1>2, <2>1, <2>2, <2>6, <2>8 DEF Transplanted, ChildPut, ParentPut
  <2> QED
    BY <1>4, <2>4, <2>9, <2>10 DEF Wired
<1> QED
  BY <1>3, <1>4

\* The splice does what Spliced says.
LEMMA SpliceFields ==
  ASSUME NEW T \in Trees, NEW S \in SUBSET Nodes, NEW z, NEW y, NEW x, NEW l, NEW r, NEW p, NEW q, Near(T, S, z, y, x, l, r, p, q)
  PROVE  Spliced(Forget(Lifted(T, z, y), z), T, z, y, x, l, r, p, q)
<1> DEFINE T1 == Rewired(T, z, y)
           T2 == Transplant(T1, z, y)
           Q == SetChild(T2, "left", y, l)
           P == SetParent(Q, l, y)
           K == Paint(P, y, T2.color[z])
           R == Forget(K, z)
<1>1. /\ z \in Node0 /\ y \in Node0 /\ x \in Node0 /\ r \in Node0 /\ q \in Node0 /\ q # NIL /\ l \in Node0 /\ p \in Node0
      /\ "left" \in Sides /\ "right" \in Sides
  <2>1. z \in Node0 /\ p = T.parent[z]
    BY NodeTypes DEF Near
  <2> QED
    BY <2>1, NodeTypes, TreeTypes DEF Near, Sides
<1>2. Wired(T1, T, z, y, x, r, q)
  BY RewireFields
<1> HIDE DEF T1
<1>3. T1 \in Trees
  BY <1>2 DEF Wired
<1>4. Transplanted(T2, T1, z, y)
  BY <1>1, <1>3, TransplantFields
<1> HIDE DEF T2
<1>5. T1.parent[z] = p /\ T1.child["left"][z] = l
  BY <1>1, <1>2 DEF Wired, Near
<1>6. p # NIL => Side(T1, z) = Side(T, z)
  <2>1. ASSUME p # NIL PROVE T1.child["left"][p] = T.child["left"][p]
    BY <1>1, <1>2 DEF Wired, Near
  <2>2. p = T.parent[z]
    BY DEF Near
  <2> QED
    BY <1>5, <2>1, <2>2 DEF Side
<1>7. T2.child["left"][z] = l /\ T2.color[z] = T.color[z]
  BY <1>1, <1>2, <1>4, <1>5 DEF Transplanted, Wired, Near
<1>8. Forget(Lifted(T, z, y), z) = R
  <2>1. Lifted(T, z, y) = K
    BY <1>7 DEF Lifted, TakesColor, SetChild, SetParent, Paint, T1, T2
  <2> QED
    BY <2>1
<1>9. T2 \in Trees
  BY <1>4 DEF Transplanted
<1>10. ChildPut(Q, T2, "left", y, l)
  BY <1>1, <1>9, PutChild
<1> HIDE DEF Q
<1>11. Q \in Trees
  BY <1>10 DEF ChildPut
<1>12. ParentPut(P, Q, l, y)
  BY <1>1, <1>11, PutParent
<1> HIDE DEF P
<1>13. P \in Trees /\ T2.color[z] \in Colors
  BY <1>1, <1>9, <1>12, TreeTypes DEF ParentPut
<1>14. Painted(K, P, y, T2.color[z])
  BY <1>1, <1>13, PaintFields
<1> HIDE DEF K
<1>15. K \in Trees
  BY <1>14 DEF Painted
<1>16. Forgotten(R, K, z)
  BY <1>1, <1>15, ForgetFields
<1> HIDE DEF R
<1>17. /\ R \in Trees /\ R.root = IF p = NIL THEN y ELSE T.root
       /\ \A n \in Node0 : R.color[n] = IF n = z THEN "black" ELSE IF n = y THEN T.color[z] ELSE T.color[n]
  BY <1>2, <1>4, <1>5, <1>7, <1>10, <1>12, <1>14, <1>16 DEF Wired, Transplanted, ChildPut, ParentPut, Painted, Forgotten
<1>18. ASSUME NEW n \in Node0
       PROVE  R.parent[n] = IF n = z THEN NIL ELSE IF n = y THEN p ELSE IF n \in {l, r} THEN y
                            ELSE IF n = x THEN (IF q = z THEN y ELSE q) ELSE T.parent[n]
  <2>1. R.parent[n] = IF n = z THEN NIL ELSE IF n = l THEN y ELSE IF n = y THEN p ELSE T1.parent[n]
    BY <1>4, <1>5, <1>10, <1>12, <1>14, <1>16 DEF Transplanted, ChildPut, ParentPut, Painted, Forgotten
  <2>2. T1.parent[n] = IF q = z THEN (IF n = x THEN y ELSE T.parent[n])
                        ELSE IF n = r THEN y ELSE IF n = x THEN q ELSE T.parent[n]
    BY <1>2 DEF Wired
  <2> QED
    BY <2>1, <2>2 DEF Near
<1>19. ASSUME NEW n \in Node0, NEW s \in Sides
       PROVE  R.child[s][n] = IF n = z THEN NIL
                          ELSE IF n = y THEN (IF s = "left" THEN l ELSE IF q = z THEN x ELSE r)
                          ELSE IF n = q /\ s = "left" THEN x
                          ELSE IF p # NIL /\ n = p /\ s = Side(T, z) THEN y ELSE T.child[s][n]
  <2>1. R.child[s][n] = IF n = z THEN NIL ELSE IF n = y /\ s = "left" THEN l ELSE T2.child[s][n]
    BY <1>10, <1>12, <1>14, <1>16 DEF ChildPut, ParentPut, Painted, Forgotten
  <2>2. T2.child[s][n] = IF p # NIL /\ s = Side(T, z) /\ n = p THEN y ELSE T1.child[s][n]
    BY <1>4, <1>5, <1>6 DEF Transplanted
  <2>3. T1.child[s][n] = IF q = z THEN T.child[s][n]
                          ELSE IF n = y /\ s = "right" THEN r
                          ELSE IF n = q /\ s = "left" THEN x ELSE T.child[s][n]
    BY <1>2 DEF Wired
  <2> QED
    BY <2>1, <2>2, <2>3 DEF Near, Sides
<1>20. Spliced(R, T, z, y, x, l, r, p, q)
  BY <1>17, <1>18, <1>19 DEF Spliced
<1> QED
  BY <1>8, <1>20

\* Splicing is removing the successor and giving it z's place.
LEMMA SpliceRenames ==
  ASSUME NEW T, NEW S, NEW B, Shape(T, S, B),
         NEW z, NEW y, NEW x, NEW l, NEW r, NEW p, NEW q, Near(T, S, z, y, x, l, r, p, q),
         NEW Q, Removed(Q, T, y, x), NEW R, Spliced(R, T, z, y, x, l, r, p, q)
  PROVE  Renamed(R, Q, S \ {y}, z, y) /\ R.parent[x] = Swap(z, y, Q.parent[x])
<1>1. /\ \A n \in S : n \in Node0 /\ n # NIL
      /\ NIL \in Node0 /\ x \in Node0
  BY ShapeTypes, NodeTypes DEF Near
<1>2. z \in S /\ y \in S /\ l \in S /\ r \in S /\ q \in S /\ p = T.parent[z] /\ q = T.parent[y] /\ q # NIL
  BY <1>1 DEF Near
<1>3. /\ Q.root = T.root
      /\ \A n \in S \ {y} : /\ Q.parent[n] = IF n = x THEN q ELSE T.parent[n]
                            /\ Q.color[n] = T.color[n]
                            /\ \A s \in Sides : Q.child[s][n] = IF s = Side(T, y) /\ n = q THEN x ELSE T.child[s][n]
      /\ Q.parent[x] = q
  <2>1. x # y
    BY DEF Near
  <2> QED
    BY <1>1, <1>2, <2>1 DEF Removed
<1>4. /\ R \in Trees /\ R.root = IF p = NIL THEN y ELSE T.root
      /\ \A n \in Node0 :
          /\ R.parent[n] = IF n = z THEN NIL ELSE IF n = y THEN p ELSE IF n \in {l, r} THEN y
                           ELSE IF n = x THEN (IF q = z THEN y ELSE q) ELSE T.parent[n]
          /\ R.color[n] = IF n = z THEN "black" ELSE IF n = y THEN T.color[z] ELSE T.color[n]
      /\ \A n \in Node0, s \in Sides :
          R.child[s][n] = IF n = z THEN NIL
                          ELSE IF n = y THEN (IF s = "left" THEN l ELSE IF q = z THEN x ELSE r)
                          ELSE IF n = q /\ s = "left" THEN x
                          ELSE IF p # NIL /\ n = p /\ s = Side(T, z) THEN y ELSE T.child[s][n]
  BY DEF Spliced
<1>5. /\ p = NIL <=> z = T.root
      /\ p # NIL => p \in S /\ Side(T, z) \in Sides /\ T.child[Side(T, z)][p] = z
  <2>1. p = NIL <=> z = T.root
    BY <1>2, RootIs
  <2> QED
    BY <1>2, <2>1, HangsAt
<1>6. R.root = Swap(z, y, Q.root)
  BY <1>3, <1>4, <1>5 DEF Swap
<1>7. R.parent[x] = Swap(z, y, Q.parent[x])
  BY <1>1, <1>3, <1>4 DEF Swap, Near
<1>8. R.color[NIL] = "black" /\ \A s \in Sides : R.child[s][NIL] = NIL
  <2>1. T.color[NIL] = "black" /\ \A s \in Sides : T.child[s][NIL] = NIL
    BY DEF Shape
  <2> QED
    BY <1>1, <1>2, <1>4, <2>1
<1>9. ASSUME NEW n \in S \ {y} PROVE R.color[Swap(z, y, n)] = Q.color[n]
  BY <1>1, <1>2, <1>3, <1>4, <1>9 DEF Swap, Near
<1>10. ASSUME NEW n \in S \ {y} PROVE R.parent[Swap(z, y, n)] = Swap(z, y, Q.parent[n])
  <2>1. CASE n = z
    BY <1>1, <1>2, <1>3, <1>4, <2>1 DEF Swap, Near
  <2>2. CASE n # z
    <3>1. T.parent[n] = z => n \in {l, r}
      <4>1. ASSUME T.parent[n] = z PROVE n # T.root
        BY <1>1, <1>2, <4>1 DEF Shape, Rooted
      <4>2. ASSUME T.parent[n] = z PROVE \E s \in Sides : T.child[s][z] = n
        BY <4>1, <4>2 DEF Shape, Hangs
      <4> QED
        BY <4>2 DEF Sides, Near
    <3>2. T.parent[l] = z /\ T.parent[r] = z /\ l # x /\ r # x
      BY DEF Near
    <3>3. R.parent[n] = IF n \in {l, r} THEN y ELSE IF n = x THEN (IF q = z THEN y ELSE q) ELSE T.parent[n]
      BY <1>1, <1>4, <2>2
    <3>4. Q.parent[n] = IF n = x THEN q ELSE T.parent[n]
      BY <1>3
    <3> QED
      BY <2>2, <3>1, <3>2, <3>3, <3>4 DEF Swap
  <2> QED
    BY <2>1, <2>2
<1>11. ASSUME NEW n \in S \ {y}, NEW s \in Sides PROVE R.child[s][Swap(z, y, n)] = Swap(z, y, Q.child[s][n])
  <2>1. Q.child[s][n] = IF s = Side(T, y) /\ n = q THEN x ELSE T.child[s][n]
    BY <1>3
  <2>2. CASE n = z
    <3>1. R.child[s][y] = IF s = "left" THEN l ELSE IF q = z THEN x ELSE r
      BY <1>1, <1>2, <1>4 DEF Near
    <3>2. T.child["left"][z] = l /\ T.child["right"][z] = r /\ x # z /\ l # z /\ r # z /\ (q = z => Side(T, y) = "right")
      BY DEF Near
    <3> QED
      BY <2>1, <2>2, <3>1, <3>2 DEF Swap, Sides
  <2>3. CASE n # z
    <3>1. R.child[s][n] = IF n = q /\ s = "left" THEN x
                          ELSE IF p # NIL /\ n = p /\ s = Side(T, z) THEN y ELSE T.child[s][n]
      BY <1>1, <1>4, <2>3
    <3>2. n = q => Side(T, y) = "left"
      BY <2>3 DEF Near
    <3>3. T.child[s][n] = z => p # NIL /\ n = p /\ s = Side(T, z)
      BY <1>1, <1>2, SideOf, ChildFacts
    <3>4. x # z
      BY DEF Near
    <3> QED
      BY <1>5, <2>1, <2>3, <3>1, <3>2, <3>3, <3>4 DEF Swap
  <2> QED
    BY <2>2, <2>3
<1> QED
  BY <1>4, <1>6, <1>7, <1>8, <1>9, <1>10, <1>11 DEF Renamed

\* The tree stays in order when a node with two children goes.
LEMMA SpliceShape ==
  ASSUME NEW T, NEW S, NEW B, Shape(T, S, B), NEW z \in S, NEW y \in S, B["left"][y] = z,
         T.child["left"][z] # NIL, T.child["right"][z] # NIL, T.child["left"][y] = NIL,
         NEW x, T.child["right"][y] = x
  PROVE  LET R == Forget(Lifted(T, z, y), z)
             Q == Forget(Transplant(T, y, x), y)
         IN /\ Shape(R, S \ {z}, Swapped(S \ {y}, Narrowed(S, B, y), z, y))
            /\ Renamed(R, Q, S \ {y}, z, y) /\ R.parent[x] = Swap(z, y, Q.parent[x])
            /\ Shape(Q, S \ {y}, Narrowed(S, B, y)) /\ Removed(Q, T, y, x) /\ x # z /\ x # y /\ y # z
<1> DEFINE R == Forget(Lifted(T, z, y), z)
           Q == Forget(Transplant(T, y, x), y)
           C == Narrowed(S, B, y)
           l == T.child["left"][z]
           r == T.child["right"][z]
           p == T.parent[z]
           q == T.parent[y]
<1>1. "left" \in Sides /\ "right" \in Sides /\ Other("left") = "right" /\ T \in Trees /\ S \in SUBSET Nodes
  BY DEF Sides, Other, Shape
<1>2. Near(T, S, z, y, x, l, r, p, q)
  BY NearHolds
<1>3. Shape(Q, S \ {y}, C) /\ Removed(Q, T, y, x)
  BY <1>1, RemoveShape
<1> HIDE DEF l, r, p, q
<1>4. Spliced(R, T, z, y, x, l, r, p, q)
  BY <1>1, <1>2, SpliceFields
<1> HIDE DEF R, Q, C
<1>5. Renamed(R, Q, S \ {y}, z, y) /\ R.parent[x] = Swap(z, y, Q.parent[x])
  BY <1>2, <1>3, <1>4, SpliceRenames
<1>6. x # z /\ x # y /\ y # z /\ z < y /\ \A k \in S : ~(z < k /\ k < y)
  BY <1>2 DEF Near
<1>7. Shape(R, ((S \ {y}) \ {z}) \cup {y}, Swapped(S \ {y}, C, z, y))
  <2>1. z \in S \ {y} /\ y \in Nodes /\ y \notin S \ {y} /\ \A k \in S \ {y} : ~(z < k /\ k < y)
    BY <1>1, <1>6
  <2> HIDE DEF Shape
  <2> QED
    BY <1>3, <1>5, <1>6, <2>1, RenameShape
<1>8. ((S \ {y}) \ {z}) \cup {y} = S \ {z}
  BY <1>6
<1> QED
  BY <1>3, <1>5, <1>6, <1>7, <1>8 DEF R, Q, C

------------------------------------------------------------------------------------
\* Colours and black heights through a rotation.

\* The children after a rotation, one by one.
Rewoven(R, T, S, d, e, x, y, c) ==
    \A n \in S, s \in Sides :
        \/ n = x /\ s = e /\ R.child[s][n] = c
        \/ n = y /\ s = d /\ R.child[s][n] = x
        \/ n \notin {x, y} /\ R.child[s][n] = y /\ T.child[s][n] = x
        \/ ~(n = x /\ s = e) /\ ~(n = y /\ s = d) /\ R.child[s][n] = T.child[s][n] /\ T.child[s][n] \notin {x, y}

\* The parents after a rotation, and where it happened.
Reparented(R, T, S, x, y, c, p) ==
    /\ y \in S /\ x # y /\ c \notin {x, y} /\ T.parent[y] = x
    /\ R.parent[x] = y /\ R.parent[y] = p
    /\ \A n \in Node0 : n \notin {x, y} /\ ~(n = c /\ c # NIL) => R.parent[n] = T.parent[n]
    /\ R.color = T.color
    /\ R.root = IF x = T.root THEN y ELSE T.root

\* Painting before a rotation does not change which links the rotation moves.
LEMMA SameLinks ==
  ASSUME NEW R, NEW P, NEW T, NEW S, NEW d, NEW e, NEW x, NEW y, NEW c, NEW p, P.child = T.child, P.parent = T.parent,
         Rewoven(R, P, S, d, e, x, y, c), Reparented(R, P, S, x, y, c, p)
  PROVE  /\ Rewoven(R, T, S, d, e, x, y, c)
         /\ y \in S /\ x # y /\ c \notin {x, y} /\ R.parent[x] = y /\ R.parent[y] = p /\ T.parent[y] = x
         /\ \A n \in Node0 : n \notin {x, y} /\ ~(n = c /\ c # NIL) => R.parent[n] = T.parent[n]
         /\ R.color = P.color /\ R.root = IF x = P.root THEN y ELSE P.root
<1>1. Rewoven(R, T, S, d, e, x, y, c)
  BY DEF Rewoven
<1> QED
  BY <1>1 DEF Reparented

\* A rotation moves the links that Rewoven and Reparented name.
LEMMA RotateLinks ==
  ASSUME NEW T, NEW S, NEW B, Shape(T, S, B), NEW d \in Sides, NEW x \in S,
         NEW e, Other(d) = e, NEW y, T.child[e][x] = y, y # NIL,
         NEW c, T.child[d][y] = c, NEW p, T.parent[x] = p
  PROVE  Rewoven(Rotate(T, d, x), T, S, d, e, x, y, c) /\ Reparented(Rotate(T, d, x), T, S, x, y, c, p)
<1> DEFINE R == Rotate(T, d, x)
<1>1. /\ Rotated(R, T, d, e, x, y, c, p)
      /\ e \in Sides /\ e # d /\ Other(e) = d
      /\ y \in S /\ T.parent[y] = x
      /\ x # y /\ c # x /\ c # y /\ p # x /\ p # y
      /\ c = NIL \/ (c \in S /\ T.parent[c] = y)
      /\ p = NIL <=> x = T.root
      /\ p # NIL => p \in S /\ Side(T, x) \in Sides /\ T.child[Side(T, x)][p] = x
  BY RotateAt
<1> HIDE DEF R
<1>2. /\ R \in Trees /\ R.color = T.color
      /\ R.root = IF p = NIL THEN y ELSE T.root
      /\ \A n \in Node0 : R.parent[n] = IF n = x THEN y ELSE IF n = y THEN p
                                        ELSE IF n = c /\ c # NIL THEN x ELSE T.parent[n]
      /\ \A s \in Sides, n \in Node0 :
            R.child[s][n] = IF n = x /\ s = e THEN c ELSE IF n = y /\ s = d THEN x
                            ELSE IF p # NIL /\ n = p /\ s = Side(T, x) THEN y ELSE T.child[s][n]
  BY <1>1 DEF Rotated
<1>3. \A n \in S : n \in Node0 /\ n # NIL
  BY ShapeTypes
<1>4. \A n \in S, s \in Sides : T.child[s][n] = x => n = p /\ s = Side(T, x)
  BY <1>3, ChildFacts, SideOf
<1>5. ASSUME NEW n \in S, NEW s \in Sides, T.child[s][n] = y PROVE n = x /\ s = e
  <2>1. T.child[s][n] # NIL /\ T.child[e][x] # NIL /\ T.child[e][x] = y
    BY <1>5
  <2>2. T.parent[y] = n /\ Side(T, y) = s
    BY <1>5, <2>1, ChildFacts, SideOf
  <2>3. Side(T, y) = e
    BY <1>1, <2>1, SideOf
  <2> QED
    BY <1>1, <2>2, <2>3
<1>6. \A s \in Sides, n \in Node0 :
            R.child[s][n] = IF n = x /\ s = e THEN c ELSE IF n = y /\ s = d THEN x
                            ELSE IF p # NIL /\ n = p /\ s = Side(T, x) THEN y ELSE T.child[s][n]
  BY <1>2
<1>7. Rewoven(R, T, S, d, e, x, y, c)
  <2> SUFFICES ASSUME NEW n \in S, NEW s \in Sides
               PROVE  \/ n = x /\ s = e /\ R.child[s][n] = c
                      \/ n = y /\ s = d /\ R.child[s][n] = x
                      \/ n \notin {x, y} /\ R.child[s][n] = y /\ T.child[s][n] = x
                      \/ ~(n = x /\ s = e) /\ ~(n = y /\ s = d) /\ R.child[s][n] = T.child[s][n] /\ T.child[s][n] \notin {x, y}
    BY DEF Rewoven
  <2>1. n \in Node0 /\ n # NIL
    BY <1>3
  <2>2. CASE n = x /\ s = e
    BY <1>6, <2>1, <2>2
  <2>3. CASE n = y /\ s = d
    BY <1>1, <1>6, <2>1, <2>3
  <2>4. CASE n = p /\ s = Side(T, x)
    <3>1. n \notin {x, y}
      BY <1>1, <2>4
    <3> QED
      BY <1>1, <1>6, <2>1, <2>4, <3>1
  <2>5. CASE ~(n = x /\ s = e) /\ ~(n = y /\ s = d) /\ ~(n = p /\ s = Side(T, x))
    <3>1. R.child[s][n] = T.child[s][n]
      BY <1>6, <2>1, <2>5
    <3>2. T.child[s][n] \notin {x, y}
      BY <1>4, <1>5, <2>5
    <3> QED
      BY <2>5, <3>1, <3>2
  <2> QED
    BY <2>2, <2>3, <2>4, <2>5
<1>8. Reparented(R, T, S, x, y, c, p)
  BY <1>1, <1>2, <1>3 DEF Reparented
<1> QED
  BY <1>7, <1>8 DEF R

\* Rotating a red child above its black parent, which change colours, keeps the black heights.
LEMMA RedRotateColors ==
  ASSUME NEW T, NEW S, NEW B, Shape(T, S, B), NEW d \in Sides, NEW x \in S,
         NEW e, e \in Sides, e # d, NEW y, T.child[e][x] = y, T.color[x] = "black", T.color[y] = "red",
         NEW H, NEW q, NEW k, Balanced(T, S, H, q, k), ~(q = x /\ k = e), q # y,
         NEW E, NEW F, Reds(T, S, E, F), T.color[T.child[d][x]] = "black" \/ T.child[d][x] = E, y # F,
         RootBlack(T, E),
         NEW R, NEW c, T.child[d][y] = c, Rewoven(R, T, S, d, e, x, y, c), y \in S, x # y, c \notin {x, y},
         \A n \in Node0 : R.color[n] = IF n = x THEN "red" ELSE IF n = y THEN "black" ELSE T.color[n],
         R.root = IF x = T.root THEN y ELSE T.root
  PROVE  /\ Balanced(R, S, [H EXCEPT ![x] = H[y], ![y] = H[x]], q, k)
         /\ Reds(R, S, E, F)
         /\ RootBlack(R, E)
<1> DEFINE G == [H EXCEPT ![x] = H[y], ![y] = H[x]]
           Old(n, s) == ~(n = x /\ s = e) /\ ~(n = y /\ s = d) /\ R.child[s][n] = T.child[s][n] /\ T.child[s][n] \notin {x, y}
           Top(n, s) == n \notin {x, y} /\ R.child[s][n] = y /\ T.child[s][n] = x
<1>1. /\ \A n \in S : n \in Node0 /\ n # NIL
      /\ NIL \in Node0 /\ T.color[NIL] = "black"
  BY ShapeTypes, NodeTypes DEF Shape
<1>2. /\ R.color[x] = "red" /\ R.color[y] = "black"
      /\ \A n \in Node0 : n \notin {x, y} => R.color[n] = T.color[n]
  BY <1>1
<1>3. \A n \in S, s \in Sides : (n = x /\ s = e /\ R.child[s][n] = c) \/ (n = y /\ s = d /\ R.child[s][n] = x) \/ Top(n, s) \/ Old(n, s)
  BY DEF Rewoven
<1>4. /\ H \in [Node0 -> Nat] /\ H[NIL] = 0
      /\ \A n \in S, s \in Sides : H[n] = H[T.child[s][n]] + Extra(q, k, n, s) + Black(T, n)
  BY DEF Balanced
<1>5. \A n \in S, s \in Sides : T.child[s][n] \in Node0
  BY <1>1, TreeTypes DEF Shape
<1>6. /\ \A n \in Node0 : H[n] \in Nat
      /\ c \in Node0
  BY <1>4, <1>5
<1>7. \A n, s : Extra(q, k, n, s) \in Nat
  BY DEF Extra
<1>8. Black(T, x) = 1 /\ Black(T, y) = 0 /\ Black(R, x) = 0 /\ Black(R, y) = 1 /\ \A n \in S \ {x, y} : Black(R, n) = Black(T, n) /\ Black(T, n) \in Nat
  BY <1>1, <1>2 DEF Black
<1>9. H[x] = H[y] + 1 /\ H[y] = H[c] /\ Extra(q, k, x, e) = 0 /\ \A s \in Sides : Extra(q, k, y, s) = 0
  <2>1. Extra(q, k, x, e) = 0 /\ \A s \in Sides : Extra(q, k, y, s) = 0
    BY DEF Extra
  <2>2. H[x] = H[y] + Extra(q, k, x, e) + Black(T, x) /\ H[y] = H[c] + Extra(q, k, y, d) + Black(T, y)
    BY <1>4
  <2> QED
    BY <1>1, <1>6, <1>8, <2>1, <2>2
<1>10. /\ G \in [Node0 -> Nat] /\ G[NIL] = 0 /\ G[x] = H[y] /\ G[y] = H[x]
       /\ \A n \in Node0 \ {x, y} : G[n] = H[n]
  BY <1>1, <1>4
<1> HIDE DEF G, Old, Top
<1>11. ASSUME NEW n \in S, NEW s \in Sides PROVE G[n] = G[R.child[s][n]] + Extra(q, k, n, s) + Black(R, n)
  <2>1. H[n] = H[T.child[s][n]] + Extra(q, k, n, s) + Black(T, n) /\ H[n] \in Nat /\ H[T.child[s][n]] \in Nat /\ Extra(q, k, n, s) \in Nat
    BY <1>1, <1>4, <1>5, <1>6, <1>7
  <2>2. CASE n = x /\ s = e /\ R.child[s][n] = c
    <3>1. G[c] = H[c] /\ G[n] = H[y] /\ Extra(q, k, n, s) = 0 /\ Black(R, n) = 0
      BY <1>6, <1>8, <1>9, <1>10, <2>2
    <3> QED
      BY <1>6, <1>9, <2>2, <3>1
  <2>3. CASE n = y /\ s = d /\ R.child[s][n] = x
    <3>1. G[n] = H[x] /\ G[x] = H[y] /\ Extra(q, k, n, s) = 0 /\ Black(R, n) = 1
      BY <1>8, <1>9, <1>10, <2>3
    <3> QED
      BY <1>1, <1>6, <1>9, <2>3, <3>1
  <2>4. CASE Top(n, s)
    <3>1. G[n] = H[n] /\ Black(R, n) = Black(T, n) /\ G[R.child[s][n]] = H[T.child[s][n]]
      BY <1>1, <1>8, <1>10, <2>4 DEF Top
    <3> QED
      BY <2>1, <3>1
  <2>5. CASE Old(n, s)
    <3>1. G[R.child[s][n]] = H[T.child[s][n]]
      <4>1. R.child[s][n] = T.child[s][n] /\ T.child[s][n] \in Node0 \ {x, y}
        BY <1>5, <2>5 DEF Old
      <4> QED
        BY <1>10, <4>1
    <3>2. CASE n = x
      BY <1>1, <1>6, <1>8, <1>9, <1>10, <2>1, <3>1, <3>2
    <3>3. CASE n = y
      <4>1. G[n] = H[n] + 1 /\ Black(R, n) = 1 /\ Black(T, n) = 0
        BY <1>8, <1>9, <1>10, <3>3
      <4> QED
        BY <2>1, <3>1, <4>1
    <3>4. CASE n \notin {x, y}
      BY <1>1, <1>8, <1>10, <2>1, <3>1, <3>4
    <3> QED
      BY <3>2, <3>3, <3>4
  <2> QED
    BY <1>3, <2>2, <2>3, <2>4, <2>5
<1>12. Balanced(R, S, G, q, k)
  BY <1>10, <1>11 DEF Balanced
<1>13. Reds(R, S, E, F)
  <2> SUFFICES ASSUME NEW n \in S, NEW s \in Sides, R.color[n] = "red", R.color[R.child[s][n]] = "red"
               PROVE  R.child[s][n] = E \/ n = F
    BY DEF Reds
  <2>1. n # y
    BY <1>2
  <2>2. CASE n = x /\ s = e /\ R.child[s][n] = c
    <3>1. T.color[c] = "red"
      BY <1>2, <1>6, <2>2
    <3>2. c = E \/ y = F
      BY <3>1 DEF Reds
    <3> QED
      BY <2>2, <3>2
  <2>3. CASE Top(n, s)
    BY <1>2, <2>3 DEF Top
  <2>4. CASE Old(n, s)
    <3>1. T.color[T.child[s][n]] = "red"
      BY <1>2, <1>5, <2>4 DEF Old
    <3>2. CASE n = x
      <4>1. s = d
        BY <2>4, <3>2 DEF Sides, Old
      <4> QED
        BY <2>4, <3>1, <3>2, <4>1 DEF Old
    <3>3. CASE n # x
      <4>1. T.color[n] = "red"
        BY <1>1, <1>2, <2>1, <3>3
      <4>2. T.child[s][n] = E \/ n = F
        BY <3>1, <4>1 DEF Reds
      <4> QED
        BY <2>4, <4>2 DEF Old
    <3> QED
      BY <3>2, <3>3
  <2> QED
    BY <1>3, <2>1, <2>2, <2>3, <2>4
<1>14. RootBlack(R, E)
  <2>1. CASE x = T.root
    BY <1>2, <2>1 DEF RootBlack
  <2>2. CASE x # T.root
    <3>1. T.root \in Node0
      BY TreeTypes DEF Shape
    <3>2. T.root # y
      BY <1>1, ChildFacts
    <3> QED
      BY <1>2, <2>2, <3>1, <3>2 DEF RootBlack
  <2> QED
    BY <2>1, <2>2
<1> QED
  BY <1>12, <1>13, <1>14 DEF G

\* Two nodes of other colours, and a rotation.
LEMMA RedRotateShape ==
  ASSUME NEW T, NEW S, NEW B, Shape(T, S, B), NEW d \in Sides, NEW x \in S,
         NEW e, Other(d) = e, NEW y, T.child[e][x] = y, y # NIL,
         NEW R, Rotate(Paint(Paint(T, y, "black"), x, "red"), d, x) = R
  PROVE  /\ Shape(R, S, Turned(S, B, d, x, y))
         /\ \A n \in Node0 : R.color[n] = IF n = x THEN "red" ELSE IF n = y THEN "black" ELSE T.color[n]
         /\ R.root = IF x = T.root THEN y ELSE T.root
         /\ Rewoven(R, T, S, d, e, x, y, T.child[d][y])
         /\ y \in S /\ x # y /\ T.child[d][y] \notin {x, y} /\ e \in Sides /\ e # d
         /\ R.parent[x] = y /\ R.parent[y] = T.parent[x] /\ T.parent[y] = x
         /\ \A n \in Node0 : n \notin {x, y} /\ ~(n = T.child[d][y] /\ n # NIL) => R.parent[n] = T.parent[n]
<1> DEFINE Q == Paint(T, y, "black")
           P == Paint(Q, x, "red")
<1>1. /\ \A n \in S : n \in Node0 /\ n # NIL
      /\ e \in Sides /\ e # d /\ y \in S
  BY ShapeTypes, SidesAre, ChildFacts
<1>2. Shape(Q, S, B) /\ Painted(Q, T, y, "black")
  BY <1>1, PaintShape DEF Colors
<1> HIDE DEF Q
<1>3. Shape(P, S, B) /\ Painted(P, Q, x, "red")
  BY <1>1, <1>2, PaintShape DEF Colors
<1>4. R = Rotate(P, d, x)
  BY DEF P, Q
<1> HIDE DEF P
<1>5. /\ P.child = T.child /\ P.parent = T.parent /\ P.root = T.root
      /\ \A n \in Node0 : P.color[n] = IF n = x THEN "red" ELSE IF n = y THEN "black" ELSE T.color[n]
  BY <1>2, <1>3 DEF Painted
<1>6. Shape(R, S, Turned(S, B, d, x, y))
  BY <1>3, <1>4, <1>5, RotateShape
<1> DEFINE c == T.child[d][y]
           p == T.parent[x]
<1>7. Rewoven(R, P, S, d, e, x, y, c) /\ Reparented(R, P, S, x, y, c, p)
  BY <1>3, <1>4, <1>5, RotateLinks
<1> HIDE DEF c, p
<1>8. /\ Rewoven(R, T, S, d, e, x, y, c)
      /\ y \in S /\ x # y /\ c \notin {x, y} /\ R.parent[x] = y /\ R.parent[y] = p /\ T.parent[y] = x
      /\ \A n \in Node0 : n \notin {x, y} /\ ~(n = c /\ c # NIL) => R.parent[n] = T.parent[n]
      /\ R.color = P.color /\ R.root = IF x = P.root THEN y ELSE P.root
  BY <1>5, <1>7, SameLinks
<1>9. /\ \A n \in Node0 : R.color[n] = IF n = x THEN "red" ELSE IF n = y THEN "black" ELSE T.color[n]
      /\ R.root = IF x = T.root THEN y ELSE T.root
  BY <1>5, <1>8
<1> QED
  BY <1>1, <1>6, <1>8, <1>9 DEF c, p

------------------------------------------------------------------------------------
\* rb_insert_fixup.

\* A balanced tree's heights and children.
LEMMA Heights ==
  ASSUME NEW T, NEW S, NEW B, Shape(T, S, B), NEW H, NEW q, NEW k, Balanced(T, S, H, q, k)
  PROVE  /\ H \in [Node0 -> Nat] /\ H[NIL] = 0 /\ NIL \in Node0 /\ T.color[NIL] = "black"
         /\ \A n \in Node0 : H[n] \in Nat /\ Black(T, n) \in {0, 1}
         /\ \A n \in S : n \in Node0 /\ n # NIL
         /\ \A n \in S, s \in Sides : /\ H[n] = H[T.child[s][n]] + Extra(q, k, n, s) + Black(T, n)
                                      /\ T.child[s][n] \in Node0 /\ Extra(q, k, n, s) \in {0, 1}
                                      /\ T.child[s][n] # NIL => T.child[s][n] \in S /\ T.parent[T.child[s][n]] = n
         /\ T.root \in Node0
<1>1. H \in [Node0 -> Nat] /\ H[NIL] = 0 /\ \A n \in S, s \in Sides : H[n] = H[T.child[s][n]] + Extra(q, k, n, s) + Black(T, n)
  BY DEF Balanced
<1>2. \A n \in S : n \in Node0 /\ n # NIL
  BY ShapeTypes
<1>3. \A n \in S, s \in Sides : T.child[s][n] \in Node0
  BY <1>2, TreeTypes DEF Shape
<1>4. \A n \in S, s \in Sides : T.child[s][n] # NIL => T.child[s][n] \in S /\ T.parent[T.child[s][n]] = n
  BY ChildFacts
<1>5. T.root \in Node0 /\ T.color[NIL] = "black" /\ NIL \in Node0
  BY TreeTypes, NodeTypes DEF Shape
<1>6. (\A n : Black(T, n) \in {0, 1}) /\ \A n, s : Extra(q, k, n, s) \in {0, 1}
  BY DEF Black, Extra
<1> QED
  BY <1>1, <1>2, <1>3, <1>4, <1>5, <1>6

\* rb_tree_insert: the new leaf is red.
LEMMA LeafColors ==
  ASSUME NEW T, NEW S, NEW B, Shape(T, S, B), NEW H, Fine(T, S, H), NEW z \in Nodes, z \notin S, NEW y,
         \/ y = NIL /\ T.root = NIL
         \/ y \in S /\ T.child[Toward(z, y)][y] = NIL,
         NEW R, LeafPut(R, T, z, y)
  PROVE  Inserting(R, S \cup {z}, [H EXCEPT ![z] = 0], z)
<1> DEFINE G == [H EXCEPT ![z] = 0]
           U == S \cup {z}
           none == NIL
<1>0. Balanced(T, S, H, none, "left") /\ Reds(T, S, NIL, NIL) /\ T.color[T.root] = "black"
  BY DEF Fine
<1> HIDE DEF none
<1>1. /\ H \in [Node0 -> Nat] /\ H[NIL] = 0 /\ NIL \in Node0 /\ T.color[NIL] = "black"
      /\ \A n \in Node0 : H[n] \in Nat /\ Black(T, n) \in {0, 1}
      /\ \A n \in S : n \in Node0 /\ n # NIL
      /\ \A n \in S, s \in Sides : /\ H[n] = H[T.child[s][n]] + Extra(none, "left", n, s) + Black(T, n)
                                   /\ T.child[s][n] \in Node0
                                   /\ T.child[s][n] # NIL => T.child[s][n] \in S
      /\ T.root \in Node0
  BY <1>0, Heights
<1>2. z \in Node0 /\ z # NIL
  BY NodeTypes
<1>3. /\ R.root = IF y = NIL THEN z ELSE T.root
      /\ \A n \in Node0 : R.color[n] = IF n = z THEN "red" ELSE T.color[n]
      /\ \A s \in Sides, n \in Node0 :
          R.child[s][n] = IF n = z THEN NIL ELSE IF y # NIL /\ n = y /\ s = Toward(z, y) THEN z ELSE T.child[s][n]
  BY DEF LeafPut
<1>4. G \in [Node0 -> Nat] /\ G[NIL] = 0 /\ G[z] = 0 /\ \A n \in Node0 \ {z} : G[n] = H[n]
  BY <1>1, <1>2
<1> HIDE DEF G
<1>5. \A n \in S, s \in Sides : \/ R.child[s][n] = z /\ T.child[s][n] = NIL
                                \/ R.child[s][n] = T.child[s][n] /\ T.child[s][n] # z
  BY <1>1, <1>2, <1>3
<1>6. ASSUME NEW n \in U, NEW s \in Sides PROVE G[n] = G[R.child[s][n]] + Extra(none, "left", n, s) + Black(R, n)
  <2>1. CASE n = z
    <3>1. R.child[s][n] = NIL /\ Black(R, n) = 0 /\ Extra(none, "left", n, s) = 0
      BY <1>2, <1>3, <2>1 DEF Black, Extra, none
    <3> QED
      BY <1>4, <2>1, <3>1
  <2>2. CASE n # z
    <3>1. n \in S /\ Black(R, n) = Black(T, n) /\ G[n] = H[n]
      BY <1>1, <1>3, <1>4, <2>2 DEF Black
    <3>2. G[R.child[s][n]] = H[T.child[s][n]]
      BY <1>1, <1>4, <1>5, <3>1
    <3> QED
      BY <1>1, <3>1, <3>2
  <2> QED
    BY <2>1, <2>2
<1>7. Balanced(R, U, G, NIL, "left")
  BY <1>4, <1>6 DEF Balanced, none
<1>8. Reds(R, U, z, NIL)
  <2> SUFFICES ASSUME NEW n \in U, NEW s \in Sides, R.color[n] = "red", R.color[R.child[s][n]] = "red", R.child[s][n] # z
               PROVE  FALSE
    BY DEF Reds
  <2>1. CASE n = z
    BY <1>1, <1>2, <1>3, <2>1
  <2>2. CASE n # z
    <3>1. n \in S /\ T.color[n] = "red" /\ T.color[T.child[s][n]] = "red"
      BY <1>1, <1>3, <1>5, <2>2
    <3>2. T.child[s][n] = NIL \/ n = NIL
      BY <1>0, <3>1 DEF Reds
    <3> QED
      BY <1>1, <3>1, <3>2
  <2> QED
    BY <2>1, <2>2
<1>9. RootBlack(R, z)
  BY <1>0, <1>1, <1>3 DEF RootBlack
<1> QED
  BY <1>2, <1>3, <1>7, <1>8, <1>9 DEF Inserting, G

\* The nodes around a red parent: the grandparent is black.
LEMMA RedParentAt ==
  ASSUME NEW T, NEW S, NEW B, Shape(T, S, B), NEW H, NEW z, Inserting(T, S, H, z),
         NEW p, T.parent[z] = p, T.color[p] = "red", NEW g, T.parent[p] = g, NEW d, Side(T, p) = d, NEW e, Other(d) = e
  PROVE  /\ z \in S /\ p \in S /\ g \in S /\ d \in Sides /\ e \in Sides /\ d # e /\ Other(e) = d
         /\ T.child[d][g] = p /\ T.color[g] = "black" /\ T.color[z] = "red" /\ z # p /\ z # g /\ p # g
         /\ z # T.root /\ p # T.root /\ T.color[T.root] = "black"
         /\ Sibling(T, p) = T.child[e][g] /\ T.child[e][g] # p
         /\ Side(T, z) \in Sides /\ T.child[Side(T, z)][p] = z
<1>1. z \in S /\ T.color[z] = "red" /\ Reds(T, S, z, NIL) /\ RootBlack(T, z)
  BY DEF Inserting
<1>2. p # NIL
  BY DEF Shape
<1>3. z # T.root
  BY <1>1, <1>2, RootIs
<1>4. p \in S /\ Side(T, z) \in Sides /\ T.child[Side(T, z)][p] = z
  BY <1>1, <1>3, HangsAt
<1>5. z # p /\ z # NIL
  BY <1>1, <1>4, ChildFacts, ShapeTypes
<1>6. p # T.root /\ T.color[T.root] = "black"
  BY <1>1, <1>3, <1>5 DEF RootBlack
<1>7. g \in S /\ d \in Sides /\ T.child[d][g] = p
  BY <1>4, <1>6, HangsAt
<1>8. e \in Sides /\ d # e /\ Other(e) = d
  BY <1>7, SidesAre
<1>9. p # g
  BY <1>2, <1>7, ChildFacts
<1>10. T.color[g] = "black"
  <2>1. T.color[g] \in Colors
    BY <1>7, ShapeTypes, TreeTypes
  <2>2. ~(T.color[g] = "red")
    <3>1. T.color[g] = "red" /\ T.color[T.child[d][g]] = "red" => T.child[d][g] = z \/ g = NIL
      BY <1>1, <1>7 DEF Reds
    <3>2. g # NIL
      BY <1>7, ShapeTypes
    <3> QED
      BY <1>5, <1>7, <3>1, <3>2
  <2> QED
    BY <2>1, <2>2 DEF Colors
<1>11. z # g
  BY <1>1, <1>10
<1>12. Sibling(T, p) = T.child[e][g] /\ T.child[e][g] # p
  <2>1. T.child[Other(d)][g] # T.child[d][g]
    BY <1>2, <1>7, SideOf
  <2> QED
    BY <1>7, <2>1 DEF Sibling
<1> QED
  BY <1>1, <1>3, <1>4, <1>5, <1>6, <1>7, <1>8, <1>9, <1>10, <1>11, <1>12

\* rb_insert_fixup, red uncle.
LEMMA RaiseRedKeeps ==
  ASSUME NEW T, NEW S, NEW B, Shape(T, S, B), NEW H, NEW z, Inserting(T, S, H, z),
         NEW p, T.parent[z] = p, T.color[p] = "red", NEW g, T.parent[p] = g, NEW u, Sibling(T, p) = u, T.color[u] = "red",
         NEW R, Paint(Paint(Paint(T, p, "black"), u, "black"), g, "red") = R
  PROVE  Shape(R, S, B) /\ Inserting(R, S, [H EXCEPT ![p] = H[p] + 1, ![u] = H[u] + 1], g)
<1> DEFINE d == Side(T, p)
           e == Other(d)
           G == [H EXCEPT ![p] = H[p] + 1, ![u] = H[u] + 1]
           none == NIL
<1>1. /\ z \in S /\ p \in S /\ g \in S /\ d \in Sides /\ e \in Sides /\ d # e
      /\ T.child[d][g] = p /\ T.color[g] = "black" /\ T.color[z] = "red" /\ z # p /\ z # g /\ p # g
      /\ z # T.root /\ p # T.root /\ T.color[T.root] = "black"
      /\ T.child[e][g] = u /\ u # p
  BY RedParentAt
<1> HIDE DEF d, e
<1>2. Balanced(T, S, H, none, "left") /\ Reds(T, S, z, NIL)
  BY DEF Inserting
<1> HIDE DEF none
<1>3. /\ H \in [Node0 -> Nat] /\ H[NIL] = 0 /\ NIL \in Node0 /\ T.color[NIL] = "black"
      /\ \A n \in Node0 : H[n] \in Nat /\ Black(T, n) \in {0, 1}
      /\ \A n \in S : n \in Node0 /\ n # NIL
      /\ \A n \in S, s \in Sides : /\ H[n] = H[T.child[s][n]] + Extra(none, "left", n, s) + Black(T, n)
                                   /\ T.child[s][n] \in Node0
                                   /\ T.child[s][n] # NIL => T.child[s][n] \in S /\ T.parent[T.child[s][n]] = n
      /\ T.root \in Node0
  BY <1>2, Heights
<1>4. u \in S /\ T.parent[u] = g /\ u # g /\ u # NIL /\ u # T.root
  BY <1>1, <1>3, ChildFacts
<1>5. /\ Shape(R, S, B) /\ R.child = T.child /\ R.parent = T.parent /\ R.root = T.root
      /\ \A n \in Node0 : R.color[n] = IF n = g THEN "red" ELSE IF n = u THEN "black" ELSE IF n = p THEN "black" ELSE T.color[n]
  <2>1. "black" \in Colors /\ "red" \in Colors
    BY DEF Colors
  <2>2. p \in Node0 /\ u \in Node0 /\ g \in Node0 /\ g # NIL
    BY <1>1, <1>3, <1>4
  <2> DEFINE P == Paint(T, p, "black")
             Q == Paint(P, u, "black")
  <2>3. Shape(P, S, B) /\ Painted(P, T, p, "black")
    BY <2>1, <2>2, PaintShape
  <2> HIDE DEF P
  <2>4. Shape(Q, S, B) /\ Painted(Q, P, u, "black")
    BY <2>1, <2>2, <2>3, PaintShape
  <2>5. R = Paint(Q, g, "red")
    BY DEF P, Q
  <2> HIDE DEF Q
  <2>6. Shape(R, S, B) /\ Painted(R, Q, g, "red")
    BY <2>1, <2>2, <2>4, <2>5, PaintShape
  <2> QED
    BY <2>3, <2>4, <2>6 DEF Painted
<1>6. /\ G \in [Node0 -> Nat] /\ G[NIL] = 0 /\ G[p] = H[p] + 1 /\ G[u] = H[u] + 1
      /\ \A n \in Node0 \ {p, u} : G[n] = H[n]
  BY <1>1, <1>3, <1>4
<1> HIDE DEF G
<1>7. \A n \in S, s \in Sides : Extra(none, "left", n, s) = 0
  BY <1>3 DEF Extra, none
<1>8. ASSUME NEW n \in S, NEW s \in Sides PROVE G[n] = G[R.child[s][n]] + Extra(none, "left", n, s) + Black(R, n)
  <2> DEFINE c == T.child[s][n]
  <2>1. H[n] = H[c] + Black(T, n) /\ H[n] \in Nat /\ H[c] \in Nat /\ Extra(none, "left", n, s) = 0 /\ R.child[s][n] = c /\ c \in Node0
    BY <1>3, <1>5, <1>7
  <2>2. c # NIL => T.parent[c] = n
    BY <1>3
  <2> HIDE DEF c
  <2>3. CASE n = p \/ n = u
    <3>1. c \notin {p, u}
      BY <1>1, <1>3, <1>4, <2>2, <2>3
    <3>2. G[n] = H[n] + 1 /\ Black(T, n) = 0 /\ Black(R, n) = 1 /\ G[c] = H[c]
      BY <1>1, <1>3, <1>4, <1>5, <1>6, <2>1, <2>3, <3>1 DEF Black
    <3> QED
      BY <2>1, <3>2
  <2>4. CASE n = g
    <3>1. c \in {p, u}
      BY <1>1, <2>4 DEF c, Sides
    <3>2. G[n] = H[n] /\ Black(T, n) = 1 /\ Black(R, n) = 0 /\ G[c] = H[c] + 1
      BY <1>1, <1>3, <1>4, <1>5, <1>6, <2>4, <3>1 DEF Black
    <3> QED
      BY <2>1, <3>2
  <2>5. CASE n \notin {p, u, g}
    <3>1. c \notin {p, u}
      BY <1>3, <1>1, <1>4, <2>2, <2>5
    <3>2. G[n] = H[n] /\ Black(T, n) = Black(R, n) /\ G[c] = H[c]
      BY <1>3, <1>5, <1>6, <2>1, <2>5, <3>1 DEF Black
    <3> QED
      BY <2>1, <3>2
  <2> QED
    BY <2>3, <2>4, <2>5
<1>9. Balanced(R, S, G, NIL, "left")
  BY <1>6, <1>8 DEF Balanced, none
<1>10. Reds(R, S, g, NIL)
  <2> SUFFICES ASSUME NEW n \in S, NEW s \in Sides, R.color[n] = "red", R.color[R.child[s][n]] = "red", R.child[s][n] # g
               PROVE  FALSE
    BY DEF Reds
  <2> DEFINE c == T.child[s][n]
  <2>1. R.child[s][n] = c /\ c \in Node0 /\ (c # NIL => T.parent[c] = n) /\ n \in Node0
    BY <1>3, <1>5
  <2>2. c \notin {p, u, g} /\ T.color[c] = "red" /\ n \notin {p, u}
    BY <1>1, <1>3, <1>4, <1>5, <2>1
  <2>3. n # g
    BY <1>1, <2>2 DEF Sides
  <2>4. T.color[n] = "red"
    BY <1>5, <2>1, <2>2, <2>3
  <2>5. c = z
    BY <1>2, <1>3, <2>2, <2>4 DEF Reds
  <2> QED
    BY <1>3, <2>1, <2>2, <2>5
<1>11. RootBlack(R, g) /\ R.color[g] = "red"
  BY <1>1, <1>3, <1>4, <1>5 DEF RootBlack
<1> QED
  BY <1>1, <1>5, <1>9, <1>10, <1>11 DEF Inserting, G

\* rb_insert_fixup, black uncle and an inner node.
LEMMA TurnOuterKeeps ==
  ASSUME NEW T, NEW S, NEW B, Shape(T, S, B), NEW H, NEW z, Inserting(T, S, H, z),
         NEW p, T.parent[z] = p, T.color[p] = "red", NEW d, Side(T, p) = d, T.child[Other(d)][p] = z,
         NEW R, Rotate(T, d, p) = R
  PROVE  Shape(R, S, Turned(S, B, d, p, z)) /\ Inserting(R, S, H, p)
<1> DEFINE e == Other(d)
           g == T.parent[p]
           c == T.child[d][z]
           none == NIL
<1>1. /\ z \in S /\ p \in S /\ g \in S /\ d \in Sides /\ e \in Sides /\ d # e
      /\ T.child[d][g] = p /\ T.color[g] = "black" /\ T.color[z] = "red" /\ z # p /\ z # g /\ p # g
      /\ z # T.root /\ p # T.root /\ T.color[T.root] = "black" /\ T.child[e][p] = z
  BY RedParentAt
<1>2. Balanced(T, S, H, none, "left") /\ Reds(T, S, z, NIL)
  BY DEF Inserting
<1> HIDE DEF none
<1>3. /\ H \in [Node0 -> Nat] /\ H[NIL] = 0 /\ NIL \in Node0 /\ T.color[NIL] = "black"
      /\ \A n \in Node0 : H[n] \in Nat /\ Black(T, n) \in {0, 1}
      /\ \A n \in S : n \in Node0 /\ n # NIL
      /\ \A n \in S, s \in Sides : /\ H[n] = H[T.child[s][n]] + Extra(none, "left", n, s) + Black(T, n)
                                   /\ T.child[s][n] \in Node0
                                   /\ T.child[s][n] # NIL => T.child[s][n] \in S /\ T.parent[T.child[s][n]] = n
      /\ T.root \in Node0
  BY <1>2, Heights
<1>4. Shape(R, S, Turned(S, B, d, p, z))
  BY <1>1, <1>3, RotateShape
<1>5. Rewoven(R, T, S, d, e, p, z, c) /\ Reparented(R, T, S, p, z, c, g)
  BY <1>1, <1>3, RotateLinks
<1> HIDE DEF c, g
<1>6. R.color = T.color /\ R.root = T.root
  BY <1>1, <1>5 DEF Reparented
<1>7. \A n \in S, s \in Sides :
        \/ n = p /\ s = e /\ R.child[s][n] = c
        \/ n = z /\ s = d /\ R.child[s][n] = p
        \/ n \notin {p, z} /\ R.child[s][n] = z /\ T.child[s][n] = p
        \/ ~(n = p /\ s = e) /\ ~(n = z /\ s = d) /\ R.child[s][n] = T.child[s][n] /\ T.child[s][n] \notin {p, z}
  BY <1>5 DEF Rewoven
<1>8. /\ \A n \in S, s \in Sides : Extra(none, "left", n, s) = 0
      /\ \A n : Black(R, n) = Black(T, n)
  BY <1>3, <1>6 DEF Extra, none, Black
<1>9. H[p] = H[z] /\ H[z] = H[c] /\ H[c] \in Nat /\ Black(T, p) = 0 /\ Black(T, z) = 0
  <2>1. Black(T, p) = 0 /\ Black(T, z) = 0
    BY <1>1 DEF Black
  <2>2. H[p] = H[T.child[e][p]] + Extra(none, "left", p, e) + Black(T, p)
    BY <1>1, <1>3
  <2>3. H[z] = H[c] + Extra(none, "left", z, d) + Black(T, z) /\ c \in Node0
    BY <1>1, <1>3 DEF c
  <2> QED
    BY <1>1, <1>3, <1>8, <2>1, <2>2, <2>3
<1>10. ASSUME NEW n \in S, NEW s \in Sides PROVE H[n] = H[R.child[s][n]] + Extra(none, "left", n, s) + Black(R, n)
  <2>1. H[n] = H[T.child[s][n]] + Extra(none, "left", n, s) + Black(T, n) /\ Black(R, n) = Black(T, n)
    BY <1>3, <1>8
  <2>2. CASE n = p /\ s = e /\ R.child[s][n] = c
    BY <1>8, <1>9, <2>2
  <2>3. CASE n = z /\ s = d /\ R.child[s][n] = p
    BY <1>8, <1>9, <2>3
  <2>4. CASE R.child[s][n] = z /\ T.child[s][n] = p
    BY <1>9, <2>1, <2>4
  <2>5. CASE R.child[s][n] = T.child[s][n]
    BY <2>1, <2>5
  <2> QED
    BY <1>7, <2>2, <2>3, <2>4, <2>5
<1>11. Balanced(R, S, H, NIL, "left")
  BY <1>3, <1>10 DEF Balanced, none
<1>12. \A n \in S, s \in Sides : T.color[n] = "red" /\ T.color[T.child[s][n]] = "red" => T.child[s][n] = z
  BY <1>2, <1>3 DEF Reds
<1>13. Reds(R, S, p, NIL)
  <2> SUFFICES ASSUME NEW n \in S, NEW s \in Sides, T.color[n] = "red", T.color[R.child[s][n]] = "red", R.child[s][n] # p
               PROVE  FALSE
    BY <1>6 DEF Reds
  <2>1. CASE n = p /\ s = e /\ R.child[s][n] = c
    <3>1. T.child[d][z] = c
      BY DEF c
    <3>2. c # z
      BY <1>5 DEF Reparented
    <3> QED
      BY <1>1, <1>12, <2>1, <3>1, <3>2
  <2>2. CASE R.child[s][n] = z /\ T.child[s][n] = p
    BY <1>1, <1>12, <2>2
  <2>3. CASE R.child[s][n] = T.child[s][n] /\ T.child[s][n] \notin {p, z}
    BY <1>12, <2>3
  <2> QED
    BY <1>7, <2>1, <2>2, <2>3
<1>14. RootBlack(R, p)
  BY <1>1, <1>6 DEF RootBlack
<1> QED
  BY <1>1, <1>4, <1>6, <1>11, <1>13, <1>14 DEF Inserting

\* z is the outer red child of the red p, whose sibling below g is black.
OuterRed(T, z, p, g, d, e) ==
    /\ T.parent[z] = p /\ T.color[p] = "red" /\ T.parent[p] = g /\ Side(T, p) = d /\ Other(d) = e
    /\ T.child[d][p] = z /\ T.color[Sibling(T, p)] = "black"

\* rb_insert_fixup, black uncle and an outer node.
LEMMA RotateRedKeeps ==
  ASSUME NEW T, NEW S, NEW B, Shape(T, S, B), NEW H, NEW z, Inserting(T, S, H, z),
         NEW p, NEW g, NEW d, NEW e, OuterRed(T, z, p, g, d, e),
         NEW R, Rotate(Paint(Paint(T, p, "black"), g, "red"), e, g) = R
  PROVE  Shape(R, S, Turned(S, B, e, g, p)) /\ Inserting(R, S, [H EXCEPT ![g] = H[p], ![p] = H[g]], z)
<1>0. /\ T.parent[z] = p /\ T.color[p] = "red" /\ T.parent[p] = g /\ Side(T, p) = d /\ Other(d) = e
      /\ T.child[d][p] = z /\ T.color[Sibling(T, p)] = "black"
  BY DEF OuterRed
<1>1. /\ z \in S /\ p \in S /\ g \in S /\ d \in Sides /\ e \in Sides /\ d # e /\ Other(e) = d
      /\ T.child[d][g] = p /\ T.color[g] = "black" /\ T.color[z] = "red" /\ z # p /\ z # g /\ p # g
      /\ z # T.root /\ p # T.root /\ T.color[T.root] = "black"
      /\ Sibling(T, p) = T.child[e][g]
  BY <1>0, RedParentAt
<1>2. Balanced(T, S, H, NIL, "left") /\ Reds(T, S, z, NIL) /\ RootBlack(T, z)
  BY DEF Inserting
<1>3. g # NIL /\ p # NIL /\ z \in Node0
  BY <1>1, ShapeTypes
<1>4. /\ Shape(R, S, Turned(S, B, e, g, p))
      /\ \A n \in Node0 : R.color[n] = IF n = g THEN "red" ELSE IF n = p THEN "black" ELSE T.color[n]
      /\ R.root = IF g = T.root THEN p ELSE T.root
      /\ Rewoven(R, T, S, e, d, g, p, T.child[e][p])
      /\ p \in S /\ g # p /\ T.child[e][p] \notin {g, p} /\ d \in Sides /\ d # e
  BY <1>1, <1>0, <1>3, RedRotateShape
<1>5. /\ Balanced(R, S, [H EXCEPT ![g] = H[p], ![p] = H[g]], NIL, "left")
      /\ Reds(R, S, z, NIL)
      /\ RootBlack(R, z)
  BY <1>0, <1>1, <1>2, <1>3, <1>4, RedRotateColors
<1>6. R.color[z] = "red"
  BY <1>1, <1>3, <1>4
<1> QED
  BY <1>1, <1>4, <1>5, <1>6 DEF Inserting

\* rb_insert_fixup ends.
LEMMA InsertDoneKeeps ==
  ASSUME NEW T, NEW S, NEW B, Shape(T, S, B), NEW H, NEW z, Inserting(T, S, H, z),
         T.color[T.parent[z]] # "red", NEW R, Paint(T, T.root, "black") = R
  PROVE  Shape(R, S, B) /\ \E G \in [Node0 -> Nat] : Fine(R, S, G)
<1> DEFINE t == T.root
           none == NIL
           G == [H EXCEPT ![t] = H[t] + 1 - Black(T, t)]
<1>1. z \in S /\ T.color[z] = "red" /\ Balanced(T, S, H, none, "left") /\ Reds(T, S, z, NIL) /\ RootBlack(T, z)
  BY DEF Inserting
<1> HIDE DEF none
<1>2. /\ H \in [Node0 -> Nat] /\ H[NIL] = 0 /\ NIL \in Node0 /\ T.color[NIL] = "black"
      /\ \A n \in Node0 : H[n] \in Nat /\ Black(T, n) \in {0, 1}
      /\ \A n \in S : n \in Node0 /\ n # NIL
      /\ \A n \in S, s \in Sides : /\ H[n] = H[T.child[s][n]] + Extra(none, "left", n, s) + Black(T, n)
                                   /\ T.child[s][n] \in Node0
                                   /\ T.child[s][n] # NIL => T.child[s][n] \in S /\ T.parent[T.child[s][n]] = n
      /\ T.root \in Node0
  BY <1>1, Heights
<1>3. t \in S
  BY <1>1 DEF Shape, Rooted
<1>4. \A n \in S, s \in Sides : T.child[s][n] # t
  BY <1>2, <1>3, ChildFacts
<1>5. Shape(R, S, B) /\ Painted(R, T, t, "black")
  BY <1>2, PaintShape DEF Colors
<1> HIDE DEF t
<1>6. R.child = T.child /\ R.root = t /\ \A n \in Node0 : R.color[n] = IF n = t THEN "black" ELSE T.color[n]
  BY <1>5 DEF Painted, t
<1>7. G \in [Node0 -> Nat] /\ G[NIL] = 0 /\ G[t] = H[t] + 1 - Black(T, t) /\ \A n \in Node0 \ {t} : G[n] = H[n]
  BY <1>2, <1>3
<1> HIDE DEF G
<1>8. ASSUME NEW n \in S, NEW s \in Sides PROVE G[n] = G[R.child[s][n]] + Extra(none, "left", n, s) + Black(R, n)
  <2>1. G[R.child[s][n]] = H[T.child[s][n]] /\ H[T.child[s][n]] \in Nat /\ Extra(none, "left", n, s) = 0
    BY <1>2, <1>4, <1>6, <1>7 DEF Extra, none
  <2>2. H[n] = H[T.child[s][n]] + Extra(none, "left", n, s) + Black(T, n) /\ H[n] \in Nat /\ Black(T, n) \in {0, 1}
    BY <1>2
  <2>3. CASE n = t
    <3>1. Black(R, n) = 1
      BY <1>2, <1>6, <2>3 DEF Black
    <3> QED
      BY <1>7, <2>1, <2>2, <2>3, <3>1
  <2>4. CASE n # t
    <3>1. Black(R, n) = Black(T, n) /\ G[n] = H[n]
      BY <1>2, <1>6, <1>7, <2>4 DEF Black
    <3> QED
      BY <2>1, <2>2, <3>1
  <2> QED
    BY <2>3, <2>4
<1>9. Balanced(R, S, G, NIL, "left")
  BY <1>7, <1>8 DEF Balanced, none
<1>10. Reds(R, S, NIL, NIL)
  <2> SUFFICES ASSUME NEW n \in S, NEW s \in Sides, R.color[n] = "red", R.color[R.child[s][n]] = "red"
               PROVE  FALSE
    BY DEF Reds
  <2>1. T.color[n] = "red" /\ T.color[T.child[s][n]] = "red"
    BY <1>2, <1>4, <1>6
  <2>2. T.child[s][n] = z
    BY <1>1, <1>2, <2>1 DEF Reds
  <2> QED
    BY <1>1, <1>2, <2>1, <2>2
<1>11. R.color[R.root] = "black"
  BY <1>2, <1>3, <1>6
<1> QED
  BY <1>5, <1>7, <1>9, <1>10, <1>11 DEF Fine

------------------------------------------------------------------------------------
\* rb_tree_delete.

\* rb_tree_delete of a node with at most one child: a black one leaves one black too few.
LEMMA RemoveColors ==
  ASSUME NEW T, NEW S, NEW B, Shape(T, S, B), NEW H, Fine(T, S, H), NEW z \in S, NEW a \in Sides, T.child[a][z] = NIL,
         NEW x, T.child[Other(a)][z] = x, NEW R, Removed(R, T, z, x)
  PROVE  /\ T.color[z] = "red" => Fine(R, S \ {z}, H)
         /\ T.color[z] = "black" => Deleting(R, S \ {z}, H, x)
<1> DEFINE U == S \ {z}
           p == T.parent[z]
           f == Side(T, z)
           none == NIL
<1>1. Balanced(T, S, H, none, "left") /\ Reds(T, S, NIL, NIL) /\ T.color[T.root] = "black"
  BY DEF Fine
<1> HIDE DEF none
<1>2. /\ H \in [Node0 -> Nat] /\ H[NIL] = 0 /\ NIL \in Node0 /\ T.color[NIL] = "black"
      /\ \A n \in Node0 : H[n] \in Nat /\ Black(T, n) \in {0, 1}
      /\ \A n \in S : n \in Node0 /\ n # NIL
      /\ \A n \in S, s \in Sides : /\ H[n] = H[T.child[s][n]] + Extra(none, "left", n, s) + Black(T, n)
                                   /\ T.child[s][n] \in Node0
                                   /\ T.child[s][n] # NIL => T.child[s][n] \in S /\ T.parent[T.child[s][n]] = n
      /\ T.root \in Node0
  BY <1>1, Heights
<1>3. Other(a) \in Sides /\ \A n \in S, s \in Sides : Extra(none, "left", n, s) = 0 /\ Extra(NIL, "left", n, s) = 0
  BY <1>2, SidesAre DEF Extra, none
<1>4. x \in Node0 /\ H[z] = H[x] + Black(T, z) /\ x # z /\ (x = NIL \/ x \in U)
  <2>1. x \in Node0 /\ H[z] = H[x] + Extra(none, "left", z, Other(a)) + Black(T, z)
    BY <1>2, <1>3
  <2>2. x # z /\ (x = NIL \/ x \in S)
    BY <1>2, <1>3, ChildFacts
  <2> QED
    BY <1>2, <1>3, <2>1, <2>2
<1>5. /\ R.root = IF p = NIL THEN x ELSE T.root
      /\ \A n \in Node0 : /\ R.parent[n] = IF n = z THEN NIL ELSE IF n = x THEN p ELSE T.parent[n]
                          /\ R.color[n] = IF n = z THEN "black" ELSE T.color[n]
      /\ \A s \in Sides, n \in Node0 :
          R.child[s][n] = IF n = z THEN NIL ELSE IF p # NIL /\ s = f /\ n = p THEN x ELSE T.child[s][n]
  BY DEF Removed
<1>6. /\ p = NIL <=> z = T.root
      /\ p # NIL => p \in S /\ f \in Sides /\ T.child[f][p] = z /\ p # z
  <2>1. p = NIL <=> z = T.root
    BY RootIs
  <2>2. p # NIL => p \in S /\ f \in Sides /\ T.child[f][p] = z
    BY <2>1, HangsAt
  <2> QED
    BY <1>2, <2>1, <2>2, ChildFacts
<1> HIDE DEF p, f, U
<1>7. \A n : n \in U <=> n \in S /\ n # z
  BY DEF U
<1>8. \A n \in U : Black(R, n) = Black(T, n) /\ n \in Node0 /\ n # NIL /\ R.color[n] = T.color[n] /\ n \in S
  BY <1>2, <1>5, <1>7 DEF Black
<1>9. \A n \in U, s \in Sides : \/ p # NIL /\ s = f /\ n = p /\ R.child[s][n] = x
                                \/ ~(p # NIL /\ s = f /\ n = p) /\ R.child[s][n] = T.child[s][n] /\ T.child[s][n] # z
  <2>1. \A n \in S, s \in Sides : T.child[s][n] = z => n = p /\ s = f /\ p # NIL
    BY <1>2, SideOf DEF p, f
  <2> QED
    BY <1>5, <1>7, <1>8, <2>1
<1>10. \A n \in S, s \in Sides : ~(T.color[n] = "red" /\ T.color[T.child[s][n]] = "red")
  BY <1>1, <1>2 DEF Reds
<1>11. \A n \in U, s \in Sides : R.child[s][n] # x => ~(R.color[n] = "red" /\ R.color[R.child[s][n]] = "red")
  <2> SUFFICES ASSUME NEW n \in U, NEW s \in Sides, R.child[s][n] # x, R.color[n] = "red", R.color[R.child[s][n]] = "red"
               PROVE  FALSE
    OBVIOUS
  <2>1. R.child[s][n] = T.child[s][n] /\ T.child[s][n] # z /\ T.child[s][n] \in Node0 /\ n \in S /\ T.color[n] = "red"
    BY <1>2, <1>8, <1>9
  <2> QED
    BY <1>5, <1>10, <2>1
<1>12. ASSUME T.color[z] = "red" PROVE Fine(R, U, H)
  <2>1. Black(T, z) = 0 /\ H[z] = H[x] /\ z # T.root /\ p # NIL
    BY <1>1, <1>2, <1>4, <1>6, <1>12 DEF Black
  <2>2. \A n \in U, s \in Sides : H[R.child[s][n]] = H[T.child[s][n]]
    BY <1>6, <1>9, <2>1
  <2>3. Balanced(R, U, H, NIL, "left")
    <3>1. ASSUME NEW n \in U, NEW s \in Sides PROVE H[n] = H[R.child[s][n]] + Extra(NIL, "left", n, s) + Black(R, n)
      <4>1. H[n] = H[T.child[s][n]] + Extra(none, "left", n, s) + Black(T, n)
        BY <1>2, <1>8
      <4> QED
        BY <1>3, <1>8, <2>2, <4>1
    <3> QED
      BY <1>2, <3>1 DEF Balanced
  <2>4. T.color[p] # "red"
    BY <1>6, <1>10, <1>12, <2>1
  <2>5. Reds(R, U, NIL, NIL)
    <3> SUFFICES ASSUME NEW n \in U, NEW s \in Sides, R.color[n] = "red", R.color[R.child[s][n]] = "red"
                 PROVE  FALSE
      BY DEF Reds
    <3>1. n # p
      BY <1>8, <2>4
    <3>2. R.child[s][n] = T.child[s][n] /\ T.child[s][n] # z /\ T.child[s][n] \in Node0 /\ n \in S /\ T.color[n] = "red"
      BY <1>2, <1>8, <1>9, <3>1
    <3> QED
      BY <1>5, <1>10, <3>2
  <2>6. R.color[R.root] = "black"
    BY <1>1, <1>2, <1>5, <2>1
  <2> QED
    BY <2>3, <2>5, <2>6 DEF Fine
<1>13. ASSUME T.color[z] = "black" PROVE Deleting(R, U, H, x)
  <2>1. Black(T, z) = 1 /\ H[z] = H[x] + 1
    BY <1>4, <1>13 DEF Black
  <2>2. x \in U \cup {NIL} /\ Reds(R, U, x, x)
    BY <1>4, <1>11 DEF Reds
  <2>3. RootBlack(R, x)
    BY <1>1, <1>2, <1>5 DEF RootBlack
  <2>4. CASE p = NIL
    <3>1. Balanced(R, U, H, NIL, "left")
      <4>1. ASSUME NEW n \in U, NEW s \in Sides PROVE H[n] = H[R.child[s][n]] + Extra(NIL, "left", n, s) + Black(R, n)
        <5>1. H[n] = H[T.child[s][n]] + Extra(none, "left", n, s) + Black(T, n) /\ R.child[s][n] = T.child[s][n]
          BY <1>2, <1>8, <1>9, <2>4
        <5> QED
          BY <1>3, <1>8, <5>1
      <4> QED
        BY <1>2, <4>1 DEF Balanced
    <3>2. x = R.root
      BY <1>5, <2>4
    <3> QED
      BY <2>2, <2>3, <3>1, <3>2 DEF Deleting
  <2>5. CASE p # NIL
    <3>1. p \in U /\ f \in Sides /\ R.parent[x] = p /\ R.child[f][p] = x
      BY <1>2, <1>4, <1>5, <1>6, <1>7, <2>5
    <3>2. Balanced(R, U, H, p, f)
      <4>1. ASSUME NEW n \in U, NEW s \in Sides PROVE H[n] = H[R.child[s][n]] + Extra(p, f, n, s) + Black(R, n)
        <5>1. H[n] = H[T.child[s][n]] + Black(T, n) /\ Black(R, n) = Black(T, n) /\ H[T.child[s][n]] \in Nat /\ Black(T, n) \in {0, 1}
          <6>1. H[n] = H[T.child[s][n]] + Extra(none, "left", n, s) + Black(T, n) /\ Extra(none, "left", n, s) = 0 /\ H[T.child[s][n]] \in Nat /\ Black(T, n) \in {0, 1}
            BY <1>2, <1>3, <1>8
          <6> QED
            BY <1>8, <6>1
        <5>2. CASE s = f /\ n = p
          <6>1. R.child[s][n] = x /\ T.child[s][n] = z /\ Extra(p, f, n, s) = 1
            BY <1>6, <1>9, <2>5, <5>2 DEF Extra
          <6> QED
            BY <1>2, <1>4, <2>1, <5>1, <6>1
        <5>3. CASE ~(s = f /\ n = p)
          <6>1. R.child[s][n] = T.child[s][n] /\ Extra(p, f, n, s) = 0
            BY <1>9, <5>3 DEF Extra
          <6> QED
            BY <5>1, <6>1
        <5> QED
          BY <5>2, <5>3
      <4> QED
        BY <1>2, <4>1 DEF Balanced
    <3> QED
      BY <2>2, <2>3, <3>1, <3>2 DEF Deleting
  <2> QED
    BY <2>4, <2>5
<1> QED
  BY <1>12, <1>13 DEF U

\* The successor in z's place, with z's colour, leaves the colours as they are.
LEMMA RenameColors ==
  ASSUME NEW T, NEW S, NEW B, Shape(T, S, B), NEW z \in S, NEW y \in Nodes, y \notin S,
         NEW R, Renamed(R, T, S, z, y), NEW H \in [Node0 -> Nat],
         NEW U, (S \ {z}) \cup {y} = U, NEW x, x # z, x # y, R.parent[x] = Swap(z, y, T.parent[x])
  PROVE  /\ Fine(T, S, H) => Fine(R, U, [H EXCEPT ![y] = H[z]])
         /\ Deleting(T, S, H, x) => Deleting(R, U, [H EXCEPT ![y] = H[z]], x)
<1> DEFINE f(n) == Swap(z, y, n)
           G == [H EXCEPT ![y] = H[z]]
<1>1. /\ \A n \in S : n \in Node0 /\ n # NIL
      /\ y \in Node0 /\ y # NIL /\ NIL \in Node0
  BY ShapeTypes, NodeTypes
<1>2. /\ R.root = f(T.root)
      /\ \A n \in S : /\ R.parent[f(n)] = f(T.parent[n])
                      /\ R.color[f(n)] = T.color[n]
                      /\ \A s \in Sides : R.child[s][f(n)] = f(T.child[s][n])
      /\ \A s \in Sides : R.child[s][NIL] = NIL
      /\ R.color[NIL] = "black"
  BY DEF Renamed
<1>3. /\ \A n \in S : f(n) \in U
      /\ \A m \in U : \E n \in S : m = f(n)
      /\ f(NIL) = NIL /\ f(x) = x
      /\ \A m \in S \cup {NIL}, n \in S \cup {NIL} : f(m) = f(n) => m = n
  BY <1>1 DEF Swap
<1>4. G \in [Node0 -> Nat] /\ \A n \in S \cup {NIL} : G[f(n)] = H[n]
  BY <1>1 DEF Swap
<1>5. T.color[NIL] = "black" /\ T.root \in S \cup {NIL} /\ \A n \in S, s \in Sides : T.child[s][n] \in S \cup {NIL}
  BY ChildFacts DEF Shape, Rooted
<1> HIDE DEF f, G
<1>6. \A n \in S \cup {NIL} : R.color[f(n)] = T.color[n]
  BY <1>2, <1>3, <1>5
<1>7. \A n \in S : Black(R, f(n)) = Black(T, n)
  BY <1>6 DEF Black
<1>8. ASSUME NEW q \in S \cup {NIL}, NEW d \in Sides, Balanced(T, S, H, q, d) PROVE Balanced(R, U, G, f(q), d)
  <2>1. ASSUME NEW m \in U, NEW s \in Sides PROVE G[m] = G[R.child[s][m]] + Extra(f(q), d, m, s) + Black(R, m)
    <3>1. PICK n \in S : m = f(n)
      BY <1>3
    <3>2. H[n] = H[T.child[s][n]] + Extra(q, d, n, s) + Black(T, n)
      BY <1>8 DEF Balanced
    <3>3. Extra(f(q), d, m, s) = Extra(q, d, n, s)
      BY <1>3, <3>1 DEF Extra
    <3>4. G[m] = H[n] /\ G[R.child[s][m]] = H[T.child[s][n]] /\ Black(R, m) = Black(T, n)
      BY <1>2, <1>4, <1>5, <1>7, <3>1
    <3> QED
      BY <3>2, <3>3, <3>4
  <2>2. H[NIL] = 0
    BY <1>8 DEF Balanced
  <2>3. G[NIL] = 0
    BY <1>3, <1>4, <2>2
  <2> QED
    BY <1>4, <2>1, <2>3 DEF Balanced
<1>9. ASSUME NEW E \in S \cup {NIL}, Reds(T, S, E, E) PROVE Reds(R, U, f(E), f(E))
  <2> SUFFICES ASSUME NEW m \in U, NEW s \in Sides, R.color[m] = "red", R.color[R.child[s][m]] = "red"
               PROVE  R.child[s][m] = f(E) \/ m = f(E)
    BY DEF Reds
  <2>1. PICK n \in S : m = f(n)
    BY <1>3
  <2>2. T.color[n] = "red" /\ T.color[T.child[s][n]] = "red" /\ R.child[s][m] = f(T.child[s][n])
    BY <1>2, <1>5, <1>6, <2>1
  <2>3. T.child[s][n] = E \/ n = E
    BY <1>9, <2>2 DEF Reds
  <2> QED
    BY <2>1, <2>2, <2>3
<1>10. R.color[R.root] = T.color[T.root]
  BY <1>2, <1>5, <1>6
<1>11. ASSUME Fine(T, S, H) PROVE Fine(R, U, G)
  <2>1. Balanced(T, S, H, NIL, "left") /\ Reds(T, S, NIL, NIL) /\ T.color[T.root] = "black"
    BY <1>11 DEF Fine
  <2>2. Balanced(R, U, G, NIL, "left")
    BY <1>3, <1>8, <2>1, SidesAre
  <2>3. Reds(R, U, NIL, NIL)
    BY <1>3, <1>9, <2>1
  <2> QED
    BY <1>10, <2>1, <2>2, <2>3 DEF Fine
<1>12. ASSUME Deleting(T, S, H, x) PROVE Deleting(R, U, G, x)
  <2>1. /\ x \in S \cup {NIL} /\ Reds(T, S, x, x) /\ RootBlack(T, x)
        /\ \/ x = T.root /\ Balanced(T, S, H, NIL, "left")
           \/ /\ T.parent[x] \in S
              /\ \E d \in Sides : T.child[d][T.parent[x]] = x /\ Balanced(T, S, H, T.parent[x], d)
    BY <1>12 DEF Deleting
  <2>2. x \in U \cup {NIL} /\ Reds(R, U, x, x)
    BY <1>3, <1>9, <2>1
  <2>3. RootBlack(R, x)
    BY <1>2, <1>3, <1>10, <2>1 DEF RootBlack
  <2>4. CASE x = T.root /\ Balanced(T, S, H, NIL, "left")
    <3>1. x = R.root
      BY <1>2, <1>3, <2>4
    <3>2. Balanced(R, U, G, NIL, "left")
      BY <1>3, <1>8, <2>4, SidesAre
    <3> QED
      BY <2>2, <2>3, <3>1, <3>2 DEF Deleting
  <2>5. CASE /\ T.parent[x] \in S
             /\ \E d \in Sides : T.child[d][T.parent[x]] = x /\ Balanced(T, S, H, T.parent[x], d)
    <3>1. PICK d \in Sides : T.child[d][T.parent[x]] = x /\ Balanced(T, S, H, T.parent[x], d)
      BY <2>5
    <3>2. R.parent[x] = f(T.parent[x]) /\ R.parent[x] \in U
      BY <1>3, <2>5 DEF f
    <3>3. R.child[d][R.parent[x]] = x
      BY <1>2, <1>3, <2>5, <3>1, <3>2
    <3>4. Balanced(R, U, G, R.parent[x], d)
      BY <1>8, <2>5, <3>1, <3>2
    <3> QED
      BY <2>2, <2>3, <3>2, <3>3, <3>4 DEF Deleting
  <2> QED
    BY <2>1, <2>4, <2>5
<1> QED
  BY <1>11, <1>12 DEF G

------------------------------------------------------------------------------------
\* rb_delete_fixup.

\* The nodes around x while rb_delete_fixup goes on: the sibling w is never the sentinel,
\* because a black is missing on x's side.
Lacking(T, S, H, x, p, d, e, w) ==
    /\ p \in S /\ d \in Sides /\ e \in Sides /\ e # d /\ Other(d) = e /\ Other(e) = d
    /\ T.parent[x] = p /\ T.child[d][p] = x /\ T.child[e][p] = w /\ w \in S
    /\ w # x /\ p # x /\ p # w /\ T.parent[w] = p /\ w # T.root
    /\ Balanced(T, S, H, p, d) /\ H[w] = H[x] + 1 /\ H[p] = H[w] + Black(T, p)
    /\ \A n \in S, s \in Sides : ~(T.color[n] = "red" /\ T.color[T.child[s][n]] = "red")
    /\ T.color[T.root] = "black"

\* rb_delete_fixup finds the sibling of x, a node whose black height is one more.
LEMMA LackingHolds ==
  ASSUME NEW T, NEW S, NEW B, Shape(T, S, B), NEW H, NEW x, Deleting(T, S, H, x), x # T.root, T.color[x] = "black",
         NEW p, T.parent[x] = p, NEW d, Side(T, x) = d, NEW e, Other(d) = e, NEW w, Sibling(T, x) = w
  PROVE  Lacking(T, S, H, x, p, d, e, w)
<1>1. /\ x \in S \cup {NIL} /\ Reds(T, S, x, x) /\ RootBlack(T, x)
      /\ p \in S /\ \E s \in Sides : T.child[s][p] = x /\ Balanced(T, S, H, p, s)
  BY DEF Deleting
<1>2. PICK s \in Sides : T.child[s][p] = x /\ Balanced(T, S, H, p, s)
  BY <1>1
<1> DEFINE v == T.child[Other(s)][p]
<1>3. Other(s) \in Sides /\ Other(s) # s /\ Other(Other(s)) = s
  BY SidesAre
<1>4. /\ H \in [Node0 -> Nat] /\ H[NIL] = 0 /\ NIL \in Node0 /\ T.color[NIL] = "black"
      /\ \A n \in Node0 : H[n] \in Nat /\ Black(T, n) \in {0, 1}
      /\ \A n \in S : n \in Node0 /\ n # NIL
      /\ \A n \in S, r \in Sides : /\ H[n] = H[T.child[r][n]] + Extra(p, s, n, r) + Black(T, n)
                                   /\ T.child[r][n] \in Node0
      /\ T.root \in Node0
  BY <1>2, Heights
<1>5. H[v] = H[x] + 1 /\ H[p] = H[v] + Black(T, p)
  <2>1. Extra(p, s, p, s) = 1 /\ Extra(p, s, p, Other(s)) = 0
    BY <1>3 DEF Extra
  <2>2. H[p] = H[x] + Extra(p, s, p, s) + Black(T, p)
    BY <1>1, <1>2, <1>4
  <2>3. H[p] = H[v] + Extra(p, s, p, Other(s)) + Black(T, p) /\ v \in Node0
    BY <1>1, <1>3, <1>4
  <2>4. H[x] \in Nat /\ H[v] \in Nat /\ Black(T, p) \in {0, 1}
    BY <1>1, <1>4, <2>3
  <2> HIDE DEF v
  <2> QED
    BY <2>1, <2>2, <2>3, <2>4
<1>6. H[x] \in Nat
  BY <1>1, <1>4
<1>7. v # NIL
  <2> HIDE DEF v
  <2> QED
    BY <1>4, <1>5, <1>6
<1>8. v \in S /\ T.parent[v] = p /\ v # p /\ v # T.root
  BY <1>1, <1>3, <1>7, ChildFacts
<1>9. v # x
  BY <1>1, <1>2, <1>3, <1>7, SideOf
<1>10. p # x
  BY <1>1, <1>2, <1>4, ChildFacts
<1>11. d = s
  <2>1. CASE s = "left"
    BY <1>2, <2>1 DEF Side
  <2>2. CASE s = "right"
    <3>1. v = T.child["left"][p]
      BY <2>2 DEF Other
    <3> QED
      BY <1>9, <2>2, <3>1 DEF Side
  <2> QED
    BY <2>1, <2>2 DEF Sides
<1>12. e = Other(s) /\ w = v
  BY <1>11 DEF Sibling
<1>13. \A n \in S, r \in Sides : ~(T.color[n] = "red" /\ T.color[T.child[r][n]] = "red")
  BY <1>1 DEF Reds
<1>14. T.color[T.root] = "black"
  BY <1>1 DEF RootBlack
<1> HIDE DEF v
<1>15. T.child[e][p] = w
  BY <1>12 DEF v
<1> QED
  BY <1>1, <1>2, <1>3, <1>5, <1>8, <1>9, <1>10, <1>11, <1>12, <1>13, <1>14, <1>15 DEF Lacking

\* rb_delete_fixup, red sibling.
LEMMA RedSiblingKeeps ==
  ASSUME NEW T, NEW S, NEW B, Shape(T, S, B), NEW H, NEW x, Deleting(T, S, H, x), x # T.root, T.color[x] = "black",
         NEW p, NEW d, NEW e, NEW w, Lacking(T, S, H, x, p, d, e, w), T.color[w] = "red",
         NEW R, Rotate(Paint(Paint(T, w, "black"), p, "red"), d, p) = R
  PROVE  Shape(R, S, Turned(S, B, d, p, w)) /\ Deleting(R, S, [H EXCEPT ![p] = H[w], ![w] = H[p]], x)
<1> DEFINE c == T.child[d][w]
           G == [H EXCEPT ![p] = H[w], ![w] = H[p]]
<1>1. /\ p \in S /\ d \in Sides /\ e \in Sides /\ e # d /\ Other(d) = e /\ Other(e) = d
      /\ T.parent[x] = p /\ T.child[d][p] = x /\ T.child[e][p] = w /\ w \in S
      /\ w # x /\ p # x /\ p # w /\ T.parent[w] = p /\ w # T.root
      /\ Balanced(T, S, H, p, d) /\ H[w] = H[x] + 1
      /\ \A n \in S, s \in Sides : ~(T.color[n] = "red" /\ T.color[T.child[s][n]] = "red")
  BY DEF Lacking
<1>2. x \in S \cup {NIL} /\ Reds(T, S, x, x) /\ RootBlack(T, x)
  BY DEF Deleting
<1>3. \A n \in S : n \in Node0 /\ n # NIL /\ T.color[n] \in Colors
  BY ShapeTypes, TreeTypes
<1>4. T.color[p] = "black" /\ w # NIL
  BY <1>1, <1>3 DEF Colors
<1>5. /\ Shape(R, S, Turned(S, B, d, p, w))
      /\ \A n \in Node0 : R.color[n] = IF n = p THEN "red" ELSE IF n = w THEN "black" ELSE T.color[n]
      /\ R.root = IF p = T.root THEN w ELSE T.root
      /\ Rewoven(R, T, S, d, e, p, w, c)
      /\ w \in S /\ p # w /\ c \notin {p, w} /\ e \in Sides /\ e # d
      /\ \A n \in Node0 : n \notin {p, w} /\ ~(n = c /\ n # NIL) => R.parent[n] = T.parent[n]
  BY <1>1, <1>4, RedRotateShape
<1>6. /\ Balanced(R, S, G, p, d)
      /\ Reds(R, S, x, x)
      /\ RootBlack(R, x)
  <2>1. ~(p = p /\ d = e) /\ p # w /\ (T.color[T.child[d][p]] = "black" \/ T.child[d][p] = x) /\ T.child[d][w] = c
    BY <1>1
  <2> HIDE DEF c
  <2> QED
    BY <1>1, <1>2, <1>4, <1>5, <2>1, RedRotateColors
<1>7. R.parent[x] = p
  <2>1. x = NIL \/ x # c
    <3>1. c = NIL \/ T.parent[c] = w
      BY <1>1, ChildFacts
    <3> QED
      BY <1>1, <3>1
  <2>2. x \in Node0
    BY <1>2, <1>3, NodeTypes
  <2> QED
    BY <1>1, <1>5, <2>1, <2>2
<1>8. R.child[d][p] = x
  <2>1. \/ R.child[d][p] = T.child[d][p]
        \/ T.child[d][p] = p
        \/ d = e
        \/ p = w
    BY <1>1, <1>5 DEF Rewoven
  <2> QED
    BY <1>1, <2>1
<1> QED
  BY <1>1, <1>2, <1>5, <1>6, <1>7, <1>8 DEF Deleting

\* rb_delete_fixup, black nephews.
LEMMA RaiseBlackKeeps ==
  ASSUME NEW T, NEW S, NEW B, Shape(T, S, B), NEW H, NEW x, Deleting(T, S, H, x), x # T.root, T.color[x] = "black",
         NEW p, NEW d, NEW e, NEW w, Lacking(T, S, H, x, p, d, e, w), T.color[w] = "black",
         \A s \in Sides : T.color[T.child[s][w]] = "black",
         NEW R, Paint(T, w, "red") = R
  PROVE  Shape(R, S, B) /\ Deleting(R, S, [H EXCEPT ![p] = H[x] + Black(T, p), ![w] = H[x]], p)
<1> DEFINE G == [H EXCEPT ![p] = H[x] + Black(T, p), ![w] = H[x]]
           g == T.parent[p]
           f == Side(T, p)
<1>1. /\ p \in S /\ d \in Sides /\ e \in Sides /\ e # d /\ Other(d) = e /\ Other(e) = d
      /\ T.parent[x] = p /\ T.child[d][p] = x /\ T.child[e][p] = w /\ w \in S
      /\ w # x /\ p # x /\ p # w /\ T.parent[w] = p /\ w # T.root
      /\ Balanced(T, S, H, p, d) /\ H[w] = H[x] + 1 /\ H[p] = H[w] + Black(T, p)
      /\ \A n \in S, s \in Sides : ~(T.color[n] = "red" /\ T.color[T.child[s][n]] = "red")
      /\ T.color[T.root] = "black"
  BY DEF Lacking
<1>2. x \in S \cup {NIL}
  BY DEF Deleting
<1>3. /\ H \in [Node0 -> Nat] /\ H[NIL] = 0 /\ NIL \in Node0 /\ T.color[NIL] = "black"
      /\ \A n \in Node0 : H[n] \in Nat /\ Black(T, n) \in {0, 1}
      /\ \A n \in S : n \in Node0 /\ n # NIL
      /\ \A n \in S, s \in Sides : /\ H[n] = H[T.child[s][n]] + Extra(p, d, n, s) + Black(T, n)
                                   /\ T.child[s][n] \in Node0 /\ Extra(p, d, n, s) \in {0, 1}
                                   /\ T.child[s][n] # NIL => T.child[s][n] \in S /\ T.parent[T.child[s][n]] = n
      /\ T.root \in Node0
  BY <1>1, Heights
<1>4. Shape(R, S, B) /\ Painted(R, T, w, "red")
  BY <1>1, <1>3, PaintShape DEF Colors
<1>5. R.child = T.child /\ R.parent = T.parent /\ R.root = T.root /\ \A n \in Node0 : R.color[n] = IF n = w THEN "red" ELSE T.color[n]
  BY <1>4 DEF Painted
<1>6. /\ G \in [Node0 -> Nat] /\ G[NIL] = 0 /\ G[p] = H[x] + Black(T, p) /\ G[w] = H[x]
      /\ \A n \in Node0 \ {p, w} : G[n] = H[n]
  <2>1. H[x] \in Nat /\ H[x] + Black(T, p) \in Nat /\ p \in Node0 /\ w \in Node0 /\ p # NIL /\ w # NIL
    BY <1>1, <1>2, <1>3
  <2> QED
    BY <1>1, <1>3, <2>1
<1> HIDE DEF G
<1>7. Reds(R, S, p, p)
  <2> SUFFICES ASSUME NEW n \in S, NEW s \in Sides, R.color[n] = "red", R.color[R.child[s][n]] = "red", n # p
               PROVE  FALSE
    BY DEF Reds
  <2>1. n # w
    <3>1. ASSUME n = w PROVE FALSE
      <4>1. T.color[T.child[s][w]] = "black" /\ T.child[s][w] \in Node0 /\ T.child[s][w] # w
        BY <1>1, <1>3, ChildFacts
      <4> QED
        BY <1>5, <3>1, <4>1
    <3> QED
      BY <3>1
  <2>2. T.child[s][n] # w /\ T.child[s][n] \in Node0
    BY <1>1, <1>3
  <2>3. T.color[n] = "red" /\ T.color[T.child[s][n]] = "red"
    BY <1>3, <1>5, <2>1, <2>2
  <2> QED
    BY <1>1, <2>3
<1>8. RootBlack(R, p)
  BY <1>1, <1>3, <1>5 DEF RootBlack
<1>9. ASSUME NEW q, NEW k, \A n \in S, s \in Sides : Extra(q, k, n, s) = IF T.child[s][n] = p THEN 1 ELSE 0
      PROVE  Balanced(R, S, G, q, k)
  <2>1. ASSUME NEW n \in S, NEW s \in Sides PROVE G[n] = G[R.child[s][n]] + Extra(q, k, n, s) + Black(R, n)
    <3> DEFINE c == T.child[s][n]
    <3>1. /\ H[n] = H[c] + Extra(p, d, n, s) + Black(T, n) /\ H[n] \in Nat /\ H[c] \in Nat /\ c \in Node0 /\ R.child[s][n] = c
          /\ Extra(q, k, n, s) = IF c = p THEN 1 ELSE 0
          /\ c # NIL => T.parent[c] = n
          /\ H[x] \in Nat /\ H[p] \in Nat /\ H[w] \in Nat /\ Black(T, p) \in {0, 1} /\ Black(T, n) \in {0, 1}
      BY <1>1, <1>2, <1>3, <1>5, <1>9
    <3>2. (n = p => c \in {x, w}) /\ (n # p => c # w) /\ Extra(p, d, n, s) = IF n = p /\ c = x THEN 1 ELSE 0
      BY <1>1, <1>3, <3>1 DEF Extra, Sides
    <3>3. n # w => Black(R, n) = Black(T, n)
      BY <1>3, <1>5 DEF Black
    <3>4. c # n
      BY <1>3, ChildFacts
    <3>5. T.parent[p] # w
      <4>1. CASE p = T.root
        <5>1. T.parent[p] = NIL
          BY <1>1, <4>1, RootIs
        <5> QED
          BY <1>1, <1>3, <5>1
      <4>2. CASE p # T.root
        BY <1>1, <1>3, <4>2, RotateAt
      <4> QED
        BY <4>1, <4>2
    <3> HIDE DEF c
    <3>6. CASE n = p
      <4>1. G[c] = H[x] /\ Extra(q, k, n, s) = 0
        BY <1>1, <1>2, <1>3, <1>6, <3>1, <3>2, <3>4, <3>6
      <4> QED
        BY <1>1, <1>6, <3>1, <3>3, <3>6, <4>1
    <3>7. CASE n = w
      <4>1. c # p /\ c # w
        BY <1>1, <1>3, <3>1, <3>4, <3>5, <3>7
      <4>2. G[c] = H[c] /\ Extra(q, k, n, s) = 0 /\ Extra(p, d, n, s) = 0 /\ Black(T, n) = 1 /\ Black(R, n) = 0 /\ G[n] = H[x]
        BY <1>1, <1>3, <1>5, <1>6, <3>1, <3>2, <3>7, <4>1 DEF Black
      <4> QED
        BY <1>1, <3>1, <3>7, <4>2
    <3>8. CASE n \notin {p, w}
      <4>1. G[n] = H[n] /\ Extra(p, d, n, s) = 0 /\ Black(R, n) = Black(T, n) /\ c # w
        BY <1>3, <1>6, <3>2, <3>3, <3>8
      <4>2. CASE c = p
        <5>1. G[c] = H[x] + Black(T, p) /\ H[c] = H[x] + 1 + Black(T, p) /\ Extra(q, k, n, s) = 1
          BY <1>1, <1>6, <3>1, <4>2
        <5> QED
          BY <3>1, <4>1, <5>1
      <4>3. CASE c # p
        <5>1. G[c] = H[c] /\ Extra(q, k, n, s) = 0
          BY <1>6, <3>1, <4>1, <4>3
        <5> QED
          BY <3>1, <4>1, <5>1
      <4> QED
        BY <4>2, <4>3
    <3> QED
      BY <3>6, <3>7, <3>8
  <2> QED
    BY <1>6, <2>1 DEF Balanced
<1>10. CASE p = T.root
  <2>1. \A n \in S, s \in Sides : Extra(NIL, "left", n, s) = IF T.child[s][n] = p THEN 1 ELSE 0
    BY <1>1, <1>3, <1>10, ChildFacts DEF Extra
  <2>2. Balanced(R, S, G, NIL, "left")
    BY <1>9, <2>1
  <2> QED
    BY <1>1, <1>4, <1>5, <1>7, <1>8, <1>10, <2>2 DEF Deleting, G
<1>11. CASE p # T.root
  <2>1. g \in S /\ f \in Sides /\ T.child[f][g] = p
    BY <1>1, <1>11, HangsAt
  <2>2. \A n \in S, s \in Sides : T.child[s][n] = p => n = g /\ s = f
    BY <1>1, <1>3, SideOf
  <2> HIDE DEF g, f
  <2>3. \A n \in S, s \in Sides : Extra(g, f, n, s) = IF T.child[s][n] = p THEN 1 ELSE 0
    BY <2>1, <2>2 DEF Extra
  <2>4. Balanced(R, S, G, g, f)
    BY <1>9, <2>3
  <2>5. R.parent[p] = g /\ R.child[f][g] = p
    BY <1>5, <2>1 DEF g
  <2> QED
    BY <1>1, <1>4, <1>7, <1>8, <2>1, <2>4, <2>5 DEF Deleting, G
<1> QED
  BY <1>10, <1>11

\* A parent's parent is not its child.
LEMMA NotAbove ==
  ASSUME NEW T, NEW S, NEW B, Shape(T, S, B), NEW n \in S, NEW s \in Sides, NEW c, T.child[s][n] = c, c # NIL
  PROVE  T.parent[n] # c
<1> DEFINE d == Other(s)
           b == T.child[d][c]
           p == T.parent[n]
<1>1. d \in Sides /\ Other(d) = s
  BY SidesAre
<1> HIDE DEF d, b, p
<1>2. p # c
  BY <1>1, RotateAt DEF b, p
<1> QED
  BY <1>2 DEF p

\* rb_delete_fixup, only the near nephew is red.
LEMMA NearNephewKeeps ==
  ASSUME NEW T, NEW S, NEW B, Shape(T, S, B), NEW H, NEW x, Deleting(T, S, H, x), x # T.root, T.color[x] = "black",
         NEW p, NEW d, NEW e, NEW w, Lacking(T, S, H, x, p, d, e, w), T.color[w] = "black",
         NEW v, T.child[d][w] = v, T.color[v] = "red", T.color[T.child[e][w]] = "black",
         NEW R, Rotate(Paint(Paint(T, v, "black"), w, "red"), e, w) = R
  PROVE  Shape(R, S, Turned(S, B, e, w, v)) /\ Deleting(R, S, [H EXCEPT ![w] = H[v], ![v] = H[w]], x)
<1> DEFINE c == T.child[e][v]
           G == [H EXCEPT ![w] = H[v], ![v] = H[w]]
<1>1. /\ p \in S /\ d \in Sides /\ e \in Sides /\ e # d /\ Other(d) = e /\ Other(e) = d
      /\ T.parent[x] = p /\ T.child[d][p] = x /\ T.child[e][p] = w /\ w \in S
      /\ w # x /\ p # x /\ p # w /\ T.parent[w] = p /\ w # T.root
      /\ Balanced(T, S, H, p, d) /\ H[w] = H[x] + 1
  BY DEF Lacking
<1>2. x \in S \cup {NIL} /\ Reds(T, S, x, x) /\ RootBlack(T, x)
  BY DEF Deleting
<1>3. (\A n \in S : n \in Node0 /\ n # NIL) /\ T.color[NIL] = "black" /\ NIL \in Node0
  BY ShapeTypes, NodeTypes DEF Shape
<1>4. v # NIL /\ v # x
  BY <1>3
<1>5. v \in S /\ T.parent[v] = w /\ v # p /\ v # w
  <2>1. v \in S /\ T.parent[v] = w /\ v # w
    BY <1>1, <1>4, ChildFacts
  <2>2. v # p
    BY <1>1, <1>4, NotAbove
  <2> QED
    BY <2>1, <2>2
<1>6. /\ Shape(R, S, Turned(S, B, e, w, v))
      /\ \A n \in Node0 : R.color[n] = IF n = w THEN "red" ELSE IF n = v THEN "black" ELSE T.color[n]
      /\ R.root = IF w = T.root THEN v ELSE T.root
      /\ Rewoven(R, T, S, e, d, w, v, c)
      /\ v \in S /\ w # v /\ c \notin {w, v} /\ d \in Sides /\ d # e
      /\ \A n \in Node0 : n \notin {w, v} /\ ~(n = c /\ n # NIL) => R.parent[n] = T.parent[n]
  BY <1>1, <1>4, RedRotateShape
<1>7. /\ Balanced(R, S, G, p, d)
      /\ Reds(R, S, x, x)
      /\ RootBlack(R, x)
  <2>1. ~(p = w /\ d = d) /\ p # v /\ T.child[e][v] = c /\ v # x
    BY <1>1, <1>4, <1>5
  <2> HIDE DEF c
  <2> QED
    BY <1>1, <1>2, <1>6, <2>1, RedRotateColors
<1>8. R.parent[x] = p
  <2>1. x = NIL \/ x # c
    <3>1. c = NIL \/ T.parent[c] = v
      BY <1>1, <1>5, ChildFacts
    <3> QED
      BY <1>1, <1>5, <3>1
  <2>2. x \in Node0
    BY <1>2, <1>3
  <2> QED
    BY <1>1, <1>4, <1>6, <2>1, <2>2
<1>9. R.child[d][p] = x
  <2>1. \/ R.child[d][p] = T.child[d][p]
        \/ T.child[d][p] = w
        \/ p = w
        \/ p = v
    BY <1>1, <1>6 DEF Rewoven
  <2> QED
    BY <1>1, <1>5, <2>1
<1> HIDE DEF G, c
<1>10. Deleting(R, S, G, x)
  <2> DEFINE r == R.parent[x]
  <2>1. r \in S /\ R.child[d][r] = x /\ Balanced(R, S, G, r, d)
    BY <1>1, <1>7, <1>8, <1>9
  <2> HIDE DEF r
  <2>2. \E s \in Sides : R.child[s][r] = x /\ Balanced(R, S, G, r, s)
    BY <1>1, <2>1
  <2> QED
    BY <1>2, <1>7, <2>1, <2>2 DEF Deleting, r
<1> QED
  BY <1>6, <1>10 DEF G

\* The rotation of rb_delete_fixup that ends it, about p, when the far nephew k is red.
LastTurn(T, S, H, x, p, d, e, w, k, R) ==
    /\ Lacking(T, S, H, x, p, d, e, w) /\ T.color[w] = "black" /\ T.child[e][w] = k /\ T.color[k] = "red"
    /\ Rotate(Paint(Paint(Paint(T, w, T.color[p]), p, "black"), k, "black"), d, p) = R

\* rb_delete_fixup, the far nephew is red.
LEMMA RotateBlackKeeps ==
  ASSUME NEW T, NEW S, NEW B, Shape(T, S, B), NEW H, NEW x, Deleting(T, S, H, x), x # T.root, T.color[x] = "black",
         NEW p, NEW d, NEW e, NEW w, NEW k, NEW R, LastTurn(T, S, H, x, p, d, e, w, k, R)
  PROVE  Shape(R, S, Turned(S, B, d, p, w)) /\ Deleting(R, S, [H EXCEPT ![p] = H[w], ![w] = H[p], ![k] = H[k] + 1], R.root)
<1>0. /\ Lacking(T, S, H, x, p, d, e, w) /\ T.color[w] = "black" /\ T.child[e][w] = k /\ T.color[k] = "red"
      /\ Rotate(Paint(Paint(Paint(T, w, T.color[p]), p, "black"), k, "black"), d, p) = R
  BY DEF LastTurn
<1> USE <1>0
<1> DEFINE c == T.child[d][w]
           g == T.parent[p]
           P1 == Paint(T, w, T.color[p])
           P2 == Paint(P1, p, "black")
           P == Paint(P2, k, "black")
           G == [H EXCEPT ![p] = H[w], ![w] = H[p], ![k] = H[k] + 1]
           none == NIL
<1>1. /\ p \in S /\ d \in Sides /\ e \in Sides /\ e # d /\ Other(d) = e /\ Other(e) = d
      /\ T.parent[x] = p /\ T.child[d][p] = x /\ T.child[e][p] = w /\ w \in S
      /\ w # x /\ p # x /\ p # w /\ T.parent[w] = p /\ w # T.root
      /\ Balanced(T, S, H, p, d) /\ H[w] = H[x] + 1 /\ H[p] = H[w] + Black(T, p)
      /\ \A n \in S, s \in Sides : ~(T.color[n] = "red" /\ T.color[T.child[s][n]] = "red")
      /\ T.color[T.root] = "black"
  BY DEF Lacking
<1>2. x \in S \cup {NIL}
  BY DEF Deleting
<1>3. /\ H \in [Node0 -> Nat] /\ H[NIL] = 0 /\ NIL \in Node0 /\ T.color[NIL] = "black"
      /\ \A n \in Node0 : H[n] \in Nat /\ Black(T, n) \in {0, 1}
      /\ \A n \in S : n \in Node0 /\ n # NIL
      /\ \A n \in S, s \in Sides : /\ H[n] = H[T.child[s][n]] + Extra(p, d, n, s) + Black(T, n)
                                   /\ T.child[s][n] \in Node0 /\ Extra(p, d, n, s) \in {0, 1}
                                   /\ T.child[s][n] # NIL => T.child[s][n] \in S /\ T.parent[T.child[s][n]] = n
      /\ T.root \in Node0
  BY <1>1, Heights
<1>4. k # NIL /\ k \in S /\ T.parent[k] = w /\ k # w /\ k # p /\ k # T.root /\ k # x
  <2>1. k # NIL /\ k # x
    BY <1>3
  <2>2. k \in S /\ T.parent[k] = w /\ k # w /\ k # T.root
    BY <1>1, <2>1, ChildFacts
  <2>3. k # p
    BY <1>1, <2>1, NotAbove
  <2> QED
    BY <2>1, <2>2, <2>3
<1>5. p \in Node0 /\ w \in Node0 /\ k \in Node0 /\ p # NIL /\ w # NIL /\ T.color[p] \in Colors /\ "black" \in Colors
  BY <1>1, <1>3, <1>4, TreeTypes DEF Shape, Colors
<1>6. Shape(P1, S, B) /\ Painted(P1, T, w, T.color[p])
  BY <1>5, PaintShape
<1> HIDE DEF P1
<1>7. Shape(P2, S, B) /\ Painted(P2, P1, p, "black")
  BY <1>5, <1>6, PaintShape
<1> HIDE DEF P2
<1>8. Shape(P, S, B) /\ Painted(P, P2, k, "black")
  BY <1>5, <1>7, PaintShape
<1>9. Rotate(P, d, p) = R
  BY DEF P, P1, P2
<1> HIDE DEF P
<1>10. /\ P.child = T.child /\ P.parent = T.parent /\ P.root = T.root
       /\ \A n \in Node0 : P.color[n] = IF n = k THEN "black" ELSE IF n = p THEN "black" ELSE IF n = w THEN T.color[p] ELSE T.color[n]
  BY <1>6, <1>7, <1>8 DEF Painted
<1>11. Shape(R, S, Turned(S, B, d, p, w))
  BY <1>1, <1>5, <1>8, <1>9, <1>10, RotateShape
<1>12. Rewoven(R, P, S, d, e, p, w, c) /\ Reparented(R, P, S, p, w, c, g)
  BY <1>1, <1>5, <1>8, <1>9, <1>10, RotateLinks
<1>13. T.child[d][w] = c
  OBVIOUS
<1> HIDE DEF c, g
<1>14. /\ Rewoven(R, T, S, d, e, p, w, c) /\ c \notin {p, w} /\ R.color = P.color
  BY <1>10, <1>12, SameLinks
<1>15. \A n \in Node0 : R.color[n] = IF n = k THEN "black" ELSE IF n = p THEN "black" ELSE IF n = w THEN T.color[p] ELSE T.color[n]
  BY <1>10, <1>14
<1>16. \A n \in S, s \in Sides :
        \/ n = p /\ s = e /\ R.child[s][n] = c
        \/ n = w /\ s = d /\ R.child[s][n] = p
        \/ n \notin {p, w} /\ R.child[s][n] = w /\ T.child[s][n] = p
        \/ ~(n = p /\ s = e) /\ ~(n = w /\ s = d) /\ R.child[s][n] = T.child[s][n] /\ T.child[s][n] \notin {p, w}
  BY <1>14 DEF Rewoven
<1>17. \A n \in S, s \in Sides : T.child[s][n] = k => n = w /\ s = e
  <2>1. \A n \in S, s \in Sides : T.child[s][n] = k => n = w /\ Side(T, k) = s
    BY <1>3, <1>4, SideOf
  <2>2. Side(T, k) = e
    BY <1>1, <1>4, SideOf
  <2> QED
    BY <2>1, <2>2
<1>18. c \in Node0 /\ c # k /\ H[c] = H[x] /\ H[k] = H[x] /\ H[x] \in Nat /\ Black(T, p) \in {0, 1}
  <2>1. c \in Node0 /\ c # k
    BY <1>1, <1>3, <1>13, <1>17
  <2>2. Black(T, w) = 1 /\ Extra(p, d, w, d) = 0 /\ Extra(p, d, w, e) = 0
    BY <1>1 DEF Black, Extra
  <2>3. H[w] = H[c] + Extra(p, d, w, d) + Black(T, w) /\ H[w] = H[k] + Extra(p, d, w, e) + Black(T, w)
    BY <1>1, <1>3, <1>13
  <2>4. H[x] \in Nat /\ H[c] \in Nat /\ H[k] \in Nat /\ Black(T, p) \in {0, 1}
    BY <1>2, <1>3, <1>5, <2>1
  <2> QED
    BY <1>1, <2>1, <2>2, <2>3, <2>4
<1>19. /\ G \in [Node0 -> Nat] /\ G[NIL] = 0 /\ G[p] = H[x] + 1 /\ G[w] = H[x] + 1 + Black(T, p) /\ G[k] = H[x] + 1
       /\ \A n \in Node0 \ {p, w, k} : G[n] = H[n]
  <2>1. H[w] \in Nat /\ H[p] \in Nat /\ H[k] + 1 \in Nat
    BY <1>3, <1>5
  <2>2. /\ G \in [Node0 -> Nat] /\ G[NIL] = 0 /\ G[p] = H[w] /\ G[w] = H[p] /\ G[k] = H[k] + 1
        /\ \A n \in Node0 \ {p, w, k} : G[n] = H[n]
    BY <1>1, <1>3, <1>4, <1>5, <2>1
  <2> HIDE DEF G
  <2> QED
    BY <1>1, <1>18, <2>2
<1> HIDE DEF G, none
<1>20. /\ Black(R, p) = 1 /\ Black(R, k) = 1 /\ Black(R, w) = Black(T, p) /\ Black(T, k) = 0 /\ Black(T, w) = 1
       /\ \A n \in S : n \notin {p, w, k} => Black(R, n) = Black(T, n)
       /\ \A n \in S, s \in Sides : Extra(none, "left", n, s) = 0 /\ Extra(p, d, n, s) = IF n = p /\ s = d THEN 1 ELSE 0
  <2>1. /\ Black(R, p) = 1 /\ Black(R, k) = 1 /\ Black(R, w) = Black(T, p) /\ Black(T, k) = 0 /\ Black(T, w) = 1
    BY <1>1, <1>4, <1>5, <1>15 DEF Black
  <2>2. \A n \in S : n \notin {p, w, k} => Black(R, n) = Black(T, n)
    BY <1>3, <1>15 DEF Black
  <2>3. \A n \in S, s \in Sides : Extra(none, "left", n, s) = 0 /\ Extra(p, d, n, s) = IF n = p /\ s = d THEN 1 ELSE 0
    BY <1>3 DEF Extra, none
  <2> QED
    BY <2>1, <2>2, <2>3
<1>21. ASSUME NEW n \in S, NEW s \in Sides PROVE G[n] = G[R.child[s][n]] + Extra(none, "left", n, s) + Black(R, n)
  <2>1. /\ H[n] = H[T.child[s][n]] + Extra(p, d, n, s) + Black(T, n) /\ H[n] \in Nat /\ H[T.child[s][n]] \in Nat
        /\ T.child[s][n] \in Node0 /\ Extra(none, "left", n, s) = 0 /\ Black(T, n) \in {0, 1}
        /\ Extra(p, d, n, s) = IF n = p /\ s = d THEN 1 ELSE 0
    BY <1>3, <1>20
  <2>2. CASE n = p /\ s = e /\ R.child[s][n] = c
    <3>1. G[c] = H[x]
      BY <1>14, <1>18, <1>19
    <3> QED
      BY <1>18, <1>19, <1>20, <2>1, <2>2, <3>1
  <2>3. CASE n = w /\ s = d /\ R.child[s][n] = p
    BY <1>18, <1>19, <1>20, <2>1, <2>3
  <2>4. CASE n \notin {p, w} /\ R.child[s][n] = w /\ T.child[s][n] = p
    <3>1. n # k
      <4>1. /\ Width(B, p) \in Nat /\ Width(B, w) \in Nat /\ Width(B, n) \in Nat
            /\ Width(B, T.child[s][n]) < Width(B, n) /\ Width(B, T.child[e][p]) < Width(B, p)
        BY <1>1, <1>3, <2>4, WidthIs
      <4>2. Width(B, T.child[e][w]) < Width(B, w)
        BY <1>1, <1>4, WidthIs
      <4> QED
        BY <1>1, <2>4, <4>1, <4>2
    <3>2. G[n] = H[n] /\ Black(R, n) = Black(T, n) /\ Extra(p, d, n, s) = 0
      BY <1>3, <1>19, <1>20, <2>1, <2>4, <3>1
    <3>3. G[w] = H[p]
      BY <1>1, <1>18, <1>19
    <3> QED
      BY <2>1, <2>4, <3>2, <3>3
  <2>5. CASE ~(n = p /\ s = e) /\ ~(n = w /\ s = d) /\ R.child[s][n] = T.child[s][n] /\ T.child[s][n] \notin {p, w}
    <3>1. CASE n = p
      <4>1. s = d /\ T.child[s][n] = x
        BY <1>1, <2>5, <3>1 DEF Sides
      <4>2. G[x] = H[x]
        BY <1>1, <1>2, <1>3, <1>4, <1>19
      <4> QED
        BY <1>18, <1>19, <1>20, <2>1, <2>5, <3>1, <4>1, <4>2
    <3>2. CASE n = w
      <4>1. s = e /\ T.child[s][n] = k
        BY <1>1, <2>5, <3>2 DEF Sides
      <4> QED
        BY <1>18, <1>19, <1>20, <2>1, <2>5, <3>2, <4>1
    <3>3. CASE n = k
      <4>1. T.child[s][n] # k /\ G[T.child[s][n]] = H[T.child[s][n]]
        BY <1>4, <1>17, <1>19, <2>1, <2>5, <3>3
      <4>2. Extra(p, d, n, s) = 0 /\ Black(T, n) = 0 /\ Black(R, n) = 1 /\ G[n] = H[n] + 1
        BY <1>4, <1>18, <1>19, <1>20, <2>1, <3>3
      <4> QED
        BY <2>1, <2>5, <4>1, <4>2
    <3>4. CASE n \notin {p, w, k}
      <4>1. T.child[s][n] # k
        BY <1>17, <3>4
      <4>2. G[T.child[s][n]] = H[T.child[s][n]] /\ G[n] = H[n] /\ Extra(p, d, n, s) = 0 /\ Black(R, n) = Black(T, n)
        BY <1>3, <1>19, <1>20, <2>1, <2>5, <3>4, <4>1
      <4> QED
        BY <2>1, <2>5, <4>2
    <3> QED
      BY <3>1, <3>2, <3>3, <3>4
  <2> QED
    BY <1>16, <2>2, <2>3, <2>4, <2>5
<1>22. Balanced(R, S, G, NIL, "left")
  BY <1>19, <1>21 DEF Balanced, none
<1>23. Reds(R, S, R.root, R.root)
  <2> SUFFICES ASSUME NEW n \in S, NEW s \in Sides, R.color[n] = "red", R.color[R.child[s][n]] = "red"
               PROVE  FALSE
    BY DEF Reds
  <2>1. n # p /\ n # k
    BY <1>5, <1>15
  <2>2. CASE n = w /\ s = d /\ R.child[s][n] = p
    BY <1>5, <1>15, <2>2
  <2>3. CASE n \notin {p, w} /\ R.child[s][n] = w /\ T.child[s][n] = p
    <3>1. T.color[n] = "red" /\ T.color[p] = "red"
      BY <1>1, <1>3, <1>4, <1>5, <1>15, <2>1, <2>3
    <3> QED
      BY <1>1, <2>3, <3>1
  <2>4. CASE ~(n = w /\ s = d) /\ R.child[s][n] = T.child[s][n] /\ T.child[s][n] \notin {p, w}
    <3>1. T.child[s][n] # k /\ T.child[s][n] \in Node0
      BY <1>3, <1>5, <1>15, <2>4
    <3>2. n # w
      BY <1>1, <2>4, <3>1 DEF Sides
    <3>3. T.color[n] = "red" /\ T.color[T.child[s][n]] = "red"
      BY <1>3, <1>15, <2>1, <2>4, <3>1, <3>2
    <3> QED
      BY <1>1, <3>3
  <2> QED
    BY <1>16, <2>1, <2>2, <2>3, <2>4
<1>24. R.root \in S \cup {NIL} /\ RootBlack(R, R.root)
  BY <1>11 DEF Shape, Rooted, RootBlack
<1> QED
  BY <1>11, <1>22, <1>23, <1>24 DEF Deleting, G

\* rb_delete_fixup ends.
LEMMA DeleteDoneKeeps ==
  ASSUME NEW T, NEW S, NEW B, Shape(T, S, B), NEW H, NEW x, Deleting(T, S, H, x), x = T.root \/ T.color[x] # "black",
         NEW R, Paint(T, x, "black") = R
  PROVE  Shape(R, S, B) /\ \E G \in [Node0 -> Nat] : Fine(R, S, G)
<1> DEFINE none == NIL
<1>1. x \in S \cup {NIL} /\ Reds(T, S, x, x) /\ RootBlack(T, x)
  BY DEF Deleting
<1>2. (\A n \in S : n \in Node0 /\ n # NIL) /\ NIL \in Node0 /\ T.color[NIL] = "black" /\ T.root \in Node0 /\ x \in Node0
  BY <1>1, ShapeTypes, NodeTypes, TreeTypes DEF Shape
<1>3. Shape(R, S, B) /\ Painted(R, T, x, "black")
  BY <1>2, PaintShape DEF Colors
<1>4. R.child = T.child /\ R.root = T.root /\ \A n \in Node0 : R.color[n] = IF n = x THEN "black" ELSE T.color[n]
  BY <1>3 DEF Painted
<1>5. \A n \in S, s \in Sides : T.child[s][n] \in Node0
  BY <1>2, TreeTypes DEF Shape
<1>6. Reds(R, S, NIL, NIL)
  <2> SUFFICES ASSUME NEW n \in S, NEW s \in Sides, R.color[n] = "red", R.color[R.child[s][n]] = "red"
               PROVE  FALSE
    BY DEF Reds
  <2>1. n # x /\ T.child[s][n] # x /\ T.color[n] = "red" /\ T.color[T.child[s][n]] = "red"
    BY <1>2, <1>4, <1>5
  <2> QED
    BY <1>1, <2>1 DEF Reds
<1>7. R.color[R.root] = "black"
  BY <1>1, <1>2, <1>4 DEF RootBlack
<1>8. CASE x = T.root /\ Balanced(T, S, H, none, "left")
  <2> DEFINE G == [H EXCEPT ![x] = H[x] + 1 - Black(T, x)]
  <2> HIDE DEF none
  <2>1. /\ H \in [Node0 -> Nat] /\ H[NIL] = 0
        /\ \A n \in Node0 : H[n] \in Nat /\ Black(T, n) \in {0, 1}
        /\ \A n \in S, s \in Sides : H[n] = H[T.child[s][n]] + Extra(none, "left", n, s) + Black(T, n)
    BY <1>8, Heights
  <2>2. \A n \in S, s \in Sides : T.child[s][n] # x \/ T.child[s][n] = NIL
    BY <1>8, ChildFacts
  <2>3. x = NIL => H[x] + 1 - Black(T, x) = 0
    BY <1>2, <2>1 DEF Black
  <2>4. G \in [Node0 -> Nat] /\ G[NIL] = 0 /\ G[x] = H[x] + 1 - Black(T, x) /\ \A n \in Node0 : n # x \/ n = NIL => G[n] = H[n]
    BY <1>2, <2>1, <2>3
  <2> HIDE DEF G
  <2>5. ASSUME NEW n \in S, NEW s \in Sides PROVE G[n] = G[R.child[s][n]] + Extra(none, "left", n, s) + Black(R, n)
    <3>1. G[R.child[s][n]] = H[T.child[s][n]] /\ H[T.child[s][n]] \in Nat /\ Extra(none, "left", n, s) = 0
      BY <1>2, <1>4, <1>5, <2>1, <2>2, <2>4 DEF Extra, none
    <3>2. H[n] = H[T.child[s][n]] + Extra(none, "left", n, s) + Black(T, n) /\ H[n] \in Nat /\ Black(T, n) \in {0, 1}
      BY <1>2, <2>1
    <3>3. CASE n = x
      <4>1. Black(R, n) = 1
        BY <1>2, <1>4, <3>3 DEF Black
      <4> QED
        BY <2>4, <3>1, <3>2, <3>3, <4>1
    <3>4. CASE n # x
      <4>1. Black(R, n) = Black(T, n) /\ G[n] = H[n]
        BY <1>2, <1>4, <2>4, <3>4 DEF Black
      <4> QED
        BY <3>1, <3>2, <4>1
    <3> QED
      BY <3>3, <3>4
  <2>6. Balanced(R, S, G, NIL, "left")
    BY <2>4, <2>5 DEF Balanced, none
  <2> QED
    BY <1>3, <1>6, <1>7, <2>4, <2>6 DEF Fine
<1>9. CASE /\ T.parent[x] \in S
           /\ \E d \in Sides : T.child[d][T.parent[x]] = x /\ Balanced(T, S, H, T.parent[x], d)
  <2> DEFINE p == T.parent[x]
             G == [H EXCEPT ![x] = H[x] + 1]
  <2>1. PICK d \in Sides : T.child[d][p] = x /\ Balanced(T, S, H, p, d)
    BY <1>9
  <2>2. p \in S
    BY <1>9
  <2> HIDE DEF p
  <2>3. x # T.root
    <3>1. x = T.root => T.root = NIL
      BY <2>1, <2>2, ChildFacts
    <3>2. T.root = NIL => S = {}
      BY <1>2 DEF Shape, Rooted
    <3> QED
      BY <2>2, <3>1, <3>2
  <2>4. T.color[x] = "red" /\ x \in S
    <3>1. T.color[x] \in Colors
      BY <1>2, TreeTypes DEF Shape
    <3> QED
      BY <1>1, <1>2, <2>3, <3>1 DEF Colors
  <2>5. /\ H \in [Node0 -> Nat] /\ H[NIL] = 0
        /\ \A n \in Node0 : H[n] \in Nat /\ Black(T, n) \in {0, 1}
        /\ \A n \in S, s \in Sides : H[n] = H[T.child[s][n]] + Extra(p, d, n, s) + Black(T, n)
    BY <2>1, Heights
  <2>6. \A n \in S, s \in Sides : T.child[s][n] = x <=> n = p /\ s = d
    <3>1. \A n \in S, s \in Sides : T.child[s][n] = x => n = p /\ s = Side(T, x)
      <4> SUFFICES ASSUME NEW n \in S, NEW s \in Sides, T.child[s][n] = x PROVE n = p /\ s = Side(T, x)
        OBVIOUS
      <4>1. x # NIL
        BY <1>2, <2>4
      <4>2. Side(T, x) = s
        BY <4>1, SideOf
      <4>3. T.parent[x] = n
        BY <4>1, ChildFacts
      <4> QED
        BY <4>2, <4>3 DEF p
    <3>2. Side(T, x) = d
      BY <1>2, <2>1, <2>2, <2>4, SideOf
    <3> QED
      BY <2>1, <3>1, <3>2
  <2>7. G \in [Node0 -> Nat] /\ G[NIL] = 0 /\ G[x] = H[x] + 1 /\ \A n \in Node0 : n # x => G[n] = H[n]
    BY <1>2, <2>4, <2>5
  <2> HIDE DEF G
  <2>8. ASSUME NEW n \in S, NEW s \in Sides PROVE G[n] = G[R.child[s][n]] + Extra(NIL, "left", n, s) + Black(R, n)
    <3> DEFINE c == T.child[s][n]
    <3>1. /\ H[n] = H[c] + Extra(p, d, n, s) + Black(T, n) /\ H[n] \in Nat /\ H[c] \in Nat /\ Black(T, n) \in {0, 1}
          /\ R.child[s][n] = c /\ c \in Node0
      BY <1>2, <1>4, <1>5, <2>5
    <3>2. Extra(NIL, "left", n, s) = 0 /\ Extra(p, d, n, s) = (IF c = x THEN 1 ELSE 0) /\ c # n
      BY <1>2, <2>6, ChildFacts DEF Extra
    <3>3. Black(R, n) = IF n = x THEN 1 ELSE Black(T, n)
      BY <1>2, <1>4 DEF Black
    <3>4. Black(T, x) = 0
      BY <2>4 DEF Black
    <3> HIDE DEF c
    <3>5. G[c] = IF c = x THEN H[c] + 1 ELSE H[c]
      BY <2>7, <3>1
    <3>6. G[n] = IF n = x THEN H[n] + 1 ELSE H[n]
      BY <1>2, <2>7
    <3> QED
      BY <3>1, <3>2, <3>3, <3>4, <3>5, <3>6
  <2>9. Balanced(R, S, G, NIL, "left")
    BY <2>7, <2>8 DEF Balanced
  <2> QED
    BY <1>3, <1>6, <1>7, <2>7, <2>9 DEF Fine
<1> QED
  BY <1>8, <1>9 DEF Deleting

------------------------------------------------------------------------------------
\* The steps.

\* Bounds and black heights in hand.
LEMMA GoodIs ==
  ASSUME NEW T, NEW S, NEW o, NEW B, NEW H \in [Node0 -> Nat], Shape(T, S, B), OpOK(T, S, B, H, o)
  PROVE  Good(T, S, o)
<1>1. B \in [Sides -> [S -> 0..(N + 1)]]
  BY DEF Shape
<1> QED
  BY <1>1 DEF Good

\* The call in progress tells which part of OpOK holds.
LEMMA OpIs ==
  ASSUME NEW T, NEW S, NEW B, NEW H, NEW o, OpOK(T, S, B, H, o)
  PROVE  /\ o = Idle => Fine(T, S, H)
         /\ o.kind = "descend" => Descending(T, S, B, o) /\ Fine(T, S, H)
         /\ o.kind = "insert_fixup" => o \in [kind : {"insert_fixup"}, z : Nodes] /\ Inserting(T, S, H, o.z)
         /\ o.kind = "min" => Succeeding(T, S, B, o) /\ Fine(T, S, H)
         /\ o.kind = "delete_fixup" => o \in [kind : {"delete_fixup"}, x : Node0] /\ Deleting(T, S, H, o.x)
         /\ o.kind = "search" => Searching(T, S, B, o) /\ Fine(T, S, H)
<1>1. /\ o = Idle => o.kind = "idle"
      /\ Descending(T, S, B, o) => o.kind = "descend"
      /\ o \in [kind : {"insert_fixup"}, z : Nodes] => o.kind = "insert_fixup"
      /\ Succeeding(T, S, B, o) => o.kind = "min"
      /\ o \in [kind : {"delete_fixup"}, x : Node0] => o.kind = "delete_fixup"
      /\ Searching(T, S, B, o) => o.kind = "search"
  BY DEF Idle, Descending, Succeeding, Searching
<1> QED
  BY <1>1 DEF OpOK

\* The comparison of the code chooses the side where the key belongs.
LEMMA TowardIs ==
  ASSUME NEW a \in Int, NEW b \in Int, a # b
  PROVE  Toward(a, b) \in Sides /\ Lt(Toward(a, b), a, b)
BY DEF Toward, Less, Lt, Sides

\* Every node belongs below the root.
LEMMA BelowRoot ==
  ASSUME NEW T, NEW S, NEW B, Shape(T, S, B), NEW k \in Nodes
  PROVE  /\ T.root = NIL \/ (T.root \in S /\ In(B, T.root, k))
         /\ k \in S => T.root # NIL
<1>1. (T.root = NIL /\ S = {}) \/ (T.root \in S /\ \A d \in Sides : B[d][T.root] = End(d))
  BY DEF Shape, Rooted
<1>2. \A d \in Sides : Lt(d, End(d), k)
  BY NAssumption DEF Nodes, Sides, Lt, End
<1>3. T.root \in S => T.root # NIL
  BY ShapeTypes
<1> QED
  BY <1>1, <1>2, <1>3 DEF In

\* One step down toward k.
LEMMA StepDown ==
  ASSUME NEW T, NEW S, NEW B, Shape(T, S, B), NEW n \in S, NEW k \in Nodes, In(B, n, k), k # n,
         NEW c, T.child[Toward(k, n)][n] = c
  PROVE  /\ c = NIL \/ (c \in S /\ In(B, c, k))
         /\ k \in S => c # NIL
<1> DEFINE d == Toward(k, n)
<1>1. k \in Int /\ n \in Int
  BY NodeTypes, ShapeTypes
<1>2. d \in Sides /\ Lt(d, k, n)
  BY <1>1, TowardIs
<1> HIDE DEF d
<1> QED
  BY <1>1, <1>2, WayDown DEF d

\* rb_tree_insert stays on the way to the place of z.
LEMMA DescendKeeps ==
  ASSUME NEW T, NEW S, NEW B, Shape(T, S, B), NEW o, Descending(T, S, B, o), o.x # NIL
  PROVE  Descending(T, S, B, [o EXCEPT !.y = o.x, !.x = T.child[Toward(o.z, o.x)][o.x]])
<1> DEFINE z == o.z
           y == o.y
           x == o.x
           c == T.child[Toward(z, x)][x]
<1>1. /\ o \in [kind : {"descend"}, z : Nodes, y : Node0, x : Node0] /\ z \notin S /\ z \in Nodes /\ x # NIL
      /\ \/ y = NIL /\ x = T.root
         \/ y \in S /\ In(B, y, z) /\ T.child[Toward(z, y)][y] = x
  BY DEF Descending
<1> HIDE DEF z, y, x, c
<1>2. x \in S /\ In(B, x, z)
  <2>1. CASE y = NIL /\ x = T.root
    BY <1>1, <2>1, BelowRoot
  <2>2. CASE y \in S /\ In(B, y, z) /\ T.child[Toward(z, y)][y] = x
    BY <1>1, <2>2, StepDown
  <2> QED
    BY <1>1, <2>1, <2>2
<1>3. c \in Node0
  <2>1. Toward(z, x) \in Sides
    BY DEF Toward, Sides
  <2> QED
    BY <1>2, <2>1, ShapeTypes, TreeTypes DEF c
<1>4. x \in Node0
  BY <1>2, ShapeTypes
<1> DEFINE q == [o EXCEPT !.y = x, !.x = c]
<1>5. q \in [kind : {"descend"}, z : Nodes, y : Node0, x : Node0] /\ q.z = z /\ q.y = x /\ q.x = c
  BY <1>1, <1>3, <1>4 DEF z
<1> HIDE DEF q
<1>6. Descending(T, S, B, q)
  BY <1>1, <1>2, <1>5 DEF Descending, c
<1> QED
  BY <1>6 DEF q, x, c, z

\* The new leaf is red and leaves the tree to rb_insert_fixup.
LEMMA LinkKeeps ==
  ASSUME NEW T, NEW S, NEW B, Shape(T, S, B), NEW H, NEW o, Descending(T, S, B, o), Fine(T, S, H), o.x = NIL
  PROVE  Good(Leaf(T, o.z, o.y), S \cup {o.z}, [kind |-> "insert_fixup", z |-> o.z])
<1> DEFINE z == o.z
           y == o.y
           U == S \cup {z}
           R == Leaf(T, z, y)
           C == Widened(S, B, z, y)
           G == [H EXCEPT ![z] = 0]
           q == [kind |-> "insert_fixup", z |-> z]
<1>1. /\ z \notin S /\ z \in Nodes
      /\ \/ y = NIL /\ T.root = NIL
         \/ y \in S /\ In(B, y, z) /\ T.child[Toward(z, y)][y] = NIL
  BY DEF Descending
<1>2. q \in [kind : {"insert_fixup"}, z : Nodes] /\ q.z = z
  BY <1>1
<1>3. H \in [Node0 -> Nat]
  BY DEF Fine, Balanced
<1>4. G \in [Node0 -> Nat]
  BY <1>1, <1>3, NodeTypes
<1> HIDE DEF z, y, q
<1>5. Shape(R, U, C) /\ LeafPut(R, T, z, y)
  BY <1>1, LeafShape
<1> HIDE DEF R, C
<1>6. Inserting(R, U, G, z)
  BY <1>1, <1>5, LeafColors
<1> HIDE DEF G, U
<1>7. OpOK(R, U, C, G, q)
  BY <1>2, <1>6 DEF OpOK
<1>8. Good(R, U, q)
  BY <1>4, <1>5, <1>7, GoodIs
<1> QED
  BY <1>8 DEF R, U, q, z, y

\* What is left of rb_tree_delete after the tree is R and x took the place of a node of colour k.
LEMMA UnlinkedKeeps ==
  ASSUME NEW R, NEW U, NEW C, Shape(R, U, C), NEW x \in Node0, NEW k \in Colors, NEW G \in [Node0 -> Nat],
         k = "red" => Fine(R, U, G), k = "black" => Deleting(R, U, G, x)
  PROVE  Good(R, U, IF FixupDue(k) THEN [kind |-> "delete_fixup", x |-> x] ELSE Idle)
<1>1. CASE k = "black"
  <2> DEFINE q == [kind |-> "delete_fixup", x |-> x]
  <2>1. q \in [kind : {"delete_fixup"}, x : Node0] /\ q.x = x
    OBVIOUS
  <2> HIDE DEF q
  <2>2. OpOK(R, U, C, G, q)
    BY <1>1, <2>1 DEF OpOK
  <2>3. Good(R, U, q)
    BY <2>2, GoodIs
  <2> QED
    BY <1>1, <2>3 DEF FixupDue, q
<1>2. CASE k = "red"
  <2>1. OpOK(R, U, C, G, Idle)
    BY <1>2 DEF OpOK
  <2>2. Good(R, U, Idle)
    BY <2>1, GoodIs
  <2> QED
    BY <1>2, <2>2 DEF FixupDue
<1> QED
  BY <1>1, <1>2 DEF Colors

\* Removing a node with at most one child leaves a red-black tree or one for rb_delete_fixup.
LEMMA DeleteOuterKeeps ==
  ASSUME NEW T, NEW S, NEW B, Shape(T, S, B), NEW H, Fine(T, S, H), NEW z \in S, NEW a \in Sides, T.child[a][z] = NIL,
         NEW x, T.child[Other(a)][z] = x
  PROVE  Good(Forget(Transplant(T, z, x), z), S \ {z},
              IF FixupDue(T.color[z]) THEN [kind |-> "delete_fixup", x |-> x] ELSE Idle)
<1> DEFINE R == Forget(Transplant(T, z, x), z)
           U == S \ {z}
           C == Narrowed(S, B, z)
           k == T.color[z]
<1>1. Shape(R, U, C) /\ Removed(R, T, z, x)
  BY RemoveShape
<1> HIDE DEF R, C
<1>2. (k = "red" => Fine(R, U, H)) /\ (k = "black" => Deleting(R, U, H, x))
  BY <1>1, RemoveColors
<1>3. x \in Node0 /\ k \in Colors
  BY ShapeTypes, TreeTypes, SidesAre
<1>4. H \in [Node0 -> Nat]
  BY DEF Fine, Balanced
<1> HIDE DEF U, k
<1>5. Good(R, U, IF FixupDue(k) THEN [kind |-> "delete_fixup", x |-> x] ELSE Idle)
  BY <1>1, <1>2, <1>3, <1>4, UnlinkedKeeps
<1> QED
  BY <1>5 DEF R, U, k

\* So does removing a node with two children.
LEMMA SpliceKeeps ==
  ASSUME NEW T, NEW S, NEW B, Shape(T, S, B), NEW H, Fine(T, S, H), NEW z \in S, NEW y \in S, B["left"][y] = z,
         T.child["left"][z] # NIL, T.child["right"][z] # NIL, T.child["left"][y] = NIL,
         NEW x, T.child["right"][y] = x
  PROVE  Good(Forget(Lifted(T, z, y), z), S \ {z},
              IF FixupDue(T.color[y]) THEN [kind |-> "delete_fixup", x |-> x] ELSE Idle)
<1> DEFINE R == Forget(Lifted(T, z, y), z)
           Q == Forget(Transplant(T, y, x), y)
           W == S \ {y}
           U == S \ {z}
           A == Narrowed(S, B, y)
           C == Swapped(W, A, z, y)
           G == [H EXCEPT ![y] = H[z]]
           k == T.color[y]
<1>1. /\ Shape(R, U, C) /\ Renamed(R, Q, W, z, y) /\ R.parent[x] = Swap(z, y, Q.parent[x])
      /\ Shape(Q, W, A) /\ Removed(Q, T, y, x) /\ x # z /\ x # y /\ y # z
  BY SpliceShape
<1> HIDE DEF R, Q, A, C
<1>2. (k = "red" => Fine(Q, W, H)) /\ (k = "black" => Deleting(Q, W, H, x))
  <2>1. "left" \in Sides /\ Other("left") = "right"
    BY DEF Sides, Other
  <2> QED
    BY <1>1, <2>1, RemoveColors
<1>3. H \in [Node0 -> Nat]
  BY DEF Fine, Balanced
<1>4. y \in Nodes /\ y \notin W /\ z \in W /\ (W \ {z}) \cup {y} = U
  BY <1>1, ShapeTypes
<1>5. y \in Node0 /\ z \in Node0 /\ k \in Colors /\ x \in Node0
  BY ShapeTypes, TreeTypes, SidesAre
<1>6. G \in [Node0 -> Nat]
  BY <1>3, <1>5
<1> HIDE DEF W, U, k
<1>7. (Fine(Q, W, H) => Fine(R, U, G)) /\ (Deleting(Q, W, H, x) => Deleting(R, U, G, x))
  BY <1>1, <1>3, <1>4, RenameColors
<1> HIDE DEF G
<1>8. Good(R, U, IF FixupDue(k) THEN [kind |-> "delete_fixup", x |-> x] ELSE Idle)
  BY <1>1, <1>2, <1>5, <1>6, <1>7, UnlinkedKeeps
<1> QED
  BY <1>8 DEF R, U, k

\* A tree that rb_insert_fixup may go on with.
LEMMA InsertGood ==
  ASSUME NEW R, NEW S, NEW C, Shape(R, S, C), NEW G, NEW o \in [kind : {"insert_fixup"}, z : Nodes], Inserting(R, S, G, o.z)
  PROVE  Good(R, S, o)
<1>1. G \in [Node0 -> Nat]
  BY DEF Inserting, Balanced
<1>2. OpOK(R, S, C, G, o)
  BY DEF OpOK
<1> QED
  BY <1>1, <1>2, GoodIs

\* A tree that rb_delete_fixup may go on with.
LEMMA DeleteGood ==
  ASSUME NEW R, NEW S, NEW C, Shape(R, S, C), NEW G, NEW o \in [kind : {"delete_fixup"}, x : Node0], Deleting(R, S, G, o.x)
  PROVE  Good(R, S, o)
<1>1. G \in [Node0 -> Nat]
  BY DEF Deleting, Balanced
<1>2. OpOK(R, S, C, G, o)
  BY DEF OpOK
<1> QED
  BY <1>1, <1>2, GoodIs

\* A tree that a call may return.
LEMMA IdleGood ==
  ASSUME NEW R, NEW S, NEW C, Shape(R, S, C), \E G \in [Node0 -> Nat] : Fine(R, S, G)
  PROVE  Good(R, S, Idle)
<1>1. PICK G \in [Node0 -> Nat] : Fine(R, S, G)
  OBVIOUS
<1>2. OpOK(R, S, C, G, Idle)
  BY <1>1 DEF OpOK
<1> QED
  BY <1>2, GoodIs

\* Insert preserves the invariant.
LEMMA InsertKeeps ==
  ASSUME IInv, NEW n \in Nodes, Insert(n)
  PROVE  IInv'
<1>1. PICK B \in [Sides -> [set -> 0..(N + 1)]], H \in [Node0 -> Nat] : Shape(tree, set, B) /\ OpOK(tree, set, B, H, op)
  BY DEF IInv, Good
<1>2. Fine(tree, set, H)
  BY <1>1, OpIs DEF Insert
<1>3. tree.root \in Node0 /\ NIL \in Node0
  BY <1>1, ShapeTypes, TreeTypes, NodeTypes
<1>4. Descending(tree, set, B, op')
  BY <1>3 DEF Insert, Descending
<1>5. OpOK(tree, set, B, H, op')
  BY <1>2, <1>4 DEF OpOK
<1>6. Good(tree, set, op')
  BY <1>1, <1>5, GoodIs
<1> QED
  BY <1>6 DEF IInv, Insert

\* Descend preserves the invariant.
LEMMA DescendStepKeeps ==
  ASSUME IInv, Descend
  PROVE  IInv'
<1>1. PICK B \in [Sides -> [set -> 0..(N + 1)]], H \in [Node0 -> Nat] : Shape(tree, set, B) /\ OpOK(tree, set, B, H, op)
  BY DEF IInv, Good
<1>2. Descending(tree, set, B, op) /\ Fine(tree, set, H)
  BY <1>1, OpIs DEF Descend
<1>3. Descending(tree, set, B, op')
  BY <1>1, <1>2, DescendKeeps DEF Descend
<1>4. OpOK(tree, set, B, H, op')
  BY <1>2, <1>3 DEF OpOK
<1>5. Good(tree, set, op')
  BY <1>1, <1>4, GoodIs
<1> QED
  BY <1>5 DEF IInv, Descend

\* Link preserves the invariant.
LEMMA LinkStepKeeps ==
  ASSUME IInv, Link
  PROVE  IInv'
<1>1. PICK B \in [Sides -> [set -> 0..(N + 1)]], H \in [Node0 -> Nat] : Shape(tree, set, B) /\ OpOK(tree, set, B, H, op)
  BY DEF IInv, Good
<1>2. Descending(tree, set, B, op) /\ Fine(tree, set, H)
  BY <1>1, OpIs DEF Link
<1>3. Good(Leaf(tree, op.z, op.y), set \cup {op.z}, [kind |-> "insert_fixup", z |-> op.z])
  BY <1>1, <1>2, LinkKeeps DEF Link
<1>4. tree' = Leaf(tree, op.z, op.y) /\ set' = set \cup {op.z} /\ op' = [kind |-> "insert_fixup", z |-> op.z]
  BY DEF Link, Leaf
<1> QED
  BY <1>3, <1>4 DEF IInv

\* RaiseRed preserves the invariant.
LEMMA RaiseRedStepKeeps ==
  ASSUME IInv, RaiseRed
  PROVE  IInv'
<1>1. PICK B \in [Sides -> [set -> 0..(N + 1)]], H \in [Node0 -> Nat] : Shape(tree, set, B) /\ OpOK(tree, set, B, H, op)
  BY DEF IInv, Good
<1> DEFINE p == tree.parent[op.z]
           g == tree.parent[p]
           u == Sibling(tree, p)
           R == Paint(Paint(Paint(tree, p, "black"), u, "black"), g, "red")
           G == [H EXCEPT ![p] = H[p] + 1, ![u] = H[u] + 1]
<1>2. op \in [kind : {"insert_fixup"}, z : Nodes] /\ Inserting(tree, set, H, op.z)
  BY <1>1, OpIs DEF RaiseRed
<1>3. /\ tree.color[p] = "red" /\ tree.color[u] = "red" /\ tree' = R /\ set' = set
      /\ op' = [op EXCEPT !.z = g]
  BY DEF RaiseRed, RedParent
<1>a. /\ tree.parent[op.z] = p /\ tree.parent[p] = g /\ Sibling(tree, p) = u
      /\ Paint(Paint(Paint(tree, p, "black"), u, "black"), g, "red") = R
  OBVIOUS
<1> HIDE DEF p, g, u, R
<1>4. Shape(R, set, B) /\ Inserting(R, set, G, g)
  BY <1>1, <1>2, <1>3, <1>a, RaiseRedKeeps
<1> HIDE DEF G
<1>5. g \in Nodes
  BY <1>4, ShapeTypes DEF Inserting
<1>6. op' \in [kind : {"insert_fixup"}, z : Nodes] /\ op'.z = g
  BY <1>2, <1>3, <1>5
<1>7. Good(R, set, op')
  BY <1>4, <1>6, InsertGood
<1> QED
  BY <1>3, <1>7 DEF IInv

\* TurnOuter preserves the invariant.
LEMMA TurnOuterStepKeeps ==
  ASSUME IInv, TurnOuter
  PROVE  IInv'
<1>1. PICK B \in [Sides -> [set -> 0..(N + 1)]], H \in [Node0 -> Nat] : Shape(tree, set, B) /\ OpOK(tree, set, B, H, op)
  BY DEF IInv, Good
<1> DEFINE z == op.z
           p == tree.parent[z]
           d == Side(tree, p)
           R == Rotate(tree, d, p)
<1>2. op \in [kind : {"insert_fixup"}, z : Nodes] /\ Inserting(tree, set, H, z)
  BY <1>1, OpIs DEF TurnOuter
<1>3. /\ tree.color[p] = "red" /\ tree.child[Other(d)][p] = z /\ tree' = R /\ set' = set
      /\ op' = [op EXCEPT !.z = p]
  BY DEF TurnOuter, RedParent
<1> HIDE DEF R, z
<1>4. Shape(R, set, Turned(set, B, d, p, z)) /\ Inserting(R, set, H, p)
  BY <1>1, <1>2, <1>3, TurnOuterKeeps DEF R
<1>5. p \in Nodes
  BY <1>4, ShapeTypes DEF Inserting
<1> HIDE DEF p, d
<1>6. op' \in [kind : {"insert_fixup"}, z : Nodes] /\ op'.z = p
  BY <1>2, <1>3, <1>5
<1>7. Good(R, set, op')
  BY <1>4, <1>6, InsertGood
<1> QED
  BY <1>3, <1>7 DEF IInv

\* RotateRed preserves the invariant.
LEMMA RotateRedStepKeeps ==
  ASSUME IInv, RotateRed
  PROVE  IInv'
<1>1. PICK B \in [Sides -> [set -> 0..(N + 1)]], H \in [Node0 -> Nat] : Shape(tree, set, B) /\ OpOK(tree, set, B, H, op)
  BY DEF IInv, Good
<1> DEFINE z == op.z
           p == tree.parent[z]
           g == tree.parent[p]
           d == Side(tree, p)
           e == Other(d)
           R == Rotate(Paint(Paint(tree, p, "black"), g, "red"), e, g)
           G == [H EXCEPT ![g] = H[p], ![p] = H[g]]
<1>2. op \in [kind : {"insert_fixup"}, z : Nodes] /\ Inserting(tree, set, H, z)
  BY <1>1, OpIs DEF RotateRed
<1>3. /\ tree.color[p] = "red" /\ tree.color[Sibling(tree, p)] = "black" /\ tree.child[d][p] = z
      /\ tree' = R /\ set' = set /\ op' = op
  BY DEF RotateRed, RedParent, BlackUncle
<1>a. /\ OuterRed(tree, z, p, g, d, e)
      /\ Rotate(Paint(Paint(tree, p, "black"), g, "red"), e, g) = R
  BY <1>3 DEF OuterRed
<1> HIDE DEF p, g, d, e, R, z
<1>4. Shape(R, set, Turned(set, B, e, g, p)) /\ Inserting(R, set, G, z)
  BY <1>1, <1>2, <1>3, <1>a, RotateRedKeeps
<1> HIDE DEF G
<1>5. Good(R, set, op)
  BY <1>2, <1>4, InsertGood DEF z
<1> QED
  BY <1>3, <1>5 DEF IInv

\* InsertDone preserves the invariant.
LEMMA InsertDoneStepKeeps ==
  ASSUME IInv, InsertDone
  PROVE  IInv'
<1>1. PICK B \in [Sides -> [set -> 0..(N + 1)]], H \in [Node0 -> Nat] : Shape(tree, set, B) /\ OpOK(tree, set, B, H, op)
  BY DEF IInv, Good
<1> DEFINE R == Paint(tree, tree.root, "black")
<1>2. Inserting(tree, set, H, op.z)
  BY <1>1, OpIs DEF InsertDone
<1>3. tree.color[tree.parent[op.z]] # "red" /\ tree' = R /\ set' = set /\ op' = Idle
  BY DEF InsertDone, RedParent, BlackenRoot
<1>4. Shape(R, set, B) /\ \E G \in [Node0 -> Nat] : Fine(R, set, G)
  BY <1>1, <1>2, <1>3, InsertDoneKeeps
<1> HIDE DEF R
<1>5. Good(R, set, Idle)
  BY <1>4, IdleGood
<1> QED
  BY <1>3, <1>5 DEF IInv

\* DeleteOuter preserves the invariant.
LEMMA DeleteOuterStepKeeps ==
  ASSUME IInv, NEW z \in Nodes, DeleteOuter(z)
  PROVE  IInv'
<1>1. PICK B \in [Sides -> [set -> 0..(N + 1)]], H \in [Node0 -> Nat] : Shape(tree, set, B) /\ OpOK(tree, set, B, H, op)
  BY DEF IInv, Good
<1>2. Fine(tree, set, H) /\ z \in set
  BY <1>1, OpIs DEF DeleteOuter
<1>3. "left" \in Sides /\ "right" \in Sides /\ Other("left") = "right" /\ Other("right") = "left"
  BY DEF Sides, Other
<1>4. ASSUME NEW a \in Sides, NEW b, Other(a) = b, tree.child[a][z] = NIL,
             Unlinked(Transplant(tree, z, tree.child[b][z]), z, tree.child[b][z], tree.color[z])
      PROVE  IInv'
  <2> DEFINE x == tree.child[b][z]
  <2>1. tree.child[Other(a)][z] = x
    BY <1>4
  <2>2. /\ tree' = Forget(Transplant(tree, z, x), z) /\ set' = set \ {z}
        /\ op' = IF FixupDue(tree.color[z]) THEN [kind |-> "delete_fixup", x |-> x] ELSE Idle
    BY <1>4 DEF Unlinked
  <2> HIDE DEF x
  <2>3. Good(Forget(Transplant(tree, z, x), z), set \ {z},
             IF FixupDue(tree.color[z]) THEN [kind |-> "delete_fixup", x |-> x] ELSE Idle)
    BY <1>1, <1>2, <1>4, <2>1, DeleteOuterKeeps
  <2> QED
    BY <2>2, <2>3 DEF IInv
<1> QED
  BY <1>3, <1>4 DEF DeleteOuter

\* DeleteInner preserves the invariant.
LEMMA DeleteInnerKeeps ==
  ASSUME IInv, NEW z \in Nodes, DeleteInner(z)
  PROVE  IInv'
<1>1. PICK B \in [Sides -> [set -> 0..(N + 1)]], H \in [Node0 -> Nat] : Shape(tree, set, B) /\ OpOK(tree, set, B, H, op)
  BY DEF IInv, Good
<1>2. Fine(tree, set, H) /\ z \in set
  BY <1>1, OpIs DEF DeleteInner
<1> DEFINE y == tree.child["right"][z]
<1>3. "right" \in Sides /\ Other("right") = "left"
  BY DEF Sides, Other
<1>4. y \in set /\ B["left"][y] = z
  BY <1>1, <1>2, <1>3, ChildFacts DEF DeleteInner
<1>5. y \in Nodes
  BY <1>1, <1>4, ShapeTypes
<1>6. /\ op' = [kind |-> "min", z |-> z, y |-> y] /\ tree' = tree /\ set' = set
      /\ tree.child["left"][z] # NIL /\ tree.child["right"][z] # NIL
  BY DEF DeleteInner
<1> HIDE DEF y
<1>7. op' \in [kind : {"min"}, z : Nodes, y : Nodes] /\ op'.z = z /\ op'.y = y
  BY <1>5, <1>6
<1>8. OpOK(tree, set, B, H, op')
  BY <1>2, <1>4, <1>6, <1>7 DEF OpOK, Succeeding
<1>9. Good(tree, set, op')
  BY <1>1, <1>8, GoodIs
<1> QED
  BY <1>6, <1>9 DEF IInv

\* Min preserves the invariant.
LEMMA MinKeeps ==
  ASSUME IInv, Min
  PROVE  IInv'
<1>1. PICK B \in [Sides -> [set -> 0..(N + 1)]], H \in [Node0 -> Nat] : Shape(tree, set, B) /\ OpOK(tree, set, B, H, op)
  BY DEF IInv, Good
<1>2. Fine(tree, set, H) /\ Succeeding(tree, set, B, op)
  BY <1>1, OpIs DEF Min
<1> DEFINE z == op.z
           c == tree.child["left"][op.y]
<1>3. "left" \in Sides /\ op.y \in set /\ B["left"][op.y] = z /\ c # NIL
  BY <1>2 DEF Sides, Succeeding, Min
<1>4. c \in set /\ B["left"][c] = z
  BY <1>1, <1>3, ChildFacts
<1>5. c \in Nodes
  BY <1>1, <1>4, ShapeTypes
<1>6. op' = [op EXCEPT !.y = c] /\ tree' = tree /\ set' = set
  BY DEF Min
<1>7. /\ op \in [kind : {"min"}, z : Nodes, y : Nodes] /\ z \in set
      /\ tree.child["left"][z] # NIL /\ tree.child["right"][z] # NIL
  BY <1>2 DEF Succeeding
<1> HIDE DEF c
<1>8. op' \in [kind : {"min"}, z : Nodes, y : Nodes] /\ op'.z = z /\ op'.y = c
  BY <1>5, <1>6, <1>7
<1> HIDE DEF z
<1>9. OpOK(tree, set, B, H, op')
  BY <1>2, <1>4, <1>7, <1>8 DEF OpOK, Succeeding
<1>10. Good(tree, set, op')
  BY <1>1, <1>9, GoodIs
<1> QED
  BY <1>6, <1>10 DEF IInv

\* Splice preserves the invariant.
LEMMA SpliceStepKeeps ==
  ASSUME IInv, Splice
  PROVE  IInv'
<1>1. PICK B \in [Sides -> [set -> 0..(N + 1)]], H \in [Node0 -> Nat] : Shape(tree, set, B) /\ OpOK(tree, set, B, H, op)
  BY DEF IInv, Good
<1>2. Fine(tree, set, H) /\ Succeeding(tree, set, B, op)
  BY <1>1, OpIs DEF Splice
<1> DEFINE z == op.z
           y == op.y
           x == tree.child["right"][y]
<1>3. /\ z \in set /\ y \in set /\ B["left"][y] = z /\ tree.child["left"][z] # NIL /\ tree.child["right"][z] # NIL
      /\ tree.child["left"][y] = NIL /\ tree.child["right"][y] = x
  BY <1>2 DEF Succeeding, Splice
<1>4. /\ tree' = Forget(Lifted(tree, z, y), z) /\ set' = set \ {z}
      /\ op' = IF FixupDue(tree.color[y]) THEN [kind |-> "delete_fixup", x |-> x] ELSE Idle
  BY DEF Splice, Unlinked, Lifted, Rewired
<1> HIDE DEF z, y, x
<1>5. Good(Forget(Lifted(tree, z, y), z), set \ {z},
           IF FixupDue(tree.color[y]) THEN [kind |-> "delete_fixup", x |-> x] ELSE Idle)
  BY <1>1, <1>2, <1>3, SpliceKeeps
<1> QED
  BY <1>4, <1>5 DEF IInv

\* What every iteration of rb_delete_fixup starts from.
LEMMA LackingNow ==
  ASSUME IInv, DoubleBlack
  PROVE  \E B \in [Sides -> [set -> 0..(N + 1)]], H \in [Node0 -> Nat] :
            /\ Shape(tree, set, B) /\ op \in [kind : {"delete_fixup"}, x : Node0] /\ Deleting(tree, set, H, op.x)
            /\ Lacking(tree, set, H, op.x, tree.parent[op.x], Side(tree, op.x), Other(Side(tree, op.x)), Sibling(tree, op.x))
<1>1. PICK B \in [Sides -> [set -> 0..(N + 1)]], H \in [Node0 -> Nat] : Shape(tree, set, B) /\ OpOK(tree, set, B, H, op)
  BY DEF IInv, Good
<1> DEFINE x == op.x
           p == tree.parent[x]
           d == Side(tree, x)
           e == Other(d)
           w == Sibling(tree, x)
<1>2. op \in [kind : {"delete_fixup"}, x : Node0] /\ Deleting(tree, set, H, x) /\ x # tree.root /\ tree.color[x] = "black"
  BY <1>1, OpIs DEF DoubleBlack
<1>3. tree.parent[x] = p /\ Side(tree, x) = d /\ Other(d) = e /\ Sibling(tree, x) = w
  OBVIOUS
<1> HIDE DEF x, p, d, e, w
<1>4. Lacking(tree, set, H, x, p, d, e, w)
  BY <1>1, <1>2, <1>3, LackingHolds
<1> QED
  BY <1>1, <1>2, <1>4 DEF x, p, d, e, w

\* RedSibling preserves the invariant.
LEMMA RedSiblingStepKeeps ==
  ASSUME IInv, RedSibling
  PROVE  IInv'
<1> DEFINE x == op.x
           p == tree.parent[x]
           d == Side(tree, x)
           e == Other(d)
           w == Sibling(tree, x)
           R == Rotate(Paint(Paint(tree, w, "black"), p, "red"), d, p)
<1>1. DoubleBlack /\ x # tree.root /\ tree.color[x] = "black" /\ tree.color[w] = "red" /\ tree' = R /\ op' = op /\ set' = set
  BY DEF RedSibling, DoubleBlack
<1>2. PICK B \in [Sides -> [set -> 0..(N + 1)]], H \in [Node0 -> Nat] :
            /\ Shape(tree, set, B) /\ op \in [kind : {"delete_fixup"}, x : Node0] /\ Deleting(tree, set, H, x)
            /\ Lacking(tree, set, H, x, p, d, e, w)
  BY <1>1, LackingNow
<1>3. Rotate(Paint(Paint(tree, w, "black"), p, "red"), d, p) = R
  OBVIOUS
<1> DEFINE G == [H EXCEPT ![p] = H[w], ![w] = H[p]]
<1> HIDE DEF x, p, d, e, w, R
<1>a. /\ x # tree.root /\ tree.color[x] = "black" /\ tree.color[w] = "red"
      /\ Shape(tree, set, B) /\ Deleting(tree, set, H, x) /\ Lacking(tree, set, H, x, p, d, e, w)
  BY <1>1, <1>2
<1>4. Shape(R, set, Turned(set, B, d, p, w)) /\ Deleting(R, set, G, x)
  BY <1>3, <1>a, RedSiblingKeeps
<1> HIDE DEF G
<1>5. Good(R, set, op)
  BY <1>2, <1>4, DeleteGood DEF x
<1> QED
  BY <1>1, <1>5 DEF IInv

\* RaiseBlack preserves the invariant.
LEMMA RaiseBlackStepKeeps ==
  ASSUME IInv, RaiseBlack
  PROVE  IInv'
<1> DEFINE x == op.x
           p == tree.parent[x]
           d == Side(tree, x)
           e == Other(d)
           w == Sibling(tree, x)
           R == Paint(tree, w, "red")
<1>1. /\ DoubleBlack /\ x # tree.root /\ tree.color[x] = "black" /\ tree.color[w] = "black"
      /\ tree' = R /\ op' = [op EXCEPT !.x = p] /\ set' = set
      /\ \A s \in Sides : tree.color[tree.child[s][w]] = "black"
  BY SidesAre DEF RaiseBlack, NephewIs, Nephew, DoubleBlack
<1>2. PICK B \in [Sides -> [set -> 0..(N + 1)]], H \in [Node0 -> Nat] :
            /\ Shape(tree, set, B) /\ op \in [kind : {"delete_fixup"}, x : Node0] /\ Deleting(tree, set, H, x)
            /\ Lacking(tree, set, H, x, p, d, e, w)
  BY <1>1, LackingNow
<1>3. Paint(tree, w, "red") = R
  OBVIOUS
<1> DEFINE G == [H EXCEPT ![p] = H[x] + Black(tree, p), ![w] = H[x]]
<1> HIDE DEF x, p, d, e, w, R
<1>4. Shape(R, set, B) /\ Deleting(R, set, G, p)
  BY <1>1, <1>2, <1>3, RaiseBlackKeeps
<1> HIDE DEF G
<1>5. p \in Node0
  BY <1>2, ShapeTypes DEF Lacking
<1>6. op' \in [kind : {"delete_fixup"}, x : Node0] /\ op'.x = p
  BY <1>1, <1>2, <1>5
<1>7. Good(R, set, op')
  BY <1>4, <1>6, DeleteGood
<1> QED
  BY <1>1, <1>7 DEF IInv

\* NearNephew preserves the invariant.
LEMMA NearNephewStepKeeps ==
  ASSUME IInv, NearNephew
  PROVE  IInv'
<1> DEFINE x == op.x
           p == tree.parent[x]
           d == Side(tree, x)
           e == Other(d)
           w == Sibling(tree, x)
           v == tree.child[d][w]
           R == Rotate(Paint(Paint(tree, v, "black"), w, "red"), e, w)
<1>1. /\ DoubleBlack /\ x # tree.root /\ tree.color[x] = "black" /\ tree.color[w] = "black"
      /\ tree.color[v] = "red" /\ tree.color[tree.child[e][w]] = "black"
      /\ tree' = R /\ op' = op /\ set' = set
  BY DEF NearNephew, NephewIs, Nephew, DoubleBlack
<1>2. PICK B \in [Sides -> [set -> 0..(N + 1)]], H \in [Node0 -> Nat] :
            /\ Shape(tree, set, B) /\ op \in [kind : {"delete_fixup"}, x : Node0] /\ Deleting(tree, set, H, x)
            /\ Lacking(tree, set, H, x, p, d, e, w)
  BY <1>1, LackingNow
<1>3. Rotate(Paint(Paint(tree, v, "black"), w, "red"), e, w) = R /\ tree.child[d][w] = v
  OBVIOUS
<1> DEFINE G == [H EXCEPT ![w] = H[v], ![v] = H[w]]
<1> HIDE DEF x, p, d, e, w, v, R
<1>4. Shape(R, set, Turned(set, B, e, w, v)) /\ Deleting(R, set, G, x)
  BY <1>1, <1>2, <1>3, NearNephewKeeps
<1> HIDE DEF G
<1>5. Good(R, set, op)
  BY <1>2, <1>4, DeleteGood DEF x
<1> QED
  BY <1>1, <1>5 DEF IInv

\* RotateBlack preserves the invariant.
LEMMA RotateBlackStepKeeps ==
  ASSUME IInv, RotateBlack
  PROVE  IInv'
<1> DEFINE x == op.x
           p == tree.parent[x]
           d == Side(tree, x)
           e == Other(d)
           w == Sibling(tree, x)
           k == tree.child[e][w]
           R == Rotate(Paint(Paint(Paint(tree, w, tree.color[p]), p, "black"), k, "black"), d, p)
<1>1. /\ DoubleBlack /\ x # tree.root /\ tree.color[x] = "black" /\ tree.color[w] = "black"
      /\ tree.color[k] = "red"
      /\ tree' = R /\ op' = [op EXCEPT !.x = R.root] /\ set' = set
  BY DEF RotateBlack, NephewIs, Nephew, DoubleBlack, Leave
<1>2. PICK B \in [Sides -> [set -> 0..(N + 1)]], H \in [Node0 -> Nat] :
            /\ Shape(tree, set, B) /\ op \in [kind : {"delete_fixup"}, x : Node0] /\ Deleting(tree, set, H, x)
            /\ Lacking(tree, set, H, x, p, d, e, w)
  BY <1>1, LackingNow
<1>3. Rotate(Paint(Paint(Paint(tree, w, tree.color[p]), p, "black"), k, "black"), d, p) = R /\ tree.child[e][w] = k
  OBVIOUS
<1> DEFINE G == [H EXCEPT ![p] = H[w], ![w] = H[p], ![k] = H[k] + 1]
<1> HIDE DEF x, p, d, e, w, k, R
<1>a. /\ x # tree.root /\ tree.color[x] = "black" /\ Shape(tree, set, B) /\ Deleting(tree, set, H, x)
      /\ LastTurn(tree, set, H, x, p, d, e, w, k, R)
  BY <1>1, <1>2, <1>3 DEF LastTurn
<1>4. Shape(R, set, Turned(set, B, d, p, w)) /\ Deleting(R, set, G, R.root)
  BY <1>a, RotateBlackKeeps
<1> HIDE DEF G
<1>5. R.root \in Node0
  BY <1>4, ShapeTypes, TreeTypes
<1>6. op' \in [kind : {"delete_fixup"}, x : Node0] /\ op'.x = R.root
  BY <1>1, <1>2, <1>5
<1>7. Good(R, set, op')
  BY <1>4, <1>6, DeleteGood
<1> QED
  BY <1>1, <1>7 DEF IInv

\* DeleteDone preserves the invariant.
LEMMA DeleteDoneStepKeeps ==
  ASSUME IInv, DeleteDone
  PROVE  IInv'
<1>1. PICK B \in [Sides -> [set -> 0..(N + 1)]], H \in [Node0 -> Nat] : Shape(tree, set, B) /\ OpOK(tree, set, B, H, op)
  BY DEF IInv, Good
<1> DEFINE x == op.x
           R == Paint(tree, x, "black")
<1>2. Deleting(tree, set, H, x)
  BY <1>1, OpIs DEF DeleteDone
<1>3. (x = tree.root \/ tree.color[x] # "black") /\ tree' = R /\ set' = set /\ op' = Idle
  BY DEF DeleteDone, DoubleBlack
<1>4. Shape(R, set, B) /\ \E G \in [Node0 -> Nat] : Fine(R, set, G)
  BY <1>1, <1>2, <1>3, DeleteDoneKeeps
<1> HIDE DEF R
<1>5. Good(R, set, Idle)
  BY <1>4, IdleGood
<1> QED
  BY <1>3, <1>5 DEF IInv

\* Search preserves the invariant.
LEMMA SearchKeeps ==
  ASSUME IInv, NEW n \in Nodes, Search(n)
  PROVE  IInv'
<1>1. PICK B \in [Sides -> [set -> 0..(N + 1)]], H \in [Node0 -> Nat] : Shape(tree, set, B) /\ OpOK(tree, set, B, H, op)
  BY DEF IInv, Good
<1>2. Fine(tree, set, H)
  BY <1>1, OpIs DEF Search
<1>3. tree.root \in Node0 /\ tree.root \in set \cup {NIL} /\ (n \in set => tree.root # NIL /\ In(B, tree.root, n))
  BY <1>1, BelowRoot, ShapeTypes, TreeTypes
<1>4. op' = [kind |-> "search", key |-> n, cur |-> tree.root] /\ tree' = tree /\ set' = set
  BY DEF Search
<1>5. Searching(tree, set, B, op')
  BY <1>3, <1>4 DEF Searching
<1>6. OpOK(tree, set, B, H, op')
  BY <1>2, <1>5 DEF OpOK
<1>7. Good(tree, set, op')
  BY <1>1, <1>6, GoodIs
<1> QED
  BY <1>4, <1>7 DEF IInv

\* SearchStep preserves the invariant.
LEMMA SearchStepKeeps ==
  ASSUME IInv, SearchStep
  PROVE  IInv'
<1>1. PICK B \in [Sides -> [set -> 0..(N + 1)]], H \in [Node0 -> Nat] : Shape(tree, set, B) /\ OpOK(tree, set, B, H, op)
  BY DEF IInv, Good
<1> DEFINE k == op.key
           n == op.cur
           c == tree.child[Toward(k, n)][n]
<1>2. Fine(tree, set, H) /\ Searching(tree, set, B, op)
  BY <1>1, OpIs DEF SearchStep
<1>3. /\ op \in [kind : {"search"}, key : Nodes, cur : Node0] /\ n \in set /\ k \in Nodes /\ k # n
      /\ k \in set => In(B, n, k)
      /\ op' = [op EXCEPT !.cur = c] /\ tree' = tree /\ set' = set
  BY <1>2 DEF Searching, SearchStep
<1>4. tree.child[Toward(k, n)][n] = c
  OBVIOUS
<1> HIDE DEF c, n
<1>5. c \in set \cup {NIL}
  <2>1. Toward(k, n) \in Sides
    BY DEF Toward, Sides
  <2> QED
    BY <1>1, <1>3, <1>4, <2>1, ChildFacts
<1>6. k \in set => c # NIL /\ In(B, c, k)
  BY <1>1, <1>3, <1>4, StepDown
<1>7. c \in Node0
  BY <1>1, <1>5, ShapeTypes, NodeTypes
<1>8. op' \in [kind : {"search"}, key : Nodes, cur : Node0] /\ op'.key = k /\ op'.cur = c
  BY <1>3, <1>7
<1> HIDE DEF k
<1>9. OpOK(tree, set, B, H, op')
  BY <1>2, <1>5, <1>6, <1>8 DEF OpOK, Searching
<1>10. Good(tree, set, op')
  BY <1>1, <1>9, GoodIs
<1> QED
  BY <1>3, <1>10 DEF IInv

\* SearchDone preserves the invariant.
LEMMA SearchDoneKeeps ==
  ASSUME IInv, SearchDone
  PROVE  IInv'
<1>1. PICK B \in [Sides -> [set -> 0..(N + 1)]], H \in [Node0 -> Nat] : Shape(tree, set, B) /\ OpOK(tree, set, B, H, op)
  BY DEF IInv, Good
<1>2. Fine(tree, set, H)
  BY <1>1, OpIs DEF SearchDone
<1>3. Good(tree, set, Idle)
  BY <1>1, <1>2, IdleGood
<1> QED
  BY <1>3 DEF IInv, SearchDone

------------------------------------------------------------------------------------
\* The theorems.

\* rb_tree_init establishes the invariant.
LEMMA InitIInv == Init => IInv
<1> SUFFICES ASSUME Init PROVE IInv
  OBVIOUS
<1> DEFINE B == [d \in Sides |-> [n \in {} |-> 0]]
           H == [n \in Node0 |-> 0]
<1>1. tree \in Trees
  BY NodeTypes DEF Init, Trees, Colors, Node0
<1>2. /\ tree.root = NIL /\ set = {} /\ op = Idle /\ tree.color[NIL] = "black"
      /\ \A d \in Sides : tree.child[d][NIL] = NIL
  BY DEF Init
<1>3. B \in [Sides -> [{} -> 0..(N + 1)]] /\ H \in [Node0 -> Nat] /\ H[NIL] = 0
  BY NodeTypes
<1> HIDE DEF B, H
<1>4. Shape(tree, set, B)
  BY <1>1, <1>2, <1>3 DEF Shape, Rooted
<1>5. Fine(tree, set, H)
  BY <1>2, <1>3 DEF Fine, Balanced, Reds
<1>6. Good(tree, set, Idle)
  BY <1>3, <1>4, <1>5, IdleGood
<1> QED
  BY <1>2, <1>6 DEF IInv

\* Every step preserves the invariant.
LEMMA NextIInv == IInv /\ [Next]_vars => IInv'
<1> SUFFICES ASSUME IInv, [Next]_vars PROVE IInv'
  OBVIOUS
<1>1. ASSUME NEW n \in Nodes, Insert(n) PROVE IInv'
  BY <1>1, InsertKeeps
<1>2. ASSUME NEW n \in Nodes, DeleteOuter(n) PROVE IInv'
  BY <1>2, DeleteOuterStepKeeps
<1>3. ASSUME NEW n \in Nodes, DeleteInner(n) PROVE IInv'
  BY <1>3, DeleteInnerKeeps
<1>4. ASSUME NEW n \in Nodes, Search(n) PROVE IInv'
  BY <1>4, SearchKeeps
<1>5. CASE Step
  BY <1>5, DescendStepKeeps, LinkStepKeeps, RaiseRedStepKeeps, TurnOuterStepKeeps, RotateRedStepKeeps,
     InsertDoneStepKeeps, MinKeeps, SpliceStepKeeps, RedSiblingStepKeeps, RaiseBlackStepKeeps,
     NearNephewStepKeeps, RotateBlackStepKeeps, DeleteDoneStepKeeps, SearchStepKeeps, SearchDoneKeeps DEF Step
<1>6. CASE UNCHANGED vars
  BY <1>6 DEF vars, IInv
<1> QED
  BY <1>1, <1>2, <1>3, <1>4, <1>5, <1>6 DEF Next

\* Every reachable tree is a search tree with the bounds and black heights that the
\* call in progress leaves: the inductive invariant of rbtree.c, for every number of nodes.
THEOREM RbtreeInvariant == Spec => []IInv
<1>1. Init => IInv
  BY InitIInv
<1>2. IInv /\ [Next]_vars => IInv'
  BY NextIInv
<1> QED
  BY <1>1, <1>2, PTL DEF Spec

\* A search that ends has found its key or shown that no node has it.
LEMMA InvSearchExact == IInv => SearchExact
<1> SUFFICES ASSUME IInv, op.kind = "search", op.cur \in {NIL, op.key} PROVE op.cur = op.key <=> op.key \in set
  BY DEF SearchExact
<1>1. PICK B \in [Sides -> [set -> 0..(N + 1)]], H \in [Node0 -> Nat] : Shape(tree, set, B) /\ OpOK(tree, set, B, H, op)
  BY DEF IInv, Good
<1>2. Searching(tree, set, B, op)
  BY <1>1, OpIs
<1>3. op.key \in Nodes /\ NIL \notin Nodes
  BY <1>2, NodeTypes DEF Searching
<1> QED
  BY <1>2, <1>3 DEF Searching

\* SearchExact: rb_tree_search returns a node exactly when the key is in the tree.
THEOREM SearchesAreExact == Spec => []SearchExact
BY RbtreeInvariant, InvSearchExact, PTL

\* The invariant implies the type invariant.
LEMMA InvTypeOK == IInv => TypeOK
<1> SUFFICES ASSUME IInv PROVE TypeOK
  OBVIOUS
<1>1. PICK B \in [Sides -> [set -> 0..(N + 1)]], H \in [Node0 -> Nat] : Shape(tree, set, B) /\ OpOK(tree, set, B, H, op)
  BY DEF IInv, Good
<1>2. tree \in Trees /\ set \subseteq Nodes
  BY <1>1 DEF Shape
<1>3. op \in [kind : {"idle"}]
          \cup [kind : {"descend"}, z : Nodes, y : Nodes \cup {NIL}, x : Nodes \cup {NIL}]
          \cup [kind : {"insert_fixup"}, z : Nodes] \cup [kind : {"min"}, z : Nodes, y : Nodes]
          \cup [kind : {"delete_fixup"}, x : Nodes \cup {NIL}]
          \cup [kind : {"search"}, key : Nodes, cur : Nodes \cup {NIL}]
  BY <1>1 DEF OpOK, Idle, Descending, Succeeding, Searching, Node0
<1> QED
  BY <1>2, <1>3 DEF TypeOK, Trees, Node0, Colors

------------------------------------------------------------------------------------
\* Below.

\* The children of the nodes of X.
Kids(T, X) == {T.child[d][m] : d \in Sides, m \in X}
\* h[k] are the nodes that are reached from n in at most k steps.
Levels(T, n, h, m) == h = [k \in 0..m |-> IF k = 0 THEN {n} ELSE h[k - 1] \cup Kids(T, h[k - 1])]

\* The levels can be tabulated.
LEMMA LevelsExist ==
  ASSUME NEW T, NEW n
  PROVE  \A m \in Nat : \E h : Levels(T, n, h, m)
<1> DEFINE P == {m \in Nat : \E h : Levels(T, n, h, m)}
<1>1. 0 \in P
  <2> DEFINE f == [k \in 0..0 |-> {n}]
  <2>1. f = [k \in 0..0 |-> f[k]] /\ \A k \in 0..0 : f[k] = {n} /\ k = 0
    OBVIOUS
  <2> HIDE DEF f
  <2>2. Levels(T, n, f, 0)
    BY <2>1 DEF Levels
  <2> QED
    BY <2>2
<1>2. ASSUME NEW m \in Nat, m \in P PROVE m + 1 \in P
  <2>1. PICK h : Levels(T, n, h, m)
    BY <1>2
  <2> DEFINE X == h[m] \cup Kids(T, h[m])
             g == [k \in 0..(m + 1) |-> IF k = m + 1 THEN X ELSE h[k]]
  <2>2. \A k \in 0..m : h[k] = IF k = 0 THEN {n} ELSE h[k - 1] \cup Kids(T, h[k - 1])
    BY <2>1 DEF Levels
  <2> HIDE DEF X
  <2>3. \A k \in 0..(m + 1) : g[k] = IF k = m + 1 THEN X ELSE h[k]
    OBVIOUS
  <2>4. g = [k \in 0..(m + 1) |-> g[k]]
    OBVIOUS
  <2> HIDE DEF g
  <2>5. ASSUME NEW k \in 0..(m + 1) PROVE g[k] = IF k = 0 THEN {n} ELSE g[k - 1] \cup Kids(T, g[k - 1])
    <3>1. k # 0 => k - 1 \in 0..m /\ g[k - 1] = h[k - 1]
      BY <2>3
    <3>2. CASE k = m + 1
      BY <2>3, <3>1, <3>2 DEF X
    <3>3. CASE k # m + 1
      <4>1. k \in 0..m
        BY <3>3
      <4>2. g[k] = h[k] /\ h[k] = IF k = 0 THEN {n} ELSE h[k - 1] \cup Kids(T, h[k - 1])
        BY <2>2, <2>3, <3>3, <4>1
      <4> QED
        BY <3>1, <4>2
    <3> QED
      BY <3>2, <3>3
  <2>6. Levels(T, n, g, m + 1)
    BY <2>4, <2>5 DEF Levels
  <2> QED
    BY <2>6
<1> SUFFICES ASSUME NEW m \in Nat PROVE m \in P
  OBVIOUS
<1> HIDE DEF P
<1>3. \A k \in 0..m : k # m /\ k \in P => k + 1 \in P
  BY <1>2
<1>4. \A k \in 0..m : k \in P
  BY <1>1, <1>3, UpTo
<1> QED
  BY <1>4

\* Below computes the levels.
LEMMA BelowLevels ==
  ASSUME NEW n
  PROVE  \E h : Levels(tree, n, h, N) /\ Below(n) = h[N] \ {NIL}
<1> DEFINE h == CHOOSE h : Levels(tree, n, h, N)
<1>1. Levels(tree, n, h, N)
  BY NAssumption, LevelsExist
<1>2. Below(n) = h[N] \ {NIL}
  BY DEF Below, Levels, Kids
<1> QED
  BY <1>1, <1>2

\* The bounds of m lie within those of a.
Within(B, a, m) == \A d \in Sides : ~Lt(d, B[d][m], B[d][a])

\* The bounds of a child lie within those of its parent.
LEMMA ChildWithin ==
  ASSUME NEW T, NEW S, NEW B, Shape(T, S, B), NEW a \in S, NEW m \in S, Within(B, a, m),
         NEW d \in Sides, NEW c, T.child[d][m] = c, c # NIL
  PROVE  c \in S /\ Within(B, a, c)
<1> DEFINE e == Other(d)
<1>1. c \in S /\ B[d][c] = B[d][m] /\ B[e][c] = m
  BY ChildFacts
<1>2. e \in Sides /\ \A s \in Sides : s = d \/ s = e
  BY SidesAre
<1>3. m \in Int /\ B[e][m] \in Int /\ B[e][a] \in Int
  BY <1>2, ShapeTypes
<1>4. Lt(e, B[e][m], m)
  BY <1>2 DEF Shape, In
<1> HIDE DEF e
<1>5. ~Lt(e, m, B[e][a])
  BY <1>2, <1>3, <1>4, LtOrder DEF Within
<1> QED
  BY <1>1, <1>2, <1>5 DEF Within

\* A node belongs below a exactly when its bounds lie within those of a.
LEMMA WithinIs ==
  ASSUME NEW T, NEW S, NEW B, Shape(T, S, B), NEW a \in S, NEW m \in S
  PROVE  Within(B, a, m) <=> In(B, a, m)
<1>1. a \in Int /\ m \in Int /\ \A d \in Sides : B[d][a] \in Int /\ B[d][m] \in Int
  BY ShapeTypes
<1>2. \A d \in Sides : Lt(d, B[d][m], m) /\ Lt(d, B[d][a], a)
  BY DEF Shape, In
<1>3. ASSUME Within(B, a, m) PROVE In(B, a, m)
  <2> SUFFICES ASSUME NEW d \in Sides PROVE Lt(d, B[d][a], m)
    BY DEF In
  <2> QED
    BY <1>1, <1>2, <1>3, LtOrder DEF Within
<1>4. ASSUME In(B, a, m) PROVE Within(B, a, m)
  <2>1. CASE m = a
    BY <1>1, <2>1, LtOrder DEF Within
  <2>2. ASSUME NEW d \in Sides, Lt(d, m, a) PROVE Within(B, a, m)
    <3> DEFINE e == Other(d)
    <3>1. ~Lt(d, B[d][m], B[d][a]) /\ ~Lt(d, a, B[e][m])
      BY <1>4, <2>2, Laminar
    <3>2. e \in Sides /\ \A s \in Sides : s = d \/ s = e
      BY SidesAre
    <3>3. Lt(e, B[e][m], a) = Lt(d, a, B[e][m])
      BY <1>1, <3>2, LtOrder
    <3> HIDE DEF e
    <3>4. ~Lt(e, B[e][m], B[e][a])
      BY <1>1, <1>2, <3>1, <3>2, <3>3, LtOrder
    <3> QED
      BY <3>1, <3>2, <3>4 DEF Within
  <2>3. "left" \in Sides /\ (m = a \/ Lt("left", m, a) \/ Lt("right", m, a)) /\ "right" \in Sides
    BY <1>1 DEF Lt, Sides
  <2> QED
    BY <2>1, <2>2, <2>3
<1> QED
  BY <1>3, <1>4

\* What is reached from a lies between its bounds ...
LEMMA LevelsWithin ==
  ASSUME NEW T, NEW S, NEW B, Shape(T, S, B), NEW a \in S, NEW h, Levels(T, a, h, N)
  PROVE  \A m \in h[N] : m = NIL \/ (m \in S /\ In(B, a, m))
<1> DEFINE P == {k \in 0..N : \A m \in h[k] : m = NIL \/ (m \in S /\ Within(B, a, m))}
<1>1. \A k \in 0..N : h[k] = IF k = 0 THEN {a} ELSE h[k - 1] \cup Kids(T, h[k - 1])
  BY DEF Levels
<1>2. 0 \in P
  <2>1. Within(B, a, a)
    BY ShapeTypes, LtOrder DEF Within
  <2>2. 0 \in 0..N /\ h[0] = {a}
    <3>1. 0 \in 0..N
      BY NAssumption
    <3> QED
      BY <1>1, <3>1, Zenon
  <2> QED
    BY <2>1, <2>2
<1>3. ASSUME NEW k \in 0..N, k # N, k \in P PROVE k + 1 \in P
  <2>1. k + 1 \in 0..N /\ k + 1 # 0 /\ (k + 1) - 1 = k
    BY <1>3, NAssumption
  <2>2. h[k + 1] = h[k] \cup Kids(T, h[k])
    BY <1>1, <2>1
  <2>3. ASSUME NEW m \in Kids(T, h[k]) PROVE m = NIL \/ (m \in S /\ Within(B, a, m))
    <3>1. PICK d \in Sides, b \in h[k] : T.child[d][b] = m
      BY DEF Kids
    <3>2. b = NIL \/ (b \in S /\ Within(B, a, b))
      BY <1>3
    <3>3. T.child[d][NIL] = NIL
      BY DEF Shape
    <3> QED
      BY <3>1, <3>2, <3>3, ChildWithin
  <2> QED
    BY <1>3, <2>1, <2>2, <2>3
<1> HIDE DEF P
<1>4. N \in 0..N /\ \A k \in 0..N : k \in P
  BY <1>2, <1>3, UpTo, NAssumption
<1> QED
  BY <1>4, WithinIs DEF P

\* ... and every such node is reached in N steps.
LEMMA LevelsReach ==
  ASSUME NEW T, NEW S, NEW B, Shape(T, S, B), NEW a \in S, NEW h, Levels(T, a, h, N),
         NEW m \in S, In(B, a, m)
  PROVE  m \in h[N]
<1> DEFINE P == {k \in 0..N : \E b \in h[k] : b \in S /\ In(B, b, m) /\ (b = m \/ Width(B, b) + k <= N + 1)}
<1>1. \A k \in 0..N : h[k] = IF k = 0 THEN {a} ELSE h[k - 1] \cup Kids(T, h[k - 1])
  BY DEF Levels
<1>2. 0 \in P
  <2>1. Width(B, a) + 0 <= N + 1
    BY WidthIs, NAssumption
  <2>2. 0 \in 0..N /\ h[0] = {a}
    <3>1. 0 \in 0..N
      BY NAssumption
    <3> QED
      BY <1>1, <3>1, Zenon
  <2> QED
    BY <2>1, <2>2
<1>3. ASSUME NEW k \in 0..N, k # N, k \in P PROVE k + 1 \in P
  <2>1. k + 1 \in 0..N /\ k + 1 # 0 /\ (k + 1) - 1 = k
    BY <1>3, NAssumption
  <2>2. h[k + 1] = h[k] \cup Kids(T, h[k])
    BY <1>1, <2>1
  <2>3. PICK b \in h[k] : b \in S /\ In(B, b, m) /\ (b = m \/ Width(B, b) + k <= N + 1)
    BY <1>3
  <2>4. CASE b = m
    BY <2>1, <2>2, <2>3, <2>4
  <2>5. CASE b # m
    <3> DEFINE d == Toward(m, b)
               c == T.child[d][b]
    <3>1. m \in Nodes /\ m \in Int /\ b \in Int
      BY <2>3, ShapeTypes
    <3>2. d \in Sides
      BY <2>5, <3>1, TowardIs
    <3>3. c # NIL /\ c \in S /\ In(B, c, m)
      BY <2>3, <2>5, <3>1, StepDown
    <3>4. c \in Kids(T, h[k])
      BY <2>3, <3>2 DEF Kids
    <3>5. Width(B, c) < Width(B, b) /\ Width(B, c) \in Nat /\ Width(B, b) \in Nat
      BY <2>3, <3>2, <3>3, WidthIs
    <3> HIDE DEF c
    <3>6. Width(B, c) + (k + 1) <= N + 1
      BY <2>3, <2>5, <3>5, NAssumption
    <3> QED
      BY <2>1, <2>2, <3>3, <3>4, <3>6
  <2> QED
    BY <2>4, <2>5
<1> HIDE DEF P
<1>4. N \in 0..N /\ N \in P
  BY <1>2, <1>3, UpTo, NAssumption
<1>5. PICK b \in h[N] : b \in S /\ In(B, b, m) /\ (b = m \/ Width(B, b) + N <= N + 1)
  BY <1>4 DEF P
<1>6. Width(B, b) \in Nat /\ 2 <= Width(B, b)
  BY <1>5, WidthIs
<1> QED
  BY <1>5, <1>6, NAssumption

\* The subtree at a holds the keys between a's bounds.
LEMMA BelowIs ==
  ASSUME NEW B, Shape(tree, set, B), NEW a \in set
  PROVE  Below(a) = {m \in set : In(B, a, m)}
<1>1. PICK h : Levels(tree, a, h, N) /\ Below(a) = h[N] \ {NIL}
  BY BelowLevels
<1>2. \A m \in h[N] : m = NIL \/ (m \in set /\ In(B, a, m))
  BY <1>1, LevelsWithin
<1>3. \A m \in set : In(B, a, m) => m \in h[N]
  BY <1>1, LevelsReach
<1>4. NIL \notin set
  BY ShapeTypes
<1> QED
  BY <1>1, <1>2, <1>3, <1>4

\* There is nothing below the sentinel.
LEMMA BelowNIL ==
  ASSUME NEW B, Shape(tree, set, B)
  PROVE  Below(NIL) = {}
<1>1. PICK h : Levels(tree, NIL, h, N) /\ Below(NIL) = h[N] \ {NIL}
  BY BelowLevels
<1> DEFINE P == {k \in 0..N : h[k] \subseteq {NIL}}
<1>2. \A k \in 0..N : h[k] = IF k = 0 THEN {NIL} ELSE h[k - 1] \cup Kids(tree, h[k - 1])
  BY <1>1 DEF Levels
<1>3. 0 \in P
  <2>1. 0 \in 0..N /\ h[0] = {NIL}
    <3>1. 0 \in 0..N
      BY NAssumption
    <3> QED
      BY <1>2, <3>1, Zenon
  <2> QED
    BY <2>1
<1>4. ASSUME NEW k \in 0..N, k # N, k \in P PROVE k + 1 \in P
  <2>1. k + 1 \in 0..N /\ k + 1 # 0 /\ (k + 1) - 1 = k
    BY <1>4, NAssumption
  <2>2. h[k + 1] = h[k] \cup Kids(tree, h[k])
    BY <1>2, <2>1
  <2>3. Kids(tree, h[k]) \subseteq {NIL}
    BY <1>4 DEF Kids, Shape
  <2> QED
    BY <1>4, <2>1, <2>2, <2>3
<1> HIDE DEF P
<1>5. N \in 0..N /\ N \in P
  BY <1>3, <1>4, UpTo, NAssumption
<1> QED
  BY <1>1, <1>5 DEF P

\* The invariant implies TreeExact.
LEMMA InvTreeExact == IInv => TreeExact
<1> SUFFICES ASSUME IInv PROVE TreeExact
  OBVIOUS
<1>1. PICK B \in [Sides -> [set -> 0..(N + 1)]], H \in [Node0 -> Nat] : Shape(tree, set, B) /\ OpOK(tree, set, B, H, op)
  BY DEF IInv, Good
<1>2. Below(tree.root) = set
  <2>1. CASE tree.root = NIL
    BY <1>1, <2>1, BelowNIL, BelowRoot DEF Shape
  <2>2. CASE tree.root # NIL
    <3>1. tree.root \in set
      BY <1>1, <2>2 DEF Shape, Rooted
    <3>2. \A k \in set : In(B, tree.root, k)
      BY <1>1, <3>1, BelowRoot, ShapeTypes
    <3>3. Below(tree.root) = {m \in set : In(B, tree.root, m)}
      BY <1>1, <3>1, BelowIs
    <3> QED
      BY <3>2, <3>3
  <2> QED
    BY <2>1, <2>2
<1>3. ASSUME NEW n \in set, NEW d \in Sides, NEW m \in Below(tree.child[d][n])
      PROVE  m \in set /\ Lt(d, m, n)
  <2> DEFINE c == tree.child[d][n]
             e == Other(d)
  <2>1. c # NIL
    BY <1>1, <1>3, BelowNIL
  <2>2. c \in set /\ B[e][c] = n
    BY <1>1, <2>1, ChildFacts
  <2> HIDE DEF c
  <2>3. m \in set /\ In(B, c, m)
    BY <1>1, <1>3, <2>2, BelowIs DEF c
  <2>4. e \in Sides /\ m \in Int /\ n \in Int
    BY <1>1, <2>3, SidesAre, ShapeTypes
  <2>5. Lt(e, n, m)
    BY <2>2, <2>3, <2>4 DEF In
  <2>6. Lt(e, n, m) = Lt(d, m, n)
    BY <2>4, LtOrder
  <2> QED
    BY <2>3, <2>5, <2>6
<1>4. ASSUME NEW n \in set
      PROVE  /\ \A m \in Below(tree.child["left"][n]) : Less(m, n)
             /\ \A m \in Below(tree.child["right"][n]) : Less(n, m)
             /\ \A d \in Sides : tree.child[d][n] # NIL => tree.parent[tree.child[d][n]] = n
  <2>1. "left" \in Sides /\ "right" \in Sides
    BY DEF Sides
  <2>2. \A m \in Below(tree.child["left"][n]) : Lt("left", m, n)
    BY <1>3, <2>1
  <2>3. \A m \in Below(tree.child["right"][n]) : Lt("right", m, n)
    BY <1>3, <2>1
  <2>4. \A d \in Sides : tree.child[d][n] # NIL => tree.parent[tree.child[d][n]] = n
    BY <1>1, ChildFacts
  <2> QED
    BY <2>2, <2>3, <2>4 DEF Lt, Less
<1>5. tree.root # NIL => tree.parent[tree.root] = NIL
  BY <1>1 DEF Shape, Rooted
<1>6. tree.color[NIL] = "black" /\ \A d \in Sides : tree.child[d][NIL] = NIL
  BY <1>1 DEF Shape
<1>7. TypeOK
  BY InvTypeOK
<1> QED
  BY <1>2, <1>4, <1>5, <1>6, <1>7 DEF TreeExact

\* TreeExact: in the middle of any rotation or splice, too, the tree holds exactly the nodes
\* inserted and not deleted, in order, with parents that mirror the children.
THEOREM TreeIsExact == Spec => []TreeExact
BY RbtreeInvariant, InvTreeExact, PTL

\* Only the root has the root in its subtree.
LEMMA AboveRoot ==
  ASSUME NEW T, NEW S, NEW B, Shape(T, S, B), T.root \in S, NEW m \in S, In(B, m, T.root)
  PROVE  m = T.root
<1> DEFINE t == T.root
<1>1. m \in Int /\ t \in Int /\ m \in Nodes
  BY ShapeTypes
<1>2. ASSUME NEW d \in Sides, Lt(d, t, m) PROVE FALSE
  <2>1. ~Lt(d, m, B[Other(d)][t])
    BY <1>2, Laminar
  <2>2. B[Other(d)][t] = End(Other(d))
    <3>1. t # NIL
      BY ShapeTypes
    <3> QED
      BY <3>1, SidesAre DEF Shape, Rooted
  <2>3. Lt(d, m, End(Other(d)))
    BY <1>1, NAssumption DEF Sides, Other, Lt, End, Nodes
  <2> QED
    BY <2>1, <2>2, <2>3
<1>3. "left" \in Sides /\ "right" \in Sides /\ (m = t \/ Lt("left", t, m) \/ Lt("right", t, m))
  BY <1>1 DEF Sides, Lt
<1> QED
  BY <1>2, <1>3

\* The nodes above a child are the child and those above its parent.
LEMMA AboveChild ==
  ASSUME NEW T, NEW S, NEW B, Shape(T, S, B), NEW n \in S, NEW d \in Sides, NEW c, T.child[d][n] = c, c # NIL
  PROVE  /\ c \in S /\ ~In(B, c, n)
         /\ \A m \in S : In(B, m, c) <=> m = c \/ In(B, m, n)
<1> DEFINE e == Other(d)
<1>1. c \in S /\ B[d][c] = B[d][n] /\ B[e][c] = n /\ Lt(d, c, n) /\ Lt(d, B[d][n], c)
  BY ChildFacts
<1>2. e \in Sides /\ Other(e) = d /\ e # d /\ \A s \in Sides : s = d \/ s = e
  BY SidesAre
<1>3. n \in Int /\ c \in Int /\ \A m \in S, s \in Sides : m \in Int /\ B[s][m] \in Int
  BY <1>1, ShapeTypes
<1>4. \A m \in S, s \in Sides : Lt(s, B[s][m], m)
  BY DEF Shape, In
<1> HIDE DEF e
<1>5. ~In(B, c, n)
  BY <1>1, <1>2, <1>3, LtOrder DEF In
<1>6. In(B, c, c)
  BY <1>1, <1>4 DEF In
<1>7. ASSUME NEW m \in S, In(B, m, n) PROVE In(B, m, c)
  BY <1>1, <1>7, WithinIs, ChildWithin
<1>8. ASSUME NEW m \in S, In(B, m, c), m # c PROVE In(B, m, n)
  <2>1. ASSUME Lt(d, c, m) PROVE In(B, m, n)
    <3>1. ~Lt(d, m, n)
      <4>1. ~Lt(d, m, B[e][c])
        BY <1>1, <1>8, <2>1, Laminar DEF e
      <4> QED
        BY <1>1, <4>1
    <3>2. Lt(d, B[d][m], n)
      BY <1>1, <1>2, <1>3, <1>8, LtOrder DEF In
    <3>3. Lt(e, B[e][m], m) /\ Lt(e, m, n) = Lt(d, n, m)
      BY <1>2, <1>3, <1>4, LtOrder DEF e
    <3>4. Lt(e, B[e][m], n)
      BY <1>2, <1>3, <3>1, <3>3, LtOrder
    <3> QED
      BY <1>2, <3>2, <3>4 DEF In
  <2>2. ASSUME Lt(e, c, m) PROVE In(B, m, n)
    <3>1. ~Lt(e, n, B[e][m]) /\ ~Lt(e, m, B[d][n])
      BY <1>1, <1>2, <1>8, <2>2, Laminar
    <3>2. Lt(d, B[d][m], n)
      BY <1>1, <1>2, <1>3, <1>8, LtOrder DEF In
    <3>3. B[e][m] # n
      <4>1. SUFFICES ASSUME B[e][m] = n PROVE FALSE
        OBVIOUS
      <4>2. n # End(e)
        <5>1. n \in Nodes
          BY ShapeTypes
        <5> QED
          BY <5>1, NAssumption DEF Nodes, End
      <4>3. ~Lt(d, B[d][m], B[d][n])
        BY <1>2, <4>1, <4>2, BoundsNest
      <4>4. Lt(d, B[d][m], m) /\ Lt(e, m, B[d][n]) = Lt(d, B[d][n], m)
        BY <1>2, <1>3, <1>4, LtOrder DEF e
      <4> QED
        BY <1>3, <3>1, <4>3, <4>4, LtOrder
    <3>4. Lt(e, B[e][m], n)
      BY <1>2, <1>3, <3>1, <3>3, LtOrder
    <3> QED
      BY <1>2, <3>2, <3>4 DEF In
  <2>3. Lt(d, c, m) \/ Lt(e, c, m)
    BY <1>1, <1>2, <1>3, <1>8, LtOrder DEF e
  <2> QED
    BY <2>1, <2>2, <2>3
<1> QED
  BY <1>1, <1>5, <1>6, <1>7, <1>8

\* The invariant implies RedBlack: the black nodes above n and its black height add up to the root's.
LEMMA InvRedBlack == IInv => RedBlack
<1> SUFFICES ASSUME IInv, op = Idle
             PROVE  /\ tree.color[tree.root] = "black"
                    /\ \A n \in set, d \in Sides : tree.color[n] = "red" => tree.color[tree.child[d][n]] = "black"
                    /\ LET ends == {n \in set : \E d \in Sides : tree.child[d][n] = NIL}
                           blacks(n) == Cardinality({m \in set : n \in Below(m) /\ tree.color[m] = "black"})
                       IN \A m, n \in ends : blacks(m) = blacks(n)
  BY DEF RedBlack
<1>1. PICK B \in [Sides -> [set -> 0..(N + 1)]], H \in [Node0 -> Nat] : Shape(tree, set, B) /\ OpOK(tree, set, B, H, op)
  BY DEF IInv, Good
<1> DEFINE none == NIL
<1>2. Balanced(tree, set, H, none, "left") /\ Reds(tree, set, NIL, NIL) /\ tree.color[tree.root] = "black"
  BY <1>1, OpIs DEF Fine
<1> HIDE DEF none
<1>3. /\ H[NIL] = 0 /\ tree.color[NIL] = "black" /\ \A n \in Node0 : H[n] \in Nat /\ Black(tree, n) \in {0, 1}
      /\ \A n \in set : n \in Node0 /\ n # NIL
      /\ \A n \in set, s \in Sides : /\ H[n] = H[tree.child[s][n]] + Extra(none, "left", n, s) + Black(tree, n)
                                     /\ tree.child[s][n] \in Node0 /\ tree.child[s][n] # NIL => tree.child[s][n] \in set
      /\ tree.root \in Node0
  BY <1>1, <1>2, Heights
<1>4. \A n \in set, s \in Sides : Extra(none, "left", n, s) = 0
  BY <1>3 DEF Extra, none
<1>5. \A n \in set, d \in Sides : tree.color[n] = "red" => tree.color[tree.child[d][n]] = "black"
  <2> SUFFICES ASSUME NEW n \in set, NEW d \in Sides, tree.color[n] = "red"
               PROVE  tree.color[tree.child[d][n]] = "black"
    OBVIOUS
  <2>1. tree.color[tree.child[d][n]] \in Colors
    BY <1>1, <1>3, ShapeTypes, TreeTypes
  <2> QED
    BY <1>2, <1>3, <2>1 DEF Reds, Colors
<1> DEFINE A(n) == {m \in set : In(B, m, n) /\ tree.color[m] = "black"}
           K(n) == Cardinality(A(n))
           total == H[tree.root]
           P == {n \in set : K(n) + H[n] = total + Black(tree, n)}
<1>6. IsFiniteSet(set) /\ \A n : IsFiniteSet(A(n)) /\ K(n) \in Nat
  <2>1. IsFiniteSet(set)
    <3>1. IsFiniteSet(Nodes)
      BY NAssumption, FS_Interval DEF Nodes
    <3> QED
      BY <1>1, <3>1, FS_Subset DEF Shape
  <2>2. ASSUME NEW n PROVE IsFiniteSet(A(n)) /\ K(n) \in Nat
    <3>1. A(n) \subseteq set
      OBVIOUS
    <3> HIDE DEF A
    <3> QED
      BY <2>1, <3>1, FS_Subset, FS_CardinalityType
  <2> QED
    BY <2>1, <2>2
<1>7. tree.root \in set => tree.root \in P
  <2> SUFFICES ASSUME tree.root \in set PROVE tree.root \in P
    OBVIOUS
  <2>1. A(tree.root) = {tree.root}
    <3>1. \A m \in set : In(B, m, tree.root) => m = tree.root
      BY <1>1, AboveRoot
    <3>2. In(B, tree.root, tree.root)
      BY <1>1 DEF Shape
    <3> QED
      BY <1>2, <3>1, <3>2
  <2>2. K(tree.root) = 1
    BY <2>1, FS_Singleton
  <2>3. Black(tree, tree.root) = 1 /\ total \in Nat
    BY <1>2, <1>3 DEF Black
  <2> HIDE DEF K
  <2>4. K(tree.root) + H[tree.root] = total + Black(tree, tree.root)
    BY <2>2, <2>3
  <2> QED
    BY <2>4
<1>8. ASSUME NEW n \in set \cap P, NEW d \in Sides, tree.child[d][n] \in set PROVE tree.child[d][n] \in P
  <2> DEFINE c == tree.child[d][n]
  <2>1. c # NIL /\ c \in set /\ n \in set
    BY <1>3, <1>8
  <2>2. tree.child[d][n] = c
    OBVIOUS
  <2> HIDE DEF c
  <2>3. ~In(B, c, n) /\ \A m \in set : In(B, m, c) <=> m = c \/ In(B, m, n)
    BY <1>1, <2>1, <2>2, AboveChild
  <2>4. A(c) = (IF tree.color[c] = "black" THEN A(n) \cup {c} ELSE A(n)) /\ c \notin A(n)
    BY <2>1, <2>3
  <2>5. IsFiniteSet(A(n)) /\ K(n) \in Nat
    BY <1>6
  <2>6. K(c) = K(n) + Black(tree, c)
    <3> HIDE DEF A
    <3>1. Cardinality(A(n) \cup {c}) = Cardinality(A(n)) + 1
      BY <2>4, <2>5, FS_AddElement
    <3> QED
      BY <2>4, <2>5, <3>1 DEF Black
  <2>7. H[n] = H[c] + Black(tree, n) /\ H[c] \in Nat /\ Black(tree, n) \in {0, 1} /\ Black(tree, c) \in {0, 1} /\ total \in Nat
    BY <1>3, <1>4, <2>1, <2>2
  <2>8. K(n) + H[n] = total + Black(tree, n)
    BY <1>8
  <2> HIDE DEF K, total
  <2>9. K(c) + H[c] = total + Black(tree, c)
    BY <2>5, <2>6, <2>7, <2>8
  <2> QED
    BY <2>1, <2>2, <2>9
<1> HIDE DEF A, K, P
<1>9. set \subseteq P
  BY <1>1, <1>7, <1>8, TopDown
<1>10. ASSUME NEW n \in set, NEW d \in Sides, tree.child[d][n] = NIL PROVE K(n) = total
  <2>1. K(n) + H[n] = total + Black(tree, n)
    BY <1>9 DEF P
  <2>2. H[n] = Black(tree, n) /\ Black(tree, n) \in {0, 1} /\ total \in Nat /\ K(n) \in Nat
    BY <1>3, <1>4, <1>6, <1>10
  <2> HIDE DEF total
  <2> QED
    BY <2>1, <2>2
<1>11. \A n \in set : {m \in set : n \in Below(m) /\ tree.color[m] = "black"} = A(n)
  BY <1>1, BelowIs DEF A
<1> DEFINE blacks(n) == Cardinality({m \in set : n \in Below(m) /\ tree.color[m] = "black"})
<1>12. \A n \in set : blacks(n) = K(n)
  BY <1>11 DEF K
<1> HIDE DEF blacks, total
<1>13. \A m, n \in {k \in set : \E d \in Sides : tree.child[d][k] = NIL} : blacks(m) = blacks(n)
  BY <1>10, <1>12
<1> QED
  BY <1>2, <1>5, <1>13 DEF blacks

\* RedBlack: between calls the tree that rb_insert_fixup and rb_delete_fixup leave is balanced.
THEOREM TreeIsRedBlack == Spec => []RedBlack
BY RbtreeInvariant, InvRedBlack, PTL
====================================================================================
