-------------------------------- MODULE SchedProofs --------------------------------
(***************************************************************************)
(* Proofs about the scheduler for every number of tasks, every set of      *)
(* priorities, every mix of system calls, signals and keys, and every      *)
(* nesting limit: types, the nesting level, wake-ups of the terminal's     *)
(* readers, deadlines; then the regime in which handlers run masked.       *)
(***************************************************************************)
EXTENDS Sched, SetLemmas, SequenceTheorems

------------------------------------------------------------------------------------
(* The inductive invariant of the types *)

FramesCounted == IsFiniteSet(Frames) /\ nest = Leaked + Cardinality(Frames)

\* do_fork runs at the bottom of the stack, above the system call's return, so its child
\* is registered once.
ForkAtBottom ==
    \A t \in Tasks : \A k \in DOMAIN stack[t] :
        /\ FromBottom(stack[t], k) \in {"fork", "register"} => k = 3
        /\ FromBottom(stack[t], k) = "register" => child[t] \in Tasks

\* A task that is not created yet is not scheduled and has nothing to do.
NoNewQueued == \A p \in Priorities : \A i \in 1..Len(ready[p]) : state[ready[p][i]] # "NEW"
NoNewIn(s) ==
    \A k \in DOMAIN s : FromBottom(s, k) \in Tasks => state[FromBottom(s, k)] # "NEW"
NewIsFresh ==
    /\ \A t \in Tasks : state[t] = "NEW" => stack[t] = <<>> /\ t # cur /\ t # sp
    /\ NoNewQueued
    /\ \A t \in Tasks : NoNewIn(stack[t])

\* The types of everything but the stacks and the level.
DataTypes ==
    /\ state \in [Tasks -> States] /\ cur \in Tasks /\ sp \in Tasks /\ torn \in BOOLEAN
    /\ ready \in [Priorities -> Seq(Tasks)] /\ waitq \in Seq(Tasks)
    /\ sleepq \in Seq([task : Tasks, left : Nat]) /\ due \in [Tasks -> Nat]
    /\ line_ready \in BOOLEAN /\ need_resched \in BOOLEAN /\ masked \in BOOLEAN
    /\ pending \in [Tasks -> SUBSET Signals] /\ listed \subseteq Tasks
    /\ parent \in [Tasks -> Tasks \cup {NoTask}] /\ child \in [Tasks -> Tasks \cup {NoTask}]

IInv == TypeOK /\ FramesCounted /\ ForkAtBottom /\ NewIsFresh

------------------------------------------------------------------------------------
(* Kernel stacks *)

\* Pushing on a stack leaves what is below in its place, counted from the bottom.
LEMMA PushKeeps ==
  ASSUME NEW p \in Seq(Steps), NEW s \in Seq(Steps)
  PROVE  /\ p \o s \in Seq(Steps) /\ Len(p \o s) = Len(p) + Len(s)
         /\ DOMAIN (p \o s) = 1..(Len(p) + Len(s)) /\ DOMAIN s = 1..Len(s)
         /\ \A k \in 1..Len(s) : FromBottom(p \o s, k) = FromBottom(s, k)
         /\ \A k \in (Len(s) + 1)..(Len(p) + Len(s)) :
              /\ Len(p) + Len(s) + 1 - k \in DOMAIN p
              /\ FromBottom(p \o s, k) = p[Len(p) + Len(s) + 1 - k]
<1>1. Len(p) \in Nat /\ Len(s) \in Nat /\ p \o s \in Seq(Steps)
  OBVIOUS
<1>2. /\ Len(p \o s) = Len(p) + Len(s)
      /\ \A i \in 1..(Len(p) + Len(s)) :
            (p \o s)[i] = IF i <= Len(p) THEN p[i] ELSE s[i - Len(p)]
  OBVIOUS
<1>3. DOMAIN (p \o s) = 1..(Len(p) + Len(s)) /\ DOMAIN s = 1..Len(s) /\ DOMAIN p = 1..Len(p)
  BY <1>1, <1>2
<1>4. ASSUME NEW k \in 1..Len(s) PROVE FromBottom(p \o s, k) = FromBottom(s, k)
  <2> DEFINE i == Len(p) + Len(s) + 1 - k
  <2>1. i \in 1..(Len(p) + Len(s)) /\ ~(i <= Len(p)) /\ i - Len(p) = Len(s) + 1 - k
    BY <1>1
  <2>2. (p \o s)[i] = s[i - Len(p)]
    BY <1>2, <2>1
  <2> QED
    BY <1>2, <2>1, <2>2 DEF FromBottom
<1>5. ASSUME NEW k \in (Len(s) + 1)..(Len(p) + Len(s))
      PROVE  /\ Len(p) + Len(s) + 1 - k \in DOMAIN p
             /\ FromBottom(p \o s, k) = p[Len(p) + Len(s) + 1 - k]
  <2> DEFINE i == Len(p) + Len(s) + 1 - k
  <2>1. i \in 1..(Len(p) + Len(s)) /\ i <= Len(p) /\ i \in 1..Len(p)
    BY <1>1
  <2>2. (p \o s)[i] = p[i]
    BY <1>2, <2>1
  <2> QED
    BY <1>2, <1>3, <2>1, <2>2 DEF FromBottom
<1> QED
  BY <1>1, <1>2, <1>3, <1>4, <1>5

\* Popping a stack leaves the rest in its place.
LEMMA PopKeeps ==
  ASSUME NEW s \in Seq(Steps), s # <<>>
  PROVE  /\ Tail(s) \in Seq(Steps) /\ Len(Tail(s)) = Len(s) - 1 /\ Len(s) > 0
         /\ DOMAIN Tail(s) = 1..(Len(s) - 1) /\ DOMAIN s = 1..Len(s)
         /\ \A k \in 1..(Len(s) - 1) : FromBottom(Tail(s), k) = FromBottom(s, k)
         /\ FromBottom(s, Len(s)) = Head(s)
<1>1. /\ Tail(s) \in Seq(Steps) /\ Len(Tail(s)) = Len(s) - 1 /\ Len(s) \in Nat /\ Len(s) > 0
      /\ \A i \in 1..(Len(s) - 1) : Tail(s)[i] = s[i + 1]
      /\ Head(s) = s[1]
  OBVIOUS
<1>2. DOMAIN Tail(s) = 1..(Len(s) - 1) /\ DOMAIN s = 1..Len(s)
  BY <1>1
<1>3. ASSUME NEW k \in 1..(Len(s) - 1) PROVE FromBottom(Tail(s), k) = FromBottom(s, k)
  <2>1. /\ Len(s) - 1 + 1 - k \in 1..(Len(s) - 1)
        /\ (Len(s) - 1 + 1 - k) + 1 = Len(s) + 1 - k
    BY <1>1
  <2> QED
    BY <1>1, <2>1 DEF FromBottom
<1>4. FromBottom(s, Len(s)) = Head(s)
  <2>1. Len(s) + 1 - Len(s) = 1
    BY <1>1
  <2> QED
    BY <1>1, <2>1 DEF FromBottom
<1> QED
  BY <1>1, <1>2, <1>3, <1>4

\* Replacing the top of a stack leaves what is below in its place.
LEMMA ReplaceTop ==
  ASSUME NEW p \in Seq(Steps), NEW s \in Seq(Steps), s # <<>>
  PROVE  /\ p \o Tail(s) \in Seq(Steps) /\ Len(s) \in Nat /\ Len(s) > 0 /\ Len(p) \in Nat
         /\ DOMAIN (p \o Tail(s)) = 1..(Len(p) + (Len(s) - 1)) /\ DOMAIN s = 1..Len(s)
         /\ \A k \in 1..(Len(s) - 1) : FromBottom(p \o Tail(s), k) = FromBottom(s, k)
         /\ \A k \in Len(s)..(Len(p) + (Len(s) - 1)) :
              \E i \in 1..Len(p) : FromBottom(p \o Tail(s), k) = p[i]
         /\ FromBottom(s, Len(s)) = Head(s)
<1> DEFINE r == Tail(s)
<1>1. /\ r \in Seq(Steps) /\ Len(r) = Len(s) - 1 /\ Len(s) \in Nat /\ Len(s) > 0
      /\ DOMAIN s = 1..Len(s) /\ Len(p) \in Nat /\ DOMAIN p = 1..Len(p)
      /\ \A k \in 1..(Len(s) - 1) : FromBottom(r, k) = FromBottom(s, k)
      /\ FromBottom(s, Len(s)) = Head(s)
  BY PopKeeps
<1> HIDE DEF r
<1>2. \A k \in 1..Len(r) : FromBottom(p \o r, k) = FromBottom(r, k)
  BY <1>1, PushKeeps
<1>3. DOMAIN (p \o r) = 1..(Len(p) + Len(r)) /\ p \o r \in Seq(Steps)
  BY <1>1, PushKeeps
<1>4. ASSUME NEW k \in Len(s)..(Len(p) + (Len(s) - 1))
      PROVE  \E i \in 1..Len(p) : FromBottom(p \o r, k) = p[i]
  <2>1. k \in (Len(r) + 1)..(Len(p) + Len(r))
    BY <1>1
  <2>2. /\ Len(p) + Len(r) + 1 - k \in DOMAIN p
        /\ FromBottom(p \o r, k) = p[Len(p) + Len(r) + 1 - k]
    BY <1>1, <2>1, PushKeeps
  <2> QED
    BY <1>1, <2>2
<1> QED
  BY <1>1, <1>2, <1>3, <1>4 DEF r

\* What a change of one stack does to the frames of all.
LEMMA FramesChange ==
  ASSUME NEW c \in Tasks, \A t \in Tasks : t # c => stack'[t] = stack[t]
  PROVE  /\ FramesOf(stack'[c]) = FramesOf(stack[c]) => Frames' = Frames
         /\ \A k : FramesOf(stack'[c]) = FramesOf(stack[c]) \cup {k} =>
                     Frames' = Frames \cup {<<c, k>>}
         /\ \A k : FramesOf(stack'[c]) = FramesOf(stack[c]) \ {k} =>
                     Frames' = Frames \ {<<c, k>>}
<1>1. /\ \A x : x \in Frames <=> \E t \in Tasks : \E j \in FramesOf(stack[t]) : x = <<t, j>>
      /\ \A x : x \in Frames' <=> \E t \in Tasks : \E j \in FramesOf(stack'[t]) : x = <<t, j>>
  BY DEF Frames
<1> QED
  BY <1>1 DEF FramesOf

\* The points that a step of the kernel puts on the stack, do_fork's apart, and the tasks
\* that schedule() may have found.
Quiet == (Points \ {"ret", "fork", "register"}) \cup {t \in Tasks : state[t] # "NEW"}

LEMMA QuietIs ==
  ASSUME NEW x \in Quiet
  PROVE  /\ x \in Steps /\ x \notin {"ret", "fork", "register"}
         /\ x \in Tasks => state[x] # "NEW"
<1>1. "ret" \in Points /\ "fork" \in Points /\ "register" \in Points
  BY DEF Points
<1> QED
  BY <1>1, TaskAssumption DEF Quiet, Steps

\* A step that replaces the top of the stack, no return, by quiet points.
LEMMA BecomeKeeps ==
  ASSUME IInv, NEW p \in Seq(Quiet), stack[sp] # <<>>, Head(stack[sp]) # "ret",
         Become(p), child' = child, nest' = nest
  PROVE  /\ stack' \in [Tasks -> Seq(Steps)] /\ FramesCounted' /\ ForkAtBottom'
         /\ \A t \in Tasks : t # sp => stack'[t] = stack[t]
         /\ \A t \in Tasks : NoNewIn(stack'[t])
<1> DEFINE s == stack[sp]
           n == p \o Tail(s)
<1>1. sp \in Tasks /\ s \in Seq(Steps) /\ stack \in [Tasks -> Seq(Steps)]
  BY DEF IInv, TypeOK
<1>2. /\ p \in Seq(Steps)
      /\ \A i \in 1..Len(p) : /\ p[i] \notin {"ret", "fork", "register"}
                              /\ p[i] \in Tasks => state[p[i]] # "NEW"
  <2>1. \A i \in 1..Len(p) : p[i] \in Quiet
    OBVIOUS
  <2>2. \A x \in Quiet : /\ x \in Steps /\ x \notin {"ret", "fork", "register"}
                         /\ x \in Tasks => state[x] # "NEW"
    BY QuietIs
  <2> QED
    BY <2>1, <2>2
<1>3. /\ n \in Seq(Steps) /\ Len(s) \in Nat /\ Len(s) > 0 /\ Len(p) \in Nat
      /\ DOMAIN n = 1..(Len(p) + (Len(s) - 1)) /\ DOMAIN s = 1..Len(s)
      /\ \A k \in 1..(Len(s) - 1) : FromBottom(n, k) = FromBottom(s, k)
      /\ \A k \in Len(s)..(Len(p) + (Len(s) - 1)) : \E i \in 1..Len(p) : FromBottom(n, k) = p[i]
      /\ FromBottom(s, Len(s)) = Head(s)
  BY <1>1, <1>2, ReplaceTop
<1>4. stack' = [stack EXCEPT ![sp] = n]
  BY DEF Become
<1>5. /\ stack' \in [Tasks -> Seq(Steps)] /\ stack'[sp] = n
      /\ \A t \in Tasks : t # sp => stack'[t] = stack[t]
  BY <1>1, <1>3, <1>4
<1> HIDE DEF s, n
<1>6. ASSUME NEW k \in DOMAIN n
      PROVE  \/ k \in DOMAIN s /\ FromBottom(n, k) = FromBottom(s, k)
             \/ /\ FromBottom(n, k) \notin {"ret", "fork", "register"}
                /\ FromBottom(n, k) \in Tasks => state[FromBottom(n, k)] # "NEW"
  <2>1. CASE k \in 1..(Len(s) - 1)
    BY <1>3, <2>1
  <2>2. CASE k \in Len(s)..(Len(p) + (Len(s) - 1))
    BY <1>2, <1>3, <2>2
  <2> QED
    BY <1>3, <2>1, <2>2
<1>7. ASSUME NEW k \in DOMAIN s, FromBottom(s, k) = "ret"
      PROVE  k \in DOMAIN n /\ FromBottom(n, k) = "ret"
  BY <1>3, <1>7 DEF s
<1>8. FramesOf(n) = FramesOf(s)
  BY <1>6, <1>7 DEF FramesOf
<1>9. FramesCounted'
  <2>1. Frames' = Frames
    BY <1>1, <1>5, <1>8, FramesChange DEF s
  <2> QED
    BY <2>1 DEF IInv, FramesCounted
<1>10. ForkAtBottom'
  <2> SUFFICES ASSUME NEW t \in Tasks, NEW k \in DOMAIN stack'[t]
               PROVE  /\ FromBottom(stack'[t], k) \in {"fork", "register"} => k = 3
                      /\ FromBottom(stack'[t], k) = "register" => child[t] \in Tasks
    BY DEF ForkAtBottom, FromBottom
  <2>1. CASE t = sp
    BY <1>5, <1>6, <2>1 DEF IInv, ForkAtBottom, s
  <2>2. CASE t # sp
    BY <1>5, <2>2 DEF IInv, ForkAtBottom
  <2> QED
    BY <2>1, <2>2
<1>11. ASSUME NEW t \in Tasks PROVE NoNewIn(stack'[t])
  <2>1. CASE t = sp
    BY <1>1, <1>5, <1>6, <2>1 DEF IInv, NewIsFresh, NoNewIn, s
  <2>2. CASE t # sp
    BY <1>5, <2>2 DEF IInv, NewIsFresh
  <2> QED
    BY <2>1, <2>2
<1> QED
  BY <1>5, <1>9, <1>10, <1>11

\* An exception is taken: one frame more, one level deeper.
LEMMA EnterKeeps ==
  ASSUME IInv, NEW a \in Quiet \cup {"fork"}, NEW b \in Quiet,
         Enter(<<a, b, "ret">>), a = "fork" => stack[sp] = <<>>, child' = child
  PROVE  /\ stack' \in [Tasks -> Seq(Steps)] /\ FramesCounted' /\ ForkAtBottom' /\ nest' \in Nat
         /\ \A t \in Tasks : t # sp => stack'[t] = stack[t]
         /\ \A t \in Tasks : NoNewIn(stack'[t])
<1> DEFINE s == stack[sp]
           p == <<a, b, "ret">>
           n == p \o s
<1>1. sp \in Tasks /\ s \in Seq(Steps) /\ stack \in [Tasks -> Seq(Steps)] /\ nest \in Nat
  BY DEF IInv, TypeOK
<1>2. /\ p \in Seq(Steps) /\ Len(p) = 3 /\ p[1] = a /\ p[2] = b /\ p[3] = "ret"
      /\ a # "ret" /\ a # "register" /\ b \notin {"ret", "fork", "register"}
      /\ \A x \in {a, b, "ret"} : x \in Tasks => state[x] # "NEW"
  <2>1. "fork" \in Points /\ "ret" \in Points
    BY DEF Points
  <2> QED
    BY <2>1, QuietIs, TaskAssumption DEF Steps
<1>3. stack' = [stack EXCEPT ![sp] = n] /\ nest' = nest + 1
  BY DEF Enter
<1> HIDE DEF p, s
<1>4. /\ n \in Seq(Steps) /\ Len(s) \in Nat
      /\ DOMAIN n = 1..(3 + Len(s)) /\ DOMAIN s = 1..Len(s)
      /\ \A k \in 1..Len(s) : FromBottom(n, k) = FromBottom(s, k)
      /\ \A k \in (Len(s) + 1)..(3 + Len(s)) : FromBottom(n, k) = p[3 + Len(s) + 1 - k]
  <2>1. /\ p \o s \in Seq(Steps)
        /\ DOMAIN (p \o s) = 1..(Len(p) + Len(s)) /\ DOMAIN s = 1..Len(s)
        /\ \A k \in 1..Len(s) : FromBottom(p \o s, k) = FromBottom(s, k)
    BY <1>1, <1>2, PushKeeps
  <2>2. \A k \in (Len(s) + 1)..(Len(p) + Len(s)) :
              FromBottom(p \o s, k) = p[Len(p) + Len(s) + 1 - k]
    BY <1>1, <1>2, PushKeeps
  <2> QED
    BY <1>1, <1>2, <2>1, <2>2
<1>5. /\ stack' \in [Tasks -> Seq(Steps)] /\ stack'[sp] = n
      /\ \A t \in Tasks : t # sp => stack'[t] = stack[t]
  BY <1>1, <1>3, <1>4
<1> HIDE DEF n
<1>6. /\ FromBottom(n, Len(s) + 1) = "ret"
      /\ FromBottom(n, Len(s) + 2) = b
      /\ FromBottom(n, Len(s) + 3) = a
  <2>1. /\ 3 + Len(s) + 1 - (Len(s) + 1) = 3
        /\ 3 + Len(s) + 1 - (Len(s) + 2) = 2
        /\ 3 + Len(s) + 1 - (Len(s) + 3) = 1
    BY <1>4
  <2>2. \A j \in {1, 2, 3} : Len(s) + j \in (Len(s) + 1)..(3 + Len(s))
    BY <1>4
  <2> QED
    BY <1>2, <1>4, <2>1, <2>2
<1>7. ASSUME NEW k \in DOMAIN n
      PROVE  k \in DOMAIN s \/ k = Len(s) + 1 \/ k = Len(s) + 2 \/ k = Len(s) + 3
  BY <1>4
<1>8. FramesOf(n) = FramesOf(s) \cup {Len(s) + 1} /\ Len(s) + 1 \notin FramesOf(s)
  BY <1>2, <1>4, <1>6, <1>7 DEF FramesOf
<1>9. FramesCounted'
  <2>1. Frames' = Frames \cup {<<sp, Len(s) + 1>>}
    BY <1>1, <1>5, <1>8, FramesChange DEF s
  <2>2. <<sp, Len(s) + 1>> \notin Frames
    <3>1. \A x : x \in Frames <=> \E t \in Tasks : \E j \in FramesOf(stack[t]) : x = <<t, j>>
      BY DEF Frames
    <3> QED
      BY <1>8, <3>1 DEF s
  <2>3. IsFiniteSet(Frames') /\ Cardinality(Frames') = Cardinality(Frames) + 1
    BY <2>1, <2>2, FS_AddElement DEF IInv, FramesCounted
  <2>4. Cardinality(Frames) \in Nat
    BY FS_CardinalityType DEF IInv, FramesCounted
  <2> QED
    BY <1>1, <1>3, <2>3, <2>4, BoundAssumption DEF IInv, FramesCounted
<1>10. ForkAtBottom'
  <2> SUFFICES ASSUME NEW t \in Tasks, NEW k \in DOMAIN stack'[t]
               PROVE  /\ FromBottom(stack'[t], k) \in {"fork", "register"} => k = 3
                      /\ FromBottom(stack'[t], k) = "register" => child[t] \in Tasks
    BY DEF ForkAtBottom, FromBottom
  <2>1. CASE t = sp /\ k \in DOMAIN s
    BY <1>4, <1>5, <2>1 DEF IInv, ForkAtBottom, s
  <2>2. CASE t = sp /\ k \notin DOMAIN s
    <3>1. a = "fork" => Len(s) = 0
      BY DEF s
    <3> QED
      BY <1>2, <1>5, <1>6, <1>7, <2>2, <3>1
  <2>3. CASE t # sp
    BY <1>5, <2>3 DEF IInv, ForkAtBottom
  <2> QED
    BY <2>1, <2>2, <2>3
<1>11. ASSUME NEW t \in Tasks PROVE NoNewIn(stack'[t])
  <2>1. CASE t = sp
    <3> SUFFICES ASSUME NEW k \in DOMAIN n, FromBottom(n, k) \in Tasks
                 PROVE  state[FromBottom(n, k)] # "NEW"
      BY <1>5, <2>1 DEF NoNewIn
    <3>1. CASE k \in DOMAIN s
      BY <1>1, <1>4, <3>1 DEF IInv, NewIsFresh, NoNewIn, s
    <3>2. CASE k \notin DOMAIN s
      BY <1>2, <1>6, <1>7, <3>2
    <3> QED
      BY <3>1, <3>2
  <2>2. CASE t # sp
    BY <1>5, <2>2 DEF IInv, NewIsFresh
  <2> QED
    BY <2>1, <2>2
<1> QED
  BY <1>1, <1>3, <1>5, <1>9, <1>10, <1>11

\* An exception returns: its frame goes, and the level is not zero.
LEMMA ReturnKeeps ==
  ASSUME IInv, At("ret"), Become(<<>>), nest' = nest - 1, child' = child
  PROVE  /\ stack' \in [Tasks -> Seq(Steps)] /\ FramesCounted' /\ ForkAtBottom' /\ nest' \in Nat
         /\ \A t \in Tasks : t # sp => stack'[t] = stack[t]
         /\ \A t \in Tasks : NoNewIn(stack'[t])
<1> DEFINE s == stack[sp]
           n == Tail(s)
<1>1. sp \in Tasks /\ s \in Seq(Steps) /\ stack \in [Tasks -> Seq(Steps)] /\ nest \in Nat
  BY DEF IInv, TypeOK
<1>2. s # <<>> /\ Head(s) = "ret"
  BY DEF At
<1>3. /\ n \in Seq(Steps) /\ Len(s) \in Nat /\ Len(s) > 0
      /\ DOMAIN n = 1..(Len(s) - 1) /\ DOMAIN s = 1..Len(s)
      /\ \A k \in 1..(Len(s) - 1) : FromBottom(n, k) = FromBottom(s, k)
      /\ FromBottom(s, Len(s)) = "ret"
  BY <1>1, <1>2, PopKeeps
<1>4. stack' = [stack EXCEPT ![sp] = n]
  <2>1. <<>> \o Tail(stack[sp]) = n
    BY <1>3
  <2> QED
    BY <2>1 DEF Become
<1>5. /\ stack' \in [Tasks -> Seq(Steps)] /\ stack'[sp] = n
      /\ \A t \in Tasks : t # sp => stack'[t] = stack[t]
  BY <1>1, <1>3, <1>4
<1> HIDE DEF s, n
<1>6. FramesOf(n) = FramesOf(s) \ {Len(s)} /\ Len(s) \in FramesOf(s)
  BY <1>3 DEF FramesOf
<1>7. Frames' = Frames \ {<<sp, Len(s)>>} /\ <<sp, Len(s)>> \in Frames
  <2>1. \A x : x \in Frames <=> \E t \in Tasks : \E j \in FramesOf(stack[t]) : x = <<t, j>>
    BY DEF Frames
  <2> QED
    BY <1>1, <1>5, <1>6, <2>1, FramesChange DEF s
<1>8. /\ IsFiniteSet(Frames') /\ Cardinality(Frames') = Cardinality(Frames) - 1
      /\ Cardinality(Frames) \in Nat /\ Cardinality(Frames') \in Nat
  BY <1>7, FS_RemoveElement, FS_CardinalityType DEF IInv, FramesCounted
<1>9. FramesCounted' /\ nest' \in Nat
  BY <1>1, <1>8, BoundAssumption DEF IInv, FramesCounted
<1>10. ForkAtBottom'
  <2> SUFFICES ASSUME NEW t \in Tasks, NEW k \in DOMAIN stack'[t]
               PROVE  /\ FromBottom(stack'[t], k) \in {"fork", "register"} => k = 3
                      /\ FromBottom(stack'[t], k) = "register" => child[t] \in Tasks
    BY DEF ForkAtBottom, FromBottom
  <2>1. CASE t = sp
    <3>1. k \in DOMAIN s /\ FromBottom(n, k) = FromBottom(s, k)
      BY <1>3, <1>5, <2>1
    <3>2. /\ FromBottom(s, k) \in {"fork", "register"} => k = 3
          /\ FromBottom(s, k) = "register" => child[t] \in Tasks
      BY <1>1, <2>1, <3>1 DEF IInv, ForkAtBottom, s
    <3> QED
      BY <1>5, <2>1, <3>1, <3>2
  <2>2. CASE t # sp
    BY <1>5, <2>2 DEF IInv, ForkAtBottom
  <2> QED
    BY <2>1, <2>2
<1>11. ASSUME NEW t \in Tasks PROVE NoNewIn(stack'[t])
  <2>1. CASE t = sp
    <3>1. NoNewIn(s)
      BY <1>1 DEF IInv, NewIsFresh, s
    <3>2. \A k \in DOMAIN n : k \in DOMAIN s /\ FromBottom(n, k) = FromBottom(s, k)
      BY <1>3
    <3>3. NoNewIn(n)
      BY <3>1, <3>2 DEF NoNewIn
    <3> QED
      BY <1>5, <2>1, <3>3
  <2>2. CASE t # sp
    BY <1>5, <2>2 DEF IInv, NewIsFresh
  <2> QED
    BY <2>1, <2>2
<1> QED
  BY <1>5, <1>9, <1>10, <1>11

------------------------------------------------------------------------------------
(* The kernel's steps *)

\* A task that is not new on a stack is not new after a step either.
LEMMA NewStays ==
  ASSUME \A t \in Tasks : state'[t] = "NEW" => state[t] = "NEW",
         \A t \in Tasks : NoNewIn(stack'[t])
  PROVE  \A t \in Tasks : NoNewIn(stack[t])'
BY DEF NoNewIn, FromBottom

\* A step of the running task that creates no task: what is left to show is about the
\* data it writes.
LEMMA StepKeeps ==
  ASSUME IInv, NEW p \in Seq(Quiet), stack[sp] # <<>>, Head(stack[sp]) # "ret",
         Become(p), child' = child, nest' = nest, DataTypes', NoNewQueued',
         \A t \in Tasks : state'[t] = "NEW" => state[t] = "NEW", state'[cur'] # "NEW",
         sp' \in {sp, cur}
  PROVE  IInv'
<1>1. /\ stack' \in [Tasks -> Seq(Steps)] /\ FramesCounted' /\ ForkAtBottom'
      /\ \A t \in Tasks : t # sp => stack'[t] = stack[t]
      /\ \A t \in Tasks : NoNewIn(stack'[t])
  BY BecomeKeeps
<1>2. TypeOK'
  BY <1>1 DEF TypeOK, DataTypes, IInv
<1>3. NewIsFresh'
  BY <1>1, NewStays DEF NewIsFresh, IInv
<1> QED
  BY <1>1, <1>2, <1>3 DEF IInv

LEMMA DataFromInv ==
  ASSUME IInv
  PROVE  DataTypes /\ NoNewQueued /\ state[cur] # "NEW" /\ cur \in Tasks /\ sp \in Tasks
BY DEF IInv, TypeOK, DataTypes, NewIsFresh

\* Steps that change neither the tasks' states nor the ready queue.
LEMMA PlainKeeps ==
  ASSUME IInv, NEW p \in Seq(Quiet), stack[sp] # <<>>, Head(stack[sp]) # "ret",
         Become(p), child' = child, nest' = nest, DataTypes',
         UNCHANGED <<state, ready, cur, sp>>
  PROVE  IInv'
BY DataFromInv, StepKeeps DEF NoNewQueued

\* The points put on the stack.
LEMMA QuietSteps ==
  /\ <<>> \in Seq(Quiet)
  /\ \A a \in Quiet : <<a>> \in Seq(Quiet)
  /\ \A a, b \in Quiet : <<a, b>> \in Seq(Quiet)
  /\ \A a, b, c \in Quiet : <<a, b, c>> \in Seq(Quiet)
OBVIOUS

LEMMA PlainSteps ==
  ASSUME IInv,
         \/ Yield \/ ForkFails \/ WaitAlive \/ ReadLine \/ WaitDone \/ WaitCheck \/ ReadCopy
         \/ Sleep \/ CheckAndSchedule \/ NothingToReap \/ PassUsers \/ Panic
  PROVE  IInv'
<1>1. DataTypes /\ cur \in Tasks /\ sp \in Tasks
  BY DataFromInv
<1>2. {"we_top", "read_copy", "enqueue", "scan", "scan_idle", "switch", "panic",
       "sleep_insert", "alive"} \subseteq Quiet
  BY DEF Quiet, Points
<1> USE <1>1, <1>2, QuietSteps, PlainKeeps DEF At, queues, life, cpu, DataTypes
<1>3. CASE Yield \/ ForkFails \/ WaitDone \/ ReadCopy
  BY <1>3 DEF Yield, ForkFails, WaitDone, ReadCopy
<1>4. CASE WaitAlive
  <2>1. need_resched' \in BOOLEAN
    BY <1>4, Zenon DEF WaitAlive
  <2> QED
    BY <1>4, <2>1 DEF WaitAlive
<1>5. CASE ReadLine
  BY <1>5 DEF ReadLine
<1>6. CASE WaitCheck
  <2>1. Schedule \in Seq(Quiet) /\ <<"we_top">> \in Seq(Quiet)
    BY DEF Schedule
  <2>2. Schedule \o <<"we_top">> \in Seq(Quiet)
    BY <2>1, ConcatProperties
  <2> QED
    BY <1>6, <2>1, <2>2 DEF WaitCheck
<1>7. CASE Sleep
  <2>1. due' \in [Tasks -> Nat]
    BY <1>7, BoundAssumption DEF Sleep
  <2> QED
    BY <1>7, <2>1 DEF Sleep
<1>8. CASE CheckAndSchedule
  BY <1>8 DEF CheckAndSchedule, Schedule
<1>9. CASE NothingToReap
  BY <1>9 DEF NothingToReap, Purged
<1>10. CASE PassUsers \/ Panic
  BY <1>10 DEF PassUsers, Panic
<1> QED
  BY <1>3, <1>4, <1>5, <1>6, <1>7, <1>8, <1>9, <1>10

\* Steps that change states and no queue.
LEMMA StateKeeps ==
  ASSUME IInv, NEW p \in Seq(Quiet), stack[sp] # <<>>, Head(stack[sp]) # "ret",
         Become(p), child' = child, nest' = nest, DataTypes', UNCHANGED <<ready, cur, sp>>,
         \A t \in Tasks : state'[t] = "NEW" => state[t] = "NEW"
  PROVE  IInv'
<1>1. DataTypes /\ NoNewQueued /\ state[cur] # "NEW" /\ cur \in Tasks
  BY DataFromInv
<1>2. NoNewQueued' /\ state'[cur'] # "NEW"
  BY <1>1 DEF NoNewQueued, DataTypes
<1> QED
  BY <1>2, StepKeeps

LEMMA DeliverTypes ==
  ASSUME DataTypes, NEW t \in Tasks, NEW sig \in Signals, Deliver(t, sig)
  PROVE  /\ state' \in [Tasks -> States] /\ pending' \in [Tasks -> SUBSET Signals]
         /\ \A u \in Tasks : state'[u] = "NEW" => state[u] = "NEW"
<1>1. /\ state \in [Tasks -> States] /\ pending \in [Tasks -> SUBSET Signals]
  BY DEF DataTypes
<1>2. PICK v \in States : state' = [state EXCEPT ![t] = v] /\ (v # "NEW" \/ v = state[t])
  <2> DEFINE v == CASE sig = SIGKILL -> "DEAD"
                    [] sig = SIGSTOP -> "SLEEPING"
                    [] sig = SIGCONT -> "RUNNING"
                    [] OTHER -> state[t]
  <2>1. state' = [state EXCEPT ![t] = v]
    BY DEF Deliver
  <2>2. v \in States /\ (v # "NEW" \/ v = state[t])
    BY <1>1 DEF States, SIGKILL, SIGSTOP, SIGCONT
  <2> HIDE DEF v
  <2> QED
    BY <2>1, <2>2
<1>3. pending' \in [Tasks -> SUBSET Signals]
  BY <1>1 DEF Deliver
<1> QED
  BY <1>1, <1>2, <1>3

LEMMA StateSteps ==
  ASSUME IInv, Kill \/ NotifyParent \/ Reap \/ Exit \/ CheckSignals
  PROVE  IInv'
<1>1. DataTypes /\ cur \in Tasks /\ sp \in Tasks
  BY DataFromInv
<1>2. {"exit", "sigchld", "enqueue", "scan", "switch"} \subseteq Quiet
  BY DEF Quiet, Points
<1> USE <1>1, <1>2
<1>3. CASE Kill
  <2>1. /\ state' \in [Tasks -> States] /\ pending' \in [Tasks -> SUBSET Signals]
        /\ \A u \in Tasks : state'[u] = "NEW" => state[u] = "NEW"
    <3>1. CASE UNCHANGED <<state, pending>>
      BY <3>1 DEF DataTypes
    <3>2. CASE \E t \in listed \cap Targets, sig \in KillSignals : Deliver(t, sig)
      <4>1. listed \subseteq Tasks /\ KillSignals \subseteq Signals
        BY InputAssumption DEF DataTypes
      <4> QED
        BY <3>2, <4>1, DeliverTypes
    <3> QED
      BY <1>3, <3>1, <3>2 DEF Kill
  <2>2. DataTypes'
    BY <1>3, <2>1 DEF Kill, DataTypes, queues, life, cpu
  <2> QED
    BY <1>3, <2>1, <2>2, QuietSteps, StateKeeps DEF Kill, At, queues, life, cpu
<1>4. CASE NotifyParent
  <2>1. /\ state' \in [Tasks -> States] /\ pending' \in [Tasks -> SUBSET Signals]
        /\ \A u \in Tasks : state'[u] = "NEW" => state[u] = "NEW"
    <3>1. CASE UNCHANGED <<state, pending>>
      BY <3>1 DEF DataTypes
    <3>2. CASE parent[cur] \in listed /\ Deliver(parent[cur], SIGCHLD)
      <4>1. listed \subseteq Tasks /\ SIGCHLD \in Signals
        BY DEF DataTypes, Signals
      <4> QED
        BY <3>2, <4>1, DeliverTypes
    <3> QED
      BY <1>4, <3>1, <3>2 DEF NotifyParent
  <2>2. DataTypes'
    BY <1>4, <2>1 DEF NotifyParent, DataTypes, queues, life, cpu
  <2> QED
    BY <1>4, <2>1, <2>2, QuietSteps, StateKeeps DEF NotifyParent, At, queues, life, cpu
<1>5. CASE Reap
  <2>1. DataTypes' /\ \A u \in Tasks : state'[u] = "NEW" => state[u] = "NEW"
    BY <1>5 DEF Reap, Zombies, Purged, DataTypes, queues, cpu, States
  <2> QED
    BY <1>5, <2>1, QuietSteps, StateKeeps DEF Reap, At, queues, cpu
<1>6. CASE Exit
  <2>1. DataTypes' /\ \A u \in Tasks : state'[u] = "NEW" => state[u] = "NEW"
    BY <1>6 DEF Exit, DataTypes, queues, cpu, life, States
  <2>2. ExitSteps \in Seq(Quiet)
    <3>1. Schedule \in Seq(Quiet) /\ <<"sigchld">> \in Seq(Quiet)
      BY QuietSteps DEF Schedule
    <3> QED
      BY <3>1, ConcatProperties DEF ExitSteps
  <2> QED
    BY <1>6, <2>1, <2>2, StateKeeps DEF Exit, At, queues, life, cpu
<1>7. CASE CheckSignals
  <2> DEFINE sig == CheckPending(cur)
             act == DefaultAction(sig)
  <2>1. /\ \/ state' = state
           \/ \E v \in States \ {"NEW"} : state' = [state EXCEPT ![cur] = v]
           \/ state' = [state EXCEPT ![cur] = @]
        /\ \E S \in SUBSET pending[cur] : pending' = pending \/ pending' = [pending EXCEPT ![cur] = S]
        /\ Become(<<>>) \/ Become(<<"exit">>)
    <3>1. CASE sig = 0
      BY <1>7, <3>1 DEF CheckSignals
    <3>2. CASE sig # 0 /\ act = "Terminate"
      BY <1>7, <3>2 DEF CheckSignals, States
    <3>3. CASE sig # 0 /\ act # "Terminate"
      <4>1. /\ state' = [state EXCEPT ![cur] = CASE act = "Stop" -> "SLEEPING"
                                                 [] act = "Cont" -> "RUNNING"
                                                 [] OTHER -> @]
            /\ pending' = [pending EXCEPT ![cur] = @ \ {sig}]
            /\ Become(<<>>)
        BY <1>7, <3>3 DEF CheckSignals
      <4> HIDE DEF act, sig
      <4> QED
        BY <4>1 DEF States
    <3> QED
      BY <3>1, <3>2, <3>3
  <2>2. /\ state' \in [Tasks -> States] /\ pending' \in [Tasks -> SUBSET Signals]
        /\ \A u \in Tasks : state'[u] = "NEW" => state[u] = "NEW"
    BY <2>1 DEF DataTypes
  <2>3. DataTypes'
    BY <1>7, <2>2 DEF CheckSignals, DataTypes, queues, life, cpu
  <2>4. \E p \in Seq(Quiet) : Become(p)
    BY <2>1, QuietSteps
  <2> QED
    BY <1>7, <2>2, <2>3, <2>4, StateKeeps DEF CheckSignals, At, queues, life, cpu
<1> QED
  BY <1>3, <1>4, <1>5, <1>6, <1>7

------------------------------------------------------------------------------------
(* The ready queues *)

\* The k-th member of a finite set of numbers exists, and is the only one of its rank.
LEMMA RankExists ==
  ASSUME NEW A \in SUBSET Nat, IsFiniteSet(A)
  PROVE  /\ Cardinality(A) \in Nat
         /\ \A i \in A : Cardinality({j \in A : j <= i}) \in 1..Cardinality(A)
         /\ \A k \in 1..Cardinality(A) : \E i \in A : Cardinality({j \in A : j <= i}) = k
         /\ \A i, k \in A : Cardinality({j \in A : j <= i}) = Cardinality({j \in A : j <= k}) => i = k
<1> DEFINE upto(i) == {j \in A : j <= i}
           f == [i \in A |-> Cardinality(upto(i))]
           n == Cardinality(A)
<1>1. n \in Nat
  BY FS_CardinalityType
<1>2. ASSUME NEW i \in A
      PROVE  IsFiniteSet(upto(i)) /\ Cardinality(upto(i)) \in 1..n
  <2>1. upto(i) \in SUBSET A
    OBVIOUS
  <2>2. upto(i) # {}
    <3>1. i <= i
      OBVIOUS
    <3> QED
      BY <3>1
  <2> HIDE DEF upto
  <2>3. IsFiniteSet(upto(i)) /\ Cardinality(upto(i)) <= n
    BY <2>1, FS_Subset
  <2>4. Cardinality(upto(i)) \in Nat /\ Cardinality(upto(i)) # 0
    BY <2>2, <2>3, FS_CardinalityType, FS_EmptySet
  <2> QED
    BY <1>1, <2>3, <2>4
<1>3. ASSUME NEW i \in A, NEW j \in A, i < j
      PROVE  f[i] # f[j]
  <2>1. upto(i) \in SUBSET upto(j)
    <3>1. \A k \in A : k \in Nat
      OBVIOUS
    <3>2. \A k \in A : k <= i => k <= j
      BY <1>3, <3>1
    <3> QED
      BY <3>2
  <2>2. j \in upto(j) /\ j \notin upto(i)
    BY <1>3
  <2> HIDE DEF upto
  <2>3. Cardinality(upto(i)) # Cardinality(upto(j))
    BY <1>2, <2>1, <2>2, FS_Subset
  <2> QED
    BY <2>3
<1>4. f \in [A -> 1..n]
  BY <1>2
<1>5. \A i, j \in A : f[i] = f[j] => i = j
  <2>1. \A i, j \in A : i < j \/ j < i \/ i = j
    OBVIOUS
  <2> QED
    BY <1>3, <2>1
<1> HIDE DEF f
<1>6. f \in Injection(A, 1..n)
  BY <1>4, <1>5 DEF Injection, IsInjective
<1>7. IsFiniteSet(1..n) /\ Cardinality(1..n) = n
  BY <1>1, FS_Interval
<1>8. f \in Surjection(A, 1..n)
  BY <1>6, <1>7, FS_Injection
<1>9. \A k \in 1..n : \E i \in A : f[i] = k
  BY <1>8 DEF Surjection
<1> QED
  BY <1>1, <1>2, <1>5, <1>9 DEF f

\* OfPrio takes from ts exactly the entries of priority p.
LEMMA OfPrioMembers ==
  ASSUME NEW ts \in Seq(Tasks), NEW p
  PROVE  /\ OfPrio(ts, p) \in Seq(Tasks) /\ Len(OfPrio(ts, p)) \in Nat
         /\ \A k \in 1..Len(OfPrio(ts, p)) :
              \E i \in 1..Len(ts) : OfPrio(ts, p)[k] = ts[i] /\ Prio[ts[i]] = p
         /\ \A i \in 1..Len(ts) : Prio[ts[i]] = p =>
              \E k \in 1..Len(OfPrio(ts, p)) : OfPrio(ts, p)[k] = ts[i]
         /\ (\A i, j \in 1..Len(ts) : ts[i] = ts[j] => i = j) =>
              \A i, j \in 1..Len(OfPrio(ts, p)) : OfPrio(ts, p)[i] = OfPrio(ts, p)[j] => i = j
<1> DEFINE at == {i \in DOMAIN ts : Prio[ts[i]] = p}
           rank(i) == Cardinality({j \in at : j <= i})
           nth(k) == CHOOSE i \in at : rank(i) = k
           n == Cardinality(at)
           o == OfPrio(ts, p)
<1>1. DOMAIN ts = 1..Len(ts) /\ Len(ts) \in Nat
  OBVIOUS
<1>2. at \in SUBSET Nat /\ IsFiniteSet(at)
  <2>1. IsFiniteSet(1..Len(ts)) /\ at \in SUBSET (1..Len(ts)) /\ at \in SUBSET Nat
    BY <1>1, FS_Interval
  <2> HIDE DEF at
  <2> QED
    BY <2>1, FS_Subset
<1>3. o = [k \in 1..n |-> ts[nth(k)]]
  BY DEF OfPrio
<1>4. \A i \in at : i \in 1..Len(ts) /\ ts[i] \in Tasks /\ Prio[ts[i]] = p
  BY <1>1
<1>5. \A i \in 1..Len(ts) : Prio[ts[i]] = p => i \in at
  BY <1>1
<1> HIDE DEF at, o
<1>6. /\ n \in Nat /\ \A i \in at : rank(i) \in 1..n
      /\ \A k \in 1..n : \E i \in at : rank(i) = k
      /\ \A i, k \in at : rank(i) = rank(k) => i = k
  BY <1>2, RankExists
<1> HIDE DEF rank
<1>7. \A k \in 1..n : nth(k) \in at /\ rank(nth(k)) = k
  BY <1>6
<1>8. ASSUME NEW i \in at PROVE i = nth(rank(i))
  <2>1. rank(i) \in 1..n
    BY <1>6
  <2> DEFINE j == nth(rank(i))
  <2>2. j \in at /\ rank(j) = rank(i)
    BY <1>7, <2>1
  <2> HIDE DEF j
  <2> QED
    BY <1>6, <2>2 DEF j
<1> HIDE DEF nth, n
<1>9. o \in Seq(Tasks) /\ Len(o) = n
  <2>1. \A k \in 1..n : ts[nth(k)] \in Tasks
    BY <1>4, <1>7
  <2> QED
    BY <1>3, <1>6, <2>1
<1>10. \A k \in 1..n : o[k] = ts[nth(k)]
  BY <1>3
<1>11. \A k \in 1..Len(o) : \E i \in 1..Len(ts) : o[k] = ts[i] /\ Prio[ts[i]] = p
  BY <1>4, <1>7, <1>9, <1>10
<1>12. \A i \in 1..Len(ts) : Prio[ts[i]] = p => \E k \in 1..Len(o) : o[k] = ts[i]
  BY <1>5, <1>6, <1>8, <1>9, <1>10
<1>13. ASSUME \A i, j \in 1..Len(ts) : ts[i] = ts[j] => i = j, NEW i \in 1..n, NEW j \in 1..n, o[i] = o[j]
       PROVE  i = j
  <2>1. nth(i) \in 1..Len(ts) /\ nth(j) \in 1..Len(ts) /\ ts[nth(i)] = ts[nth(j)]
    BY <1>4, <1>7, <1>10, <1>13
  <2>2. nth(i) = nth(j)
    BY <1>13, <2>1
  <2> QED
    BY <1>7, <2>2
<1> QED
  BY <1>6, <1>9, <1>11, <1>12, <1>13 DEF o

\* add_task_ready appends to one queue.
LEMMA AddReadyIs ==
  ASSUME NEW q \in [Priorities -> Seq(Tasks)], NEW t \in Tasks
  PROVE  /\ AddReady(q, t) \in [Priorities -> Seq(Tasks)] /\ Prio[t] \in Priorities
         /\ \A p \in Priorities :
              /\ p # Prio[t] => AddReady(q, t)[p] = q[p]
              /\ p = Prio[t] => AddReady(q, t)[p] = Append(q[p], t)
         /\ \A p \in Priorities : \A i \in 1..Len(AddReady(q, t)[p]) :
              \/ i \in 1..Len(q[p]) /\ AddReady(q, t)[p][i] = q[p][i]
              \/ AddReady(q, t)[p][i] = t
<1>1. Prio[t] \in Priorities
  BY DEF Priorities
<1>2. /\ AddReady(q, t) \in [Priorities -> Seq(Tasks)]
      /\ \A p \in Priorities :
              /\ p # Prio[t] => AddReady(q, t)[p] = q[p]
              /\ p = Prio[t] => AddReady(q, t)[p] = Append(q[p], t)
  BY <1>1 DEF AddReady
<1>3. \A p \in Priorities : q[p] \in Seq(Tasks)
  OBVIOUS
<1>4. \A s \in Seq(Tasks) : \A i \in 1..Len(Append(s, t)) :
         (i \in 1..Len(s) /\ Append(s, t)[i] = s[i]) \/ Append(s, t)[i] = t
  OBVIOUS
<1> QED
  BY <1>1, <1>2, <1>3, <1>4

\* Waking appends to each queue the woken tasks of its priority.
LEMMA AddAllReadyIs ==
  ASSUME NEW q \in [Priorities -> Seq(Tasks)], NEW ts \in Seq(Tasks)
  PROVE  /\ AddAllReady(q, ts) \in [Priorities -> Seq(Tasks)]
         /\ \A p \in Priorities : AddAllReady(q, ts)[p] = q[p] \o OfPrio(ts, p)
         /\ \A p \in Priorities : \A i \in 1..Len(AddAllReady(q, ts)[p]) :
              \/ i \in 1..Len(q[p]) /\ AddAllReady(q, ts)[p][i] = q[p][i]
              \/ \E j \in 1..Len(ts) : AddAllReady(q, ts)[p][i] = ts[j] /\ Prio[ts[j]] = p
<1>1. \A p \in Priorities : AddAllReady(q, ts)[p] = q[p] \o OfPrio(ts, p)
  BY DEF AddAllReady
<1>2. AddAllReady(q, ts) \in [Priorities -> Seq(Tasks)]
  <2>1. \A p \in Priorities : OfPrio(ts, p) \in Seq(Tasks)
    BY OfPrioMembers
  <2> QED
    BY <2>1 DEF AddAllReady
<1>3. ASSUME NEW p \in Priorities, NEW i \in 1..Len(q[p] \o OfPrio(ts, p))
      PROVE  \/ i \in 1..Len(q[p]) /\ (q[p] \o OfPrio(ts, p))[i] = q[p][i]
             \/ \E j \in 1..Len(ts) : (q[p] \o OfPrio(ts, p))[i] = ts[j] /\ Prio[ts[j]] = p
  <2> DEFINE a == q[p]
             b == OfPrio(ts, p)
  <2>1. /\ a \in Seq(Tasks) /\ b \in Seq(Tasks) /\ i \in 1..Len(a \o b)
        /\ \A k \in 1..Len(b) : \E j \in 1..Len(ts) : b[k] = ts[j] /\ Prio[ts[j]] = p
    BY OfPrioMembers
  <2> HIDE DEF a, b
  <2>2. /\ Len(a) \in Nat /\ Len(b) \in Nat /\ Len(a \o b) = Len(a) + Len(b)
        /\ (a \o b)[i] = IF i <= Len(a) THEN a[i] ELSE b[i - Len(a)]
    BY <2>1
  <2>3. CASE i <= Len(a)
    BY <2>1, <2>2, <2>3 DEF a, b
  <2>4. CASE ~(i <= Len(a))
    <3>1. i - Len(a) \in 1..Len(b)
      BY <2>1, <2>2, <2>4
    <3> QED
      BY <2>1, <2>2, <2>4, <3>1 DEF a, b
  <2> QED
    BY <2>3, <2>4
<1> QED
  BY <1>1, <1>2, <1>3

\* SleepInsert's place is in the queue or at its end.
LEMMA InsertAtIs ==
  ASSUME NEW left, sleepq \in Seq([task : Tasks, left : Nat])
  PROVE  InsertAt(left) \in 0..Len(sleepq)
<1> DEFINE S == {i \in DOMAIN sleepq : \A j \in 1..i : sleepq[j].left <= left}
           L == Len(sleepq)
           I == 1..L
<1>1. L \in Nat /\ S \in SUBSET I /\ InsertAt(left) = Cardinality(S)
  BY DEF InsertAt
<1> HIDE DEF S, L
<1>2. IsFiniteSet(I) /\ Cardinality(I) = IF 1 > L THEN 0 ELSE L - 1 + 1
  BY <1>1, FS_Interval
<1>3. Cardinality(I) = L
  BY <1>1, <1>2
<1> HIDE DEF I
<1>4. IsFiniteSet(S) /\ Cardinality(S) <= Cardinality(I)
  BY <1>1, <1>2, FS_Subset
<1>5. Cardinality(S) \in Nat
  BY <1>4, FS_CardinalityType
<1> QED
  BY <1>1, <1>3, <1>4, <1>5 DEF L

\* A piece of a sequence.
LEMMA PieceIs ==
  ASSUME NEW S, NEW q \in Seq(S), NEW m \in 1..(Len(q) + 1), NEW n \in 0..Len(q)
  PROVE  /\ SubSeq(q, m, n) \in Seq(S) /\ Len(q) \in Nat
         /\ Len(SubSeq(q, m, n)) = IF m <= n THEN n - m + 1 ELSE 0
         /\ \A i \in 1..Len(SubSeq(q, m, n)) :
              m + i - 1 \in 1..Len(q) /\ SubSeq(q, m, n)[i] = q[m + i - 1]
<1>1. Len(q) \in Nat
  OBVIOUS
<1>2. /\ Len(SubSeq(q, m, n)) = IF m <= n THEN n - m + 1 ELSE 0
      /\ \A i \in 1..Len(SubSeq(q, m, n)) : SubSeq(q, m, n)[i] = q[m + i - 1]
  OBVIOUS
<1>3. ASSUME NEW i \in 1..Len(SubSeq(q, m, n)) PROVE m + i - 1 \in 1..Len(q)
  <2> DEFINE len == Len(SubSeq(q, m, n))
  <2>1. i \in 1..len /\ len = (IF m <= n THEN n - m + 1 ELSE 0)
    BY <1>2
  <2> HIDE DEF len
  <2> QED
    BY <1>1, <2>1
<1>4. SubSeq(q, m, n) \in Seq(S)
  <2>1. SubSeq(q, m, n) = [i \in 1..(n - m + 1) |-> q[m + i - 1]]
    BY <1>1
  <2>2. \A i \in 1..(n - m + 1) : m + i - 1 \in 1..Len(q)
    BY <1>1
  <2>3. \A i \in 1..(n - m + 1) : q[m + i - 1] \in S
    BY <2>2
  <2>4. CASE n - m + 1 \in Nat
    BY <2>1, <2>3, <2>4
  <2>5. CASE n - m + 1 \notin Nat
    <3>1. 1..(n - m + 1) = 1..0
      BY <1>1, <2>5
    <3>2. SubSeq(q, m, n) = <<>>
      BY <2>1, <3>1
    <3> QED
      BY <3>2
  <2> QED
    BY <2>4, <2>5
<1> QED
  BY <1>1, <1>2, <1>3, <1>4

LEMMA HalfDoneType == HalfDone \in BOOLEAN /\ \A x \in BOOLEAN : (x /\ HalfDone) \in BOOLEAN
BY DEF HalfDone

LEMMA QueueSteps ==
  ASSUME IInv, WaitSleep \/ SleepInsert \/ Enqueue \/ Push \/ PickUser \/ PickIdle \/ Store
              \/ ContextSwitch
  PROVE  IInv'
<1>1. DataTypes /\ cur \in Tasks /\ sp \in Tasks /\ NoNewQueued /\ state[cur] # "NEW"
  BY DataFromInv
<1>2. {"we_check", "enqueue", "push", "scan", "switch"} \subseteq Quiet
  BY DEF Quiet, Points
<1>3. CASE WaitSleep
  <2>1. DataTypes' /\ \A u \in Tasks : state'[u] = "NEW" => state[u] = "NEW"
    BY <1>1, <1>3 DEF WaitSleep, WithWaiter, DataTypes, life, cpu, States
  <2> QED
    BY <1>1, <1>2, <1>3, <2>1, QuietSteps, StateKeeps DEF WaitSleep, At, life, cpu
<1>4. CASE SleepInsert
  <2> DEFINE E == [task : Tasks, left : Nat]
             n == InsertAt(due[sp])
             e == [task |-> cur, left |-> due[sp]]
             a == SubSeq(sleepq, 1, n)
             b == SubSeq(sleepq, n + 1, Len(sleepq))
  <2>1. sleepq \in Seq(E) /\ Len(sleepq) \in Nat
    BY <1>1 DEF DataTypes
  <2>2. n \in 0..Len(sleepq) /\ n + 1 \in 1..(Len(sleepq) + 1) /\ Len(sleepq) \in 0..Len(sleepq)
        /\ 1 \in 1..(Len(sleepq) + 1)
    <3>1. n \in 0..Len(sleepq)
      BY <2>1, InsertAtIs
    <3> QED
      BY <2>1, <3>1
  <2>3. e \in E
    BY <1>1 DEF DataTypes
  <2>4. sleepq' = a \o <<e>> \o b
    BY <1>4 DEF SleepInsert
  <2> HIDE DEF E, n, e
  <2>5. a \in Seq(E) /\ b \in Seq(E)
    BY <2>1, <2>2, PieceIs
  <2> HIDE DEF a, b
  <2>6. sleepq' \in Seq(E)
    BY <2>3, <2>4, <2>5
  <2>7. DataTypes' /\ \A u \in Tasks : state'[u] = "NEW" => state[u] = "NEW"
    BY <1>1, <1>4, <2>6 DEF SleepInsert, DataTypes, life, cpu, States, E
  <2> QED
    BY <1>1, <1>2, <1>4, <2>7, QuietSteps, StateKeeps DEF SleepInsert, Schedule, At, life, cpu
<1>5. CASE Enqueue
  <2>1. torn' \in BOOLEAN
    BY <1>5, Zenon DEF Enqueue
  <2>2. DataTypes'
    BY <1>1, <1>5, <2>1 DEF Enqueue, DataTypes, queues, life
  <2> QED
    BY <1>1, <1>2, <1>5, <2>2, QuietSteps, PlainKeeps DEF Enqueue, At, queues, life
<1>6. CASE Push
  <2>1. /\ ready' \in [Priorities -> Seq(Tasks)]
        /\ \A p \in Priorities : \A i \in 1..Len(ready'[p]) :
               (i \in 1..Len(ready[p]) /\ ready'[p][i] = ready[p][i]) \/ ready'[p][i] = cur
    <3>1. ready \in [Priorities -> Seq(Tasks)]
      BY <1>1 DEF DataTypes
    <3>2. /\ AddReady(ready, cur) \in [Priorities -> Seq(Tasks)]
          /\ \A p \in Priorities : \A i \in 1..Len(AddReady(ready, cur)[p]) :
               \/ i \in 1..Len(ready[p]) /\ AddReady(ready, cur)[p][i] = ready[p][i]
               \/ AddReady(ready, cur)[p][i] = cur
      BY <1>1, <3>1, AddReadyIs
    <3> QED
      BY <1>6, <3>2 DEF Push
  <2>2. torn' \in BOOLEAN
    BY <1>6, HalfDoneType DEF Push
  <2>3. DataTypes'
    BY <1>1, <1>6, <2>1, <2>2 DEF Push, DataTypes, life
  <2>4. NoNewQueued'
    BY <1>1, <1>6, <2>1 DEF Push, NoNewQueued
  <2> QED
    BY <1>1, <1>6, <2>3, <2>4, QuietSteps, StepKeeps DEF Push, At, life
<1>7. ASSUME NEW h \in Priorities, ready[h] # <<>>, Take(h), stack[sp] # <<>>, Head(stack[sp]) # "ret"
      PROVE  IInv'
  <2>1. /\ ready \in [Priorities -> Seq(Tasks)] /\ ready[h] \in Seq(Tasks)
    BY <1>1 DEF DataTypes
  <2>2. /\ ready' = [ready EXCEPT ![h] = Tail(@)] /\ Become(<<Head(ready[h])>>)
        /\ torn' \in BOOLEAN
    BY <1>7, HalfDoneType DEF Take
  <2>3. /\ ready' \in [Priorities -> Seq(Tasks)] /\ ready'[h] = Tail(ready[h])
        /\ \A p \in Priorities : p # h => ready'[p] = ready[p]
        /\ Head(ready[h]) \in Tasks /\ Head(ready[h]) = ready[h][1] /\ 1 \in 1..Len(ready[h])
    BY <1>7, <2>1, <2>2
  <2>4. DataTypes'
    BY <1>1, <1>7, <2>2, <2>3 DEF Take, DataTypes, life
  <2>5. NoNewQueued'
    <3> SUFFICES ASSUME NEW p \in Priorities, NEW i \in 1..Len(ready'[p])
                 PROVE  state[ready'[p][i]] # "NEW"
      <4>1. state' = state
        BY <1>7 DEF Take
      <4> QED
        BY <4>1 DEF NoNewQueued
    <3>1. CASE p = h
      <4>1. /\ Len(Tail(ready[h])) = Len(ready[h]) - 1 /\ Len(ready[h]) \in Nat
            /\ \A j \in 1..(Len(ready[h]) - 1) : Tail(ready[h])[j] = ready[h][j + 1]
        BY <1>7, <2>1
      <4>2. i \in 1..(Len(ready[h]) - 1) /\ i + 1 \in 1..Len(ready[h])
        BY <2>3, <3>1, <4>1
      <4> QED
        <5>1. ready'[p][i] = ready[h][i + 1]
          BY <2>3, <3>1, <4>1, <4>2
        <5>2. state[ready[h][i + 1]] # "NEW"
          BY <1>1, <4>2 DEF NoNewQueued
        <5> QED
          BY <5>1, <5>2
    <3>2. CASE p # h
      BY <1>1, <2>3, <3>2 DEF NoNewQueued
    <3> QED
      BY <3>1, <3>2
  <2>6. Head(ready[h]) \in Quiet
    BY <1>1, <2>3 DEF NoNewQueued, Quiet
  <2> QED
    BY <1>1, <1>7, <2>2, <2>4, <2>5, <2>6, QuietSteps, StepKeeps DEF Take, life
<1>8. CASE PickUser
  <2>1. PICK h \in UserQueues : Take(h)
    BY <1>8 DEF PickUser
  <2> QED
    BY <1>7, <1>8, <2>1 DEF PickUser, At, UserQueues, NonEmpty
<1>9. CASE PickIdle
  BY <1>7, <1>9 DEF PickIdle, At, NonEmpty
<1>10. CASE Store
  <2> DEFINE h == Head(stack[sp])
  <2>1. /\ stack[sp] # <<>> /\ h \in Tasks /\ cur' = h /\ Become(<<>>)
        /\ UNCHANGED <<state, ready, waitq, sleepq, due, line_ready, need_resched, pending,
                       listed, parent, child, sp, nest, masked, torn>>
    BY <1>10 DEF Store, queues, life, cpu
  <2>2. h # "ret"
    BY <2>1, TaskAssumption DEF Points
  <2>3. state[h] # "NEW"
    <3>1. stack[sp] \in Seq(Steps) /\ NoNewIn(stack[sp])
      BY <1>1 DEF IInv, TypeOK, NewIsFresh
    <3>2. Len(stack[sp]) \in DOMAIN stack[sp] /\ FromBottom(stack[sp], Len(stack[sp])) = h
      BY <2>1, <3>1, PopKeeps
    <3> QED
      BY <2>1, <3>1, <3>2 DEF NoNewIn
  <2> HIDE DEF h
  <2>4. DataTypes' /\ NoNewQueued' /\ state'[cur'] # "NEW"
    BY <1>1, <2>1, <2>3 DEF DataTypes, NoNewQueued
  <2> QED
    BY <2>1, <2>2, <2>4, QuietSteps, StepKeeps DEF h
<1>11. CASE ContextSwitch
  <2>1. masked' \in BOOLEAN /\ torn' \in BOOLEAN
    <3>1. masked \in BOOLEAN
      BY <1>1 DEF DataTypes
    <3>2. masked' \in BOOLEAN
      BY <1>11, <3>1 DEF ContextSwitch, MaskOnResume
    <3>3. (~masked /\ cur # Idle /\ stack[cur] = <<>>) \in BOOLEAN
      BY Zenon
    <3> QED
      BY <1>11, <3>2, <3>3 DEF ContextSwitch
  <2>2. DataTypes' /\ NoNewQueued'
    BY <1>1, <1>11, <2>1 DEF ContextSwitch, DataTypes, NoNewQueued, queues, life
  <2> QED
    BY <1>1, <1>11, <2>2, QuietSteps, StepKeeps DEF ContextSwitch, At, queues, life
<1> QED
  BY <1>3, <1>4, <1>5, <1>6, <1>8, <1>9, <1>10, <1>11

\* The end of a system call or of an interrupt handler.
LEMMA ReturnStep ==
  ASSUME IInv, ExceptionReturn
  PROVE  IInv'
<1>1. /\ stack' \in [Tasks -> Seq(Steps)] /\ FramesCounted' /\ ForkAtBottom' /\ nest' \in Nat
      /\ \A t \in Tasks : t # sp => stack'[t] = stack[t]
      /\ \A t \in Tasks : NoNewIn(stack'[t])
  BY ReturnKeeps DEF ExceptionReturn, life
<1>2. TypeOK'
  BY <1>1 DEF IInv, TypeOK, ExceptionReturn, queues, life
<1>3. NewIsFresh'
  BY <1>1, NewStays DEF IInv, NewIsFresh, NoNewQueued, ExceptionReturn, queues
<1> QED
  BY <1>1, <1>2, <1>3 DEF IInv

\* A system call or an interrupt is taken.
LEMMA EntryStep ==
  ASSUME IInv, NEW a \in Quiet \cup {"fork"}, NEW b \in Quiet, Enter(<<a, b, "ret">>),
         a = "fork" => stack[sp] = <<>>, child' = child, cur' = cur, sp' = sp, DataTypes', NoNewQueued',
         \A t \in Tasks : state'[t] = "NEW" => state[t] = "NEW"
  PROVE  IInv'
<1>1. /\ stack' \in [Tasks -> Seq(Steps)] /\ FramesCounted' /\ ForkAtBottom' /\ nest' \in Nat
      /\ \A t \in Tasks : t # sp => stack'[t] = stack[t]
      /\ \A t \in Tasks : NoNewIn(stack'[t])
  BY EnterKeeps
<1>2. TypeOK'
  BY <1>1 DEF DataTypes, TypeOK
<1>3. NewIsFresh'
  BY <1>1, NewStays DEF IInv, NewIsFresh
<1> QED
  BY <1>1, <1>2, <1>3 DEF IInv

LEMMA EntryMaskedType ==
  ASSUME IInv
  PROVE  EntryMasked \in BOOLEAN
<1>1. nest \in Nat /\ NestLimit \in Nat
  BY BoundAssumption DEF IInv, TypeOK
<1> QED
  BY <1>1 DEF EntryMasked

\* What a sequence holds.
LEMMA EntryOf ==
  ASSUME NEW S, NEW q \in Seq(S)
  PROVE  Len(q) \in Nat /\ DOMAIN q = 1..Len(q) /\ \A i \in 1..Len(q) : q[i] \in S
OBVIOUS

LEMMA SleepEntryOf ==
  ASSUME NEW q \in Seq([task : Tasks, left : Nat]), NEW i \in 1..Len(q)
  PROVE  q[i] \in [task : Tasks, left : Nat] /\ q[i].task \in Tasks /\ q[i].left \in Nat
<1>1. q[i] \in [task : Tasks, left : Nat]
  BY EntryOf
<1> QED
  BY <1>1

LEMMA SyscallStep ==
  ASSUME IInv, NEW op \in Ops, Syscall(op)
  PROVE  IInv'
<1>1. op \in Quiet \cup {"fork"} /\ "signals" \in Quiet
  BY InputAssumption DEF Quiet, Points
<1>2. DataTypes'
  <2>1. masked' \in BOOLEAN
    BY EntryMaskedType DEF Syscall, Enter
  <2> QED
    BY <2>1, DataFromInv DEF Syscall, DataTypes, queues, life
<1>3. NoNewQueued'
  BY DataFromInv DEF Syscall, NoNewQueued, queues
<1> QED
  BY <1>1, <1>2, <1>3, EntryStep DEF Syscall, life

\* The scan of the sleep queue stops somewhere.
LEMMA ExpiredIs ==
  ASSUME NEW q \in Seq([task : Tasks, left : Nat])
  PROVE  /\ Expired(q) \in 0..Len(q) /\ \A i \in 1..Expired(q) : q[i].left = 0
         /\ Expired(q) < Len(q) => q[Expired(q) + 1].left > 0
<1> DEFINE L == Len(q)
           S == {i \in 1..L : q[i].left > 0}
           Stops(n) == /\ \A i \in 1..n : q[i].left = 0
                       /\ n < L => q[n + 1].left > 0
<1>1. L \in Nat /\ \A i \in 1..L : q[i].left \in Nat
  BY SleepEntryOf, EntryOf
<1>2. \E n \in 0..L : Stops(n)
  <2>1. CASE S = {}
    <3>1. \A i \in 1..L : q[i].left = 0
      BY <1>1, <2>1
    <3>2. Stops(L) /\ L \in 0..L
      BY <1>1, <3>1
    <3> QED
      BY <3>2
  <2>2. CASE S # {}
    <3>1. IsFiniteSet(1..L) /\ S \in SUBSET (1..L) /\ S \in SUBSET Int
      BY <1>1, FS_Interval
    <3>2. IsFiniteSet(S)
      BY <3>1, FS_Subset
    <3>3. PICK m \in S : \A n \in S : m <= n
      BY <2>2, <3>1, <3>2, FiniteHasMin
    <3>4. m - 1 \in 0..L /\ m \in 1..L /\ (m - 1) + 1 = m /\ q[m].left > 0
      BY <1>1, <3>3
    <3>5. ASSUME NEW i \in 1..(m - 1) PROVE q[i].left = 0
      <4>1. i \in 1..L /\ ~(m <= i)
        BY <1>1, <3>4
      <4>2. i \notin S
        BY <3>3, <4>1
      <4> QED
        BY <1>1, <4>1, <4>2
    <3> QED
      BY <3>4, <3>5
  <2> QED
    BY <2>1, <2>2
<1>3. Expired(q) = CHOOSE n \in 0..L : Stops(n)
  BY DEF Expired
<1> HIDE DEF Stops
<1>4. Expired(q) \in 0..L /\ Stops(Expired(q))
  BY <1>2, <1>3
<1> QED
  BY <1>4 DEF Stops

LEMMA AgedIs ==
  ASSUME NEW q \in Seq([task : Tasks, left : Nat])
  PROVE  /\ Aged(q) \in Seq([task : Tasks, left : Nat]) /\ Len(Aged(q)) = Len(q)
         /\ \A i \in 1..Len(q) : /\ q[i].task \in Tasks /\ q[i].left \in Nat
                                 /\ Aged(q)[i].task = q[i].task
                                 /\ Aged(q)[i].left = Elapsed(q[i].left)
<1>1. \A n \in Nat : Elapsed(n) \in Nat
  BY DEF Elapsed
<1>2. ASSUME NEW i \in 1..Len(q)
      PROVE  /\ q[i].task \in Tasks /\ q[i].left \in Nat
             /\ [q[i] EXCEPT !.left = Elapsed(@)] \in [task : Tasks, left : Nat]
             /\ [q[i] EXCEPT !.left = Elapsed(@)].task = q[i].task
             /\ [q[i] EXCEPT !.left = Elapsed(@)].left = Elapsed(q[i].left)
  <2>1. q[i] \in [task : Tasks, left : Nat]
    BY SleepEntryOf
  <2> QED
    BY <1>1, <2>1
<1>3. Aged(q) = [i \in 1..Len(q) |-> [q[i] EXCEPT !.left = Elapsed(@)]] /\ Len(q) \in Nat
  BY DEF Aged
<1> HIDE DEF Elapsed
<1>4. Aged(q) \in Seq([task : Tasks, left : Nat]) /\ Len(Aged(q)) = Len(q)
  BY <1>2, <1>3
<1>5. \A i \in 1..Len(q) : Aged(q)[i] = [q[i] EXCEPT !.left = Elapsed(@)]
  BY <1>3
<1> QED
  BY <1>2, <1>4, <1>5

LEMMA TaskOfIs ==
  ASSUME NEW q \in Seq([task : Tasks, left : Nat])
  PROVE  /\ TaskOf(q) \in Seq(Tasks) /\ Len(TaskOf(q)) = Len(q)
         /\ \A i \in 1..Len(q) : TaskOf(q)[i] = q[i].task
<1>1. TaskOf(q) = [i \in 1..Len(q) |-> q[i].task] /\ Len(q) \in Nat
  BY DEF TaskOf
<1>2. \A i \in 1..Len(q) : q[i].task \in Tasks
  BY SleepEntryOf
<1> QED
  BY <1>1, <1>2

\* Whoever is woken is RUNNING; the others keep their state.
LEMMA AwakeIs ==
  ASSUME DataTypes, NEW ts \in Seq(Tasks)
  PROVE  /\ Awake(ts) \in [Tasks -> States]
         /\ \A t \in Tasks : Awake(ts)[t] \in {"RUNNING", state[t]}
         /\ \A i \in 1..Len(ts) : Awake(ts)[ts[i]] = "RUNNING"
         /\ \A t \in Tasks : (\A i \in 1..Len(ts) : ts[i] # t) => Awake(ts)[t] = state[t]
<1>1. DOMAIN ts = 1..Len(ts) /\ \A i \in 1..Len(ts) : ts[i] \in Tasks
  OBVIOUS
<1>2. state \in [Tasks -> States]
  BY DEF DataTypes
<1>3. \A t \in Tasks : Awake(ts)[t] = IF \E i \in 1..Len(ts) : ts[i] = t THEN "RUNNING" ELSE state[t]
  BY <1>1 DEF Awake
<1>4. Awake(ts) \in [Tasks -> States]
  BY <1>2 DEF Awake, States
<1> QED
  BY <1>1, <1>3, <1>4

\* Waking tasks leaves none of the queued ones uncreated.
LEMMA WakeKeeps ==
  ASSUME IInv, NEW w \in Seq(Tasks), state' = Awake(w), ready' = AddAllReady(ready, w)
  PROVE  /\ state' \in [Tasks -> States] /\ ready' \in [Priorities -> Seq(Tasks)] /\ NoNewQueued'
         /\ \A t \in Tasks : state'[t] = "NEW" => state[t] = "NEW"
<1>1. DataTypes /\ NoNewQueued /\ ready \in [Priorities -> Seq(Tasks)]
  BY DataFromInv DEF DataTypes
<1>2. /\ state' \in [Tasks -> States]
      /\ \A t \in Tasks : state'[t] \in {"RUNNING", state[t]}
      /\ \A i \in 1..Len(w) : state'[w[i]] = "RUNNING"
  BY <1>1, AwakeIs
<1>3. /\ ready' \in [Priorities -> Seq(Tasks)]
      /\ \A p \in Priorities : \A i \in 1..Len(ready'[p]) :
              \/ i \in 1..Len(ready[p]) /\ ready'[p][i] = ready[p][i]
              \/ \E j \in 1..Len(w) : ready'[p][i] = w[j]
  <2> DEFINE r == AddAllReady(ready, w)
  <2>1. /\ r \in [Priorities -> Seq(Tasks)]
        /\ \A p \in Priorities : \A i \in 1..Len(r[p]) :
              \/ i \in 1..Len(ready[p]) /\ r[p][i] = ready[p][i]
              \/ \E j \in 1..Len(w) : r[p][i] = w[j] /\ Prio[w[j]] = p
    BY <1>1, AddAllReadyIs
  <2>2. ready' = r
    OBVIOUS
  <2> HIDE DEF r
  <2> QED
    BY <2>1, <2>2
<1>4. \A t \in Tasks : state'[t] = "NEW" => state[t] = "NEW"
  BY <1>2
<1>5. NoNewQueued'
  <2> SUFFICES ASSUME NEW p \in Priorities, NEW i \in 1..Len(ready'[p])
               PROVE  state'[ready'[p][i]] # "NEW"
    BY DEF NoNewQueued
  <2>1. ready'[p][i] \in Tasks
    <3>1. ready'[p] \in Seq(Tasks)
      BY <1>3
    <3> QED
      BY <3>1, EntryOf
  <2>2. CASE i \in 1..Len(ready[p]) /\ ready'[p][i] = ready[p][i]
    BY <1>1, <1>4, <2>1, <2>2 DEF NoNewQueued
  <2>3. CASE \E j \in 1..Len(w) : ready'[p][i] = w[j]
    BY <1>2, <2>3
  <2> QED
    BY <1>3, <2>2, <2>3
<1> QED
  BY <1>2, <1>3, <1>4, <1>5

\* What a tick does to the sleep queue.
LEMMA TickIs ==
  ASSUME IInv, NEW slice_over \in BOOLEAN, TimerInterrupt(slice_over)
  PROVE  \E q, w, n :
           /\ q = Aged(sleepq) /\ n = Expired(q) /\ w = TaskOf(SubSeq(q, 1, n))
           /\ q \in Seq([task : Tasks, left : Nat]) /\ w \in Seq(Tasks) /\ n \in 0..Len(q)
           /\ Len(w) = n /\ \A i \in 1..n : w[i] = q[i].task
           /\ sleepq' = SubSeq(q, n + 1, Len(q)) /\ sleepq' \in Seq([task : Tasks, left : Nat])
           /\ Len(sleepq') = Len(q) - n /\ \A i \in 1..(Len(q) - n) : sleepq'[i] = q[n + i]
           /\ state' = Awake(w) /\ ready' = AddAllReady(ready, w)
<1> DEFINE E == [task : Tasks, left : Nat]
           q == Aged(sleepq)
           n == Expired(q)
           a == SubSeq(q, 1, n)
           b == SubSeq(q, n + 1, Len(q))
           w == TaskOf(a)
<1>1. sleepq' = b /\ state' = Awake(w) /\ ready' = AddAllReady(ready, w)
  BY DEF TimerInterrupt
<1>2. q \in Seq(E)
  BY AgedIs DEF IInv, TypeOK
<1>3. n \in 0..Len(q)
  BY <1>2, ExpiredIs
<1> HIDE DEF q, n
<1>4. Len(q) \in Nat /\ n + 1 \in 1..(Len(q) + 1) /\ 1 \in 1..(Len(q) + 1) /\ Len(q) \in 0..Len(q)
  <2>1. Len(q) \in Nat
    BY <1>2, EntryOf
  <2> QED
    BY <1>3, <2>1
<1> HIDE DEF E
<1>5. /\ a \in Seq(E) /\ Len(a) = (IF 1 <= n THEN n - 1 + 1 ELSE 0)
      /\ \A i \in 1..Len(a) : a[i] = q[1 + i - 1]
  BY <1>2, <1>3, <1>4, PieceIs
<1>6. /\ b \in Seq(E) /\ Len(b) = (IF n + 1 <= Len(q) THEN Len(q) - (n + 1) + 1 ELSE 0)
      /\ \A i \in 1..Len(b) : b[i] = q[n + 1 + i - 1]
  BY <1>2, <1>3, <1>4, PieceIs
<1> HIDE DEF a, b
<1>7. w \in Seq(Tasks) /\ Len(w) = Len(a) /\ \A i \in 1..Len(a) : w[i] = a[i].task
  BY <1>5, TaskOfIs DEF E
<1> HIDE DEF w
<1>8. Len(w) = n /\ \A i \in 1..n : w[i] = q[i].task
  <2>1. Len(a) = n
    BY <1>3, <1>4, <1>5
  <2>2. \A i \in 1..n : 1 + i - 1 = i
    BY <1>3, <1>4
  <2> QED
    BY <1>5, <1>7, <2>1, <2>2
<1>9. Len(b) = Len(q) - n /\ \A i \in 1..(Len(q) - n) : b[i] = q[n + i]
  <2>1. Len(b) = Len(q) - n
    BY <1>3, <1>4, <1>6
  <2>2. \A i \in 1..(Len(q) - n) : n + 1 + i - 1 = n + i
    BY <1>3, <1>4
  <2> QED
    BY <1>6, <2>1, <2>2
<1>10. w = TaskOf(SubSeq(q, 1, n)) /\ b = SubSeq(q, n + 1, Len(q))
  BY DEF w, a, b
<1>11. q = Aged(sleepq) /\ n = Expired(q)
  BY DEF q, n
<1> QED
  BY <1>1, <1>2, <1>3, <1>6, <1>7, <1>8, <1>9, <1>10, <1>11 DEF E

\* A line wakes every reader.
LEMMA LineIs ==
  ASSUME IInv, LineInterrupt
  PROVE  /\ waitq \in Seq(Tasks) /\ state' = Awake(waitq) /\ ready' = AddAllReady(ready, waitq)
         /\ waitq' = <<>>
<1>1. waitq \in Seq(Tasks) /\ Len(waitq) \in Nat
  BY DEF IInv, TypeOK
<1>2. waitq' = SubSeq(waitq, Len(waitq) + 1, Len(waitq))
  BY DEF LineInterrupt, WokenByLine
<1>3. waitq' = <<>>
  BY <1>1, <1>2
<1> QED
  BY <1>1, <1>3 DEF LineInterrupt, WokenByLine

LEMMA InterruptSteps ==
  ASSUME IInv, Interrupt
  PROVE  IInv'
<1>1. DataTypes /\ NoNewQueued
  BY DataFromInv
<1>2. "signals" \in Quiet \cup {"fork"} /\ "resched" \in Quiet /\ "signals" # "fork"
  BY DEF Quiet, Points
<1>3. ASSUME Interrupted PROVE masked' \in BOOLEAN /\ Enter(<<"signals", "resched", "ret">>)
  BY <1>3, EntryMaskedType DEF Interrupted, Enter, IrqSteps
<1>4. ASSUME NEW slice_over \in BOOLEAN, TimerInterrupt(slice_over) PROVE IInv'
  <2>1. /\ sleepq' \in Seq([task : Tasks, left : Nat])
        /\ \E w \in Seq(Tasks) : state' = Awake(w) /\ ready' = AddAllReady(ready, w)
    BY <1>4, TickIs
  <2>2. /\ state' \in [Tasks -> States] /\ ready' \in [Priorities -> Seq(Tasks)] /\ NoNewQueued'
        /\ \A t \in Tasks : state'[t] = "NEW" => state[t] = "NEW"
    BY <2>1, WakeKeeps
  <2>3. due' \in [Tasks -> Nat]
    <3>1. \A t \in Tasks : due[t] \in Nat
      BY <1>1 DEF DataTypes
    <3> QED
      BY <1>4, <3>1 DEF TimerInterrupt, Elapsed
  <2>4. need_resched' \in BOOLEAN
    BY <1>4, Zenon DEF TimerInterrupt
  <2>5. /\ masked' \in BOOLEAN /\ Enter(<<"signals", "resched", "ret">>) /\ torn' \in BOOLEAN
        /\ UNCHANGED <<cur, sp, waitq, line_ready, pending, listed, parent, child>>
    <3>1. torn' \in BOOLEAN
      <4>1. \E w \in BOOLEAN : torn' \in {FALSE, w /\ HalfDone}
        BY <1>4, Zenon DEF TimerInterrupt
      <4> QED
        BY <4>1, HalfDoneType
    <3> QED
      BY <1>3, <1>4, <3>1 DEF TimerInterrupt, Interrupted, life
  <2>6. DataTypes'
    BY <1>1, <2>1, <2>2, <2>3, <2>4, <2>5 DEF DataTypes
  <2> QED
    BY <1>2, <2>2, <2>5, <2>6, EntryStep
<1>5. ASSUME LineInterrupt PROVE IInv'
  <2>1. /\ waitq \in Seq(Tasks) /\ state' = Awake(waitq) /\ ready' = AddAllReady(ready, waitq)
        /\ waitq' = <<>>
    BY <1>5, LineIs
  <2>2. /\ state' \in [Tasks -> States] /\ ready' \in [Priorities -> Seq(Tasks)] /\ NoNewQueued'
        /\ \A t \in Tasks : state'[t] = "NEW" => state[t] = "NEW"
    BY <2>1, WakeKeeps
  <2>3. /\ masked' \in BOOLEAN /\ Enter(<<"signals", "resched", "ret">>) /\ line_ready' = TRUE
        /\ torn' \in BOOLEAN
        /\ UNCHANGED <<cur, sp, sleepq, due, need_resched, pending, listed, parent, child>>
    <3>1. torn' \in BOOLEAN
      <4>1. (WokenByLine # <<>>) \in BOOLEAN /\ torn' \in {FALSE, WokenByLine # <<>> /\ HalfDone}
        BY <1>5, Zenon DEF LineInterrupt
      <4> QED
        BY <4>1, HalfDoneType
    <3> QED
      BY <1>3, <1>5, <3>1 DEF LineInterrupt, Interrupted, life
  <2>4. DataTypes'
    BY <1>1, <2>1, <2>2, <2>3 DEF DataTypes
  <2> QED
    BY <1>2, <2>2, <2>3, <2>4, EntryStep
<1>6. ASSUME NEW key \in Keys, KeyInterrupt(key) PROVE IInv'
  <2>1. /\ masked' \in BOOLEAN /\ Enter(<<"signals", "resched", "ret">>)
        /\ UNCHANGED <<state, cur, sp, torn, ready, waitq, sleepq, due, line_ready, need_resched,
                       listed, parent, child>>
    BY <1>3, <1>6 DEF KeyInterrupt, Interrupted, queues, life
  <2>2. pending' \in [Tasks -> SUBSET Signals]
    BY <1>1, <1>6 DEF KeyInterrupt, KeySignal, DataTypes, Signals
  <2>3. DataTypes' /\ NoNewQueued'
    BY <1>1, <2>1, <2>2 DEF DataTypes, NoNewQueued
  <2> QED
    BY <1>2, <2>1, <2>3, EntryStep
<1> QED
  BY <1>4, <1>5, <1>6 DEF Interrupt

\* The child starts in user mode and in the ready queue; its parent has yet to register it.
LEMMA ForkStep ==
  ASSUME IInv, Fork
  PROVE  IInv'
<1>1. DataTypes /\ cur \in Tasks /\ sp \in Tasks /\ NoNewQueued /\ state[cur] # "NEW"
  BY DataFromInv
<1>2. PICK c \in Tasks :
          /\ state[c] = "NEW"
          /\ state' = [state EXCEPT ![c] = "RUNNING"]
          /\ parent' = [parent EXCEPT ![c] = cur]
          /\ child' = [child EXCEPT ![sp] = c]
          /\ ready' = AddReady(ready, c)
          /\ stack' = [stack EXCEPT ![c] = ChildStack, ![sp] = <<"register">> \o Tail(@)]
  BY DEF Fork
<1>3. /\ UNCHANGED <<cur, waitq, sleepq, due, line_ready, need_resched, pending, listed, sp, nest, masked>>
      /\ stack[sp] # <<>> /\ Head(stack[sp]) = "fork" /\ torn' \in BOOLEAN
  BY HalfDoneType DEF Fork, At
<1>4. c # cur /\ c # sp /\ stack[c] = <<>>
  BY <1>1, <1>2 DEF IInv, NewIsFresh
<1> DEFINE s == stack[sp]
           n == <<"register">> \o Tail(s)
<1>5. /\ stack \in [Tasks -> Seq(Steps)] /\ s \in Seq(Steps) /\ <<"register">> \in Seq(Steps)
      /\ Len(<<"register">>) = 1 /\ <<"register">>[1] = "register"
  BY <1>1 DEF IInv, TypeOK, Points, Steps
<1>6. /\ n \in Seq(Steps) /\ Len(s) \in Nat /\ Len(s) > 0
      /\ DOMAIN n = 1..(1 + (Len(s) - 1)) /\ DOMAIN s = 1..Len(s)
      /\ \A k \in 1..(Len(s) - 1) : FromBottom(n, k) = FromBottom(s, k)
      /\ FromBottom(n, Len(s)) = "register"
      /\ FromBottom(s, Len(s)) = "fork"
  <2> DEFINE p == <<"register">>
             r == Tail(s)
  <2>1. /\ p \in Seq(Steps) /\ Len(p) = 1 /\ s \in Seq(Steps) /\ s # <<>> /\ Head(s) = "fork"
    BY <1>3, <1>5
  <2> HIDE DEF p
  <2>2. /\ p \o r \in Seq(Steps) /\ Len(s) \in Nat /\ Len(s) > 0
        /\ DOMAIN (p \o r) = 1..(Len(p) + (Len(s) - 1)) /\ DOMAIN s = 1..Len(s)
        /\ \A k \in 1..(Len(s) - 1) : FromBottom(p \o r, k) = FromBottom(s, k)
        /\ FromBottom(s, Len(s)) = Head(s)
    BY <2>1, ReplaceTop
  <2>3. FromBottom(p \o r, Len(s)) = "register"
    <3>1. r \in Seq(Steps) /\ Len(r) = Len(s) - 1 /\ p[1] = "register"
      BY <2>1 DEF p
    <3> HIDE DEF r
    <3>2. Len(p \o r) = Len(s) /\ (p \o r)[1] = p[1]
      BY <2>1, <2>2, <3>1
    <3>3. Len(s) + 1 - Len(s) = 1
      BY <2>2
    <3> QED
      BY <3>1, <3>2, <3>3 DEF FromBottom
  <2> QED
    BY <2>1, <2>2, <2>3 DEF p
<1>7. /\ stack'[sp] = n /\ stack' \in [Tasks -> Seq(Steps)]
      /\ \A t \in Tasks : t # sp => stack'[t] = stack[t]
  <2>1. /\ stack'[sp] = n /\ stack'[c] = <<>>
        /\ \A t \in Tasks : t # sp /\ t # c => stack'[t] = stack[t]
    BY <1>1, <1>2, <1>4, <1>5 DEF ChildStack
  <2>2. stack' \in [Tasks -> Seq(Steps)]
    <3>1. stack' = [stack EXCEPT ![c] = <<>>, ![sp] = n]
      BY <1>1, <1>2, <1>4, <1>5 DEF ChildStack
    <3> HIDE DEF s, n
    <3>2. <<>> \in Seq(Steps)
      OBVIOUS
    <3> QED
      BY <1>1, <1>4, <1>5, <1>6, <3>1, <3>2
  <2> QED
    BY <1>4, <2>1, <2>2
<1> HIDE DEF s, n
<1>8. /\ DOMAIN n = DOMAIN s /\ Len(s) \in DOMAIN s /\ FromBottom(n, Len(s)) = "register"
      /\ \A k \in DOMAIN s : k # Len(s) => FromBottom(n, k) = FromBottom(s, k)
  <2>1. Len(s) \in Nat /\ Len(s) > 0
    BY <1>6
  <2>2. 1 + (Len(s) - 1) = Len(s) /\ Len(s) \in 1..Len(s) /\ Len(s) \in Len(s)..(1 + (Len(s) - 1))
        /\ \A k \in 1..Len(s) : k # Len(s) => k \in 1..(Len(s) - 1)
    BY <2>1
  <2>3. DOMAIN n = DOMAIN s /\ Len(s) \in DOMAIN s
    BY <1>6, <2>2
  <2>4. FromBottom(n, Len(s)) = "register"
    BY <1>6
  <2>5. \A k \in DOMAIN s : k # Len(s) => FromBottom(n, k) = FromBottom(s, k)
    BY <1>6, <2>2
  <2> QED
    BY <2>3, <2>4, <2>5
<1>9. Len(s) = 3
  BY <1>1, <1>6, <1>8 DEF IInv, ForkAtBottom, s
<1>10. FramesCounted'
  <2>1. FramesOf(n) = FramesOf(s)
    BY <1>6, <1>8 DEF FramesOf
  <2>2. Frames' = Frames
    BY <1>1, <1>7, <2>1, FramesChange DEF s
  <2> QED
    BY <1>3, <2>2 DEF IInv, FramesCounted
<1>11. child' \in [Tasks -> Tasks \cup {NoTask}] /\ child'[sp] = c
       /\ \A t \in Tasks : t # sp => child'[t] = child[t]
  BY <1>1, <1>2 DEF DataTypes
<1>12. ForkAtBottom'
  <2> SUFFICES ASSUME NEW t \in Tasks, NEW k \in DOMAIN stack'[t]
               PROVE  /\ FromBottom(stack'[t], k) \in {"fork", "register"} => k = 3
                      /\ FromBottom(stack'[t], k) = "register" => child'[t] \in Tasks
    BY DEF ForkAtBottom, FromBottom
  <2>1. CASE t = sp
    <3>1. k \in DOMAIN s
      BY <1>7, <1>8, <2>1
    <3>2. k # Len(s) => FromBottom(n, k) = FromBottom(s, k)
      BY <1>8, <3>1
    <3>3. FromBottom(s, k) \in {"fork", "register"} => k = 3
      BY <2>1, <3>1 DEF IInv, ForkAtBottom, s
    <3> QED
      BY <1>7, <1>9, <1>11, <2>1, <3>2, <3>3
  <2>2. CASE t # sp
    BY <1>7, <1>11, <2>2 DEF IInv, ForkAtBottom
  <2> QED
    BY <2>1, <2>2
<1>13. /\ ready' \in [Priorities -> Seq(Tasks)]
       /\ \A p \in Priorities : \A i \in 1..Len(ready'[p]) :
              (i \in 1..Len(ready[p]) /\ ready'[p][i] = ready[p][i]) \/ ready'[p][i] = c
  <2> DEFINE r == AddReady(ready, c)
  <2>1. /\ r \in [Priorities -> Seq(Tasks)]
        /\ \A p \in Priorities : \A i \in 1..Len(r[p]) :
             \/ i \in 1..Len(ready[p]) /\ r[p][i] = ready[p][i]
             \/ r[p][i] = c
    BY <1>1, AddReadyIs DEF DataTypes
  <2>2. ready' = r
    BY <1>2
  <2> HIDE DEF r
  <2> QED
    BY <2>1, <2>2
<1>14. /\ state' \in [Tasks -> States] /\ state'[c] = "RUNNING"
       /\ \A t \in Tasks : t # c => state'[t] = state[t]
  BY <1>1, <1>2 DEF DataTypes, States
<1>15. TypeOK'
  <2>1. parent' \in [Tasks -> Tasks \cup {NoTask}]
    BY <1>1, <1>2 DEF DataTypes
  <2> QED
    BY <1>3, <1>7, <1>11, <1>13, <1>14, <2>1 DEF IInv, TypeOK
<1>16. NewIsFresh'
  <2>1. \A t \in Tasks : state'[t] = "NEW" => stack'[t] = <<>> /\ t # cur' /\ t # sp'
    BY <1>3, <1>7, <1>14 DEF IInv, NewIsFresh
  <2>2. NoNewQueued'
    <3> SUFFICES ASSUME NEW p \in Priorities, NEW i \in 1..Len(ready'[p])
                 PROVE  state'[ready'[p][i]] # "NEW"
      BY DEF NoNewQueued
    <3>1. ready'[p][i] \in Tasks
      <4>1. ready'[p] \in Seq(Tasks)
        BY <1>13
      <4> QED
        BY <4>1, EntryOf
    <3>2. ready'[p][i] # c => state[ready'[p][i]] # "NEW"
      BY <1>1, <1>13 DEF NoNewQueued
    <3> QED
      BY <1>14, <3>1, <3>2
  <2>3. ASSUME NEW t \in Tasks PROVE NoNewIn(stack'[t])
    <3>1. CASE t = sp
      <4>1. "register" \notin Tasks
        BY TaskAssumption DEF Points
      <4> QED
        BY <1>1, <1>7, <1>8, <3>1, <4>1 DEF IInv, NewIsFresh, NoNewIn, s
    <3>2. CASE t # sp
      BY <1>7, <3>2 DEF IInv, NewIsFresh
    <3> QED
      BY <3>1, <3>2
  <2> QED
    BY <1>14, <2>1, <2>2, <2>3, NewStays DEF NewIsFresh
<1> QED
  BY <1>10, <1>12, <1>15, <1>16 DEF IInv

LEMMA RegisterStep ==
  ASSUME IInv, Register
  PROVE  IInv'
<1>1. DataTypes /\ cur \in Tasks /\ sp \in Tasks /\ NoNewQueued /\ state[cur] # "NEW"
  BY DataFromInv
<1>2. /\ UNCHANGED <<state, cur, ready, waitq, sleepq, due, line_ready, need_resched, pending,
                     parent, sp, nest, masked, torn>>
      /\ stack[sp] # <<>> /\ Head(stack[sp]) = "register"
      /\ child' = [child EXCEPT ![sp] = NoTask] /\ listed' = listed \cup {child[sp]}
  BY DEF Register, At, queues, cpu
<1> DEFINE s == stack[sp]
           n == Tail(s)
<1>3. stack \in [Tasks -> Seq(Steps)] /\ s \in Seq(Steps) /\ s # <<>>
  BY <1>1, <1>2 DEF IInv, TypeOK
<1>4. /\ n \in Seq(Steps) /\ Len(s) \in Nat /\ Len(s) > 0
      /\ DOMAIN n = 1..(Len(s) - 1) /\ DOMAIN s = 1..Len(s)
      /\ \A k \in 1..(Len(s) - 1) : FromBottom(n, k) = FromBottom(s, k)
      /\ FromBottom(s, Len(s)) = "register"
  BY <1>2, <1>3, PopKeeps
<1>5. stack' = [stack EXCEPT ![sp] = n]
  <2>1. <<>> \o Tail(stack[sp]) = n
    BY <1>4
  <2> QED
    BY <2>1 DEF Register, Become
<1>6. /\ stack' \in [Tasks -> Seq(Steps)] /\ stack'[sp] = n
      /\ \A t \in Tasks : t # sp => stack'[t] = stack[t]
  BY <1>1, <1>3, <1>4, <1>5
<1> HIDE DEF s, n
<1>7. \A k \in DOMAIN s : /\ FromBottom(s, k) \in {"fork", "register"} => k = 3
                          /\ FromBottom(s, k) = "register" => child[sp] \in Tasks
  BY <1>1 DEF IInv, ForkAtBottom, s
<1>8. Len(s) = 3 /\ child[sp] \in Tasks
  <2>1. Len(s) \in DOMAIN s
    BY <1>4
  <2> QED
    BY <1>4, <1>7, <2>1
<1>9. \A k \in DOMAIN n : k \in DOMAIN s /\ k # 3 /\ FromBottom(n, k) = FromBottom(s, k)
  BY <1>4, <1>8
<1>10. FramesCounted'
  <2>1. FramesOf(n) = FramesOf(s)
    <3>1. \A k \in DOMAIN s : FromBottom(s, k) = "ret" => k \in DOMAIN n
      BY <1>4
    <3> QED
      BY <1>9, <3>1 DEF FramesOf
  <2>2. Frames' = Frames
    BY <1>1, <1>6, <2>1, FramesChange DEF s
  <2> QED
    BY <1>2, <2>2 DEF IInv, FramesCounted
<1>11. /\ child' \in [Tasks -> Tasks \cup {NoTask}]
       /\ \A t \in Tasks : t # sp => child'[t] = child[t]
  BY <1>1, <1>2 DEF DataTypes
<1>12. ForkAtBottom'
  <2> SUFFICES ASSUME NEW t \in Tasks, NEW k \in DOMAIN stack'[t]
               PROVE  /\ FromBottom(stack'[t], k) \in {"fork", "register"} => k = 3
                      /\ FromBottom(stack'[t], k) = "register" => child'[t] \in Tasks
    BY DEF ForkAtBottom, FromBottom
  <2>1. CASE t = sp
    BY <1>6, <1>7, <1>9, <2>1
  <2>2. CASE t # sp
    BY <1>6, <1>11, <2>2 DEF IInv, ForkAtBottom
  <2> QED
    BY <2>1, <2>2
<1>13. TypeOK'
  BY <1>2, <1>6, <1>8, <1>11 DEF IInv, TypeOK
<1>14. NewIsFresh'
  <2>1. ASSUME NEW t \in Tasks PROVE NoNewIn(stack'[t])
    <3>1. CASE t = sp
      BY <1>1, <1>6, <1>9, <3>1 DEF IInv, NewIsFresh, NoNewIn, s
    <3>2. CASE t # sp
      BY <1>6, <3>2 DEF IInv, NewIsFresh
    <3> QED
      BY <3>1, <3>2
  <2> QED
    BY <1>2, <1>6, <2>1, NewStays DEF IInv, NewIsFresh, NoNewQueued
<1> QED
  BY <1>10, <1>12, <1>13, <1>14 DEF IInv

------------------------------------------------------------------------------------
(* Types and the nesting level *)

LEMMA InitHolds ==
  ASSUME Init
  PROVE  IInv
<1>1. TypeOK
  <2>1. state \in [Tasks -> States] /\ cur \in Tasks /\ sp \in Tasks /\ due \in [Tasks -> Nat] /\ listed \subseteq Tasks
    BY TaskAssumption DEF Init, States
  <2>2. ready \in [Priorities -> Seq(Tasks)]
    BY TaskAssumption DEF Init
  <2>3. stack \in [Tasks -> Seq(Steps)]
    <3>1. <<>> \in Seq(Steps)
      OBVIOUS
    <3> QED
      BY <3>1 DEF Init
  <2>4. pending \in [Tasks -> SUBSET Signals]
    BY DEF Init
  <2>5. parent \in [Tasks -> Tasks \cup {NoTask}] /\ child \in [Tasks -> Tasks \cup {NoTask}]
    BY DEF Init
  <2>6. waitq \in Seq(Tasks) /\ sleepq \in Seq([task : Tasks, left : Nat]) /\ nest \in Nat
    BY BoundAssumption DEF Init
  <2>7. line_ready \in BOOLEAN /\ need_resched \in BOOLEAN /\ masked \in BOOLEAN
        /\ torn \in BOOLEAN
    BY DEF Init
  <2> QED
    BY <2>1, <2>2, <2>3, <2>4, <2>5, <2>6, <2>7 DEF TypeOK
<1>2. \A t \in Tasks : stack[t] = <<>>
  BY DEF Init
<1>3. \A t \in Tasks : FramesOf(stack[t]) = {}
  BY <1>2 DEF FramesOf
<1>4. FramesCounted
  <2>1. Frames = {}
    BY <1>3 DEF Frames
  <2> QED
    BY <2>1, FS_EmptySet, BoundAssumption DEF Init, FramesCounted
<1>5. ForkAtBottom
  BY <1>2 DEF ForkAtBottom
<1>6. NewIsFresh
  <2>1. /\ \A t \in Tasks : state[t] = "NEW" => stack[t] = <<>> /\ t # cur /\ t # sp
        /\ \A t \in Tasks : NoNewIn(stack[t])
    BY <1>2, TaskAssumption DEF Init, NoNewIn
  <2>2. NoNewQueued
    <3> SUFFICES ASSUME NEW p \in Priorities, NEW i \in 1..Len(ready[p])
                 PROVE  state[ready[p][i]] # "NEW"
      BY DEF NoNewQueued
    <3>1. ready[p] = IF p = Prio[Idle] THEN <<Idle>> ELSE <<>>
      BY DEF Init
    <3>2. ready[p][i] = Idle
      BY <3>1
    <3> QED
      BY <3>2, TaskAssumption DEF Init
  <2> QED
    BY <2>1, <2>2 DEF NewIsFresh
<1> QED
  BY <1>1, <1>4, <1>5, <1>6 DEF IInv

LEMMA NextKeeps ==
  ASSUME IInv, [Next]_vars
  PROVE  IInv'
<1>1. CASE UNCHANGED vars
  BY <1>1 DEF vars, IInv, TypeOK, FramesCounted, Frames, FramesOf, FromBottom,
              ForkAtBottom, NewIsFresh, NoNewQueued, NoNewIn
<1>2. CASE Kernel
  BY <1>2, PlainSteps, StateSteps, QueueSteps, ReturnStep, ForkStep, RegisterStep DEF Kernel
<1>3. CASE Interrupt
  BY <1>3, InterruptSteps
<1>4. CASE \E op \in Ops : Syscall(op)
  BY <1>4, SyscallStep
<1> QED
  BY <1>1, <1>2, <1>3, <1>4 DEF Next

LEMMA Invariance == Spec => []IInv
<1>1. Init => IInv
  BY InitHolds
<1>2. IInv /\ [Next]_vars => IInv'
  BY NextKeeps
<1> QED
  BY <1>1, <1>2, PTL DEF Spec

\* Every variable keeps its type: in particular the head of the highest queue is always a
\* task, do_fork's child is one when add_task registers it, the expired part of the sleep
\* queue is well defined, and irq_nest_level, which is unsigned, never goes below zero.
THEOREM StateIsTyped == Spec => []TypeOK
<1>1. IInv => TypeOK
  BY DEF IInv
<1> QED
  BY <1>1, Invariance, PTL

\* Until a context is torn, irq_nest_level is the number of exception frames on the kernel
\* stacks of all tasks, the exited ones included, whatever interrupts what and whoever is
\* switched to in a handler.
THEOREM LevelCountsFrames == Spec => []NestCountsFrames
<1>1. IInv => NestCountsFrames
  BY DEF IInv, FramesCounted, NestCountsFrames
<1> QED
  BY <1>1, Invariance, PTL

------------------------------------------------------------------------------------
(* No lost wake-up *)

\* wait_event looks at the condition and queues the reader under one lock, and a line empties
\* the queue: nobody waits on the terminal while a line is ready.
THEOREM WakeupsAreNotLost == Spec => []NoLostWakeup
<1>1. Init => NoLostWakeup
  BY DEF Init, NoLostWakeup
<1>2. ASSUME IInv, NoLostWakeup, [Next]_vars PROVE NoLostWakeup'
  <2> USE <1>2 DEF NoLostWakeup
  <2>1. CASE UNCHANGED <<line_ready, waitq>>
    BY <2>1
  <2>2. CASE ReadCopy
    BY <2>2 DEF ReadCopy
  <2>3. CASE WaitSleep
    BY <2>3 DEF WaitSleep, Condition
  <2>4. CASE LineInterrupt
    BY <2>4, LineIs
  <2>5. Next => \/ UNCHANGED <<line_ready, waitq>> \/ ReadCopy \/ WaitSleep \/ LineInterrupt
    BY DEF Next, Kernel, Interrupt, Yield, Kill, Fork, ForkFails, Register, Reap, NothingToReap,
           WaitAlive, ReadLine, WaitDone, WaitCheck, Sleep, SleepInsert, Exit, NotifyParent,
           Enqueue, Push, PickUser, PassUsers, PickIdle, Take, Panic, Store, ContextSwitch,
           CheckSignals, CheckAndSchedule, ExceptionReturn, TimerInterrupt, KeyInterrupt,
           Syscall, queues
  <2> QED
    BY <2>1, <2>2, <2>3, <2>4, <2>5 DEF vars
<1> QED
  BY <1>1, <1>2, Invariance, PTL DEF Spec

------------------------------------------------------------------------------------
(* Sleepers *)

Waits(q, t) == \E i \in 1..Len(q) : q[i] = t
Sleeps(q, t) == \E i \in 1..Len(q) : q[i].task = t

\* Whoever sleeps is in a queue that somebody will wake, and no stop is pending.
SleeperFound ==
    /\ \A t \in Tasks : SIGSTOP \notin pending[t]
    /\ \A t \in Tasks : state[t] = "SLEEPING" => Waits(waitq, t) \/ Sleeps(sleepq, t)

\* The tasks in the two queues, without the order.
LEMMA InQueues ==
  ASSUME DataTypes
  PROVE  \A t : (InWaitq(t) <=> Waits(waitq, t)) /\ (InSleepq(t) <=> Sleeps(sleepq, t))
<1>1. DOMAIN waitq = 1..Len(waitq) /\ DOMAIN sleepq = 1..Len(sleepq)
  BY EntryOf DEF DataTypes
<1> QED
  BY <1>1 DEF InWaitq, InSleepq, Waits, Sleeps

\* Nobody is dropped from a queue by a step that only adds to it.
LEMMA SleeperStays ==
  ASSUME SleeperFound,
         \A t \in Tasks : SIGSTOP \in pending'[t] => SIGSTOP \in pending[t],
         \A t \in Tasks : Waits(waitq, t) => Waits(waitq', t),
         \A t \in Tasks : Sleeps(sleepq, t) => Sleeps(sleepq', t),
         \A t \in Tasks : state'[t] = "SLEEPING" =>
              state[t] = "SLEEPING" \/ Waits(waitq', t) \/ Sleeps(sleepq', t)
  PROVE  SleeperFound'
BY DEF SleeperFound

LEMMA SleepersKept ==
  ASSUME IInv, SleeperFound, [Next]_vars, SIGSTOP \notin KillSignals, "ctrl_z" \notin Keys
  PROVE  SleeperFound'
<1>1. DataTypes /\ DataTypes' /\ cur \in Tasks /\ sp \in Tasks
  <2>1. IInv'
    BY NextKeeps
  <2> QED
    BY <2>1 DEF IInv, TypeOK, DataTypes
<1>2. /\ state \in [Tasks -> States] /\ pending \in [Tasks -> SUBSET Signals]
      /\ listed \subseteq Tasks /\ parent \in [Tasks -> Tasks \cup {NoTask}]
  BY <1>1 DEF DataTypes
<1>4. ASSUME UNCHANGED <<waitq, sleepq>>,
             \A t \in Tasks : SIGSTOP \in pending'[t] => SIGSTOP \in pending[t],
             \A t \in Tasks : state'[t] = "SLEEPING" => state[t] = "SLEEPING"
      PROVE  SleeperFound'
  BY <1>4, SleeperStays
<1>5. ASSUME UNCHANGED <<waitq, sleepq>>, NEW t \in Tasks, NEW sig \in Signals, sig # SIGSTOP,
             Deliver(t, sig)
      PROVE  SleeperFound'
  <2>1. \A u \in Tasks : state'[u] = "SLEEPING" => state[u] = "SLEEPING"
    <3> DEFINE v == CASE sig = SIGKILL -> "DEAD"
                      [] sig = SIGSTOP -> "SLEEPING"
                      [] sig = SIGCONT -> "RUNNING"
                      [] OTHER -> state[t]
    <3>1. state' = [state EXCEPT ![t] = v]
      BY <1>5 DEF Deliver
    <3>2. v \in {"DEAD", "RUNNING", state[t]}
      BY <1>5
    <3> HIDE DEF v
    <3> QED
      BY <1>2, <3>1, <3>2
  <2>2. \A u \in Tasks : SIGSTOP \in pending'[u] => SIGSTOP \in pending[u]
    BY <1>2, <1>5 DEF Deliver
  <2> QED
    BY <1>4, <1>5, <2>1, <2>2
<1>6. CASE Kill
  <2>1. UNCHANGED <<waitq, sleepq>>
    BY <1>6 DEF Kill, queues
  <2>2. CASE UNCHANGED <<state, pending>>
    BY <1>4, <2>1, <2>2
  <2>3. CASE \E t \in listed \cap Targets, sig \in KillSignals : Deliver(t, sig)
    BY <1>2, <1>5, <2>1, <2>3, InputAssumption
  <2> QED
    BY <1>6, <2>2, <2>3 DEF Kill
<1>7. CASE NotifyParent
  <2>1. UNCHANGED <<waitq, sleepq>>
    BY <1>7 DEF NotifyParent, queues
  <2>2. CASE UNCHANGED <<state, pending>>
    BY <1>4, <2>1, <2>2
  <2>3. CASE parent[cur] \in listed /\ Deliver(parent[cur], SIGCHLD)
    <3>1. SIGCHLD \in Signals /\ SIGCHLD # SIGSTOP
      BY DEF Signals, SIGCHLD, SIGSTOP
    <3> QED
      BY <1>2, <1>5, <2>1, <2>3, <3>1
  <2> QED
    BY <1>7, <2>2, <2>3 DEF NotifyParent
<1>8. CASE Fork \/ Reap \/ Exit
  <2>1. UNCHANGED <<waitq, sleepq, pending>>
    BY <1>8 DEF Fork, Reap, Exit, queues
  <2>2. \E t \in Tasks, v \in {"RUNNING", "DEAD", "ZOMBIE"} : state' = [state EXCEPT ![t] = v]
    BY <1>1, <1>2, <1>8 DEF Fork, Reap, Exit, Zombies, Purged
  <2> QED
    BY <1>2, <1>4, <2>1, <2>2
<1>9. CASE WaitSleep
  <2>1. /\ waitq' = Append(waitq, cur) /\ sleepq' = sleepq /\ pending' = pending
        /\ state' = [state EXCEPT ![cur] = "SLEEPING"]
    BY <1>9 DEF WaitSleep, WithWaiter
  <2>2. waitq \in Seq(Tasks)
    BY <1>1 DEF DataTypes
  <2>3. /\ Len(waitq) \in Nat /\ Len(waitq') = Len(waitq) + 1 /\ waitq'[Len(waitq) + 1] = cur
        /\ \A i \in 1..Len(waitq) : waitq'[i] = waitq[i]
    BY <2>1, <2>2
  <2>4. Len(waitq) + 1 \in 1..Len(waitq') /\ \A i \in 1..Len(waitq) : i \in 1..Len(waitq')
    BY <2>3
  <2>5. Waits(waitq', cur) /\ \A t \in Tasks : Waits(waitq, t) => Waits(waitq', t)
    BY <2>3, <2>4 DEF Waits
  <2>6. \A t \in Tasks : state'[t] = "SLEEPING" => state[t] = "SLEEPING" \/ t = cur
    BY <1>2, <2>1
  <2> QED
    BY <2>1, <2>5, <2>6, SleeperStays
<1>10. CASE SleepInsert
  <2> DEFINE E == [task : Tasks, left : Nat]
             n == InsertAt(due[sp])
             e == [task |-> cur, left |-> due[sp]]
             a == SubSeq(sleepq, 1, n)
             b == SubSeq(sleepq, n + 1, Len(sleepq))
             L == Len(sleepq)
  <2>1. sleepq \in Seq(E) /\ L \in Nat /\ n \in 0..L /\ e.task = cur /\ e \in E
    <3>1. sleepq \in Seq(E) /\ due[sp] \in Nat
      BY <1>1 DEF DataTypes
    <3>2. L \in Nat
      BY <3>1, EntryOf
    <3>3. InsertAt(due[sp]) \in 0..Len(sleepq)
      BY <3>1, InsertAtIs
    <3> QED
      BY <1>1, <3>1, <3>2, <3>3
  <2>2. /\ sleepq' = a \o <<e>> \o b /\ waitq' = waitq /\ pending' = pending
        /\ state' = [state EXCEPT ![cur] = "SLEEPING"]
    BY <1>10 DEF SleepInsert
  <2>3. a = SubSeq(sleepq, 1, n) /\ b = SubSeq(sleepq, n + 1, L)
    OBVIOUS
  <2>4. n + 1 \in 1..(L + 1) /\ L \in 0..L /\ 1 \in 1..(L + 1)
    BY <2>1
  <2> HIDE DEF E, n, e
  <2>5. /\ a \in Seq(E) /\ Len(a) = (IF 1 <= n THEN n - 1 + 1 ELSE 0)
        /\ \A i \in 1..Len(a) : a[i] = sleepq[1 + i - 1]
    BY <2>1, <2>4, PieceIs
  <2>6. /\ b \in Seq(E) /\ Len(b) = (IF n + 1 <= L THEN L - (n + 1) + 1 ELSE 0)
        /\ \A i \in 1..Len(b) : b[i] = sleepq[n + 1 + i - 1]
    BY <2>1, <2>4, PieceIs
  <2> HIDE DEF a, b, L
  <2>7. Len(a) = n /\ Len(b) = L - n
    BY <2>1, <2>5, <2>6
  <2>8. /\ Len(sleepq') = L + 1
        /\ \A i \in 1..(L + 1) : sleepq'[i] = IF i <= n THEN a[i] ELSE IF i = n + 1 THEN e ELSE b[i - (n + 1)]
    <3> DEFINE m == a \o <<e>>
    <3>1. /\ m \in Seq(E) /\ Len(m) = n + 1
          /\ \A i \in 1..(n + 1) : m[i] = IF i <= n THEN a[i] ELSE e
      BY <2>1, <2>5, <2>7
    <3>2. sleepq' = m \o b
      BY <2>2
    <3> HIDE DEF m
    <3>3. Len(m \o b) = L + 1
      <4>1. m \in Seq(E) /\ b \in Seq(E)
        BY <2>6, <3>1
      <4>2. Len(m \o b) = Len(m) + Len(b)
        BY <4>1
      <4> QED
        BY <2>1, <2>7, <3>1, <4>2
    <3>4. \A i \in 1..(L + 1) : (m \o b)[i] = IF i <= n + 1 THEN m[i] ELSE b[i - (n + 1)]
      BY <2>1, <2>6, <2>7, <3>1
    <3>5. \A i \in 1..(L + 1) : i <= n + 1 => i \in 1..(n + 1) /\ (~(i <= n) => i = n + 1)
      BY <2>1
    <3>6. \A i \in 1..(L + 1) : (i = n + 1 => i <= n + 1 /\ ~(i <= n)) /\ (i <= n => i <= n + 1)
      BY <2>1
    <3> QED
      BY <3>1, <3>2, <3>3, <3>4, <3>5, <3>6
  <2>9. Sleeps(sleepq', cur)
    <3>1. n + 1 \in 1..(L + 1) /\ ~(n + 1 <= n)
      BY <2>1
    <3>2. sleepq'[n + 1] = e
      BY <2>8, <3>1
    <3> QED
      BY <2>1, <2>8, <3>1, <3>2 DEF Sleeps
  <2>10. ASSUME NEW i \in 1..L PROVE \E j \in 1..(L + 1) : sleepq'[j] = sleepq[i]
    <3>1. CASE i <= n
      <4>1. i \in 1..(L + 1) /\ i \in 1..Len(a) /\ 1 + i - 1 = i
        BY <2>1, <2>7, <3>1
      <4> QED
        BY <2>5, <2>8, <3>1, <4>1
    <3>2. CASE ~(i <= n)
      <4>1. PICK j \in 1..(L + 1) : j = i + 1
        BY <2>1
      <4>2. ~(j <= n) /\ j # n + 1 /\ j - (n + 1) \in 1..Len(b)
        BY <2>1, <2>7, <3>2, <4>1
      <4>3. sleepq'[j] = b[j - (n + 1)]
        BY <2>8, <4>2
      <4>4. n + 1 + (j - (n + 1)) - 1 = i
        BY <2>1, <4>1
      <4>5. b[j - (n + 1)] = sleepq[i]
        BY <2>6, <4>2, <4>4
      <4> QED
        BY <4>3, <4>5
    <3> QED
      BY <3>1, <3>2
  <2>11. \A t \in Tasks : Sleeps(sleepq, t) => Sleeps(sleepq', t)
    <3> SUFFICES ASSUME NEW t \in Tasks, Sleeps(sleepq, t) PROVE Sleeps(sleepq', t)
      OBVIOUS
    <3>1. PICK i \in 1..L : sleepq[i].task = t
      BY DEF L, Sleeps
    <3>2. PICK j \in 1..(L + 1) : sleepq'[j] = sleepq[i]
      BY <2>10
    <3> QED
      BY <2>8, <3>1, <3>2 DEF Sleeps
  <2>12. \A t \in Tasks : state'[t] = "SLEEPING" => state[t] = "SLEEPING" \/ t = cur
    BY <1>2, <2>2
  <2> QED
    BY <2>2, <2>9, <2>11, <2>12, SleeperStays
<1>11. CASE CheckSignals
  <2>1. UNCHANGED <<waitq, sleepq>>
    BY <1>11 DEF CheckSignals, queues
  <2> DEFINE sig == CheckPending(cur)
             act == DefaultAction(sig)
  <2>2. sig # 0 => sig \in pending[cur]
    <3>1. pending[cur] # {} => \E s \in pending[cur] : \A r \in pending[cur] : s <= r
      <4>1. pending[cur] \in SUBSET Int /\ pending[cur] \in SUBSET Signals
        BY <1>1, <1>2 DEF Signals, SIGINT, SIGKILL, SIGTERM, SIGCHLD, SIGCONT, SIGSTOP
      <4>2. IsFiniteSet(Signals)
        <5>1. Signals \in SUBSET Nat /\ \A s \in Signals : s <= 19
          BY DEF Signals, SIGINT, SIGKILL, SIGTERM, SIGCHLD, SIGCONT, SIGSTOP
        <5> QED
          BY <5>1, FS_BoundedSetOfNaturals
      <4> QED
        BY <4>1, <4>2, FS_Subset, FiniteHasMin
    <3> QED
      BY <3>1 DEF CheckPending
  <2>3. sig # 0 => act # "Stop"
    BY <1>1, <2>2 DEF DefaultAction, SleeperFound, SIGCHLD, SIGSTOP, SIGCONT
  <2>4. /\ \/ state' = state
           \/ \E v \in {"RUNNING", "DEAD"} : state' = [state EXCEPT ![cur] = v]
           \/ state' = [state EXCEPT ![cur] = @]
        /\ \E S \in SUBSET pending[cur] : pending' = pending \/ pending' = [pending EXCEPT ![cur] = S]
    <3>1. CASE sig = 0
      BY <1>11, <3>1 DEF CheckSignals
    <3>2. CASE sig # 0 /\ act = "Terminate"
      BY <1>11, <3>2 DEF CheckSignals
    <3>3. CASE sig # 0 /\ act # "Terminate"
      <4>1. /\ state' = [state EXCEPT ![cur] = CASE act = "Stop" -> "SLEEPING"
                                                 [] act = "Cont" -> "RUNNING"
                                                 [] OTHER -> @]
            /\ pending' = [pending EXCEPT ![cur] = @ \ {sig}]
        BY <1>11, <3>3 DEF CheckSignals
      <4> HIDE DEF act, sig
      <4> QED
        BY <2>3, <3>3, <4>1
    <3> QED
      BY <3>1, <3>2, <3>3
  <2> QED
    BY <1>1, <1>2, <1>4, <2>1, <2>4
<1>12. ASSUME NEW slice_over \in BOOLEAN, TimerInterrupt(slice_over) PROVE SleeperFound'
  <2>1. PICK q, w, n :
           /\ q = Aged(sleepq) /\ w \in Seq(Tasks) /\ n \in 0..Len(q)
           /\ Len(w) = n /\ \A i \in 1..n : w[i] = q[i].task
           /\ Len(sleepq') = Len(q) - n /\ \A i \in 1..(Len(q) - n) : sleepq'[i] = q[n + i]
           /\ state' = Awake(w)
    BY <1>12, TickIs
  <2>2. /\ waitq' = waitq /\ pending' = pending
    BY <1>12 DEF TimerInterrupt
  <2>3. /\ Len(q) = Len(sleepq) /\ Len(sleepq) \in Nat
        /\ \A i \in 1..Len(q) : q[i].task = sleepq[i].task
    <3>1. sleepq \in Seq([task : Tasks, left : Nat])
      BY <1>1 DEF DataTypes
    <3>2. Len(sleepq) \in Nat
      BY <3>1, EntryOf
    <3> QED
      BY <2>1, <3>1, <3>2, AgedIs
  <2>4. ASSUME NEW t \in Tasks, state'[t] = "SLEEPING" PROVE Waits(waitq', t) \/ Sleeps(sleepq', t)
    <3>1. state[t] = "SLEEPING" /\ \A i \in 1..n : w[i] # t
      BY <1>1, <2>1, <2>4, AwakeIs
    <3>2. CASE Waits(waitq, t)
      BY <2>2, <3>2
    <3>3. CASE Sleeps(sleepq, t)
      <4>1. PICK i \in 1..Len(q) : q[i].task = t
        BY <2>3, <3>3 DEF Sleeps
      <4>2. ~(i \in 1..n)
        BY <2>1, <3>1, <4>1
      <4>3. i - n \in 1..(Len(q) - n) /\ n + (i - n) = i
        BY <2>1, <2>3, <4>1, <4>2
      <4>4. sleepq'[i - n].task = t
        BY <2>1, <4>1, <4>3
      <4> QED
        BY <2>1, <4>3, <4>4 DEF Sleeps
    <3> QED
      BY <3>1, <3>2, <3>3 DEF SleeperFound
  <2> QED
    BY <2>2, <2>4 DEF SleeperFound
<1>13. CASE LineInterrupt
  <2>1. /\ waitq \in Seq(Tasks) /\ state' = Awake(waitq) /\ sleepq' = sleepq /\ pending' = pending
    BY <1>13, LineIs DEF LineInterrupt
  <2>2. ASSUME NEW t \in Tasks, state'[t] = "SLEEPING" PROVE Sleeps(sleepq', t)
    <3>1. state[t] = "SLEEPING" /\ \A i \in 1..Len(waitq) : waitq[i] # t
      BY <1>1, <2>1, <2>2, AwakeIs
    <3>2. Sleeps(sleepq, t)
      BY <3>1 DEF SleeperFound, Waits
    <3> QED
      BY <2>1, <3>2
  <2> QED
    BY <2>1, <2>2 DEF SleeperFound
<1>14. ASSUME NEW key \in Keys \ {"line"}, KeyInterrupt(key) PROVE SleeperFound'
  <2>1. key = "ctrl_c" /\ SIGINT # SIGSTOP
    BY <1>14, InputAssumption DEF SIGINT, SIGSTOP
  <2>2. UNCHANGED <<waitq, sleepq, state>>
    BY <1>14 DEF KeyInterrupt, queues
  <2>3. \A t \in Tasks : SIGSTOP \in pending'[t] => SIGSTOP \in pending[t]
    BY <1>2, <1>14, <2>1 DEF KeyInterrupt, KeySignal
  <2> QED
    BY <1>4, <2>2, <2>3
<1>15. CASE UNCHANGED <<state, pending, waitq, sleepq>>
  BY <1>4, <1>15
<1>16. Kernel => \/ Kill \/ NotifyParent \/ Fork \/ Reap \/ Exit \/ WaitSleep \/ SleepInsert
                 \/ CheckSignals \/ UNCHANGED <<state, pending, waitq, sleepq>>
  BY DEF Kernel, Yield, ForkFails, Register, NothingToReap,
           WaitAlive, ReadLine, WaitDone, WaitCheck, ReadCopy, Sleep, Enqueue, Push, PickUser, PickIdle,
           Take, PassUsers, Panic, Store, ContextSwitch, CheckAndSchedule, ExceptionReturn, queues
<1>17. \A op \in Ops : Syscall(op) => UNCHANGED <<state, pending, waitq, sleepq>>
  BY DEF Syscall, queues
<1>18. UNCHANGED vars => UNCHANGED <<state, pending, waitq, sleepq>>
  BY DEF vars
<1> QED
  BY <1>6, <1>7, <1>8, <1>9, <1>10, <1>11, <1>12, <1>13, <1>14, <1>15, <1>16, <1>17, <1>18
     DEF Next, Interrupt

\* A task that sleeps in read or in sleep() is on the queue that wakes it, as long as nobody
\* is stopped: do_kill's SIGSTOP and Ctrl-Z put a task to sleep on no queue.
THEOREM SleepersAreFound ==
  ASSUME SIGSTOP \notin KillSignals, "ctrl_z" \notin Keys
  PROVE  Spec => []SleeperIsQueued
<1>1. Init => SleeperFound
  BY DEF Init, SleeperFound
<1>2. IInv /\ SleeperFound => SleeperIsQueued
  BY DataFromInv, InQueues DEF SleeperFound, SleeperIsQueued
<1>3. IInv /\ SleeperFound /\ [Next]_vars => SleeperFound'
  BY SleepersKept
<1> QED
  BY <1>1, <1>2, <1>3, Invariance, PTL DEF Spec

------------------------------------------------------------------------------------
(* The sleep queue *)

\* Where SleepInsert puts the running task.
LEMMA InsertIs ==
  ASSUME IInv, SleepInsert
  PROVE  \E n \in 0..Len(sleepq) :
           /\ n = InsertAt(due[sp]) /\ Len(sleepq) \in Nat /\ Len(sleepq') = Len(sleepq) + 1
           /\ \A i \in 1..n : sleepq'[i] = sleepq[i]
           /\ sleepq'[n + 1] = [task |-> cur, left |-> due[sp]]
           /\ \A i \in (n + 1)..Len(sleepq) : sleepq'[i + 1] = sleepq[i]
<1> DEFINE E == [task : Tasks, left : Nat]
           L == Len(sleepq)
           n == InsertAt(due[sp])
           e == [task |-> cur, left |-> due[sp]]
           a == SubSeq(sleepq, 1, n)
           b == SubSeq(sleepq, n + 1, L)
<1>1. sleepq \in Seq(E) /\ L \in Nat /\ e \in E
  BY DEF IInv, TypeOK
<1>2. n \in 0..L
  BY <1>1, InsertAtIs
<1>3. n + 1 \in 1..(L + 1) /\ L \in 0..L /\ 1 \in 1..(L + 1)
  BY <1>1, <1>2
<1>4. sleepq' = a \o <<e>> \o b
  BY DEF SleepInsert
<1> HIDE DEF E, n, e
<1>5. /\ a \in Seq(E) /\ Len(a) = (IF 1 <= n THEN n - 1 + 1 ELSE 0)
      /\ \A i \in 1..Len(a) : a[i] = sleepq[1 + i - 1]
  BY <1>1, <1>2, <1>3, PieceIs
<1>6. /\ b \in Seq(E) /\ Len(b) = (IF n + 1 <= L THEN L - (n + 1) + 1 ELSE 0)
      /\ \A i \in 1..Len(b) : b[i] = sleepq[(n + 1) + i - 1]
  BY <1>1, <1>2, <1>3, PieceIs
<1> HIDE DEF a, b
<1>7. Len(a) = n /\ Len(b) = L - n /\ \A i \in 1..n : a[i] = sleepq[i]
  <2>1. Len(a) = n /\ Len(b) = L - n
    BY <1>1, <1>2, <1>5, <1>6
  <2>2. \A i \in 1..n : 1 + i - 1 = i
    BY <1>1, <1>2
  <2> QED
    BY <1>5, <2>1, <2>2
<1>8. /\ Len(sleepq') = L + 1
      /\ \A i \in 1..(L + 1) :
           sleepq'[i] = IF i <= n THEN a[i] ELSE IF i = n + 1 THEN e ELSE b[i - (n + 1)]
  <2> DEFINE ae == a \o <<e>>
  <2>1. /\ ae \in Seq(E) /\ Len(ae) = n + 1
        /\ \A i \in 1..(n + 1) : ae[i] = IF i <= n THEN a[i] ELSE e
    <3> DEFINE x == <<e>>
    <3>1. x \in Seq(E) /\ Len(x) = 1 /\ x[1] = e
      BY <1>1
    <3>2. ae = a \o x
      OBVIOUS
    <3> HIDE DEF x, ae
    <3>3. /\ a \o x \in Seq(E) /\ Len(a \o x) = Len(a) + Len(x)
          /\ \A i \in 1..(Len(a) + Len(x)) : (a \o x)[i] = IF i <= Len(a) THEN a[i] ELSE x[i - Len(a)]
      BY <1>5, <3>1, ConcatProperties
    <3>4. \A i \in 1..(n + 1) : ~(i <= n) => i - n = 1
      BY <1>1, <1>2
    <3> QED
      BY <1>7, <3>1, <3>2, <3>3, <3>4
  <2> HIDE DEF ae
  <2>2. /\ Len(ae \o b) = (n + 1) + (L - n)
        /\ \A i \in 1..((n + 1) + (L - n)) : (ae \o b)[i] = IF i <= n + 1 THEN ae[i] ELSE b[i - (n + 1)]
    <3>1. /\ Len(ae \o b) = Len(ae) + Len(b)
          /\ \A i \in 1..(Len(ae) + Len(b)) : (ae \o b)[i] = IF i <= Len(ae) THEN ae[i] ELSE b[i - Len(ae)]
      BY <1>6, <2>1, ConcatProperties
    <3> QED
      BY <1>7, <2>1, <3>1
  <2>3. sleepq' = ae \o b
    BY <1>4 DEF ae
  <2>4. (n + 1) + (L - n) = L + 1
    BY <1>1, <1>2
  <2>5. \A i \in 1..(L + 1) : i <= n + 1 => i \in 1..(n + 1) /\ (i <= n \/ i = n + 1)
    BY <1>1, <1>2
  <2> QED
    BY <1>1, <1>2, <2>1, <2>2, <2>3, <2>4, <2>5
<1>9. \A i \in 1..n : sleepq'[i] = sleepq[i]
  <2>1. \A i \in 1..n : i \in 1..(L + 1) /\ i <= n
    BY <1>1, <1>2
  <2> QED
    BY <1>7, <1>8, <2>1
<1>10. sleepq'[n + 1] = e
  <2>1. n + 1 \in 1..(L + 1) /\ ~(n + 1 <= n)
    BY <1>1, <1>2
  <2> QED
    BY <1>8, <2>1
<1>11. ASSUME NEW i \in (n + 1)..L PROVE sleepq'[i + 1] = sleepq[i]
  <2>1. /\ i + 1 \in 1..(L + 1) /\ ~(i + 1 <= n) /\ i + 1 # n + 1
        /\ (i + 1) - (n + 1) = i - n /\ i - n \in 1..(L - n) /\ (n + 1) + (i - n) - 1 = i
    BY <1>1, <1>2
  <2>2. sleepq'[i + 1] = b[i - n]
    BY <1>8, <2>1
  <2>3. b[i - n] = sleepq[(n + 1) + (i - n) - 1]
    BY <1>6, <1>7, <2>1
  <2> QED
    BY <2>1, <2>2, <2>3
<1> QED
  BY <1>1, <1>2, <1>8, <1>9, <1>10, <1>11 DEF n, e

\* SLEEP_QUEUE is sorted by deadline, which rust_check_sleepers relies on when it stops at the
\* first entry that is not due.
Sorted == \A i, j \in 1..Len(sleepq) : i <= j => sleepq[i].left <= sleepq[j].left

\* SleepInsert puts the new entry behind every earlier deadline and before every later one.
LEMMA InsertSplits ==
  ASSUME sleepq \in Seq([task : Tasks, left : Nat]), Sorted, NEW d \in Nat, NEW n, n = InsertAt(d)
  PROVE  /\ n \in 0..Len(sleepq)
         /\ \A i \in 1..n : sleepq[i].left <= d
         /\ \A i \in (n + 1)..Len(sleepq) : d <= sleepq[i].left
<1> DEFINE L == Len(sleepq)
           S == {i \in DOMAIN sleepq : \A j \in 1..i : sleepq[j].left <= d}
<1>1. /\ L \in Nat /\ DOMAIN sleepq = 1..L /\ n \in 0..L /\ n = Cardinality(S)
      /\ \A i \in 1..L : sleepq[i].left \in Nat
  BY EntryOf, SleepEntryOf, InsertAtIs DEF InsertAt
<1>2. S \in SUBSET (1..L) /\ \A i \in 1..L : i \in S <=> \A j \in 1..i : sleepq[j].left <= d
  BY <1>1
<1> HIDE DEF L, S
<1>3. S = 1..n
  <2>1. CASE S = {}
    <3>1. n = 0
      BY <1>1, <2>1, FS_EmptySet
    <3> QED
      BY <2>1, <3>1
  <2>2. CASE S # {}
    <3>1. IsFiniteSet(S) /\ S \in SUBSET Int
      <4>1. IsFiniteSet(1..L) /\ 1..L \in SUBSET Int
        BY <1>1, FS_Interval
      <4> QED
        BY <1>2, <4>1, FS_Subset
    <3>2. PICK m \in S : \A i \in S : i <= m
      BY <2>2, <3>1, FiniteHasMax
    <3>3. m \in 1..L /\ \A j \in 1..m : sleepq[j].left <= d
      BY <1>2, <3>2
    <3>4. ASSUME NEW i \in 1..m PROVE i \in S
      <4>1. i \in 1..L /\ \A j \in 1..i : j \in 1..m
        BY <1>1, <3>3
      <4> QED
        BY <1>2, <3>3, <4>1
    <3>5. S = 1..m
      <4>1. \A i \in S : i \in 1..m
        BY <1>1, <1>2, <3>2, <3>3
      <4> QED
        BY <3>4, <4>1
    <3>6. Cardinality(1..m) = m
      BY <1>1, <3>3, FS_Interval
    <3> QED
      BY <1>1, <3>5, <3>6
  <2> QED
    BY <2>1, <2>2
<1>4. \A i \in 1..n : sleepq[i].left <= d
  <2> TAKE i \in 1..n
  <2>1. i \in 1..L /\ i \in 1..i
    BY <1>1
  <2>2. i \in S
    BY <1>3
  <2> QED
    BY <1>2, <2>1, <2>2
<1>5. ASSUME NEW i \in (n + 1)..L PROVE d <= sleepq[i].left
  <2>1. n + 1 \in 1..L /\ n + 1 \notin 1..n /\ i \in 1..L /\ n + 1 <= i
    BY <1>1
  <2>2. PICK j \in 1..(n + 1) : ~(sleepq[j].left <= d)
    BY <1>2, <1>3, <2>1
  <2>3. j = n + 1
    <3>1. j \in 1..n \/ j = n + 1
      BY <1>1
    <3> QED
      BY <1>4, <2>2, <3>1
  <2>4. sleepq[n + 1].left <= sleepq[i].left
    BY <2>1 DEF Sorted, L
  <2>5. sleepq[n + 1].left \in Nat /\ sleepq[i].left \in Nat
    BY <1>1, <2>1
  <2> QED
    BY <2>2, <2>3, <2>4, <2>5
<1> QED
  BY <1>1, <1>4, <1>5 DEF L

\* What a tick leaves of the queue: the entries behind the expired ones, one tick nearer.
LEMMA TickLeaves ==
  ASSUME IInv, NEW slice_over \in BOOLEAN, TimerInterrupt(slice_over)
  PROVE  \E n \in 0..Len(sleepq) :
           /\ Len(sleepq) \in Nat /\ Len(sleepq') = Len(sleepq) - n
           /\ \A i \in 1..Len(sleepq) : sleepq[i].left \in Nat
           /\ \A i \in 1..(Len(sleepq) - n) :
                /\ sleepq'[i].task = sleepq[n + i].task
                /\ sleepq'[i].left = Elapsed(sleepq[n + i].left)
           /\ \A i \in 1..n : Elapsed(sleepq[i].left) = 0
           /\ n < Len(sleepq) => Elapsed(sleepq[n + 1].left) > 0
<1> DEFINE E == [task : Tasks, left : Nat]
           L == Len(sleepq)
<1>1. PICK q, w, n :
           /\ q = Aged(sleepq) /\ n = Expired(q) /\ w = TaskOf(SubSeq(q, 1, n))
           /\ Len(sleepq') = Len(q) - n /\ \A i \in 1..(Len(q) - n) : sleepq'[i] = q[n + i]
  BY TickIs
<1>2. sleepq \in Seq(E)
  BY DEF IInv, TypeOK
<1>3. /\ Aged(sleepq) \in Seq(E) /\ Len(Aged(sleepq)) = L
      /\ \A i \in 1..L : /\ sleepq[i].left \in Nat
                          /\ Aged(sleepq)[i].task = sleepq[i].task
                          /\ Aged(sleepq)[i].left = Elapsed(sleepq[i].left)
  BY <1>2, AgedIs
<1>4. L \in Nat
  BY <1>2, EntryOf
<1>5. /\ q \in Seq(E) /\ Len(q) = L
      /\ \A i \in 1..L : /\ q[i].task = sleepq[i].task
                          /\ q[i].left = Elapsed(sleepq[i].left)
  BY <1>1, <1>3
<1>6. /\ n \in 0..L /\ \A i \in 1..n : q[i].left = 0
      /\ n < L => q[n + 1].left > 0
  BY <1>1, <1>5, ExpiredIs
<1> HIDE DEF L, E
<1>7. /\ \A i \in 1..n : i \in 1..L
      /\ \A i \in 1..(L - n) : n + i \in 1..L
      /\ n < L => n + 1 \in 1..L
  BY <1>4, <1>6
<1>8. \A i \in 1..(L - n) : /\ sleepq'[i].task = sleepq[n + i].task
                            /\ sleepq'[i].left = Elapsed(sleepq[n + i].left)
  BY <1>1, <1>5, <1>7
<1>9. /\ \A i \in 1..n : Elapsed(sleepq[i].left) = 0
      /\ n < L => Elapsed(sleepq[n + 1].left) > 0
  BY <1>5, <1>6, <1>7
<1>10. Len(sleepq') = L - n /\ \A i \in 1..L : sleepq[i].left \in Nat
  BY <1>1, <1>3, <1>5
<1> QED
  BY <1>4, <1>6, <1>8, <1>9, <1>10 DEF L

LEMMA SortedStays ==
  ASSUME IInv, Sorted, [Next]_vars
  PROVE  Sorted'
<1>1. ASSUME sleepq' = sleepq PROVE Sorted'
  BY <1>1 DEF Sorted
<1>2. ASSUME SleepInsert PROVE Sorted'
  <2> DEFINE L == Len(sleepq)
             d == due[sp]
  <2>1. d \in Nat /\ sleepq \in Seq([task : Tasks, left : Nat])
    BY DEF IInv, TypeOK
  <2>2. PICK n \in 0..L :
           /\ n = InsertAt(d) /\ L \in Nat /\ Len(sleepq') = L + 1
           /\ \A i \in 1..n : sleepq'[i] = sleepq[i]
           /\ sleepq'[n + 1] = [task |-> cur, left |-> d]
           /\ \A i \in (n + 1)..L : sleepq'[i + 1] = sleepq[i]
    BY <1>2, InsertIs
  <2>3. /\ \A i \in 1..n : sleepq[i].left <= d
        /\ \A i \in (n + 1)..L : d <= sleepq[i].left
    <3>1. PICK k \in Nat : k = d
      BY <2>1
    <3> QED
      BY <2>1, <2>2, <3>1, InsertSplits
  <2>4. \A i \in 1..L : sleepq[i].left \in Nat
    BY <2>1, SleepEntryOf
  <2>5. \A i, j \in 1..L : i <= j => sleepq[i].left <= sleepq[j].left
    BY DEF Sorted
  <2> HIDE DEF L, d
  <2>6. ASSUME NEW i \in 1..(L + 1)
        PROVE  \/ i \in 1..n /\ i \in 1..L /\ sleepq'[i].left = sleepq[i].left
               \/ i = n + 1 /\ sleepq'[i].left = d
               \/ i - 1 \in (n + 1)..L /\ i - 1 \in 1..L /\ sleepq'[i].left = sleepq[i - 1].left
    <3>1. CASE i <= n
      BY <2>2, <3>1
    <3>2. CASE i = n + 1
      BY <2>2, <3>2
    <3>3. CASE i > n + 1
      <4>1. i - 1 \in (n + 1)..L /\ i - 1 \in 1..L /\ (i - 1) + 1 = i
        BY <2>2, <3>3
      <4> QED
        BY <2>2, <4>1
    <3> QED
      BY <2>2, <3>1, <3>2, <3>3
  <2>7. ASSUME NEW i \in 1..(L + 1), NEW j \in 1..(L + 1), i <= j
        PROVE  sleepq'[i].left <= sleepq'[j].left
    <3>1. CASE i \in 1..n /\ i \in 1..L /\ sleepq'[i].left = sleepq[i].left
      <4>1. CASE j \in 1..n /\ j \in 1..L /\ sleepq'[j].left = sleepq[j].left
        BY <2>5, <2>7, <3>1, <4>1
      <4>2. CASE j = n + 1 /\ sleepq'[j].left = d
        BY <2>3, <3>1, <4>2
      <4>3. CASE j - 1 \in (n + 1)..L /\ j - 1 \in 1..L /\ sleepq'[j].left = sleepq[j - 1].left
        <5>1. i <= j - 1
          BY <2>2, <3>1, <4>3
        <5> QED
          BY <2>5, <3>1, <4>3, <5>1
      <4> QED
        BY <2>6, <4>1, <4>2, <4>3
    <3>2. CASE i = n + 1 /\ sleepq'[i].left = d
      BY <2>1, <2>2, <2>3, <2>6, <2>7, <3>2 DEF d
    <3>3. CASE i - 1 \in (n + 1)..L /\ i - 1 \in 1..L /\ sleepq'[i].left = sleepq[i - 1].left
      <4>1. j - 1 \in (n + 1)..L /\ sleepq'[j].left = sleepq[j - 1].left /\ i - 1 <= j - 1
            /\ j - 1 \in 1..L
        BY <2>2, <2>6, <2>7, <3>3
      <4> QED
        BY <2>5, <3>3, <4>1
    <3> QED
      BY <2>6, <3>1, <3>2, <3>3
  <2> QED
    BY <2>2, <2>7 DEF Sorted, L
<1>3. ASSUME NEW slice_over \in BOOLEAN, TimerInterrupt(slice_over) PROVE Sorted'
  <2> DEFINE L == Len(sleepq)
  <2>1. PICK n \in 0..L :
           /\ L \in Nat /\ Len(sleepq') = L - n
           /\ \A i \in 1..L : sleepq[i].left \in Nat
           /\ \A i \in 1..(L - n) : sleepq'[i].left = Elapsed(sleepq[n + i].left)
    BY <1>3, TickLeaves
  <2>2. \A i, j \in 1..L : i <= j => sleepq[i].left <= sleepq[j].left
    BY DEF Sorted
  <2>3. \A k, m \in Nat : k <= m => Elapsed(k) <= Elapsed(m)
    BY DEF Elapsed
  <2> HIDE DEF L
  <2>4. ASSUME NEW i \in 1..(L - n), NEW j \in 1..(L - n), i <= j
        PROVE  sleepq'[i].left <= sleepq'[j].left
    <3>1. n + i \in 1..L /\ n + j \in 1..L /\ n + i <= n + j
      BY <2>1, <2>4
    <3>2. sleepq[n + i].left <= sleepq[n + j].left
      BY <2>2, <3>1
    <3> QED
      BY <2>1, <2>3, <3>1, <3>2
  <2> QED
    BY <2>1, <2>4 DEF Sorted
<1> QED
  <2>1. CASE UNCHANGED vars
    BY <1>1, <2>1 DEF vars
  <2>2. CASE Kernel
    BY <1>1, <1>2, <2>2 DEF Kernel, Yield, Kill, Fork, ForkFails, Register, Reap, NothingToReap,
       WaitAlive, ReadLine, WaitDone, WaitSleep, WaitCheck, ReadCopy, Sleep, Exit, NotifyParent,
       Enqueue, Push, PickUser, PickIdle, Take, PassUsers, Panic,
       Store, ContextSwitch, CheckSignals, CheckAndSchedule, ExceptionReturn, queues
  <2>3. CASE Interrupt
    BY <1>1, <1>3, <2>3 DEF Interrupt, LineInterrupt, KeyInterrupt, queues
  <2>4. CASE \E op \in Ops : Syscall(op)
    BY <1>1, <2>4 DEF Syscall, queues
  <2> QED
    BY <2>1, <2>2, <2>3, <2>4 DEF Next

\* rust_check_sleepers wakes at every tick exactly the sleepers that are due, although it looks
\* only at the head of the queue: sleep() keeps the queue sorted by deadline, also when interrupts
\* nest between the computation of a deadline and the insertion.
THEOREM SleepersWakeWhenDue == Spec => WokenWhenDue
<1>1. Init => Sorted
  BY DEF Init, Sorted
<1>2. IInv /\ Sorted /\ [Next]_vars => Sorted'
  BY SortedStays
<1> DEFINE Due(t) == InSleepq(t) =>
             (InSleepq(t)' <=> \/ sleepq' = sleepq
                               \/ \E i \in DOMAIN sleepq : sleepq[i].task = t /\ sleepq[i].left > 1
                               \/ Len(sleepq') > Len(sleepq))
<1>3. ASSUME IInv, IInv', Sorted, [Next]_vars
      PROVE  [\A t \in Tasks : Due(t)]_vars
  <2> SUFFICES ASSUME NEW t \in Tasks, InSleepq(t) PROVE Due(t)
    OBVIOUS
  <2> DEFINE L == Len(sleepq)
  <2>1. /\ DOMAIN sleepq = 1..L /\ DOMAIN sleepq' = 1..Len(sleepq') /\ L \in Nat
        /\ \A i \in 1..L : sleepq[i].left \in Nat
    BY <1>3, EntryOf, SleepEntryOf DEF IInv, TypeOK
  <2>2. InSleepq(t)' <=> \E i \in 1..Len(sleepq') : sleepq'[i].task = t
    BY <2>1 DEF InSleepq
  <2>3. ASSUME sleepq' = sleepq PROVE Due(t)
    BY <2>3 DEF InSleepq
  <2>4. ASSUME SleepInsert PROVE Due(t)
    <3>1. PICK n \in 0..L :
           /\ L \in Nat /\ Len(sleepq') = L + 1
           /\ \A i \in 1..n : sleepq'[i] = sleepq[i]
           /\ \A i \in (n + 1)..L : sleepq'[i + 1] = sleepq[i]
      BY <1>3, <2>4, InsertIs
    <3>2. PICK i \in 1..L : sleepq[i].task = t
      BY <2>1 DEF InSleepq
    <3>3. \E j \in 1..(L + 1) : sleepq'[j].task = t
      <4>1. CASE i <= n
        <5>1. i \in 1..n /\ i \in 1..(L + 1)
          BY <3>1, <4>1
        <5> QED
          BY <3>1, <3>2, <5>1
      <4>2. CASE ~(i <= n)
        <5>1. i \in (n + 1)..L /\ i + 1 \in 1..(L + 1)
          BY <3>1, <4>2
        <5> QED
          BY <3>1, <3>2, <5>1
      <4> QED
        BY <4>1, <4>2
    <3>4. Len(sleepq') > L
      BY <3>1
    <3> QED
      BY <2>2, <3>1, <3>3, <3>4
  <2>5. ASSUME NEW slice_over \in BOOLEAN, TimerInterrupt(slice_over) PROVE Due(t)
    <3>1. PICK n \in 0..L :
           /\ Len(sleepq') = L - n
           /\ \A i \in 1..(L - n) : sleepq'[i].task = sleepq[n + i].task
           /\ \A i \in 1..n : Elapsed(sleepq[i].left) = 0
           /\ n < L => Elapsed(sleepq[n + 1].left) > 0
      BY <1>3, <2>5, TickLeaves
    <3>2. \A k \in Nat : Elapsed(k) > 0 <=> k > 1
      BY DEF Elapsed
    <3>3. \A k \in Nat : Elapsed(k) = 0 <=> ~(k > 1)
      BY DEF Elapsed
    <3>4. ASSUME NEW i \in 1..L PROVE sleepq[i].left > 1 <=> i > n
      <4>1. CASE i <= n
        <5>1. i \in 1..n /\ ~(i > n)
          BY <2>1, <3>1, <4>1
        <5> QED
          BY <2>1, <3>1, <3>3, <5>1
      <4>2. CASE ~(i <= n)
        <5>1. n < L /\ n + 1 \in 1..L /\ n + 1 <= i /\ i > n
          BY <2>1, <3>1, <4>2
        <5>2. sleepq[n + 1].left > 1
          BY <2>1, <3>1, <3>2, <5>1
        <5>3. sleepq[n + 1].left <= sleepq[i].left
          BY <1>3, <5>1 DEF Sorted
        <5> QED
          BY <2>1, <5>1, <5>2, <5>3
      <4> QED
        BY <4>1, <4>2
    <3>5. ~(Len(sleepq') > L)
      BY <2>1, <3>1
    <3>6. ASSUME InSleepq(t)' PROVE \E i \in 1..L : sleepq[i].task = t /\ sleepq[i].left > 1
      <4>1. PICK i \in 1..(L - n) : sleepq'[i].task = t
        BY <2>2, <3>1, <3>6
      <4>2. n + i \in 1..L /\ n + i > n
        BY <2>1, <3>1
      <4> QED
        BY <3>1, <3>4, <4>1, <4>2
    <3>7. ASSUME NEW i \in 1..L, sleepq[i].task = t, sleepq[i].left > 1 PROVE InSleepq(t)'
      <4>1. i - n \in 1..(L - n) /\ n + (i - n) = i
        BY <2>1, <3>1, <3>4, <3>7
      <4> QED
        BY <2>2, <3>1, <3>7, <4>1
    <3>8. ASSUME sleepq' = sleepq PROVE InSleepq(t)'
      BY <3>8 DEF InSleepq
    <3> QED
      BY <2>1, <3>5, <3>6, <3>7, <3>8
  <2> HIDE DEF Due
  <2>6. CASE UNCHANGED vars
    BY <2>3, <2>6 DEF vars
  <2>7. CASE Kernel
    BY <2>3, <2>4, <2>7 DEF Kernel, Yield, Kill, Fork, ForkFails, Register, Reap, NothingToReap,
       WaitAlive, ReadLine, WaitDone, WaitSleep, WaitCheck, ReadCopy, Sleep, Exit, NotifyParent,
       Enqueue, Push, PickUser, PickIdle, Take, PassUsers, Panic,
       Store, ContextSwitch, CheckSignals, CheckAndSchedule, ExceptionReturn, queues
  <2>8. CASE Interrupt
    BY <2>3, <2>5, <2>8 DEF Interrupt, LineInterrupt, KeyInterrupt, queues
  <2>9. CASE \E op \in Ops : Syscall(op)
    BY <2>3, <2>9 DEF Syscall, queues
  <2> QED
    BY <1>3, <2>6, <2>7, <2>8, <2>9 DEF Next
<1> QED
  BY <1>1, <1>2, <1>3, Invariance, PTL DEF Spec, WokenWhenDue

------------------------------------------------------------------------------------
(***************************************************************************)
(* The scheduler once the nesting level has leaked past NestLimit, so that *)
(* vector.S runs every handler and every system call with interrupts       *)
(* masked: no task is lost, none is queued twice, no exit is interrupted   *)
(* before the parent has its SIGCHLD, no context is torn, and schedule()   *)
(* finds a task unless somebody kills idle.  For every number of tasks and *)
(* priorities, and every signal but SIGCONT.                               *)
(***************************************************************************)

(* The inductive invariant *)

\* The points of an exit, of the test of wait_event and of schedule(); what else there is
\* to do may be left for later.
Busy == {"sigchld", "we_check", "enqueue", "push", "scan", "scan_idle", "switch", "panic"}
Calm == Points \ Busy

\* What a task that is switched out may have to do: calm points, and the return from its
\* exception last.
RetLast(s) == \A i \in 1..Len(s) : s[i] = "ret" <=> i = Len(s)
Proper(s) == s \in Seq(Calm) /\ s # <<>> /\ RetLast(s)

\* What is left of schedule(), with a task's other points below.
AtSwitch(s) == s \in Seq(Steps) /\ s # <<>> /\ Head(s) = "switch" /\ Proper(Tail(s))
AtScan(s) == s \in Seq(Steps) /\ s # <<>> /\ Head(s) = "scan" /\ AtSwitch(Tail(s))
AtEnqueue(s) == s \in Seq(Steps) /\ s # <<>> /\ Head(s) = "enqueue" /\ AtScan(Tail(s))

\* What may be below the point x.
Below(x, r) ==
    /\ x \in (Calm \ {"ret"}) \cup {"we_check", "switch"} => Proper(r)
    /\ x = "ret" => r = <<>>
    /\ x \in {"scan", "scan_idle", "panic"} \cup Tasks => AtSwitch(r)
    /\ x \in {"enqueue", "push"} => AtScan(r)
    /\ x = "sigchld" => AtEnqueue(r)
Shape(s) == s # <<>> => Below(Head(s), Tail(s))

\* Interrupts are on exactly in user mode, and CURRENT_TASK is another task than the one on
\* the CPU just before context_switch.
StacksOK ==
    /\ masked = (stack[sp] # <<>>)
    /\ \A t \in Tasks \ {sp} : stack[t] = <<>> \/ Proper(stack[t])
    /\ Shape(stack[sp])
    /\ cur # sp => At("switch")
    /\ torn = FALSE

Distinct(q) == \A i, j \in 1..Len(q) : q[i] = q[j] => i = j
Queued(t) == Waits(ready[Prio[t]], t)
Asleep(t) == Waits(waitq, t) \/ Sleeps(sleepq, t)

\* Every task is at most once in all the queues.
QueuesOnce ==
    /\ \A p \in Priorities : Distinct(ready[p])
    /\ \A p \in Priorities : \A t \in Tasks : Waits(ready[p], t) => Prio[t] = p
    /\ Distinct(waitq)
    /\ \A i, j \in 1..Len(sleepq) : sleepq[i].task = sleepq[j].task => i = j
    /\ \A t \in Tasks : Queued(t) => ~Asleep(t)
    /\ \A t \in Tasks : ~(Waits(waitq, t) /\ Sleeps(sleepq, t))

\* schedule() has put the task on the CPU back; it has chosen the next one.
Leaving == stack[sp] # <<>> /\ Head(stack[sp]) \in {"scan", "scan_idle", "panic", "switch"} \cup Tasks
Chosen(t) == At(t) \/ (At("switch") /\ t = cur)

\* Whoever is RUNNING is queued, chosen or on the CPU, and the task on the CPU is in a queue
\* only on its way to the switch.
StatesOK ==
    /\ \A t \in Tasks : Asleep(t) => state[t] \notin {"NEW", "RUNNING"}
    /\ \A t \in Tasks : state[t] = "RUNNING" => Queued(t) \/ Chosen(t) \/ (t = sp /\ ~Leaving)
    /\ \A t \in Tasks : Chosen(t) => ~Queued(t) /\ ~Asleep(t)
    /\ Queued(sp) => Leaving
    /\ Asleep(sp) => Leaving \/ At("we_check") \/ At("enqueue")
    /\ At("we_check") => state[sp] = "SLEEPING"
    /\ At("push") => state[sp] = "RUNNING"

MInv == StacksOK /\ QueuesOnce /\ StatesOK

------------------------------------------------------------------------------------
(* Stacks *)

LEMMA PointsApart ==
  /\ \A x \in Points : x \in Steps /\ x \notin Tasks
  /\ \A x \in Tasks : x \in Steps /\ x \notin Points
  /\ Busy \subseteq Points /\ "ret" \in Calm
  /\ {"yield", "kill", "fork", "register", "wait4", "alive", "read", "we_top", "read_copy",
      "sleep", "sleep_insert", "exit", "signals", "resched"} \subseteq Calm \ {"ret"}
  /\ \A x \in Calm : x \in Points /\ x \notin Busy
BY TaskAssumption DEF Steps, Points, Calm, Busy

LEMMA PushIs ==
  ASSUME NEW S, NEW a, NEW r \in Seq(S)
  PROVE  /\ <<a>> \o r # <<>> /\ Head(<<a>> \o r) = a /\ Tail(<<a>> \o r) = r
         /\ a \in S => <<a>> \o r \in Seq(S)
         /\ Len(<<a>> \o r) = Len(r) + 1 /\ Len(r) \in Nat
         /\ \A i \in 1..(Len(r) + 1) : (<<a>> \o r)[i] = IF i = 1 THEN a ELSE r[i - 1]
<1> DEFINE S2 == S \cup {a}
           s == <<a>> \o r
<1>1. r \in Seq(S2) /\ <<a>> \in Seq(S2) /\ Len(<<a>>) = 1 /\ <<a>>[1] = a
  OBVIOUS
<1>2. /\ s \in Seq(S2) /\ Len(s) = 1 + Len(r) /\ Len(r) \in Nat
      /\ \A i \in 1..(1 + Len(r)) : s[i] = IF i <= 1 THEN <<a>>[i] ELSE r[i - 1]
  BY <1>1
<1>3. \A i \in 1..(Len(r) + 1) : s[i] = IF i = 1 THEN a ELSE r[i - 1]
  BY <1>1, <1>2
<1>4. s # <<>> /\ Head(s) = a
  BY <1>2, <1>3
<1> HIDE DEF s
<1>5. Tail(s) = r
  <2>1. Tail(s) \in Seq(S2) /\ Len(Tail(s)) = Len(r) /\ \A i \in 1..Len(r) : Tail(s)[i] = s[i + 1]
    BY <1>2, <1>4
  <2>2. \A i \in 1..Len(r) : i + 1 \in 1..(Len(r) + 1) /\ i + 1 # 1 /\ (i + 1) - 1 = i
    BY <1>2
  <2>3. \A i \in 1..Len(r) : Tail(s)[i] = r[i]
    BY <1>3, <2>1, <2>2
  <2> QED
    BY <1>1, <2>1, <2>3
<1>6. a \in S => s \in Seq(S)
  <2>1. a \in S => S2 = S
    OBVIOUS
  <2> QED
    BY <1>2, <2>1
<1> QED
  BY <1>2, <1>3, <1>4, <1>5, <1>6 DEF s

\* A constant sequence is pushed one by one.
LEMMA PushTwo ==
  \A r \in Seq(Steps) : \A a, b \in Steps : <<a, b>> \o r = <<a>> \o (<<b>> \o r)
<1> TAKE r \in Seq(Steps)
<1> TAKE a, b \in Steps
<1> DEFINE s == <<a>> \o <<b>>
<1>1. s \in Seq(Steps) /\ Len(s) = 2 /\ s[1] = a /\ s[2] = b
  OBVIOUS
<1>2. <<a>> \in Seq(Steps) /\ <<b>> \in Seq(Steps) /\ <<a, b>> \in Seq(Steps)
  OBVIOUS
<1>3. s \o r = <<a>> \o (<<b>> \o r)
  BY <1>2, ConcatAssociative
<1> HIDE DEF s
<1>4. \A i \in 1..2 : s[i] = <<a, b>>[i]
  <2>1. \A i \in 1..2 : i = 1 \/ i = 2
    OBVIOUS
  <2> QED
    BY <1>1, <2>1
<1>5. s = <<a, b>>
  BY <1>1, <1>2, <1>4, SeqEqual
<1> QED
  BY <1>3, <1>5

LEMMA PushThree ==
  \A r \in Seq(Steps) : \A a, b, c \in Steps :
     <<a, b, c>> \o r = <<a>> \o (<<b>> \o (<<c>> \o r))
<1> TAKE r \in Seq(Steps)
<1> TAKE a, b, c \in Steps
<1> DEFINE s == <<a>> \o <<b, c>>
<1>1. s \in Seq(Steps) /\ Len(s) = 3 /\ s[1] = a /\ s[2] = b /\ s[3] = c
  OBVIOUS
<1>2. <<a>> \in Seq(Steps) /\ <<b, c>> \in Seq(Steps) /\ <<a, b, c>> \in Seq(Steps)
  OBVIOUS
<1>3. s \o r = <<a>> \o (<<b, c>> \o r)
  BY <1>2, ConcatAssociative
<1> HIDE DEF s
<1>4. \A i \in 1..3 : s[i] = <<a, b, c>>[i]
  <2>1. \A i \in 1..3 : i = 1 \/ i = 2 \/ i = 3
    OBVIOUS
  <2> QED
    BY <1>1, <2>1
<1>5. s = <<a, b, c>>
  BY <1>1, <1>2, <1>4, SeqEqual
<1>6. <<b, c>> \o r = <<b>> \o (<<c>> \o r)
  BY PushTwo
<1> QED
  BY <1>3, <1>5, <1>6

LEMMA ProperPush ==
  ASSUME NEW r, Proper(r), NEW a \in Calm \ {"ret"}
  PROVE  Proper(<<a>> \o r)
<1>1. r \in Seq(Calm) /\ r # <<>> /\ RetLast(r)
  BY DEF Proper
<1> DEFINE s == <<a>> \o r
           n == Len(r)
<1>2. /\ s # <<>> /\ s \in Seq(Calm) /\ Len(s) = n + 1 /\ n \in Nat
      /\ \A i \in 1..(n + 1) : s[i] = IF i = 1 THEN a ELSE r[i - 1]
  BY <1>1, PushIs
<1>3. n # 0
  BY <1>1
<1> HIDE DEF s
<1>4. RetLast(s)
  <2> SUFFICES ASSUME NEW i \in 1..(n + 1) PROVE s[i] = "ret" <=> i = n + 1
    BY <1>2 DEF RetLast
  <2>1. CASE i = 1
    BY <1>2, <1>3, <2>1
  <2>2. CASE i # 1
    <3>1. i - 1 \in 1..n /\ s[i] = r[i - 1] /\ (i - 1 = n <=> i = n + 1)
      BY <1>2, <2>2
    <3> QED
      BY <1>1, <3>1 DEF RetLast
  <2> QED
    BY <2>1, <2>2
<1> QED
  BY <1>2, <1>4 DEF Proper, s

LEMMA ProperPop ==
  ASSUME NEW s, Proper(s)
  PROVE  /\ Head(s) \in Calm
         /\ Head(s) # "ret" => Proper(Tail(s))
         /\ Head(s) = "ret" => Tail(s) = <<>>
<1>1. s \in Seq(Calm) /\ s # <<>> /\ RetLast(s)
  BY DEF Proper
<1> DEFINE n == Len(s)
           r == Tail(s)
<1>2. /\ n \in Nat /\ n >= 1 /\ Head(s) = s[1] /\ s[1] \in Calm /\ r \in Seq(Calm)
      /\ Len(r) = n - 1 /\ \A i \in 1..(n - 1) : r[i] = s[i + 1]
  BY <1>1
<1> HIDE DEF n, r
<1>3. s[1] = "ret" <=> n = 1
  BY <1>1, <1>2 DEF RetLast, n
<1>4. n = 1 => r = <<>>
  BY <1>2
<1>5. ASSUME n # 1 PROVE Proper(r)
  <2>1. r # <<>>
    BY <1>2, <1>5
  <2>2. ASSUME NEW i \in 1..(n - 1) PROVE r[i] = "ret" <=> i = n - 1
    <3>1. i + 1 \in 1..n /\ (i + 1 = n <=> i = n - 1) /\ r[i] = s[i + 1]
      BY <1>2
    <3> QED
      BY <1>1, <3>1 DEF RetLast, n
  <2> QED
    BY <1>2, <2>1, <2>2 DEF Proper, RetLast
<1> QED
  BY <1>2, <1>3, <1>4, <1>5 DEF r

\* One point more.
LEMMA OnTop ==
  ASSUME NEW r \in Seq(Steps), NEW x \in Steps
  PROVE  /\ <<x>> \o r \in Seq(Steps) /\ <<x>> \o r # <<>>
         /\ Head(<<x>> \o r) = x /\ Tail(<<x>> \o r) = r
         /\ Below(x, r) => Shape(<<x>> \o r)
<1> DEFINE s == <<x>> \o r
<1>1. s \in Seq(Steps) /\ s # <<>> /\ Head(s) = x /\ Tail(s) = r
  BY PushIs
<1> HIDE DEF s
<1>2. Below(x, r) => Shape(s)
  BY <1>1 DEF Shape
<1> QED
  BY <1>1, <1>2 DEF s

\* What is left after a point is a stack of one of these forms.
LEMMA ShapeOf ==
  ASSUME NEW r, Proper(r) \/ AtSwitch(r) \/ AtScan(r) \/ AtEnqueue(r)
  PROVE  /\ Shape(r) /\ r # <<>> /\ r \in Seq(Steps)
         /\ Proper(r) => Head(r) \in Calm
         /\ AtSwitch(r) => Head(r) = "switch"
         /\ AtScan(r) => Head(r) = "scan"
         /\ AtEnqueue(r) => Head(r) = "enqueue"
<1>1. CASE Proper(r)
  <2>1. /\ Head(r) \in Calm
        /\ Head(r) # "ret" => Proper(Tail(r))
        /\ Head(r) = "ret" => Tail(r) = <<>>
    BY <1>1, ProperPop
  <2>2. Head(r) \notin Tasks /\ Head(r) \notin Busy
    BY <2>1, PointsApart
  <2>3. r # <<>> /\ r \in Seq(Steps)
    BY <1>1 DEF Proper, Calm, Steps
  <2>4. Below(Head(r), Tail(r))
    BY <2>1, <2>2 DEF Below, Busy
  <2>5. Head(r) \notin {"switch", "scan", "enqueue"}
    BY <2>2 DEF Busy
  <2> QED
    BY <2>1, <2>3, <2>4, <2>5 DEF Shape, AtSwitch, AtScan, AtEnqueue
<1>2. CASE AtSwitch(r) \/ AtScan(r) \/ AtEnqueue(r)
  <2>1. /\ r # <<>> /\ r \in Seq(Steps) /\ Head(r) \in Busy /\ Head(r) \notin Tasks
        /\ Head(r) \notin Calm
    BY <1>2, PointsApart DEF AtSwitch, AtScan, AtEnqueue, Busy
  <2>2. ~Proper(r)
    BY <2>1, ProperPop
  <2>3. Below(Head(r), Tail(r))
    BY <1>2, <2>1 DEF AtSwitch, AtScan, AtEnqueue, Below
  <2> QED
    BY <2>1, <2>2, <2>3 DEF Shape, AtSwitch, AtScan, AtEnqueue
<1> QED
  BY <1>1, <1>2

\* A call of schedule() above other points, from sleep(), wait_event or an exit.
LEMMA ScheduleAbove ==
  ASSUME NEW r, Proper(r)
  PROVE  /\ AtEnqueue(Schedule \o r) /\ AtEnqueue((Schedule \o <<"we_top">>) \o r)
         /\ LET s == ExitSteps \o r IN Shape(s) /\ s # <<>> /\ Head(s) = "sigchld" /\ s \in Seq(Steps)
         /\ Schedule \in Seq(Steps) /\ Schedule \o <<"we_top">> \in Seq(Steps)
         /\ ExitSteps \in Seq(Steps)
<1>1. {"enqueue", "scan", "switch", "sigchld", "we_top"} \subseteq Steps
  BY PointsApart DEF Busy, Calm
<1>2. ASSUME NEW q, Proper(q) PROVE AtEnqueue(Schedule \o q)
  <2> DEFINE q1 == <<"switch">> \o q
             q2 == <<"scan">> \o q1
             q3 == <<"enqueue">> \o q2
  <2>1. q \in Seq(Steps)
    BY <1>2, ShapeOf
  <2>2. q1 \in Seq(Steps) /\ q1 # <<>> /\ Head(q1) = "switch" /\ Tail(q1) = q
    BY <1>1, <2>1, OnTop
  <2>3. AtSwitch(q1)
    BY <1>2, <2>2 DEF AtSwitch
  <2> HIDE DEF q1
  <2>4. q2 \in Seq(Steps) /\ q2 # <<>> /\ Head(q2) = "scan" /\ Tail(q2) = q1
    BY <1>1, <2>2, OnTop
  <2>5. AtScan(q2)
    BY <2>3, <2>4 DEF AtScan
  <2> HIDE DEF q2
  <2>6. q3 \in Seq(Steps) /\ q3 # <<>> /\ Head(q3) = "enqueue" /\ Tail(q3) = q2
    BY <1>1, <2>4, OnTop
  <2>7. AtEnqueue(q3)
    BY <2>5, <2>6 DEF AtEnqueue
  <2>8. Schedule \o q = q3
    BY <1>1, <2>1, PushThree DEF Schedule, q1, q2
  <2> QED
    BY <2>7, <2>8
<1>3. Schedule \in Seq(Steps) /\ <<"we_top">> \in Seq(Steps) /\ <<"sigchld">> \in Seq(Steps)
  BY <1>1 DEF Schedule
<1>4. r \in Seq(Steps)
  BY ShapeOf
<1> HIDE DEF Schedule
<1>5. AtEnqueue((Schedule \o <<"we_top">>) \o r)
  <2>1. Proper(<<"we_top">> \o r)
    BY ProperPush, PointsApart
  <2>2. (Schedule \o <<"we_top">>) \o r = Schedule \o (<<"we_top">> \o r)
    BY <1>3, <1>4, ConcatAssociative
  <2> QED
    BY <1>2, <2>1, <2>2
<1>6. LET s == ExitSteps \o r IN Shape(s) /\ s # <<>> /\ Head(s) = "sigchld" /\ s \in Seq(Steps)
  <2> DEFINE q == Schedule \o r
  <2>1. AtEnqueue(q) /\ q \in Seq(Steps)
    BY <1>2 DEF AtEnqueue
  <2>2. ExitSteps \o r = <<"sigchld">> \o q
    BY <1>3, <1>4, ConcatAssociative DEF ExitSteps
  <2> HIDE DEF q
  <2>3. "sigchld" \notin Tasks /\ "sigchld" \notin Calm
    BY PointsApart DEF Busy
  <2>4. Below("sigchld", q)
    BY <2>1, <2>3 DEF Below
  <2>5. /\ Shape(<<"sigchld">> \o q) /\ <<"sigchld">> \o q # <<>>
        /\ Head(<<"sigchld">> \o q) = "sigchld" /\ <<"sigchld">> \o q \in Seq(Steps)
    BY <1>1, <2>1, <2>4, OnTop
  <2> QED
    BY <2>2, <2>5
<1>7. Schedule \o <<"we_top">> \in Seq(Steps) /\ ExitSteps \in Seq(Steps)
  BY <1>3, ConcatProperties DEF ExitSteps
<1> QED
  BY <1>2, <1>3, <1>5, <1>6, <1>7

\* A step that replaces the top of the stack of the task on the CPU.
LEMMA StackStep ==
  ASSUME IInv, StacksOK, NEW p \in Seq(Steps), stack[sp] # <<>>, Become(p),
         sp' = sp, masked' = masked, torn' = FALSE
  PROVE  /\ stack'[sp] = p \o Tail(stack[sp])
         /\ \A t \in Tasks : t # sp => stack'[t] = stack[t]
         /\ LET s == p \o Tail(stack[sp])
            IN  Shape(s) /\ s # <<>> /\ (cur' # sp => Head(s) = "switch") => StacksOK'
<1>1. sp \in Tasks /\ stack \in [Tasks -> Seq(Steps)]
  BY DEF IInv, TypeOK
<1>2. /\ stack'[sp] = p \o Tail(stack[sp])
      /\ \A t \in Tasks : t # sp => stack'[t] = stack[t]
  BY <1>1 DEF Become
<1> QED
  BY <1>2 DEF StacksOK, At

\* What is below the top of the stack, which is left when the top is done.
LEMMA RestIs ==
  ASSUME IInv, StacksOK, NEW x, At(x)
  PROVE  /\ stack[sp] # <<>> /\ Head(stack[sp]) = x /\ x \in Steps /\ masked = TRUE
         /\ Below(x, Tail(stack[sp])) /\ Tail(stack[sp]) \in Seq(Steps)
         /\ <<>> \in Seq(Steps) /\ <<>> \o Tail(stack[sp]) = Tail(stack[sp])
<1>1. stack[sp] \in Seq(Steps)
  BY DEF IInv, TypeOK
<1>2. stack[sp] # <<>> /\ Head(stack[sp]) = x
  BY DEF At
<1>3. Tail(stack[sp]) \in Seq(Steps) /\ x \in Steps
  BY <1>1, <1>2
<1>4. <<>> \in Seq(Steps) /\ <<>> \o Tail(stack[sp]) = Tail(stack[sp])
  BY <1>3
<1> QED
  BY <1>2, <1>3, <1>4 DEF StacksOK, Shape

\* The steps of a task that is not in schedule().
LEMMA CalmSteps ==
  ASSUME IInv, StacksOK, NEW x \in (Calm \ {"ret"}) \cup {"we_check"}, At(x),
         cur' = cur, sp' = sp, masked' = masked, torn' = FALSE, NEW p, Become(p)
  PROVE  /\ p = <<>> => StacksOK' /\ stack'[sp] # <<>> /\ Head(stack'[sp]) \in Calm
         /\ \A a \in Calm \ {"ret"} :
              p = <<a>> => StacksOK' /\ stack'[sp] # <<>> /\ Head(stack'[sp]) = a
         /\ p = <<"we_top", "read_copy">> => StacksOK' /\ stack'[sp] # <<>> /\ Head(stack'[sp]) = "we_top"
         /\ p = <<"we_check">> => StacksOK' /\ stack'[sp] # <<>> /\ Head(stack'[sp]) = "we_check"
         /\ p \in {Schedule, Schedule \o <<"we_top">>} =>
              StacksOK' /\ stack'[sp] # <<>> /\ Head(stack'[sp]) = "enqueue"
         /\ p = ExitSteps => StacksOK' /\ stack'[sp] # <<>> /\ Head(stack'[sp]) = "sigchld"
<1> DEFINE r == Tail(stack[sp])
<1>1. /\ stack[sp] # <<>> /\ Below(x, r) /\ r \in Seq(Steps) /\ <<>> \in Seq(Steps)
      /\ <<>> \o r = r
  BY RestIs
<1>2. Proper(r)
  BY <1>1 DEF Below
<1>3. cur' = sp
  <2>1. x # "switch"
    BY DEF Calm, Busy
  <2> QED
    BY <2>1 DEF StacksOK, At
<1>4. ASSUME NEW s, p \in Seq(Steps), p \o r = s, Shape(s), s # <<>>
      PROVE  StacksOK' /\ stack'[sp] = s
  BY <1>1, <1>3, <1>4, StackStep
<1> HIDE DEF r
<1>5. ASSUME p = <<>> PROVE StacksOK' /\ stack'[sp] # <<>> /\ Head(stack'[sp]) \in Calm
  BY <1>1, <1>2, <1>4, <1>5, ShapeOf
<1>6. ASSUME NEW a \in Calm \ {"ret"}, p = <<a>>
      PROVE  StacksOK' /\ stack'[sp] # <<>> /\ Head(stack'[sp]) = a
  <2>1. a \in Steps /\ <<a>> \in Seq(Steps)
    BY PointsApart
  <2>2. Proper(<<a>> \o r)
    BY <1>2, ProperPush
  <2>3. Shape(<<a>> \o r) /\ <<a>> \o r # <<>> /\ Head(<<a>> \o r) = a
    BY <1>1, <2>1, <2>2, ShapeOf, OnTop
  <2> QED
    BY <1>4, <1>6, <2>1, <2>3
<1>7. ASSUME p = <<"we_top", "read_copy">>
      PROVE  StacksOK' /\ stack'[sp] # <<>> /\ Head(stack'[sp]) = "we_top"
  <2>1. "we_top" \in Steps /\ "read_copy" \in Steps /\ p \in Seq(Steps)
    BY <1>7, PointsApart
  <2>2. Proper(<<"read_copy">> \o r)
    BY <1>2, ProperPush, PointsApart
  <2>3. Proper(<<"we_top">> \o (<<"read_copy">> \o r))
    BY <2>2, ProperPush, PointsApart
  <2>4. p \o r = <<"we_top">> \o (<<"read_copy">> \o r)
    BY <1>1, <1>7, <2>1, PushTwo
  <2>5. <<"read_copy">> \o r \in Seq(Steps)
    BY <2>2, ShapeOf
  <2>6. Head(<<"we_top">> \o (<<"read_copy">> \o r)) = "we_top"
    BY <2>1, <2>5, OnTop
  <2> QED
    BY <1>4, <2>1, <2>3, <2>4, <2>6, ShapeOf
<1>8. ASSUME p = <<"we_check">>
      PROVE  StacksOK' /\ stack'[sp] # <<>> /\ Head(stack'[sp]) = "we_check"
  <2>1. "we_check" \in Steps /\ "we_check" \notin Tasks /\ p \in Seq(Steps)
    BY <1>8, PointsApart DEF Busy
  <2>2. Below("we_check", r)
    BY <1>2, <2>1 DEF Below
  <2> DEFINE s == <<"we_check">> \o r
  <2>3. Shape(s) /\ s # <<>> /\ Head(s) = "we_check"
    BY <1>1, <2>1, <2>2, OnTop
  <2>4. p \o r = s
    BY <1>8
  <2> HIDE DEF s
  <2> QED
    BY <1>4, <2>1, <2>3, <2>4
<1>9. ASSUME p \in {Schedule, Schedule \o <<"we_top">>}
      PROVE  StacksOK' /\ stack'[sp] # <<>> /\ Head(stack'[sp]) = "enqueue"
  <2>1. p \in Seq(Steps) /\ AtEnqueue(p \o r)
    BY <1>2, <1>9, ScheduleAbove
  <2> QED
    BY <1>4, <2>1, ShapeOf
<1>10. ASSUME p = ExitSteps
       PROVE  StacksOK' /\ stack'[sp] # <<>> /\ Head(stack'[sp]) = "sigchld"
  <2>1. p \in Seq(Steps) /\ Shape(p \o r) /\ p \o r # <<>> /\ Head(p \o r) = "sigchld"
    BY <1>2, <1>10, ScheduleAbove
  <2> QED
    BY <1>4, <2>1
<1> QED
  BY <1>5, <1>6, <1>7, <1>8, <1>9, <1>10

\* No interrupt has put off an operation on READY_QUEUE: the only return is at the bottom.
LEMMA NothingHalfDone ==
  ASSUME IInv, StacksOK
  PROVE  ~HalfDone
<1>1. ASSUME NEW s \in Seq(Steps), s # <<>>, Head(s) # "ret", Tail(s) # <<>>, RetLast(Tail(s))
      PROVE  RetLast(s)
  <2> DEFINE n == Len(s)
             r == Tail(s)
  <2>1. /\ n \in Nat /\ n >= 1 /\ s[1] = Head(s) /\ Len(r) = n - 1
        /\ \A i \in 1..(n - 1) : r[i] = s[i + 1]
    BY <1>1
  <2>2. n # 1
    BY <1>1, <2>1
  <2>3. \A i \in 1..(n - 1) : r[i] = "ret" <=> i = n - 1
    BY <1>1, <2>1 DEF RetLast
  <2> HIDE DEF r, n
  <2>4. ASSUME NEW i \in 1..n PROVE s[i] = "ret" <=> i = n
    <3>1. CASE i = 1
      BY <1>1, <2>1, <2>2, <3>1
    <3>2. CASE i # 1
      <4>1. i - 1 \in 1..(n - 1) /\ (i - 1) + 1 = i /\ (i - 1 = n - 1 <=> i = n)
        BY <2>1, <3>2
      <4> QED
        BY <2>1, <2>3, <4>1
    <3> QED
      BY <3>1, <3>2
  <2> QED
    BY <2>4 DEF RetLast, n
<1>2. \A s : Proper(s) => RetLast(s) /\ s # <<>>
  BY DEF Proper
<1>3. \A s : AtSwitch(s) => RetLast(s) /\ s # <<>>
  BY <1>1, <1>2 DEF AtSwitch
<1>4. \A s : AtScan(s) => RetLast(s) /\ s # <<>>
  BY <1>1, <1>3 DEF AtScan
<1>5. \A s : AtEnqueue(s) => RetLast(s) /\ s # <<>>
  BY <1>1, <1>4 DEF AtEnqueue
<1>6. ASSUME NEW s \in Seq(Steps), s # <<>>, Shape(s) PROVE RetLast(s)
  <2>1. Head(s) \in Steps /\ Tail(s) \in Seq(Steps) /\ Below(Head(s), Tail(s))
    BY <1>6 DEF Shape
  <2>2. CASE Head(s) = "ret"
    <3>1. Tail(s) = <<>>
      BY <2>1, <2>2 DEF Below
    <3>2. Len(s) \in Nat /\ Len(s) # 0 /\ Len(Tail(s)) = Len(s) - 1 /\ s[1] = Head(s)
      BY <1>6
    <3>3. Len(s) = 1 /\ s[1] = "ret"
      BY <2>2, <3>1, <3>2
    <3> QED
      BY <3>3 DEF RetLast
  <2>3. CASE Head(s) # "ret"
    <3>1. Proper(Tail(s)) \/ AtSwitch(Tail(s)) \/ AtScan(Tail(s)) \/ AtEnqueue(Tail(s))
      BY <2>1, <2>3 DEF Below, Steps, Calm, Busy
    <3> QED
      BY <1>1, <1>2, <1>3, <1>4, <1>5, <1>6, <2>3, <3>1
  <2> QED
    BY <2>2, <2>3
<1>7. \A t \in Tasks : stack[t] = <<>> \/ RetLast(stack[t])
  BY <1>2, <1>6 DEF StacksOK, IInv, TypeOK
<1> SUFFICES ASSUME NEW t \in Tasks, NEW i \in DOMAIN stack[t], i > 1, stack[t][i - 1] = "ret"
             PROVE  FALSE
  BY DEF HalfDone
<1>8. stack[t] \in Seq(Steps)
  BY DEF IInv, TypeOK
<1>9. DOMAIN stack[t] = 1..Len(stack[t]) /\ Len(stack[t]) \in Nat
  BY <1>8, EntryOf
<1>10. stack[t] # <<>> /\ i - 1 \in 1..Len(stack[t]) /\ i - 1 # Len(stack[t])
  BY <1>8, <1>9
<1> QED
  BY <1>7, <1>10 DEF RetLast

------------------------------------------------------------------------------------
(* Queues *)

LEMMA ConcatOnce ==
  ASSUME NEW S, NEW a \in Seq(S), NEW b \in Seq(S)
  PROVE  /\ \A t : Waits(a \o b, t) <=> Waits(a, t) \/ Waits(b, t)
         /\ Distinct(a) /\ Distinct(b) /\ (\A t : ~(Waits(a, t) /\ Waits(b, t))) => Distinct(a \o b)
<1> DEFINE s == a \o b
           m == Len(a)
           n == Len(b)
<1>1. /\ m \in Nat /\ n \in Nat /\ Len(s) = m + n
      /\ \A i \in 1..(m + n) : s[i] = IF i <= m THEN a[i] ELSE b[i - m]
  OBVIOUS
<1> HIDE DEF s, m, n
<1>2. ASSUME NEW i \in 1..(m + n)
      PROVE  (i \in 1..m /\ s[i] = a[i]) \/ (i - m \in 1..n /\ s[i] = b[i - m])
  BY <1>1
<1>3. ASSUME NEW i \in 1..m PROVE i \in 1..(m + n) /\ s[i] = a[i]
  BY <1>1
<1>4. ASSUME NEW i \in 1..n PROVE i + m \in 1..(m + n) /\ s[i + m] = b[i]
  <2>1. i + m \in 1..(m + n) /\ ~(i + m <= m) /\ (i + m) - m = i
    BY <1>1
  <2> QED
    BY <1>1, <2>1
<1>5. ASSUME NEW t PROVE Waits(s, t) <=> Waits(a, t) \/ Waits(b, t)
  BY <1>1, <1>2, <1>3, <1>4 DEF Waits, m, n
<1>6. ASSUME Distinct(a), Distinct(b), \A t : ~(Waits(a, t) /\ Waits(b, t)),
             NEW i \in 1..(m + n), NEW j \in 1..(m + n), s[i] = s[j]
      PROVE  i = j
  <2>1. CASE i \in 1..m /\ s[i] = a[i] /\ j \in 1..m /\ s[j] = a[j]
    BY <1>6, <2>1 DEF Distinct, m
  <2>2. CASE i - m \in 1..n /\ s[i] = b[i - m] /\ j - m \in 1..n /\ s[j] = b[j - m]
    <3>1. i - m = j - m
      BY <1>6, <2>2 DEF Distinct, n
    <3> QED
      BY <1>1, <3>1
  <2>3. ASSUME NEW k \in 1..m, NEW l \in 1..n, a[k] = b[l] PROVE FALSE
    BY <1>6, <2>3 DEF Waits, m, n
  <2> QED
    BY <1>2, <1>6, <2>1, <2>2, <2>3
<1> QED
  BY <1>1, <1>5, <1>6 DEF Distinct, s

LEMMA AppendOnce ==
  ASSUME NEW S, NEW s \in Seq(S), NEW t \in S
  PROVE  /\ \A u : Waits(Append(s, t), u) <=> Waits(s, u) \/ u = t
         /\ Distinct(s) /\ ~Waits(s, t) => Distinct(Append(s, t))
<1>1. Append(s, t) = s \o <<t>> /\ <<t>> \in Seq(S)
  OBVIOUS
<1>2. (\A u : Waits(<<t>>, u) <=> u = t) /\ Distinct(<<t>>)
  BY DEF Waits, Distinct
<1> DEFINE b == <<t>>
<1> HIDE DEF b
<1>3. /\ \A u : Waits(s \o b, u) <=> Waits(s, u) \/ Waits(b, u)
      /\ Distinct(s) /\ Distinct(b) /\ (\A u : ~(Waits(s, u) /\ Waits(b, u))) => Distinct(s \o b)
  BY <1>1, ConcatOnce DEF b
<1>4. Append(s, t) = s \o b /\ (\A u : Waits(b, u) <=> u = t) /\ Distinct(b)
  BY <1>1, <1>2 DEF b
<1> QED
  BY <1>3, <1>4

\* A step that touches no queue, by a task that is not in schedule().
LEMMA PlainOnce ==
  ASSUME IInv, QueuesOnce, StatesOK, sp' = sp, ready' = ready, waitq' = waitq, sleepq' = sleepq,
         ~Leaving, stack'[sp] # <<>>, Head(stack'[sp]) \in Calm \cup {"sigchld", "enqueue"},
         \A t \in Tasks : t = sp \/ state'[t] = state[t] \/ state'[t] \notin {"NEW", "RUNNING"},
         Asleep(sp) => Head(stack'[sp]) = "enqueue" /\ state'[sp] = state[sp]
  PROVE  QueuesOnce' /\ StatesOK'
<1>1. /\ QueuesOnce' /\ Queued(sp)' = Queued(sp) /\ Asleep(sp)' = Asleep(sp)
      /\ \A t : (Queued(t)' <=> Queued(t)) /\ (Asleep(t)' <=> Asleep(t))
  BY DEF QueuesOnce, Queued, Asleep, Waits, Sleeps, Distinct
<1>2. /\ sp \in Tasks /\ ~Queued(sp) /\ \A t : ~Chosen(t) \/ t \notin Tasks
      /\ \A t \in Tasks : Asleep(t) => state[t] \notin {"NEW", "RUNNING"}
      /\ \A t \in Tasks : state[t] = "RUNNING" /\ t # sp => Queued(t)
  BY DEF StatesOK, IInv, TypeOK, Leaving, Chosen, At
<1>3. /\ \A t \in Tasks : Asleep(t)' => state'[t] \notin {"NEW", "RUNNING"}
      /\ \A t \in Tasks : state'[t] = "RUNNING" /\ t # sp => Queued(t)'
  BY <1>1, <1>2
<1>4. ~Leaving' /\ ~At("we_check")' /\ ~At("push")' /\ \A t \in Tasks : ~Chosen(t)'
  <2>1. Head(stack'[sp]) \notin Tasks \cup {"scan", "scan_idle", "panic", "switch", "we_check", "push"}
    BY PointsApart DEF Busy
  <2> QED
    BY <2>1 DEF Leaving, At, Chosen
<1>5. Asleep(sp)' => At("enqueue")'
  BY <1>1 DEF At
<1> QED
  BY <1>1, <1>2, <1>3, <1>4, <1>5 DEF StatesOK

\* The same, when the states do not change either, from one point of schedule() to another
\* with the same next task.
LEMMA LeavingOnce ==
  ASSUME QueuesOnce, StatesOK, sp' = sp, ready' = ready, waitq' = waitq, sleepq' = sleepq,
         state' = state, Leaving, Leaving', \A t \in Tasks : Chosen(t)' <=> Chosen(t)
  PROVE  QueuesOnce' /\ StatesOK'
<1>1. /\ QueuesOnce' /\ \A t : (Queued(t)' <=> Queued(t)) /\ (Asleep(t)' <=> Asleep(t))
  BY DEF QueuesOnce, Queued, Asleep, Waits, Sleeps, Distinct
<1>2. ~At("we_check")' /\ ~At("push")'
  BY PointsApart DEF Leaving, At, Busy
<1> QED
  BY <1>1, <1>2 DEF StatesOK

------------------------------------------------------------------------------------
(* The steps *)

\* The steps between two points at which the running task is in no queue, and those that
\* begin an exit or schedule().
LEMMA CalmKeeps ==
  ASSUME IInv, MInv, SIGCONT \notin KillSignals,
         \/ Yield \/ Kill \/ ForkFails \/ Register \/ Reap \/ NothingToReap \/ WaitAlive
         \/ ReadLine \/ WaitDone \/ ReadCopy \/ Sleep \/ Exit \/ CheckSignals \/ CheckAndSchedule
  PROVE  MInv'
<1>1. state \in [Tasks -> States] /\ cur \in Tasks /\ sp \in Tasks /\ StacksOK
  BY DEF IInv, TypeOK, MInv
<1>2. PICK x \in Calm \ {"ret"} : At(x)
  BY PointsApart DEF Yield, Kill, ForkFails, Register, Reap, NothingToReap, WaitAlive, ReadLine,
     WaitDone, ReadCopy, Sleep, Exit, CheckSignals, CheckAndSchedule
<1>3. ~Leaving /\ ~Asleep(sp) /\ cur = sp
  <2>1. Head(stack[sp]) = x /\ x \notin Busy /\ x \notin Tasks
    BY <1>2, PointsApart DEF At
  <2> QED
    BY <2>1 DEF MInv, StacksOK, StatesOK, Leaving, At, Busy
<1>4. /\ cur' = cur /\ sp' = sp /\ masked' = masked /\ torn' = FALSE
      /\ ready' = ready /\ waitq' = waitq /\ sleepq' = sleepq
  BY <1>1 DEF StacksOK, Yield, Kill, ForkFails, Register, Reap, NothingToReap, WaitAlive, ReadLine,
         WaitDone, ReadCopy, Sleep, Exit, CheckSignals, CheckAndSchedule, queues, cpu
<1>5. PICK p :
        /\ Become(p)
        /\ \/ p = <<>> \/ (\E a \in Calm \ {"ret"} : p = <<a>>) \/ p = <<"we_top", "read_copy">>
           \/ p = Schedule \/ p = ExitSteps
  <2>1. {"alive", "sleep_insert", "exit"} \subseteq Calm \ {"ret"}
    BY PointsApart
  <2>2. CASE Become(<<>>)
    BY <2>2
  <2>3. CASE NothingToReap
    BY <2>1, <2>3 DEF NothingToReap
  <2>4. CASE ReadLine
    BY <2>4 DEF ReadLine
  <2>5. CASE Sleep
    BY <2>1, <2>5 DEF Sleep
  <2>6. CASE Exit
    BY <2>6 DEF Exit
  <2>7. CASE CheckSignals
    BY <2>1, <2>7 DEF CheckSignals
  <2>8. CASE CheckAndSchedule
    BY <2>8 DEF CheckAndSchedule
  <2> HIDE DEF Become
  <2> QED
    BY <2>2, <2>3, <2>4, <2>5, <2>6, <2>7, <2>8
       DEF Yield, Kill, ForkFails, Register, Reap, WaitAlive, WaitDone, ReadCopy
<1>6. StacksOK' /\ stack'[sp] # <<>> /\ Head(stack'[sp]) \in Calm \cup {"enqueue", "sigchld"}
  <2>1. "we_top" \in Calm
    BY PointsApart
  <2> HIDE DEF Become, StacksOK, Schedule, ExitSteps
  <2> QED
    BY <1>1, <1>2, <1>4, <1>5, <2>1, CalmSteps
<1>7. \A t \in Tasks : t = sp \/ state'[t] = state[t] \/ state'[t] \notin {"NEW", "RUNNING"}
  <2>1. CASE Kill
    <3>1. ASSUME NEW u \in Tasks, NEW sig \in KillSignals, Deliver(u, sig)
          PROVE  \A t \in Tasks : state'[t] = state[t] \/ state'[t] \in {"DEAD", "SLEEPING"}
      <4>1. sig # SIGCONT
        OBVIOUS
      <4> QED
        BY <1>1, <3>1, <4>1 DEF Deliver
    <3>2. listed \cap Targets \subseteq Tasks
      BY DEF IInv, TypeOK
    <3> QED
      BY <2>1, <3>1, <3>2 DEF Kill
  <2>2. CASE Reap
    BY <1>1, <2>2 DEF Reap
  <2>3. CASE Exit
    BY <1>1, <1>3, <2>3 DEF Exit
  <2>4. CASE CheckSignals
    <3>1. \/ state' = state \/ \E x1 : state' = [state EXCEPT ![cur] = x1]
      BY <2>4 DEF CheckSignals
    <3> QED
      BY <1>1, <1>3, <3>1
  <2>5. CASE state' = state
    BY <2>5
  <2> QED
    BY <2>1, <2>2, <2>3, <2>4, <2>5
       DEF Yield, ForkFails, Register, NothingToReap, WaitAlive, ReadLine, WaitDone, ReadCopy, Sleep,
           CheckAndSchedule
<1> HIDE DEF Become
<1> QED
  BY <1>3, <1>4, <1>6, <1>7, PlainOnce DEF MInv

\* The steps on the way to schedule() that touch no queue.
LEMMA UrgentKeeps ==
  ASSUME IInv, MInv, WaitCheck \/ NotifyParent
  PROVE  MInv'
<1>1. state \in [Tasks -> States] /\ cur \in Tasks /\ sp \in Tasks /\ StacksOK /\ QueuesOnce /\ StatesOK
  BY DEF IInv, TypeOK, MInv
<1>2. /\ cur' = cur /\ sp' = sp /\ masked' = masked /\ torn' = FALSE
      /\ ready' = ready /\ waitq' = waitq /\ sleepq' = sleepq
  BY <1>1 DEF StacksOK, WaitCheck, NotifyParent, queues, cpu
<1>3. \A t \in Tasks : state'[t] = state[t]
  BY <1>1 DEF WaitCheck, NotifyParent, Deliver, SIGCHLD, SIGKILL, SIGSTOP, SIGCONT
<1>4. ~Leaving
  BY PointsApart DEF WaitCheck, NotifyParent, At, Leaving, Busy
<1>5. StacksOK' /\ stack'[sp] # <<>> /\ Head(stack'[sp]) = "enqueue"
  <2>1. CASE WaitCheck
    <3>1. At("we_check") /\ state[cur] = "SLEEPING"
      <4>1. At("we_check") /\ state[sp] = "SLEEPING"
        BY <1>1, <2>1 DEF WaitCheck, StatesOK
      <4> QED
        BY <1>1, <4>1 DEF StacksOK, At
    <3>2. Become(Schedule \o <<"we_top">>)
      BY <2>1, <3>1 DEF WaitCheck
    <3> HIDE DEF Become
    <3> QED
      BY <1>1, <1>2, <3>1, <3>2, CalmSteps
  <2>2. CASE NotifyParent
    <3> DEFINE r == Tail(stack[sp])
    <3>1. /\ stack[sp] # <<>> /\ Below("sigchld", r) /\ <<>> \in Seq(Steps) /\ <<>> \o r = r
      BY <1>1, <2>2, RestIs DEF NotifyParent
    <3>2. AtEnqueue(r)
      BY <3>1 DEF Below
    <3>3. Shape(r) /\ r # <<>> /\ Head(r) = "enqueue"
      BY <3>2, ShapeOf
    <3>4. cur' = sp
      BY <1>1, <1>2, <2>2 DEF StacksOK, NotifyParent, At
    <3>5. Become(<<>>)
      BY <2>2 DEF NotifyParent
    <3> HIDE DEF r, Become
    <3> QED
      BY <1>1, <1>2, <3>1, <3>3, <3>4, <3>5, StackStep DEF r
  <2> QED
    BY <2>1, <2>2
<1> QED
  BY <1>1, <1>2, <1>3, <1>4, <1>5, PlainOnce DEF MInv

\* The end of an exception: user mode, with interrupts on.
LEMMA ReturnOnce ==
  ASSUME IInv, MInv, ExceptionReturn
  PROVE  MInv'
<1>1. /\ sp \in Tasks /\ stack \in [Tasks -> Seq(Steps)] /\ StacksOK /\ QueuesOnce /\ StatesOK
      /\ cur' = cur /\ sp' = sp /\ masked' = FALSE /\ torn' = torn
      /\ ready' = ready /\ waitq' = waitq /\ sleepq' = sleepq /\ state' = state /\ At("ret")
  BY DEF IInv, TypeOK, MInv, ExceptionReturn, queues
<1>2. stack[sp] # <<>> /\ Tail(stack[sp]) = <<>> /\ cur = sp
  BY <1>1, RestIs DEF At, Below, StacksOK
<1>3. stack'[sp] = <<>> /\ \A t \in Tasks : t # sp => stack'[t] = stack[t]
  BY <1>1, <1>2 DEF ExceptionReturn, Become
<1>4. StacksOK'
  BY <1>1, <1>2, <1>3 DEF StacksOK, Shape
<1>5. ~Leaving /\ ~Asleep(sp) /\ ~Queued(sp) /\ \A t \in Tasks : ~Chosen(t)
  <2>1. ~Leaving /\ \A t \in Tasks : ~Chosen(t)
    BY <1>1, PointsApart DEF At, Leaving, Chosen, Busy
  <2> QED
    BY <1>1, <2>1 DEF StatesOK, At
<1>6. QueuesOnce' /\ \A t : (Queued(t)' <=> Queued(t)) /\ (Asleep(t)' <=> Asleep(t))
  BY <1>1 DEF QueuesOnce, Queued, Asleep, Waits, Sleeps, Distinct
<1>7. ~Queued(sp)' /\ ~Asleep(sp)'
  BY <1>1, <1>5 DEF Queued, Asleep, Waits, Sleeps
<1>8. (\A p : ~At(p)') /\ ~Leaving'
  BY <1>1, <1>3 DEF At, Leaving
<1> QED
  BY <1>1, <1>4, <1>5, <1>6, <1>7, <1>8 DEF MInv, StatesOK, Chosen

\* Entering the kernel, which masks interrupts once the level has leaked past the limit.
LEMMA EnterStacks ==
  ASSUME IInv, StacksOK, Leaked >= NestLimit, NEW a \in Calm \ {"ret"}, NEW b \in Calm \ {"ret"},
         stack[sp] = <<>>, Enter(<<a, b, "ret">>), cur' = cur, sp' = sp, torn' = FALSE
  PROVE  StacksOK' /\ stack'[sp] # <<>> /\ Head(stack'[sp]) \in Calm
<1>1. /\ sp \in Tasks /\ stack \in [Tasks -> Seq(Steps)]
      /\ nest \in Nat /\ NestLimit \in Nat /\ Leaked \in Nat /\ Cardinality(Frames) \in Nat
      /\ nest = Leaked + Cardinality(Frames)
  BY BoundAssumption, FS_CardinalityType DEF IInv, TypeOK, FramesCounted
<1>2. EntryMasked
  BY <1>1 DEF EntryMasked
<1>3. masked' = TRUE
  BY <1>2 DEF Enter
<1> DEFINE r == <<"ret">>
           s == <<a>> \o (<<b>> \o r)
<1>4. Proper(r)
  BY PointsApart DEF Proper, RetLast
<1>5. Proper(s)
  BY <1>4, ProperPush
<1>6. a \in Steps /\ b \in Steps /\ "ret" \in Steps /\ r \in Seq(Steps) /\ <<>> \in Seq(Steps)
  BY PointsApart
<1>7. <<a, b, "ret">> \o <<>> = s
  <2>1. PICK q \in Seq(Steps) : q = <<>>
    BY <1>6
  <2>2. <<a, b, "ret">> \o q = <<a>> \o (<<b>> \o (<<"ret">> \o q))
    BY <1>6, PushThree
  <2>3. <<"ret">> \o q = r
    BY <1>6, <2>1
  <2> QED
    BY <2>1, <2>2, <2>3
<1> HIDE DEF s
<1>8. stack'[sp] = s /\ \A t \in Tasks : t # sp => stack'[t] = stack[t]
  BY <1>1, <1>7 DEF Enter
<1>9. Shape(s) /\ s # <<>> /\ Head(s) \in Calm
  BY <1>5, ShapeOf
<1>10. cur = sp
  BY DEF StacksOK, At
<1> QED
  BY <1>3, <1>8, <1>9, <1>10 DEF StacksOK

LEMMA AddReadyOnce ==
  ASSUME ready \in [Priorities -> Seq(Tasks)], NEW t \in Tasks, ready' = AddReady(ready, t),
         \A p \in Priorities : Distinct(ready[p]), ~Queued(t),
         \A p \in Priorities : \A u \in Tasks : Waits(ready[p], u) => Prio[u] = p
  PROVE  /\ \A p \in Priorities : Distinct(ready'[p])
         /\ \A p \in Priorities : \A u \in Tasks : Waits(ready'[p], u) => Prio[u] = p
         /\ \A u \in Tasks : Queued(u)' <=> Queued(u) \/ u = t
<1>1. /\ Prio[t] \in Priorities
      /\ \A p \in Priorities : p # Prio[t] => ready'[p] = ready[p]
      /\ ready'[Prio[t]] = Append(ready[Prio[t]], t)
  BY AddReadyIs
<1>2. ready[Prio[t]] \in Seq(Tasks) /\ ~Waits(ready[Prio[t]], t)
  BY <1>1 DEF Queued
<1>3. /\ \A u : Waits(ready'[Prio[t]], u) <=> Waits(ready[Prio[t]], u) \/ u = t
      /\ Distinct(ready'[Prio[t]])
  BY <1>1, <1>2, AppendOnce
<1>4. \A p \in Priorities : Distinct(ready'[p])
  BY <1>1, <1>3
<1>5. ASSUME NEW u \in Tasks PROVE Queued(u)' <=> Queued(u) \/ u = t
  <2>1. Prio[u] \in Priorities /\ (Queued(u)' <=> Waits(ready'[Prio[u]], u))
    BY DEF Priorities, Queued, Waits
  <2>2. CASE Prio[u] = Prio[t]
    BY <1>3, <2>1, <2>2 DEF Queued
  <2>3. CASE Prio[u] # Prio[t]
    BY <1>1, <2>1, <2>3 DEF Queued
  <2> QED
    BY <2>2, <2>3
<1>6. \A p \in Priorities : \A u \in Tasks : Waits(ready'[p], u) => Prio[u] = p
  BY <1>1, <1>3
<1> QED
  BY <1>4, <1>5, <1>6

\* Waking tasks that sleep: they move from a queue of sleepers to the ready queue.
LEMMA WakeOnce ==
  ASSUME IInv, QueuesOnce, StatesOK, stack[sp] = <<>>, NEW w \in Seq(Tasks), Distinct(w),
         \A t \in Tasks : Waits(w, t) => Asleep(t),
         state' = Awake(w), ready' = AddAllReady(ready, w), sp' = sp,
         Distinct(waitq'), \A i, j \in 1..Len(sleepq') : sleepq'[i].task = sleepq'[j].task => i = j,
         \A t \in Tasks : Waits(waitq', t) => Waits(waitq, t) /\ ~Waits(w, t),
         \A t \in Tasks : Sleeps(sleepq', t) => Sleeps(sleepq, t) /\ ~Waits(w, t),
         stack'[sp] # <<>>, Head(stack'[sp]) \in Calm
  PROVE  QueuesOnce' /\ StatesOK'
<1>1. DataTypes /\ sp \in Tasks /\ ready \in [Priorities -> Seq(Tasks)] /\ state \in [Tasks -> States]
  BY DEF IInv, TypeOK, DataTypes
<1>2. ASSUME NEW p \in Priorities
      PROVE  /\ ready'[p] = ready[p] \o OfPrio(w, p) /\ ready[p] \in Seq(Tasks)
             /\ OfPrio(w, p) \in Seq(Tasks) /\ Distinct(OfPrio(w, p))
             /\ \A t : Waits(OfPrio(w, p), t) <=> Waits(w, t) /\ Prio[t] = p
  <2> DEFINE o == OfPrio(w, p)
  <2>1. /\ o \in Seq(Tasks) /\ Len(o) \in Nat
        /\ \A k \in 1..Len(o) : \E i \in 1..Len(w) : o[k] = w[i] /\ Prio[w[i]] = p
        /\ \A i \in 1..Len(w) : Prio[w[i]] = p => \E k \in 1..Len(o) : o[k] = w[i]
    BY OfPrioMembers
  <2>2. Distinct(o)
    <3>1. \A i, j \in 1..Len(w) : w[i] = w[j] => i = j
      BY DEF Distinct
    <3>2. \A i, j \in 1..Len(o) : o[i] = o[j] => i = j
      BY <3>1, OfPrioMembers
    <3> QED
      BY <3>2 DEF Distinct
  <2> HIDE DEF o
  <2>3. ASSUME NEW t PROVE Waits(o, t) <=> Waits(w, t) /\ Prio[t] = p
    <3>1. ASSUME Waits(o, t) PROVE Waits(w, t) /\ Prio[t] = p
      BY <2>1, <3>1 DEF Waits
    <3>2. ASSUME Waits(w, t), Prio[t] = p PROVE Waits(o, t)
      <4>1. PICK i \in 1..Len(w) : w[i] = t
        BY <3>2 DEF Waits
      <4>2. PICK k \in 1..Len(o) : o[k] = w[i]
        BY <2>1, <3>2, <4>1, Zenon
      <4> QED
        BY <4>1, <4>2, Zenon DEF Waits
    <3> QED
      BY <3>1, <3>2
  <2>4. ready'[p] = ready[p] \o OfPrio(w, p) /\ ready[p] \in Seq(Tasks)
    <3>1. ready[p] \in Seq(Tasks)
      BY <1>1
    <3>2. AddAllReady(ready, w)[p] = ready[p] \o OfPrio(w, p)
      BY DEF AddAllReady
    <3> QED
      BY <3>1, <3>2, Zenon
  <2> QED
    BY <2>1, <2>2, <2>3, <2>4 DEF o
<1>3. \A t \in Tasks : Queued(t) => ~Waits(w, t)
  BY DEF QueuesOnce
<1>4. ASSUME NEW p \in Priorities
      PROVE  /\ Distinct(ready'[p])
             /\ \A t : Waits(ready'[p], t) <=> Waits(ready[p], t) \/ (Waits(w, t) /\ Prio[t] = p)
  <2> DEFINE a == ready[p]
             o == OfPrio(w, p)
  <2>1. /\ ready'[p] = a \o o /\ a \in Seq(Tasks) /\ o \in Seq(Tasks) /\ Distinct(o)
        /\ \A t : Waits(o, t) <=> Waits(w, t) /\ Prio[t] = p
    BY <1>2
  <2>2. Distinct(a)
    BY DEF QueuesOnce
  <2>3. ASSUME NEW t, Waits(a, t), Waits(o, t) PROVE FALSE
    <3>1. Waits(w, t) /\ Prio[t] = p
      BY <2>1, <2>3
    <3>2. t \in Tasks
      BY <3>1, EntryOf DEF Waits
    <3>3. Queued(t)
      BY <2>3, <3>1 DEF Queued
    <3> QED
      BY <1>3, <3>1, <3>2, <3>3
  <2> HIDE DEF a, o
  <2>4. (\A t : Waits(a \o o, t) <=> Waits(a, t) \/ Waits(o, t)) /\ Distinct(a \o o)
    BY <2>1, <2>2, <2>3, ConcatOnce
  <2> QED
    BY <2>1, <2>4 DEF a
<1>5. ASSUME NEW t \in Tasks PROVE Queued(t)' <=> Queued(t) \/ Waits(w, t)
  <2>1. Prio[t] \in Priorities /\ (Queued(t)' <=> Waits(ready'[Prio[t]], t))
    BY DEF Priorities, Queued, Waits
  <2> QED
    BY <1>4, <2>1 DEF Queued
<1>6. ~Queued(sp) /\ ~Asleep(sp) /\ ~Waits(w, sp) /\ ~Leaving /\ \A t \in Tasks : ~Chosen(t)
  BY <1>1 DEF StatesOK, At, Leaving, Chosen
<1>7. \A t \in Tasks : state'[t] = IF Waits(w, t) THEN "RUNNING" ELSE state[t]
  <2>1. DOMAIN w = 1..Len(w)
    BY EntryOf
  <2> QED
    BY <1>1, <2>1 DEF Awake, Waits
<1>8. \A t \in Tasks : Asleep(t)' => Asleep(t) /\ ~Waits(w, t)
  <2>1. \A t \in Tasks : Asleep(t)' <=> Waits(waitq', t) \/ Sleeps(sleepq', t)
    BY DEF Asleep, Waits, Sleeps
  <2> QED
    BY <2>1 DEF Asleep
<1>9. QueuesOnce'
  <2>1. \A t \in Tasks : ~(Waits(waitq', t) /\ Sleeps(sleepq', t))
    BY DEF QueuesOnce
  <2>2. \A t \in Tasks : Queued(t)' => ~Asleep(t)'
    BY <1>5, <1>8 DEF QueuesOnce
  <2>3. \A t \in Tasks : ~(Waits(waitq, t) /\ Sleeps(sleepq, t))'
    BY <2>1 DEF Waits, Sleeps
  <2>4. (\A p \in Priorities : Distinct(ready[p]))' /\ Distinct(waitq)'
    BY <1>4 DEF Distinct
  <2>5. \A p \in Priorities : \A t \in Tasks : Waits(ready'[p], t) => Prio[t] = p
    BY <1>4 DEF QueuesOnce
  <2>6. (\A p \in Priorities : \A t \in Tasks : Waits(ready[p], t) => Prio[t] = p)'
    BY <2>5 DEF Waits
  <2> QED
    BY <2>2, <2>3, <2>4, <2>6 DEF QueuesOnce
<1>10. StatesOK'
  <2>1. ~Leaving' /\ ~At("we_check")' /\ ~At("push")' /\ \A t \in Tasks : ~Chosen(t)'
    <3>1. Head(stack'[sp]) \notin Tasks \cup Busy
      BY PointsApart
    <3> QED
      BY <3>1 DEF Leaving, At, Chosen, Busy
  <2>2. ~Queued(sp)' /\ ~Asleep(sp)'
    <3>1. ASSUME NEW c \in Tasks, ~Queued(c), ~Asleep(c), ~Waits(w, c) PROVE ~Queued(c)' /\ ~Asleep(c)'
      BY <1>5, <1>8, <3>1
    <3>2. PICK c \in Tasks : c = sp
      BY <1>1
    <3>3. ~Queued(c)' /\ ~Asleep(c)'
      BY <1>6, <3>1, <3>2
    <3> QED
      BY <3>2, <3>3 DEF Queued, Asleep
  <2>3. \A t \in Tasks : Asleep(t)' => state'[t] \notin {"NEW", "RUNNING"}
    BY <1>7, <1>8 DEF StatesOK
  <2>4. \A t \in Tasks : state'[t] = "RUNNING" /\ t # sp => Queued(t)'
    BY <1>5, <1>6, <1>7 DEF StatesOK
  <2> QED
    BY <2>1, <2>2, <2>3, <2>4 DEF StatesOK
<1> QED
  BY <1>9, <1>10

\* The tick wakes the head of the sleep queue.
LEMMA TickOnce ==
  ASSUME IInv, QueuesOnce, NEW slice_over \in BOOLEAN, TimerInterrupt(slice_over)
  PROVE  \E w \in Seq(Tasks) :
           /\ Distinct(w) /\ \A t \in Tasks : Waits(w, t) => Asleep(t)
           /\ state' = Awake(w) /\ ready' = AddAllReady(ready, w)
           /\ \A i, j \in 1..Len(sleepq') : sleepq'[i].task = sleepq'[j].task => i = j
           /\ \A t \in Tasks : Sleeps(sleepq', t) => Sleeps(sleepq, t) /\ ~Waits(w, t)
           /\ \A t \in Tasks : Waits(w, t) => Sleeps(sleepq, t)
<1> DEFINE E == [task : Tasks, left : Nat]
           L == Len(sleepq)
<1>1. PICK q, w, n :
           /\ q = Aged(sleepq) /\ w \in Seq(Tasks) /\ n \in 0..Len(q)
           /\ Len(w) = n /\ \A i \in 1..n : w[i] = q[i].task
           /\ Len(sleepq') = Len(q) - n /\ \A i \in 1..(Len(q) - n) : sleepq'[i] = q[n + i]
           /\ state' = Awake(w) /\ ready' = AddAllReady(ready, w)
  BY TickIs
<1>2. sleepq \in Seq(E) /\ L \in Nat /\ Len(q) = L /\ \A i \in 1..L : q[i].task = sleepq[i].task
  <2>1. sleepq \in Seq(E)
    BY DEF IInv, TypeOK
  <2>2. Len(Aged(sleepq)) = L /\ \A i \in 1..L : Aged(sleepq)[i].task = sleepq[i].task
    BY <2>1, AgedIs
  <2>3. L \in Nat
    BY <2>1, EntryOf
  <2> QED
    BY <1>1, <2>1, <2>2, <2>3
<1> HIDE DEF E, L
<1>3. \A i, j \in 1..L : sleepq[i].task = sleepq[j].task => i = j
  BY DEF QueuesOnce, L
<1>4. n \in Nat /\ n <= L /\ \A i \in 1..n : i \in 1..L /\ w[i] = sleepq[i].task
  BY <1>1, <1>2
<1>5. /\ Len(sleepq') = L - n
      /\ \A i \in 1..(L - n) : n + i \in 1..L /\ sleepq'[i].task = sleepq[n + i].task
  <2>1. \A i \in 1..(L - n) : n + i \in 1..L
    BY <1>2, <1>4
  <2> QED
    BY <1>1, <1>2, <2>1
<1>6. Distinct(w)
  <2>1. Len(w) = n
    BY <1>1
  <2>2. ASSUME NEW i \in 1..n, NEW j \in 1..n, w[i] = w[j] PROVE i = j
    <3>1. i \in 1..L /\ j \in 1..L /\ sleepq[i].task = sleepq[j].task
      BY <1>4, <2>2, Zenon
    <3> QED
      BY <1>3, <3>1, Zenon
  <2> QED
    BY <2>1, <2>2, Zenon DEF Distinct
<1>7. ASSUME NEW t \in Tasks, Waits(w, t) PROVE Sleeps(sleepq, t)
  <2>1. PICK i \in 1..n : w[i] = t
    BY <1>1, <1>7, Zenon DEF Waits
  <2>2. i \in 1..L /\ sleepq[i].task = t
    BY <1>4, <2>1, Zenon
  <2> QED
    BY <2>2, Zenon DEF Sleeps, L
<1>8. ASSUME NEW i \in 1..(L - n), NEW j \in 1..(L - n), sleepq'[i].task = sleepq'[j].task PROVE i = j
  <2>1. n + i = n + j
    BY <1>3, <1>5, <1>8
  <2> QED
    BY <1>4, <2>1
<1>9. ASSUME NEW t \in Tasks, Sleeps(sleepq', t) PROVE Sleeps(sleepq, t) /\ ~Waits(w, t)
  <2>1. PICK i \in 1..(L - n) : sleepq'[i].task = t
    BY <1>5, <1>9 DEF Sleeps
  <2>2. n + i \in 1..L /\ sleepq[n + i].task = t
    BY <1>5, <2>1
  <2>3. ASSUME NEW j \in 1..n, w[j] = t PROVE FALSE
    <3>1. j = n + i
      BY <1>3, <1>4, <2>2, <2>3
    <3> QED
      BY <1>2, <1>4, <3>1
  <2> QED
    BY <1>1, <2>2, <2>3 DEF Waits, Sleeps, L
<1> QED
  BY <1>1, <1>5, <1>6, <1>7, <1>8, <1>9 DEF Asleep

\* Interrupts and system calls start in user mode only.
LEMMA EntriesKeep ==
  ASSUME IInv, MInv, Leaked >= NestLimit, Interrupt \/ \E op \in Ops : Syscall(op)
  PROVE  MInv'
<1>1. /\ cur \in Tasks /\ sp \in Tasks /\ StacksOK /\ QueuesOnce /\ StatesOK /\ waitq \in Seq(Tasks)
      /\ torn = FALSE /\ ~HalfDone
  BY NothingHalfDone DEF IInv, TypeOK, MInv, StacksOK
<1>2. {"signals", "resched"} \subseteq Calm \ {"ret"} /\ Ops \subseteq Calm \ {"ret"}
  BY InputAssumption, PointsApart
<1>3. ASSUME Interrupted, cur' = cur, torn' = FALSE
      PROVE  /\ stack[sp] = <<>> /\ sp' = sp
             /\ StacksOK' /\ stack'[sp] # <<>> /\ Head(stack'[sp]) \in Calm
  <2>1. stack[sp] = <<>>
    BY <1>1, <1>3 DEF Interrupted, StacksOK
  <2>2. Enter(<<"signals", "resched", "ret">>) /\ sp' = sp
    BY <1>3 DEF Interrupted, IrqSteps
  <2> HIDE DEF Enter
  <2> QED
    BY <1>1, <1>2, <1>3, <2>1, <2>2, EnterStacks
<1>4. ASSUME stack[sp] = <<>> PROVE ~Leaving /\ ~Asleep(sp)
  BY <1>1, <1>4 DEF At, StatesOK, Leaving
<1>5. ASSUME NEW op \in Ops, Syscall(op) PROVE MInv'
  <2>1. /\ stack[sp] = <<>> /\ Enter(<<op, "signals", "ret">>) /\ state' = state
        /\ cur' = cur /\ sp' = sp /\ ready' = ready /\ waitq' = waitq /\ sleepq' = sleepq
        /\ torn' = FALSE
    BY <1>1, <1>5 DEF Syscall, queues
  <2> HIDE DEF Enter
  <2>2. StacksOK' /\ stack'[sp] # <<>> /\ Head(stack'[sp]) \in Calm
    BY <1>1, <1>2, <2>1, EnterStacks
  <2> QED
    BY <1>1, <1>4, <2>1, <2>2, PlainOnce DEF MInv
<1>6. ASSUME NEW key, KeyInterrupt(key) PROVE MInv'
  <2>1. /\ Interrupted /\ state' = state /\ torn' = FALSE
        /\ cur' = cur /\ ready' = ready /\ waitq' = waitq /\ sleepq' = sleepq
    BY <1>1, <1>6 DEF KeyInterrupt, queues
  <2> QED
    BY <1>1, <1>3, <1>4, <2>1, PlainOnce DEF MInv
<1>7. ASSUME NEW slice_over \in BOOLEAN, TimerInterrupt(slice_over) PROVE MInv'
  <2>1. Interrupted /\ cur' = cur /\ waitq' = waitq /\ torn' = FALSE
    BY <1>1, <1>7 DEF TimerInterrupt
  <2>2. PICK w \in Seq(Tasks) :
           /\ Distinct(w) /\ \A t \in Tasks : Waits(w, t) => Asleep(t)
           /\ state' = Awake(w) /\ ready' = AddAllReady(ready, w)
           /\ \A i, j \in 1..Len(sleepq') : sleepq'[i].task = sleepq'[j].task => i = j
           /\ \A t \in Tasks : Sleeps(sleepq', t) => Sleeps(sleepq, t) /\ ~Waits(w, t)
           /\ \A t \in Tasks : Waits(w, t) => Sleeps(sleepq, t)
    BY <1>1, <1>7, TickOnce
  <2>3. \A t \in Tasks : Waits(waitq', t) => Waits(waitq, t) /\ ~Waits(w, t)
    BY <1>1, <2>1, <2>2 DEF QueuesOnce
  <2>4. Distinct(waitq')
    BY <1>1, <2>1 DEF QueuesOnce
  <2> QED
    BY <1>1, <1>3, <2>1, <2>2, <2>3, <2>4, WakeOnce DEF MInv
<1>8. ASSUME LineInterrupt PROVE MInv'
  <2>1. Interrupted /\ cur' = cur /\ sleepq' = sleepq /\ torn' = FALSE
    BY <1>1, <1>8 DEF LineInterrupt
  <2>2. state' = Awake(waitq) /\ ready' = AddAllReady(ready, waitq) /\ waitq' = <<>>
    BY <1>8, LineIs
  <2>3. Distinct(waitq) /\ \A t \in Tasks : Waits(waitq, t) => Asleep(t)
    BY <1>1 DEF QueuesOnce, Asleep
  <2>4. Distinct(waitq') /\ \A t \in Tasks : ~Waits(waitq', t)
    BY <2>2 DEF Distinct, Waits
  <2>5. \A i, j \in 1..Len(sleepq') : sleepq'[i].task = sleepq'[j].task => i = j
    BY <1>1, <2>1 DEF QueuesOnce
  <2>6. \A t \in Tasks : Sleeps(sleepq', t) => Sleeps(sleepq, t) /\ ~Waits(waitq, t)
    BY <1>1, <2>1 DEF QueuesOnce
  <2>7. PICK w \in Seq(Tasks) : w = waitq
    BY <1>1
  <2> QED
    BY <1>1, <1>3, <2>1, <2>2, <2>3, <2>4, <2>5, <2>6, <2>7, WakeOnce DEF MInv
<1> QED
  BY <1>5, <1>6, <1>7, <1>8 DEF Interrupt

\* wait_event queues the running task.
LEMMA WaitSleepKeeps ==
  ASSUME IInv, MInv, WaitSleep
  PROVE  MInv'
<1>1. /\ cur \in Tasks /\ sp \in Tasks /\ state \in [Tasks -> States] /\ waitq \in Seq(Tasks)
      /\ StacksOK /\ QueuesOnce /\ StatesOK
  BY DEF IInv, TypeOK, MInv
<1>2. /\ cur' = cur /\ sp' = sp /\ masked' = masked /\ torn' = FALSE /\ ready' = ready /\ sleepq' = sleepq
      /\ waitq' = Append(waitq, cur) /\ state' = [state EXCEPT ![cur] = "SLEEPING"]
      /\ At("we_top") /\ Become(<<"we_check">>)
  BY <1>1 DEF WaitSleep, WithWaiter, cpu, StacksOK
<1>3. "we_top" \in Calm \ {"ret"}
  BY PointsApart
<1>4. StacksOK' /\ Head(stack'[sp]) = "we_check" /\ stack'[sp] # <<>>
  <2> HIDE DEF Become
  <2> QED
    BY <1>1, <1>2, <1>3, CalmSteps
<1>5. ~Queued(sp) /\ ~Asleep(sp) /\ ~Leaving /\ cur = sp
  BY <1>1, <1>2, PointsApart DEF StatesOK, StacksOK, At, Leaving, Busy
<1>6. PICK c \in Tasks : c = cur /\ c = sp
  BY <1>1, <1>5
<1>7. Distinct(waitq') /\ \A t : Waits(waitq', t) <=> Waits(waitq, t) \/ t = c
  BY <1>1, <1>2, <1>5, <1>6, AppendOnce DEF QueuesOnce, Asleep
<1>8. \A t \in Tasks : /\ Queued(t)' <=> Queued(t)
                       /\ Asleep(t)' <=> Asleep(t) \/ t = c
  BY <1>2, <1>7 DEF Queued, Asleep, Waits, Sleeps
<1>9. QueuesOnce'
  <2>1. \A t \in Tasks : Queued(t)' => ~Asleep(t)'
    BY <1>1, <1>5, <1>6, <1>8 DEF QueuesOnce
  <2>2. \A t \in Tasks : ~(Waits(waitq', t) /\ Sleeps(sleepq', t))
    BY <1>1, <1>2, <1>5, <1>6, <1>7 DEF QueuesOnce, Asleep
  <2>3. (\A p \in Priorities : Distinct(ready[p]))' /\ Distinct(waitq)'
    BY <1>1, <1>2, <1>7 DEF QueuesOnce, Distinct
  <2>4. \A t \in Tasks : ~(Waits(waitq, t) /\ Sleeps(sleepq, t))'
    BY <2>2 DEF Waits, Sleeps
  <2>5. (\A p \in Priorities : \A t \in Tasks : Waits(ready[p], t) => Prio[t] = p)'
    BY <1>1, <1>2 DEF QueuesOnce, Waits
  <2> QED
    BY <1>1, <1>2, <2>1, <2>3, <2>4, <2>5 DEF QueuesOnce
<1>10. \A t \in Tasks : state'[t] = IF t = c THEN "SLEEPING" ELSE state[t]
  BY <1>1, <1>2, <1>6
<1>11. /\ At("we_check")' /\ ~Leaving' /\ ~At("push")' /\ ~Queued(sp)'
       /\ \A t \in Tasks : ~Chosen(t)'
  <2>1. "we_check" \notin Tasks
    BY PointsApart DEF Busy
  <2> QED
    BY <1>2, <1>4, <1>5, <1>6, <1>8, <2>1 DEF At, Queued, Leaving, Chosen
<1>12. \A t \in Tasks : Asleep(t)' => state'[t] \notin {"NEW", "RUNNING"}
  BY <1>1, <1>8, <1>10 DEF StatesOK
<1>13. \A t \in Tasks : state'[t] = "RUNNING" => Queued(t)'
  <2>1. \A t \in Tasks : ~Chosen(t)
    BY <1>5 DEF Leaving, Chosen, At
  <2> QED
    BY <1>1, <1>5, <1>6, <1>8, <1>10, <2>1 DEF StatesOK
<1>14. state'[sp'] = "SLEEPING"
  BY <1>2, <1>6, <1>10
<1> QED
  BY <1>2, <1>4, <1>6, <1>9, <1>11, <1>12, <1>13, <1>14 DEF MInv, StatesOK

\* sleep() queues the running task.
LEMMA SleepInsertKeeps ==
  ASSUME IInv, MInv, SleepInsert
  PROVE  MInv'
<1>1. /\ cur \in Tasks /\ sp \in Tasks /\ state \in [Tasks -> States] /\ StacksOK /\ QueuesOnce /\ StatesOK
  BY DEF IInv, TypeOK, MInv
<1>2. /\ cur' = cur /\ sp' = sp /\ masked' = masked /\ torn' = FALSE /\ ready' = ready
      /\ waitq' = waitq /\ state' = [state EXCEPT ![cur] = "SLEEPING"]
      /\ At("sleep_insert") /\ Become(Schedule)
  BY <1>1 DEF SleepInsert, cpu, StacksOK
<1>3. "sleep_insert" \in Calm \ {"ret"}
  BY PointsApart
<1>4. StacksOK' /\ Head(stack'[sp]) = "enqueue" /\ stack'[sp] # <<>>
  <2> HIDE DEF Become, Schedule
  <2> QED
    BY <1>1, <1>2, <1>3, CalmSteps
<1>5. ~Queued(sp) /\ ~Asleep(sp) /\ ~Leaving /\ cur = sp
  BY <1>1, <1>2, PointsApart DEF StatesOK, StacksOK, At, Leaving, Busy
<1>6. PICK c \in Tasks : c = cur /\ c = sp
  BY <1>1, <1>5
<1> DEFINE L == Len(sleepq)
<1>7. PICK n \in 0..L :
           /\ L \in Nat /\ Len(sleepq') = L + 1
           /\ \A i \in 1..n : sleepq'[i] = sleepq[i]
           /\ sleepq'[n + 1].task = c
           /\ \A i \in (n + 1)..L : sleepq'[i + 1] = sleepq[i]
  BY <1>6, InsertIs
<1> DEFINE at(i) == IF i <= n THEN i ELSE i - 1
<1>8. ASSUME NEW i \in 1..(L + 1)
      PROVE  \/ i = n + 1 /\ sleepq'[i].task = c
             \/ i # n + 1 /\ at(i) \in 1..L /\ sleepq'[i] = sleepq[at(i)]
  <2>1. CASE i = n + 1
    BY <1>7, <2>1
  <2>2. CASE i <= n
    BY <1>7, <2>2
  <2>3. CASE i > n + 1
    <3>1. i - 1 \in (n + 1)..L /\ (i - 1) + 1 = i /\ i - 1 \in 1..L /\ ~(i <= n)
      BY <1>7, <2>3
    <3> QED
      BY <1>7, <3>1
  <2> QED
    BY <1>7, <2>1, <2>2, <2>3
<1>9. \A i, j \in 1..(L + 1) : i # n + 1 /\ j # n + 1 /\ at(i) = at(j) => i = j
  BY <1>7
<1>10. \A i \in 1..L : \E j \in 1..(L + 1) : j # n + 1 /\ at(j) = i
  <2> TAKE i \in 1..L
  <2>1. CASE i <= n
    BY <1>7, <2>1
  <2>2. CASE ~(i <= n)
    <3>1. i + 1 \in 1..(L + 1) /\ i + 1 # n + 1 /\ ~(i + 1 <= n) /\ (i + 1) - 1 = i
      BY <1>7, <2>2
    <3> QED
      BY <3>1
  <2> QED
    BY <2>1, <2>2
<1> HIDE DEF L, at
<1>11. /\ \A i \in 1..L : sleepq[i].task # c
       /\ \A i, j \in 1..L : sleepq[i].task = sleepq[j].task => i = j
  BY <1>1, <1>5, <1>6 DEF Asleep, Sleeps, QueuesOnce, L
<1>12. ASSUME NEW i \in 1..(L + 1), NEW j \in 1..(L + 1), sleepq'[i].task = sleepq'[j].task PROVE i = j
  <2>1. CASE i = n + 1
    BY <1>8, <1>11, <1>12, <2>1
  <2>2. CASE i # n + 1 /\ j = n + 1
    BY <1>8, <1>11, <1>12, <2>2
  <2>3. CASE i # n + 1 /\ j # n + 1
    BY <1>8, <1>9, <1>11, <1>12, <2>3
  <2> QED
    BY <2>1, <2>2, <2>3
<1>13. ASSUME NEW t PROVE Sleeps(sleepq', t) <=> Sleeps(sleepq, t) \/ t = c
  <2>1. ASSUME Sleeps(sleepq', t) PROVE Sleeps(sleepq, t) \/ t = c
    BY <1>7, <1>8, <2>1 DEF Sleeps, L
  <2>2. ASSUME Sleeps(sleepq, t) PROVE Sleeps(sleepq', t)
    <3>1. PICK i \in 1..L : sleepq[i].task = t
      BY <2>2 DEF Sleeps, L
    <3>2. PICK j \in 1..(L + 1) : j # n + 1 /\ at(j) = i
      BY <1>10, <3>1
    <3> QED
      BY <1>7, <1>8, <3>1, <3>2 DEF Sleeps, L
  <2>3. Sleeps(sleepq', c)
    <3>1. n + 1 \in 1..(L + 1)
      BY <1>7 DEF L
    <3> QED
      BY <1>7, <3>1 DEF Sleeps, L
  <2> QED
    BY <2>1, <2>2, <2>3
<1>14. \A t \in Tasks : /\ Queued(t)' <=> Queued(t)
                        /\ Asleep(t)' <=> Asleep(t) \/ t = c
  BY <1>2, <1>13 DEF Queued, Asleep, Waits, Sleeps
<1>15. QueuesOnce'
  <2>1. \A t \in Tasks : Queued(t)' => ~Asleep(t)'
    BY <1>1, <1>5, <1>6, <1>14 DEF QueuesOnce
  <2>2. \A t \in Tasks : ~(Waits(waitq', t) /\ Sleeps(sleepq', t))
    BY <1>1, <1>2, <1>5, <1>6, <1>13 DEF QueuesOnce, Asleep
  <2>3. (\A p \in Priorities : Distinct(ready[p]))' /\ Distinct(waitq)'
    BY <1>1, <1>2 DEF QueuesOnce, Distinct
  <2>4. \A t \in Tasks : ~(Waits(waitq, t) /\ Sleeps(sleepq, t))'
    BY <2>2 DEF Waits, Sleeps
  <2>5. \A i, j \in 1..Len(sleepq') : sleepq'[i].task = sleepq'[j].task => i = j
    BY <1>7, <1>12 DEF L
  <2>6. (\A p \in Priorities : \A t \in Tasks : Waits(ready[p], t) => Prio[t] = p)'
    BY <1>1, <1>2 DEF QueuesOnce, Waits
  <2> QED
    BY <2>1, <2>3, <2>4, <2>5, <2>6 DEF QueuesOnce
<1>16. \A t \in Tasks : state'[t] = IF t = c THEN "SLEEPING" ELSE state[t]
  BY <1>1, <1>2, <1>6
<1>17. /\ At("enqueue")' /\ ~Leaving' /\ ~At("we_check")' /\ ~At("push")' /\ ~Queued(sp)'
       /\ \A t \in Tasks : ~Chosen(t)'
  <2>1. "enqueue" \notin Tasks
    BY PointsApart DEF Busy
  <2> QED
    BY <1>2, <1>4, <1>5, <1>6, <1>14, <2>1 DEF At, Queued, Leaving, Chosen
<1>18. \A t \in Tasks : Asleep(t)' => state'[t] \notin {"NEW", "RUNNING"}
  BY <1>1, <1>14, <1>16 DEF StatesOK
<1>19. \A t \in Tasks : state'[t] = "RUNNING" => Queued(t)'
  <2>1. \A t \in Tasks : ~Chosen(t)
    BY <1>5 DEF Leaving, Chosen, At
  <2> QED
    BY <1>1, <1>5, <1>6, <1>14, <1>16, <2>1 DEF StatesOK
<1> QED
  BY <1>4, <1>15, <1>17, <1>18, <1>19 DEF MInv, StatesOK

\* schedule() looks at the state of the running task.
LEMMA EnqueueKeeps ==
  ASSUME IInv, MInv, Enqueue
  PROVE  MInv'
<1>1. /\ cur \in Tasks /\ sp \in Tasks /\ StacksOK /\ QueuesOnce /\ StatesOK
  BY DEF IInv, TypeOK, MInv
<1>2. /\ cur' = cur /\ sp' = sp /\ masked' = masked /\ waitq' = waitq /\ sleepq' = sleepq
      /\ state' = state /\ ready' = ready /\ At("enqueue") /\ torn' = (cur # sp)
      /\ Become(IF state[cur] = "RUNNING" THEN <<"push">> ELSE <<>>)
  BY DEF Enqueue, Requeue, queues
<1>3. cur = sp /\ torn' = FALSE /\ ~Leaving /\ \A t \in Tasks : ~Chosen(t)
  <2>1. cur = sp
    BY <1>1, <1>2 DEF StacksOK, At
  <2> QED
    BY <1>2, <2>1, PointsApart DEF At, Leaving, Chosen, Busy
<1> DEFINE r == Tail(stack[sp])
<1>4. /\ stack[sp] # <<>> /\ AtScan(r) /\ r \in Seq(Steps) /\ <<>> \in Seq(Steps) /\ <<>> \o r = r
  BY <1>1, <1>2, RestIs DEF Below
<1>5. "push" \in Steps /\ "push" \notin Tasks /\ "scan" \notin Tasks /\ <<"push">> \in Seq(Steps)
      /\ "push" \notin Calm
  BY PointsApart DEF Busy
<1> HIDE DEF r
<1>6. CASE state[cur] = "RUNNING"
  <2> DEFINE s == <<"push">> \o r
  <2>1. Below("push", r)
    BY <1>4, <1>5 DEF Below
  <2>2. Shape(s) /\ s # <<>> /\ Head(s) = "push"
    BY <1>4, <1>5, <2>1, OnTop
  <2>3. Become(<<"push">>)
    BY <1>2, <1>6
  <2> HIDE DEF s, Become
  <2>4. StacksOK' /\ stack'[sp] = s
    BY <1>1, <1>2, <1>3, <1>4, <1>5, <2>2, <2>3, StackStep DEF r, s
  <2>5. /\ QueuesOnce' /\ \A t : (Queued(t)' <=> Queued(t)) /\ (Asleep(t)' <=> Asleep(t))
        /\ (Queued(sp)' <=> Queued(sp)) /\ (Asleep(sp)' <=> Asleep(sp))
    BY <1>1, <1>2 DEF QueuesOnce, Queued, Asleep, Waits, Sleeps, Distinct
  <2>6. At("push")' /\ ~Leaving' /\ ~At("we_check")' /\ \A t \in Tasks : ~Chosen(t)'
    BY <1>2, <1>5, <2>2, <2>4 DEF At, Leaving, Chosen
  <2>7. ~Queued(sp) /\ ~Asleep(sp)
    BY <1>1, <1>3, <1>6 DEF StatesOK
  <2> QED
    BY <1>1, <1>2, <1>3, <1>6, <2>4, <2>5, <2>6, <2>7 DEF MInv, StatesOK
<1>7. CASE state[cur] # "RUNNING"
  <2>1. Shape(r) /\ r # <<>> /\ Head(r) = "scan"
    BY <1>4, ShapeOf
  <2>2. Become(<<>>)
    BY <1>2, <1>7
  <2> HIDE DEF Become
  <2>3. StacksOK' /\ stack'[sp] = r
    BY <1>1, <1>2, <1>3, <1>4, <2>1, <2>2, StackStep DEF r
  <2>4. /\ QueuesOnce' /\ \A t : (Queued(t)' <=> Queued(t)) /\ (Asleep(t)' <=> Asleep(t))
        /\ (Queued(sp)' <=> Queued(sp)) /\ (Asleep(sp)' <=> Asleep(sp))
    BY <1>1, <1>2 DEF QueuesOnce, Queued, Asleep, Waits, Sleeps, Distinct
  <2>5. ~At("push")' /\ Leaving' /\ ~At("we_check")' /\ \A t \in Tasks : ~Chosen(t)'
    BY <1>2, <1>5, <2>1, <2>3 DEF At, Leaving, Chosen
  <2> QED
    BY <1>1, <1>2, <1>3, <1>7, <2>3, <2>4, <2>5 DEF MInv, StatesOK
<1> QED
  BY <1>6, <1>7

\* schedule() puts the RUNNING task back.
LEMMA PushBackKeeps ==
  ASSUME IInv, MInv, Push
  PROVE  MInv'
<1>1. /\ cur \in Tasks /\ sp \in Tasks /\ ready \in [Priorities -> Seq(Tasks)]
      /\ StacksOK /\ QueuesOnce /\ StatesOK
  BY DEF IInv, TypeOK, MInv
<1>2. /\ cur' = cur /\ sp' = sp /\ masked' = masked /\ waitq' = waitq /\ sleepq' = sleepq
      /\ state' = state /\ ready' = AddReady(ready, cur) /\ At("push") /\ Become(<<>>)
      /\ torn' = FALSE
  <2>1. torn' = FALSE
    <3>1. torn' \in {FALSE, HalfDone}
      BY DEF Push
    <3>2. HalfDone = FALSE
      BY <1>1, NothingHalfDone DEF HalfDone
    <3> HIDE DEF HalfDone
    <3> QED
      BY <3>1, <3>2
  <2> QED
    BY <2>1 DEF Push
<1>3. cur = sp /\ ~Leaving /\ (\A t \in Tasks : ~Chosen(t)) /\ state[sp] = "RUNNING"
  <2>1. cur = sp
    BY <1>1, <1>2 DEF StacksOK, At
  <2> QED
    BY <1>1, <1>2, <2>1, PointsApart DEF At, Leaving, Chosen, Busy, StatesOK
<1> DEFINE r == Tail(stack[sp])
<1>4. /\ stack[sp] # <<>> /\ AtScan(r) /\ r \in Seq(Steps) /\ <<>> \in Seq(Steps) /\ <<>> \o r = r
  BY <1>1, <1>2, RestIs DEF Below
<1>5. Shape(r) /\ r # <<>> /\ Head(r) = "scan" /\ "scan" \notin Tasks
  BY <1>4, ShapeOf, PointsApart DEF Busy
<1> HIDE DEF r, Become
<1>6. StacksOK' /\ stack'[sp] = r
  BY <1>1, <1>2, <1>3, <1>4, <1>5, StackStep DEF r
<1>7. ~At("push")' /\ Leaving' /\ ~At("we_check")' /\ \A t \in Tasks : ~Chosen(t)'
  BY <1>2, <1>5, <1>6 DEF At, Leaving, Chosen
<1>8. ~Queued(sp) /\ ~Asleep(sp)
  BY <1>1, <1>3 DEF StatesOK
<1>9. PICK c \in Tasks : c = sp
  BY <1>1
<1>10. /\ \A p \in Priorities : Distinct(ready'[p])
       /\ \A p \in Priorities : \A u \in Tasks : Waits(ready'[p], u) => Prio[u] = p
       /\ \A u \in Tasks : Queued(u)' <=> Queued(u) \/ u = c
  <2>1. ready' = AddReady(ready, c) /\ ~Queued(c)
    BY <1>2, <1>3, <1>8, <1>9
  <2> QED
    BY <1>1, <2>1, AddReadyOnce DEF QueuesOnce
<1>11. \A t : Asleep(t)' <=> Asleep(t)
  BY <1>2 DEF Asleep, Waits, Sleeps
<1>12. QueuesOnce'
  <2>1. \A t \in Tasks : Queued(t)' => ~Asleep(t)'
    BY <1>1, <1>8, <1>9, <1>10, <1>11 DEF QueuesOnce
  <2>2. (\A p \in Priorities : Distinct(ready[p]))' /\ Distinct(waitq)'
    BY <1>1, <1>2, <1>10 DEF QueuesOnce, Distinct
  <2>3. (\A p \in Priorities : \A t \in Tasks : Waits(ready[p], t) => Prio[t] = p)'
    BY <1>10 DEF Waits
  <2>4. \A t \in Tasks : ~(Waits(waitq, t) /\ Sleeps(sleepq, t))'
    BY <1>1, <1>2 DEF QueuesOnce, Waits, Sleeps
  <2> QED
    BY <1>1, <1>2, <2>1, <2>2, <2>3, <2>4 DEF QueuesOnce
<1>13. \A t \in Tasks : Asleep(t)' => state'[t] \notin {"NEW", "RUNNING"}
  BY <1>1, <1>2, <1>11 DEF StatesOK
<1>14. \A t \in Tasks : state'[t] = "RUNNING" => Queued(t)'
  BY <1>1, <1>2, <1>3, <1>9, <1>10 DEF StatesOK
<1> QED
  BY <1>6, <1>7, <1>12, <1>13, <1>14 DEF MInv, StatesOK

LEMMA TailOnce ==
  ASSUME NEW S, NEW s \in Seq(S), s # <<>>, Distinct(s)
  PROVE  Distinct(Tail(s)) /\ \A t : Waits(Tail(s), t) <=> Waits(s, t) /\ t # Head(s)
<1> DEFINE r == Tail(s)
           n == Len(s)
<1>1. /\ n \in Nat /\ n >= 1 /\ Head(s) = s[1] /\ Len(r) = n - 1
      /\ \A i \in 1..(n - 1) : r[i] = s[i + 1]
  OBVIOUS
<1>2. \A i \in 1..(n - 1) : i + 1 \in 1..n /\ i + 1 # 1
  BY <1>1
<1>3. \A i, j \in 1..n : s[i] = s[j] => i = j
  BY DEF Distinct
<1> HIDE DEF r, n
<1>4. Distinct(r)
  BY <1>1, <1>2, <1>3 DEF Distinct
<1>5. ASSUME NEW t, Waits(r, t) PROVE Waits(s, t) /\ t # Head(s)
  <2>1. PICK i \in 1..(n - 1) : r[i] = t
    BY <1>1, <1>5 DEF Waits
  <2>2. s[i + 1] = t /\ 1 \in 1..n
    BY <1>1, <2>1
  <2> QED
    BY <1>1, <1>2, <1>3, <2>1, <2>2 DEF Waits, n
<1>6. ASSUME NEW t, Waits(s, t), t # Head(s) PROVE Waits(r, t)
  <2>1. PICK i \in 1..n : s[i] = t
    BY <1>6 DEF Waits, n
  <2>2. i - 1 \in 1..(n - 1) /\ (i - 1) + 1 = i
    BY <1>1, <1>6, <2>1
  <2>3. r[i - 1] = t
    BY <1>1, <2>1, <2>2
  <2> QED
    BY <1>1, <2>2, <2>3 DEF Waits
<1> QED
  BY <1>4, <1>5, <1>6 DEF r

\* The head of a queue is popped.
LEMMA TakeKeeps ==
  ASSUME IInv, MInv, NEW h \in Priorities, ready[h] # <<>>, Take(h), At("scan") \/ At("scan_idle")
  PROVE  MInv'
<1>1. /\ cur \in Tasks /\ sp \in Tasks /\ ready \in [Priorities -> Seq(Tasks)]
      /\ StacksOK /\ QueuesOnce /\ StatesOK
  BY DEF IInv, TypeOK, MInv
<1>2. PICK c : c = Head(ready[h])
  OBVIOUS
<1>3. /\ cur' = cur /\ sp' = sp /\ masked' = masked /\ waitq' = waitq /\ sleepq' = sleepq
      /\ state' = state /\ ready' = [ready EXCEPT ![h] = Tail(@)] /\ Become(<<c>>)
      /\ torn' = FALSE
  <2>1. torn' = FALSE
    <3>1. torn' \in {FALSE, HalfDone}
      BY DEF Take
    <3>2. HalfDone = FALSE
      BY <1>1, NothingHalfDone DEF HalfDone
    <3> HIDE DEF HalfDone
    <3> QED
      BY <3>1, <3>2
  <2> QED
    BY <1>2, <2>1 DEF Take
<1>4. ready[h] \in Seq(Tasks) /\ c = ready[h][1] /\ 1 \in 1..Len(ready[h]) /\ c \in Tasks
  BY <1>1, <1>2
<1>5. Prio[c] = h /\ Queued(c)
  <2>1. Waits(ready[h], c)
    BY <1>4 DEF Waits
  <2> QED
    BY <1>1, <1>4, <2>1 DEF QueuesOnce, Queued
<1>6. /\ ready'[h] = Tail(ready[h]) /\ \A p \in Priorities : p # h => ready'[p] = ready[p]
  BY <1>1, <1>3
<1>7. /\ Distinct(ready'[h])
      /\ \A t : Waits(ready'[h], t) <=> Waits(ready[h], t) /\ t # c
  BY <1>1, <1>2, <1>4, <1>6, TailOnce DEF QueuesOnce
<1>8. ASSUME NEW t \in Tasks PROVE Queued(t)' <=> Queued(t) /\ t # c
  <2>1. Prio[t] \in Priorities /\ (Queued(t)' <=> Waits(ready'[Prio[t]], t))
    BY DEF Priorities, Queued, Waits
  <2> QED
    BY <1>5, <1>6, <1>7, <2>1 DEF Queued
<1>9. \A t : Asleep(t)' <=> Asleep(t)
  BY <1>3 DEF Asleep, Waits, Sleeps
<1>10. QueuesOnce'
  <2>1. \A t \in Tasks : Queued(t)' => ~Asleep(t)'
    BY <1>1, <1>8, <1>9 DEF QueuesOnce
  <2>2. (\A p \in Priorities : Distinct(ready[p]))' /\ Distinct(waitq)'
    BY <1>1, <1>3, <1>6, <1>7 DEF QueuesOnce, Distinct
  <2>3. \A p \in Priorities : \A t \in Tasks : Waits(ready'[p], t) => Prio[t] = p
    BY <1>1, <1>6, <1>7 DEF QueuesOnce
  <2>4. (\A p \in Priorities : \A t \in Tasks : Waits(ready[p], t) => Prio[t] = p)'
    BY <2>3 DEF Waits
  <2>5. \A t \in Tasks : ~(Waits(waitq, t) /\ Sleeps(sleepq, t))'
    BY <1>1, <1>3 DEF QueuesOnce, Waits, Sleeps
  <2> QED
    BY <1>1, <1>3, <2>1, <2>2, <2>4, <2>5 DEF QueuesOnce
<1> DEFINE r == Tail(stack[sp])
           s == <<c>> \o r
<1>11. /\ stack[sp] # <<>> /\ AtSwitch(r) /\ r \in Seq(Steps)
  BY <1>1, RestIs DEF Below
<1>12. /\ Leaving /\ ~At("switch") /\ (\A t \in Tasks : ~Chosen(t)) /\ cur = sp
  <2>1. Head(stack[sp]) \in {"scan", "scan_idle"} /\ Head(stack[sp]) \notin Tasks
    BY PointsApart DEF At, Busy
  <2> QED
    BY <1>1, <1>11, <2>1 DEF At, Leaving, Chosen, StacksOK
<1>13. c \in Steps /\ c \notin Points /\ <<c>> \in Seq(Steps)
  BY <1>4, PointsApart
<1>14. Shape(s) /\ s # <<>> /\ Head(s) = c
  <2>1. Below(c, r)
    BY <1>4, <1>11, <1>13, PointsApart DEF Below, Busy
  <2> QED
    BY <1>11, <1>13, <2>1, OnTop
<1> HIDE DEF r, s, Become
<1>15. StacksOK' /\ stack'[sp] = s
  BY <1>1, <1>3, <1>11, <1>12, <1>13, <1>14, StackStep DEF r, s
<1>16. Leaving' /\ ~At("we_check")' /\ ~At("push")' /\ ~At("switch")'
  <2>1. c \notin Busy
    BY <1>13, PointsApart
  <2> QED
    BY <1>3, <1>4, <1>14, <1>15, <2>1 DEF At, Leaving, Busy
<1>17. \A t \in Tasks : Chosen(t)' <=> t = c
  BY <1>3, <1>14, <1>15, <1>16 DEF At, Chosen
<1>18. \A t \in Tasks : Chosen(t)' => ~Queued(t)' /\ ~Asleep(t)'
  BY <1>1, <1>5, <1>8, <1>9, <1>17 DEF QueuesOnce
<1>19. \A t \in Tasks : state'[t] = "RUNNING" => Queued(t)' \/ Chosen(t)'
  BY <1>1, <1>3, <1>8, <1>12, <1>17 DEF StatesOK
<1>20. \A t \in Tasks : Asleep(t)' => state'[t] \notin {"NEW", "RUNNING"}
  BY <1>1, <1>3, <1>9 DEF StatesOK
<1> QED
  BY <1>10, <1>15, <1>16, <1>18, <1>19, <1>20 DEF MInv, StatesOK

\* The scan goes on, or ends without a task.
LEMMA PassKeeps ==
  ASSUME IInv, MInv, PassUsers \/ Panic
  PROVE  MInv'
<1>1. cur \in Tasks /\ sp \in Tasks /\ StacksOK /\ QueuesOnce /\ StatesOK
  BY DEF IInv, TypeOK, MInv
<1>2. /\ cur' = cur /\ sp' = sp /\ masked' = masked /\ torn' = FALSE
      /\ ready' = ready /\ waitq' = waitq /\ sleepq' = sleepq /\ state' = state
  BY <1>1 DEF PassUsers, Panic, cpu, queues, StacksOK
<1>3. PICK x \in {"scan_idle", "panic"} : Become(<<x>>) /\ (At("scan") \/ At("scan_idle"))
  BY DEF PassUsers, Panic
<1> DEFINE r == Tail(stack[sp])
           s == <<x>> \o r
<1>4. stack[sp] # <<>> /\ AtSwitch(r) /\ r \in Seq(Steps)
  BY <1>1, <1>3, RestIs DEF Below
<1>5. x \in Steps /\ x \notin Tasks /\ x \notin Calm /\ <<x>> \in Seq(Steps)
  BY PointsApart DEF Busy
<1>6. Leaving /\ (\A t \in Tasks : ~Chosen(t)) /\ cur = sp
  <2>1. Head(stack[sp]) \in {"scan", "scan_idle"} /\ Head(stack[sp]) \notin Tasks
    BY <1>3, PointsApart DEF At, Busy
  <2> QED
    BY <1>1, <1>4, <2>1 DEF At, Leaving, Chosen, StacksOK
<1>7. Shape(s) /\ s # <<>> /\ Head(s) = x
  <2>1. Below(x, r)
    BY <1>4, <1>5 DEF Below
  <2> QED
    BY <1>4, <1>5, <2>1, OnTop
<1> HIDE DEF r, s, Become
<1>8. StacksOK' /\ stack'[sp] = s
  BY <1>1, <1>2, <1>3, <1>4, <1>5, <1>6, <1>7, StackStep DEF r, s
<1>9. Leaving' /\ \A t \in Tasks : ~Chosen(t)'
  BY <1>2, <1>5, <1>7, <1>8 DEF At, Leaving, Chosen
<1> QED
  BY <1>1, <1>2, <1>6, <1>8, <1>9, LeavingOnce DEF MInv

\* CURRENT_TASK becomes the next task, while the CPU still is on the old stack.
LEMMA StoreKeeps ==
  ASSUME IInv, MInv, Store
  PROVE  MInv'
<1>1. cur \in Tasks /\ sp \in Tasks /\ StacksOK /\ QueuesOnce /\ StatesOK
  BY DEF IInv, TypeOK, MInv
<1>2. PICK c \in Tasks : At(c) /\ cur' = c
  BY DEF Store, At
<1>3. /\ sp' = sp /\ masked' = masked /\ torn' = FALSE /\ Become(<<>>)
      /\ ready' = ready /\ waitq' = waitq /\ sleepq' = sleepq /\ state' = state
  BY <1>1 DEF Store, cpu, queues, StacksOK
<1> DEFINE r == Tail(stack[sp])
<1>4. /\ stack[sp] # <<>> /\ AtSwitch(r) /\ r \in Seq(Steps) /\ <<>> \in Seq(Steps) /\ <<>> \o r = r
  BY <1>1, <1>2, RestIs DEF Below
<1>5. Leaving /\ (\A t \in Tasks : Chosen(t) <=> t = c)
  <2>1. c # "switch"
    BY <1>2, PointsApart DEF Busy
  <2> QED
    BY <1>2, <2>1 DEF At, Leaving, Chosen
<1>6. Shape(r) /\ r # <<>> /\ Head(r) = "switch" /\ "switch" \notin Tasks
  BY <1>4, ShapeOf, PointsApart DEF Busy
<1> HIDE DEF r, Become
<1>7. StacksOK' /\ stack'[sp] = r
  BY <1>1, <1>3, <1>4, <1>6, StackStep DEF r
<1>8. Leaving' /\ \A t \in Tasks : Chosen(t)' <=> t = c
  BY <1>2, <1>3, <1>6, <1>7 DEF At, Leaving, Chosen
<1> QED
  BY <1>1, <1>3, <1>5, <1>7, <1>8, LeavingOnce DEF MInv

\* context_switch goes on with the next task.
LEMMA SwitchKeeps ==
  ASSUME IInv, MInv, ContextSwitch
  PROVE  MInv'
<1>1. /\ cur \in Tasks /\ sp \in Tasks /\ stack \in [Tasks -> Seq(Steps)]
      /\ StacksOK /\ QueuesOnce /\ StatesOK
  BY DEF IInv, TypeOK, MInv
<1>2. /\ At("switch") /\ sp' = cur /\ cur' = cur /\ Become(<<>>)
      /\ masked' = IF stack[cur] = <<>> THEN FALSE ELSE masked
      /\ torn' \in {FALSE, ~masked /\ cur # Idle /\ stack[cur] = <<>>}
      /\ ready' = ready /\ waitq' = waitq /\ sleepq' = sleepq /\ state' = state
  BY DEF ContextSwitch, MaskOnResume, queues
<1> DEFINE r == Tail(stack[sp])
<1>3. /\ stack[sp] # <<>> /\ masked = TRUE /\ Proper(r) /\ <<>> \o r = r
  BY <1>1, <1>2, RestIs DEF Below
<1>4. r # <<>>
  BY <1>3, ShapeOf
<1>5. torn' = FALSE
  BY <1>2, <1>3
<1>6. /\ stack'[sp] = r /\ \A t \in Tasks : t # sp => stack'[t] = stack[t]
  BY <1>1, <1>2, <1>3 DEF Become
<1> HIDE DEF r, Become
<1>7. \A t \in Tasks : stack'[t] = <<>> \/ Proper(stack'[t])
  BY <1>1, <1>3, <1>6 DEF StacksOK
<1>8. Shape(stack'[cur])
  <2>1. CASE stack'[cur] = <<>>
    BY <2>1 DEF Shape
  <2>2. CASE Proper(stack'[cur])
    BY <2>2, ShapeOf
  <2> QED
    BY <1>1, <1>7, <2>1, <2>2
<1>9. masked' = (stack'[cur] # <<>>)
  BY <1>1, <1>2, <1>3, <1>4, <1>6
<1>10. StacksOK'
  BY <1>2, <1>5, <1>7, <1>8, <1>9 DEF StacksOK
<1>11. ~Leaving' /\ ~At("we_check")' /\ ~At("push")' /\ \A t \in Tasks : ~Chosen(t)'
  <2>1. stack'[cur] # <<>> => Head(stack'[cur]) \notin Tasks \cup Busy
    BY <1>1, <1>7, ShapeOf, PointsApart
  <2> QED
    BY <1>2, <2>1 DEF Leaving, At, Chosen, Busy
<1>12. QueuesOnce' /\ \A t : (Queued(t)' <=> Queued(t)) /\ (Asleep(t)' <=> Asleep(t))
  BY <1>1, <1>2 DEF QueuesOnce, Queued, Asleep, Waits, Sleeps, Distinct
<1>13. ~Queued(sp)' /\ ~Asleep(sp)'
  <2>1. Chosen(cur)
    BY <1>2 DEF Chosen
  <2>2. ~Queued(cur) /\ ~Asleep(cur)
    BY <1>1, <2>1 DEF StatesOK
  <2> QED
    BY <1>2, <2>2 DEF Queued, Asleep, Waits, Sleeps
<1>14. \A t \in Tasks : state'[t] = "RUNNING" => Queued(t)' \/ t = cur
  <2>1. Leaving /\ \A t \in Tasks : Chosen(t) => t = cur
    BY <1>2, <1>3, PointsApart DEF Leaving, Chosen, At, Busy
  <2> QED
    BY <1>1, <1>2, <1>12, <2>1 DEF StatesOK
<1> QED
  BY <1>1, <1>2, <1>10, <1>11, <1>12, <1>13, <1>14 DEF MInv, StatesOK


\* do_fork puts a task into the ready queue that was nowhere.
LEMMA ForkKeeps ==
  ASSUME IInv, MInv, Fork
  PROVE  MInv'
<1>1. /\ cur \in Tasks /\ sp \in Tasks /\ ready \in [Priorities -> Seq(Tasks)]
      /\ stack \in [Tasks -> Seq(Steps)] /\ state \in [Tasks -> States]
      /\ StacksOK /\ QueuesOnce /\ StatesOK
  BY DEF IInv, TypeOK, MInv
<1>2. PICK c \in Tasks :
        /\ state[c] = "NEW" /\ state' = [state EXCEPT ![c] = "RUNNING"]
        /\ ready' = AddReady(ready, c)
        /\ stack' = [stack EXCEPT ![c] = <<>>, ![sp] = <<"register">> \o Tail(@)]
  BY DEF Fork, ChildStack
<1>3. /\ cur' = cur /\ sp' = sp /\ waitq' = waitq /\ sleepq' = sleepq /\ masked' = masked
      /\ At("fork") /\ torn' = FALSE
  <2>1. torn' \in {FALSE, HalfDone}
    BY DEF Fork
  <2>2. HalfDone = FALSE
    BY <1>1, NothingHalfDone DEF HalfDone
  <2>3. torn' = FALSE
    <3> HIDE DEF HalfDone
    <3> QED
      BY <2>1, <2>2
  <2> QED
    BY <2>3 DEF Fork
<1>4. c # sp /\ c # cur /\ ~Queued(c) /\ ~Asleep(c)
  <2>1. c # sp /\ c # cur /\ NoNewQueued
    BY <1>2 DEF IInv, NewIsFresh
  <2>2. ~Queued(c)
    BY <1>2, <2>1 DEF NoNewQueued, Queued, Waits, Priorities
  <2>3. ~Asleep(c)
    BY <1>1, <1>2 DEF StatesOK
  <2> QED
    BY <2>1, <2>2, <2>3
<1>5. /\ \A p \in Priorities : Distinct(ready'[p])
      /\ \A p \in Priorities : \A u \in Tasks : Waits(ready'[p], u) => Prio[u] = p
      /\ \A t \in Tasks : Queued(t)' <=> Queued(t) \/ t = c
  BY <1>1, <1>2, <1>4, AddReadyOnce DEF QueuesOnce
<1>6. \A t : Asleep(t)' <=> Asleep(t)
  BY <1>3 DEF Asleep, Waits, Sleeps
<1>7. QueuesOnce'
  <2>1. \A t \in Tasks : Queued(t)' => ~Asleep(t)'
    BY <1>1, <1>4, <1>5, <1>6 DEF QueuesOnce
  <2>2. (\A p \in Priorities : Distinct(ready[p]))' /\ Distinct(waitq)'
    BY <1>1, <1>3, <1>5 DEF QueuesOnce, Distinct
  <2>3. (\A p \in Priorities : \A t \in Tasks : Waits(ready[p], t) => Prio[t] = p)'
    BY <1>5 DEF Waits
  <2>4. \A t \in Tasks : ~(Waits(waitq, t) /\ Sleeps(sleepq, t))'
    BY <1>1, <1>3 DEF QueuesOnce, Waits, Sleeps
  <2> QED
    BY <1>1, <1>3, <2>1, <2>2, <2>3, <2>4 DEF QueuesOnce
<1>8. /\ stack'[sp] = <<"register">> \o Tail(stack[sp]) /\ stack'[c] = <<>>
      /\ \A t \in Tasks : t # sp /\ t # c => stack'[t] = stack[t]
  BY <1>1, <1>2, <1>4
<1>9. "fork" \in Calm \ {"ret"} /\ "register" \in Calm \ {"ret"} /\ "register" \notin Tasks
  BY PointsApart
<1>10. Proper(Tail(stack[sp])) /\ stack[sp] # <<>> /\ masked = TRUE
  BY <1>1, <1>3, <1>9, RestIs DEF Below
<1>11. Shape(stack'[sp]) /\ stack'[sp] # <<>> /\ Head(stack'[sp]) = "register"
  <2>1. Proper(stack'[sp])
    BY <1>8, <1>9, <1>10, ProperPush
  <2>2. Head(stack'[sp]) = "register"
    <3>1. Tail(stack[sp]) \in Seq(Steps) /\ "register" \in Steps
      BY <1>9, <1>10, ShapeOf, PointsApart
    <3> QED
      BY <1>8, <3>1, OnTop
  <2> QED
    BY <2>1, <2>2, ShapeOf
<1>12. cur = sp /\ ~Leaving /\ \A t \in Tasks : ~Chosen(t)
  BY <1>1, <1>3, PointsApart DEF StacksOK, At, Leaving, Chosen, Busy
<1>13. StacksOK'
  BY <1>1, <1>3, <1>8, <1>10, <1>11, <1>12 DEF StacksOK
<1>14. ~Leaving' /\ ~At("we_check")' /\ ~At("push")' /\ \A t \in Tasks : ~Chosen(t)'
  <2>1. \A x : At(x)' <=> x = "register"
    BY <1>3, <1>11 DEF At
  <2> QED
    BY <1>3, <1>9, <1>11, <2>1 DEF Leaving, Chosen
<1>15. ~Queued(sp)' /\ ~Asleep(sp)'
  <2>1. PICK d \in Tasks : d = sp
    BY <1>1
  <2>2. ~Queued(d) /\ ~Asleep(d)
    BY <1>1, <1>3, <1>12, <2>1 DEF StatesOK, At
  <2>3. ~Queued(d)' /\ ~Asleep(d)'
    BY <1>4, <1>5, <1>6, <2>1, <2>2
  <2> QED
    BY <1>3, <2>1, <2>3 DEF Queued, Asleep, Waits, Sleeps
<1>16. \A t \in Tasks : state'[t] = IF t = c THEN "RUNNING" ELSE state[t]
  BY <1>1, <1>2
<1>17. \A t \in Tasks : Asleep(t)' => state'[t] \notin {"NEW", "RUNNING"}
  BY <1>1, <1>4, <1>6, <1>16 DEF StatesOK
<1>18. \A t \in Tasks : state'[t] = "RUNNING" /\ t # sp => Queued(t)'
  BY <1>1, <1>5, <1>12, <1>16 DEF StatesOK
<1> QED
  BY <1>3, <1>7, <1>13, <1>14, <1>15, <1>17, <1>18 DEF MInv, StatesOK

------------------------------------------------------------------------------------
(* The theorems *)

LEMMA MaskedInit ==
  ASSUME Init
  PROVE  MInv
<1>1. Idle \in Tasks /\ Shell \in Tasks /\ Idle # Shell /\ Prio[Idle] \in Priorities
  BY TaskAssumption DEF Priorities
<1>2. /\ stack = [t \in Tasks |-> <<>>] /\ cur = Shell /\ sp = Shell /\ masked = FALSE
      /\ torn = FALSE /\ waitq = <<>> /\ sleepq = <<>>
      /\ state = [t \in Tasks |-> IF t \in {Idle, Shell} THEN "RUNNING" ELSE "NEW"]
      /\ ready = [p \in Priorities |-> IF p = Prio[Idle] THEN <<Idle>> ELSE <<>>]
  BY DEF Init
<1>3. StacksOK
  BY <1>1, <1>2 DEF StacksOK, Shape
<1>4. \A t \in Tasks : ~Waits(waitq, t) /\ ~Sleeps(sleepq, t) /\ ~Asleep(t)
  BY <1>2 DEF Waits, Sleeps, Asleep
<1>5. \A p \in Priorities : \A t : Waits(ready[p], t) <=> p = Prio[Idle] /\ t = Idle
  <2> TAKE p \in Priorities
  <2>1. ready[p] = IF p = Prio[Idle] THEN <<Idle>> ELSE <<>>
    BY <1>2
  <2> QED
    BY <2>1 DEF Waits
<1>6. \A t \in Tasks : Queued(t) <=> t = Idle
  BY <1>5 DEF Queued, Priorities
<1>7. QueuesOnce
  <2>1. \A p \in Priorities : Distinct(ready[p])
    <3> TAKE p \in Priorities
    <3>1. ready[p] = IF p = Prio[Idle] THEN <<Idle>> ELSE <<>>
      BY <1>2
    <3> QED
      BY <3>1 DEF Distinct
  <2>2. /\ Distinct(waitq)
        /\ \A i, j \in 1..Len(sleepq) : sleepq[i].task = sleepq[j].task => i = j
    BY <1>2 DEF Distinct
  <2> QED
    BY <1>4, <1>5, <2>1, <2>2 DEF QueuesOnce
<1>8. StatesOK
  <2>1. (\A p : ~At(p)) /\ ~Leaving
    BY <1>1, <1>2 DEF At, Leaving
  <2> QED
    BY <1>1, <1>2, <1>4, <1>6, <2>1 DEF StatesOK, Chosen
<1> QED
  BY <1>3, <1>7, <1>8 DEF MInv

LEMMA MaskedStep ==
  ASSUME Leaked >= NestLimit, SIGCONT \notin KillSignals, IInv, MInv, [Next]_vars
  PROVE  MInv'
<1>1. CASE UNCHANGED vars
  <2>1. /\ state' = state /\ cur' = cur /\ ready' = ready /\ waitq' = waitq /\ sleepq' = sleepq
        /\ stack' = stack /\ masked' = masked /\ sp' = sp /\ torn' = torn
    BY <1>1 DEF vars
  <2>2. StacksOK' /\ (\A p : At(p)' <=> At(p)) /\ (Leaving' <=> Leaving)
    BY <2>1 DEF MInv, StacksOK, At, Leaving
  <2>3. QueuesOnce' /\ \A t : (Queued(t)' <=> Queued(t)) /\ (Asleep(t)' <=> Asleep(t))
    BY <2>1 DEF MInv, QueuesOnce, Queued, Asleep, Waits, Sleeps, Distinct
  <2>4. /\ (Queued(sp)' <=> Queued(sp)) /\ (Asleep(sp)' <=> Asleep(sp))
        /\ \A t : Chosen(t)' <=> Chosen(t)
    BY <2>1, <2>2 DEF Queued, Asleep, Waits, Sleeps, Chosen
  <2> QED
    BY <2>1, <2>2, <2>3, <2>4 DEF MInv, StatesOK
<1>2. CASE PickUser \/ PickIdle
  <2>1. PICK p \in Priorities : ready[p] # <<>> /\ Take(p) /\ (At("scan") \/ At("scan_idle"))
    BY <1>2 DEF PickUser, PickIdle, UserQueues, NonEmpty
  <2> QED
    BY <2>1, TakeKeeps
<1>3. CASE Kernel
  BY <1>2, <1>3, CalmKeeps, UrgentKeeps, ReturnOnce, WaitSleepKeeps, SleepInsertKeeps, EnqueueKeeps,
     PushBackKeeps, PassKeeps, StoreKeeps, SwitchKeeps, ForkKeeps DEF Kernel
<1>4. CASE Interrupt \/ \E op \in Ops : Syscall(op)
  BY <1>4, EntriesKeep
<1> QED
  BY <1>1, <1>3, <1>4 DEF Next

LEMMA MaskedInvariance ==
  ASSUME Leaked >= NestLimit, SIGCONT \notin KillSignals
  PROVE  Spec => []MInv
<1>1. Init => MInv
  BY MaskedInit
<1>2. IInv /\ MInv /\ [Next]_vars => MInv'
  BY MaskedStep
<1> QED
  BY <1>1, <1>2, Invariance, PTL DEF Spec

\* With handlers masked, schedule(), wait_event() and sleep() lose no task: whoever is RUNNING
\* is current, in the ready queue or popped from it for CURRENT_TASK.  SIGCONT is left out,
\* because do_kill sets its target RUNNING and queues it nowhere.
THEOREM RunnableStaysQueued ==
  ASSUME Leaked >= NestLimit, SIGCONT \notin KillSignals
  PROVE  Spec => []RunnableIsQueued
<1>1. ASSUME IInv, MInv PROVE RunnableIsQueued
  <2> SUFFICES ASSUME NEW t \in Tasks, state[t] = "RUNNING", t # cur
               PROVE InReady(t) \/ Picked(t)
    BY DEF RunnableIsQueued
  <2>1. sp \in Tasks /\ StacksOK /\ StatesOK /\ stack[sp] \in Seq(Steps)
    BY <1>1 DEF IInv, TypeOK, MInv
  <2>2. Queued(t) \/ At(t)
    <3>1. t = sp => At("switch")
      BY <2>1 DEF StacksOK
    <3> QED
      BY <2>1, <3>1 DEF StatesOK, Chosen, Leaving, At
  <2>3. CASE Queued(t)
    <3>1. ready[Prio[t]] \in Seq(Tasks)
      BY <1>1 DEF IInv, TypeOK, Priorities
    <3>2. DOMAIN ready[Prio[t]] = 1..Len(ready[Prio[t]])
      BY <3>1, EntryOf
    <3> QED
      BY <2>3, <3>2 DEF Queued, Waits, InReady
  <2>4. CASE At(t)
    <3>1. stack[sp] # <<>> /\ Head(stack[sp]) = t
      BY <2>4 DEF At
    <3>2. 1 \in DOMAIN stack[sp] /\ stack[sp][1] = t
      BY <2>1, <3>1
    <3> QED
      BY <2>1, <3>2 DEF Picked
  <2> QED
    BY <2>2, <2>3, <2>4
<1> QED
  BY <1>1, Invariance, MaskedInvariance, PTL

\* With handlers masked, no task is in the ready queue twice, whoever wakes it and however often:
\* add_task_ready appends without looking, so this rests on when it is called.
THEOREM QueuedAtMostOnce ==
  ASSUME Leaked >= NestLimit, SIGCONT \notin KillSignals
  PROVE  Spec => []NoDoubleEnqueue
<1>1. ASSUME IInv, MInv PROVE NoDoubleEnqueue
  <2> SUFFICES ASSUME NEW t \in Tasks PROVE Occurrences(ready[Prio[t]], t) <= 1
    BY DEF NoDoubleEnqueue
  <2> DEFINE q == ready[Prio[t]]
             S == {i \in DOMAIN q : q[i] = t}
  <2>1. q \in Seq(Tasks) /\ Distinct(q)
    BY <1>1 DEF IInv, TypeOK, Priorities, MInv, QueuesOnce
  <2>2. DOMAIN q = 1..Len(q)
    BY <2>1, EntryOf
  <2>3. \A i, j \in S : i = j
    BY <2>1, <2>2 DEF Distinct
  <2> HIDE DEF S
  <2>4. CASE S = {}
    BY <2>4, FS_EmptySet DEF Occurrences, S
  <2>5. CASE S # {}
    <3>1. PICK i : i \in S
      BY <2>5
    <3>2. S = {i}
      BY <2>3, <3>1
    <3>3. Cardinality(S) = 1
      BY <3>2, FS_Singleton
    <3> QED
      BY <3>3 DEF Occurrences, S
  <2> QED
    BY <2>4, <2>5
<1> QED
  BY <1>1, Invariance, MaskedInvariance, PTL

\* What a task that is not on the CPU has to do, and whoever is before context_switch.
LEMMA NoBusyPoint ==
  ASSUME IInv, MInv, NEW t \in Tasks, NEW x \in {"sigchld", "panic"},
         t = sp => stack[sp] = <<>> \/ Proper(stack[sp]) \/ AtSwitch(stack[sp])
  PROVE  Occurrences(stack[t], x) = 0
<1>1. stack[t] \in Seq(Steps) /\ sp \in Tasks
  BY DEF IInv, TypeOK
<1>2. stack[t] = <<>> \/ Proper(stack[t]) \/ AtSwitch(stack[t])
  BY DEF MInv, StacksOK
<1>3. \A s \in Seq(Calm) : \A i \in DOMAIN s : s[i] # x
  BY EntryOf DEF Calm, Busy
<1>4. ASSUME NEW i \in DOMAIN stack[t] PROVE stack[t][i] # x
  <2>1. CASE Proper(stack[t])
    BY <1>3, <1>4, <2>1 DEF Proper
  <2>2. CASE AtSwitch(stack[t])
    <3> DEFINE s == stack[t]
    <3>1. Head(s) = "switch" /\ Tail(s) \in Seq(Calm) /\ s # <<>>
      BY <2>2 DEF AtSwitch, Proper
    <3>2. /\ i \in 1..Len(s) /\ Len(s) \in Nat /\ s[1] = Head(s)
          /\ i # 1 => i - 1 \in 1..Len(Tail(s)) /\ Tail(s)[i - 1] = s[i]
      BY <1>1, <1>4, <3>1
    <3>3. \A j \in 1..Len(Tail(s)) : Tail(s)[j] # x
      BY <1>3, <3>1
    <3> QED
      BY <3>1, <3>2, <3>3
  <2>3. CASE stack[t] = <<>>
    BY <1>4, <2>3
  <2> QED
    BY <1>2, <2>1, <2>2, <2>3
<1>5. {i \in DOMAIN stack[t] : stack[t][i] = x} = {}
  BY <1>4
<1> QED
  BY <1>5, FS_EmptySet DEF Occurrences

\* With handlers masked, do_exit_with cannot be switched out between ZOMBIE and SIGCHLD: a zombie
\* that is not the current task has notified its parent.
THEOREM ExitNotifies ==
  ASSUME Leaked >= NestLimit, SIGCONT \notin KillSignals
  PROVE  Spec => []ExitNotifiesParent
<1>1. ASSUME IInv, MInv PROVE ExitNotifiesParent
  <2> SUFFICES ASSUME NEW t \in Tasks, t # cur PROVE Occurrences(stack[t], "sigchld") = 0
    BY DEF ExitNotifiesParent
  <2>1. t = sp => AtSwitch(stack[sp])
    <3>1. t = sp => At("switch") /\ Shape(stack[sp]) /\ stack[sp] \in Seq(Steps)
      BY <1>1 DEF IInv, TypeOK, MInv, StacksOK
    <3> QED
      BY <3>1, PointsApart DEF At, Shape, Below, AtSwitch, Busy
  <2> QED
    BY <1>1, <2>1, NoBusyPoint
<1> QED
  BY <1>1, Invariance, MaskedInvariance, PTL

\* With handlers masked, no handler finds READY_QUEUE or a context half-written: all of
\* schedule(), and the first eret of a process, runs with interrupts off.
THEOREM ContextsAreWhole ==
  ASSUME Leaked >= NestLimit, SIGCONT \notin KillSignals
  PROVE  Spec => []NeverTorn
<1>1. MInv => NeverTorn
  BY DEF MInv, StacksOK, NeverTorn
<1> QED
  BY <1>1, MaskedInvariance, PTL

------------------------------------------------------------------------------------
(* The idle thread *)

\* What idle ever has to do: it makes no system call, so it only is interrupted.
IdlePoints == {"signals", "resched", "ret", "enqueue", "push", "scan", "scan_idle", "switch"} \cup Tasks
Sound == Steps \ {"panic"}

\* Nothing stops idle as long as nobody kills it.
IdleInv ==
    /\ state[Idle] = "RUNNING" /\ pending[Idle] = {}
    /\ \A t \in Tasks : parent[t] # Idle
    /\ stack[Idle] \in Seq(IdlePoints)
    /\ stack \in [Tasks -> Seq(Sound)]

LEMMA SoundPoints ==
  /\ "panic" \notin Tasks /\ Tasks \subseteq Sound /\ Points \ {"panic"} \subseteq Sound
  /\ IdlePoints \subseteq Sound /\ Idle \in Tasks /\ Shell \in Tasks /\ Shell # Idle
  /\ \A x \in {"yield", "kill", "fork", "register", "wait4", "alive", "read", "we_top", "we_check",
               "read_copy", "sleep", "sleep_insert", "exit", "sigchld"} : x \notin IdlePoints
BY TaskAssumption DEF Sound, Steps, Points, IdlePoints

LEMMA IdleStack ==
  ASSUME IInv, IdleInv, stack[sp] # <<>>, NEW p \in Seq(Sound), Become(p),
         sp = Idle => p \in Seq(IdlePoints)
  PROVE  stack'[Idle] \in Seq(IdlePoints) /\ stack' \in [Tasks -> Seq(Sound)]
<1>1. sp \in Tasks /\ Idle \in Tasks
  BY SoundPoints DEF IInv, TypeOK
<1>2. stack[sp] \in Seq(Sound) /\ Tail(stack[sp]) \in Seq(Sound)
  BY <1>1 DEF IdleInv
<1>3. p \o Tail(stack[sp]) \in Seq(Sound)
  BY <1>2
<1>4. stack' = [stack EXCEPT ![sp] = p \o Tail(stack[sp])] /\ stack \in [Tasks -> Seq(Sound)]
  BY DEF Become, IdleInv
<1>5. stack' \in [Tasks -> Seq(Sound)]
  BY <1>1, <1>3, <1>4
<1>6. CASE sp = Idle
  <2>1. Tail(stack[sp]) \in Seq(IdlePoints)
    BY <1>6 DEF IdleInv
  <2>2. p \o Tail(stack[sp]) \in Seq(IdlePoints)
    BY <1>6, <2>1
  <2> QED
    BY <1>1, <1>4, <1>5, <1>6, <2>2
<1>7. CASE sp # Idle
  BY <1>1, <1>4, <1>5, <1>7 DEF IdleInv
<1> QED
  BY <1>6, <1>7

\* Whoever makes a system call is not idle.
LEMMA CallerIsUser ==
  ASSUME IInv, MInv, IdleInv,
         NEW x \in {"yield", "kill", "fork", "register", "wait4", "alive", "read", "we_top",
                    "we_check", "read_copy", "sleep", "sleep_insert", "exit", "sigchld"}, At(x)
  PROVE  sp # Idle /\ cur # Idle /\ stack[sp] # <<>>
<1>1. stack[sp] # <<>> /\ Head(stack[sp]) = x
  BY DEF At
<1>2. ASSUME sp = Idle PROVE FALSE
  <2>1. x \in IdlePoints
    BY <1>1, <1>2 DEF IdleInv
  <2> QED
    BY <2>1, SoundPoints
<1>3. cur = sp
  BY <1>1 DEF MInv, StacksOK, At
<1> QED
  BY <1>1, <1>2, <1>3

\* The steps of a system call.
LEMMA CallsLeaveIdle ==
  ASSUME IInv, MInv, IdleInv, Idle \notin Targets,
         \/ Yield \/ Kill \/ ForkFails \/ Register \/ Reap \/ NothingToReap \/ WaitAlive
         \/ ReadLine \/ WaitDone \/ WaitSleep \/ WaitCheck \/ ReadCopy
         \/ Sleep \/ SleepInsert \/ Exit \/ NotifyParent
  PROVE  IdleInv'
<1>1. /\ sp # Idle /\ cur # Idle /\ stack[sp] # <<>> /\ cur \in Tasks /\ Idle \in Tasks
      /\ state \in [Tasks -> States] /\ pending \in [Tasks -> SUBSET Signals]
      /\ listed \subseteq Tasks
  <2>1. cur \in Tasks /\ Idle \in Tasks /\ state \in [Tasks -> States]
        /\ pending \in [Tasks -> SUBSET Signals] /\ listed \subseteq Tasks
    BY SoundPoints DEF IInv, TypeOK
  <2> QED
    BY <2>1, CallerIsUser DEF Yield, Kill, ForkFails, Register, Reap, NothingToReap, WaitAlive,
       ReadLine, WaitDone, WaitSleep, WaitCheck, ReadCopy, Sleep, SleepInsert, Exit, NotifyParent
<1>2. PICK p \in Seq(Sound) : Become(p)
  <2>1. {"alive", "we_top", "read_copy", "we_check", "sleep_insert", "exit", "enqueue", "scan",
         "switch", "sigchld"} \subseteq Sound
    BY SoundPoints DEF Points
  <2>2. /\ <<>> \in Seq(Sound) /\ <<"alive">> \in Seq(Sound)
        /\ <<"we_top", "read_copy">> \in Seq(Sound) /\ <<"we_check">> \in Seq(Sound)
        /\ <<"we_top">> \in Seq(Sound) /\ <<"sleep_insert">> \in Seq(Sound)
        /\ <<"sigchld">> \in Seq(Sound) /\ Schedule \in Seq(Sound)
    BY <2>1 DEF Schedule
  <2>3. Schedule \o <<"we_top">> \in Seq(Sound) /\ ExitSteps \in Seq(Sound)
    <3> HIDE DEF Schedule
    <3> QED
      BY <2>2, ConcatProperties DEF ExitSteps
  <2> HIDE DEF Become, Schedule, ExitSteps, Sound
  <2>4. CASE Become(<<>>)
    BY <2>2, <2>4
  <2>5. CASE NothingToReap \/ ReadLine \/ WaitSleep \/ Sleep
    BY <2>2, <2>5 DEF NothingToReap, ReadLine, WaitSleep, Sleep
  <2>6. CASE WaitCheck \/ SleepInsert \/ Exit
    BY <2>2, <2>3, <2>6 DEF WaitCheck, SleepInsert, Exit
  <2> QED
    BY <2>4, <2>5, <2>6 DEF Yield, Kill, ForkFails, Register, Reap, WaitAlive, WaitDone, ReadCopy,
       NotifyParent
<1>3. stack'[Idle] \in Seq(IdlePoints) /\ stack' \in [Tasks -> Seq(Sound)]
  BY <1>1, <1>2, IdleStack
<1>4. parent' = parent
  BY DEF Yield, Kill, ForkFails, Register, Reap, NothingToReap, WaitAlive, ReadLine, WaitDone,
     WaitSleep, WaitCheck, ReadCopy, Sleep, SleepInsert, Exit, NotifyParent, life
<1>5. state'[Idle] = state[Idle] /\ pending'[Idle] = pending[Idle]
  <2>1. ASSUME NEW t \in Tasks, t # Idle, NEW sig, Deliver(t, sig)
        PROVE  state'[Idle] = state[Idle] /\ pending'[Idle] = pending[Idle]
    BY <1>1, <2>1 DEF Deliver
  <2>2. CASE Kill
    <3>1. CASE UNCHANGED <<state, pending>>
      BY <3>1
    <3>2. CASE \E t \in listed \cap Targets, sig \in KillSignals : Deliver(t, sig)
      BY <1>1, <2>1, <3>2
    <3> QED
      BY <2>2, <3>1, <3>2 DEF Kill
  <2>3. CASE NotifyParent
    <3>1. CASE UNCHANGED <<state, pending>>
      BY <3>1
    <3>2. CASE parent[cur] \in listed /\ Deliver(parent[cur], SIGCHLD)
      BY <1>1, <2>1, <3>2 DEF IdleInv
    <3> QED
      BY <2>3, <3>1, <3>2 DEF NotifyParent
  <2>4. CASE Reap
    <3>1. PICK c \in Zombies(cur) : state' = [state EXCEPT ![c] = "DEAD"]
      BY <2>4 DEF Reap
    <3>2. c # Idle
      BY DEF Zombies, IdleInv
    <3> QED
      BY <1>1, <2>4, <3>1, <3>2 DEF Reap
  <2>5. CASE WaitSleep \/ SleepInsert \/ Exit
    BY <1>1, <2>5 DEF WaitSleep, SleepInsert, Exit
  <2>6. CASE UNCHANGED <<state, pending>>
    BY <2>6
  <2> QED
    BY <2>2, <2>3, <2>4, <2>5, <2>6 DEF Yield, ForkFails, Register, NothingToReap, WaitAlive,
       ReadLine, WaitDone, WaitCheck, ReadCopy, Sleep
<1> QED
  BY <1>3, <1>4, <1>5 DEF IdleInv

\* fork: the child is a new task, and its parent is not idle.
LEMMA ForkLeavesIdle ==
  ASSUME IInv, MInv, IdleInv, Fork
  PROVE  IdleInv'
<1>1. /\ sp # Idle /\ cur # Idle /\ stack[sp] # <<>> /\ sp \in Tasks /\ Idle \in Tasks
      /\ parent \in [Tasks -> Tasks \cup {NoTask}] /\ state \in [Tasks -> States]
      /\ stack \in [Tasks -> Seq(Sound)]
  BY CallerIsUser, SoundPoints DEF Fork, IInv, TypeOK, IdleInv
<1>2. PICK c \in Tasks :
         /\ state[c] = "NEW" /\ state' = [state EXCEPT ![c] = "RUNNING"]
         /\ parent' = [parent EXCEPT ![c] = cur] /\ pending' = pending
         /\ stack' = [stack EXCEPT ![c] = <<>>, ![sp] = <<"register">> \o Tail(@)]
  BY DEF Fork, ChildStack
<1>3. c # Idle
  BY <1>2 DEF IdleInv
<1>4. <<"register">> \o Tail(stack[sp]) \in Seq(Sound) /\ <<>> \in Seq(Sound)
  <2>1. "register" \in Sound
    BY SoundPoints DEF Points
  <2>2. Tail(stack[sp]) \in Seq(Sound)
    BY <1>1
  <2> QED
    BY <2>1, <2>2
<1>5. stack' \in [Tasks -> Seq(Sound)] /\ stack'[Idle] = stack[Idle]
  <2> DEFINE s == <<"register">> \o Tail(stack[sp])
  <2>1. stack' = [stack EXCEPT ![c] = <<>>, ![sp] = s] \/ c = sp
    BY <1>1, <1>2
  <2>2. c # sp
    BY <1>1, <1>2 DEF IInv, NewIsFresh
  <2>3. s \in Seq(Sound)
    BY <1>4
  <2> HIDE DEF s
  <2> QED
    BY <1>1, <1>3, <1>4, <2>1, <2>2, <2>3
<1>6. state'[Idle] = state[Idle] /\ \A t \in Tasks : parent'[t] # Idle
  BY <1>1, <1>2, <1>3 DEF IdleInv
<1> QED
  BY <1>2, <1>5, <1>6 DEF IdleInv

\* schedule() does not panic while idle is RUNNING: it is queued, or it is the next task.
LEMMA IdleIsFound ==
  ASSUME IInv, MInv, IdleInv, Panic
  PROVE  FALSE
<1>1. /\ sp \in Tasks /\ Idle \in Tasks /\ StatesOK /\ At("scan_idle") /\ ready[Prio[Idle]] = <<>>
  <2>1. Prio[Idle] \in Priorities
    BY SoundPoints DEF Priorities
  <2> QED
    BY <2>1, SoundPoints DEF IInv, TypeOK, MInv, Panic, NonEmpty
<1>2. Leaving /\ ~At(Idle) /\ ~At("switch")
  BY <1>1, PointsApart DEF At, Leaving, Busy
<1>3. Queued(Idle)
  BY <1>1, <1>2 DEF IdleInv, StatesOK, Chosen
<1> QED
  BY <1>1, <1>3 DEF Queued, Waits

\* The steps of schedule() and of the way out of an exception.
LEMMA ExitsLeaveIdle ==
  ASSUME IInv, MInv, IdleInv,
         \/ Enqueue \/ Push \/ PickUser \/ PassUsers \/ PickIdle \/ Store \/ ContextSwitch
         \/ CheckSignals \/ CheckAndSchedule \/ ExceptionReturn
  PROVE  IdleInv'
<1>1. /\ cur \in Tasks /\ sp \in Tasks /\ Idle \in Tasks /\ stack[sp] # <<>>
      /\ state \in [Tasks -> States] /\ pending \in [Tasks -> SUBSET Signals]
      /\ ready \in [Priorities -> Seq(Tasks)]
  BY SoundPoints DEF IInv, TypeOK, At, Enqueue, Push, PickUser, PassUsers, PickIdle, Store,
     ContextSwitch, CheckSignals, CheckAndSchedule, ExceptionReturn
<1>2. <<>> \in Seq(Sound) /\ <<>> \in Seq(IdlePoints)
      /\ \A x \in IdlePoints : <<x>> \in Seq(Sound) /\ <<x>> \in Seq(IdlePoints)
  <2>1. \A x \in IdlePoints : x \in Sound
    BY SoundPoints
  <2> QED
    BY <2>1
<1>3. CASE CheckSignals
  <2>1. At("signals") /\ cur = sp
    BY <1>3, PointsApart DEF CheckSignals, MInv, StacksOK, At
  <2>2. PICK p : Become(p) /\ p \in {<<>>, <<"exit">>}
    BY <1>3 DEF CheckSignals
  <2>3. /\ cur = Idle => Become(<<>>) /\ state' = state /\ pending' = pending
        /\ cur # Idle => state'[Idle] = state[Idle] /\ pending'[Idle] = pending[Idle]
        /\ parent' = parent
    <3>1. cur = Idle => CheckPending(cur) = 0
      BY DEF IdleInv, CheckPending
    <3>2. cur = Idle => Become(<<>>) /\ state' = state /\ pending' = pending
      BY <1>3, <3>1 DEF CheckSignals
    <3>3. \E y, z : \/ state' = state /\ pending' = pending
                    \/ state' = [state EXCEPT ![cur] = y] /\ pending' = [pending EXCEPT ![cur] = z]
      BY <1>3, Zenon DEF CheckSignals
    <3>4. cur # Idle => state'[Idle] = state[Idle] /\ pending'[Idle] = pending[Idle]
      BY <1>1, <3>3
    <3>5. parent' = parent
      BY <1>3 DEF CheckSignals, life
    <3> QED
      BY <3>2, <3>4, <3>5
  <2>4. <<"exit">> \in Seq(Sound)
    <3>1. "exit" \in Sound
      BY SoundPoints DEF Points
    <3> QED
      BY <3>1
  <2>5. stack'[Idle] \in Seq(IdlePoints) /\ stack' \in [Tasks -> Seq(Sound)]
    <3> HIDE DEF Become
    <3>1. CASE sp = Idle
      BY <1>1, <1>2, <2>1, <2>3, <3>1, IdleStack
    <3>2. CASE sp # Idle
      BY <1>1, <1>2, <2>2, <2>4, <3>2, IdleStack
    <3> QED
      BY <3>1, <3>2
  <2> QED
    BY <2>3, <2>5 DEF IdleInv
<1>4. CASE ~CheckSignals
  <2>1. state' = state /\ pending' = pending /\ parent' = parent
    BY <1>4 DEF Enqueue, Push, PickUser, PassUsers, PickIdle, Take, Store, ContextSwitch,
       CheckAndSchedule, ExceptionReturn, life
  <2>2. PICK p \in Seq(Sound) : Become(p) /\ p \in Seq(IdlePoints)
    <3>1. "push" \in IdlePoints /\ "scan_idle" \in IdlePoints /\ Tasks \subseteq IdlePoints
      BY DEF IdlePoints
    <3>2. Schedule \in Seq(Sound) /\ Schedule \in Seq(IdlePoints)
      <4>1. {"enqueue", "scan", "switch"} \subseteq IdlePoints
        BY DEF IdlePoints
      <4>2. {"enqueue", "scan", "switch"} \subseteq Sound
        BY <4>1, SoundPoints
      <4> QED
        BY <4>1, <4>2 DEF Schedule
    <3>3. ASSUME NEW p \in Priorities, ready[p] # <<>>, Take(p)
          PROVE  \E t \in Tasks : Become(<<t>>)
      <4>1. Head(ready[p]) \in Tasks /\ Become(<<Head(ready[p])>>)
        BY <1>1, <3>3 DEF Take
      <4> HIDE DEF Become
      <4> QED
        BY <4>1
    <3> HIDE DEF Become, Sound, IdlePoints, Schedule
    <3>4. CASE PickUser \/ PickIdle
      <4>1. \E t \in Tasks : Become(<<t>>)
        BY <3>3, <3>4 DEF PickUser, PickIdle, UserQueues, NonEmpty
      <4> QED
        BY <1>2, <3>1, <4>1
    <3>5. CASE Enqueue
      BY <1>2, <3>1, <3>5 DEF Enqueue
    <3>6. CASE PassUsers
      BY <1>2, <3>1, <3>6 DEF PassUsers
    <3>7. CASE CheckAndSchedule
      BY <1>2, <3>2, <3>7 DEF CheckAndSchedule
    <3>8. CASE Push \/ Store \/ ContextSwitch \/ ExceptionReturn
      BY <1>2, <3>8 DEF Push, Store, ContextSwitch, ExceptionReturn
    <3> QED
      BY <1>4, <3>4, <3>5, <3>6, <3>7, <3>8
  <2>3. stack'[Idle] \in Seq(IdlePoints) /\ stack' \in [Tasks -> Seq(Sound)]
    BY <1>1, <2>2, IdleStack
  <2> QED
    BY <2>1, <2>3 DEF IdleInv
<1> QED
  BY <1>3, <1>4

\* Interrupts push the same points on every stack, and idle makes no system call.
LEMMA EntriesLeaveIdle ==
  ASSUME IInv, MInv, IdleInv, Interrupt \/ \E op \in Ops : Syscall(op)
  PROVE  IdleInv'
<1>1. /\ sp \in Tasks /\ Idle \in Tasks /\ state \in [Tasks -> States]
      /\ pending \in [Tasks -> SUBSET Signals] /\ stack \in [Tasks -> Seq(Sound)]
      /\ stack[sp] \in Seq(Sound)
  BY SoundPoints DEF IInv, TypeOK, IdleInv
<1>2. ASSUME NEW p \in Seq(Sound), Enter(p), sp = Idle => p \in Seq(IdlePoints)
      PROVE  stack'[Idle] \in Seq(IdlePoints) /\ stack' \in [Tasks -> Seq(Sound)]
  <2>1. p \o stack[sp] \in Seq(Sound)
    BY <1>1
  <2>2. stack' = [stack EXCEPT ![sp] = p \o stack[sp]]
    BY <1>2 DEF Enter
  <2>3. CASE sp = Idle
    <3>1. p \o stack[sp] \in Seq(IdlePoints)
      BY <1>2, <2>3 DEF IdleInv
    <3> QED
      BY <1>1, <2>1, <2>2, <2>3, <3>1
  <2>4. CASE sp # Idle
    BY <1>1, <2>1, <2>2, <2>4 DEF IdleInv
  <2> QED
    BY <2>3, <2>4
<1>3. ASSUME Interrupted
      PROVE  stack'[Idle] \in Seq(IdlePoints) /\ stack' \in [Tasks -> Seq(Sound)]
  <2>1. {"signals", "resched", "ret"} \subseteq IdlePoints
    BY DEF IdlePoints
  <2>2. {"signals", "resched", "ret"} \subseteq Sound
    BY <2>1, SoundPoints
  <2>3. IrqSteps \in Seq(Sound) /\ IrqSteps \in Seq(IdlePoints)
    BY <2>1, <2>2 DEF IrqSteps
  <2> QED
    BY <1>2, <1>3, <2>3 DEF Interrupted
<1>4. ASSUME NEW op \in Ops, Syscall(op) PROVE IdleInv'
  <2>1. cur = sp /\ sp # Idle /\ Enter(<<op, "signals", "ret">>)
    BY <1>4 DEF Syscall, MInv, StacksOK, At
  <2>2. <<op, "signals", "ret">> \in Seq(Sound)
    <3>1. {op, "signals", "ret"} \subseteq Sound
      BY InputAssumption, SoundPoints DEF Points
    <3> QED
      BY <3>1
  <2>3. stack'[Idle] \in Seq(IdlePoints) /\ stack' \in [Tasks -> Seq(Sound)]
    BY <1>2, <2>1, <2>2
  <2> QED
    BY <1>4, <2>3 DEF Syscall, life, IdleInv
<1>5. ASSUME NEW key, KeyInterrupt(key) PROVE IdleInv'
  <2>1. Interrupted /\ state' = state /\ parent' = parent
    BY <1>5 DEF KeyInterrupt, life
  <2>2. pending'[Idle] = pending[Idle]
    BY <1>1, <1>5, SoundPoints DEF KeyInterrupt
  <2> QED
    BY <1>3, <2>1, <2>2 DEF IdleInv
<1>6. ASSUME \/ \E slice_over \in BOOLEAN : TimerInterrupt(slice_over)
             \/ LineInterrupt
      PROVE  IdleInv'
  <2>1. PICK w : Interrupted /\ state' = Awake(w) /\ pending' = pending /\ parent' = parent
    BY <1>6 DEF TimerInterrupt, LineInterrupt, life
  <2>2. state'[Idle] = "RUNNING"
    BY <1>1, <2>1 DEF Awake, IdleInv
  <2> QED
    BY <1>3, <2>1, <2>2 DEF IdleInv
<1> QED
  BY <1>4, <1>5, <1>6 DEF Interrupt

LEMMA IdleInvariance ==
  ASSUME Leaked >= NestLimit, SIGCONT \notin KillSignals, Idle \notin Targets
  PROVE  Spec => []IdleInv
<1>1. ASSUME Init PROVE IdleInv
  <2>1. <<>> \in Seq(Sound) /\ <<>> \in Seq(IdlePoints) /\ Idle \in Tasks
    BY SoundPoints
  <2> QED
    BY <1>1, <2>1, TaskAssumption DEF Init, IdleInv
<1>2. ASSUME IInv, MInv, IdleInv, [Next]_vars PROVE IdleInv'
  <2>1. CASE UNCHANGED vars
    BY <1>2, <2>1 DEF vars, IdleInv
  <2>2. CASE Kernel
    BY <1>2, <2>2, CallsLeaveIdle, ForkLeavesIdle, IdleIsFound, ExitsLeaveIdle DEF Kernel
  <2>3. CASE Interrupt \/ \E op \in Ops : Syscall(op)
    BY <1>2, <2>3, EntriesLeaveIdle
  <2> QED
    BY <1>2, <2>1, <2>2, <2>3 DEF Next
<1> QED
  BY <1>1, <1>2, Invariance, MaskedInvariance, PTL DEF Spec

\* With handlers masked and nobody killing idle, schedule() always finds a task: idle is in the
\* ready queue whenever another task leaves the CPU, so expect() does not panic.
THEOREM ScheduleFindsATask ==
  ASSUME Leaked >= NestLimit, SIGCONT \notin KillSignals, Idle \notin Targets
  PROVE  Spec => []NeverPanics
<1>1. ASSUME IdleInv PROVE NeverPanics
  <2> SUFFICES ASSUME NEW t \in Tasks PROVE Occurrences(stack[t], "panic") = 0
    BY DEF NeverPanics
  <2>1. stack[t] \in Seq(Sound)
    BY <1>1 DEF IdleInv
  <2>2. \A i \in DOMAIN stack[t] : stack[t][i] # "panic"
    BY <2>1, EntryOf DEF Sound
  <2>3. {i \in DOMAIN stack[t] : stack[t][i] = "panic"} = {}
    BY <2>2
  <2> QED
    BY <2>3, FS_EmptySet DEF Occurrences
<1> QED
  BY <1>1, IdleInvariance, PTL
====================================================================================
