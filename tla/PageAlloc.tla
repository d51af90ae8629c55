------------------------------ MODULE PageAlloc ------------------------------
(***************************************************************************)
(* What a physical page allocator promises its callers: a block handed out *)
(* lies in the managed frames and shares none of them with a block still   *)
(* in somebody's hands, and a block is taken back only from its holder.    *)
(* Which block is handed out, and when a request is refused, is left open. *)
(***************************************************************************)
EXTENDS Integers

CONSTANTS
  Frames,      \* the frames that may be handed out
  Sizes,       \* the orders of a request
  Extent(_,_)  \* Extent(p, o): the frames of the block of order o at p

VARIABLE owned \* the blocks <<p, o>> that are handed out

Init == owned = {}

Alloc == \E p \in Frames, o \in Sizes :
           /\ Extent(p, o) \subseteq Frames
           /\ \A b \in owned : Extent(p, o) \cap Extent(b[1], b[2]) = {}
           /\ owned' = owned \cup {<<p, o>>}

Free == \E b \in owned : owned' = owned \ {b}

\* Every step hands out a new block or takes one back.
Next == owned' # owned /\ (Alloc \/ Free)

Spec == Init /\ [][Next]_owned
=============================================================================
