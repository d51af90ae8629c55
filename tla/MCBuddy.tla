------------------------------- MODULE MCBuddy -------------------------------
(* The buddy allocator on a few page frames.                                *)
EXTENDS Buddy

MCBlockPages == [o \in 0..MaxOrder |-> 2^o]
=============================================================================
