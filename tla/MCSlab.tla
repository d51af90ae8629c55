---- MODULE MCSlab ----
(* Pages of two cells, a cache of half-page objects and one of two-page objects. *)
EXTENDS Slab
MCSizes == <<1, 3>>
\* What follows a match of a stale entry is memory corruption.
NotConfused == ~confused
Symmetric == Permutations(Tasks)
====
