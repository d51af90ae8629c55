---- MODULE MCVmap ----
(* Two tasks in a range of four pages with three frames behind it. *)
EXTENDS Vmap, TLC
Symmetric == Permutations(Tasks)
====
