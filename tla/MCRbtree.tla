---- MODULE MCRbtree ----
(* Trees of up to N nodes, in every order of insertion and deletion. *)
EXTENDS Rbtree
====
