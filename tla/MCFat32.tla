---- MODULE MCFat32 ----
(* One descriptor, two names, five clusters of two units. *)
EXTENDS Fat32
====
