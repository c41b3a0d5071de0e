---------------------------- MODULE MCTreereduce ----------------------------
(* A small instance of Treereduce for TLC. *)
EXTENDS Treereduce

(* The root changes, and with it the tree: a rank gets a child it did not    *)
(* have before. *)
TwoRoots == <<0, 3>>
OneThenTwo == <<1, 2>>
=============================================================================
