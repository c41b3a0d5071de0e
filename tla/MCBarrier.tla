----------------------------- MODULE MCBarrier ------------------------------
(* Barrier has only numbers as parameters; its configuration gives them. *)
EXTENDS Barrier
=============================================================================
