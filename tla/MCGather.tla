----------------------------- MODULE MCGather ------------------------------
(* A small instance of Gather for TLC. *)
EXTENDS Gather

(* The root of the second gather comes before that of the first, so it asks  *)
(* rank 1 while that still holds its packet for the first.                   *)
OtherRoot   == <<2, 0>>
OneEach     == <<1, 1>>
=============================================================================
