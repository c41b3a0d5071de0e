--------------------------- MODULE MCPointToPoint ---------------------------
(* Small instances of PointToPoint for TLC. *)
EXTENDS PointToPointInv

Always == {TRUE}
Never  == {FALSE}
Both   == BOOLEAN

(* Around the packet, the quantum (3) and the buffer (24) of three-element  *)
(* packets.                                                                  *)
DoubleSizes == {1, 3, 4, 24, 25, 50}
FlushSizes  == {3, 17}
CharSizes   == {40}
=============================================================================
