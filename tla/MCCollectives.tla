--------------------------- MODULE MCCollectives ---------------------------
(* A small program for TLC. *)
EXTENDS Collectives

C(kind, root, count) == [kind |-> kind, root |-> root, count |-> count]

(* Roots that stay and roots that change; packets that are full and packets *)
(* that are not.                                                             *)
Rounds == <<
    C("gather", 1, 1), C("gather", 1, 3), C("reduce", 0, 3),  C("reduce", 2, 1),
    C("bcast", 2, 4),  C("bcast", 0, 1),  C("scatter", 0, 3), C("scatter", 1, 1)>>
=============================================================================
