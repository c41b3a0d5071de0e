------------------------- MODULE MCTreeCollectives -------------------------
(* A small program for TLC.  In both kinds the root changes, and with it    *)
(* the tree: in the second treereduce ranks 0 and 1 have other children     *)
(* than in the first, and may hear of them early.  The first treereduce has *)
(* more elements than there are buffers and leaves the ring in the middle.  *)
(* The last treecast ends with a packet that is not full.                   *)
EXTENDS TreeCollectives

C(kind, root, count) == [kind |-> kind, root |-> root, count |-> count]

Rounds == <<
    C("treereduce", 1, 3), C("treereduce", 0, 1),
    C("treecast", 0, 1), C("treecast", 3, 3)>>
=============================================================================
