-------------------------------- MODULE Tree --------------------------------
(****************************************************************************)
(* The binary tree of the tree collectives, as every rank computes its own  *)
(* place in it when it opens a channel: a standard tree in which rank 0 and *)
(* the root have changed places.  treecast.cl and treereduce.cl hold the    *)
(* same computation.                                                        *)
(*                                                                          *)
(* A contribution of rank `at' climbs the tree from parent to parent.       *)
(****************************************************************************)
EXTENDS SmiHeader

CONSTANT MAX_RANKS      \* max_ranks of the program

ASSUME RanksAssumption == MAX_RANKS \in 1 .. 127

VARIABLES
    num_rank,   \* size of the communicator
    root_rank,
    at          \* the rank the contribution has reached

vars == <<num_rank, root_rank, at>>

Ranks == 0 .. num_rank - 1

-----------------------------------------------------------------------------
(* Mutant: rank 0 computes its parent as the others do.                      *)
MyParentZeroPlain(my_rank) ==
    LET parent == (my_rank + 1) \div 2 - 1
    IN  CASE my_rank = root_rank -> -1
          [] my_rank # root_rank /\ parent = 0 -> root_rank
          [] my_rank # root_rank /\ parent = root_rank -> 0
          [] OTHER -> parent

(* Mutant: the ranks below the top place go to rank 0.                       *)
MyParentStillZero(my_rank) ==
    LET up(r)  == (r + 1) \div 2 - 1
        parent == IF my_rank = 0 THEN up(root_rank) ELSE up(my_rank)
    IN  CASE my_rank = root_rank -> -1
          [] my_rank \notin {0, root_rank} /\ parent = root_rank -> 0
          [] OTHER -> parent

(* Mutant: the ranks below rank 0 go to the root, whose place it took.       *)
MyParentStillRoot(my_rank) ==
    LET up(r)  == (r + 1) \div 2 - 1
        parent == IF my_rank = 0 THEN up(root_rank) ELSE up(my_rank)
    IN  CASE my_rank = root_rank -> -1
          [] my_rank # root_rank /\ parent = 0 -> root_rank
          [] OTHER -> parent

(* my_parent; -1 at the root *)
MyParent(my_rank) ==
    LET up(r)  == (r + 1) \div 2 - 1
        parent == IF my_rank = 0 THEN up(root_rank) ELSE up(my_rank)
    IN  CASE my_rank = root_rank -> -1
          [] my_rank # root_rank /\ parent = 0 -> root_rank
          [] my_rank \notin {0, root_rank} /\ parent = root_rank -> 0
          [] OTHER -> parent

(* Mutant: a child is out of bounds one rank late.                           *)
BoundedLate(child) == IF ToChar(child) > num_rank THEN -1 ELSE ToChar(child)

(* "remove child if out of bounds"; the child is a char before the test *)
Bounded(child) == IF ToChar(child) >= num_rank THEN -1 ELSE ToChar(child)

(* child_one and child_two, for which = 1 and 2; -1 without a child *)
Child(which, my_rank) ==
    LET below(r) == Bounded(2 * r + which)
    IN  CASE my_rank = root_rank ->
               IF root_rank = which THEN 0 ELSE Bounded(which)
          [] my_rank # root_rank /\ my_rank = 0 -> below(root_rank)
          [] OTHER -> IF below(my_rank) = root_rank THEN 0 ELSE below(my_rank)

-----------------------------------------------------------------------------
Init ==
    /\ num_rank \in 1 .. MAX_RANKS
    /\ root_rank \in Ranks
    /\ at \in Ranks

(* A rank passes the contribution on to its parent. *)
Climb ==
    /\ at # root_rank
    /\ at' = MyParent(at)
    /\ UNCHANGED <<num_rank, root_rank>>

Next == Climb

Spec == Init /\ [][Next]_vars

-----------------------------------------------------------------------------
(* Properties *)

(* The ranks of the program, a root and a rank among them. *)
TypeOK ==
    /\ num_rank \in 1 .. MAX_RANKS
    /\ root_rank \in Ranks
    /\ at \in Ranks

(* Children out of bounds are removed, and no child is named twice: a rank   *)
(* waits for one message from each child, so it must have them.              *)
ChildrenInRange ==
    /\ \A which \in {1, 2} : Child(which, at) \in Ranks \cup {-1}
    /\ Child(1, at) = Child(2, at) => Child(1, at) = -1

(* Both sides of every edge agree.  Parent and child compute it on their own *)
(* FPGA; a rank whose parent does not know it, or the reverse, waits for     *)
(* ever.                                                                     *)
ParentAndChildAgree ==
    \A r \in Ranks :
        MyParent(r) = at <=> \E which \in {1, 2} : Child(which, at) = r

(* The place of a rank in the standard tree. *)
Place(r) == CASE r = root_rank -> 0
              [] r # root_rank /\ r = 0 -> root_rank
              [] OTHER -> r

(* Every hop at least halves the place: no cycle, and a contribution is at   *)
(* the root after a logarithmic number of hops.                              *)
HopsHalve == [][2 * (Place(at') + 1) <= Place(at) + 1]_vars
=============================================================================
