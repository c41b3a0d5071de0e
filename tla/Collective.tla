----------------------------- MODULE Collective -----------------------------
(****************************************************************************)
(* What a sequence of collectives on one port promises to the programs.     *)
(* Every rank calls collective after collective, element by element; a call *)
(* returns when the ranks whose data or readiness it needs have come far    *)
(* enough, and then it does return.                                         *)
(*                                                                          *)
(* Each kind of collective has its own Needs: a broadcast needs the root's  *)
(* call for the same element, a barrier the calls of all ranks.             *)
(****************************************************************************)
EXTENDS Integers

CONSTANTS
    NumRanks,
    NumCollectives,
    Calls(_, _),    \* Calls(k, r): calls of rank r in collective k
    Needs(_, _, _)  \* Needs(k, r, i): pairs <<rank, call>> that call i awaits

Ranks == 0 .. NumRanks - 1

VARIABLE place  \* place[r]: collective, calls entered and calls returned

Init == place = [r \in Ranks |-> [coll |-> 1, entered |-> 0, returned |-> 0]]

(* Rank r has made its call i of collective k. *)
Reached(r, k, i) ==
    \/ place[r].coll > k
    \/ place[r].coll = k /\ place[r].entered >= i

Enter(r) ==
    /\ place[r].coll <= NumCollectives
    /\ place[r].entered = place[r].returned
    /\ place' = [place EXCEPT ![r].entered = @ + 1]

Return(r) ==
    LET p == place[r]
    IN  /\ p.returned < p.entered
        /\ \A need \in Needs(p.coll, r, p.entered) :
               Reached(need[1], p.coll, need[2])
        /\ place' = [place EXCEPT ![r] =
               IF p.entered = Calls(p.coll, r)
               THEN [coll |-> p.coll + 1, entered |-> 0, returned |-> 0]
               ELSE [p EXCEPT !.returned = p.entered]]

Next == \E r \in Ranks : Enter(r) \/ Return(r)

(* No call returns early, *)
Safety == Init /\ [][Next]_place

(* and programs go on calling, and calls return. *)
Spec == Safety /\ \A r \in Ranks : WF_place(Enter(r) \/ Return(r))
=============================================================================
