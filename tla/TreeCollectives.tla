--------------------------- MODULE TreeCollectives ---------------------------
(****************************************************************************)
(* A program of tree collectives: every rank executes the same treecasts    *)
(* and treereduces in the same order, each kind on a port of its own.       *)
(****************************************************************************)
EXTENDS Wires

CONSTANTS
    Program,            \* the collectives: sequence of [kind, root, count]
    ElementsPerPacket,
    credits_flow_control

Kinds == {"treecast", "treereduce"}

ASSUME TreeProgramAssumption ==
    /\ Program \in Seq([kind : Kinds, root : Ranks, count : Nat \ {0}])
    /\ ElementsPerPacket \in Nat \ {0} /\ credits_flow_control \in Nat \ {0}

(* Roots and counts of the collectives of one kind *)
Of(kind)      == SelectSeq(Program, LAMBDA collective : collective.kind = kind)
RootsOf(seq)  == [k \in 1 .. Len(seq) |-> seq[k].root]
CountsOf(seq) == [k \in 1 .. Len(seq) |-> seq[k].count]

CastRoots    == RootsOf(Of("treecast"))
CastCounts   == CountsOf(Of("treecast"))
ReduceRoots  == RootsOf(Of("treereduce"))
ReduceCounts == CountsOf(Of("treereduce"))

VARIABLES
    cchan, csupport, treecast_send, treecast_data, treecast_recv, cdata, ccontrol,
    rchan, rsupport, treereduce_init, treereduce_send, treereduce_recv, rdata, rcontrol

cvars == <<cchan, csupport, treecast_send, treecast_data, treecast_recv, cdata, ccontrol>>
rvars == <<rchan, rsupport, treereduce_init, treereduce_send, treereduce_recv, rdata, rcontrol>>
vars  == <<cvars, rvars>>

Cast == INSTANCE Treecast WITH Roots <- CastRoots, Counts <- CastCounts,
    chan <- cchan, support <- csupport, data <- cdata, control <- ccontrol
Red == INSTANCE Treereduce WITH Roots <- ReduceRoots, Counts <- ReduceCounts,
    chan <- rchan, support <- rsupport, data <- rdata, control <- rcontrol

Init == Cast!Init /\ Red!Init

(* The collective of its program that rank r is in *)
Step(r) == cchan[r].coll + rchan[r].coll - 1

Executes(r, kind) == Step(r) <= Len(Program) /\ Program[Step(r)].kind = kind

Application(r) ==
    \/ Executes(r, "treecast")   /\ Cast!Application(r) /\ UNCHANGED rvars
    \/ Executes(r, "treereduce") /\ Red!Application(r)  /\ UNCHANGED cvars

Kernels(r) ==
    \/ Cast!Support(r) /\ UNCHANGED rvars
    \/ Red!Support(r)  /\ UNCHANGED cvars

Next == \E r \in Ranks : Application(r) \/ Kernels(r)

(* Programs and kernels run on their own whenever no FIFO blocks them, and   *)
(* have finitely much to do. *)
Spec == Init /\ [][Next]_vars /\ WF_vars(Next)

-----------------------------------------------------------------------------
(* Properties *)

(* Parent and child of a tree talk about the same collective: whatever is    *)
(* under way in a treecast is between the two, for the treecast both kernels *)
(* are at, although the tree changes with the root.                          *)
ParentsAndChildrenMeet == Cast!FromParent /\ Cast!ReadyOfChildren

(* What a call returns with is what it asks for: the next element of the     *)
(* treecast, or the sum of everybody's elements.                             *)
ResultRight == Cast!NextElementRight /\ Red!ResultRight

(* A kernel adds up the contributions to one element in one buffer, which    *)
(* its counters name anew for every treereduce.                              *)
OneBufferPerElement == Red!OneBufferPerElement

(* Every rank comes to the end of its program. *)
Completes == <>(\A r \in Ranks : Step(r) > Len(Program))
=============================================================================
