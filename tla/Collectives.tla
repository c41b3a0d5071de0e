---------------------------- MODULE Collectives ----------------------------
(****************************************************************************)
(* A program of collectives: every rank executes the same broadcasts,       *)
(* scatters, gathers and reduces in the same order, each kind on a port of  *)
(* its own.  A rank goes on to the next collective when its calls for the   *)
(* last one have returned, while the support kernels, which run beside the  *)
(* program, may still be busy with it, and other ranks with earlier ones.   *)
(****************************************************************************)
EXTENDS Wires, FiniteSets

CONSTANTS
    Program,            \* the collectives: sequence of [kind, root, count]
    ElementsPerPacket,
    credits_flow_control,
    READS_LIMIT

Kinds == {"bcast", "scatter", "gather", "reduce"}

ASSUME ProgramAssumption ==
    /\ Program \in Seq([kind : Kinds, root : Ranks, count : Nat \ {0}])
    /\ ElementsPerPacket \in Nat \ {0}
    /\ credits_flow_control \in Nat \ {0} /\ READS_LIMIT \in Nat \ {0}

(* Roots and counts of the collectives of one kind *)
Of(kind) ==
    LET chosen[n \in 0 .. Len(Program)] ==
            IF n = 0 THEN <<>>
            ELSE IF Program[n].kind = kind THEN Append(chosen[n - 1], Program[n])
            ELSE chosen[n - 1]
    IN  chosen[Len(Program)]

RootsOf(seq)  == [k \in 1 .. Len(seq) |-> seq[k].root]
CountsOf(seq) == [k \in 1 .. Len(seq) |-> seq[k].count]

BcastRoots    == RootsOf(Of("bcast"))
BcastCounts   == CountsOf(Of("bcast"))
ScatterRoots  == RootsOf(Of("scatter"))
ScatterCounts == CountsOf(Of("scatter"))
GatherRoots   == RootsOf(Of("gather"))
GatherCounts  == CountsOf(Of("gather"))
ReduceRoots   == RootsOf(Of("reduce"))
ReduceCounts  == CountsOf(Of("reduce"))

VARIABLES
    bchan, bsupport, broadcast, bdata, bcontrol,
    schan, ssupport, scatter, sdata, scontrol,
    gchan, gsupport, gather, gdata, gcontrol,
    rchan, rsupport, reduce_send, reduce_recv, rdata, rcontrol

bvars == <<bchan, bsupport, broadcast, bdata, bcontrol>>
svars == <<schan, ssupport, scatter, sdata, scontrol>>
gvars == <<gchan, gsupport, gather, gdata, gcontrol>>
rvars == <<rchan, rsupport, reduce_send, reduce_recv, rdata, rcontrol>>
vars  == <<bvars, svars, gvars, rvars>>

B == INSTANCE Bcast WITH Roots <- BcastRoots, Counts <- BcastCounts,
    chan <- bchan, support <- bsupport, data <- bdata, control <- bcontrol
S == INSTANCE Scatter WITH Roots <- ScatterRoots, Counts <- ScatterCounts,
    chan <- schan, support <- ssupport, data <- sdata, control <- scontrol
G == INSTANCE Gather WITH Roots <- GatherRoots, SendCounts <- GatherCounts,
    RecvCounts <- GatherCounts,
    chan <- gchan, support <- gsupport, data <- gdata, control <- gcontrol
R == INSTANCE Reduce WITH Roots <- ReduceRoots, Counts <- ReduceCounts,
    chan <- rchan, support <- rsupport, data <- rdata, control <- rcontrol

Init == B!Init /\ S!Init /\ G!Init /\ R!Init

(* The collective of its program that rank r is in *)
Step(r) == bchan[r].coll + schan[r].coll + gchan[r].coll + rchan[r].coll - 3

Executes(r, kind) == Step(r) <= Len(Program) /\ Program[Step(r)].kind = kind

Application(r) ==
    \/ Executes(r, "bcast")   /\ B!Application(r) /\ UNCHANGED <<svars, gvars, rvars>>
    \/ Executes(r, "scatter") /\ S!Application(r) /\ UNCHANGED <<bvars, gvars, rvars>>
    \/ Executes(r, "gather")  /\ G!Application(r) /\ UNCHANGED <<bvars, svars, rvars>>
    \/ Executes(r, "reduce")  /\ R!Application(r) /\ UNCHANGED <<bvars, svars, gvars>>

Kernels(r) ==
    \/ B!Support(r) /\ UNCHANGED <<svars, gvars, rvars>>
    \/ S!Support(r) /\ UNCHANGED <<bvars, gvars, rvars>>
    \/ G!Support(r) /\ UNCHANGED <<bvars, svars, rvars>>
    \/ R!Support(r) /\ UNCHANGED <<bvars, svars, gvars>>

Next == \E r \in Ranks : Application(r) \/ Kernels(r)

(* Programs and kernels run on their own whenever no FIFO blocks them.  All  *)
(* of them have finitely much to do for a program, so that it is enough that *)
(* one of them moves while any can.                                          *)
Spec == Init /\ [][Next]_vars /\ WF_vars(Next)

-----------------------------------------------------------------------------
(* Properties *)

(* Types of the four collectives. *)
TypeOK == B!TypeOK /\ S!TypeOK /\ G!TypeOK /\ R!TypeOK

(* Subsequent collectives on a port do not mix, whoever their roots are:     *)
(* every packet on its way to a rank belongs to the collective, and at the   *)
(* root of a gather to the contributor, this rank is at.                     *)
NoIntermixing == B!NoIntermixing /\ S!NoIntermixing /\ G!OneContributor

(* The kernels count requests and credits without looking whom they are      *)
(* from; each is still used for the collective it was meant for.             *)
RequestsInTheirCollective ==
    B!RequestsInTheirBroadcast /\ S!RequestsInTheirScatter /\ G!WaitsForItsRoot

(* What a call reads next is the element it asks for. *)
NextElementRight == B!NextElementRight /\ S!NextElementRight /\ G!NextElementRight

(* No contributor is ahead of the sums of the root, so that every sum is of  *)
(* one element, with one contribution of each rank, when the root gets it.   *)
SumsRight == R!OneElementPerSum /\ R!ResultRight

(* The collectives leave no packet behind. *)
NothingLeft == B!NothingLeft /\ S!NothingLeft /\ G!NothingLeft /\ R!NothingLeft

(* What a call needs, by the kind of the collective *)
CallsOf(step, r) ==
    LET c == Program[step]
    IN  CASE c.kind = "scatter" /\ r = c.root -> NumRanks * c.count
          [] c.kind = "gather"  /\ r = c.root -> NumRanks * c.count
          [] OTHER -> c.count

Ordinal ==          \* the collective is the n-th of its kind
    [step \in 1 .. Len(Program) |->
        Cardinality({e \in 1 .. step : Program[e].kind = Program[step].kind})]

ProgramNeeds(step, r, i) ==
    LET k == Ordinal[step]
    IN  CASE Program[step].kind = "bcast"   -> B!BcastNeeds(k, r, i)
          [] Program[step].kind = "scatter" -> S!ScatterNeeds(k, r, i)
          [] Program[step].kind = "gather"  -> G!GatherNeeds(k, r, i)
          [] Program[step].kind = "reduce"  -> R!ReduceNeeds(k, r, i)

(* Where the program of every rank is *)
place == [r \in Ranks |->
    LET step == Step(r)
        kind == IF step > Len(Program) THEN "none" ELSE Program[step].kind
        chan == CASE kind = "bcast"   -> bchan[r]
                  [] kind = "scatter" -> schan[r]
                  [] kind = "gather"  -> gchan[r]
                  [] kind = "reduce"  -> rchan[r]
                  [] OTHER -> [entered |-> 0, returned |-> 0]
    IN  [coll |-> step, entered |-> chan.entered, returned |-> chan.returned]]

Abstract == INSTANCE Collective WITH
    NumCollectives <- Len(Program), Calls <- CallsOf, Needs <- ProgramNeeds

(* A program of collectives of any kind does what collectives do: a call     *)
(* returns only when the ranks it needs have come far enough, whatever       *)
(* credits, requests and packets its return really hangs on.                 *)
ReturnsWithNeeds ==
    Abstract!Init /\ [][place' # place => Abstract!Next]_vars

(* Every rank comes to the end of its program: no call waits for ever,       *)
(* though programs, support kernels and FIFOs of depth one block each other. *)
Completes == <>(\A r \in Ranks : Step(r) > Len(Program))
=============================================================================
