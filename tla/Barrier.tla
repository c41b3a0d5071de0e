------------------------------ MODULE Barrier ------------------------------
(****************************************************************************)
(* SMI_Barrier and the support kernel of rank 0, over a sequence of         *)
(* barriers on one port.  Rank 0 locks the barrier, its kernel counts a     *)
(* request of every other rank and then lifts the barrier: for rank 0       *)
(* through a FIFO, for the others with a packet each.  Requests are         *)
(* counted, not told apart.                                                 *)
(*                                                                          *)
(* The kernels of the other ranks never receive anything.  Requests and     *)
(* packets carry the number of their barrier as history.                    *)
(****************************************************************************)
EXTENDS Integers, Sequences

CONSTANTS
    NumRanks,
    NumBarriers,
    WireDepth       \* packets that fit between rank 0 and another

ASSUME BarrierAssumption ==
    /\ NumRanks \in Nat \ {0} /\ NumBarriers \in Nat /\ WireDepth \in Nat \ {0}

Ranks  == 0 .. NumRanks - 1
root   == 0
Others == Ranks \ {root}

VARIABLES
    passed,     \* passed[r]: barriers rank r has passed
    pc,         \* pc[r]: "out", in SMI_Barrier before ("enter") or after
                \* ("wait") it has announced itself
    external, received_request, rcv,    \* the support kernel
    mess,       \* the barrier it is at
    barrier_lock, barrier_lift,
    control,    \* control[r]: requests of rank r
    data        \* data[r]: packets for rank r

kernel == <<external, received_request, rcv, mess>>
vars   == <<passed, pc, kernel, barrier_lock, barrier_lift, control, data>>

num_requests == NumRanks - 1

Init ==
    /\ passed = [r \in Ranks |-> 0]
    /\ pc = [r \in Ranks |-> "out"]
    /\ external = TRUE /\ received_request = 0 /\ rcv = 0 /\ mess = 0
    /\ barrier_lock = <<>> /\ barrier_lift = <<>>
    /\ control = [r \in Others |-> <<>>]
    /\ data = [r \in Others |-> <<>>]

-----------------------------------------------------------------------------
(* The application *)

Call(r) ==
    /\ pc[r] = "out" /\ passed[r] < NumBarriers
    /\ pc' = [pc EXCEPT ![r] = "enter"]
    /\ UNCHANGED <<passed, kernel, barrier_lock, barrier_lift, control, data>>

(* Rank 0 locks the barrier. *)
Lock ==
    /\ pc[root] = "enter" /\ barrier_lock = <<>>
    /\ barrier_lock' = <<passed[root] + 1>>
    /\ pc' = [pc EXCEPT ![root] = "wait"]
    /\ UNCHANGED <<passed, kernel, barrier_lift, control, data>>

(* Another rank announces itself. *)
Announce(r) ==
    /\ r # root /\ pc[r] = "enter" /\ Len(control[r]) < WireDepth
    /\ control' = [control EXCEPT ![r] = Append(@, passed[r] + 1)]
    /\ pc' = [pc EXCEPT ![r] = "wait"]
    /\ UNCHANGED <<passed, kernel, barrier_lock, barrier_lift, data>>

(* SMI_Barrier returns. *)
Pass(r) ==
    /\ pc[r] = "wait"
    /\ IF r = root
       THEN /\ barrier_lift # <<>> /\ barrier_lift' = Tail(barrier_lift)
            /\ UNCHANGED data
       ELSE /\ data[r] # <<>> /\ data' = [data EXCEPT ![r] = Tail(@)]
            /\ UNCHANGED barrier_lift
    /\ passed' = [passed EXCEPT ![r] = @ + 1]
    /\ pc' = [pc EXCEPT ![r] = "out"]
    /\ UNCHANGED <<kernel, barrier_lock, control>>

-----------------------------------------------------------------------------
(* The support kernel of rank 0 *)

(* Mutant: one request too few is collected.                                 *)
RequestsOneShort == num_requests - 1

(* Mutant: rank 0 counts as a requesting rank.                               *)
RequestsOneMore == num_requests + 1

(* The requests of a barrier *)
Requests == num_requests

ReadApplication ==
    /\ external /\ barrier_lock # <<>>
    /\ barrier_lock' = Tail(barrier_lock)
    /\ mess' = Head(barrier_lock)
    /\ received_request' = Requests
    /\ rcv' = 0 /\ external' = FALSE
    /\ UNCHANGED <<passed, pc, barrier_lift, control, data>>

TakeRequest ==
    /\ ~ external /\ received_request # 0
    /\ \E r \in Others :
           control[r] # <<>> /\ control' = [control EXCEPT ![r] = Tail(@)]
    /\ received_request' = received_request - 1
    /\ UNCHANGED <<passed, pc, external, rcv, mess, barrier_lock, barrier_lift,
                   data>>

(* The barrier is lifted, rank by rank. *)
Lift ==
    /\ ~ external /\ received_request = 0
    /\ IF rcv # root
       THEN /\ Len(data[rcv]) < WireDepth
            /\ data' = [data EXCEPT ![rcv] = Append(@, mess)]
            /\ UNCHANGED barrier_lift
       ELSE /\ barrier_lift = <<>> /\ barrier_lift' = <<mess>>
            /\ UNCHANGED data
    /\ rcv' = rcv + 1
    /\ external' = (rcv + 1 = NumRanks)
    /\ UNCHANGED <<passed, pc, received_request, mess, barrier_lock, control>>

-----------------------------------------------------------------------------
Application(r) == Call(r) \/ (r = root /\ Lock) \/ Announce(r) \/ Pass(r)

Support == ReadApplication \/ TakeRequest \/ Lift

Next == (\E r \in Ranks : Application(r)) \/ Support

(* Programs and kernel run on their own whenever no FIFO blocks them. *)
Spec ==
    /\ Init /\ [][Next]_vars
    /\ WF_vars(Support) /\ \A r \in Ranks : WF_vars(Application(r))

-----------------------------------------------------------------------------
(* Properties *)

(* Types of the programs, the kernel and the FIFOs. *)
TypeOK ==
    /\ passed \in [Ranks -> 0 .. NumBarriers]
    /\ pc \in [Ranks -> {"out", "enter", "wait"}]
    /\ external \in BOOLEAN /\ received_request \in 0 .. num_requests
    /\ rcv \in 0 .. NumRanks /\ mess \in 0 .. NumBarriers
    /\ barrier_lock \in Seq(1 .. NumBarriers)
    /\ barrier_lift \in Seq(1 .. NumBarriers)
    /\ control \in [Others -> Seq(1 .. NumBarriers)]
    /\ data \in [Others -> Seq(1 .. NumBarriers)]

(* Rank r has arrived at barrier n, or is past it. *)
Arrived(r, n) == passed[r] >= n \/ (passed[r] = n - 1 /\ pc[r] # "out")

(* No rank passes a barrier before all ranks are there. *)
BarrierHolds == \A r, q \in Ranks : Arrived(q, passed[r])

(* Requests are not told apart, but only those of the present barrier are    *)
(* ever counted: a fast rank's next request stays behind.                    *)
RequestsOfThisBarrier ==
    (~ external /\ received_request > 0) =>
        \A r \in Others : control[r] # <<>> => Head(control[r]) = mess

(* A barrier is lifted only for ranks that wait at it, once for each.        *)
LiftedForWaiting ==
    /\ \A r \in Others : data[r] # <<>> =>
           pc[r] = "wait" /\ data[r] = <<passed[r] + 1>>
    /\ barrier_lift # <<>> =>
           pc[root] = "wait" /\ barrier_lift = <<passed[root] + 1>>

BarrierCalls(k, r)    == 1
BarrierNeeds(k, r, i) == {<<q, 1>> : q \in Ranks}

place == [r \in Ranks |->
    [coll |-> passed[r] + 1,
     entered |-> IF pc[r] = "out" THEN 0 ELSE 1, returned |-> 0]]

Abstract == INSTANCE Collective WITH
    NumCollectives <- NumBarriers, Calls <- BarrierCalls, Needs <- BarrierNeeds

(* Barriers are collectives in which every call needs all others, and every  *)
(* call returns.                                                             *)
ImplementsCollective == Abstract!Spec
=============================================================================
