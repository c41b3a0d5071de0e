---------------------------- MODULE BarrierProofs ----------------------------
(****************************************************************************)
(* Proofs about Barrier, for every number of ranks and barriers: no rank    *)
(* passes a barrier before all are there, although the kernel of rank 0     *)
(* counts requests without looking whom they are from.                      *)
(*                                                                          *)
(* The invariant follows a barrier through its phases.  While the kernel    *)
(* counts, received_request is the number of ranks it has not counted;      *)
(* while it lifts, the ranks below rcv have been lifted.                    *)
(****************************************************************************)
EXTENDS Barrier, TLAPS, FiniteSetTheorems

(* Rank r has passed barrier m and may have announced itself at the next. *)
Fresh(r, m) ==
    /\ passed[r] = m /\ data[r] = <<>>
    /\ pc[r] = "wait" => control[r] = <<m + 1>>
    /\ pc[r] # "wait" => control[r] = <<>>

(* It waits at the barrier after m, and the kernel has counted it. *)
Counted(r, m) ==
    passed[r] = m /\ data[r] = <<>> /\ control[r] = <<>> /\ pc[r] = "wait"

(* The barrier after m has been lifted for it. *)
Released(r, m) ==
    passed[r] = m /\ data[r] = <<m + 1>> /\ control[r] = <<>> /\ pc[r] = "wait"

Counting  == ~ external /\ rcv = 0
Lifting   == ~ external /\ rcv # 0
Uncounted == {r \in Others : ~ Counted(r, mess - 1)}

KernelInv ==
    /\ Counting => received_request = Cardinality(Uncounted)
    /\ ~ Counting => received_request = 0
    /\ Lifting => rcv \in 1 .. NumRanks - 1

(* Where a rank can be, in each phase of the kernel. *)
RankInv(r) ==
    /\ Counting => \/ Fresh(r, mess - 1) \/ Counted(r, mess - 1)
                   \/ Released(r, mess - 2)
    /\ (Lifting /\ rcv <= r) => Counted(r, mess - 1)
    /\ (external \/ (Lifting /\ r < rcv)) =>
           Released(r, mess - 1) \/ Fresh(r, mess)

(* Rank 0 has locked the barrier; it is being counted; it has been lifted    *)
(* for rank 0; rank 0 is past it.                                            *)
Locked == /\ pc[root] = "wait" /\ ~ Counting /\ passed[root] = mess
          /\ barrier_lock = <<mess + 1>> /\ barrier_lift = <<>>
Waited == /\ pc[root] = "wait" /\ Counting /\ passed[root] = mess - 1
          /\ barrier_lock = <<>> /\ barrier_lift = <<>>
Lifted == /\ pc[root] = "wait" /\ ~ Counting /\ passed[root] = mess - 1
          /\ barrier_lock = <<>> /\ barrier_lift = <<mess>>
Away   == /\ pc[root] # "wait" /\ ~ Counting /\ passed[root] = mess
          /\ barrier_lock = <<>> /\ barrier_lift = <<>>

RootInv == Locked \/ Waited \/ Lifted \/ Away

(* A rank in the barrier has not passed the last one. *)
CallInv == \A r \in Ranks : pc[r] # "out" => passed[r] < NumBarriers

Inv ==
    TypeOK /\ CallInv /\ KernelInv /\ RootInv /\ \A r \in Others : RankInv(r)

-----------------------------------------------------------------------------
LEMMA Numbers ==
    /\ NumRanks \in Nat /\ NumRanks >= 1 /\ NumBarriers \in Nat
    /\ \A r : r \in Ranks <=> r \in Int /\ 0 <= r /\ r < NumRanks
    /\ \A r : r \in Others <=> r \in Int /\ 1 <= r /\ r < NumRanks
    /\ \A r \in Others : r \in Ranks /\ r # root
    /\ \A r \in Ranks : r # root => r \in Others
    /\ root = 0 /\ root \in Ranks
BY BarrierAssumption DEF Ranks, Others, root

LEMMA OthersFinite == IsFiniteSet(Others) /\ Cardinality(Others) = num_requests
<1>1. Others = 1 .. NumRanks - 1
  BY BarrierAssumption DEF Others, Ranks, root
<1>2. 1 \in Int /\ NumRanks - 1 \in Int
  BY Numbers
<1> QED  BY <1>1, <1>2, Numbers, FS_Interval DEF num_requests

LEMMA UncountedFinite ==
    /\ IsFiniteSet(Uncounted) /\ Cardinality(Uncounted) \in Nat
    /\ Cardinality(Uncounted) = 0 <=> Uncounted = {}
<1>1. Uncounted \subseteq Others
  BY DEF Uncounted
<1>2. IsFiniteSet(Uncounted)
  BY <1>1, OthersFinite, FS_Subset
<1> QED  BY <1>2, FS_CardinalityType, FS_EmptySet

(* The fields of the state that the invariant reads at one rank. *)
LEMMA Types ==
    ASSUME TypeOK, NEW r \in Ranks
    PROVE  /\ passed[r] \in 0 .. NumBarriers /\ passed[r] \in Int
           /\ pc[r] \in {"out", "enter", "wait"}
           /\ r \in Others => /\ control[r] \in Seq(1 .. NumBarriers)
                              /\ data[r] \in Seq(1 .. NumBarriers)
BY DEF TypeOK

LEMMA KernelTypes ==
    ASSUME TypeOK
    PROVE  /\ rcv \in Int /\ mess \in Int /\ mess \in 0 .. NumBarriers
           /\ received_request \in Int
           /\ barrier_lock \in Seq(1 .. NumBarriers)
           /\ barrier_lift \in Seq(1 .. NumBarriers)
<1>1. rcv \in 0 .. NumRanks /\ received_request \in 0 .. num_requests
  BY DEF TypeOK
<1> QED  BY <1>1, Numbers DEF TypeOK, num_requests

-----------------------------------------------------------------------------
(* What the invariant says of a rank stays true while the rank and the      *)
(* kernel stay where they are.                                              *)
LEMMA RankStays ==
    ASSUME NEW q \in Others, RankInv(q), UNCHANGED <<external, rcv, mess>>,
           passed'[q] = passed[q], pc'[q] = pc[q],
           control'[q] = control[q], data'[q] = data[q]
    PROVE  RankInv(q)' /\ (Counted(q, mess - 1)' <=> Counted(q, mess - 1))
<1>1. Counting' = Counting /\ Lifting' = Lifting
  BY DEF Counting, Lifting
<1>2. \A m : /\ Fresh(q, m)' <=> Fresh(q, m)
             /\ Counted(q, m)' <=> Counted(q, m)
             /\ Released(q, m)' <=> Released(q, m)
  BY DEF Fresh, Counted, Released
<1> QED  BY <1>1, <1>2 DEF RankInv

(* So do the counters, while no rank is counted. *)
LEMMA KernelStays ==
    ASSUME KernelInv, UNCHANGED <<external, rcv, received_request>>,
           \A q \in Others : Counted(q, mess - 1)' <=> Counted(q, mess - 1)
    PROVE  KernelInv'
<1>1. Counting' = Counting /\ Lifting' = Lifting
  BY DEF Counting, Lifting
<1>2. Uncounted' = Uncounted
  BY DEF Uncounted
<1> QED  BY <1>1, <1>2 DEF KernelInv

LEMMA InitInv == Init => Inv
<1> SUFFICES ASSUME Init PROVE Inv
  OBVIOUS
<1>1. TypeOK
  BY Numbers DEF Init, TypeOK, num_requests
<1>2. CallInv
  BY DEF Init, CallInv
<1>3. ~ Counting /\ ~ Lifting
  BY DEF Init, Counting, Lifting
<1>4. KernelInv
  BY <1>3 DEF Init, KernelInv
<1>5. RootInv
  BY <1>3, Numbers DEF Init, RootInv, Away
<1>6. ASSUME NEW r \in Others PROVE RankInv(r)
  <2>1. Fresh(r, mess)
    BY <1>6, Numbers DEF Init, Fresh
  <2> QED  BY <1>3, <2>1 DEF RankInv
<1> QED  BY <1>1, <1>2, <1>4, <1>5, <1>6 DEF Inv

-----------------------------------------------------------------------------
(* The steps of the programs *)

LEMMA CallStep == ASSUME Inv, NEW r \in Ranks, Call(r) PROVE Inv'
<1>0. TypeOK /\ CallInv /\ KernelInv /\ RootInv
  BY DEF Inv
<1>1. /\ pc[r] = "out" /\ passed[r] < NumBarriers
      /\ pc' = [pc EXCEPT ![r] = "enter"]
      /\ UNCHANGED <<passed, control, data, barrier_lock, barrier_lift>>
      /\ UNCHANGED <<external, received_request, rcv, mess>>
  BY DEF Call, kernel
<1>2. pc \in [Ranks -> {"out", "enter", "wait"}]
  BY <1>0 DEF TypeOK
<1>3. \A q \in Ranks : /\ q # r => pc'[q] = pc[q]
                       /\ q = r => pc'[q] = "enter"
  BY <1>1, <1>2
<1>4. TypeOK'
  BY <1>0, <1>1 DEF TypeOK
<1>5. CallInv'
  BY <1>0, <1>1, <1>3 DEF CallInv
<1>6. ASSUME NEW q \in Others
      PROVE  RankInv(q)' /\ (Counted(q, mess - 1)' <=> Counted(q, mess - 1))
  <2>1. RankInv(q) /\ q \in Ranks
    BY Numbers DEF Inv
  <2>2. CASE q # r
    BY <1>1, <1>3, <2>1, <2>2, RankStays
  <2>3. CASE q = r
    <3>1. pc[q] = "out" /\ pc'[q] = "enter"
      BY <1>1, <1>3, <2>1, <2>3
    <3>2. Counting' = Counting /\ Lifting' = Lifting
      BY <1>1 DEF Counting, Lifting
    <3>3. \A m : /\ Fresh(q, m)' <=> Fresh(q, m)
                 /\ ~ Counted(q, m) /\ ~ Counted(q, m)'
                 /\ ~ Released(q, m)
      BY <1>1, <3>1 DEF Fresh, Counted, Released
    <3> QED  BY <1>1, <2>1, <3>2, <3>3 DEF RankInv
  <2> QED  BY <2>2, <2>3
<1>7. KernelInv'
  BY <1>0, <1>1, <1>6, KernelStays
<1>8. RootInv'
  <2>1. pc[root] = "wait" <=> pc'[root] = "wait"
    BY <1>1, <1>3, Numbers
  <2>2. Counting' = Counting
    BY <1>1 DEF Counting
  <2> QED
    BY <1>0, <1>1, <2>1, <2>2 DEF RootInv, Locked, Waited, Lifted, Away, root
<1> QED  BY <1>4, <1>5, <1>6, <1>7, <1>8 DEF Inv

LEMMA LockStep == ASSUME Inv, Lock PROVE Inv'
<1>0. TypeOK /\ CallInv /\ KernelInv /\ RootInv
  BY DEF Inv
<1>1. /\ pc[root] = "enter" /\ barrier_lock' = <<passed[root] + 1>>
      /\ pc' = [pc EXCEPT ![root] = "wait"]
      /\ UNCHANGED <<passed, control, data, barrier_lift>>
      /\ UNCHANGED <<external, received_request, rcv, mess>>
  BY DEF Lock, kernel
<1>2. /\ pc \in [Ranks -> {"out", "enter", "wait"}]
      /\ passed[root] \in 0 .. NumBarriers
  BY <1>0, Numbers DEF TypeOK
<1>3. \A q \in Ranks : /\ q # root => pc'[q] = pc[q]
                       /\ q = root => pc'[q] = "wait"
  BY <1>1, <1>2
<1>4. TypeOK'
  <2>1. passed[root] < NumBarriers
    BY <1>0, <1>1, Numbers DEF CallInv
  <2>2. passed[root] + 1 \in 1 .. NumBarriers
    BY <1>2, <2>1, Numbers
  <2>3. barrier_lock' \in Seq(1 .. NumBarriers)
    BY <1>1, <2>2
  <2> QED  BY <1>0, <1>1, <2>3 DEF TypeOK
<1>5. CallInv'
  BY <1>0, <1>1, <1>3 DEF CallInv
<1>6. ASSUME NEW q \in Others
      PROVE  RankInv(q)' /\ (Counted(q, mess - 1)' <=> Counted(q, mess - 1))
  BY <1>1, <1>3, RankStays, Numbers DEF Inv
<1>7. KernelInv'
  BY <1>0, <1>1, <1>6, KernelStays
<1>8. RootInv'
  <2>1. Away
    BY <1>0, <1>1 DEF RootInv, Locked, Waited, Lifted
  <2>2. pc'[root] = "wait" /\ Counting' = Counting
    BY <1>1, <1>3, Numbers DEF Counting
  <2>3. Locked'
    BY <1>1, <2>1, <2>2 DEF Away, Locked, root
  <2> QED  BY <2>3 DEF RootInv
<1> QED  BY <1>4, <1>5, <1>6, <1>7, <1>8 DEF Inv

LEMMA AnnounceStep == ASSUME Inv, NEW r \in Ranks, Announce(r) PROVE Inv'
<1>0. TypeOK /\ CallInv /\ KernelInv /\ RootInv /\ r \in Others
  BY Numbers DEF Inv, Announce
<1>1. /\ pc[r] = "enter" /\ pc' = [pc EXCEPT ![r] = "wait"]
      /\ control' = [control EXCEPT ![r] = Append(@, passed[r] + 1)]
      /\ UNCHANGED <<passed, data, barrier_lock, barrier_lift>>
      /\ UNCHANGED <<external, received_request, rcv, mess>>
  BY DEF Announce, kernel
<1>2. /\ pc \in [Ranks -> {"out", "enter", "wait"}]
      /\ control \in [Others -> Seq(1 .. NumBarriers)]
      /\ passed[r] \in 0 .. NumBarriers
  BY <1>0 DEF TypeOK
<1>3. /\ \A q \in Ranks : /\ q # r => pc'[q] = pc[q]
                          /\ q = r => pc'[q] = "wait"
      /\ \A q \in Others : q # r => control'[q] = control[q]
      /\ control'[r] = Append(control[r], passed[r] + 1)
  BY <1>0, <1>1, <1>2
<1>4. TypeOK'
  <2>1. passed[r] < NumBarriers
    BY <1>0, <1>1 DEF CallInv
  <2>2. passed[r] + 1 \in 1 .. NumBarriers
    BY <1>2, <2>1, Numbers
  <2>3. Append(control[r], passed[r] + 1) \in Seq(1 .. NumBarriers)
    BY <1>0, <1>2, <2>2
  <2>4. control' \in [Others -> Seq(1 .. NumBarriers)]
    BY <1>1, <1>2, <2>3
  <2>5. pc' \in [Ranks -> {"out", "enter", "wait"}]
    BY <1>1, <1>2
  <2> QED  BY <1>0, <1>1, <2>4, <2>5 DEF TypeOK
<1>5. CallInv'
  BY <1>0, <1>1, <1>3 DEF CallInv
<1>6. ASSUME NEW q \in Others
      PROVE  RankInv(q)' /\ (Counted(q, mess - 1)' <=> Counted(q, mess - 1))
  <2>1. RankInv(q) /\ q \in Ranks
    BY Numbers DEF Inv
  <2>2. CASE q # r
    BY <1>1, <1>3, <2>1, <2>2, RankStays
  <2>3. CASE q = r
    <3>1. pc[q] = "enter" /\ pc'[q] = "wait"
      BY <1>1, <1>3, <2>1, <2>3
    <3>2. Counting' = Counting /\ Lifting' = Lifting
      BY <1>1 DEF Counting, Lifting
    <3>3. \A m : ~ Counted(q, m) /\ ~ Released(q, m)
      BY <3>1 DEF Counted, Released
    <3>4. ASSUME NEW m, Fresh(q, m)
          PROVE  Fresh(q, m)' /\ ~ Counted(q, m)'
      <4>1. control[q] = <<>> /\ passed[q] = m /\ data[q] = <<>>
        BY <3>1, <3>4 DEF Fresh
      <4>2. control'[q] = <<m + 1>>
        BY <1>3, <2>3, <4>1
      <4>3. control'[q] # <<>>
        BY <4>2
      <4> QED  BY <1>1, <3>1, <4>1, <4>2, <4>3 DEF Fresh, Counted
    <3>6. ~ Counted(q, mess - 1)'
      <4>1. control'[q] # <<>>
        <5>1. control[q] \in Seq(1 .. NumBarriers)
          BY <1>2
        <5> QED  BY <1>3, <2>3, <5>1
      <4> QED  BY <4>1 DEF Counted
    <3> QED  BY <1>1, <2>1, <3>2, <3>3, <3>4, <3>6 DEF RankInv
  <2> QED  BY <2>2, <2>3
<1>7. KernelInv'
  BY <1>0, <1>1, <1>6, KernelStays
<1>8. RootInv'
  <2>1. pc'[root] = pc[root] /\ Counting' = Counting
    BY <1>0, <1>1, <1>3, Numbers DEF Counting
  <2> QED
    BY <1>0, <1>1, <2>1 DEF RootInv, Locked, Waited, Lifted, Away, root
<1> QED  BY <1>4, <1>5, <1>6, <1>7, <1>8 DEF Inv

LEMMA PassRootStep == ASSUME Inv, Pass(root) PROVE Inv'
<1>0. TypeOK /\ CallInv /\ KernelInv /\ RootInv
  BY DEF Inv
<1>1. /\ pc[root] = "wait" /\ barrier_lift # <<>>
      /\ barrier_lift' = Tail(barrier_lift)
      /\ passed' = [passed EXCEPT ![root] = @ + 1]
      /\ pc' = [pc EXCEPT ![root] = "out"]
      /\ UNCHANGED <<control, data, barrier_lock>>
      /\ UNCHANGED <<external, received_request, rcv, mess>>
  BY DEF Pass, kernel
<1>2. /\ pc \in [Ranks -> {"out", "enter", "wait"}]
      /\ passed \in [Ranks -> 0 .. NumBarriers]
      /\ passed[root] \in 0 .. NumBarriers
  BY <1>0, Numbers DEF TypeOK
<1>3. /\ \A q \in Ranks : q # root => pc'[q] = pc[q] /\ passed'[q] = passed[q]
      /\ pc'[root] = "out" /\ passed'[root] = passed[root] + 1
  BY <1>1, <1>2, Numbers
<1>4. TypeOK'
  <2>1. passed[root] < NumBarriers
    BY <1>0, <1>1, Numbers DEF CallInv
  <2>2. passed[root] + 1 \in 0 .. NumBarriers
    BY <1>2, <2>1, Numbers
  <2>3. passed' \in [Ranks -> 0 .. NumBarriers]
    BY <1>1, <1>2, <2>2
  <2>4. pc' \in [Ranks -> {"out", "enter", "wait"}]
    BY <1>1, <1>2
  <2>5. barrier_lift' \in Seq(1 .. NumBarriers)
    BY <1>0, <1>1, KernelTypes
  <2> QED  BY <1>0, <1>1, <2>3, <2>4, <2>5 DEF TypeOK
<1>5. CallInv'
  BY <1>0, <1>3 DEF CallInv
<1>6. ASSUME NEW q \in Others
      PROVE  RankInv(q)' /\ (Counted(q, mess - 1)' <=> Counted(q, mess - 1))
  BY <1>1, <1>3, RankStays, Numbers DEF Inv
<1>7. KernelInv'
  BY <1>0, <1>1, <1>6, KernelStays
<1>8. RootInv'
  <2>1. Lifted
    BY <1>0, <1>1 DEF RootInv, Locked, Waited, Away
  <2>2. Counting' = Counting /\ mess \in Int
    BY <1>0, <1>1, KernelTypes DEF Counting
  <2>3. barrier_lift' = <<>>
    BY <1>1, <2>1 DEF Lifted
  <2>4. passed'[root] = mess
    BY <1>3, <2>1, <2>2 DEF Lifted
  <2>5. Away'
    BY <1>1, <1>3, <2>1, <2>2, <2>3, <2>4 DEF Lifted, Away, root
  <2> QED  BY <2>5 DEF RootInv
<1> QED  BY <1>4, <1>5, <1>6, <1>7, <1>8 DEF Inv

LEMMA PassOtherStep == ASSUME Inv, NEW r \in Others, Pass(r) PROVE Inv'
<1>0. TypeOK /\ CallInv /\ KernelInv /\ RootInv /\ RankInv(r)
      /\ r \in Ranks /\ r # root
  BY Numbers DEF Inv
<1>1. /\ pc[r] = "wait" /\ data[r] # <<>>
      /\ data' = [data EXCEPT ![r] = Tail(@)]
      /\ passed' = [passed EXCEPT ![r] = @ + 1]
      /\ pc' = [pc EXCEPT ![r] = "out"]
      /\ UNCHANGED <<control, barrier_lock, barrier_lift>>
      /\ UNCHANGED <<external, received_request, rcv, mess>>
  BY <1>0 DEF Pass, kernel
<1>2. /\ pc \in [Ranks -> {"out", "enter", "wait"}]
      /\ passed \in [Ranks -> 0 .. NumBarriers]
      /\ data \in [Others -> Seq(1 .. NumBarriers)]
      /\ data[r] \in Seq(1 .. NumBarriers)
      /\ passed[r] \in 0 .. NumBarriers
  BY <1>0 DEF TypeOK
<1>3. /\ \A q \in Ranks : q # r => pc'[q] = pc[q] /\ passed'[q] = passed[q]
      /\ \A q \in Others : q # r => data'[q] = data[q]
      /\ pc'[r] = "out" /\ passed'[r] = passed[r] + 1
      /\ data'[r] = Tail(data[r])
  BY <1>0, <1>1, <1>2
<1>4. TypeOK'
  <2>1. passed[r] < NumBarriers
    BY <1>0, <1>1 DEF CallInv
  <2>2. passed[r] + 1 \in 0 .. NumBarriers
    BY <1>2, <2>1, Numbers
  <2>3. passed' \in [Ranks -> 0 .. NumBarriers]
    BY <1>1, <1>2, <2>2
  <2>4. pc' \in [Ranks -> {"out", "enter", "wait"}]
    BY <1>1, <1>2
  <2>5. Tail(data[r]) \in Seq(1 .. NumBarriers)
    BY <1>1, <1>2
  <2>6. data' \in [Others -> Seq(1 .. NumBarriers)]
    BY <1>1, <1>2, <2>5
  <2> QED  BY <1>0, <1>1, <2>3, <2>4, <2>6 DEF TypeOK
<1>5. CallInv'
  BY <1>0, <1>3 DEF CallInv
<1>6. ASSUME NEW q \in Others
      PROVE  RankInv(q)' /\ (Counted(q, mess - 1)' <=> Counted(q, mess - 1))
  <2>1. CASE q # r
    BY <1>1, <1>3, <2>1, RankStays, Numbers DEF Inv
  <2>2. CASE q = r
    <3>1. Counting' = Counting /\ Lifting' = Lifting /\ mess \in Int
      BY <1>0, <1>1, KernelTypes DEF Counting, Lifting
    <3>2. \A m : ~ Fresh(r, m) /\ ~ Counted(r, m) /\ ~ Counted(r, m)'
      BY <1>1, <1>3 DEF Fresh, Counted
    <3>3. ASSUME NEW m \in Int, Released(r, m) PROVE Fresh(r, m + 1)'
      <4>1. /\ passed[r] = m /\ data[r] = <<m + 1>> /\ control[r] = <<>>
        BY <3>3 DEF Released
      <4>2. data'[r] = <<>>
        BY <1>3, <4>1
      <4> QED  BY <1>1, <1>3, <4>1, <4>2 DEF Fresh
    <3>4. Counting => Released(r, mess - 2)
      BY <1>0, <3>2 DEF RankInv
    <3>5. ~ (Lifting /\ rcv <= r)
      BY <1>0, <3>2 DEF RankInv
    <3>6. external \/ (Lifting /\ r < rcv) => Released(r, mess - 1)
      BY <1>0, <3>2 DEF RankInv
    <3>7. Counting => Fresh(r, mess - 1)'
      <4>1. mess - 2 \in Int /\ (mess - 2) + 1 = mess - 1
        BY <3>1
      <4> QED  BY <1>1, <3>3, <3>4, <4>1
    <3>8. external \/ (Lifting /\ r < rcv) => Fresh(r, mess)'
      <4>1. mess - 1 \in Int /\ (mess - 1) + 1 = mess
        BY <3>1
      <4> QED  BY <1>1, <3>3, <3>6, <4>1
    <3>9. RankInv(r)'
      BY <1>1, <3>1, <3>5, <3>7, <3>8 DEF RankInv
    <3> QED  BY <2>2, <3>2, <3>9
  <2> QED  BY <2>1, <2>2
<1>7. KernelInv'
  BY <1>0, <1>1, <1>6, KernelStays
<1>8. RootInv'
  <2>1. /\ pc'[root] = pc[root] /\ passed'[root] = passed[root]
        /\ Counting' = Counting
    BY <1>0, <1>1, <1>3, Numbers DEF Counting
  <2> QED
    BY <1>0, <1>1, <2>1 DEF RootInv, Locked, Waited, Lifted, Away, root
<1> QED  BY <1>4, <1>5, <1>6, <1>7, <1>8 DEF Inv

-----------------------------------------------------------------------------
(* The steps of the support kernel *)

(* The locked barrier is taken up: no rank is counted yet. *)
LEMMA ReadStep == ASSUME Inv, ReadApplication PROVE Inv'
<1>0. TypeOK /\ CallInv /\ KernelInv /\ RootInv
  BY DEF Inv
<1>1. /\ external /\ barrier_lock # <<>> /\ barrier_lock' = Tail(barrier_lock)
      /\ mess' = Head(barrier_lock) /\ received_request' = num_requests
      /\ rcv' = 0 /\ external' = FALSE
      /\ UNCHANGED <<passed, pc, barrier_lift, control, data>>
  BY DEF ReadApplication, Requests
<1>2. /\ ~ Counting /\ ~ Lifting /\ Counting' /\ ~ Lifting'
  BY <1>1 DEF Counting, Lifting
<1>3. Locked
  BY <1>0, <1>1 DEF RootInv, Waited, Lifted, Away
<1>4. /\ mess \in Int /\ mess' = mess + 1 /\ barrier_lock' = <<>>
      /\ mess' - 1 = mess /\ mess' - 2 = mess - 1
  <2>1. mess \in Int
    BY <1>0, KernelTypes
  <2>2. mess' = mess + 1 /\ barrier_lock' = <<>>
    BY <1>1, <1>3 DEF Locked
  <2> QED  BY <2>1, <2>2
<1>5. TypeOK'
  <2>1. passed[root] < NumBarriers /\ passed[root] \in 0 .. NumBarriers
    BY <1>0, <1>3, Numbers DEF CallInv, Locked, TypeOK
  <2>2. mess' \in 0 .. NumBarriers
    BY <1>3, <1>4, <2>1, Numbers DEF Locked
  <2>3. barrier_lock' \in Seq(1 .. NumBarriers)
    BY <1>4
  <2>4. received_request' \in 0 .. num_requests /\ rcv' \in 0 .. NumRanks
    BY <1>1, Numbers DEF num_requests
  <2> QED  BY <1>0, <1>1, <2>2, <2>3, <2>4 DEF TypeOK
<1>6. CallInv'
  BY <1>0, <1>1 DEF CallInv
<1>7. ASSUME NEW q \in Others PROVE RankInv(q)' /\ ~ Counted(q, mess - 1)'
  <2>1. Released(q, mess - 1) \/ Fresh(q, mess)
    BY <1>1 DEF Inv, RankInv
  <2>2. ASSUME Released(q, mess - 1)
        PROVE  Released(q, mess - 2)' /\ ~ Counted(q, mess)
    <3>1. (mess' - 2) + 1 = (mess - 1) + 1 /\ mess - 1 # mess
      BY <1>4
    <3> QED  BY <1>1, <1>4, <2>2, <3>1 DEF Released, Counted
  <2>3. ASSUME Fresh(q, mess)
        PROVE  Fresh(q, mess - 1)' /\ ~ Counted(q, mess)
    <3>1. (mess' - 1) + 1 = mess + 1 /\ <<mess + 1>> # <<>>
      BY <1>4
    <3>2. ~ Counted(q, mess)
      BY <2>3, <3>1 DEF Fresh, Counted
    <3> QED  BY <1>1, <1>4, <2>3, <3>1, <3>2 DEF Fresh
  <2>4. (Released(q, mess - 2) \/ Fresh(q, mess - 1))' /\ ~ Counted(q, mess)
    BY <2>1, <2>2, <2>3
  <2>5. ~ Counted(q, mess - 1)'
    BY <1>1, <1>4, <2>4 DEF Counted
  <2> QED  BY <1>1, <1>2, <2>4, <2>5 DEF RankInv
<1>8. KernelInv'
  <2>1. Uncounted' = Others
    BY <1>7 DEF Uncounted
  <2> QED  BY <1>1, <1>2, <2>1, OthersFinite DEF KernelInv
<1>9. RootInv'
  <2>1. Waited'
    BY <1>1, <1>2, <1>3, <1>4 DEF Locked, Waited, root
  <2> QED  BY <2>1 DEF RootInv
<1> QED  BY <1>5, <1>6, <1>7, <1>8, <1>9 DEF Inv

(* A request is counted: it is one of the present barrier, and of a rank     *)
(* that has not been counted.                                                *)
LEMMA TakeRequestStep == ASSUME Inv, TakeRequest PROVE Inv'
<1>0. TypeOK /\ CallInv /\ KernelInv /\ RootInv
  BY DEF Inv
<1> PICK r \in Others : /\ control[r] # <<>>
                        /\ control' = [control EXCEPT ![r] = Tail(@)]
  BY DEF TakeRequest
<1>1. /\ ~ external /\ received_request # 0
      /\ received_request' = received_request - 1
      /\ UNCHANGED <<passed, pc, external, rcv, mess>>
      /\ UNCHANGED <<barrier_lock, barrier_lift, data>>
  BY DEF TakeRequest
<1>2. /\ Counting /\ Counting' /\ ~ Lifting /\ ~ Lifting'
  BY <1>0, <1>1 DEF KernelInv, Counting, Lifting
<1>3. /\ control \in [Others -> Seq(1 .. NumBarriers)]
      /\ control[r] \in Seq(1 .. NumBarriers) /\ r \in Ranks
  BY <1>0, Numbers DEF TypeOK
<1>4. /\ \A q \in Others : q # r => control'[q] = control[q]
      /\ control'[r] = Tail(control[r])
  BY <1>3
<1>5. Fresh(r, mess - 1) /\ pc[r] = "wait"
  <2>1. Fresh(r, mess - 1) \/ Counted(r, mess - 1) \/ Released(r, mess - 2)
    BY <1>2 DEF Inv, RankInv
  <2> QED  BY <2>1 DEF Fresh, Counted, Released
<1>6. ~ Counted(r, mess - 1) /\ Counted(r, mess - 1)'
  <2>1. control[r] = <<(mess - 1) + 1>>
    BY <1>5 DEF Fresh
  <2>2. control'[r] = <<>> /\ control[r] # <<>>
    BY <1>4, <2>1
  <2> QED  BY <1>1, <1>5, <2>2 DEF Fresh, Counted
<1>7. \A q \in Others : q # r =>
          RankInv(q)' /\ (Counted(q, mess - 1)' <=> Counted(q, mess - 1))
  BY <1>1, <1>4, RankStays DEF Inv
<1>8. RankInv(r)'
  BY <1>1, <1>2, <1>6 DEF RankInv
<1>9. KernelInv'
  <2>1. Uncounted' = Uncounted \ {r} /\ r \in Uncounted
    BY <1>6, <1>7 DEF Uncounted
  <2>2. Cardinality(Uncounted') = Cardinality(Uncounted) - 1
    BY <2>1, UncountedFinite, FS_RemoveElement
  <2> QED  BY <1>0, <1>1, <1>2, <2>2 DEF KernelInv
<1>10. TypeOK'
  <2>1. Tail(control[r]) \in Seq(1 .. NumBarriers)
    BY <1>3
  <2>2. control' \in [Others -> Seq(1 .. NumBarriers)]
    BY <1>3, <2>1
  <2>3. received_request' \in 0 .. num_requests
    <3>1. received_request \in 0 .. num_requests
      BY <1>0 DEF TypeOK
    <3> QED  BY <1>1, <3>1, Numbers DEF num_requests
  <2> QED  BY <1>0, <1>1, <2>2, <2>3 DEF TypeOK
<1>11. CallInv' /\ RootInv'
  BY <1>0, <1>1, <1>2
     DEF CallInv, RootInv, Locked, Waited, Lifted, Away, root
<1> QED  BY <1>7, <1>8, <1>9, <1>10, <1>11 DEF Inv

(* The barrier is lifted for rank 0: by now every other rank is counted. *)
LEMMA LiftRootStep == ASSUME Inv, Lift, rcv = root PROVE Inv'
<1>0. TypeOK /\ CallInv /\ KernelInv /\ RootInv
  BY DEF Inv
<1>1. /\ ~ external /\ received_request = 0 /\ rcv = 0
      /\ barrier_lift = <<>> /\ barrier_lift' = <<mess>>
      /\ rcv' = 1 /\ external' = (1 = NumRanks)
      /\ UNCHANGED <<passed, pc, received_request, mess>>
      /\ UNCHANGED <<barrier_lock, control, data>>
  BY Numbers DEF Lift
<1>2. Counting /\ ~ Counting' /\ ~ Lifting
  BY <1>1 DEF Counting, Lifting
<1>1a. external' <=> 1 = NumRanks
  BY ZenonT(10), <1>1
<1>3. Waited
  BY <1>0, <1>1, <1>2 DEF RootInv, Locked, Lifted, Away
<1>4. \A q \in Others : Counted(q, mess - 1)
  <2>1. Uncounted = {}
    BY <1>0, <1>1, <1>2, UncountedFinite DEF KernelInv
  <2> QED  BY <2>1 DEF Uncounted
<1>5. TypeOK'
  <2>1. mess \in 1 .. NumBarriers
    <3>1. mess = passed[root] + 1 /\ passed[root] \in 0 .. NumBarriers
      <4>1. mess \in Int /\ passed[root] \in 0 .. NumBarriers
        BY <1>0, KernelTypes, Numbers DEF TypeOK
      <4>2. passed[root] = mess - 1
        BY <1>3 DEF Waited
      <4> QED  BY <4>1, <4>2
    <3>2. passed[root] < NumBarriers
      BY <1>0, <1>3, Numbers DEF CallInv, Waited
    <3> QED  BY <3>1, <3>2, Numbers
  <2>2. barrier_lift' \in Seq(1 .. NumBarriers)
    BY <1>1, <2>1
  <2>3. rcv' \in 0 .. NumRanks /\ external' \in BOOLEAN
    BY <1>1, Numbers
  <2> QED  BY <1>0, <1>1, <2>2, <2>3 DEF TypeOK
<1>6. CallInv'
  BY <1>0, <1>1 DEF CallInv
<1>7. KernelInv'
  <2>1. Lifting' => rcv' \in 1 .. NumRanks - 1
    BY <1>1, <1>1a, Numbers DEF Lifting
  <2> QED  BY <1>1, <1>2, <2>1 DEF KernelInv
<1>8. RootInv'
  <2>1. Lifted'
    BY <1>1, <1>2, <1>3 DEF Waited, Lifted, root
  <2> QED  BY <2>1 DEF RootInv
<1>9. ASSUME NEW q \in Others PROVE RankInv(q)'
  <2>1. q \in Int /\ 1 <= q /\ q < NumRanks
    BY Numbers
  <2>2. ~ external' /\ ~ (Lifting' /\ q < rcv')
    BY <1>1, <1>1a, <2>1, Numbers
  <2>3. Counted(q, mess - 1)'
    BY <1>1, <1>4 DEF Counted
  <2> QED  BY <1>2, <2>2, <2>3 DEF RankInv
<1> QED  BY <1>5, <1>6, <1>7, <1>8, <1>9 DEF Inv

(* It is lifted for another rank. *)
LEMMA LiftOtherStep == ASSUME Inv, Lift, rcv # root PROVE Inv'
<1>0. TypeOK /\ CallInv /\ KernelInv /\ RootInv
  BY DEF Inv
<1>1. /\ ~ external /\ received_request = 0 /\ rcv # 0
      /\ data' = [data EXCEPT ![rcv] = Append(@, mess)]
      /\ rcv' = rcv + 1 /\ external' = (rcv + 1 = NumRanks)
      /\ UNCHANGED <<passed, pc, received_request, mess>>
      /\ UNCHANGED <<barrier_lock, barrier_lift, control>>
  BY Numbers DEF Lift
<1>2. Lifting /\ ~ Counting /\ rcv \in 1 .. NumRanks - 1
  BY <1>0, <1>1 DEF Counting, Lifting, KernelInv
<1>3. /\ rcv \in Int /\ rcv \in Others /\ mess \in Int
      /\ rcv + 1 \in 2 .. NumRanks
      /\ data \in [Others -> Seq(1 .. NumBarriers)]
      /\ passed[rcv] \in 0 .. NumBarriers
  <2>1. rcv \in Int /\ 1 <= rcv /\ rcv < NumRanks /\ rcv + 1 \in 2 .. NumRanks
    BY <1>2, Numbers
  <2>2. rcv \in Others /\ rcv \in Ranks
    BY <2>1, Numbers
  <2> QED  BY <1>0, <2>1, <2>2, KernelTypes DEF TypeOK
<1>1a. external' <=> rcv + 1 = NumRanks
  BY ZenonT(10), <1>1
<1>4. ~ Counting'
  BY <1>1, <1>3 DEF Counting
<1>5. Counted(rcv, mess - 1)
  BY <1>2, <1>3 DEF Inv, RankInv
<1>6. /\ \A q \in Others : q # rcv => data'[q] = data[q]
      /\ data'[rcv] = <<mess>>
  <2>1. data[rcv] = <<>>
    BY <1>5 DEF Counted
  <2> QED  BY <1>1, <1>3, <2>1
<1>7. TypeOK'
  <2>1. mess \in 1 .. NumBarriers
    <3>1. passed[rcv] = mess - 1 /\ pc[rcv] # "out"
      BY <1>5 DEF Counted
    <3>2. passed[rcv] < NumBarriers
      BY <1>0, <1>3, <3>1, Numbers DEF CallInv
    <3> QED  BY <1>3, <3>1, <3>2, Numbers
  <2>2. Append(data[rcv], mess) \in Seq(1 .. NumBarriers)
    BY <1>3, <2>1
  <2>3. data' \in [Others -> Seq(1 .. NumBarriers)]
    BY <1>1, <1>3, <2>2
  <2>4. rcv' \in 0 .. NumRanks /\ external' \in BOOLEAN
    BY <1>1, <1>3, Numbers
  <2> QED  BY <1>0, <1>1, <2>3, <2>4 DEF TypeOK
<1>8. CallInv'
  BY <1>0, <1>1 DEF CallInv
<1>9. KernelInv'
  <2>1. Lifting' => rcv' \in 1 .. NumRanks - 1
    BY <1>1, <1>3, <1>1a, Numbers DEF Lifting
  <2> QED  BY <1>1, <1>4, <2>1 DEF KernelInv
<1>10. RootInv'
  BY <1>0, <1>1, <1>2, <1>4
     DEF RootInv, Locked, Waited, Lifted, Away, root
<1>11. ASSUME NEW q \in Others PROVE RankInv(q)'
  <2>0. q \in Int /\ 1 <= q /\ q < NumRanks /\ RankInv(q)
    BY Numbers DEF Inv
  <2>1. CASE q = rcv
    <3>1. (mess - 1) + 1 = mess
      BY <1>3
    <3>2. Released(q, mess - 1)'
      BY <1>1, <1>5, <1>6, <2>1, <3>1 DEF Counted, Released
    <3>3. ~ (rcv' <= q)
      BY <1>1, <1>3, <2>1
    <3> QED  BY <1>4, <3>2, <3>3 DEF RankInv
  <2>2. CASE q # rcv
    <3>1. /\ Counted(q, mess - 1)' <=> Counted(q, mess - 1)
          /\ Released(q, mess - 1)' <=> Released(q, mess - 1)
          /\ Fresh(q, mess)' <=> Fresh(q, mess)
      BY <1>1, <1>6, <2>2 DEF Counted, Released, Fresh
    <3>2. rcv' <= q => rcv <= q
      BY <1>1, <1>3, <2>0
    <3>3. external' \/ q < rcv' => q < rcv
      BY <1>1, <1>3, <1>1a, <2>0, <2>2, Numbers
    <3> QED  BY <1>2, <1>4, <2>0, <3>1, <3>2, <3>3 DEF RankInv
  <2> QED  BY <2>1, <2>2
<1> QED  BY <1>7, <1>8, <1>9, <1>10, <1>11 DEF Inv

-----------------------------------------------------------------------------
(* Stuttering changes nothing the invariant reads. *)
LEMMA Stutter == Inv /\ UNCHANGED vars => Inv'
<1> SUFFICES ASSUME Inv, UNCHANGED vars PROVE Inv'
  OBVIOUS
<1>1. /\ UNCHANGED <<passed, pc, control, data, barrier_lock, barrier_lift>>
      /\ UNCHANGED <<external, received_request, rcv, mess>>
  BY DEF vars, kernel
<1>2. TypeOK' /\ CallInv'
  BY <1>1 DEF Inv, TypeOK, CallInv
<1>3. \A q \in Others :
          RankInv(q)' /\ (Counted(q, mess - 1)' <=> Counted(q, mess - 1))
  BY <1>1, RankStays DEF Inv
<1>4. KernelInv'
  BY <1>1, <1>3, KernelStays DEF Inv
<1>5. RootInv'
  BY <1>1 DEF Inv, RootInv, Locked, Waited, Lifted, Away, Counting, root
<1> QED  BY <1>2, <1>3, <1>4, <1>5 DEF Inv

LEMMA NextInv == Inv /\ [Next]_vars => Inv'
<1> SUFFICES ASSUME Inv, [Next]_vars PROVE Inv'
  OBVIOUS
<1>1. ASSUME NEW r \in Ranks, Application(r) PROVE Inv'
  <2>1. CASE Call(r)
    BY <2>1, CallStep
  <2>2. CASE r = root /\ Lock
    BY <2>2, LockStep
  <2>3. CASE Announce(r)
    BY <2>3, AnnounceStep
  <2>4. CASE Pass(r)
    <3>1. CASE r = root
      BY <2>4, <3>1, PassRootStep
    <3>2. CASE r # root
      BY <2>4, <3>2, PassOtherStep, Numbers
    <3> QED  BY <3>1, <3>2
  <2> QED  BY <1>1, <2>1, <2>2, <2>3, <2>4 DEF Application
<1>2. ASSUME Support PROVE Inv'
  <2>1. CASE ReadApplication
    BY <2>1, ReadStep
  <2>2. CASE TakeRequest
    BY <2>2, TakeRequestStep
  <2>3. CASE Lift
    BY <2>3, LiftRootStep, LiftOtherStep
  <2> QED  BY <1>2, <2>1, <2>2, <2>3 DEF Support
<1> QED  BY <1>1, <1>2, Stutter DEF Next

LEMMA InvAlways == Spec => []Inv
BY InitInv, NextInv, PTL DEF Spec

(* Rank and request counters and the FIFOs stay in range. *)
THEOREM TypeCorrect == Spec => []TypeOK
<1>1. Inv => TypeOK
  BY DEF Inv
<1> QED  BY <1>1, InvAlways, PTL

(* How far a rank is, read off the phase of the kernel. *)
LEMMA Places ==
    ASSUME Inv, NEW r \in Ranks
    PROVE  /\ passed[r] \in Int /\ mess \in Int
           /\ Counting => \/ passed[r] = mess - 1
                          \/ passed[r] = mess - 2 /\ pc[r] # "out"
           /\ ~ Counting => \/ passed[r] = mess
                            \/ passed[r] = mess - 1 /\ pc[r] # "out"
<1>1. passed[r] \in Int /\ mess \in Int
  BY Types, KernelTypes DEF Inv
<1>2. CASE r = root
  BY <1>1, <1>2 DEF Inv, RootInv, Locked, Waited, Lifted, Away
<1>3. CASE r \in Others
  <2>1. RankInv(r) /\ rcv \in Int /\ r \in Int
    BY <1>3, KernelTypes, Numbers DEF Inv
  <2>2. \/ Counting \/ external \/ (Lifting /\ r < rcv)
        \/ (Lifting /\ rcv <= r)
    BY <2>1 DEF Counting, Lifting
  <2> QED
    BY <1>1, <2>1, <2>2
       DEF RankInv, Fresh, Counted, Released, Counting, Lifting
<1> QED  BY <1>2, <1>3, Numbers

(* No rank passes a barrier before all ranks are there, for every number of  *)
(* ranks and barriers.                                                       *)
THEOREM NobodyPassesEarly == Spec => []BarrierHolds
<1>1. Inv => BarrierHolds
  <2> SUFFICES ASSUME Inv, NEW r \in Ranks, NEW q \in Ranks
               PROVE  Arrived(q, passed[r])
    BY DEF BarrierHolds
  <2>1. \/ passed[q] >= passed[r]
        \/ passed[q] = passed[r] - 1 /\ pc[q] # "out"
    <3>1. CASE Counting
      BY <3>1, Places
    <3>2. CASE ~ Counting
      BY <3>2, Places
    <3> QED  BY <3>1, <3>2
  <2> QED  BY <2>1 DEF Arrived
<1> QED  BY <1>1, InvAlways, PTL

(* The requests the kernel counts are those of the barrier it is at. *)
THEOREM OnlyPresentRequestsCount == Spec => []RequestsOfThisBarrier
<1>1. Inv => RequestsOfThisBarrier
  <2> SUFFICES ASSUME Inv, ~ external, received_request > 0,
                      NEW r \in Others, control[r] # <<>>
               PROVE  Head(control[r]) = mess
    BY DEF RequestsOfThisBarrier
  <2>1. Counting
    <3>1. received_request # 0
      BY KernelTypes DEF Inv
    <3> QED  BY <3>1 DEF Inv, KernelInv
  <2>2. mess \in Int
    BY KernelTypes DEF Inv
  <2>3. Fresh(r, mess - 1)
    BY <2>1 DEF Inv, RankInv, Counted, Released
  <2>4. control[r] = <<(mess - 1) + 1>>
    BY <2>3 DEF Fresh
  <2>5. (mess - 1) + 1 = mess
    BY <2>2
  <2> QED  BY <2>4, <2>5
<1> QED  BY <1>1, InvAlways, PTL

(* A barrier is lifted only for a rank that waits at it, and once. *)
THEOREM LiftedOnce == Spec => []LiftedForWaiting
<1>1. Inv => LiftedForWaiting
  <2> SUFFICES ASSUME Inv PROVE LiftedForWaiting
    OBVIOUS
  <2>1. ASSUME NEW r \in Others, data[r] # <<>>
        PROVE  pc[r] = "wait" /\ data[r] = <<passed[r] + 1>>
    <3>1. RankInv(r) /\ rcv \in Int /\ r \in Int
      BY KernelTypes, Numbers DEF Inv
    <3>2. \/ Counting \/ external \/ (Lifting /\ r < rcv)
          \/ (Lifting /\ rcv <= r)
      BY <3>1 DEF Counting, Lifting
    <3>3. PICK m : Released(r, m)
      BY <2>1, <3>1, <3>2 DEF RankInv, Fresh, Counted
    <3> QED  BY <3>3 DEF Released
  <2>2. ASSUME barrier_lift # <<>>
        PROVE  pc[root] = "wait" /\ barrier_lift = <<passed[root] + 1>>
    <3>1. Lifted /\ mess \in Int
      BY <2>2, KernelTypes DEF Inv, RootInv, Locked, Waited, Away
    <3>2. passed[root] + 1 = mess
      BY <3>1 DEF Lifted
    <3> QED  BY <3>1, <3>2 DEF Lifted
  <2> QED  BY <2>1, <2>2 DEF LiftedForWaiting
<1> QED  BY <1>1, InvAlways, PTL

-----------------------------------------------------------------------------
(* Barrier implements Collective: a step is one of its rank's abstract place, *)
(* or leaves all places. *)

LEMMA BarrierPlace ==
    /\ Abstract!Ranks = Ranks
    /\ \A r \in Ranks :
           /\ place[r].coll = passed[r] + 1 /\ place[r].returned = 0
           /\ place[r].entered = IF pc[r] = "out" THEN 0 ELSE 1
BY DEF Abstract!Ranks, Ranks, place

LEMMA BarrierStart == Init => Abstract!Init
<1> SUFFICES ASSUME Init PROVE Abstract!Init
  OBVIOUS
<1>1. \A r \in Ranks : passed[r] = 0 /\ pc[r] = "out"
  BY DEF Init
<1>2. place = [r \in Ranks |-> [coll |-> 1, entered |-> 0, returned |-> 0]]
  BY <1>1 DEF place
<1> QED  BY <1>2, BarrierPlace DEF Abstract!Init

LEMMA PlacesStay ==
    ASSUME UNCHANGED passed, \A r \in Ranks : pc'[r] = "out" <=> pc[r] = "out"
    PROVE  UNCHANGED place
BY DEF place

LEMMA CallEnters ==
    ASSUME TypeOK, NEW r \in Ranks, Call(r)
    PROVE  Abstract!Enter(r)
<1>1. /\ pc[r] = "out" /\ passed[r] < NumBarriers /\ passed' = passed
      /\ pc' = [pc EXCEPT ![r] = "enter"]
  BY DEF Call
<1>2. place[r].coll <= NumBarriers /\ place[r].entered = place[r].returned
      /\ place[r].entered + 1 = 1
  BY <1>1, Types, Numbers, BarrierPlace
<1>3. pc'[r] = "enter" /\ \A q \in Ranks : q # r => pc'[q] = pc[q]
  BY <1>1 DEF TypeOK
<1>4. place' = [place EXCEPT ![r].entered = @ + 1]
  <2>1. place'[r] = [place[r] EXCEPT !.entered = @ + 1]
    BY <1>1, <1>3 DEF place
  <2>2. \A q \in Ranks : q # r => place'[q] = place[q]
    BY <1>1, <1>3 DEF place
  <2> QED  BY <2>1, <2>2 DEF place
<1> QED  BY <1>2, <1>4 DEF Abstract!Enter

LEMMA PassReturns ==
    ASSUME Inv, NEW r \in Ranks, Pass(r), BarrierHolds, BarrierHolds'
    PROVE  Abstract!Return(r)
<1>1. /\ pc[r] = "wait" /\ passed' = [passed EXCEPT ![r] = @ + 1]
      /\ pc' = [pc EXCEPT ![r] = "out"]
  BY DEF Pass
<1>2. TypeOK /\ passed[r] \in Int
  BY Types DEF Inv
<1>3. passed'[r] = passed[r] + 1 /\ pc'[r] = "out"
      /\ \A q \in Ranks : q # r => passed'[q] = passed[q] /\ pc'[q] = pc[q]
  BY <1>1, <1>2 DEF TypeOK
<1>4. place[r].coll = passed[r] + 1 /\ place[r].entered = 1 /\ place[r].returned = 0
  BY <1>1, BarrierPlace
<1>5. ASSUME NEW q \in Ranks PROVE Abstract!Reached(q, passed[r] + 1, 1)
  <2>1. passed[q] \in Int /\ place[q].coll = passed[q] + 1
        /\ place[q].entered = IF pc[q] = "out" THEN 0 ELSE 1
    BY <1>2, Types, BarrierPlace
  <2>2. q # r => passed[q] >= passed[r] + 1 \/ (passed[q] = passed[r] /\ pc[q] # "out")
    <3>1. Arrived(q, passed[r])'
      BY DEF BarrierHolds
    <3>2. q # r => passed[q] >= passed[r] + 1
                   \/ (passed[q] = (passed[r] + 1) - 1 /\ pc[q] # "out")
      BY <1>3, <3>1 DEF Arrived
    <3> QED  BY <1>2, <3>2
  <2>3. passed[q] + 1 > passed[r] + 1 \/ (passed[q] = passed[r] /\ pc[q] # "out")
    BY <1>1, <1>2, <2>1, <2>2
  <2> QED  BY <2>1, <2>3 DEF Abstract!Reached
<1>6. place' = [place EXCEPT ![r] = [coll |-> place[r].coll + 1, entered |-> 0, returned |-> 0]]
  BY <1>3, <1>4 DEF place
<1>7. \A need \in BarrierNeeds(place[r].coll, r, place[r].entered) :
          Abstract!Reached(need[1], place[r].coll, need[2])
  BY <1>4, <1>5 DEF BarrierNeeds
<1> QED  BY <1>4, <1>6, <1>7 DEF Abstract!Return, BarrierCalls

LEMMA BarrierStep ==
    ASSUME Inv, BarrierHolds, BarrierHolds', [Next]_vars
    PROVE  [Abstract!Next]_place
<1>1. TypeOK
  BY DEF Inv
<1>2. ASSUME NEW r \in Ranks, Application(r) PROVE [Abstract!Next]_place
  <2>1. CASE Call(r)
    BY <1>1, <2>1, CallEnters, BarrierPlace DEF Abstract!Next
  <2>2. CASE r = root /\ Lock
    <3>1. passed' = passed /\ pc[root] = "enter" /\ pc' = [pc EXCEPT ![root] = "wait"]
      BY <2>2 DEF Lock
    <3>2. \A q \in Ranks : pc'[q] = "out" <=> pc[q] = "out"
      BY <1>1, <3>1 DEF TypeOK
    <3> QED  BY <3>1, <3>2, PlacesStay
  <2>3. CASE Announce(r)
    <3>1. passed' = passed /\ pc[r] = "enter" /\ pc' = [pc EXCEPT ![r] = "wait"]
      BY <2>3 DEF Announce
    <3>2. \A q \in Ranks : pc'[q] = "out" <=> pc[q] = "out"
      BY <1>1, <3>1 DEF TypeOK
    <3> QED  BY <3>1, <3>2, PlacesStay
  <2>4. CASE Pass(r)
    BY <2>4, PassReturns, BarrierPlace DEF Abstract!Next
  <2> QED  BY <1>2, <2>1, <2>2, <2>3, <2>4 DEF Application
<1>3. CASE Support
  <2>1. passed' = passed /\ pc' = pc
    BY <1>3 DEF Support, ReadApplication, TakeRequest, Lift
  <2> QED  BY <2>1, PlacesStay
<1>4. CASE UNCHANGED vars
  <2>1. passed' = passed /\ pc' = pc
    BY <1>4 DEF vars
  <2> QED  BY <2>1, PlacesStay
<1> QED  BY <1>2, <1>3, <1>4 DEF Next

(* The safety part of ImplementsCollective: whatever requests the kernel of  *)
(* rank 0 counts, a call of SMI_Barrier returns only when every rank has     *)
(* made its own, and every call is of the next barrier.                      *)
THEOREM BarriersAreCollectives == Spec => Abstract!Safety
<1>1. Inv /\ BarrierHolds /\ BarrierHolds' /\ [Next]_vars => [Abstract!Next]_place
  BY BarrierStep
<1> QED  BY <1>1, InvAlways, NobodyPassesEarly, BarrierStart, PTL DEF Spec, Abstract!Safety
=============================================================================
