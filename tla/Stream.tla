------------------------------- MODULE Stream -------------------------------
(****************************************************************************)
(* What a sequence of transient channels on one port promises: the         *)
(* elements pushed into the m-th channel are popped from the m-th channel,  *)
(* each once and in order, whatever packets and tokens carry them.  With a  *)
(* finite Capacity the sender is never further than that ahead of the       *)
(* receiver of its channel, and never leaves a channel before the receiver  *)
(* has it open.                                                              *)
(****************************************************************************)
EXTENDS Naturals

CONSTANTS NumMessages,  \* transient channels, opened one after the other
          Sizes,        \* the counts they may be opened with
          Synchronous,  \* the two ends keep step (rendezvous)
          Capacity      \* elements in flight in one channel, if they do

VARIABLES size,    \* size[m] is the count of channel m
          pushed,  \* [msg, count] of the sending end
          popped,  \* [msg, count] of the receiving end
          data     \* the element popped last

streamVars == <<size, pushed, popped, data>>

Total(m) == IF m = 0 THEN 0 ELSE size[m]

Init == /\ size \in [1 .. NumMessages -> Sizes]
        /\ pushed = [msg |-> 0, count |-> 0]
        /\ popped = [msg |-> 0, count |-> 0]
        /\ data = <<0, 0>>

Open(end) == /\ end.count = Total(end.msg)
             /\ end.msg < NumMessages

OpenSend ==
    /\ Open(pushed)
    /\ Synchronous => pushed.msg <= popped.msg
    /\ pushed' = [msg |-> pushed.msg + 1, count |-> 0]
    /\ UNCHANGED <<size, popped, data>>

Push ==
    /\ pushed.count < Total(pushed.msg)
    /\ pushed' = [pushed EXCEPT !.count = @ + 1]
    /\ Synchronous /\ pushed.msg = popped.msg =>
           pushed.count < popped.count + Capacity
    /\ UNCHANGED <<size, popped, data>>

OpenReceive ==
    /\ Open(popped)
    /\ popped' = [msg |-> popped.msg + 1, count |-> 0]
    /\ UNCHANGED <<size, pushed, data>>

Pop ==
    /\ popped.count < Total(popped.msg)
    /\ \/ popped.msg < pushed.msg
       \/ popped.msg = pushed.msg /\ popped.count < pushed.count
    /\ popped' = [popped EXCEPT !.count = @ + 1]
    /\ data' = <<popped.msg, popped.count>>
    /\ UNCHANGED <<size, pushed>>

Next == OpenSend \/ Push \/ OpenReceive \/ Pop

(* Nothing but the order, and the distance of the two ends. *)
Safety == Init /\ [][Next]_streamVars

Spec == /\ Safety
        /\ WF_streamVars(OpenSend \/ Push)
        /\ WF_streamVars(OpenReceive \/ Pop)
=============================================================================
