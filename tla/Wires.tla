------------------------------- MODULE Wires -------------------------------
(****************************************************************************)
(* The network as one port of a collective sees it: for data and for        *)
(* control a bounded FIFO from every rank to every rank.  Packets of one    *)
(* rank stay in order; those of several ranks meet in the FIFO of the port, *)
(* in any order.  The order is chosen when the packet is read, which gives  *)
(* the reader the same choices as when it is chosen on the way.             *)
(****************************************************************************)
EXTENDS Integers, Sequences

CONSTANTS
    NumRanks,
    WireDepth       \* packets that fit between two ranks

ASSUME WiresAssumption == NumRanks \in Nat \ {0} /\ WireDepth \in Nat \ {0}

Ranks == 0 .. NumRanks - 1

Quiet == [src \in Ranks |-> [dst \in Ranks |-> <<>>]]

HasRoom(net, src, dst) == Len(net[src][dst]) < WireDepth

Put(net, src, dst, packet) == [net EXCEPT ![src][dst] = Append(@, packet)]

Waiting(net, dst) == {src \in Ranks : net[src][dst] # <<>>}

Take(net, src, dst) == [net EXCEPT ![src][dst] = Tail(@)]

UnderWay(net, dst) == UNION {{net[src][dst][i] : i \in 1 .. Len(net[src][dst])} :
                             src \in Ranks}
=============================================================================
