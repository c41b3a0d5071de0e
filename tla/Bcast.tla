------------------------------- MODULE Bcast -------------------------------
(****************************************************************************)
(* SMI_Bcast and its support kernel, on every rank, over a sequence of      *)
(* broadcasts on one port.  Every rank opens a channel per broadcast and    *)
(* calls SMI_Bcast once per element.  The root packs the elements and       *)
(* offloads the packets to the support kernel, which first collects a       *)
(* "ready to receive" of every other rank and then sends each packet to     *)
(* every other rank.                                                        *)
(*                                                                          *)
(* An element is <<broadcast, index>>: payload is reduced to identities.    *)
(****************************************************************************)
EXTENDS Wires

CONSTANTS
    Roots,              \* Roots[k]: the root of broadcast k
    Counts,             \* Counts[k]: its number of elements
    ElementsPerPacket

NumCollectives == Len(Roots)

VARIABLES
    chan,       \* chan[r]: the SMI_BChannel of rank r and its program's place
    support,    \* support[r]: the variables of the support kernel
    broadcast,  \* broadcast[r]: the FIFO from the application to the kernel
    data,       \* cks_data to ckr_data
    control     \* cks_control to ckr_control

vars == <<chan, support, broadcast, data, control>>

Slots     == 0 .. ElementsPerPacket - 1
NoElement == <<0, 0>>
Elements  == {NoElement} \cup
             UNION {{<<k, i>> : i \in 1 .. Counts[k]} : k \in 1 .. NumCollectives}
Empty     == [slot \in Slots |-> NoElement]

IsRoot(r) == chan[r].coll <= NumCollectives /\ Roots[chan[r].coll] = r

(* SMI_Open_bcast_channel for broadcast k *)
Opened(k) ==
    [coll |-> k, entered |-> 0, returned |-> 0, init |-> TRUE, op |-> "SYNCH",
     net |-> Empty, packet_element_id |-> 0,
     net_2 |-> Empty, packet_element_id_rcv |-> 0]

(* The channel when the present call has returned, after the last one the    *)
(* channel of the next broadcast.                                            *)
Returned(c) ==
    IF c.entered = Counts[c.coll] THEN Opened(c.coll + 1)
                                  ELSE [c EXCEPT !.returned = c.entered]

Init ==
    /\ chan = [r \in Ranks |-> Opened(1)]
    /\ support = [r \in Ranks |->
           [external |-> TRUE, received_request |-> 0, rcv |-> 0, root |-> 0,
            mess |-> Empty]]
    /\ broadcast = [r \in Ranks |-> <<>>]
    /\ data = Quiet /\ control = Quiet

-----------------------------------------------------------------------------
(* The application *)

(* SMI_Bcast is called for the next element. *)
Call(r) ==
    /\ chan[r].coll <= NumCollectives
    /\ chan[r].entered = chan[r].returned
    /\ chan' = [chan EXCEPT ![r].entered = @ + 1]
    /\ UNCHANGED <<support, broadcast, data, control>>

(* A packet leaves when it is full, and at the end of the broadcast. *)
Leaves(c) ==
    \/ c.packet_element_id + 1 = ElementsPerPacket
    \/ c.entered = Counts[c.coll]

(* At the root: the element goes into the packet, and a packet that leaves   *)
(* to the support kernel.                                                    *)
Send(r) ==
    LET c      == chan[r]
        packed == [c.net EXCEPT ![c.packet_element_id] = <<c.coll, c.entered>>]
    IN  /\ c.returned < c.entered /\ IsRoot(r)
        /\ Leaves(c) => broadcast[r] = <<>>
        /\ broadcast' = [broadcast EXCEPT ![r] =
               IF Leaves(c) THEN <<[op |-> c.op, src |-> r, net |-> packed]>> ELSE @]
        /\ chan' = [chan EXCEPT ![r] = Returned([c EXCEPT
               !.net = packed,
               !.packet_element_id = IF Leaves(c) THEN 0 ELSE @ + 1,
               !.op = IF Leaves(c) THEN "BROADCAST" ELSE @])]
        /\ UNCHANGED <<support, data, control>>

(* At the others: the first call tells the root that this rank is ready. *)
SendReady(r) ==
    LET root == Roots[chan[r].coll]
    IN  /\ chan[r].returned < chan[r].entered /\ ~ IsRoot(r) /\ chan[r].init
        /\ HasRoom(control, r, root)
        /\ control' = Put(control, r, root, chan[r].coll)
        /\ chan' = [chan EXCEPT ![r].init = FALSE]
        /\ UNCHANGED <<support, broadcast, data>>

(* Mutant: a new packet is read one element late.                            *)
NextSlotLate(slot) == IF slot = ElementsPerPacket THEN 0 ELSE slot + 1

NextSlot(slot) == IF slot + 1 = ElementsPerPacket THEN 0 ELSE slot + 1

(* Then every call takes the next element, of a new packet if need be. *)
Receive(r) ==
    LET c == chan[r]
        with(net) == Returned([c EXCEPT !.net_2 = net,
                                        !.packet_element_id_rcv = NextSlot(@)])
    IN  /\ c.returned < c.entered /\ ~ IsRoot(r) /\ ~ c.init
        /\ IF c.packet_element_id_rcv = 0
           THEN \E src \in Waiting(data, r) :
                    /\ data' = Take(data, src, r)
                    /\ chan' = [chan EXCEPT ![r] = with(Head(data[src][r]))]
           ELSE chan' = [chan EXCEPT ![r] = with(c.net_2)] /\ UNCHANGED data
        /\ UNCHANGED <<support, broadcast, control>>

-----------------------------------------------------------------------------
(* The support kernel *)

num_requests == NumRanks - 1

(* Mutant: one rank too few is waited for, an off-by-one in num_requests.    *)
RequestsOneShort(s, mess) ==
    IF mess.op = "SYNCH" THEN num_requests - 1 ELSE s.received_request

(* The requests to collect before the packet may go. *)
Requests(s, mess) ==
    IF mess.op = "SYNCH" THEN num_requests ELSE s.received_request

(* A packet of the application; SYNCH marks the first one of a broadcast. *)
ReadApplication(r) ==
    LET mess == Head(broadcast[r])
    IN  /\ support[r].external /\ broadcast[r] # <<>>
        /\ broadcast' = [broadcast EXCEPT ![r] = <<>>]
        /\ support' = [support EXCEPT ![r] =
               [external |-> FALSE, rcv |-> 0, root |-> mess.src,
                received_request |-> Requests(@, mess),
                mess |-> mess.net]]
        /\ UNCHANGED <<chan, data, control>>

(* A "ready to receive" *)
TakeRequest(r) ==
    /\ ~ support[r].external /\ support[r].received_request # 0
    /\ \E src \in Waiting(control, r) : control' = Take(control, src, r)
    /\ support' = [support EXCEPT ![r].received_request = @ - 1]
    /\ UNCHANGED <<chan, broadcast, data>>

(* The packet goes to every rank but the root. *)
Deliver(r) ==
    LET s == support[r]
    IN  /\ ~ s.external /\ s.received_request = 0
        /\ IF s.rcv # s.root
           THEN HasRoom(data, r, s.rcv) /\ data' = Put(data, r, s.rcv, s.mess)
           ELSE UNCHANGED data
        /\ support' = [support EXCEPT ![r].rcv = @ + 1,
                                      ![r].external = s.rcv + 1 = NumRanks]
        /\ UNCHANGED <<chan, broadcast, control>>

-----------------------------------------------------------------------------
Application(r) == Call(r) \/ Send(r) \/ SendReady(r) \/ Receive(r)

Support(r) == ReadApplication(r) \/ TakeRequest(r) \/ Deliver(r)

-----------------------------------------------------------------------------
(* Properties *)

Packet == [Slots -> Elements]

(* Types of the channels, the kernels and what is under way. *)
TypeOK ==
    /\ chan \in [Ranks ->
           [coll : 1 .. NumCollectives + 1, entered : Nat, returned : Nat,
            init : BOOLEAN, op : {"SYNCH", "BROADCAST"}, net : Packet,
            packet_element_id : Slots, net_2 : Packet,
            packet_element_id_rcv : Slots]]
    /\ support \in [Ranks ->
           [external : BOOLEAN, received_request : 0 .. num_requests,
            rcv : 0 .. NumRanks, root : Ranks, mess : Packet]]
    /\ broadcast \in [Ranks ->
           Seq([op : {"SYNCH", "BROADCAST"}, src : Ranks, net : Packet])]
    /\ data \in [Ranks -> [Ranks -> Seq(Packet)]]
    /\ control \in [Ranks -> [Ranks -> Seq(1 .. NumCollectives)]]

(* Subsequent broadcasts do not mix, whoever their roots are: every packet   *)
(* on its way to a rank belongs to the broadcast this rank is in, so no rank *)
(* is sent data before it was ready for it.                                  *)
NoIntermixing ==
    \A r \in Ranks : \A net \in UnderWay(data, r) : net[0][1] = chan[r].coll

(* A "ready to receive" counts for the broadcast it was meant for. *)
RequestsInTheirBroadcast ==
    \A r \in Ranks :
        support[r].received_request > 0 =>
            \A k \in UnderWay(control, r) : k = support[r].mess[0][1]

(* What a receiver reads next is the element its call asks for. *)
NextElementRight ==
    \A r \in Ranks :
        LET c == chan[r]
            wanted == <<c.coll, c.entered>>
        IN  (c.returned < c.entered /\ ~ IsRoot(r)) =>
                IF c.packet_element_id_rcv = 0
                THEN \A src \in Waiting(data, r) : Head(data[src][r])[0] = wanted
                ELSE c.net_2[c.packet_element_id_rcv] = wanted

(* A broadcast leaves nothing behind when all ranks are through. *)
NothingLeft ==
    (\A r \in Ranks : chan[r].coll = NumCollectives + 1 /\ support[r].external
                      /\ broadcast[r] = <<>>)
        => data = Quiet /\ control = Quiet

(* A receiver's call needs the root's call for the same element. *)
BcastNeeds(k, r, i) == IF r = Roots[k] THEN {} ELSE {<<Roots[k], i>>}
=============================================================================
