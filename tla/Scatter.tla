------------------------------ MODULE Scatter ------------------------------
(****************************************************************************)
(* SMI_Scatter and its support kernel, on every rank, over a sequence of    *)
(* scatters on one port.  The root calls SMI_Scatter for every element of   *)
(* every rank, rank after rank, its own included; it packs the elements and *)
(* offloads the packets of the others to the support kernel, which collects *)
(* a "ready to receive" of every other rank before the first one.           *)
(*                                                                          *)
(* An element is <<scatter, receiver, index>>.                              *)
(****************************************************************************)
EXTENDS Wires

CONSTANTS
    Roots,              \* Roots[k]: the root of scatter k
    Counts,             \* Counts[k]: its send_count
    ElementsPerPacket

NumCollectives == Len(Roots)

VARIABLES
    chan,       \* chan[r]: the SMI_ScatterChannel of rank r, its program's place
    support,    \* support[r]: the variables of the support kernel
    scatter,    \* scatter[r]: the FIFO from the application to the kernel
    data,       \* cks_data to ckr_data
    control     \* cks_control to ckr_control

vars == <<chan, support, scatter, data, control>>

Slots     == 0 .. ElementsPerPacket - 1
NoElement == <<0, 0, 0>>
Elements  == {NoElement} \cup
    UNION {{<<k, r, i>> : r \in Ranks, i \in 1 .. Counts[k]} : k \in 1 .. NumCollectives}
Empty     == [slot \in Slots |-> NoElement]
NoPacket  == [op |-> "SYNCH", dst |-> 0, net |-> Empty]

IsRoot(r) == chan[r].coll <= NumCollectives /\ Roots[chan[r].coll] = r

InCall(r) == chan[r].returned < chan[r].entered

(* How often rank r calls SMI_Scatter in scatter k. *)
Calls(k, r) == IF r = Roots[k] THEN NumRanks * Counts[k] ELSE Counts[k]

(* SMI_Open_scatter_channel for scatter k *)
Opened(k) ==
    [coll |-> k, entered |-> 0, returned |-> 0, init |-> TRUE, op |-> "SYNCH",
     next_rcv |-> 0, processed_elements |-> 0, net |-> Empty,
     packet_element_id |-> 0, net_2 |-> Empty, packet_element_id_rcv |-> 0]

(* The channel when the present call has returned. *)
Returned(r, c) ==
    IF c.entered = Calls(c.coll, r) THEN Opened(c.coll + 1)
                                    ELSE [c EXCEPT !.returned = c.entered]

Init ==
    /\ chan = [r \in Ranks |-> Opened(1)]
    /\ support = [r \in Ranks |->
           [external |-> TRUE, to_be_received_requests |-> 0, mess |-> NoPacket]]
    /\ scatter = [r \in Ranks |-> <<>>]
    /\ data = Quiet /\ control = Quiet

-----------------------------------------------------------------------------
(* The application *)

(* SMI_Scatter is called for the next element. *)
Call(r) ==
    /\ chan[r].coll <= NumCollectives /\ ~ InCall(r)
    /\ chan' = [chan EXCEPT ![r].entered = @ + 1]
    /\ UNCHANGED <<support, scatter, data, control>>

(* The packet is full or holds the last element for its receiver. *)
Leaves(c) ==
    \/ c.packet_element_id + 1 = ElementsPerPacket
    \/ c.processed_elements + 1 = Counts[c.coll]

(* Mutant: the place in the packet is kept from receiver to receiver.        *)
CountedOn(c) ==
    LET last == c.processed_elements + 1 = Counts[c.coll]
    IN  [c EXCEPT
            !.packet_element_id  = (@ + 1) % ElementsPerPacket,
            !.processed_elements = IF last THEN 0 ELSE @ + 1,
            !.next_rcv           = IF last THEN @ + 1 ELSE @]

(* The counters of the root after an element. *)
Counted(c) ==
    LET last == c.processed_elements + 1 = Counts[c.coll]
    IN  [c EXCEPT
            !.packet_element_id  = IF Leaves(c) THEN 0 ELSE @ + 1,
            !.processed_elements = IF last THEN 0 ELSE @ + 1,
            !.next_rcv           = IF last THEN @ + 1 ELSE @]

(* At the root: an element of its own is copied to data_rcv, the others go   *)
(* into the packet of their receiver, which leaves to the support kernel.    *)
(* The program hands the elements over in the order of the receivers.        *)
Send(r) ==
    LET c       == chan[r]
        element == <<c.coll, (c.entered - 1) \div Counts[c.coll],
                     ((c.entered - 1) % Counts[c.coll]) + 1>>
        own     == c.next_rcv = r
        packed  == IF own THEN c.net
                   ELSE [c.net EXCEPT ![c.packet_element_id] = element]
        writes  == Leaves(c) /\ ~ own
    IN  /\ InCall(r) /\ IsRoot(r)
        /\ writes => scatter[r] = <<>>
        /\ scatter' = [scatter EXCEPT ![r] =
               IF writes THEN <<[op |-> c.op, dst |-> c.next_rcv, net |-> packed]>>
               ELSE @]
        /\ chan' = [chan EXCEPT ![r] = Returned(r, [Counted(c) EXCEPT
               !.net = packed, !.op = IF writes THEN "SCATTER" ELSE @])]
        /\ UNCHANGED <<support, data, control>>

(* At the others: the first call tells the root that this rank is ready. *)
SendReady(r) ==
    LET root == Roots[chan[r].coll]
    IN  /\ InCall(r) /\ ~ IsRoot(r) /\ chan[r].init
        /\ HasRoom(control, r, root)
        /\ control' = Put(control, r, root, chan[r].coll)
        /\ chan' = [chan EXCEPT ![r].init = FALSE]
        /\ UNCHANGED <<support, scatter, data>>

(* Then every call takes the next element, of a new packet if need be. *)
Receive(r) ==
    LET c == chan[r]
        with(net) == Returned(r, [c EXCEPT !.net_2 = net,
            !.packet_element_id_rcv = (@ + 1) % ElementsPerPacket])
    IN  /\ InCall(r) /\ ~ IsRoot(r) /\ ~ c.init
        /\ IF c.packet_element_id_rcv = 0
           THEN \E src \in Waiting(data, r) :
                    /\ data' = Take(data, src, r)
                    /\ chan' = [chan EXCEPT ![r] = with(Head(data[src][r]))]
           ELSE chan' = [chan EXCEPT ![r] = with(c.net_2)] /\ UNCHANGED data
        /\ UNCHANGED <<support, scatter, control>>

-----------------------------------------------------------------------------
(* The support kernel of the root *)

num_requests == NumRanks - 1

(* The requests to collect before the packet may go. *)
Requests(s, mess) ==
    IF mess.op = "SYNCH" THEN num_requests ELSE s.to_be_received_requests

(* A packet of the application; SYNCH marks the first one of a scatter. *)
ReadApplication(r) ==
    LET mess == Head(scatter[r])
    IN  /\ support[r].external /\ scatter[r] # <<>>
        /\ scatter' = [scatter EXCEPT ![r] = <<>>]
        /\ support' = [support EXCEPT ![r] =
               [external |-> FALSE, mess |-> mess,
                to_be_received_requests |-> Requests(@, mess)]]
        /\ UNCHANGED <<chan, data, control>>

(* A "ready to receive" *)
TakeRequest(r) ==
    /\ ~ support[r].external /\ support[r].to_be_received_requests # 0
    /\ \E src \in Waiting(control, r) : control' = Take(control, src, r)
    /\ support' = [support EXCEPT ![r].to_be_received_requests = @ - 1]
    /\ UNCHANGED <<chan, scatter, data>>

(* The packet goes to its receiver. *)
Forward(r) ==
    LET mess == support[r].mess
    IN  /\ ~ support[r].external /\ support[r].to_be_received_requests = 0
        /\ HasRoom(data, r, mess.dst)
        /\ data' = Put(data, r, mess.dst, mess.net)
        /\ support' = [support EXCEPT ![r].external = TRUE]
        /\ UNCHANGED <<chan, scatter, control>>

-----------------------------------------------------------------------------
Application(r) == Call(r) \/ Send(r) \/ SendReady(r) \/ Receive(r)

Support(r) == ReadApplication(r) \/ TakeRequest(r) \/ Forward(r)

-----------------------------------------------------------------------------
(* Properties *)

Packet == [Slots -> Elements]

(* Types of the channels, the kernels and what is under way. *)
TypeOK ==
    /\ chan \in [Ranks ->
           [coll : 1 .. NumCollectives + 1, entered : Nat, returned : Nat,
            init : BOOLEAN, op : {"SYNCH", "SCATTER"}, next_rcv : 0 .. NumRanks,
            processed_elements : Nat, net : Packet, packet_element_id : Slots,
            net_2 : Packet, packet_element_id_rcv : Slots]]
    /\ support \in [Ranks ->
           [external : BOOLEAN, to_be_received_requests : 0 .. num_requests,
            mess : [op : {"SYNCH", "SCATTER"}, dst : Ranks, net : Packet]]]
    /\ scatter \in [Ranks ->
           Seq([op : {"SYNCH", "SCATTER"}, dst : Ranks, net : Packet])]
    /\ data \in [Ranks -> [Ranks -> Seq(Packet)]]
    /\ control \in [Ranks -> [Ranks -> Seq(1 .. NumCollectives)]]

(* A packet under way is for the rank it goes to and for the scatter this    *)
(* rank is in.                                                               *)
NoIntermixing ==
    \A r \in Ranks : \A net \in UnderWay(data, r) :
        net[0][1] = chan[r].coll /\ net[0][2] = r

(* A "ready to receive" counts for the scatter it was meant for. *)
RequestsInTheirScatter ==
    \A r \in Ranks :
        support[r].to_be_received_requests > 0 =>
            \A k \in UnderWay(control, r) : k = support[r].mess.net[0][1]

(* What a receiver reads next is the element its call asks for; what the     *)
(* root keeps is its own.                                                    *)
NextElementRight ==
    \A r \in Ranks :
        LET c == chan[r]
            wanted == <<c.coll, r, c.entered>>
            handed == (c.entered - 1) \div Counts[c.coll]
        IN  InCall(r) =>
                CASE IsRoot(r) -> c.next_rcv = handed
                  [] ~ IsRoot(r) /\ c.packet_element_id_rcv = 0 ->
                         \A src \in Waiting(data, r) : Head(data[src][r])[0] = wanted
                  [] OTHER -> c.net_2[c.packet_element_id_rcv] = wanted

(* A receiver's call needs the root's call for its element. *)
ScatterNeeds(k, r, i) == IF r = Roots[k] THEN {} ELSE {<<Roots[k], r * Counts[k] + i>>}

(* Nothing is left behind when all ranks are through. *)
NothingLeft ==
    (\A r \in Ranks : chan[r].coll = NumCollectives + 1 /\ support[r].external
                      /\ scatter[r] = <<>>)
        => data = Quiet /\ control = Quiet
=============================================================================
