------------------------------- MODULE Gather -------------------------------
(****************************************************************************)
(* SMI_Gather and its support kernel, on every rank, over a sequence of     *)
(* gathers on one port.  The root asks one contributor after the other for  *)
(* its data.  A contributor packs its elements and hands the packets to its *)
(* support kernel, which holds the first one, marked SYNCH, until the       *)
(* request of the root is there.                                            *)
(*                                                                          *)
(* An element is <<gather, contributor, index>>; a packet carries, as       *)
(* history, what it is made of, and a request whom it is from.              *)
(****************************************************************************)
EXTENDS Wires

CONSTANTS
    Roots,              \* Roots[k]: the root of gather k
    SendCounts,         \* send_count of gather k
    RecvCounts,         \* recv_count of gather k
    ElementsPerPacket

NumCollectives == Len(Roots)

VARIABLES
    chan,       \* chan[r]: the SMI_GatherChannel of rank r, its program's place
    support,    \* support[r]: the variables of the support kernel
    gather,     \* gather[r]: the FIFO from the application to the kernel
    data,       \* cks_data to ckr_data
    control     \* cks_control to ckr_control

vars == <<chan, support, gather, data, control>>

Slots     == 0 .. ElementsPerPacket - 1
NoElement == <<0, 0, 0>>
Empty     == [slot \in Slots |-> NoElement]
Elements  == {NoElement} \cup
    UNION {{<<k, r, i>> : r \in Ranks, i \in 1 .. SendCounts[k]} :
           k \in 1 .. NumCollectives}

IsRoot(r) == chan[r].coll <= NumCollectives /\ Roots[chan[r].coll] = r

(* How often rank r calls SMI_Gather in gather k. *)
Calls(k, r) == IF r = Roots[k] THEN NumRanks * SendCounts[k] ELSE SendCounts[k]

(* SMI_Open_gather_channel for gather k *)
Opened(k) ==
    [coll |-> k, entered |-> 0, returned |-> 0, requested |-> FALSE,
     op |-> "SYNCH", next_contrib |-> 0, processed_elements_root |-> 0,
     net |-> Empty, packet_element_id |-> 0, packet_element_id_rcv |-> 0]

Returned(r, c) ==
    IF c.entered = Calls(c.coll, r) THEN Opened(c.coll + 1)
    ELSE [c EXCEPT !.returned = c.entered, !.requested = FALSE]

Idle == [waits |-> FALSE, writes |-> FALSE, from |-> 0,
         mess |-> [op |-> "SYNCH", dst |-> 0, net |-> Empty]]

Init ==
    /\ chan = [r \in Ranks |-> Opened(1)]
    /\ support = [r \in Ranks |-> Idle]
    /\ gather = [r \in Ranks |-> <<>>]
    /\ data = Quiet /\ control = Quiet

-----------------------------------------------------------------------------
(* The application *)

InCall(r) == chan[r].returned < chan[r].entered

(* SMI_Gather is called for the next element. *)
Call(r) ==
    /\ chan[r].coll <= NumCollectives /\ ~ InCall(r)
    /\ chan' = [chan EXCEPT ![r].entered = @ + 1]
    /\ UNCHANGED <<support, gather, data, control>>

(* At the first element of another contributor the root sends a request. *)
Asks(c, r) == c.next_contrib # r /\ c.processed_elements_root = 0

SendRequest(r) ==
    LET c == chan[r]
    IN  /\ InCall(r) /\ IsRoot(r) /\ Asks(c, r) /\ ~ c.requested
        /\ HasRoom(control, r, c.next_contrib)
        /\ control' = Put(control, r, c.next_contrib, c.coll)
        /\ chan' = [chan EXCEPT ![r].requested = TRUE]
        /\ UNCHANGED <<support, gather, data>>

(* The counters of the root after an element: packets end with the           *)
(* contributor, also when they are not full.                                 *)
Counted(c) ==
    IF c.processed_elements_root + 1 = RecvCounts[c.coll]
    THEN [c EXCEPT !.processed_elements_root = 0,
                   !.next_contrib = @ + 1, !.packet_element_id_rcv = 0]
    ELSE [c EXCEPT !.processed_elements_root = @ + 1,
                   !.packet_element_id_rcv = (@ + 1) % ElementsPerPacket]

(* The root's call ends: the element is its own, or of the contributor's     *)
(* packet, which is read when the one before is used up.                     *)
Receive(r) ==
    LET c == chan[r]
    IN  /\ InCall(r) /\ IsRoot(r) /\ (Asks(c, r) => c.requested)
        /\ IF c.next_contrib # r /\ c.packet_element_id_rcv = 0
           THEN \E src \in Waiting(data, r) :
                    /\ data' = Take(data, src, r)
                    /\ chan' = [chan EXCEPT ![r] =
                           Returned(r, Counted([c EXCEPT !.net = Head(data[src][r])]))]
           ELSE chan' = [chan EXCEPT ![r] = Returned(r, Counted(c))] /\ UNCHANGED data
        /\ UNCHANGED <<support, gather, control>>

(* A packet leaves when it is full, and at the end of the gather. *)
Leaves(c) ==
    \/ c.packet_element_id + 1 = ElementsPerPacket
    \/ c.entered = SendCounts[c.coll]

(* A contributor's call. *)
Send(r) ==
    LET c == chan[r]
        packed == [c.net EXCEPT ![c.packet_element_id] = <<c.coll, r, c.entered>>]
        packet == [op |-> c.op, dst |-> Roots[c.coll], net |-> packed]
    IN  /\ InCall(r) /\ ~ IsRoot(r)
        /\ Leaves(c) => gather[r] = <<>>
        /\ gather' = [gather EXCEPT ![r] = IF Leaves(c) THEN <<packet>> ELSE @]
        /\ chan' = [chan EXCEPT ![r] = Returned(r, [c EXCEPT
               !.net = packed,
               !.packet_element_id = IF Leaves(c) THEN 0 ELSE @ + 1,
               !.op = IF Leaves(c) THEN "GATHER" ELSE @])]
        /\ UNCHANGED <<support, data, control>>

-----------------------------------------------------------------------------
(* The support kernel of a contributor *)

(* Mutant: the kernel forwards everything at once.                           *)
MarkedNever(mess) == FALSE

(* The first packet of a gather *)
Marked(mess) == mess.op = "SYNCH"

ReadApplication(r) ==
    LET mess == Head(gather[r])
    IN  /\ ~ support[r].waits /\ ~ support[r].writes /\ gather[r] # <<>>
        /\ gather' = [gather EXCEPT ![r] = <<>>]
        /\ support' = [support EXCEPT ![r].mess = mess,
               ![r].waits = Marked(mess), ![r].writes = ~ Marked(mess)]
        /\ UNCHANGED <<chan, data, control>>

(* The request for the packet marked SYNCH; `from' is history. *)
TakeRequest(r) ==
    /\ support[r].waits
    /\ \E src \in Waiting(control, r) :
           /\ control' = Take(control, src, r)
           /\ support' = [support EXCEPT ![r].waits = FALSE, ![r].writes = TRUE,
                                         ![r].from = src]
    /\ UNCHANGED <<chan, gather, data>>

Forward(r) ==
    LET mess == support[r].mess
    IN  /\ support[r].writes /\ HasRoom(data, r, mess.dst)
        /\ data' = Put(data, r, mess.dst, mess.net)
        /\ support' = [support EXCEPT ![r].writes = FALSE]
        /\ UNCHANGED <<chan, gather, control>>

-----------------------------------------------------------------------------
Application(r) == Call(r) \/ SendRequest(r) \/ Receive(r) \/ Send(r)

Support(r) == ReadApplication(r) \/ TakeRequest(r) \/ Forward(r)

Next == \E r \in Ranks : Application(r) \/ Support(r)

(* Both run on their own whenever no FIFO blocks them. *)
Spec ==
    /\ Init /\ [][Next]_vars
    /\ \A r \in Ranks : WF_vars(Application(r)) /\ WF_vars(Support(r))

-----------------------------------------------------------------------------
(* Properties *)

Packet == [Slots -> Elements]

(* Types of the channels, the kernels and what is under way. *)
TypeOK ==
    /\ chan \in [Ranks ->
           [coll : 1 .. NumCollectives + 1, entered : Nat, returned : Nat,
            requested : BOOLEAN, op : {"SYNCH", "GATHER"},
            next_contrib : 0 .. NumRanks, processed_elements_root : Nat,
            net : Packet, packet_element_id : Slots,
            packet_element_id_rcv : Slots]]
    /\ support \in [Ranks ->
           [waits : BOOLEAN, writes : BOOLEAN, from : Ranks,
            mess : [op : {"SYNCH", "GATHER"}, dst : Ranks, net : Packet]]]
    /\ gather \in [Ranks ->
           Seq([op : {"SYNCH", "GATHER"}, dst : Ranks, net : Packet])]
    /\ data \in [Ranks -> [Ranks -> Seq(Packet)]]
    /\ control \in [Ranks -> [Ranks -> Seq(1 .. NumCollectives)]]

(* A contributor's data waits until the root it goes to has asked for it     *)
(* (gather.cl:6).                                                            *)
WaitsForItsRoot ==
    \A r \in Ranks : support[r].writes => support[r].from = support[r].mess.dst

(* One contributor at a time: what is under way to a root is of its present  *)
(* contributor and gather.                                                   *)
OneContributor ==
    \A r \in Ranks : \A net \in UnderWay(data, r) :
        net[0][1] = chan[r].coll /\ net[0][2] = chan[r].next_contrib

(* What the root reads next is the element its call asks for: contributor    *)
(* after contributor, each one's elements in order.                          *)
NextElementRight ==
    \A r \in Ranks :
        LET c == chan[r]
            size == SendCounts[c.coll]
            wanted == <<c.coll, (c.entered - 1) \div size,
                        ((c.entered - 1) % size) + 1>>
        IN  (InCall(r) /\ IsRoot(r)) =>
                CASE c.next_contrib = r -> wanted[2] = r
                  [] c.next_contrib # r /\ c.packet_element_id_rcv = 0 ->
                         \A src \in Waiting(data, r) : Head(data[src][r])[0] = wanted
                  [] OTHER -> c.net[c.packet_element_id_rcv] = wanted

(* Every packet and every request is used when all ranks are through. *)
NothingLeft ==
    (\A r \in Ranks : chan[r].coll = NumCollectives + 1 /\ ~ support[r].writes
                      /\ gather[r] = <<>>)
        => data = Quiet /\ control = Quiet

(* The root's call needs the call of the contributor whose turn it is. *)
GatherNeeds(k, r, i) ==
    LET contributor == (i - 1) \div SendCounts[k]
    IN  IF r # Roots[k] \/ contributor = r THEN {}
        ELSE {<<contributor, ((i - 1) % SendCounts[k]) + 1>>}
=============================================================================
