------------------------------ MODULE Treecast ------------------------------
(****************************************************************************)
(* SMI_Treecast and its support kernel, on every rank, over a sequence of   *)
(* tree broadcasts on one port.  The kernel of a rank waits until all its   *)
(* children are ready, then tells its parent, and then passes every packet  *)
(* of its parent (of the application, at the root) on to its children and   *)
(* to its application.                                                      *)
(*                                                                          *)
(* An element is <<treecast, index>>.  The stages have the names the code   *)
(* gives them in its comments.  The kernel's `coll' and the requests are    *)
(* history: the treecast it was set up for.                                 *)
(****************************************************************************)
EXTENDS Wires

CONSTANTS
    Roots,              \* Roots[k]: the root of treecast k
    Counts,             \* Counts[k]: its number of elements
    ElementsPerPacket

NumCollectives == Len(Roots)

VARIABLES
    chan,           \* chan[r]: the SMI_TreecastChannel of rank r, its program's place
    support,        \* support[r]: the variables of the support kernel
    treecast_send,  \* treecast_send[r]: the set-up of the kernel
    treecast_data,  \* treecast_data[r]: packets of the root's application
    treecast_recv,  \* treecast_recv[r]: packets for the application
    data,           \* cks_data to ckr_data
    control         \* cks_control to ckr_control

vars == <<chan, support, treecast_send, treecast_data, treecast_recv, data, control>>

Shape(root) == INSTANCE Tree WITH
    MAX_RANKS <- NumRanks, num_rank <- NumRanks, root_rank <- root, at <- root

Parent(k, r)   == Shape(Roots[k])!MyParent(r)
Children(k, r) == [which \in {1, 2} |-> Shape(Roots[k])!Child(which, r)]

Slots     == 0 .. ElementsPerPacket - 1
NoElement == <<0, 0>>
Empty     == [slot \in Slots |-> NoElement]

IsRoot(r) == chan[r].coll <= NumCollectives /\ Roots[chan[r].coll] = r

InCall(r) == chan[r].returned < chan[r].entered

(* SMI_Open_treecast_channel for treecast k *)
Opened(k) ==
    [coll |-> k, entered |-> 0, returned |-> 0, init |-> TRUE,
     net |-> Empty, packet_element_id |-> 0,
     net_2 |-> Empty, packet_element_id_rcv |-> 0]

Returned(c) ==
    IF c.entered = Counts[c.coll] THEN Opened(c.coll + 1)
                                  ELSE [c EXCEPT !.returned = c.entered]

(* The kernel between two treecasts *)
Idle == [stage |-> "INIT", coll |-> 0, parent |-> -1, children |-> <<-1, -1>>,
         remaining_elems |-> 0, received_request |-> 0, sent |-> {}, mess_data |-> Empty]

Init ==
    /\ chan = [r \in Ranks |-> Opened(1)]
    /\ support = [r \in Ranks |-> Idle]
    /\ treecast_send = [r \in Ranks |-> <<>>]
    /\ treecast_data = [r \in Ranks |-> <<>>]
    /\ treecast_recv = [r \in Ranks |-> <<>>]
    /\ data = Quiet /\ control = Quiet

-----------------------------------------------------------------------------
(* The application *)

(* SMI_Treecast is called for the next element. *)
Call(r) ==
    /\ chan[r].coll <= NumCollectives /\ ~ InCall(r)
    /\ chan' = [chan EXCEPT ![r].entered = @ + 1]
    /\ UNCHANGED <<support, treecast_send, treecast_data, treecast_recv, data, control>>

(* num_mes: the packets of a treecast *)
Packets(count) == (count + ElementsPerPacket - 1) \div ElementsPerPacket

(* The first call tells the kernel its place in the tree and how many        *)
(* packets there will be. *)
SetUp(r) ==
    LET k == chan[r].coll
    IN  /\ InCall(r) /\ chan[r].init /\ treecast_send[r] = <<>>
        /\ treecast_send' = [treecast_send EXCEPT ![r] =
               <<[coll |-> k, parent |-> Parent(k, r), children |-> Children(k, r),
                  packets |-> Packets(Counts[k])]>>]
        /\ chan' = [chan EXCEPT ![r].init = FALSE]
        /\ UNCHANGED <<support, treecast_data, treecast_recv, data, control>>

(* A packet leaves when it is full, and at the end of the treecast. *)
Leaves(c) ==
    \/ c.packet_element_id + 1 = ElementsPerPacket
    \/ c.entered = Counts[c.coll]

Send(r) ==
    LET c      == chan[r]
        packed == [c.net EXCEPT ![c.packet_element_id] = <<c.coll, c.entered>>]
    IN  /\ InCall(r) /\ IsRoot(r) /\ ~ c.init
        /\ Leaves(c) => treecast_data[r] = <<>>
        /\ treecast_data' = [treecast_data EXCEPT ![r] =
               IF Leaves(c) THEN <<packed>> ELSE @]
        /\ chan' = [chan EXCEPT ![r] = Returned([c EXCEPT !.net = packed,
               !.packet_element_id = IF Leaves(c) THEN 0 ELSE @ + 1])]
        /\ UNCHANGED <<support, treecast_send, treecast_recv, data, control>>

(* At the others every call takes the next element, of a new packet if need  *)
(* be. *)
Receive(r) ==
    LET c == chan[r]
        with(net) == Returned([c EXCEPT !.net_2 = net,
            !.packet_element_id_rcv = (@ + 1) % ElementsPerPacket])
    IN  /\ InCall(r) /\ ~ IsRoot(r) /\ ~ c.init
        /\ IF c.packet_element_id_rcv = 0
           THEN /\ treecast_recv[r] # <<>>
                /\ treecast_recv' = [treecast_recv EXCEPT ![r] = <<>>]
                /\ chan' = [chan EXCEPT ![r] = with(Head(treecast_recv[r]))]
           ELSE chan' = [chan EXCEPT ![r] = with(c.net_2)] /\ UNCHANGED treecast_recv
        /\ UNCHANGED <<support, treecast_send, treecast_data, data, control>>

-----------------------------------------------------------------------------
(* The support kernel *)

(* The next stage when a packet is due: it is the last one's end if none is. *)
Awaiting(s) ==
    CASE s.remaining_elems <= 0 -> "INIT"
      [] s.remaining_elems > 0 /\ s.parent = -1 -> "ROOT_RECV"
      [] OTHER -> "CHILD_RECV"

ReadSetUp(r) ==
    LET mess == Head(treecast_send[r])
    IN  /\ support[r].stage = "INIT" /\ treecast_send[r] # <<>>
        /\ treecast_send' = [treecast_send EXCEPT ![r] = <<>>]
        /\ support' = [support EXCEPT ![r] = [@ EXCEPT
               !.stage = "WAIT_CHILDREN", !.coll = mess.coll, !.parent = mess.parent,
               !.children = mess.children, !.remaining_elems = mess.packets,
               !.received_request =
                   Len(SelectSeq(mess.children, LAMBDA child : child # -1))]]
        /\ UNCHANGED <<chan, treecast_data, treecast_recv, data, control>>

(* Mutant: a rank is ready when its first child is.                          *)
AllReadyEarly(s) == s.received_request < 2

AllReady(s) == s.received_request = 0

TakeRequest(r) ==
    /\ support[r].stage = "WAIT_CHILDREN" /\ ~ AllReady(support[r])
    /\ \E src \in Waiting(control, r) : control' = Take(control, src, r)
    /\ support' = [support EXCEPT ![r].received_request = @ - 1]
    /\ UNCHANGED <<chan, treecast_send, treecast_data, treecast_recv, data>>

(* The children are ready: so is this rank, and all of them at the root. *)
SendReady(r) ==
    LET s == support[r]
    IN  /\ s.stage = "WAIT_CHILDREN" /\ AllReady(s)
        /\ IF s.parent = -1 THEN UNCHANGED control
           ELSE HasRoom(control, r, s.parent)
                /\ control' = Put(control, r, s.parent, s.coll)
        /\ support' = [support EXCEPT ![r].stage = Awaiting(s)]
        /\ UNCHANGED <<chan, treecast_send, treecast_data, treecast_recv, data>>

(* The next packet, of the application or of the parent *)
TakePacket(r) ==
    LET next(s, packet) == [s EXCEPT !.stage = "SEND", !.mess_data = packet,
                                     !.remaining_elems = @ - 1]
    IN  /\ \/ /\ support[r].stage = "ROOT_RECV" /\ treecast_data[r] # <<>>
              /\ treecast_data' = [treecast_data EXCEPT ![r] = <<>>]
              /\ support' = [support EXCEPT ![r] = next(@, Head(treecast_data[r]))]
              /\ UNCHANGED data
           \/ /\ support[r].stage = "CHILD_RECV"
              /\ \E src \in Waiting(data, r) :
                     /\ data' = Take(data, src, r)
                     /\ support' = [support EXCEPT ![r] = next(@, Head(data[src][r]))]
              /\ UNCHANGED treecast_data
        /\ UNCHANGED <<chan, treecast_send, treecast_recv, control>>

Unsent(s) == {which \in {1, 2} \ s.sent : s.children[which] # -1}

(* It goes to the first child that has not got it, *)
SendToChild(r) ==
    LET s == support[r]
        which == IF 1 \in Unsent(s) THEN 1 ELSE 2
    IN  /\ s.stage = "SEND" /\ Unsent(s) # {}
        /\ HasRoom(data, r, s.children[which])
        /\ data' = Put(data, r, s.children[which], s.mess_data)
        /\ support' = [support EXCEPT ![r].sent = @ \cup {which}]
        /\ UNCHANGED <<chan, treecast_send, treecast_data, treecast_recv, control>>

(* and at last, unless this rank is the root, to the application. *)
SendToApplication(r) ==
    LET s == support[r]
    IN  /\ s.stage = "SEND" /\ Unsent(s) = {}
        /\ IF s.parent = -1 THEN UNCHANGED treecast_recv
           ELSE /\ treecast_recv[r] = <<>>
                /\ treecast_recv' = [treecast_recv EXCEPT ![r] = <<s.mess_data>>]
        /\ support' = [support EXCEPT ![r].sent = {}, ![r].stage = Awaiting(s)]
        /\ UNCHANGED <<chan, treecast_send, treecast_data, data, control>>

-----------------------------------------------------------------------------
Application(r) == Call(r) \/ SetUp(r) \/ Send(r) \/ Receive(r)

Support(r) ==
    \/ ReadSetUp(r) \/ TakeRequest(r) \/ SendReady(r)
    \/ TakePacket(r) \/ SendToChild(r) \/ SendToApplication(r)

-----------------------------------------------------------------------------
(* Properties *)

(* Every packet on its way to a rank is of the treecast its kernel is at, and *)
(* from its parent in that one's tree.                                       *)
FromParent ==
    \A src, r \in Ranks : \A i \in 1 .. Len(data[src][r]) :
        /\ data[src][r][i][0][1] = support[r].coll
        /\ src = Parent(support[r].coll, r)

(* A "ready to receive" counts for the treecast it was meant for, and the    *)
(* rank that counts it is its sender's parent there.                         *)
ReadyOfChildren ==
    \A src, r \in Ranks : \A i \in 1 .. Len(control[src][r]) :
        (support[r].stage = "WAIT_CHILDREN" /\ ~ AllReady(support[r])) =>
            /\ control[src][r][i] = support[r].coll
            /\ r = Parent(support[r].coll, src)

(* What a receiver reads next is the element its call asks for. *)
NextElementRight ==
    \A r \in Ranks :
        LET c == chan[r]
            wanted == <<c.coll, c.entered>>
        IN  (InCall(r) /\ ~ IsRoot(r) /\ ~ c.init) =>
                IF c.packet_element_id_rcv = 0
                THEN treecast_recv[r] # <<>> => Head(treecast_recv[r])[0] = wanted
                ELSE c.net_2[c.packet_element_id_rcv] = wanted
=============================================================================
