---------------------------- MODULE PointToPoint ----------------------------
(****************************************************************************)
(* SMI_Push and SMI_Pop on one logical port: a sending kernel opens a      *)
(* transient channel, pushes its elements one by one, and opens the next;  *)
(* the receiving kernel does the same with SMI_Pop.  Elements travel in    *)
(* packets of ElementsPerPacket, and with P2P_RENDEZVOUS the receiver      *)
(* returns tokens that allow the sender to push more.                      *)
(*                                                                          *)
(* A transient channel has no identity on the wire: the packets of one     *)
(* channel follow the packets of the one before it on the same port, and   *)
(* the tokens likewise.  The fields `msg' and `limit' of the messages      *)
(* below are history, which no guard reads.                                *)
(****************************************************************************)
EXTENDS SmiHeader, Sequences

CONSTANTS
    BufferSize,         \* depth of ckr_data and ckr_control, in packets
    ElementsPerPacket,  \* data_elements_per_packet() of the data type
    WireDepth,          \* packets the FIFOs from cks_* up to the last CK_R hold
    NumMessages,        \* transient channels opened one after the other
    MessageSizes,       \* the counts a channel may be opened with
    Rendezvous,         \* P2P_RENDEZVOUS is defined
    Immediate,          \* values of SMI_Push_flush's argument `immediate'
    UINT                \* the modulus of unsigned int

MaxTokens == BufferSize * ElementsPerPacket

ASSUME SizesAssumption ==
    /\ BufferSize \in Nat \ {0} /\ BufferSize % 8 = 0
    /\ ElementsPerPacket \in 1 .. 28
    /\ WireDepth \in Nat \ {0}
    /\ NumMessages \in Nat
ASSUME ModeAssumption ==
    Rendezvous \in BOOLEAN /\ Immediate \subseteq BOOLEAN
ASSUME UnsignedAssumption ==
    /\ UINT \in Nat /\ 14 * MaxTokens < UINT
    /\ MessageSizes \subseteq Nat \ {0}
    /\ \A n \in MessageSizes : 2 * n < UINT

VARIABLES
    size,         \* size[m] is the count of the m-th transient channel
    snd,          \* the sender's SMI_Channel and where its kernel stands
    rcv,          \* the receiver's SMI_Channel and where its kernel stands
    dataPath,     \* data packets between SMI_Push and SMI_Pop, oldest first
    dataArrived,  \* how many of them are in the receiver's ckr_data FIFO
    ctlPath,      \* token messages between SMI_Pop and SMI_Push
    ctlArrived    \* how many of them are in the sender's ckr_control FIFO

vars == <<size, snd, rcv, dataPath, dataArrived, ctlPath, ctlArrived>>

Min2(a, b) == IF a < b THEN a ELSE b

(* -- on unsigned int *)
Decrement(tokens) == IF tokens = 0 THEN UINT - 1 ELSE tokens - 1

SizeOf(m) == IF m = 0 THEN 0 ELSE size[m]

Packet == [msg : Nat, first : Nat, elems_and_op : Char]
NoPacket == [msg |-> 0, first |-> 0, elems_and_op |-> 0]
NumElems(packet) == GET_HEADER_NUM_ELEMS(packet.elems_and_op)

-----------------------------------------------------------------------------
(* Init: no channel is open yet.  Message 0 stands for the finished          *)
(* predecessor of the first channel.                                         *)
Init ==
    /\ size \in [1 .. NumMessages -> MessageSizes]
    /\ snd = [pc |-> "ready", msg |-> 0, message_size |-> 0,
              processed_elements |-> 0, packet_element_id |-> 0, tokens |-> 0]
    /\ rcv = [pc |-> "ready", msg |-> 0, message_size |-> 0,
              processed_elements |-> 0, packet_element_id |-> 0, tokens |-> 0,
              net |-> NoPacket, data |-> <<0, 0>>]
    /\ dataPath = <<>> /\ dataArrived = 0
    /\ ctlPath = <<>> /\ ctlArrived = 0

-----------------------------------------------------------------------------
(* The sending kernel. *)

(* Mutant: the last SMI_Push does not wait for the tokens it has run out of. *)
OpenSendEarly ==
    /\ snd.processed_elements = snd.message_size
    /\ snd.msg < NumMessages
    /\ LET count == size[snd.msg + 1]
       IN  snd' = [pc |-> "ready", msg |-> snd.msg + 1, message_size |-> count,
                   processed_elements |-> 0, packet_element_id |-> 0,
                   tokens |-> IF Rendezvous THEN Min2(MaxTokens, count)
                                            ELSE count]
    /\ UNCHANGED <<size, rcv, dataPath, dataArrived, ctlPath, ctlArrived>>

(* SMI_Open_send_channel *)
OpenSend ==
    /\ snd.pc = "ready"
    /\ snd.processed_elements = snd.message_size
    /\ snd.msg < NumMessages
    /\ LET count == size[snd.msg + 1]
       IN  snd' = [pc |-> "ready", msg |-> snd.msg + 1, message_size |-> count,
                   processed_elements |-> 0, packet_element_id |-> 0,
                   tokens |-> IF Rendezvous THEN Min2(MaxTokens, count)
                                            ELSE count]
    /\ UNCHANGED <<size, rcv, dataPath, dataArrived, ctlPath, ctlArrived>>

(* Mutant: the last, partly filled packet of a message is kept back.         *)
LeavesWhenFull(id, processed, message_size, immediate) ==
    id = ElementsPerPacket \/ immediate

(* The packet under construction leaves when it is full, when it holds the  *)
(* last element, or at once on request.                                     *)
Leaves(id, processed, message_size, immediate) ==
    \/ id = ElementsPerPacket
    \/ immediate
    \/ processed = message_size

(* SMI_Push_flush up to its read of ckr_control.  The element is copied into *)
(* the packet under construction.                                           *)
Push(immediate) ==
    /\ snd.pc = "ready"
    /\ snd.processed_elements < snd.message_size
    /\ LET processed == snd.processed_elements + 1
           id        == snd.packet_element_id + 1
           flush     == Leaves(id, processed, snd.message_size, immediate)
           tokens    == IF Rendezvous THEN Decrement(snd.tokens)
                                      ELSE snd.tokens
       IN  /\ flush => Len(dataPath) - dataArrived < WireDepth
           /\ dataPath' = IF flush
                 THEN Append(dataPath,
                        [msg          |-> snd.msg,
                         first        |-> processed - id,
                         elems_and_op |-> SET_HEADER_NUM_ELEMS(SMI_SEND, id)])
                 ELSE dataPath
           /\ snd' = [snd EXCEPT
                 !.pc = IF Rendezvous /\ tokens = 0 THEN "wait" ELSE "ready",
                 !.processed_elements = processed,
                 !.packet_element_id = IF flush THEN 0 ELSE id,
                 !.tokens = tokens]
    /\ UNCHANGED <<size, rcv, dataArrived, ctlPath, ctlArrived>>

(* SMI_Push_flush from its blocking read of ckr_control to its end. *)
ReceiveTokens ==
    /\ snd.pc = "wait"
    /\ ctlArrived > 0
    /\ snd' = [snd EXCEPT !.pc = "ready",
                          !.tokens = (@ + Head(ctlPath).tokens) % UINT]
    /\ ctlPath' = Tail(ctlPath)
    /\ ctlArrived' = ctlArrived - 1
    /\ UNCHANGED <<size, rcv, dataPath, dataArrived>>

-----------------------------------------------------------------------------
(* The receiving kernel. *)

(* SMI_Open_receive_channel *)
OpenReceive ==
    /\ rcv.pc = "ready"
    /\ rcv.processed_elements = rcv.message_size
    /\ rcv.msg < NumMessages
    /\ LET count == size[rcv.msg + 1]
       IN  rcv' = [pc |-> "ready", msg |-> rcv.msg + 1, message_size |-> count,
                   processed_elements |-> 0, packet_element_id |-> 0,
                   tokens |-> IF Rendezvous THEN Min2(MaxTokens \div 8, count)
                                            ELSE count,
                   net |-> NoPacket, data |-> rcv.data]
    /\ UNCHANGED <<size, snd, dataPath, dataArrived, ctlPath, ctlArrived>>

(* Mutant: a quarter of the buffer for every eighth of it that was popped.   *)
GrantsQuarter(message_size, processed) ==
    LET rest == message_size - processed - (MaxTokens * 7) \div 8
    IN  Min2(MaxTokens \div 4, IF rest < 0 THEN 0 ELSE rest)

(* Mutant: the difference is taken in unsigned int and not tested for < 0.   *)
GrantsPastTheEnd(message_size, processed) ==
    Min2(MaxTokens \div 8,
         (message_size - processed - (MaxTokens * 7) \div 8) % UINT)

(* Mutant: the tokens the sender still holds are counted an eighth short.    *)
GrantsSeventh(message_size, processed) ==
    LET rest == message_size - processed - (MaxTokens * 6) \div 8
    IN  Min2(MaxTokens \div 8, IF rest < 0 THEN 0 ELSE rest)

(* What SMI_Pop grants when its tokens run out after `processed' elements:  *)
(* an eighth of the buffer, less at the end of the message, where the       *)
(* sender still holds the other seven eighths.                              *)
Grant(message_size, processed) ==
    LET rest == message_size - processed - (MaxTokens * 7) \div 8
    IN  Min2(MaxTokens \div 8, IF rest < 0 THEN 0 ELSE rest)

(* SMI_Pop up to its write of cks_control.  A new packet is read when the   *)
(* last one is used up.  The copy loop runs over the positions of a packet: *)
(* past them it leaves the application's variable alone.                    *)
Pop ==
    /\ rcv.pc = "ready"
    /\ rcv.processed_elements < rcv.message_size
    /\ rcv.packet_element_id = 0 => dataArrived > 0
    /\ LET read      == rcv.packet_element_id = 0
           net       == IF read THEN Head(dataPath) ELSE rcv.net
           processed == rcv.processed_elements + 1
           id        == rcv.packet_element_id + 1
           tokens    == IF Rendezvous THEN Decrement(rcv.tokens)
                                      ELSE rcv.tokens
           exhausted == Rendezvous /\ tokens = 0
       IN  /\ rcv' = [rcv EXCEPT
                 !.pc = IF exhausted THEN "grant" ELSE "ready",
                 !.processed_elements = processed,
                 !.packet_element_id = IF id = NumElems(net) THEN 0 ELSE id,
                 !.tokens = IF exhausted
                            THEN Grant(rcv.message_size, processed)
                            ELSE tokens,
                 !.net = net,
                 !.data = IF rcv.packet_element_id < ElementsPerPacket
                          THEN <<net.msg, net.first + rcv.packet_element_id>>
                          ELSE @]
           /\ dataPath' = IF read THEN Tail(dataPath) ELSE dataPath
           /\ dataArrived' = IF read THEN dataArrived - 1 ELSE dataArrived
    /\ UNCHANGED <<size, snd, ctlPath, ctlArrived>>

(* Mutant: a message without tokens is not sent.                             *)
SendTokensIfAny ==
    /\ rcv.pc = "grant"
    /\ Len(ctlPath) - ctlArrived < WireDepth
    /\ ctlPath' = IF rcv.tokens = 0 THEN ctlPath ELSE Append(ctlPath,
          [tokens |-> rcv.tokens,
           limit  |-> Min2(rcv.message_size,
                           rcv.processed_elements + MaxTokens)])
    /\ rcv' = [rcv EXCEPT !.pc = "ready"]
    /\ UNCHANGED <<size, snd, dataPath, dataArrived, ctlArrived>>

(* The blocking write of cks_control that ends such a SMI_Pop.  `limit' is  *)
(* the number of elements the sender may have pushed with this grant.       *)
SendTokens ==
    /\ rcv.pc = "grant"
    /\ Len(ctlPath) - ctlArrived < WireDepth
    /\ ctlPath' = Append(ctlPath,
          [tokens |-> rcv.tokens,
           limit  |-> Min2(rcv.message_size,
                           rcv.processed_elements + MaxTokens)])
    /\ rcv' = [rcv EXCEPT !.pc = "ready"]
    /\ UNCHANGED <<size, snd, dataPath, dataArrived, ctlArrived>>

-----------------------------------------------------------------------------
(* The CK kernels move a message into the FIFO of its port.  Their writes   *)
(* block while that FIFO is full.                                           *)

(* Mutant: the write does not wait for room in ckr_data.                     *)
DeliverDataAnyway ==
    /\ dataArrived < Len(dataPath)
    /\ dataArrived' = dataArrived + 1
    /\ UNCHANGED <<size, snd, rcv, dataPath, ctlPath, ctlArrived>>

DeliverData ==
    /\ dataArrived < Len(dataPath)
    /\ dataArrived < BufferSize
    /\ dataArrived' = dataArrived + 1
    /\ UNCHANGED <<size, snd, rcv, dataPath, ctlPath, ctlArrived>>

DeliverControl ==
    /\ ctlArrived < Len(ctlPath)
    /\ ctlArrived < BufferSize
    /\ ctlArrived' = ctlArrived + 1
    /\ UNCHANGED <<size, snd, rcv, dataPath, dataArrived, ctlPath>>

-----------------------------------------------------------------------------
Sender == OpenSend \/ ReceiveTokens \/ \E immediate \in Immediate : Push(immediate)
Receiver == OpenReceive \/ Pop \/ SendTokens

Closed(chan) ==
    chan.pc = "ready" /\ chan.processed_elements = chan.message_size
Done == /\ snd.msg = NumMessages /\ Closed(snd)
        /\ rcv.msg = NumMessages /\ Closed(rcv)

(* Both programs have returned; the kernels stop here. *)
Finished == Done /\ UNCHANGED vars

Next == Sender \/ Receiver \/ DeliverData \/ DeliverControl \/ Finished

(* Every kernel is a pipeline in hardware: it goes on when it is not blocked. *)
Fairness == /\ WF_vars(Sender) /\ WF_vars(Receiver)
            /\ WF_vars(DeliverData) /\ WF_vars(DeliverControl)

Spec == Init /\ [][Next]_vars /\ Fairness

-----------------------------------------------------------------------------
(* Properties *)

Count == 0 .. UINT - 1
ControlMessage == [tokens : Count, limit : Nat]

ChannelOK(chan) ==
    /\ chan.message_size = SizeOf(chan.msg)
    /\ chan.processed_elements <= chan.message_size
    /\ chan.packet_element_id <= chan.processed_elements

SenderType ==
    /\ snd \in [pc : {"ready", "wait"}, msg : 0 .. NumMessages,
                message_size : Count, processed_elements : Count,
                packet_element_id : Count, tokens : Count]
    /\ ChannelOK(snd)

ReceiverType ==
    /\ rcv \in [pc : {"ready", "grant"}, msg : 0 .. NumMessages,
                message_size : Count, processed_elements : Count,
                packet_element_id : Count, tokens : Count,
                net : Packet, data : Nat \X Nat]
    /\ ChannelOK(rcv)

PathsType ==
    /\ dataPath \in Seq(Packet)
    /\ dataArrived \in 0 .. BufferSize /\ dataArrived <= Len(dataPath)
    /\ ctlPath \in Seq(ControlMessage)
    /\ ctlArrived \in 0 .. BufferSize /\ ctlArrived <= Len(ctlPath)

(* Types of the two channel descriptors and of the FIFOs' contents. *)
TypeOK ==
    /\ size \in [1 .. NumMessages -> MessageSizes]
    /\ SenderType /\ ReceiverType /\ PathsType

(* The element that SMI_Pop handed out last is the one the sender pushed at *)
(* that place of the same transient channel: nothing is lost, repeated,     *)
(* reordered or taken from a neighbouring channel on the port.              *)
InOrder ==
    rcv.processed_elements > 0 =>
        rcv.data = <<rcv.msg, rcv.processed_elements - 1>>

(* While both ends are on the same channel, the tokens keep what was pushed *)
(* and not yet popped within the elements the receiver's buffer holds.      *)
WithinBuffer ==
    snd.msg = rcv.msg =>
        snd.processed_elements - rcv.processed_elements <= MaxTokens

(* The packets of one channel then always fit in ckr_data, so that a CK_R  *)
(* never blocks on this port and holds up the traffic of the others.        *)
NeverStalls == snd.msg = rcv.msg => Len(dataPath) <= BufferSize

(* The sender may open its next channel while the receiver has yet to pop   *)
(* seven eighths of a buffer of the last one: no more than that is added to *)
(* what is in flight, and the sender is never two channels ahead.           *)
OverlapBound ==
    /\ snd.msg <= rcv.msg + 1
    /\ snd.msg = rcv.msg + 1 =>
           8 * (snd.processed_elements
                   + rcv.message_size - rcv.processed_elements)
               <= 15 * MaxTokens

(* When the sender leaves a channel, every token of that channel has been   *)
(* used: none is left for the next channel on the port to mistake for its   *)
(* own.                                                                      *)
NoStaleTokens ==
    Rendezvous /\ Closed(snd) => snd.tokens = 0 /\ ctlPath = <<>>

(* Both programs finish all their transient channels. *)
Completes == <>Done

-----------------------------------------------------------------------------
(* What a comment in the code says, and the code does not keep. *)

(* GET_HEADER_NUM_ELEMS (header_message.h:12): "returns the number of valid  *)
(* data elements in the packet", for any N < 32 (header_message.h:17).       *)
CountsElements ==
    \A i \in 1 .. Len(dataPath) :
        NumElems(dataPath[i]) \in 1 .. ElementsPerPacket
=============================================================================
