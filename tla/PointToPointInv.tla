--------------------------- MODULE PointToPointInv --------------------------
(****************************************************************************)
(* The inductive invariant of PointToPoint, in two parts: where the packets *)
(* between the two ends belong (DataInv), and how the tokens of the two     *)
(* ends and of the messages between them add up (TokenInv).                 *)
(****************************************************************************)
EXTENDS PointToPoint

(* The tokens returned at a time, an eighth of MaxTokens.                    *)
Quantum == (BufferSize \div 8) * ElementsPerPacket

-----------------------------------------------------------------------------
(* A position <<m, k>> is before element k of channel m.  The end of one     *)
(* channel and the start of the next are the same place in the stream.       *)
SamePlace(a, b) ==
    \/ a = b
    \/ b[1] = a[1] + 1 /\ b[2] = 0 /\ a[2] = SizeOf(a[1])

Start(packet) == <<packet.msg, packet.first>>
End(packet)   == <<packet.msg, packet.first + NumElems(packet)>>

(* What of the stream has left the sender, and what has entered SMI_Pop.     *)
SentUpTo == <<snd.msg, snd.processed_elements - snd.packet_element_id>>
ReadUpTo ==
    IF rcv.packet_element_id = 0 THEN <<rcv.msg, rcv.processed_elements>>
                                 ELSE End(rcv.net)

PacketOK(packet) ==
    /\ packet.msg \in 1 .. snd.msg
    /\ NumElems(packet) \in 1 .. ElementsPerPacket
    /\ packet.msg = snd.msg =>
           packet.first + NumElems(packet)
               <= snd.processed_elements - snd.packet_element_id
    /\ packet.first + NumElems(packet) <= SizeOf(packet.msg)

SenderPacketInv ==
    /\ snd.packet_element_id < ElementsPerPacket
    /\ snd.packet_element_id <= snd.processed_elements
    /\ snd.processed_elements <= snd.message_size
    /\ snd.processed_elements = snd.message_size => snd.packet_element_id = 0

ReceiverPacketInv ==
    /\ rcv.processed_elements <= rcv.message_size
    /\ rcv.packet_element_id > 0 =>
        /\ PacketOK(rcv.net)
        /\ rcv.net.msg = rcv.msg
        /\ rcv.packet_element_id < NumElems(rcv.net)
        /\ rcv.net.first + rcv.packet_element_id = rcv.processed_elements

(* The packets in flight are the stretch of the stream between the two ends. *)
PathInv ==
    /\ \A i \in 1 .. Len(dataPath) : PacketOK(dataPath[i])
    /\ \A i \in 1 .. Len(dataPath) - 1 :
           SamePlace(End(dataPath[i]), Start(dataPath[i + 1]))
    /\ dataPath # <<>> =>
           /\ SamePlace(ReadUpTo, Start(dataPath[1]))
           /\ SamePlace(End(dataPath[Len(dataPath)]), SentUpTo)
    /\ dataPath = <<>> => \/ SamePlace(ReadUpTo, SentUpTo)
                          \/ SamePlace(SentUpTo, ReadUpTo)

(* The receiver is never past the sender; it may have opened a channel that  *)
(* the sender has yet to open.                                                *)
OrderInv ==
    /\ rcv.msg <= snd.msg + 1
    /\ rcv.msg = snd.msg + 1 =>
           /\ rcv.processed_elements = 0 /\ rcv.packet_element_id = 0
           /\ snd.processed_elements = snd.message_size
    /\ rcv.msg = snd.msg =>
           rcv.processed_elements
               <= snd.processed_elements - snd.packet_element_id

DataInv == /\ SenderPacketInv /\ ReceiverPacketInv
           /\ PathInv /\ OrderInv /\ InOrder

-----------------------------------------------------------------------------
(* Elements the sender may push before it has to wait for tokens.            *)
Allowed == snd.processed_elements + snd.tokens

(* The receiver still has tokens to return for its channel.                  *)
Granting == rcv.tokens \in 1 .. Quantum

(* What the receiver's grants so far, sent to the sender, add up to.         *)
Granted ==
    IF Granting
    THEN IF rcv.pc = "grant"
         THEN rcv.processed_elements + 7 * Quantum
         ELSE Min2(rcv.message_size,
                   rcv.processed_elements + rcv.tokens + 7 * Quantum)
    ELSE rcv.message_size

(* The receiver has sent the last tokens, or rather their absence.           *)
LastSent == rcv.pc = "ready" /\ ~Granting

SenderTokenInv ==
    /\ Allowed <= snd.message_size
    /\ snd.pc = "wait" => snd.tokens = 0
    /\ snd.pc = "ready" /\ snd.processed_elements < snd.message_size
           => snd.tokens > 0

ReceiverTokenInv ==
    /\ rcv.tokens \in 0 .. Quantum \/ rcv.tokens + rcv.processed_elements >= UINT
    /\ Granting => rcv.processed_elements + rcv.tokens <= rcv.message_size
    /\ ~Granting =>
           rcv.message_size <= rcv.processed_elements + 7 * Quantum
    /\ rcv.pc = "grant" =>
           /\ rcv.tokens \in 0 .. Quantum
           /\ rcv.tokens = Grant(rcv.message_size, rcv.processed_elements)

(* The grants in flight lead from what the sender knows to what the receiver *)
(* has sent.                                                                  *)
GrantsInv ==
    /\ ctlPath = <<>> => Allowed = Granted
    /\ ctlPath # <<>> =>
           /\ ctlPath[1].limit = Allowed + ctlPath[1].tokens
           /\ ctlPath[Len(ctlPath)].limit = Granted
           /\ ctlPath[Len(ctlPath)].tokens = 0 <=> LastSent
    /\ \A i \in 1 .. Len(ctlPath) : ctlPath[i].limit <= Granted
    /\ \A i \in 1 .. Len(ctlPath) - 1 :
           /\ ctlPath[i].tokens > 0
           /\ ctlPath[i + 1].limit = ctlPath[i].limit + ctlPath[i + 1].tokens

LinkInv ==
    /\ snd.msg <= rcv.msg + 1
    /\ Closed(snd) => ctlPath = <<>>
    /\ snd.msg = rcv.msg =>
           /\ GrantsInv
           /\ ctlPath = <<>> => (LastSent <=> Closed(snd))
    /\ snd.msg = rcv.msg + 1 =>
           /\ LastSent /\ ctlPath = <<>> /\ ~Closed(snd)
           /\ Allowed = Min2(MaxTokens, snd.message_size)
    /\ rcv.msg = snd.msg + 1 =>
           /\ rcv.pc = "ready"
           /\ rcv.tokens = Min2(Quantum, rcv.message_size)
           /\ ctlPath # <<>> => Len(ctlPath) = 1 /\ ctlPath[1].tokens = 0
           /\ ctlPath = <<>> => Closed(snd)

TokenInv == SenderTokenInv /\ ReceiverTokenInv /\ LinkInv

-----------------------------------------------------------------------------
(* The elements in flight make a bounded, ordered stream.                    *)
Position(chan) == [msg |-> chan.msg, count |-> chan.processed_elements]
Ordered == INSTANCE Stream WITH
    Sizes <- MessageSizes, Synchronous <- Rendezvous, Capacity <- MaxTokens,
    pushed <- Position(snd), popped <- Position(rcv), data <- rcv.data

(* SMI_Push and SMI_Pop implement the stream, its progress included.         *)
ImplementsStream == Ordered!Spec
=============================================================================
