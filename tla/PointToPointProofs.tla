------------------------- MODULE PointToPointProofs -------------------------
(****************************************************************************)
(* Theorems about PointToPoint, for every buffer size, packet size, number  *)
(* of channels and message sizes.                                           *)
(****************************************************************************)
EXTENDS PointToPointInv, SequenceTheorems, TLAPS

-----------------------------------------------------------------------------
(* Arithmetic of the header and of the token counters. *)

LEMMA HeaderType ==
    ASSUME NEW op \in Int, NEW n \in Int
    PROVE  SET_HEADER_NUM_ELEMS(op, n) \in Char
BY DEF SET_HEADER_NUM_ELEMS, ToChar, Char

(* Fewer than 16 elements fit the signed five bits of elems_and_op. *)
LEMMA HeaderRoundTrip ==
    ASSUME NEW n \in 0 .. 15
    PROVE  GET_HEADER_NUM_ELEMS(SET_HEADER_NUM_ELEMS(SMI_SEND, n)) = n
BY DEF GET_HEADER_NUM_ELEMS, SET_HEADER_NUM_ELEMS, ToChar, SMI_SEND

LEMMA MaxTokensType == MaxTokens \in Nat \ {0}
BY SizesAssumption DEF MaxTokens

(* The buffer is eight quanta because BufferSize is a multiple of eight. *)
LEMMA QuantumType ==
    /\ Quantum \in Nat \ {0}
    /\ MaxTokens = 8 * Quantum
    /\ MaxTokens \div 8 = Quantum
    /\ (MaxTokens * 7) \div 8 = 7 * Quantum
<1> DEFINE e == BufferSize \div 8
<1>1. e \in Nat \ {0} /\ BufferSize = 8 * e
  BY SizesAssumption
<1>2. Quantum = e * ElementsPerPacket
  BY DEF Quantum
<1> HIDE DEF e
<1>3. Quantum \in Nat \ {0}
  BY <1>1, <1>2, SizesAssumption
<1>4. MaxTokens = 8 * Quantum
  BY <1>1, <1>2, SizesAssumption DEF MaxTokens
<1>5. (8 * Quantum) \div 8 = Quantum /\ ((8 * Quantum) * 7) \div 8 = 7 * Quantum
  BY <1>3
<1> QED  BY <1>3, <1>4, <1>5

LEMMA MessageSizeType ==
    ASSUME NEW n \in MessageSizes
    PROVE  n \in Nat /\ n > 0 /\ 2 * n < UINT
BY UnsignedAssumption

LEMMA UnsignedType ==
    UINT \in Nat /\ 14 * MaxTokens < UINT /\ UINT > 0
BY UnsignedAssumption, MaxTokensType
-----------------------------------------------------------------------------
(* Types. *)

LEMMA SizeOfType ==
    ASSUME size \in [1 .. NumMessages -> MessageSizes], NEW m \in 0 .. NumMessages
    PROVE  SizeOf(m) \in Nat /\ 2 * SizeOf(m) < UINT /\ (m > 0 => SizeOf(m) > 0)
BY MessageSizeType, UnsignedType, SizesAssumption DEF SizeOf

LEMMA GrantType ==
    ASSUME NEW n \in Nat, NEW processed \in Nat
    PROVE  Grant(n, processed) \in 0 .. Quantum
BY QuantumType DEF Grant, Min2

LEMMA TypeInit == Init => TypeOK
<1> SUFFICES ASSUME Init PROVE TypeOK
  OBVIOUS
<1>1. 0 \in Count /\ 0 \in 0 .. NumMessages /\ 0 \in 0 .. BufferSize
  BY UnsignedType, SizesAssumption DEF Count
<1>2. NoPacket \in Packet
  BY DEF NoPacket, Packet, Char
<1>3. SenderType
  BY <1>1 DEF Init, SenderType, ChannelOK, SizeOf
<1>4. ReceiverType
  BY <1>1, <1>2 DEF Init, ReceiverType, ChannelOK, SizeOf
<1>5. PathsType
  BY <1>1 DEF Init, PathsType
<1> QED  BY <1>3, <1>4, <1>5 DEF Init, TypeOK

(* A step that leaves a descriptor or the FIFOs alone keeps their types. *)
LEMMA TypeUnchanged ==
    /\ SenderType /\ UNCHANGED <<size, snd>> => SenderType'
    /\ ReceiverType /\ UNCHANGED <<size, rcv>> => ReceiverType'
    /\ PathsType /\ UNCHANGED <<dataPath, dataArrived, ctlPath, ctlArrived>>
           => PathsType'
BY DEF SenderType, ReceiverType, PathsType, ChannelOK, SizeOf

LEMMA TypeStep == TypeOK /\ [Next]_vars => TypeOK'
<1> SUFFICES ASSUME TypeOK, [Next]_vars PROVE TypeOK'
  OBVIOUS
<1> USE UnsignedType
<1>0. /\ size \in [1 .. NumMessages -> MessageSizes]
      /\ SenderType /\ ReceiverType /\ PathsType
  BY DEF TypeOK
<1>1. CASE OpenSend
  <2> DEFINE count == size[snd.msg + 1]
  <2>1. snd.msg + 1 \in 1 .. NumMessages /\ count \in MessageSizes
    BY <1>0, <1>1, SizesAssumption DEF OpenSend, SenderType
  <2>2. count \in Count /\ Min2(MaxTokens, count) \in Count /\ 0 \in Count
    BY <2>1, MessageSizeType, MaxTokensType DEF Count, Min2
  <2>3. SizeOf(snd.msg + 1) = count
    BY <1>0, <2>1 DEF SizeOf, SenderType
  <2>4. snd' = [pc |-> "ready", msg |-> snd.msg + 1, message_size |-> count,
                processed_elements |-> 0, packet_element_id |-> 0,
                tokens |-> IF Rendezvous THEN Min2(MaxTokens, count) ELSE count]
    BY <1>1 DEF OpenSend
  <2>5. UNCHANGED <<size, rcv, dataPath, dataArrived, ctlPath, ctlArrived>>
    BY <1>1 DEF OpenSend
  <2> HIDE DEF count
  <2>6. SenderType'
    BY <2>1, <2>2, <2>3, <2>4, <2>5 DEF SenderType, ChannelOK, SizeOf, Count
  <2> QED  BY <1>0, <2>5, <2>6, TypeUnchanged DEF TypeOK
<1>2. ASSUME NEW immediate \in Immediate, Push(immediate) PROVE TypeOK'
  <2> DEFINE processed == snd.processed_elements + 1
             id == snd.packet_element_id + 1
             flush == Leaves(id, processed, snd.message_size, immediate)
             tokens == IF Rendezvous THEN Decrement(snd.tokens)
                                     ELSE snd.tokens
             packet == [msg |-> snd.msg, first |-> processed - id,
                        elems_and_op |-> SET_HEADER_NUM_ELEMS(SMI_SEND, id)]
  <2>1. /\ snd' = [snd EXCEPT
                     !.pc = IF Rendezvous /\ tokens = 0 THEN "wait" ELSE "ready",
                     !.processed_elements = processed,
                     !.packet_element_id = IF flush THEN 0 ELSE id,
                     !.tokens = tokens]
        /\ snd.processed_elements < snd.message_size
        /\ dataPath' = IF flush THEN Append(dataPath, packet) ELSE dataPath
        /\ UNCHANGED <<size, rcv, dataArrived, ctlPath, ctlArrived>>
    BY <1>2 DEF Push
  <2>2. /\ processed \in Count /\ id \in Count /\ 0 \in Count
        /\ processed <= snd.message_size /\ id <= processed
    BY SMTT(60), <1>0, <2>1 DEF SenderType, ChannelOK, Count
  <2>t. tokens \in Count
    BY <1>0 DEF SenderType, Count, Decrement
  <2>3. packet \in Packet
    BY <1>0, <2>2, HeaderType DEF SenderType, ChannelOK, Packet, Count, SMI_SEND
  <2>4. SenderType'
    <3> HIDE DEF tokens, flush, processed, id, packet
    <3>1. snd' \in [pc : {"ready", "wait"}, msg : 0 .. NumMessages,
                    message_size : Count, processed_elements : Count,
                    packet_element_id : Count, tokens : Count]
      BY <1>0, <2>1, <2>2, <2>t DEF SenderType
    <3>2. /\ snd'.processed_elements = processed /\ snd'.msg = snd.msg
          /\ snd'.message_size = snd.message_size
          /\ snd'.packet_element_id = IF flush THEN 0 ELSE id
      BY <1>0, <2>1 DEF SenderType
    <3>3. 0 <= processed
      BY <2>2 DEF Count
    <3> QED  BY <1>0, <2>1, <2>2, <3>1, <3>2, <3>3
                DEF SenderType, ChannelOK, SizeOf
  <2>5. PathsType'
    <3> HIDE DEF packet, flush
    <3> QED  BY <1>0, <2>1, <2>3, AppendProperties DEF PathsType
  <2> QED  BY <1>0, <2>1, <2>4, <2>5, TypeUnchanged DEF TypeOK
<1>3. CASE ReceiveTokens
  <2>1. /\ snd' = [snd EXCEPT !.pc = "ready",
                     !.tokens = (snd.tokens + Head(ctlPath).tokens) % UINT]
        /\ ctlArrived > 0
        /\ ctlPath' = Tail(ctlPath) /\ ctlArrived' = ctlArrived - 1
        /\ UNCHANGED <<size, rcv, dataPath, dataArrived>>
    BY <1>3 DEF ReceiveTokens
  <2>e. ctlPath # <<>>
    BY <1>0, <2>1 DEF PathsType
  <2>h. Head(ctlPath) \in ControlMessage
    BY <1>0, <2>e, HeadTailProperties DEF PathsType
  <2>2. Head(ctlPath).tokens \in Count
    BY <2>h DEF ControlMessage
  <2>3. (snd.tokens + Head(ctlPath).tokens) % UINT \in Count
    BY <1>0, <2>2 DEF SenderType, Count
  <2>4. SenderType'
    BY <1>0, <2>1, <2>3 DEF SenderType, ChannelOK, SizeOf
  <2>5. PathsType'
    BY <1>0, <2>1, <2>e, HeadTailProperties, SizesAssumption DEF PathsType
  <2> QED  BY <1>0, <2>1, <2>4, <2>5, TypeUnchanged DEF TypeOK
<1>4. CASE OpenReceive
  <2> DEFINE count == size[rcv.msg + 1]
  <2>1. rcv.msg + 1 \in 1 .. NumMessages /\ count \in MessageSizes
    BY <1>0, <1>4, SizesAssumption DEF OpenReceive, ReceiverType
  <2>2. count \in Count /\ Min2(MaxTokens \div 8, count) \in Count /\ 0 \in Count
    BY <2>1, MessageSizeType, QuantumType DEF Count, Min2
  <2>3. SizeOf(rcv.msg + 1) = count /\ NoPacket \in Packet
    BY <1>0, <2>1 DEF SizeOf, ReceiverType, NoPacket, Packet, Char
  <2>4. rcv' = [pc |-> "ready", msg |-> rcv.msg + 1, message_size |-> count,
                processed_elements |-> 0, packet_element_id |-> 0,
                tokens |-> IF Rendezvous THEN Min2(MaxTokens \div 8, count)
                                         ELSE count,
                net |-> NoPacket, data |-> rcv.data]
    BY <1>4 DEF OpenReceive
  <2>5. UNCHANGED <<size, snd, dataPath, dataArrived, ctlPath, ctlArrived>>
    BY <1>4 DEF OpenReceive
  <2> HIDE DEF count
  <2>6. ReceiverType'
    BY SMTT(60), <1>0, <2>1, <2>2, <2>3, <2>4, <2>5
       DEF ReceiverType, ChannelOK, SizeOf, Count
  <2> QED  BY <1>0, <2>5, <2>6, TypeUnchanged DEF TypeOK
<1>5. CASE Pop
  <2> DEFINE read == rcv.packet_element_id = 0
             net == IF read THEN Head(dataPath) ELSE rcv.net
             processed == rcv.processed_elements + 1
             id == rcv.packet_element_id + 1
             tokens == IF Rendezvous THEN Decrement(rcv.tokens)
                                     ELSE rcv.tokens
             exhausted == Rendezvous /\ tokens = 0
             left == IF exhausted THEN Grant(rcv.message_size, processed)
                                  ELSE tokens
             elem == IF rcv.packet_element_id < ElementsPerPacket
                     THEN <<net.msg, net.first + rcv.packet_element_id>>
                     ELSE rcv.data
  <2>1. /\ rcv' = [rcv EXCEPT
                     !.pc = IF exhausted THEN "grant" ELSE "ready",
                     !.processed_elements = processed,
                     !.packet_element_id = IF id = NumElems(net) THEN 0 ELSE id,
                     !.tokens = left, !.net = net, !.data = elem]
        /\ rcv.processed_elements < rcv.message_size
        /\ read => dataArrived > 0
        /\ dataPath' = IF read THEN Tail(dataPath) ELSE dataPath
        /\ dataArrived' = IF read THEN dataArrived - 1 ELSE dataArrived
        /\ UNCHANGED <<size, snd, ctlPath, ctlArrived>>
    BY <1>5 DEF Pop
  <2>e. read => dataPath # <<>>
    BY <1>0, <2>1 DEF PathsType
  <2>2. net \in Packet
    BY <1>0, <2>e, HeadTailProperties DEF PathsType, ReceiverType
  <2>3. /\ processed \in Count /\ id \in Count /\ 0 \in Count
        /\ processed <= rcv.message_size /\ id <= processed
    BY SMTT(60), <1>0, <2>1 DEF ReceiverType, ChannelOK, Count
  <2>t. tokens \in Count
    BY <1>0 DEF ReceiverType, Count, Decrement
  <2>4. left \in Count
    <3>1. Grant(rcv.message_size, processed) \in 0 .. Quantum
      <4>1. rcv.message_size \in Nat /\ processed \in Nat
        BY <1>0, <2>3 DEF ReceiverType, Count
      <4> HIDE DEF processed
      <4> QED  BY <4>1, GrantType
    <3> HIDE DEF tokens, processed
    <3> QED  BY <2>t, <3>1, QuantumType DEF Count
  <2>5. elem \in Nat \X Nat
    <3> HIDE DEF net
    <3> QED  BY SMTT(60), <1>0, <2>2 DEF ReceiverType, Packet, Count
  <2>6. ReceiverType'
    <3> HIDE DEF net, left, elem, exhausted, processed, id, tokens
    <3>1. rcv' \in [pc : {"ready", "grant"}, msg : 0 .. NumMessages,
                    message_size : Count, processed_elements : Count,
                    packet_element_id : Count, tokens : Count,
                    net : Packet, data : Nat \X Nat]
      BY <1>0, <2>1, <2>2, <2>3, <2>4, <2>5 DEF ReceiverType
    <3>2. /\ rcv'.processed_elements = processed /\ rcv'.msg = rcv.msg
          /\ rcv'.message_size = rcv.message_size
          /\ rcv'.packet_element_id = IF id = NumElems(net) THEN 0 ELSE id
      BY <1>0, <2>1 DEF ReceiverType
    <3>3. 0 <= processed
      BY <2>3 DEF Count
    <3> QED  BY <1>0, <2>1, <2>3, <3>1, <3>2, <3>3
                DEF ReceiverType, ChannelOK, SizeOf
  <2>7. PathsType'
    BY <1>0, <2>1, <2>e, HeadTailProperties, SizesAssumption DEF PathsType
  <2> QED  BY <1>0, <2>1, <2>6, <2>7, TypeUnchanged DEF TypeOK
<1>6. CASE SendTokens
  <2> DEFINE limit == Min2(rcv.message_size, rcv.processed_elements + MaxTokens)
  <2>1. /\ rcv' = [rcv EXCEPT !.pc = "ready"]
        /\ ctlPath' = Append(ctlPath, [tokens |-> rcv.tokens, limit |-> limit])
        /\ UNCHANGED <<size, snd, dataPath, dataArrived, ctlArrived>>
    BY <1>6 DEF SendTokens
  <2>2. limit \in Nat /\ rcv.tokens \in Count
    BY <1>0, MaxTokensType DEF ReceiverType, Count, Min2
  <2>3. ReceiverType'
    BY <1>0, <2>1 DEF ReceiverType, ChannelOK, SizeOf
  <2>4. PathsType'
    <3> HIDE DEF limit
    <3>1. [tokens |-> rcv.tokens, limit |-> limit] \in ControlMessage
      BY <2>2 DEF ControlMessage
    <3> QED  BY <1>0, <2>1, <3>1, AppendProperties DEF PathsType
  <2> QED  BY <1>0, <2>1, <2>3, <2>4, TypeUnchanged DEF TypeOK
<1>7. CASE DeliverData
  <2>1. PathsType'
    BY <1>0, <1>7, SizesAssumption DEF DeliverData, PathsType
  <2> QED  BY <1>0, <1>7, <2>1, TypeUnchanged DEF DeliverData, TypeOK
<1>8. CASE DeliverControl
  <2>1. PathsType'
    BY <1>0, <1>8, SizesAssumption DEF DeliverControl, PathsType
  <2> QED  BY <1>0, <1>8, <2>1, TypeUnchanged DEF DeliverControl, TypeOK
<1>9. CASE UNCHANGED vars
  BY <1>0, <1>9, TypeUnchanged DEF vars, TypeOK
<1> QED
  BY <1>1, <1>2, <1>3, <1>4, <1>5, <1>6, <1>7, <1>8, <1>9
     DEF Next, Sender, Receiver, Finished

THEOREM TypeCorrect == Spec => []TypeOK
BY TypeInit, TypeStep, PTL DEF Spec
-----------------------------------------------------------------------------
(* What the actions do to the fields of the descriptors. *)

LEMMA OpenSendStep ==
    ASSUME TypeOK, OpenSend
    PROVE  /\ snd.processed_elements = snd.message_size /\ snd.pc = "ready"
           /\ snd.msg \in 0 .. NumMessages - 1
           /\ snd'.msg = snd.msg + 1 /\ snd'.pc = "ready"
           /\ snd'.message_size = SizeOf(snd.msg + 1)
           /\ snd'.message_size \in Nat \ {0}
           /\ snd'.processed_elements = 0 /\ snd'.packet_element_id = 0
           /\ Rendezvous => snd'.tokens = Min2(MaxTokens, snd'.message_size)
           /\ UNCHANGED <<size, rcv, dataPath, ctlPath>>
<1>1. snd.msg \in 0 .. NumMessages - 1
  BY SizesAssumption DEF OpenSend, TypeOK, SenderType
<1>2. SizeOf(snd.msg + 1) = size[snd.msg + 1] /\ size[snd.msg + 1] \in Nat \ {0}
  BY SMTT(60), <1>1, SizesAssumption, MessageSizeType DEF SizeOf, TypeOK
<1> QED  BY <1>1, <1>2 DEF OpenSend

LEMMA PushStep ==
    ASSUME TypeOK, NEW immediate \in Immediate, Push(immediate)
    PROVE  /\ snd.processed_elements < snd.message_size /\ snd.pc = "ready"
           /\ snd'.msg = snd.msg /\ snd'.message_size = snd.message_size
           /\ snd'.processed_elements = snd.processed_elements + 1
           /\ Rendezvous =>
                 /\ snd'.tokens = Decrement(snd.tokens)
                 /\ snd'.pc = IF snd'.tokens = 0 THEN "wait" ELSE "ready"
           /\ \/ /\ snd'.packet_element_id = snd.packet_element_id + 1
                 /\ snd'.packet_element_id # ElementsPerPacket
                 /\ snd'.processed_elements # snd.message_size
                 /\ dataPath' = dataPath
              \/ /\ snd'.packet_element_id = 0
                 /\ \E packet \in Packet :
                       /\ packet.msg = snd.msg
                       /\ packet.first = snd.processed_elements
                                          - snd.packet_element_id
                       /\ packet.elems_and_op = SET_HEADER_NUM_ELEMS(SMI_SEND,
                                                   snd.packet_element_id + 1)
                       /\ dataPath' = Append(dataPath, packet)
           /\ UNCHANGED <<size, rcv, ctlPath>>
<1> DEFINE processed == snd.processed_elements + 1
           id        == snd.packet_element_id + 1
           flush     == Leaves(id, processed, snd.message_size, immediate)
           tokens    == IF Rendezvous THEN Decrement(snd.tokens)
                                      ELSE snd.tokens
           packet    == [msg |-> snd.msg, first |-> processed - id,
                         elems_and_op |-> SET_HEADER_NUM_ELEMS(SMI_SEND, id)]
<1>1. /\ snd' = [snd EXCEPT
                    !.pc = IF Rendezvous /\ tokens = 0 THEN "wait" ELSE "ready",
                    !.processed_elements = processed,
                    !.packet_element_id = IF flush THEN 0 ELSE id,
                    !.tokens = tokens]
      /\ dataPath' = IF flush THEN Append(dataPath, packet) ELSE dataPath
      /\ snd.processed_elements < snd.message_size /\ snd.pc = "ready"
      /\ UNCHANGED <<size, rcv, ctlPath>>
  BY DEF Push
<1>2. snd \in [pc : {"ready", "wait"}, msg : 0 .. NumMessages,
               message_size : Count, processed_elements : Count,
               packet_element_id : Count, tokens : Count]
  BY DEF TypeOK, SenderType
<1>3. /\ snd'.msg = snd.msg /\ snd'.message_size = snd.message_size
      /\ snd'.processed_elements = processed
      /\ snd'.packet_element_id = IF flush THEN 0 ELSE id
      /\ snd'.tokens = tokens
      /\ snd'.pc = IF Rendezvous /\ tokens = 0 THEN "wait" ELSE "ready"
  <2> HIDE DEF processed, id, flush, tokens
  <2> QED  BY <1>1, <1>2
<1>4. Rendezvous =>
        /\ snd'.tokens = Decrement(snd.tokens)
        /\ snd'.pc = IF snd'.tokens = 0 THEN "wait" ELSE "ready"
  BY <1>3
<1>5. \/ /\ ~flush /\ snd'.packet_element_id = id /\ dataPath' = dataPath
      \/ /\ flush /\ snd'.packet_element_id = 0
         /\ dataPath' = Append(dataPath, packet)
  <2> HIDE DEF id, flush, packet
  <2> QED  BY <1>1, <1>3
<1>6. ~flush => id # ElementsPerPacket /\ processed # snd.message_size
  BY DEF Leaves
<1>7. /\ packet \in Packet /\ packet.msg = snd.msg
      /\ packet.first = snd.processed_elements - snd.packet_element_id
      /\ packet.elems_and_op =
            SET_HEADER_NUM_ELEMS(SMI_SEND, snd.packet_element_id + 1)
  BY HeaderType DEF TypeOK, SenderType, ChannelOK, Count, Packet, SMI_SEND
<1> HIDE DEF packet, flush, tokens
<1>8. CASE flush
  BY <1>1, <1>3, <1>4, <1>5, <1>7, <1>8
<1>9. CASE ~flush
  BY <1>1, <1>3, <1>4, <1>5, <1>6, <1>9
<1> QED  BY <1>8, <1>9

LEMMA ReceiveTokensStep ==
    ASSUME TypeOK, ReceiveTokens
    PROVE  /\ snd.pc = "wait" /\ snd'.pc = "ready"
           /\ snd'.tokens = (snd.tokens + ctlPath[1].tokens) % UINT
           /\ snd'.msg = snd.msg /\ snd'.message_size = snd.message_size
           /\ snd'.processed_elements = snd.processed_elements
           /\ snd'.packet_element_id = snd.packet_element_id
           /\ ctlPath # <<>> /\ ctlPath' = Tail(ctlPath)
           /\ UNCHANGED <<size, rcv, dataPath>>
<1>1. ctlPath # <<>> /\ Head(ctlPath) = ctlPath[1]
  BY SizesAssumption DEF ReceiveTokens, TypeOK, PathsType
<1> QED  BY <1>1 DEF ReceiveTokens, TypeOK, SenderType

LEMMA OpenReceiveStep ==
    ASSUME TypeOK, OpenReceive
    PROVE  /\ rcv.processed_elements = rcv.message_size /\ rcv.pc = "ready"
           /\ rcv.msg \in 0 .. NumMessages - 1
           /\ rcv'.msg = rcv.msg + 1 /\ rcv'.pc = "ready"
           /\ rcv'.message_size = SizeOf(rcv.msg + 1)
           /\ rcv'.message_size \in Nat \ {0}
           /\ rcv'.processed_elements = 0 /\ rcv'.packet_element_id = 0
           /\ Rendezvous => rcv'.tokens = Min2(Quantum, rcv'.message_size)
           /\ rcv'.data = rcv.data
           /\ UNCHANGED <<size, snd, dataPath, ctlPath>>
<1>1. rcv.msg \in 0 .. NumMessages - 1
  BY SizesAssumption DEF OpenReceive, TypeOK, ReceiverType
<1>2. SizeOf(rcv.msg + 1) = size[rcv.msg + 1] /\ size[rcv.msg + 1] \in Nat \ {0}
  BY SMTT(60), <1>1, SizesAssumption, MessageSizeType DEF SizeOf, TypeOK
<1>3. MaxTokens \div 8 = Quantum
  BY QuantumType
<1> QED  BY <1>1, <1>2, <1>3 DEF OpenReceive

LEMMA PopStep ==
    ASSUME TypeOK, Pop
    PROVE  /\ rcv.processed_elements < rcv.message_size /\ rcv.pc = "ready"
           /\ rcv'.msg = rcv.msg /\ rcv'.message_size = rcv.message_size
           /\ rcv'.processed_elements = rcv.processed_elements + 1
           /\ rcv'.packet_element_id =
                 IF rcv.packet_element_id + 1 = NumElems(rcv'.net)
                 THEN 0 ELSE rcv.packet_element_id + 1
           /\ rcv.packet_element_id < ElementsPerPacket =>
                 rcv'.data = <<rcv'.net.msg,
                               rcv'.net.first + rcv.packet_element_id>>
           /\ Rendezvous /\ Decrement(rcv.tokens) # 0 =>
                 rcv'.pc = "ready" /\ rcv'.tokens = Decrement(rcv.tokens)
           /\ Rendezvous /\ Decrement(rcv.tokens) = 0 =>
                 /\ rcv'.pc = "grant"
                 /\ rcv'.tokens = Grant(rcv.message_size,
                                        rcv.processed_elements + 1)
           /\ \/ /\ rcv.packet_element_id # 0
                 /\ rcv'.net = rcv.net /\ dataPath' = dataPath
              \/ /\ rcv.packet_element_id = 0
                 /\ dataPath # <<>> /\ rcv'.net = dataPath[1]
                 /\ dataPath' = Tail(dataPath)
           /\ UNCHANGED <<size, snd, ctlPath>>
<1>1. rcv.packet_element_id = 0 =>
         dataPath # <<>> /\ Head(dataPath) = dataPath[1]
  BY SizesAssumption DEF Pop, TypeOK, PathsType
<1> QED  BY <1>1 DEF Pop, TypeOK, ReceiverType

LEMMA SendTokensStep ==
    ASSUME TypeOK, SendTokens
    PROVE  /\ rcv.pc = "grant" /\ rcv'.pc = "ready"
           /\ rcv'.tokens = rcv.tokens /\ rcv'.net = rcv.net
           /\ rcv'.msg = rcv.msg /\ rcv'.message_size = rcv.message_size
           /\ rcv'.processed_elements = rcv.processed_elements
           /\ rcv'.packet_element_id = rcv.packet_element_id
           /\ rcv'.data = rcv.data
           /\ ctlPath' = Append(ctlPath,
                  [tokens |-> rcv.tokens,
                   limit |-> Min2(rcv.message_size,
                                  rcv.processed_elements + MaxTokens)])
           /\ UNCHANGED <<size, snd, dataPath>>
BY DEF SendTokens, TypeOK, ReceiverType
-----------------------------------------------------------------------------
(* The stream of packets. *)

(* The natural numbers that make up a packet, and those of the descriptors. *)
LEMMA PacketNumbers ==
    ASSUME NEW packet \in Packet
    PROVE  packet.msg \in Nat /\ packet.first \in Nat /\ NumElems(packet) \in Int
BY DEF Packet, Char, NumElems, GET_HEADER_NUM_ELEMS

LEMMA Numbers ==
    ASSUME TypeOK
    PROVE  /\ snd.msg \in 0 .. NumMessages /\ rcv.msg \in 0 .. NumMessages
           /\ snd.processed_elements \in Nat /\ rcv.processed_elements \in Nat
           /\ snd.packet_element_id \in Nat /\ rcv.packet_element_id \in Nat
           /\ snd.message_size \in Nat /\ rcv.message_size \in Nat
           /\ snd.tokens \in 0 .. UINT - 1 /\ rcv.tokens \in 0 .. UINT - 1
           /\ snd.message_size = SizeOf(snd.msg)
           /\ rcv.message_size = SizeOf(rcv.msg)
           /\ 2 * snd.message_size < UINT /\ 2 * rcv.message_size < UINT
           /\ snd.processed_elements <= snd.message_size
           /\ rcv.processed_elements <= rcv.message_size
           /\ snd.packet_element_id <= snd.processed_elements
           /\ rcv.packet_element_id <= rcv.processed_elements
           /\ rcv.net \in Packet
           /\ dataPath \in Seq(Packet) /\ ctlPath \in Seq(ControlMessage)
           /\ NumMessages \in Nat
           /\ snd.msg = 0 <=> snd.message_size = 0
           /\ rcv.msg = 0 <=> rcv.message_size = 0
<1>1. /\ snd.msg \in 0 .. NumMessages /\ rcv.msg \in 0 .. NumMessages
      /\ snd.processed_elements \in Count /\ rcv.processed_elements \in Count
      /\ snd.packet_element_id \in Count /\ rcv.packet_element_id \in Count
      /\ snd.message_size \in Count /\ rcv.message_size \in Count
      /\ snd.tokens \in Count /\ rcv.tokens \in Count
      /\ rcv.net \in Packet
      /\ dataPath \in Seq(Packet) /\ ctlPath \in Seq(ControlMessage)
      /\ ChannelOK(snd) /\ ChannelOK(rcv)
      /\ size \in [1 .. NumMessages -> MessageSizes]
  BY DEF TypeOK, SenderType, ReceiverType, PathsType
<1>2. \A m \in 0 .. NumMessages :
         /\ SizeOf(m) \in Nat /\ 2 * SizeOf(m) < UINT
         /\ (m > 0 => SizeOf(m) > 0)
  BY <1>1, SizeOfType
<1>3. SizeOf(0) = 0
  BY DEF SizeOf
<1>4. /\ snd.message_size = SizeOf(snd.msg) /\ rcv.message_size = SizeOf(rcv.msg)
      /\ snd.processed_elements <= snd.message_size
      /\ rcv.processed_elements <= rcv.message_size
      /\ snd.packet_element_id <= snd.processed_elements
      /\ rcv.packet_element_id <= rcv.processed_elements
  BY <1>1 DEF ChannelOK
<1>5. 2 * snd.message_size < UINT /\ 2 * rcv.message_size < UINT
  BY <1>1, <1>2, <1>4
<1>6. \A c \in Count : c \in Nat /\ c \in 0 .. UINT - 1
  BY UnsignedType DEF Count
<1>7. /\ snd.msg = 0 <=> snd.message_size = 0
      /\ rcv.msg = 0 <=> rcv.message_size = 0
  BY SMTT(60), <1>1, <1>2, <1>3, <1>4, SizesAssumption
<1> QED  BY <1>1, <1>4, <1>5, <1>6, <1>7, SizesAssumption

LEMMA DataInit == Init => DataInv
<1> SUFFICES ASSUME Init PROVE DataInv
  OBVIOUS
<1>1. SenderPacketInv /\ ReceiverPacketInv
  BY SizesAssumption DEF Init, SenderPacketInv, ReceiverPacketInv
<1>2. PathInv
  BY DEF Init, PathInv, SamePlace, ReadUpTo, SentUpTo
<1>3. OrderInv /\ InOrder
  BY DEF Init, OrderInv, InOrder
<1> QED  BY <1>1, <1>2, <1>3 DEF DataInv

(* A step that does not touch what DataInv speaks of. *)
LEMMA DataStutter ==
    ASSUME DataInv, UNCHANGED <<size, dataPath>>,
           /\ snd'.msg = snd.msg /\ snd'.message_size = snd.message_size
           /\ snd'.processed_elements = snd.processed_elements
           /\ snd'.packet_element_id = snd.packet_element_id,
           /\ rcv'.msg = rcv.msg /\ rcv'.message_size = rcv.message_size
           /\ rcv'.processed_elements = rcv.processed_elements
           /\ rcv'.packet_element_id = rcv.packet_element_id
           /\ rcv'.net = rcv.net /\ rcv'.data = rcv.data
    PROVE  DataInv'
<1>1. SentUpTo' = SentUpTo /\ ReadUpTo' = ReadUpTo
  BY DEF SentUpTo, ReadUpTo, End, NumElems
<1>2. \A m : SizeOf(m)' = SizeOf(m)
  BY DEF SizeOf
<1>3. \A packet : PacketOK(packet)' = PacketOK(packet)
  BY <1>2 DEF PacketOK, NumElems
<1>4. \A a, b : SamePlace(a, b)' = SamePlace(a, b)
  BY <1>2 DEF SamePlace
<1>5. PathInv'
  BY <1>1, <1>3, <1>4 DEF DataInv, PathInv, Start, End, NumElems
<1>6. ReceiverPacketInv'
  BY <1>3 DEF DataInv, ReceiverPacketInv, NumElems
<1> QED  BY <1>5, <1>6 DEF DataInv, SenderPacketInv, OrderInv, InOrder
(* Sizes, and what is built from them alone, do not change. *)
LEMMA SizesFixed ==
    ASSUME UNCHANGED size
    PROVE  /\ \A m : SizeOf(m)' = SizeOf(m)
           /\ \A a, b : SamePlace(a, b)' = SamePlace(a, b)
BY DEF SizeOf, SamePlace

(* The parts of PathInv, and what a packet in flight looks like. *)
LEMMA PathFacts ==
    ASSUME TypeOK, DataInv
    PROVE  /\ dataPath \in Seq(Packet) /\ Len(dataPath) \in Nat
           /\ dataPath # <<>> <=> Len(dataPath) > 0
           /\ \A i \in 1 .. Len(dataPath) :
                 /\ dataPath[i] \in Packet /\ PacketOK(dataPath[i])
                 /\ dataPath[i].msg \in Nat /\ dataPath[i].first \in Nat
                 /\ NumElems(dataPath[i]) \in Nat \ {0}
                 /\ dataPath[i].msg \in 1 .. snd.msg
           /\ \A i \in 1 .. Len(dataPath) - 1 :
                 SamePlace(End(dataPath[i]), Start(dataPath[i + 1]))
           /\ dataPath # <<>> =>
                 /\ SamePlace(ReadUpTo, Start(dataPath[1]))
                 /\ SamePlace(End(dataPath[Len(dataPath)]), SentUpTo)
           /\ dataPath = <<>> => \/ SamePlace(ReadUpTo, SentUpTo)
                                 \/ SamePlace(SentUpTo, ReadUpTo)
<1>1. dataPath \in Seq(Packet)
  BY Numbers
<1>2. PathInv
  BY DEF DataInv
<1>3. \A i \in 1 .. Len(dataPath) : dataPath[i] \in Packet
  BY <1>1
<1>4. ASSUME NEW i \in 1 .. Len(dataPath)
      PROVE  /\ dataPath[i].msg \in Nat /\ dataPath[i].first \in Nat
             /\ NumElems(dataPath[i]) \in Nat \ {0}
             /\ dataPath[i].msg \in 1 .. snd.msg
  BY <1>2, <1>3, SizesAssumption, PacketNumbers DEF PathInv, PacketOK
<1> QED  BY <1>1, <1>2, <1>3, <1>4 DEF PathInv

LEMMA DataOpenSend ==
    ASSUME TypeOK, DataInv, OpenSend
    PROVE  DataInv'
<1>1. /\ snd.msg \in Nat /\ rcv.msg \in Nat
      /\ snd.processed_elements = snd.message_size
      /\ snd.message_size = SizeOf(snd.msg)
      /\ snd.message_size \in Nat /\ rcv.processed_elements \in Nat
      /\ snd.msg = 0 <=> snd.message_size = 0
      /\ rcv.net \in Packet /\ dataPath \in Seq(Packet)
  BY Numbers, OpenSendStep
<1>2. /\ snd'.msg = snd.msg + 1 /\ snd'.message_size \in Nat \ {0}
      /\ snd'.processed_elements = 0 /\ snd'.packet_element_id = 0
      /\ UNCHANGED <<size, rcv, dataPath>>
  BY OpenSendStep
<1>3. snd.packet_element_id = 0
  BY <1>1 DEF DataInv, SenderPacketInv
<1>4. /\ SentUpTo = <<snd.msg, SizeOf(snd.msg)>>
      /\ SentUpTo' = <<snd.msg + 1, 0>> /\ ReadUpTo' = ReadUpTo
  BY <1>1, <1>2, <1>3 DEF SentUpTo, ReadUpTo, End, NumElems
<1>5. SenderPacketInv'
  BY <1>2, SizesAssumption DEF SenderPacketInv
<1>6. \A packet \in Packet : PacketOK(packet) => PacketOK(packet)'
  BY <1>1, <1>2, PacketNumbers, SizesFixed DEF PacketOK, NumElems
<1>7. ReceiverPacketInv'
  BY <1>1, <1>2, <1>6 DEF DataInv, ReceiverPacketInv, NumElems
<1>8. PathInv'
  <2>1. /\ \A i \in 1 .. Len(dataPath) : PacketOK(dataPath[i])'
        /\ \A i \in 1 .. Len(dataPath) - 1 :
              SamePlace(End(dataPath[i]), Start(dataPath[i + 1]))'
    BY <1>2, <1>6, PathFacts, SizesFixed DEF Start, End, NumElems
  <2>2. ASSUME dataPath # <<>>
        PROVE  /\ SamePlace(ReadUpTo, Start(dataPath[1]))'
               /\ SamePlace(End(dataPath[Len(dataPath)]), SentUpTo)'
    <3> DEFINE last == dataPath[Len(dataPath)]
    <3>1. /\ last.msg \in 1 .. snd.msg /\ last.first \in Nat
          /\ NumElems(last) \in Nat
          /\ SamePlace(ReadUpTo, Start(dataPath[1]))
          /\ SamePlace(End(last), SentUpTo)
      BY <2>2, PathFacts
    <3>2. End(last) = SentUpTo
      <4> HIDE DEF last
      <4> QED  BY <1>1, <1>4, <3>1 DEF SamePlace, End
    <3>3. SamePlace(End(last), SentUpTo')
      BY <1>1, <1>4, <3>2 DEF SamePlace
    <3> QED  BY <1>2, <1>4, <3>1, <3>3, SizesFixed DEF Start, End, NumElems
  <2>3. ASSUME dataPath = <<>>
        PROVE  SamePlace(ReadUpTo, SentUpTo)' \/ SamePlace(SentUpTo, ReadUpTo)'
    <3>1. SamePlace(ReadUpTo, SentUpTo) \/ SamePlace(SentUpTo, ReadUpTo)
      BY <2>3, PathFacts
    <3>2. PICK m \in Nat, k \in Int : ReadUpTo = <<m, k>>
      BY SMTT(60), <1>1, PacketNumbers DEF ReadUpTo, End
    <3>3. SamePlace(ReadUpTo, SentUpTo') \/ SamePlace(SentUpTo', ReadUpTo)
      BY <1>1, <1>4, <3>1, <3>2 DEF SamePlace
    <3> QED  BY <1>2, <1>4, <3>3, SizesFixed
  <2> QED  BY <1>2, <2>1, <2>2, <2>3 DEF PathInv
<1>9. OrderInv'
  BY <1>1, <1>2, <1>3 DEF DataInv, OrderInv
<1> QED  BY <1>2, <1>5, <1>7, <1>8, <1>9 DEF DataInv, InOrder

LEMMA DataOpenReceive ==
    ASSUME TypeOK, DataInv, OpenReceive
    PROVE  DataInv'
<1>1. /\ snd.msg \in Nat /\ rcv.msg \in Nat
      /\ rcv.processed_elements = rcv.message_size
      /\ rcv.message_size = SizeOf(rcv.msg) /\ rcv.message_size \in Nat
      /\ snd.message_size = SizeOf(snd.msg) /\ snd.message_size \in Nat
      /\ snd.processed_elements \in Nat /\ snd.packet_element_id \in Nat
      /\ rcv.packet_element_id \in Nat
      /\ rcv.msg = 0 <=> rcv.message_size = 0
      /\ snd.packet_element_id <= snd.processed_elements
      /\ snd.processed_elements <= snd.message_size
      /\ rcv.net \in Packet /\ dataPath \in Seq(Packet)
  BY Numbers, OpenReceiveStep
<1>2. /\ rcv'.msg = rcv.msg + 1 /\ rcv'.message_size \in Nat \ {0}
      /\ rcv'.processed_elements = 0 /\ rcv'.packet_element_id = 0
      /\ UNCHANGED <<size, snd, dataPath>>
  BY OpenReceiveStep
<1>3. rcv.packet_element_id = 0
  BY <1>1, PacketNumbers DEF DataInv, ReceiverPacketInv, PacketOK
<1>4. /\ ReadUpTo = <<rcv.msg, SizeOf(rcv.msg)>>
      /\ ReadUpTo' = <<rcv.msg + 1, 0>> /\ SentUpTo' = SentUpTo
  BY <1>1, <1>2, <1>3 DEF SentUpTo, ReadUpTo
<1>5. ReceiverPacketInv'
  BY <1>2 DEF ReceiverPacketInv
<1>6. \A packet : PacketOK(packet)' = PacketOK(packet)
  BY <1>2, SizesFixed DEF PacketOK, NumElems
<1>7. PathInv'
  <2>1. /\ \A i \in 1 .. Len(dataPath) : PacketOK(dataPath[i])'
        /\ \A i \in 1 .. Len(dataPath) - 1 :
              SamePlace(End(dataPath[i]), Start(dataPath[i + 1]))'
    BY <1>2, <1>6, PathFacts, SizesFixed DEF Start, End, NumElems
  <2>2. ASSUME dataPath # <<>>
        PROVE  /\ SamePlace(ReadUpTo, Start(dataPath[1]))'
               /\ SamePlace(End(dataPath[Len(dataPath)]), SentUpTo)'
    <3> DEFINE head == dataPath[1]
    <3>1. /\ head.msg \in Nat /\ head.first \in Nat
          /\ NumElems(head) \in Nat \ {0} /\ PacketOK(head)
          /\ SamePlace(ReadUpTo, Start(head))
          /\ SamePlace(End(dataPath[Len(dataPath)]), SentUpTo)
      BY <2>2, PathFacts
    <3>2. Start(head) = ReadUpTo'
      <4> HIDE DEF head
      <4>1. head.first + NumElems(head) <= SizeOf(head.msg)
        BY <3>1 DEF PacketOK
      <4> QED  BY <1>1, <1>4, <3>1, <4>1 DEF SamePlace, Start
    <3>3. SamePlace(ReadUpTo', Start(head))
      BY <3>2 DEF SamePlace
    <3> QED  BY <1>2, <1>4, <3>1, <3>3, SizesFixed DEF Start, End, NumElems
  <2>3. ASSUME dataPath = <<>>
        PROVE  SamePlace(ReadUpTo, SentUpTo)' \/ SamePlace(SentUpTo, ReadUpTo)'
    <3>1. SamePlace(ReadUpTo, SentUpTo) \/ SamePlace(SentUpTo, ReadUpTo)
      BY <2>3, PathFacts
    <3>2. PICK m \in Nat, k \in Int : SentUpTo = <<m, k>>
      BY <1>1 DEF SentUpTo
    <3>3. SamePlace(ReadUpTo', SentUpTo) \/ SamePlace(SentUpTo, ReadUpTo')
      BY <1>1, <1>4, <3>1, <3>2 DEF SamePlace
    <3> QED  BY <1>2, <1>4, <3>3, SizesFixed
  <2> QED  BY <1>2, <2>1, <2>2, <2>3 DEF PathInv
<1>8. OrderInv'
  BY SMTT(60), <1>1, <1>2, <1>3 DEF DataInv, OrderInv, SenderPacketInv
<1>9. SenderPacketInv'
  BY <1>2 DEF DataInv, SenderPacketInv
<1> QED  BY <1>2, <1>5, <1>7, <1>8, <1>9 DEF DataInv, InOrder

LEMMA DataPush ==
    ASSUME ElementsPerPacket <= 15, TypeOK, DataInv,
           NEW immediate \in Immediate, Push(immediate)
    PROVE  DataInv'
<1>1. /\ snd.msg \in Nat /\ rcv.msg \in Nat
      /\ snd.message_size = SizeOf(snd.msg) /\ snd.message_size \in Nat
      /\ snd.processed_elements \in Nat /\ snd.packet_element_id \in Nat
      /\ rcv.processed_elements \in Nat
      /\ snd.msg = 0 <=> snd.message_size = 0
      /\ snd.packet_element_id <= snd.processed_elements
      /\ rcv.net \in Packet /\ dataPath \in Seq(Packet)
  BY Numbers
<1>0. snd.packet_element_id + 1 \in 0 .. 15
  <2>1. ElementsPerPacket \in 1 .. 15
    BY SizesAssumption
  <2>2. snd.packet_element_id < ElementsPerPacket
    BY DEF DataInv, SenderPacketInv
  <2>3. snd.packet_element_id \in Nat
    BY <1>1
  <2> QED  BY <2>1, <2>2, <2>3
<1>2. /\ snd.processed_elements < snd.message_size
      /\ snd'.msg = snd.msg /\ snd'.message_size = snd.message_size
      /\ snd'.processed_elements = snd.processed_elements + 1
      /\ UNCHANGED <<size, rcv>>
  BY PushStep
<1>3. \/ /\ snd'.packet_element_id = snd.packet_element_id + 1
         /\ snd'.packet_element_id # ElementsPerPacket
         /\ snd'.processed_elements # snd.message_size
         /\ dataPath' = dataPath
      \/ /\ snd'.packet_element_id = 0
         /\ \E packet \in Packet :
               /\ packet.msg = snd.msg
               /\ packet.first = snd.processed_elements - snd.packet_element_id
               /\ packet.elems_and_op = SET_HEADER_NUM_ELEMS(SMI_SEND,
                                           snd.packet_element_id + 1)
               /\ dataPath' = Append(dataPath, packet)
  BY PushStep
<1>4. SenderPacketInv'
  BY <1>1, <1>2, <1>3, SizesAssumption DEF DataInv, SenderPacketInv
<1>5. ReadUpTo' = ReadUpTo
  BY <1>2 DEF ReadUpTo, End, NumElems
<1>6. \A packet \in Packet : PacketOK(packet) => PacketOK(packet)'
  <2> SUFFICES ASSUME NEW packet \in Packet, PacketOK(packet)
               PROVE  PacketOK(packet)'
    OBVIOUS
  <2> QED  BY SMTT(60), <1>1, <1>2, <1>3, PacketNumbers, SizesFixed DEF PacketOK, NumElems
<1>7. ReceiverPacketInv'
  BY <1>1, <1>2, <1>6 DEF DataInv, ReceiverPacketInv, NumElems
<1>8. OrderInv'
  BY SMTT(60), <1>1, <1>2, <1>3 DEF DataInv, OrderInv
<1>9. CASE dataPath' = dataPath
             /\ snd'.packet_element_id = snd.packet_element_id + 1
  <2>1. SentUpTo' = SentUpTo
    BY SMTT(60), <1>1, <1>2, <1>9 DEF SentUpTo
  <2>2. PathInv'
    <3>1. ASSUME NEW a, NEW b
          PROVE  SamePlace(a, b)' <=> SamePlace(a, b)
      BY <1>2, SizesFixed DEF SamePlace
    <3>2. /\ \A i \in 1 .. Len(dataPath) :
                dataPath[i] \in Packet /\ PacketOK(dataPath[i])
          /\ \A i \in 1 .. Len(dataPath) - 1 :
                 SamePlace(End(dataPath[i]), Start(dataPath[i + 1]))
          /\ dataPath # <<>> =>
                 /\ SamePlace(ReadUpTo, Start(dataPath[1]))
                 /\ SamePlace(End(dataPath[Len(dataPath)]), SentUpTo)
          /\ dataPath = <<>> => \/ SamePlace(ReadUpTo, SentUpTo)
                                \/ SamePlace(SentUpTo, ReadUpTo)
      BY <1>1, PathFacts DEF PathInv
    <3>3. \A i \in 1 .. Len(dataPath) : PacketOK(dataPath[i])'
      BY <1>6, <1>9, <3>2
    <3>4. \A i \in 1 .. Len(dataPath) - 1 :
              SamePlace(End(dataPath[i]), Start(dataPath[i + 1]))'
      BY <1>9, <3>1, <3>2 DEF Start, End, NumElems
    <3>5. (dataPath # <<>> =>
                 /\ SamePlace(ReadUpTo, Start(dataPath[1]))
                 /\ SamePlace(End(dataPath[Len(dataPath)]), SentUpTo))'
      BY <1>5, <1>9, <2>1, <3>1, <3>2 DEF Start, End, NumElems
    <3>6. (dataPath = <<>> => \/ SamePlace(ReadUpTo, SentUpTo)
                              \/ SamePlace(SentUpTo, ReadUpTo))'
      BY <1>5, <1>9, <2>1, <3>1, <3>2
    <3> QED  BY <1>9, <3>3, <3>4, <3>5, <3>6 DEF PathInv
  <2> QED  BY <1>2, <1>4, <1>7, <1>8, <2>2 DEF DataInv, InOrder
<1>10. ASSUME snd'.packet_element_id = 0,
              NEW packet \in Packet,
              packet.msg = snd.msg,
              packet.first = snd.processed_elements - snd.packet_element_id,
              packet.elems_and_op = SET_HEADER_NUM_ELEMS(SMI_SEND,
                                         snd.packet_element_id + 1),
              dataPath' = Append(dataPath, packet)
       PROVE  DataInv'
  <2>1. NumElems(packet) = snd.packet_element_id + 1
    BY <1>0, <1>10, HeaderRoundTrip DEF NumElems
  <2>2. /\ Start(packet) = SentUpTo /\ End(packet) = SentUpTo'
    BY <1>1, <1>2, <1>10, <2>1 DEF Start, End, SentUpTo
  <2>3. PacketOK(packet)'
    <3>1. snd.packet_element_id + 1 \in 1 .. ElementsPerPacket
      BY <1>1, SizesAssumption DEF DataInv, SenderPacketInv
    <3>2. packet.msg \in 1 .. snd'.msg
      BY SMTT(60), <1>1, <1>2, <1>10, Numbers
    <3>3. packet.first + NumElems(packet)
              = snd'.processed_elements - snd'.packet_element_id
      BY <1>1, <1>2, <1>10, <2>1
    <3>4. packet.first + NumElems(packet) <= SizeOf(packet.msg)
      BY <1>1, <1>2, <1>10, <2>1
    <3>5. SizeOf(packet.msg)' = SizeOf(packet.msg)
      BY <1>2, SizesFixed
    <3>6. NumElems(packet)' = NumElems(packet)
      BY DEF NumElems
    <3> QED
      BY <1>1, <1>2, <2>1, <3>1, <3>2, <3>3, <3>4, <3>5, <3>6, PacketNumbers
         DEF PacketOK
  <2>4. /\ Len(dataPath') = Len(dataPath) + 1
        /\ dataPath'[Len(dataPath) + 1] = packet
        /\ \A i \in 1 .. Len(dataPath) : dataPath'[i] = dataPath[i]
    BY <1>1, <1>10, AppendProperties
  <2>5. \A i \in 1 .. Len(dataPath') : PacketOK(dataPath[i])'
    <3> SUFFICES ASSUME NEW i \in 1 .. Len(dataPath')
                 PROVE  PacketOK(dataPath[i])'
      OBVIOUS
    <3>1. CASE i = Len(dataPath) + 1
      BY <2>3, <2>4, <3>1 DEF PacketOK, NumElems
    <3>2. CASE i \in 1 .. Len(dataPath)
      <4>1. PacketOK(dataPath[i]) /\ dataPath[i] \in Packet
        BY <3>2, PathFacts
      <4>2. \A p \in Packet : p = dataPath[i] => PacketOK(p)'
        BY <1>6, <4>1
      <4> QED  BY <2>4, <3>2, <4>1, <4>2 DEF PacketOK, NumElems
    <3> QED  BY <2>4, <3>1, <3>2, PathFacts
  <2>6. /\ dataPath # <<>> => SamePlace(ReadUpTo, Start(dataPath[1]))
        /\ dataPath = <<>> => SamePlace(ReadUpTo, SentUpTo)
    <3>1. rcv.msg # snd.msg + 1
      BY <1>1, <1>2 DEF DataInv, OrderInv
    <3>2. ReadUpTo[1] = rcv.msg
      <4>1. rcv.packet_element_id # 0 => rcv.net.msg = rcv.msg
        BY Numbers DEF DataInv, ReceiverPacketInv
      <4> QED  BY <4>1 DEF ReadUpTo, End
    <3>3. SamePlace(SentUpTo, ReadUpTo) => SamePlace(ReadUpTo, SentUpTo)
      BY <3>1, <3>2 DEF SamePlace, SentUpTo
    <3> QED  BY <3>3, PathFacts
  <2>7. SamePlace(ReadUpTo, Start(dataPath[1]))'
    <3>1. SamePlace(ReadUpTo', Start(dataPath'[1]))
      BY <1>5, <2>2, <2>4, <2>6, PathFacts
    <3> QED  BY <1>2, <3>1, SizesFixed DEF Start
  <2>8. SamePlace(End(dataPath[Len(dataPath)]), SentUpTo)'
    BY <2>2, <2>4, PathFacts DEF SamePlace, End, NumElems
  <2>9. \A i \in 1 .. Len(dataPath') - 1 :
            SamePlace(End(dataPath[i]), Start(dataPath[i + 1]))'
    <3> SUFFICES ASSUME NEW i \in 1 .. Len(dataPath)
                 PROVE  SamePlace(End(dataPath[i]), Start(dataPath[i + 1]))'
      BY <2>4, PathFacts
    <3>1. SamePlace(End(dataPath'[i]), Start(dataPath'[i + 1]))
      <4>1. CASE i = Len(dataPath)
        <5>1. dataPath'[i] = dataPath[Len(dataPath)] /\ dataPath'[i + 1] = packet
          BY <2>4, <4>1
        <5>2. SamePlace(End(dataPath[Len(dataPath)]), SentUpTo)
          BY <4>1, PathFacts
        <5> QED  BY <2>2, <5>1, <5>2
      <4>2. CASE i \in 1 .. Len(dataPath) - 1
        <5>1. dataPath'[i] = dataPath[i] /\ dataPath'[i + 1] = dataPath[i + 1]
          BY <2>4, <4>2, PathFacts
        <5> QED  BY <4>2, <5>1, PathFacts
      <4>3. i = Len(dataPath) \/ i \in 1 .. Len(dataPath) - 1
        <5> DEFINE m == Len(dataPath)
        <5>1. m \in Nat /\ i \in 1 .. m
          BY PathFacts
        <5> HIDE DEF m
        <5>2. i = m \/ i \in 1 .. m - 1
          BY <5>1
        <5> QED  BY <5>2 DEF m
      <4> QED  BY <4>1, <4>2, <4>3
    <3> QED  BY <1>2, <3>1, SizesFixed DEF Start, End, NumElems
  <2>10. PathInv'
    <3>1. dataPath' # <<>>
      BY <1>1, <1>10, AppendProperties
    <3> QED  BY <2>5, <2>7, <2>8, <2>9, <3>1 DEF PathInv
  <2> QED  BY <1>2, <1>4, <1>7, <1>8, <2>10 DEF DataInv, InOrder
<1> QED  BY <1>3, <1>9, <1>10

LEMMA DataPop ==
    ASSUME TypeOK, DataInv, Pop
    PROVE  DataInv'
<1>1. /\ snd.msg \in Nat /\ rcv.msg \in Nat
      /\ rcv.message_size = SizeOf(rcv.msg) /\ rcv.message_size \in Nat
      /\ rcv.processed_elements \in Nat /\ rcv.packet_element_id \in Nat
      /\ rcv.net \in Packet /\ dataPath \in Seq(Packet)
  BY Numbers
<1>2. /\ rcv.processed_elements < rcv.message_size
      /\ rcv'.msg = rcv.msg /\ rcv'.message_size = rcv.message_size
      /\ rcv'.processed_elements = rcv.processed_elements + 1
      /\ rcv'.packet_element_id =
             IF rcv.packet_element_id + 1 = NumElems(rcv'.net)
             THEN 0 ELSE rcv.packet_element_id + 1
      /\ rcv.packet_element_id < ElementsPerPacket =>
             rcv'.data = <<rcv'.net.msg,
                           rcv'.net.first + rcv.packet_element_id>>
      /\ UNCHANGED <<size, snd>>
  BY PopStep
<1>3. SenderPacketInv'
  BY <1>2 DEF DataInv, SenderPacketInv
<1>4. \A packet : PacketOK(packet)' = PacketOK(packet)
  BY <1>2, SizesFixed DEF PacketOK, NumElems
(* The packet that the element comes from, where it continues the stream. *)
<1>5. /\ rcv'.net \in Packet /\ PacketOK(rcv'.net)
      /\ rcv'.net.msg = rcv.msg
      /\ rcv.packet_element_id < NumElems(rcv'.net)
      /\ rcv'.net.first + rcv.packet_element_id = rcv.processed_elements
      /\ rcv'.net.first \in Nat /\ NumElems(rcv'.net) \in 1 .. ElementsPerPacket
  <2>1. CASE rcv.packet_element_id # 0
    <3>1. rcv'.net = rcv.net
      BY <2>1, PopStep
    <3>2. PacketOK(rcv.net) /\ rcv.net.msg = rcv.msg
          /\ rcv.packet_element_id < NumElems(rcv.net)
          /\ rcv.net.first + rcv.packet_element_id = rcv.processed_elements
      BY <1>1, <2>1 DEF DataInv, ReceiverPacketInv
    <3> QED  BY <1>1, <3>1, <3>2, PacketNumbers DEF PacketOK
  <2>2. CASE rcv.packet_element_id = 0
    <3> DEFINE head == dataPath[1]
    <3>1. rcv'.net = head /\ dataPath # <<>>
      BY <2>2, PopStep
    <3>2. /\ head \in Packet /\ PacketOK(head) /\ head.msg \in Nat
          /\ head.first \in Nat /\ NumElems(head) \in Nat \ {0}
          /\ SamePlace(ReadUpTo, Start(head))
      BY <3>1, PathFacts
    <3> HIDE DEF head
    <3>3. ReadUpTo = <<rcv.msg, rcv.processed_elements>>
      BY <2>2 DEF ReadUpTo
    <3>4. head.msg = rcv.msg /\ head.first = rcv.processed_elements
      BY <1>1, <1>2, <3>2, <3>3 DEF SamePlace, Start
    <3>5. NumElems(head) \in 1 .. ElementsPerPacket
      BY <3>2 DEF PacketOK
    <3> QED  BY <1>1, <2>2, <3>1, <3>2, <3>4, <3>5
  <2> QED  BY <2>1, <2>2
<1>6. rcv'.data = <<rcv.msg, rcv.processed_elements>>
  <2>1. rcv.packet_element_id < ElementsPerPacket
    <3>1. /\ rcv.packet_element_id \in Nat /\ ElementsPerPacket \in Nat
          /\ rcv.packet_element_id < NumElems(rcv'.net)
          /\ NumElems(rcv'.net) \in 1 .. ElementsPerPacket
      BY <1>1, <1>5, SizesAssumption
    <3> QED  BY <3>1
  <2> QED  BY <1>2, <1>5, <2>1
<1>7. InOrder'
  BY <1>1, <1>2, <1>6 DEF InOrder
<1>8. ReceiverPacketInv'
  <2>1. PacketOK(rcv.net)'
    BY <1>2, <1>5, SizesFixed DEF PacketOK, NumElems
  <2> QED  BY SMTT(60), <1>1, <1>2, <1>5, <2>1 DEF ReceiverPacketInv, NumElems
<1>9. ReadUpTo' = End(rcv'.net)
  <2>1. CASE rcv.packet_element_id + 1 = NumElems(rcv'.net)
    BY SMTT(60), <1>1, <1>2, <1>5, <2>1 DEF ReadUpTo, End
  <2>2. CASE rcv.packet_element_id + 1 # NumElems(rcv'.net)
    BY <1>1, <1>2, <2>2 DEF ReadUpTo, End, NumElems
  <2> QED  BY <2>1, <2>2
<1>10. OrderInv'
  <2>1. /\ rcv.msg <= snd.msg
        /\ rcv.msg = snd.msg =>
              rcv'.net.first + NumElems(rcv'.net)
                 <= snd.processed_elements - snd.packet_element_id
    BY <1>1, <1>5 DEF PacketOK
  <2>2. snd.processed_elements \in Nat /\ snd.packet_element_id \in Nat
    BY Numbers
  <2>3. rcv.processed_elements + 1 <= rcv'.net.first + NumElems(rcv'.net)
    BY SMTT(60), <1>1, <1>5
  <2>4. rcv.processed_elements \in Nat /\ rcv.msg \in Nat /\ snd.msg \in Nat
        /\ rcv'.net.first \in Nat /\ NumElems(rcv'.net) \in Int
    BY <1>1, <1>5
  <2>5. rcv'.processed_elements = rcv.processed_elements + 1
        /\ rcv'.msg = rcv.msg /\ snd' = snd
    BY <1>2
  <2> QED  BY <2>1, <2>2, <2>3, <2>4, <2>5 DEF OrderInv
<1>11. PathInv'
  <2>1. SentUpTo' = SentUpTo
    BY <1>2 DEF SentUpTo
  <2>2. CASE rcv.packet_element_id # 0
    <3>1. rcv'.net = rcv.net /\ dataPath' = dataPath
      BY <2>2, PopStep
    <3>2. ReadUpTo' = ReadUpTo
      BY <1>1, <1>9, <2>2, <3>1 DEF ReadUpTo
    <3> QED  BY <1>2, <1>4, <2>1, <3>1, <3>2, PathFacts, SizesFixed
                DEF PathInv, Start, End, NumElems
  <2>3. CASE rcv.packet_element_id = 0
    <3>1. /\ dataPath # <<>> /\ rcv'.net = dataPath[1]
          /\ dataPath' = Tail(dataPath)
      BY <2>3, PopStep
    <3>2. /\ Len(dataPath') = Len(dataPath) - 1
          /\ \A i \in 1 .. Len(dataPath') : dataPath'[i] = dataPath[i + 1]
          /\ dataPath' \in Seq(Packet)
      BY <1>1, <3>1, HeadTailProperties
    <3>3. Len(dataPath) \in Nat /\ Len(dataPath) > 0
      BY <3>1, PathFacts
    <3>4. ASSUME NEW i \in 1 .. Len(dataPath')
          PROVE  PacketOK(dataPath[i])'
      <4>1. PacketOK(dataPath[i + 1])
        BY <3>2, <3>3, PathFacts
      <4>2. \A packet : packet = dataPath[i + 1] => PacketOK(packet)'
        BY <1>4, <4>1
      <4> QED  BY <3>2, <4>2 DEF PacketOK, NumElems
    <3>5. ASSUME NEW i \in 1 .. Len(dataPath') - 1
          PROVE  SamePlace(End(dataPath[i]), Start(dataPath[i + 1]))'
      <4>1. dataPath'[i] = dataPath[i + 1] /\ dataPath'[i + 1] = dataPath[i + 2]
        <5>1. i \in 1 .. Len(dataPath') /\ i + 1 \in 1 .. Len(dataPath')
              /\ (i + 1) + 1 = i + 2
          BY <3>2, <3>3
        <5> QED  BY <3>2, <5>1
      <4>2. SamePlace(End(dataPath[i + 1]), Start(dataPath[i + 2]))
        <5>1. i + 1 \in 1 .. Len(dataPath) - 1 /\ (i + 1) + 1 = i + 2
          BY <3>2, <3>3
        <5> QED  BY <5>1, PathFacts
      <4> QED  BY <1>2, <4>1, <4>2, SizesFixed DEF Start, End, NumElems
    <3>6. ASSUME dataPath' # <<>>
          PROVE  /\ SamePlace(ReadUpTo, Start(dataPath[1]))'
                 /\ SamePlace(End(dataPath[Len(dataPath)]), SentUpTo)'
      <4>1. /\ Len(dataPath) > 1 /\ dataPath'[1] = dataPath[2]
            /\ dataPath'[Len(dataPath')] = dataPath[Len(dataPath)]
        BY <3>2, <3>3, <3>6
      <4>2. /\ SamePlace(End(dataPath[1]), Start(dataPath[2]))
            /\ SamePlace(End(dataPath[Len(dataPath)]), SentUpTo)
        <5>1. 1 \in 1 .. Len(dataPath) - 1 /\ 1 + 1 = 2
          BY <3>3, <4>1
        <5> QED  BY <3>1, <5>1, PathFacts
      <4> QED  BY <1>2, <1>9, <2>1, <3>1, <4>1, <4>2, SizesFixed
                  DEF Start, End, NumElems
    <3>7. ASSUME dataPath' = <<>>
          PROVE  SamePlace(ReadUpTo, SentUpTo)'
      <4>1. Len(dataPath) = 1
        BY <3>2, <3>3, <3>7
      <4>2. SamePlace(End(dataPath[1]), SentUpTo)
        BY <3>1, <4>1, PathFacts
      <4> QED  BY <1>2, <1>9, <2>1, <3>1, <4>2, SizesFixed
    <3> QED  BY <3>4, <3>5, <3>6, <3>7 DEF PathInv
  <2> QED  BY <2>2, <2>3
<1> QED  BY <1>3, <1>7, <1>8, <1>10, <1>11 DEF DataInv

LEMMA DataStep ==
    ASSUME ElementsPerPacket <= 15
    PROVE  TypeOK /\ DataInv /\ [Next]_vars => DataInv'
<1> SUFFICES ASSUME TypeOK, DataInv, [Next]_vars PROVE DataInv'
  OBVIOUS
<1>1. CASE OpenSend
  BY <1>1, DataOpenSend
<1>2. ASSUME NEW immediate \in Immediate, Push(immediate) PROVE DataInv'
  BY <1>2, DataPush
<1>3. CASE ReceiveTokens
  BY <1>3, ReceiveTokensStep, DataStutter
<1>4. CASE OpenReceive
  BY <1>4, DataOpenReceive
<1>5. CASE Pop
  BY <1>5, DataPop
<1>6. CASE SendTokens
  BY <1>6, SendTokensStep, DataStutter
<1>7. CASE DeliverData
  BY <1>7, DataStutter DEF DeliverData
<1>8. CASE DeliverControl
  BY <1>8, DataStutter DEF DeliverControl
<1>9. CASE UNCHANGED vars
  BY <1>9, DataStutter DEF vars
<1> QED
  BY <1>1, <1>2, <1>3, <1>4, <1>5, <1>6, <1>7, <1>8, <1>9
     DEF Next, Sender, Receiver, Finished

(* With fewer than 16 elements to a packet, every element is popped in its  *)
(* place: InOrder, for any mode, buffer and number of channels.             *)
THEOREM ElementsInOrder ==
    ASSUME ElementsPerPacket <= 15
    PROVE  Spec => []InOrder
<1>1. Init => TypeOK /\ DataInv
  BY TypeInit, DataInit
<1>2. TypeOK /\ DataInv /\ [Next]_vars => (TypeOK /\ DataInv)'
  BY TypeStep, DataStep
<1>3. DataInv => InOrder
  BY DEF DataInv
<1> QED  BY <1>1, <1>2, <1>3, PTL DEF Spec
-----------------------------------------------------------------------------
(* The tokens. *)

LEMMA GrantValue ==
    ASSUME NEW n \in Nat, NEW p \in Nat
    PROVE  /\ n <= p + 7 * Quantum => Grant(n, p) = 0
           /\ n > p + 7 * Quantum =>
                 /\ Grant(n, p) \in 1 .. Quantum
                 /\ Grant(n, p) = Min2(Quantum, n - p - 7 * Quantum)
BY QuantumType DEF Grant, Min2

LEMMA QuantumSmall == 100 * Quantum < UINT
BY QuantumType, UnsignedType

LEMMA TokenInit == Init => TokenInv
<1> SUFFICES ASSUME Init PROVE TokenInv
  OBVIOUS
<1>1. SenderTokenInv /\ ReceiverTokenInv
  BY QuantumType DEF Init, SenderTokenInv, ReceiverTokenInv, Allowed, Granting
<1>2. Granted = 0 /\ Allowed = 0 /\ LastSent /\ Closed(snd)
  BY QuantumType DEF Init, Granted, Granting, Allowed, LastSent, Closed
<1>3. GrantsInv
  BY <1>2 DEF Init, GrantsInv
<1> QED  BY <1>1, <1>2, <1>3 DEF Init, TokenInv, LinkInv

(* The receiver never grants more than the message, nor more than it has    *)
(* room for.                                                                 *)
LEMMA GrantedBound ==
    ASSUME TypeOK, TokenInv
    PROVE  /\ Granted \in Nat /\ Granted <= rcv.message_size
           /\ Granted <= rcv.processed_elements + 8 * Quantum
<1>1. /\ rcv.message_size \in Nat /\ rcv.processed_elements \in Nat
      /\ rcv.tokens \in Nat
  BY Numbers, UnsignedType
<1>2. /\ Granting => rcv.processed_elements + rcv.tokens <= rcv.message_size
      /\ ~Granting => rcv.message_size <= rcv.processed_elements + 7 * Quantum
      /\ rcv.pc = "grant" =>
            rcv.tokens = Grant(rcv.message_size, rcv.processed_elements)
  BY DEF TokenInv, ReceiverTokenInv
<1>3. Granting /\ rcv.pc = "grant" =>
        rcv.processed_elements + 7 * Quantum <= rcv.message_size
  BY <1>1, <1>2, GrantValue, QuantumType DEF Granting
<1> QED  BY <1>1, <1>2, <1>3, QuantumType DEF Granted, Granting, Min2

(* What the token invariant says of a sender with grants on their way. *)
LEMMA AllowedBound ==
    ASSUME TypeOK, TokenInv, snd.msg = rcv.msg
    PROVE  Allowed <= Granted
<1>1. GrantsInv /\ Granted \in Nat
  BY GrantedBound DEF TokenInv, LinkInv
<1>2. ctlPath \in Seq(ControlMessage) /\ Allowed \in Nat
  BY SMTT(60), Numbers, UnsignedType DEF Allowed
<1>3. CASE ctlPath = <<>>
  BY <1>1, <1>2, <1>3 DEF GrantsInv
<1>4. CASE ctlPath # <<>>
  <2>1. Len(ctlPath) \in Nat /\ Len(ctlPath) > 0 /\ ctlPath[1] \in ControlMessage
    BY <1>2, <1>4
  <2>2. ctlPath[1].tokens \in Nat /\ ctlPath[1].limit \in Nat
    BY <2>1, UnsignedType DEF ControlMessage, Count
  <2>3. ctlPath[1].limit = Allowed + ctlPath[1].tokens
        /\ ctlPath[1].limit <= Granted
    BY <1>1, <1>4, <2>1 DEF GrantsInv
  <2> QED  BY <1>1, <1>2, <2>2, <2>3
<1> QED  BY <1>3, <1>4
LEMMA TokenOpenSend ==
    ASSUME Rendezvous, TypeOK, DataInv, TokenInv, OpenSend
    PROVE  TokenInv'
<1>1. /\ snd.msg \in Nat /\ rcv.msg \in Nat
      /\ rcv.msg <= snd.msg + 1 /\ snd.msg <= rcv.msg + 1
      /\ rcv.message_size = SizeOf(rcv.msg)
      /\ rcv.msg = snd.msg + 1 => rcv.processed_elements = 0
  <2>1. OrderInv /\ LinkInv
    BY DEF DataInv, TokenInv
  <2> QED  BY SMTT(60), <2>1, Numbers DEF OrderInv, LinkInv
<1>2. /\ snd'.msg = snd.msg + 1 /\ snd'.pc = "ready"
      /\ snd'.message_size = SizeOf(snd.msg + 1)
      /\ snd'.message_size \in Nat \ {0}
      /\ snd'.processed_elements = 0
      /\ snd'.tokens = Min2(MaxTokens, snd'.message_size)
      /\ UNCHANGED <<rcv, ctlPath>>
  BY OpenSendStep
<1>3. Closed(snd) /\ ctlPath = <<>>
  BY OpenSendStep DEF Closed, TokenInv, LinkInv
<1>4. /\ Allowed' = Min2(MaxTokens, snd'.message_size) /\ ~Closed(snd)'
      /\ snd'.tokens \in Nat \ {0} /\ Allowed' <= snd'.message_size
  BY <1>2, MaxTokensType DEF Allowed, Closed, Min2
<1>5. SenderTokenInv'
  BY <1>2, <1>4 DEF SenderTokenInv
<1>6. /\ ReceiverTokenInv' /\ Granted' = Granted /\ LastSent' = LastSent
  BY <1>2 DEF TokenInv, ReceiverTokenInv, Granting, Granted, LastSent
<1>7. CASE snd.msg = rcv.msg
  <2>1. LastSent
    BY <1>3, <1>7 DEF TokenInv, LinkInv
  <2>2. LinkInv'
    BY <1>1, <1>2, <1>3, <1>4, <1>6, <1>7, <2>1 DEF LinkInv
  <2> QED  BY <1>5, <1>6, <2>2 DEF TokenInv
<1>8. CASE snd.msg = rcv.msg + 1
  BY <1>3, <1>8 DEF TokenInv, LinkInv
<1>9. CASE rcv.msg = snd.msg + 1
  <2>1. /\ rcv.pc = "ready" /\ rcv.tokens = Min2(Quantum, rcv.message_size)
        /\ rcv.processed_elements = 0 /\ rcv.message_size = snd'.message_size
    BY <1>1, <1>2, <1>9 DEF TokenInv, LinkInv
  <2>2. Granting /\ ~LastSent /\ Granted = Allowed'
    BY <1>2, <1>4, <2>1, QuantumType DEF Granting, LastSent, Granted, Min2
  <2>3. GrantsInv'
    BY <1>2, <1>3, <1>6, <2>2 DEF GrantsInv
  <2>4. LinkInv'
    BY <1>1, <1>2, <1>3, <1>4, <1>6, <1>9, <2>2, <2>3 DEF LinkInv
  <2> QED  BY <1>5, <1>6, <2>4 DEF TokenInv
<1> QED  BY <1>1, <1>7, <1>8, <1>9

LEMMA TokenPush ==
    ASSUME Rendezvous, TypeOK, DataInv, TokenInv,
           NEW immediate \in Immediate, Push(immediate)
    PROVE  TokenInv'
<1>1. /\ snd.processed_elements \in Nat /\ snd.message_size \in Nat
      /\ snd.tokens \in Nat /\ snd.msg \in Nat /\ rcv.msg \in Nat
  BY Numbers, UnsignedType
<1>2. /\ snd.processed_elements < snd.message_size /\ snd.pc = "ready"
      /\ snd'.msg = snd.msg /\ snd'.message_size = snd.message_size
      /\ snd'.processed_elements = snd.processed_elements + 1
      /\ snd'.tokens = Decrement(snd.tokens)
      /\ snd'.pc = IF snd'.tokens = 0 THEN "wait" ELSE "ready"
      /\ UNCHANGED <<rcv, ctlPath>>
  BY PushStep
<1>3. snd.tokens > 0 /\ Allowed <= snd.message_size
  BY <1>1, <1>2 DEF TokenInv, SenderTokenInv
<1>4. snd'.tokens = snd.tokens - 1 /\ Allowed' = Allowed
  BY <1>1, <1>2, <1>3 DEF Decrement, Allowed
<1>5. ~Closed(snd) /\ ~Closed(snd)'
  BY <1>1, <1>2, <1>3, <1>4 DEF Closed, Allowed
<1>6. SenderTokenInv'
  BY <1>1, <1>2, <1>3, <1>4 DEF SenderTokenInv
<1>7. /\ ReceiverTokenInv' /\ Granted' = Granted /\ LastSent' = LastSent
  BY <1>2 DEF TokenInv, ReceiverTokenInv, Granting, Granted, LastSent
<1>8. snd.msg = rcv.msg => GrantsInv'
  <2>1. snd.msg = rcv.msg => GrantsInv
    BY DEF TokenInv, LinkInv
  <2> QED  BY <1>2, <1>4, <1>7, <2>1 DEF GrantsInv
<1>9. LinkInv'
  BY <1>1, <1>2, <1>4, <1>5, <1>7, <1>8 DEF TokenInv, LinkInv
<1> QED  BY <1>6, <1>7, <1>9 DEF TokenInv

LEMMA TokenPop ==
    ASSUME Rendezvous, TypeOK, DataInv, DataInv', TokenInv, Pop
    PROVE  TokenInv'
<1>1. /\ rcv.processed_elements \in Nat /\ rcv.message_size \in Nat
      /\ rcv.tokens \in 0 .. UINT - 1 /\ snd.msg \in Nat /\ rcv.msg \in Nat
      /\ 2 * rcv.message_size < UINT
  BY Numbers
<1>2. /\ rcv.processed_elements < rcv.message_size /\ rcv.pc = "ready"
      /\ rcv'.msg = rcv.msg /\ rcv'.message_size = rcv.message_size
      /\ rcv'.processed_elements = rcv.processed_elements + 1
      /\ Decrement(rcv.tokens) # 0 =>
             rcv'.pc = "ready" /\ rcv'.tokens = Decrement(rcv.tokens)
      /\ Decrement(rcv.tokens) = 0 =>
             /\ rcv'.pc = "grant"
             /\ rcv'.tokens = Grant(rcv.message_size,
                                    rcv.processed_elements + 1)
      /\ UNCHANGED <<snd, ctlPath>>
  BY PopStep
<1>3. /\ rcv.tokens \in 0 .. Quantum
            \/ rcv.tokens + rcv.processed_elements >= UINT
      /\ Granting => rcv.processed_elements + rcv.tokens <= rcv.message_size
      /\ ~Granting =>
             rcv.message_size <= rcv.processed_elements + 7 * Quantum
  BY DEF TokenInv, ReceiverTokenInv
<1>4. rcv.msg # snd.msg + 1
  BY <1>1, <1>2 DEF DataInv, OrderInv
<1>5. ReceiverTokenInv' /\ Granted' = Granted /\ LastSent' = LastSent
  <2>1. CASE rcv.tokens = 1
    <3> DEFINE g == Grant(rcv.message_size, rcv.processed_elements + 1)
    <3>1. rcv'.pc = "grant" /\ rcv'.tokens = g
      BY <1>2, <2>1 DEF Decrement
    <3>2. /\ rcv.message_size <= rcv'.processed_elements + 7 * Quantum => g = 0
          /\ rcv.message_size > rcv'.processed_elements + 7 * Quantum =>
                /\ g \in 1 .. Quantum
                /\ g <= rcv.message_size - rcv'.processed_elements - 7 * Quantum
      BY <1>1, <1>2, GrantValue, QuantumType DEF Min2
    <3>3. Granting /\ ~LastSent
      BY <2>1, QuantumType DEF Granting, LastSent
    <3>4. Granted = Min2(rcv.message_size, rcv'.processed_elements + 7 * Quantum)
      BY <1>1, <1>2, <2>1, <3>3, QuantumType DEF Granted
    <3> HIDE DEF g
    <3>5. ReceiverTokenInv'
      <4>1. rcv'.tokens = Grant(rcv.message_size, rcv'.processed_elements)
        BY <1>2, <3>1 DEF g
      <4> QED  BY <1>1, <1>2, <3>1, <3>2, <4>1, QuantumType
                  DEF ReceiverTokenInv, Granting
    <3>6. Granted' = Granted
      BY <1>1, <1>2, <3>1, <3>2, <3>4, QuantumType DEF Granted, Granting, Min2
    <3>7. LastSent' = LastSent
      BY <3>1, <3>3 DEF LastSent
    <3> QED  BY <3>5, <3>6, <3>7
  <2>2. CASE rcv.tokens \in 2 .. Quantum
    <3>1. rcv'.pc = "ready" /\ rcv'.tokens = rcv.tokens - 1
      BY <1>1, <1>2, <2>2, QuantumType DEF Decrement
    <3>2. Granting /\ Granting'
      BY <2>2, <3>1, QuantumType DEF Granting
    <3> QED  BY <1>1, <1>2, <1>3, <2>2, <3>1, <3>2, QuantumType
                DEF ReceiverTokenInv, Granted, LastSent
  <2>3. CASE rcv.tokens = 0 \/ rcv.tokens + rcv.processed_elements >= UINT
    <3>1. /\ rcv'.pc = "ready" /\ rcv'.tokens = Decrement(rcv.tokens)
          /\ ~Granting /\ ~Granting'
          /\ rcv'.tokens + rcv'.processed_elements >= UINT
      <4>1. CASE rcv.tokens = 0
        <5>1. Decrement(rcv.tokens) = UINT - 1 /\ UINT - 1 # 0
          BY <4>1, QuantumSmall, QuantumType, UnsignedType DEF Decrement
        <5> QED  BY <1>1, <1>2, <4>1, <5>1, QuantumSmall, QuantumType,
                    UnsignedType DEF Granting
      <4>2. CASE rcv.tokens + rcv.processed_elements >= UINT
        <5>1. 2 * rcv.tokens > UINT /\ rcv.tokens > Quantum + 1
          BY <1>1, <1>2, <4>2, QuantumSmall, QuantumType, UnsignedType
        <5>2. Decrement(rcv.tokens) = rcv.tokens - 1 /\ rcv.tokens - 1 # 0
          BY <1>1, <5>1, QuantumType, UnsignedType DEF Decrement
        <5> QED  BY <1>1, <1>2, <4>2, <5>1, <5>2, QuantumType,
                    UnsignedType DEF Granting
      <4> QED  BY <2>3, <4>1, <4>2
    <3> QED  BY <1>1, <1>2, <1>3, <3>1, QuantumType
                DEF ReceiverTokenInv, Granted, LastSent
  <2> QED  BY <1>1, <1>3, <2>1, <2>2, <2>3
<1>6. SenderTokenInv' /\ Allowed' = Allowed /\ Closed(snd)' = Closed(snd)
  BY <1>2 DEF TokenInv, SenderTokenInv, Allowed, Closed
<1>7. snd.msg = rcv.msg => GrantsInv'
  <2>1. snd.msg = rcv.msg => GrantsInv
    BY DEF TokenInv, LinkInv
  <2> QED  BY <1>2, <1>5, <1>6, <2>1 DEF GrantsInv
<1>8. LinkInv'
  BY <1>1, <1>2, <1>4, <1>5, <1>6, <1>7 DEF TokenInv, LinkInv
<1> QED  BY <1>5, <1>6, <1>8 DEF TokenInv
(* The grants in flight, one by one. *)
LEMMA GrantFacts ==
    ASSUME TypeOK
    PROVE  /\ ctlPath \in Seq(ControlMessage) /\ Len(ctlPath) \in Nat
           /\ ctlPath # <<>> <=> Len(ctlPath) > 0
           /\ \A i \in 1 .. Len(ctlPath) :
                 /\ ctlPath[i] \in ControlMessage
                 /\ ctlPath[i].tokens \in 0 .. UINT - 1
                 /\ ctlPath[i].limit \in Nat
<1>1. ctlPath \in Seq(ControlMessage)
  BY Numbers
<1>2. \A i \in 1 .. Len(ctlPath) : ctlPath[i] \in ControlMessage
  BY <1>1
<1>3. \A c \in ControlMessage : c.tokens \in 0 .. UINT - 1 /\ c.limit \in Nat
  BY DEF ControlMessage, Count
<1> QED  BY <1>1, <1>2, <1>3

LEMMA OneOrMore ==
    ASSUME NEW n \in Nat, n > 0
    PROVE  n = 1 \/ n > 1
OBVIOUS

(* The oldest grant in flight: an empty one is the last. *)
LEMMA FirstGrant ==
    ASSUME TypeOK, GrantsInv, ctlPath # <<>>
    PROVE  /\ Len(ctlPath) \in Nat /\ Len(ctlPath) > 0
           /\ ctlPath[1].tokens \in Nat /\ ctlPath[1].limit \in Nat
           /\ ctlPath[1].limit = Allowed + ctlPath[1].tokens
           /\ ctlPath[1].limit <= Granted
           /\ Len(ctlPath) > 1 => ctlPath[1].tokens > 0
           /\ Len(ctlPath) = 1 =>
                  /\ ctlPath[1].limit = Granted
                  /\ ctlPath[1].tokens = 0 <=> LastSent
<1>1. Len(ctlPath) \in Nat /\ Len(ctlPath) > 0
  BY GrantFacts
<1>2. 1 \in 1 .. Len(ctlPath)
  BY <1>1
<1>3. ctlPath[1].tokens \in 0 .. UINT - 1 /\ ctlPath[1].limit \in Nat
  BY <1>2, GrantFacts
<1>4. ctlPath[1].tokens \in Nat
  BY <1>3, UnsignedType
<1>5. ctlPath[1].limit <= Granted
  BY <1>2 DEF GrantsInv
<1>6. ASSUME Len(ctlPath) > 1
      PROVE  ctlPath[1].tokens > 0
  <2>1. 1 \in 1 .. Len(ctlPath) - 1
    BY <1>1, <1>6
  <2> QED  BY <2>1 DEF GrantsInv
<1>7. ctlPath[1].limit = Allowed + ctlPath[1].tokens
  BY DEF GrantsInv
<1>8. /\ ctlPath[Len(ctlPath)].limit = Granted
      /\ ctlPath[Len(ctlPath)].tokens = 0 <=> LastSent
  BY DEF GrantsInv
<1>9. ASSUME Len(ctlPath) = 1
      PROVE  /\ ctlPath[1].limit = Granted
             /\ ctlPath[1].tokens = 0 <=> LastSent
  BY <1>8, <1>9
<1> QED  BY <1>1, <1>3, <1>4, <1>5, <1>6, <1>7, <1>9

LEMMA TokenOpenReceive ==
    ASSUME Rendezvous, TypeOK, DataInv, DataInv', TokenInv, OpenReceive
    PROVE  TokenInv'
<1>1. /\ snd.msg \in Nat /\ rcv.msg \in Nat
      /\ rcv.processed_elements = rcv.message_size
      /\ rcv.msg = 0 <=> rcv.message_size = 0
      /\ snd.message_size = SizeOf(snd.msg) /\ snd.message_size \in Nat
      /\ snd.processed_elements \in Nat /\ snd.tokens \in Nat
      /\ rcv.message_size \in Nat /\ rcv.tokens \in Nat
  BY SMTT(60), Numbers, OpenReceiveStep, UnsignedType
<1>2. /\ rcv.pc = "ready" /\ rcv'.msg = rcv.msg + 1 /\ rcv'.pc = "ready"
      /\ rcv'.message_size = SizeOf(rcv.msg + 1)
      /\ rcv'.message_size \in Nat \ {0}
      /\ rcv'.processed_elements = 0
      /\ rcv'.tokens = Min2(Quantum, rcv'.message_size)
      /\ UNCHANGED <<snd, ctlPath>>
  BY OpenReceiveStep
<1>3. /\ rcv.msg <= snd.msg + 1 /\ snd.msg <= rcv.msg + 1
      /\ rcv.msg = snd.msg + 1 => rcv.processed_elements = 0
      /\ rcv'.msg = snd.msg + 1 => snd.processed_elements = snd.message_size
  <2>1. OrderInv /\ OrderInv' /\ LinkInv
    BY DEF DataInv, TokenInv
  <2> QED  BY <1>2, <2>1 DEF OrderInv, LinkInv
<1>4. ~Granting /\ LastSent /\ Granted = rcv.message_size
  <2>1. Granting => rcv.processed_elements + rcv.tokens <= rcv.message_size
    BY DEF TokenInv, ReceiverTokenInv
  <2> QED  BY <1>1, <1>2, <2>1, QuantumType DEF Granting, LastSent, Granted
<1>5. /\ Granting' /\ ~LastSent'
      /\ Granted' = Min2(MaxTokens, rcv'.message_size)
  BY <1>2, QuantumType DEF Granting, LastSent, Granted, Min2
<1>6. ReceiverTokenInv'
  BY <1>2, <1>5, QuantumType DEF ReceiverTokenInv, Granting, Min2
<1>7. SenderTokenInv' /\ Allowed' = Allowed /\ Closed(snd)' = Closed(snd)
  BY <1>2 DEF TokenInv, SenderTokenInv, Allowed, Closed
<1>8. CASE snd.msg = rcv.msg
  <2>1. GrantsInv /\ (ctlPath = <<>> => (LastSent <=> Closed(snd)))
    BY <1>8 DEF TokenInv, LinkInv
  <2>2. snd.processed_elements = snd.message_size
        /\ snd.message_size = rcv.message_size
    BY <1>1, <1>2, <1>3, <1>8, Numbers
  <2>3. ASSUME ctlPath # <<>>
        PROVE  Len(ctlPath) = 1 /\ ctlPath[1].tokens = 0
    <3>1. /\ Len(ctlPath) \in Nat /\ Len(ctlPath) > 0
          /\ ctlPath[1].tokens \in Nat
          /\ ctlPath[1].limit = Allowed + ctlPath[1].tokens
          /\ ctlPath[1].limit <= Granted
          /\ Len(ctlPath) > 1 => ctlPath[1].tokens > 0
      BY <2>1, <2>3, FirstGrant
    <3>2. /\ Allowed = snd.message_size + snd.tokens
          /\ Granted = snd.message_size
      BY <1>4, <2>2 DEF Allowed
    <3>3. snd.message_size \in Nat /\ snd.tokens \in Nat
      BY <1>1
    <3>4. ctlPath[1].tokens = 0
      BY <3>1, <3>2, <3>3
    <3>5. Len(ctlPath) \in Nat /\ Len(ctlPath) > 0 /\ ~(Len(ctlPath) > 1)
      BY <3>1, <3>4
    <3>6. Len(ctlPath) = 1
      <4> DEFINE m == Len(ctlPath)
      <4>1. m \in Nat /\ m > 0 /\ ~ (m > 1)
        BY <3>5
      <4> HIDE DEF m
      <4>2. m = 1
        BY <4>1
      <4> QED  BY <4>2 DEF m
    <3> QED  BY <3>4, <3>6
  <2>4. LinkInv'
    BY <1>1, <1>2, <1>4, <1>7, <1>8, <2>1, <2>3 DEF TokenInv, LinkInv
  <2> QED  BY <1>6, <1>7, <2>4 DEF TokenInv
<1>9. CASE snd.msg = rcv.msg + 1
  <2>1. /\ ctlPath = <<>> /\ ~Closed(snd)
        /\ Allowed = Min2(MaxTokens, snd.message_size)
    BY <1>1, <1>9 DEF TokenInv, LinkInv
  <2>2. GrantsInv'
    BY <1>1, <1>2, <1>5, <1>7, <1>9, <2>1 DEF GrantsInv
  <2>3. LinkInv'
    BY <1>1, <1>2, <1>5, <1>7, <1>9, <2>1, <2>2 DEF LinkInv
  <2> QED  BY <1>6, <1>7, <2>3 DEF TokenInv
<1>10. CASE rcv.msg = snd.msg + 1
  BY <1>1, <1>3, <1>10
<1> QED  BY <1>1, <1>3, <1>8, <1>9, <1>10

LEMMA TokenReceiveTokens ==
    ASSUME Rendezvous, TypeOK, DataInv, TokenInv, ReceiveTokens
    PROVE  TokenInv'
<1>1. /\ snd.msg \in Nat /\ rcv.msg \in Nat
      /\ snd.message_size = SizeOf(snd.msg) /\ rcv.message_size = SizeOf(rcv.msg)
      /\ snd.message_size \in Nat /\ snd.processed_elements \in Nat
  BY Numbers
<1>2. /\ snd.pc = "wait" /\ snd'.pc = "ready"
      /\ snd'.msg = snd.msg /\ snd'.message_size = snd.message_size
      /\ snd'.processed_elements = snd.processed_elements
      /\ ctlPath # <<>> /\ ctlPath' = Tail(ctlPath) /\ UNCHANGED rcv
  BY ReceiveTokensStep
<1>3. /\ Len(ctlPath) \in Nat /\ Len(ctlPath) > 0
      /\ ctlPath[1].tokens \in 0 .. UINT - 1
  BY <1>2, GrantFacts
<1>4. /\ Len(ctlPath') = Len(ctlPath) - 1
      /\ \A i \in 1 .. Len(ctlPath') : ctlPath'[i] = ctlPath[i + 1]
      /\ ctlPath' = <<>> <=> Len(ctlPath) = 1
  <2>1. ctlPath \in Seq(ControlMessage)
    BY GrantFacts
  <2>2. /\ Len(ctlPath') = Len(ctlPath) - 1 /\ ctlPath' \in Seq(ControlMessage)
        /\ \A i \in 1 .. Len(ctlPath') : ctlPath'[i] = ctlPath[i + 1]
    BY <1>2, <2>1, HeadTailProperties
  <2> QED  BY <1>3, <2>2
<1>5. snd.tokens = 0 /\ snd'.tokens = ctlPath[1].tokens
  <2>1. snd.tokens = 0
    BY <1>2 DEF TokenInv, SenderTokenInv
  <2>2. snd'.tokens = (snd.tokens + ctlPath[1].tokens) % UINT
    BY ReceiveTokensStep
  <2> QED  BY <1>3, <2>1, <2>2, UnsignedType
<1>6. /\ ReceiverTokenInv' /\ Granted' = Granted /\ LastSent' = LastSent
  BY <1>2 DEF TokenInv, ReceiverTokenInv, Granting, Granted, LastSent
<1>7. Allowed = snd.processed_elements
      /\ Allowed' = snd.processed_elements + ctlPath[1].tokens
  BY <1>1, <1>2, <1>5 DEF Allowed
<1>8. CASE snd.msg = rcv.msg
  <2>1. GrantsInv
    BY <1>8 DEF TokenInv, LinkInv
  <2>2. /\ ctlPath[1].limit = Allowed' /\ ctlPath[1].limit <= Granted
        /\ Granted \in Nat /\ Granted <= snd.message_size
    BY <1>1, <1>2, <1>3, <1>7, <1>8, <2>1, GrantedBound DEF GrantsInv
  <2>3. ctlPath[1].tokens = 0 => Len(ctlPath) = 1 /\ LastSent
    <3>1. Len(ctlPath) \in Nat /\ Len(ctlPath) > 0
      BY <1>3
    <3>2. Len(ctlPath) = 1 \/ Len(ctlPath) > 1
      BY <3>1, OneOrMore, Zenon
    <3>3. CASE Len(ctlPath) = 1
      <4>1. ctlPath[1].tokens = 0 <=> LastSent
        BY <1>2, <2>1, <3>3, FirstGrant
      <4> QED  BY <3>3, <4>1
    <3>4. CASE Len(ctlPath) > 1
      <4>1. ctlPath[1].tokens \in Nat /\ ctlPath[1].tokens > 0
        BY <1>2, <2>1, <3>4, FirstGrant
      <4> QED  BY <4>1
    <3> QED  BY <3>2, <3>3, <3>4
  <2>4. LastSent => Granted = snd.message_size
    BY <1>1, <1>8 DEF LastSent, Granted
  <2>5. Closed(snd)' <=> ctlPath[1].tokens = 0
    <3>1. CASE ctlPath[1].tokens = 0
      <4>1. ctlPath[1].limit = Granted
        BY <1>2, <2>1, <2>3, <3>1 DEF GrantsInv
      <4> QED  BY <1>1, <1>2, <1>7, <2>2, <2>3, <2>4, <3>1, <4>1 DEF Closed
    <3>2. CASE ctlPath[1].tokens # 0
      BY <1>1, <1>2, <1>3, <1>7, <2>2, <3>2 DEF Closed
    <3> QED  BY <3>1, <3>2
  <2>6. SenderTokenInv'
    BY <1>1, <1>2, <1>3, <1>5, <1>7, <2>2, <2>5 DEF SenderTokenInv, Closed
  <2>7. CASE Len(ctlPath) = 1
    <3>1. ctlPath' = <<>> /\ Len(ctlPath') = 0
      BY <1>3, <1>4, <2>7
    <3>2. Allowed' = Granted /\ (LastSent <=> Closed(snd)')
      BY <1>2, <2>1, <2>2, <2>5, <2>7 DEF GrantsInv
    <3>3. GrantsInv'
      BY <1>6, <3>1, <3>2 DEF GrantsInv
    <3> QED  BY <1>1, <1>2, <1>6, <1>8, <2>6, <3>1, <3>2, <3>3
                DEF TokenInv, LinkInv
  <2>8. CASE Len(ctlPath) > 1
    <3>1. ctlPath' # <<>> /\ Len(ctlPath') \in Nat /\ Len(ctlPath') > 0
      BY <1>3, <1>4, <2>8
    <3>2. ~Closed(snd)'
      <4>1. ctlPath[1].tokens > 0
        BY <1>2, <2>1, <2>8, FirstGrant
      <4> QED  BY <2>5, <4>1
    <3>3. /\ ctlPath'[1] = ctlPath[2]
          /\ ctlPath'[Len(ctlPath')] = ctlPath[Len(ctlPath)]
      BY <1>3, <1>4, <3>1
    <3>4. ctlPath[2].limit = ctlPath[1].limit + ctlPath[2].tokens
      <4>1. 1 \in 1 .. Len(ctlPath) - 1 /\ 1 + 1 = 2
        BY <1>3, <2>8
      <4> QED  BY <2>1, <4>1 DEF GrantsInv
    <3>5. ASSUME NEW i \in 1 .. Len(ctlPath')
          PROVE  ctlPath'[i].limit <= Granted
      <4>1. i + 1 \in 1 .. Len(ctlPath) /\ ctlPath'[i] = ctlPath[i + 1]
        BY <1>3, <1>4
      <4> QED  BY <2>1, <4>1 DEF GrantsInv
    <3>6. ASSUME NEW i \in 1 .. Len(ctlPath') - 1
          PROVE  /\ ctlPath'[i].tokens > 0
                 /\ ctlPath'[i + 1].limit
                       = ctlPath'[i].limit + ctlPath'[i + 1].tokens
      <4>1. /\ i + 1 \in 1 .. Len(ctlPath) - 1
            /\ ctlPath'[i] = ctlPath[i + 1]
            /\ ctlPath'[i + 1] = ctlPath[(i + 1) + 1]
        BY <1>3, <1>4
      <4> QED  BY <2>1, <4>1 DEF GrantsInv
    <3>7. /\ ctlPath[Len(ctlPath)].limit = Granted
          /\ ctlPath[Len(ctlPath)].tokens = 0 <=> LastSent
      BY <1>2, <2>1 DEF GrantsInv
    <3>8. GrantsInv'
      BY <1>6, <2>2, <3>1, <3>3, <3>4, <3>5, <3>6, <3>7 DEF GrantsInv
    <3> QED  BY <1>1, <1>2, <1>6, <1>8, <2>6, <3>1, <3>2, <3>8
                DEF TokenInv, LinkInv
  <2>9. Len(ctlPath) = 1 \/ Len(ctlPath) > 1
    <3>1. Len(ctlPath) \in Nat /\ Len(ctlPath) > 0
      BY <1>3
    <3> QED  BY <3>1, OneOrMore, Zenon
  <2> QED  BY <2>7, <2>8, <2>9
<1>9. CASE snd.msg = rcv.msg + 1
  BY <1>2, <1>9 DEF TokenInv, LinkInv
<1>10. CASE rcv.msg = snd.msg + 1
  <2>1. Len(ctlPath) = 1 /\ ctlPath[1].tokens = 0 /\ ctlPath' = <<>>
    BY <1>2, <1>4, <1>10 DEF TokenInv, LinkInv
  <2>2. snd.processed_elements = snd.message_size
    BY <1>10 DEF DataInv, OrderInv
  <2>3. SenderTokenInv' /\ Closed(snd)'
    BY <1>1, <1>2, <1>5, <1>7, <2>1, <2>2 DEF SenderTokenInv, Closed
  <2>4. LinkInv'
    BY <1>1, <1>2, <1>10, <2>1, <2>3 DEF TokenInv, LinkInv
  <2> QED  BY <1>6, <2>3, <2>4 DEF TokenInv
<1>11. rcv.msg <= snd.msg + 1 /\ snd.msg <= rcv.msg + 1
  BY DEF DataInv, OrderInv, TokenInv, LinkInv
<1> QED  BY <1>1, <1>8, <1>9, <1>10, <1>11

LEMMA TokenSendTokens ==
    ASSUME Rendezvous, TypeOK, DataInv, TokenInv, SendTokens
    PROVE  TokenInv'
<1> DEFINE g == rcv.tokens
           p == rcv.processed_elements
           n == rcv.message_size
           grant == [tokens |-> rcv.tokens,
                     limit |-> Min2(rcv.message_size,
                                    rcv.processed_elements + MaxTokens)]
<1>1. /\ p \in Nat /\ n \in Nat /\ g \in Nat
      /\ snd.msg \in Nat /\ rcv.msg \in Nat
  BY SMTT(60), Numbers, UnsignedType
<1>2. /\ rcv.pc = "grant" /\ rcv'.pc = "ready" /\ rcv'.tokens = g
      /\ rcv'.msg = rcv.msg /\ rcv'.message_size = n
      /\ rcv'.processed_elements = p
      /\ ctlPath' = Append(ctlPath, grant) /\ UNCHANGED snd
  BY SendTokensStep
<1>3. g \in 0 .. Quantum /\ g = Grant(n, p)
      /\ (Granting => p + g <= n) /\ (~Granting => n <= p + 7 * Quantum)
  BY <1>2 DEF TokenInv, ReceiverTokenInv
<1>4. /\ n <= p + 7 * Quantum => g = 0
      /\ n > p + 7 * Quantum =>
            g \in 1 .. Quantum /\ g = Min2(Quantum, n - p - 7 * Quantum)
  BY <1>1, <1>3, GrantValue
<1>5. snd.msg = rcv.msg /\ ~LastSent /\ GrantsInv
  <2>1. ~LastSent
    BY <1>2 DEF LastSent
  <2>2. rcv.msg <= snd.msg + 1 /\ snd.msg <= rcv.msg + 1
    BY DEF DataInv, OrderInv, TokenInv, LinkInv
  <2>3. rcv.msg # snd.msg + 1 /\ snd.msg # rcv.msg + 1
    BY <1>2, <2>1 DEF TokenInv, LinkInv
  <2> QED  BY <1>1, <2>1, <2>2, <2>3 DEF TokenInv, LinkInv
<1>6. /\ Granted \in Nat /\ grant.limit = Granted + g
      /\ Granted' = Granted + g /\ (LastSent' <=> g = 0)
  <2>1. /\ Granted = IF g = 0 THEN n ELSE p + 7 * Quantum
        /\ Granted' = IF g = 0 THEN n ELSE Min2(n, p + g + 7 * Quantum)
        /\ LastSent' <=> g = 0
    BY <1>1, <1>2, <1>3, QuantumType DEF Granted, Granting, LastSent
  <2>2. grant.limit = Min2(n, p + 8 * Quantum)
    BY QuantumType
  <2> HIDE DEF grant, g, p, n
  <2> QED  BY <1>1, <1>3, <1>4, <2>1, <2>2, QuantumType DEF Min2
<1>7. ReceiverTokenInv'
  BY <1>1, <1>2, <1>3 DEF ReceiverTokenInv, Granting
<1>8. SenderTokenInv' /\ Allowed' = Allowed /\ Closed(snd)' = Closed(snd)
  BY <1>2 DEF TokenInv, SenderTokenInv, Allowed, Closed
<1>9. ~Closed(snd)
  BY <1>5 DEF TokenInv, LinkInv
<1>10. /\ Len(ctlPath) \in Nat /\ Len(ctlPath') = Len(ctlPath) + 1
       /\ ctlPath' # <<>> /\ ctlPath'[Len(ctlPath')] = grant
       /\ \A i \in 1 .. Len(ctlPath) : ctlPath'[i] = ctlPath[i]
  <2>1. grant \in ControlMessage
    BY SMTT(60), <1>1, Numbers, MaxTokensType DEF ControlMessage, Count, Min2
  <2> HIDE DEF grant
  <2> QED  BY <1>2, <2>1, GrantFacts, AppendProperties
<1> HIDE DEF grant, g, p, n
<1>11. grant.tokens = g
  BY DEF grant, g
<1>12. GrantsInv'
  <2>1. CASE ctlPath = <<>>
    <3>1. Len(ctlPath) = 0 /\ Allowed = Granted
      BY <1>5, <2>1 DEF GrantsInv
    <3>2. Len(ctlPath') = 1 /\ ctlPath'[1] = grant
      BY <1>10, <3>1
    <3>3. Granted' <= Granted'
      BY <1>1, <1>6
    <3>4. \A i \in 1 .. Len(ctlPath') : i = 1
      BY <3>2
    <3>5. \A i \in 1 .. Len(ctlPath') - 1 : FALSE
      BY <3>2
    <3>6. /\ grant.limit = Allowed' + grant.tokens /\ grant.limit = Granted'
          /\ grant.tokens = 0 <=> LastSent'
      BY <1>1, <1>6, <1>8, <1>11, <3>1
    <3>7. \A i \in 1 .. Len(ctlPath') : ctlPath'[i].limit <= Granted'
      BY <3>2, <3>3, <3>4, <3>6
    <3> QED  BY <1>10, <3>2, <3>5, <3>6, <3>7 DEF GrantsInv
  <2>2. CASE ctlPath # <<>>
    <3>1. /\ Len(ctlPath) > 0
          /\ ctlPath[1].limit = Allowed + ctlPath[1].tokens
          /\ ctlPath[Len(ctlPath)].limit = Granted
          /\ ctlPath[Len(ctlPath)].tokens \in Nat \ {0}
      BY <1>5, <2>2, GrantFacts, UnsignedType DEF GrantsInv
    <3>2. ASSUME NEW i \in 1 .. Len(ctlPath')
          PROVE  ctlPath'[i].limit <= Granted'
      <4>1. CASE i \in 1 .. Len(ctlPath)
        <5>1. ctlPath[i].limit <= Granted /\ ctlPath[i].limit \in Nat
              /\ ctlPath'[i] = ctlPath[i]
          BY <1>5, <1>10, <4>1, GrantFacts DEF GrantsInv
        <5> QED  BY <1>1, <1>6, <5>1
      <4>2. CASE i = Len(ctlPath')
        BY <1>1, <1>6, <1>10, <4>2
      <4> QED  BY <1>10, <4>1, <4>2
    <3>3. ASSUME NEW i \in 1 .. Len(ctlPath') - 1
          PROVE  /\ ctlPath'[i].tokens > 0
                 /\ ctlPath'[i + 1].limit
                       = ctlPath'[i].limit + ctlPath'[i + 1].tokens
      <4>1. CASE i \in 1 .. Len(ctlPath) - 1
        <5>1. /\ ctlPath[i].tokens > 0
              /\ ctlPath[i + 1].limit = ctlPath[i].limit + ctlPath[i + 1].tokens
          BY <1>5, <4>1 DEF GrantsInv
        <5> QED  BY <1>10, <4>1, <5>1
      <4>2. CASE i = Len(ctlPath)
        <5>1. ctlPath'[i] = ctlPath[Len(ctlPath)] /\ ctlPath'[i + 1] = grant
          BY <1>10, <4>2
        <5> QED  BY <1>1, <1>6, <1>11, <3>1, <5>1
      <4>3. i \in 1 .. Len(ctlPath) - 1 \/ i = Len(ctlPath)
        <5> DEFINE m == Len(ctlPath)
        <5>1. m \in Nat /\ i \in 1 .. (m + 1) - 1
          BY <1>10
        <5> HIDE DEF m
        <5>2. i \in 1 .. m - 1 \/ i = m
          BY <5>1
        <5> QED  BY <5>2 DEF m
      <4> QED  BY <4>1, <4>2, <4>3
    <3>4. ctlPath'[1] = ctlPath[1]
      BY <1>10, <3>1
    <3> QED  BY <1>6, <1>8, <1>10, <1>11, <3>1, <3>2, <3>3, <3>4 DEF GrantsInv
  <2> QED  BY <2>1, <2>2
<1>13. LinkInv'
  BY <1>1, <1>2, <1>5, <1>8, <1>9, <1>10, <1>12 DEF LinkInv
<1> QED  BY <1>7, <1>8, <1>13 DEF TokenInv

LEMMA TokenStutter ==
    ASSUME TokenInv, UNCHANGED <<size, snd, rcv, ctlPath>>
    PROVE  TokenInv'
<1>1. /\ Granted' = Granted /\ LastSent' = LastSent /\ Allowed' = Allowed
      /\ Closed(snd)' = Closed(snd) /\ Granting' = Granting
  BY DEF Granted, Granting, LastSent, Allowed, Closed
<1>2. GrantsInv => GrantsInv'
  BY <1>1 DEF GrantsInv
<1>3. LinkInv'
  BY <1>1, <1>2 DEF TokenInv, LinkInv
<1>4. SenderTokenInv' /\ ReceiverTokenInv'
  BY <1>1 DEF TokenInv, SenderTokenInv, ReceiverTokenInv
<1> QED  BY <1>3, <1>4 DEF TokenInv

LEMMA TokenStep ==
    ASSUME Rendezvous, ElementsPerPacket <= 15
    PROVE  TypeOK /\ DataInv /\ TokenInv /\ [Next]_vars => TokenInv'
<1> SUFFICES ASSUME TypeOK, DataInv, TokenInv, [Next]_vars PROVE TokenInv'
  OBVIOUS
<1>0. DataInv'
  BY DataStep
<1>1. CASE OpenSend
  BY <1>1, TokenOpenSend
<1>2. ASSUME NEW immediate \in Immediate, Push(immediate) PROVE TokenInv'
  BY <1>2, TokenPush
<1>3. CASE ReceiveTokens
  BY <1>3, TokenReceiveTokens
<1>4. CASE OpenReceive
  BY <1>0, <1>4, TokenOpenReceive
<1>5. CASE Pop
  BY <1>0, <1>5, TokenPop
<1>6. CASE SendTokens
  BY <1>6, TokenSendTokens
<1>7. CASE DeliverData
  BY <1>7, TokenStutter DEF DeliverData
<1>8. CASE DeliverControl
  BY <1>8, TokenStutter DEF DeliverControl
<1>9. CASE UNCHANGED vars
  BY <1>9, TokenStutter DEF vars
<1> QED
  BY <1>1, <1>2, <1>3, <1>4, <1>5, <1>6, <1>7, <1>8, <1>9
     DEF Next, Sender, Receiver, Finished

(* The sender never runs further ahead of the receiver of its channel than  *)
(* the receiver's buffer: what it may push was granted, and the receiver     *)
(* grants the eighth quantum only when it has popped the first.              *)
LEMMA BufferBound == TypeOK /\ TokenInv => WithinBuffer
<1> SUFFICES ASSUME TypeOK, TokenInv, snd.msg = rcv.msg
             PROVE  snd.processed_elements - rcv.processed_elements <= MaxTokens
  BY DEF WithinBuffer
<1>1. Allowed <= Granted
  BY AllowedBound
<1>2. Granted \in Nat /\ Granted <= rcv.processed_elements + 8 * Quantum
  BY GrantedBound
<1>3. /\ snd.processed_elements \in Nat /\ snd.tokens \in Nat
      /\ rcv.processed_elements \in Nat
  BY Numbers, UnsignedType
<1>4. Allowed = snd.processed_elements + snd.tokens
  BY DEF Allowed
<1> QED  BY <1>1, <1>2, <1>3, <1>4, QuantumType

LEMMA NextChannelBound == TypeOK /\ TokenInv => OverlapBound
<1> SUFFICES ASSUME TypeOK, TokenInv PROVE OverlapBound
  OBVIOUS
<1>1. snd.msg <= rcv.msg + 1
  BY DEF TokenInv, LinkInv
<1>2. ASSUME snd.msg = rcv.msg + 1
      PROVE  8 * (snd.processed_elements
                     + rcv.message_size - rcv.processed_elements)
                 <= 15 * MaxTokens
  <2>1. /\ LastSent /\ Allowed = Min2(MaxTokens, snd.message_size)
    BY <1>2 DEF TokenInv, LinkInv
  <2>2. rcv.message_size <= rcv.processed_elements + 7 * Quantum
    BY <2>1 DEF TokenInv, ReceiverTokenInv, LastSent
  <2>3. /\ snd.processed_elements \in Nat /\ snd.tokens \in Nat
        /\ rcv.processed_elements \in Nat /\ rcv.message_size \in Nat
        /\ snd.message_size \in Nat
    BY Numbers, UnsignedType
  <2>4. snd.processed_elements <= 8 * Quantum
    BY <2>1, <2>3, QuantumType DEF Allowed, Min2
  <2> QED  BY <2>2, <2>3, <2>4, QuantumType
<1> QED  BY <1>1, <1>2 DEF OverlapBound

LEMMA AllTokensUsed == TypeOK /\ TokenInv => NoStaleTokens
<1> SUFFICES ASSUME TypeOK, TokenInv, Closed(snd)
             PROVE  snd.tokens = 0 /\ ctlPath = <<>>
  BY DEF NoStaleTokens
<1>1. ctlPath = <<>>
  BY DEF TokenInv, LinkInv
<1>2. snd.processed_elements + snd.tokens <= snd.message_size
  BY DEF TokenInv, SenderTokenInv, Allowed
<1>3. snd.processed_elements = snd.message_size
  BY DEF Closed
<1>4. snd.message_size \in Nat /\ snd.tokens \in Nat
  BY Numbers, UnsignedType
<1> QED  BY <1>1, <1>2, <1>3, <1>4

(* The strengthening: the packets in flight, and in rendezvous mode the      *)
(* tokens, are where they belong.                                            *)
Inv == TypeOK /\ DataInv /\ (Rendezvous => TokenInv)

LEMMA Invariance ==
    ASSUME ElementsPerPacket <= 15
    PROVE  /\ Init => Inv
           /\ Inv /\ [Next]_vars => Inv'
<1>1. Init => Inv
  BY TypeInit, DataInit, TokenInit DEF Inv
<1>2. ASSUME Inv, [Next]_vars PROVE Inv'
  <2>1. TypeOK' /\ DataInv'
    BY <1>2, TypeStep, DataStep DEF Inv
  <2>2. Rendezvous => TokenInv'
    BY <1>2, TokenStep DEF Inv
  <2> QED  BY <2>1, <2>2 DEF Inv
<1> QED  BY <1>1, <1>2

(* WithinBuffer, for every buffer size that is a multiple of eight, all      *)
(* element counts and every way the CK kernels and the two programs          *)
(* interleave.                                                                *)
THEOREM TokensKeepWithinBuffer ==
    ASSUME Rendezvous, ElementsPerPacket <= 15
    PROVE  Spec => []WithinBuffer
<1>1. Inv => WithinBuffer
  BY BufferBound DEF Inv
<1> QED  BY <1>1, Invariance, PTL DEF Spec

(* OverlapBound: no two channels of a port ever have more than fifteen       *)
(* eighths of a buffer in flight between them, and never three.              *)
THEOREM OverlapIsBounded ==
    ASSUME Rendezvous, ElementsPerPacket <= 15
    PROVE  Spec => []OverlapBound
<1>1. Inv => OverlapBound
  BY NextChannelBound DEF Inv
<1> QED  BY <1>1, Invariance, PTL DEF Spec

(* NoStaleTokens: a channel leaves no token behind for the next one.         *)
THEOREM ChannelsLeaveNoTokens ==
    ASSUME ElementsPerPacket <= 15
    PROVE  Spec => []NoStaleTokens
<1>1. Inv => NoStaleTokens
  BY AllTokensUsed DEF Inv, NoStaleTokens
<1> QED  BY <1>1, Invariance, PTL DEF Spec

(* DataInv: the packets between the two ends are the stretch of the stream   *)
(* that the sender has let go of and SMI_Pop has not read, without a gap.    *)
THEOREM PathsCarryTheStream ==
    ASSUME ElementsPerPacket <= 15
    PROVE  Spec => []DataInv
<1>1. Inv => DataInv
  BY DEF Inv
<1> QED  BY <1>1, Invariance, PTL DEF Spec

(* TokenInv: the tokens the sender holds, those on their way and those the   *)
(* receiver has yet to return account for the channel's elements.            *)
THEOREM GrantsAddUp ==
    ASSUME Rendezvous, ElementsPerPacket <= 15
    PROVE  Spec => []TokenInv
<1>1. Inv => TokenInv
  BY DEF Inv
<1> QED  BY <1>1, Invariance, PTL DEF Spec
-----------------------------------------------------------------------------
(* SMI_Push and SMI_Pop implement the ordered stream. *)

LEMMA TotalIsSize ==
    /\ Ordered!Total(snd.msg) = SizeOf(snd.msg)
    /\ Ordered!Total(rcv.msg) = SizeOf(rcv.msg)
BY DEF Ordered!Total, SizeOf

LEMMA SenderStutters ==
    ASSUME snd'.msg = snd.msg, snd'.processed_elements = snd.processed_elements
    PROVE  UNCHANGED Position(snd)
BY DEF Position

LEMMA ReceiverStutters ==
    ASSUME rcv'.msg = rcv.msg, rcv'.processed_elements = rcv.processed_elements
    PROVE  UNCHANGED Position(rcv)
BY DEF Position

LEMMA StreamInit == Init => Ordered!Init
BY DEF Init, Ordered!Init, Position

(* One step per action of the two programs; the others stutter. *)
LEMMA StreamStep ==
    ASSUME ElementsPerPacket <= 15
    PROVE  Inv /\ [Next]_vars => [Ordered!Next]_Ordered!streamVars
<1> SUFFICES ASSUME Inv, [Next]_vars
             PROVE  Ordered!Next \/ UNCHANGED Ordered!streamVars
  OBVIOUS
<1>0. TypeOK /\ DataInv /\ (Rendezvous => TokenInv) /\ Inv'
  BY Invariance DEF Inv
<1>n. /\ snd.msg \in 0 .. NumMessages /\ rcv.msg \in 0 .. NumMessages
      /\ NumMessages \in Nat
      /\ snd.processed_elements \in Nat /\ rcv.processed_elements \in Nat
      /\ snd.packet_element_id \in Nat
      /\ snd.message_size = SizeOf(snd.msg)
      /\ rcv.message_size = SizeOf(rcv.msg)
  BY <1>0, Numbers
<1>1. CASE OpenSend
  <2>1. /\ Position(snd).count = Ordered!Total(Position(snd).msg)
        /\ Position(snd).msg < NumMessages
    BY <1>0, <1>1, <1>n, OpenSendStep, TotalIsSize DEF Position
  <2>2. Position(snd)' = [msg |-> Position(snd).msg + 1, count |-> 0]
        /\ UNCHANGED <<size, Position(rcv), rcv.data>>
    BY <1>0, <1>1, OpenSendStep DEF Position
  <2>3. Rendezvous => Position(snd).msg <= Position(rcv).msg
    <3>1. snd'.msg = snd.msg + 1 /\ rcv' = rcv
      BY <1>0, <1>1, OpenSendStep
    <3>2. Rendezvous => snd'.msg <= rcv'.msg + 1
      BY <1>0 DEF Inv, TokenInv, LinkInv
    <3> QED  BY <1>n, <3>1, <3>2 DEF Position
  <2> QED  BY <2>1, <2>2, <2>3
           DEF Ordered!Next, Ordered!OpenSend, Ordered!Open
<1>2. ASSUME NEW immediate \in Immediate, Push(immediate)
      PROVE  Ordered!Next
  <2>1. /\ snd.processed_elements < snd.message_size
        /\ snd'.msg = snd.msg
        /\ snd'.processed_elements = snd.processed_elements + 1
        /\ UNCHANGED <<size, rcv>>
    BY <1>0, <1>2, PushStep
  <2>2. Position(snd).count < Ordered!Total(Position(snd).msg)
    BY <1>n, <2>1, TotalIsSize DEF Position
  <2>3. /\ Position(snd)' = [Position(snd) EXCEPT !.count = @ + 1]
        /\ UNCHANGED <<size, Position(rcv), rcv.data>>
    BY <2>1 DEF Position
  <2>4. Rendezvous /\ Position(snd).msg = Position(rcv).msg =>
            Position(snd).count < Position(rcv).count + MaxTokens
    <3>1. Rendezvous => WithinBuffer'
      <4>1. TypeOK' /\ (Rendezvous => TokenInv')
        BY <1>0 DEF Inv
      <4> QED  BY <4>1, BufferBound, PTL
    <3>2. Rendezvous /\ snd.msg = rcv.msg =>
             (snd.processed_elements + 1) - rcv.processed_elements <= MaxTokens
      BY <2>1, <3>1 DEF WithinBuffer
    <3> QED  BY <1>n, <3>2, MaxTokensType DEF Position
  <2> QED  BY <2>2, <2>3, <2>4 DEF Ordered!Next, Ordered!Push
<1>3. CASE ReceiveTokens
  BY <1>0, <1>3, ReceiveTokensStep, SenderStutters, ReceiverStutters
     DEF Ordered!streamVars
<1>4. CASE OpenReceive
  <2>1. /\ Position(rcv).count = Ordered!Total(Position(rcv).msg)
        /\ Position(rcv).msg < NumMessages
    BY <1>0, <1>4, <1>n, OpenReceiveStep, TotalIsSize DEF Position
  <2>2. Position(rcv)' = [msg |-> Position(rcv).msg + 1, count |-> 0]
        /\ UNCHANGED <<size, Position(snd), rcv.data>>
    BY <1>0, <1>4, OpenReceiveStep DEF Position
  <2> QED  BY <2>1, <2>2 DEF Ordered!Next, Ordered!OpenReceive, Ordered!Open
<1>5. CASE Pop
  <2>1. /\ rcv.processed_elements < rcv.message_size
        /\ rcv'.msg = rcv.msg
        /\ rcv'.processed_elements = rcv.processed_elements + 1
        /\ UNCHANGED <<size, snd>>
    BY <1>0, <1>5, PopStep
  <2>2. Position(rcv).count < Ordered!Total(Position(rcv).msg)
    BY <1>n, <2>1, TotalIsSize DEF Position
  <2>3. /\ Position(rcv)' = [Position(rcv) EXCEPT !.count = @ + 1]
        /\ UNCHANGED <<size, Position(snd)>>
    BY <2>1 DEF Position
  <2>4. rcv'.data = <<Position(rcv).msg, Position(rcv).count>>
    <3>1. InOrder'
      BY <1>0 DEF Inv, DataInv
    <3>2. rcv'.data = <<rcv'.msg, rcv'.processed_elements - 1>>
      BY <1>n, <2>1, <3>1 DEF InOrder
    <3> QED  BY <1>n, <2>1, <3>2 DEF Position
  <2>5. \/ Position(rcv).msg < Position(snd).msg
        \/ /\ Position(rcv).msg = Position(snd).msg
           /\ Position(rcv).count < Position(snd).count
    <3>1. OrderInv'
      BY <1>0 DEF Inv, DataInv
    <3>2. /\ rcv.msg <= snd.msg + 1
          /\ rcv.msg = snd.msg + 1 => rcv.processed_elements + 1 = 0
          /\ rcv.msg = snd.msg => rcv.processed_elements + 1
                 <= snd.processed_elements - snd.packet_element_id
      BY <2>1, <3>1 DEF OrderInv
    <3> QED  BY <1>n, <3>2 DEF Position
  <2> QED  BY <2>2, <2>3, <2>4, <2>5 DEF Ordered!Next, Ordered!Pop
<1>6. CASE SendTokens
  BY <1>0, <1>6, SendTokensStep, SenderStutters, ReceiverStutters
     DEF Ordered!streamVars
<1>7. CASE DeliverData \/ DeliverControl \/ UNCHANGED vars
  BY <1>7 DEF DeliverData, DeliverControl, vars, Ordered!streamVars, Position
<1> QED
  BY <1>1, <1>2, <1>3, <1>4, <1>5, <1>6, <1>7
     DEF Next, Sender, Receiver, Finished

(* The safety part of ImplementsStream: whatever packets and tokens carry    *)
(* them, the elements of a channel are popped from that channel, once and in *)
(* order, with the two ends as close as Stream demands.                      *)
THEOREM StreamIsImplemented ==
    ASSUME ElementsPerPacket <= 15
    PROVE  Spec => Ordered!Safety
<1>1. Inv /\ [Next]_vars => [Ordered!Next]_Ordered!streamVars
  BY StreamStep
<1> QED  BY <1>1, Invariance, StreamInit, PTL DEF Spec, Ordered!Safety

-----------------------------------------------------------------------------
(* The packets of a channel fit in ckr_data: the elements in flight are       *)
(* bounded above, here the packets that carry them.                          *)

(* The elements of this channel that have left the sender.                   *)
Sent == snd.processed_elements - snd.packet_element_id

(* As many elements as full packets behind the i-th in flight would hold.    *)
Behind(i) == (Len(dataPath) - i) * ElementsPerPacket

(* Packets of the sender's channel are full, only its last one may not be:   *)
(* each stands a packet's elements behind the one before it.                 *)
SpacingInv ==
    \A i \in 1 .. Len(dataPath) :
        dataPath[i].msg = snd.msg =>
            \/ dataPath[i].first + Behind(i) + ElementsPerPacket <= Sent
            \/ /\ snd.processed_elements = snd.message_size
               /\ dataPath[i].first + Behind(i) < Sent
-----------------------------------------------------------------------------
LEMMA BehindType ==
    ASSUME NEW n \in Int
    PROVE  /\ n * ElementsPerPacket \in Int
           /\ (n + 1) * ElementsPerPacket
                 = n * ElementsPerPacket + ElementsPerPacket
BY SizesAssumption

(* A packet that SMI_Push sends of its own accord is full or the last one.   *)
LEMMA PushedPacket ==
    ASSUME TypeOK, TRUE \notin Immediate,
           NEW immediate \in Immediate, Push(immediate)
    PROVE  \/ dataPath' = dataPath
           \/ snd.packet_element_id + 1 = ElementsPerPacket
           \/ snd.processed_elements + 1 = snd.message_size
<1>1. ~immediate
  BY ModeAssumption
<1> QED  BY <1>1 DEF Push, Leaves

LEMMA SpacingPush ==
    ASSUME TypeOK, DataInv, SpacingInv, TRUE \notin Immediate,
           NEW immediate \in Immediate, Push(immediate)
    PROVE  SpacingInv'
<1>1. /\ snd.processed_elements < snd.message_size
      /\ snd'.msg = snd.msg /\ snd'.message_size = snd.message_size
      /\ snd'.processed_elements = snd.processed_elements + 1
  BY PushStep
<1>n. /\ snd.processed_elements \in Nat /\ snd.packet_element_id \in Nat
      /\ snd.message_size \in Nat /\ ElementsPerPacket \in Nat
      /\ dataPath \in Seq(Packet) /\ Len(dataPath) \in Nat
      /\ snd.packet_element_id < ElementsPerPacket
  BY Numbers, SizesAssumption DEF DataInv, SenderPacketInv
<1>2. CASE /\ snd'.packet_element_id = snd.packet_element_id + 1
           /\ dataPath' = dataPath
  <2>1. Sent' = Sent
    BY <1>1, <1>2, <1>n DEF Sent
  <2> SUFFICES ASSUME NEW i \in 1 .. Len(dataPath), dataPath[i].msg = snd.msg
               PROVE  dataPath[i].first + Behind(i) + ElementsPerPacket <= Sent
    BY <1>1, <1>2, <2>1 DEF SpacingInv, Behind
  <2> QED  BY <1>1, <1>n DEF SpacingInv
<1>3. CASE /\ snd'.packet_element_id = 0
           /\ \E packet \in Packet :
                 /\ packet.msg = snd.msg
                 /\ packet.first = snd.processed_elements
                                    - snd.packet_element_id
                 /\ dataPath' = Append(dataPath, packet)
  <2>1. PICK packet \in Packet :
           /\ packet.first = Sent
           /\ dataPath' = Append(dataPath, packet)
    BY <1>3 DEF Sent
  <2>2. Len(dataPath') = Len(dataPath) + 1 /\ dataPath' # dataPath
    BY <1>n, <2>1, AppendProperties
  <2>3. Sent' = Sent + snd.packet_element_id + 1
    BY <1>1, <1>3, <1>n DEF Sent
  <2>4. \/ Sent' = Sent + ElementsPerPacket
        \/ snd'.processed_elements = snd'.message_size
    <3>1. \/ snd.packet_element_id + 1 = ElementsPerPacket
          \/ snd.processed_elements + 1 = snd.message_size
      BY <2>2, PushedPacket
    <3>2. Sent \in Int
      BY <1>n DEF Sent
    <3> QED  BY <1>1, <1>n, <2>3, <3>1, <3>2
  <2>s. Sent \in Int /\ Sent' \in Int /\ Sent < Sent'
    BY <1>n, <2>3 DEF Sent
  <2> SUFFICES ASSUME NEW i \in 1 .. Len(dataPath) + 1, dataPath'[i].msg = snd.msg
               PROVE  \/ dataPath'[i].first + Behind(i)' + ElementsPerPacket <= Sent'
                      \/ /\ snd'.processed_elements = snd'.message_size
                         /\ dataPath'[i].first + Behind(i)' < Sent'
    BY <1>1, <2>2 DEF SpacingInv
  <2>5. CASE i = Len(dataPath) + 1
    <3>1. dataPath'[i] = packet /\ Behind(i)' = 0
      BY <1>n, <2>1, <2>2, <2>5, AppendProperties DEF Behind
    <3> QED  BY <1>n, <2>1, <2>4, <2>s, <3>1
  <2>6. CASE i \in 1 .. Len(dataPath)
    <3>1. dataPath'[i] = dataPath[i] /\ dataPath[i] \in Packet
      BY <1>n, <2>1, <2>6, AppendProperties
    <3>2. dataPath[i].first \in Nat
      BY <3>1, PacketNumbers
    <3>3. Behind(i) \in Int /\ Behind(i)' = Behind(i) + ElementsPerPacket
      <4>1. Len(dataPath) - i \in Int /\ Len(dataPath') - i = (Len(dataPath) - i) + 1
        BY <1>n, <2>2
      <4> QED  BY <4>1, BehindType DEF Behind
    <3>4. dataPath[i].first + Behind(i) + ElementsPerPacket <= Sent
      BY <1>1, <1>n, <2>6, <3>1 DEF SpacingInv
    <3>5. dataPath'[i].first + Behind(i)' <= Sent
      BY <1>n, <2>s, <3>1, <3>2, <3>3, <3>4
    <3>6. Behind(i)' \in Int /\ dataPath'[i].first \in Nat
      BY <1>n, <3>1, <3>2, <3>3
    <3>7. CASE Sent' = Sent + ElementsPerPacket
      BY <1>n, <2>s, <3>5, <3>6, <3>7
    <3>8. CASE snd'.processed_elements = snd'.message_size
      BY <1>n, <2>s, <3>5, <3>6, <3>8
    <3> QED  BY <2>4, <3>7, <3>8
  <2> QED  BY <1>n, <2>5, <2>6
<1> QED  BY <1>2, <1>3, PushStep

LEMMA SpacingPop ==
    ASSUME TypeOK, SpacingInv, Pop
    PROVE  SpacingInv'
<1>1. snd' = snd
  BY PopStep
<1>2. CASE dataPath' = dataPath
  BY <1>1, <1>2 DEF SpacingInv, Sent, Behind
<1>3. CASE dataPath # <<>> /\ dataPath' = Tail(dataPath)
  <2>0. dataPath \in Seq(Packet) /\ Len(dataPath) \in Nat
    BY Numbers
  <2>1. /\ Len(dataPath') = Len(dataPath) - 1
        /\ \A i \in 1 .. Len(dataPath') :
              i + 1 \in 1 .. Len(dataPath) /\ dataPath'[i] = dataPath[i + 1]
    BY <1>3, <2>0, HeadTailProperties
  <2>2. ASSUME NEW i \in 1 .. Len(dataPath') PROVE Behind(i)' = Behind(i + 1)
    <3>1. Len(dataPath') - i = Len(dataPath) - (i + 1)
      BY <2>0, <2>1
    <3> QED  BY <3>1 DEF Behind
  <2> QED  BY <1>1, <2>1, <2>2 DEF SpacingInv, Sent
<1> QED  BY <1>2, <1>3, PopStep

LEMMA SpacingOpenSend ==
    ASSUME TypeOK, DataInv, OpenSend
    PROVE  SpacingInv'
<1>1. snd.msg \in Nat /\ snd'.msg = snd.msg + 1 /\ dataPath' = dataPath
  BY OpenSendStep, Numbers
<1>2. ASSUME NEW i \in 1 .. Len(dataPath) PROVE dataPath[i].msg # snd.msg + 1
  BY <1>1 DEF DataInv, PathInv, PacketOK
<1> QED  BY <1>1, <1>2 DEF SpacingInv

LEMMA SpacingStep ==
    ASSUME ElementsPerPacket <= 15, TRUE \notin Immediate
    PROVE  Inv /\ SpacingInv /\ [Next]_vars => SpacingInv'
<1> SUFFICES ASSUME Inv, SpacingInv, [Next]_vars PROVE SpacingInv'
  OBVIOUS
<1>0. TypeOK /\ DataInv
  BY DEF Inv
<1>1. CASE OpenSend
  BY <1>0, <1>1, SpacingOpenSend
<1>2. ASSUME NEW immediate \in Immediate, Push(immediate) PROVE SpacingInv'
  BY <1>0, <1>2, SpacingPush
<1>3. CASE Pop
  BY <1>0, <1>3, SpacingPop
<1>4. CASE ReceiveTokens
  <2>1. /\ snd'.msg = snd.msg /\ snd'.message_size = snd.message_size
        /\ snd'.processed_elements = snd.processed_elements
        /\ snd'.packet_element_id = snd.packet_element_id
        /\ dataPath' = dataPath
    BY <1>0, <1>4, ReceiveTokensStep
  <2> QED  BY <2>1 DEF SpacingInv, Sent, Behind
<1>5. CASE OpenReceive \/ SendTokens \/ DeliverData \/ DeliverControl
           \/ UNCHANGED vars
  <2>1. UNCHANGED <<snd, dataPath>>
    BY <1>5 DEF OpenReceive, SendTokens, DeliverData, DeliverControl, vars
  <2> QED  BY <2>1 DEF SpacingInv, Sent, Behind
<1> QED
  BY <1>1, <1>2, <1>3, <1>4, <1>5 DEF Next, Sender, Receiver, Finished
-----------------------------------------------------------------------------
(* Elements in flight make packets in flight. *)
LEMMA PacketsFit == Rendezvous /\ Inv /\ SpacingInv => NeverStalls
<1> SUFFICES ASSUME Rendezvous, Inv, SpacingInv, snd.msg = rcv.msg,
                    dataPath # <<>>
             PROVE  Len(dataPath) <= BufferSize
  BY SizesAssumption DEF NeverStalls
<1>0. TypeOK /\ DataInv /\ TokenInv
  BY DEF Inv
<1>n. /\ rcv.msg \in Nat
      /\ snd.processed_elements \in Nat /\ snd.packet_element_id \in Nat
      /\ rcv.processed_elements \in Nat /\ rcv.packet_element_id \in Nat
      /\ ElementsPerPacket \in Nat \ {0} /\ BufferSize \in Nat
      /\ dataPath \in Seq(Packet) /\ Len(dataPath) \in Nat \ {0}
      /\ rcv.net \in Packet
  BY <1>0, Numbers, SizesAssumption, EmptySeq
<1>p. dataPath[1] \in Packet /\ dataPath[1].first \in Nat
  BY <1>n, PacketNumbers
<1>1. SamePlace(ReadUpTo, Start(dataPath[1])) /\ PacketOK(dataPath[1])
  BY <1>0, <1>n DEF DataInv, PathInv
<1>2. /\ ReadUpTo[1] = rcv.msg
      /\ ReadUpTo[2] \in Int /\ ReadUpTo[2] >= rcv.processed_elements
  <2>1. CASE rcv.packet_element_id = 0
    BY <1>n, <2>1 DEF ReadUpTo
  <2>2. CASE rcv.packet_element_id > 0
    <3>1. /\ rcv.net.msg = rcv.msg
          /\ rcv.packet_element_id < NumElems(rcv.net)
          /\ rcv.net.first + rcv.packet_element_id = rcv.processed_elements
      BY <1>0, <2>2 DEF DataInv, ReceiverPacketInv
    <3>2. rcv.net.first \in Nat /\ NumElems(rcv.net) \in Int
      BY <1>n, PacketNumbers
    <3>3. ReadUpTo = <<rcv.net.msg, rcv.net.first + NumElems(rcv.net)>>
      BY <1>n, <2>2 DEF ReadUpTo, End
    <3> QED  BY <1>n, <3>1, <3>2, <3>3
  <2> QED  BY <1>n, <2>1, <2>2
<1>3. /\ dataPath[1].msg = snd.msg
      /\ dataPath[1].first >= rcv.processed_elements
  <2>1. dataPath[1].msg <= snd.msg
    BY <1>1 DEF PacketOK
  <2>2. CASE ReadUpTo = Start(dataPath[1])
    BY <1>2, <2>2 DEF Start
  <2>3. CASE Start(dataPath[1])[1] = ReadUpTo[1] + 1
    BY <1>n, <1>2, <2>1, <2>3 DEF Start
  <2> QED  BY <1>1, <2>2, <2>3 DEF SamePlace
<1>4. dataPath[1].first + Behind(1) < snd.processed_elements
  <2>1. Behind(1) \in Int
    BY <1>n, BehindType DEF Behind
  <2>2. Sent \in Int /\ Sent <= snd.processed_elements
    BY <1>n DEF Sent
  <2>3. \/ dataPath[1].first + Behind(1) + ElementsPerPacket <= Sent
        \/ dataPath[1].first + Behind(1) < Sent
    BY <1>n, <1>3 DEF SpacingInv
  <2>4. dataPath[1].first + Behind(1) < Sent
    BY <1>n, <1>p, <2>1, <2>2, <2>3
  <2> QED  BY <1>n, <1>p, <2>1, <2>2, <2>4
<1>5. snd.processed_elements - rcv.processed_elements <= MaxTokens
  BY <1>0, BufferBound DEF WithinBuffer
<1>6. (Len(dataPath) - 1) * ElementsPerPacket < BufferSize * ElementsPerPacket
  <2>1. Behind(1) \in Int
    BY <1>n, BehindType DEF Behind
  <2>2. Behind(1) < MaxTokens
    BY <1>n, <1>p, <1>3, <1>4, <1>5, <2>1, MaxTokensType
  <2> QED  BY <2>2 DEF Behind, MaxTokens
<1>7. Len(dataPath) - 1 < BufferSize
  <2> DEFINE n == Len(dataPath) - 1
  <2>1. n \in Nat /\ n * ElementsPerPacket < BufferSize * ElementsPerPacket
    BY <1>n, <1>6
  <2> HIDE DEF n
  <2>2. n < BufferSize
    BY <1>n, <2>1
  <2> QED  BY <2>2 DEF n
<1> QED  BY <1>n, <1>7

(* NeverStalls: with tokens and without flushed packets, the packets of one  *)
(* channel always fit in the receiver's ckr_data.                            *)
THEOREM PacketsNeverStall ==
    ASSUME Rendezvous, ElementsPerPacket <= 15, TRUE \notin Immediate
    PROVE  Spec => []NeverStalls
<1>1. Init => SpacingInv
  BY DEF Init, SpacingInv
<1>2. Inv /\ SpacingInv /\ [Next]_vars => SpacingInv'
  BY SpacingStep
<1>3. Inv /\ SpacingInv => NeverStalls
  BY PacketsFit
<1> QED  BY <1>1, <1>2, <1>3, Invariance, PTL DEF Spec
=============================================================================
