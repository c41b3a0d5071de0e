------------------------------ MODULE Rewrite ------------------------------
(****************************************************************************)
(* From the kernels of a user to the program the generator works on: the    *)
(* source rewriter, which gives every SMI call the name of the function     *)
(* that is generated for its channel and reports the channels it saw, and   *)
(* the driver, which makes the operations of a rank of them.                *)
(*                                                                          *)
(* A device source is a sequence of functions [kernel, calls].  A call is   *)
(* [fn, extended] with what its arguments say: of a call that opens a       *)
(* channel its data_type, port, asynch_degree (in the `_ad' form, which is  *)
(* `extended') and, of a reduction, op; of any other call the place of      *)
(* the call that initialises its channel variable.  Literals, constant      *)
(* variables and enumerators are told apart by nobody here.                 *)
(****************************************************************************)
EXTENDS Program, SequencesExt

(* The functions of the extractors, by the operation they report *)
ChannelFunction ==
    [push |-> "SMI_Open_send_channel", pop |-> "SMI_Open_receive_channel",
     broadcast |-> "SMI_Open_bcast_channel", reduce |-> "SMI_Open_reduce_channel",
     gather |-> "SMI_Open_gather_channel", barrier |-> "SMI_Open_barrier_channel",
     scatter |-> "SMI_Open_scatter_channel", treecast |-> "SMI_Open_treecast_channel",
     treereduce |-> "SMI_Open_treereduce_channel"]
MessageFunction ==
    [push |-> "SMI_Push", pop |-> "SMI_Pop", broadcast |-> "SMI_Bcast",
     reduce |-> "SMI_Reduce", gather |-> "SMI_Gather", barrier |-> "SMI_Barrier",
     scatter |-> "SMI_Scatter", treecast |-> "SMI_Treecast",
     treereduce |-> "SMI_Treereduce"]

Operations == DOMAIN ChannelFunction
Opens(call)    == \E o \in Operations : ChannelFunction[o] = call.fn
Messages(call) == \E o \in Operations : MessageFunction[o] = call.fn

Unset == -1

(* What an extractor reads off the call that opens a channel *)
ChannelMetadata(call) ==
    LET operation == CHOOSE o \in Operations : ChannelFunction[o] = call.fn
    IN  [operation   |-> operation,
         port        |-> call.port,
         data_type   |-> IF operation = "barrier" THEN "int" ELSE call.data_type,
         buffer_size |-> IF call.extended THEN call.asynch_degree ELSE Unset,
         op_type     |-> IF operation \in {"reduce", "treereduce"} THEN call.op ELSE "none"]

(* A call on a channel has the metadata of the call that initialised it. *)
Metadata(function, call) ==
    ChannelMetadata(IF Opens(call) THEN call ELSE function.calls[call.channel])

(* <<name, port, data type>> stands for the three joined by underscores. *)
RenameCall(name, metadata) == <<name, metadata.port, metadata.data_type>>

(* Only kernels are rewritten; `_ad' and its argument go. *)
ModifyCall(function, call) ==
    IF function.kernel /\ (Opens(call) \/ Messages(call))
    THEN [fn |-> RenameCall(call.fn, Metadata(function, call)), extended |-> FALSE]
    ELSE [fn |-> <<call.fn>>, extended |-> call.extended]

Rewritten(function) ==
    [function EXCEPT !.calls = [k \in DOMAIN @ |-> ModifyCall(function, @[k])]]

(* The extractors of channels report what they saw. *)
OutputMetadata(function) ==
    LET opens == SelectSeq(function.calls, Opens)
    IN  IF function.kernel THEN [k \in DOMAIN opens |-> ChannelMetadata(opens[k])] ELSE <<>>

-----------------------------------------------------------------------------
(* The driver *)

DATA_TYPE_SIZE == [char |-> 1, short |-> 2, int |-> 4, float |-> 4, double |-> 8]
PACKET_PAYLOAD_SIZE == 28
data_elements_per_packet(data_type) == PACKET_PAYLOAD_SIZE \div DATA_TYPE_SIZE[data_type]

(* "buffer_size or 64" of SmiOperation, and transform_buffer_size: from      *)
(* elements to packets, rounded to a multiple of eight; nothing to transform *)
(* if the user did not say.                                                  *)
DefaultSize == 64
transform_buffer_size(buffer_size, per_packet) ==
    LET elements == IF buffer_size = 0 THEN DefaultSize ELSE buffer_size
        eight    == 8 * per_packet
    IN  IF buffer_size = Unset THEN DefaultSize
        ELSE ((elements + eight - 1) \div eight) * 8

parse_smi_operation(metadata) ==
    [type |-> metadata.operation, port |-> metadata.port,
     data_type |-> metadata.data_type, op_type |-> metadata.op_type,
     buffer_size |-> transform_buffer_size(metadata.buffer_size,
                         data_elements_per_packet(metadata.data_type))]

(* sorted by port, operations of one port in the order they had *)
SortedByPort(operations) ==
    FlattenSeq([n \in 1 .. logical_port_count([operations |-> operations]) |->
        SelectSeq(operations, LAMBDA o : o.port = n - 1)])

codegen_device(source, p2p_rendezvous) ==
    LET reported == FlattenSeq([k \in DOMAIN source |-> OutputMetadata(source[k])])
    IN  [operations |-> SortedByPort([k \in DOMAIN reported |->
                                         parse_smi_operation(reported[k])]),
         p2p_rendezvous |-> p2p_rendezvous]

(* The functions device.cl generates for an operation *)
Generated(op) ==
    {RenameCall(ChannelFunction[op.type], op), RenameCall(MessageFunction[op.type], op)}
    \cup (IF op.type = "push" THEN {RenameCall("SMI_Push_flush", op)} ELSE {})
=============================================================================
