---------------------------- MODULE RewriteTests ----------------------------
(* What the tests of the rewriter expect of it, and what the rewriter, the  *)
(* driver and the templates must agree on, for the model of them.           *)
EXTENDS Rewrite

Channel(operation, data_type, port) ==
    [fn |-> ChannelFunction[operation], extended |-> FALSE, data_type |-> data_type,
     port |-> port, op |-> "add"]
AsynchChannel(operation, data_type, port, degree) ==
    [fn |-> ChannelFunction[operation], extended |-> TRUE, data_type |-> data_type,
     port |-> port, op |-> "add", asynch_degree |-> degree]

(* A kernel that opens channels and calls each of them once: the calls of a  *)
(* channel follow it                                                         *)
UserKernel(channels) ==
    [kernel |-> TRUE,
     calls  |-> FlattenSeq([n \in DOMAIN channels |->
        LET operation == CHOOSE o \in Operations : ChannelFunction[o] = channels[n].fn
        IN  <<channels[n], [fn |-> MessageFunction[operation], extended |-> FALSE,
                            channel |-> 2 * n - 1]>>])]

(* type, port, data type *)
Reported(function) ==
    LET output == OutputMetadata(function)
    IN  [k \in DOMAIN output |->
            <<output[k].operation, output[k].port, output[k].data_type>>]
Names(function) == [k \in DOMAIN function.calls |-> Rewritten(function).calls[k].fn]

(* test_rewriter_complex, test_rewriter.py:41-49 and complex-expected.cl *)
ASSUME Complex ==
    LET kernel == UserKernel(<<Channel("push", "char", 0), Channel("pop", "double", 1),
                               Channel("broadcast", "int", 2), Channel("reduce", "float", 3),
                               Channel("scatter", "short", 4), Channel("gather", "int", 5)>>)
    IN  /\ Reported(kernel) = <<<<"push", 0, "char">>, <<"pop", 1, "double">>,
                                <<"broadcast", 2, "int">>, <<"reduce", 3, "float">>,
                                <<"scatter", 4, "short">>, <<"gather", 5, "int">>>>
        /\ SubSeq(Names(kernel), 5, 8) =
              <<<<"SMI_Open_bcast_channel", 2, "int">>, <<"SMI_Bcast", 2, "int">>,
                <<"SMI_Open_reduce_channel", 3, "float">>, <<"SMI_Reduce", 3, "float">>>>

(* test_rewriter_buffer_size and buffer-size-expected.cl: the degree is      *)
(* reported and disappears from the call.                                    *)
ASSUME BufferSizeTest ==
    LET kernel == UserKernel(<<AsynchChannel("push", "int", 0, 128)>>)
    IN  /\ OutputMetadata(kernel)[1].buffer_size = 128
        /\ Rewritten(kernel).calls[1] =
              [fn |-> <<"SMI_Open_send_channel", 0, "int">>, extended |-> FALSE]

(* test_rewriter_kernel_attribute and kernel-attribute-expected.cl: what is  *)
(* no kernel is left as it is.                                               *)
ASSUME KernelAttribute ==
    LET function == [UserKernel(<<Channel("push", "int", 2)>>) EXCEPT !.kernel = FALSE]
    IN  /\ Reported(function) = <<>>
        /\ Names(function) = <<<<"SMI_Open_send_channel">>, <<"SMI_Push">>>>

-----------------------------------------------------------------------------
(* All kernels with two channels *)
SomeChannels == {Channel(operation, data_type, port) :
    operation \in Operations, data_type \in {"int", "char"}, port \in {0, 1}}
Pairs == {<<a, b>> : a, b \in SomeChannels}

(* The rewriter decides which function a call names, from the call and its   *)
(* channel; the templates decide which functions there are, from the list of *)
(* operations.  When the allocation accepts the list, every call finds one   *)
(* function of that name, and it is the operation of its own channel.        *)
ASSUME EveryCallFindsItsFunction ==
    \A pair \in Pairs, p2p_rendezvous \in BOOLEAN :
        LET kernel     == UserKernel(pair)
            program    == codegen_device(<<kernel>>, p2p_rendezvous)
            operations == program.operations
        IN  Valid(program) =>
                \A k \in DOMAIN kernel.calls :
                    LET named == {n \in DOMAIN operations :
                                     Names(kernel)[k] \in Generated(operations[n])}
                    IN  \E n \in named :
                            /\ named = {n}
                            /\ operations[n].type =
                                  Metadata(kernel, kernel.calls[k]).operation

(* Splitting the kernels over functions and files changes nothing but the    *)
(* order of the operations of one port.                                      *)
ASSUME FilesDoNotMatter ==
    \A pair \in Pairs :
        LET together == codegen_device(<<UserKernel(pair)>>, TRUE)
            apart    == codegen_device(<<UserKernel(<<pair[2]>>), UserKernel(<<pair[1]>>)>>, TRUE)
        IN  /\ Valid(together) <=> Valid(apart)
            /\ pair[1].port # pair[2].port => together = apart

(* The buffer holds the elements the user asked for, and no eight packets    *)
(* more than that.                                                           *)
ASSUME BuffersHold ==
    \A data_type \in DOMAIN DATA_TYPE_SIZE, degree \in 1 .. 300 :
        LET per_packet == data_elements_per_packet(data_type)
            packets    == transform_buffer_size(degree, per_packet)
        IN  packets * per_packet >= degree /\ (packets - 8) * per_packet < degree
=============================================================================
