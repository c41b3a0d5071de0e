---------------------------- MODULE MCCommKernel ----------------------------
(* A small instance of CommKernel for TLC, and the tests of the tables that *)
(* the kernels are given. *)
EXTENDS CommKernel, RoutingTests, RewriteTests

CONSTANTS port, link        \* two outputs, a port of an application and a QSFP

To(toPort, toLink) == [o \in Outputs |-> IF o = port THEN toPort ELSE toLink]

(* Two inputs have more messages than the limit and than an output holds,    *)
(* the third has one for each output. *)
Loads == [i \in Senders |-> CASE i = 0 -> To(1, 1)
                              [] i = 1 -> To(3, 0)
                              [] i = 2 -> To(0, 3)]
=============================================================================
