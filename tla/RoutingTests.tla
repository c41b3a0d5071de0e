---------------------------- MODULE RoutingTests ----------------------------
(* What the tests of the code generator expect of its tables and of its     *)
(* allocation, for the model of both.                                       *)
EXTENDS Topologies

(* The rows of a channel, with the entries of ports 0 and 1 *)
Row(table, channel) ==
    [n \in 1 .. Cardinality(DOMAIN table[channel]) |->
        <<table[channel][n - 1][0], table[channel][n - 1][1]>>]

(* test_cks_table_1, test_routing_table.py:32-37 *)
ASSUME CksTable1 ==
    LET table == cks_routing_tables(OddCables, TwoPushes, 0)
    IN  /\ Row(table, 0) = <<<<1, 1>>, <<2, 2>>>>
        /\ Row(table, 1) = <<<<1, 1>>, <<0, 4>>>>
        /\ Row(table, 2) = <<<<1, 1>>, <<3, 3>>>>
        /\ Row(table, 3) = <<<<1, 1>>, <<0, 0>>>>

(* test_cks_table_double_rail, test_routing_table.py:84-89 and 93-98 *)
ASSUME DoubleRail4 ==
    LET table(f) == cks_routing_tables(DoubleRail(4), PushesToPops, f)
    IN  /\ Row(table(0), 0) = <<<<1, 1>>, <<2, 2>>, <<0, 0>>, <<3, 0>>>>
        /\ Row(table(0), 1) = <<<<1, 1>>, <<0, 4>>, <<0, 2>>, <<2, 2>>>>
        /\ Row(table(0), 2) = <<<<1, 1>>, <<3, 3>>, <<0, 0>>, <<0, 0>>>>
        /\ Row(table(0), 3) = <<<<1, 1>>, <<0, 0>>, <<0, 0>>, <<2, 2>>>>
        /\ Row(table(1), 0) = <<<<0, 0>>, <<1, 1>>, <<2, 2>>, <<0, 0>>>>
        /\ Row(table(1), 1) = <<<<2, 3>>, <<1, 1>>, <<0, 4>>, <<0, 0>>>>
        /\ Row(table(1), 2) = <<<<0, 0>>, <<1, 1>>, <<3, 3>>, <<0, 0>>>>
        /\ Row(table(1), 3) = <<<<2, 2>>, <<1, 1>>, <<0, 0>>, <<0, 0>>>>

(* test_cks_table_double_rail2, test_routing_table.py:127-136 *)
ASSUME DoubleRail6 ==
    LET table == cks_routing_tables(DoubleRail(6), PushesToPops, 4)
    IN  /\ Row(table, 0) = <<<<2, 2>>, <<0, 0>>, <<0, 0>>, <<3, 0>>, <<1, 1>>, <<4, 2>>>>
        /\ Row(table, 1) = <<<<0, 0>>, <<0, 2>>, <<2, 2>>, <<2, 3>>, <<1, 1>>, <<0, 0>>>>
        /\ Row(table, 2) = <<<<3, 3>>, <<0, 0>>, <<0, 0>>, <<0, 0>>, <<1, 1>>, <<4, 3>>>>
        /\ Row(table, 3) = <<<<0, 0>>, <<0, 0>>, <<2, 2>>, <<2, 2>>, <<1, 1>>, <<0, 0>>>>

(* test_ckr_table, test_routing_table.py:152-155 *)
ASSUME CkrTable ==
    LET program == Program(<<<<"push">>, <<"pop">>, <<"push">>, <<"pop">>, <<"pop">>>>)
        entries(c) == [n \in 1 .. 10 |-> ckr_routing_table(c, program)[(n - 1) \div 2]
                                             [IF n % 2 = 1 THEN "data" ELSE "control"]]
    IN  /\ entries(0) = <<0, 3, 4, 0, 0, 5, 1, 0, 2, 0>>
        /\ entries(1) = <<0, 3, 1, 0, 0, 1, 4, 0, 2, 0>>
        /\ entries(2) = <<0, 3, 1, 0, 0, 1, 2, 0, 4, 0>>
        /\ entries(3) = <<0, 4, 1, 0, 0, 1, 2, 0, 3, 0>>

(* test_allocation_get_channel and test_allocation_fail, test_program.py *)
ASSUME Allocation ==
    LET program == Program(<<<<"push", "pop">>, <<"push">>, <<"push", "pop">>>>)
    IN  /\ get_channel_for_port_key(program, 0, <<"cks", "data">>) = 0
        /\ get_channel_for_port_key(program, 0, <<"cks", "control">>) = 3
        /\ get_channel_for_port_key(program, 1, <<"ckr", "data">>) = Nowhere
        /\ get_channel_for_port_key(program, 2, <<"cks", "data">>) = 2
        /\ ~ Valid(Program(<<<<"push", "bcast">>>>))
=============================================================================
