----------------------------- MODULE Topologies -----------------------------
(* Topologies and programs to instantiate Routing and Journey with. *)
EXTENDS Routing

(* What one port may be used for *)
PortUses == {<<"push">>, <<"pop">>, <<"push", "pop">>, <<"bcast">>}

(* The operations of ports 0, 1, ..., sorted by port as a program has them *)
Uses(uses) == FlattenSeq([n \in DOMAIN uses |->
    [k \in DOMAIN uses[n] |-> [type |-> uses[n][k], port |-> n - 1]]])

Program(uses) == [operations |-> Uses(uses), p2p_rendezvous |-> TRUE]

(* Cables work in both directions. *)
Topology(fpgas, cables) ==
    LET ends == {p[1] : p \in cables} \cup {p[2] : p \in cables}
    IN  [fpgas |-> fpgas,
         links |-> [channel \in ends |-> CHOOSE other \in ends :
                        <<channel, other>> \in cables \/ <<other, channel>> \in cables]]

TwoCables == Topology(2, {<<<<0, 0>>, <<1, 0>>>>, <<<<0, 1>>, <<1, 1>>>>})
OddCables == Topology(2, {<<<<0, 1>>, <<1, 1>>>>, <<<<0, 3>>, <<1, 3>>>>})
Line      == Topology(3, {<<<<0, 1>>, <<1, 0>>>>, <<<<1, 3>>, <<2, 2>>>>})

(* A ring with two cables from each FPGA to the next *)
DoubleRail(fpgas) == Topology(fpgas, UNION {
    {<<<<f, 1>>, <<(f + 1) % fpgas, 0>>>>, <<<<f, 3>>, <<(f + 1) % fpgas, 2>>>>} :
    f \in 0 .. fpgas - 1})

TwoPushes    == Program(<<<<"push">>, <<"push">>>>)
PushesToPops == Program(<<<<"push", "pop">>, <<"push", "pop">>>>)
=============================================================================
