----------------------------- MODULE MCJourney -----------------------------
(* Cases for TLC. *)
EXTENDS Journey, Topologies

(* One program on every FPGA *)
SPMD(topology, program) ==
    [topology |-> topology, programs |-> [f \in FPGAs(topology) |-> program]]

(* Every program of one or two ports, with rendezvous and eager, on two      *)
(* FPGAs; programs that differ, and a packet that passes an FPGA on its way; *)
(* four ports on two cables; double rails. *)
Small ==
    {SPMD(OddCables, [operations |-> Uses(uses), p2p_rendezvous |-> rendezvous]) :
        uses \in (PortUses \X PortUses) \cup {<<use>> : use \in PortUses},
        rendezvous \in BOOLEAN}
    \cup {[topology |-> Line, programs |-> (0 :> Program(<<<<"push">>, <<"bcast">>>>)
                @@ 1 :> PushesToPops @@ 2 :> Program(<<<<"pop">>, <<"bcast">>>>))]}
    \cup {SPMD(TwoCables, Program(<<<<"push", "pop">>, <<"bcast">>, <<"push">>, <<"pop">>>>)),
          SPMD(DoubleRail(4), PushesToPops)}

(* The fifth port is the second one of two kernels. *)
FivePorts == {SPMD(TwoCables,
    Program(<<<<"push">>, <<"push">>, <<"push">>, <<"push">>, <<"push", "pop">>>>))}
=============================================================================
