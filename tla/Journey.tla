------------------------------ MODULE Journey ------------------------------
(****************************************************************************)
(* The journey of one packet from an operation on one FPGA to its           *)
(* counterpart on another, over the communication kernels and their routing *)
(* tables.  Each kernel takes the packet from one FIFO, looks its           *)
(* destination up and puts it into another FIFO.                            *)
(*                                                                          *)
(* A case is [topology, programs]: programs[f] runs on FPGA f.              *)
(****************************************************************************)
EXTENDS Routing

CONSTANT Cases

(* What the generator is given and what it makes of it: cables join channels,*)
(* a program sends from FIFOs of a CK_S and on ports that all ranks have, and *)
(* an entry of a CK_S is the cable, its CK_R or another CK_S.                 *)
WellFormed(case) ==
    /\ \A channel \in DOMAIN case.topology.links :
           case.topology.links[channel] \in FPGAs(case.topology) \X Channels
    /\ \A f \in FPGAs(case.topology) :
           LET table == cks_routing_tables(case.topology, case.programs[f], f)
           IN  \A g, dst \in FPGAs(case.topology), c \in Channels :
                   \A k \in DOMAIN allocations(case.programs[g], c, "cks") :
                       LET entry == allocations(case.programs[g], c, "cks")[k]
                       IN  /\ entry.key \in {"cks"} \X Streams
                           /\ entry.op.port \in
                                  0 .. logical_port_count(case.programs[f]) - 1
                           /\ \A d \in Channels :
                                  table[d][dst][entry.op.port] \in 0 .. CHANNELS_PER_FPGA

ASSUME CasesAssumption == \A case \in Cases : WellFormed(case)

VARIABLES
    setting,    \* the case: topology and programs
    cks,        \* cks[f]: the tables of the CK_S of FPGA f
    ckr,        \* ckr[f]: the tables of its CK_R
    packet,     \* header: source, destination, port and stream (op = SMI_SYNCH)
    at,         \* the kernel that has it, or the operation it was given to
    visited     \* the kernels that had it before

vars == <<setting, cks, ckr, packet, at, visited>>

CKS(channel) == [kind |-> "cks", channel |-> channel]
CKR(channel) == [kind |-> "ckr", channel |-> channel]
Lost         == [kind |-> "lost"]
Given(fpga, entry) == [kind |-> "operation", fpga |-> fpga, entry |-> entry]

Serves(program, port, key) == get_channel_for_port_key(program, port, key) # Nowhere

(* Programs are generated without error, know all ports of their packets and *)
(* send only to operations that receive. *)
Init ==
    /\ setting \in Cases
    /\ \A f \in FPGAs(setting.topology) : Valid(setting.programs[f])
    /\ cks = [f \in FPGAs(setting.topology) |->
                 cks_routing_tables(setting.topology, setting.programs[f], f)]
    /\ ckr = [f \in FPGAs(setting.topology) |->
                 [c \in Channels |-> ckr_routing_table(c, setting.programs[f])]]
    /\ \E f, dst \in FPGAs(setting.topology), c \in Channels :
           \E k \in DOMAIN allocations(setting.programs[f], c, "cks") :
               LET entry  == allocations(setting.programs[f], c, "cks")[k]
                   stream == entry.key[2]
               IN  /\ Serves(setting.programs[dst], entry.op.port, <<"ckr", stream>>)
                   /\ packet = [src |-> f, dst |-> dst, port |-> entry.op.port,
                                stream |-> stream]
                   /\ at = CKS(<<f, c>>)
    /\ visited = {}

Moves(place) ==
    /\ at' = place
    /\ visited' = visited \cup {at}
    /\ UNCHANGED <<setting, cks, ckr, packet>>

(* A CK_S: to the cable, to its CK_R or to another CK_S of the FPGA *)
SwitchCKS ==
    /\ at.kind = "cks"
    /\ LET f   == at.channel[1]
           c   == at.channel[2]
           idx == cks[f][c][packet.dst][packet.port]
           links == setting.topology.links
       IN  \/ /\ idx = TO_QSFP
              /\ Moves(IF at.channel \in DOMAIN links THEN CKR(links[at.channel])
                                                      ELSE Lost)
           \/ idx = TO_CKR /\ Moves(CKR(at.channel))
           \/ /\ idx > TO_CKR
              /\ Moves(CKS(<<f, Reader(interconnect(neighbour(c, idx - 2), c))>>))

(* Mutant: any packet is looked up, also one that is for another rank.       *)
ForThisRankAlways(f) == TRUE

ForThisRank(f) == packet.dst = f

(* A CK_R: to its CK_S if the packet is for another rank; otherwise to       *)
(* another CK_R of the FPGA or to an operation *)
SwitchCKR ==
    /\ at.kind = "ckr"
    /\ LET f    == at.channel[1]
           c    == at.channel[2]
           dest == IF ForThisRank(f) THEN ckr[f][c][packet.port][packet.stream] ELSE 0
       IN  \/ dest = 0 /\ Moves(CKS(at.channel))
           \/ /\ dest \in 1 .. CHANNELS_PER_FPGA - 1
              /\ Moves(CKR(<<f, Reader(interconnect(neighbour(c, dest - 1), c))>>))
           \/ /\ dest >= CHANNELS_PER_FPGA
              /\ Moves(Given(f, allocations(setting.programs[f], c, "ckr")
                                    [dest - CHANNELS_PER_FPGA + 1]))

Next == SwitchCKS \/ SwitchCKR

(* The kernels run for ever, and FIFOs pass on what is in them. *)
Spec == Init /\ [][Next]_vars /\ WF_vars(Next)

-----------------------------------------------------------------------------
(* Properties *)

(* A packet given to an operation is for it: right rank, port and stream,    *)
(* although it is the tables of several FPGAs that lead it there.            *)
GivenToItsOperation ==
    at.kind = "operation" =>
        /\ at.fpga = packet.dst
        /\ at.entry.op.port = packet.port
        /\ at.entry.key = <<"ckr", packet.stream>>

(* No kernel gets a packet twice: the tables "calculate routes based on      *)
(* shortest paths, taking inter-CK hops into account" (routing_table.py:187) *)
NoKernelTwice == at \notin visited

(* FPGAs between two FPGAs, on the shortest way *)
Distance(f, g) ==
    LET linked == {<<c[1], setting.topology.links[c][1]>> : c \in DOMAIN setting.topology.links}
        within[n \in Nat] ==
            IF n = 0 THEN {f}
            ELSE within[n - 1] \cup {e[2] : e \in {d \in linked : d[1] \in within[n - 1]}}
    IN  CHOOSE n \in 0 .. setting.topology.fpgas :
            g \in within[n] /\ (n > 0 => g \notin within[n - 1])

Fpga(place) == IF place.kind = "operation" THEN place.fpga ELSE place.channel[1]

(* Every cable brings a packet one FPGA nearer to its destination: balancing *)
(* and the tables of the FPGAs on the way never lengthen the route.          *)
EveryCableApproaches ==
    [][at'.kind # "lost" /\ Fpga(at') # Fpga(at) =>
           Distance(Fpga(at'), packet.dst) = Distance(Fpga(at), packet.dst) - 1]_vars

(* Every packet comes to an operation. *)
Arrives == <>(at.kind = "operation")
=============================================================================
