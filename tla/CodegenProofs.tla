---------------------------- MODULE CodegenProofs ----------------------------
(****************************************************************************)
(* Theorems about the code generator: about Journey, for every number of     *)
(* channels, every topology and every set of programs whose tables are well  *)
(* formed, and about the buffer sizes of Rewrite.                            *)
(****************************************************************************)
EXTENDS Journey, Rewrite, WellFoundedInduction, TLAPS

LEMMA ChannelsType == CHANNELS_PER_FPGA \in Nat \ {0} /\ Channels \subseteq Nat
BY ChannelsAssumption DEF Channels

(* What the CHOOSEs of the tables take. *)
LEMMA Least ==
    ASSUME NEW S \in SUBSET Nat, S # {}
    PROVE  \E x \in S : \A y \in S : x <= y
<1>1. PICK x \in S : \A y \in S : ~ (<<y, x>> \in OpToRel(<, Nat))
  BY NatLessThanWellFounded, WFMin
<1>2. \A y \in S : ~ (y < x)
  BY <1>1 DEF OpToRel
<1> QED  BY <1>2

-----------------------------------------------------------------------------
(* The FIFOs between the kernels of an FPGA. *)

(* A FIFO number tells the kernel that polls it, and at which place.         *)
LEMMA PolledOnce ==
    ASSUME NEW a \in Channels, NEW b \in Channels,
           NEW j \in 0 .. CHANNELS_PER_FPGA - 2, NEW k \in 0 .. CHANNELS_PER_FPGA - 2,
           polled(a, j) = polled(b, k)
    PROVE  a = b /\ j = k
<1> DEFINE n == CHANNELS_PER_FPGA - 1
<1>0. n \in Nat /\ a \in Nat /\ b \in Nat /\ j \in 0 .. n - 1 /\ k \in 0 .. n - 1
  BY ChannelsType
<1>1. n * a + j = n * b + k
  BY DEF polled
<1> HIDE DEF n
<1>2. ~ a < b
  <2> SUFFICES ASSUME a < b PROVE FALSE
    OBVIOUS
  <2>1. PICK d \in Nat : b = a + 1 + d
    <3>1. b - a - 1 \in Nat /\ b = a + 1 + (b - a - 1)
      BY <1>0
    <3> QED  BY <3>1
  <2>2. n * b = n * a + n + n * d /\ n * d \in Nat /\ n * a \in Nat
    BY <1>0, <2>1
  <2> QED  BY <1>0, <1>1, <2>2
<1>3. ~ b < a
  <2> SUFFICES ASSUME b < a PROVE FALSE
    OBVIOUS
  <2>1. PICK d \in Nat : a = b + 1 + d
    <3>1. a - b - 1 \in Nat /\ a = b + 1 + (a - b - 1)
      BY <1>0
    <3> QED  BY <3>1
  <2>2. n * a = n * b + n + n * d /\ n * d \in Nat /\ n * b \in Nat
    BY <1>0, <2>1
  <2> QED  BY <1>0, <1>1, <2>2
<1>4. a = b
  BY <1>0, <1>2, <1>3
<1>5. n * a \in Nat
  BY <1>0
<1> QED  BY <1>0, <1>1, <1>4, <1>5

(* What a kernel calls its k-th neighbour has that kernel as a neighbour.    *)
LEMMA Neighbours ==
    ASSUME NEW c \in Channels
    PROVE  /\ \A k \in 0 .. CHANNELS_PER_FPGA - 2 :
                 neighbour(c, k) \in Channels \ {c}
           /\ \A d \in Channels \ {c} :
                 /\ target_index(c, d) \in 0 .. CHANNELS_PER_FPGA - 2
                 /\ neighbour(c, target_index(c, d)) = d
BY ChannelsAssumption DEF Channels, neighbour, target_index

LEMMA ReaderIs ==
    ASSUME NEW to \in Channels, NEW k \in 0 .. CHANNELS_PER_FPGA - 2
    PROVE  Reader(polled(to, k)) = to
<1> DEFINE Polls(c) == \E j \in 0 .. CHANNELS_PER_FPGA - 2 : polled(c, j) = polled(to, k)
<1>1. Polls(to)
  OBVIOUS
<1>2. \A c \in Channels : Polls(c) => c = to
  BY PolledOnce
<1>3. Reader(polled(to, k)) = CHOOSE c \in Channels : Polls(c)
  BY DEF Reader
<1> HIDE DEF Polls
<1> QED  BY <1>1, <1>2, <1>3

(* interconnect, polled: the two formulas of the generator, one in the       *)
(* writer's template and one in the reader's, name the same FIFO: what a     *)
(* kernel writes for another is read by that one, and by no third, and at    *)
(* the place where it expects the writer.                                    *)
THEOREM InterconnectsAgree ==
    \A from \in Channels : \A to \in Channels \ {from} :
        /\ Reader(interconnect(to, from)) = to
        /\ \A k \in 0 .. CHANNELS_PER_FPGA - 2 :
               polled(to, k) = interconnect(to, from) <=> neighbour(to, k) = from
<1> SUFFICES ASSUME NEW from \in Channels, NEW to \in Channels \ {from}
             PROVE  /\ Reader(interconnect(to, from)) = to
                    /\ \A k \in 0 .. CHANNELS_PER_FPGA - 2 :
                           polled(to, k) = interconnect(to, from)
                               <=> neighbour(to, k) = from
  OBVIOUS
<1> DEFINE place == target_index(to, from)
<1>1. place \in 0 .. CHANNELS_PER_FPGA - 2 /\ neighbour(to, place) = from
  BY Neighbours
<1>2. interconnect(to, from) = polled(to, place)
  BY DEF interconnect, polled
<1> HIDE DEF place
<1>3. Reader(interconnect(to, from)) = to
  BY <1>1, <1>2, ReaderIs
<1>4. ASSUME NEW k \in 0 .. CHANNELS_PER_FPGA - 2
      PROVE  polled(to, k) = interconnect(to, from) <=> neighbour(to, k) = from
  <2>1. polled(to, k) = polled(to, place) => k = place
    BY <1>1, PolledOnce
  <2>2. neighbour(to, k) = neighbour(to, place) => k = place
    BY <1>1, ChannelsType DEF neighbour
  <2> QED  BY <1>1, <1>2, <2>1, <2>2
<1> QED  BY <1>3, <1>4

-----------------------------------------------------------------------------
(* The table of a CK_R. *)

LEMMA AllocationDomain ==
    ASSUME NEW program, NEW c, NEW kernel, NEW k \in DOMAIN allocations(program, c, kernel)
    PROVE  k \in Nat \ {0}
BY DEF allocations, round_robin

LEMMA PlacesType ==
    ASSUME NEW program, NEW c, NEW port, NEW key
    PROVE  Places(program, c, port, key) \in SUBSET Nat
BY AllocationDomain DEF Places

LEMMA ServingChannel ==
    ASSUME NEW program, NEW port, NEW key
    PROVE  LET there == get_channel_for_port_key(program, port, key)
           IN  \/ there = Nowhere
               \/ there \in Channels /\ Places(program, there, port, key) # {}
<1> DEFINE holders == {c \in Channels : Places(program, c, port, key) # {}}
<1>1. holders \in SUBSET Nat
  BY ChannelsType
<1>2. get_channel_for_port_key(program, port, key) =
         IF holders = {} THEN Nowhere
         ELSE CHOOSE c \in holders : \A d \in holders : c <= d
  BY DEF get_channel_for_port_key
<1>3. CASE holders = {}
  BY <1>2, <1>3
<1>4. CASE holders # {}
  <2> HIDE DEF holders
  <2>1. \E c \in holders : \A d \in holders : c <= d
    BY <1>1, <1>4, Least
  <2>2. get_channel_for_port_key(program, port, key) \in holders
    BY <1>2, <1>4, <2>1
  <2> QED  BY <2>2 DEF holders
<1> QED  BY <1>3, <1>4

(* An entry is the CK_S, another CK_R or the hardware port of an operation   *)
(* that takes this stream of the port.                                       *)
LEMMA InputTarget ==
    ASSUME NEW program, NEW c \in Channels, NEW port, NEW stream
    PROVE  LET dest == get_input_target(c, port, program, <<"ckr", stream>>)
               mine == allocations(program, c, "ckr")
               k    == dest - CHANNELS_PER_FPGA + 1
           IN  \/ dest = 0
               \/ dest \in 1 .. CHANNELS_PER_FPGA - 1
               \/ /\ dest \in Nat /\ dest >= CHANNELS_PER_FPGA
                  /\ k \in DOMAIN mine
                  /\ mine[k].op.port = port /\ mine[k].key = <<"ckr", stream>>
<1> DEFINE key    == <<"ckr", stream>>
           there  == get_channel_for_port_key(program, port, key)
           dest   == get_input_target(c, port, program, key)
           places == Places(program, c, port, key)
           first  == CHOOSE k \in places : \A other \in places : k <= other
           mine   == allocations(program, c, "ckr")
<1>0. CHANNELS_PER_FPGA \in Nat \ {0} /\ Nowhere \notin Channels
  BY ChannelsAssumption DEF Nowhere, Channels
<1>1. there = Nowhere \/ (there \in Channels /\ Places(program, there, port, key) # {})
  BY ServingChannel
<1>2. CASE there = Nowhere
  BY <1>2 DEF get_input_target
<1>3. CASE there \in Channels /\ there # c
  <2>1. dest = 1 + target_index(c, there)
    BY <1>0, <1>3 DEF get_input_target
  <2>2. target_index(c, there) \in 0 .. CHANNELS_PER_FPGA - 2
    BY <1>3, Neighbours
  <2> HIDE DEF dest, there
  <2>3. dest \in 1 .. CHANNELS_PER_FPGA - 1
    BY <1>0, <2>1, <2>2
  <2> QED  BY <2>3 DEF dest
<1>4. CASE there = c
  <2>1. places # {} /\ places \in SUBSET Nat
    BY <1>0, <1>1, <1>4, PlacesType
  <2>2. dest = CHANNELS_PER_FPGA - 1 + first
    BY <1>0, <1>4 DEF get_input_target
  <2>3. first \in places
    <3> HIDE DEF places
    <3>1. \E k \in places : \A other \in places : k <= other
      BY <2>1, Least
    <3> QED  BY <3>1
  <2>4. /\ first \in DOMAIN mine
        /\ mine[first].op.port = port /\ mine[first].key = key
    <3> HIDE DEF first
    <3> QED  BY <2>3 DEF Places
  <2>5. first \in Nat \ {0}
    <3> HIDE DEF first
    <3> QED  BY <2>4, AllocationDomain
  <2> HIDE DEF dest, first, mine
  <2>6. /\ dest \in Nat /\ dest >= CHANNELS_PER_FPGA
        /\ dest - CHANNELS_PER_FPGA + 1 = first
    BY <1>0, <2>2, <2>5
  <2>7. \/ dest = 0
        \/ dest \in 1 .. CHANNELS_PER_FPGA - 1
        \/ /\ dest \in Nat /\ dest >= CHANNELS_PER_FPGA
           /\ dest - CHANNELS_PER_FPGA + 1 \in DOMAIN mine
           /\ mine[dest - CHANNELS_PER_FPGA + 1].op.port = port
           /\ mine[dest - CHANNELS_PER_FPGA + 1].key = key
    BY <2>4, <2>6
  <2> QED  BY <2>7 DEF dest, mine
<1> QED  BY <1>1, <1>2, <1>3, <1>4

-----------------------------------------------------------------------------
(* The journey. *)

(* The kernels have the tables the generator made for the case. *)
TablesInv ==
    /\ setting \in Cases
    /\ cks = [f \in FPGAs(setting.topology) |->
                 cks_routing_tables(setting.topology, setting.programs[f], f)]
    /\ ckr = [f \in FPGAs(setting.topology) |->
                 [c \in Channels |-> ckr_routing_table(c, setting.programs[f])]]

(* The packet was sent by some operation to some rank. *)
PacketInv ==
    /\ packet.dst \in FPGAs(setting.topology)
    /\ packet.stream \in Streams
    /\ \E g \in FPGAs(setting.topology), c \in Channels :
           \E k \in DOMAIN allocations(setting.programs[g], c, "cks") :
               packet.port = allocations(setting.programs[g], c, "cks")[k].op.port

(* It is in a kernel that exists. *)
PlaceInv ==
    at.kind \in {"cks", "ckr"} => at.channel \in FPGAs(setting.topology) \X Channels

Inv == TablesInv /\ PacketInv /\ PlaceInv /\ GivenToItsOperation

LEMMA InvInit == Init => Inv
<1> SUFFICES ASSUME Init PROVE Inv
  OBVIOUS
<1>1. TablesInv
  BY DEF Init, TablesInv
<1>2. PICK f \in FPGAs(setting.topology), dst \in FPGAs(setting.topology), c \in Channels :
         \E k \in DOMAIN allocations(setting.programs[f], c, "cks") :
             LET entry == allocations(setting.programs[f], c, "cks")[k]
             IN  /\ packet = [src |-> f, dst |-> dst, port |-> entry.op.port,
                              stream |-> entry.key[2]]
                 /\ at = CKS(<<f, c>>)
  BY DEF Init
<1>k. PICK k \in DOMAIN allocations(setting.programs[f], c, "cks") :
         LET entry == allocations(setting.programs[f], c, "cks")[k]
         IN  /\ packet = [src |-> f, dst |-> dst, port |-> entry.op.port,
                          stream |-> entry.key[2]]
             /\ at = CKS(<<f, c>>)
  BY <1>2
<1>3. allocations(setting.programs[f], c, "cks")[k].key \in {"cks"} \X Streams
  BY <1>1, CasesAssumption DEF TablesInv, WellFormed
<1>4. PacketInv
  BY <1>k, <1>3 DEF PacketInv
<1>5. PlaceInv /\ GivenToItsOperation
  BY <1>k DEF PlaceInv, GivenToItsOperation, CKS
<1> QED  BY <1>1, <1>4, <1>5 DEF Inv

(* What a step leaves alone. *)
LEMMA TablesKept ==
    ASSUME TablesInv, PacketInv, UNCHANGED <<setting, cks, ckr, packet>>
    PROVE  TablesInv' /\ PacketInv'
BY DEF TablesInv, PacketInv

LEMMA CKSStep == Inv /\ SwitchCKS => Inv'
<1> SUFFICES ASSUME Inv, SwitchCKS PROVE Inv'
  OBVIOUS
<1> DEFINE f   == at.channel[1]
           c   == at.channel[2]
           idx == cks[f][c][packet.dst][packet.port]
           links == setting.topology.links
<1>0. UNCHANGED <<setting, cks, ckr, packet>>
  BY DEF SwitchCKS, Moves
<1>1. TablesInv' /\ PacketInv'
  BY <1>0, TablesKept DEF Inv
<1>2. /\ at.channel \in FPGAs(setting.topology) \X Channels
      /\ f \in FPGAs(setting.topology) /\ c \in Channels
  BY DEF SwitchCKS, Inv, PlaceInv
<1>3. idx \in 0 .. CHANNELS_PER_FPGA
  <2>1. cks[f] = cks_routing_tables(setting.topology, setting.programs[f], f)
    BY <1>2 DEF Inv, TablesInv
  <2>2. WellFormed(setting)
    BY CasesAssumption DEF Inv, TablesInv
  <2>3. PICK g \in FPGAs(setting.topology), d \in Channels :
            \E k \in DOMAIN allocations(setting.programs[g], d, "cks") :
               packet.port = allocations(setting.programs[g], d, "cks")[k].op.port
    BY DEF Inv, PacketInv
  <2>4. packet.dst \in FPGAs(setting.topology)
    BY DEF Inv, PacketInv
  <2>5. PICK k \in DOMAIN allocations(setting.programs[g], d, "cks") :
            packet.port = allocations(setting.programs[g], d, "cks")[k].op.port
    BY <2>3
  <2>6. cks_routing_tables(setting.topology, setting.programs[f], f)
            [c][packet.dst][packet.port] \in 0 .. CHANNELS_PER_FPGA
    <3> DEFINE entry == allocations(setting.programs[g], d, "cks")[k]
    <3> HIDE DEF f, c
    <3>1. \A e \in Channels :
             cks_routing_tables(setting.topology, setting.programs[f], f)
                 [e][packet.dst][entry.op.port] \in 0 .. CHANNELS_PER_FPGA
      BY <1>2, <2>2, <2>4, Zenon DEF WellFormed
    <3> QED  BY <1>2, <2>5, <3>1
  <2> QED  BY <2>1, <2>6
<1>4. CASE at' = Lost
  BY <1>1, <1>4 DEF Inv, PlaceInv, GivenToItsOperation, Lost
<1>5. CASE at' = CKR(links[at.channel]) /\ at.channel \in DOMAIN links
  <2>1. links[at.channel] \in FPGAs(setting.topology) \X Channels
    BY <1>5, CasesAssumption DEF Inv, TablesInv, WellFormed
  <2> QED  BY <1>0, <1>1, <1>5, <2>1 DEF Inv, PlaceInv, GivenToItsOperation, CKR
<1>6. CASE at' = CKR(at.channel)
  BY <1>0, <1>1, <1>2, <1>6 DEF Inv, PlaceInv, GivenToItsOperation, CKR
<1>7. CASE /\ idx > TO_CKR
           /\ at' = CKS(<<f, Reader(interconnect(neighbour(c, idx - 2), c))>>)
  <2>1. idx - 2 \in 0 .. CHANNELS_PER_FPGA - 2
    <3> HIDE DEF idx
    <3> QED  BY <1>3, <1>7, ChannelsType DEF TO_CKR
  <2>2. neighbour(c, idx - 2) \in Channels \ {c}
    <3> HIDE DEF idx, c
    <3> QED  BY <1>2, <2>1, Neighbours
  <2>3. Reader(interconnect(neighbour(c, idx - 2), c)) \in Channels
    <3> HIDE DEF idx, c
    <3>1. c \in Channels \ {neighbour(c, idx - 2)}
      BY <1>2, <2>2
    <3> QED  BY <2>2, <3>1, InterconnectsAgree
  <2>4. <<f, Reader(interconnect(neighbour(c, idx - 2), c))>>
            \in FPGAs(setting.topology) \X Channels
    BY <1>2, <2>3
  <2> QED  BY <1>0, <1>1, <1>7, <2>4 DEF Inv, PlaceInv, GivenToItsOperation, CKS
<1> QED  BY <1>4, <1>5, <1>6, <1>7 DEF SwitchCKS, Moves

LEMMA CKRStep == Inv /\ SwitchCKR => Inv'
<1> SUFFICES ASSUME Inv, SwitchCKR PROVE Inv'
  OBVIOUS
<1> DEFINE f    == at.channel[1]
           c    == at.channel[2]
           dest == IF ForThisRank(f) THEN ckr[f][c][packet.port][packet.stream] ELSE 0
           mine == allocations(setting.programs[f], c, "ckr")
<1>0. UNCHANGED <<setting, cks, ckr, packet>>
  BY DEF SwitchCKR, Moves
<1>1. TablesInv' /\ PacketInv'
  BY <1>0, TablesKept DEF Inv
<1>2. /\ at.channel \in FPGAs(setting.topology) \X Channels
      /\ f \in FPGAs(setting.topology) /\ c \in Channels
  BY DEF SwitchCKR, Inv, PlaceInv
<1>3. ckr[f][c][packet.port][packet.stream] =
         get_input_target(c, packet.port, setting.programs[f], <<"ckr", packet.stream>>)
  <2>1. ckr[f][c] = ckr_routing_table(c, setting.programs[f])
    BY <1>2 DEF Inv, TablesInv
  <2>2. packet.port \in 0 .. logical_port_count(setting.programs[f]) - 1
    <3>1. WellFormed(setting)
      BY CasesAssumption DEF Inv, TablesInv
    <3>2. PICK g \in FPGAs(setting.topology), d \in Channels :
              \E k \in DOMAIN allocations(setting.programs[g], d, "cks") :
                 packet.port = allocations(setting.programs[g], d, "cks")[k].op.port
      BY DEF Inv, PacketInv
    <3> QED  BY <1>2, <3>1, <3>2 DEF WellFormed
  <2>3. packet.stream \in Streams
    BY DEF Inv, PacketInv
  <2> HIDE DEF f, c
  <2> QED  BY <2>1, <2>2, <2>3 DEF ckr_routing_table
<1>4. CASE at' = CKS(at.channel)
  BY <1>0, <1>1, <1>2, <1>4 DEF Inv, PlaceInv, GivenToItsOperation, CKS
<1>5. CASE /\ dest \in 1 .. CHANNELS_PER_FPGA - 1
           /\ at' = CKR(<<f, Reader(interconnect(neighbour(c, dest - 1), c))>>)
  <2>1. dest - 1 \in 0 .. CHANNELS_PER_FPGA - 2
    <3> HIDE DEF dest
    <3> QED  BY <1>5, ChannelsType
  <2>2. neighbour(c, dest - 1) \in Channels \ {c}
    <3> HIDE DEF dest, c
    <3> QED  BY <1>2, <2>1, Neighbours
  <2>3. Reader(interconnect(neighbour(c, dest - 1), c)) \in Channels
    <3> HIDE DEF dest, c
    <3>1. c \in Channels \ {neighbour(c, dest - 1)}
      BY <1>2, <2>2
    <3> QED  BY <2>2, <3>1, InterconnectsAgree
  <2>4. <<f, Reader(interconnect(neighbour(c, dest - 1), c))>>
            \in FPGAs(setting.topology) \X Channels
    BY <1>2, <2>3
  <2> QED  BY <1>0, <1>1, <1>5, <2>4 DEF Inv, PlaceInv, GivenToItsOperation, CKR
<1>6. CASE /\ dest >= CHANNELS_PER_FPGA
           /\ at' = Given(f, mine[dest - CHANNELS_PER_FPGA + 1])
  <2>1. ForThisRank(f) /\ dest = ckr[f][c][packet.port][packet.stream]
    <3>1. CASE ~ ForThisRank(f)
      <4>1. dest = 0
        BY <3>1
      <4> HIDE DEF dest
      <4> QED  BY <1>6, <4>1, ChannelsType
    <3>2. CASE ForThisRank(f)
      BY <3>2
    <3> QED  BY <3>1, <3>2
  <2>2. /\ mine[dest - CHANNELS_PER_FPGA + 1].op.port = packet.port
        /\ mine[dest - CHANNELS_PER_FPGA + 1].key = <<"ckr", packet.stream>>
    <3>1. dest = get_input_target(c, packet.port, setting.programs[f],
                                  <<"ckr", packet.stream>>)
      BY <1>3, <2>1
    <3> HIDE DEF dest, f, c
    <3> QED  BY <1>2, <1>6, <3>1, InputTarget, ChannelsType
  <2>3. f = packet.dst
    BY <2>1 DEF ForThisRank
  <2> HIDE DEF dest, mine, f, c
  <2>4. GivenToItsOperation'
    BY <1>0, <1>6, <2>2, <2>3 DEF GivenToItsOperation, Given
  <2> QED  BY <1>1, <1>6, <2>4 DEF Inv, PlaceInv, Given
<1> QED  BY <1>4, <1>5, <1>6 DEF SwitchCKR, Moves

(* GivenToItsOperation, for every number of QSFPs, every topology and every  *)
(* set of programs: wherever the tables of the CK_S send a packet, the       *)
(* tables of the CK_R give it only to an operation of its rank, port and     *)
(* stream.                                                                   *)
THEOREM OperationsGetTheirPackets == Spec => []GivenToItsOperation
<1>1. Inv /\ [Next]_vars => Inv'
  <2>1. ASSUME Inv, UNCHANGED vars PROVE Inv'
    <3>1. TablesInv' /\ PacketInv'
      BY <2>1, TablesKept DEF Inv, vars
    <3>2. PlaceInv' /\ GivenToItsOperation'
      BY <2>1 DEF Inv, PlaceInv, GivenToItsOperation, vars
    <3> QED  BY <3>1, <3>2 DEF Inv
  <2> QED  BY <2>1, CKSStep, CKRStep DEF Next
<1>2. Inv => GivenToItsOperation
  BY DEF Inv
<1> QED  BY <1>1, <1>2, InvInit, PTL DEF Spec

-----------------------------------------------------------------------------
(* What the driver makes of the buffer size of an operation, for every size  *)
(* a user can ask for and every number of elements in a packet.              *)

(* Rounding up to whole multiples of d: as much as was asked for, and less   *)
(* than d more                                                               *)
LEMMA Rounded ==
    ASSUME NEW x \in Nat \ {0}, NEW d \in Nat \ {0}
    PROVE  LET q == (x + d - 1) \div d
           IN  q \in Nat \ {0} /\ d * q >= x /\ d * (q - 1) < x
<1> DEFINE q == (x + d - 1) \div d
           r == (x + d - 1) % d
<1>1. q \in Nat /\ r \in 0 .. d - 1 /\ x + d - 1 = d * q + r
    BY SMTT(30)
<1> HIDE DEF q, r
<1>2. d * (q - 1) = d * q - d
    BY <1>1, SMTT(30)
<1>3. d * (q - 1) < x /\ d * q >= x
    BY <1>1, <1>2, SMTT(30)
<1>4. q # 0
    BY <1>1, SMTT(30)
<1> QED
    BY <1>1, <1>3, <1>4 DEF q

(* transform_buffer_size (rewrite.py 26-33) with the default of the          *)
(* operation (ops.py 37): whatever the user says, also nothing or zero, the  *)
(* size is a positive multiple of eight packets, which is what the tokens of *)
(* push.cl and pop.cl are computed with; and a size of n elements gives room *)
(* for n elements, and for no eight packets more than that.                  *)
THEOREM BufferSizesFit ==
    ASSUME NEW n \in Nat \cup {Unset}, NEW e \in 1 .. PACKET_PAYLOAD_SIZE
    PROVE  LET packets == transform_buffer_size(n, e)
           IN  /\ packets \in Nat \ {0}
               /\ packets % 8 = 0
               /\ n >= 1 => packets * e >= n /\ (packets - 8) * e < n
<1>1. CASE n = Unset
    BY <1>1 DEF transform_buffer_size, Unset, DefaultSize
<1>2. CASE n # Unset
    <2> DEFINE x == IF n = 0 THEN DefaultSize ELSE n
               d == 8 * e
               q == (x + d - 1) \div d
    <2>1. x \in Nat \ {0} /\ d \in Nat \ {0} /\ e \in Nat
        BY <1>2 DEF DefaultSize, Unset, PACKET_PAYLOAD_SIZE
    <2>2. transform_buffer_size(n, e) = q * 8
        BY <1>2 DEF transform_buffer_size
    <2>3. n >= 1 => x = n
        BY <1>2 DEF Unset
    <2> HIDE DEF x
    <2>4. q \in Nat \ {0} /\ d * q >= x /\ d * (q - 1) < x
        BY <2>1, Rounded
    <2> HIDE DEF q
    <2>5. d * q = (q * 8) * e /\ d * (q - 1) = (q * 8 - 8) * e
        BY <2>1, <2>4, SMTT(30)
    <2>6. q * 8 \in Nat \ {0} /\ (q * 8) % 8 = 0
        BY <2>4
    <2> HIDE DEF d
    <2> QED
        BY <2>2, <2>3, <2>4, <2>5, <2>6
<1> QED
    BY <1>1, <1>2
=============================================================================
