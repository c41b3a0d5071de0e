------------------------------ MODULE Routing ------------------------------
(****************************************************************************)
(* The routing tables of the communication kernels, as the code generator   *)
(* computes them for a topology.                                            *)
(*                                                                          *)
(* A channel is <<fpga, index>>, and an FPGA is its rank.  A topology is    *)
(* [fpgas, links]: how many FPGAs there are, and a function that takes each *)
(* channel with a cable to the channel at the other end.                    *)
(*                                                                          *)
(* The shortest paths are networkx's, in whose order ties are broken; it is *)
(* modelled as far as the tables depend on it.                              *)
(****************************************************************************)
EXTENDS Program, SequencesExt

COST_INTER_FPGA == 100
COST_INTRA_FPGA == 1

FPGAs(topology) == 0 .. topology.fpgas - 1

(* The graph: a channel's cable, and the other channels of its FPGA *)
Adjacent(topology, channel) ==
    (IF channel \in DOMAIN topology.links THEN <<topology.links[channel]>> ELSE <<>>)
    \o [k \in 1 .. CHANNELS_PER_FPGA - 1 |->
            <<channel[1], neighbour(channel[2], k - 1)>>]

Cost(a, b) == IF a[1] = b[1] THEN COST_INTRA_FPGA ELSE COST_INTER_FPGA

(* a comes before b in an order of pairs *)
Before(a, b) == a[1] < b[1] \/ (a[1] = b[1] /\ a[2] < b[2])

-----------------------------------------------------------------------------
(* networkx.shortest_path, from one channel *)

(* An edge out of what is settled: the one settled k-th, its n-th neighbour *)
Edges(topology, settled) ==
    UNION {{<<k, n>> : n \in DOMAIN Adjacent(topology, settled[k].channel)} :
           k \in DOMAIN settled}

End(topology, settled, edge) == Adjacent(topology, settled[edge[1]].channel)[edge[2]]

(* Dijkstra's step: the nearest channel that is not settled, by the edge     *)
(* that was found first *)
Settle(topology, settled) ==
    LET done  == {settled[k].channel : k \in DOMAIN settled}
        edges == {e \in Edges(topology, settled) : End(topology, settled, e) \notin done}
        length(e) == settled[e[1]].length
                     + Cost(settled[e[1]].channel, End(topology, settled, e))
        next == CHOOSE e \in edges : \A other \in edges \ {e} :
                    \/ length(e) < length(other)
                    \/ length(e) = length(other) /\ Before(e, other)
        channel == End(topology, settled, next)
    IN  IF edges = {} THEN settled
        ELSE Append(settled, [channel |-> channel, length |-> length(next),
                              path |-> Append(settled[next[1]].path, channel)])

(* The paths from a channel, in the order in which their ends were found:    *)
(* settled channel by settled channel *)
Paths(topology, source) ==
    LET count   == topology.fpgas * CHANNELS_PER_FPGA
        settled == FoldLeft(LAMBDA s, n : Settle(topology, s),
                            <<[channel |-> source, length |-> 0, path |-> <<source>>]>>,
                            [n \in 2 .. count |-> n])
        seen    == FoldLeft(LAMBDA all, s : all \o Adjacent(topology, s.channel),
                            <<source>>, settled)
        found   == SelectSeq([n \in DOMAIN seen |-> n],
                             LAMBDA n : \A m \in 1 .. n - 1 : seen[m] # seen[n])
        pathTo(channel) == settled[SelectInSeq(settled, LAMBDA s : s.channel = channel)].path
    IN  FoldLeft(LAMBDA paths, n : Append(paths, pathTo(seen[n])), <<>>, Tail(found))

(* shortest_paths, for the channels of an FPGA *)
shortest_paths(topology, fpga) ==
    FoldLeft(LAMBDA all, n : Append(all, Paths(topology, <<fpga, n - 1>>)), <<>>,
             [n \in 1 .. CHANNELS_PER_FPGA |-> n])

-----------------------------------------------------------------------------
(* The table of a CK_S: for each destination and port *)

TO_QSFP == 0
TO_CKR  == 1
to_cks(channel, other) == 2 + target_index(channel, other)

get_connections(paths, target) == SelectSeq(paths, LAMBDA p : p[Len(p)][1] = target)

path_fpga_length(path) == Cardinality({path[k][1] : k \in DOMAIN path})

(* The first item of a sequence with the least cost, a pair *)
FirstMin(items, costs) ==
    items[CHOOSE k \in DOMAIN items : \A j \in DOMAIN items \ {k} :
              \/ Before(costs[k], costs[j])
              \/ costs[k] = costs[j] /\ k < j]

(* The channel of this FPGA that a path leaves by *)
Exit(path) == IF path[2][1] = path[1][1] THEN path[2] ELSE path[1]

(* Mutant: a channel without a cable does not pass the packet on.            *)
TowardsCable(channel, exit) == TO_QSFP

(* The entry that sends a packet there *)
Towards(channel, exit) ==
    IF exit = channel THEN TO_QSFP ELSE to_cks(channel[2], exit[2])

(* Mutant: the path with the most channels, although all are shortest.       *)
get_output_target_far(paths, channel, target) ==
    LET found == get_connections(paths, target)
    IN  IF target = channel[1] THEN TO_CKR
        ELSE Towards(channel, Exit(FirstMin(found,
                 [k \in DOMAIN found |-> <<0, -Len(found[k])>>])))

(* The path with the fewest channels *)
get_output_target(paths, channel, target) ==
    LET found == get_connections(paths, target)
    IN  IF target = channel[1] THEN TO_CKR
        ELSE Towards(channel, Exit(FirstMin(found,
                 [k \in DOMAIN found |-> <<0, Len(found[k])>>])))

(* The paths over the fewest FPGAs *)
closest_paths_to_fpga(paths, target) ==
    LET all == get_connections(paths, target)
    IN  SelectSeq(all, LAMBDA p : \A k \in DOMAIN all :
                           path_fpga_length(p) <= path_fpga_length(all[k]))

(* Mutant: the load decides alone, also against the direction.               *)
LeastUsedExit(paths, target, occupancy) ==
    <<paths[1][1][1], CHOOSE c \in Channels : \A d \in Channels : occupancy[c] <= occupancy[d]>>

(* Among them, the exit that is used least, and of those the nearest *)
BalancedExit(paths, target, occupancy) ==
    LET closest == closest_paths_to_fpga(paths, target)
    IN  Exit(FirstMin(closest, [k \in DOMAIN closest |->
                 <<occupancy[Exit(closest[k])[2]], Len(closest[k])>>]))

(* cks_routing_tables of an FPGA: the shortest paths for all ports, then     *)
(* balanced ones for the ports a kernel serves itself *)
cks_routing_tables(topology, program, fpga) ==
    LET routes == shortest_paths(topology, fpga)
        ports == 0 .. logical_port_count(program) - 1
        shortest == [c \in Channels |-> [target \in FPGAs(topology) |->
            LET entry == get_output_target(routes[c + 1], <<fpga, c>>, target)
            IN  [port \in ports |-> entry]]]
        served(c) == allocations(program, c, "cks")
        visits == FlattenSeq([target \in 1 .. topology.fpgas |->
            FlattenSeq([c \in 1 .. CHANNELS_PER_FPGA |->
                [k \in DOMAIN served(c - 1) |->
                    <<target - 1, c - 1, served(c - 1)[k].op.port>>]])])
        balance(acc, visit) ==
            LET target == visit[1]
                c      == visit[2]
                exit   == BalancedExit(routes[c + 1], target, acc.occupancy)
            IN  IF target = fpga
                THEN [acc EXCEPT !.table[c][target][visit[3]] = TO_CKR]
                ELSE [table     |-> [acc.table EXCEPT ![c][target][visit[3]] =
                                        Towards(<<fpga, c>>, exit)],
                      occupancy |-> [acc.occupancy EXCEPT ![exit[2]] = @ + 1]]
    IN  FoldLeft(balance, [table |-> shortest, occupancy |-> [c \in Channels |-> 0]],
                 visits).table

-----------------------------------------------------------------------------
(* The table of a CK_R: for each port and stream *)

(* 0 is the CK_S, 1 .. CHANNELS_PER_FPGA - 1 are the other CK_Rs, and then   *)
(* come the hardware ports. *)
get_input_target(channel, port, program, key) ==
    LET there == get_channel_for_port_key(program, port, key)
    IN  CASE there = Nowhere -> 0
          [] there # Nowhere /\ there # channel -> 1 + target_index(channel, there)
          [] OTHER ->
               LET places == Places(program, channel, port, key)
               IN  CHANNELS_PER_FPGA - 1 +
                       CHOOSE k \in places : \A other \in places : k <= other

ckr_routing_table(channel, program) ==
    [port \in 0 .. logical_port_count(program) - 1 |->
        [stream \in Streams |-> get_input_target(channel, port, program, <<"ckr", stream>>)]]
=============================================================================
