------------------------------ MODULE Program ------------------------------
(****************************************************************************)
(* The program of one rank, as the code generator holds it: which network   *)
(* FIFOs every operation uses, and which pair of communication kernels      *)
(* serves which of them.                                                    *)
(*                                                                          *)
(* A program is [operations, p2p_rendezvous], the operations sorted by      *)
(* logical port.  A FIFO of the network has a key: the kernel at its other  *)
(* end, "cks" or "ckr", and the stream, "data" or "control".                *)
(****************************************************************************)
EXTENDS Integers, Sequences

CONSTANT CHANNELS_PER_FPGA      \* pairs of CK_S and CK_R, one per QSFP

ASSUME ChannelsAssumption == CHANNELS_PER_FPGA \in Nat \ {0}

Channels == 0 .. CHANNELS_PER_FPGA - 1

Streams == {"data", "control"}
Keys    == {"cks", "ckr"} \X Streams

-----------------------------------------------------------------------------
(* The FIFOs of an operation to and from the network *)
channel_usage(op, p2p_rendezvous) ==
    CASE op.type = "push" ->
           {<<"cks", "data">>} \cup (IF p2p_rendezvous THEN {<<"ckr", "control">>} ELSE {})
      [] op.type = "pop" ->
           {<<"ckr", "data">>} \cup (IF p2p_rendezvous THEN {<<"cks", "control">>} ELSE {})
      [] OTHER -> Keys          \* the collectives

(* values[index::size] *)
round_robin(values, index, size) ==
    [k \in 1 .. (Len(values) - index + size - 1) \div size |->
        values[index + (k - 1) * size + 1]]

(* Everything the kernels of one kind serve: data FIFOs first *)
op_channels(program, kernel) ==
    LET entries(stream) ==
            LET key  == <<kernel, stream>>
                uses == SelectSeq(program.operations,
                    LAMBDA op : key \in channel_usage(op, program.p2p_rendezvous))
            IN  [k \in DOMAIN uses |-> [op |-> uses[k], key |-> key]]
    IN  entries("data") \o entries("control")

(* get_channel_allocations_with_prefix: the hardware ports of a kernel *)
allocations(program, channel, kernel) ==
    round_robin(op_channels(program, kernel), channel, CHANNELS_PER_FPGA)

(* validate_allocations: no FIFO belongs to two operations. *)
Valid(program) ==
    \A kernel \in {"cks", "ckr"} :
        LET all == op_channels(program, kernel)
        IN  \A j, k \in DOMAIN all :
                (all[j].key = all[k].key /\ all[j].op.port = all[k].op.port) => j = k

logical_port_count(program) ==
    LET ports == {program.operations[k].port : k \in DOMAIN program.operations} \cup {0}
    IN  1 + CHOOSE p \in ports : \A q \in ports : q <= p

Nowhere == -1

(* The hardware ports of a channel for port and key: one, or none *)
Places(program, channel, port, key) ==
    LET mine == allocations(program, channel, key[1])
    IN  {k \in DOMAIN mine : mine[k].op.port = port /\ mine[k].key = key}

get_channel_for_port_key(program, port, key) ==
    LET holders == {c \in Channels : Places(program, c, port, key) # {}}
    IN  IF holders = {} THEN Nowhere
        ELSE CHOOSE c \in holders : \A d \in holders : c <= d

-----------------------------------------------------------------------------
(* How the kernels of one kind number their neighbours *)

(* The index of a neighbour, skipping the index of the kernel itself *)
target_index(source, target) == IF target < source THEN target ELSE target - 1

(* The k-th neighbour, counting from 0 *)
neighbour(channel, k) == IF k < channel THEN k ELSE k + 1

(* The FIFO of channels_interconnect_ck_s (or _ck_r) that kernel `from'      *)
(* writes for kernel `to', *)
interconnect(to, from) == (CHANNELS_PER_FPGA - 1) * to + target_index(to, from)

(* and the one that `channel' polls for its k-th neighbour. *)
polled(channel, k) == (CHANNELS_PER_FPGA - 1) * channel + k

Reader(fifo) ==
    CHOOSE c \in Channels : \E k \in 0 .. CHANNELS_PER_FPGA - 2 : polled(c, k) = fifo
=============================================================================
