# SMI in TLA+

Streaming Message Interface (SMI) is a message passing interface for FPGAs.
Kernels on different FPGAs exchange messages one element at a time, from inside
a pipeline.  This directory holds TLA+ models of its transport and of its
communication primitives, the TLC configurations that check them, and proofs
checked by TLAPS.  Paths below are relative to the root of the repository.

## 1. The system

A program is OpenCL device code.  The code generator (`src/codegen`) reads which
operations (`SMI_Push` on port 3, `SMI_Bcast` on port 5, ...) the program uses and
generates, per FPGA:

| part | source | state | operations | talks to |
|---|---|---|---|---|
| point-to-point channels | `codegen/templates/push.cl`, `pop.cl` | one `SMI_Channel` per end: elements processed, packet under construction, tokens | open, push, push with flush, pop | writes `cks_data`/`cks_control`, reads `ckr_data`/`ckr_control` |
| collectives: broadcast, scatter, gather, reduce, barrier | `bcast.cl`, `scatter.cl`, `gather.cl`, `reduce.cl`, `barrier.cl` | a channel per application kernel, a support kernel per rank and port with a message, counters of requests and credits | open, one call per element, an endless loop in the support kernel | application and support kernel over depth-1 FIFOs, the network as above |
| tree collectives | `treecast.cl`, `treereduce.cl` | the same, and the place in a binary tree | the same | the same |
| CK_S, CK_R | `cks.cl`, `ckr.cl`, FIFOs in `device.cl` | a routing table, `sender_id`, `contiguous_reads`, the message being delivered | poll an input, route, deliver, rotate | each other within the FPGA, the QSFP links, the FIFOs of the ports |
| channel allocation | `codegen/program.py`, `ops.py`, `utils.py`, `rewrite.py` | none | assign the hardware ports of all operations to the CK pairs, round robin; buffer sizes | code generation, routing |
| routing | `codegen/routing.py`, `routing_table.py` | none | shortest paths, CK_S tables (balanced), CK_R tables | tables loaded by CK_S and CK_R |
| source rewriter, driver | `source-rewriter/src`, `codegen/rewrite.py`, `main.py` | none | find the operations of a program in its syntax tree, rename the calls by port and data type, report the channels; make the program of them | code generation |
| packet header | `include/smi/header_message.h`, `network_message.h` | one byte for count and operation | get and set | everything |

All parts run concurrently.  Every FIFO is bounded, writes block, and nothing is
lost or duplicated on the way; there are no timeouts, no retries and no crashes.
What is hard is the rest: a channel or a collective has no identity on the wire,
so each one must leave nothing behind for the next on the same port; credits and
tokens must add up exactly, at every message size; a FIFO that is full stops a
CK_S or CK_R and with it unrelated traffic; the polling must serve every input;
tables computed apart must agree.

What makes each part correct:

* point-to-point: elements arrive once, in order, in their own channel; packets in
  flight fit in the receiver's buffer; no token outlives its channel; both ends finish.
* collectives: data of one collective never reaches another, also with another root;
  nothing is sent to a rank that is not ready; credits bound what is in flight; everyone finishes.
* trees: parent and child agree, every rank is below the root.
* CK_S, CK_R: order per input is kept, no input starves, no packet is dropped.
* allocation: every hardware port has exactly one kernel; both ends of an interconnect agree on its number.
* rewriter: every call names a function that is generated, that of its own channel; buffers hold what was asked for.
* routing: a packet reaches its rank and port in a bounded number of hops.

## 2. Modules

### SmiHeader
The byte `elems_and_op` and its macros, with the width and the sign of an OpenCL
`char`.  Other modules use these operators for the element counts of packets.

### PointToPoint
The sender (`snd`) and the receiver (`rcv`) of one port pair, each an `SMI_Channel`
and a program counter, and the two directions of the network between them.
A kernel opens `NumMessages` channels one after the other, with counts drawn from
`MessageSizes`; both ends of a channel use the same count, which the interface
requires.

| action | code |
|---|---|
| `OpenSend` | `SMI_Open_send_channel` |
| `Push(immediate)` | `SMI_Push_flush` up to its read of `ckr_control`, the blocking write of `cks_data` included |
| `ReceiveTokens` | that read and the rest of the function |
| `OpenReceive` | `SMI_Open_receive_channel` |
| `Pop` | `SMI_Pop` up to its write of `cks_control`, the blocking read of `ckr_data` included |
| `SendTokens` | that write |
| `DeliverData`, `DeliverControl` | the last write of CK_R into `ckr_data` or `ckr_control` |

The network in between is one bounded FIFO per direction (`WireDepth` packets, then the
port's own FIFO of `BufferSize`): the CK kernels route all packets of one port to one rank
along one path, so they stay in order.  Payload is reduced to identities: a packet says which
elements of which channel it carries (history, no guard reads it) and its
`elems_and_op`.  Unsigned arithmetic is modulo `UINT`.

### Stream
What a sequence of transient channels promises: elements go in and come out in
order, channel by channel; with `Synchronous`, the sender is at most `Capacity` ahead
and never a whole channel.  `PointToPointInv` states that PointToPoint implements it.

### PointToPointInv, PointToPointProofs
The inductive invariant and the proofs, see section 5.

### CommKernel
The loop of one CK_S or CK_R.  `PollEmpty` and `PollMessage` are the two outcomes of the
non-blocking read, `Write` is the blocking write with the test of the limit that ends the
iteration; `Arrive` and `Consume` are the other ends of its FIFOs.  A message carries
the output its routing table names for it: the tables are `Routing`'s; its number counts the messages of its input for that output.  `contiguous_reads`
wraps as the signed char it is (`CHAR_MAX`).  `bypassed[i]` is history: how many messages of other inputs were
read while input i had one.  `CommKernelProofs` holds its proofs.

### Program, Routing
Pure functions, written over sets, functions and folds.  `Program` is the allocation: which
FIFOs an operation uses (`channel_usage`), their distribution to the kernels (`op_channels`,
`allocations`), the check the generator makes (`Valid`), the lookup by port
(`get_channel_for_port_key`, with its order of the four kinds), and the two formulas for the FIFOs
between kernels of one FPGA: `interconnect`, which the writer uses, and `polled`, the reader.
`Routing` builds the tables: the graph of channels, networkx's shortest paths
in the order in which the code gets them, `get_output_target`, the balanced exits and
`ckr_routing_table`.  networkx is outside the repository; its paths are modelled by Dijkstra's
algorithm with the order of discovery, since the tables depend on which of several shortest
paths comes first.

`RoutingTests` states what the repository's own tests expect (`test_routing_table.py`,
`test_program.py`) as assumptions about the model; TLC evaluates them.  The model was also
compared with the Python code on thirty random topologies and programs, entry by entry, without a difference.

### Journey
One packet, from the operation that writes it to the operation it is given to, over the kernels
of every FPGA on the way.  `SwitchCKS` and `SwitchCKR` are the two `switch` statements with the tables
of `Routing` loaded; `Reader` says which kernel polls the FIFO that was written.  `visited` is
history.  A case is a topology with a program for each FPGA; `WellFormed` says what the generator is given and makes of
it (cables join channels, all ranks have the ports a program sends on, an entry of a CK_S is one of its targets), and
TLC evaluates it for the cases of the runs.  `CodegenProofs` holds its proofs, and those about `Rewrite`.

### Rewrite
The way from a user's kernels to the program: `Rewritten` and `OutputMetadata` are what
the source rewriter does to a function and reports of it, `codegen_device` is what the driver makes of the reports of
all files (`parse_smi_operation`, `transform_buffer_size`, the order by port), `Generated` the functions `device.cl` then
defines for an operation.  A source is what clang has made of it: functions with calls and the values
of their arguments.  `RewriteTests` states what `test_rewriter.py` expects, and that over all kernels of two channels every
call finds exactly one function of its name, which is that of its channel's operation, when the allocation accepts the
program; TLC evaluates both.  `SMI_Push_flush` is not among the calls the extractors name (`ops/push.cpp` 31), although
they can declare it and the template generates it: such a call stays as it is, in the model as in the code.

### Tree
The place of every rank in the tree of `treecast.cl` and `treereduce.cl`: `MyParent` and
`Child` are the two computations at the end of `SMI_Open_treecast_channel` and
`SMI_Open_treereduce_channel`, with the char a child is stored in.  The only action, `Climb`,
is a support kernel that passes a contribution to its parent; `Init` chooses size, root and
starting rank.  `TreeProofs` holds its proofs.

### Collective
What a sequence of collectives promises: each rank makes `Calls(k, r)` calls in
collective k, call i returns only when the calls `Needs(k, r, i)` of other ranks have been
made, and then it does return.  Barrier and Collectives implement it with their own
`Calls` and `Needs`; the refinement maps collective, calls entered and calls returned of
each rank.

### Wires
What a collective sees of the network: per kind (data, control) one FIFO of `WireDepth`
packets from each rank to each rank.  Packets of one rank stay in order; where several
ranks' packets meet in one port FIFO their order is chosen by the read.  Depth one is the
most demanding.  The FIFOs between an application and its support kernel have depth one
(`ops.py` 58-71).

### Bcast, Scatter, Gather, Reduce

Each has the actions of the application (`Application`), one for every FIFO operation of
`SMI_*`, and those of the support kernel (`Support`), and a channel that the call which ends a
collective opens again for the next (`Returned`, `Opened`).

| module | action | code |
|---|---|---|
| all | `Call` | the function is entered for the next element |
| Bcast, Scatter | `Send` | the root packs, and when the packet `Leaves`, writes it to the support kernel; in Scatter its own element is copied |
| | `SendReady`, `Receive` | the others: ready-to-receive of the first call, then the element, of a new packet when the last is used up |
| | `ReadApplication`, `TakeRequest`, `Deliver`/`Forward` | one turn of the support kernel's loop |
| Gather | `SendRequest`, `Receive` | the root: request at a contributor's first element, then its own element or that of the contributor (`Counted`) |
| | `Send` | a contributor |
| | `ReadApplication`, `TakeRequest`, `Forward` | a packet, the request a `SYNCH` packet waits for, the write to the network |
| Reduce | `Offer`, `TakeResult` | the root: its element to the support kernel, the result back |
| | `TakeCredit`, `Contribute` | the others |
| | `PollEmpty`, `AddOwn`, `AddOther` | the non-blocking reads of the support kernel, in turn, with `READS_LIMIT`; an addition, and a complete sum leaves |
| | `SendCredits` | the loop that gives every rank one credit |

The sums of Reduce are sets of contributions, of which there are `credits_flow_control`
(16 in the code, a parameter here); what is added and how is left out.
`send_count` and `recv_count` of Gather are parameters of their own: `gather.h` (40) documents `recv_count` as
the total over all ranks, while the code (`gather.cl` 45) and the tests use the number per rank, as the models do.

### Collectives
A program of broadcasts, scatters, gathers and reduces, each kind on its own port: the four modules
composed by `INSTANCE`.  An application goes on to the next collective when its calls have returned, while support
kernels, its own included, may still be busy with the last.  This is where one collective could
meet the next, in the same kernel or in another.

`BcastProofs` holds the proofs about the program, the network and broadcasts, `ScatterProofs` those about scatters and
gathers, `CollectivesProofs` those about reduces and the theorems about the whole program.

### Treecast, Treereduce, TreeCollectives
The tree collectives over the operators of `Tree`, and a program of both.  In Treecast the support kernel's
stages are its `state` (`ReadSetUp`, `TakeRequest`, `SendReady`, `TakePacket`, `SendToChild`,
`SendToApplication`).  In Treereduce, `AddOwn`, `AddChild` and `TakeDown` are the three reads of stage 0,
each followed by the test for a complete sum (`Then`), `SendUp` is stage 1, `SendDown` and `SendToApplication` are stage 2.

### Barrier

| action | code |
|---|---|
| `Call`, `Lock`, `Announce`, `Pass` | `SMI_Barrier`: entry, write of `barrier_lock` at rank 0, write of `cks_control` elsewhere, and the read of `barrier_lift` or `ckr_data` that ends it |
| `ReadApplication`, `TakeRequest`, `Lift` | `smi_kernel_barrier` of rank 0; on the other ranks it never receives anything |

Requests are counted in the code, not told apart; the barrier number they carry in the model is history.
`BarrierProofs` holds its proofs.

## 3. Runs

| run | shows | bounds |
|---|---|---|
| `p2p_rendezvous` | type, buffer bound, bound on the overlap of two channels, no stale tokens, at most eight token messages, the inductive invariant, progress, and the implementation of `Stream` | two channels with counts from {1, 3, 4, 24, 25, 50}: below, at and above a packet (3), a quantum (3), the buffer (24) and twice the buffer |
| `p2p_flush` | order and progress when every element may be flushed in a packet of its own | counts {3, 17}, packets of two |
| `p2p_char` (violation) | a packet of 28 chars loses its count | one channel of 40, packets of 28 |
| `kernel_polling` | type, bounded bypass, reliable links (nothing lost, repeated or reordered from an input to an output), every message delivered; evaluates `RoutingTests` and `RewriteTests` | three inputs, limit 2, outputs of two: two inputs have three messages for one output each, so that they pass the limit and fill it, the third has one for each output, so that one may wait behind the other's full FIFO |
| `routing` | a packet is given to its own operation, no kernel sees it twice, every cable brings it nearer, it arrives | every program of one or two ports with push, pop, both or broadcast, with rendezvous and eager, on two FPGAs; programs that differ on a line of three with an FPGA between; four ports on two cables; a ring of four with double cables |
| `routing_loop` (violation) | the balanced tables of two kernels point at each other | five ports, two FPGAs, two cables |
| `tree_shape` | children are ranks, the two ends of every edge agree, hops halve the place | every size up to 63, every root and rank |
| `collectives` | collectives do not mix, requests and credits count for their own collective, the next element and every sum are right, nothing is left, a call returns only when `Collective` lets it, every program ends | three ranks, wires of one, packets of two, two sums and two credits: two gathers with one root, two reduces, two broadcasts and two scatters with changing roots; counts at, below and above a packet |
| `gather_other_root` (violation) | the next root's request releases data held for the present root | two gathers with roots 2 and 0 |
| `tree_collectives` | parents and children are at the same treecast, elements and sums are right, an element is added up in one buffer, every program ends | four ranks, so that the tree has a rank with a parent and a child; treereduces with roots 1 and 0 and treecasts with roots 0 and 3: the tree changes, and a contribution of a new child may come before a rank is done with the first treereduce; treereduces of 3 elements and of 1 over two buffers: the ring wraps, a child's counter comes back to a buffer it has used, and the second starts again from the middle of the ring; treecasts with a last packet that is not full |
| `treereduce_root` (violation) | the contributions to one element in two buffers | four ranks, roots 0 and 3, one element and then two |
| `barrier` | nobody passes early, requests count for their own barrier, lifted once, and the implementation of `Collective` | four ranks, three barriers, wires of one: a fast rank can be a barrier ahead of the count and a third shows nothing is left over |

A buffer of eight packets is the smallest the code generator produces
(`rewrite.py` rounds to multiples of eight).  Two channels are enough to see one
channel meet the next; the proofs cover any number, and the mode without tokens, which no run has.

Fairness: weak fairness of the sender, of the receiver and of each direction of the
network.  Each is a kernel that runs in parallel with the others and goes on when no
FIFO blocks it.  In `CommKernel` the kernel and the readers of its outputs are weakly fair, and
messages need not arrive.  There is no fairness between alternatives of one kernel.
In `Barrier` each rank's program and each rank's support kernel is weakly fair, as two
kernels of one FPGA; which waiting packet is read is never fair.  `Collectives`, `TreeCollectives` and `Journey`
do with less: some step is taken as long as one is possible.  It is enough because a program makes
finitely many steps, the polling of empty inputs being written as a wait for the first that is not empty.
`Tree` needs none.  These runs end, so deadlock is not checked there; that every program comes to its
end is `Completes`, `Arrives` or part of `ImplementsCollective`.

## 4. What the violation runs say

`p2p_char`: counts of 16 and more make the header negative, and
`GET_HEADER_NUM_ELEMS` returns N - 32.  With `char` data `SMI_Pop` never finds the end of a
full packet.  The theorems about order assume at most 15 elements per packet, which
holds for every other data type.

`routing_loop`: the tables are shortest paths until the ports that a kernel serves get balanced exits instead,
kernel by kernel.  A port that is served by two kernels gets two of them, and each may be the cable of the other
kernel.  It takes five ports: the first four go to four different kernels.  In the cases of `routing` tables are right.

`gather_other_root`: the support kernel of a contributor takes any request for the one of
its root.  If gathers on one port change their root, and the next root is ahead, data goes out
unasked and the present root reads it as another contributor's.  With one root for
all gathers the order is right (`collectives`).  Broadcasts, scatters and barriers do not have this weakness.

`treereduce_root`: a rank that becomes the child of another with the new root may contribute before its new parent
is set up, and the set-up then resets the counter that says where its next contribution goes.  With one element after
the change there is no next contribution, and the early one does no harm as long as it waits in a buffer that is not the
current one: `tree_collectives` changes the root after three elements with two buffers.  After a multiple of
`credits_flow_control` elements it does: the kernel of a rank that was a leaf is back at buffer 0 while it waits for the last
result, takes the early contribution for its own complete sum (`data_recvd` equals `num_children`, `treereduce.cl` 156) and
sends it to the old parent, which may already count for the next treereduce.  With two buffers, roots 0 and 3 and counts 2 and 1, TLC finds `Treereduce` come to a standstill,
while `OneBufferPerElement` and `ResultRight` hold; this instance is not among the runs.  Treereduces with one root are not exposed to either.

Beyond these: from 64 ranks on, the second child of a rank of a tree overflows the char it is stored in
(`treecast.cl` 289) and is not recognised as absent; up to 63 ranks the tree is right, which is proved, and the default of the generator is 8.
`get_input_target` calls 0 "never generated here" (`routing_table.py` 208), but it is
the entry of every port that no kernel receives for (218-219); no packet is looked up there in the runs.

## 5. Proofs

`PointToPointProofs` proves, for every multiple of eight as buffer size, every packet
size up to 28, every set of counts (with UINT large enough that no sum of tokens overflows)
and any number of channels:

| theorem | statement |
|---|---|
| `TypeCorrect` | `Spec => []TypeOK` |
| `ElementsInOrder` | at most 15 elements per packet: `Spec => []InOrder` |
| `TokensKeepWithinBuffer`, `OverlapIsBounded`, `ChannelsLeaveNoTokens` | with rendezvous: `[]WithinBuffer`, `[]OverlapBound`, `[]NoStaleTokens` |
| `PathsCarryTheStream`, `GrantsAddUp` | `[]DataInv`; with rendezvous `[]TokenInv` |
| `PacketsNeverStall` | rendezvous, no flushes, at most 15 elements per packet: `Spec => []NeverStalls` |
| `StreamIsImplemented` | every step is a step of `Stream` or leaves it unchanged |

The invariant is `TypeOK /\ DataInv /\ (Rendezvous => TokenInv)`.  `DataInv` says that the
packets in flight are the contiguous stretch of the stream between what the receiver has
read and what the sender has sent, across the border of a channel: without contiguity,
`InOrder` does not say what the next packet holds.  `TokenInv` says that the elements the
sender may push, plus the grants in flight, equal what the receiver has granted, and
that an empty grant is in flight or received exactly when the channel is all granted:
without it, a bound on one end says nothing of the other.  Lemma `Invariance` proves it
inductive with one lemma per action and part.

`OverlapBound` is the bound to know about: `SMI_Open_send_channel` grants a full buffer of tokens while up to
seven eighths of the last channel may still sit in the receiver's buffer, so `ckr_data` can fill up and
block CK_R until the receiver pops.

`NeverStalls` counts packets where these invariants count elements.  `SpacingInv` bridges the two: without flushes every
packet but the last of a channel is full, so two packets `n` apart stand `n` packets' elements apart in the
stream, and `BufferSize` of them and one more would be more elements than `WithinBuffer` allows.

Only model-checked: progress (`Completes`, the liveness part of `ImplementsStream`).

`CommKernelProofs` proves, for every number of inputs and outputs, every depth and every limit:

| theorem | statement |
|---|---|
| `TypeCorrect` | `Spec => []TypeOK`, also when the counter wraps |
| `NoInputStarves` | `READS_LIMIT <= CHAR_MAX`: `Spec => [](ReadsWithinLimit /\ BoundedBypass)` |
| `EveryLinkIsReliable` | `Spec => []LinksAreReliable` |

The invariant `BypassInv` counts in turns: an input whose turn was `Turns(i)` inputs ago was passed by at
most `Turns(i) * READS_LIMIT` messages plus those of the present turn.  `BoundedBypass` alone
is not inductive, it says nothing of how the quota is used up.
`OrderInv` lines up, for one input and one output, what waits in the output, the message held, and what
is still in the input: their numbers rise in this order.  `AccountInv` says which numbers these are: all from the last one
delivered to the last that arrived.  The account needs the order: the message a reader takes is the one due next because it
is the lowest of those on their way.  That every message is delivered
is liveness and only model-checked.  The assumption matters: nothing validates the limit of the program, and
`contiguous_reads`, a char, never equals a limit above 127 (the default is 8).

`TreeProofs` proves, for every size and root:

| theorem | statement |
|---|---|
| `TypeCorrect` | `Spec => []TypeOK`: parents are ranks |
| `ChildrenAreRanks`, `TreeIsConsistent` | at most 63 ranks: `Spec => []ChildrenInRange`, `Spec => []ParentAndChildAgree` |
| `ParentsLeadToTheRoot` | `Spec => HopsHalve` |

The argument is that `Place`, which exchanges rank 0 and the root, takes parents and children to those of the
standard tree; `TypeOK` is inductive already.

`BarrierProofs` proves, for every number of ranks and barriers and every depth:

| theorem | statement |
|---|---|
| `TypeCorrect` | `Spec => []TypeOK` |
| `NobodyPassesEarly` | `Spec => []BarrierHolds` |
| `OnlyPresentRequestsCount` | `Spec => []RequestsOfThisBarrier` |
| `LiftedOnce` | `Spec => []LiftedForWaiting` |
| `BarriersAreCollectives` | `Spec => Abstract!Safety`: every step is a step of `Collective` or leaves the places; the rest of `ImplementsCollective` is liveness |

`BarrierHolds` is not inductive, since the kernel knows a number, not the ranks.  The invariant
says what that number is: while the kernel counts, `received_request` is the cardinality of the set
of ranks it has not counted; while it lifts, the ranks below `rcv` have been lifted and the others
wait.  `RankInv` lists where a rank can be in each phase.

`CodegenProofs` proves, for every number of QSFPs, every topology and every set of programs that is `WellFormed`:

| theorem | statement |
|---|---|
| `InterconnectsAgree` | the FIFO one kernel writes for another (`interconnect`) is the one the other polls for it (`polled`), and no third reads it |
| `OperationsGetTheirPackets` | `Spec => []GivenToItsOperation` |

The invariant keeps the kernels' tables those that were generated, the packet at a kernel of an FPGA that exists, its port and
stream those of an operation.  The entry a CK_R finds is then in the list of its own allocation at the place
the table names, so port and stream are the packet's, wherever it came from.  That the packet gets there is not
implied: a CK_S may send it round for ever (`routing_loop`), and whether tables loop depends on which shortest
paths networkx returns.

`CodegenProofs` also proves `BufferSizesFit`, for every buffer size a user can ask for and every packet size: the size in
packets is a positive multiple of eight, which `SizesAssumption` of `PointToPoint` asks for, holds the elements asked
for, and not eight packets more.

`BcastProofs`, `ScatterProofs` and `CollectivesProofs` prove, for every number of ranks, every program, every depth of
the FIFOs, every packet size, every limit of reads and every number of sums:

| theorem | statement |
|---|---|
| `InvariantHolds` | `Spec => [](BInv /\ SInv /\ GTypeInv /\ RTypeInv)`, the inductive invariants |
| `TypeCorrect` | `Spec => []TypeOK` |
| `SumsAreRight` | `Spec => []SumsRight` |
| `PacketsDoNotIntermix`, `RequestsAreUsedRight`, `ElementsArriveRight` | the parts of `NoIntermixing`, `RequestsInTheirCollective` and `NextElementRight` about broadcasts and scatters |
| `NothingStaysBehind` | the parts of `NothingLeft` about broadcasts, scatters and reduces |
| `GatherInvariantHolds` | all gathers have one root: `Spec => []GInv` |
| `CollectivesDoNotIntermix`, `RequestsKeepToTheirCollective`, `CallsReadTheirElement`, `ProgramsCleanUp` | all gathers have one root: `[]NoIntermixing`, `[]RequestsInTheirCollective`, `[]NextElementRight`, `[]NothingLeft` |
| `ProgramsAreCollectives`, `CallsReturnWithTheirNeeds` | all gathers have one root: `Spec => Abstract!Safety` and `Spec => ReturnsWithNeeds`, the refinement of `Collective` |

`OneGatherRoot`, the hypothesis of the last three rows, is not a convenience: with roots 2 and 0 the properties fail, which is the
finding of `gather_other_root`.  Every program of other collectives, and every one without gathers, satisfies it.
Each kind is invariant on its own, since a step of the program moves one of them, and a root may change from one
broadcast, scatter or reduce to the next.

None of the properties is inductive: each says something of a FIFO that only holds because of what is in the others.

* Broadcasts and scatters: `BInv` and `SInv` follow the line of packets of a root, the one its kernel
  holds, the one in the FIFO to the kernel, the one its program fills.  What receiver d has got, packets under
  way included, ends at `BX(b, d)` (`SX`), where the line begins for d.  A receiver
  is either in the collective of the line or has not opened it (`BAt`, `SAt`), and the number the kernel still waits for is the
  cardinality of the set of ranks whose request is not counted (`BUncounted`): without knowing
  which ranks these are, a request may be one of the next collective.
* Gathers: `GInv` follows one line for each contributor, to the root.  The part that fails with two
  roots is `GAskInv`: nothing of a line is beyond the kernel's wait unless the root has asked this contributor, and has not gone on.
  `GRequestInv` makes that exact: a request is under way only while the packet it is for waits.
* Reduces: a contributor may use the credit of a later reduce before the one meant for it, when
  the later root is ahead.  So `RTokenInv` cannot say whose credits are under way, only that
  as many are used or under way to a rank as were issued to it.  `RRing` places the sums relative to
  `current_buffer_element`: each rank's counter is as far ahead of it as contributions of that rank were added,
  and the sum in each place is of the ranks whose counter is beyond it.  `RDueInv` bounds the counters of credits; it
  takes a rank alone into account, whose kernel has nobody to send credits to and counts one more.

For the invariant of a kind, one lemma per action (`...Step`) under one lemma for the kind (`BNext`, `SNext`, `GStep`, `RTypeNext`).
That the collectives of a kind are a sequence, and how it goes on, is proved first, since `Of` is a recursive function.

The refinement takes two steps.  For each kind (`BGoes`, `SGoes`, `GGoes`, `RGoes`), a step of its channel enters a call, returns
from one or shows the program nothing, and when it returns, the element, request, sum or credit it returns
on is there only because the ranks of its `Needs` have made their calls: `BUpto`, `SUpto` and `GUpto` order what a line holds and
what its rank fills.  In a reduce the credit may have been meant for another, so that it names no call: a contributor with a credit is less than
`credits_flow_control` elements beyond the sums of the present root (`RQueueInv`), and whoever is in a sum has called.  Then `ProgramInv` relates the four channels of a rank to one place in its program: the
channel of each kind is at the collective that the number of its kind before that place says (`Before`), and untouched
unless the place is of its kind.

The tree collectives are only model-checked.  So are, of the collectives, `Completes`, which is liveness; of `Journey` `NoKernelTwice`, which does not hold for all tables (`routing_loop`),
and arrival; and the liveness of all modules.

A note on the prover: its SMT encoding takes every function for a sequence with a length of at least zero, so
functions on `0 .. n - 1` beside sequences can contradict it.  The proofs were
checked a second time with those axioms limited to sequences, and hold as well.
## 6. Order of the work

`SmiHeader`, `PointToPoint`, `Stream` and their proofs came first, since every program uses them; then `CommKernel`,
`Tree` and `Barrier` with their proofs; then the collectives and `Collectives`, the tree collectives and `TreeCollectives`; last
`Program`, `Routing`, `Journey` and `Rewrite`.  What would come next: kernels composed over the tables with all their FIFOs, and proofs about the tree collectives.

## 7. Not modelled

* Kernels that block each other: a full port FIFO stops a CK_R, and with it the kernels before it. `CommKernel` has one
  kernel whose readers go on reading, `Journey` one packet.  What is between is left out: whether a ring of full FIFOs can
  close on itself depends on the traffic of all programs at once, which is beyond TLC at the depth of 16 the
  FIFOs have.  `NeverStalls` and `WithinBuffer` show that channels with tokens do not fill the port FIFOs.
* Programs that differ in their number of ports along a route: a packet is looked up with a port its table does not have.
* Buffer sizes that differ between the two ends of a port: nothing compares them; `BufferSizesFit` is about one end.
* Values: payloads are identities, so the neutral element of a maximum of floats (`ops.py` 164) and the order of floating point additions are out.
* `NoRouteFound`: topologies in which an FPGA cannot be reached make the generator stop.
* Host code (OpenCL set-up, `include/utils`, `host*.cl`), the command line and file formats of
  the code generator (`main.py`, `serialization.py`, `codegen.py`), the search of the syntax tree and the editing of the text in the source rewriter,
  vendored code (`opencl-shim.h`, `json.hpp`), examples and microbenchmarks: straight-line or third-party code without the
  concurrency the models are about.  By lines they are most of the repository; the system itself is the templates
  (`codegen/templates/*.cl`), the allocation and routing in Python, and the headers of `include/smi`.
