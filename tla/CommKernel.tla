----------------------------- MODULE CommKernel -----------------------------
(****************************************************************************)
(* The loop of one communication kernel, CK_S or CK_R.  It polls its input  *)
(* FIFOs with non-blocking reads, stays with an input for up to             *)
(* READS_LIMIT messages, and writes each message with a blocking write to   *)
(* the output FIFO that its routing table names.                            *)
(*                                                                          *)
(* The table is not part of this module: a message carries the output it    *)
(* is routed to (`out').  Its number among those of its input to that       *)
(* output (`seq') is history, and so are arrived, delivered and bypassed.   *)
(****************************************************************************)
EXTENDS Integers, Sequences

CONSTANTS
    NumSender,      \* num_sender: how many inputs the kernel polls
    Outputs,        \* the FIFOs it writes
    READS_LIMIT,    \* consecutive_read_limit of the program
    CHAR_MAX,       \* the largest value of the counter, a signed char
    Depth,          \* depth of every FIFO
    Load            \* Load[i][o]: messages the environment sends from i to o

ASSUME KernelAssumption ==
    /\ NumSender \in Nat \ {0} /\ READS_LIMIT \in Nat \ {0}
    /\ CHAR_MAX \in Nat \ {0} /\ Outputs # {} /\ Depth \in Nat \ {0}

Senders == 0 .. NumSender - 1

ASSUME LoadAssumption == Load \in [Senders -> [Outputs -> Nat]]

Message == [sender : Senders, seq : Nat, out : Outputs]

VARIABLES
    inputs,             \* inputs[i]: the FIFO of input i
    sender_id,          \* the input polled next
    contiguous_reads,   \* messages read from it since it came up
    pc,                 \* "poll", or "write" while the write may block
    message,            \* the message read last
    outputs,            \* outputs[o]: the FIFO of output o
    arrived,            \* arrived[i][o]: messages for output o that entered input i
    delivered,          \* delivered[i][o]: messages of input i that left output o
    bypassed            \* messages of other inputs read while i was waiting

vars == <<inputs, sender_id, contiguous_reads, pc, message, outputs,
          arrived, delivered, bypassed>>

(* contiguous_reads++ on a signed char *)
Increment(reads) == IF reads = CHAR_MAX THEN -CHAR_MAX - 1 ELSE reads + 1

Init ==
    /\ inputs = [i \in Senders |-> <<>>]
    /\ sender_id = 0 /\ contiguous_reads = 0 /\ pc = "poll"
    /\ message \in [sender : {0}, seq : {0}, out : Outputs]
    /\ outputs = [o \in Outputs |-> <<>>]
    /\ arrived = [i \in Senders |-> [o \in Outputs |-> 0]]
    /\ delivered = [i \in Senders |-> [o \in Outputs |-> 0]]
    /\ bypassed = [i \in Senders |-> 0]

-----------------------------------------------------------------------------
(* Mutant: the last input is never polled.                                   *)
RotateShort ==
    /\ contiguous_reads' = 0
    /\ sender_id' = IF sender_id + 1 >= NumSender - 1 THEN 0 ELSE sender_id + 1

(* Mutant: the wrap around comes one input late.                             *)
RotateLate ==
    /\ contiguous_reads' = 0
    /\ sender_id' = IF sender_id = NumSender THEN 0 ELSE sender_id + 1

Rotate ==
    /\ contiguous_reads' = 0
    /\ sender_id' = IF sender_id + 1 = NumSender THEN 0 ELSE sender_id + 1

(* The non-blocking read finds nothing: on to the next input.                *)
PollEmpty ==
    /\ pc = "poll"
    /\ inputs[sender_id] = <<>>
    /\ Rotate
    /\ UNCHANGED <<inputs, pc, message, outputs, arrived, delivered, bypassed>>

(* The non-blocking read finds a message. *)
PollMessage ==
    /\ pc = "poll"
    /\ inputs[sender_id] # <<>>
    /\ message' = Head(inputs[sender_id])
    /\ inputs' = [inputs EXCEPT ![sender_id] = Tail(@)]
    /\ contiguous_reads' = Increment(contiguous_reads)
    /\ pc' = "write"
    /\ bypassed' = [i \in Senders |->
           IF i = sender_id \/ inputs[i] = <<>> THEN 0 ELSE bypassed[i] + 1]
    /\ UNCHANGED <<sender_id, outputs, arrived, delivered>>

(* Mutant: the limit is compared before the read is counted.                 *)
LimitReachedLate == contiguous_reads = READS_LIMIT + 1

LimitReached == contiguous_reads = READS_LIMIT

(* Mutant: the write does not block and nobody asks whether it succeeded.    *)
WriteNonBlocking ==
    /\ pc = "write"
    /\ outputs' = IF Len(outputs[message.out]) < Depth
                  THEN [outputs EXCEPT ![message.out] = Append(@, message)]
                  ELSE outputs
    /\ pc' = "poll"
    /\ IF LimitReached THEN Rotate ELSE UNCHANGED <<contiguous_reads, sender_id>>
    /\ UNCHANGED <<inputs, message, arrived, delivered, bypassed>>

(* The blocking write, and the test of the limit that ends the iteration.    *)
Write ==
    /\ pc = "write"
    /\ Len(outputs[message.out]) < Depth
    /\ outputs' = [outputs EXCEPT ![message.out] = Append(@, message)]
    /\ pc' = "poll"
    /\ IF LimitReached THEN Rotate ELSE UNCHANGED <<contiguous_reads, sender_id>>
    /\ UNCHANGED <<inputs, message, arrived, delivered, bypassed>>

-----------------------------------------------------------------------------
(* The other ends of the FIFOs: a port, another kernel or a QSFP.            *)

Arrive(i) ==
    \E o \in Outputs :
        /\ arrived[i][o] < Load[i][o]
        /\ Len(inputs[i]) < Depth
        /\ inputs' = [inputs EXCEPT ![i] =
               Append(@, [sender |-> i, seq |-> arrived[i][o] + 1, out |-> o])]
        /\ arrived' = [arrived EXCEPT ![i][o] = @ + 1]
        /\ UNCHANGED <<sender_id, contiguous_reads, pc, message, outputs,
                       delivered, bypassed>>

Consume(o) ==
    /\ outputs[o] # <<>>
    /\ outputs' = [outputs EXCEPT ![o] = Tail(@)]
    /\ delivered' = [delivered EXCEPT ![Head(outputs[o]).sender][o] = @ + 1]
    /\ UNCHANGED <<inputs, sender_id, contiguous_reads, pc, message, arrived,
                   bypassed>>

-----------------------------------------------------------------------------
Kernel == PollEmpty \/ PollMessage \/ Write

Next == \/ Kernel
        \/ \E i \in Senders : Arrive(i)
        \/ \E o \in Outputs : Consume(o)

(* The kernel runs whenever a write does not block it, and what it delivers  *)
(* is taken sooner or later.  Messages need not arrive.                      *)
Fairness == WF_vars(Kernel) /\ \A o \in Outputs : WF_vars(Consume(o))

Spec == Init /\ [][Next]_vars /\ Fairness

-----------------------------------------------------------------------------
(* Properties *)

(* Types of the kernel's variables and of the FIFOs' contents. *)
TypeOK ==
    /\ inputs \in [Senders -> Seq(Message)]
    /\ sender_id \in Senders
    /\ contiguous_reads \in -CHAR_MAX - 1 .. CHAR_MAX
    /\ pc \in {"poll", "write"}
    /\ message \in Message
    /\ outputs \in [Outputs -> Seq(Message)]
    /\ arrived \in [Senders -> [Outputs -> Nat]]
    /\ delivered \in [Senders -> [Outputs -> Nat]]
    /\ bypassed \in [Senders -> Nat]

(* READS_LIMIT, "the maximum number of consecutive reads that each CKs/CKr   *)
(* can do from the same channel" (device.cl:16).                             *)
ReadsWithinLimit == contiguous_reads \in 0 .. READS_LIMIT

(* No input starves: while a message waits, at most READS_LIMIT messages of  *)
(* every other input are read.                                               *)
BoundedBypass ==
    \A i \in Senders :
        inputs[i] # <<>> => bypassed[i] <= (NumSender - 1) * READS_LIMIT

(* What the kernel has yet to pass through output o, oldest first, and input *)
(* i after it. *)
Pending(i, o) ==
    LET held == IF pc = "write" THEN <<message>> ELSE <<>>
    IN  outputs[o] \o held \o inputs[i]

(* Every input has a reliable link to every output: while the kernel polls,  *)
(* blocks on a full output and goes on, what is under way from i to o is all *)
(* between the last message delivered and the last that arrived, each once   *)
(* and in order.  The protocols above count on it: nothing is sent again.    *)
LinksAreReliable ==
    \A i \in Senders, o \in Outputs :
        LET pending == Pending(i, o)
            mine == {k \in DOMAIN pending : pending[k].sender = i /\ pending[k].out = o}
        IN  /\ {pending[k].seq : k \in mine} = delivered[i][o] + 1 .. arrived[i][o]
            /\ \A j, k \in mine : j < k => pending[j].seq < pending[k].seq

(* Every message that arrives is delivered: none waits for ever behind the   *)
(* traffic of the other inputs or behind a blocked write.                     *)
EveryMessageDelivered ==
    \A i \in Senders, o \in Outputs : \A n \in 1 .. Load[i][o] :
        arrived[i][o] >= n ~> delivered[i][o] >= n
=============================================================================
