------------------------------- MODULE Reduce -------------------------------
(****************************************************************************)
(* SMI_Reduce and its support kernel, on every rank, over a sequence of     *)
(* reduces on one port.  The root hands its element to its support kernel   *)
(* and waits for the result; the others send theirs to the root when they   *)
(* have a credit.  The support kernel of the root keeps a ring of sums, one *)
(* for each element under way, gives a credit per sum to every other rank,  *)
(* and one more when a sum is complete.                                     *)
(*                                                                          *)
(* A contribution is <<reduce, rank, index>>.  A sum is the set of the      *)
(* contributions added up, and data_recvd its size.  Credits carry, as      *)
(* history, their reduce.                                                   *)
(****************************************************************************)
EXTENDS Wires, FiniteSets

CONSTANTS
    Roots,                  \* Roots[k]: the root of reduce k
    Counts,                 \* Counts[k]: its number of elements
    credits_flow_control,   \* sums the support kernel keeps, 16 in the code
    READS_LIMIT             \* consecutive_read_limit of the program

NumCollectives == Len(Roots)

VARIABLES
    chan,           \* chan[r]: the SMI_RChannel of rank r, its program's place
    support,        \* support[r]: the variables of the support kernel
    reduce_send,    \* reduce_send[r]: from the root's application to its kernel
    reduce_recv,    \* reduce_recv[r]: and the way back
    data,           \* cks_data to ckr_data
    control         \* cks_control to ckr_control

vars == <<chan, support, reduce_send, reduce_recv, data, control>>

Slots   == 0 .. credits_flow_control - 1
Next1(slot) == (slot + 1) % credits_flow_control

Either == 2     \* sender_id while the kernel polls one empty input after the other

IsRoot(r) == chan[r].coll <= NumCollectives /\ Roots[chan[r].coll] = r

InCall(r) == chan[r].returned < chan[r].entered

(* SMI_Open_reduce_channel for reduce k; `sent' and `credit' tell how far    *)
(* the present call is.                                                      *)
Opened(k) == [coll |-> k, entered |-> 0, returned |-> 0, op |-> "SYNCH",
              sent |-> FALSE, credit |-> FALSE]

Returned(c) ==
    IF c.entered = Counts[c.coll] THEN Opened(c.coll + 1)
    ELSE [c EXCEPT !.returned = c.entered, !.sent = FALSE, !.credit = FALSE]

Init ==
    /\ chan = [r \in Ranks |-> Opened(1)]
    /\ support = [r \in Ranks |->
           [sender_id |-> 0, contiguos_reads |-> 0, send_credits |-> FALSE,
            credits |-> credits_flow_control, send_to |-> 0, sent_credits |-> 0,
            message_size |-> 0, add_to |-> [q \in Ranks |-> 0],
            add_to_root |-> 0, current_buffer_element |-> 0,
            reduce_result |-> [slot \in Slots |-> {}]]]
    /\ reduce_send = [r \in Ranks |-> <<>>]
    /\ reduce_recv = [r \in Ranks |-> <<>>]
    /\ data = Quiet /\ control = Quiet

-----------------------------------------------------------------------------
(* The application *)

(* SMI_Reduce is called for the next element. *)
Call(r) ==
    /\ chan[r].coll <= NumCollectives /\ ~ InCall(r)
    /\ chan' = [chan EXCEPT ![r].entered = @ + 1]
    /\ UNCHANGED <<support, reduce_send, reduce_recv, data, control>>

(* The root hands its element to the support kernel; the first one tells it  *)
(* the number of elements. *)
Offer(r) ==
    LET c == chan[r]
    IN  /\ InCall(r) /\ IsRoot(r) /\ ~ c.sent /\ reduce_send[r] = <<>>
        /\ reduce_send' = [reduce_send EXCEPT ![r] =
               <<[op |-> c.op, message_size |-> Counts[c.coll],
                  data |-> <<c.coll, r, c.entered>>]>>]
        /\ chan' = [chan EXCEPT ![r].sent = TRUE, ![r].op = "REDUCE"]
        /\ UNCHANGED <<support, reduce_recv, data, control>>

(* It returns with the result. *)
TakeResult(r) ==
    /\ InCall(r) /\ IsRoot(r) /\ chan[r].sent /\ reduce_recv[r] # <<>>
    /\ reduce_recv' = [reduce_recv EXCEPT ![r] = <<>>]
    /\ chan' = [chan EXCEPT ![r] = Returned(@)]
    /\ UNCHANGED <<support, reduce_send, data, control>>

(* The others wait for a credit, *)
TakeCredit(r) ==
    /\ InCall(r) /\ ~ IsRoot(r) /\ ~ chan[r].credit
    /\ \E src \in Waiting(control, r) : control' = Take(control, src, r)
    /\ chan' = [chan EXCEPT ![r].credit = TRUE]
    /\ UNCHANGED <<support, reduce_send, reduce_recv, data>>

(* and send their element to the root. *)
Contribute(r) ==
    LET c == chan[r]
    IN  /\ InCall(r) /\ ~ IsRoot(r) /\ c.credit
        /\ HasRoom(data, r, Roots[c.coll])
        /\ data' = Put(data, r, Roots[c.coll], <<c.coll, r, c.entered>>)
        /\ chan' = [chan EXCEPT ![r] = Returned(c)]
        /\ UNCHANGED <<support, reduce_send, reduce_recv, control>>

-----------------------------------------------------------------------------
(* The support kernel of the root *)

(* Mutant: a credit more than there are sums.                                *)
CreditsOneMore(s, size) ==
    [s EXCEPT !.sent_credits = 0, !.send_to = 0, !.message_size = size,
              !.send_credits = TRUE,
              !.credits = IF size < credits_flow_control + 1
                          THEN size ELSE credits_flow_control + 1]

(* Mutant: all sums get a credit, however few the elements are.              *)
CreditsForAllSums(s, size) ==
    [s EXCEPT !.sent_credits = 0, !.send_to = 0, !.message_size = size,
              !.send_credits = TRUE, !.credits = credits_flow_control]

(* The first element of a reduce: credits for as many elements as there are  *)
(* sums, or elements. *)
StartReduce(s, size) ==
    [s EXCEPT !.sent_credits = 0, !.send_to = 0, !.message_size = size,
              !.send_credits = TRUE,
              !.credits = IF size < credits_flow_control
                          THEN size ELSE credits_flow_control]

(* Mutant: no further credit when a sum is complete.                         *)
EmptiedForGood(s) ==
    [s EXCEPT !.credits = @ + 1,
              !.reduce_result[s.current_buffer_element] = {},
              !.current_buffer_element = Next1(@)]

(* The sum is complete and empty again, and a credit is due for it unless    *)
(* all were sent. *)
Emptied(s) ==
    [s EXCEPT !.send_credits = s.sent_credits < s.message_size,
              !.credits = @ + 1,
              !.reduce_result[s.current_buffer_element] = {},
              !.current_buffer_element = Next1(@)]

Complete(s) == Cardinality(s.reduce_result[s.current_buffer_element]) = NumRanks

(* After an addition: a complete sum is the result for the application. *)
Finish(r, s) ==
    IF Complete(s)
    THEN /\ reduce_recv[r] = <<>>
         /\ reduce_recv' = [reduce_recv EXCEPT ![r] =
                <<s.reduce_result[s.current_buffer_element]>>]
         /\ support' = [support EXCEPT ![r] = Emptied(s)]
    ELSE UNCHANGED reduce_recv /\ support' = [support EXCEPT ![r] = s]

(* The kernel polls its two inputs in turn, the network's up to READS_LIMIT  *)
(* times.  When one is empty it goes on to the other and back, until there   *)
(* is something to read.                                                     *)
Ready(r, input) ==
    /\ ~ support[r].send_credits
    /\ support[r].sender_id \in {input, Either}

PollEmpty(r) ==
    /\ \/ Ready(r, 0) /\ reduce_send[r] = <<>>
       \/ Ready(r, 1) /\ Waiting(data, r) = {}
    /\ support[r].sender_id # Either
    /\ support' = [support EXCEPT ![r].sender_id = Either, ![r].contiguos_reads = 0]
    /\ UNCHANGED <<chan, reduce_send, reduce_recv, data, control>>

(* The root's own contribution *)
AddOwn(r) ==
    LET mess == Head(reduce_send[r])
        s == support[r]
        added == [s EXCEPT !.sender_id = 1,
                           !.reduce_result[s.add_to_root] = @ \cup {mess.data},
                           !.add_to_root = Next1(@)]
    IN  /\ Ready(r, 0) /\ reduce_send[r] # <<>>
        /\ reduce_send' = [reduce_send EXCEPT ![r] = <<>>]
        /\ Finish(r, IF mess.op = "SYNCH" THEN StartReduce(added, mess.message_size)
                                          ELSE added)
        /\ UNCHANGED <<chan, data, control>>

(* A contribution of another rank *)
AddOther(r) ==
    \E src \in Waiting(data, r) :
        LET s == support[r]
            last == s.contiguos_reads + 1 = READS_LIMIT
            added == [s EXCEPT !.sender_id = IF last THEN 0 ELSE 1,
                               !.contiguos_reads = IF last THEN 0 ELSE @ + 1,
                               !.reduce_result[s.add_to[src]] = @ \cup {Head(data[src][r])},
                               !.add_to[src] = Next1(@)]
        IN  /\ Ready(r, 1)
            /\ data' = Take(data, src, r)
            /\ Finish(r, added)
            /\ UNCHANGED <<chan, reduce_send, control>>

(* A round of credits, one rank after the other, the root left out; the last *)
(* one counts the credit. *)
SendCredits(r) ==
    LET s == support[r]
        last == s.send_to + 1 = NumRanks
    IN  /\ s.send_credits
        /\ IF s.send_to # r
           THEN HasRoom(control, r, s.send_to)
                /\ control' = Put(control, r, s.send_to, chan[r].coll)
           ELSE UNCHANGED control
        /\ support' = [support EXCEPT ![r] =
               IF last THEN [s EXCEPT !.send_to = 0, !.credits = @ - 1,
                                      !.send_credits = s.credits # 1,
                                      !.sent_credits = @ + 1]
               ELSE [s EXCEPT !.send_to = @ + 1]]
        /\ UNCHANGED <<chan, reduce_send, reduce_recv, data>>

-----------------------------------------------------------------------------
Application(r) ==
    Call(r) \/ Offer(r) \/ TakeResult(r) \/ TakeCredit(r) \/ Contribute(r)

Support(r) == PollEmpty(r) \/ AddOwn(r) \/ AddOther(r) \/ SendCredits(r)

-----------------------------------------------------------------------------
(* Properties *)

Contribution == {<<k, r, i>> : k \in 1 .. NumCollectives, r \in Ranks, i \in Nat}

(* Types of the channels, the kernels and what is under way.  The kernel of  *)
(* a rank that is alone completes its first sum while it still has to count  *)
(* the first credits, and may count one more than there are elements.        *)
TypeOK ==
    /\ chan \in [Ranks ->
           [coll : 1 .. NumCollectives + 1, entered : Nat, returned : Nat,
            op : {"SYNCH", "REDUCE"}, sent : BOOLEAN, credit : BOOLEAN]]
    /\ \A r \in Ranks :
           LET s == support[r]
           IN  /\ s.sender_id \in {0, 1, Either}
               /\ s.contiguos_reads \in 0 .. READS_LIMIT - 1
               /\ s.credits \in 0 .. credits_flow_control + 1
               /\ s.send_to \in 0 .. NumRanks - 1
               /\ {s.sent_credits, s.message_size} \subseteq Nat
               /\ NumRanks > 1 => s.sent_credits <= s.message_size
               /\ s.add_to \in [Ranks -> Slots]
               /\ {s.add_to_root, s.current_buffer_element} \subseteq Slots

(* A sum holds contributions to one element of one reduce, at most one of    *)
(* each rank, though a contribution is added where its sender's counter      *)
(* points and the credits do not say what reduce they are for.               *)
OneElementPerSum ==
    \A r \in Ranks, slot \in Slots :
        LET sum == support[r].reduce_result[slot]
        IN  \A a, b \in sum : a[1] = b[1] /\ a[3] = b[3]

(* The result the root takes is the sum of all ranks' contributions to the   *)
(* element its call is for.                                                  *)
ResultRight ==
    \A r \in Ranks : reduce_recv[r] # <<>> =>
        Head(reduce_recv[r]) = {<<chan[r].coll, q, chan[r].entered>> : q \in Ranks}

(* A contributor's first calls need the root's first one, the others the     *)
(* calls for the element whose sum they are to reuse.  The root's calls need *)
(* everybody's.                                                              *)
ReduceNeeds(k, r, i) ==
    CASE r = Roots[k] -> {<<q, i>> : q \in Ranks}
      [] r # Roots[k] /\ i <= credits_flow_control -> {<<Roots[k], 1>>}
      [] OTHER -> {<<q, i - credits_flow_control>> : q \in Ranks}

(* Every credit is used when all ranks are through. *)
NothingLeft ==
    (\A r \in Ranks : chan[r].coll = NumCollectives + 1 /\ ~ support[r].send_credits)
        => data = Quiet /\ control = Quiet
=============================================================================
