----------------------------- MODULE Treereduce -----------------------------
(****************************************************************************)
(* SMI_Treereduce and its support kernel, on every rank, over a sequence of *)
(* tree reduces on one port.  The kernel of a rank adds up the element of   *)
(* its application and the sums of its children, and sends the sum to its   *)
(* parent; the root's sum is the result, which goes down the tree again and *)
(* to every application, so that its next element may follow.               *)
(*                                                                          *)
(* A contribution is <<treereduce, rank, index>>; what a kernel adds up is a *)
(* set of contributions.  A buffer holds what was received for an element,  *)
(* and data_recvd is its size.                                              *)
(****************************************************************************)
EXTENDS Wires, FiniteSets

CONSTANTS
    Roots,                  \* Roots[k]: the root of treereduce k
    Counts,                 \* Counts[k]: its number of elements
    credits_flow_control    \* buffers of the kernel, 16 in the code

NumCollectives == Len(Roots)

VARIABLES
    chan,               \* chan[r]: the SMI_TreereduceChannel, its program's place
    support,            \* support[r]: the variables of the support kernel
    treereduce_init,    \* treereduce_init[r]: the set-up of the kernel
    treereduce_send,    \* treereduce_send[r]: elements of the application
    treereduce_recv,    \* treereduce_recv[r]: results for the application
    data,               \* cks_data to ckr_data
    control             \* cks_control to ckr_control

vars == <<chan, support, treereduce_init, treereduce_send, treereduce_recv, data, control>>

Shape(root) == INSTANCE Tree WITH
    MAX_RANKS <- NumRanks, num_rank <- NumRanks, root_rank <- root, at <- root

Parent(k, r)   == Shape(Roots[k])!MyParent(r)
Children(k, r) == [which \in {1, 2} |-> Shape(Roots[k])!Child(which, r)]

Buffers     == 0 .. credits_flow_control - 1
Next1(slot) == (slot + 1) % credits_flow_control

(* sender_id while the kernel polls empty inputs in turn, and between two     *)
(* reduces: the input polled next may be any.                                *)
Either == 3

InCall(r) == chan[r].returned < chan[r].entered

(* SMI_Open_treereduce_channel for treereduce k; `sent' tells how far the    *)
(* present call is.  Its `creds' never run out: every call returns the one   *)
(* it takes. *)
Opened(k) == [coll |-> k, entered |-> 0, returned |-> 0, init |-> TRUE, sent |-> FALSE]

Returned(c) ==
    IF c.entered = Counts[c.coll] THEN Opened(c.coll + 1)
                                  ELSE [c EXCEPT !.returned = c.entered, !.sent = FALSE]

Init ==
    /\ chan = [r \in Ranks |-> Opened(1)]
    /\ support = [r \in Ranks |->
           [init |-> FALSE, stage |-> 0, parent |-> -1, children |-> <<-1, -1>>,
            remaining_elems |-> 0, sender_id |-> 0, sent |-> {},
            add_to |-> [q \in Ranks |-> 0], add_to_root |-> 0,
            current_buffer_element |-> 0,
            reduce_result |-> [slot \in Buffers |-> {}],
            reduce_result_downtree |-> {}]]
    /\ treereduce_init = [r \in Ranks |-> <<>>]
    /\ treereduce_send = [r \in Ranks |-> <<>>]
    /\ treereduce_recv = [r \in Ranks |-> <<>>]
    /\ data = Quiet /\ control = Quiet

-----------------------------------------------------------------------------
(* The application *)

(* SMI_Treereduce is called for the next element. *)
Call(r) ==
    /\ chan[r].coll <= NumCollectives /\ ~ InCall(r)
    /\ chan' = [chan EXCEPT ![r].entered = @ + 1]
    /\ UNCHANGED <<support, treereduce_init, treereduce_send, treereduce_recv, data, control>>

(* The first call tells the kernel its place in the tree and the number of   *)
(* elements. *)
SetUp(r) ==
    LET k == chan[r].coll
    IN  /\ InCall(r) /\ chan[r].init /\ treereduce_init[r] = <<>>
        /\ treereduce_init' = [treereduce_init EXCEPT ![r] =
               <<[parent |-> Parent(k, r), children |-> Children(k, r),
                  elems |-> Counts[k]]>>]
        /\ chan' = [chan EXCEPT ![r].init = FALSE]
        /\ UNCHANGED <<support, treereduce_send, treereduce_recv, data, control>>

(* Every call hands its element to the kernel, *)
Offer(r) ==
    LET c == chan[r]
    IN  /\ InCall(r) /\ ~ c.init /\ ~ c.sent /\ treereduce_send[r] = <<>>
        /\ treereduce_send' = [treereduce_send EXCEPT ![r] = <<{<<c.coll, r, c.entered>>}>>]
        /\ chan' = [chan EXCEPT ![r].sent = TRUE]
        /\ UNCHANGED <<support, treereduce_init, treereduce_recv, data, control>>

(* and returns with the result. *)
TakeResult(r) ==
    /\ InCall(r) /\ chan[r].sent /\ treereduce_recv[r] # <<>>
    /\ treereduce_recv' = [treereduce_recv EXCEPT ![r] = <<>>]
    /\ chan' = [chan EXCEPT ![r] = Returned(@)]
    /\ UNCHANGED <<support, treereduce_init, treereduce_send, data, control>>

-----------------------------------------------------------------------------
(* The support kernel *)

(* Mutant: the counters of the kernel's own are not reset.                   *)
ChildrenFromZero(s) == [s EXCEPT !.add_to = [q \in Ranks |-> 0]]

(* The counters start again with the first buffer. *)
FromBufferZero(s) == [s EXCEPT !.add_to = [q \in Ranks |-> 0], !.add_to_root = 0,
                               !.current_buffer_element = 0]

(* A new reduce: the tree is set, the buffers are as they were. *)
ReadSetUp(r) ==
    LET mess == Head(treereduce_init[r])
    IN  /\ ~ support[r].init /\ treereduce_init[r] # <<>>
        /\ treereduce_init' = [treereduce_init EXCEPT ![r] = <<>>]
        /\ support' = [support EXCEPT ![r] = FromBufferZero([@ EXCEPT
               !.init = TRUE, !.parent = mess.parent, !.children = mess.children,
               !.remaining_elems = mess.elems])]
        /\ UNCHANGED <<chan, treereduce_send, treereduce_recv, data, control>>

(* What there is to read of the application, the children and the parent *)
Has(r, input) ==
    CASE input = 0 -> treereduce_send[r] # <<>>
      [] input = 1 -> Waiting(data, r) # {}
      [] input = 2 -> Waiting(control, r) # {}

Polls(r, input) ==
    /\ support[r].init /\ support[r].stage = 0
    /\ support[r].sender_id \in {input, Either}

(* The inputs are polled in turn.  An empty one is passed over; while all    *)
(* are empty the kernel goes round and round. *)
PollEmpty(r) ==
    \E input \in 0 .. 2 :
        /\ support[r].sender_id = input /\ Polls(r, input) /\ ~ Has(r, input)
        /\ support' = [support EXCEPT ![r].sender_id =
               IF \E other \in 0 .. 2 : Has(r, other) THEN (input + 1) % 3 ELSE Either]
        /\ UNCHANGED <<chan, treereduce_init, treereduce_send, treereduce_recv, data, control>>

(* Mutant: the application does not count.                                   *)
CompleteWithoutOwn(s) ==
    Cardinality(s.reduce_result[s.current_buffer_element]) =
        Cardinality({which \in {1, 2} : s.children[which] # -1})

(* data_recvd = num_children: the application and the children *)
Complete(s) ==
    Cardinality(s.reduce_result[s.current_buffer_element]) =
        1 + Cardinality({which \in {1, 2} : s.children[which] # -1})

(* After a message the kernel may have all contributions to an element. *)
Then(s, input) == [s EXCEPT !.sender_id = (input + 1) % 3,
                            !.stage = IF Complete(s) THEN 1 ELSE @]

AddOwn(r) ==
    LET s == support[r]
    IN  /\ Polls(r, 0) /\ Has(r, 0)
        /\ treereduce_send' = [treereduce_send EXCEPT ![r] = <<>>]
        /\ support' = [support EXCEPT ![r] = Then([s EXCEPT
               !.reduce_result[s.add_to_root] = @ \cup {Head(treereduce_send[r])},
               !.add_to_root = Next1(@)], 0)]
        /\ UNCHANGED <<chan, treereduce_init, treereduce_recv, data, control>>

AddChild(r) ==
    \E src \in Waiting(data, r) :
        LET s == support[r]
        IN  /\ Polls(r, 1)
            /\ data' = Take(data, src, r)
            /\ support' = [support EXCEPT ![r] = Then([s EXCEPT
                   !.reduce_result[s.add_to[src]] = @ \cup {Head(data[src][r])},
                   !.add_to[src] = Next1(@)], 1)]
            /\ UNCHANGED <<chan, treereduce_init, treereduce_send, treereduce_recv, control>>

TakeDown(r) ==
    \E src \in Waiting(control, r) :
        /\ Polls(r, 2)
        /\ control' = Take(control, src, r)
        /\ support' = [support EXCEPT ![r] = Then([@ EXCEPT
               !.stage = 2, !.reduce_result_downtree = Head(control[src][r])], 2)]
        /\ UNCHANGED <<chan, treereduce_init, treereduce_send, treereduce_recv, data>>

(* The sum goes to the parent, or is the result. *)
SendUp(r) ==
    LET s == support[r]
        sum == UNION s.reduce_result[s.current_buffer_element]
        emptied == [s EXCEPT !.reduce_result[s.current_buffer_element] = {},
                             !.current_buffer_element = Next1(@)]
    IN  /\ s.init /\ s.stage = 1
        /\ IF s.parent = -1
           THEN /\ support' = [support EXCEPT ![r] =
                       [emptied EXCEPT !.stage = 2, !.reduce_result_downtree = sum]]
                /\ UNCHANGED data
           ELSE /\ HasRoom(data, r, s.parent)
                /\ data' = Put(data, r, s.parent, sum)
                /\ support' = [support EXCEPT ![r] = [emptied EXCEPT !.stage = 0]]
        /\ UNCHANGED <<chan, treereduce_init, treereduce_send, treereduce_recv, control>>

(* Mutant: one flag for both children.                                       *)
UnsentOneFlag(s) == {which \in {1, 2} : s.sent = {} /\ s.children[which] # -1}

(* The children that have not got the result yet *)
Unsent(s) == {which \in {1, 2} \ s.sent : s.children[which] # -1}

(* The result goes to the children *)
SendDown(r) ==
    LET s == support[r]
        which == IF 1 \in Unsent(s) THEN 1 ELSE 2
    IN  /\ s.init /\ s.stage = 2 /\ Unsent(s) # {}
        /\ HasRoom(control, r, s.children[which])
        /\ control' = Put(control, r, s.children[which], s.reduce_result_downtree)
        /\ support' = [support EXCEPT ![r].sent = @ \cup {which}]
        /\ UNCHANGED <<chan, treereduce_init, treereduce_send, treereduce_recv, data>>

(* and to the application; after the last one the kernel awaits a new reduce. *)
SendToApplication(r) ==
    LET s == support[r]
    IN  /\ s.init /\ s.stage = 2 /\ Unsent(s) = {} /\ treereduce_recv[r] = <<>>
        /\ treereduce_recv' = [treereduce_recv EXCEPT ![r] = <<s.reduce_result_downtree>>]
        /\ support' = [support EXCEPT ![r] = [s EXCEPT
               !.remaining_elems = @ - 1, !.init = s.remaining_elems # 1,
               !.sender_id = IF s.remaining_elems = 1 THEN Either ELSE @,
               !.sent = {}, !.stage = 0]]
        /\ UNCHANGED <<chan, treereduce_init, treereduce_send, data, control>>

-----------------------------------------------------------------------------
Application(r) == Call(r) \/ SetUp(r) \/ Offer(r) \/ TakeResult(r)

Support(r) ==
    \/ ReadSetUp(r) \/ PollEmpty(r) \/ AddOwn(r) \/ AddChild(r) \/ TakeDown(r)
    \/ SendUp(r) \/ SendDown(r) \/ SendToApplication(r)

Next == \E r \in Ranks : Application(r) \/ Support(r)

(* Programs and kernels run on their own whenever no FIFO blocks them.  Both *)
(* have finitely much to do.                                                 *)
Spec == Init /\ [][Next]_vars /\ WF_vars(Next)

-----------------------------------------------------------------------------
(* Properties *)

(* What a buffer holds is of one element, and the element is in no other     *)
(* buffer: add_to "tells to what element in the buffer we should add the     *)
(* received item" (treereduce.cl:28).                                        *)
OneBufferPerElement ==
    \A r \in Ranks : \A slot, other \in Buffers :
        \A a \in UNION support[r].reduce_result[slot],
           b \in UNION support[r].reduce_result[other] :
            (a[1] = b[1] /\ a[3] = b[3]) <=> slot = other

(* The result every application gets is the sum of all ranks' contributions  *)
(* to the element its call is for.                                           *)
ResultRight ==
    \A r \in Ranks : treereduce_recv[r] # <<>> =>
        Head(treereduce_recv[r]) = {<<chan[r].coll, q, chan[r].entered>> : q \in Ranks}
=============================================================================
