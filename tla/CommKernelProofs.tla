-------------------------- MODULE CommKernelProofs --------------------------
(****************************************************************************)
(* Proofs about CommKernel: with a limit that its counter can hold, the     *)
(* kernel never reads more than READS_LIMIT messages in a row from one      *)
(* input, and a waiting message is passed by a bounded number of others,    *)
(* for every number of inputs; and it loses, repeats and reorders nothing   *)
(* between any input and any output.                                        *)
(****************************************************************************)
EXTENDS CommKernel, TLAPS

(* How many inputs have had their turn since the turn of input i.            *)
Turns(i) == IF sender_id > i THEN sender_id - i - 1
                             ELSE sender_id + NumSender - i - 1

CountInv ==
    /\ contiguous_reads \in 0 .. READS_LIMIT
    /\ pc = "poll" => contiguous_reads < READS_LIMIT

(* An input that has its turn now had all others before it, and from its     *)
(* first read on nothing counts against it.                                  *)
WaitInv(i) ==
    /\ inputs[i] = <<>> => bypassed[i] = 0
    /\ sender_id = i =>
           /\ bypassed[i] <= (NumSender - 1) * READS_LIMIT
           /\ contiguous_reads > 0 => bypassed[i] = 0
    /\ sender_id # i =>
           bypassed[i] <= Turns(i) * READS_LIMIT + contiguous_reads

BypassInv == CountInv /\ \A i \in Senders : WaitInv(i)

-----------------------------------------------------------------------------
LEMMA Numbers ==
    /\ NumSender \in Nat /\ NumSender >= 1
    /\ READS_LIMIT \in Nat /\ READS_LIMIT >= 1
    /\ CHAR_MAX \in Nat
BY KernelAssumption

LEMMA QuotaGrows ==
    ASSUME NEW d \in Nat
    PROVE  /\ (d + 1) * READS_LIMIT = d * READS_LIMIT + READS_LIMIT
           /\ d * READS_LIMIT \in Nat
BY Numbers

(* What the kernel does to its position among the inputs. *)
LEMMA RotateStep ==
    ASSUME TypeOK, Rotate
    PROVE  /\ sender_id' \in Senders /\ contiguous_reads' = 0
           /\ sender_id + 1 < NumSender => sender_id' = sender_id + 1
           /\ sender_id + 1 >= NumSender => sender_id' = 0
BY Numbers DEF TypeOK, Rotate, Senders

(* The range of Turns, and its growth by one with every rotation. *)
LEMMA TurnsStep ==
    ASSUME TypeOK, Rotate, NEW i \in Senders
    PROVE  /\ sender_id # i => Turns(i) \in 0 .. NumSender - 2
           /\ sender_id = i /\ sender_id' # i => Turns(i)' = 0
           /\ sender_id # i /\ sender_id' # i => Turns(i)' = Turns(i) + 1
           /\ sender_id # i /\ sender_id' = i => Turns(i) + 1 = NumSender - 1
<1>1. sender_id \in Senders /\ i \in Senders
  BY DEF TypeOK
<1> QED  BY <1>1, RotateStep, Numbers DEF Turns, Senders

(* One count per input and output, and one of them goes up by one. *)
LEMMA CountsGrow ==
    ASSUME NEW old \in [Senders -> [Outputs -> Nat]], NEW i \in Senders,
           NEW o \in Outputs, NEW new, new = [old EXCEPT ![i][o] = @ + 1]
    PROVE  /\ new \in [Senders -> [Outputs -> Nat]]
           /\ new[i][o] = old[i][o] + 1
           /\ \A j \in Senders, p \in Outputs :
                  j # i \/ p # o => new[j][p] = old[j][p]
<1> DEFINE row == [old[i] EXCEPT ![o] = old[i][o] + 1]
<1>1. new = [old EXCEPT ![i] = row]
  OBVIOUS
<1>2. /\ old[i] \in [Outputs -> Nat] /\ row \in [Outputs -> Nat]
      /\ row[o] = old[i][o] + 1 /\ \A p \in Outputs : p # o => row[p] = old[i][p]
  OBVIOUS
<1> HIDE DEF row
<1>3. new[i] = row /\ \A j \in Senders : j # i => new[j] = old[j]
  BY <1>1
<1> QED  BY <1>1, <1>2, <1>3

LEMMA TypeInvariance == TypeOK /\ [Next]_vars => TypeOK'
<1> SUFFICES ASSUME TypeOK, [Next]_vars PROVE TypeOK'
  OBVIOUS
<1>1. /\ inputs \in [Senders -> Seq(Message)]
      /\ outputs \in [Outputs -> Seq(Message)]
      /\ sender_id \in Senders /\ message \in Message
      /\ contiguous_reads \in -CHAR_MAX - 1 .. CHAR_MAX
      /\ pc \in {"poll", "write"}
      /\ arrived \in [Senders -> [Outputs -> Nat]]
      /\ delivered \in [Senders -> [Outputs -> Nat]]
      /\ bypassed \in [Senders -> Nat]
  BY DEF TypeOK
<1>2. 0 \in -CHAR_MAX - 1 .. CHAR_MAX
  BY Numbers
<1>3. CASE PollEmpty
  BY <1>1, <1>2, <1>3, RotateStep DEF PollEmpty, TypeOK
<1>4. CASE PollMessage
  <2>1. /\ inputs[sender_id] \in Seq(Message) /\ inputs[sender_id] # <<>>
        /\ message' = Head(inputs[sender_id])
        /\ inputs' = [inputs EXCEPT ![sender_id] = Tail(@)]
    BY <1>1, <1>4 DEF PollMessage
  <2>2. message' \in Message /\ Tail(inputs[sender_id]) \in Seq(Message)
    BY <2>1
  <2>3. inputs' \in [Senders -> Seq(Message)]
    BY <1>1, <2>1, <2>2
  <2>4. contiguous_reads' \in -CHAR_MAX - 1 .. CHAR_MAX
    BY <1>1, <1>4, Numbers DEF PollMessage, Increment
  <2>5. bypassed' \in [Senders -> Nat]
    BY <1>1, <1>4 DEF PollMessage
  <2> QED  BY <1>1, <1>4, <2>2, <2>3, <2>4, <2>5 DEF PollMessage, TypeOK
<1>5. CASE Write
  <2>1. message.out \in Outputs
    BY <1>1 DEF Message
  <2>2. Append(outputs[message.out], message) \in Seq(Message)
    BY <1>1, <2>1
  <2>3. outputs' = [outputs EXCEPT ![message.out]
                       = Append(outputs[message.out], message)]
    BY <1>5 DEF Write
  <2>4. outputs' \in [Outputs -> Seq(Message)]
    BY <1>1, <2>1, <2>2, <2>3
  <2>5. /\ sender_id' \in Senders
        /\ contiguous_reads' \in -CHAR_MAX - 1 .. CHAR_MAX
    BY <1>1, <1>2, <1>5, RotateStep DEF Write
  <2> QED  BY <1>1, <1>5, <2>4, <2>5 DEF Write, TypeOK
<1>6. ASSUME NEW i \in Senders, Arrive(i) PROVE TypeOK'
  <2>1. PICK o \in Outputs :
            /\ inputs' = [inputs EXCEPT ![i] =
                   Append(@, [sender |-> i, seq |-> arrived[i][o] + 1, out |-> o])]
            /\ arrived' = [arrived EXCEPT ![i][o] = @ + 1]
            /\ UNCHANGED <<sender_id, contiguous_reads, pc, message, outputs,
                           delivered, bypassed>>
    BY <1>6 DEF Arrive
  <2>2. [sender |-> i, seq |-> arrived[i][o] + 1, out |-> o] \in Message
    <3>1. arrived[i][o] + 1 \in Nat
      BY <1>1
    <3> QED  BY <3>1 DEF Message
  <2>3. inputs' \in [Senders -> Seq(Message)]
    BY <1>1, <2>1, <2>2
  <2>4. arrived' \in [Senders -> [Outputs -> Nat]]
    BY <1>1, <2>1, CountsGrow
  <2> QED  BY <1>1, <2>1, <2>3, <2>4 DEF TypeOK
<1>7. ASSUME NEW o \in Outputs, Consume(o) PROVE TypeOK'
  <2>1. outputs[o] \in Seq(Message) /\ outputs[o] # <<>>
    BY <1>1, <1>7 DEF Consume
  <2>2. Tail(outputs[o]) \in Seq(Message) /\ Head(outputs[o]) \in Message
    BY <2>1
  <2>3. outputs' \in [Outputs -> Seq(Message)]
    BY <1>1, <1>7, <2>2 DEF Consume
  <2>4. delivered' \in [Senders -> [Outputs -> Nat]]
    <3>1. PICK i \in Senders : i = Head(outputs[o]).sender
      BY <2>2 DEF Message
    <3>2. delivered' = [delivered EXCEPT ![i][o] = @ + 1]
      BY <1>7, <3>1 DEF Consume
    <3> QED  BY <1>1, <3>2, CountsGrow
  <2> QED  BY <1>1, <1>7, <2>3, <2>4 DEF Consume, TypeOK
<1>8. CASE UNCHANGED vars
  BY <1>8 DEF vars, TypeOK
<1> QED  BY <1>3, <1>4, <1>5, <1>6, <1>7, <1>8 DEF Next, Kernel

(* What a rotation does to an input, whatever else the step does. *)
LEMMA WaitRotate ==
    ASSUME TypeOK, BypassInv, Rotate, NEW i \in Senders,
           UNCHANGED <<inputs, bypassed>>,
           sender_id = i => bypassed[i] = 0
    PROVE  WaitInv(i)'
<1>1. /\ contiguous_reads \in 0 .. READS_LIMIT /\ WaitInv(i)
      /\ bypassed[i] \in Nat
  BY DEF BypassInv, CountInv, TypeOK
<1>2. contiguous_reads' = 0 /\ sender_id' \in Senders
  BY RotateStep
<1>3. CASE sender_id = i
  <2>1. bypassed'[i] = 0 /\ (NumSender - 1) * READS_LIMIT \in Nat
    BY <1>3, Numbers, QuotaGrows
  <2>2. sender_id' # i => Turns(i)' * READS_LIMIT = 0
    BY <1>3, TurnsStep, Numbers
  <2> QED  BY <1>2, <2>1, <2>2 DEF WaitInv
<1>4. CASE sender_id # i
  <2>1. /\ Turns(i) \in Nat
        /\ bypassed[i] <= Turns(i) * READS_LIMIT + contiguous_reads
    BY <1>1, <1>4, TurnsStep, Numbers DEF WaitInv
  <2>2. bypassed[i] <= (Turns(i) + 1) * READS_LIMIT
    BY <1>1, <2>1, QuotaGrows, Numbers
  <2>3. sender_id' # i => Turns(i)' = Turns(i) + 1
    BY <1>4, TurnsStep
  <2>4. sender_id' = i => Turns(i) + 1 = NumSender - 1
    BY <1>4, TurnsStep
  <2>5. (Turns(i) + 1) * READS_LIMIT \in Nat
    BY <2>1, QuotaGrows
  <2>6. sender_id' # i =>
            bypassed'[i] <= Turns(i)' * READS_LIMIT + contiguous_reads'
    BY <1>2, <2>2, <2>3, <2>5
  <2>7. sender_id' = i => bypassed'[i] <= (NumSender - 1) * READS_LIMIT
    BY <2>2, <2>4
  <2> QED  BY <1>1, <1>2, <2>6, <2>7 DEF WaitInv
<1> QED  BY <1>3, <1>4

LEMMA BypassInvariance ==
    ASSUME READS_LIMIT <= CHAR_MAX, TypeOK, BypassInv, [Next]_vars
    PROVE  BypassInv'
<1>1. /\ contiguous_reads \in 0 .. READS_LIMIT
      /\ pc = "poll" => contiguous_reads < READS_LIMIT
      /\ \A i \in Senders : WaitInv(i) /\ bypassed[i] \in Nat
      /\ sender_id \in Senders
  BY DEF BypassInv, CountInv, TypeOK
<1>2. CASE PollEmpty
  <2>1. inputs[sender_id] = <<>> /\ Rotate /\ UNCHANGED <<inputs, bypassed>>
    BY <1>2 DEF PollEmpty
  <2>2. bypassed[sender_id] = 0
    BY <1>1, <2>1 DEF WaitInv
  <2>3. \A i \in Senders : WaitInv(i)'
    BY <2>1, <2>2, WaitRotate
  <2>4. CountInv'
    BY <2>1, RotateStep, Numbers DEF CountInv
  <2> QED  BY <2>3, <2>4 DEF BypassInv
<1>3. CASE PollMessage
  <2>1. /\ contiguous_reads' = contiguous_reads + 1 /\ pc' = "write"
        /\ contiguous_reads < READS_LIMIT /\ sender_id' = sender_id
        /\ inputs' = [inputs EXCEPT ![sender_id] = Tail(@)]
        /\ bypassed' = [i \in Senders |->
               IF i = sender_id \/ inputs[i] = <<>> THEN 0 ELSE bypassed[i] + 1]
    BY <1>1, <1>3, Numbers DEF PollMessage, Increment
  <2>2. CountInv'
    BY <1>1, <2>1, Numbers DEF CountInv
  <2>3. ASSUME NEW i \in Senders PROVE WaitInv(i)'
    <3>1. WaitInv(i) /\ bypassed[i] \in Nat
      BY <1>1
    <3>2. CASE i = sender_id
      <4>1. bypassed'[i] = 0 /\ (NumSender - 1) * READS_LIMIT \in Nat
        BY <2>1, <3>2, Numbers, QuotaGrows
      <4> QED  BY <2>1, <3>2, <4>1 DEF WaitInv
    <3>3. CASE i # sender_id
      <4>1. /\ inputs'[i] = inputs[i]
            /\ bypassed'[i] = IF inputs[i] = <<>> THEN 0 ELSE bypassed[i] + 1
        BY <2>1, <3>3 DEF TypeOK
      <4>2. Turns(i)' = Turns(i) /\ Turns(i) \in Nat
        BY <1>1, <2>1, <3>3, Numbers DEF Turns, Senders
      <4>3. Turns(i) * READS_LIMIT \in Nat
        BY <4>2, QuotaGrows
      <4>4. bypassed'[i] <= Turns(i)' * READS_LIMIT + contiguous_reads'
        BY <1>1, <2>1, <3>1, <3>3, <4>1, <4>2, <4>3 DEF WaitInv
      <4> QED  BY <2>1, <3>3, <4>1, <4>4 DEF WaitInv
    <3> QED  BY <3>2, <3>3
  <2> QED  BY <2>2, <2>3 DEF BypassInv
<1>4. CASE Write
  <2>1. pc' = "poll" /\ UNCHANGED <<inputs, bypassed>>
    BY <1>4 DEF Write
  <2>2. CASE LimitReached
    <3>1. Rotate /\ contiguous_reads = READS_LIMIT
      BY <1>4, <2>2 DEF Write, LimitReached
    <3>2. bypassed[sender_id] = 0
      BY <1>1, <3>1, Numbers DEF WaitInv
    <3>3. \A i \in Senders : WaitInv(i)'
      BY <2>1, <3>1, <3>2, WaitRotate
    <3>4. CountInv'
      BY <3>1, RotateStep, Numbers DEF CountInv
    <3> QED  BY <3>3, <3>4 DEF BypassInv
  <2>3. CASE ~LimitReached
    <3>1. /\ UNCHANGED <<contiguous_reads, sender_id>>
          /\ contiguous_reads # READS_LIMIT
      BY <1>4, <2>3 DEF Write, LimitReached
    <3>2. CountInv'
      BY <1>1, <3>1, Numbers DEF CountInv
    <3>3. \A i \in Senders : WaitInv(i)'
      BY <1>1, <2>1, <3>1 DEF WaitInv, Turns
    <3> QED  BY <3>2, <3>3 DEF BypassInv
  <2> QED  BY <2>2, <2>3
<1>5. ASSUME NEW j \in Senders, Arrive(j) PROVE BypassInv'
  <2>1. /\ UNCHANGED <<contiguous_reads, sender_id, pc, bypassed>>
        /\ \A i \in Senders : inputs'[i] = <<>> => inputs[i] = <<>>
    <3>1. PICK o \in Outputs :
              inputs' = [inputs EXCEPT ![j] =
                  Append(@, [sender |-> j, seq |-> arrived[j][o] + 1, out |-> o])]
      BY <1>5 DEF Arrive
    <3>2. /\ inputs \in [Senders -> Seq(Message)]
          /\ arrived \in [Senders -> [Outputs -> Nat]]
      BY DEF TypeOK
    <3>3. arrived[j][o] + 1 \in Nat
      BY <3>2
    <3>4. PICK new \in Message :
              new = [sender |-> j, seq |-> arrived[j][o] + 1, out |-> o]
      BY <3>3 DEF Message
    <3>5. inputs'[j] # <<>>
      <4>1. inputs[j] \in Seq(Message) /\ inputs'[j] = Append(inputs[j], new)
        BY <3>1, <3>2, <3>4
      <4>2. Append(inputs[j], new) # <<>>
        BY <4>1
      <4> QED  BY <4>1, <4>2
    <3>6. \A i \in Senders : i # j => inputs'[i] = inputs[i]
      BY <3>1, <3>2
    <3> QED  BY <1>5, <3>5, <3>6 DEF Arrive
  <2> QED  BY <1>1, <2>1 DEF BypassInv, CountInv, WaitInv, Turns
<1>6. ASSUME NEW o \in Outputs, Consume(o) PROVE BypassInv'
  BY <1>1, <1>6 DEF Consume, BypassInv, CountInv, WaitInv, Turns
<1>7. CASE UNCHANGED vars
  BY <1>1, <1>7 DEF vars, BypassInv, CountInv, WaitInv, Turns
<1> QED  BY <1>2, <1>3, <1>4, <1>5, <1>6, <1>7 DEF Next, Kernel

-----------------------------------------------------------------------------
(* If m and n are of one input and for one output, m came first.             *)
Before(m, n) == m.sender = n.sender /\ m.out = n.out => m.seq < n.seq

(* Messages are numbered as they arrive.  Of one input, those in its FIFO     *)
(* come last, before them the one the kernel holds, before that those in an  *)
(* output.                                                                    *)
InputOrder ==
    \A i \in Senders : \A k \in 1 .. Len(inputs[i]) :
        /\ inputs[i][k].sender = i
        /\ inputs[i][k].seq <= arrived[i][inputs[i][k].out]
        /\ \A j \in 1 .. k - 1 : Before(inputs[i][j], inputs[i][k])

(* Message m has left its input before all that are still there.             *)
Earlier(m) ==
    /\ m.seq <= arrived[m.sender][m.out]
    /\ \A n \in 1 .. Len(inputs[m.sender]) : Before(m, inputs[m.sender][n])

OutputOrder ==
    \A o \in Outputs : \A k \in 1 .. Len(outputs[o]) :
        /\ outputs[o][k].out = o
        /\ Earlier(outputs[o][k])
        /\ \A j \in 1 .. k - 1 : Before(outputs[o][j], outputs[o][k])

HeldOrder ==
    pc = "write" =>
        /\ Earlier(message)
        /\ \A o \in Outputs : \A k \in 1 .. Len(outputs[o]) :
               Before(outputs[o][k], message)

OrderInv == InputOrder /\ OutputOrder /\ HeldOrder

(* The read takes the oldest message of its input. *)
LEMMA ReadKeepsOrder == TypeOK /\ OrderInv /\ PollMessage => OrderInv'
<1> SUFFICES ASSUME TypeOK, OrderInv, PollMessage PROVE OrderInv'
  OBVIOUS
<1> DEFINE s == sender_id
<1>1. /\ inputs \in [Senders -> Seq(Message)] /\ s \in Senders
      /\ outputs \in [Outputs -> Seq(Message)]
      /\ InputOrder /\ OutputOrder /\ HeldOrder
  BY DEF TypeOK, OrderInv
<1>2. /\ inputs[s] # <<>> /\ message' = Head(inputs[s]) /\ pc' = "write"
      /\ inputs' = [inputs EXCEPT ![s] = Tail(@)]
      /\ UNCHANGED <<outputs, arrived>>
  BY DEF PollMessage
<1>3. /\ inputs[s] \in Seq(Message)
      /\ Len(inputs'[s]) = Len(inputs[s]) - 1 /\ Len(inputs[s]) \in Nat \ {0}
      /\ \A k \in 1 .. Len(inputs'[s]) : inputs'[s][k] = inputs[s][k + 1]
      /\ message' = inputs[s][1]
      /\ \A i \in Senders : i # s => inputs'[i] = inputs[i]
  BY <1>1, <1>2
<1>4. message'.sender = s /\ message'.seq <= arrived[s][message'.out]
  BY <1>1, <1>3 DEF InputOrder
<1>5. InputOrder'
  <2> SUFFICES ASSUME NEW i \in Senders, NEW k \in 1 .. Len(inputs'[i])
               PROVE  /\ inputs'[i][k].sender = i
                      /\ inputs'[i][k].seq <= arrived[i][inputs'[i][k].out]
                      /\ \A j \in 1 .. k - 1 : Before(inputs'[i][j], inputs'[i][k])
    BY <1>2 DEF InputOrder, Before
  <2>1. CASE i # s
    BY <1>1, <1>3, <2>1 DEF InputOrder
  <2>2. CASE i = s
    <3>1. k \in 1 .. Len(inputs'[s]) /\ k + 1 \in 1 .. Len(inputs[s])
      BY <1>3, <2>2
    <3>2. ASSUME NEW j \in 1 .. k - 1
          PROVE  j \in 1 .. Len(inputs'[s]) /\ j + 1 \in 1 .. (k + 1) - 1
      BY <1>3, <3>1
    <3>3. /\ inputs'[s][k] = inputs[s][k + 1]
          /\ \A j \in 1 .. k - 1 : /\ inputs'[s][j] = inputs[s][j + 1]
                                   /\ j + 1 \in 1 .. (k + 1) - 1
      BY <1>3, <3>1, <3>2
    <3> QED  BY <1>1, <2>2, <3>1, <3>3 DEF InputOrder
  <2> QED  BY <2>1, <2>2
<1>6. ASSUME NEW m, m.sender \in Senders, Earlier(m) PROVE Earlier(m)'
  <2>1. CASE m.sender # s
    BY <1>2, <1>3, <1>6, <2>1 DEF Earlier, Before
  <2>2. CASE m.sender = s
    <3>1. \A n \in 1 .. Len(inputs'[s]) :
              n + 1 \in 1 .. Len(inputs[s]) /\ inputs'[s][n] = inputs[s][n + 1]
      BY <1>3
    <3> QED  BY <1>2, <1>6, <2>2, <3>1 DEF Earlier, Before
  <2> QED  BY <2>1, <2>2
<1>7. ASSUME NEW o \in Outputs, NEW k \in 1 .. Len(outputs[o])
      PROVE  outputs[o][k].sender \in Senders
  <2>1. outputs[o] \in Seq(Message)
    BY <1>1
  <2>2. outputs[o][k] \in Message
    BY <2>1
  <2> QED  BY <2>2 DEF Message
<1>8. OutputOrder'
  BY <1>1, <1>2, <1>6, <1>7 DEF OutputOrder, Before
<1>9. HeldOrder'
  <2>1. Earlier(message)'
    <3>1. \A n \in 1 .. Len(inputs'[s]) : Before(message', inputs'[s][n])
      <4> SUFFICES ASSUME NEW n \in 1 .. Len(inputs'[s])
                   PROVE  Before(inputs[s][1], inputs[s][n + 1])
        BY <1>3
      <4>1. n + 1 \in 1 .. Len(inputs[s]) /\ 1 \in 1 .. (n + 1) - 1
        BY <1>3
      <4> QED  BY <1>1, <4>1 DEF InputOrder
    <3> QED  BY <1>2, <1>4, <3>1 DEF Earlier, Before
  <2>2. ASSUME NEW o \in Outputs, NEW k \in 1 .. Len(outputs[o])
        PROVE  Before(outputs[o][k], message')
    <3>1. Earlier(outputs[o][k]) /\ 1 \in 1 .. Len(inputs[s])
      BY <1>1, <1>3 DEF OutputOrder
    <3>2. outputs[o][k].sender = s => Before(outputs[o][k], inputs[s][1])
      BY <3>1 DEF Earlier
    <3> QED  BY <1>3, <1>4, <3>2 DEF Before
  <2> QED  BY <1>2, <2>1, <2>2 DEF HeldOrder, Before
<1> QED  BY <1>5, <1>8, <1>9 DEF OrderInv

(* The write puts it behind those that left before. *)
LEMMA WriteKeepsOrder == TypeOK /\ OrderInv /\ Write => OrderInv'
<1> SUFFICES ASSUME TypeOK, OrderInv, Write PROVE OrderInv'
  OBVIOUS
<1> DEFINE w == message.out
<1>1. /\ message \in Message /\ outputs \in [Outputs -> Seq(Message)]
      /\ InputOrder /\ OutputOrder /\ HeldOrder
  BY DEF TypeOK, OrderInv
<1>2. /\ pc = "write" /\ pc' = "poll" /\ UNCHANGED <<inputs, message, arrived>>
      /\ outputs' = [outputs EXCEPT ![w] = Append(@, message)]
  BY DEF Write
<1>3. w \in Outputs /\ outputs[w] \in Seq(Message)
  BY <1>1 DEF Message
<1>4. /\ Len(outputs'[w]) = Len(outputs[w]) + 1 /\ Len(outputs[w]) \in Nat
      /\ \A k \in 1 .. Len(outputs[w]) : outputs'[w][k] = outputs[w][k]
      /\ outputs'[w][Len(outputs[w]) + 1] = message
      /\ \A o \in Outputs : o # w => outputs'[o] = outputs[o]
  BY <1>1, <1>2, <1>3
<1>5. InputOrder' /\ HeldOrder'
  BY <1>1, <1>2 DEF InputOrder, HeldOrder, Before
<1>6. \A m : Earlier(m)' <=> Earlier(m)
  BY <1>2 DEF Earlier, Before
<1>7. ASSUME NEW o \in Outputs, NEW k \in 1 .. Len(outputs'[o])
      PROVE  /\ outputs'[o][k].out = o
             /\ Earlier(outputs'[o][k])
             /\ \A j \in 1 .. k - 1 : Before(outputs'[o][j], outputs'[o][k])
  <2>1. CASE o # w
    BY <1>1, <1>4, <2>1 DEF OutputOrder
  <2>2. CASE o = w /\ k <= Len(outputs[w])
    <3>1. k \in 1 .. Len(outputs[w])
      BY <1>4, <2>2
    <3>2. \A j \in 1 .. k - 1 : outputs'[w][j] = outputs[w][j]
      BY <1>4, <3>1
    <3> QED  BY <1>1, <1>3, <1>4, <2>2, <3>1, <3>2 DEF OutputOrder
  <2>3. CASE o = w /\ k > Len(outputs[w])
    <3>1. /\ k = Len(outputs[w]) + 1 /\ outputs'[o][k] = message
          /\ \A j \in 1 .. k - 1 : j \in 1 .. Len(outputs[w])
      BY <1>4, <2>3
    <3>2. Earlier(message) /\ \A j \in 1 .. Len(outputs[w]) : Before(outputs[w][j], message)
      BY <1>1, <1>2, <1>3 DEF HeldOrder
    <3> QED  BY <1>4, <2>3, <3>1, <3>2
  <2> QED  BY <1>4, <2>1, <2>2, <2>3
<1>8. OutputOrder'
  BY <1>6, <1>7 DEF OutputOrder, Before
<1> QED  BY <1>5, <1>8 DEF OrderInv

(* A new message has the highest number of its input and its output. *)
LEMMA ArrivalKeepsOrder ==
    ASSUME TypeOK, OrderInv, NEW s \in Senders, Arrive(s)
    PROVE  OrderInv'
<1>1. /\ inputs \in [Senders -> Seq(Message)]
      /\ arrived \in [Senders -> [Outputs -> Nat]]
      /\ outputs \in [Outputs -> Seq(Message)] /\ message \in Message
      /\ InputOrder /\ OutputOrder /\ HeldOrder
  BY DEF TypeOK, OrderInv
<1>2. PICK o \in Outputs :
          /\ inputs' = [inputs EXCEPT ![s] =
                 Append(@, [sender |-> s, seq |-> arrived[s][o] + 1, out |-> o])]
          /\ arrived' = [arrived EXCEPT ![s][o] = @ + 1]
          /\ UNCHANGED <<pc, message, outputs>>
  BY DEF Arrive
<1> DEFINE new == [sender |-> s, seq |-> arrived[s][o] + 1, out |-> o]
<1>3. new \in Message /\ inputs[s] \in Seq(Message)
  <2>1. arrived[s][o] + 1 \in Nat /\ inputs[s] \in Seq(Message)
    BY <1>1
  <2> QED  BY <2>1 DEF Message
<1>4. /\ Len(inputs'[s]) = Len(inputs[s]) + 1 /\ Len(inputs[s]) \in Nat
      /\ \A k \in 1 .. Len(inputs[s]) : inputs'[s][k] = inputs[s][k]
      /\ inputs'[s][Len(inputs[s]) + 1] = new
      /\ \A i \in Senders : i # s => inputs'[i] = inputs[i]
  BY <1>1, <1>2, <1>3
<1>5. new.sender = s /\ new.out = o /\ new.seq = arrived[s][o] + 1
  OBVIOUS
<1> HIDE DEF new
<1>6. /\ arrived'[s][o] = arrived[s][o] + 1
      /\ \A i \in Senders, p \in Outputs :
             i # s \/ p # o => arrived'[i][p] = arrived[i][p]
  BY <1>1, <1>2, CountsGrow
<1>7. \A i \in Senders, p \in Outputs : arrived[i][p] \in Nat
  BY <1>1
<1>8. ASSUME NEW m \in Message, m.seq <= arrived[m.sender][m.out]
      PROVE  m.seq <= arrived'[m.sender][m.out] /\ Before(m, new)
  <2>1. m.sender \in Senders /\ m.out \in Outputs /\ m.seq \in Nat
    BY DEF Message
  <2>2. PICK a \in Nat : a = arrived[m.sender][m.out]
    BY <1>7, <2>1
  <2>3. CASE m.sender = s /\ m.out = o
    <3>1. arrived'[m.sender][m.out] = a + 1 /\ new.seq = a + 1
      BY <1>5, <1>6, <2>2, <2>3
    <3>2. m.seq <= a
      BY <1>8, <2>2
    <3> QED  BY <2>1, <3>1, <3>2 DEF Before
  <2>4. CASE m.sender # s \/ m.out # o
    <3>1. arrived'[m.sender][m.out] = arrived[m.sender][m.out]
      BY <1>6, <2>1, <2>4
    <3> QED  BY <1>5, <1>8, <2>4, <3>1 DEF Before
  <2> QED  BY <2>3, <2>4
<1>9. /\ \A i \in Senders : \A k \in 1 .. Len(inputs[i]) : inputs[i][k] \in Message
      /\ \A p \in Outputs : \A k \in 1 .. Len(outputs[p]) : outputs[p][k] \in Message
  <2>1. /\ \A i \in Senders : inputs[i] \in Seq(Message)
        /\ \A p \in Outputs : outputs[p] \in Seq(Message)
    BY <1>1
  <2> QED  BY <2>1
<1>10. InputOrder'
  <2> SUFFICES ASSUME NEW i \in Senders, NEW k \in 1 .. Len(inputs'[i])
               PROVE  /\ inputs'[i][k].sender = i
                      /\ inputs'[i][k].seq <= arrived'[i][inputs'[i][k].out]
                      /\ \A j \in 1 .. k - 1 : Before(inputs'[i][j], inputs'[i][k])
    BY DEF InputOrder, Before
  <2>1. ASSUME NEW h \in 1 .. Len(inputs[i])
        PROVE  /\ inputs[i][h].sender = i
               /\ inputs[i][h].seq <= arrived'[i][inputs[i][h].out]
               /\ Before(inputs[i][h], new)
               /\ \A j \in 1 .. h - 1 : Before(inputs[i][j], inputs[i][h])
    <3>1. /\ inputs[i][h] \in Message /\ inputs[i][h].sender = i
          /\ inputs[i][h].seq <= arrived[i][inputs[i][h].out]
      BY <1>1, <1>9 DEF InputOrder
    <3> QED  BY <1>1, <1>8, <3>1 DEF InputOrder
  <2>2. CASE i # s
    BY <1>4, <2>1, <2>2
  <2>3. CASE i = s /\ k <= Len(inputs[s])
    <3>1. k \in 1 .. Len(inputs[s]) /\ \A j \in 1 .. k - 1 : j \in 1 .. Len(inputs[s])
      BY <1>4, <2>3
    <3> QED  BY <1>4, <2>1, <2>3, <3>1
  <2>4. CASE i = s /\ k > Len(inputs[s])
    <3>1. /\ k = Len(inputs[s]) + 1 /\ inputs'[i][k] = new
          /\ \A j \in 1 .. k - 1 : j \in 1 .. Len(inputs[s])
      BY <1>4, <2>4
    <3>2. new.seq <= arrived'[s][new.out]
      BY <1>5, <1>6, <1>7
    <3> QED  BY <1>4, <1>5, <2>1, <2>4, <3>1, <3>2
  <2>5. k \in Nat /\ Len(inputs[s]) \in Nat
    BY <1>4
  <2> QED  BY <2>2, <2>3, <2>4, <2>5
<1>11. ASSUME NEW m \in Message, Earlier(m) PROVE Earlier(m)'
  <2>1. m.sender \in Senders /\ m.seq <= arrived'[m.sender][m.out] /\ Before(m, new)
    BY <1>8, <1>11 DEF Earlier, Message
  <2>2. ASSUME NEW n \in 1 .. Len(inputs'[m.sender])
        PROVE  Before(m, inputs'[m.sender][n])
    <3>1. CASE m.sender # s
      BY <1>4, <1>11, <2>1, <3>1 DEF Earlier
    <3>2. CASE m.sender = s /\ n \in 1 .. Len(inputs[s])
      BY <1>4, <1>11, <3>2 DEF Earlier
    <3>3. CASE m.sender = s /\ n \notin 1 .. Len(inputs[s])
      <4>1. n = Len(inputs[s]) + 1
        BY <1>4, <3>3
      <4> QED  BY <1>4, <2>1, <3>3, <4>1
    <3> QED  BY <3>1, <3>2, <3>3
  <2> QED  BY <2>1, <2>2 DEF Earlier, Before
<1>12. OutputOrder'
  BY <1>1, <1>2, <1>9, <1>11 DEF OutputOrder, Before
<1>13. HeldOrder'
  BY <1>1, <1>2, <1>11 DEF HeldOrder, Before
<1> QED  BY <1>10, <1>12, <1>13 DEF OrderInv

(* What is taken is the oldest of its FIFO. *)
LEMMA ConsumeKeepsOrder ==
    ASSUME TypeOK, OrderInv, NEW p \in Outputs, Consume(p)
    PROVE  OrderInv'
<1>1. /\ outputs \in [Outputs -> Seq(Message)]
      /\ InputOrder /\ OutputOrder /\ HeldOrder
  BY DEF TypeOK, OrderInv
<1>2. /\ outputs[p] # <<>> /\ UNCHANGED <<inputs, pc, message, arrived>>
      /\ outputs' = [outputs EXCEPT ![p] = Tail(@)]
  BY DEF Consume
<1>3. /\ Len(outputs'[p]) = Len(outputs[p]) - 1 /\ Len(outputs[p]) \in Nat \ {0}
      /\ \A k \in 1 .. Len(outputs'[p]) : outputs'[p][k] = outputs[p][k + 1]
      /\ \A o \in Outputs : o # p => outputs'[o] = outputs[o]
  BY <1>1, <1>2
<1>4. InputOrder' /\ \A m : Earlier(m)' <=> Earlier(m)
  BY <1>1, <1>2 DEF InputOrder, Earlier, Before
<1>5. ASSUME NEW o \in Outputs, NEW k \in 1 .. Len(outputs'[o])
      PROVE  \E n \in 1 .. Len(outputs[o]) :
                 /\ outputs'[o][k] = outputs[o][n]
                 /\ \A j \in 1 .. k - 1 : \E q \in 1 .. n - 1 : outputs'[o][j] = outputs[o][q]
  <2>1. CASE o # p
    BY <1>3, <2>1
  <2>2. CASE o = p
    <3>1. k + 1 \in 1 .. Len(outputs[p]) /\ outputs'[p][k] = outputs[p][k + 1]
      BY <1>3, <2>2
    <3>2. \A j \in 1 .. k - 1 :
              j + 1 \in 1 .. (k + 1) - 1 /\ outputs'[p][j] = outputs[p][j + 1]
      BY <1>3, <2>2
    <3> QED  BY <2>2, <3>1, <3>2
  <2> QED  BY <2>1, <2>2
<1>6. OutputOrder'
  <2> SUFFICES ASSUME NEW o \in Outputs, NEW k \in 1 .. Len(outputs'[o])
               PROVE  /\ outputs'[o][k].out = o
                      /\ Earlier(outputs'[o][k])
                      /\ \A j \in 1 .. k - 1 : Before(outputs'[o][j], outputs'[o][k])
    BY <1>4 DEF OutputOrder, Before
  <2>1. PICK n \in 1 .. Len(outputs[o]) :
            /\ outputs'[o][k] = outputs[o][n]
            /\ \A j \in 1 .. k - 1 : \E q \in 1 .. n - 1 : outputs'[o][j] = outputs[o][q]
    BY <1>5
  <2>2. /\ outputs[o][n].out = o
        /\ Earlier(outputs[o][n])
        /\ \A q \in 1 .. n - 1 : Before(outputs[o][q], outputs[o][n])
    BY <1>1 DEF OutputOrder
  <2> QED  BY <2>1, <2>2
<1>7. HeldOrder'
  BY <1>1, <1>2, <1>4, <1>5 DEF HeldOrder, Before
<1> QED  BY <1>4, <1>6, <1>7 DEF OrderInv

LEMMA OrderInvariance == TypeOK /\ OrderInv /\ [Next]_vars => OrderInv'
<1> SUFFICES ASSUME TypeOK, OrderInv, [Next]_vars PROVE OrderInv'
  OBVIOUS
<1>1. CASE PollEmpty
  <2>1. UNCHANGED <<inputs, pc, message, outputs, arrived>>
    BY <1>1 DEF PollEmpty
  <2> QED  BY <2>1 DEF OrderInv, InputOrder, OutputOrder, HeldOrder, Earlier, Before
<1>2. CASE PollMessage
  BY <1>2, ReadKeepsOrder
<1>3. CASE Write
  BY <1>3, WriteKeepsOrder
<1>4. ASSUME NEW i \in Senders, Arrive(i) PROVE OrderInv'
  BY <1>4, ArrivalKeepsOrder
<1>5. ASSUME NEW o \in Outputs, Consume(o) PROVE OrderInv'
  BY <1>5, ConsumeKeepsOrder
<1>6. CASE UNCHANGED vars
  BY <1>6 DEF vars, OrderInv, InputOrder, OutputOrder, HeldOrder, Earlier, Before
<1> QED  BY <1>1, <1>2, <1>3, <1>4, <1>5, <1>6 DEF Next, Kernel

-----------------------------------------------------------------------------
(* The account of a link: what is on its way from i to o, wherever it is.    *)
Contents(fifo) == {fifo[k] : k \in 1 .. Len(fifo)}

Held == IF pc = "write" THEN {message} ELSE {}

OnWay(i, o) ==
    {m \in Contents(outputs[o]) \cup Held \cup Contents(inputs[i]) :
        m.sender = i /\ m.out = o}

AccountInv ==
    \A i \in Senders, o \in Outputs :
        /\ delivered[i][o] <= arrived[i][o]
        /\ {m.seq : m \in OnWay(i, o)} = delivered[i][o] + 1 .. arrived[i][o]

LEMMA ContentsOfAppend ==
    ASSUME NEW S, NEW s \in Seq(S), NEW e \in S
    PROVE  Contents(Append(s, e)) = Contents(s) \cup {e}
<1>1. /\ Len(Append(s, e)) = Len(s) + 1 /\ Len(s) \in Nat
      /\ \A k \in 1 .. Len(s) : Append(s, e)[k] = s[k]
      /\ Append(s, e)[Len(s) + 1] = e
  OBVIOUS
<1> DEFINE t == Append(s, e)
           n == Len(s)
<1> HIDE DEF t
<1>2. Len(t) = n + 1 /\ n \in Nat /\ \A k \in 1 .. n : t[k] = s[k]
  BY <1>1 DEF t
<1>3. t[n + 1] = e
  BY <1>1 DEF t
<1> HIDE DEF n
<1>4. 1 .. n + 1 = (1 .. n) \cup {n + 1}
  BY <1>2
<1>5. {t[k] : k \in 1 .. n + 1} = {s[k] : k \in 1 .. n} \cup {e}
  BY <1>2, <1>3, <1>4
<1> QED  BY <1>2, <1>5 DEF Contents, t, n

LEMMA ContentsOfTail ==
    ASSUME NEW S, NEW s \in Seq(S), s # <<>>
    PROVE  /\ Contents(s) = {Head(s)} \cup Contents(Tail(s))
           /\ \A e \in Contents(Tail(s)) : \E k \in 1 .. Len(s) :
                  e = s[k] /\ 1 \in 1 .. k - 1
<1>1. /\ Len(Tail(s)) = Len(s) - 1 /\ Len(s) \in Nat \ {0} /\ Head(s) = s[1]
      /\ \A k \in 1 .. Len(s) - 1 : Tail(s)[k] = s[k + 1]
  OBVIOUS
<1> DEFINE t == Tail(s)
           n == Len(s)
<1> HIDE DEF t
<1>2. Len(t) = n - 1 /\ n \in Nat \ {0} /\ \A k \in 1 .. n - 1 : t[k] = s[k + 1]
  BY <1>1 DEF t
<1> HIDE DEF n
<1>3. ASSUME NEW k \in 1 .. n PROVE s[k] \in {s[1]} \cup {t[j] : j \in 1 .. n - 1}
  <2>1. CASE k = 1
    BY <2>1
  <2>2. CASE k # 1
    <3>1. k - 1 \in 1 .. n - 1 /\ (k - 1) + 1 = k
      BY <1>2, <2>2
    <3>2. s[k] = t[k - 1]
      BY <1>2, <3>1
    <3> QED  BY <3>1, <3>2
  <2> QED  BY <2>1, <2>2
<1>4. ASSUME NEW j \in 1 .. n - 1
      PROVE  t[j] = s[j + 1] /\ j + 1 \in 1 .. n /\ 1 \in 1 .. (j + 1) - 1
  BY <1>2
<1>5. 1 \in 1 .. n
  BY <1>2
<1>6. {s[k] : k \in 1 .. n} = {s[1]} \cup {t[j] : j \in 1 .. n - 1}
  BY <1>3, <1>4, <1>5
<1>7. Contents(s) = {Head(s)} \cup Contents(Tail(s))
  BY <1>1, <1>2, <1>6 DEF Contents, t, n
<1>8. ASSUME NEW e \in Contents(Tail(s))
      PROVE  \E k \in 1 .. Len(s) : e = s[k] /\ 1 \in 1 .. k - 1
  <2>1. PICK j \in 1 .. n - 1 : e = t[j]
    BY <1>2 DEF Contents, t
  <2> QED  BY <1>4, <2>1 DEF n
<1> QED  BY <1>7, <1>8

(* The oldest message of an output is the one its link has to deliver next.  *)
LEMMA ConsumeKeepsAccount ==
    ASSUME TypeOK, OrderInv, AccountInv, NEW p \in Outputs, Consume(p)
    PROVE  AccountInv'
<1>1. /\ outputs \in [Outputs -> Seq(Message)]
      /\ delivered \in [Senders -> [Outputs -> Nat]]
      /\ arrived \in [Senders -> [Outputs -> Nat]]
      /\ InputOrder /\ OutputOrder /\ HeldOrder
  BY DEF TypeOK, OrderInv
<1>2. /\ outputs[p] # <<>> /\ UNCHANGED <<inputs, pc, message, arrived>>
      /\ outputs' = [outputs EXCEPT ![p] = Tail(@)]
      /\ delivered' = [delivered EXCEPT ![Head(outputs[p]).sender][p] = @ + 1]
  BY DEF Consume
<1>3. /\ outputs[p] \in Seq(Message) /\ outputs'[p] = Tail(outputs[p])
      /\ \A o \in Outputs : o # p => outputs'[o] = outputs[o]
  BY <1>1, <1>2
<1>4. PICK h \in Message : h = Head(outputs[p])
  BY <1>2, <1>3
<1>5. PICK s \in Senders : s = h.sender
  BY DEF Message
<1>6. /\ delivered'[s][p] = delivered[s][p] + 1
      /\ \A i \in Senders, o \in Outputs :
             i # s \/ o # p => delivered'[i][o] = delivered[i][o]
  BY <1>1, <1>2, <1>4, <1>5, CountsGrow
<1>7. h = outputs[p][1] /\ 1 \in 1 .. Len(outputs[p])
  BY <1>2, <1>3, <1>4
<1>8. h.out = p /\ Earlier(h)
  BY <1>1, <1>7 DEF OutputOrder
<1>9. /\ Contents(outputs[p]) = {h} \cup Contents(outputs'[p])
      /\ \A e \in Contents(outputs'[p]) : Before(h, e)
  <2>1. /\ Contents(outputs[p]) = {h} \cup Contents(outputs'[p])
        /\ \A e \in Contents(outputs'[p]) : \E k \in 1 .. Len(outputs[p]) :
               e = outputs[p][k] /\ 1 \in 1 .. k - 1
    BY <1>2, <1>3, <1>4, ContentsOfTail
  <2> QED  BY <1>1, <1>7, <2>1 DEF OutputOrder
<1>10. ASSUME NEW i \in Senders, NEW o \in Outputs, i # s \/ o # p
       PROVE  OnWay(i, o)' = OnWay(i, o)
  <2>1. CASE o # p
    BY <1>2, <1>3, <2>1 DEF OnWay, Held, Contents
  <2>2. CASE o = p /\ i # s
    <3>1. Contents(inputs'[i]) = Contents(inputs[i]) /\ Held' = Held
      BY <1>2 DEF Held
    <3>2. {m \in Contents(outputs[p]) : m.sender = i /\ m.out = o}
              = {m \in Contents(outputs'[p]) : m.sender = i /\ m.out = o}
      BY <1>5, <1>9, <2>2
    <3> QED  BY <2>2, <3>1, <3>2 DEF OnWay
  <2> QED  BY <1>10, <2>1, <2>2
<1>11. /\ OnWay(s, p) = {h} \cup OnWay(s, p)'
       /\ \A e \in OnWay(s, p)' : h.seq < e.seq
  <2>1. OnWay(s, p) = {h} \cup OnWay(s, p)'
    BY <1>2, <1>5, <1>8, <1>9 DEF OnWay, Held, Contents
  <2>2. ASSUME NEW e, e \in OnWay(s, p)' PROVE h.seq < e.seq
    <3>1. e.sender = h.sender /\ e.out = h.out
      BY <1>5, <1>8, <2>2 DEF OnWay
    <3>2. Before(h, e)
      <4>1. CASE e \in Contents(outputs'[p])
        BY <1>9, <4>1
      <4>2. CASE e \in Held'
        BY <1>1, <1>2, <1>7, <4>2 DEF Held, HeldOrder
      <4>3. CASE e \in Contents(inputs'[s])
        BY <1>2, <1>5, <1>8, <4>3 DEF Contents, Earlier
      <4> QED  BY <2>2, <4>1, <4>2, <4>3 DEF OnWay
    <3> QED  BY <3>1, <3>2 DEF Before
  <2> QED  BY <2>1, <2>2
<1>12. PICK d \in Nat, a \in Nat : d = delivered[s][p] /\ a = arrived[s][p]
  BY <1>1
<1>13. d <= a /\ {m.seq : m \in OnWay(s, p)} = d + 1 .. a
  BY <1>12 DEF AccountInv
<1> DEFINE late == {m.seq : m \in OnWay(s, p)'}
<1>14. /\ {h.seq} \cup late = d + 1 .. a
       /\ \A n \in late : h.seq < n
  BY <1>11, <1>13
<1> HIDE DEF late
<1>15. h.seq = d + 1 /\ d + 1 <= a
  <2>1. h.seq \in d + 1 .. a
    BY <1>14
  <2>2. d + 1 \in d + 1 .. a
    BY <2>1
  <2> QED  BY <1>14, <2>1, <2>2
<1>16. late = d + 2 .. a
  <2>1. ASSUME NEW n \in late PROVE n \in d + 2 .. a
    <3>1. n \in d + 1 .. a /\ d + 1 < n
      BY <1>14, <1>15
    <3> QED  BY <3>1
  <2>2. ASSUME NEW n \in d + 2 .. a PROVE n \in late
    <3>1. n \in d + 1 .. a /\ n # d + 1
      OBVIOUS
    <3> QED  BY <1>14, <1>15, <3>1
  <2> QED  BY <2>1, <2>2
<1> QED
  <2> SUFFICES ASSUME NEW i \in Senders, NEW o \in Outputs
               PROVE  /\ delivered'[i][o] <= arrived'[i][o]
                      /\ {m.seq : m \in OnWay(i, o)'} = delivered'[i][o] + 1 .. arrived'[i][o]
    BY DEF AccountInv
  <2>1. CASE i = s /\ o = p
    <3>1. delivered'[s][p] = d + 1 /\ arrived'[s][p] = a /\ d + 1 + 1 = d + 2
      BY <1>2, <1>6, <1>12
    <3> QED  BY <1>15, <1>16, <2>1, <3>1 DEF late
  <2>2. CASE i # s \/ o # p
    BY <1>2, <1>6, <1>10, <2>2 DEF AccountInv
  <2> QED  BY <2>1, <2>2

LEMMA ArrivalKeepsAccount ==
    ASSUME TypeOK, AccountInv, NEW s \in Senders, Arrive(s)
    PROVE  AccountInv'
<1>1. /\ inputs \in [Senders -> Seq(Message)]
      /\ delivered \in [Senders -> [Outputs -> Nat]]
      /\ arrived \in [Senders -> [Outputs -> Nat]]
  BY DEF TypeOK
<1>2. PICK p \in Outputs :
          /\ inputs' = [inputs EXCEPT ![s] =
                 Append(@, [sender |-> s, seq |-> arrived[s][p] + 1, out |-> p])]
          /\ arrived' = [arrived EXCEPT ![s][p] = @ + 1]
          /\ UNCHANGED <<pc, message, outputs, delivered>>
  BY DEF Arrive
<1>3. PICK d \in Nat, a \in Nat : d = delivered[s][p] /\ a = arrived[s][p]
  BY <1>1
<1>4. PICK new \in Message : new = [sender |-> s, seq |-> a + 1, out |-> p]
  <2>1. a + 1 \in Nat
    OBVIOUS
  <2> QED  BY <2>1 DEF Message
<1>5. new.sender = s /\ new.out = p /\ new.seq = a + 1
  BY <1>4
<1>6. /\ inputs[s] \in Seq(Message) /\ inputs'[s] = Append(inputs[s], new)
      /\ \A i \in Senders : i # s => inputs'[i] = inputs[i]
  BY <1>1, <1>2, <1>3, <1>4
<1>7. Contents(inputs'[s]) = Contents(inputs[s]) \cup {new}
  BY <1>6, ContentsOfAppend
<1>8. /\ arrived'[s][p] = a + 1
      /\ \A i \in Senders, o \in Outputs :
             i # s \/ o # p => arrived'[i][o] = arrived[i][o]
  BY <1>1, <1>2, <1>3, CountsGrow
<1>9. ASSUME NEW i \in Senders, NEW o \in Outputs, i # s \/ o # p
      PROVE  OnWay(i, o)' = OnWay(i, o)
  <2>1. CASE i # s
    BY <1>2, <1>6, <2>1 DEF OnWay, Held, Contents
  <2>2. CASE i = s /\ o # p
    BY <1>2, <1>5, <1>7, <2>2 DEF OnWay, Held
  <2> QED  BY <1>9, <2>1, <2>2
<1>10. OnWay(s, p)' = OnWay(s, p) \cup {new}
  BY <1>2, <1>5, <1>7 DEF OnWay, Held
<1>11. d <= a /\ {m.seq : m \in OnWay(s, p)} = d + 1 .. a
  BY <1>3 DEF AccountInv
<1>12. d <= a + 1 /\ {m.seq : m \in OnWay(s, p)'} = d + 1 .. a + 1
  <2>1. {m.seq : m \in OnWay(s, p)'} = (d + 1 .. a) \cup {a + 1}
    BY <1>5, <1>10, <1>11
  <2>2. (d + 1 .. a) \cup {a + 1} = d + 1 .. a + 1 /\ d <= a + 1
    BY <1>11
  <2> QED  BY <2>1, <2>2
<1> QED
  <2> SUFFICES ASSUME NEW i \in Senders, NEW o \in Outputs
               PROVE  /\ delivered'[i][o] <= arrived'[i][o]
                      /\ {m.seq : m \in OnWay(i, o)'} = delivered'[i][o] + 1 .. arrived'[i][o]
    BY DEF AccountInv
  <2>1. CASE i = s /\ o = p
    BY <1>2, <1>3, <1>8, <1>12, <2>1
  <2>2. CASE i # s \/ o # p
    BY <1>2, <1>8, <1>9, <2>2 DEF AccountInv
  <2> QED  BY <2>1, <2>2

(* The kernel itself moves messages, and leaves the account as it is.        *)
LEMMA KernelKeepsAccount ==
    ASSUME TypeOK, OrderInv, AccountInv, Kernel
    PROVE  AccountInv'
<1>1. UNCHANGED <<arrived, delivered>>
  BY DEF Kernel, PollEmpty, PollMessage, Write
<1>2. ASSUME NEW i \in Senders, NEW o \in Outputs PROVE OnWay(i, o)' = OnWay(i, o)
  <2>1. CASE PollEmpty
    BY <2>1 DEF PollEmpty, OnWay, Held
  <2>2. CASE PollMessage
    <3>1. PICK s \in Senders : s = sender_id
      BY DEF TypeOK
    <3>2. /\ inputs \in [Senders -> Seq(Message)] /\ inputs[s] # <<>>
          /\ message' = Head(inputs[s]) /\ pc = "poll" /\ pc' = "write"
          /\ inputs' = [inputs EXCEPT ![s] = Tail(@)] /\ UNCHANGED outputs
      BY <2>2, <3>1 DEF PollMessage, TypeOK
    <3>3. /\ inputs[s] \in Seq(Message) /\ inputs'[s] = Tail(inputs[s])
          /\ \A j \in Senders : j # s => inputs'[j] = inputs[j]
      BY <3>2
    <3>4. Contents(inputs[s]) = {message'} \cup Contents(inputs'[s])
      BY <3>2, <3>3, ContentsOfTail
    <3>5. Held = {} /\ Held' = {message'}
      BY <3>2 DEF Held
    <3>6. message'.sender = s
      <4>1. message' = inputs[s][1] /\ 1 \in 1 .. Len(inputs[s])
        BY <3>2, <3>3
      <4> QED  BY <4>1 DEF OrderInv, InputOrder
    <3>7. CASE i = s
      BY <3>2, <3>4, <3>5, <3>7 DEF OnWay
    <3>8. CASE i # s
      BY <3>2, <3>3, <3>5, <3>6, <3>8 DEF OnWay
    <3> QED  BY <3>7, <3>8
  <2>3. CASE Write
    <3>1. PICK w \in Outputs : w = message.out
      BY DEF TypeOK, Message
    <3>2. /\ outputs \in [Outputs -> Seq(Message)] /\ message \in Message
          /\ pc = "write" /\ pc' = "poll" /\ UNCHANGED <<inputs, message>>
          /\ outputs' = [outputs EXCEPT ![w] = Append(@, message)]
      BY <2>3, <3>1 DEF Write, TypeOK
    <3>3. /\ outputs[w] \in Seq(Message) /\ outputs'[w] = Append(outputs[w], message)
          /\ \A p \in Outputs : p # w => outputs'[p] = outputs[p]
      BY <3>2
    <3>4. Contents(outputs'[w]) = Contents(outputs[w]) \cup {message}
      BY <3>2, <3>3, ContentsOfAppend
    <3>5. Held = {message} /\ Held' = {}
      BY <3>2 DEF Held
    <3>6. CASE o = w
      BY <3>2, <3>4, <3>5, <3>6 DEF OnWay
    <3>7. CASE o # w
      BY <3>1, <3>2, <3>3, <3>5, <3>7 DEF OnWay
    <3> QED  BY <3>6, <3>7
  <2> QED  BY <2>1, <2>2, <2>3 DEF Kernel
<1> QED  BY <1>1, <1>2 DEF AccountInv

LEMMA AccountInvariance ==
    TypeOK /\ OrderInv /\ AccountInv /\ [Next]_vars => AccountInv'
<1> SUFFICES ASSUME TypeOK, OrderInv, AccountInv, [Next]_vars PROVE AccountInv'
  OBVIOUS
<1>1. CASE Kernel
  BY <1>1, KernelKeepsAccount
<1>2. ASSUME NEW i \in Senders, Arrive(i) PROVE AccountInv'
  BY <1>2, ArrivalKeepsAccount
<1>3. ASSUME NEW o \in Outputs, Consume(o) PROVE AccountInv'
  BY <1>3, ConsumeKeepsAccount
<1>4. CASE UNCHANGED vars
  BY <1>4 DEF vars, AccountInv, OnWay, Held
<1> QED  BY <1>1, <1>2, <1>3, <1>4 DEF Next

LEMMA Concatenation ==
    ASSUME NEW S, NEW s \in Seq(S), NEW t \in Seq(S)
    PROVE  /\ s \o t \in Seq(S) /\ Len(s \o t) = Len(s) + Len(t)
           /\ DOMAIN (s \o t) = 1 .. Len(s) + Len(t)
           /\ \A n \in 1 .. Len(s) : (s \o t)[n] = s[n]
           /\ \A n \in 1 .. Len(t) : (s \o t)[Len(s) + n] = t[n]
OBVIOUS

LEMMA ContentsOfConcatenation ==
    ASSUME NEW S, NEW s \in Seq(S), NEW t \in Seq(S)
    PROVE  Contents(s \o t) = Contents(s) \cup Contents(t)
<1> DEFINE u == s \o t
           a == Len(s)
           b == Len(t)
<1>1. /\ Len(u) = a + b /\ a \in Nat /\ b \in Nat
      /\ \A n \in 1 .. a : u[n] = s[n]
      /\ \A n \in 1 .. b : u[a + n] = t[n]
  BY Concatenation
<1> HIDE DEF u, a, b
<1>2. ASSUME NEW n \in 1 .. a + b
      PROVE  u[n] \in {s[k] : k \in 1 .. a} \cup {t[k] : k \in 1 .. b}
  <2>1. CASE n <= a
    BY <1>1, <2>1
  <2>2. CASE n > a
    <3>1. n - a \in 1 .. b /\ a + (n - a) = n
      BY <1>1, <2>2
    <3> QED  BY <1>1, <3>1
  <2> QED  BY <1>1, <2>1, <2>2
<1>3. ASSUME NEW k \in 1 .. a PROVE k \in 1 .. a + b /\ s[k] = u[k]
  BY <1>1
<1>4. ASSUME NEW k \in 1 .. b PROVE a + k \in 1 .. a + b /\ t[k] = u[a + k]
  BY <1>1
<1>5. {u[n] : n \in 1 .. a + b} = {s[k] : k \in 1 .. a} \cup {t[k] : k \in 1 .. b}
  <2>1. ASSUME NEW k \in 1 .. b PROVE t[k] \in {u[n] : n \in 1 .. a + b}
    <3>1. PICK n \in 1 .. a + b : n = a + k
      BY <1>4
    <3> QED  BY <1>4, <3>1
  <2> QED  BY <1>2, <1>3, <2>1
<1> QED  BY <1>1, <1>5 DEF Contents, u, a, b

(* In the three parts of what is on its way, and so in the whole. *)
LEMMA OrderOfTheWhole ==
    ASSUME TypeOK, OrderInv, NEW i \in Senders, NEW o \in Outputs,
           NEW j \in DOMAIN Pending(i, o), NEW k \in DOMAIN Pending(i, o),
           Pending(i, o)[j].sender = i, Pending(i, o)[k].sender = i,
           Pending(i, o)[j].out = o, Pending(i, o)[k].out = o, j < k
    PROVE  Pending(i, o)[j].seq < Pending(i, o)[k].seq
<1> DEFINE held  == IF pc = "write" THEN <<message>> ELSE <<>>
           early == outputs[o] \o held
           a == Len(outputs[o])
           b == Len(held)
           c == Len(inputs[i])
           p == Pending(i, o)
<1>1. /\ outputs[o] \in Seq(Message) /\ inputs[i] \in Seq(Message)
      /\ held \in Seq(Message)
      /\ InputOrder /\ OutputOrder /\ HeldOrder
  BY DEF TypeOK, OrderInv
<1>2. /\ b = (IF pc = "write" THEN 1 ELSE 0)
      /\ \A n \in 1 .. b : held[n] = message /\ pc = "write"
  OBVIOUS
<1>3. p = early \o inputs[i]
  BY DEF Pending
<1> HIDE DEF held
<1>4. /\ early \in Seq(Message) /\ Len(early) = a + b
      /\ \A n \in 1 .. a : early[n] = outputs[o][n]
      /\ \A n \in 1 .. b : early[a + n] = held[n]
  BY <1>1, Concatenation
<1> HIDE DEF early, p
<1>5. /\ DOMAIN p = 1 .. Len(early) + c
      /\ \A n \in 1 .. Len(early) : p[n] = early[n]
      /\ \A n \in 1 .. c : p[Len(early) + n] = inputs[i][n]
  <2>1. early \in Seq(Message) /\ inputs[i] \in Seq(Message)
    BY <1>1, <1>4
  <2>2. /\ DOMAIN (early \o inputs[i]) = 1 .. Len(early) + Len(inputs[i])
        /\ \A n \in 1 .. Len(early) : (early \o inputs[i])[n] = early[n]
        /\ \A n \in 1 .. Len(inputs[i]) :
               (early \o inputs[i])[Len(early) + n] = inputs[i][n]
    BY <2>1, Concatenation
  <2> QED  BY <1>3, <2>2, Zenon
<1>6. a \in Nat /\ b \in {0, 1} /\ c \in Nat
  BY <1>1, <1>2
<1>7. /\ p[j].sender = p[k].sender /\ p[j].out = p[k].out
      /\ p[j].sender = i /\ j \in DOMAIN p /\ k \in DOMAIN p
  BY DEF p
<1> HIDE DEF a, b, c
<1>8. /\ j \in 1 .. a + b + c /\ k \in 1 .. a + b + c
      /\ \A n \in 1 .. a : p[n] = outputs[o][n]
      /\ \A n \in a + 1 .. a + b : p[n] = message /\ pc = "write"
      /\ \A n \in a + b + 1 .. a + b + c : p[n] = inputs[i][n - (a + b)]
  <2>1. \A n \in a + 1 .. a + b : n - a \in 1 .. b /\ n = a + (n - a)
    BY <1>6
  <2>2. \A n \in a + b + 1 .. a + b + c :
            n - (a + b) \in 1 .. c /\ n = a + b + (n - (a + b))
    BY <1>6
  <2>3. ASSUME NEW n \in a + 1 .. a + b PROVE p[n] = message /\ pc = "write"
    <3>1. n - a \in 1 .. b /\ n = a + (n - a) /\ n \in 1 .. Len(early)
      BY <1>4, <1>6, <2>1
    <3> QED  BY <1>2, <1>4, <1>5, <3>1
  <2>4. \A n \in a + b + 1 .. a + b + c : p[n] = inputs[i][n - (a + b)]
    BY <1>4, <1>5, <2>2
  <2> QED  BY <1>4, <1>5, <1>6, <1>7, <2>3, <2>4
<1>9. CASE k <= a
  <2>1. k \in 1 .. Len(outputs[o]) /\ j \in 1 .. k - 1
    BY <1>6, <1>8, <1>9 DEF a
  <2>2. p[j] = outputs[o][j] /\ p[k] = outputs[o][k]
    BY <1>6, <1>8, <1>9
  <2> QED  BY <1>1, <1>7, <2>1, <2>2 DEF OutputOrder, Before, p
<1>10. CASE j <= a /\ k > a /\ k <= a + b
  <2>1. /\ p[k] = message /\ pc = "write" /\ p[j] = outputs[o][j]
        /\ j \in 1 .. Len(outputs[o])
    BY <1>6, <1>8, <1>10 DEF a
  <2> QED  BY <1>1, <1>7, <2>1 DEF HeldOrder, Before, p
<1>11. CASE j <= a /\ k > a + b
  <2>1. /\ p[j] = outputs[o][j] /\ p[k] = inputs[i][k - (a + b)]
        /\ k - (a + b) \in 1 .. Len(inputs[i]) /\ j \in 1 .. Len(outputs[o])
    <3>1. /\ j \in 1 .. a /\ k \in a + b + 1 .. a + b + c
          /\ k - (a + b) \in 1 .. c
      BY <1>6, <1>8, <1>11
    <3> QED  BY <1>8, <3>1 DEF a, c
  <2>2. Earlier(outputs[o][j])
    BY <1>1, <2>1 DEF OutputOrder
  <2> QED  BY <1>7, <2>1, <2>2 DEF Earlier, Before, p
<1>12. CASE j > a /\ j <= a + b
  <2>1. pc = "write" /\ p[j] = message /\ k \in a + b + 1 .. a + b + c
    BY <1>6, <1>8, <1>12
  <2>2. p[k] = inputs[i][k - (a + b)] /\ k - (a + b) \in 1 .. Len(inputs[i])
    <3>1. k - (a + b) \in 1 .. c
      BY <1>6, <2>1
    <3> QED  BY <1>8, <2>1, <3>1 DEF c
  <2> QED  BY <1>1, <1>7, <2>1, <2>2 DEF HeldOrder, Earlier, Before, p
<1>13. CASE j > a + b
  <2>1. /\ p[j] = inputs[i][j - (a + b)] /\ p[k] = inputs[i][k - (a + b)]
        /\ k - (a + b) \in 1 .. Len(inputs[i])
        /\ j - (a + b) \in 1 .. (k - (a + b)) - 1
    <3>1. /\ j \in a + b + 1 .. a + b + c /\ k \in a + b + 1 .. a + b + c
          /\ k - (a + b) \in 1 .. c /\ j - (a + b) \in 1 .. (k - (a + b)) - 1
      BY <1>6, <1>8, <1>13
    <3> QED  BY <1>8, <3>1 DEF c
  <2> QED  BY <1>1, <1>7, <2>1 DEF InputOrder, Before, p
<1> QED  BY <1>6, <1>8, <1>9, <1>10, <1>11, <1>12, <1>13

(* and what the whole holds of a link is what is on its way. *)
LEMMA ContentsOfTheWhole ==
    ASSUME TypeOK, NEW i \in Senders, NEW o \in Outputs
    PROVE  {Pending(i, o)[k] : k \in DOMAIN Pending(i, o)}
               = Contents(outputs[o]) \cup Held \cup Contents(inputs[i])
<1> DEFINE held == IF pc = "write" THEN <<message>> ELSE <<>>
           early == outputs[o] \o held
<1>1. /\ outputs[o] \in Seq(Message) /\ inputs[i] \in Seq(Message)
      /\ held \in Seq(Message)
  BY DEF TypeOK
<1>2. Contents(held) = Held
  <2>1. CASE pc = "write"
    <3>1. Len(held) = 1 /\ held[1] = message /\ 1 .. 1 = {1}
      BY <2>1
    <3> QED  BY <2>1, <3>1 DEF Contents, Held
  <2>2. CASE pc # "write"
    <3>1. Len(held) = 0 /\ 1 .. 0 = {}
      BY <2>2
    <3> QED  BY <2>2, <3>1 DEF Contents, Held
  <2> QED  BY <2>1, <2>2
<1>3. Pending(i, o) = early \o inputs[i]
  BY DEF Pending
<1> HIDE DEF held
<1>4. early \in Seq(Message) /\ Contents(early) = Contents(outputs[o]) \cup Contents(held)
  BY <1>1, Concatenation, ContentsOfConcatenation
<1> HIDE DEF early
<1>5. /\ DOMAIN Pending(i, o) = 1 .. Len(Pending(i, o))
      /\ Contents(Pending(i, o)) = Contents(early) \cup Contents(inputs[i])
  BY <1>1, <1>3, <1>4, Concatenation, ContentsOfConcatenation
<1> QED  BY <1>2, <1>4, <1>5 DEF Contents

LEMMA LinksOfTheWhole == TypeOK /\ OrderInv /\ AccountInv => LinksAreReliable
<1> SUFFICES ASSUME TypeOK, OrderInv, AccountInv, NEW i \in Senders, NEW o \in Outputs
             PROVE  LET pending == Pending(i, o)
                        mine == {k \in DOMAIN pending :
                                     pending[k].sender = i /\ pending[k].out = o}
                    IN  /\ {pending[k].seq : k \in mine}
                               = delivered[i][o] + 1 .. arrived[i][o]
                        /\ \A j, k \in mine : j < k => pending[j].seq < pending[k].seq
  BY DEF LinksAreReliable
<1> DEFINE pending == Pending(i, o)
           mine == {k \in DOMAIN pending : pending[k].sender = i /\ pending[k].out = o}
<1>1. \A j, k \in mine : j < k => pending[j].seq < pending[k].seq
  BY OrderOfTheWhole
<1>2. {pending[k] : k \in mine} = OnWay(i, o)
  <2>1. {pending[k] : k \in DOMAIN pending}
            = Contents(outputs[o]) \cup Held \cup Contents(inputs[i])
    BY ContentsOfTheWhole
  <2> HIDE DEF pending
  <2> QED  BY <2>1 DEF OnWay
<1>3. {m.seq : m \in OnWay(i, o)} = delivered[i][o] + 1 .. arrived[i][o]
  BY DEF AccountInv
<1> HIDE DEF pending, mine
<1>4. {pending[k].seq : k \in mine} = {m.seq : m \in {pending[k] : k \in mine}}
  OBVIOUS
<1>5. {pending[k].seq : k \in mine} = delivered[i][o] + 1 .. arrived[i][o]
  BY <1>2, <1>3, <1>4
<1> QED  BY <1>1, <1>5 DEF pending, mine

-----------------------------------------------------------------------------
(* The type invariant holds, also of a limit the counter cannot hold. *)
THEOREM TypeCorrect == Spec => []TypeOK
<1>1. Init => TypeOK
  <2> SUFFICES ASSUME Init PROVE TypeOK
    OBVIOUS
  <2>1. 0 \in Senders /\ 0 \in -CHAR_MAX - 1 .. CHAR_MAX
    BY Numbers DEF Senders
  <2>2. message \in Message
    BY <2>1 DEF Init, Message
  <2> QED  BY <2>1, <2>2 DEF Init, TypeOK
<1> QED  BY <1>1, TypeInvariance, PTL DEF Spec

(* The kernel's reads stay within the limit, and no input starves: whatever  *)
(* the traffic, a message that has reached its kernel is read after at most   *)
(* (NumSender - 1) * READS_LIMIT others.                                      *)
THEOREM NoInputStarves ==
    ASSUME READS_LIMIT <= CHAR_MAX
    PROVE  Spec => [](ReadsWithinLimit /\ BoundedBypass)
<1>1. Init => BypassInv
  <2> SUFFICES ASSUME Init PROVE BypassInv
    OBVIOUS
  <2>1. /\ contiguous_reads = 0 /\ sender_id = 0
        /\ \A i \in Senders : bypassed[i] = 0 /\ i \in 0 .. NumSender - 1
    BY DEF Init, Senders
  <2>2. ASSUME NEW i \in Senders PROVE WaitInv(i)
    <3>1. (NumSender - 1) * READS_LIMIT \in Nat
      BY Numbers, QuotaGrows
    <3>2. i # 0 => Turns(i) \in Nat
      BY <2>1, Numbers DEF Turns
    <3>3. i # 0 => Turns(i) * READS_LIMIT \in Nat
      BY <3>2, QuotaGrows
    <3> QED  BY <2>1, <3>1, <3>3 DEF WaitInv
  <2> QED  BY <2>1, <2>2, Numbers DEF BypassInv, CountInv
<1>2. TypeOK /\ BypassInv /\ [Next]_vars => BypassInv'
  BY BypassInvariance
<1>3. TypeOK /\ BypassInv => ReadsWithinLimit /\ BoundedBypass
  <2> SUFFICES ASSUME TypeOK, BypassInv, NEW i \in Senders
               PROVE  /\ contiguous_reads \in 0 .. READS_LIMIT
                      /\ bypassed[i] <= (NumSender - 1) * READS_LIMIT
    BY DEF ReadsWithinLimit, BoundedBypass, BypassInv, CountInv
  <2>1. /\ contiguous_reads \in 0 .. READS_LIMIT /\ WaitInv(i)
        /\ bypassed[i] \in Nat /\ sender_id \in Senders
    BY DEF BypassInv, CountInv, TypeOK
  <2>2. CASE sender_id = i
    BY <2>1, <2>2 DEF WaitInv
  <2>3. CASE sender_id # i
    <3>1. Turns(i) \in 0 .. NumSender - 2
      BY <2>1, <2>3, Numbers DEF Turns, Senders
    <3>2. bypassed[i] <= (Turns(i) + 1) * READS_LIMIT
      BY <2>1, <2>3, <3>1, QuotaGrows, Numbers DEF WaitInv
    <3>3. (Turns(i) + 1) * READS_LIMIT <= (NumSender - 1) * READS_LIMIT
      <4> DEFINE d == Turns(i) + 1
                 e == NumSender - 1 - d
      <4>1. d \in Nat /\ e \in Nat /\ NumSender - 1 = d + e
        BY <3>1, Numbers
      <4>2. (d + e) * READS_LIMIT = d * READS_LIMIT + e * READS_LIMIT
        BY <4>1, Numbers
      <4>3. e * READS_LIMIT \in Nat /\ d * READS_LIMIT \in Nat
        BY <4>1, QuotaGrows
      <4> QED  BY <4>1, <4>2, <4>3
    <3> QED  BY <2>1, <3>1, <3>2, <3>3, QuotaGrows, Numbers
  <2> QED  BY <2>2, <2>3
<1> QED  BY <1>1, <1>2, <1>3, TypeCorrect, PTL DEF Spec

(* From every input to every output nothing is lost, repeated or reordered,  *)
(* through polling, holding and writes that a full output blocks.             *)
THEOREM EveryLinkIsReliable == Spec => []LinksAreReliable
<1>1. Init => OrderInv
  BY DEF Init, OrderInv, InputOrder, OutputOrder, HeldOrder
<1>2. Init => AccountInv
  <2> SUFFICES ASSUME Init, NEW i \in Senders, NEW o \in Outputs
               PROVE  /\ delivered[i][o] <= arrived[i][o]
                      /\ {m.seq : m \in OnWay(i, o)}
                             = delivered[i][o] + 1 .. arrived[i][o]
    BY DEF AccountInv
  <2>1. delivered[i][o] = 0 /\ arrived[i][o] = 0 /\ 0 + 1 .. 0 = {}
    BY DEF Init
  <2>2. /\ outputs[o] = <<>> /\ inputs[i] = <<>> /\ pc = "poll"
        /\ Len(<<>>) = 0 /\ 1 .. 0 = {}
    BY DEF Init
  <2>3. OnWay(i, o) = {}
    BY <2>2 DEF OnWay, Held, Contents
  <2> QED  BY <2>1, <2>3
<1>3. TypeOK /\ OrderInv /\ [Next]_vars => OrderInv'
  BY OrderInvariance
<1>4. TypeOK /\ OrderInv /\ AccountInv /\ [Next]_vars => AccountInv'
  BY AccountInvariance
<1>5. TypeOK /\ OrderInv /\ AccountInv => LinksAreReliable
  BY LinksOfTheWhole
<1> QED  BY <1>1, <1>2, <1>3, <1>4, <1>5, TypeCorrect, PTL DEF Spec
=============================================================================
