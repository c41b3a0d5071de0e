---------------------------- MODULE BcastProofs ----------------------------
(****************************************************************************)
(* Proofs about the broadcasts of Collectives, for every number of ranks,   *)
(* every program and every depth of the FIFOs, after lemmas on the program  *)
(* and the network that the proofs about the other kinds use as well.       *)
(*                                                                          *)
(* The invariant follows the line of packets of a root: the one its support *)
(* kernel holds, the one in the FIFO to the kernel and the one the program  *)
(* fills.  What a receiver has got from the root, the packets under way     *)
(* included, ends where the line begins.                                    *)
(****************************************************************************)
EXTENDS Collectives, FiniteSetTheorems, SequenceTheorems, WellFoundedInduction, TLAPS

-----------------------------------------------------------------------------
(* The sequence of the collectives of one kind: that it is one must be        *)
(* proved, as it is defined by recursion.                                    *)

LEMMA Numbers ==
    /\ NumRanks \in Nat /\ NumRanks >= 1 /\ WireDepth \in Nat /\ WireDepth >= 1
    /\ ElementsPerPacket \in Nat /\ ElementsPerPacket >= 1
    /\ \A r : r \in Ranks <=> r \in Int /\ 0 <= r /\ r < NumRanks
BY WiresAssumption, ProgramAssumption DEF Ranks

LEMMA Least ==
    ASSUME NEW T \in SUBSET Nat, T # {}
    PROVE  \E x \in T : \A y \in T : x <= y
<1>1. PICK x \in T : \A y \in T : ~ (<<y, x>> \in OpToRel(<, Nat))
  BY NatLessThanWellFounded, WFMin
<1>2. \A y \in T : ~ (y < x)
  BY <1>1 DEF OpToRel
<1> QED  BY <1>2

(* How `Of' goes on from what it has chosen of the first n - 1. *)
Chosen(kind, n, before) ==
    IF Program[n].kind = kind THEN Append(before, Program[n]) ELSE before

Choice(kind, f, m) ==
    f = [n \in 0 .. m |-> IF n = 0 THEN <<>> ELSE Chosen(kind, n, f[n - 1])]

LEMMA ChoiceExists ==
    ASSUME NEW kind, NEW m \in Nat
    PROVE  \E f : Choice(kind, f, m)
<1> DEFINE T == {n \in Nat : ~ \E f : Choice(kind, f, n)}
<1>1. SUFFICES ASSUME T # {} PROVE FALSE
  OBVIOUS
<1>2. PICK n \in T : \A y \in T : n <= y
  BY <1>1, Least
<1>3. CASE n = 0
  <2> DEFINE f == [i \in 0 .. 0 |-> <<>>]
  <2>1. Choice(kind, f, 0)
    BY DEF Choice
  <2> QED  BY <1>2, <1>3, <2>1
<1>4. CASE n # 0
  <2>1. n - 1 \in Nat /\ n - 1 \notin T
    BY <1>2, <1>4
  <2>2. PICK g : Choice(kind, g, n - 1)
    BY <2>1
  <2> DEFINE f == [i \in 0 .. n |-> IF i = n THEN Chosen(kind, n, g[n - 1]) ELSE g[i]]
  <2>3. \A i \in 0 .. n :
           f[i] = IF i = 0 THEN <<>> ELSE Chosen(kind, i, f[i - 1])
    <3> SUFFICES ASSUME NEW i \in 0 .. n
                 PROVE  f[i] = IF i = 0 THEN <<>> ELSE Chosen(kind, i, f[i - 1])
      OBVIOUS
    <3>1. CASE i = n
      BY <3>1, <1>4, <2>1
    <3>2. CASE i # n
      <4>1. i \in 0 .. n - 1 /\ (i # 0 => i - 1 \in 0 .. n - 1 /\ i - 1 # n)
        BY <3>2, <2>1
      <4>2. g[i] = IF i = 0 THEN <<>> ELSE Chosen(kind, i, g[i - 1])
        BY <4>1, <2>2 DEF Choice
      <4> QED  BY <4>1, <4>2, <3>2
    <3> QED  BY <3>1, <3>2
  <2>4. Choice(kind, f, n)
    BY <2>3 DEF Choice
  <2> QED  BY <2>4, <1>2
<1> QED  BY <1>3, <1>4

LEMMA OfType ==
    ASSUME NEW kind, NEW V, Program \in Seq(V)
    PROVE  Of(kind) \in Seq(V)
<1> DEFINE m == Len(Program)
           f == CHOOSE g : Choice(kind, g, m)
           T == {n \in Nat : n <= m /\ f[n] \notin Seq(V)}
<1>1. m \in Nat
  OBVIOUS
<1>2. Choice(kind, f, m)
  BY <1>1, ChoiceExists
<1>3. Of(kind) = f[m]
  BY DEF Of, Choice, Chosen
<1> HIDE DEF f
<1>4. \A n \in 0 .. m : f[n] = IF n = 0 THEN <<>> ELSE Chosen(kind, n, f[n - 1])
  BY <1>2 DEF Choice
<1>5. SUFFICES ASSUME T # {} PROVE FALSE
  BY <1>1, <1>3
<1>6. PICK n \in T : \A y \in T : n <= y
  BY <1>5, Least
<1>7. n \in 0 .. m /\ f[n] \notin Seq(V)
  BY <1>1, <1>6
<1>8. n # 0
  <2>1. f[0] = <<>>
    BY <1>1, <1>4
  <2> QED  BY <1>7, <2>1, EmptySeq
<1>9. n - 1 \in 0 .. m /\ n - 1 \notin T
  BY <1>1, <1>6, <1>7, <1>8
<1>10. f[n - 1] \in Seq(V) /\ Program[n] \in V
  BY <1>1, <1>7, <1>8, <1>9, ElementOfSeq
<1>11. f[n] = f[n - 1] \/ f[n] = Append(f[n - 1], Program[n])
  BY <1>4, <1>7, <1>8 DEF Chosen
<1>12. Append(f[n - 1], Program[n]) \in Seq(V)
  BY <1>10, AppendProperties
<1> QED  BY <1>7, <1>10, <1>11, <1>12

LEMMA RootsAndCounts ==
    ASSUME NEW kind
    PROVE  /\ Len(RootsOf(Of(kind))) \in Nat
           /\ RootsOf(Of(kind)) \in [1 .. Len(RootsOf(Of(kind))) -> Ranks]
           /\ CountsOf(Of(kind)) \in [1 .. Len(RootsOf(Of(kind))) -> Nat \ {0}]
<1> DEFINE V == [kind : Kinds, root : Ranks, count : Nat \ {0}]
           seq == Of(kind)
           n == Len(seq)
<1>0. Program \in Seq(V)
  BY ProgramAssumption
<1> HIDE DEF V
<1>1. seq \in Seq(V)
  BY <1>0, OfType
<1> HIDE DEF seq
<1>2. n \in Nat /\ \A k \in 1 .. n : seq[k] \in V
  BY <1>1, ElementOfSeq
<1> USE DEF V
<1>3. RootsOf(seq) \in [1 .. n -> Ranks] /\ CountsOf(seq) \in [1 .. n -> Nat \ {0}]
  BY <1>2 DEF RootsOf, CountsOf
<1>4. Len(RootsOf(seq)) = n
  <2>1. \A i \in 1 .. n : seq[i].root \in Ranks
    BY <1>2
  <2>2. RootsOf(seq) \in Seq(Ranks)
    BY <1>2, <2>1, IsASeq DEF RootsOf
  <2>3. DOMAIN RootsOf(seq) = 1 .. Len(RootsOf(seq)) /\ Len(RootsOf(seq)) \in Nat
    BY <2>2, LenProperties
  <2>4. DOMAIN RootsOf(seq) = 1 .. n
    BY DEF RootsOf
  <2> DEFINE m == Len(RootsOf(seq))
  <2>5. m \in Nat /\ n \in Nat /\ 1 .. m = 1 .. n
    BY <1>2, <2>3, <2>4
  <2> HIDE DEF m, n
  <2>6. \A i \in Int : 1 <= i /\ i <= m <=> 1 <= i /\ i <= n
    BY <2>5
  <2>7. m = n
    BY <2>5, <2>6
  <2> QED  BY <2>7 DEF m
<1> QED  BY <1>2, <1>3, <1>4 DEF seq

-----------------------------------------------------------------------------
(* The network *)

Net(T) == [Ranks -> [Ranks -> Seq(T)]]

LEMMA PutAt ==
    ASSUME NEW T, NEW net \in Net(T), NEW p \in T, NEW s \in Ranks, NEW d \in Ranks
    PROVE  /\ Put(net, s, d, p) \in Net(T)
           /\ Put(net, s, d, p)[s][d] = Append(net[s][d], p)
           /\ \A a, b \in Ranks : a # s \/ b # d => Put(net, s, d, p)[a][b] = net[a][b]
<1>1. net[s] \in [Ranks -> Seq(T)] /\ net[s][d] \in Seq(T)
  BY DEF Net
<1>2. Append(net[s][d], p) \in Seq(T)
  BY <1>1, AppendProperties
<1> QED  BY <1>1, <1>2 DEF Put, Net

LEMMA TakeAt ==
    ASSUME NEW T, NEW net \in Net(T), NEW d \in Ranks, NEW s \in Waiting(net, d)
    PROVE  /\ s \in Ranks /\ net[s][d] \in Seq(T) /\ net[s][d] # <<>>
           /\ Head(net[s][d]) \in T /\ Head(net[s][d]) = net[s][d][1]
           /\ Take(net, s, d) \in Net(T)
           /\ Take(net, s, d)[s][d] = Tail(net[s][d])
           /\ \A a, b \in Ranks : a # s \/ b # d => Take(net, s, d)[a][b] = net[a][b]
<1>1. s \in Ranks /\ net[s] \in [Ranks -> Seq(T)] /\ net[s][d] \in Seq(T)
      /\ net[s][d] # <<>>
  BY DEF Waiting, Net
<1>2. Tail(net[s][d]) \in Seq(T) /\ Head(net[s][d]) \in T
      /\ Head(net[s][d]) = net[s][d][1]
  BY <1>1, HeadTailProperties
<1> QED  BY <1>1, <1>2 DEF Take, Net

LEMMA QuietIsEmpty ==
    /\ \A T : Quiet \in Net(T)
    /\ \A a, b \in Ranks : Quiet[a][b] = <<>>
BY EmptySeq DEF Quiet, Net

(* The wires of every collective are those of the program. *)
LEMMA BWires ==
    /\ B!Ranks = Ranks /\ B!Quiet = Quiet
    /\ \A n, s, d : B!HasRoom(n, s, d) = HasRoom(n, s, d)
    /\ \A n, d : B!Waiting(n, d) = Waiting(n, d) /\ B!UnderWay(n, d) = UnderWay(n, d)
    /\ \A n, s, d : B!Take(n, s, d) = Take(n, s, d)
    /\ \A n, s, d, p : B!Put(n, s, d, p) = Put(n, s, d, p)
BY DEF B!Ranks, Ranks, B!Quiet, Quiet, B!HasRoom, HasRoom, B!Waiting, Waiting,
       B!UnderWay, UnderWay, B!Take, Take, B!Put, Put

-----------------------------------------------------------------------------
(* Broadcast k is one of the program, and b its root.                        *)
BRooted(b, k) == k \in 1 .. B!NumCollectives /\ BcastRoots[k] = b

(* The packet of broadcast k that begins with element i *)
BPacket(net, k, i) ==
    /\ net \in B!Packet
    /\ k \in 1 .. B!NumCollectives /\ i \in 1 .. BcastCounts[k]
    /\ \A s \in B!Slots : i + s <= BcastCounts[k] => net[s] = <<k, i + s>>

(* The first element of the packet that a receiver reads next, and of the    *)
(* one that b sends it next                                                  *)
BReads(c) ==
    IF c.packet_element_id_rcv = 0 THEN c.returned + 1
    ELSE c.returned + 1 + (ElementsPerPacket - c.packet_element_id_rcv)

BExpects(queue, c) ==
    IF queue = <<>> THEN BReads(c) ELSE queue[Len(queue)][0][2] + ElementsPerPacket

(* The program of a rank: how far it is; what the root has packed; what a    *)
(* receiver has read. *)
BCallInv(c) ==
    /\ c.entered \in {c.returned, c.returned + 1}
    /\ c.coll > B!NumCollectives => c.entered = 0
    /\ c.coll <= B!NumCollectives => c.returned < BcastCounts[c.coll]

BSendInv(r, c) ==
    /\ BRooted(r, c.coll) =>
           /\ c.init
           /\ c.packet_element_id <= c.returned
           /\ c.op = "SYNCH" <=> c.packet_element_id = c.returned
           /\ \A s \in 0 .. c.packet_element_id - 1 :
                  c.net[s] = <<c.coll, c.returned - c.packet_element_id + 1 + s>>
    /\ ~ BRooted(r, c.coll) => c.packet_element_id = 0 /\ c.op = "SYNCH"

BReadInv(c) ==
    /\ c.init => c.packet_element_id_rcv = 0
    /\ c.packet_element_id_rcv # 0 =>
           \A s \in c.packet_element_id_rcv .. ElementsPerPacket - 1 :
               LET i == c.returned + 1 + (s - c.packet_element_id_rcv)
               IN  i <= BcastCounts[c.coll] => c.net_2[s] = <<c.coll, i>>

(* Packets on their way to d are of the broadcast it is in, one after the    *)
(* other. *)
BQueueInv(queue, s, d, c) ==
    queue # <<>> =>
        /\ s # d /\ BRooted(s, c.coll)
        /\ queue[1][0][2] = BReads(c)
        /\ \A j \in 1 .. Len(queue) : BPacket(queue[j], c.coll, queue[j][0][2])
        /\ \A j \in 1 .. Len(queue) - 1 :
               queue[j + 1][0][2] = queue[j][0][2] + ElementsPerPacket

(* So are requests, one at most. *)
BRequestInv(requests, d, s, c) ==
    requests # <<>> =>
        s # d /\ BRooted(s, c.coll) /\ ~ c.init /\ requests = <<c.coll>>

(* Before its request is counted d gets nothing, and it is counted by a      *)
(* kernel, s, that holds the first packet. *)
BAskInv(b, d, c, requests, x, s) ==
    (b # d /\ BRooted(b, c.coll)) =>
        IF c.init \/ requests # <<>> THEN x = 1
        ELSE x = 1 => ~ s.external /\ s.mess[0] = <<c.coll, 1>>

(* The place `next' is the one after the packet at place p of b. *)
BFollows(b, p, next) ==
    IF p[2] + ElementsPerPacket <= BcastCounts[p[1]]
    THEN next[1] = p[1] /\ next[2] = p[2] + ElementsPerPacket
    ELSE /\ next[1] > p[1] /\ next[2] = 1
         /\ \A j \in p[1] + 1 .. next[1] - 1 : BcastRoots[j] # b

(* The line of b: the place of the packet its program fills, or would fill   *)
(* if it were the root; of the packet it offers its kernel; of the one that  *)
(* it gives d next.                                                          *)
BFills(b, c) ==
    <<c.coll, IF BRooted(b, c.coll) THEN c.returned - c.packet_element_id + 1 ELSE 1>>

BOffers(b, fifo, c) == IF fifo = <<>> THEN BFills(b, c) ELSE fifo[1].net[0]

BGives(s, d, offers) == IF ~ s.external /\ s.rcv <= d THEN s.mess[0] ELSE offers

BItem(b, net) == BPacket(net, net[0][1], net[0][2]) /\ BcastRoots[net[0][1]] = b

BFifoInv(b, fifo, fills) ==
    fifo # <<>> =>
        LET m == fifo[1]
        IN  /\ fifo = <<m>> /\ m.src = b /\ BItem(b, m.net)
            /\ m.op = "SYNCH" <=> m.net[0][2] = 1
            /\ BFollows(b, m.net[0], fills)

(* Rank d, at channel c, has yet to be counted for broadcast k. *)
BToCount(k, c, requests) ==
    c.coll < k \/ (c.coll = k /\ (c.init \/ requests # <<>>))

BUncounted(b, k) ==
    {d \in Ranks \ {b} : BToCount(k, bchan[d], bcontrol[d][b])}

BKernelInv(b, s, offers, uncounted) ==
    /\ s.external => s.received_request = 0
    /\ ~ s.external =>
           /\ s.root = b /\ BItem(b, s.mess) /\ s.rcv < NumRanks
           /\ BFollows(b, s.mess[0], offers)
           /\ s.received_request = Cardinality(uncounted)
           /\ s.received_request # 0 => s.rcv = 0

(* What a rank of broadcast k, which expects element x, has got from b ends  *)
(* at place p: it is in an earlier broadcast and has all of it; it is in the *)
(* broadcast and expects the packet; it is ahead of b, and waits for its     *)
(* first packet if it waits for b.                                           *)
BAt(b, k, x, p) ==
    \/ /\ k < p[1] /\ p[2] = 1
       /\ BRooted(b, k) => x > BcastCounts[k]
       /\ \A j \in k + 1 .. p[1] - 1 : BcastRoots[j] # b
    \/ /\ k = p[1]
       /\ BRooted(b, k) => x = p[2]
    \/ /\ k > p[1]
       /\ \A j \in p[1] .. k - 1 : BcastRoots[j] # b
       /\ BRooted(b, k) => x = 1

BLine(b)   == BOffers(b, broadcast[b], bchan[b])
BX(b, d)   == BExpects(bdata[b][d], bchan[d])

BRankInv(r) ==
    /\ BCallInv(bchan[r]) /\ BSendInv(r, bchan[r])
    /\ ~ BRooted(r, bchan[r].coll) => BReadInv(bchan[r])
    /\ BFifoInv(r, broadcast[r], BFills(r, bchan[r]))
    /\ BKernelInv(r, bsupport[r], BLine(r), BUncounted(r, bsupport[r].mess[0][1]))

BPairInv(b, d) ==
    /\ BQueueInv(bdata[b][d], b, d, bchan[d])
    /\ BRequestInv(bcontrol[d][b], d, b, bchan[d])
    /\ BAskInv(b, d, bchan[d], bcontrol[d][b], BX(b, d), bsupport[b])
    /\ b # d => BAt(b, bchan[d].coll, BX(b, d), BGives(bsupport[b], d, BLine(b)))

BInv == B!TypeOK /\ (\A r \in Ranks : BRankInv(r)) /\ \A b, d \in Ranks : BPairInv(b, d)

-----------------------------------------------------------------------------
LEMMA BNumbers ==
    /\ B!NumCollectives \in Nat
    /\ BcastRoots \in [1 .. B!NumCollectives -> Ranks]
    /\ BcastCounts \in [1 .. B!NumCollectives -> Nat \ {0}]
    /\ B!Slots = 0 .. ElementsPerPacket - 1 /\ 0 \in B!Slots
    /\ B!num_requests = NumRanks - 1
BY RootsAndCounts, Numbers
   DEF BcastRoots, BcastCounts, B!NumCollectives, B!Slots, B!num_requests

LEMMA BElements ==
    /\ B!NoElement \in B!Elements
    /\ \A k \in 1 .. B!NumCollectives : \A i \in 1 .. BcastCounts[k] :
           <<k, i>> \in B!Elements
    /\ B!Empty \in B!Packet
BY DEF B!Elements, B!Empty, B!Packet, B!NoElement

(* The fields of the state at one rank *)
BChannel ==
    [coll : 1 .. B!NumCollectives + 1, entered : Nat, returned : Nat,
     init : BOOLEAN, op : {"SYNCH", "BROADCAST"}, net : B!Packet,
     packet_element_id : B!Slots, net_2 : B!Packet, packet_element_id_rcv : B!Slots]

BSupport ==
    [external : BOOLEAN, received_request : 0 .. NumRanks - 1,
     rcv : 0 .. NumRanks, root : Ranks, mess : B!Packet]

BRequest == 1 .. B!NumCollectives

BMessage == [op : {"SYNCH", "BROADCAST"}, src : Ranks, net : B!Packet]

LEMMA BTypeOK ==
    B!TypeOK <=> /\ bchan \in [Ranks -> BChannel]
                 /\ bsupport \in [Ranks -> BSupport]
                 /\ broadcast \in [Ranks -> Seq(BMessage)]
                 /\ bdata \in Net(B!Packet)
                 /\ bcontrol \in Net(BRequest)
BY DEF B!TypeOK, B!Ranks, Ranks, B!num_requests, BChannel, BSupport, BMessage, BRequest,
       Net

LEMMA BTypeOKNext ==
    B!TypeOK' <=> /\ bchan' \in [Ranks -> BChannel]
                  /\ bsupport' \in [Ranks -> BSupport]
                  /\ broadcast' \in [Ranks -> Seq(BMessage)]
                  /\ bdata' \in Net(B!Packet)
                  /\ bcontrol' \in Net(BRequest)
BY DEF B!TypeOK, B!Ranks, Ranks, B!num_requests, BChannel, BSupport, BMessage, BRequest,
       Net

(* The fields of the state at one rank *)
LEMMA BTypes ==
    ASSUME B!TypeOK, NEW r \in Ranks
    PROVE  /\ bchan[r] \in BChannel
           /\ bsupport[r] \in BSupport
           /\ broadcast[r] \in Seq(BMessage)
           /\ \A q \in Ranks : /\ bdata[r][q] \in Seq(B!Packet)
                               /\ bcontrol[r][q] \in Seq(BRequest)
BY BTypeOK DEF Net

LEMMA BChannelFields ==
    ASSUME NEW c \in BChannel
    PROVE  /\ c.coll \in Int /\ c.coll >= 1 /\ c.coll <= B!NumCollectives + 1
           /\ c.entered \in Int /\ c.entered >= 0 /\ c.returned \in Int /\ c.returned >= 0
           /\ c.init \in BOOLEAN /\ c.op \in {"SYNCH", "BROADCAST"}
           /\ c.net \in B!Packet /\ c.net_2 \in B!Packet
           /\ c.packet_element_id \in Int /\ c.packet_element_id >= 0
           /\ c.packet_element_id < ElementsPerPacket
           /\ c.packet_element_id_rcv \in Int /\ c.packet_element_id_rcv >= 0
           /\ c.packet_element_id_rcv < ElementsPerPacket
BY BNumbers, Numbers DEF BChannel

LEMMA BInit == B!Init => BInv
<1> SUFFICES ASSUME B!Init PROVE BInv
  OBVIOUS
<1>1. /\ \A r \in Ranks : bchan[r] = B!Opened(1) /\ bsupport[r].external
                          /\ bsupport[r].received_request = 0 /\ broadcast[r] = <<>>
      /\ \A a, b \in Ranks : bdata[a][b] = <<>> /\ bcontrol[a][b] = <<>>
  BY BWires, QuietIsEmpty DEF B!Init
<1>2. B!TypeOK
  <2>1. bchan = [r \in Ranks |-> B!Opened(1)] /\ broadcast = [r \in Ranks |-> <<>>]
        /\ bsupport = [r \in Ranks |-> [external |-> TRUE, received_request |-> 0,
                           rcv |-> 0, root |-> 0, mess |-> B!Empty]]
        /\ bdata = Quiet /\ bcontrol = Quiet
    BY BWires DEF B!Init
  <2>2. B!Opened(1) \in BChannel
    BY BElements, BNumbers DEF B!Opened, BChannel
  <2>3. broadcast \in [Ranks -> Seq(BMessage)]
    BY <2>1, EmptySeq
  <2>4. bsupport \in [Ranks -> BSupport]
    BY <2>1, BElements, Numbers DEF BSupport
  <2> QED  BY <2>1, <2>2, <2>3, <2>4, QuietIsEmpty, BTypeOK
<1>3. ASSUME NEW r \in Ranks PROVE BRankInv(r)
  <2>1. /\ BCallInv(bchan[r]) /\ BSendInv(r, bchan[r]) /\ BReadInv(bchan[r])
        /\ BFifoInv(r, broadcast[r], BFills(r, bchan[r]))
    BY <1>1, BNumbers
       DEF BCallInv, BSendInv, BReadInv, BFifoInv, B!Opened, BRooted
  <2>2. BKernelInv(r, bsupport[r], BLine(r), BUncounted(r, bsupport[r].mess[0][1]))
    BY <1>1 DEF BKernelInv
  <2> QED  BY <2>1, <2>2 DEF BRankInv
<1>4. ASSUME NEW b \in Ranks, NEW d \in Ranks PROVE BPairInv(b, d)
  <2>1. bchan[d].coll = 1 /\ bchan[d].init /\ BX(b, d) = 1
    BY <1>1 DEF BX, BExpects, BReads, B!Opened
  <2>2. BGives(bsupport[b], d, BLine(b)) = <<1, 1>>
    BY <1>1 DEF BGives, BLine, BOffers, BFills, B!Opened
  <2> QED  BY <1>1, <2>1, <2>2 DEF BPairInv, BQueueInv, BRequestInv, BAskInv, BAt
<1> QED  BY <1>2, <1>3, <1>4 DEF BInv

-----------------------------------------------------------------------------
(* What the steps leave as it is *)

(* That a call is entered only BCallInv takes notice of. *)
LEMMA BSameFields ==
    ASSUME NEW c, NEW c2,
           c2.coll = c.coll, c2.returned = c.returned, c2.init = c.init, c2.op = c.op,
           c2.net = c.net, c2.packet_element_id = c.packet_element_id,
           c2.net_2 = c.net_2, c2.packet_element_id_rcv = c.packet_element_id_rcv
    PROVE  /\ \A r : BSendInv(r, c) => BSendInv(r, c2)
           /\ BReadInv(c) => BReadInv(c2)
           /\ \A q : BExpects(q, c2) = BExpects(q, c)
           /\ \A q, b, d : BQueueInv(q, b, d, c) => BQueueInv(q, b, d, c2)
           /\ \A q, b, d : BRequestInv(q, d, b, c) => BRequestInv(q, d, b, c2)
           /\ \A b, d, q, x, s : BAskInv(b, d, c, q, x, s) => BAskInv(b, d, c2, q, x, s)
           /\ \A b : BFills(b, c2) = BFills(b, c)
           /\ \A k, q : BToCount(k, c2, q) = BToCount(k, c, q)
<1>1. BReads(c2) = BReads(c)
  BY DEF BReads
<1> QED  BY <1>1 DEF BSendInv, BReadInv, BExpects, BQueueInv, BRequestInv, BAskInv,
                     BFills, BToCount

LEMMA BLineStays ==
    ASSUME NEW b \in Ranks, BRankInv(b),
           bsupport'[b] = bsupport[b], broadcast'[b] = broadcast[b],
           BFills(b, bchan'[b]) = BFills(b, bchan[b]),
           \A d \in Ranks \ {b} :
               ~ bsupport[b].external =>
                   LET k == bsupport[b].mess[0][1]
                   IN  BToCount(k, bchan'[d], bcontrol'[d][b])
                           <=> BToCount(k, bchan[d], bcontrol[d][b])
    PROVE  /\ BLine(b)' = BLine(b)
           /\ BFifoInv(b, broadcast'[b], BFills(b, bchan'[b]))
           /\ BKernelInv(b, bsupport'[b], BLine(b)',
                         BUncounted(b, bsupport[b].mess[0][1])')
<1>1. BLine(b)' = BLine(b)
  BY DEF BLine, BOffers
<1>2. BFifoInv(b, broadcast'[b], BFills(b, bchan'[b]))
  BY DEF BRankInv
<1>3. ~ bsupport[b].external =>
          BUncounted(b, bsupport[b].mess[0][1])' = BUncounted(b, bsupport[b].mess[0][1])
  BY DEF BUncounted
<1>4. BKernelInv(b, bsupport[b], BLine(b), BUncounted(b, bsupport[b].mess[0][1]))
  BY DEF BRankInv
<1> QED  BY <1>1, <1>2, <1>3, <1>4 DEF BKernelInv

LEMMA BPairStays ==
    ASSUME NEW b \in Ranks, NEW d \in Ranks, BPairInv(b, d),
           bdata'[b][d] = bdata[b][d], bcontrol'[d][b] = bcontrol[d][b],
           bchan'[d] = bchan[d], bsupport'[b] = bsupport[b], BLine(b)' = BLine(b)
    PROVE  BPairInv(b, d)'
<1>1. BX(b, d)' = BX(b, d)
  BY DEF BX
<1> QED  BY <1>1 DEF BPairInv

(* The places of a line *)
LEMMA BGivesPlace ==
    ASSUME BInv, NEW b \in Ranks, NEW d
    PROVE  LET p == BGives(bsupport[b], d, BLine(b))
           IN  /\ p[1] \in Int /\ p[1] >= 1 /\ p[1] <= B!NumCollectives + 1
               /\ p[2] \in Int /\ p[2] >= 1
               /\ p[1] <= B!NumCollectives => p[2] <= BcastCounts[p[1]]
               /\ BLine(b)[1] \in Int
<1> DEFINE c == bchan[b]
           Good(p) == /\ p[1] \in Int /\ p[1] >= 1 /\ p[1] <= B!NumCollectives + 1
                      /\ p[2] \in Int /\ p[2] >= 1
                      /\ p[1] <= B!NumCollectives => p[2] <= BcastCounts[p[1]]
<1>1. B!TypeOK /\ BRankInv(b)
  BY DEF BInv
<1>2. c \in BChannel
  BY <1>1, BTypes
<1>3. ASSUME NEW net, BItem(b, net) PROVE Good(net[0])
  BY <1>3, BNumbers DEF BItem, BPacket
<1>4. Good(BFills(b, c))
  <2>1. BCallInv(c) /\ BSendInv(b, c)
    BY <1>1 DEF BRankInv
  <2>2. c.coll <= B!NumCollectives => BcastCounts[c.coll] \in Int /\ BcastCounts[c.coll] >= 1
    BY <1>2, BChannelFields, BNumbers
  <2>3. CASE BRooted(b, c.coll)
    <3>1. BFills(b, c)[1] = c.coll
          /\ BFills(b, c)[2] = c.returned - c.packet_element_id + 1
      BY <2>3 DEF BFills
    <3> QED  BY <1>2, <2>1, <2>2, <2>3, <3>1, BChannelFields DEF BCallInv, BSendInv
  <2>4. CASE ~ BRooted(b, c.coll)
    <3>1. BFills(b, c)[1] = c.coll /\ BFills(b, c)[2] = 1
      BY <2>4 DEF BFills
    <3> QED  BY <1>2, <2>2, <3>1, BChannelFields
  <2> QED  BY <2>3, <2>4
<1>5. Good(BLine(b))
  BY <1>1, <1>3, <1>4 DEF BLine, BOffers, BRankInv, BFifoInv
<1>6. Good(BGives(bsupport[b], d, BLine(b)))
  BY <1>1, <1>3, <1>5 DEF BGives, BRankInv, BKernelInv
<1> QED  BY <1>5, <1>6

(* Who has read the whole of broadcast k, the last of b he was to read, is   *)
(* where he should be at the beginning of the next.                          *)
LEMMA BNextPlace ==
    ASSUME NEW b \in Ranks, NEW k \in 1 .. B!NumCollectives, NEW x, NEW p,
           p[1] \in Int, p[2] \in Int,
           p[1] <= B!NumCollectives => p[2] <= BcastCounts[p[1]],
           BAt(b, k, x, p), BRooted(b, k) => x > BcastCounts[k]
    PROVE  BAt(b, k + 1, 1, p)
<1>0. k \in Int /\ k >= 1 /\ k <= B!NumCollectives /\ B!NumCollectives \in Int
      /\ BcastCounts[k] \in Int /\ BcastCounts[k] >= 1
  BY BNumbers
<1>1. CASE k < p[1] /\ p[2] = 1 /\ \A j \in k + 1 .. p[1] - 1 : BcastRoots[j] # b
  <2>1. CASE k + 1 = p[1]
    BY <1>1, <2>1 DEF BAt
  <2>2. CASE k + 1 < p[1]
    <3>1. ~ BRooted(b, k + 1)
      BY <1>0, <1>1, <2>2 DEF BRooted
    <3> QED  BY <1>0, <1>1, <2>2, <3>1 DEF BAt
  <2> QED  BY <1>0, <1>1, <2>1, <2>2
<1>2. CASE k = p[1] /\ (BRooted(b, k) => x = p[2])
  <2>1. ~ BRooted(b, k)
    BY <1>0, <1>2
  <2>2. \A j \in p[1] .. k : BcastRoots[j] # b
    BY <1>0, <1>2, <2>1 DEF BRooted
  <2> QED  BY <1>0, <1>2, <2>2 DEF BAt
<1>3. CASE k > p[1] /\ (\A j \in p[1] .. k - 1 : BcastRoots[j] # b)
           /\ (BRooted(b, k) => x = 1)
  <2>1. ~ BRooted(b, k)
    BY <1>0, <1>3
  <2>2. \A j \in p[1] .. k : BcastRoots[j] # b
    BY <1>0, <1>3, <2>1 DEF BRooted
  <2> QED  BY <1>0, <1>3, <2>2 DEF BAt
<1> QED  BY <1>1, <1>2, <1>3 DEF BAt

(* The line of b passes a broadcast of another root. *)
LEMMA BLinePasses ==
    ASSUME NEW b \in Ranks, NEW k \in 1 .. B!NumCollectives, ~ BRooted(b, k)
    PROVE  /\ \A j \in Int : \A x : BAt(b, j, x, <<k, 1>>) => BAt(b, j, x, <<k + 1, 1>>)
           /\ \A net : BItem(b, net) /\ BFollows(b, net[0], <<k, 1>>)
                           => BFollows(b, net[0], <<k + 1, 1>>)
<1>0. k \in Int /\ k >= 1 /\ k <= B!NumCollectives /\ B!NumCollectives \in Int
      /\ BcastRoots[k] # b
  BY BNumbers DEF BRooted
<1>1. ASSUME NEW j \in Int, NEW x, BAt(b, j, x, <<k, 1>>)
      PROVE  BAt(b, j, x, <<k + 1, 1>>)
  <2>1. CASE j < k /\ (BRooted(b, j) => x > BcastCounts[j])
             /\ \A i \in j + 1 .. k - 1 : BcastRoots[i] # b
    <3>1. \A i \in j + 1 .. k : BcastRoots[i] # b
      BY <1>0, <2>1
    <3> QED  BY <1>0, <2>1, <3>1 DEF BAt
  <2>2. CASE j = k
    BY <1>0, <2>2 DEF BAt, BRooted
  <2>3. CASE j > k /\ (\A i \in k .. j - 1 : BcastRoots[i] # b) /\ (BRooted(b, j) => x = 1)
    BY <1>0, <2>3 DEF BAt
  <2> QED  BY <1>1, <2>1, <2>2, <2>3 DEF BAt
<1>2. ASSUME NEW net, BItem(b, net), BFollows(b, net[0], <<k, 1>>)
      PROVE  BFollows(b, net[0], <<k + 1, 1>>)
  <2>1. net[0][1] \in 1 .. B!NumCollectives /\ BcastRoots[net[0][1]] = b
    BY <1>2 DEF BItem, BPacket
  <2>2. /\ ~ net[0][2] + ElementsPerPacket <= BcastCounts[net[0][1]]
        /\ k > net[0][1] /\ \A j \in net[0][1] + 1 .. k - 1 : BcastRoots[j] # b
    BY <1>0, <1>2, <2>1 DEF BFollows
  <2>3. \A j \in net[0][1] + 1 .. k : BcastRoots[j] # b
    BY <1>0, <2>1, <2>2
  <2> QED  BY <1>0, <2>1, <2>2, <2>3 DEF BFollows
<1> QED  BY <1>1, <1>2

(* Rank r opens the channel of the next broadcast. *)
LEMMA BOpenedFields ==
    ASSUME NEW k
    PROVE  LET c == B!Opened(k)
           IN  /\ c.coll = k /\ c.entered = 0 /\ c.returned = 0 /\ c.init = TRUE
               /\ c.op = "SYNCH" /\ c.packet_element_id = 0
               /\ c.packet_element_id_rcv = 0
               /\ BReads(c) = 1 /\ BExpects(<<>>, c) = 1
               /\ \A b : BFills(b, c) = <<k, 1>>
               /\ k \in 1 .. B!NumCollectives + 1 => c \in BChannel
               /\ k \in 1 .. B!NumCollectives + 1 =>
                      \A b : BCallInv(c) /\ BSendInv(b, c) /\ BReadInv(c)
BY BNumbers, BElements DEF B!Opened, BReads, BExpects, BFills, BChannel, BCallInv, BSendInv,
   BReadInv, BRooted

LEMMA BMovesOn ==
    ASSUME BInv, NEW r \in Ranks, NEW k \in 1 .. B!NumCollectives, bchan[r].coll = k,
           bchan'[r] = B!Opened(k + 1), bsupport' = bsupport, bcontrol' = bcontrol,
           \A b \in Ranks : bdata'[b][r] = <<>> /\ bcontrol[r][b] = <<>>,
           \A b \in Ranks \ {r} :
               BRooted(b, k) => ~ bchan[r].init /\ BX(b, r) > BcastCounts[k],
           \A b \in Ranks \ {r} : BLine(b)' = BLine(b)
    PROVE  /\ \A b \in Ranks : BPairInv(b, r)'
           /\ \A b \in Ranks \ {r} : \A j : BcastRoots[j] = b /\ j \in 1 .. B!NumCollectives =>
                  (BToCount(j, bchan'[r], bcontrol'[r][b]) <=>
                   BToCount(j, bchan[r], bcontrol[r][b]))
<1>1. k \in Int /\ k + 1 # k /\ BcastRoots[k] \in Ranks
  BY BNumbers
<1>2. /\ bchan'[r].coll = k + 1 /\ bchan'[r].init = TRUE
      /\ \A b \in Ranks : BX(b, r)' = 1
  BY BOpenedFields DEF BX
<1>3. ASSUME NEW b \in Ranks PROVE BPairInv(b, r)'
  <2>1. /\ BQueueInv(bdata'[b][r], b, r, bchan'[r])
        /\ BRequestInv(bcontrol'[r][b], r, b, bchan'[r])
    BY DEF BQueueInv, BRequestInv
  <2>2. BAskInv(b, r, bchan'[r], bcontrol'[r][b], BX(b, r)', bsupport'[b])
    BY <1>2 DEF BAskInv
  <2>3. CASE b = r
    BY <2>1, <2>2, <2>3 DEF BPairInv
  <2>4. CASE b # r
    <3> DEFINE g == BGives(bsupport[b], r, BLine(b))
    <3>1. BAt(b, k, BX(b, r), g)
      BY <2>4 DEF BInv, BPairInv
    <3>2. /\ g[1] \in Int /\ g[2] \in Int
          /\ g[1] <= B!NumCollectives => g[2] <= BcastCounts[g[1]]
      BY BGivesPlace
    <3>3. BRooted(b, k) => BX(b, r) > BcastCounts[k]
      BY <2>4
    <3> HIDE DEF g
    <3>4. BAt(b, k + 1, 1, g)
      BY <3>1, <3>2, <3>3, BNextPlace
    <3>5. BAt(b, bchan'[r].coll, BX(b, r)', BGives(bsupport'[b], r, BLine(b)'))
      BY <1>2, <2>4, <3>4 DEF g
    <3> QED  BY <2>1, <2>2, <3>5 DEF BPairInv
  <2> QED  BY <2>3, <2>4
<1>4. ASSUME NEW b \in Ranks \ {r}, NEW j \in 1 .. B!NumCollectives, BcastRoots[j] = b
      PROVE  BToCount(j, bchan'[r], bcontrol'[r][b]) <=>
             BToCount(j, bchan[r], bcontrol[r][b])
  <2>1. j \in Int /\ bcontrol[r][b] = <<>> /\ bcontrol'[r][b] = <<>>
    OBVIOUS
  <2>2. j = k => ~ bchan[r].init
    BY <1>4 DEF BRooted
  <2> QED  BY <1>1, <1>2, <2>1, <2>2 DEF BToCount
<1> QED  BY <1>3, <1>4

(* The line of r, which did not give anything in the broadcast it leaves     *)
LEMMA BPasses ==
    ASSUME BInv, NEW r \in Ranks, NEW k \in 1 .. B!NumCollectives, bchan[r].coll = k,
           ~ BRooted(r, k), bchan'[r] = B!Opened(k + 1),
           \A q \in Ranks \ {r} : bchan'[q] = bchan[q],
           bsupport' = bsupport, broadcast' = broadcast, bcontrol' = bcontrol,
           \A d \in Ranks \ {r} : bdata'[r][d] = bdata[r][d]
    PROVE  BRankInv(r)' /\ \A d \in Ranks \ {r} : BPairInv(r, d)'
<1> DEFINE s == bsupport[r]
           f == broadcast[r]
<1>1. BRankInv(r) /\ \A d \in Ranks \ {r} : BPairInv(r, d)
  BY DEF BInv
<1>2. /\ \A j \in Int : \A x : BAt(r, j, x, <<k, 1>>) => BAt(r, j, x, <<k + 1, 1>>)
      /\ \A net : BItem(r, net) /\ BFollows(r, net[0], <<k, 1>>)
                      => BFollows(r, net[0], <<k + 1, 1>>)
  BY BLinePasses
<1>3. BFills(r, bchan[r]) = <<k, 1>> /\ BFills(r, bchan'[r]) = <<k + 1, 1>>
  <2>1. BFills(r, bchan[r]) = <<k, 1>>
    BY DEF BFills
  <2>2. BFills(r, B!Opened(k + 1)) = <<k + 1, 1>>
    BY BOpenedFields
  <2> QED  BY <2>1, <2>2
<1>4. /\ f = <<>> => BLine(r) = <<k, 1>> /\ BLine(r)' = <<k + 1, 1>>
      /\ f # <<>> => BLine(r)' = BLine(r)
  BY <1>3 DEF BLine, BOffers
<1>5. BFifoInv(r, broadcast'[r], BFills(r, bchan'[r]))
  BY <1>1, <1>2, <1>3 DEF BRankInv, BFifoInv
<1>6. BKernelInv(r, bsupport'[r], BLine(r)', BUncounted(r, bsupport[r].mess[0][1])')
  <2>1. BUncounted(r, s.mess[0][1])' = BUncounted(r, s.mess[0][1])
    BY DEF BUncounted
  <2>2. BKernelInv(r, s, BLine(r), BUncounted(r, s.mess[0][1]))
    BY <1>1 DEF BRankInv
  <2>3. ~ s.external => BFollows(r, s.mess[0], BLine(r)')
    BY <1>2, <1>4, <2>2 DEF BKernelInv
  <2> QED  BY <2>1, <2>2, <2>3 DEF BKernelInv
<1>7. BRankInv(r)'
  <2>1. k + 1 \in 1 .. B!NumCollectives + 1
    BY BNumbers
  <2>2. BCallInv(bchan'[r]) /\ BSendInv(r, bchan'[r]) /\ BReadInv(bchan'[r])
    BY <2>1, BOpenedFields
  <2> QED  BY <1>5, <1>6, <2>2 DEF BRankInv
<1>8. ASSUME NEW d \in Ranks \ {r} PROVE BPairInv(r, d)'
  <2>1. BPairInv(r, d) /\ bchan'[d] = bchan[d] /\ BX(r, d)' = BX(r, d)
    BY <1>1 DEF BX
  <2>2. bchan[d].coll \in Int
    BY BTypes, BChannelFields DEF BInv
  <2>3. BAt(r, bchan[d].coll, BX(r, d), BGives(s, d, BLine(r)'))
    BY <1>2, <1>4, <2>1, <2>2 DEF BPairInv, BGives
  <2> QED  BY <2>1, <2>3 DEF BPairInv
<1> QED  BY <1>7, <1>8

-----------------------------------------------------------------------------
(* The steps *)

LEMMA BCallStep ==
    ASSUME BInv, NEW r \in Ranks, B!Call(r)
    PROVE  BInv'
<1>1. /\ bchan[r].coll <= B!NumCollectives /\ bchan[r].entered = bchan[r].returned
      /\ bchan' = [bchan EXCEPT ![r].entered = @ + 1]
      /\ bsupport' = bsupport /\ broadcast' = broadcast
      /\ bdata' = bdata /\ bcontrol' = bcontrol
  BY DEF B!Call
<1>2. B!TypeOK /\ (\A q \in Ranks : BRankInv(q)) /\ \A b, d \in Ranks : BPairInv(b, d)
  BY DEF BInv
<1>3. B!TypeOK'
  <2>0. bchan[r] \in BChannel
    BY <1>2, BTypes
  <2>1. [bchan[r] EXCEPT !.entered = @ + 1] \in BChannel
    BY <2>0 DEF BChannel
  <2>2. bchan' \in [Ranks -> BChannel]
    BY <1>1, <1>2, <2>1, BTypeOK
  <2> QED  BY <1>1, <1>2, <2>2, BTypeOK, BTypeOKNext
<1>4. ASSUME NEW q \in Ranks
      PROVE  LET c  == bchan[q]
                 c2 == bchan'[q]
             IN  /\ c2.coll = c.coll /\ c2.returned = c.returned /\ c2.init = c.init
                 /\ c2.op = c.op /\ c2.net = c.net
                 /\ c2.packet_element_id = c.packet_element_id
                 /\ c2.net_2 = c.net_2
                 /\ c2.packet_element_id_rcv = c.packet_element_id_rcv
                 /\ c2.entered = IF q = r THEN c.returned + 1 ELSE c.entered
  BY <1>1, <1>2, BTypeOK DEF BChannel
<1>5. ASSUME NEW q \in Ranks
      PROVE  LET c  == bchan[q]
                 c2 == bchan'[q]
             IN  /\ \A b : BSendInv(b, c) => BSendInv(b, c2)
                 /\ BReadInv(c) => BReadInv(c2)
                 /\ \A f : BExpects(f, c2) = BExpects(f, c)
                 /\ \A f, b, d : BQueueInv(f, b, d, c) => BQueueInv(f, b, d, c2)
                 /\ \A f, b, d : BRequestInv(f, d, b, c) => BRequestInv(f, d, b, c2)
                 /\ \A b, d, f, x, s : BAskInv(b, d, c, f, x, s) => BAskInv(b, d, c2, f, x, s)
                 /\ \A b : BFills(b, c2) = BFills(b, c)
                 /\ \A k, f : BToCount(k, c2, f) = BToCount(k, c, f)
  BY <1>4, BSameFields
<1>6. ASSUME NEW q \in Ranks
      PROVE  /\ BLine(q)' = BLine(q)
             /\ BFifoInv(q, broadcast'[q], BFills(q, bchan'[q]))
             /\ BKernelInv(q, bsupport'[q], BLine(q)',
                           BUncounted(q, bsupport[q].mess[0][1])')
  <2>1. /\ BRankInv(q) /\ bsupport'[q] = bsupport[q] /\ broadcast'[q] = broadcast[q]
        /\ BFills(q, bchan'[q]) = BFills(q, bchan[q])
        /\ \A d \in Ranks \ {q} : \A k :
               BToCount(k, bchan'[d], bcontrol'[d][q]) = BToCount(k, bchan[d], bcontrol[d][q])
    BY <1>1, <1>2, <1>5
  <2> QED  BY <2>1, BLineStays
<1>7. ASSUME NEW q \in Ranks PROVE BRankInv(q)'
  <2>1. BRankInv(q)
    BY <1>2
  <2>2. BCallInv(bchan'[q])
    BY <1>1, <1>2, <1>4, <2>1, BTypes, BChannelFields, BNumbers DEF BCallInv, BRankInv
  <2> QED  BY <1>1, <1>4, <1>5, <1>6, <2>1, <2>2 DEF BRankInv
<1>8. ASSUME NEW b \in Ranks, NEW d \in Ranks PROVE BPairInv(b, d)'
  <2>1. BPairInv(b, d)
    BY <1>2
  <2>2. BX(b, d)' = BX(b, d)
    BY <1>1, <1>5 DEF BX
  <2> QED  BY <1>1, <1>4, <1>5, <1>6, <2>1, <2>2 DEF BPairInv
<1> QED  BY <1>3, <1>7, <1>8 DEF BInv

LEMMA BReadyStep ==
    ASSUME BInv, NEW r \in Ranks, B!SendReady(r)
    PROVE  BInv'
<1> DEFINE c    == bchan[r]
           root == BcastRoots[c.coll]
<1>1. /\ ~ B!IsRoot(r) /\ c.init /\ c.returned < c.entered
      /\ bcontrol' = Put(bcontrol, r, root, c.coll)
      /\ bchan' = [bchan EXCEPT ![r].init = FALSE]
      /\ bsupport' = bsupport /\ broadcast' = broadcast /\ bdata' = bdata
  BY BWires DEF B!SendReady
<1>2. B!TypeOK /\ (\A q \in Ranks : BRankInv(q)) /\ \A b, d \in Ranks : BPairInv(b, d)
  BY DEF BInv
<1>3. /\ c \in BChannel /\ c.coll \in 1 .. B!NumCollectives
      /\ root \in Ranks /\ root # r /\ BRooted(root, c.coll)
      /\ \A b : BRooted(b, c.coll) => b = root
  <2>1. c \in BChannel /\ BCallInv(c)
    BY <1>2, BTypes DEF BRankInv
  <2>2. c.coll \in 1 .. B!NumCollectives
    BY <1>1, <2>1, BChannelFields, BNumbers DEF BCallInv
  <2> QED  BY <1>1, <2>1, <2>2, BNumbers DEF BRooted, B!IsRoot
<1>4. /\ bcontrol[r][root] = <<>>
      /\ bcontrol'[r][root] = <<c.coll>> /\ bcontrol'[r][root] # <<>>
      /\ bcontrol' \in Net(BRequest)
      /\ \A a, b \in Ranks : a # r \/ b # root => bcontrol'[a][b] = bcontrol[a][b]
  <2>1. BPairInv(root, r)
    BY <1>2, <1>3
  <2>2. bcontrol[r][root] = <<>>
    BY <1>1, <2>1 DEF BPairInv, BRequestInv
  <2>3. bcontrol \in Net(BRequest)
    BY <1>2, BTypeOK
  <2>4. Append(<<>>, c.coll) = <<c.coll>> /\ <<c.coll>> # <<>>
    OBVIOUS
  <2>5. c.coll \in BRequest /\ root \in Ranks
    BY <1>3 DEF BRequest
  <2> HIDE DEF c, root
  <2>6. LET net == Put(bcontrol, r, root, c.coll)
        IN  /\ net \in Net(BRequest)
            /\ net[r][root] = Append(bcontrol[r][root], c.coll)
            /\ \A a, b \in Ranks : a # r \/ b # root => net[a][b] = bcontrol[a][b]
    BY <2>3, <2>5, PutAt, Z3
  <2> QED  BY <1>1, <2>2, <2>4, <2>6
<1>5. B!TypeOK'
  <2>1. [c EXCEPT !.init = FALSE] \in BChannel
    BY <1>3 DEF BChannel
  <2>2. bchan' \in [Ranks -> BChannel]
    BY <1>1, <1>2, <2>1, BTypeOK
  <2> QED  BY <1>1, <1>2, <1>4, <2>2, BTypeOK, BTypeOKNext
<1>6. /\ \A q \in Ranks \ {r} : bchan'[q] = bchan[q]
      /\ bchan'[r] = [c EXCEPT !.init = FALSE]
  BY <1>1, <1>2, BTypeOK
<1>7. /\ bchan'[r].coll = c.coll /\ bchan'[r].returned = c.returned
      /\ bchan'[r].entered = c.entered /\ bchan'[r].init = FALSE
      /\ bchan'[r].op = c.op /\ bchan'[r].net = c.net /\ bchan'[r].net_2 = c.net_2
      /\ bchan'[r].packet_element_id = c.packet_element_id
      /\ bchan'[r].packet_element_id_rcv = c.packet_element_id_rcv
  BY <1>3, <1>6 DEF BChannel
<1>8. ASSUME NEW q \in Ranks
      PROVE  /\ BFills(q, bchan'[q]) = BFills(q, bchan[q])
             /\ BLine(q)' = BLine(q)
             /\ BFifoInv(q, broadcast'[q], BFills(q, bchan'[q]))
             /\ BKernelInv(q, bsupport'[q], BLine(q)',
                           BUncounted(q, bsupport[q].mess[0][1])')
  <2>1. BFills(q, bchan'[q]) = BFills(q, bchan[q])
    BY <1>6, <1>7 DEF BFills
  <2>2. BRankInv(q)
    BY <1>2
  <2>3. ASSUME NEW d \in Ranks \ {q}, ~ bsupport[q].external
        PROVE  LET k == bsupport[q].mess[0][1]
               IN  BToCount(k, bchan'[d], bcontrol'[d][q])
                       <=> BToCount(k, bchan[d], bcontrol[d][q])
    <3>1. CASE d # r
      <4>1. bchan'[d] = bchan[d] /\ bcontrol'[d][q] = bcontrol[d][q]
        BY <1>4, <1>6, <3>1
      <4> QED  BY <4>1, Zenon
    <3>2. CASE d = r /\ q = root
      <4> DEFINE k == bsupport[q].mess[0][1]
      <4> HIDE DEF k
      <4>1. BToCount(k, bchan[r], bcontrol[r][root]) <=> c.coll < k \/ c.coll = k
        BY <1>1 DEF BToCount
      <4>2. BToCount(k, bchan'[r], bcontrol'[r][root]) <=> c.coll < k \/ c.coll = k
        BY <1>4, <1>7 DEF BToCount
      <4> QED  BY <3>2, <4>1, <4>2 DEF k
    <3>3. CASE d = r /\ q # root
      <4>1. bcontrol'[d][q] = bcontrol[d][q]
        BY <1>4, <3>3
      <4>2. BcastRoots[bsupport[q].mess[0][1]] = q
        BY <2>2, <2>3 DEF BRankInv, BKernelInv, BItem
      <4>3. bsupport[q].mess[0][1] # c.coll
        BY <3>3, <4>2
      <4> QED  BY <1>7, <3>3, <4>1, <4>3 DEF BToCount
    <3> QED  BY <3>1, <3>2, <3>3
  <2> QED  BY <1>1, <2>1, <2>2, <2>3, BLineStays
<1>9. ASSUME NEW q \in Ranks PROVE BRankInv(q)'
  <2>1. BRankInv(q)
    BY <1>2
  <2>2. BCallInv(bchan'[q]) /\ BSendInv(q, bchan'[q])
        /\ (~ BRooted(q, bchan'[q].coll) => BReadInv(bchan'[q]))
    <3>1. CASE q # r
      BY <1>6, <2>1, <3>1 DEF BRankInv
    <3>2. CASE q = r
      <4>1. ~ BRooted(q, c.coll)
        BY <1>3, <3>2
      <4> QED  BY <1>7, <2>1, <3>2, <4>1 DEF BRankInv, BCallInv, BSendInv, BReadInv
    <3> QED  BY <3>1, <3>2
  <2> QED  BY <1>1, <1>8, <2>1, <2>2 DEF BRankInv
<1>10. ASSUME NEW b \in Ranks, NEW d \in Ranks PROVE BPairInv(b, d)'
  <2>1. BPairInv(b, d) /\ BLine(b)' = BLine(b)
    BY <1>2, <1>8
  <2>2. CASE d # r
    <3>1. bchan'[d] = bchan[d] /\ bcontrol'[d][b] = bcontrol[d][b]
      BY <1>4, <1>6, <2>2
    <3>2. BX(b, d)' = BX(b, d)
      BY <1>1, <3>1 DEF BX
    <3> QED  BY <1>1, <2>1, <3>1, <3>2 DEF BPairInv
  <2>3. CASE d = r
    <3>1. BReads(bchan'[r]) = BReads(c)
      BY <1>7 DEF BReads
    <3>2. BX(b, d)' = BX(b, d)
      BY <1>1, <2>3, <3>1 DEF BX, BExpects
    <3>3. BQueueInv(bdata'[b][d], b, d, bchan'[d])
      BY <1>1, <1>7, <2>1, <2>3, <3>1 DEF BPairInv, BQueueInv
    <3>4. BAt(b, bchan'[d].coll, BX(b, d)', BGives(bsupport'[b], d, BLine(b)')) <=>
          BAt(b, bchan[d].coll, BX(b, d), BGives(bsupport[b], d, BLine(b)))
      BY <1>1, <1>7, <2>1, <2>3, <3>2
    <3>5. CASE b = root
      <4>1. BRequestInv(bcontrol'[d][b], d, b, bchan'[d])
        BY <1>3, <1>4, <1>7, <2>3, <3>5 DEF BRequestInv
      <4>2. BRooted(b, c.coll) /\ b # d => BX(b, d) = 1
        BY <1>1, <2>1, <2>3 DEF BPairInv, BAskInv
      <4>3. BAskInv(b, d, bchan'[d], bcontrol'[d][b], BX(b, d)', bsupport'[b])
        BY <1>4, <1>7, <2>3, <3>2, <3>5, <4>2 DEF BAskInv
      <4> QED  BY <2>1, <3>3, <3>4, <4>1, <4>3 DEF BPairInv
    <3>6. CASE b # root
      <4>1. ~ BRooted(b, c.coll)
        BY <1>3, <3>6
      <4>2. BRequestInv(bcontrol'[d][b], d, b, bchan'[d])
        BY <1>4, <1>7, <2>1, <2>3, <3>6, <4>1 DEF BPairInv, BRequestInv
      <4>3. BAskInv(b, d, bchan'[d], bcontrol'[d][b], BX(b, d)', bsupport'[b])
        BY <1>7, <2>3, <4>1 DEF BAskInv
      <4> QED  BY <2>1, <3>3, <3>4, <4>2, <4>3 DEF BPairInv
    <3> QED  BY <3>5, <3>6
  <2> QED  BY <2>2, <2>3
<1> QED  BY <1>5, <1>9, <1>10 DEF BInv

-----------------------------------------------------------------------------
(* What a receiver takes from its packets *)

LEMMA BQueueTail ==
    ASSUME NEW queue \in Seq(B!Packet), NEW s, NEW d, NEW c \in BChannel, NEW c2,
           BQueueInv(queue, s, d, c), queue # <<>>, c.packet_element_id_rcv = 0,
           c2.coll = c.coll, BReads(c2) = BReads(c) + ElementsPerPacket
    PROVE  /\ BQueueInv(Tail(queue), s, d, c2)
           /\ BExpects(Tail(queue), c2) = BExpects(queue, c)
<1> DEFINE tail == Tail(queue)
           n    == Len(queue)
<1>1. /\ n \in Nat /\ n >= 1 /\ tail \in Seq(B!Packet) /\ Len(tail) = n - 1
      /\ \A j \in 1 .. n - 1 : tail[j] = queue[j + 1]
      /\ (tail = <<>>) <=> (n = 1)
  <2>1. n \in Nat /\ n >= 1
    BY EmptySeq
  <2>2. tail \in Seq(B!Packet) /\ Len(tail) = n - 1
        /\ \A j \in 1 .. Len(tail) : tail[j] = queue[j + 1]
    BY HeadTailProperties
  <2>3. tail = <<>> <=> Len(tail) = 0
    BY <2>2, EmptySeq
  <2> QED  BY <2>1, <2>2, <2>3
<1>2. /\ s # d /\ BRooted(s, c.coll) /\ queue[1][0][2] = BReads(c)
      /\ \A j \in 1 .. n : BPacket(queue[j], c.coll, queue[j][0][2])
      /\ \A j \in 1 .. n - 1 : queue[j + 1][0][2] = queue[j][0][2] + ElementsPerPacket
  BY DEF BQueueInv
<1> HIDE DEF tail, n
<1>3. CASE n = 1
  <2>1. tail = <<>> /\ BExpects(queue, c) = BReads(c) + ElementsPerPacket
    BY <1>1, <1>2, <1>3 DEF BExpects, n
  <2> QED  BY <2>1 DEF BQueueInv, BExpects, tail
<1>4. CASE n > 1
  <2>1. tail # <<>> /\ tail[1] = queue[2] /\ tail[Len(tail)] = queue[n]
    BY <1>1, <1>4
  <2>2. tail[1][0][2] = BReads(c2)
    <3>1. 1 \in 1 .. n - 1 /\ 1 + 1 = 2
      BY <1>1, <1>4
    <3> QED  BY <1>2, <2>1, <3>1
  <2>3. \A j \in 1 .. Len(tail) : BPacket(tail[j], c2.coll, tail[j][0][2])
    BY <1>1, <1>2
  <2>4. \A j \in 1 .. Len(tail) - 1 :
            tail[j + 1][0][2] = tail[j][0][2] + ElementsPerPacket
    <3>1. ASSUME NEW j \in 1 .. Len(tail) - 1
          PROVE  /\ j \in 1 .. n - 1 /\ j + 1 \in 1 .. n - 1
                 /\ tail[j + 1] = queue[(j + 1) + 1] /\ tail[j] = queue[j + 1]
      BY <1>1
    <3> QED  BY <1>2, <3>1
  <2>5. BExpects(tail, c2) = BExpects(queue, c)
    BY <2>1 DEF BExpects, BQueueInv, n
  <2> QED  BY <1>2, <2>1, <2>2, <2>3, <2>4, <2>5 DEF BQueueInv, tail
<1> QED  BY <1>1, <1>3, <1>4

LEMMA BReceives ==
    ASSUME BInv, NEW r \in Ranks, B!Receive(r)
    PROVE  LET c    == bchan[r]
               root == BcastRoots[c.coll]
               pr   == c.packet_element_id_rcv
           IN  /\ c.coll \in 1 .. B!NumCollectives /\ root \in Ranks /\ root # r
               /\ ~ c.init /\ c.entered = c.returned + 1
               /\ c.entered <= BcastCounts[c.coll]
               /\ \A b : BRooted(b, c.coll) <=> b = root
               /\ bsupport' = bsupport /\ broadcast' = broadcast /\ bcontrol' = bcontrol
               /\ bdata' \in Net(B!Packet)
               /\ \A a, b \in Ranks : a # root \/ b # r => bdata'[a][b] = bdata[a][b]
               /\ pr # 0 => bdata'[root][r] = bdata[root][r]
               /\ pr = 0 => bdata[root][r] # <<>>
                            /\ bdata'[root][r] = Tail(bdata[root][r])
               /\ \E net \in B!Packet :
                      /\ \A s \in pr .. ElementsPerPacket - 1 :
                             LET i == c.returned + 1 + (s - pr)
                             IN  i <= BcastCounts[c.coll] => net[s] = <<c.coll, i>>
                      /\ bchan' = [bchan EXCEPT ![r] = B!Returned(
                             [c EXCEPT !.net_2 = net,
                                       !.packet_element_id_rcv = B!NextSlot(@)])]
<1> DEFINE c    == bchan[r]
           root == BcastRoots[c.coll]
           pr   == c.packet_element_id_rcv
           with(net) == [bchan EXCEPT ![r] = B!Returned(
               [c EXCEPT !.net_2 = net, !.packet_element_id_rcv = B!NextSlot(@)])]
<1>1. /\ c.returned < c.entered /\ ~ B!IsRoot(r) /\ ~ c.init
      /\ bsupport' = bsupport /\ broadcast' = broadcast /\ bcontrol' = bcontrol
      /\ IF pr = 0
         THEN \E src \in Waiting(bdata, r) :
                  bdata' = Take(bdata, src, r) /\ bchan' = with(Head(bdata[src][r]))
         ELSE bchan' = with(c.net_2) /\ bdata' = bdata
  BY BWires DEF B!Receive
<1>2. B!TypeOK /\ (\A q \in Ranks : BRankInv(q)) /\ \A b, d \in Ranks : BPairInv(b, d)
  BY DEF BInv
<1>3. c \in BChannel /\ bdata \in Net(B!Packet)
  BY <1>2, BTypes, BTypeOK
<1>4. /\ c.coll \in 1 .. B!NumCollectives /\ root \in Ranks /\ root # r
      /\ c.entered = c.returned + 1 /\ c.entered <= BcastCounts[c.coll]
      /\ \A b : BRooted(b, c.coll) <=> b = root
  <2>1. BCallInv(c) /\ c.returned < c.entered /\ ~ B!IsRoot(r)
    BY <1>1, <1>2 DEF BRankInv
  <2>2. /\ c.coll \in Int /\ c.coll >= 1 /\ B!NumCollectives \in Int
        /\ c.returned \in Int /\ c.returned >= 0
    BY <1>3, BChannelFields, BNumbers
  <2>3. c.coll \in 1 .. B!NumCollectives /\ c.entered = c.returned + 1
    BY <2>1, <2>2 DEF BCallInv
  <2>4. BcastCounts[c.coll] \in Int /\ c.entered <= BcastCounts[c.coll]
    BY <2>1, <2>2, <2>3, BNumbers DEF BCallInv
  <2> QED  BY <2>1, <2>3, <2>4, BNumbers DEF BRooted, B!IsRoot
<1>5. CASE pr # 0
  <2>1. bchan' = with(c.net_2) /\ bdata' = bdata /\ c.net_2 \in B!Packet
    BY <1>1, <1>3, <1>5, BChannelFields
  <2>2. BReadInv(c)
    BY <1>2, <1>4 DEF BRankInv
  <2>3. \A s \in pr .. ElementsPerPacket - 1 :
            LET i == c.returned + 1 + (s - pr)
            IN  i <= BcastCounts[c.coll] => c.net_2[s] = <<c.coll, i>>
    BY <1>5, <2>2 DEF BReadInv
  <2> QED  BY <1>1, <1>3, <1>4, <1>5, <2>1, <2>3
<1>6. CASE pr = 0
  <2>1. PICK src \in Waiting(bdata, r) :
            bdata' = Take(bdata, src, r) /\ bchan' = with(Head(bdata[src][r]))
    BY <1>1, <1>6
  <2> DEFINE queue == bdata[src][r]
  <2>2. /\ src \in Ranks /\ queue \in Seq(B!Packet) /\ queue # <<>>
        /\ Head(queue) \in B!Packet /\ Head(queue) = queue[1]
        /\ bdata' \in Net(B!Packet) /\ bdata'[src][r] = Tail(queue)
        /\ \A a, b \in Ranks : a # src \/ b # r => bdata'[a][b] = bdata[a][b]
    BY <1>3, <2>1, TakeAt
  <2>3. BQueueInv(queue, src, r, c)
    BY <1>2, <2>2 DEF BPairInv
  <2>4. src = root /\ queue[1][0][2] = BReads(c)
        /\ BPacket(queue[1], c.coll, queue[1][0][2])
    <3>1. 1 \in 1 .. Len(queue)
      BY <2>2, EmptySeq
    <3> QED  BY <1>4, <2>2, <2>3, <3>1 DEF BQueueInv
  <2>5. BReads(c) = c.returned + 1
    BY <1>6 DEF BReads
  <2>6. \A s \in pr .. ElementsPerPacket - 1 :
            LET i == c.returned + 1 + (s - pr)
            IN  i <= BcastCounts[c.coll] => Head(queue)[s] = <<c.coll, i>>
    <3>1. \A s \in 0 .. ElementsPerPacket - 1 :
              LET i == c.returned + 1 + s
              IN  i <= BcastCounts[c.coll] => queue[1][s] = <<c.coll, i>>
      BY <2>4, <2>5, BNumbers DEF BPacket
    <3> QED  BY <1>6, <2>2, <3>1
  <2> QED  BY <1>1, <1>3, <1>4, <1>6, <2>1, <2>2, <2>4, <2>6
<1> QED  BY <1>5, <1>6

(* A call that is not the last of its broadcast *)
LEMMA BReceiveStep ==
    ASSUME BInv, NEW r \in Ranks, B!Receive(r),
           bchan[r].entered # BcastCounts[bchan[r].coll]
    PROVE  BInv'
<1> DEFINE c    == bchan[r]
           root == BcastRoots[c.coll]
           pr   == c.packet_element_id_rcv
           c2   == bchan'[r]
<1>1. B!TypeOK /\ (\A q \in Ranks : BRankInv(q)) /\ \A b, d \in Ranks : BPairInv(b, d)
  BY DEF BInv
<1>2. c \in BChannel
  BY <1>1, BTypes
<1>3. /\ c.coll \in 1 .. B!NumCollectives /\ root \in Ranks /\ root # r
      /\ ~ c.init /\ c.entered = c.returned + 1 /\ c.entered < BcastCounts[c.coll]
      /\ \A b : BRooted(b, c.coll) <=> b = root
      /\ bsupport' = bsupport /\ broadcast' = broadcast /\ bcontrol' = bcontrol
      /\ bdata' \in Net(B!Packet)
      /\ \A a, b \in Ranks : a # root \/ b # r => bdata'[a][b] = bdata[a][b]
      /\ pr # 0 => bdata'[root][r] = bdata[root][r]
      /\ pr = 0 => bdata[root][r] # <<>> /\ bdata'[root][r] = Tail(bdata[root][r])
  <2>1. /\ c.coll \in 1 .. B!NumCollectives /\ root \in Ranks /\ root # r
        /\ ~ c.init /\ c.entered = c.returned + 1 /\ c.entered <= BcastCounts[c.coll]
        /\ \A b : BRooted(b, c.coll) <=> b = root
        /\ bsupport' = bsupport /\ broadcast' = broadcast /\ bcontrol' = bcontrol
        /\ bdata' \in Net(B!Packet)
        /\ \A a, b \in Ranks : a # root \/ b # r => bdata'[a][b] = bdata[a][b]
        /\ pr # 0 => bdata'[root][r] = bdata[root][r]
        /\ pr = 0 => bdata[root][r] # <<>> /\ bdata'[root][r] = Tail(bdata[root][r])
    BY BReceives
  <2>2. c.entered \in Int /\ BcastCounts[c.coll] \in Int
    BY <1>2, <2>1, BChannelFields, BNumbers
  <2>3. c.entered < BcastCounts[c.coll]
    BY <2>1, <2>2
  <2> QED  BY <2>1, <2>3
<1>4. PICK net \in B!Packet :
          /\ \A s \in pr .. ElementsPerPacket - 1 :
                 LET i == c.returned + 1 + (s - pr)
                 IN  i <= BcastCounts[c.coll] => net[s] = <<c.coll, i>>
          /\ bchan' = [bchan EXCEPT ![r] = B!Returned(
                 [c EXCEPT !.net_2 = net, !.packet_element_id_rcv = B!NextSlot(@)])]
  BY BReceives
<1>5. /\ B!Returned([c EXCEPT !.net_2 = net, !.packet_element_id_rcv = B!NextSlot(@)])
             = [c EXCEPT !.net_2 = net, !.packet_element_id_rcv = B!NextSlot(pr),
                         !.returned = c.entered]
      /\ B!NextSlot(pr) \in B!Slots
      /\ B!NextSlot(pr) = IF pr + 1 = ElementsPerPacket THEN 0 ELSE pr + 1
  <2>1. [c EXCEPT !.net_2 = net, !.packet_element_id_rcv = B!NextSlot(@)].entered = c.entered
        /\ [c EXCEPT !.net_2 = net, !.packet_element_id_rcv = B!NextSlot(@)].coll = c.coll
    BY <1>2 DEF BChannel
  <2>2. pr \in Int /\ pr >= 0 /\ pr < ElementsPerPacket
    BY <1>2, BChannelFields
  <2>3. B!NextSlot(pr) = IF pr + 1 = ElementsPerPacket THEN 0 ELSE pr + 1
    BY DEF B!NextSlot
  <2>4. B!NextSlot(pr) \in B!Slots
    BY <2>2, <2>3, BNumbers, Numbers, SMTT(30)
  <2> QED  BY <1>2, <1>3, <2>1, <2>3, <2>4 DEF B!Returned, BChannel
<1>6. /\ bchan' \in [Ranks -> BChannel]
      /\ \A q \in Ranks \ {r} : bchan'[q] = bchan[q]
      /\ c2 = [c EXCEPT !.net_2 = net, !.packet_element_id_rcv = B!NextSlot(pr),
                        !.returned = c.entered]
  <2>1. [c EXCEPT !.net_2 = net, !.packet_element_id_rcv = B!NextSlot(pr),
                  !.returned = c.entered] \in BChannel
    BY <1>2, <1>4, <1>5 DEF BChannel
  <2>2. bchan \in [Ranks -> BChannel]
    BY <1>1, BTypeOK
  <2> QED  BY <1>4, <1>5, <2>1, <2>2
<1>7. /\ c2.coll = c.coll /\ c2.entered = c.entered /\ c2.returned = c.returned + 1
      /\ c2.init = c.init /\ c2.op = c.op /\ c2.packet_element_id = c.packet_element_id
      /\ c2.net_2 = net
      /\ c2.packet_element_id_rcv = IF pr + 1 = ElementsPerPacket THEN 0 ELSE pr + 1
  BY <1>2, <1>3, <1>5, <1>6 DEF BChannel
<1>8. pr \in Int /\ pr >= 0 /\ pr < ElementsPerPacket /\ ElementsPerPacket \in Int
      /\ c.returned \in Int /\ c.coll \in Int /\ BcastCounts[c.coll] \in Int
  BY <1>2, <1>3, BChannelFields, BNumbers, Numbers
<1> HIDE DEF c2
<1>9. BReads(c2) = IF pr = 0 THEN BReads(c) + ElementsPerPacket ELSE BReads(c)
  BY <1>7, <1>8 DEF BReads
<1>10. B!TypeOK'
  BY <1>1, <1>3, <1>6, BTypeOK, BTypeOKNext
<1>11. ASSUME NEW q \in Ranks
       PROVE  /\ BLine(q)' = BLine(q)
              /\ BFifoInv(q, broadcast'[q], BFills(q, bchan'[q]))
              /\ BKernelInv(q, bsupport'[q], BLine(q)',
                            BUncounted(q, bsupport[q].mess[0][1])')
  <2>1. BFills(q, bchan'[q]) = BFills(q, bchan[q])
    BY <1>3, <1>6, <1>7 DEF BFills, c2
  <2>2. \A d \in Ranks \ {q} : \A k :
            BToCount(k, bchan'[d], bcontrol'[d][q]) <=> BToCount(k, bchan[d], bcontrol[d][q])
    BY <1>3, <1>6, <1>7, ZenonT(30) DEF BToCount, c2
  <2> QED  BY <1>1, <1>3, <2>1, <2>2, BLineStays
<1>12. ASSUME NEW q \in Ranks PROVE BRankInv(q)'
  <2>1. BRankInv(q)
    BY <1>1
  <2>2. BCallInv(bchan'[q]) /\ BSendInv(q, bchan'[q])
        /\ (~ BRooted(q, bchan'[q].coll) => BReadInv(bchan'[q]))
    <3>1. CASE q # r
      BY <1>6, <2>1, <3>1 DEF BRankInv
    <3>2. CASE q = r
      <4>1. BCallInv(c2)
        <5>1. /\ c2.entered = c2.returned /\ c2.coll <= B!NumCollectives
              /\ c2.returned < BcastCounts[c2.coll]
          BY <1>3, <1>7, <1>8
        <5> QED  BY <1>7, <1>8, <5>1, BNumbers DEF BCallInv
      <4>2. BSendInv(r, c2)
        BY <1>3, <1>7, <2>1, <3>2 DEF BSendInv, BRankInv
      <4>3. BReadInv(c2)
        <5>1. ~ c2.init
          BY <1>3, <1>7
        <5>2. ASSUME c2.packet_element_id_rcv # 0,
                     NEW s \in c2.packet_element_id_rcv .. ElementsPerPacket - 1
              PROVE  LET i == c2.returned + 1 + (s - c2.packet_element_id_rcv)
                     IN  i <= BcastCounts[c2.coll] => c2.net_2[s] = <<c2.coll, i>>
          <6>1. c2.packet_element_id_rcv = pr + 1 /\ s \in pr .. ElementsPerPacket - 1
            BY <1>7, <1>8, <5>2
          <6>2. c2.returned + 1 + (s - c2.packet_element_id_rcv)
                    = c.returned + 1 + (s - pr)
            BY <1>7, <1>8, <6>1
          <6> QED  BY <1>4, <1>7, <6>1, <6>2
        <5> QED  BY <5>1, <5>2 DEF BReadInv
      <4> QED  BY <3>2, <4>1, <4>2, <4>3 DEF c2
    <3> QED  BY <3>1, <3>2
  <2> QED  BY <1>3, <1>11, <2>1, <2>2 DEF BRankInv
<1>13. ASSUME NEW b \in Ranks, NEW d \in Ranks PROVE BPairInv(b, d)'
  <2>1. BPairInv(b, d) /\ BLine(b)' = BLine(b)
    BY <1>1, <1>11
  <2>2. CASE d # r
    <3>1. bdata'[b][d] = bdata[b][d] /\ bchan'[d] = bchan[d]
      BY <1>3, <1>6, <2>2
    <3> QED  BY <1>3, <2>1, <3>1, BPairStays
  <2>3. CASE d = r /\ b # root
    <3>1. bdata'[b][d] = bdata[b][d] /\ ~ BRooted(b, c.coll)
      BY <1>3, <2>3
    <3>2. BQueueInv(bdata'[b][d], b, d, bchan'[d])
      BY <1>7, <2>1, <2>3, <3>1 DEF BPairInv, BQueueInv, c2
    <3>3. BRequestInv(bcontrol'[d][b], d, b, bchan'[d])
      BY <1>3, <1>7, <2>1, <2>3, <3>1 DEF BPairInv, BRequestInv, c2
    <3>4. BAskInv(b, d, bchan'[d], bcontrol'[d][b], BX(b, d)', bsupport'[b])
      BY <1>7, <2>3, <3>1 DEF BAskInv, c2
    <3>5. b # d => BAt(b, bchan'[d].coll, BX(b, d)', BGives(bsupport'[b], d, BLine(b)'))
      BY <1>3, <1>7, <2>1, <2>3, <3>1 DEF BPairInv, BAt, c2
    <3> QED  BY <3>2, <3>3, <3>4, <3>5 DEF BPairInv
  <2>4. CASE d = r /\ b = root
    <3> DEFINE queue == bdata[b][d]
    <3>1. /\ BQueueInv(bdata'[b][d], b, d, c2)
          /\ BX(b, d)' = BX(b, d)
      <4>1. BQueueInv(queue, b, d, c)
        BY <2>1, <2>4 DEF BPairInv
      <4>2. CASE pr = 0
        <5>1. queue \in Seq(B!Packet)
          BY <1>1, BTypes
        <5>2. queue # <<>> /\ bdata'[b][d] = Tail(queue)
          BY <1>3, <2>4, <4>2
        <5>3. BReads(c2) = BReads(c) + ElementsPerPacket
          BY <1>9, <4>2
        <5> HIDE DEF queue
        <5>4. /\ BQueueInv(Tail(queue), b, d, c2)
              /\ BExpects(Tail(queue), c2) = BExpects(queue, c)
          BY <1>2, <1>7, <4>1, <4>2, <5>1, <5>2, <5>3, BQueueTail
        <5> QED  BY <2>4, <5>2, <5>4 DEF BX, c2, queue
      <4>3. CASE pr # 0
        <5>1. bdata'[b][d] = queue /\ BReads(c2) = BReads(c)
          BY <1>3, <1>9, <2>4, <4>3
        <5> QED  BY <1>7, <2>4, <4>1, <5>1, ZenonT(30) DEF BX, BExpects, BQueueInv, c2
      <4> QED  BY <4>2, <4>3
    <3>2. BRequestInv(bcontrol'[d][b], d, b, c2)
      BY <1>3, <1>7, <2>1, <2>4 DEF BPairInv, BRequestInv
    <3>3. BAskInv(b, d, c2, bcontrol'[d][b], BX(b, d)', bsupport'[b])
      BY <1>3, <1>7, <2>1, <2>4, <3>1 DEF BPairInv, BAskInv
    <3>4. BAt(b, c2.coll, BX(b, d)', BGives(bsupport'[b], d, BLine(b)'))
      BY <1>3, <1>7, <2>1, <2>4, <3>1 DEF BPairInv
    <3> QED  BY <2>4, <3>1, <3>2, <3>3, <3>4 DEF BPairInv, c2
  <2> QED  BY <2>2, <2>3, <2>4
<1> QED  BY <1>10, <1>12, <1>13 DEF BInv

(* The last call of a broadcast at a receiver *)
LEMMA BReceiveLastStep ==
    ASSUME BInv, NEW r \in Ranks, B!Receive(r),
           bchan[r].entered = BcastCounts[bchan[r].coll]
    PROVE  BInv'
<1> DEFINE c    == bchan[r]
           k    == c.coll
           root == BcastRoots[k]
           pr   == c.packet_element_id_rcv
<1>1. B!TypeOK /\ (\A q \in Ranks : BRankInv(q)) /\ \A b, d \in Ranks : BPairInv(b, d)
  BY DEF BInv
<1>2. c \in BChannel
  BY <1>1, BTypes
<1>3. /\ k \in 1 .. B!NumCollectives /\ root \in Ranks /\ root # r
      /\ ~ c.init /\ c.entered = c.returned + 1 /\ c.entered = BcastCounts[k]
      /\ \A b : BRooted(b, k) <=> b = root
      /\ bsupport' = bsupport /\ broadcast' = broadcast /\ bcontrol' = bcontrol
      /\ bdata' \in Net(B!Packet)
      /\ \A a, b \in Ranks : a # root \/ b # r => bdata'[a][b] = bdata[a][b]
      /\ pr # 0 => bdata'[root][r] = bdata[root][r]
      /\ pr = 0 => bdata[root][r] # <<>> /\ bdata'[root][r] = Tail(bdata[root][r])
  BY BReceives
<1>4. PICK net \in B!Packet :
          bchan' = [bchan EXCEPT ![r] = B!Returned(
              [c EXCEPT !.net_2 = net, !.packet_element_id_rcv = B!NextSlot(@)])]
  BY BReceives
<1>5. B!Returned([c EXCEPT !.net_2 = net, !.packet_element_id_rcv = B!NextSlot(@)])
          = B!Opened(k + 1)
  <2>1. [c EXCEPT !.net_2 = net, !.packet_element_id_rcv = B!NextSlot(@)].entered = c.entered
        /\ [c EXCEPT !.net_2 = net, !.packet_element_id_rcv = B!NextSlot(@)].coll = k
    BY <1>2 DEF BChannel
  <2> QED  BY <1>3, <2>1 DEF B!Returned
<1>6. /\ bchan' \in [Ranks -> BChannel]
      /\ \A q \in Ranks \ {r} : bchan'[q] = bchan[q]
      /\ bchan'[r] = B!Opened(k + 1)
  <2>1. k + 1 \in 1 .. B!NumCollectives + 1
    BY <1>3, BNumbers
  <2>2. B!Opened(k + 1) \in BChannel
    BY <2>1, BOpenedFields
  <2>3. bchan \in [Ranks -> BChannel]
    BY <1>1, BTypeOK
  <2> QED  BY <1>4, <1>5, <2>2, <2>3
<1>7. /\ pr \in Int /\ pr >= 0 /\ pr < ElementsPerPacket /\ ElementsPerPacket \in Int
      /\ c.returned \in Int /\ k \in Int /\ BcastCounts[k] \in Int /\ BcastCounts[k] >= 1
  BY <1>2, <1>3, BChannelFields, BNumbers, Numbers
<1>8. B!TypeOK'
  BY <1>1, <1>3, <1>6, BTypeOK, BTypeOKNext
<1>9. \A b \in Ranks : b # root => bdata[b][r] = <<>> /\ bcontrol[r][b] = <<>>
  <2>1. \A b \in Ranks : BQueueInv(bdata[b][r], b, r, c) /\ BRequestInv(bcontrol[r][b], r, b, c)
    BY <1>1 DEF BPairInv
  <2> QED  BY <1>3, <2>1 DEF BQueueInv, BRequestInv
<1>10. bdata'[root][r] = <<>> /\ BX(root, r) > BcastCounts[k]
  <2> DEFINE queue == bdata[root][r]
             n     == Len(queue)
  <2>1. BQueueInv(queue, root, r, c) /\ queue \in Seq(B!Packet)
    BY <1>1, <1>3, BTypes DEF BPairInv
  <2>2. n \in Int /\ n >= 0 /\ (queue # <<>> => n >= 1)
    BY <2>1, EmptySeq
  <2>3. BReads(c) + (IF pr = 0 THEN ElementsPerPacket ELSE 0) > BcastCounts[k]
    BY <1>3, <1>7 DEF BReads
  <2>4. queue # <<>> =>
            /\ queue[1][0][2] = BReads(c) /\ queue[1][0][2] <= BcastCounts[k]
            /\ n > 1 => queue[2][0][2] = queue[1][0][2] + ElementsPerPacket
                        /\ queue[2][0][2] <= BcastCounts[k]
    <3>1. 1 + 1 = 2 /\ (queue # <<>> => 1 \in 1 .. n)
          /\ (n > 1 => 1 \in 1 .. n - 1 /\ 2 \in 1 .. n)
      BY <2>2
    <3>2. \A j \in 1 .. n : queue # <<>> => queue[j][0][2] <= BcastCounts[k]
      <4> SUFFICES ASSUME NEW j \in 1 .. n, queue # <<>>
                   PROVE  queue[j][0][2] <= BcastCounts[k]
        OBVIOUS
      <4>1. BPacket(queue[j], k, queue[j][0][2])
        BY <2>1 DEF BQueueInv
      <4>2. queue[j][0][2] \in 1 .. BcastCounts[k]
        BY <4>1 DEF BPacket
      <4> HIDE DEF c, k, queue, root
      <4> QED  BY <1>7, <4>2
    <3> QED  BY <2>1, <3>1, <3>2 DEF BQueueInv
  <2>5. CASE pr = 0
    <3>1. queue # <<>> /\ bdata'[root][r] = Tail(queue)
      BY <1>3, <2>5
    <3>2. n = 1
      <4>1. BReads(c) \in Int
        BY <1>7, <2>5 DEF BReads
      <4>2. n > 1 => BReads(c) + ElementsPerPacket <= BcastCounts[k]
        BY <2>4, <3>1
      <4>3. BReads(c) + ElementsPerPacket > BcastCounts[k]
        BY <2>3, <2>5
      <4>4. n >= 1
        BY <2>2, <3>1
      <4> HIDE DEF k, queue, n
      <4> QED  BY <1>7, <2>2, <4>1, <4>2, <4>3, <4>4
    <3>3. Tail(queue) \in Seq(B!Packet) /\ Len(Tail(queue)) = 0
      BY <2>1, <3>1, <3>2, HeadTailProperties
    <3>4. Tail(queue) = <<>>
      BY <3>3, EmptySeq
    <3>5. BX(root, r) = queue[1][0][2] + ElementsPerPacket
      BY <3>1, <3>2 DEF BX, BExpects
    <3> QED  BY <2>3, <2>4, <2>5, <3>1, <3>4, <3>5
  <2>6. CASE pr # 0
    <3>1. queue = <<>>
      <4>1. BReads(c) \in Int
        BY <1>7, <2>6 DEF BReads
      <4> HIDE DEF c, k, queue, root, pr
      <4> QED  BY <1>7, <2>3, <2>4, <2>6, <4>1
    <3>2. BX(root, r) = BReads(c)
      BY <3>1 DEF BX, BExpects
    <3> QED  BY <1>3, <1>7, <2>3, <2>6, <3>1, <3>2 DEF BReads
  <2> QED  BY <2>5, <2>6
<1>11. bcontrol[r][root] = <<>>
  <2>1. BAskInv(root, r, c, bcontrol[r][root], BX(root, r), bsupport[root])
    BY <1>1, <1>3 DEF BPairInv
  <2>2. BX(root, r) # 1
    <3> HIDE DEF k
    <3>1. BX(root, r) > BcastCounts[k] /\ BcastCounts[k] \in Int /\ BcastCounts[k] >= 1
      BY <1>7, <1>10
    <3> QED  BY <3>1
  <2> QED  BY <1>3, <2>1, <2>2 DEF BAskInv
<1>12. \A b \in Ranks \ {r} : BLine(b)' = BLine(b)
  BY <1>3, <1>6 DEF BLine, BOffers
<1>13. /\ \A b \in Ranks : BPairInv(b, r)'
       /\ \A b \in Ranks \ {r} : \A j : BcastRoots[j] = b /\ j \in 1 .. B!NumCollectives =>
              (BToCount(j, bchan'[r], bcontrol'[r][b]) <=>
               BToCount(j, bchan[r], bcontrol[r][b]))
  <2>1. \A b \in Ranks : bdata'[b][r] = <<>> /\ bcontrol[r][b] = <<>>
    BY <1>3, <1>9, <1>10, <1>11
  <2>2. \A b \in Ranks \ {r} : BRooted(b, k) => ~ c.init /\ BX(b, r) > BcastCounts[k]
    BY <1>3, <1>10
  <2> QED  BY <1>3, <1>6, <1>12, <2>1, <2>2, BMovesOn
<1>14. ASSUME NEW q \in Ranks, q # r
       PROVE  /\ BFifoInv(q, broadcast'[q], BFills(q, bchan'[q]))
              /\ BKernelInv(q, bsupport'[q], BLine(q)',
                            BUncounted(q, bsupport[q].mess[0][1])')
  <2>1. BRankInv(q)
    BY <1>1
  <2>2. ASSUME ~ bsupport[q].external, NEW d \in Ranks \ {q}
        PROVE  LET j == bsupport[q].mess[0][1]
               IN  BToCount(j, bchan'[d], bcontrol'[d][q])
                       <=> BToCount(j, bchan[d], bcontrol[d][q])
    <3>1. CASE d = r
      <4>1. bsupport[q].mess[0][1] \in 1 .. B!NumCollectives
            /\ BcastRoots[bsupport[q].mess[0][1]] = q
        BY <2>1, <2>2 DEF BRankInv, BKernelInv, BItem, BPacket
      <4> QED  BY <1>13, <1>14, <3>1, <4>1
    <3>2. CASE d # r
      BY <1>3, <1>6, <3>2
    <3> QED  BY <3>1, <3>2
  <2> QED  BY <1>3, <1>6, <1>14, <2>1, <2>2, BLineStays
<1>15. BRankInv(r)' /\ \A d \in Ranks \ {r} : BPairInv(r, d)'
  <2>1. ~ BRooted(r, k) /\ \A d \in Ranks \ {r} : bdata'[r][d] = bdata[r][d]
    BY <1>3
  <2> QED  BY <1>3, <1>6, <2>1, BPasses
<1>16. ASSUME NEW q \in Ranks PROVE BRankInv(q)'
  <2>1. CASE q # r
    <3>1. BRankInv(q) /\ bchan'[q] = bchan[q]
      BY <1>1, <1>6, <2>1
    <3> QED  BY <1>3, <1>14, <2>1, <3>1 DEF BRankInv
  <2> QED  BY <1>15, <2>1
<1>17. ASSUME NEW b \in Ranks, NEW d \in Ranks PROVE BPairInv(b, d)'
  <2>1. CASE d = r \/ b = r
    BY <1>13, <1>15, <2>1
  <2>2. CASE d # r /\ b # r
    <3>1. BPairInv(b, d) /\ BLine(b)' = BLine(b)
          /\ bdata'[b][d] = bdata[b][d] /\ bchan'[d] = bchan[d]
      BY <1>1, <1>3, <1>6, <1>12, <2>2
    <3> QED  BY <1>3, <3>1, BPairStays
  <2> QED  BY <2>1, <2>2
<1> QED  BY <1>8, <1>16, <1>17 DEF BInv

-----------------------------------------------------------------------------
(* What the root packs *)

LEMMA BSends ==
    ASSUME BInv, NEW r \in Ranks, B!Send(r)
    PROVE  LET c  == bchan[r]
               k  == c.coll
               id == c.packet_element_id
               i  == c.returned - id + 1
           IN  /\ k \in 1 .. B!NumCollectives /\ BRooted(r, k)
               /\ c.entered = c.returned + 1 /\ c.entered <= BcastCounts[k]
               /\ i \in 1 .. BcastCounts[k]
               /\ bsupport' = bsupport /\ bdata' = bdata /\ bcontrol' = bcontrol
               /\ \E packed \in B!Packet :
                      /\ \A s \in 0 .. id : packed[s] = <<k, i + s>>
                      /\ B!Leaves(c) => broadcast[r] = <<>> /\ BPacket(packed, k, i)
                      /\ broadcast' = [broadcast EXCEPT ![r] =
                             IF B!Leaves(c) THEN <<[op |-> c.op, src |-> r, net |-> packed]>>
                             ELSE @]
                      /\ bchan' = [bchan EXCEPT ![r] = B!Returned([c EXCEPT
                             !.net = packed,
                             !.packet_element_id = IF B!Leaves(c) THEN 0 ELSE @ + 1,
                             !.op = IF B!Leaves(c) THEN "BROADCAST" ELSE @])]
<1> DEFINE c  == bchan[r]
           k  == c.coll
           id == c.packet_element_id
           i  == c.returned - id + 1
           packed == [c.net EXCEPT ![id] = <<k, c.entered>>]
<1>1. /\ c.returned < c.entered /\ B!IsRoot(r)
      /\ B!Leaves(c) => broadcast[r] = <<>>
      /\ bsupport' = bsupport /\ bdata' = bdata /\ bcontrol' = bcontrol
      /\ broadcast' = [broadcast EXCEPT ![r] =
             IF B!Leaves(c) THEN <<[op |-> c.op, src |-> r, net |-> packed]>> ELSE @]
      /\ bchan' = [bchan EXCEPT ![r] = B!Returned([c EXCEPT
             !.net = packed,
             !.packet_element_id = IF B!Leaves(c) THEN 0 ELSE @ + 1,
             !.op = IF B!Leaves(c) THEN "BROADCAST" ELSE @])]
  BY DEF B!Send
<1>2. /\ B!TypeOK /\ BCallInv(c) /\ BSendInv(r, c) /\ c \in BChannel
  BY BTypes DEF BInv, BRankInv
<1>3. /\ k \in Int /\ k >= 1 /\ B!NumCollectives \in Int
      /\ c.returned \in Int /\ c.returned >= 0 /\ c.entered \in Int
      /\ id \in Int /\ id >= 0 /\ id < ElementsPerPacket /\ ElementsPerPacket \in Int
      /\ c.net \in B!Packet
  BY <1>2, BChannelFields, BNumbers, Numbers, SMTT(30)
<1>4. /\ k \in 1 .. B!NumCollectives /\ BRooted(r, k)
      /\ BcastCounts[k] \in Int
  BY <1>1, <1>3, BNumbers DEF B!IsRoot, BRooted
<1>5. /\ c.entered = c.returned + 1 /\ c.entered <= BcastCounts[k]
      /\ i \in 1 .. BcastCounts[k] /\ c.entered = i + id
      /\ \A s \in 0 .. id - 1 : c.net[s] = <<k, i + s>>
  <2>1. c.entered = c.returned + 1 /\ c.entered <= BcastCounts[k]
    BY <1>1, <1>2, <1>3, <1>4 DEF BCallInv
  <2>2. id <= c.returned /\ \A s \in 0 .. id - 1 : c.net[s] = <<k, i + s>>
    BY <1>2, <1>4 DEF BSendInv
  <2>3. i \in 1 .. BcastCounts[k] /\ c.entered = i + id
    BY <1>3, <1>4, <2>1, <2>2
  <2> QED  BY <2>1, <2>2, <2>3
<1>6. packed \in B!Packet
  <2>1. <<k, c.entered>> \in B!Elements
    <3>1. c.entered \in 1 .. BcastCounts[k]
      BY <1>3, <1>4, <1>5
    <3> QED  BY <1>4, <3>1, BElements
  <2> QED  BY <1>3, <2>1 DEF B!Packet
<1>7. ASSUME NEW s \in 0 .. id PROVE packed[s] = <<k, i + s>>
  <2>1. s \in B!Slots /\ c.net \in [B!Slots -> B!Elements]
    BY <1>3, BNumbers DEF B!Packet
  <2>2. CASE s = id
    BY <1>5, <2>1, <2>2
  <2>3. CASE s # id
    <3>1. s \in 0 .. id - 1
      BY <1>3, <2>3
    <3> QED  BY <1>5, <2>1, <2>3, <3>1
  <2> QED  BY <2>2, <2>3
<1>8. B!Leaves(c) => BPacket(packed, k, i)
  <2> SUFFICES ASSUME B!Leaves(c), NEW s \in B!Slots, i + s <= BcastCounts[k]
               PROVE  packed[s] = <<k, i + s>>
    BY <1>4, <1>5, <1>6 DEF BPacket
  <2>1. s \in Int /\ s >= 0 /\ s < ElementsPerPacket
    BY BNumbers, Numbers
  <2>2. id + 1 = ElementsPerPacket \/ c.entered = BcastCounts[k]
    BY DEF B!Leaves
  <2>3. i \in Int /\ c.entered = i + id
    BY <1>3, <1>5
  <2> HIDE DEF i, packed
  <2>4. s \in 0 .. id
    BY <1>3, <2>1, <2>2, <2>3
  <2> QED  BY <1>7, <2>4
<1> QED  BY <1>1, <1>4, <1>5, <1>6, <1>7, <1>8

(* A packet that leaves becomes what the root offers, as the one it filled;  *)
(* `fills' is the place it goes on with. *)
LEMMA BOffered ==
    ASSUME NEW r \in Ranks, NEW k \in 1 .. B!NumCollectives, NEW i \in 1 .. BcastCounts[k],
           BRooted(r, k), NEW op, op = "SYNCH" <=> i = 1,
           NEW packed, BPacket(packed, k, i), NEW fills, BFollows(r, <<k, i>>, fills)
    PROVE  LET m == [op |-> op, src |-> r, net |-> packed]
           IN  /\ \A c : BOffers(r, <<m>>, c) = <<k, i>>
               /\ BFifoInv(r, <<m>>, fills)
<1> DEFINE m == [op |-> op, src |-> r, net |-> packed]
<1>1. packed[0] = <<k, i>>
  <2>1. i \in Int /\ BcastCounts[k] \in Int /\ i + 0 <= BcastCounts[k] /\ i + 0 = i
    BY BNumbers
  <2> QED  BY <2>1, BNumbers DEF BPacket
<1>2. BItem(r, packed)
  BY <1>1 DEF BItem, BRooted
<1>3. <<m>>[1] = m /\ <<m>> # <<>> /\ m.op = op /\ m.src = r /\ m.net = packed
  OBVIOUS
<1> HIDE DEF m
<1>4. \A c : BOffers(r, <<m>>, c) = <<k, i>>
  BY <1>1, <1>3 DEF BOffers
<1>5. BFifoInv(r, <<m>>, fills)
  BY <1>1, <1>2, <1>3 DEF BFifoInv
<1> QED  BY <1>4, <1>5 DEF m

LEMMA BSendStep ==
    ASSUME BInv, NEW r \in Ranks, B!Send(r),
           bchan[r].entered # BcastCounts[bchan[r].coll]
    PROVE  BInv'
<1> DEFINE c  == bchan[r]
           k  == c.coll
           id == c.packet_element_id
           i  == c.returned - id + 1
           c2 == bchan'[r]
<1>1. B!TypeOK /\ (\A q \in Ranks : BRankInv(q)) /\ \A b, d \in Ranks : BPairInv(b, d)
  BY DEF BInv
<1>2. c \in BChannel
  BY <1>1, BTypes
<1>3. /\ k \in 1 .. B!NumCollectives /\ BRooted(r, k)
      /\ c.entered = c.returned + 1 /\ c.entered <= BcastCounts[k]
      /\ i \in 1 .. BcastCounts[k]
      /\ bsupport' = bsupport /\ bdata' = bdata /\ bcontrol' = bcontrol
  BY BSends
<1>4. PICK packed \in B!Packet :
          /\ \A s \in 0 .. id : packed[s] = <<k, i + s>>
          /\ B!Leaves(c) => broadcast[r] = <<>> /\ BPacket(packed, k, i)
          /\ broadcast' = [broadcast EXCEPT ![r] =
                 IF B!Leaves(c) THEN <<[op |-> c.op, src |-> r, net |-> packed]>> ELSE @]
          /\ bchan' = [bchan EXCEPT ![r] = B!Returned([c EXCEPT
                 !.net = packed,
                 !.packet_element_id = IF B!Leaves(c) THEN 0 ELSE @ + 1,
                 !.op = IF B!Leaves(c) THEN "BROADCAST" ELSE @])]
  BY BSends
<1> DEFINE id2 == IF B!Leaves(c) THEN 0 ELSE id + 1
           op2 == IF B!Leaves(c) THEN "BROADCAST" ELSE c.op
           m   == [op |-> c.op, src |-> r, net |-> packed]
           sent == [c EXCEPT !.net = packed,
                             !.packet_element_id = IF B!Leaves(c) THEN 0 ELSE @ + 1,
                             !.op = IF B!Leaves(c) THEN "BROADCAST" ELSE @]
<1>5. /\ id \in Int /\ id >= 0 /\ id < ElementsPerPacket /\ ElementsPerPacket \in Int
      /\ c.returned \in Int /\ c.returned >= 0 /\ c.entered \in Int
      /\ k \in Int /\ BcastCounts[k] \in Int /\ BcastCounts[k] >= 1
      /\ c.op \in {"SYNCH", "BROADCAST"}
  <2>1. BcastCounts[k] \in Nat \ {0} /\ k \in Int
    BY <1>3, BNumbers
  <2> QED  BY <1>2, <2>1, BChannelFields, Numbers
<1>6. c.entered < BcastCounts[k] /\ (B!Leaves(c) <=> id + 1 = ElementsPerPacket)
  BY <1>3, <1>5 DEF B!Leaves
<1>7. id2 \in B!Slots
  <2>1. id2 \in 0 .. ElementsPerPacket - 1
    BY <1>5, <1>6
  <2> HIDE DEF id2
  <2> QED  BY <2>1, BNumbers
<1>8. /\ bchan' \in [Ranks -> BChannel]
      /\ \A q \in Ranks \ {r} : bchan'[q] = bchan[q]
      /\ c2 = [c EXCEPT !.net = packed, !.packet_element_id = id2, !.op = op2,
                        !.returned = c.entered]
  <2>1. B!Returned(sent) = [c EXCEPT !.net = packed, !.packet_element_id = id2, !.op = op2,
                                     !.returned = c.entered]
    <3>1. sent.entered = c.entered /\ sent.coll = k
      BY <1>2 DEF BChannel
    <3>2. sent = [c EXCEPT !.net = packed, !.packet_element_id = id2, !.op = op2]
      BY <1>2 DEF BChannel
    <3> HIDE DEF sent
    <3>3. B!Returned(sent) = [sent EXCEPT !.returned = c.entered]
      BY <3>1 DEF B!Returned
    <3> QED  BY <1>2, <3>2, <3>3 DEF BChannel
  <2>2. [c EXCEPT !.net = packed, !.packet_element_id = id2, !.op = op2,
                  !.returned = c.entered] \in BChannel
    BY <1>2, <1>5, <1>7 DEF BChannel
  <2>3. bchan \in [Ranks -> BChannel]
    BY <1>1, BTypeOK
  <2>4. bchan' = [bchan EXCEPT ![r] = B!Returned(sent)]
    BY <1>4
  <2> HIDE DEF sent
  <2> QED  BY <2>1, <2>2, <2>3, <2>4
<1>9. /\ c2.coll = k /\ c2.entered = c.entered /\ c2.returned = c.entered
      /\ c2.init = c.init /\ c2.op = op2 /\ c2.packet_element_id = id2
      /\ c2.net = packed /\ c2.net_2 = c.net_2
      /\ c2.packet_element_id_rcv = c.packet_element_id_rcv
  BY <1>2, <1>8 DEF BChannel
<1> HIDE DEF c2
<1>10. /\ \A q \in Ranks \ {r} : broadcast'[q] = broadcast[q]
       /\ broadcast'[r] = IF B!Leaves(c) THEN <<m>> ELSE broadcast[r]
       /\ broadcast' \in [Ranks -> Seq(BMessage)]
  <2>1. broadcast \in [Ranks -> Seq(BMessage)]
    BY <1>1, BTypeOK
  <2>2. m \in BMessage
    BY <1>4, <1>5 DEF BMessage
  <2>3. <<m>> \in Seq(BMessage)
    BY <2>2
  <2> HIDE DEF m
  <2> QED  BY <1>4, <2>1, <2>3 DEF m
<1>11. B!TypeOK'
  BY <1>1, <1>3, <1>8, <1>10, BTypeOK, BTypeOKNext
<1>12. BFills(r, c) = <<k, i>>
       /\ BFills(r, c2) = <<k, IF B!Leaves(c) THEN i + ElementsPerPacket ELSE i>>
  BY <1>3, <1>5, <1>6, <1>9 DEF BFills
<1>13. BLine(r)' = BLine(r) /\ BFifoInv(r, broadcast'[r], BFills(r, c2))
  <2>1. BSendInv(r, c) /\ BFifoInv(r, broadcast[r], BFills(r, c))
    BY <1>1 DEF BRankInv
  <2>2. CASE B!Leaves(c)
    <3>1. c.op = "SYNCH" <=> i = 1
      BY <1>3, <1>5, <2>1 DEF BSendInv
    <3>2. BFollows(r, <<k, i>>, BFills(r, c2))
      <4>1. i + ElementsPerPacket <= BcastCounts[k]
        BY <1>3, <1>5, <1>6, <2>2
      <4> QED  BY <1>12, <2>2, <4>1 DEF BFollows
    <3> HIDE DEF i
    <3>3. /\ \A x : BOffers(r, <<m>>, x) = <<k, i>>
          /\ BFifoInv(r, <<m>>, BFills(r, c2))
      BY <1>3, <1>4, <2>2, <3>1, <3>2, BOffered
    <3> QED  BY <1>4, <1>10, <1>12, <2>2, <3>3 DEF BLine, BOffers
  <2>3. CASE ~ B!Leaves(c)
    BY <1>10, <1>12, <2>1, <2>3 DEF BLine, BOffers, c2
  <2> QED  BY <2>2, <2>3
<1>14. \A q \in Ranks : BLine(q)' = BLine(q)
  <2>1. \A q \in Ranks \ {r} : BLine(q)' = BLine(q)
    BY <1>8, <1>10 DEF BLine
  <2> QED  BY <1>13, <2>1
<1>15. \A q \in Ranks : \A d \in Ranks \ {q} : \A j :
           BToCount(j, bchan'[d], bcontrol'[d][q]) <=> BToCount(j, bchan[d], bcontrol[d][q])
  BY <1>3, <1>8, <1>9 DEF BToCount, c2
<1>16. ASSUME NEW q \in Ranks PROVE BRankInv(q)'
  <2>1. BRankInv(q)
    BY <1>1
  <2>2. CASE q # r
    <3>1. bchan'[q] = bchan[q] /\ broadcast'[q] = broadcast[q]
      BY <1>8, <1>10, <2>2
    <3>2. /\ BFifoInv(q, broadcast'[q], BFills(q, bchan'[q]))
          /\ BKernelInv(q, bsupport'[q], BLine(q)', BUncounted(q, bsupport[q].mess[0][1])')
      BY <1>3, <1>15, <2>1, <3>1, BLineStays
    <3> QED  BY <1>3, <2>1, <3>1, <3>2 DEF BRankInv
  <2>3. CASE q = r
    <3>1. BCallInv(c2)
      <4>1. /\ c2.entered = c2.returned /\ c2.coll <= B!NumCollectives
            /\ c2.returned < BcastCounts[c2.coll]
        BY <1>3, <1>5, <1>6, <1>9
      <4> QED  BY <1>5, <1>9, <4>1, BNumbers DEF BCallInv
    <3>2. BSendInv(r, c2)
      <4>1. BSendInv(r, c)
        BY <2>1, <2>3 DEF BRankInv
      <4>2. id2 <= c.entered /\ (op2 = "SYNCH" <=> id2 = c.entered)
        BY <1>3, <1>5, <4>1 DEF BSendInv
      <4>3. ASSUME NEW s \in 0 .. id2 - 1
            PROVE  packed[s] = <<k, c.entered - id2 + 1 + s>>
        <5>1. ~ B!Leaves(c) /\ id2 = id + 1 /\ s \in 0 .. id
          BY <1>5, <4>3
        <5>2. c.entered - id2 + 1 + s = i + s
          BY <1>3, <1>5, <5>1
        <5> QED  BY <1>4, <5>1, <5>2
      <4> QED  BY <1>3, <1>9, <4>1, <4>2, <4>3 DEF BSendInv
    <3>3. BKernelInv(r, bsupport'[r], BLine(r)', BUncounted(r, bsupport[r].mess[0][1])')
      <4>1. BUncounted(r, bsupport[r].mess[0][1])' = BUncounted(r, bsupport[r].mess[0][1])
        <5> DEFINE j == bsupport[r].mess[0][1]
        <5>1. \A d \in Ranks \ {r} : BToCount(j, bchan'[d], bcontrol'[d][r])
                                        <=> BToCount(j, bchan[d], bcontrol[d][r])
          BY <1>15
        <5> QED  BY <1>3, <5>1 DEF BUncounted
      <4> QED  BY <1>3, <1>13, <2>1, <2>3, <4>1 DEF BRankInv
    <3>4. BRooted(r, c2.coll)
      BY <1>3, <1>9
    <3> QED  BY <1>3, <1>13, <2>3, <3>1, <3>2, <3>3, <3>4 DEF BRankInv, c2
  <2> QED  BY <2>2, <2>3
<1>17. ASSUME NEW b \in Ranks, NEW d \in Ranks PROVE BPairInv(b, d)'
  <2>1. BPairInv(b, d) /\ BLine(b)' = BLine(b)
    BY <1>1, <1>14
  <2>2. CASE d # r
    <3>1. bchan'[d] = bchan[d]
      BY <1>8, <2>2
    <3> QED  BY <1>3, <2>1, <3>1, BPairStays
  <2>3. CASE d = r
    <3>1. b # d => ~ BRooted(b, k)
      BY <1>3, <2>3 DEF BRooted
    <3>2. bdata[b][d] = <<>> /\ bcontrol[d][b] = <<>>
      BY <2>1, <2>3, <3>1 DEF BPairInv, BQueueInv, BRequestInv
    <3>3. BQueueInv(bdata'[b][d], b, d, c2) /\ BRequestInv(bcontrol'[d][b], d, b, c2)
      BY <1>3, <3>2 DEF BQueueInv, BRequestInv
    <3>4. BAskInv(b, d, c2, bcontrol'[d][b], BX(b, d)', bsupport'[b])
      BY <1>9, <3>1 DEF BAskInv
    <3>5. b # d => BAt(b, c2.coll, BX(b, d)', BGives(bsupport'[b], d, BLine(b)'))
      BY <1>3, <1>9, <2>1, <2>3, <3>1 DEF BPairInv, BAt
    <3> QED  BY <2>3, <3>3, <3>4, <3>5 DEF BPairInv, c2
  <2> QED  BY <2>2, <2>3
<1> QED  BY <1>11, <1>16, <1>17 DEF BInv

LEMMA BSendLastStep ==
    ASSUME BInv, NEW r \in Ranks, B!Send(r),
           bchan[r].entered = BcastCounts[bchan[r].coll]
    PROVE  BInv'
<1> DEFINE c  == bchan[r]
           k  == c.coll
           id == c.packet_element_id
           i  == c.returned - id + 1
<1>1. B!TypeOK /\ (\A q \in Ranks : BRankInv(q)) /\ \A b, d \in Ranks : BPairInv(b, d)
  BY DEF BInv
<1>2. c \in BChannel
  BY <1>1, BTypes
<1>3. /\ k \in 1 .. B!NumCollectives /\ BRooted(r, k)
      /\ c.entered = c.returned + 1 /\ c.entered = BcastCounts[k]
      /\ i \in 1 .. BcastCounts[k]
      /\ bsupport' = bsupport /\ bdata' = bdata /\ bcontrol' = bcontrol
  BY BSends
<1>4. PICK packed \in B!Packet :
          /\ B!Leaves(c) => broadcast[r] = <<>> /\ BPacket(packed, k, i)
          /\ broadcast' = [broadcast EXCEPT ![r] =
                 IF B!Leaves(c) THEN <<[op |-> c.op, src |-> r, net |-> packed]>> ELSE @]
          /\ bchan' = [bchan EXCEPT ![r] = B!Returned([c EXCEPT
                 !.net = packed,
                 !.packet_element_id = IF B!Leaves(c) THEN 0 ELSE @ + 1,
                 !.op = IF B!Leaves(c) THEN "BROADCAST" ELSE @])]
  BY BSends
<1> DEFINE m    == [op |-> c.op, src |-> r, net |-> packed]
           sent == [c EXCEPT !.net = packed,
                             !.packet_element_id = IF B!Leaves(c) THEN 0 ELSE @ + 1,
                             !.op = IF B!Leaves(c) THEN "BROADCAST" ELSE @]
<1>5. /\ id \in Int /\ id >= 0 /\ id < ElementsPerPacket /\ ElementsPerPacket \in Int
      /\ c.returned \in Int /\ c.returned >= 0 /\ c.entered \in Int
      /\ k \in Int /\ BcastCounts[k] \in Int /\ BcastCounts[k] >= 1
      /\ c.op \in {"SYNCH", "BROADCAST"}
  <2>1. k \in 1 .. B!NumCollectives
    BY <1>3
  <2>2. BcastCounts[k] \in Nat \ {0} /\ k \in Int
    BY <2>1, BNumbers
  <2> QED  BY <1>2, <2>2, BChannelFields, Numbers
<1>6. B!Leaves(c)
  BY <1>3 DEF B!Leaves
<1>7. /\ bchan' \in [Ranks -> BChannel]
      /\ \A q \in Ranks \ {r} : bchan'[q] = bchan[q]
      /\ bchan'[r] = B!Opened(k + 1)
  <2>1. B!Returned(sent) = B!Opened(k + 1)
    <3>1. sent.entered = c.entered /\ sent.coll = k
      BY <1>2 DEF BChannel
    <3> HIDE DEF sent
    <3> QED  BY <1>3, <3>1 DEF B!Returned
  <2>2. B!Opened(k + 1) \in BChannel
    <3>1. k + 1 \in 1 .. B!NumCollectives + 1
      BY <1>3, BNumbers
    <3> QED  BY <3>1, BOpenedFields
  <2>3. bchan \in [Ranks -> BChannel]
    BY <1>1, BTypeOK
  <2>4. bchan' = [bchan EXCEPT ![r] = B!Returned(sent)]
    BY <1>4
  <2> HIDE DEF sent
  <2> QED  BY <2>1, <2>2, <2>3, <2>4
<1>8. /\ \A q \in Ranks \ {r} : broadcast'[q] = broadcast[q]
      /\ broadcast[r] = <<>> /\ broadcast'[r] = <<m>>
      /\ broadcast' \in [Ranks -> Seq(BMessage)]
  <2>1. broadcast \in [Ranks -> Seq(BMessage)]
    BY <1>1, BTypeOK
  <2>2. m \in BMessage
    BY <1>4, <1>5 DEF BMessage
  <2>3. <<m>> \in Seq(BMessage)
    BY <2>2
  <2>4. broadcast' = [broadcast EXCEPT ![r] = <<m>>] /\ broadcast[r] = <<>>
    BY <1>4, <1>6
  <2> HIDE DEF m
  <2> QED  BY <2>1, <2>3, <2>4
<1>9. B!TypeOK'
  BY <1>1, <1>3, <1>7, <1>8, BTypeOK, BTypeOKNext
<1>10. BFills(r, c) = <<k, i>> /\ BFills(r, bchan'[r]) = <<k + 1, 1>>
  <2>1. BFills(r, c) = <<k, i>>
    BY <1>3 DEF BFills
  <2>2. BFills(r, B!Opened(k + 1)) = <<k + 1, 1>>
    BY BOpenedFields
  <2> QED  BY <1>7, <2>1, <2>2
<1>11. BLine(r)' = BLine(r) /\ BFifoInv(r, broadcast'[r], BFills(r, bchan'[r]))
  <2>1. BSendInv(r, c)
    BY <1>1 DEF BRankInv
  <2>2. c.op = "SYNCH" <=> i = 1
    BY <1>3, <1>5, <2>1 DEF BSendInv
  <2>3. BFollows(r, <<k, i>>, BFills(r, bchan'[r]))
    <3>1. ~ i + ElementsPerPacket <= BcastCounts[k]
      BY <1>3, <1>5
    <3> HIDE DEF i
    <3> QED  BY <1>5, <1>10, <3>1 DEF BFollows
  <2> HIDE DEF i
  <2>4. /\ \A x : BOffers(r, <<m>>, x) = <<k, i>>
        /\ BFifoInv(r, <<m>>, BFills(r, bchan'[r]))
    BY <1>3, <1>4, <1>6, <2>2, <2>3, BOffered
  <2> QED  BY <1>8, <1>10, <2>4 DEF BLine, BOffers
<1>12. \A q \in Ranks : BLine(q)' = BLine(q)
  <2>1. \A q \in Ranks \ {r} : BLine(q)' = BLine(q)
    BY <1>7, <1>8 DEF BLine
  <2> QED  BY <1>11, <2>1
<1>13. /\ \A b \in Ranks : BPairInv(b, r)'
       /\ \A b \in Ranks \ {r} : \A j : BcastRoots[j] = b /\ j \in 1 .. B!NumCollectives =>
              (BToCount(j, bchan'[r], bcontrol'[r][b]) <=>
               BToCount(j, bchan[r], bcontrol[r][b]))
  <2>1. \A b \in Ranks \ {r} : ~ BRooted(b, k)
    BY <1>3 DEF BRooted
  <2>2. \A b \in Ranks : bdata'[b][r] = <<>> /\ bcontrol[r][b] = <<>>
    <3>1. \A b \in Ranks : BQueueInv(bdata[b][r], b, r, c) /\ BRequestInv(bcontrol[r][b], r, b, c)
      BY <1>1 DEF BPairInv
    <3> QED  BY <1>3, <2>1, <3>1 DEF BQueueInv, BRequestInv
  <2> QED  BY <1>3, <1>7, <1>12, <2>1, <2>2, BMovesOn
<1>14. ASSUME NEW q \in Ranks PROVE BRankInv(q)'
  <2>1. BRankInv(q)
    BY <1>1
  <2>2. CASE q # r
    <3>1. bchan'[q] = bchan[q] /\ broadcast'[q] = broadcast[q]
      BY <1>7, <1>8, <2>2
    <3>2. ASSUME ~ bsupport[q].external, NEW d \in Ranks \ {q}
          PROVE  LET j == bsupport[q].mess[0][1]
                 IN  BToCount(j, bchan'[d], bcontrol'[d][q])
                         <=> BToCount(j, bchan[d], bcontrol[d][q])
      <4>1. CASE d = r
        <5>1. bsupport[q].mess[0][1] \in 1 .. B!NumCollectives
              /\ BcastRoots[bsupport[q].mess[0][1]] = q
          BY <2>1, <3>2 DEF BRankInv, BKernelInv, BItem, BPacket
        <5> QED  BY <1>13, <2>2, <4>1, <5>1
      <4>2. CASE d # r
        BY <1>3, <1>7, <4>2
      <4> QED  BY <4>1, <4>2
    <3>3. /\ BFifoInv(q, broadcast'[q], BFills(q, bchan'[q]))
          /\ BKernelInv(q, bsupport'[q], BLine(q)', BUncounted(q, bsupport[q].mess[0][1])')
      BY <1>3, <2>1, <3>1, <3>2, BLineStays
    <3> QED  BY <1>3, <2>1, <3>1, <3>3 DEF BRankInv
  <2>3. CASE q = r
    <3>1. BCallInv(bchan'[r]) /\ BSendInv(r, bchan'[r]) /\ BReadInv(bchan'[r])
      <4>1. k + 1 \in 1 .. B!NumCollectives + 1
        BY <1>3, BNumbers
      <4> QED  BY <1>7, <4>1, BOpenedFields, ZenonT(30)
    <3>2. BKernelInv(r, bsupport'[r], BLine(r)', BUncounted(r, bsupport[r].mess[0][1])')
      <4>1. BUncounted(r, bsupport[r].mess[0][1])' = BUncounted(r, bsupport[r].mess[0][1])
        BY <1>3, <1>7 DEF BUncounted
      <4> QED  BY <1>3, <1>11, <2>1, <2>3, <4>1 DEF BRankInv
    <3> QED  BY <1>3, <1>11, <2>3, <3>1, <3>2 DEF BRankInv
  <2> QED  BY <2>2, <2>3
<1>15. ASSUME NEW b \in Ranks, NEW d \in Ranks PROVE BPairInv(b, d)'
  <2>1. CASE d # r
    <3>1. bchan'[d] = bchan[d] /\ BPairInv(b, d) /\ BLine(b)' = BLine(b)
      BY <1>1, <1>7, <1>12, <2>1
    <3> QED  BY <1>3, <3>1, BPairStays
  <2> QED  BY <1>13, <2>1
<1> QED  BY <1>9, <1>14, <1>15 DEF BInv

-----------------------------------------------------------------------------
(* What the kernel does *)

LEMMA FiniteRanks ==
    /\ IsFiniteSet(Ranks)
    /\ \A r \in Ranks : Cardinality(Ranks \ {r}) = NumRanks - 1
<1>1. IsFiniteSet(Ranks) /\ Cardinality(Ranks) = NumRanks
  BY Numbers, FS_Interval DEF Ranks
<1>2. ASSUME NEW r \in Ranks PROVE Cardinality(Ranks \ {r}) = NumRanks - 1
  BY <1>1, FS_RemoveElement
<1> QED  BY <1>1, <1>2

LEMMA BSupportFields ==
    ASSUME NEW s \in BSupport
    PROVE  /\ s.external \in BOOLEAN /\ s.root \in Ranks /\ s.mess \in B!Packet
           /\ s.rcv \in Int /\ s.rcv >= 0
           /\ s.received_request \in Int /\ s.received_request >= 0
           /\ s.received_request <= NumRanks - 1
BY Numbers DEF BSupport

(* Who expects what the kernel of b holds is in its broadcast, or before it  *)
(* if it is the first packet. *)
LEMMA BAtItem ==
    ASSUME NEW b \in Ranks, NEW net, BItem(b, net), NEW k \in Int, NEW x, BAt(b, k, x, net[0])
    PROVE  \/ k < net[0][1] /\ net[0][2] = 1 /\ (BRooted(b, k) => x > BcastCounts[k])
           \/ k = net[0][1] /\ x = net[0][2] /\ BRooted(b, k)
<1>1. /\ net[0][1] \in 1 .. B!NumCollectives /\ BcastRoots[net[0][1]] = b
      /\ net[0][1] \in Int
  BY BNumbers DEF BItem, BPacket
<1>2. BRooted(b, net[0][1])
  BY <1>1 DEF BRooted
<1>3. k > net[0][1] => net[0][1] \in net[0][1] .. k - 1
  BY <1>1
<1> QED  BY <1>1, <1>2, <1>3 DEF BAt

LEMMA BReadApplicationStep ==
    ASSUME BInv, NEW r \in Ranks, B!ReadApplication(r)
    PROVE  BInv'
<1> DEFINE s == bsupport[r]
           m == broadcast[r][1]
           j == m.net[0][1]
           s2 == bsupport'[r]
<1>1. B!TypeOK /\ (\A q \in Ranks : BRankInv(q)) /\ \A b, d \in Ranks : BPairInv(b, d)
  BY DEF BInv
<1>2. /\ broadcast[r] # <<>> /\ broadcast[r] \in Seq(BMessage) /\ m \in BMessage
      /\ Head(broadcast[r]) = m
  <2>1. broadcast[r] # <<>> /\ broadcast[r] \in Seq(BMessage)
    BY <1>1, BTypes DEF B!ReadApplication
  <2> QED  BY <2>1, HeadTailProperties
<1>3. /\ s.external /\ s \in BSupport
      /\ bchan' = bchan /\ bdata' = bdata /\ bcontrol' = bcontrol
      /\ broadcast' = [broadcast EXCEPT ![r] = <<>>]
      /\ bsupport' = [bsupport EXCEPT ![r] =
             [external |-> FALSE, rcv |-> 0, root |-> m.src,
              received_request |-> B!Requests(s, m), mess |-> m.net]]
  BY <1>1, <1>2, BTypes DEF B!ReadApplication
<1>4. /\ BFifoInv(r, broadcast[r], BFills(r, bchan[r])) /\ s.received_request = 0
  BY <1>1, <1>3 DEF BRankInv, BKernelInv
<1>5. /\ m.src = r /\ BItem(r, m.net) /\ BFollows(r, m.net[0], BFills(r, bchan[r]))
      /\ m.op = "SYNCH" <=> m.net[0][2] = 1
  BY <1>2, <1>4 DEF BFifoInv
<1>6. B!Requests(s, m) = IF m.op = "SYNCH" THEN NumRanks - 1 ELSE 0
  BY <1>4, BNumbers DEF B!Requests
<1>7. /\ bsupport' \in [Ranks -> BSupport]
      /\ \A q \in Ranks \ {r} : bsupport'[q] = bsupport[q]
      /\ ~ s2.external /\ s2.rcv = 0 /\ s2.root = r /\ s2.mess = m.net
      /\ s2.received_request = IF m.op = "SYNCH" THEN NumRanks - 1 ELSE 0
  <2>1. m.net \in B!Packet /\ m.src \in Ranks
    BY <1>2 DEF BMessage
  <2>2. [external |-> FALSE, rcv |-> 0, root |-> m.src,
         received_request |-> B!Requests(s, m), mess |-> m.net] \in BSupport
    BY <1>6, <2>1, Numbers DEF BSupport
  <2>3. bsupport \in [Ranks -> BSupport]
    BY <1>1, BTypeOK
  <2> QED  BY <1>3, <1>5, <1>6, <2>2, <2>3
<1>8. /\ broadcast'[r] = <<>> /\ \A q \in Ranks \ {r} : broadcast'[q] = broadcast[q]
      /\ broadcast' \in [Ranks -> Seq(BMessage)]
  <2>1. broadcast \in [Ranks -> Seq(BMessage)] /\ <<>> \in Seq(BMessage)
    BY <1>1, BTypeOK, EmptySeq
  <2> QED  BY <1>3, <2>1
<1>9. B!TypeOK'
  BY <1>1, <1>3, <1>7, <1>8, BTypeOK, BTypeOKNext
<1>10. /\ BLine(r) = m.net[0] /\ BLine(r)' = BFills(r, bchan[r])
       /\ \A q \in Ranks \ {r} : BLine(q)' = BLine(q)
  BY <1>2, <1>3, <1>8 DEF BLine, BOffers
<1>11. ASSUME NEW d \in Ranks \ {r}
       PROVE  /\ BAt(r, bchan[d].coll, BX(r, d), m.net[0])
              /\ BAskInv(r, d, bchan[d], bcontrol[d][r], BX(r, d), s)
              /\ bchan[d].coll \in Int
  BY <1>1, <1>3, <1>10, BTypes, BChannelFields DEF BPairInv, BGives
<1>12. Cardinality(BUncounted(r, j)) = IF m.op = "SYNCH" THEN NumRanks - 1 ELSE 0
  <2>1. ASSUME NEW d \in Ranks \ {r}
        PROVE  BToCount(j, bchan[d], bcontrol[d][r]) <=> m.op = "SYNCH"
    <3>1. \/ bchan[d].coll < j /\ m.net[0][2] = 1
          \/ bchan[d].coll = j /\ BX(r, d) = m.net[0][2] /\ BRooted(r, bchan[d].coll)
      BY <1>5, <1>11, BAtItem
    <3>2. bchan[d].coll < j => bchan[d].coll # j
      <4>1. j \in 1 .. B!NumCollectives
        BY <1>5 DEF BItem, BPacket
      <4> HIDE DEF j
      <4> QED  BY <1>11, <4>1, BNumbers
    <3>3. CASE bchan[d].coll < j
      BY <1>5, <3>1, <3>2, <3>3 DEF BToCount
    <3>4. CASE bchan[d].coll = j /\ BX(r, d) = m.net[0][2] /\ BRooted(r, bchan[d].coll)
      BY <1>3, <1>5, <1>11, <3>2, <3>4 DEF BToCount, BAskInv
    <3> QED  BY <3>1, <3>3, <3>4
  <2>2. CASE m.op = "SYNCH"
    <3>1. BUncounted(r, j) = Ranks \ {r}
      BY <2>1, <2>2 DEF BUncounted
    <3> QED  BY <2>2, <3>1, FiniteRanks
  <2>3. CASE m.op # "SYNCH"
    <3>1. BUncounted(r, j) = {}
      BY <2>1, <2>3 DEF BUncounted
    <3> QED  BY <2>3, <3>1, FS_EmptySet
  <2> QED  BY <2>2, <2>3
<1>13. ASSUME NEW q \in Ranks PROVE BRankInv(q)'
  <2>1. BRankInv(q)
    BY <1>1
  <2>2. CASE q # r
    <3>1. BUncounted(q, bsupport[q].mess[0][1])' = BUncounted(q, bsupport[q].mess[0][1])
      BY <1>3, <1>7, <2>2 DEF BUncounted
    <3> QED  BY <1>3, <1>7, <1>8, <1>10, <2>1, <2>2, <3>1 DEF BRankInv
  <2>3. CASE q = r
    <3>1. BUncounted(r, bsupport[r].mess[0][1])' = BUncounted(r, j)
      BY <1>3, <1>7 DEF BUncounted
    <3>2. BKernelInv(r, s2, BLine(r)', BUncounted(r, j))
      BY <1>5, <1>7, <1>10, <1>12, Numbers DEF BKernelInv
    <3>3. BFifoInv(r, broadcast'[r], BFills(r, bchan'[r]))
      BY <1>8 DEF BFifoInv
    <3> QED  BY <1>3, <2>1, <2>3, <3>1, <3>2, <3>3 DEF BRankInv
  <2> QED  BY <2>2, <2>3
<1>14. ASSUME NEW b \in Ranks, NEW d \in Ranks PROVE BPairInv(b, d)'
  <2>1. BPairInv(b, d) /\ BX(b, d)' = BX(b, d)
    BY <1>1, <1>3 DEF BX
  <2>2. CASE b # r
    BY <1>1, <1>3, <1>7, <1>10, <2>2, BPairStays
  <2>3. CASE b = r /\ d = r
    BY <1>3, <2>1, <2>3 DEF BPairInv, BAskInv
  <2>4. CASE b = r /\ d # r
    <3>1. BAskInv(r, d, bchan[d], bcontrol[d][r], BX(r, d), s2)
      BY <1>3, <1>11, <2>4 DEF BAskInv
    <3>2. BGives(s2, d, BLine(r)') = m.net[0]
      BY <1>7, Numbers DEF BGives
    <3> QED  BY <1>3, <1>11, <2>1, <2>4, <3>1, <3>2 DEF BPairInv
  <2> QED  BY <2>2, <2>3, <2>4
<1> QED  BY <1>9, <1>13, <1>14 DEF BInv

(* A request is counted for the broadcast of the packet that waits for it. *)
LEMMA BRequested ==
    ASSUME BInv, NEW r \in Ranks, bsupport[r].received_request # 0,
           NEW src \in Ranks, bcontrol[src][r] # <<>>
    PROVE  LET k == bchan[src].coll
           IN  /\ src # r /\ BRooted(r, k) /\ ~ bchan[src].init
               /\ bcontrol[src][r] = <<k>> /\ bsupport[r].mess[0] = <<k, 1>>
<1> DEFINE s == bsupport[r]
           k == bchan[src].coll
<1>1. BKernelInv(r, s, BLine(r), BUncounted(r, s.mess[0][1])) /\ BPairInv(r, src)
      /\ src \in Int /\ 0 <= src
  BY Numbers DEF BInv, BRankInv
<1>2. ~ s.external /\ BItem(r, s.mess) /\ s.rcv = 0
  BY <1>1 DEF BKernelInv
<1>3. src # r /\ BRooted(r, k) /\ ~ bchan[src].init /\ bcontrol[src][r] = <<k>>
  BY <1>1 DEF BPairInv, BRequestInv
<1>4. BX(r, src) = 1
  BY <1>1, <1>3 DEF BPairInv, BAskInv
<1>5. BAt(r, k, 1, s.mess[0])
  <2>1. BGives(s, src, BLine(r)) = s.mess[0]
    BY <1>1, <1>2 DEF BGives
  <2> QED  BY <1>1, <1>3, <1>4, <2>1 DEF BPairInv
<1>6. k \in Int /\ ~ 1 > BcastCounts[k]
  BY <1>3, BNumbers DEF BRooted
<1>7. k = s.mess[0][1] /\ 1 = s.mess[0][2]
  BY <1>2, <1>3, <1>5, <1>6, BAtItem
<1>8. 1 + 0 = 1 /\ s.mess[0] = <<s.mess[0][1], s.mess[0][2] + 0>>
  BY <1>2, BNumbers DEF BItem, BPacket
<1> QED  BY <1>3, <1>7, <1>8

LEMMA BTakeRequestStep ==
    ASSUME BInv, NEW r \in Ranks, B!TakeRequest(r)
    PROVE  BInv'
<1> DEFINE s == bsupport[r]
           j == s.mess[0][1]
           s2 == bsupport'[r]
<1>1. B!TypeOK /\ (\A q \in Ranks : BRankInv(q)) /\ \A b, d \in Ranks : BPairInv(b, d)
  BY DEF BInv
<1>2. /\ ~ s.external /\ s.received_request # 0 /\ s \in BSupport
      /\ bchan' = bchan /\ bdata' = bdata /\ broadcast' = broadcast
      /\ bsupport' = [bsupport EXCEPT ![r].received_request = @ - 1]
      /\ bcontrol \in Net(BRequest)
  BY <1>1, BTypes, BTypeOK DEF B!TakeRequest
<1>3. PICK src \in Waiting(bcontrol, r) : bcontrol' = Take(bcontrol, src, r)
  BY BWires DEF B!TakeRequest
<1> DEFINE k == bchan[src].coll
<1>4. /\ src \in Ranks /\ bcontrol[src][r] # <<>>
      /\ bcontrol' \in Net(BRequest) /\ bcontrol'[src][r] = Tail(bcontrol[src][r])
      /\ \A a, b \in Ranks : a # src \/ b # r => bcontrol'[a][b] = bcontrol[a][b]
  BY <1>2, <1>3, TakeAt
<1>5. /\ src # r /\ BRooted(r, k) /\ ~ bchan[src].init /\ bcontrol[src][r] = <<k>>
      /\ s.mess[0] = <<k, 1>>
  BY <1>2, <1>4, BRequested
<1>6. bcontrol'[src][r] = <<>>
  BY <1>4, <1>5
<1>7. /\ BItem(r, s.mess) /\ BFollows(r, s.mess[0], BLine(r)) /\ s.root = r
      /\ s.received_request = Cardinality(BUncounted(r, j)) /\ s.rcv = 0
      /\ s.received_request \in Int
  BY <1>1, <1>2, BSupportFields DEF BRankInv, BKernelInv
<1>8. k = j /\ s.mess[0] = <<k, 1>>
  BY <1>5
<1>9. /\ bsupport' \in [Ranks -> BSupport]
      /\ \A q \in Ranks \ {r} : bsupport'[q] = bsupport[q]
      /\ s2.external = s.external /\ s2.rcv = s.rcv /\ s2.root = s.root
      /\ s2.mess = s.mess /\ s2.received_request = s.received_request - 1
  <2>1. s.received_request - 1 \in 0 .. NumRanks - 1
    BY <1>2, BSupportFields, Numbers
  <2>2. [s EXCEPT !.received_request = @ - 1] \in BSupport
    BY <1>2, <2>1 DEF BSupport
  <2>3. bsupport \in [Ranks -> BSupport]
    BY <1>1, BTypeOK
  <2>4. bsupport' = [bsupport EXCEPT ![r] = [s EXCEPT !.received_request = @ - 1]]
    BY <1>2, <2>3
  <2>5. s2 = [s EXCEPT !.received_request = @ - 1]
    BY <2>3, <2>4
  <2> QED  BY <1>2, <2>2, <2>3, <2>4, <2>5 DEF BSupport
<1>10. B!TypeOK'
  BY <1>1, <1>2, <1>4, <1>9, BTypeOK, BTypeOKNext
<1>11. \A q \in Ranks : BLine(q)' = BLine(q)
  BY <1>2 DEF BLine
<1> DEFINE left == {d \in Ranks \ {r} : BToCount(j, bchan'[d], bcontrol'[d][r])}
<1>12. left = BUncounted(r, j) \ {src} /\ src \in BUncounted(r, j)
  <2>1. \A d \in Ranks \ {r} : d # src =>
            (BToCount(j, bchan'[d], bcontrol'[d][r]) <=> BToCount(j, bchan[d], bcontrol[d][r]))
    BY <1>2, <1>4
  <2>2. BToCount(j, bchan[src], bcontrol[src][r])
    BY <1>4, <1>8 DEF BToCount
  <2>3. ~ BToCount(j, bchan'[src], bcontrol'[src][r])
    <3>1. k \in Int
      BY <1>1, <1>4, BTypes, BChannelFields
    <3> QED  BY <1>2, <1>5, <1>6, <1>8, <3>1 DEF BToCount
  <2> HIDE DEF j
  <2> QED  BY <1>2, <1>4, <1>5, <2>1, <2>2, <2>3 DEF BUncounted
<1>13. Cardinality(left) = s.received_request - 1
  <2>1. IsFiniteSet(BUncounted(r, j))
    <3>1. BUncounted(r, j) \subseteq Ranks
      BY DEF BUncounted
    <3> QED  BY <3>1, FiniteRanks, FS_Subset
  <2> DEFINE U == BUncounted(r, j)
  <2>2. IsFiniteSet(U) /\ left = U \ {src} /\ src \in U /\ s.received_request = Cardinality(U)
    BY <1>7, <1>12, <2>1
  <2> HIDE DEF U, left
  <2> QED  BY <2>2, FS_RemoveElement
<1>14. ASSUME NEW q \in Ranks PROVE BRankInv(q)'
  <2>1. BRankInv(q)
    BY <1>1
  <2>2. CASE q # r
    <3>1. BUncounted(q, bsupport[q].mess[0][1])' = BUncounted(q, bsupport[q].mess[0][1])
      BY <1>2, <1>4, <1>9, <2>2 DEF BUncounted
    <3> QED  BY <1>2, <1>9, <1>11, <2>1, <2>2, <3>1 DEF BRankInv
  <2>3. CASE q = r
    <3>1. BUncounted(r, bsupport[r].mess[0][1])' = left
      BY <1>9 DEF BUncounted
    <3>2. BKernelInv(r, s2, BLine(r), left)
      BY <1>1, <1>2, <1>7, <1>9, <1>13 DEF BRankInv, BKernelInv
    <3> QED  BY <1>2, <1>11, <2>1, <2>3, <3>1, <3>2 DEF BRankInv
  <2> QED  BY <2>2, <2>3
<1>15. ASSUME NEW b \in Ranks, NEW d \in Ranks PROVE BPairInv(b, d)'
  <2>1. BPairInv(b, d) /\ BX(b, d)' = BX(b, d) /\ BLine(b)' = BLine(b)
    BY <1>1, <1>2, <1>11 DEF BX
  <2>2. CASE b # r
    <3>1. bcontrol'[d][b] = bcontrol[d][b]
      BY <1>4, <2>2
    <3> QED  BY <1>1, <1>2, <1>9, <2>1, <2>2, <3>1, BPairStays
  <2>3. CASE b = r
    <3>1. BGives(s2, d, BLine(r)) = BGives(s, d, BLine(r))
      BY <1>9 DEF BGives
    <3>2. CASE d # src
      <4>1. bcontrol'[d][r] = bcontrol[d][r]
        BY <1>4, <3>2
      <4>2. BAskInv(r, d, bchan[d], bcontrol[d][r], BX(r, d), s2)
        BY <1>9, <2>1, <2>3 DEF BPairInv, BAskInv
      <4> QED  BY <1>2, <2>1, <2>3, <3>1, <4>1, <4>2 DEF BPairInv
    <3>3. CASE d = src
      <4>1. BAskInv(r, d, bchan[d], bcontrol'[d][r], BX(r, d), s2)
        BY <1>2, <1>5, <1>6, <1>8, <1>9, <3>3 DEF BAskInv
      <4>2. BRequestInv(bcontrol'[d][r], d, r, bchan[d])
        BY <1>6, <3>3 DEF BRequestInv
      <4> QED  BY <1>2, <2>1, <2>3, <3>1, <4>1, <4>2 DEF BPairInv
    <3> QED  BY <3>2, <3>3
  <2> QED  BY <2>2, <2>3
<1> QED  BY <1>10, <1>14, <1>15 DEF BInv

(* A packet sent to d *)
LEMMA BQueueAppend ==
    ASSUME NEW queue \in Seq(B!Packet), NEW b, NEW d, NEW c \in BChannel,
           NEW net \in B!Packet, NEW i \in Int,
           b # d, BRooted(b, c.coll), BQueueInv(queue, b, d, c),
           BPacket(net, c.coll, i), net[0][2] = i, BExpects(queue, c) = i
    PROVE  /\ BQueueInv(Append(queue, net), b, d, c)
           /\ BExpects(Append(queue, net), c) = i + ElementsPerPacket
<1> DEFINE more == Append(queue, net)
           n    == Len(queue)
<1>1. /\ n \in Nat /\ more \in Seq(B!Packet) /\ Len(more) = n + 1
      /\ more[n + 1] = net /\ \A j \in 1 .. n : more[j] = queue[j]
  BY AppendProperties
<1>2. more # <<>>
  BY <1>1, EmptySeq
<1>3. BExpects(more, c) = i + ElementsPerPacket
  BY <1>1, <1>2 DEF BExpects
<1>4. CASE queue = <<>>
  <2>1. n = 0
    BY <1>4
  <2>2. more[1] = net /\ Len(more) = 1 /\ BReads(c) = i
    BY <1>1, <1>4, <2>1 DEF BExpects
  <2> QED  BY <1>3, <2>2 DEF BQueueInv
<1>5. CASE queue # <<>>
  <2>1. n >= 1
    BY <1>1, <1>5, EmptySeq
  <2>2. more[1] = queue[1] /\ more[n] = queue[n]
    BY <1>1, <2>1
  <2>3. queue[n][0][2] + ElementsPerPacket = i
    BY <1>5 DEF BExpects
  <2> HIDE DEF more, n
  <2>4. /\ queue[1][0][2] = BReads(c)
        /\ \A j \in 1 .. n : BPacket(queue[j], c.coll, queue[j][0][2])
        /\ \A j \in 1 .. n - 1 : queue[j + 1][0][2] = queue[j][0][2] + ElementsPerPacket
    BY <1>5 DEF BQueueInv, n
  <2>5. \A j \in 1 .. Len(more) : BPacket(more[j], c.coll, more[j][0][2])
    <3>1. ASSUME NEW j \in 1 .. Len(more) PROVE j = n + 1 \/ j \in 1 .. n
      BY <1>1
    <3> QED  BY <1>1, <2>4, <3>1
  <2>6. \A j \in 1 .. Len(more) - 1 : more[j + 1][0][2] = more[j][0][2] + ElementsPerPacket
    <3>1. ASSUME NEW j \in 1 .. Len(more) - 1
          PROVE  (j = n) \/ (j \in 1 .. n - 1 /\ j + 1 \in 1 .. n /\ j \in 1 .. n)
      BY <1>1
    <3>2. more[n + 1][0][2] = more[n][0][2] + ElementsPerPacket
      BY <1>1, <2>2, <2>3
    <3>3. \A j \in 1 .. n - 1 : j + 1 \in 1 .. n /\ j \in 1 .. n =>
              more[j + 1][0][2] = more[j][0][2] + ElementsPerPacket
      BY <1>1, <2>4
    <3> QED  BY <3>1, <3>2, <3>3
  <2>7. more[1][0][2] = BReads(c)
    BY <2>2, <2>4
  <2> QED  BY <1>3, <2>5, <2>6, <2>7 DEF BQueueInv, more
<1> QED  BY <1>4, <1>5

(* The kernel of b gives d the packet at place p, and d expects what follows. *)
LEMMA BAtFollows ==
    ASSUME NEW b \in Ranks, NEW k \in 1 .. B!NumCollectives, NEW i \in Int, NEW next,
           next[1] \in Int, BRooted(b, k), BFollows(b, <<k, i>>, next)
    PROVE  /\ BAt(b, k, i + ElementsPerPacket, next)
           /\ i = 1 => ~ BAt(b, k, 1, next)
<1>1. /\ k \in Int /\ BcastCounts[k] \in Int /\ BcastCounts[k] >= 1
      /\ ElementsPerPacket \in Int /\ ElementsPerPacket >= 1
  BY BNumbers, Numbers
<1>2. CASE i + ElementsPerPacket <= BcastCounts[k]
  <2>1. next[1] = k /\ next[2] = i + ElementsPerPacket
    BY <1>2 DEF BFollows
  <2> QED  BY <1>1, <2>1 DEF BAt
<1>3. CASE ~ i + ElementsPerPacket <= BcastCounts[k]
  <2>1. next[1] > k /\ next[2] = 1 /\ \A j \in k + 1 .. next[1] - 1 : BcastRoots[j] # b
    BY <1>3 DEF BFollows
  <2>2. BAt(b, k, i + ElementsPerPacket, next)
    BY <1>1, <1>3, <2>1 DEF BAt
  <2>3. ~ BAt(b, k, 1, next)
    BY <1>1, <2>1 DEF BAt
  <2> QED  BY <2>2, <2>3
<1> QED  BY <1>2, <1>3

LEMMA BDeliverStep ==
    ASSUME BInv, NEW r \in Ranks, B!Deliver(r)
    PROVE  BInv'
<1> DEFINE s  == bsupport[r]
           k  == s.mess[0][1]
           i  == s.mess[0][2]
           to == s.rcv
           s2 == bsupport'[r]
<1>1. B!TypeOK /\ (\A q \in Ranks : BRankInv(q)) /\ \A b, d \in Ranks : BPairInv(b, d)
  BY DEF BInv
<1>2. /\ ~ s.external /\ s.received_request = 0 /\ s \in BSupport
      /\ IF to # s.root THEN bdata' = Put(bdata, r, to, s.mess) ELSE bdata' = bdata
      /\ bsupport' = [bsupport EXCEPT ![r].rcv = @ + 1,
                                      ![r].external = s.rcv + 1 = NumRanks]
      /\ bchan' = bchan /\ broadcast' = broadcast /\ bcontrol' = bcontrol
  BY <1>1, BTypes, BWires DEF B!Deliver
<1>3. /\ s.root = r /\ BItem(r, s.mess)
      /\ to \in Ranks /\ to \in Int /\ to < NumRanks /\ NumRanks \in Int
      /\ BFollows(r, s.mess[0], BLine(r)) /\ Cardinality(BUncounted(r, k)) = 0
  <2>1. BKernelInv(r, s, BLine(r), BUncounted(r, k))
    BY <1>1 DEF BRankInv
  <2>2. to \in Int /\ to >= 0
    BY <1>2, BSupportFields
  <2> QED  BY <1>2, <2>1, <2>2, Numbers DEF BKernelInv
<1>4. /\ k \in 1 .. B!NumCollectives /\ i \in 1 .. BcastCounts[k]
      /\ BPacket(s.mess, k, i) /\ BRooted(r, k) /\ s.mess[0] = <<k, i>>
      /\ s.mess \in B!Packet /\ i \in Int /\ i >= 1 /\ k \in Int
  <2>1. /\ k \in 1 .. B!NumCollectives /\ i \in 1 .. BcastCounts[k]
        /\ BPacket(s.mess, k, i) /\ BcastRoots[k] = r /\ s.mess \in B!Packet
    BY <1>3 DEF BItem, BPacket
  <2>2. i \in Int /\ i >= 1 /\ i + 0 = i /\ i <= BcastCounts[k] /\ k \in Int
    BY <2>1, BNumbers
  <2>3. s.mess[0] = <<k, i + 0>>
    BY <2>1, <2>2, BNumbers DEF BPacket
  <2> QED  BY <2>1, <2>2, <2>3 DEF BRooted
<1>5. BUncounted(r, k) = {}
  <2>1. IsFiniteSet(BUncounted(r, k))
    <3>1. BUncounted(r, k) \subseteq Ranks
      BY DEF BUncounted
    <3> QED  BY <3>1, FiniteRanks, FS_Subset
  <2> QED  BY <1>3, <2>1, FS_EmptySet
<1>6. /\ bsupport' \in [Ranks -> BSupport]
      /\ \A q \in Ranks \ {r} : bsupport'[q] = bsupport[q]
      /\ s2.external <=> to + 1 = NumRanks
      /\ s2.external \in BOOLEAN /\ s2.rcv = to + 1 /\ s2.root = s.root
      /\ s2.mess = s.mess /\ s2.received_request = 0
  <2>1. to + 1 \in 0 .. NumRanks
    BY <1>3, Numbers
  <2>2. [s EXCEPT !.rcv = to + 1, !.external = (to + 1 = NumRanks)] \in BSupport
    BY <1>2, <2>1 DEF BSupport
  <2>3. bsupport \in [Ranks -> BSupport]
    BY <1>1, BTypeOK
  <2>4. bsupport' = [bsupport EXCEPT ![r] =
                         [s EXCEPT !.rcv = to + 1, !.external = (to + 1 = NumRanks)]]
    BY <1>2, <2>3
  <2>5. s2 = [s EXCEPT !.rcv = to + 1, !.external = (to + 1 = NumRanks)]
    BY <2>3, <2>4
  <2> QED  BY <1>2, <2>2, <2>3, <2>4, <2>5 DEF BSupport
<1>7. /\ bdata' \in Net(B!Packet)
      /\ to # r => bdata'[r][to] = Append(bdata[r][to], s.mess)
      /\ \A a, b \in Ranks : (a # r \/ b # to \/ to = r) => bdata'[a][b] = bdata[a][b]
  <2>1. bdata \in Net(B!Packet)
    BY <1>1, BTypeOK
  <2>2. CASE to = r
    BY <1>2, <1>3, <2>1, <2>2
  <2>3. CASE to # r
    <3>1. bdata' = Put(bdata, r, to, s.mess)
      BY <1>2, <1>3, <2>3
    <3>2. s.mess \in B!Packet /\ to \in Ranks
      BY <1>3, <1>4
    <3> HIDE DEF s, to
    <3>3. LET net == Put(bdata, r, to, s.mess)
          IN  /\ net \in Net(B!Packet)
              /\ net[r][to] = Append(bdata[r][to], s.mess)
              /\ \A a, b \in Ranks : a # r \/ b # to => net[a][b] = bdata[a][b]
      BY <2>1, <3>2, PutAt, Z3
    <3> QED  BY <2>3, <3>1, <3>3
  <2> QED  BY <2>2, <2>3
<1>8. B!TypeOK'
  BY <1>1, <1>2, <1>6, <1>7, BTypeOK, BTypeOKNext
<1>9. \A q \in Ranks : BLine(q)' = BLine(q)
  BY <1>2 DEF BLine
<1>10. ASSUME NEW q \in Ranks PROVE BRankInv(q)'
  <2>1. BRankInv(q)
    BY <1>1
  <2>2. BUncounted(q, bsupport[q].mess[0][1])' = BUncounted(q, bsupport[q].mess[0][1])
    <3>1. bsupport'[q].mess = bsupport[q].mess
      BY <1>6
    <3> QED  BY <1>2, <3>1 DEF BUncounted
  <2>3. CASE q # r
    BY <1>2, <1>6, <1>9, <2>1, <2>2, <2>3 DEF BRankInv
  <2>4. CASE q = r
    <3>1. BKernelInv(r, s2, BLine(r), BUncounted(r, k))
      <4>1. ~ s2.external => s2.rcv < NumRanks
        BY <1>3, <1>6
      <4> QED  BY <1>3, <1>6, <4>1 DEF BKernelInv
    <3> QED  BY <1>2, <1>9, <2>1, <2>2, <2>4, <3>1 DEF BRankInv
  <2> QED  BY <2>3, <2>4
<1>11. ASSUME NEW d \in Ranks, d # to
       PROVE  BGives(s2, d, BLine(r)) = BGives(s, d, BLine(r))
  <2>1. d \in Int /\ d < NumRanks /\ NumRanks \in Int
    BY Numbers
  <2>2. to <= d <=> (to + 1 <= d /\ to + 1 # NumRanks)
    <3> HIDE DEF to
    <3> QED  BY <1>3, <1>11, <2>1
  <2>3. (~ s.external /\ s.rcv <= d) <=> (~ s2.external /\ s2.rcv <= d)
    BY <1>2, <1>6, <2>2
  <2> QED  BY <1>6, <2>3 DEF BGives
<1>12. ASSUME NEW d \in Ranks, d # r, d # to
       PROVE  BAskInv(r, d, bchan[d], bcontrol[d][r], BX(r, d), s2)
  <2>1. /\ BAskInv(r, d, bchan[d], bcontrol[d][r], BX(r, d), s)
        /\ BAt(r, bchan[d].coll, BX(r, d), BGives(s, d, BLine(r)))
    BY <1>1, <1>12 DEF BPairInv
  <2> SUFFICES ASSUME BRooted(r, bchan[d].coll), ~ bchan[d].init, bcontrol[d][r] = <<>>,
                      BX(r, d) = 1
               PROVE  ~ s2.external /\ s2.mess[0] = <<bchan[d].coll, 1>>
    BY <2>1 DEF BAskInv
  <2>2. s.mess[0] = <<bchan[d].coll, 1>>
    BY <1>12, <2>1 DEF BAskInv
  <2>3. bchan[d].coll = k /\ i = 1
    BY <2>2
  <2>4. ASSUME to + 1 = NumRanks PROVE FALSE
    <3>1. d \in Int /\ d < to
      BY <1>3, <1>12, <2>4, Numbers
    <3>2. BGives(s, d, BLine(r)) = BLine(r)
      BY <1>3, <3>1 DEF BGives
    <3>3. BAt(r, k, 1, BLine(r))
      BY <2>1, <2>3, <3>2
    <3>4. BFollows(r, <<k, i>>, BLine(r))
      BY <1>3, <1>4
    <3>5. BLine(r)[1] \in Int
      BY BGivesPlace
    <3> HIDE DEF k, i
    <3> QED  BY <1>4, <2>3, <3>3, <3>4, <3>5, BAtFollows
  <2> QED  BY <1>6, <2>2, <2>4
<1>13. ASSUME NEW d \in Ranks, d = to, d # r PROVE BPairInv(r, d)'
  <2> DEFINE c     == bchan[d]
             queue == bdata[r][d]
  <2>1. /\ BPairInv(r, d) /\ d \in Int
        /\ BAt(r, c.coll, BX(r, d), BGives(s, d, BLine(r)))
    BY <1>1, <1>3, <1>13 DEF BPairInv
  <2>2. c \in BChannel /\ c.coll \in Int /\ queue \in Seq(B!Packet)
    BY <1>1, BTypes, BChannelFields
  <2>3. ~ BToCount(k, c, bcontrol[d][r])
    BY <1>5, <1>13 DEF BUncounted
  <2>4. BGives(s, d, BLine(r)) = s.mess[0]
    BY <1>2, <1>13, <2>1 DEF BGives
  <2>5. c.coll = k /\ BX(r, d) = i
    <3>1. BAt(r, c.coll, BX(r, d), s.mess[0])
      BY <2>1, <2>4
    <3>2. ~ c.coll < k
      BY <2>3 DEF BToCount
    <3> QED  BY <1>3, <2>2, <3>1, <3>2, BAtItem
  <2>6. ~ c.init /\ bcontrol[d][r] = <<>>
    BY <2>3, <2>5 DEF BToCount
  <2>7. /\ BQueueInv(Append(queue, s.mess), r, d, c)
        /\ BExpects(Append(queue, s.mess), c) = i + ElementsPerPacket
    <3>1. BQueueInv(queue, r, d, c) /\ BExpects(queue, c) = i
      BY <2>1, <2>5 DEF BPairInv, BX
    <3>2. BPacket(s.mess, c.coll, i) /\ s.mess[0][2] = i /\ BRooted(r, c.coll)
      BY <1>4, <2>5
    <3>3. s.mess \in B!Packet /\ i \in Int
      BY <1>4
    <3> HIDE DEF queue, c, i, s, to
    <3> QED  BY <1>13, <2>2, <3>1, <3>2, <3>3, BQueueAppend
  <2>8. bdata'[r][d] = Append(queue, s.mess) /\ BX(r, d)' = i + ElementsPerPacket
    <3>1. bdata'[r][d] = Append(queue, s.mess) /\ bchan'[d] = c
      BY <1>2, <1>7, <1>13
    <3> QED  BY <2>7, <3>1 DEF BX
  <2>9. BAskInv(r, d, c, bcontrol[d][r], i + ElementsPerPacket, s2)
    <3>1. i + ElementsPerPacket # 1
      BY <1>4, Numbers
    <3> QED  BY <2>6, <3>1 DEF BAskInv
  <2>10. BAt(r, c.coll, i + ElementsPerPacket, BGives(s2, d, BLine(r)))
    <3>1. BGives(s2, d, BLine(r)) = BLine(r)
      BY <1>6, <1>13, <2>1 DEF BGives
    <3>2. BFollows(r, <<k, i>>, BLine(r))
      BY <1>3, <1>4
    <3>3. BLine(r)[1] \in Int
      BY BGivesPlace
    <3> HIDE DEF k, i
    <3> QED  BY <1>4, <2>5, <3>1, <3>2, <3>3, BAtFollows
  <2> QED  BY <1>2, <1>9, <2>1, <2>7, <2>8, <2>9, <2>10 DEF BPairInv
<1>14. ASSUME NEW b \in Ranks, NEW d \in Ranks PROVE BPairInv(b, d)'
  <2>1. BPairInv(b, d) /\ BLine(b)' = BLine(b)
    BY <1>1, <1>9
  <2>2. CASE b # r
    BY <1>2, <1>6, <1>7, <2>1, <2>2, BPairStays
  <2>3. CASE b = r /\ (d = r \/ d # to)
    <3>1. bdata'[b][d] = bdata[b][d]
      BY <1>7, <2>3
    <3>2. BX(b, d)' = BX(b, d)
      BY <1>2, <3>1 DEF BX
    <3>3. BAskInv(b, d, bchan[d], bcontrol[d][b], BX(b, d), s2)
      <4>1. CASE d = r
        BY <2>3, <4>1 DEF BAskInv
      <4>2. CASE d # r
        BY <1>12, <2>3, <4>2
      <4> QED  BY <4>1, <4>2
    <3>4. b # d => BGives(s2, d, BLine(b)) = BGives(s, d, BLine(b))
      BY <1>11, <2>3
    <3> QED  BY <1>2, <2>1, <2>3, <3>1, <3>2, <3>3, <3>4 DEF BPairInv
  <2>4. CASE b = r /\ d = to /\ d # r
    BY <1>13, <2>4
  <2> QED  BY <2>2, <2>3, <2>4
<1> QED  BY <1>8, <1>10, <1>14 DEF BInv

-----------------------------------------------------------------------------
LEMMA BNext ==
    ASSUME BInv, NEW r \in Ranks, B!Application(r) \/ B!Support(r)
    PROVE  BInv'
<1>1. CASE B!Call(r)
  BY <1>1, BCallStep
<1>2. CASE B!Send(r)
  BY <1>2, BSendStep, BSendLastStep
<1>3. CASE B!SendReady(r)
  BY <1>3, BReadyStep
<1>4. CASE B!Receive(r)
  BY <1>4, BReceiveStep, BReceiveLastStep
<1>5. CASE B!ReadApplication(r)
  BY <1>5, BReadApplicationStep
<1>6. CASE B!TakeRequest(r)
  BY <1>6, BTakeRequestStep
<1>7. CASE B!Deliver(r)
  BY <1>7, BDeliverStep
<1> QED  BY <1>1, <1>2, <1>3, <1>4, <1>5, <1>6, <1>7 DEF B!Application, B!Support

LEMMA BStutter ==
    ASSUME BInv, UNCHANGED bvars
    PROVE  BInv'
<1>1. /\ bchan' = bchan /\ bsupport' = bsupport /\ broadcast' = broadcast
      /\ bdata' = bdata /\ bcontrol' = bcontrol
  BY DEF bvars
<1>2. B!TypeOK' /\ \A q \in Ranks : BLine(q)' = BLine(q)
  BY <1>1, BTypeOK, BTypeOKNext DEF BInv, BLine
<1>3. ASSUME NEW q \in Ranks PROVE BRankInv(q)'
  <2>1. BUncounted(q, bsupport[q].mess[0][1])' = BUncounted(q, bsupport[q].mess[0][1])
    BY <1>1 DEF BUncounted
  <2> QED  BY <1>1, <1>2, <2>1 DEF BInv, BRankInv
<1>4. ASSUME NEW b \in Ranks, NEW d \in Ranks PROVE BPairInv(b, d)'
  BY <1>1, <1>2, BPairStays DEF BInv
<1> QED  BY <1>2, <1>3, <1>4 DEF BInv

(* What the invariant says of the properties *)
LEMMA BPacketOfQueue ==
    ASSUME BInv, NEW r \in Ranks, NEW src \in Ranks, NEW j \in 1 .. Len(bdata[src][r])
    PROVE  LET net == bdata[src][r][j]
           IN  net[0][1] = bchan[r].coll /\ net[0] = <<bchan[r].coll, net[0][2]>>
<1> DEFINE queue == bdata[src][r]
           net == queue[j]
<1>1. BQueueInv(queue, src, r, bchan[r]) /\ queue \in Seq(B!Packet)
  BY BTypes DEF BInv, BPairInv
<1>2. queue # <<>>
  BY <1>1
<1>3. BPacket(net, bchan[r].coll, net[0][2])
  BY <1>1, <1>2 DEF BQueueInv
<1>4. net[0] = <<bchan[r].coll, net[0][2] + 0>>
  BY <1>3, BNumbers, SMTT(30) DEF BPacket
<1>5. net[0][1] = bchan[r].coll /\ net[0][2] \in Int
  <2>1. net[0][1] = bchan[r].coll
    BY <1>4
  <2> QED  BY <1>3, <2>1, BNumbers DEF BPacket
<1> HIDE DEF net
<1> QED  BY <1>4, <1>5 DEF net

LEMMA BNoIntermixing == BInv => B!NoIntermixing
<1> SUFFICES ASSUME BInv, NEW r \in Ranks, NEW net \in UnderWay(bdata, r)
             PROVE  net[0][1] = bchan[r].coll
  BY BWires DEF B!NoIntermixing
<1>1. PICK src \in Ranks : \E j \in 1 .. Len(bdata[src][r]) : net = bdata[src][r][j]
  BY DEF UnderWay
<1> QED  BY <1>1, BPacketOfQueue

LEMMA BRequests == BInv => B!RequestsInTheirBroadcast
<1> SUFFICES ASSUME BInv, NEW r \in Ranks, bsupport[r].received_request > 0,
                    NEW k \in UnderWay(bcontrol, r)
             PROVE  k = bsupport[r].mess[0][1]
  BY BWires DEF B!RequestsInTheirBroadcast
<1>1. PICK src \in Ranks : \E j \in 1 .. Len(bcontrol[src][r]) : k = bcontrol[src][r][j]
  BY DEF UnderWay
<1>2. bcontrol[src][r] # <<>> /\ bsupport[r].received_request # 0
  BY <1>1
<1>3. bcontrol[src][r] = <<bchan[src].coll>>
      /\ bsupport[r].mess[0] = <<bchan[src].coll, 1>>
  BY <1>2, BRequested
<1> QED  BY <1>1, <1>3

LEMMA BNextElement ==
    ASSUME BInv, NEW r \in Ranks, bchan[r].returned < bchan[r].entered, ~ B!IsRoot(r)
    PROVE  IF bchan[r].packet_element_id_rcv = 0
           THEN \A src \in Waiting(bdata, r) :
                    bdata[src][r][1][0] = <<bchan[r].coll, bchan[r].entered>>
           ELSE bchan[r].net_2[bchan[r].packet_element_id_rcv]
                    = <<bchan[r].coll, bchan[r].entered>>
<1> DEFINE c == bchan[r]
<1>1. c \in BChannel /\ BCallInv(c)
  BY BTypes DEF BInv, BRankInv
<1>2. /\ c.coll \in Int /\ c.returned \in Int /\ c.entered = c.returned + 1
      /\ c.coll \in 1 .. B!NumCollectives /\ c.returned + 1 <= BcastCounts[c.coll]
  <2>1. /\ c.coll \in Int /\ c.coll >= 1 /\ B!NumCollectives \in Int
        /\ c.returned \in Int /\ c.returned >= 0
    BY <1>1, BChannelFields, BNumbers
  <2>2. c.coll \in 1 .. B!NumCollectives /\ c.entered = c.returned + 1
    BY <1>1, <2>1 DEF BCallInv
  <2>3. BcastCounts[c.coll] \in Int
    BY <2>2, BNumbers
  <2> QED  BY <1>1, <2>1, <2>2, <2>3 DEF BCallInv
<1>3. CASE c.packet_element_id_rcv = 0
  <2> SUFFICES ASSUME NEW src \in Waiting(bdata, r)
               PROVE  bdata[src][r][1][0] = <<c.coll, c.entered>>
    BY <1>3
  <2> DEFINE queue == bdata[src][r]
  <2>1. src \in Ranks /\ queue # <<>>
    BY DEF Waiting
  <2>2. queue \in Seq(B!Packet) /\ BQueueInv(queue, src, r, c)
    BY <2>1, BTypes DEF BInv, BPairInv
  <2>3. 1 \in 1 .. Len(queue)
    BY <2>1, <2>2, EmptySeq
  <2>4. queue[1][0] = <<c.coll, queue[1][0][2]>>
    BY <2>1, <2>3, BPacketOfQueue
  <2>5. queue[1][0][2] = c.returned + 1
    BY <1>3, <2>1, <2>2 DEF BQueueInv, BReads
  <2> QED  BY <1>2, <2>4, <2>5
<1>4. CASE c.packet_element_id_rcv # 0
  <2>1. BReadInv(c)
    BY <1>2 DEF BInv, BRankInv, BRooted, B!IsRoot
  <2> DEFINE id == c.packet_element_id_rcv
  <2>2. id \in id .. ElementsPerPacket - 1 /\ c.returned + 1 + (id - id) = c.entered
    BY <1>1, <1>2, BChannelFields, Numbers
  <2>3. c.net_2[id] = <<c.coll, c.entered>>
    BY <1>2, <1>4, <2>1, <2>2 DEF BReadInv
  <2> QED  BY <1>4, <2>3
<1> QED  BY <1>3, <1>4

LEMMA BNextElementRight == BInv => B!NextElementRight
<1> SUFFICES ASSUME BInv PROVE B!NextElementRight
  OBVIOUS
<1>1. \A r \in Ranks : \A src \in Waiting(bdata, r) :
          Head(bdata[src][r]) = bdata[src][r][1]
  BY DEF Waiting
<1> QED  BY <1>1, BWires, BNextElement DEF B!NextElementRight

LEMMA BNothingLeft == BInv => B!NothingLeft
<1> SUFFICES ASSUME BInv, \A r \in Ranks : bchan[r].coll = B!NumCollectives + 1
             PROVE  bdata = Quiet /\ bcontrol = Quiet
  BY BWires DEF B!NothingLeft
<1>1. ASSUME NEW a \in Ranks, NEW b \in Ranks
      PROVE  bdata[a][b] = <<>> /\ bcontrol[a][b] = <<>>
  <2>1. BPairInv(a, b) /\ BPairInv(b, a) /\ B!NumCollectives \in Nat
    BY BNumbers DEF BInv
  <2>2. \A s : ~ BRooted(s, B!NumCollectives + 1)
    BY <2>1 DEF BRooted
  <2> QED  BY <2>1, <2>2 DEF BPairInv, BQueueInv, BRequestInv
<1>2. bdata \in Net(B!Packet) /\ bcontrol \in Net(BRequest)
  BY BTypeOK DEF BInv
<1>3. bdata = Quiet
  BY <1>1, <1>2 DEF Net, Quiet
<1>4. bcontrol = Quiet
  BY <1>1, <1>2 DEF Net, Quiet
<1> QED  BY <1>3, <1>4

-----------------------------------------------------------------------------
(* What a program sees of a call: a channel, c, and what becomes of it, c2. *)
Silent(c, c2) == c2.coll = c.coll /\ c2.entered = c.entered /\ c2.returned = c.returned

Entering(c, c2) ==
    /\ c.entered = c.returned
    /\ c2.coll = c.coll /\ c2.entered = c.entered + 1 /\ c2.returned = c.returned

Returning(c, c2, calls) ==
    /\ c.returned < c.entered
    /\ IF c.entered = calls
       THEN c2.coll = c.coll + 1 /\ c2.entered = 0 /\ c2.returned = 0
       ELSE c2.coll = c.coll /\ c2.entered = c.entered /\ c2.returned = c.entered

(* Rank q has made its call i of collective k. *)
Called(chan, q, k, i) ==
    chan[q].coll > k \/ (chan[q].coll = k /\ chan[q].entered >= i)

AllCalled(chan, k, needs) ==
    \A need \in needs :
        need[1] \in Ranks /\ need[2] \in Nat \ {0} /\ Called(chan, need[1], k, need[2])

(* A step of rank r in its program, which returns only if all is there that  *)
(* its call needs. *)
Goes(chan, chan2, r, calls, needs) ==
    /\ \A q \in Ranks \ {r} : chan2[q] = chan[q]
    /\ \/ Silent(chan[r], chan2[r])
       \/ Entering(chan[r], chan2[r])
       \/ Returning(chan[r], chan2[r], calls) /\ AllCalled(chan, chan[r].coll, needs)

-----------------------------------------------------------------------------
(* The line of a root is never behind what it gives. *)
BUpto(p, f) == p[1] < f[1] \/ (p[1] = f[1] /\ p[2] <= f[2])

LEMMA BFollowsUpto ==
    ASSUME NEW b, NEW p, NEW f, BFollows(b, p, f), p[1] \in Int, p[2] \in Int, f[1] \in Int,
           f[2] \in Int
    PROVE  BUpto(p, f)
BY Numbers DEF BFollows, BUpto

LEMMA BGivesUpto ==
    ASSUME BInv, NEW b \in Ranks, NEW d
    PROVE  BUpto(BGives(bsupport[b], d, BLine(b)), BFills(b, bchan[b]))
<1> DEFINE s == bsupport[b]
           f == BFills(b, bchan[b])
           l == BLine(b)
           Place(p) == p[1] \in Int /\ p[2] \in Int
<1>1. B!TypeOK /\ BRankInv(b)
  BY DEF BInv
<1>2. \A net : BItem(b, net) => Place(net[0])
  BY BNumbers DEF BItem, BPacket
<1>3. Place(f)
  BY <1>1, BTypes, BChannelFields DEF BFills
<1>4. BUpto(l, f) /\ Place(l)
  <2>1. CASE broadcast[b] = <<>>
    BY <1>3, <2>1 DEF BLine, BOffers, BUpto
  <2>2. CASE broadcast[b] # <<>>
    <3>1. l = broadcast[b][1].net[0] /\ BItem(b, broadcast[b][1].net) /\ BFollows(b, l, f)
      BY <1>1, <2>2 DEF BLine, BOffers, BRankInv, BFifoInv
    <3>2. Place(l)
      BY <1>2, <3>1
    <3> HIDE DEF l, f
    <3> QED  BY <1>3, <3>1, <3>2, BFollowsUpto
  <2> QED  BY <2>1, <2>2
<1>5. ~ s.external => BUpto(s.mess[0], l) /\ Place(s.mess[0])
  <2> SUFFICES ASSUME ~ s.external PROVE BUpto(s.mess[0], l) /\ Place(s.mess[0])
    OBVIOUS
  <2>1. BItem(b, s.mess) /\ BFollows(b, s.mess[0], l)
    BY <1>1 DEF BRankInv, BKernelInv
  <2>2. Place(s.mess[0])
    BY <1>2, <2>1
  <2> HIDE DEF l
  <2> QED  BY <1>4, <2>1, <2>2, BFollowsUpto
<1> HIDE DEF l, f
<1>6. ~ s.external => BUpto(s.mess[0], f)
  BY <1>3, <1>4, <1>5 DEF BUpto
<1> QED  BY <1>4, <1>6 DEF BGives, l, f

(* All packets on their way to a receiver are those it has yet to read. *)
LEMMA BQueueAhead ==
    ASSUME BInv, NEW r \in Ranks, NEW b \in Ranks, bdata[b][r] # <<>>
    PROVE  LET x == BX(b, r)
           IN  x \in Int /\ x >= BReads(bchan[r]) + ElementsPerPacket
<1> DEFINE queue == bdata[b][r]
           c == bchan[r]
           Z == {j \in Nat : j \in 1 .. Len(queue) /\ ~ queue[j][0][2] >= BReads(c)}
<1>1. queue \in Seq(B!Packet) /\ BQueueInv(queue, b, r, c)
  BY BTypes DEF BInv, BPairInv
<1>2. Len(queue) \in Nat /\ Len(queue) >= 1
  BY <1>1, EmptySeq
<1>3. BReads(c) \in Int
  BY BTypes, BChannelFields, Numbers DEF BInv, BReads
<1>4. /\ queue[1][0][2] = BReads(c)
      /\ \A j \in 1 .. Len(queue) : queue[j][0][2] \in Int
      /\ \A j \in 1 .. Len(queue) - 1 :
             queue[j + 1][0][2] = queue[j][0][2] + ElementsPerPacket
  BY <1>1, BNumbers DEF BQueueInv, BPacket
<1>5. BX(b, r) = queue[Len(queue)][0][2] + ElementsPerPacket
  BY DEF BX, BExpects
<1> HIDE DEF queue, c
<1>6. Z = {}
  <2> SUFFICES ASSUME Z # {} PROVE FALSE
    OBVIOUS
  <2>1. PICK j \in Z : \A i \in Z : j <= i
    BY Least
  <2>2. j # 1
    BY <1>3, <1>4, <2>1
  <2>3. j - 1 \in 1 .. Len(queue) - 1 /\ j - 1 \notin Z
    BY <1>2, <2>1, <2>2
  <2>4. queue[(j - 1) + 1][0][2] = queue[j - 1][0][2] + ElementsPerPacket
    BY <1>4, <2>3
  <2>5. queue[j - 1][0][2] >= BReads(c) /\ queue[j - 1][0][2] \in Int
    BY <1>2, <1>4, <2>3
  <2>6. queue[j][0][2] = queue[j - 1][0][2] + ElementsPerPacket /\ ~ queue[j][0][2] >= BReads(c)
    BY <2>1, <2>4
  <2>7. ElementsPerPacket \in Int /\ ElementsPerPacket >= 1
    BY Numbers
  <2>8. \A z, w \in Int : z >= w => z + ElementsPerPacket >= w
    BY <2>7
  <2> QED  BY <1>3, <2>5, <2>6, <2>8
<1>7. queue[Len(queue)][0][2] >= BReads(c) /\ queue[Len(queue)][0][2] \in Int
  BY <1>2, <1>4, <1>6
<1> QED  BY <1>3, <1>5, <1>7, Numbers DEF c

(* The root of a broadcast has made the call whose element a receiver reads. *)
LEMMA BRootCalled ==
    ASSUME BInv, NEW r \in Ranks, bchan[r].returned < bchan[r].entered, ~ B!IsRoot(r),
           bchan[r].packet_element_id_rcv = 0 => Waiting(bdata, r) # {}
    PROVE  LET c == bchan[r]
               b == BcastRoots[c.coll]
           IN  /\ b \in Ranks /\ b # r /\ c.coll \in 1 .. B!NumCollectives
               /\ c.entered \in Nat \ {0}
               /\ Called(bchan, b, c.coll, c.entered)
<1> DEFINE c == bchan[r]
           k == c.coll
           b == BcastRoots[k]
           x == BX(b, r)
           p == BGives(bsupport[b], r, BLine(b))
           cb == bchan[b]
<1>1. B!TypeOK /\ c \in BChannel /\ BCallInv(c)
  BY BTypes DEF BInv, BRankInv
<1>2. /\ k \in Int /\ c.returned \in Int /\ c.returned >= 0 /\ c.entered = c.returned + 1
      /\ k \in 1 .. B!NumCollectives
      /\ c.packet_element_id_rcv \in Int /\ c.packet_element_id_rcv >= 0
      /\ c.packet_element_id_rcv < ElementsPerPacket
  BY <1>1, BChannelFields, BNumbers DEF BCallInv
<1>3. b \in Ranks /\ b # r /\ BRooted(b, k)
  <2>1. b \in Ranks /\ BRooted(b, k)
    BY <1>2, BNumbers DEF BRooted
  <2>2. b # r
    BY <1>2 DEF B!IsRoot
  <2> QED  BY <2>1, <2>2
<1>4. BAt(b, k, x, p) /\ cb \in BChannel /\ BCallInv(cb) /\ BSendInv(b, cb)
  BY <1>1, <1>3, BTypes DEF BInv, BPairInv, BRankInv
<1>5. x \in Int /\ x >= c.entered + 1
  <2>1. CASE bdata[b][r] = <<>>
    <3>1. c.packet_element_id_rcv # 0
      <4> SUFFICES ASSUME c.packet_element_id_rcv = 0 PROVE FALSE
        OBVIOUS
      <4>1. PICK src \in Ranks : bdata[src][r] # <<>>
        BY DEF Waiting
      <4>2. BRooted(src, k)
        BY <4>1 DEF BInv, BPairInv, BQueueInv
      <4> QED  BY <2>1, <4>1, <4>2 DEF BRooted
    <3>2. x = c.returned + 1 + (ElementsPerPacket - c.packet_element_id_rcv)
      BY <2>1, <3>1 DEF BX, BExpects, BReads
    <3> QED  BY <1>2, <3>2, Numbers
  <2>2. CASE bdata[b][r] # <<>>
    <3>1. x \in Int /\ x >= BReads(c) + ElementsPerPacket
      BY <1>3, <2>2, BQueueAhead
    <3>2. BReads(c) >= c.returned + 1 /\ BReads(c) \in Int
      BY <1>2, Numbers DEF BReads
    <3> QED  BY <1>2, <3>1, <3>2, Numbers
  <2> QED  BY <2>1, <2>2
<1>6. /\ p[1] \in Int /\ p[2] \in Int /\ BUpto(p, BFills(b, cb))
  BY <1>3, BGivesPlace, BGivesUpto
<1>7. /\ cb.coll \in Int /\ cb.returned \in Int /\ cb.entered \in {cb.returned, cb.returned + 1}
      /\ cb.packet_element_id \in Int /\ cb.packet_element_id >= 0
  BY <1>4, BChannelFields DEF BCallInv
<1>8. /\ BFills(b, cb)[1] = cb.coll
      /\ cb.coll = k => BFills(b, cb)[2] = cb.returned - cb.packet_element_id + 1
  BY <1>3 DEF BFills
<1>9. p[1] > k \/ (p[1] = k /\ x = p[2])
  <2> HIDE DEF p, x, b, k
  <2> QED  BY <1>2, <1>3, <1>4, <1>5 DEF BAt
<1>10. cb.coll > k \/ (cb.coll = k /\ x <= cb.returned + 1)
  <2> HIDE DEF p, x, b, k, cb
  <2> QED  BY <1>2, <1>5, <1>6, <1>7, <1>8, <1>9 DEF BUpto
<1>11. Called(bchan, b, k, c.entered)
  BY <1>2, <1>5, <1>7, <1>10 DEF Called
<1> QED  BY <1>2, <1>3, <1>11

LEMMA BGoes ==
    ASSUME BInv, NEW r \in Ranks, B!Application(r)
    PROVE  LET k == bchan[r].coll
           IN  Goes(bchan, bchan', r, BcastCounts[k], B!BcastNeeds(k, r, bchan[r].entered))
<1> DEFINE c == bchan[r]
           c2 == bchan'[r]
           k == c.coll
           needs == B!BcastNeeds(k, r, c.entered)
<1>1. B!TypeOK /\ c \in BChannel /\ bchan \in [Ranks -> BChannel]
  BY BTypes, BTypeOK DEF BInv
<1>2. ASSUME NEW new, bchan' = [bchan EXCEPT ![r] = new]
      PROVE  c2 = new /\ \A q \in Ranks \ {r} : bchan'[q] = bchan[q]
  BY <1>1, <1>2
<1>3. ASSUME NEW d, {"coll", "entered", "returned"} \subseteq DOMAIN d,
             d.coll = k, d.entered = c.entered, c.returned < c.entered
      PROVE  Returning(c, B!Returned(d), BcastCounts[k])
  <2>1. CASE c.entered = BcastCounts[k]
    <3>1. B!Returned(d) = B!Opened(k + 1)
      BY <1>3, <2>1 DEF B!Returned
    <3> QED  BY <1>3, <2>1, <3>1 DEF Returning, B!Opened
  <2>2. CASE c.entered # BcastCounts[k]
    <3> DEFINE e == B!Returned(d)
    <3>1. e = [d EXCEPT !.returned = d.entered]
      BY <1>3, <2>2 DEF B!Returned
    <3> HIDE DEF e
    <3>2. e.coll = k /\ e.entered = c.entered /\ e.returned = c.entered
      BY <1>3, <3>1
    <3> QED  BY <1>3, <2>2, <3>2 DEF Returning, e
  <2> QED  BY <2>1, <2>2
<1>4. CASE B!Call(r)
  <2>1. c.entered = c.returned /\ bchan' = [bchan EXCEPT ![r] = [c EXCEPT !.entered = @ + 1]]
    BY <1>4 DEF B!Call
  <2>2. Entering(c, [c EXCEPT !.entered = @ + 1])
    BY <1>1, <2>1 DEF Entering, BChannel
  <2> QED  BY <1>2, <2>1, <2>2 DEF Goes
<1>5. CASE B!SendReady(r)
  <2>1. bchan' = [bchan EXCEPT ![r] = [c EXCEPT !.init = FALSE]]
    BY <1>5 DEF B!SendReady
  <2>2. Silent(c, [c EXCEPT !.init = FALSE])
    BY <1>1 DEF Silent, BChannel
  <2> QED  BY <1>2, <2>1, <2>2 DEF Goes
<1>6. CASE B!Send(r)
  <2> DEFINE packed == [c.net EXCEPT ![c.packet_element_id] = <<k, c.entered>>]
             d == [c EXCEPT !.net = packed,
                      !.packet_element_id = IF B!Leaves(c) THEN 0 ELSE @ + 1,
                      !.op = IF B!Leaves(c) THEN "BROADCAST" ELSE @]
  <2>1. c.returned < c.entered /\ B!IsRoot(r) /\ bchan' = [bchan EXCEPT ![r] = B!Returned(d)]
    BY <1>6 DEF B!Send
  <2>2. {"coll", "entered", "returned"} \subseteq DOMAIN d
        /\ d.coll = k /\ d.entered = c.entered
    BY <1>1 DEF BChannel
  <2> HIDE DEF d
  <2>3. Returning(c, B!Returned(d), BcastCounts[k])
    BY <1>3, <2>1, <2>2
  <2>4. AllCalled(bchan, k, needs)
    BY <2>1 DEF AllCalled, B!BcastNeeds, B!IsRoot
  <2> QED  BY <1>2, <2>1, <2>3, <2>4 DEF Goes
<1>7. CASE B!Receive(r)
  <2> DEFINE d(net) == [c EXCEPT !.net_2 = net, !.packet_element_id_rcv = B!NextSlot(@)]
  <2>1. /\ c.returned < c.entered /\ ~ B!IsRoot(r)
        /\ c.packet_element_id_rcv = 0 => Waiting(bdata, r) # {}
        /\ \E net : bchan' = [bchan EXCEPT ![r] = B!Returned(d(net))]
    BY <1>7, BWires DEF B!Receive
  <2>2. PICK net : bchan' = [bchan EXCEPT ![r] = B!Returned(d(net))]
    BY <2>1
  <2>3. {"coll", "entered", "returned"} \subseteq DOMAIN d(net)
        /\ d(net).coll = k /\ d(net).entered = c.entered
    BY <1>1 DEF BChannel
  <2> HIDE DEF d
  <2>4. Returning(c, B!Returned(d(net)), BcastCounts[k])
    BY <1>3, <2>1, <2>3
  <2>5. AllCalled(bchan, k, needs)
    <3>1. /\ BcastRoots[k] \in Ranks /\ c.entered \in Nat \ {0}
          /\ Called(bchan, BcastRoots[k], k, c.entered)
      BY <2>1, BRootCalled
    <3> QED  BY <3>1 DEF AllCalled, B!BcastNeeds
  <2> QED  BY <1>2, <2>2, <2>4, <2>5 DEF Goes
<1> QED  BY <1>4, <1>5, <1>6, <1>7 DEF B!Application
=============================================================================
