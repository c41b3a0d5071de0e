---------------------------- MODULE ScatterProofs ----------------------------
(****************************************************************************)
(* Proofs about the scatters and the gathers of Collectives, as BcastProofs *)
(* has them about the broadcasts.                                           *)
(*                                                                          *)
(* The line of packets of a root goes through its scatters and, within one, *)
(* from receiver to receiver; its places are ordered, and what a rank has   *)
(* got from the root says on which side of its own packets the line is.     *)
(*                                                                          *)
(* Of gathers there is a line for each contributor, from its program to the *)
(* root; its invariant is proved for programs whose gathers have one root.  *)
(* The root asks for a gather once and reads all of it before it asks the   *)
(* next contributor, so that nothing of a line is beyond the kernel's wait  *)
(* but what the root is about to read.                                      *)
(****************************************************************************)
EXTENDS BcastProofs

-----------------------------------------------------------------------------
(* Scatter k is one of the program, and b its root.                          *)
SRooted(b, k) == k \in 1 .. S!NumCollectives /\ ScatterRoots[k] = b

(* The packet of scatter k for rank d that begins with element i *)
SPacket(net, k, d, i) ==
    /\ net \in S!Packet
    /\ k \in 1 .. S!NumCollectives /\ d \in Ranks /\ i \in 1 .. ScatterCounts[k]
    /\ \A e \in S!Slots : i + e <= ScatterCounts[k] => net[e] = <<k, d, i + e>>

(* The first element of the packet that a receiver reads next, and of the    *)
(* one that its root sends it next                                           *)
SReads(c) ==
    IF c.packet_element_id_rcv = 0 THEN c.returned + 1
    ELSE c.returned + 1 + (ElementsPerPacket - c.packet_element_id_rcv)

SExpects(queue, c) ==
    IF queue = <<>> THEN SReads(c) ELSE queue[Len(queue)][0][3] + ElementsPerPacket

(* A place of the line of b is <<scatter, receiver, element>>.  One that has *)
(* b for receiver stands for elements that b keeps.  First of its scatter: *)
SFirst(b, p) == (\A e \in Ranks : e < p[2] => e = b) /\ (p[2] = b \/ p[3] = 1)

(* The place `next' is the one after the packet at place p of b. *)
SFollows(b, p, next) ==
    IF p[3] + ElementsPerPacket <= ScatterCounts[p[1]]
    THEN next[1] = p[1] /\ next[2] = p[2] /\ next[3] = p[3] + ElementsPerPacket
    ELSE \/ /\ next[1] = p[1] /\ next[2] > p[2]
            /\ \A e \in Ranks : p[2] < e /\ e < next[2] => e = b
            /\ next[2] = b \/ next[3] = 1
         \/ /\ next[1] > p[1] /\ SFirst(b, next)
            /\ \A e \in Ranks : p[2] < e => e = b
            /\ \A j \in p[1] + 1 .. next[1] - 1 : ScatterRoots[j] # b

(* The program of a rank: how far it is; what the root has packed; what a    *)
(* receiver has read. *)
SFills(b, c) ==
    IF SRooted(b, c.coll)
    THEN <<c.coll, c.next_rcv, c.processed_elements - c.packet_element_id + 1>>
    ELSE <<c.coll, 0, 1>>

SCallInv(r, c) ==
    /\ c.entered \in {c.returned, c.returned + 1}
    /\ c.coll > S!NumCollectives => c.entered = 0
    /\ c.coll <= S!NumCollectives => c.returned < S!Calls(c.coll, r)

SSendInv(r, c) ==
    /\ SRooted(r, c.coll) =>
           /\ c.init /\ c.next_rcv < NumRanks
           /\ c.processed_elements < ScatterCounts[c.coll]
           /\ c.returned = c.next_rcv * ScatterCounts[c.coll] + c.processed_elements
           /\ c.packet_element_id <= c.processed_elements
           /\ c.op = "SYNCH" <=> SFirst(r, SFills(r, c))
           /\ c.next_rcv # r =>
                  \A e \in 0 .. c.packet_element_id - 1 :
                      c.net[e] = <<c.coll, c.next_rcv,
                                   c.processed_elements - c.packet_element_id + 1 + e>>
    /\ ~ SRooted(r, c.coll) =>
           /\ c.packet_element_id = 0 /\ c.op = "SYNCH"
           /\ c.next_rcv = 0 /\ c.processed_elements = 0

SReadInv(r, c) ==
    /\ c.init => c.packet_element_id_rcv = 0
    /\ c.packet_element_id_rcv # 0 =>
           \A e \in c.packet_element_id_rcv .. ElementsPerPacket - 1 :
               LET i == c.returned + 1 + (e - c.packet_element_id_rcv)
               IN  i <= ScatterCounts[c.coll] => c.net_2[e] = <<c.coll, r, i>>

(* Packets on their way to d are its own, of the scatter it is in, one after *)
(* the other. *)
SQueueInv(queue, b, d, c) ==
    queue # <<>> =>
        /\ b # d /\ SRooted(b, c.coll)
        /\ queue[1][0][3] = SReads(c)
        /\ \A j \in 1 .. Len(queue) : SPacket(queue[j], c.coll, d, queue[j][0][3])
        /\ \A j \in 1 .. Len(queue) - 1 :
               queue[j + 1][0][3] = queue[j][0][3] + ElementsPerPacket

(* Requests are for the scatter the rank is in, one at most. *)
SRequestInv(requests, d, b, c) ==
    requests # <<>> =>
        d # b /\ SRooted(b, c.coll) /\ ~ c.init /\ requests = <<c.coll>>

(* Before its request is counted d gets nothing, and the line of b is at the *)
(* first packet at most. *)
SAskInv(b, d, c, requests, x, p, s) ==
    (b # d /\ SRooted(b, c.coll)) =>
        IF c.init \/ requests # <<>>
        THEN x = 1 /\ (p[1] = c.coll => SFirst(b, p))
        ELSE x = 1 => p[1] = c.coll /\ (SFirst(b, p) => ~ s.external)

(* The line of b: the place of the packet its program fills, or would fill   *)
(* if it were the root; of the packet it offers its kernel; of the one that  *)
(* leaves next.                                                              *)
SOffers(b, fifo, c) == IF fifo = <<>> THEN SFills(b, c) ELSE fifo[1].net[0]

SGives(s, offers) == IF ~ s.external THEN s.mess.net[0] ELSE offers

SItem(b, m) ==
    LET p == m.net[0]
    IN  /\ SPacket(m.net, p[1], p[2], p[3]) /\ ScatterRoots[p[1]] = b
        /\ m.dst = p[2] /\ p[2] # b
        /\ m.op = "SYNCH" <=> SFirst(b, p)

SFifoInv(b, fifo, fills) ==
    fifo # <<>> =>
        LET m == fifo[1]
        IN  fifo = <<m>> /\ SItem(b, m) /\ SFollows(b, m.net[0], fills)

(* Rank d, at channel c, has yet to be counted for scatter k. *)
SToCount(k, c, requests) ==
    c.coll < k \/ (c.coll = k /\ (c.init \/ requests # <<>>))

SUncounted(b, k) ==
    {d \in Ranks \ {b} : SToCount(k, schan[d], scontrol[d][b])}

SKernelInv(b, s, offers, uncounted) ==
    /\ s.external => s.to_be_received_requests = 0
    /\ ~ s.external =>
           /\ SItem(b, s.mess) /\ SFollows(b, s.mess.net[0], offers)
           /\ s.to_be_received_requests = Cardinality(uncounted)

(* What rank d, in scatter k at element x, has got from b, whose line is at  *)
(* place p: it is in an earlier scatter and has all of it; it is in the      *)
(* scatter of the place, before, at or after its own packets; it is ahead.   *)
SAt(b, d, k, x, p) ==
    \/ /\ k < p[1] /\ SFirst(b, p)
       /\ SRooted(b, k) => x > ScatterCounts[k]
       /\ \A j \in k + 1 .. p[1] - 1 : ScatterRoots[j] # b
    \/ /\ k = p[1]
       /\ SRooted(b, k) => /\ d < p[2] => x > ScatterCounts[k]
                           /\ d = p[2] => x = p[3]
                           /\ d > p[2] => x = 1
    \/ /\ k > p[1]
       /\ SRooted(b, p[1]) => d < p[2]
       /\ \A j \in p[1] + 1 .. k - 1 : ScatterRoots[j] # b
       /\ SRooted(b, k) => x = 1

SLine(b)  == SOffers(b, scatter[b], schan[b])
SPlace(b) == SGives(ssupport[b], SLine(b))
SX(b, d)  == SExpects(sdata[b][d], schan[d])

SRankInv(r) ==
    /\ SCallInv(r, schan[r]) /\ SSendInv(r, schan[r])
    /\ ~ SRooted(r, schan[r].coll) => SReadInv(r, schan[r])
    /\ SFifoInv(r, scatter[r], SFills(r, schan[r]))
    /\ SKernelInv(r, ssupport[r], SLine(r), SUncounted(r, ssupport[r].mess.net[0][1]))

SPairInv(b, d) ==
    /\ SQueueInv(sdata[b][d], b, d, schan[d])
    /\ SRequestInv(scontrol[d][b], d, b, schan[d])
    /\ SAskInv(b, d, schan[d], scontrol[d][b], SX(b, d), SPlace(b), ssupport[b])
    /\ b # d => SAt(b, d, schan[d].coll, SX(b, d), SPlace(b))

SInv == S!TypeOK /\ (\A r \in Ranks : SRankInv(r)) /\ \A b, d \in Ranks : SPairInv(b, d)

-----------------------------------------------------------------------------
(* The wires of a scatter are those of the program. *)
LEMMA SWires ==
    /\ S!Ranks = Ranks /\ S!Quiet = Quiet
    /\ \A n, s, d : S!HasRoom(n, s, d) = HasRoom(n, s, d)
    /\ \A n, d : S!Waiting(n, d) = Waiting(n, d) /\ S!UnderWay(n, d) = UnderWay(n, d)
    /\ \A n, s, d : S!Take(n, s, d) = Take(n, s, d)
    /\ \A n, s, d, p : S!Put(n, s, d, p) = Put(n, s, d, p)
BY DEF S!Ranks, Ranks, S!Quiet, Quiet, S!HasRoom, HasRoom, S!Waiting, Waiting,
       S!UnderWay, UnderWay, S!Take, Take, S!Put, Put

LEMMA SNumbers ==
    /\ S!NumCollectives \in Nat
    /\ ScatterRoots \in [1 .. S!NumCollectives -> Ranks]
    /\ ScatterCounts \in [1 .. S!NumCollectives -> Nat \ {0}]
    /\ S!Slots = 0 .. ElementsPerPacket - 1 /\ 0 \in S!Slots
    /\ S!num_requests = NumRanks - 1
BY RootsAndCounts, Numbers
   DEF ScatterRoots, ScatterCounts, S!NumCollectives, S!Slots, S!num_requests

LEMMA SElements ==
    /\ S!NoElement \in S!Elements
    /\ \A k \in 1 .. S!NumCollectives : \A d \in Ranks : \A i \in 1 .. ScatterCounts[k] :
           <<k, d, i>> \in S!Elements
    /\ S!Empty \in S!Packet
BY SWires DEF S!Elements, S!Empty, S!Packet, S!NoElement

(* The fields of the state at one rank *)
SChannel ==
    [coll : 1 .. S!NumCollectives + 1, entered : Nat, returned : Nat,
     init : BOOLEAN, op : {"SYNCH", "SCATTER"}, next_rcv : 0 .. NumRanks,
     processed_elements : Nat, net : S!Packet, packet_element_id : S!Slots,
     net_2 : S!Packet, packet_element_id_rcv : S!Slots]

SMessage == [op : {"SYNCH", "SCATTER"}, dst : Ranks, net : S!Packet]

SSupport ==
    [external : BOOLEAN, to_be_received_requests : 0 .. NumRanks - 1, mess : SMessage]

SRequest == 1 .. S!NumCollectives

LEMMA STypeOK ==
    S!TypeOK <=> /\ schan \in [Ranks -> SChannel]
                 /\ ssupport \in [Ranks -> SSupport]
                 /\ scatter \in [Ranks -> Seq(SMessage)]
                 /\ sdata \in Net(S!Packet)
                 /\ scontrol \in Net(SRequest)
BY DEF S!TypeOK, S!Ranks, Ranks, S!num_requests, SChannel, SSupport, SMessage, SRequest,
       Net

LEMMA STypeOKNext ==
    S!TypeOK' <=> /\ schan' \in [Ranks -> SChannel]
                  /\ ssupport' \in [Ranks -> SSupport]
                  /\ scatter' \in [Ranks -> Seq(SMessage)]
                  /\ sdata' \in Net(S!Packet)
                  /\ scontrol' \in Net(SRequest)
BY DEF S!TypeOK, S!Ranks, Ranks, S!num_requests, SChannel, SSupport, SMessage, SRequest,
       Net

LEMMA STypes ==
    ASSUME S!TypeOK, NEW r \in Ranks
    PROVE  /\ schan[r] \in SChannel
           /\ ssupport[r] \in SSupport
           /\ scatter[r] \in Seq(SMessage)
           /\ \A q \in Ranks : /\ sdata[r][q] \in Seq(S!Packet)
                               /\ scontrol[r][q] \in Seq(SRequest)
BY STypeOK DEF Net

LEMMA SChannelFields ==
    ASSUME NEW c \in SChannel
    PROVE  /\ c.coll \in Int /\ c.coll >= 1 /\ c.coll <= S!NumCollectives + 1
           /\ c.entered \in Int /\ c.entered >= 0 /\ c.returned \in Int /\ c.returned >= 0
           /\ c.init \in BOOLEAN /\ c.op \in {"SYNCH", "SCATTER"}
           /\ c.net \in S!Packet /\ c.net_2 \in S!Packet
           /\ c.next_rcv \in Int /\ c.next_rcv >= 0 /\ c.next_rcv <= NumRanks
           /\ c.processed_elements \in Int /\ c.processed_elements >= 0
           /\ c.packet_element_id \in Int /\ c.packet_element_id >= 0
           /\ c.packet_element_id < ElementsPerPacket
           /\ c.packet_element_id_rcv \in Int /\ c.packet_element_id_rcv >= 0
           /\ c.packet_element_id_rcv < ElementsPerPacket
BY SNumbers, Numbers DEF SChannel

(* The number of calls of a scatter *)
LEMMA SCalls ==
    ASSUME NEW k \in 1 .. S!NumCollectives, NEW r \in Ranks
    PROVE  /\ ScatterCounts[k] \in Int /\ ScatterCounts[k] >= 1
           /\ S!Calls(k, r) \in Int /\ S!Calls(k, r) >= ScatterCounts[k]
           /\ r # ScatterRoots[k] => S!Calls(k, r) = ScatterCounts[k]
           /\ r = ScatterRoots[k] => S!Calls(k, r) = NumRanks * ScatterCounts[k]
<1> DEFINE n == ScatterCounts[k]
<1>1. n \in Nat /\ n >= 1
  BY SNumbers
<1> HIDE DEF n
<1>2. NumRanks * n \in Int /\ NumRanks * n >= n
  BY <1>1, Numbers
<1> QED  BY <1>1, <1>2 DEF S!Calls, n

(* Rank 0 comes first in every scatter; if it is the root, it keeps what it  *)
(* gets first. *)
LEMMA SFirstPlace ==
    ASSUME NEW b, NEW k
    PROVE  SFirst(b, <<k, 0, 1>>)
<1>1. \A e \in Ranks : ~ e < 0
  BY Numbers
<1> QED  BY <1>1 DEF SFirst

LEMMA SInit == S!Init => SInv
<1> SUFFICES ASSUME S!Init PROVE SInv
  OBVIOUS
<1>1. /\ \A r \in Ranks : schan[r] = S!Opened(1) /\ ssupport[r].external
                          /\ ssupport[r].to_be_received_requests = 0 /\ scatter[r] = <<>>
      /\ \A a, b \in Ranks : sdata[a][b] = <<>> /\ scontrol[a][b] = <<>>
  BY SWires, QuietIsEmpty DEF S!Init
<1>2. S!TypeOK
  <2>1. schan = [r \in Ranks |-> S!Opened(1)] /\ scatter = [r \in Ranks |-> <<>>]
        /\ ssupport = [r \in Ranks |-> [external |-> TRUE, to_be_received_requests |-> 0,
                           mess |-> S!NoPacket]]
        /\ sdata = Quiet /\ scontrol = Quiet
    BY SWires DEF S!Init
  <2>2. S!Opened(1) \in SChannel
    BY SElements, SNumbers, Numbers DEF S!Opened, SChannel
  <2>3. scatter \in [Ranks -> Seq(SMessage)]
    BY <2>1, EmptySeq
  <2>4. ssupport \in [Ranks -> SSupport]
    BY <2>1, SElements, Numbers DEF SSupport, SMessage, S!NoPacket
  <2> QED  BY <2>1, <2>2, <2>3, <2>4, QuietIsEmpty, STypeOK
<1>3. ASSUME NEW r \in Ranks PROVE SRankInv(r)
  <2>0. 1 <= S!NumCollectives => S!Calls(1, r) \in Int /\ S!Calls(1, r) >= 1
    <3>1. 1 <= S!NumCollectives => 1 \in 1 .. S!NumCollectives
      BY SNumbers
    <3> QED  BY <3>1, SCalls
  <2>1. SCallInv(r, schan[r])
    BY <1>1, <2>0, SNumbers DEF SCallInv, S!Opened
  <2>2. SReadInv(r, schan[r]) /\ SFifoInv(r, scatter[r], SFills(r, schan[r]))
    BY <1>1 DEF SReadInv, SFifoInv, S!Opened
  <2>3. SSendInv(r, schan[r])
    <3>1. /\ schan[r].coll = 1 /\ schan[r].init /\ schan[r].next_rcv = 0
          /\ schan[r].processed_elements = 0 /\ schan[r].returned = 0
          /\ schan[r].packet_element_id = 0 /\ schan[r].op = "SYNCH"
      BY <1>1 DEF S!Opened
    <3>2. SFills(r, schan[r]) = <<1, 0, 1>>
      BY <3>1 DEF SFills
    <3>3. SFirst(r, SFills(r, schan[r]))
      BY <3>2, SFirstPlace
    <3>4. SRooted(r, 1) => ScatterCounts[1] \in Int /\ ScatterCounts[1] >= 1
      BY SCalls DEF SRooted
    <3>5. \A n \in Int : 0 = 0 * n + 0
      OBVIOUS
    <3> QED  BY <3>1, <3>3, <3>4, <3>5, Numbers DEF SSendInv
  <2>4. SKernelInv(r, ssupport[r], SLine(r), SUncounted(r, ssupport[r].mess.net[0][1]))
    BY <1>1 DEF SKernelInv
  <2> QED  BY <2>1, <2>2, <2>3, <2>4 DEF SRankInv
<1>4. ASSUME NEW b \in Ranks, NEW d \in Ranks PROVE SPairInv(b, d)
  <2>1. schan[d].coll = 1 /\ schan[d].init /\ SX(b, d) = 1
    BY <1>1 DEF SX, SExpects, SReads, S!Opened
  <2>2. SPlace(b) = <<1, 0, 1>>
    BY <1>1 DEF SPlace, SGives, SLine, SOffers, SFills, S!Opened
  <2>3. SFirst(b, SPlace(b))
    BY <2>2, SFirstPlace
  <2>4. SAt(b, d, 1, 1, <<1, 0, 1>>)
    BY Numbers DEF SAt
  <2> QED  BY <1>1, <2>1, <2>2, <2>3, <2>4 DEF SPairInv, SQueueInv, SRequestInv, SAskInv
<1> QED  BY <1>2, <1>3, <1>4 DEF SInv

-----------------------------------------------------------------------------
(* What the steps leave as it is *)

(* That a call is entered only SCallInv takes notice of. *)
LEMMA SSameFields ==
    ASSUME NEW c, NEW c2,
           c2.coll = c.coll, c2.returned = c.returned, c2.init = c.init, c2.op = c.op,
           c2.next_rcv = c.next_rcv, c2.processed_elements = c.processed_elements,
           c2.net = c.net, c2.packet_element_id = c.packet_element_id,
           c2.net_2 = c.net_2, c2.packet_element_id_rcv = c.packet_element_id_rcv
    PROVE  /\ \A r : SSendInv(r, c) => SSendInv(r, c2)
           /\ \A r : SReadInv(r, c) => SReadInv(r, c2)
           /\ \A q : SExpects(q, c2) = SExpects(q, c)
           /\ \A q, b, d : SQueueInv(q, b, d, c) => SQueueInv(q, b, d, c2)
           /\ \A q, b, d : SRequestInv(q, d, b, c) => SRequestInv(q, d, b, c2)
           /\ \A b, d, q, x, p, s :
                  SAskInv(b, d, c, q, x, p, s) => SAskInv(b, d, c2, q, x, p, s)
           /\ \A b : SFills(b, c2) = SFills(b, c)
           /\ \A k, q : SToCount(k, c2, q) <=> SToCount(k, c, q)
<1>1. SReads(c2) = SReads(c) /\ \A b : SFills(b, c2) = SFills(b, c)
  BY DEF SReads, SFills
<1> QED  BY <1>1 DEF SSendInv, SReadInv, SExpects, SQueueInv, SRequestInv, SAskInv,
                     SToCount

LEMMA SLineStays ==
    ASSUME NEW b \in Ranks, SRankInv(b),
           ssupport'[b] = ssupport[b], scatter'[b] = scatter[b],
           SFills(b, schan'[b]) = SFills(b, schan[b]),
           \A d \in Ranks \ {b} :
               ~ ssupport[b].external =>
                   LET k == ssupport[b].mess.net[0][1]
                   IN  SToCount(k, schan'[d], scontrol'[d][b])
                           <=> SToCount(k, schan[d], scontrol[d][b])
    PROVE  /\ SLine(b)' = SLine(b) /\ SPlace(b)' = SPlace(b)
           /\ SFifoInv(b, scatter'[b], SFills(b, schan'[b]))
           /\ SKernelInv(b, ssupport'[b], SLine(b)',
                         SUncounted(b, ssupport[b].mess.net[0][1])')
<1>1. SLine(b)' = SLine(b) /\ SPlace(b)' = SPlace(b)
  BY DEF SLine, SOffers, SPlace, SGives
<1>2. SFifoInv(b, scatter'[b], SFills(b, schan'[b]))
  BY DEF SRankInv
<1>3. ~ ssupport[b].external =>
          SUncounted(b, ssupport[b].mess.net[0][1])'
              = SUncounted(b, ssupport[b].mess.net[0][1])
  BY DEF SUncounted
<1>4. SKernelInv(b, ssupport[b], SLine(b), SUncounted(b, ssupport[b].mess.net[0][1]))
  BY DEF SRankInv
<1> QED  BY <1>1, <1>2, <1>3, <1>4 DEF SKernelInv

LEMMA SPairStays ==
    ASSUME NEW b \in Ranks, NEW d \in Ranks, SPairInv(b, d),
           sdata'[b][d] = sdata[b][d], scontrol'[d][b] = scontrol[d][b],
           schan'[d] = schan[d], ssupport'[b] = ssupport[b], SPlace(b)' = SPlace(b)
    PROVE  SPairInv(b, d)'
<1>1. SX(b, d)' = SX(b, d)
  BY DEF SX
<1> QED  BY <1>1 DEF SPairInv

-----------------------------------------------------------------------------
(* The places of a line *)

SIsPlace(p) ==
    /\ p[1] \in Int /\ p[1] >= 1 /\ p[1] <= S!NumCollectives + 1
    /\ p[2] \in Ranks /\ p[2] \in Int /\ p[3] \in Int /\ p[3] >= 1
    /\ p[1] <= S!NumCollectives => p[3] <= ScatterCounts[p[1]]

LEMMA SPlaces ==
    ASSUME SInv, NEW b \in Ranks
    PROVE  SIsPlace(SPlace(b)) /\ SIsPlace(SLine(b)) /\ SIsPlace(SFills(b, schan[b]))
<1> DEFINE c == schan[b]
<1>1. S!TypeOK /\ SRankInv(b)
  BY DEF SInv
<1>2. c \in SChannel
  BY <1>1, STypes
<1>3. ASSUME NEW m, SItem(b, m) PROVE SIsPlace(m.net[0])
  <2> DEFINE p == m.net[0]
  <2>1. p[1] \in 1 .. S!NumCollectives /\ p[2] \in Ranks /\ p[3] \in 1 .. ScatterCounts[p[1]]
    BY <1>3 DEF SItem, SPacket
  <2>2. ScatterCounts[p[1]] \in Int
    BY <2>1, SNumbers
  <2> HIDE DEF p
  <2>3. SIsPlace(p)
    BY <2>1, <2>2, SNumbers, Numbers, SMTT(30) DEF SIsPlace
  <2> QED  BY <2>3 DEF p
<1>4. SIsPlace(SFills(b, c))
  <2>1. SSendInv(b, c)
    BY <1>1 DEF SRankInv
  <2>2. c.coll <= S!NumCollectives =>
            ScatterCounts[c.coll] \in Int /\ ScatterCounts[c.coll] >= 1
    BY <1>2, SChannelFields, SNumbers
  <2>3. CASE SRooted(b, c.coll)
    <3>1. SFills(b, c) = <<c.coll, c.next_rcv,
                           c.processed_elements - c.packet_element_id + 1>>
      BY <2>3 DEF SFills
    <3>2. c.next_rcv \in Ranks /\ c.packet_element_id <= c.processed_elements
          /\ c.processed_elements < ScatterCounts[c.coll]
      BY <1>2, <2>1, <2>3, SChannelFields, Numbers DEF SSendInv
    <3> QED  BY <1>2, <2>2, <3>1, <3>2, SChannelFields DEF SIsPlace
  <2>4. CASE ~ SRooted(b, c.coll)
    <3>1. SFills(b, c) = <<c.coll, 0, 1>>
      BY <2>4 DEF SFills
    <3> QED  BY <1>2, <2>2, <3>1, SChannelFields, Numbers DEF SIsPlace
  <2> QED  BY <2>3, <2>4
<1>5. SIsPlace(SLine(b))
  BY <1>1, <1>3, <1>4 DEF SLine, SOffers, SRankInv, SFifoInv
<1>6. SIsPlace(SPlace(b))
  BY <1>1, <1>3, <1>5 DEF SPlace, SGives, SRankInv, SKernelInv
<1> QED  BY <1>4, <1>5, <1>6

(* Who has read the whole of scatter k, if he was to read it, is where he    *)
(* should be at the beginning of the next. *)
LEMMA SNextPlace ==
    ASSUME NEW b \in Ranks, NEW d \in Ranks \ {b}, NEW k \in 1 .. S!NumCollectives,
           NEW x, NEW p, SIsPlace(p), SAt(b, d, k, x, p),
           SRooted(b, k) => x > ScatterCounts[k]
    PROVE  SAt(b, d, k + 1, 1, p) /\ (p[1] = k + 1 => SFirst(b, p))
<1>0. /\ k \in Int /\ k >= 1 /\ k <= S!NumCollectives /\ S!NumCollectives \in Int
      /\ ScatterCounts[k] \in Int /\ ScatterCounts[k] >= 1
      /\ p[1] \in Int /\ p[2] \in Int /\ p[3] \in Int /\ d \in Int /\ d # b
      /\ p[1] = k => p[3] <= ScatterCounts[k]
  BY SNumbers, Numbers, SMTT(30) DEF SIsPlace
<1>1. CASE k < p[1] /\ SFirst(b, p) /\ \A j \in k + 1 .. p[1] - 1 : ScatterRoots[j] # b
  <2>1. CASE k + 1 = p[1]
    <3>1. ~ d < p[2] /\ (d = p[2] => p[3] = 1)
      BY <1>0, <1>1 DEF SFirst
    <3> QED  BY <1>0, <1>1, <2>1, <3>1 DEF SAt
  <2>2. CASE k + 1 < p[1]
    <3>1. ~ SRooted(b, k + 1)
      BY <1>0, <1>1, <2>2 DEF SRooted
    <3> QED  BY <1>0, <1>1, <2>2, <3>1 DEF SAt
  <2> QED  BY <1>0, <1>1, <2>1, <2>2
<1>2. CASE /\ k = p[1]
           /\ SRooted(b, k) => (d = p[2] => x = p[3]) /\ (d > p[2] => x = 1)
  <2>1. SRooted(b, p[1]) => d < p[2]
    BY <1>0, <1>2
  <2>2. k + 1 > p[1] /\ p[1] # k + 1 /\ \A j \in p[1] + 1 .. (k + 1) - 1 : FALSE
    BY <1>0, <1>2
  <2> QED  BY <2>1, <2>2 DEF SAt
<1>3. CASE /\ k > p[1] /\ (SRooted(b, p[1]) => d < p[2])
           /\ \A j \in p[1] + 1 .. k - 1 : ScatterRoots[j] # b
           /\ SRooted(b, k) => x = 1
  <2>1. ~ SRooted(b, k)
    BY <1>0, <1>3
  <2>2. \A j \in p[1] + 1 .. (k + 1) - 1 : ScatterRoots[j] # b
    BY <1>0, <1>3, <2>1 DEF SRooted
  <2>3. k + 1 > p[1] /\ p[1] # k + 1
    BY <1>0, <1>3
  <2> QED  BY <1>3, <2>2, <2>3 DEF SAt
<1> QED  BY <1>1, <1>2, <1>3 DEF SAt

(* The line of b moves from place p to place q without a packet: what was    *)
(* true at p is true at q. *)
SAdvances(b, p, q) ==
    /\ \A m : SItem(b, m) /\ SFollows(b, m.net[0], p) => SFollows(b, m.net[0], q)
    /\ \A d \in Ranks \ {b} : \A k \in Int : \A x :
           SAt(b, d, k, x, p) => SAt(b, d, k, x, q)
    /\ \A d \in Ranks \ {b} : \A c, requests, x, s :
           /\ c.coll \in Int /\ SAt(b, d, c.coll, x, p)
           /\ SAskInv(b, d, c, requests, x, p, s)
           => SAskInv(b, d, c, requests, x, q, s)

(* It passes a scatter of another root. *)
LEMMA SLinePasses ==
    ASSUME NEW b \in Ranks, NEW k \in 1 .. S!NumCollectives, ~ SRooted(b, k)
    PROVE  SAdvances(b, <<k, 0, 1>>, <<k + 1, 0, 1>>)
<1> DEFINE p == <<k, 0, 1>>
           q == <<k + 1, 0, 1>>
<1>0. /\ k \in Int /\ k >= 1 /\ k <= S!NumCollectives /\ S!NumCollectives \in Int
      /\ ScatterRoots[k] # b /\ SFirst(b, q) /\ p[1] = k /\ q[1] = k + 1
      /\ q[2] = 0 /\ q[3] = 1
  BY SNumbers, SFirstPlace DEF SRooted
<1> HIDE DEF p, q
<1>1. ASSUME NEW m, SItem(b, m), SFollows(b, m.net[0], p)
      PROVE  SFollows(b, m.net[0], q)
  <2> DEFINE z == m.net[0]
  <2>1. z[1] \in 1 .. S!NumCollectives /\ ScatterRoots[z[1]] = b
    BY <1>1 DEF SItem, SPacket
  <2>2. /\ ~ z[3] + ElementsPerPacket <= ScatterCounts[z[1]]
        /\ k > z[1] /\ \A e \in Ranks : z[2] < e => e = b
        /\ \A j \in z[1] + 1 .. k - 1 : ScatterRoots[j] # b
    BY <1>0, <1>1, <2>1 DEF SFollows
  <2> HIDE DEF z
  <2>3. \A j \in z[1] + 1 .. q[1] - 1 : ScatterRoots[j] # b
    BY <1>0, <2>1, <2>2
  <2>4. q[1] > z[1]
    BY <1>0, <2>1, <2>2
  <2>5. SFollows(b, z, q)
    BY <1>0, <2>2, <2>3, <2>4 DEF SFollows
  <2> QED  BY <2>5 DEF z
<1>2. ASSUME NEW d \in Ranks \ {b}, NEW j \in Int, NEW x, SAt(b, d, j, x, p)
      PROVE  SAt(b, d, j, x, q)
  <2>0. d \in Int /\ 0 <= d
    BY Numbers
  <2>1. CASE j < k /\ (SRooted(b, j) => x > ScatterCounts[j])
             /\ \A i \in j + 1 .. k - 1 : ScatterRoots[i] # b
    <3>1. \A i \in j + 1 .. q[1] - 1 : ScatterRoots[i] # b
      BY <1>0, <2>1
    <3> QED  BY <1>0, <2>1, <3>1 DEF SAt
  <2>2. CASE j = k
    BY <1>0, <2>2 DEF SAt
  <2>3. CASE j > k /\ (\A i \in k + 1 .. j - 1 : ScatterRoots[i] # b)
             /\ (SRooted(b, j) => x = 1)
    <3>1. CASE j = k + 1
      BY <1>0, <2>0, <2>3, <3>1 DEF SAt
    <3>2. CASE j > k + 1
      <4>1. ~ SRooted(b, k + 1)
        BY <1>0, <2>3, <3>2 DEF SRooted
      <4> QED  BY <1>0, <2>3, <3>2, <4>1 DEF SAt
    <3> QED  BY <1>0, <2>3, <3>1, <3>2
  <2> QED  BY <1>0, <1>2, <2>1, <2>2, <2>3 DEF SAt
<1>3. ASSUME NEW d \in Ranks \ {b}, NEW c, NEW requests, NEW x, NEW s,
             SAskInv(b, d, c, requests, x, p, s)
      PROVE  SAskInv(b, d, c, requests, x, q, s)
  <2>1. SRooted(b, c.coll) => c.coll # k
    BY <1>0 DEF SRooted
  <2> QED  BY <1>0, <1>3, <2>1 DEF SAskInv
<1> QED  BY <1>1, <1>2, <1>3 DEF SAdvances, p, q

(* It passes what b keeps: to the next element, the next receiver or the     *)
(* next scatter. *)
LEMMA SLinePassesOwn ==
    ASSUME NEW b \in Ranks, NEW k \in 1 .. S!NumCollectives, SRooted(b, k), NEW y,
           NEW q,
           \/ q[1] = k /\ q[2] = b
           \/ q[1] = k /\ q[2] = b + 1 /\ q[3] = 1
           \/ b = NumRanks - 1 /\ q[1] = k + 1 /\ q[2] = 0 /\ q[3] = 1
    PROVE  SAdvances(b, <<k, b, y>>, q)
<1> DEFINE p == <<k, b, y>>
<1>0. /\ k \in Int /\ k >= 1 /\ k <= S!NumCollectives /\ S!NumCollectives \in Int
      /\ ScatterRoots[k] = b /\ p[1] = k /\ p[2] = b
      /\ ScatterCounts[k] \in Int /\ ScatterCounts[k] >= 1
      /\ b \in Int /\ 0 <= b /\ b < NumRanks /\ NumRanks \in Int
      /\ \A e \in Ranks : e \in Int /\ 0 <= e /\ e < NumRanks
  BY SNumbers, Numbers DEF SRooted
<1> HIDE DEF p
<1>1. /\ q[1] = k => (SFirst(b, q) <=> SFirst(b, p))
      /\ q[1] = k + 1 => SFirst(b, q)
  <2>1. q[1] = k => ((\A e \in Ranks : e < q[2] => e = b) <=>
                     (\A e \in Ranks : e < b => e = b))
    BY <1>0
  <2>2. q[1] = k => q[2] = b \/ q[3] = 1
    BY <1>0
  <2>3. q[1] = k + 1 => q[2] = 0 /\ q[3] = 1
    BY <1>0
  <2> QED  BY <1>0, <2>1, <2>2, <2>3 DEF SFirst
<1>2. ASSUME NEW z, z[1] \in 1 .. S!NumCollectives, z[2] \in Ranks, z[2] # b,
             SFollows(b, z, p)
      PROVE  SFollows(b, z, q)
  <2>1. z[1] \in Int /\ z[2] \in Ranks /\ z[2] # b
    BY <1>0, <1>2
  <2>0. z[2] \in Int /\ (b = NumRanks - 1 => z[2] < b)
    BY <2>1, Numbers
  <2>2. ~ z[3] + ElementsPerPacket <= ScatterCounts[z[1]]
    BY <1>0, <1>2, <2>1 DEF SFollows
  <2>3. \/ /\ k = z[1] /\ z[2] < b
           /\ \A e \in Ranks : z[2] < e /\ e < b => e = b
        \/ /\ k > z[1] /\ SFirst(b, p)
           /\ \A e \in Ranks : z[2] < e => e = b
           /\ \A j \in z[1] + 1 .. k - 1 : ScatterRoots[j] # b
    BY <1>0, <1>2, <2>2 DEF SFollows
  <2>4. CASE k = z[1] /\ z[2] < b /\ \A e \in Ranks : z[2] < e /\ e < b => e = b
    <3>1. CASE q[1] = k
      <4>0. q[2] \in Int /\ (q[2] = b \/ q[2] = b + 1)
        BY <1>0, <3>1
      <4>1. q[2] > z[2] /\ \A e \in Ranks : z[2] < e /\ e < q[2] => e = b
        <5>1. q[2] > z[2]
          BY <1>0, <2>0, <2>4, <4>0
        <5>2. ASSUME NEW e \in Ranks, z[2] < e, e < q[2] PROVE e = b
          <6>1. e \in Int /\ (e < b \/ e = b)
            BY <1>0, <4>0, <5>2
          <6> QED  BY <2>4, <5>2, <6>1
        <5> QED  BY <5>1, <5>2
      <4>2. q[2] = b \/ q[3] = 1
        BY <1>0, <3>1
      <4> QED  BY <2>2, <2>4, <3>1, <4>1, <4>2 DEF SFollows
    <3>2. CASE q[1] # k
      <4>1. b = NumRanks - 1 /\ q[1] = k + 1
        BY <3>2
      <4>2. \A e \in Ranks : z[2] < e => e = b
        BY <1>0, <2>1, <2>4, <4>1
      <4>3. \A j \in z[1] + 1 .. q[1] - 1 : ScatterRoots[j] # b
        BY <1>0, <2>4, <4>1
      <4>4. q[1] > z[1]
        BY <1>0, <2>4, <4>1
      <4> QED  BY <1>1, <2>2, <4>1, <4>2, <4>3, <4>4 DEF SFollows
    <3> QED  BY <3>1, <3>2
  <2>5. CASE /\ k > z[1] /\ SFirst(b, p)
             /\ \A e \in Ranks : z[2] < e => e = b
             /\ \A j \in z[1] + 1 .. k - 1 : ScatterRoots[j] # b
    <3>1. q[1] = k
      <4> SUFFICES ASSUME b = NumRanks - 1 PROVE FALSE
        BY <1>0
      <4>1. \A e \in Ranks : e < b => e = b
        BY <1>0, <2>5 DEF SFirst
      <4>2. z[2] < b
        BY <2>0
      <4> QED  BY <2>1, <4>1, <4>2
    <3>2. SFirst(b, q)
      BY <1>1, <2>5, <3>1
    <3> QED  BY <2>2, <2>5, <3>1, <3>2 DEF SFollows
  <2> QED  BY <2>3, <2>4, <2>5
<1>3. ASSUME NEW d \in Ranks \ {b}, NEW j \in Int, NEW x, SAt(b, d, j, x, p)
      PROVE  SAt(b, d, j, x, q)
  <2>0. d \in Int /\ 0 <= d /\ d < NumRanks /\ d # b
    BY Numbers
  <2>1. CASE j < k /\ SFirst(b, p) /\ (SRooted(b, j) => x > ScatterCounts[j])
             /\ \A i \in j + 1 .. k - 1 : ScatterRoots[i] # b
    <3>1. q[1] = k
      <4>1. ~ d < b
        BY <1>0, <2>0, <2>1 DEF SFirst
      <4> QED  BY <1>0, <2>0, <4>1
    <3> QED  BY <1>1, <2>1, <3>1 DEF SAt
  <2>2. CASE j = k /\ (d < b => x > ScatterCounts[k]) /\ (d > b => x = 1)
    <3>1. CASE q[1] = k
      <4>1. /\ d < q[2] => x > ScatterCounts[k]
            /\ d = q[2] => x = q[3]
            /\ d > q[2] => x = 1
        BY <1>0, <2>0, <2>2, <3>1
      <4> QED  BY <2>2, <3>1, <4>1 DEF SAt
    <3>2. CASE q[1] # k
      <4>1. b = NumRanks - 1 /\ q[1] = k + 1 /\ d < b
        BY <1>0, <2>0, <3>2
      <4>2. j < q[1] /\ \A i \in j + 1 .. q[1] - 1 : FALSE
        BY <1>0, <2>2, <4>1
      <4> QED  BY <1>1, <2>2, <4>1, <4>2 DEF SAt
    <3> QED  BY <3>1, <3>2
  <2>3. CASE j > k /\ d < b /\ (\A i \in k + 1 .. j - 1 : ScatterRoots[i] # b)
             /\ (SRooted(b, j) => x = 1)
    <3>1. CASE q[1] = k
      <4>1. d < q[2]
        BY <1>0, <2>0, <2>3, <3>1
      <4> QED  BY <2>3, <3>1, <4>1 DEF SAt
    <3>2. CASE q[1] # k
      <4>0. q[1] = k + 1 /\ q[2] = 0 /\ q[3] = 1
        BY <3>2
      <4>1. CASE j = k + 1
        BY <1>0, <2>0, <2>3, <4>0, <4>1 DEF SAt
      <4>2. CASE j > k + 1
        <5>1. ~ SRooted(b, k + 1)
          BY <1>0, <2>3, <4>2 DEF SRooted
        <5> QED  BY <1>0, <2>3, <4>0, <4>2, <5>1 DEF SAt
      <4> QED  BY <1>0, <2>3, <4>1, <4>2
    <3> QED  BY <3>1, <3>2
  <2> QED  BY <1>0, <1>3, <2>0, <2>1, <2>2, <2>3 DEF SAt
<1>4. ASSUME NEW d \in Ranks \ {b}, NEW c, NEW requests, NEW x, NEW s,
             c.coll \in Int, SAt(b, d, c.coll, x, p), SAskInv(b, d, c, requests, x, p, s)
      PROVE  SAskInv(b, d, c, requests, x, q, s)
  <2> SUFFICES ASSUME SRooted(b, c.coll)
               PROVE  IF c.init \/ requests # <<>>
                      THEN x = 1 /\ (q[1] = c.coll => SFirst(b, q))
                      ELSE x = 1 => q[1] = c.coll /\ (SFirst(b, q) => ~ s.external)
    BY DEF SAskInv
  <2>1. IF c.init \/ requests # <<>>
        THEN x = 1 /\ (k = c.coll => SFirst(b, p))
        ELSE x = 1 => k = c.coll /\ (SFirst(b, p) => ~ s.external)
    BY <1>0, <1>4 DEF SAskInv
  <2>2. CASE c.init \/ requests # <<>>
    BY <1>1, <2>1, <2>2
  <2>3. CASE ~ (c.init \/ requests # <<>>) /\ x = 1
    <3>1. k = c.coll /\ (SFirst(b, p) => ~ s.external)
      BY <2>1, <2>3
    <3>2. q[1] = k
      <4>1. d < b => x > ScatterCounts[k]
        BY <1>0, <1>4, <3>1 DEF SAt
      <4>2. ~ d < b /\ d \in Int /\ d < NumRanks /\ d # b
        BY <1>0, <2>3, <4>1
      <4> QED  BY <1>0, <4>2
    <3> QED  BY <1>1, <2>3, <3>1, <3>2
  <2> QED  BY <2>2, <2>3
<1>5. ASSUME NEW m, SItem(b, m), SFollows(b, m.net[0], p)
      PROVE  SFollows(b, m.net[0], q)
  <2>1. /\ m.net[0][1] \in 1 .. S!NumCollectives /\ m.net[0][2] \in Ranks
        /\ m.net[0][2] # b
    BY <1>5 DEF SItem, SPacket
  <2> QED  BY <1>2, <1>5, <2>1
<1> QED  BY <1>3, <1>4, <1>5 DEF SAdvances, p

(* What the invariant says of the line of r *)
SLineInv(r) ==
    /\ SFifoInv(r, scatter[r], SFills(r, schan[r]))
    /\ SKernelInv(r, ssupport[r], SLine(r), SUncounted(r, ssupport[r].mess.net[0][1]))
    /\ \A d \in Ranks \ {r} : SPairInv(r, d)

LEMMA SAdvance ==
    ASSUME SInv, NEW r \in Ranks,
           SAdvances(r, SFills(r, schan[r]), SFills(r, schan'[r])),
           \A q \in Ranks \ {r} : schan'[q] = schan[q],
           ssupport' = ssupport, scatter' = scatter, scontrol' = scontrol,
           \A d \in Ranks \ {r} : sdata'[r][d] = sdata[r][d]
    PROVE  SLineInv(r)'
<1> DEFINE s == ssupport[r]
           f == scatter[r]
           p == SFills(r, schan[r])
           q == SFills(r, schan'[r])
<1>1. SRankInv(r) /\ \A d \in Ranks \ {r} : SPairInv(r, d)
  BY DEF SInv
<1>2. /\ \A m : SItem(r, m) /\ SFollows(r, m.net[0], p) => SFollows(r, m.net[0], q)
      /\ \A d \in Ranks \ {r} : \A k \in Int : \A x :
             SAt(r, d, k, x, p) => SAt(r, d, k, x, q)
      /\ \A d \in Ranks \ {r} : \A c, requests, x, t :
             /\ c.coll \in Int /\ SAt(r, d, c.coll, x, p)
             /\ SAskInv(r, d, c, requests, x, p, t)
             => SAskInv(r, d, c, requests, x, q, t)
  BY DEF SAdvances
<1>3. /\ f = <<>> => SLine(r) = p /\ SLine(r)' = q
      /\ f # <<>> => SLine(r)' = SLine(r)
  BY DEF SLine, SOffers
<1>4. \/ SPlace(r) = p /\ SPlace(r)' = q
      \/ SPlace(r)' = SPlace(r)
  <2>1. CASE s.external
    BY <1>3, <2>1 DEF SPlace, SGives
  <2>2. CASE ~ s.external
    BY <2>2 DEF SPlace, SGives
  <2> QED  BY <2>1, <2>2
<1>5. SFifoInv(r, scatter'[r], q)
  BY <1>1, <1>2 DEF SRankInv, SFifoInv
<1>6. SKernelInv(r, ssupport'[r], SLine(r)', SUncounted(r, ssupport[r].mess.net[0][1])')
  <2>1. SUncounted(r, s.mess.net[0][1])' = SUncounted(r, s.mess.net[0][1])
    BY DEF SUncounted
  <2>2. SKernelInv(r, s, SLine(r), SUncounted(r, s.mess.net[0][1]))
    BY <1>1 DEF SRankInv
  <2>3. ~ s.external => SFollows(r, s.mess.net[0], SLine(r)')
    BY <1>2, <1>3, <2>2 DEF SKernelInv
  <2> QED  BY <2>1, <2>2, <2>3 DEF SKernelInv
<1>7. ASSUME NEW d \in Ranks \ {r} PROVE SPairInv(r, d)'
  <2>1. SPairInv(r, d) /\ schan'[d] = schan[d] /\ SX(r, d)' = SX(r, d)
    BY <1>1 DEF SX
  <2>2. schan[d].coll \in Int
    BY STypes, SChannelFields DEF SInv
  <2>3. /\ SAt(r, d, schan[d].coll, SX(r, d), SPlace(r))
        /\ SAskInv(r, d, schan[d], scontrol[d][r], SX(r, d), SPlace(r), s)
    BY <2>1 DEF SPairInv
  <2>4. /\ SAt(r, d, schan[d].coll, SX(r, d), SPlace(r)')
        /\ SAskInv(r, d, schan[d], scontrol[d][r], SX(r, d), SPlace(r)', s)
    BY <1>2, <1>4, <2>2, <2>3
  <2> QED  BY <2>1, <2>4 DEF SPairInv
<1> QED  BY <1>5, <1>6, <1>7 DEF SLineInv

LEMMA SLineKept ==
    ASSUME SInv, NEW r \in Ranks, SLine(r)' = SLine(r),
           SFifoInv(r, scatter'[r], SFills(r, schan'[r])),
           \A q \in Ranks \ {r} : schan'[q] = schan[q],
           ssupport' = ssupport, scontrol' = scontrol,
           \A d \in Ranks \ {r} : sdata'[r][d] = sdata[r][d]
    PROVE  SLineInv(r)'
<1>1. SRankInv(r) /\ \A d \in Ranks \ {r} : SPairInv(r, d)
  BY DEF SInv
<1>2. SPlace(r)' = SPlace(r)
  BY DEF SPlace
<1>3. SUncounted(r, ssupport[r].mess.net[0][1])' = SUncounted(r, ssupport[r].mess.net[0][1])
  BY DEF SUncounted
<1>4. ASSUME NEW d \in Ranks \ {r} PROVE SPairInv(r, d)'
  BY <1>1, <1>2, SPairStays
<1> QED  BY <1>1, <1>3, <1>4 DEF SLineInv, SRankInv

(* A rank opens the channel of the next scatter. *)
LEMMA SOpenedFields ==
    ASSUME NEW k
    PROVE  LET c == S!Opened(k)
           IN  /\ c.coll = k /\ c.entered = 0 /\ c.returned = 0 /\ c.init = TRUE
               /\ c.op = "SYNCH" /\ c.packet_element_id = 0
               /\ c.next_rcv = 0 /\ c.processed_elements = 0
               /\ c.packet_element_id_rcv = 0
               /\ SReads(c) = 1 /\ SExpects(<<>>, c) = 1
               /\ \A b : SFills(b, c) = <<k, 0, 1>>
               /\ k \in 1 .. S!NumCollectives + 1 => c \in SChannel
               /\ k \in 1 .. S!NumCollectives + 1 =>
                      \A b \in Ranks : SCallInv(b, c) /\ SSendInv(b, c) /\ SReadInv(b, c)
<1> DEFINE c == S!Opened(k)
<1>1. /\ c.coll = k /\ c.entered = 0 /\ c.returned = 0 /\ c.init = TRUE
      /\ c.op = "SYNCH" /\ c.packet_element_id = 0
      /\ c.next_rcv = 0 /\ c.processed_elements = 0 /\ c.packet_element_id_rcv = 0
      /\ k \in 1 .. S!NumCollectives + 1 => c \in SChannel
  BY SNumbers, SElements, Numbers DEF S!Opened, SChannel
<1> HIDE DEF c
<1>2. SReads(c) = 1 /\ SExpects(<<>>, c) = 1 /\ \A b : SFills(b, c) = <<k, 0, 1>>
  BY <1>1 DEF SReads, SExpects, SFills
<1>3. ASSUME k \in 1 .. S!NumCollectives + 1, NEW b \in Ranks
      PROVE  SCallInv(b, c) /\ SSendInv(b, c) /\ SReadInv(b, c)
  <2>1. SReadInv(b, c)
    BY <1>1 DEF SReadInv
  <2>2. SCallInv(b, c)
    <3>1. k <= S!NumCollectives => S!Calls(k, b) \in Int /\ 0 < S!Calls(k, b)
      <4>1. k <= S!NumCollectives => k \in 1 .. S!NumCollectives
        BY <1>3, SNumbers
      <4> QED  BY <4>1, SCalls
    <3> QED  BY <1>1, <3>1 DEF SCallInv
  <2>3. SSendInv(b, c)
    <3>1. SFirst(b, SFills(b, c))
      BY <1>2, SFirstPlace
    <3>2. SRooted(b, k) => /\ ScatterCounts[k] \in Int /\ 0 < ScatterCounts[k]
                           /\ 0 = 0 * ScatterCounts[k] + 0
      BY SCalls DEF SRooted
    <3> QED  BY <1>1, <3>1, <3>2, Numbers DEF SSendInv
  <2> QED  BY <2>1, <2>2, <2>3
<1> QED  BY <1>1, <1>2, <1>3 DEF c

LEMMA SMovesOn ==
    ASSUME SInv, NEW r \in Ranks, NEW k \in 1 .. S!NumCollectives, schan[r].coll = k,
           schan'[r] = S!Opened(k + 1), ssupport' = ssupport, scontrol' = scontrol,
           \A b \in Ranks : sdata'[b][r] = <<>> /\ scontrol[r][b] = <<>>,
           \A b \in Ranks \ {r} :
               SRooted(b, k) => ~ schan[r].init /\ SX(b, r) > ScatterCounts[k],
           \A b \in Ranks \ {r} : SPlace(b)' = SPlace(b)
    PROVE  /\ \A b \in Ranks : SPairInv(b, r)'
           /\ \A b \in Ranks \ {r} : \A j :
                  ScatterRoots[j] = b /\ j \in 1 .. S!NumCollectives =>
                      (SToCount(j, schan'[r], scontrol'[r][b]) <=>
                       SToCount(j, schan[r], scontrol[r][b]))
<1>1. k \in Int /\ k + 1 # k /\ ScatterRoots[k] \in Ranks
  BY SNumbers
<1>2. /\ schan'[r].coll = k + 1 /\ schan'[r].init = TRUE
      /\ \A b \in Ranks : SX(b, r)' = 1
  BY SOpenedFields DEF SX
<1>3. ASSUME NEW b \in Ranks PROVE SPairInv(b, r)'
  <2>1. /\ SQueueInv(sdata'[b][r], b, r, schan'[r])
        /\ SRequestInv(scontrol'[r][b], r, b, schan'[r])
    BY DEF SQueueInv, SRequestInv
  <2>2. CASE b = r
    <3>1. SAskInv(b, r, schan'[r], scontrol'[r][b], SX(b, r)', SPlace(b)', ssupport'[b])
      BY <2>2 DEF SAskInv
    <3> QED  BY <2>1, <2>2, <3>1 DEF SPairInv
  <2>3. CASE b # r
    <3> DEFINE p == SPlace(b)
    <3>1. SAt(b, r, k, SX(b, r), p)
      BY <2>3 DEF SInv, SPairInv
    <3>2. SIsPlace(p)
      BY SPlaces
    <3>3. SRooted(b, k) => SX(b, r) > ScatterCounts[k]
      BY <2>3
    <3> HIDE DEF p
    <3>4. SAt(b, r, k + 1, 1, p) /\ (p[1] = k + 1 => SFirst(b, p))
      BY <2>3, <3>1, <3>2, <3>3, SNextPlace
    <3>5. SPlace(b)' = p /\ schan'[r].coll = k + 1 /\ SX(b, r)' = 1 /\ schan'[r].init
      BY <1>2, <2>3 DEF p
    <3>6. SAt(b, r, schan'[r].coll, SX(b, r)', SPlace(b)')
      BY <3>4, <3>5
    <3>7. SAskInv(b, r, schan'[r], scontrol'[r][b], SX(b, r)', SPlace(b)', ssupport'[b])
      BY <3>4, <3>5 DEF SAskInv
    <3> QED  BY <2>1, <3>6, <3>7 DEF SPairInv
  <2> QED  BY <2>2, <2>3
<1>4. ASSUME NEW b \in Ranks \ {r}, NEW j \in 1 .. S!NumCollectives, ScatterRoots[j] = b
      PROVE  SToCount(j, schan'[r], scontrol'[r][b]) <=>
             SToCount(j, schan[r], scontrol[r][b])
  <2>1. j \in Int /\ scontrol[r][b] = <<>> /\ scontrol'[r][b] = <<>>
    OBVIOUS
  <2>2. j = k => ~ schan[r].init
    BY <1>4 DEF SRooted
  <2> QED  BY <1>1, <1>2, <2>1, <2>2 DEF SToCount
<1> QED  BY <1>3, <1>4

-----------------------------------------------------------------------------
(* The steps *)

LEMMA SCallStep ==
    ASSUME SInv, NEW r \in Ranks, S!Call(r)
    PROVE  SInv'
<1>1. S!TypeOK /\ (\A q \in Ranks : SRankInv(q)) /\ \A b, d \in Ranks : SPairInv(b, d)
  BY DEF SInv
<1>2. /\ schan[r].coll <= S!NumCollectives /\ schan[r].entered = schan[r].returned
      /\ schan' = [schan EXCEPT ![r].entered = @ + 1]
      /\ ssupport' = ssupport /\ scatter' = scatter
      /\ sdata' = sdata /\ scontrol' = scontrol
  <2>1. schan[r] \in SChannel /\ SCallInv(r, schan[r])
    BY <1>1, STypes DEF SRankInv
  <2>2. schan[r].entered = schan[r].returned
    BY <2>1, SChannelFields DEF S!Call, S!InCall, SCallInv
  <2> QED  BY <2>2 DEF S!Call
<1>3. S!TypeOK'
  <2>0. schan[r] \in SChannel
    BY <1>1, STypes
  <2>1. [schan[r] EXCEPT !.entered = @ + 1] \in SChannel
    BY <2>0 DEF SChannel
  <2>2. schan' \in [Ranks -> SChannel]
    BY <1>2, <1>1, <2>1, STypeOK
  <2> QED  BY <1>2, <1>1, <2>2, STypeOK, STypeOKNext
<1>4. ASSUME NEW q \in Ranks
      PROVE  LET c  == schan[q]
                 c2 == schan'[q]
             IN  /\ c2.coll = c.coll /\ c2.returned = c.returned /\ c2.init = c.init
                 /\ c2.op = c.op /\ c2.net = c.net /\ c2.next_rcv = c.next_rcv
                 /\ c2.processed_elements = c.processed_elements
                 /\ c2.packet_element_id = c.packet_element_id
                 /\ c2.net_2 = c.net_2
                 /\ c2.packet_element_id_rcv = c.packet_element_id_rcv
                 /\ c2.entered = IF q = r THEN c.returned + 1 ELSE c.entered
  BY <1>2, <1>1, STypeOK DEF SChannel
<1>5. ASSUME NEW q \in Ranks
      PROVE  LET c  == schan[q]
                 c2 == schan'[q]
             IN  /\ \A b : SSendInv(b, c) => SSendInv(b, c2)
                 /\ \A b : SReadInv(b, c) => SReadInv(b, c2)
                 /\ \A f : SExpects(f, c2) = SExpects(f, c)
                 /\ \A f, b, d : SQueueInv(f, b, d, c) => SQueueInv(f, b, d, c2)
                 /\ \A f, b, d : SRequestInv(f, d, b, c) => SRequestInv(f, d, b, c2)
                 /\ \A b, d, f, x, p, s :
                        SAskInv(b, d, c, f, x, p, s) => SAskInv(b, d, c2, f, x, p, s)
                 /\ \A b : SFills(b, c2) = SFills(b, c)
                 /\ \A k, f : SToCount(k, c2, f) <=> SToCount(k, c, f)
  BY <1>4, SSameFields
<1>6. ASSUME NEW q \in Ranks
      PROVE  /\ SLine(q)' = SLine(q) /\ SPlace(q)' = SPlace(q)
             /\ SFifoInv(q, scatter'[q], SFills(q, schan'[q]))
             /\ SKernelInv(q, ssupport'[q], SLine(q)',
                           SUncounted(q, ssupport[q].mess.net[0][1])')
  <2>1. /\ SRankInv(q) /\ ssupport'[q] = ssupport[q] /\ scatter'[q] = scatter[q]
        /\ SFills(q, schan'[q]) = SFills(q, schan[q])
        /\ \A d \in Ranks \ {q} : \A k :
               SToCount(k, schan'[d], scontrol'[d][q]) <=> SToCount(k, schan[d], scontrol[d][q])
    BY <1>2, <1>1, <1>5
  <2> QED  BY <2>1, SLineStays
<1>7. ASSUME NEW q \in Ranks PROVE SRankInv(q)'
  <2>1. SRankInv(q)
    BY <1>1
  <2>2. SCallInv(q, schan'[q])
    <3>1. SCallInv(q, schan[q]) /\ schan[q].coll \in Int
      BY <1>1, <2>1, STypes, SChannelFields DEF SRankInv
    <3> QED  BY <1>2, <1>4, <3>1, SNumbers DEF SCallInv
  <2> QED  BY <1>2, <1>4, <1>5, <1>6, <2>1, <2>2 DEF SRankInv
<1>8. ASSUME NEW b \in Ranks, NEW d \in Ranks PROVE SPairInv(b, d)'
  <2>1. SPairInv(b, d)
    BY <1>1
  <2>2. SX(b, d)' = SX(b, d)
    BY <1>2, <1>5 DEF SX
  <2> QED  BY <1>2, <1>4, <1>5, <1>6, <2>1, <2>2 DEF SPairInv
<1> QED  BY <1>3, <1>7, <1>8 DEF SInv

LEMMA SReadyStep ==
    ASSUME SInv, NEW r \in Ranks, S!SendReady(r)
    PROVE  SInv'
<1> DEFINE c    == schan[r]
           root == ScatterRoots[c.coll]
<1>1. /\ ~ S!IsRoot(r) /\ c.init /\ c.returned < c.entered
      /\ scontrol' = Put(scontrol, r, root, c.coll)
      /\ schan' = [schan EXCEPT ![r].init = FALSE]
      /\ ssupport' = ssupport /\ scatter' = scatter /\ sdata' = sdata
  BY SWires DEF S!SendReady, S!InCall
<1>2. S!TypeOK /\ (\A q \in Ranks : SRankInv(q)) /\ \A b, d \in Ranks : SPairInv(b, d)
  BY DEF SInv
<1>3. /\ c \in SChannel /\ c.coll \in 1 .. S!NumCollectives
      /\ root \in Ranks /\ root # r /\ SRooted(root, c.coll)
      /\ \A b : SRooted(b, c.coll) => b = root
  <2>1. c \in SChannel /\ SCallInv(r, c)
    BY <1>2, STypes DEF SRankInv
  <2>2. c.coll \in 1 .. S!NumCollectives
    BY <1>1, <2>1, SChannelFields, SNumbers DEF SCallInv
  <2> QED  BY <1>1, <2>1, <2>2, SNumbers DEF SRooted, S!IsRoot
<1>4. /\ scontrol[r][root] = <<>>
      /\ scontrol'[r][root] = <<c.coll>> /\ scontrol'[r][root] # <<>>
      /\ scontrol' \in Net(SRequest)
      /\ \A a, b \in Ranks : a # r \/ b # root => scontrol'[a][b] = scontrol[a][b]
  <2>1. SPairInv(root, r)
    BY <1>2, <1>3
  <2>2. scontrol[r][root] = <<>>
    BY <1>1, <2>1 DEF SPairInv, SRequestInv
  <2>3. scontrol \in Net(SRequest)
    BY <1>2, STypeOK
  <2>4. Append(<<>>, c.coll) = <<c.coll>> /\ <<c.coll>> # <<>>
    OBVIOUS
  <2>5. c.coll \in SRequest /\ root \in Ranks
    BY <1>3 DEF SRequest
  <2> HIDE DEF c, root
  <2>6. LET net == Put(scontrol, r, root, c.coll)
        IN  /\ net \in Net(SRequest)
            /\ net[r][root] = Append(scontrol[r][root], c.coll)
            /\ \A a, b \in Ranks : a # r \/ b # root => net[a][b] = scontrol[a][b]
    BY <2>3, <2>5, PutAt, Z3
  <2> QED  BY <1>1, <2>2, <2>4, <2>6
<1>5. S!TypeOK'
  <2>1. [c EXCEPT !.init = FALSE] \in SChannel
    BY <1>3 DEF SChannel
  <2>2. schan' \in [Ranks -> SChannel]
    BY <1>1, <1>2, <2>1, STypeOK
  <2> QED  BY <1>1, <1>2, <1>4, <2>2, STypeOK, STypeOKNext
<1>6. /\ \A q \in Ranks \ {r} : schan'[q] = schan[q]
      /\ schan'[r] = [c EXCEPT !.init = FALSE]
  BY <1>1, <1>2, STypeOK
<1>7. /\ schan'[r].coll = c.coll /\ schan'[r].returned = c.returned
      /\ schan'[r].entered = c.entered /\ schan'[r].init = FALSE
      /\ schan'[r].op = c.op /\ schan'[r].net = c.net /\ schan'[r].net_2 = c.net_2
      /\ schan'[r].packet_element_id = c.packet_element_id
      /\ schan'[r].next_rcv = c.next_rcv
      /\ schan'[r].processed_elements = c.processed_elements
      /\ schan'[r].packet_element_id_rcv = c.packet_element_id_rcv
  BY <1>3, <1>6 DEF SChannel
<1>8. ASSUME NEW q \in Ranks
      PROVE  /\ SFills(q, schan'[q]) = SFills(q, schan[q])
             /\ SLine(q)' = SLine(q) /\ SPlace(q)' = SPlace(q)
             /\ SFifoInv(q, scatter'[q], SFills(q, schan'[q]))
             /\ SKernelInv(q, ssupport'[q], SLine(q)',
                           SUncounted(q, ssupport[q].mess.net[0][1])')
  <2>1. SFills(q, schan'[q]) = SFills(q, schan[q])
    BY <1>6, <1>7 DEF SFills
  <2>2. SRankInv(q)
    BY <1>2
  <2>3. ASSUME NEW d \in Ranks \ {q}, ~ ssupport[q].external
        PROVE  LET k == ssupport[q].mess.net[0][1]
               IN  SToCount(k, schan'[d], scontrol'[d][q])
                       <=> SToCount(k, schan[d], scontrol[d][q])
    <3>1. CASE d # r
      <4>1. schan'[d] = schan[d] /\ scontrol'[d][q] = scontrol[d][q]
        BY <1>4, <1>6, <3>1
      <4> QED  BY <4>1, Zenon
    <3>2. CASE d = r /\ q = root
      <4>1. scontrol'[d][q] # <<>> /\ schan'[d].coll = schan[d].coll /\ schan[d].init
        BY <1>1, <1>4, <1>7, <3>2
      <4> QED  BY <4>1, Zenon DEF SToCount
    <3>3. CASE d = r /\ q # root
      <4>1. scontrol'[d][q] = scontrol[d][q]
        BY <1>4, <3>3
      <4>2. ScatterRoots[ssupport[q].mess.net[0][1]] = q
        BY <2>2, <2>3 DEF SRankInv, SKernelInv, SItem
      <4>3. ssupport[q].mess.net[0][1] # c.coll
        BY <3>3, <4>2
      <4> QED  BY <1>7, <3>3, <4>1, <4>3 DEF SToCount
    <3> QED  BY <3>1, <3>2, <3>3
  <2> QED  BY <1>1, <2>1, <2>2, <2>3, SLineStays
<1>9. ASSUME NEW q \in Ranks PROVE SRankInv(q)'
  <2>1. SRankInv(q)
    BY <1>2
  <2>2. SCallInv(q, schan'[q]) /\ SSendInv(q, schan'[q])
        /\ (~ SRooted(q, schan'[q].coll) => SReadInv(q, schan'[q]))
    <3>1. CASE q # r
      BY <1>6, <2>1, <3>1 DEF SRankInv
    <3>2. CASE q = r
      <4>1. ~ SRooted(q, c.coll)
        BY <1>3, <3>2
      <4> QED  BY <1>7, <2>1, <3>2, <4>1 DEF SRankInv, SCallInv, SSendInv, SReadInv
    <3> QED  BY <3>1, <3>2
  <2> QED  BY <1>1, <1>8, <2>1, <2>2 DEF SRankInv
<1>10. ASSUME NEW b \in Ranks, NEW d \in Ranks PROVE SPairInv(b, d)'
  <2>1. SPairInv(b, d) /\ SPlace(b)' = SPlace(b)
    BY <1>2, <1>8
  <2>2. CASE d # r
    <3>1. schan'[d] = schan[d] /\ scontrol'[d][b] = scontrol[d][b]
      BY <1>4, <1>6, <2>2
    <3>2. SX(b, d)' = SX(b, d)
      BY <1>1, <3>1 DEF SX
    <3> QED  BY <1>1, <2>1, <3>1, <3>2 DEF SPairInv
  <2>3. CASE d = r
    <3>1. SReads(schan'[r]) = SReads(c)
      BY <1>7 DEF SReads
    <3>2. SX(b, d)' = SX(b, d)
      BY <1>1, <2>3, <3>1 DEF SX, SExpects
    <3>3. SQueueInv(sdata'[b][d], b, d, schan'[d])
      BY <1>1, <1>7, <2>1, <2>3, <3>1 DEF SPairInv, SQueueInv
    <3>4. SAt(b, d, schan'[d].coll, SX(b, d)', SPlace(b)') <=>
          SAt(b, d, schan[d].coll, SX(b, d), SPlace(b))
      BY <1>1, <1>7, <2>1, <2>3, <3>2
    <3>5. CASE b = root
      <4>1. SRequestInv(scontrol'[d][b], d, b, schan'[d])
        BY <1>3, <1>4, <1>7, <2>3, <3>5 DEF SRequestInv
      <4>2. SRooted(b, c.coll) /\ b # d =>
                SX(b, d) = 1 /\ (SPlace(b)[1] = c.coll => SFirst(b, SPlace(b)))
        BY <1>1, <2>1, <2>3 DEF SPairInv, SAskInv
      <4>3. SAskInv(b, d, schan'[d], scontrol'[d][b], SX(b, d)', SPlace(b)',
                     ssupport'[b])
        BY <1>4, <1>7, <2>1, <2>3, <3>2, <3>5, <4>2 DEF SAskInv
      <4> QED  BY <2>1, <3>3, <3>4, <4>1, <4>3 DEF SPairInv
    <3>6. CASE b # root
      <4>1. ~ SRooted(b, c.coll)
        BY <1>3, <3>6
      <4>2. SRequestInv(scontrol'[d][b], d, b, schan'[d])
        BY <1>4, <1>7, <2>1, <2>3, <3>6, <4>1 DEF SPairInv, SRequestInv
      <4>3. SAskInv(b, d, schan'[d], scontrol'[d][b], SX(b, d)', SPlace(b)',
                     ssupport'[b])
        BY <1>7, <2>3, <4>1 DEF SAskInv
      <4> QED  BY <2>1, <3>3, <3>4, <4>2, <4>3 DEF SPairInv
    <3> QED  BY <3>5, <3>6
  <2> QED  BY <2>2, <2>3
<1> QED  BY <1>5, <1>9, <1>10 DEF SInv

-----------------------------------------------------------------------------
(* What a receiver takes from its packets *)

LEMMA Wraps ==
    ASSUME NEW n \in Nat, NEW i \in Int, 0 <= i, i < n
    PROVE  (i + 1) % n = IF i + 1 = n THEN 0 ELSE i + 1
<1>1. CASE i + 1 = n
  <2>1. (1 * n + 0) % n = 0
    BY <1>1
  <2> QED  BY <1>1, <2>1
<1>2. CASE i + 1 < n
  BY <1>2
<1> QED  BY <1>1, <1>2

LEMMA SQueueTail ==
    ASSUME NEW queue \in Seq(S!Packet), NEW s, NEW d, NEW c \in SChannel, NEW c2,
           SQueueInv(queue, s, d, c), queue # <<>>, c.packet_element_id_rcv = 0,
           c2.coll = c.coll, SReads(c2) = SReads(c) + ElementsPerPacket
    PROVE  /\ SQueueInv(Tail(queue), s, d, c2)
           /\ SExpects(Tail(queue), c2) = SExpects(queue, c)
<1> DEFINE tail == Tail(queue)
           n    == Len(queue)
<1>1. /\ n \in Nat /\ n >= 1 /\ tail \in Seq(S!Packet) /\ Len(tail) = n - 1
      /\ \A j \in 1 .. n - 1 : tail[j] = queue[j + 1]
      /\ (tail = <<>>) <=> (n = 1)
  <2>1. n \in Nat /\ n >= 1
    BY EmptySeq
  <2>2. tail \in Seq(S!Packet) /\ Len(tail) = n - 1
        /\ \A j \in 1 .. Len(tail) : tail[j] = queue[j + 1]
    BY HeadTailProperties
  <2>3. tail = <<>> <=> Len(tail) = 0
    BY <2>2, EmptySeq
  <2> QED  BY <2>1, <2>2, <2>3
<1>2. /\ s # d /\ SRooted(s, c.coll) /\ queue[1][0][3] = SReads(c)
      /\ \A j \in 1 .. n : SPacket(queue[j], c.coll, d, queue[j][0][3])
      /\ \A j \in 1 .. n - 1 : queue[j + 1][0][3] = queue[j][0][3] + ElementsPerPacket
  BY DEF SQueueInv
<1> HIDE DEF tail, n
<1>3. CASE n = 1
  <2>1. tail = <<>> /\ SExpects(queue, c) = SReads(c) + ElementsPerPacket
    BY <1>1, <1>2, <1>3 DEF SExpects, n
  <2> QED  BY <2>1 DEF SQueueInv, SExpects, tail
<1>4. CASE n > 1
  <2>1. tail # <<>> /\ tail[1] = queue[2] /\ tail[Len(tail)] = queue[n]
    BY <1>1, <1>4
  <2>2. tail[1][0][3] = SReads(c2)
    <3>1. 1 \in 1 .. n - 1 /\ 1 + 1 = 2
      BY <1>1, <1>4
    <3> QED  BY <1>2, <2>1, <3>1
  <2>3. \A j \in 1 .. Len(tail) : SPacket(tail[j], c2.coll, d, tail[j][0][3])
    BY <1>1, <1>2
  <2>4. \A j \in 1 .. Len(tail) - 1 :
            tail[j + 1][0][3] = tail[j][0][3] + ElementsPerPacket
    <3>1. ASSUME NEW j \in 1 .. Len(tail) - 1
          PROVE  /\ j \in 1 .. n - 1 /\ j + 1 \in 1 .. n - 1
                 /\ tail[j + 1] = queue[(j + 1) + 1] /\ tail[j] = queue[j + 1]
      BY <1>1
    <3> QED  BY <1>2, <3>1
  <2>5. SExpects(tail, c2) = SExpects(queue, c)
    BY <2>1 DEF SExpects, SQueueInv, n
  <2> QED  BY <1>2, <2>1, <2>2, <2>3, <2>4, <2>5 DEF SQueueInv, tail
<1> QED  BY <1>1, <1>3, <1>4

LEMMA SReceives ==
    ASSUME SInv, NEW r \in Ranks, S!Receive(r)
    PROVE  LET c    == schan[r]
               root == ScatterRoots[c.coll]
               pr   == c.packet_element_id_rcv
           IN  /\ c.coll \in 1 .. S!NumCollectives /\ root \in Ranks /\ root # r
               /\ ~ c.init /\ c.entered = c.returned + 1
               /\ c.entered <= ScatterCounts[c.coll]
               /\ \A b : SRooted(b, c.coll) <=> b = root
               /\ ssupport' = ssupport /\ scatter' = scatter /\ scontrol' = scontrol
               /\ sdata' \in Net(S!Packet)
               /\ \A a, b \in Ranks : a # root \/ b # r => sdata'[a][b] = sdata[a][b]
               /\ pr # 0 => sdata'[root][r] = sdata[root][r]
               /\ pr = 0 => sdata[root][r] # <<>>
                            /\ sdata'[root][r] = Tail(sdata[root][r])
               /\ \E net \in S!Packet :
                      /\ \A s \in pr .. ElementsPerPacket - 1 :
                             LET i == c.returned + 1 + (s - pr)
                             IN  i <= ScatterCounts[c.coll] => net[s] = <<c.coll, r, i>>
                      /\ schan' = [schan EXCEPT ![r] = S!Returned(r,
                             [c EXCEPT !.net_2 = net,
                                       !.packet_element_id_rcv = (@ + 1) % ElementsPerPacket])]
<1> DEFINE c    == schan[r]
           root == ScatterRoots[c.coll]
           pr   == c.packet_element_id_rcv
           with(net) == [schan EXCEPT ![r] = S!Returned(r,
               [c EXCEPT !.net_2 = net, !.packet_element_id_rcv = (@ + 1) % ElementsPerPacket])]
<1>1. /\ c.returned < c.entered /\ ~ S!IsRoot(r) /\ ~ c.init
      /\ ssupport' = ssupport /\ scatter' = scatter /\ scontrol' = scontrol
      /\ IF pr = 0
         THEN \E src \in Waiting(sdata, r) :
                  sdata' = Take(sdata, src, r) /\ schan' = with(Head(sdata[src][r]))
         ELSE schan' = with(c.net_2) /\ sdata' = sdata
  BY SWires DEF S!Receive, S!InCall
<1>2. S!TypeOK /\ (\A q \in Ranks : SRankInv(q)) /\ \A b, d \in Ranks : SPairInv(b, d)
  BY DEF SInv
<1>3. c \in SChannel /\ sdata \in Net(S!Packet)
  BY <1>2, STypes, STypeOK
<1>4. /\ c.coll \in 1 .. S!NumCollectives /\ root \in Ranks /\ root # r
      /\ c.entered = c.returned + 1 /\ c.entered <= ScatterCounts[c.coll]
      /\ \A b : SRooted(b, c.coll) <=> b = root
  <2>1. SCallInv(r, c) /\ c.returned < c.entered /\ ~ S!IsRoot(r)
    BY <1>1, <1>2 DEF SRankInv
  <2>2. /\ c.coll \in Int /\ c.coll >= 1 /\ S!NumCollectives \in Int
        /\ c.returned \in Int /\ c.returned >= 0
    BY <1>3, SChannelFields, SNumbers
  <2>3. c.coll \in 1 .. S!NumCollectives /\ c.entered = c.returned + 1
    BY <2>1, <2>2 DEF SCallInv
  <2>4. ScatterCounts[c.coll] \in Int /\ c.entered <= ScatterCounts[c.coll]
    <3>1. ScatterRoots[c.coll] # r
      BY <2>1, <2>2, <2>3, SNumbers DEF S!IsRoot
    <3>2. S!Calls(c.coll, r) = ScatterCounts[c.coll] /\ ScatterCounts[c.coll] \in Int
      BY <2>3, <3>1, SCalls
    <3> QED  BY <2>1, <2>2, <2>3, <3>2 DEF SCallInv
  <2> QED  BY <2>1, <2>3, <2>4, SNumbers DEF SRooted, S!IsRoot
<1>5. CASE pr # 0
  <2>1. schan' = with(c.net_2) /\ sdata' = sdata /\ c.net_2 \in S!Packet
    BY <1>1, <1>3, <1>5, SChannelFields
  <2>2. SReadInv(r, c)
    BY <1>2, <1>4 DEF SRankInv
  <2>3. \A s \in pr .. ElementsPerPacket - 1 :
            LET i == c.returned + 1 + (s - pr)
            IN  i <= ScatterCounts[c.coll] => c.net_2[s] = <<c.coll, r, i>>
    BY <1>5, <2>2 DEF SReadInv
  <2> QED  BY <1>1, <1>3, <1>4, <1>5, <2>1, <2>3
<1>6. CASE pr = 0
  <2>1. PICK src \in Waiting(sdata, r) :
            sdata' = Take(sdata, src, r) /\ schan' = with(Head(sdata[src][r]))
    BY <1>1, <1>6
  <2> DEFINE queue == sdata[src][r]
  <2>2. /\ src \in Ranks /\ queue \in Seq(S!Packet) /\ queue # <<>>
        /\ Head(queue) \in S!Packet /\ Head(queue) = queue[1]
        /\ sdata' \in Net(S!Packet) /\ sdata'[src][r] = Tail(queue)
        /\ \A a, b \in Ranks : a # src \/ b # r => sdata'[a][b] = sdata[a][b]
    BY <1>3, <2>1, TakeAt
  <2>3. SQueueInv(queue, src, r, c)
    BY <1>2, <2>2 DEF SPairInv
  <2>4. src = root /\ queue[1][0][3] = SReads(c)
        /\ SPacket(queue[1], c.coll, r, queue[1][0][3])
    <3>1. 1 \in 1 .. Len(queue)
      BY <2>2, EmptySeq
    <3> QED  BY <1>4, <2>2, <2>3, <3>1 DEF SQueueInv
  <2>5. SReads(c) = c.returned + 1
    BY <1>6 DEF SReads
  <2>6. \A s \in pr .. ElementsPerPacket - 1 :
            LET i == c.returned + 1 + (s - pr)
            IN  i <= ScatterCounts[c.coll] => Head(queue)[s] = <<c.coll, r, i>>
    <3>1. \A s \in 0 .. ElementsPerPacket - 1 :
              LET i == c.returned + 1 + s
              IN  i <= ScatterCounts[c.coll] => queue[1][s] = <<c.coll, r, i>>
      BY <2>4, <2>5, SNumbers DEF SPacket
    <3> QED  BY <1>6, <2>2, <3>1
  <2> QED  BY <1>1, <1>3, <1>4, <1>6, <2>1, <2>2, <2>4, <2>6
<1> QED  BY <1>5, <1>6

(* A call that is not the last of its scatter *)
LEMMA SReceiveStep ==
    ASSUME SInv, NEW r \in Ranks, S!Receive(r),
           schan[r].entered # ScatterCounts[schan[r].coll]
    PROVE  SInv'
<1> DEFINE c    == schan[r]
           root == ScatterRoots[c.coll]
           pr   == c.packet_element_id_rcv
           c2   == schan'[r]
           next == (pr + 1) % ElementsPerPacket
           read(net) == [c EXCEPT !.net_2 = net,
                                  !.packet_element_id_rcv = (@ + 1) % ElementsPerPacket]
<1>1. S!TypeOK /\ (\A q \in Ranks : SRankInv(q)) /\ \A b, d \in Ranks : SPairInv(b, d)
  BY DEF SInv
<1>2. c \in SChannel
  BY <1>1, STypes
<1>3. /\ c.coll \in 1 .. S!NumCollectives /\ root \in Ranks /\ root # r
      /\ ~ c.init /\ c.entered = c.returned + 1 /\ c.entered < ScatterCounts[c.coll]
      /\ \A b : SRooted(b, c.coll) <=> b = root
      /\ ssupport' = ssupport /\ scatter' = scatter /\ scontrol' = scontrol
      /\ sdata' \in Net(S!Packet)
      /\ \A a, b \in Ranks : a # root \/ b # r => sdata'[a][b] = sdata[a][b]
      /\ pr # 0 => sdata'[root][r] = sdata[root][r]
      /\ pr = 0 => sdata[root][r] # <<>> /\ sdata'[root][r] = Tail(sdata[root][r])
  <2>1. /\ c.coll \in 1 .. S!NumCollectives /\ root \in Ranks /\ root # r
        /\ ~ c.init /\ c.entered = c.returned + 1 /\ c.entered <= ScatterCounts[c.coll]
        /\ \A b : SRooted(b, c.coll) <=> b = root
        /\ ssupport' = ssupport /\ scatter' = scatter /\ scontrol' = scontrol
        /\ sdata' \in Net(S!Packet)
        /\ \A a, b \in Ranks : a # root \/ b # r => sdata'[a][b] = sdata[a][b]
        /\ pr # 0 => sdata'[root][r] = sdata[root][r]
        /\ pr = 0 => sdata[root][r] # <<>> /\ sdata'[root][r] = Tail(sdata[root][r])
    BY SReceives
  <2>2. c.entered \in Int /\ ScatterCounts[c.coll] \in Int
    BY <1>2, <2>1, SChannelFields, SNumbers
  <2>3. c.entered < ScatterCounts[c.coll]
    BY <2>1, <2>2
  <2> QED  BY <2>1, <2>3
<1>4. PICK net \in S!Packet :
          /\ \A s \in pr .. ElementsPerPacket - 1 :
                 LET i == c.returned + 1 + (s - pr)
                 IN  i <= ScatterCounts[c.coll] => net[s] = <<c.coll, r, i>>
          /\ schan' = [schan EXCEPT ![r] = S!Returned(r, read(net))]
  BY SReceives
<1>5. /\ S!Returned(r, read(net))
             = [c EXCEPT !.net_2 = net, !.packet_element_id_rcv = next,
                         !.returned = c.entered]
      /\ next \in S!Slots
      /\ next = IF pr + 1 = ElementsPerPacket THEN 0 ELSE pr + 1
  <2>1. read(net).entered = c.entered
        /\ read(net).coll = c.coll
    BY <1>2 DEF SChannel
  <2>2. pr \in Int /\ pr >= 0 /\ pr < ElementsPerPacket
    BY <1>2, SChannelFields
  <2>3. next = IF pr + 1 = ElementsPerPacket THEN 0 ELSE pr + 1
    BY <2>2, Wraps, Numbers
  <2>4. next \in S!Slots
    BY <2>2, <2>3, SNumbers, Numbers, SMTT(30)
  <2>5. S!Calls(c.coll, r) = ScatterCounts[c.coll] /\ c.entered # S!Calls(c.coll, r)
    BY <1>3, SCalls
  <2>6. S!Returned(r, read(net)) = [read(net) EXCEPT !.returned = c.entered]
    BY <2>1, <2>5 DEF S!Returned
  <2> QED  BY <1>2, <2>3, <2>4, <2>6 DEF SChannel
<1>6. /\ schan' \in [Ranks -> SChannel]
      /\ \A q \in Ranks \ {r} : schan'[q] = schan[q]
      /\ c2 = [c EXCEPT !.net_2 = net, !.packet_element_id_rcv = next,
                        !.returned = c.entered]
  <2>1. [c EXCEPT !.net_2 = net, !.packet_element_id_rcv = next,
                  !.returned = c.entered] \in SChannel
    BY <1>2, <1>4, <1>5 DEF SChannel
  <2>2. schan \in [Ranks -> SChannel]
    BY <1>1, STypeOK
  <2> QED  BY <1>4, <1>5, <2>1, <2>2
<1>7. /\ c2.coll = c.coll /\ c2.entered = c.entered /\ c2.returned = c.returned + 1
      /\ c2.init = c.init /\ c2.op = c.op /\ c2.packet_element_id = c.packet_element_id
      /\ c2.net_2 = net /\ c2.next_rcv = c.next_rcv
      /\ c2.processed_elements = c.processed_elements
      /\ c2.packet_element_id_rcv = IF pr + 1 = ElementsPerPacket THEN 0 ELSE pr + 1
  BY <1>2, <1>3, <1>5, <1>6 DEF SChannel
<1>8. pr \in Int /\ pr >= 0 /\ pr < ElementsPerPacket /\ ElementsPerPacket \in Int
      /\ c.returned \in Int /\ c.coll \in Int /\ ScatterCounts[c.coll] \in Int
  BY <1>2, <1>3, SChannelFields, SNumbers, Numbers
<1> HIDE DEF c2
<1>9. SReads(c2) = IF pr = 0 THEN SReads(c) + ElementsPerPacket ELSE SReads(c)
  BY <1>7, <1>8 DEF SReads
<1>10. S!TypeOK'
  BY <1>1, <1>3, <1>6, STypeOK, STypeOKNext
<1>11. ASSUME NEW q \in Ranks
       PROVE  /\ SLine(q)' = SLine(q) /\ SPlace(q)' = SPlace(q)
              /\ SFifoInv(q, scatter'[q], SFills(q, schan'[q]))
              /\ SKernelInv(q, ssupport'[q], SLine(q)',
                            SUncounted(q, ssupport[q].mess.net[0][1])')
  <2>1. SFills(q, schan'[q]) = SFills(q, schan[q])
    BY <1>3, <1>6, <1>7 DEF SFills, c2
  <2>2. \A d \in Ranks \ {q} : \A k :
            SToCount(k, schan'[d], scontrol'[d][q]) <=> SToCount(k, schan[d], scontrol[d][q])
    BY <1>3, <1>6, <1>7, ZenonT(30) DEF SToCount, c2
  <2> QED  BY <1>1, <1>3, <2>1, <2>2, SLineStays
<1>12. ASSUME NEW q \in Ranks PROVE SRankInv(q)'
  <2>1. SRankInv(q)
    BY <1>1
  <2>2. SCallInv(q, schan'[q]) /\ SSendInv(q, schan'[q])
        /\ (~ SRooted(q, schan'[q].coll) => SReadInv(q, schan'[q]))
    <3>1. CASE q # r
      BY <1>6, <2>1, <3>1 DEF SRankInv
    <3>2. CASE q = r
      <4>1. SCallInv(r, c2)
        <5>1. /\ c2.entered = c2.returned /\ c2.coll <= S!NumCollectives
              /\ c2.returned < S!Calls(c2.coll, r)
          BY <1>3, <1>7, <1>8, SCalls
        <5> QED  BY <1>7, <1>8, <5>1, SNumbers DEF SCallInv
      <4>2. SSendInv(r, c2)
        BY <1>3, <1>7, <2>1, <3>2 DEF SSendInv, SRankInv
      <4>3. SReadInv(r, c2)
        <5>1. ~ c2.init
          BY <1>3, <1>7
        <5>2. ASSUME c2.packet_element_id_rcv # 0,
                     NEW s \in c2.packet_element_id_rcv .. ElementsPerPacket - 1
              PROVE  LET i == c2.returned + 1 + (s - c2.packet_element_id_rcv)
                     IN  i <= ScatterCounts[c2.coll] => c2.net_2[s] = <<c2.coll, r, i>>
          <6>1. c2.packet_element_id_rcv = pr + 1 /\ s \in pr .. ElementsPerPacket - 1
            BY <1>7, <1>8, <5>2
          <6>2. c2.returned + 1 + (s - c2.packet_element_id_rcv)
                    = c.returned + 1 + (s - pr)
            BY <1>7, <1>8, <6>1
          <6> QED  BY <1>4, <1>7, <6>1, <6>2
        <5> QED  BY <5>1, <5>2 DEF SReadInv
      <4> QED  BY <3>2, <4>1, <4>2, <4>3 DEF c2
    <3> QED  BY <3>1, <3>2
  <2> QED  BY <1>3, <1>11, <2>1, <2>2 DEF SRankInv
<1>13. ASSUME NEW b \in Ranks, NEW d \in Ranks PROVE SPairInv(b, d)'
  <2>1. SPairInv(b, d) /\ SPlace(b)' = SPlace(b)
    BY <1>1, <1>11
  <2>2. CASE d # r
    <3>1. sdata'[b][d] = sdata[b][d] /\ schan'[d] = schan[d]
      BY <1>3, <1>6, <2>2
    <3> QED  BY <1>3, <2>1, <3>1, SPairStays
  <2>3. CASE d = r /\ b # root
    <3>1. sdata'[b][d] = sdata[b][d] /\ ~ SRooted(b, c.coll)
      BY <1>3, <2>3
    <3>2. SQueueInv(sdata'[b][d], b, d, schan'[d])
      BY <1>7, <2>1, <2>3, <3>1 DEF SPairInv, SQueueInv, c2
    <3>3. SRequestInv(scontrol'[d][b], d, b, schan'[d])
      BY <1>3, <1>7, <2>1, <2>3, <3>1 DEF SPairInv, SRequestInv, c2
    <3>4. SAskInv(b, d, schan'[d], scontrol'[d][b], SX(b, d)', SPlace(b)',
                     ssupport'[b])
      BY <1>7, <2>3, <3>1 DEF SAskInv, c2
    <3>5. b # d => SAt(b, d, schan'[d].coll, SX(b, d)', SPlace(b)')
      BY <1>3, <1>7, <2>1, <2>3, <3>1 DEF SPairInv, SAt, c2
    <3> QED  BY <3>2, <3>3, <3>4, <3>5 DEF SPairInv
  <2>4. CASE d = r /\ b = root
    <3> DEFINE queue == sdata[b][d]
    <3>1. /\ SQueueInv(sdata'[b][d], b, d, c2)
          /\ SX(b, d)' = SX(b, d)
      <4>1. SQueueInv(queue, b, d, c)
        BY <2>1, <2>4 DEF SPairInv
      <4>2. CASE pr = 0
        <5>1. queue \in Seq(S!Packet)
          BY <1>1, STypes
        <5>2. queue # <<>> /\ sdata'[b][d] = Tail(queue)
          BY <1>3, <2>4, <4>2
        <5>3. SReads(c2) = SReads(c) + ElementsPerPacket
          BY <1>9, <4>2
        <5> HIDE DEF queue
        <5>4. /\ SQueueInv(Tail(queue), b, d, c2)
              /\ SExpects(Tail(queue), c2) = SExpects(queue, c)
          BY <1>2, <1>7, <4>1, <4>2, <5>1, <5>2, <5>3, SQueueTail
        <5> QED  BY <2>4, <5>2, <5>4 DEF SX, c2, queue
      <4>3. CASE pr # 0
        <5>1. sdata'[b][d] = queue /\ SReads(c2) = SReads(c)
          BY <1>3, <1>9, <2>4, <4>3
        <5> QED  BY <1>7, <2>4, <4>1, <5>1, ZenonT(30) DEF SX, SExpects, SQueueInv, c2
      <4> QED  BY <4>2, <4>3
    <3>2. SRequestInv(scontrol'[d][b], d, b, c2)
      BY <1>3, <1>7, <2>1, <2>4 DEF SPairInv, SRequestInv
    <3>3. SAskInv(b, d, c2, scontrol'[d][b], SX(b, d)', SPlace(b)',
                     ssupport'[b])
      BY <1>3, <1>7, <2>1, <2>4, <3>1 DEF SPairInv, SAskInv
    <3>4. SAt(b, d, c2.coll, SX(b, d)', SPlace(b)')
      BY <1>3, <1>7, <2>1, <2>4, <3>1 DEF SPairInv
    <3> QED  BY <2>4, <3>1, <3>2, <3>3, <3>4 DEF SPairInv, c2
  <2> QED  BY <2>2, <2>3, <2>4
<1> QED  BY <1>10, <1>12, <1>13 DEF SInv

(* The last call of a scatter at a receiver *)
LEMMA SReceiveLastStep ==
    ASSUME SInv, NEW r \in Ranks, S!Receive(r),
           schan[r].entered = ScatterCounts[schan[r].coll]
    PROVE  SInv'
<1> DEFINE c    == schan[r]
           k    == c.coll
           root == ScatterRoots[k]
           pr   == c.packet_element_id_rcv
           read(net) == [c EXCEPT !.net_2 = net,
                                  !.packet_element_id_rcv = (@ + 1) % ElementsPerPacket]
<1>1. S!TypeOK /\ (\A q \in Ranks : SRankInv(q)) /\ \A b, d \in Ranks : SPairInv(b, d)
  BY DEF SInv
<1>2. c \in SChannel
  BY <1>1, STypes
<1>3. /\ k \in 1 .. S!NumCollectives /\ root \in Ranks /\ root # r
      /\ ~ c.init /\ c.entered = c.returned + 1 /\ c.entered = ScatterCounts[k]
      /\ \A b : SRooted(b, k) <=> b = root
      /\ ssupport' = ssupport /\ scatter' = scatter /\ scontrol' = scontrol
      /\ sdata' \in Net(S!Packet)
      /\ \A a, b \in Ranks : a # root \/ b # r => sdata'[a][b] = sdata[a][b]
      /\ pr # 0 => sdata'[root][r] = sdata[root][r]
      /\ pr = 0 => sdata[root][r] # <<>> /\ sdata'[root][r] = Tail(sdata[root][r])
  BY SReceives
<1>4. PICK net \in S!Packet :
          schan' = [schan EXCEPT ![r] = S!Returned(r, read(net))]
  BY SReceives
<1>5. S!Returned(r, read(net))
          = S!Opened(k + 1)
  <2>1. read(net).entered = c.entered
        /\ read(net).coll = k
    BY <1>2 DEF SChannel
  <2>2. c.entered = S!Calls(k, r)
    BY <1>3, SCalls
  <2> QED  BY <2>1, <2>2 DEF S!Returned
<1>6. /\ schan' \in [Ranks -> SChannel]
      /\ \A q \in Ranks \ {r} : schan'[q] = schan[q]
      /\ schan'[r] = S!Opened(k + 1)
  <2>1. k + 1 \in 1 .. S!NumCollectives + 1
    BY <1>3, SNumbers
  <2>2. S!Opened(k + 1) \in SChannel
    BY <2>1, SOpenedFields
  <2>3. schan \in [Ranks -> SChannel]
    BY <1>1, STypeOK
  <2> QED  BY <1>4, <1>5, <2>2, <2>3
<1>7. /\ pr \in Int /\ pr >= 0 /\ pr < ElementsPerPacket /\ ElementsPerPacket \in Int
      /\ c.returned \in Int /\ k \in Int /\ ScatterCounts[k] \in Int /\ ScatterCounts[k] >= 1
  BY <1>2, <1>3, SChannelFields, SNumbers, Numbers, SMTT(30)
<1>8. S!TypeOK'
  BY <1>1, <1>3, <1>6, STypeOK, STypeOKNext
<1>9. \A b \in Ranks : b # root => sdata[b][r] = <<>> /\ scontrol[r][b] = <<>>
  <2>1. \A b \in Ranks : SQueueInv(sdata[b][r], b, r, c) /\ SRequestInv(scontrol[r][b], r, b, c)
    BY <1>1 DEF SPairInv
  <2> QED  BY <1>3, <2>1 DEF SQueueInv, SRequestInv
<1>10. sdata'[root][r] = <<>> /\ SX(root, r) > ScatterCounts[k]
  <2> DEFINE queue == sdata[root][r]
             n     == Len(queue)
  <2>1. SQueueInv(queue, root, r, c) /\ queue \in Seq(S!Packet)
    BY <1>1, <1>3, STypes DEF SPairInv
  <2>2. n \in Int /\ n >= 0 /\ (queue # <<>> => n >= 1)
    BY <2>1, EmptySeq
  <2>3. SReads(c) + (IF pr = 0 THEN ElementsPerPacket ELSE 0) > ScatterCounts[k]
    BY <1>3, <1>7 DEF SReads
  <2>4. queue # <<>> =>
            /\ queue[1][0][3] = SReads(c) /\ queue[1][0][3] <= ScatterCounts[k]
            /\ n > 1 => queue[2][0][3] = queue[1][0][3] + ElementsPerPacket
                        /\ queue[2][0][3] <= ScatterCounts[k]
    <3>1. 1 + 1 = 2 /\ (queue # <<>> => 1 \in 1 .. n)
          /\ (n > 1 => 1 \in 1 .. n - 1 /\ 2 \in 1 .. n)
      BY <2>2
    <3>2. \A j \in 1 .. n : queue # <<>> => queue[j][0][3] <= ScatterCounts[k]
      <4> SUFFICES ASSUME NEW j \in 1 .. n, queue # <<>>
                   PROVE  queue[j][0][3] <= ScatterCounts[k]
        OBVIOUS
      <4>1. SPacket(queue[j], k, r, queue[j][0][3])
        BY <2>1 DEF SQueueInv
      <4>2. queue[j][0][3] \in 1 .. ScatterCounts[k]
        BY <4>1 DEF SPacket
      <4> HIDE DEF c, k, queue, root
      <4> QED  BY <1>7, <4>2
    <3> QED  BY <2>1, <3>1, <3>2 DEF SQueueInv
  <2>5. CASE pr = 0
    <3>1. queue # <<>> /\ sdata'[root][r] = Tail(queue)
      BY <1>3, <2>5
    <3>2. n = 1
      <4>1. SReads(c) \in Int
        BY <1>7, <2>5 DEF SReads
      <4>2. n > 1 => SReads(c) + ElementsPerPacket <= ScatterCounts[k]
        BY <2>4, <3>1
      <4>3. SReads(c) + ElementsPerPacket > ScatterCounts[k]
        BY <2>3, <2>5
      <4>4. n >= 1
        BY <2>2, <3>1
      <4> HIDE DEF k, queue, n
      <4> QED  BY <1>7, <2>2, <4>1, <4>2, <4>3, <4>4
    <3>3. Tail(queue) \in Seq(S!Packet) /\ Len(Tail(queue)) = 0
      BY <2>1, <3>1, <3>2, HeadTailProperties
    <3>4. Tail(queue) = <<>>
      BY <3>3, EmptySeq
    <3>5. SX(root, r) = queue[1][0][3] + ElementsPerPacket
      BY <3>1, <3>2 DEF SX, SExpects
    <3> QED  BY <2>3, <2>4, <2>5, <3>1, <3>4, <3>5
  <2>6. CASE pr # 0
    <3>1. queue = <<>>
      <4>1. SReads(c) \in Int
        BY <1>7, <2>6 DEF SReads
      <4> HIDE DEF c, k, queue, root, pr
      <4> QED  BY <1>7, <2>3, <2>4, <2>6, <4>1
    <3>2. SX(root, r) = SReads(c)
      BY <3>1 DEF SX, SExpects
    <3> QED  BY <1>3, <1>7, <2>3, <2>6, <3>1, <3>2 DEF SReads
  <2> QED  BY <2>5, <2>6
<1>11. scontrol[r][root] = <<>>
  <2>1. SAskInv(root, r, c, scontrol[r][root], SX(root, r), SPlace(root),
                 ssupport[root])
    BY <1>1, <1>3 DEF SPairInv
  <2>2. SX(root, r) # 1
    <3> HIDE DEF k
    <3>1. SX(root, r) > ScatterCounts[k] /\ ScatterCounts[k] \in Int /\ ScatterCounts[k] >= 1
      BY <1>7, <1>10
    <3> QED  BY <3>1
  <2> QED  BY <1>3, <2>1, <2>2 DEF SAskInv
<1>12. \A b \in Ranks \ {r} : SLine(b)' = SLine(b) /\ SPlace(b)' = SPlace(b)
  BY <1>3, <1>6 DEF SLine, SOffers, SPlace
<1>13. /\ \A b \in Ranks : SPairInv(b, r)'
       /\ \A b \in Ranks \ {r} : \A j : ScatterRoots[j] = b /\ j \in 1 .. S!NumCollectives =>
              (SToCount(j, schan'[r], scontrol'[r][b]) <=>
               SToCount(j, schan[r], scontrol[r][b]))
  <2>1. \A b \in Ranks : sdata'[b][r] = <<>> /\ scontrol[r][b] = <<>>
    BY <1>3, <1>9, <1>10, <1>11
  <2>2. \A b \in Ranks \ {r} : SRooted(b, k) => ~ c.init /\ SX(b, r) > ScatterCounts[k]
    BY <1>3, <1>10
  <2> QED  BY <1>3, <1>6, <1>12, <2>1, <2>2, SMovesOn
<1>14. ASSUME NEW q \in Ranks, q # r
       PROVE  /\ SFifoInv(q, scatter'[q], SFills(q, schan'[q]))
              /\ SKernelInv(q, ssupport'[q], SLine(q)',
                            SUncounted(q, ssupport[q].mess.net[0][1])')
  <2>1. SRankInv(q)
    BY <1>1
  <2>2. ASSUME ~ ssupport[q].external, NEW d \in Ranks \ {q}
        PROVE  LET j == ssupport[q].mess.net[0][1]
               IN  SToCount(j, schan'[d], scontrol'[d][q])
                       <=> SToCount(j, schan[d], scontrol[d][q])
    <3>1. CASE d = r
      <4>1. ssupport[q].mess.net[0][1] \in 1 .. S!NumCollectives
            /\ ScatterRoots[ssupport[q].mess.net[0][1]] = q
        BY <2>1, <2>2 DEF SRankInv, SKernelInv, SItem, SPacket
      <4> QED  BY <1>13, <1>14, <3>1, <4>1
    <3>2. CASE d # r
      BY <1>3, <1>6, <3>2
    <3> QED  BY <3>1, <3>2
  <2> QED  BY <1>3, <1>6, <1>14, <2>1, <2>2, SLineStays
<1>15. SRankInv(r)' /\ \A d \in Ranks \ {r} : SPairInv(r, d)'
  <2>1. SFills(r, schan[r]) = <<k, 0, 1>> /\ SFills(r, schan'[r]) = <<k + 1, 0, 1>>
    <3>1. ~ SRooted(r, k)
      BY <1>3
    <3>2. SFills(r, schan[r]) = <<k, 0, 1>>
      BY <3>1 DEF SFills
    <3>3. SFills(r, S!Opened(k + 1)) = <<k + 1, 0, 1>>
      BY SOpenedFields
    <3> QED  BY <1>6, <3>2, <3>3
  <2>2. SAdvances(r, SFills(r, schan[r]), SFills(r, schan'[r]))
    BY <1>3, <2>1, SLinePasses
  <2>3. SLineInv(r)'
    BY <1>3, <1>6, <2>2, SAdvance
  <2>4. SCallInv(r, schan'[r]) /\ SSendInv(r, schan'[r]) /\ SReadInv(r, schan'[r])
    <3>1. k + 1 \in 1 .. S!NumCollectives + 1
      BY <1>3, SNumbers
    <3>2. schan'[r] = S!Opened(k + 1)
      BY <1>6
    <3> DEFINE next == k + 1
               c2 == S!Opened(next)
    <3>3. next \in 1 .. S!NumCollectives + 1 /\ schan'[r] = c2
      BY <3>1, <3>2
    <3> HIDE DEF next
    <3>4. SCallInv(r, c2) /\ SSendInv(r, c2) /\ SReadInv(r, c2)
      BY <3>3, SOpenedFields
    <3> HIDE DEF c2
    <3> QED  BY <3>3, <3>4
  <2> QED  BY <2>3, <2>4 DEF SLineInv, SRankInv
<1>16. ASSUME NEW q \in Ranks PROVE SRankInv(q)'
  <2>1. CASE q # r
    <3>1. SRankInv(q) /\ schan'[q] = schan[q]
      BY <1>1, <1>6, <2>1
    <3> QED  BY <1>3, <1>14, <2>1, <3>1 DEF SRankInv
  <2> QED  BY <1>15, <2>1
<1>17. ASSUME NEW b \in Ranks, NEW d \in Ranks PROVE SPairInv(b, d)'
  <2>1. CASE d = r \/ b = r
    BY <1>13, <1>15, <2>1
  <2>2. CASE d # r /\ b # r
    <3>1. SPairInv(b, d) /\ SPlace(b)' = SPlace(b)
          /\ sdata'[b][d] = sdata[b][d] /\ schan'[d] = schan[d]
      BY <1>1, <1>3, <1>6, <1>12, <2>2
    <3> QED  BY <1>3, <3>1, SPairStays
  <2> QED  BY <2>1, <2>2
<1> QED  BY <1>8, <1>16, <1>17 DEF SInv

-----------------------------------------------------------------------------
(* What the root packs *)

LEMMA DivMod ==
    ASSUME NEW n \in Nat \ {0}, NEW q \in Nat, NEW p \in Nat, p < n
    PROVE  (q * n + p) \div n = q /\ (q * n + p) % n = p
<1> DEFINE m == q * n + p
           d == m \div n
           e == m % n
<1>1. m \in Int
  OBVIOUS
<1>2. d \in Int /\ e \in Int /\ 0 <= e /\ e < n /\ m = d * n + e
  BY <1>1
<1> QED  BY <1>1, <1>2

(* Element p of receiver q is the last of all. *)
LEMMA LastElement ==
    ASSUME NEW n \in Nat \ {0}, NEW q \in Nat, NEW p \in Nat, p < n, NEW w \in Nat, q < w
    PROVE  q * n + p + 1 = w * n <=> q + 1 = w /\ p + 1 = n
<1>1. CASE q + 1 = w
  <2>1. w * n = q * n + n
    BY <1>1
  <2> QED  BY <1>1, <2>1
<1>2. CASE q + 1 < w
  OBVIOUS
<1> QED BY <1>1, <1>2

(* The channel of a root in a scatter *)
LEMMA SRootFields ==
    ASSUME SInv, NEW r \in Ranks, SRooted(r, schan[r].coll)
    PROVE  LET c == schan[r]
               k == c.coll
               n == ScatterCounts[k]
           IN  /\ c \in SChannel /\ k \in Int /\ k >= 1 /\ k \in 1 .. S!NumCollectives
               /\ n \in Int /\ n >= 1 /\ n \in Nat \ {0}
               /\ c.next_rcv \in Ranks /\ c.next_rcv \in Int
               /\ c.next_rcv >= 0 /\ c.next_rcv < NumRanks
               /\ c.processed_elements \in Int /\ c.processed_elements >= 0
               /\ c.processed_elements < n
               /\ c.packet_element_id \in Int /\ c.packet_element_id >= 0
               /\ c.packet_element_id < ElementsPerPacket
               /\ c.packet_element_id <= c.processed_elements
               /\ ElementsPerPacket \in Int
               /\ c.returned \in Int /\ c.entered \in Int
               /\ c.returned = c.next_rcv * n + c.processed_elements
               /\ c.entered \in {c.returned, c.returned + 1}
               /\ c.op \in {"SYNCH", "SCATTER"}
               /\ c.op = "SYNCH" <=> SFirst(r, SFills(r, c))
               /\ SFills(r, c) = <<k, c.next_rcv,
                                   c.processed_elements - c.packet_element_id + 1>>
<1> DEFINE c == schan[r]
           k == c.coll
           n == ScatterCounts[k]
<1>1. /\ S!TypeOK /\ SRankInv(r) /\ c \in SChannel
  BY STypes DEF SInv
<1>2. k \in 1 .. S!NumCollectives /\ n \in Nat \ {0}
  BY SNumbers DEF SRooted
<1>3. SSendInv(r, c) /\ SCallInv(r, c)
  BY <1>1 DEF SRankInv
<1>4. c.next_rcv < NumRanks /\ c.next_rcv \in Int /\ c.next_rcv >= 0
  BY <1>1, <1>3, SChannelFields DEF SSendInv
<1>5. c.next_rcv \in Ranks
  BY <1>4, Numbers
<1>6. SFills(r, c) = <<k, c.next_rcv, c.processed_elements - c.packet_element_id + 1>>
  BY DEF SFills
<1>7. c.returned = c.next_rcv * n + c.processed_elements
  BY <1>3 DEF SSendInv
<1>8. /\ c.processed_elements < n /\ c.packet_element_id <= c.processed_elements
      /\ c.op = "SYNCH" <=> SFirst(r, SFills(r, c))
  BY <1>3 DEF SSendInv
<1>9. c.entered \in {c.returned, c.returned + 1}
  BY <1>3 DEF SCallInv
<1> QED  BY <1>1, <1>2, <1>4, <1>5, <1>6, <1>7, <1>8, <1>9, SChannelFields, Numbers

LEMMA SSends ==
    ASSUME SInv, NEW r \in Ranks, S!Send(r)
    PROVE  LET c  == schan[r]
               k  == c.coll
               n  == ScatterCounts[k]
               w  == c.next_rcv
               id == c.packet_element_id
               i  == c.processed_elements - id + 1
           IN  /\ SRooted(r, k)
               /\ c.entered = c.returned + 1
               /\ c.entered = S!Calls(k, r) <=>
                      w + 1 = NumRanks /\ c.processed_elements + 1 = n
               /\ S!Leaves(c) <=>
                      id + 1 = ElementsPerPacket \/ c.processed_elements + 1 = n
               /\ ssupport' = ssupport /\ sdata' = sdata /\ scontrol' = scontrol
               /\ \E packed \in S!Packet :
                      /\ w # r => \A s \in 0 .. id : packed[s] = <<k, w, i + s>>
                      /\ S!Leaves(c) /\ w # r =>
                             scatter[r] = <<>> /\ SPacket(packed, k, w, i)
                      /\ scatter' = [scatter EXCEPT ![r] =
                             IF S!Leaves(c) /\ w # r
                             THEN <<[op |-> c.op, dst |-> w, net |-> packed]>> ELSE @]
                      /\ schan' = [schan EXCEPT ![r] = S!Returned(r, [S!Counted(c) EXCEPT
                             !.net = packed,
                             !.op = IF S!Leaves(c) /\ w # r THEN "SCATTER" ELSE @])]
<1> DEFINE c  == schan[r]
           k  == c.coll
           n  == ScatterCounts[k]
           w  == c.next_rcv
           y  == c.processed_elements
           id == c.packet_element_id
           i  == y - id + 1
           element == <<k, (c.entered - 1) \div n, ((c.entered - 1) % n) + 1>>
           packed  == IF w = r THEN c.net ELSE [c.net EXCEPT ![id] = element]
<1>1. /\ c.returned < c.entered /\ S!IsRoot(r)
      /\ S!Leaves(c) /\ w # r => scatter[r] = <<>>
      /\ ssupport' = ssupport /\ sdata' = sdata /\ scontrol' = scontrol
      /\ scatter' = [scatter EXCEPT ![r] =
             IF S!Leaves(c) /\ w # r
             THEN <<[op |-> c.op, dst |-> w, net |-> packed]>> ELSE @]
      /\ schan' = [schan EXCEPT ![r] = S!Returned(r, [S!Counted(c) EXCEPT
             !.net = packed,
             !.op = IF S!Leaves(c) /\ w # r THEN "SCATTER" ELSE @])]
  BY DEF S!Send, S!InCall
<1>2. SRooted(r, k)
  <2>1. c \in SChannel
    BY STypes DEF SInv
  <2> QED  BY <1>1, <2>1, SChannelFields, SNumbers DEF S!IsRoot, SRooted
<1>3. /\ c \in SChannel /\ k \in Int /\ k \in 1 .. S!NumCollectives
      /\ n \in Int /\ n >= 1 /\ n \in Nat \ {0}
      /\ w \in Ranks /\ w \in Int /\ w >= 0 /\ w < NumRanks
      /\ y \in Int /\ y >= 0 /\ y < n
      /\ id \in Int /\ id >= 0 /\ id < ElementsPerPacket /\ id <= y
      /\ ElementsPerPacket \in Int
      /\ c.returned \in Int /\ c.entered \in Int
      /\ c.returned = w * n + y /\ c.entered \in {c.returned, c.returned + 1}
  BY <1>2, SRootFields
<1>4. c.entered = c.returned + 1
  BY <1>1, <1>3
<1>5. c.entered = S!Calls(k, r) <=> w + 1 = NumRanks /\ y + 1 = n
  <2>1. S!Calls(k, r) = NumRanks * n
    BY <1>2, SCalls DEF SRooted
  <2>2. c.entered = w * n + y + 1
    BY <1>3, <1>4
  <2>3. w * n + y + 1 = NumRanks * n <=> w + 1 = NumRanks /\ y + 1 = n
    BY <1>3, LastElement, Numbers
  <2> QED  BY <2>1, <2>2, <2>3
<1>6. S!Leaves(c) <=> id + 1 = ElementsPerPacket \/ y + 1 = n
  BY DEF S!Leaves
<1>7. element = <<k, w, y + 1>>
  <2>1. c.entered - 1 = w * n + y
    BY <1>3, <1>4
  <2>2. (w * n + y) \div n = w /\ (w * n + y) % n = y
    <3>1. w \in Nat /\ y \in Nat /\ n \in Nat \ {0} /\ y < n
      BY <1>3
    <3> HIDE DEF w, y, n
    <3> QED  BY <3>1, DivMod
  <2> QED  BY <2>1, <2>2
<1> HIDE DEF element
<1>8. packed \in S!Packet
  <2>1. c.net \in S!Packet
    BY <1>3, SChannelFields
  <2>2. <<k, w, y + 1>> \in S!Elements
    <3>1. y + 1 \in 1 .. n
      BY <1>3
    <3> QED  BY <1>3, <3>1, SElements
  <2> QED  BY <1>7, <2>1, <2>2 DEF S!Packet
<1>9. ASSUME w # r, NEW s \in 0 .. id PROVE packed[s] = <<k, w, i + s>>
  <2>1. s \in S!Slots /\ c.net \in [S!Slots -> S!Elements]
    BY <1>3, SNumbers, SChannelFields, SMTT(30) DEF S!Packet
  <2>2. CASE s = id
    <3>1. i + s = y + 1
      BY <1>3, <2>2
    <3> QED  BY <1>7, <1>9, <2>1, <2>2, <3>1
  <2>3. CASE s # id
    <3>1. s \in 0 .. id - 1
      BY <1>3, <2>3
    <3>2. c.net[s] = <<k, w, i + s>>
      BY <1>2, <1>9, <3>1 DEF SInv, SRankInv, SSendInv
    <3> QED  BY <1>9, <2>1, <2>3, <3>2
  <2> QED  BY <2>2, <2>3
<1>10. S!Leaves(c) /\ w # r => SPacket(packed, k, w, i)
  <2>1. i \in 1 .. n
    BY <1>3
  <2> SUFFICES ASSUME S!Leaves(c), w # r, NEW s \in S!Slots, i + s <= n
               PROVE  packed[s] = <<k, w, i + s>>
    BY <1>3, <1>8, <2>1 DEF SPacket
  <2>2. s \in Int /\ s >= 0 /\ s < ElementsPerPacket
    BY SNumbers, Numbers
  <2>3. i \in Int /\ y + 1 = i + id
    BY <1>3
  <2> HIDE DEF i, packed
  <2>4. s \in 0 .. id
    BY <1>3, <1>6, <2>2, <2>3
  <2> QED  BY <1>9, <2>4
<1> QED  BY <1>1, <1>2, <1>4, <1>5, <1>6, <1>8, <1>9, <1>10

(* A packet that leaves becomes what the root offers, as the one it filled;  *)
(* `fills' is the place it goes on with. *)
LEMMA SOffered ==
    ASSUME NEW r \in Ranks, NEW k \in 1 .. S!NumCollectives, NEW w \in Ranks, w # r,
           NEW i \in 1 .. ScatterCounts[k], SRooted(r, k),
           NEW op, op = "SYNCH" <=> SFirst(r, <<k, w, i>>),
           NEW packed, SPacket(packed, k, w, i),
           NEW fills, SFollows(r, <<k, w, i>>, fills)
    PROVE  LET m == [op |-> op, dst |-> w, net |-> packed]
           IN  /\ \A c : SOffers(r, <<m>>, c) = <<k, w, i>>
               /\ SFifoInv(r, <<m>>, fills)
<1> DEFINE m == [op |-> op, dst |-> w, net |-> packed]
<1>1. packed[0] = <<k, w, i>>
  <2>1. i \in Int /\ ScatterCounts[k] \in Int /\ i + 0 <= ScatterCounts[k] /\ i + 0 = i
    BY SNumbers
  <2> QED  BY <2>1, SNumbers DEF SPacket
<1>2. <<m>>[1] = m /\ <<m>> # <<>> /\ m.op = op /\ m.dst = w /\ m.net = packed
  OBVIOUS
<1> HIDE DEF m
<1>3. SItem(r, m)
  BY <1>1, <1>2 DEF SItem, SRooted
<1>4. \A c : SOffers(r, <<m>>, c) = <<k, w, i>>
  BY <1>1, <1>2 DEF SOffers
<1>5. SFifoInv(r, <<m>>, fills)
  BY <1>1, <1>2, <1>3 DEF SFifoInv
<1> QED  BY <1>4, <1>5 DEF m


(* The channel of the root after the element *)
LEMMA SSent ==
    ASSUME SInv, NEW r \in Ranks, S!Send(r)
    PROVE  LET c    == schan[r]
               c2   == schan'[r]
               k    == c.coll
               w    == c.next_rcv
               y    == c.processed_elements
               id   == c.packet_element_id
               last == y + 1 = ScatterCounts[k]
           IN  /\ schan' \in [Ranks -> SChannel] /\ scatter' \in [Ranks -> Seq(SMessage)]
               /\ \A q \in Ranks \ {r} : schan'[q] = schan[q] /\ scatter'[q] = scatter[q]
               /\ ~ (S!Leaves(c) /\ w # r) => scatter' = scatter
               /\ c.entered = S!Calls(k, r) => c2 = S!Opened(k + 1)
               /\ c.entered # S!Calls(k, r) =>
                      /\ c2.coll = k /\ c2.entered = c.entered /\ c2.returned = c.entered
                      /\ c2.init = c.init
                      /\ c2.op = IF S!Leaves(c) /\ w # r THEN "SCATTER" ELSE c.op
                      /\ c2.next_rcv = IF last THEN w + 1 ELSE w
                      /\ c2.processed_elements = IF last THEN 0 ELSE y + 1
                      /\ c2.packet_element_id = IF S!Leaves(c) THEN 0 ELSE id + 1
                      /\ w # r /\ ~ S!Leaves(c) =>
                             \A s \in 0 .. id : c2.net[s] = <<k, w, y - id + 1 + s>>
               /\ S!Leaves(c) /\ w # r =>
                      \E packed \in S!Packet :
                          /\ SPacket(packed, k, w, y - id + 1) /\ scatter[r] = <<>>
                          /\ scatter'[r] = <<[op |-> c.op, dst |-> w, net |-> packed]>>
<1> DEFINE c    == schan[r]
           c2   == schan'[r]
           k    == c.coll
           n    == ScatterCounts[k]
           w    == c.next_rcv
           y    == c.processed_elements
           id   == c.packet_element_id
           last == y + 1 = n
           writes == S!Leaves(c) /\ w # r
           w2   == IF last THEN w + 1 ELSE w
           y2   == IF last THEN 0 ELSE y + 1
           id2  == IF S!Leaves(c) THEN 0 ELSE id + 1
           op2  == IF writes THEN "SCATTER" ELSE c.op
<1>1. S!TypeOK /\ c \in SChannel /\ SRooted(r, k) /\ k \in 1 .. S!NumCollectives
  BY SSends, STypes DEF SInv, SRooted
<1>2. /\ n \in Int /\ n >= 1
      /\ w \in Ranks /\ w \in Int /\ w >= 0 /\ w < NumRanks
      /\ y \in Int /\ y >= 0 /\ y < n
      /\ id \in Int /\ id >= 0 /\ id < ElementsPerPacket /\ ElementsPerPacket \in Int
      /\ c.op \in {"SYNCH", "SCATTER"} /\ c.entered \in Int
      /\ c.entered \in {c.returned, c.returned + 1} /\ c.returned \in Int
  BY <1>1, SRootFields
<1>3. S!Leaves(c) <=> id + 1 = ElementsPerPacket \/ last
  BY SSends
<1>4. PICK packed \in S!Packet :
          /\ w # r => \A s \in 0 .. id : packed[s] = <<k, w, y - id + 1 + s>>
          /\ writes => scatter[r] = <<>> /\ SPacket(packed, k, w, y - id + 1)
          /\ scatter' = [scatter EXCEPT ![r] =
                 IF writes THEN <<[op |-> c.op, dst |-> w, net |-> packed]>> ELSE @]
          /\ schan' = [schan EXCEPT ![r] = S!Returned(r, [S!Counted(c) EXCEPT
                 !.net = packed, !.op = IF writes THEN "SCATTER" ELSE @])]
  BY SSends
<1> DEFINE counted == [c EXCEPT !.packet_element_id = id2, !.processed_elements = y2,
                                !.next_rcv = w2]
           sent    == [counted EXCEPT !.net = packed, !.op = op2]
           m       == [op |-> c.op, dst |-> w, net |-> packed]
<1>5. S!Counted(c) = counted /\ counted.op = c.op
  <2>1. S!Counted(c) = counted
    BY DEF S!Counted
  <2>2. counted.op = c.op
    BY <1>1 DEF SChannel
  <2> QED  BY <2>1, <2>2
<1>6. /\ id2 \in S!Slots /\ w2 \in 0 .. NumRanks /\ y2 \in Nat
  <2>1. id2 \in 0 .. ElementsPerPacket - 1
    BY <1>2, <1>3
  <2>2. w2 \in 0 .. NumRanks
    BY <1>2, Numbers
  <2>3. y2 \in Nat
    BY <1>2
  <2> HIDE DEF id2
  <2> QED  BY <2>1, <2>2, <2>3, SNumbers
<1>7. sent \in SChannel
  <2>1. op2 \in {"SYNCH", "SCATTER"}
    BY <1>2
  <2> HIDE DEF op2, id2, w2, y2
  <2>2. counted \in SChannel
    BY <1>1, <1>6 DEF SChannel
  <2> HIDE DEF counted
  <2> QED  BY <1>4, <2>1, <2>2 DEF SChannel
<1>8. /\ sent.coll = k /\ sent.entered = c.entered /\ sent.returned = c.returned
      /\ sent.init = c.init /\ sent.op = op2 /\ sent.next_rcv = w2
      /\ sent.processed_elements = y2 /\ sent.packet_element_id = id2
      /\ sent.net = packed
  <2> HIDE DEF op2, id2, w2, y2
  <2>1. /\ counted \in SChannel /\ counted.coll = k /\ counted.entered = c.entered
        /\ counted.returned = c.returned /\ counted.init = c.init
        /\ counted.next_rcv = w2 /\ counted.processed_elements = y2
        /\ counted.packet_element_id = id2
    BY <1>1, <1>6 DEF SChannel
  <2> HIDE DEF counted
  <2> QED  BY <1>4, <2>1 DEF SChannel
<1>9. schan' = [schan EXCEPT ![r] = S!Returned(r, sent)]
  <2>1. [S!Counted(c) EXCEPT !.net = packed, !.op = IF writes THEN "SCATTER" ELSE @] = sent
    <3> HIDE DEF counted
    <3> QED  BY <1>5
  <2> HIDE DEF sent
  <2> QED  BY <1>4, <2>1
<1> HIDE DEF sent, counted
<1>10. /\ c.entered = S!Calls(k, r) => S!Returned(r, sent) = S!Opened(k + 1)
       /\ c.entered # S!Calls(k, r) =>
              S!Returned(r, sent) = [sent EXCEPT !.returned = c.entered]
  BY <1>8 DEF S!Returned
<1>11. S!Returned(r, sent) \in SChannel
  <2>1. S!Opened(k + 1) \in SChannel
    <3>1. k + 1 \in 1 .. S!NumCollectives + 1
      BY <1>1, SNumbers
    <3> QED  BY <3>1, SOpenedFields
  <2>2. c.entered \in Nat
    BY <1>1 DEF SChannel
  <2>3. [sent EXCEPT !.returned = c.entered] \in SChannel
    BY <1>7, <2>2 DEF SChannel
  <2> QED  BY <1>10, <2>1, <2>3
<1>12. /\ schan' \in [Ranks -> SChannel]
       /\ \A q \in Ranks \ {r} : schan'[q] = schan[q]
       /\ c2 = S!Returned(r, sent)
  <2>1. schan \in [Ranks -> SChannel]
    BY <1>1, STypeOK
  <2> QED  BY <1>9, <1>11, <2>1
<1>13. c.entered # S!Calls(k, r) =>
           /\ c2.coll = k /\ c2.entered = c.entered /\ c2.returned = c.entered
           /\ c2.init = c.init /\ c2.op = op2 /\ c2.next_rcv = w2
           /\ c2.processed_elements = y2 /\ c2.packet_element_id = id2
           /\ c2.net = packed
  <2> HIDE DEF op2, id2, w2, y2
  <2> QED  BY <1>7, <1>8, <1>10, <1>12 DEF SChannel
<1>14. /\ scatter' \in [Ranks -> Seq(SMessage)]
       /\ \A q \in Ranks \ {r} : scatter'[q] = scatter[q]
       /\ writes => scatter'[r] = <<m>>
       /\ ~ writes => scatter' = scatter
  <2>1. scatter \in [Ranks -> Seq(SMessage)]
    BY <1>1, STypeOK
  <2>2. m \in SMessage
    BY <1>2, <1>4 DEF SMessage
  <2>3. <<m>> \in Seq(SMessage)
    BY <2>2
  <2>4. scatter' = [scatter EXCEPT ![r] = IF writes THEN <<m>> ELSE scatter[r]]
    BY <1>4
  <2> HIDE DEF m, writes
  <2> QED  BY <2>1, <2>3, <2>4
<1> HIDE DEF c2
<1>15. writes => /\ SPacket(packed, k, w, y - id + 1) /\ scatter[r] = <<>>
                 /\ scatter'[r] = <<m>>
  BY <1>4, <1>14
<1>16. \A q \in Ranks \ {r} : schan'[q] = schan[q] /\ scatter'[q] = scatter[q]
  BY <1>12, <1>14
<1>17. c.entered = S!Calls(k, r) => c2 = S!Opened(k + 1)
  BY <1>10, <1>12 DEF c2
<1>18. c.entered # S!Calls(k, r) /\ w # r =>
           \A s \in 0 .. id : c2.net[s] = <<k, w, y - id + 1 + s>>
  BY <1>4, <1>13
<1> QED  BY <1>12, <1>13, <1>14, <1>15, <1>16, <1>17, <1>18 DEF c2

(* The line of the root after the element *)
LEMMA SSendLine ==
    ASSUME SInv, NEW r \in Ranks, S!Send(r)
    PROVE  /\ SLineInv(r)'
           /\ ~ (schan[r].entered = S!Calls(schan[r].coll, r)) =>
                  (schan'[r].op = "SYNCH" <=> SFirst(r, SFills(r, schan'[r])))
<1> DEFINE c    == schan[r]
           c2   == schan'[r]
           k    == c.coll
           n    == ScatterCounts[k]
           w    == c.next_rcv
           y    == c.processed_elements
           id   == c.packet_element_id
           i    == y - id + 1
           last == y + 1 = n
           end  == c.entered = S!Calls(k, r)
           leaves == S!Leaves(c)
           p    == <<k, w, i>>
           q    == SFills(r, c2)
<1>1. /\ S!TypeOK /\ SRankInv(r) /\ c \in SChannel /\ SRooted(r, k)
      /\ k \in 1 .. S!NumCollectives
      /\ ssupport' = ssupport /\ sdata' = sdata /\ scontrol' = scontrol
      /\ leaves <=> id + 1 = ElementsPerPacket \/ last
      /\ end <=> w + 1 = NumRanks /\ last
  BY SSends, STypes DEF SInv, SRooted
<1>2. /\ n \in Int /\ n >= 1 /\ k \in Int
      /\ w \in Ranks /\ w \in Int /\ w >= 0 /\ w < NumRanks
      /\ y \in Int /\ y >= 0 /\ y < n
      /\ id \in Int /\ id >= 0 /\ id < ElementsPerPacket /\ id <= y
      /\ ElementsPerPacket \in Int
      /\ c.op = "SYNCH" <=> SFirst(r, SFills(r, c))
      /\ SFills(r, c) = p
  BY <1>1, SRootFields
<1>3. /\ \A d \in Ranks \ {r} : schan'[d] = schan[d] /\ scatter'[d] = scatter[d]
      /\ ~ (leaves /\ w # r) => scatter' = scatter
      /\ end => c2 = S!Opened(k + 1)
      /\ ~ end => /\ c2.coll = k
                  /\ c2.op = IF leaves /\ w # r THEN "SCATTER" ELSE c.op
                  /\ c2.next_rcv = IF last THEN w + 1 ELSE w
                  /\ c2.processed_elements = IF last THEN 0 ELSE y + 1
                  /\ c2.packet_element_id = IF leaves THEN 0 ELSE id + 1
      /\ leaves /\ w # r =>
             \E packed \in S!Packet :
                 /\ SPacket(packed, k, w, i) /\ scatter[r] = <<>>
                 /\ scatter'[r] = <<[op |-> c.op, dst |-> w, net |-> packed]>>
  BY SSent
<1> HIDE DEF c2
<1>4. q = IF end THEN <<k + 1, 0, 1>>
          ELSE IF last THEN <<k, w + 1, 1>>
          ELSE IF leaves THEN <<k, w, i + ElementsPerPacket>> ELSE p
  <2>1. CASE end
    <3>1. SFills(r, S!Opened(k + 1)) = <<k + 1, 0, 1>>
      BY SOpenedFields
    <3> QED  BY <1>3, <2>1, <3>1
  <2>2. CASE ~ end
    <3>1. q = <<k, c2.next_rcv, c2.processed_elements - c2.packet_element_id + 1>>
      BY <1>1, <1>3, <2>2 DEF SFills
    <3>2. /\ last => c2.processed_elements - c2.packet_element_id + 1 = 1
          /\ ~ last /\ leaves => c2.processed_elements - c2.packet_element_id + 1
                                     = i + ElementsPerPacket
          /\ ~ last /\ ~ leaves => c2.processed_elements - c2.packet_element_id + 1 = i
      <4> DEFINE at == c2.processed_elements
                 slot == c2.packet_element_id
      <4>1. at = (IF last THEN 0 ELSE y + 1) /\ slot = (IF leaves THEN 0 ELSE id + 1)
        BY <1>3, <2>2
      <4>2. (last => leaves) /\ (leaves /\ ~ last => id + 1 = ElementsPerPacket)
        BY <1>1
      <4>3. y \in Int /\ id \in Int /\ ElementsPerPacket \in Int
        BY <1>2
      <4> HIDE DEF at, slot, last, leaves, y, id
      <4>4. /\ last => at - slot + 1 = 1
            /\ ~ last /\ leaves => at - slot + 1 = i + ElementsPerPacket
            /\ ~ last /\ ~ leaves => at - slot + 1 = i
        BY <4>1, <4>2, <4>3
      <4> QED  BY <4>4 DEF at, slot
    <3> HIDE DEF i
    <3> QED  BY <1>3, <2>2, <3>1, <3>2
  <2> QED  BY <2>1, <2>2
<1> HIDE DEF q
<1>5. i \in 1 .. n
  BY <1>2
<1>6. CASE w = r
  <2>1. /\ scatter' = scatter
        /\ \/ q[1] = k /\ q[2] = r
           \/ q[1] = k /\ q[2] = r + 1 /\ q[3] = 1
           \/ r = NumRanks - 1 /\ q[1] = k + 1 /\ q[2] = 0 /\ q[3] = 1
    <3>1. w = NumRanks - 1 \/ ~ end
      BY <1>1, <1>2
    <3> QED  BY <1>3, <1>4, <1>6, <3>1
  <2>2. SAdvances(r, <<k, r, i>>, q)
    <3> HIDE DEF i
    <3> QED  BY <1>1, <2>1, SLinePassesOwn
  <2>3. SAdvances(r, SFills(r, schan[r]), SFills(r, schan'[r]))
    BY <1>2, <1>6, <2>2 DEF q, c2
  <2>4. SLineInv(r)'
    BY <1>1, <1>3, <2>1, <2>3, SAdvance
  <2>5. ~ end => (c2.op = "SYNCH" <=> SFirst(r, q))
    <3> SUFFICES ASSUME ~ end PROVE c2.op = "SYNCH" <=> SFirst(r, q)
      OBVIOUS
    <3>1. q[2] = r \/ (q[2] = r + 1 /\ q[3] = 1)
      BY <1>4, <1>6
    <3>2. SFirst(r, q) <=> SFirst(r, p)
      <4>1. (\A e \in Ranks : e < q[2] => e = r) <=> (\A e \in Ranks : e < r => e = r)
        <5>1. CASE q[2] = r
          BY <5>1
        <5>2. CASE q[2] = r + 1
          <6>1. \A e \in Ranks : e \in Int /\ r \in Int
            BY Numbers
          <6> QED  BY <5>2, <6>1
        <5> QED  BY <3>1, <5>1, <5>2
      <4>2. p[2] = r
        BY <1>6
      <4> QED  BY <3>1, <4>1, <4>2 DEF SFirst
    <3>3. c2.op = c.op
      BY <1>3, <1>6
    <3> QED  BY <1>2, <3>2, <3>3
  <2> QED  BY <2>4, <2>5 DEF q, c2
<1>7. CASE w # r /\ ~ leaves
  <2>1. scatter' = scatter /\ q = p /\ ~ last /\ ~ end
    BY <1>1, <1>3, <1>4, <1>7
  <2>2. SLine(r)' = SLine(r) /\ SFifoInv(r, scatter'[r], SFills(r, schan'[r]))
    <3>1. SFills(r, schan'[r]) = SFills(r, schan[r])
      BY <1>2, <2>1 DEF q, c2
    <3>2. SFifoInv(r, scatter[r], SFills(r, schan[r]))
      BY <1>1 DEF SRankInv
    <3> QED  BY <2>1, <3>1, <3>2 DEF SLine, SOffers
  <2>3. SLineInv(r)'
    BY <1>1, <1>3, <2>2, SLineKept
  <2>4. c2.op = "SYNCH" <=> SFirst(r, q)
    BY <1>2, <1>3, <1>7, <2>1
  <2> QED  BY <2>3, <2>4 DEF q, c2
<1>8. CASE w # r /\ leaves
  <2>1. PICK packed \in S!Packet :
            /\ SPacket(packed, k, w, i) /\ scatter[r] = <<>>
            /\ scatter'[r] = <<[op |-> c.op, dst |-> w, net |-> packed]>>
    BY <1>3, <1>8
  <2>2. SFollows(r, p, q)
    <3>1. CASE ~ last
      <4>1. i + ElementsPerPacket <= n
        BY <1>1, <1>2, <1>8, <3>1
      <4>2. q = <<k, w, i + ElementsPerPacket>>
        BY <1>1, <1>4, <1>8, <3>1
      <4> HIDE DEF i
      <4> QED  BY <4>1, <4>2 DEF SFollows
    <3>2. CASE last
      <4>1. ~ i + ElementsPerPacket <= n
        BY <1>2, <3>2
      <4> HIDE DEF i
      <4>2. CASE end
        <5>1. q = <<k + 1, 0, 1>> /\ w = NumRanks - 1
          BY <1>1, <1>2, <1>4, <4>2
        <5>2. SFirst(r, q)
          BY <5>1, SFirstPlace
        <5>3. \A e \in Ranks : ~ w < e
          BY <5>1, Numbers
        <5>4. \A j \in k + 1 .. (k + 1) - 1 : FALSE
          BY <1>2
        <5>5. k + 1 > k
          BY <1>2
        <5> HIDE DEF end, last, w, k
        <5> QED  BY <4>1, <5>1, <5>2, <5>3, <5>4, <5>5 DEF SFollows
      <4>3. CASE ~ end
        <5>1. q = <<k, w + 1, 1>> /\ w + 1 > w
          BY <1>2, <1>4, <3>2, <4>3
        <5>2. \A e \in Ranks : ~ (w < e /\ e < w + 1)
          BY <1>2, Numbers
        <5> HIDE DEF end, last, w, k
        <5> QED  BY <4>1, <5>1, <5>2 DEF SFollows
      <4> QED  BY <4>2, <4>3
    <3> QED  BY <3>1, <3>2
  <2>3. c.op = "SYNCH" <=> SFirst(r, p)
    BY <1>2
  <2>4. /\ \A x : SOffers(r, scatter'[r], x) = p
        /\ SFifoInv(r, scatter'[r], q)
    <3> DEFINE m == [op |-> c.op, dst |-> w, net |-> packed]
    <3>1. SPacket(packed, k, w, i) /\ w \in Ranks /\ w # r
      BY <1>2, <1>8, <2>1
    <3> HIDE DEF i
    <3>2. /\ \A x : SOffers(r, <<m>>, x) = <<k, w, i>>
          /\ SFifoInv(r, <<m>>, q)
      BY <1>1, <1>5, <2>2, <2>3, <3>1, SOffered
    <3> QED  BY <2>1, <3>2
  <2>5. SLine(r)' = SLine(r)
    BY <1>2, <2>1, <2>4 DEF SLine, SOffers
  <2>6. SLineInv(r)'
    BY <1>1, <1>3, <2>4, <2>5, SLineKept DEF q, c2
  <2>7. ~ end => (c2.op = "SYNCH" <=> SFirst(r, q))
    <3> SUFFICES ASSUME ~ end PROVE c2.op # "SYNCH" /\ ~ SFirst(r, q)
      OBVIOUS
    <3>1. c2.op = "SCATTER"
      BY <1>3, <1>8
    <3>2. ~ SFirst(r, q)
      <4>1. CASE last
        <5>1. q[2] = w + 1 /\ w < w + 1
          BY <1>2, <1>4, <4>1
        <5> QED  BY <1>2, <1>8, <5>1 DEF SFirst
      <4>2. CASE ~ last
        <5>1. i + ElementsPerPacket # 1
          BY <1>2
        <5>2. q[2] = w /\ q[3] = i + ElementsPerPacket
          BY <1>4, <1>8, <4>2
        <5> QED  BY <1>8, <5>1, <5>2 DEF SFirst
      <4> QED  BY <4>1, <4>2
    <3> QED  BY <3>1, <3>2
  <2> QED  BY <2>6, <2>7 DEF q, c2
<1> QED  BY <1>6, <1>7, <1>8


(* What the send of one rank leaves of the lines of the others *)
LEMMA SSendOthers ==
    ASSUME SInv, NEW r \in Ranks, S!Send(r), NEW b \in Ranks \ {r}, NEW d \in Ranks
    PROVE  /\ SLine(b)' = SLine(b) /\ SPlace(b)' = SPlace(b)
           /\ sdata[b][r] = <<>> /\ scontrol[r][b] = <<>>
           /\ ~ SRooted(b, schan[r].coll)
           /\ d # r => SPairInv(b, d)'
<1>1. /\ ssupport' = ssupport /\ sdata' = sdata /\ scontrol' = scontrol
      /\ SRooted(r, schan[r].coll)
      /\ \A q \in Ranks \ {r} : schan'[q] = schan[q] /\ scatter'[q] = scatter[q]
  BY SSends, SSent
<1>2. SLine(b)' = SLine(b) /\ SPlace(b)' = SPlace(b)
  BY <1>1 DEF SLine, SPlace
<1>3. ~ SRooted(b, schan[r].coll)
  BY <1>1 DEF SRooted
<1>4. SPairInv(b, r) /\ SPairInv(b, d)
  BY DEF SInv
<1>5. sdata[b][r] = <<>> /\ scontrol[r][b] = <<>>
  BY <1>3, <1>4 DEF SPairInv, SQueueInv, SRequestInv
<1>6. d # r => SPairInv(b, d)'
  BY <1>1, <1>2, <1>4, SPairStays
<1> QED  BY <1>2, <1>3, <1>5, <1>6

LEMMA SSendStep ==
    ASSUME SInv, NEW r \in Ranks, S!Send(r),
           schan[r].entered # S!Calls(schan[r].coll, r)
    PROVE  SInv'
<1> DEFINE c    == schan[r]
           c2   == schan'[r]
           k    == c.coll
           n    == ScatterCounts[k]
           w    == c.next_rcv
           y    == c.processed_elements
           id   == c.packet_element_id
           last == y + 1 = n
           leaves == S!Leaves(c)
<1>1. /\ S!TypeOK /\ (\A q \in Ranks : SRankInv(q)) /\ \A b, d \in Ranks : SPairInv(b, d)
      /\ c \in SChannel /\ SRooted(r, k) /\ k \in 1 .. S!NumCollectives
      /\ ssupport' = ssupport /\ sdata' = sdata /\ scontrol' = scontrol
      /\ leaves <=> id + 1 = ElementsPerPacket \/ last
      /\ ~ (w + 1 = NumRanks /\ last)
      /\ c.entered = c.returned + 1
  BY SSends, STypes DEF SInv, SRooted
<1>2. /\ n \in Int /\ n >= 1 /\ k \in Int /\ S!NumCollectives \in Int
      /\ k <= S!NumCollectives
      /\ w \in Ranks /\ w \in Int /\ w >= 0 /\ w < NumRanks /\ NumRanks \in Int
      /\ y \in Int /\ y >= 0 /\ y < n
      /\ id \in Int /\ id >= 0 /\ id < ElementsPerPacket /\ id <= y
      /\ ElementsPerPacket \in Int /\ c.returned \in Int /\ c.entered \in Int
      /\ c.returned = w * n + y
  <2>1. k \in Int /\ S!NumCollectives \in Int /\ k <= S!NumCollectives
    BY <1>1, SNumbers
  <2> QED  BY <1>1, <2>1, SRootFields, Numbers
<1>3. /\ schan' \in [Ranks -> SChannel] /\ scatter' \in [Ranks -> Seq(SMessage)]
      /\ \A q \in Ranks \ {r} : schan'[q] = schan[q] /\ scatter'[q] = scatter[q]
      /\ c2.coll = k /\ c2.entered = c.entered /\ c2.returned = c.entered
      /\ c2.init = c.init
      /\ c2.next_rcv = IF last THEN w + 1 ELSE w
      /\ c2.processed_elements = IF last THEN 0 ELSE y + 1
      /\ c2.packet_element_id = IF leaves THEN 0 ELSE id + 1
      /\ w # r /\ ~ leaves => \A s \in 0 .. id : c2.net[s] = <<k, w, y - id + 1 + s>>
  BY SSent
<1>4. SLineInv(r)' /\ (c2.op = "SYNCH" <=> SFirst(r, SFills(r, c2)))
  BY SSendLine
<1> HIDE DEF c2
<1>5. S!TypeOK'
  BY <1>1, <1>3, STypeOK, STypeOKNext
<1>6. SSendInv(r, c2)
  <2>1. c2.init
    BY <1>1, <1>3 DEF SRankInv, SSendInv
  <2>2. c2.returned = w * n + y + 1
    BY <1>1, <1>2, <1>3
  <2>3. /\ c2.next_rcv < NumRanks
        /\ c2.processed_elements < n
        /\ c2.packet_element_id <= c2.processed_elements
        /\ c2.returned = c2.next_rcv * n + c2.processed_elements
    <3>1. CASE last
      <4>1. /\ c2.next_rcv = w + 1 /\ c2.processed_elements = 0
            /\ c2.packet_element_id = 0 /\ w + 1 < NumRanks /\ y + 1 = n
        <5>1. leaves /\ w + 1 # NumRanks
          BY <1>1, <3>1
        <5>2. w + 1 < NumRanks
          BY <1>2, <5>1
        <5> QED  BY <1>3, <3>1, <5>1, <5>2
      <4>2. (w + 1) * n + 0 = w * n + y + 1
        <5>1. w \in Int /\ n \in Int /\ y \in Int /\ y + 1 = n
          BY <1>2, <3>1
        <5> HIDE DEF w, n, y
        <5> QED  BY <5>1
      <4> QED  BY <1>2, <2>2, <4>1, <4>2
    <3>2. CASE ~ last
      <4>1. c2.next_rcv = w /\ c2.processed_elements = y + 1
        BY <1>3, <3>2
      <4>2. y + 1 < n
        BY <1>2, <3>2
      <4>3. c2.packet_element_id <= y + 1
        BY <1>2, <1>3, SMTT(30)
      <4>4. w * n + y + 1 = w * n + (y + 1)
        <5>1. w \in Int /\ n \in Int /\ y \in Int
          BY <1>2
        <5> HIDE DEF w, n, y
        <5> QED  BY <5>1
      <4> QED  BY <1>2, <2>2, <4>1, <4>2, <4>3, <4>4
    <3> QED  BY <3>1, <3>2
  <2>4. ASSUME c2.next_rcv # r, NEW e \in 0 .. c2.packet_element_id - 1
        PROVE  c2.net[e] = <<k, c2.next_rcv,
                             c2.processed_elements - c2.packet_element_id + 1 + e>>
    <3>1. ~ leaves /\ c2.packet_element_id = id + 1 /\ e \in 0 .. id
      BY <1>2, <1>3, <2>4, SMTT(30)
    <3>2. ~ last /\ c2.next_rcv = w /\ c2.processed_elements = y + 1
      BY <1>1, <1>3, <3>1
    <3>3. c2.processed_elements - c2.packet_element_id + 1 + e = y - id + 1 + e
      BY <1>2, <3>1, <3>2
    <3> QED  BY <1>3, <2>4, <3>1, <3>2, <3>3
  <2> QED  BY <1>1, <1>3, <1>4, <2>1, <2>3, <2>4 DEF SSendInv
<1>7. SCallInv(r, c2)
  <2>1. c.entered < S!Calls(k, r)
    <3>1. c.returned < S!Calls(k, r)
      BY <1>1, <1>2 DEF SRankInv, SCallInv
    <3>2. S!Calls(k, r) \in Int
      BY <1>1, SCalls
    <3> QED  BY <1>1, <1>2, <3>1, <3>2
  <2> QED  BY <1>2, <1>3, <2>1, SMTT(30) DEF SCallInv
<1>8. SRooted(r, c2.coll) /\ c2.coll = k
  BY <1>1, <1>3
<1>9. \A q \in Ranks : \A d \in Ranks \ {q} : \A j :
           SToCount(j, schan'[d], scontrol'[d][q]) <=> SToCount(j, schan[d], scontrol[d][q])
  BY <1>1, <1>3 DEF SToCount, c2
<1>10. ASSUME NEW q \in Ranks PROVE SRankInv(q)'
  <2>1. SRankInv(q)
    BY <1>1
  <2>2. CASE q # r
    <3>1. schan'[q] = schan[q] /\ scatter'[q] = scatter[q]
      BY <1>3, <2>2
    <3>2. /\ SFifoInv(q, scatter'[q], SFills(q, schan'[q]))
          /\ SKernelInv(q, ssupport'[q], SLine(q)',
                        SUncounted(q, ssupport[q].mess.net[0][1])')
      BY <1>1, <1>9, <2>1, <3>1, SLineStays
    <3> QED  BY <1>1, <2>1, <3>1, <3>2 DEF SRankInv
  <2>3. CASE q = r
    BY <1>1, <1>4, <1>6, <1>7, <1>8, <2>3 DEF SRankInv, SLineInv, c2
  <2> QED  BY <2>2, <2>3
<1>11. ASSUME NEW b \in Ranks, NEW d \in Ranks PROVE SPairInv(b, d)'
  <2>1. CASE b = r /\ d # r
    BY <1>4, <2>1 DEF SLineInv
  <2>2. CASE b = r /\ d = r
    <3>1. SPairInv(r, r)
      BY <1>1
    <3> QED  BY <1>1, <2>2, <3>1 DEF SPairInv, SQueueInv, SRequestInv, SAskInv
  <2>3. CASE b # r /\ d # r
    BY <2>3, SSendOthers
  <2>4. CASE b # r /\ d = r
    <3>1. /\ sdata'[b][d] = <<>> /\ scontrol'[d][b] = <<>> /\ ~ SRooted(b, k)
          /\ SPlace(b)' = SPlace(b)
      BY <1>1, <2>4, SSendOthers
    <3>2. SPairInv(b, d)
      BY <1>1
    <3>3. SQueueInv(sdata'[b][d], b, d, c2) /\ SRequestInv(scontrol'[d][b], d, b, c2)
      BY <3>1 DEF SQueueInv, SRequestInv
    <3>4. SAskInv(b, d, c2, scontrol'[d][b], SX(b, d)', SPlace(b)', ssupport'[b])
      BY <1>3, <3>1 DEF SAskInv
    <3>5. SAt(b, d, c2.coll, SX(b, d)', SPlace(b)')
      BY <1>3, <2>4, <3>1, <3>2 DEF SPairInv, SAt
    <3> QED  BY <2>4, <3>3, <3>4, <3>5 DEF SPairInv, c2
  <2> QED  BY <2>1, <2>2, <2>3, <2>4
<1> QED  BY <1>5, <1>10, <1>11 DEF SInv

LEMMA SSendLastStep ==
    ASSUME SInv, NEW r \in Ranks, S!Send(r),
           schan[r].entered = S!Calls(schan[r].coll, r)
    PROVE  SInv'
<1> DEFINE c == schan[r]
           k == c.coll
<1>1. /\ S!TypeOK /\ (\A q \in Ranks : SRankInv(q)) /\ \A b, d \in Ranks : SPairInv(b, d)
      /\ SRooted(r, k) /\ k \in 1 .. S!NumCollectives
      /\ ssupport' = ssupport /\ sdata' = sdata /\ scontrol' = scontrol
  BY SSends DEF SInv, SRooted
<1>2. /\ schan' \in [Ranks -> SChannel] /\ scatter' \in [Ranks -> Seq(SMessage)]
      /\ \A q \in Ranks \ {r} : schan'[q] = schan[q] /\ scatter'[q] = scatter[q]
      /\ schan'[r] = S!Opened(k + 1)
  BY SSent
<1>3. SLineInv(r)'
  BY SSendLine
<1>4. S!TypeOK'
  BY <1>1, <1>2, STypeOK, STypeOKNext
<1>5. \A b \in Ranks : sdata[b][r] = <<>> /\ scontrol[r][b] = <<>>
  <2>1. SPairInv(r, r)
    BY <1>1
  <2>2. sdata[r][r] = <<>> /\ scontrol[r][r] = <<>>
    BY <2>1 DEF SPairInv, SQueueInv, SRequestInv
  <2> QED  BY <2>2, SSendOthers
<1>6. /\ \A b \in Ranks : SPairInv(b, r)'
      /\ \A b \in Ranks \ {r} : \A j : ScatterRoots[j] = b /\ j \in 1 .. S!NumCollectives =>
             (SToCount(j, schan'[r], scontrol'[r][b]) <=>
              SToCount(j, schan[r], scontrol[r][b]))
  <2>1. \A b \in Ranks : sdata'[b][r] = <<>> /\ scontrol[r][b] = <<>>
    BY <1>1, <1>5
  <2>2. \A b \in Ranks \ {r} : ~ SRooted(b, k) /\ SPlace(b)' = SPlace(b)
    BY SSendOthers
  <2> QED  BY <1>1, <1>2, <2>1, <2>2, SMovesOn
<1>7. ASSUME NEW q \in Ranks PROVE SRankInv(q)'
  <2>1. SRankInv(q)
    BY <1>1
  <2>2. CASE q # r
    <3>1. schan'[q] = schan[q] /\ scatter'[q] = scatter[q]
      BY <1>2, <2>2
    <3>2. ASSUME ~ ssupport[q].external, NEW d \in Ranks \ {q}
          PROVE  LET j == ssupport[q].mess.net[0][1]
                 IN  SToCount(j, schan'[d], scontrol'[d][q])
                         <=> SToCount(j, schan[d], scontrol[d][q])
      <4>1. CASE d = r
        <5>1. ssupport[q].mess.net[0][1] \in 1 .. S!NumCollectives
              /\ ScatterRoots[ssupport[q].mess.net[0][1]] = q
          BY <2>1, <3>2 DEF SRankInv, SKernelInv, SItem, SPacket
        <5> QED  BY <1>6, <2>2, <4>1, <5>1
      <4>2. CASE d # r
        BY <1>1, <1>2, <4>2
      <4> QED  BY <4>1, <4>2
    <3>3. /\ SFifoInv(q, scatter'[q], SFills(q, schan'[q]))
          /\ SKernelInv(q, ssupport'[q], SLine(q)',
                        SUncounted(q, ssupport[q].mess.net[0][1])')
      BY <1>1, <2>1, <3>1, <3>2, SLineStays
    <3> QED  BY <1>1, <2>1, <3>1, <3>3 DEF SRankInv
  <2>3. CASE q = r
    <3>1. SCallInv(r, schan'[r]) /\ SSendInv(r, schan'[r]) /\ SReadInv(r, schan'[r])
      <4>1. k + 1 \in 1 .. S!NumCollectives + 1
        BY <1>1, SNumbers
      <4>2. SCallInv(r, S!Opened(k + 1)) /\ SSendInv(r, S!Opened(k + 1))
            /\ SReadInv(r, S!Opened(k + 1))
        BY <4>1, SOpenedFields
      <4>3. schan'[r] = S!Opened(k + 1)
        BY <1>2
      <4> QED  BY <4>2, <4>3, Zenon
    <3> QED  BY <1>1, <1>3, <2>3, <3>1 DEF SRankInv, SLineInv
  <2> QED  BY <2>2, <2>3
<1>8. ASSUME NEW b \in Ranks, NEW d \in Ranks PROVE SPairInv(b, d)'
  <2>1. CASE d = r
    BY <1>6, <2>1
  <2>2. CASE d # r /\ b = r
    BY <1>3, <2>2 DEF SLineInv
  <2>3. CASE d # r /\ b # r
    BY <2>3, SSendOthers
  <2> QED  BY <2>1, <2>2, <2>3
<1> QED  BY <1>4, <1>7, <1>8 DEF SInv


-----------------------------------------------------------------------------
(* What the kernel does *)

LEMMA SSupportFields ==
    ASSUME NEW s \in SSupport
    PROVE  /\ s.external \in BOOLEAN /\ s.mess \in SMessage
           /\ s.to_be_received_requests \in Int /\ s.to_be_received_requests >= 0
           /\ s.to_be_received_requests <= NumRanks - 1
BY Numbers DEF SSupport

(* What the kernel of b holds, or takes next, has a first packet of a        *)
(* scatter at its place if and only if some rank is not counted for it, and  *)
(* then none is. *)
LEMMA SCounted ==
    ASSUME SInv, NEW b \in Ranks, NEW m, SItem(b, m), SPlace(b) = m.net[0],
           NEW d \in Ranks \ {b}
    PROVE  LET j == m.net[0][1]
           IN  /\ SToCount(j, schan[d], scontrol[d][b]) => SFirst(b, m.net[0])
               /\ ssupport[b].external /\ SFirst(b, m.net[0]) =>
                      SToCount(j, schan[d], scontrol[d][b])
<1> DEFINE p == m.net[0]
           c == schan[d]
<1>1. /\ SAt(b, d, c.coll, SX(b, d), p)
      /\ SAskInv(b, d, c, scontrol[d][b], SX(b, d), p, ssupport[b])
  BY DEF SInv, SPairInv
<1>2. /\ p[1] \in 1 .. S!NumCollectives /\ SRooted(b, p[1]) /\ p[2] \in Ranks /\ p[2] # b
      /\ p[1] \in Int /\ p[2] \in Int /\ d \in Int /\ c.coll \in Int
  <2>1. p[1] \in 1 .. S!NumCollectives /\ ScatterRoots[p[1]] = b
        /\ p[2] \in Ranks /\ p[2] # b
    BY DEF SItem, SPacket
  <2>2. c.coll \in Int
    BY STypes, SChannelFields DEF SInv
  <2> HIDE DEF p
  <2> QED  BY <2>1, <2>2, SNumbers, Numbers DEF SRooted
<1> HIDE DEF p
<1>3. SFirst(b, p) => p[3] = 1 /\ ~ d < p[2]
  BY <1>2 DEF SFirst
<1>4. ASSUME SToCount(p[1], c, scontrol[d][b]) PROVE SFirst(b, p)
  <2>1. CASE c.coll < p[1]
    BY <1>1, <1>2, <2>1 DEF SAt
  <2>2. CASE c.coll = p[1] /\ (c.init \/ scontrol[d][b] # <<>>)
    BY <1>1, <1>2, <2>2 DEF SAskInv
  <2> QED  BY <1>4, <2>1, <2>2 DEF SToCount
<1>5. ASSUME ssupport[b].external, SFirst(b, p)
      PROVE  SToCount(p[1], c, scontrol[d][b])
  <2>1. CASE c.coll < p[1]
    BY <2>1 DEF SToCount
  <2>2. CASE c.coll = p[1]
    <3>1. SX(b, d) = 1
      BY <1>1, <1>2, <1>3, <1>5, <2>2 DEF SAt
    <3>2. c.init \/ scontrol[d][b] # <<>>
      BY <1>1, <1>2, <1>5, <2>2, <3>1 DEF SAskInv
    <3> QED  BY <2>2, <3>2 DEF SToCount
  <2>3. CASE c.coll > p[1]
    BY <1>1, <1>2, <1>3, <1>5, <2>3 DEF SAt
  <2> QED  BY <1>2, <2>1, <2>2, <2>3
<1> QED  BY <1>4, <1>5 DEF p

LEMMA SReadApplicationStep ==
    ASSUME SInv, NEW r \in Ranks, S!ReadApplication(r)
    PROVE  SInv'
<1> DEFINE s == ssupport[r]
           m == scatter[r][1]
           j == m.net[0][1]
           s2 == ssupport'[r]
<1>1. S!TypeOK /\ (\A q \in Ranks : SRankInv(q)) /\ \A b, d \in Ranks : SPairInv(b, d)
  BY DEF SInv
<1>2. /\ scatter[r] # <<>> /\ scatter[r] \in Seq(SMessage) /\ m \in SMessage
      /\ Head(scatter[r]) = m
  <2>1. scatter[r] # <<>> /\ scatter[r] \in Seq(SMessage)
    BY <1>1, STypes DEF S!ReadApplication
  <2> QED  BY <2>1, HeadTailProperties
<1>3. /\ s.external /\ s \in SSupport
      /\ schan' = schan /\ sdata' = sdata /\ scontrol' = scontrol
      /\ scatter' = [scatter EXCEPT ![r] = <<>>]
      /\ ssupport' = [ssupport EXCEPT ![r] =
             [external |-> FALSE, mess |-> m,
              to_be_received_requests |-> S!Requests(s, m)]]
  BY <1>1, <1>2, STypes DEF S!ReadApplication
<1>4. /\ SFifoInv(r, scatter[r], SFills(r, schan[r])) /\ s.to_be_received_requests = 0
  BY <1>1, <1>3 DEF SRankInv, SKernelInv
<1>5. /\ SItem(r, m) /\ SFollows(r, m.net[0], SFills(r, schan[r]))
      /\ m.op = "SYNCH" <=> SFirst(r, m.net[0])
  BY <1>2, <1>4 DEF SFifoInv, SItem
<1>6. S!Requests(s, m) = IF m.op = "SYNCH" THEN NumRanks - 1 ELSE 0
  BY <1>4, SNumbers DEF S!Requests
<1>7. /\ ssupport' \in [Ranks -> SSupport]
      /\ \A q \in Ranks \ {r} : ssupport'[q] = ssupport[q]
      /\ ~ s2.external /\ s2.mess = m
      /\ s2.to_be_received_requests = IF m.op = "SYNCH" THEN NumRanks - 1 ELSE 0
  <2>1. [external |-> FALSE, mess |-> m,
         to_be_received_requests |-> S!Requests(s, m)] \in SSupport
    BY <1>2, <1>6, Numbers DEF SSupport
  <2>2. ssupport \in [Ranks -> SSupport]
    BY <1>1, STypeOK
  <2> QED  BY <1>3, <1>6, <2>1, <2>2
<1>8. /\ scatter'[r] = <<>> /\ \A q \in Ranks \ {r} : scatter'[q] = scatter[q]
      /\ scatter' \in [Ranks -> Seq(SMessage)]
  <2>1. scatter \in [Ranks -> Seq(SMessage)] /\ <<>> \in Seq(SMessage)
    BY <1>1, STypeOK, EmptySeq
  <2> QED  BY <1>3, <2>1
<1>9. S!TypeOK'
  BY <1>1, <1>3, <1>7, <1>8, STypeOK, STypeOKNext
<1>10. /\ SLine(r) = m.net[0] /\ SLine(r)' = SFills(r, schan[r])
       /\ SPlace(r) = m.net[0] /\ SPlace(r)' = m.net[0]
       /\ \A q \in Ranks \ {r} : SLine(q)' = SLine(q) /\ SPlace(q)' = SPlace(q)
  <2>1. /\ SLine(r) = m.net[0] /\ SLine(r)' = SFills(r, schan[r])
        /\ \A q \in Ranks \ {r} : SLine(q)' = SLine(q)
    BY <1>2, <1>3, <1>8 DEF SLine, SOffers
  <2> QED  BY <1>3, <1>7, <2>1 DEF SPlace, SGives
<1>11. Cardinality(SUncounted(r, j)) = IF m.op = "SYNCH" THEN NumRanks - 1 ELSE 0
  <2>1. ASSUME NEW d \in Ranks \ {r}
        PROVE  SToCount(j, schan[d], scontrol[d][r]) <=> m.op = "SYNCH"
    BY <1>3, <1>5, <1>10, SCounted
  <2>2. CASE m.op = "SYNCH"
    <3>1. SUncounted(r, j) = Ranks \ {r}
      BY <2>1, <2>2 DEF SUncounted
    <3> QED  BY <2>2, <3>1, FiniteRanks
  <2>3. CASE m.op # "SYNCH"
    <3>1. SUncounted(r, j) = {}
      BY <2>1, <2>3 DEF SUncounted
    <3> QED  BY <2>3, <3>1, FS_EmptySet
  <2> QED  BY <2>2, <2>3
<1>12. ASSUME NEW q \in Ranks PROVE SRankInv(q)'
  <2>1. SRankInv(q)
    BY <1>1
  <2>2. CASE q # r
    <3>1. SUncounted(q, ssupport[q].mess.net[0][1])'
              = SUncounted(q, ssupport[q].mess.net[0][1])
      BY <1>3, <1>7, <2>2 DEF SUncounted
    <3> QED  BY <1>3, <1>7, <1>8, <1>10, <2>1, <2>2, <3>1 DEF SRankInv
  <2>3. CASE q = r
    <3>1. SUncounted(r, ssupport[r].mess.net[0][1])' = SUncounted(r, j)
      BY <1>3, <1>7 DEF SUncounted
    <3>2. SKernelInv(r, s2, SLine(r)', SUncounted(r, j))
      BY <1>5, <1>7, <1>10, <1>11 DEF SKernelInv
    <3>3. SFifoInv(r, scatter'[r], SFills(r, schan'[r]))
      BY <1>8 DEF SFifoInv
    <3> QED  BY <1>3, <2>1, <2>3, <3>1, <3>2, <3>3 DEF SRankInv
  <2> QED  BY <2>2, <2>3
<1>13. ASSUME NEW b \in Ranks, NEW d \in Ranks PROVE SPairInv(b, d)'
  <2>1. SPairInv(b, d) /\ SX(b, d)' = SX(b, d)
    BY <1>1, <1>3 DEF SX
  <2>2. CASE b # r
    BY <1>1, <1>3, <1>7, <1>10, <2>2, SPairStays
  <2>3. CASE b = r
    <3>1. SAskInv(r, d, schan[d], scontrol[d][r], SX(r, d), SPlace(r), s2)
      BY <1>7, <2>1, <2>3 DEF SPairInv, SAskInv
    <3>2. SPlace(r)' = SPlace(r)
      BY <1>10
    <3> QED  BY <1>3, <2>1, <2>3, <3>1, <3>2 DEF SPairInv
  <2> QED  BY <2>2, <2>3
<1> QED  BY <1>9, <1>12, <1>13 DEF SInv

(* A request is counted for the scatter of the packet that waits for it. *)
LEMMA SRequested ==
    ASSUME SInv, NEW r \in Ranks, ssupport[r].to_be_received_requests # 0,
           NEW src \in Ranks, scontrol[src][r] # <<>>
    PROVE  LET k == schan[src].coll
           IN  /\ src # r /\ SRooted(r, k) /\ ~ schan[src].init
               /\ scontrol[src][r] = <<k>> /\ ssupport[r].mess.net[0][1] = k
<1> DEFINE s == ssupport[r]
           k == schan[src].coll
           p == s.mess.net[0]
<1>1. SKernelInv(r, s, SLine(r), SUncounted(r, p[1])) /\ SPairInv(r, src)
  BY DEF SInv, SRankInv
<1>2. ~ s.external /\ SItem(r, s.mess) /\ SPlace(r) = p
      /\ Cardinality(SUncounted(r, p[1])) # 0
  BY <1>1 DEF SKernelInv, SPlace, SGives
<1>3. src # r /\ SRooted(r, k) /\ ~ schan[src].init /\ scontrol[src][r] = <<k>>
  BY <1>1 DEF SPairInv, SRequestInv
<1>4. SFirst(r, p)
  <2>1. SUncounted(r, p[1]) # {}
    BY <1>2, FS_EmptySet
  <2>2. PICK d \in Ranks \ {r} : SToCount(p[1], schan[d], scontrol[d][r])
    BY <2>1 DEF SUncounted
  <2> QED  BY <1>2, <2>2, SCounted
<1>5. SX(r, src) = 1 /\ SAt(r, src, k, SX(r, src), p)
  BY <1>1, <1>2, <1>3 DEF SPairInv, SAskInv
<1>6. /\ p[1] \in 1 .. S!NumCollectives /\ SRooted(r, p[1]) /\ p[1] \in Int /\ k \in Int
      /\ p[2] \in Int /\ src \in Int /\ ~ 1 > ScatterCounts[k]
  <2>1. p[1] \in 1 .. S!NumCollectives /\ ScatterRoots[p[1]] = r /\ p[2] \in Ranks
    BY <1>2 DEF SItem, SPacket
  <2> HIDE DEF p
  <2>2. k \in Int /\ ~ 1 > ScatterCounts[k]
    BY <1>3, SNumbers DEF SRooted
  <2> QED  BY <2>1, <2>2, SNumbers, Numbers DEF SRooted
<1> HIDE DEF p, k
<1>7. ~ src < p[2]
  BY <1>3, <1>4 DEF SFirst
<1>8. p[1] = k
  BY <1>3, <1>5, <1>6, <1>7 DEF SAt
<1> QED  BY <1>3, <1>8 DEF p, k

LEMMA STakeRequestStep ==
    ASSUME SInv, NEW r \in Ranks, S!TakeRequest(r)
    PROVE  SInv'
<1> DEFINE s == ssupport[r]
           j == s.mess.net[0][1]
           s2 == ssupport'[r]
<1>1. S!TypeOK /\ (\A q \in Ranks : SRankInv(q)) /\ \A b, d \in Ranks : SPairInv(b, d)
  BY DEF SInv
<1>2. /\ ~ s.external /\ s.to_be_received_requests # 0 /\ s \in SSupport
      /\ schan' = schan /\ sdata' = sdata /\ scatter' = scatter
      /\ ssupport' = [ssupport EXCEPT ![r].to_be_received_requests = @ - 1]
      /\ scontrol \in Net(SRequest)
  BY <1>1, STypes, STypeOK DEF S!TakeRequest
<1>3. PICK src \in Waiting(scontrol, r) : scontrol' = Take(scontrol, src, r)
  BY SWires DEF S!TakeRequest
<1> DEFINE k == schan[src].coll
<1>4. /\ src \in Ranks /\ scontrol[src][r] # <<>>
      /\ scontrol' \in Net(SRequest) /\ scontrol'[src][r] = Tail(scontrol[src][r])
      /\ \A a, b \in Ranks : a # src \/ b # r => scontrol'[a][b] = scontrol[a][b]
  BY <1>2, <1>3, TakeAt
<1>5. /\ src # r /\ SRooted(r, k) /\ ~ schan[src].init /\ scontrol[src][r] = <<k>>
      /\ j = k
  BY <1>2, <1>4, SRequested
<1>6. scontrol'[src][r] = <<>>
  BY <1>4, <1>5
<1>7. /\ SItem(r, s.mess) /\ SFollows(r, s.mess.net[0], SLine(r))
      /\ s.to_be_received_requests = Cardinality(SUncounted(r, j))
      /\ s.to_be_received_requests \in Int
  BY <1>1, <1>2, SSupportFields DEF SRankInv, SKernelInv
<1>8. /\ ssupport' \in [Ranks -> SSupport]
      /\ \A q \in Ranks \ {r} : ssupport'[q] = ssupport[q]
      /\ s2.external = s.external /\ s2.mess = s.mess
      /\ s2.to_be_received_requests = s.to_be_received_requests - 1
  <2>1. s.to_be_received_requests - 1 \in 0 .. NumRanks - 1
    BY <1>2, SSupportFields, Numbers
  <2>2. [s EXCEPT !.to_be_received_requests = @ - 1] \in SSupport
    BY <1>2, <2>1 DEF SSupport
  <2>3. ssupport \in [Ranks -> SSupport]
    BY <1>1, STypeOK
  <2>4. ssupport' = [ssupport EXCEPT ![r] = [s EXCEPT !.to_be_received_requests = @ - 1]]
    BY <1>2, <2>3
  <2>5. s2 = [s EXCEPT !.to_be_received_requests = @ - 1]
    BY <2>3, <2>4
  <2> QED  BY <1>2, <2>2, <2>3, <2>4, <2>5 DEF SSupport
<1>9. S!TypeOK'
  BY <1>1, <1>2, <1>4, <1>8, STypeOK, STypeOKNext
<1>10. \A q \in Ranks : SLine(q)' = SLine(q) /\ SPlace(q)' = SPlace(q)
  <2>1. \A q \in Ranks : SLine(q)' = SLine(q)
    BY <1>2 DEF SLine
  <2>2. SPlace(r)' = SPlace(r)
    BY <1>8, <2>1 DEF SPlace, SGives
  <2> QED  BY <1>8, <2>1, <2>2 DEF SPlace
<1> DEFINE left == {d \in Ranks \ {r} : SToCount(j, schan'[d], scontrol'[d][r])}
<1>11. left = SUncounted(r, j) \ {src} /\ src \in SUncounted(r, j)
  <2>1. \A d \in Ranks \ {r} : d # src =>
            (SToCount(j, schan'[d], scontrol'[d][r]) <=> SToCount(j, schan[d], scontrol[d][r]))
    BY <1>2, <1>4
  <2>2. SToCount(j, schan[src], scontrol[src][r])
    BY <1>4, <1>5 DEF SToCount
  <2>3. ~ SToCount(j, schan'[src], scontrol'[src][r])
    <3>1. k \in Int
      BY <1>1, <1>4, STypes, SChannelFields
    <3> QED  BY <1>2, <1>5, <1>6, <3>1 DEF SToCount
  <2> HIDE DEF j
  <2> QED  BY <1>2, <1>4, <1>5, <2>1, <2>2, <2>3 DEF SUncounted
<1>12. Cardinality(left) = s.to_be_received_requests - 1
  <2>1. IsFiniteSet(SUncounted(r, j))
    <3>1. SUncounted(r, j) \subseteq Ranks
      BY DEF SUncounted
    <3> QED  BY <3>1, FiniteRanks, FS_Subset
  <2> DEFINE U == SUncounted(r, j)
  <2>2. /\ IsFiniteSet(U) /\ left = U \ {src} /\ src \in U
        /\ s.to_be_received_requests = Cardinality(U)
    BY <1>7, <1>11, <2>1
  <2> HIDE DEF U, left
  <2> QED  BY <2>2, FS_RemoveElement
<1>13. ASSUME NEW q \in Ranks PROVE SRankInv(q)'
  <2>1. SRankInv(q)
    BY <1>1
  <2>2. CASE q # r
    <3>1. SUncounted(q, ssupport[q].mess.net[0][1])'
              = SUncounted(q, ssupport[q].mess.net[0][1])
      BY <1>2, <1>4, <1>8, <2>2 DEF SUncounted
    <3> QED  BY <1>2, <1>8, <1>10, <2>1, <2>2, <3>1 DEF SRankInv
  <2>3. CASE q = r
    <3>1. SUncounted(r, ssupport[r].mess.net[0][1])' = left
      BY <1>8 DEF SUncounted
    <3>2. SKernelInv(r, s2, SLine(r), left)
      BY <1>1, <1>2, <1>7, <1>8, <1>12 DEF SRankInv, SKernelInv
    <3> QED  BY <1>2, <1>10, <2>1, <2>3, <3>1, <3>2 DEF SRankInv
  <2> QED  BY <2>2, <2>3
<1>14. ASSUME NEW b \in Ranks, NEW d \in Ranks PROVE SPairInv(b, d)'
  <2>1. SPairInv(b, d) /\ SX(b, d)' = SX(b, d) /\ SPlace(b)' = SPlace(b)
    BY <1>1, <1>2, <1>10 DEF SX
  <2>2. CASE b # r
    <3>1. scontrol'[d][b] = scontrol[d][b]
      BY <1>4, <2>2
    <3> QED  BY <1>1, <1>2, <1>8, <2>1, <2>2, <3>1, SPairStays
  <2>3. CASE b = r
    <3>1. CASE d # src
      <4>1. scontrol'[d][r] = scontrol[d][r]
        BY <1>4, <3>1
      <4>2. SAskInv(r, d, schan[d], scontrol[d][r], SX(r, d), SPlace(r), s2)
        BY <1>8, <2>1, <2>3 DEF SPairInv, SAskInv
      <4> QED  BY <1>2, <2>1, <2>3, <4>1, <4>2 DEF SPairInv
    <3>2. CASE d = src
      <4>1. SPlace(r)[1] = k
        BY <1>2, <1>5 DEF SPlace, SGives
      <4>2. SAskInv(r, d, schan[d], scontrol'[d][r], SX(r, d), SPlace(r), s2)
        BY <1>2, <1>5, <1>6, <1>8, <3>2, <4>1 DEF SAskInv
      <4>3. SRequestInv(scontrol'[d][r], d, r, schan[d])
        BY <1>6, <3>2 DEF SRequestInv
      <4> QED  BY <1>2, <2>1, <2>3, <4>2, <4>3 DEF SPairInv
    <3> QED  BY <3>1, <3>2
  <2> QED  BY <2>2, <2>3
<1> QED  BY <1>9, <1>13, <1>14 DEF SInv


(* A packet sent to d *)
LEMMA SQueueAppend ==
    ASSUME NEW queue \in Seq(S!Packet), NEW b, NEW d, NEW c \in SChannel,
           NEW net \in S!Packet, NEW i \in Int,
           b # d, SRooted(b, c.coll), SQueueInv(queue, b, d, c),
           SPacket(net, c.coll, d, i), net[0][3] = i, SExpects(queue, c) = i
    PROVE  /\ SQueueInv(Append(queue, net), b, d, c)
           /\ SExpects(Append(queue, net), c) = i + ElementsPerPacket
<1> DEFINE more == Append(queue, net)
           n    == Len(queue)
<1>1. /\ n \in Nat /\ more \in Seq(S!Packet) /\ Len(more) = n + 1
      /\ more[n + 1] = net /\ \A j \in 1 .. n : more[j] = queue[j]
  BY AppendProperties
<1>2. more # <<>>
  BY <1>1, EmptySeq
<1>3. SExpects(more, c) = i + ElementsPerPacket
  BY <1>1, <1>2 DEF SExpects
<1>4. CASE queue = <<>>
  <2>1. n = 0
    BY <1>4
  <2>2. more[1] = net /\ Len(more) = 1 /\ SReads(c) = i
    BY <1>1, <1>4, <2>1 DEF SExpects
  <2> QED  BY <1>3, <2>2 DEF SQueueInv
<1>5. CASE queue # <<>>
  <2>1. n >= 1
    BY <1>1, <1>5, EmptySeq
  <2>2. more[1] = queue[1] /\ more[n] = queue[n]
    BY <1>1, <2>1
  <2>3. queue[n][0][3] + ElementsPerPacket = i
    BY <1>5 DEF SExpects
  <2> HIDE DEF more, n
  <2>4. /\ queue[1][0][3] = SReads(c)
        /\ \A j \in 1 .. n : SPacket(queue[j], c.coll, d, queue[j][0][3])
        /\ \A j \in 1 .. n - 1 : queue[j + 1][0][3] = queue[j][0][3] + ElementsPerPacket
    BY <1>5 DEF SQueueInv, n
  <2>5. \A j \in 1 .. Len(more) : SPacket(more[j], c.coll, d, more[j][0][3])
    <3>1. ASSUME NEW j \in 1 .. Len(more) PROVE j = n + 1 \/ j \in 1 .. n
      BY <1>1
    <3> QED  BY <1>1, <2>4, <3>1
  <2>6. \A j \in 1 .. Len(more) - 1 : more[j + 1][0][3] = more[j][0][3] + ElementsPerPacket
    <3>1. ASSUME NEW j \in 1 .. Len(more) - 1
          PROVE  (j = n) \/ (j \in 1 .. n - 1 /\ j + 1 \in 1 .. n /\ j \in 1 .. n)
      BY <1>1
    <3>2. more[n + 1][0][3] = more[n][0][3] + ElementsPerPacket
      BY <1>1, <2>2, <2>3
    <3>3. \A j \in 1 .. n - 1 : j + 1 \in 1 .. n /\ j \in 1 .. n =>
              more[j + 1][0][3] = more[j][0][3] + ElementsPerPacket
      BY <1>1, <2>4
    <3> QED  BY <3>1, <3>2, <3>3
  <2>7. more[1][0][3] = SReads(c)
    BY <2>2, <2>4
  <2> QED  BY <1>3, <2>5, <2>6, <2>7 DEF SQueueInv, more
<1> QED  BY <1>4, <1>5

(* The line of b goes from the packet for rank `to' at place p to the place  *)
(* next. *)
LEMMA SAtFollows ==
    ASSUME NEW b \in Ranks, NEW p, p[1] \in 1 .. S!NumCollectives, SRooted(b, p[1]),
           p[2] \in Ranks, p[2] # b, p[3] \in Int, p[3] >= 1,
           NEW next, SIsPlace(next), SFollows(b, p, next)
    PROVE  /\ SAt(b, p[2], p[1], p[3] + ElementsPerPacket, next)
           /\ next[1] > p[1] => SFirst(b, next)
           /\ \A d \in Ranks \ {b} : d # p[2] =>
                  /\ \A j \in Int : \A x :
                         j >= p[1] /\ SAt(b, d, j, x, p) => SAt(b, d, j, x, next)
                  /\ SAt(b, d, p[1], 1, p) => next[1] = p[1] /\ ~ SFirst(b, next)
<1> DEFINE k  == p[1]
           to == p[2]
           i  == p[3]
           n  == ScatterCounts[k]
<1>1. /\ k \in Int /\ n \in Int /\ n >= 1 /\ to \in Int /\ to # b /\ i \in Int /\ i >= 1
      /\ ElementsPerPacket \in Int /\ ElementsPerPacket >= 1
      /\ next[1] \in Int /\ next[2] \in Int /\ next[3] \in Int /\ to \in Ranks
      /\ \A e \in Ranks : e \in Int
  BY SNumbers, Numbers, SMTT(30) DEF SIsPlace
<1>2. SRooted(b, k)
  OBVIOUS
<1>3. \/ /\ i + ElementsPerPacket <= n
         /\ next[1] = k /\ next[2] = to /\ next[3] = i + ElementsPerPacket
      \/ /\ ~ i + ElementsPerPacket <= n
         /\ next[1] = k /\ next[2] > to
         /\ \A e \in Ranks : to < e /\ e < next[2] => e = b
         /\ next[2] = b \/ next[3] = 1
      \/ /\ ~ i + ElementsPerPacket <= n
         /\ next[1] > k /\ SFirst(b, next)
         /\ \A e \in Ranks : to < e => e = b
         /\ \A j \in k + 1 .. next[1] - 1 : ScatterRoots[j] # b
  BY DEF SFollows
<1>4. \A d : \A j \in Int : \A x :
          j >= k /\ SAt(b, d, j, x, p) =>
              \/ j = k /\ (d < to => x > n) /\ (d = to => x = i) /\ (d > to => x = 1)
              \/ /\ j > k /\ d < to /\ (\A e \in k + 1 .. j - 1 : ScatterRoots[e] # b)
                 /\ SRooted(b, j) => x = 1
  BY <1>1, <1>2 DEF SAt
<1> HIDE DEF k, to, i, n
<1>5. CASE /\ i + ElementsPerPacket <= n
           /\ next[1] = k /\ next[2] = to /\ next[3] = i + ElementsPerPacket
  <2>1. SAt(b, to, k, i + ElementsPerPacket, next) /\ ~ next[1] > k
    BY <1>1, <1>5 DEF SAt
  <2>2. ASSUME NEW d \in Ranks \ {b}, d # to, NEW j \in Int, NEW x,
               j >= k, SAt(b, d, j, x, p)
        PROVE  SAt(b, d, j, x, next)
    <3>1. \/ j = k /\ (d < to => x > n) /\ (d > to => x = 1)
          \/ /\ j > k /\ d < to /\ (\A e \in k + 1 .. j - 1 : ScatterRoots[e] # b)
             /\ SRooted(b, j) => x = 1
      BY <1>4, <2>2
    <3> QED  BY <1>5, <2>2, <3>1 DEF SAt, n
  <2>3. next[1] = k /\ ~ SFirst(b, next)
    <3>1. i + ElementsPerPacket # 1
      BY <1>1
    <3> QED  BY <1>1, <1>5, <3>1 DEF SFirst
  <2> QED  BY <2>1, <2>2, <2>3 DEF k, to, i
<1>6. CASE /\ ~ i + ElementsPerPacket <= n
           /\ next[1] = k /\ next[2] > to
           /\ \A e \in Ranks : to < e /\ e < next[2] => e = b
           /\ next[2] = b \/ next[3] = 1
  <2>1. SAt(b, to, k, i + ElementsPerPacket, next) /\ ~ next[1] > k
    BY <1>1, <1>6 DEF SAt, n
  <2>2. ASSUME NEW d \in Ranks \ {b}, d # to, NEW j \in Int, NEW x,
               j >= k, SAt(b, d, j, x, p)
        PROVE  SAt(b, d, j, x, next)
    <3>0. d \in Int /\ (d < next[2] => d < to) /\ (d > next[2] => d > to)
          /\ (d = next[2] => d > to /\ next[3] = 1)
      BY <1>1, <1>6, <2>2
    <3>1. \/ j = k /\ (d < to => x > n) /\ (d > to => x = 1)
          \/ /\ j > k /\ d < to /\ (\A e \in k + 1 .. j - 1 : ScatterRoots[e] # b)
             /\ SRooted(b, j) => x = 1
      BY <1>4, <2>2
    <3>2. CASE j = k /\ (d < to => x > n) /\ (d > to => x = 1)
      <4>1. /\ d < next[2] => x > ScatterCounts[j]
            /\ d = next[2] => x = next[3]
            /\ d > next[2] => x = 1
        BY <3>0, <3>2 DEF n
      <4> QED  BY <1>6, <3>2, <4>1 DEF SAt
    <3>3. CASE /\ j > k /\ d < to /\ (\A e \in k + 1 .. j - 1 : ScatterRoots[e] # b)
               /\ SRooted(b, j) => x = 1
      <4>1. d < next[2]
        BY <1>1, <1>6, <3>0, <3>3
      <4> QED  BY <1>6, <3>3, <4>1 DEF SAt
    <3> QED  BY <3>1, <3>2, <3>3
  <2>3. next[1] = k /\ ~ SFirst(b, next)
    BY <1>1, <1>6 DEF SFirst
  <2> QED  BY <2>1, <2>2, <2>3 DEF k, to, i
<1>7. CASE /\ ~ i + ElementsPerPacket <= n
           /\ next[1] > k /\ SFirst(b, next)
           /\ \A e \in Ranks : to < e => e = b
           /\ \A j \in k + 1 .. next[1] - 1 : ScatterRoots[j] # b
  <2>1. SAt(b, to, k, i + ElementsPerPacket, next)
    BY <1>1, <1>7 DEF SAt, n
  <2>2. ASSUME NEW d \in Ranks \ {b}, d # to PROVE d < to
    BY <1>1, <1>7, <2>2
  <2>3. ASSUME NEW d \in Ranks \ {b}, d # to, NEW j \in Int, NEW x,
               j >= k, SAt(b, d, j, x, p)
        PROVE  SAt(b, d, j, x, next)
    <3>1. \/ j = k /\ x > n
          \/ /\ j > k /\ (\A e \in k + 1 .. j - 1 : ScatterRoots[e] # b)
             /\ SRooted(b, j) => x = 1
      BY <1>4, <2>2, <2>3
    <3>2. CASE j = k /\ x > n
      BY <1>7, <3>2 DEF SAt, n
    <3>3. CASE /\ j > k /\ (\A e \in k + 1 .. j - 1 : ScatterRoots[e] # b)
               /\ SRooted(b, j) => x = 1
      <4>1. CASE j < next[1]
        <5>1. ~ SRooted(b, j)
          BY <1>1, <1>7, <3>3, <4>1 DEF SRooted
        <5>2. \A e \in j + 1 .. next[1] - 1 : ScatterRoots[e] # b
          BY <1>1, <1>7, <3>3
        <5> QED  BY <1>7, <4>1, <5>1, <5>2 DEF SAt
      <4>2. CASE j = next[1]
        <5>1. ~ d < next[2] /\ (d = next[2] => next[3] = 1)
          BY <1>7, <2>3 DEF SFirst
        <5> QED  BY <3>3, <4>2, <5>1 DEF SAt
      <4>3. CASE j > next[1]
        <5>1. ~ SRooted(b, next[1])
          BY <1>1, <1>7, <3>3, <4>3 DEF SRooted
        <5>2. \A e \in next[1] + 1 .. j - 1 : ScatterRoots[e] # b
          BY <1>1, <1>7, <3>3
        <5> QED  BY <3>3, <4>3, <5>1, <5>2 DEF SAt
      <4> QED  BY <1>1, <2>3, <4>1, <4>2, <4>3
    <3> QED  BY <3>1, <3>2, <3>3
  <2>4. ASSUME NEW d \in Ranks \ {b}, d # to PROVE ~ SAt(b, d, k, 1, p)
    <3>1. ~ 1 > n /\ ~ k > k
      BY <1>1
    <3> QED  BY <1>1, <1>4, <2>2, <2>4, <3>1
  <2> QED  BY <1>7, <2>1, <2>3, <2>4 DEF k, to, i
<1> QED  BY <1>3, <1>5, <1>6, <1>7


LEMMA SForwardStep ==
    ASSUME SInv, NEW r \in Ranks, S!Forward(r)
    PROVE  SInv'
<1> DEFINE s  == ssupport[r]
           p  == s.mess.net[0]
           k  == p[1]
           to == p[2]
           i  == p[3]
           s2 == ssupport'[r]
<1>1. S!TypeOK /\ (\A q \in Ranks : SRankInv(q)) /\ \A b, d \in Ranks : SPairInv(b, d)
  BY DEF SInv
<1>2. /\ ~ s.external /\ s.to_be_received_requests = 0 /\ s \in SSupport
      /\ sdata' = Put(sdata, r, s.mess.dst, s.mess.net)
      /\ ssupport' = [ssupport EXCEPT ![r].external = TRUE]
      /\ schan' = schan /\ scatter' = scatter /\ scontrol' = scontrol
  BY <1>1, STypes, SWires DEF S!Forward
<1>3. /\ SItem(r, s.mess) /\ s.mess.dst = to
      /\ SFollows(r, p, SLine(r)) /\ Cardinality(SUncounted(r, k)) = 0
  <2>1. SKernelInv(r, s, SLine(r), SUncounted(r, k))
    BY <1>1 DEF SRankInv
  <2> QED  BY <1>2, <2>1 DEF SKernelInv, SItem
<1>4. /\ k \in 1 .. S!NumCollectives /\ i \in 1 .. ScatterCounts[k]
      /\ SPacket(s.mess.net, k, to, i) /\ SRooted(r, k)
      /\ s.mess.net \in S!Packet /\ i \in Int /\ i >= 1 /\ k \in Int
      /\ to \in Ranks /\ to # r
  <2>1. /\ k \in 1 .. S!NumCollectives /\ i \in 1 .. ScatterCounts[k]
        /\ SPacket(s.mess.net, k, to, i) /\ ScatterRoots[k] = r
        /\ s.mess.net \in S!Packet /\ to \in Ranks /\ to # r
    BY <1>3 DEF SItem, SPacket
  <2>2. i \in Int /\ i >= 1 /\ k \in Int
    <3> HIDE DEF i, k, to
    <3> QED  BY <2>1, SNumbers
  <2> QED  BY <2>1, <2>2 DEF SRooted
<1>5. SUncounted(r, k) = {}
  <2>1. IsFiniteSet(SUncounted(r, k))
    <3>1. SUncounted(r, k) \subseteq Ranks
      BY DEF SUncounted
    <3> QED  BY <3>1, FiniteRanks, FS_Subset
  <2> QED  BY <1>3, <2>1, FS_EmptySet
<1>6. /\ ssupport' \in [Ranks -> SSupport]
      /\ \A q \in Ranks \ {r} : ssupport'[q] = ssupport[q]
      /\ s2.external = TRUE /\ s2.mess = s.mess /\ s2.to_be_received_requests = 0
  <2>1. [s EXCEPT !.external = TRUE] \in SSupport
    BY <1>2 DEF SSupport
  <2>2. ssupport \in [Ranks -> SSupport]
    BY <1>1, STypeOK
  <2>3. s2 = [s EXCEPT !.external = TRUE] /\ ssupport' \in [Ranks -> SSupport]
        /\ \A q \in Ranks \ {r} : ssupport'[q] = ssupport[q]
    BY <1>2, <2>1, <2>2
  <2> QED  BY <1>2, <2>3 DEF SSupport
<1>7. /\ sdata' \in Net(S!Packet)
      /\ sdata'[r][to] = Append(sdata[r][to], s.mess.net)
      /\ \A a, b \in Ranks : a # r \/ b # to => sdata'[a][b] = sdata[a][b]
  <2>1. sdata \in Net(S!Packet)
    BY <1>1, STypeOK
  <2>2. sdata' = Put(sdata, r, to, s.mess.net)
    BY <1>2, <1>3
  <2>3. s.mess.net \in S!Packet /\ to \in Ranks
    BY <1>4
  <2> HIDE DEF s, to
  <2>4. LET net == Put(sdata, r, to, s.mess.net)
        IN  /\ net \in Net(S!Packet)
            /\ net[r][to] = Append(sdata[r][to], s.mess.net)
            /\ \A a, b \in Ranks : a # r \/ b # to => net[a][b] = sdata[a][b]
    BY <2>1, <2>3, PutAt, Z3T(30)
  <2> QED  BY <2>2, <2>4
<1>8. S!TypeOK'
  BY <1>1, <1>2, <1>6, <1>7, STypeOK, STypeOKNext
<1>9. /\ \A q \in Ranks : SLine(q)' = SLine(q)
      /\ \A q \in Ranks \ {r} : SPlace(q)' = SPlace(q)
      /\ SPlace(r) = p /\ SPlace(r)' = SLine(r)
  <2>1. \A q \in Ranks : SLine(q)' = SLine(q)
    BY <1>2 DEF SLine
  <2> QED  BY <1>2, <1>6, <2>1 DEF SPlace, SGives
<1>10. ASSUME NEW q \in Ranks PROVE SRankInv(q)'
  <2>1. SRankInv(q)
    BY <1>1
  <2>2. SUncounted(q, ssupport[q].mess.net[0][1])' = SUncounted(q, ssupport[q].mess.net[0][1])
    <3>1. ssupport'[q].mess = ssupport[q].mess
      BY <1>6
    <3> QED  BY <1>2, <3>1 DEF SUncounted
  <2>3. CASE q # r
    BY <1>2, <1>6, <1>9, <2>1, <2>2, <2>3 DEF SRankInv
  <2>4. CASE q = r
    <3>1. \A line, uncounted : SKernelInv(r, s2, line, uncounted)
      BY <1>6 DEF SKernelInv
    <3> QED  BY <1>2, <2>1, <2>4, <3>1 DEF SRankInv
  <2> QED  BY <2>3, <2>4
<1> DEFINE next == SLine(r)
<1>11. /\ SAt(r, to, k, i + ElementsPerPacket, next)
       /\ next[1] > k => SFirst(r, next)
       /\ \A d \in Ranks \ {r} : d # to =>
              /\ \A j \in Int : \A x : j >= k /\ SAt(r, d, j, x, p) => SAt(r, d, j, x, next)
              /\ SAt(r, d, k, 1, p) => next[1] = k /\ ~ SFirst(r, next)
  <2>1. SIsPlace(next)
    BY SPlaces
  <2> HIDE DEF p
  <2> QED  BY <1>3, <1>4, <2>1, SAtFollows
<1>12. ASSUME NEW d \in Ranks \ {r}
       PROVE  /\ SAt(r, d, schan[d].coll, SX(r, d), p)
              /\ SAskInv(r, d, schan[d], scontrol[d][r], SX(r, d), p, s)
              /\ schan[d].coll \in Int /\ schan[d].coll >= k
              /\ schan[d].coll = k => ~ schan[d].init /\ scontrol[d][r] = <<>>
  <2>1. SAt(r, d, schan[d].coll, SX(r, d), p)
        /\ SAskInv(r, d, schan[d], scontrol[d][r], SX(r, d), p, s)
    BY <1>1, <1>9 DEF SPairInv
  <2>2. schan[d].coll \in Int
    BY <1>1, STypes, SChannelFields
  <2>3. ~ SToCount(k, schan[d], scontrol[d][r])
    BY <1>5 DEF SUncounted
  <2> HIDE DEF k
  <2>4. schan[d].coll >= k
        /\ (schan[d].coll = k => ~ schan[d].init /\ scontrol[d][r] = <<>>)
    <3>1. k \in Int
      BY <1>4
    <3> QED  BY <2>2, <2>3, <3>1 DEF SToCount
  <2> QED  BY <2>1, <2>2, <2>4
<1>13. ASSUME NEW d \in Ranks \ {r}, d # to PROVE SPairInv(r, d)'
  <2> DEFINE c == schan[d]
  <2>1. SPairInv(r, d) /\ SX(r, d)' = SX(r, d) /\ schan'[d] = c
        /\ sdata'[r][d] = sdata[r][d] /\ scontrol'[d][r] = scontrol[d][r]
    BY <1>1, <1>2, <1>7, <1>13 DEF SX
  <2>2. SAt(r, d, c.coll, SX(r, d), next)
    <3> HIDE DEF next, p, k, to
    <3> QED  BY <1>11, <1>12, <1>13
  <2>3. SAskInv(r, d, c, scontrol[d][r], SX(r, d), next, s2)
    <3> SUFFICES ASSUME SRooted(r, c.coll)
                 PROVE  IF c.init \/ scontrol[d][r] # <<>>
                        THEN SX(r, d) = 1 /\ (next[1] = c.coll => SFirst(r, next))
                        ELSE SX(r, d) = 1 =>
                                 next[1] = c.coll /\ (SFirst(r, next) => ~ s2.external)
      BY DEF SAskInv
    <3>1. CASE c.init \/ scontrol[d][r] # <<>>
      <4>1. SX(r, d) = 1
        BY <1>12, <3>1 DEF SAskInv
      <4>2. c.coll \in Int /\ k \in Int /\ c.coll >= k /\ c.coll # k
        BY <1>4, <1>12, <3>1
      <4>3. c.coll > k
        BY <4>2
      <4> HIDE DEF next, k
      <4> QED  BY <1>11, <3>1, <4>1, <4>3
    <3>2. CASE ~ (c.init \/ scontrol[d][r] # <<>>) /\ SX(r, d) = 1
      <4>1. k = c.coll
        BY <1>12, <3>2 DEF SAskInv
      <4>2. SAt(r, d, k, 1, p)
        BY <1>12, <3>2, <4>1
      <4> HIDE DEF next, k, p, to
      <4> QED  BY <1>11, <1>13, <3>2, <4>1, <4>2
    <3> QED  BY <3>1, <3>2
  <2> QED  BY <1>9, <2>1, <2>2, <2>3 DEF SPairInv
<1>14. ASSUME NEW d \in Ranks \ {r}, d = to PROVE SPairInv(r, d)'
  <2> DEFINE c     == schan[d]
             queue == sdata[r][d]
  <2>1. /\ SPairInv(r, d) /\ d \in Int
        /\ SAt(r, d, c.coll, SX(r, d), p)
        /\ c.coll \in Int /\ c.coll >= k
        /\ c.coll = k => ~ c.init /\ scontrol[d][r] = <<>>
    BY <1>1, <1>12, Numbers
  <2>2. c \in SChannel /\ queue \in Seq(S!Packet)
    BY <1>1, STypes
  <2>3. c.coll = k /\ SX(r, d) = i
    <3>1. SRooted(r, k) /\ k \in Int /\ ~ d < to /\ ~ c.coll < k
      <4>1. k \in Int /\ SRooted(r, k)
        BY <1>4
      <4> HIDE DEF to, k
      <4> QED  BY <1>14, <2>1, <4>1
    <3> HIDE DEF c
    <3> QED  BY <1>14, <2>1, <3>1 DEF SAt
  <2>4. ~ c.init /\ scontrol[d][r] = <<>>
    BY <2>1, <2>3
  <2>5. /\ SQueueInv(Append(queue, s.mess.net), r, d, c)
        /\ SExpects(Append(queue, s.mess.net), c) = i + ElementsPerPacket
    <3>1. SQueueInv(queue, r, d, c) /\ SExpects(queue, c) = i
      BY <2>1, <2>3 DEF SPairInv, SX
    <3>2. SPacket(s.mess.net, c.coll, d, i) /\ s.mess.net[0][3] = i /\ SRooted(r, c.coll)
      BY <1>4, <1>14, <2>3
    <3>3. s.mess.net \in S!Packet /\ i \in Int /\ d # r
      BY <1>4
    <3> HIDE DEF queue, c, i, s, to
    <3> QED  BY <2>2, <3>1, <3>2, <3>3, SQueueAppend
  <2>6. /\ sdata'[r][d] = Append(queue, s.mess.net) /\ schan'[d] = c
        /\ SX(r, d)' = i + ElementsPerPacket
    <3>1. sdata'[r][d] = Append(queue, s.mess.net) /\ schan'[d] = c
      BY <1>2, <1>7, <1>14
    <3> QED  BY <2>5, <3>1 DEF SX
  <2>7. SAskInv(r, d, c, scontrol[d][r], i + ElementsPerPacket, next, s2)
    <3>1. i + ElementsPerPacket # 1
      <4>1. i \in Int /\ i >= 1
        BY <1>4
      <4> HIDE DEF i
      <4> QED  BY <4>1, Numbers
    <3> QED  BY <2>4, <3>1 DEF SAskInv
  <2>8. SAt(r, d, c.coll, i + ElementsPerPacket, next)
    BY <1>11, <1>14, <2>3
  <2>9. SRequestInv(scontrol'[d][r], d, r, c)
    BY <1>2, <2>4 DEF SRequestInv
  <2>10. SPlace(r)' = next /\ scontrol'[d][r] = scontrol[d][r]
    BY <1>2, <1>9
  <2> QED  BY <2>5, <2>6, <2>7, <2>8, <2>9, <2>10 DEF SPairInv
<1>15. ASSUME NEW b \in Ranks, NEW d \in Ranks PROVE SPairInv(b, d)'
  <2>1. SPairInv(b, d)
    BY <1>1
  <2>2. CASE b # r
    BY <1>2, <1>6, <1>7, <1>9, <2>1, <2>2, SPairStays
  <2>3. CASE b = r /\ d = r
    <3>1. sdata'[r][r] = sdata[r][r]
      BY <1>4, <1>7
    <3> QED  BY <1>2, <2>1, <2>3, <3>1 DEF SPairInv, SAskInv
  <2>4. CASE b = r /\ d # r /\ d # to
    BY <1>13, <2>4
  <2>5. CASE b = r /\ d = to
    BY <1>4, <1>14, <2>5
  <2> QED  BY <2>2, <2>3, <2>4, <2>5
<1> QED  BY <1>8, <1>10, <1>15 DEF SInv

-----------------------------------------------------------------------------
LEMMA SNext ==
    ASSUME SInv, NEW r \in Ranks, S!Application(r) \/ S!Support(r)
    PROVE  SInv'
<1>1. CASE S!Call(r)
  BY <1>1, SCallStep
<1>2. CASE S!Send(r)
  BY <1>2, SSendStep, SSendLastStep
<1>3. CASE S!SendReady(r)
  BY <1>3, SReadyStep
<1>4. CASE S!Receive(r)
  BY <1>4, SReceiveStep, SReceiveLastStep
<1>5. CASE S!ReadApplication(r)
  BY <1>5, SReadApplicationStep
<1>6. CASE S!TakeRequest(r)
  BY <1>6, STakeRequestStep
<1>7. CASE S!Forward(r)
  BY <1>7, SForwardStep
<1> QED  BY <1>1, <1>2, <1>3, <1>4, <1>5, <1>6, <1>7 DEF S!Application, S!Support

LEMMA SStutter ==
    ASSUME SInv, UNCHANGED svars
    PROVE  SInv'
<1>1. /\ schan' = schan /\ ssupport' = ssupport /\ scatter' = scatter
      /\ sdata' = sdata /\ scontrol' = scontrol
  BY DEF svars
<1>2. S!TypeOK' /\ \A q \in Ranks : SLine(q)' = SLine(q) /\ SPlace(q)' = SPlace(q)
  BY <1>1, STypeOK, STypeOKNext DEF SInv, SLine, SPlace
<1>3. ASSUME NEW q \in Ranks PROVE SRankInv(q)'
  <2>1. SUncounted(q, ssupport[q].mess.net[0][1])' = SUncounted(q, ssupport[q].mess.net[0][1])
    BY <1>1 DEF SUncounted
  <2> QED  BY <1>1, <1>2, <2>1 DEF SInv, SRankInv
<1>4. ASSUME NEW b \in Ranks, NEW d \in Ranks PROVE SPairInv(b, d)'
  BY <1>1, <1>2, SPairStays DEF SInv
<1> QED  BY <1>2, <1>3, <1>4 DEF SInv

(* What the invariant says of the properties *)
LEMMA SPacketOfQueue ==
    ASSUME SInv, NEW r \in Ranks, NEW src \in Ranks, NEW j \in 1 .. Len(sdata[src][r])
    PROVE  LET net == sdata[src][r][j]
           IN  /\ net[0][1] = schan[r].coll /\ net[0][2] = r
               /\ net[0] = <<schan[r].coll, r, net[0][3]>>
<1> DEFINE queue == sdata[src][r]
           net == queue[j]
<1>1. SQueueInv(queue, src, r, schan[r]) /\ queue \in Seq(S!Packet)
  BY STypes DEF SInv, SPairInv
<1>2. queue # <<>>
  BY <1>1
<1>3. SPacket(net, schan[r].coll, r, net[0][3])
  BY <1>1, <1>2 DEF SQueueInv
<1>4. net[0] = <<schan[r].coll, r, net[0][3] + 0>>
  BY <1>3, SNumbers, SMTT(30) DEF SPacket
<1>5. net[0][1] = schan[r].coll /\ net[0][2] = r /\ net[0][3] \in Int
  <2>1. net[0][1] = schan[r].coll /\ net[0][2] = r
    BY <1>4
  <2> QED  BY <1>3, <2>1, SNumbers DEF SPacket
<1> HIDE DEF net
<1> QED  BY <1>4, <1>5 DEF net

LEMMA SNoIntermixing == SInv => S!NoIntermixing
<1> SUFFICES ASSUME SInv, NEW r \in Ranks, NEW net \in UnderWay(sdata, r)
             PROVE  net[0][1] = schan[r].coll /\ net[0][2] = r
  BY SWires DEF S!NoIntermixing
<1>1. PICK src \in Ranks : \E j \in 1 .. Len(sdata[src][r]) : net = sdata[src][r][j]
  BY DEF UnderWay
<1> QED  BY <1>1, SPacketOfQueue

LEMMA SRequests == SInv => S!RequestsInTheirScatter
<1> SUFFICES ASSUME SInv, NEW r \in Ranks, ssupport[r].to_be_received_requests > 0,
                    NEW k \in UnderWay(scontrol, r)
             PROVE  k = ssupport[r].mess.net[0][1]
  BY SWires DEF S!RequestsInTheirScatter
<1>1. PICK src \in Ranks : \E j \in 1 .. Len(scontrol[src][r]) : k = scontrol[src][r][j]
  BY DEF UnderWay
<1>2. scontrol[src][r] # <<>> /\ ssupport[r].to_be_received_requests # 0
  BY <1>1
<1>3. scontrol[src][r] = <<schan[src].coll>>
      /\ ssupport[r].mess.net[0][1] = schan[src].coll
  BY <1>2, SRequested
<1> QED  BY <1>1, <1>3

LEMMA SNextElement ==
    ASSUME SInv, NEW r \in Ranks, schan[r].returned < schan[r].entered, ~ S!IsRoot(r)
    PROVE  IF schan[r].packet_element_id_rcv = 0
           THEN \A src \in Waiting(sdata, r) :
                    sdata[src][r][1][0] = <<schan[r].coll, r, schan[r].entered>>
           ELSE schan[r].net_2[schan[r].packet_element_id_rcv]
                    = <<schan[r].coll, r, schan[r].entered>>
<1> DEFINE c == schan[r]
<1>1. c \in SChannel /\ SCallInv(r, c)
  BY STypes DEF SInv, SRankInv
<1>2. /\ c.coll \in Int /\ c.returned \in Int /\ c.entered = c.returned + 1
      /\ c.coll \in 1 .. S!NumCollectives /\ c.returned + 1 <= ScatterCounts[c.coll]
  <2>1. /\ c.coll \in Int /\ c.coll >= 1 /\ S!NumCollectives \in Int
        /\ c.returned \in Int /\ c.returned >= 0
    BY <1>1, SChannelFields, SNumbers
  <2>2. c.coll \in 1 .. S!NumCollectives /\ c.entered = c.returned + 1
    BY <1>1, <2>1 DEF SCallInv
  <2>3. ScatterCounts[c.coll] \in Int /\ S!Calls(c.coll, r) = ScatterCounts[c.coll]
    BY <2>2, SCalls DEF S!IsRoot
  <2>4. c.returned < ScatterCounts[c.coll]
    BY <1>1, <2>1, <2>2, <2>3 DEF SCallInv
  <2> QED  BY <2>1, <2>2, <2>3, <2>4
<1>3. CASE c.packet_element_id_rcv = 0
  <2> SUFFICES ASSUME NEW src \in Waiting(sdata, r)
               PROVE  sdata[src][r][1][0] = <<c.coll, r, c.entered>>
    BY <1>3
  <2> DEFINE queue == sdata[src][r]
  <2>1. src \in Ranks /\ queue # <<>>
    BY DEF Waiting
  <2>2. queue \in Seq(S!Packet) /\ SQueueInv(queue, src, r, c)
    BY <2>1, STypes DEF SInv, SPairInv
  <2>3. 1 \in 1 .. Len(queue)
    BY <2>1, <2>2, EmptySeq
  <2>4. queue[1][0] = <<c.coll, r, queue[1][0][3]>>
    BY <2>1, <2>3, SPacketOfQueue
  <2>5. queue[1][0][3] = c.returned + 1
    BY <1>3, <2>1, <2>2 DEF SQueueInv, SReads
  <2> QED  BY <1>2, <2>4, <2>5
<1>4. CASE c.packet_element_id_rcv # 0
  <2>1. SReadInv(r, c)
    BY <1>2 DEF SInv, SRankInv, SRooted, S!IsRoot
  <2> DEFINE id == c.packet_element_id_rcv
  <2>2. id \in id .. ElementsPerPacket - 1 /\ c.returned + 1 + (id - id) = c.entered
    BY <1>1, <1>2, SChannelFields, Numbers
  <2>3. c.net_2[id] = <<c.coll, r, c.entered>>
    BY <1>2, <1>4, <2>1, <2>2 DEF SReadInv
  <2> QED  BY <1>4, <2>3
<1> QED  BY <1>3, <1>4

(* The root's counter of receivers agrees with the element it is handed. *)
LEMMA SHanded ==
    ASSUME SInv, NEW r \in Ranks, schan[r].returned < schan[r].entered, S!IsRoot(r)
    PROVE  schan[r].next_rcv = (schan[r].entered - 1) \div ScatterCounts[schan[r].coll]
<1> DEFINE c == schan[r]
           n == ScatterCounts[c.coll]
           w == c.next_rcv
           y == c.processed_elements
<1>1. SRooted(r, c.coll)
  <2>1. c \in SChannel
    BY STypes DEF SInv
  <2> QED  BY <2>1, SChannelFields, SNumbers DEF S!IsRoot, SRooted
<1>2. /\ n \in Nat \ {0} /\ w \in Int /\ w >= 0 /\ y \in Int /\ y >= 0 /\ y < n
      /\ c.returned \in Int /\ c.entered \in Int
      /\ c.returned = w * n + y /\ c.entered \in {c.returned, c.returned + 1}
  BY <1>1, SRootFields
<1>3. c.entered - 1 = w * n + y
  BY <1>2
<1>4. (w * n + y) \div n = w
  <2>1. w \in Nat /\ y \in Nat
    BY <1>2
  <2> HIDE DEF w, y, n
  <2> QED  BY <1>2, <2>1, DivMod
<1> QED  BY <1>3, <1>4

LEMMA SNextElementRight == SInv => S!NextElementRight
<1> SUFFICES ASSUME SInv, NEW r \in Ranks, schan[r].returned < schan[r].entered
             PROVE  LET c == schan[r]
                        wanted == <<c.coll, r, c.entered>>
                        handed == (c.entered - 1) \div ScatterCounts[c.coll]
                    IN  CASE S!IsRoot(r) -> c.next_rcv = handed
                          [] ~ S!IsRoot(r) /\ c.packet_element_id_rcv = 0 ->
                                 \A src \in Waiting(sdata, r) : Head(sdata[src][r])[0] = wanted
                          [] OTHER -> c.net_2[c.packet_element_id_rcv] = wanted
  BY SWires DEF S!NextElementRight, S!InCall
<1>1. CASE S!IsRoot(r)
  BY <1>1, SHanded
<1>2. CASE ~ S!IsRoot(r)
  <2>1. \A src \in Waiting(sdata, r) : Head(sdata[src][r]) = sdata[src][r][1]
    BY DEF Waiting
  <2> QED  BY <1>2, <2>1, SNextElement
<1> QED  BY <1>1, <1>2

LEMMA SNothingLeft == SInv => S!NothingLeft
<1> SUFFICES ASSUME SInv, \A r \in Ranks : schan[r].coll = S!NumCollectives + 1
             PROVE  sdata = Quiet /\ scontrol = Quiet
  BY SWires DEF S!NothingLeft
<1>1. ASSUME NEW a \in Ranks, NEW b \in Ranks
      PROVE  sdata[a][b] = <<>> /\ scontrol[a][b] = <<>>
  <2>1. SPairInv(a, b) /\ SPairInv(b, a) /\ S!NumCollectives \in Nat
    BY SNumbers DEF SInv
  <2>2. \A s : ~ SRooted(s, S!NumCollectives + 1)
    BY <2>1 DEF SRooted
  <2> QED  BY <2>1, <2>2 DEF SPairInv, SQueueInv, SRequestInv
<1>2. sdata \in Net(S!Packet) /\ scontrol \in Net(SRequest)
  BY STypeOK DEF SInv
<1>3. sdata = Quiet
  BY <1>1, <1>2 DEF Net, Quiet
<1>4. scontrol = Quiet
  BY <1>1, <1>2 DEF Net, Quiet
<1> QED  BY <1>3, <1>4

-----------------------------------------------------------------------------
(* The state of the gathers *)

(* Gather k is one of the program, and r its root.                           *)
GRooted(r, k) == k \in 1 .. G!NumCollectives /\ GatherRoots[k] = r

(* The program of a rank: how far it is; how far the root is with the        *)
(* contributors; what a contributor has packed. *)
GCallInv(r, c) ==
    /\ c.entered \in {c.returned, c.returned + 1}
    /\ c.coll > G!NumCollectives => c.entered = 0
    /\ c.coll <= G!NumCollectives => c.returned < G!Calls(c.coll, r)

GRootInv(r, c) ==
    /\ GRooted(r, c.coll) =>
           /\ c.next_contrib < NumRanks
           /\ c.processed_elements_root < GatherCounts[c.coll]
           /\ c.returned = c.next_contrib * GatherCounts[c.coll] + c.processed_elements_root
           /\ c.packet_element_id_rcv <= c.processed_elements_root
           /\ c.requested => G!Asks(c, r) /\ c.entered = c.returned + 1
    /\ ~ GRooted(r, c.coll) =>
           /\ c.next_contrib = 0 /\ c.processed_elements_root = 0
           /\ c.packet_element_id_rcv = 0 /\ ~ c.requested

GSendInv(r, c) ==
    ~ GRooted(r, c.coll) =>
        /\ c.packet_element_id <= c.returned
        /\ c.op = "SYNCH" <=> c.packet_element_id = c.returned
        /\ \A e \in 0 .. c.packet_element_id - 1 :
               c.net[e] = <<c.coll, r, c.returned - c.packet_element_id + 1 + e>>

GChanInv(r, c) == GCallInv(r, c) /\ GRootInv(r, c) /\ GSendInv(r, c)

GTypeInv == G!TypeOK /\ \A r \in Ranks : GChanInv(r, gchan[r])

-----------------------------------------------------------------------------
(* All gathers of the program have one root. *)
OneGatherRoot == \A j, k \in 1 .. G!NumCollectives : GatherRoots[j] = GatherRoots[k]

GRoot == IF G!NumCollectives = 0 THEN 0 ELSE GatherRoots[1]

Contributors == Ranks \ {GRoot}

(* The packet of rank q for gather k that begins with element i *)
GPacket(net, q, k, i) ==
    /\ net \in G!Packet
    /\ k \in 1 .. G!NumCollectives /\ i \in 1 .. GatherCounts[k]
    /\ \A e \in G!Slots : i + e <= GatherCounts[k] => net[e] = <<k, q, i + e>>

GItem(q, net) == GPacket(net, q, net[0][1], net[0][3])

(* The line of packets of rank q: a place is <<gather, q, element>>, that of *)
(* a packet is its first element. *)
GNext(p) ==
    IF p[3] + ElementsPerPacket <= GatherCounts[p[1]]
    THEN <<p[1], p[2], p[3] + ElementsPerPacket>>
    ELSE <<p[1] + 1, p[2], 1>>

(* What q fills; what it offers its kernel; what passes the kernel's wait    *)
(* next; what is sent next; what the root expects to be sent; what it reads. *)
GFill(q, c) == <<c.coll, q, c.returned - c.packet_element_id + 1>>

GOffer(fifo, fill) == IF fifo = <<>> THEN fill ELSE fifo[1].net[0]

GGate(s, offer) == IF s.waits THEN s.mess.net[0] ELSE offer

GSent(s, gate) == IF s.writes THEN s.mess.net[0] ELSE gate

GRead(q, c) ==
    IF c.next_contrib > q THEN <<c.coll + 1, q, 1>>
    ELSE IF c.next_contrib < q THEN <<c.coll, q, 1>>
    ELSE IF c.packet_element_id_rcv = 0 THEN <<c.coll, q, c.processed_elements_root + 1>>
    ELSE GNext(<<c.coll, q, c.processed_elements_root - c.packet_element_id_rcv + 1>>)

GExpects(queue, read) == IF queue = <<>> THEN read ELSE GNext(queue[Len(queue)][0])

(* The root, at channel c, has asked q for the data of its gather. *)
GAsked(q, c) ==
    \/ c.next_contrib > q
    \/ c.next_contrib = q /\ (c.processed_elements_root > 0 \/ c.requested)

(* A message of q, to be followed by the packet at place next *)
GMessInv(q, m, next) ==
    /\ GItem(q, m.net) /\ m.dst = GRoot
    /\ m.op = "SYNCH" <=> m.net[0][3] = 1
    /\ GNext(m.net[0]) = next

GFifoInv(q, fifo, fill) == fifo # <<>> => fifo = <<fifo[1]>> /\ GMessInv(q, fifo[1], fill)

GKernelInv(q, s, offer) ==
    /\ ~ (s.waits /\ s.writes)
    /\ s.waits \/ s.writes => GMessInv(q, s.mess, offer)
    /\ s.waits => s.mess.op = "SYNCH"

GQueueInv(q, queue, read) ==
    queue # <<>> =>
        /\ queue[1][0] = read
        /\ \A j \in 1 .. Len(queue) : GItem(q, queue[j])
        /\ \A j \in 1 .. Len(queue) - 1 : queue[j + 1][0] = GNext(queue[j][0])

(* Nothing passes the wait unasked: it is of the gather and the contributor  *)
(* the root is at. *)
GAskInv(q, c, s, queue, gate) ==
    /\ \A j \in 1 .. Len(queue) : queue[j][0][1] = c.coll
    /\ s.writes => s.mess.net[0][1] = c.coll
    /\ gate[3] # 1 => gate[1] = c.coll
    /\ queue # <<>> \/ s.writes \/ gate[3] # 1 =>
           c.next_contrib = q /\ GAsked(q, c) /\ s.from = GRoot

(* A request is under way exactly while the packet it is for waits. *)
GRequestInv(q, c, gate, requests) ==
    requests = IF GAsked(q, c) /\ gate = <<c.coll, q, 1>> THEN <<c.coll>> ELSE <<>>

(* What the root has read and not yet used *)
GReadInv(c) ==
    c.next_contrib # GRoot /\ c.packet_element_id_rcv # 0 =>
        \A e \in c.packet_element_id_rcv .. ElementsPerPacket - 1 :
            LET i == c.processed_elements_root + 1 + (e - c.packet_element_id_rcv)
            IN  i <= GatherCounts[c.coll] => c.net[e] = <<c.coll, c.next_contrib, i>>

GOffered(q) == GOffer(gather[q], GFill(q, gchan[q]))
GGated(q)   == GGate(gsupport[q], GOffered(q))

GLineInv(q) ==
    /\ GFifoInv(q, gather[q], GFill(q, gchan[q]))
    /\ GKernelInv(q, gsupport[q], GOffered(q))

GWayInv(q) ==
    /\ GQueueInv(q, gdata[q][GRoot], GRead(q, gchan[GRoot]))
    /\ GExpects(gdata[q][GRoot], GRead(q, gchan[GRoot])) = GSent(gsupport[q], GGated(q))
    /\ GAskInv(q, gchan[GRoot], gsupport[q], gdata[q][GRoot], GGated(q))
    /\ GRequestInv(q, gchan[GRoot], GGated(q), gcontrol[GRoot][q])

(* No other FIFO has anything, and the kernel of the root nothing to do. *)
GSilence ==
    /\ gather[GRoot] = <<>> /\ ~ gsupport[GRoot].waits /\ ~ gsupport[GRoot].writes
    /\ \A s, d \in Ranks : s = GRoot \/ d # GRoot => gdata[s][d] = <<>>
    /\ \A s, d \in Ranks : s # GRoot \/ d = GRoot => gcontrol[s][d] = <<>>

GInv ==
    /\ GTypeInv /\ GSilence /\ GReadInv(gchan[GRoot])
    /\ \A q \in Contributors : GLineInv(q) /\ GWayInv(q)

-----------------------------------------------------------------------------
LEMMA GWires ==
    /\ G!Ranks = Ranks /\ G!Quiet = Quiet
    /\ \A n, s, d : G!HasRoom(n, s, d) = HasRoom(n, s, d)
    /\ \A n, d : G!Waiting(n, d) = Waiting(n, d) /\ G!UnderWay(n, d) = UnderWay(n, d)
    /\ \A n, s, d : G!Take(n, s, d) = Take(n, s, d)
    /\ \A n, s, d, p : G!Put(n, s, d, p) = Put(n, s, d, p)
BY DEF G!Ranks, Ranks, G!Quiet, Quiet, G!HasRoom, HasRoom, G!Waiting, Waiting,
       G!UnderWay, UnderWay, G!Take, Take, G!Put, Put

LEMMA GNumbers ==
    /\ G!NumCollectives \in Nat
    /\ GatherRoots \in [1 .. G!NumCollectives -> Ranks]
    /\ GatherCounts \in [1 .. G!NumCollectives -> Nat \ {0}]
    /\ \A k \in 1 .. G!NumCollectives :
           /\ GatherRoots[k] \in Ranks
           /\ GatherCounts[k] \in Int /\ GatherCounts[k] >= 1
    /\ G!Slots = 0 .. ElementsPerPacket - 1 /\ 0 \in G!Slots
BY RootsAndCounts, Numbers DEF GatherRoots, GatherCounts, G!NumCollectives, G!Slots

LEMMA GElements ==
    /\ G!NoElement \in G!Elements
    /\ \A k \in 1 .. G!NumCollectives : \A q \in Ranks : \A i \in 1 .. GatherCounts[k] :
           <<k, q, i>> \in G!Elements
    /\ G!Empty \in G!Packet
BY GWires DEF G!Elements, G!Empty, G!Packet, G!NoElement

(* The fields of the state at one rank *)
GChannel ==
    [coll : 1 .. G!NumCollectives + 1, entered : Nat, returned : Nat,
     requested : BOOLEAN, op : {"SYNCH", "GATHER"},
     next_contrib : 0 .. NumRanks, processed_elements_root : Nat,
     net : G!Packet, packet_element_id : G!Slots, packet_element_id_rcv : G!Slots]

GMessage == [op : {"SYNCH", "GATHER"}, dst : Ranks, net : G!Packet]

GSupport == [waits : BOOLEAN, writes : BOOLEAN, from : Ranks, mess : GMessage]

GRequest == 1 .. G!NumCollectives

LEMMA GTypeOK ==
    G!TypeOK <=> /\ gchan \in [Ranks -> GChannel]
                 /\ gsupport \in [Ranks -> GSupport]
                 /\ gather \in [Ranks -> Seq(GMessage)]
                 /\ gdata \in Net(G!Packet)
                 /\ gcontrol \in Net(GRequest)
BY DEF G!TypeOK, G!Ranks, Ranks, GChannel, GSupport, GMessage, GRequest, Net

LEMMA GTypeOKNext ==
    G!TypeOK' <=> /\ gchan' \in [Ranks -> GChannel]
                  /\ gsupport' \in [Ranks -> GSupport]
                  /\ gather' \in [Ranks -> Seq(GMessage)]
                  /\ gdata' \in Net(G!Packet)
                  /\ gcontrol' \in Net(GRequest)
BY DEF G!TypeOK, G!Ranks, Ranks, GChannel, GSupport, GMessage, GRequest, Net

LEMMA GTypes ==
    ASSUME G!TypeOK, NEW r \in Ranks
    PROVE  /\ gchan[r] \in GChannel
           /\ gsupport[r] \in GSupport
           /\ gather[r] \in Seq(GMessage)
           /\ \A q \in Ranks : /\ gdata[r][q] \in Seq(G!Packet)
                               /\ gcontrol[r][q] \in Seq(GRequest)
BY GTypeOK DEF Net

LEMMA GChannelFields ==
    ASSUME NEW c \in GChannel
    PROVE  /\ c.coll \in Int /\ c.coll >= 1 /\ c.coll <= G!NumCollectives + 1
           /\ c.entered \in Int /\ c.entered >= 0 /\ c.returned \in Int /\ c.returned >= 0
           /\ c.requested \in BOOLEAN /\ c.op \in {"SYNCH", "GATHER"}
           /\ c.net \in G!Packet
           /\ c.next_contrib \in Int /\ c.next_contrib >= 0 /\ c.next_contrib <= NumRanks
           /\ c.processed_elements_root \in Int /\ c.processed_elements_root >= 0
           /\ c.packet_element_id \in Int /\ c.packet_element_id >= 0
           /\ c.packet_element_id < ElementsPerPacket
           /\ c.packet_element_id_rcv \in Int /\ c.packet_element_id_rcv >= 0
           /\ c.packet_element_id_rcv < ElementsPerPacket
BY GNumbers, Numbers DEF GChannel

LEMMA GSupportFields ==
    ASSUME NEW s \in GSupport
    PROVE  /\ s.waits \in BOOLEAN /\ s.writes \in BOOLEAN /\ s.from \in Ranks
           /\ s.mess \in GMessage /\ s.mess.op \in {"SYNCH", "GATHER"}
           /\ s.mess.dst \in Ranks /\ s.mess.net \in G!Packet
BY DEF GSupport, GMessage

(* The number of calls of a gather *)
LEMMA GCalls ==
    ASSUME NEW k \in 1 .. G!NumCollectives, NEW r \in Ranks
    PROVE  /\ G!Calls(k, r) \in Int /\ G!Calls(k, r) >= GatherCounts[k]
           /\ r # GatherRoots[k] => G!Calls(k, r) = GatherCounts[k]
           /\ r = GatherRoots[k] => G!Calls(k, r) = NumRanks * GatherCounts[k]
<1> DEFINE n == GatherCounts[k]
<1>1. n \in Nat /\ n >= 1
  BY GNumbers
<1> HIDE DEF n
<1>2. NumRanks * n \in Int /\ NumRanks * n >= n
  BY <1>1, Numbers
<1> QED  BY <1>1, <1>2 DEF G!Calls, n

-----------------------------------------------------------------------------
(* The channel of one rank, whoever the roots are *)

LEMMA GOpened ==
    ASSUME NEW k \in 1 .. G!NumCollectives + 1, NEW r \in Ranks
    PROVE  G!Opened(k) \in GChannel /\ GChanInv(r, G!Opened(k))
<1> DEFINE c == G!Opened(k)
<1>1. /\ c.coll = k /\ c.entered = 0 /\ c.returned = 0 /\ ~ c.requested /\ c.op = "SYNCH"
      /\ c.next_contrib = 0 /\ c.processed_elements_root = 0 /\ c.net = G!Empty
      /\ c.packet_element_id = 0 /\ c.packet_element_id_rcv = 0
  BY DEF G!Opened
<1>2. c \in GChannel
  BY GElements, GNumbers, Numbers DEF G!Opened, GChannel
<1> HIDE DEF c
<1>3. GCallInv(r, c)
  <2>1. k <= G!NumCollectives => k \in 1 .. G!NumCollectives
    BY GNumbers
  <2>2. k <= G!NumCollectives => G!Calls(k, r) \in Int /\ G!Calls(k, r) >= 1
    BY <2>1, GCalls, GNumbers
  <2> QED  BY <1>1, <2>2 DEF GCallInv
<1>4. GRootInv(r, c)
  <2>1. \A n \in Int : 0 = 0 * n + 0
    OBVIOUS
  <2>2. GRooted(r, k) => GatherCounts[k] \in Int /\ GatherCounts[k] >= 1
    BY GNumbers DEF GRooted
  <2> QED  BY <1>1, <2>1, <2>2, Numbers DEF GRootInv
<1>5. GSendInv(r, c)
  BY <1>1 DEF GSendInv
<1> QED  BY <1>2, <1>3, <1>4, <1>5 DEF GChanInv, c

(* A step that leaves the other channels alone *)
LEMMA GChanStep ==
    ASSUME GTypeInv, NEW r \in Ranks, NEW c, gchan' = [gchan EXCEPT ![r] = c],
           c \in GChannel, GChanInv(r, c),
           gsupport' \in [Ranks -> GSupport], gather' \in [Ranks -> Seq(GMessage)],
           gdata' \in Net(G!Packet), gcontrol' \in Net(GRequest)
    PROVE  GTypeInv'
<1>1. gchan \in [Ranks -> GChannel]
  BY GTypeOK DEF GTypeInv
<1>2. gchan' \in [Ranks -> GChannel]
  BY <1>1
<1>3. ASSUME NEW q \in Ranks PROVE GChanInv(q, gchan'[q])
  BY <1>1 DEF GTypeInv
<1>4. G!TypeOK'
  BY <1>2, GTypeOKNext
<1> QED  BY <1>3, <1>4 DEF GTypeInv

LEMMA GCallType ==
    ASSUME GTypeInv, NEW r \in Ranks, G!Call(r)
    PROVE  /\ GTypeInv'
           /\ gchan' = [gchan EXCEPT ![r] = [gchan[r] EXCEPT !.entered = @ + 1]]
           /\ gchan[r].entered = gchan[r].returned
           /\ gchan[r].coll \in 1 .. G!NumCollectives
           /\ UNCHANGED <<gsupport, gather, gdata, gcontrol>>
<1> DEFINE c == gchan[r]
           c2 == [c EXCEPT !.entered = @ + 1]
<1>1. /\ G!TypeOK /\ GChanInv(r, c) /\ c \in GChannel
  BY GTypes DEF GTypeInv
<1>2. /\ gchan' = [gchan EXCEPT ![r] = c2] /\ c.coll <= G!NumCollectives
      /\ ~ (c.returned < c.entered)
      /\ UNCHANGED <<gsupport, gather, gdata, gcontrol>>
  BY <1>1, GTypeOK DEF G!Call, G!InCall
<1>3. /\ c.coll \in 1 .. G!NumCollectives /\ c.entered = c.returned
  BY <1>1, <1>2, GChannelFields, GNumbers DEF GChanInv, GCallInv
<1>4. c2 \in GChannel
  BY <1>1 DEF GChannel
<1>5. /\ c2.coll = c.coll /\ c2.entered = c.entered + 1 /\ c2.returned = c.returned
      /\ c2.requested = c.requested /\ c2.op = c.op /\ c2.next_contrib = c.next_contrib
      /\ c2.processed_elements_root = c.processed_elements_root /\ c2.net = c.net
      /\ c2.packet_element_id = c.packet_element_id
      /\ c2.packet_element_id_rcv = c.packet_element_id_rcv
  BY <1>1 DEF GChannel
<1> HIDE DEF c2
<1>6. GChanInv(r, c2)
  <2>1. GCallInv(r, c2)
    BY <1>1, <1>3, <1>5, GChannelFields, GNumbers DEF GChanInv, GCallInv
  <2>2. GRootInv(r, c2)
    <3>1. ~ c.requested
      BY <1>1, <1>3, GChannelFields DEF GChanInv, GRootInv
    <3> QED  BY <1>1, <1>5, <3>1 DEF GChanInv, GRootInv
  <2>3. GSendInv(r, c2)
    BY <1>1, <1>5 DEF GChanInv, GSendInv
  <2> QED  BY <2>1, <2>2, <2>3 DEF GChanInv
<1>7. GTypeInv'
  BY <1>1, <1>2, <1>4, <1>6, GTypeOK, GChanStep
<1> QED  BY <1>2, <1>3, <1>7 DEF c2

(* The channel of a root *)
LEMMA GRootFields ==
    ASSUME GTypeInv, NEW r \in Ranks, G!IsRoot(r)
    PROVE  LET c == gchan[r]
               k == c.coll
               n == GatherCounts[k]
           IN  /\ c \in GChannel /\ GRooted(r, k)
               /\ k \in 1 .. G!NumCollectives /\ k \in Int /\ k + 1 \in 1 .. G!NumCollectives + 1
               /\ n \in Int /\ n >= 1 /\ n \in Nat \ {0} /\ GatherRoots[k] = r
               /\ c.next_contrib \in Ranks /\ c.next_contrib \in Nat
               /\ c.next_contrib < NumRanks
               /\ c.processed_elements_root \in Nat /\ c.processed_elements_root < n
               /\ c.packet_element_id_rcv \in Nat
               /\ c.packet_element_id_rcv < ElementsPerPacket
               /\ c.packet_element_id_rcv <= c.processed_elements_root
               /\ c.returned \in Nat /\ c.entered \in {c.returned, c.returned + 1}
               /\ c.returned = c.next_contrib * n + c.processed_elements_root
               /\ c.requested => G!Asks(c, r) /\ c.entered = c.returned + 1
<1> DEFINE c == gchan[r]
           k == c.coll
<1>1. /\ c \in GChannel /\ GChanInv(r, c)
  BY GTypes DEF GTypeInv
<1>2. k \in Int /\ k >= 1 /\ k <= G!NumCollectives /\ GatherRoots[k] = r
  BY <1>1, GChannelFields DEF G!IsRoot
<1>3. k \in 1 .. G!NumCollectives /\ GRooted(r, k)
  BY <1>2, GNumbers DEF GRooted
<1>4. GatherCounts[k] \in Nat \ {0}
  BY <1>3, GNumbers
<1>5. GRootInv(r, c) /\ c.entered \in {c.returned, c.returned + 1}
  BY <1>1 DEF GChanInv, GCallInv
<1>6. /\ c.next_contrib < NumRanks /\ c.processed_elements_root < GatherCounts[k]
      /\ c.returned = c.next_contrib * GatherCounts[k] + c.processed_elements_root
      /\ c.packet_element_id_rcv <= c.processed_elements_root
      /\ c.requested => G!Asks(c, r) /\ c.entered = c.returned + 1
  BY <1>3, <1>5 DEF GRootInv
<1>7. /\ c.next_contrib \in Int /\ c.next_contrib >= 0
      /\ c.processed_elements_root \in Int /\ c.processed_elements_root >= 0
      /\ c.packet_element_id_rcv \in Int /\ c.packet_element_id_rcv >= 0
      /\ c.packet_element_id_rcv < ElementsPerPacket
      /\ c.returned \in Int /\ c.returned >= 0
  BY <1>1, GChannelFields
<1>8. c.next_contrib \in Ranks
  BY <1>6, <1>7, Numbers
<1>9. k + 1 \in 1 .. G!NumCollectives + 1 /\ G!NumCollectives \in Int
  BY <1>2, GNumbers
<1> QED  BY <1>1, <1>2, <1>3, <1>4, <1>5, <1>6, <1>7, <1>8, <1>9

LEMMA GSendRequestType ==
    ASSUME GTypeInv, NEW r \in Ranks, G!SendRequest(r)
    PROVE  LET c == gchan[r]
           IN  /\ GTypeInv' /\ G!IsRoot(r) /\ G!Asks(c, r) /\ ~ c.requested
               /\ c.next_contrib \in Ranks
               /\ gchan' = [gchan EXCEPT ![r] = [c EXCEPT !.requested = TRUE]]
               /\ gcontrol' = Put(gcontrol, r, c.next_contrib, c.coll)
               /\ UNCHANGED <<gsupport, gather, gdata>>
<1> DEFINE c  == gchan[r]
           c2 == [c EXCEPT !.requested = TRUE]
<1>1. /\ G!TypeOK /\ GChanInv(r, c) /\ c \in GChannel
  BY GTypes DEF GTypeInv
<1>2. /\ c.returned < c.entered /\ G!IsRoot(r) /\ G!Asks(c, r) /\ ~ c.requested
      /\ gcontrol' = Put(gcontrol, r, c.next_contrib, c.coll)
      /\ gchan' = [gchan EXCEPT ![r] = c2]
      /\ UNCHANGED <<gsupport, gather, gdata>>
  BY <1>1, GTypeOK, GWires DEF G!SendRequest, G!InCall
<1>3. /\ c.coll \in GRequest /\ c.next_contrib \in Ranks
      /\ c.entered = c.returned + 1
  BY <1>1, <1>2, GRootFields DEF GRequest
<1>4. gcontrol' \in Net(GRequest)
  BY <1>1, <1>2, <1>3, GTypeOK, PutAt
<1>5. /\ c2 \in GChannel
      /\ c2.coll = c.coll /\ c2.entered = c.entered /\ c2.returned = c.returned
      /\ c2.requested /\ c2.op = c.op /\ c2.next_contrib = c.next_contrib
      /\ c2.processed_elements_root = c.processed_elements_root /\ c2.net = c.net
      /\ c2.packet_element_id = c.packet_element_id
      /\ c2.packet_element_id_rcv = c.packet_element_id_rcv
  BY <1>1 DEF GChannel
<1> HIDE DEF c2
<1>6. GChanInv(r, c2)
  <2>1. GCallInv(r, c2)
    BY <1>1, <1>5 DEF GChanInv, GCallInv
  <2>2. GRooted(r, c.coll)
    BY <1>2, GRootFields
  <2>3. GRootInv(r, c2)
    BY <1>1, <1>2, <1>3, <1>5, <2>2 DEF GChanInv, GRootInv, G!Asks
  <2>4. GSendInv(r, c2)
    BY <1>1, <1>5 DEF GChanInv, GSendInv
  <2> QED  BY <2>1, <2>3, <2>4 DEF GChanInv
<1>7. GTypeInv'
  BY <1>1, <1>2, <1>4, <1>5, <1>6, GTypeOK, GChanStep
<1> QED  BY <1>2, <1>3, <1>7 DEF c2

(* The channel of a root after an element: within the part of a contributor, *)
(* at its end, and at the end of the gather *)
GCountsOn(c, net, c2) ==
    LET n == GatherCounts[c.coll]
        p == c.processed_elements_root
    IN  \/ /\ p + 1 < n
           /\ c2.coll = c.coll /\ c2.next_contrib = c.next_contrib
           /\ c2.processed_elements_root = p + 1
           /\ c2.packet_element_id_rcv = IF c.packet_element_id_rcv + 1 = ElementsPerPacket
                                         THEN 0 ELSE c.packet_element_id_rcv + 1
           /\ c2.net = net /\ ~ c2.requested
        \/ /\ p + 1 = n /\ c.next_contrib + 1 < NumRanks
           /\ c2.coll = c.coll /\ c2.next_contrib = c.next_contrib + 1
           /\ c2.processed_elements_root = 0 /\ c2.packet_element_id_rcv = 0
           /\ c2.net = net /\ ~ c2.requested
        \/ /\ p + 1 = n /\ c.next_contrib + 1 = NumRanks
           /\ c2.coll = c.coll + 1 /\ c2.next_contrib = 0
           /\ c2.processed_elements_root = 0 /\ c2.packet_element_id_rcv = 0
           /\ ~ c2.requested

LEMMA GCountsRight ==
    ASSUME GTypeInv, NEW r \in Ranks, G!IsRoot(r), gchan[r].entered = gchan[r].returned + 1,
           NEW net \in G!Packet
    PROVE  LET c  == gchan[r]
               c2 == G!Returned(r, G!Counted([c EXCEPT !.net = net]))
           IN  c2 \in GChannel /\ GChanInv(r, c2) /\ GCountsOn(c, net, c2)
<1> DEFINE c  == gchan[r]
           k  == c.coll
           n  == GatherCounts[k]
           p  == c.processed_elements_root
           q  == c.next_contrib
           e  == c.packet_element_id_rcv
           c0 == [c EXCEPT !.net = net]
           c1 == G!Counted(c0)
           c2 == G!Returned(r, c1)
           next == IF e + 1 = ElementsPerPacket THEN 0 ELSE e + 1
<1>1. /\ c \in GChannel /\ GRooted(r, k) /\ k \in 1 .. G!NumCollectives /\ k \in Int
      /\ k + 1 \in 1 .. G!NumCollectives + 1
      /\ n \in Int /\ n >= 1 /\ n \in Nat \ {0} /\ GatherRoots[k] = r
      /\ q \in Ranks /\ q \in Nat /\ q < NumRanks
      /\ p \in Nat /\ p < n
      /\ e \in Nat /\ e < ElementsPerPacket /\ e <= p
      /\ c.returned \in Nat /\ c.entered = c.returned + 1
      /\ c.returned = q * n + p /\ NumRanks \in Nat /\ ElementsPerPacket \in Nat
  BY GRootFields, Numbers
<1>2. c0 \in GChannel /\ c0.coll = k /\ c0.entered = c.entered /\ c0.returned = c.returned
      /\ c0.requested = c.requested /\ c0.op = c.op /\ c0.next_contrib = q
      /\ c0.processed_elements_root = p /\ c0.net = net
      /\ c0.packet_element_id = c.packet_element_id /\ c0.packet_element_id_rcv = e
  BY <1>1 DEF GChannel
<1>3. (e + 1) % ElementsPerPacket = next
  BY <1>1, Wraps
<1>4. /\ c1.coll = k /\ c1.entered = c.entered /\ c1.net = net
      /\ p + 1 = n => /\ c1.next_contrib = q + 1 /\ c1.processed_elements_root = 0
                      /\ c1.packet_element_id_rcv = 0
      /\ p + 1 # n => /\ c1.next_contrib = q /\ c1.processed_elements_root = p + 1
                      /\ c1.packet_element_id_rcv = next
  <2> HIDE DEF c0
  <2>1. CASE p + 1 = n
    BY <1>2, <2>1 DEF G!Counted, GChannel
  <2>2. CASE p + 1 # n
    BY <1>2, <1>3, <2>2 DEF G!Counted, GChannel
  <2> QED  BY <2>1, <2>2
<1>5. c1 \in GChannel
  <2> HIDE DEF c0
  <2>1. q + 1 \in 0 .. NumRanks /\ p + 1 \in Nat
    BY <1>1
  <2>6. next \in Int /\ 0 <= next /\ next < ElementsPerPacket
    <3>1. e \in Int /\ 0 <= e /\ e < ElementsPerPacket /\ ElementsPerPacket \in Int
      BY <1>1
    <3> QED  BY <3>1
  <2>4. 0 \in G!Slots /\ next \in G!Slots
    <3>1. \A i : i \in G!Slots <=> i \in Int /\ 0 <= i /\ i < ElementsPerPacket
      BY GNumbers, Numbers
    <3> QED  BY <2>6, <3>1, GNumbers
  <2>5. (e + 1) % ElementsPerPacket \in G!Slots
    BY <1>3, <2>4
  <2>2. CASE p + 1 = n
    BY <1>2, <2>1, <2>2, <2>4 DEF G!Counted, GChannel
  <2>3. CASE p + 1 # n
    BY <1>2, <2>1, <2>3, <2>5 DEF G!Counted, GChannel
  <2> QED  BY <2>2, <2>3
<1> HIDE DEF c1, c0
<1>6. G!Calls(k, r) = NumRanks * n
  BY <1>1, GCalls
<1>7. c.entered = G!Calls(k, r) <=> q + 1 = NumRanks /\ p + 1 = n
  <2>1. q * n + p + 1 = NumRanks * n <=> q + 1 = NumRanks /\ p + 1 = n
    BY <1>1, LastElement
  <2>2. q * n \in Int
    BY <1>1
  <2>3. c.entered = q * n + p + 1
    BY <1>1, <2>2
  <2> QED  BY <1>6, <2>1, <2>3
<1>10. q \in Int /\ q < NumRanks /\ NumRanks \in Int /\ p \in Int /\ p < n /\ n \in Int
  BY <1>1
<1>8. ASSUME c.entered = G!Calls(k, r)
      PROVE  c2 \in GChannel /\ GChanInv(r, c2) /\ GCountsOn(c, net, c2)
  <2>1. c2 = G!Opened(k + 1)
    BY <1>4, <1>8 DEF G!Returned
  <2>2. c2 \in GChannel /\ GChanInv(r, c2)
    BY <1>1, <2>1, GOpened
  <2>3. /\ c2.coll = k + 1 /\ c2.next_contrib = 0 /\ c2.processed_elements_root = 0
        /\ c2.packet_element_id_rcv = 0 /\ ~ c2.requested
    BY <2>1 DEF G!Opened
  <2>4. q + 1 = NumRanks /\ p + 1 = n
    BY <1>7, <1>8
  <2> HIDE DEF c2
  <2> QED  BY <2>2, <2>3, <2>4 DEF GCountsOn
<1>9. ASSUME c.entered # G!Calls(k, r)
      PROVE  c2 \in GChannel /\ GChanInv(r, c2) /\ GCountsOn(c, net, c2)
  <2>0. ~ (q + 1 = NumRanks /\ p + 1 = n)
    BY <1>7, <1>9
  <2>1. c2 = [c1 EXCEPT !.returned = c.entered, !.requested = FALSE]
    BY <1>4, <1>9 DEF G!Returned
  <2>2. /\ c2.coll = k /\ c2.entered = c.entered /\ c2.net = net /\ c2.returned = c.entered
        /\ ~ c2.requested /\ c2.next_contrib = c1.next_contrib
        /\ c2.processed_elements_root = c1.processed_elements_root
        /\ c2.packet_element_id_rcv = c1.packet_element_id_rcv
    BY <1>4, <1>5, <2>1 DEF GChannel
  <2>3. c2 \in GChannel
    BY <1>1, <1>5, <2>1 DEF GChannel
  <2> HIDE DEF c2
  <2>4. GCountsOn(c, net, c2)
    <3>1. CASE p + 1 = n
      <4>1. q + 1 < NumRanks
        BY <1>10, <2>0, <3>1
      <4> QED  BY <1>4, <2>2, <3>1, <4>1 DEF GCountsOn
    <3>2. CASE p + 1 # n
      <4>1. p + 1 < n
        BY <1>1, <3>2
      <4> QED  BY <1>4, <2>2, <3>2, <4>1 DEF GCountsOn
    <3> QED  BY <3>1, <3>2
  <2>5. GCallInv(r, c2)
    <3>1. q * n \in Int /\ NumRanks * n \in Int /\ q * n + n <= NumRanks * n
      <4>1. q + 1 <= NumRanks
        BY <1>1
      <4>2. (q + 1) * n <= NumRanks * n
        BY <1>1, <4>1
      <4> QED  BY <1>1, <4>2
    <3>2. c.entered <= NumRanks * n
      BY <1>1, <3>1
    <3>3. c.entered < G!Calls(k, r) /\ k <= G!NumCollectives
      <4>1. c.entered \in Int /\ NumRanks * n \in Int /\ c.entered # NumRanks * n
        BY <1>1, <1>6, <1>9, <3>1
      <4>2. c.entered < NumRanks * n
        BY <3>2, <4>1
      <4> QED  BY <1>1, <1>6, <4>2, GNumbers
    <3>4. ~ (k > G!NumCollectives)
      BY <1>1, <3>3, GNumbers
    <3> QED  BY <2>2, <3>3, <3>4 DEF GCallInv
  <2>6. GRootInv(r, c2)
    <3>1. CASE p + 1 = n
      <4>1. c2.next_contrib = q + 1 /\ c2.processed_elements_root = 0
            /\ c2.packet_element_id_rcv = 0
        BY <1>4, <2>2, <3>1
      <4>2. q + 1 < NumRanks
        BY <1>10, <2>0, <3>1
      <4>3. c.entered = (q + 1) * n + 0
        <5>1. (q + 1) * n = q * n + n /\ q * n \in Int
          BY <1>1
        <5> QED  BY <1>1, <3>1, <5>1
      <4> QED  BY <1>1, <2>2, <4>1, <4>2, <4>3 DEF GRootInv
    <3>2. CASE p + 1 # n
      <4>1. c2.next_contrib = q /\ c2.processed_elements_root = p + 1
            /\ c2.packet_element_id_rcv = next /\ next <= p + 1
        BY <1>1, <1>4, <2>2, <3>2
      <4>2. c.entered = q * n + (p + 1)
        <5>1. q * n \in Int
          BY <1>1
        <5> QED  BY <1>1, <5>1
      <4>3. p + 1 < n
        BY <1>1, <3>2
      <4> QED  BY <1>1, <2>2, <4>1, <4>2, <4>3 DEF GRootInv
    <3> QED  BY <3>1, <3>2
  <2>7. GSendInv(r, c2)
    BY <1>1, <2>2 DEF GSendInv
  <2> QED  BY <2>3, <2>4, <2>5, <2>6, <2>7 DEF GChanInv
<1> HIDE DEF c2
<1>11. c2 \in GChannel /\ GChanInv(r, c2) /\ GCountsOn(c, net, c2)
  BY <1>8, <1>9
<1> QED  BY <1>11 DEF c0, c1, c2

LEMMA GReceiveType ==
    ASSUME GTypeInv, NEW r \in Ranks, G!Receive(r)
    PROVE  LET c == gchan[r]
           IN  /\ GTypeInv' /\ G!IsRoot(r) /\ (G!Asks(c, r) => c.requested)
               /\ c.entered = c.returned + 1
               /\ UNCHANGED <<gsupport, gather, gcontrol>>
               /\ gchan \in [Ranks -> GChannel]
               /\ \E net \in G!Packet, c2 \in GChannel :
                      /\ gchan' = [gchan EXCEPT ![r] = c2] /\ GCountsOn(c, net, c2)
                      /\ IF c.next_contrib # r /\ c.packet_element_id_rcv = 0
                         THEN \E src \in Waiting(gdata, r) :
                                  gdata' = Take(gdata, src, r) /\ net = Head(gdata[src][r])
                         ELSE gdata' = gdata /\ net = c.net
<1> DEFINE c == gchan[r]
           with(net) == G!Returned(r, G!Counted([c EXCEPT !.net = net]))
           reads == c.next_contrib # r /\ c.packet_element_id_rcv = 0
<1>1. /\ G!TypeOK /\ c \in GChannel /\ gchan \in [Ranks -> GChannel]
      /\ gdata \in Net(G!Packet) /\ gsupport \in [Ranks -> GSupport]
      /\ gather \in [Ranks -> Seq(GMessage)] /\ gcontrol \in Net(GRequest)
  BY GTypes, GTypeOK DEF GTypeInv
<1>2. /\ c.returned < c.entered /\ G!IsRoot(r) /\ (G!Asks(c, r) => c.requested)
      /\ UNCHANGED <<gsupport, gather, gcontrol>>
      /\ IF reads
         THEN \E src \in Waiting(gdata, r) :
                  /\ gdata' = Take(gdata, src, r)
                  /\ gchan' = [gchan EXCEPT ![r] = with(Head(gdata[src][r]))]
         ELSE gchan' = [gchan EXCEPT ![r] = G!Returned(r, G!Counted(c))] /\ gdata' = gdata
  BY GWires DEF G!Receive, G!InCall
<1>3. c.entered = c.returned + 1 /\ c.net \in G!Packet
  BY <1>1, <1>2, GRootFields, GChannelFields
<1>4. \E net \in G!Packet :
          /\ gchan' = [gchan EXCEPT ![r] = with(net)] /\ gdata' \in Net(G!Packet)
          /\ IF reads
             THEN \E src \in Waiting(gdata, r) :
                      gdata' = Take(gdata, src, r) /\ net = Head(gdata[src][r])
             ELSE gdata' = gdata /\ net = c.net
  <2>1. CASE reads
    <3>1. PICK src \in Waiting(gdata, r) :
              /\ gdata' = Take(gdata, src, r)
              /\ gchan' = [gchan EXCEPT ![r] = with(Head(gdata[src][r]))]
      BY <1>2, <2>1
    <3>2. gdata' \in Net(G!Packet) /\ Head(gdata[src][r]) \in G!Packet
      BY <1>1, <3>1, TakeAt
    <3> QED  BY <2>1, <3>1, <3>2
  <2>2. CASE ~ reads
    <3>1. c = [c EXCEPT !.net = c.net]
      BY <1>1 DEF GChannel
    <3> QED  BY <1>1, <1>2, <1>3, <2>2, <3>1
  <2> QED  BY <2>1, <2>2
<1>5. PICK net \in G!Packet :
          /\ gchan' = [gchan EXCEPT ![r] = with(net)] /\ gdata' \in Net(G!Packet)
          /\ IF reads
             THEN \E src \in Waiting(gdata, r) :
                      gdata' = Take(gdata, src, r) /\ net = Head(gdata[src][r])
             ELSE gdata' = gdata /\ net = c.net
  BY <1>4
<1>6. with(net) \in GChannel /\ GChanInv(r, with(net)) /\ GCountsOn(c, net, with(net))
  BY <1>2, <1>3, GCountsRight
<1> HIDE DEF with
<1>7. GTypeInv'
  BY <1>1, <1>2, <1>5, <1>6, GChanStep
<1> QED  BY <1>1, <1>2, <1>3, <1>5, <1>6, <1>7

(* The channel of a contributor *)
LEMMA GSenderFields ==
    ASSUME GTypeInv, NEW r \in Ranks, G!InCall(r), ~ G!IsRoot(r)
    PROVE  LET c == gchan[r]
               k == c.coll
           IN  /\ c \in GChannel /\ ~ GRooted(r, k)
               /\ k \in 1 .. G!NumCollectives /\ k \in Int /\ k + 1 \in 1 .. G!NumCollectives + 1
               /\ GatherCounts[k] \in Int /\ GatherCounts[k] >= 1 /\ GatherRoots[k] # r
               /\ GatherRoots[k] \in Ranks
               /\ c.returned \in Nat /\ c.entered = c.returned + 1
               /\ c.entered <= GatherCounts[k] /\ c.entered >= 1
               /\ c.packet_element_id \in Nat /\ c.packet_element_id < ElementsPerPacket
               /\ c.packet_element_id <= c.returned
               /\ c.op \in {"SYNCH", "GATHER"} /\ c.net \in G!Packet
               /\ (c.op = "SYNCH" <=> c.packet_element_id = c.returned)
               /\ \A e \in 0 .. c.packet_element_id - 1 :
                      c.net[e] = <<k, r, c.returned - c.packet_element_id + 1 + e>>
<1> DEFINE c == gchan[r]
           k == c.coll
<1>1. /\ c \in GChannel /\ GChanInv(r, c)
  BY GTypes DEF GTypeInv
<1>2. c.returned < c.entered
  BY DEF G!InCall
<1>3. /\ c.returned \in Int /\ c.returned >= 0 /\ k \in Int /\ k >= 1
      /\ c.entered \in {c.returned, c.returned + 1}
      /\ k > G!NumCollectives => c.entered = 0
      /\ k <= G!NumCollectives => c.returned < G!Calls(k, r)
  BY <1>1, GChannelFields DEF GChanInv, GCallInv
<1>4. k \in 1 .. G!NumCollectives /\ k <= G!NumCollectives /\ c.entered = c.returned + 1
      /\ k + 1 \in 1 .. G!NumCollectives + 1
  BY <1>2, <1>3, GNumbers
<1>5. GatherRoots[k] # r /\ ~ GRooted(r, k)
  BY <1>4 DEF G!IsRoot, GRooted
<1>6. G!Calls(k, r) = GatherCounts[k] /\ GatherCounts[k] \in Int /\ GatherCounts[k] >= 1
      /\ GatherRoots[k] \in Ranks
  BY <1>4, <1>5, GCalls, GNumbers
<1>7. c.entered <= GatherCounts[k] /\ c.entered >= 1
  BY <1>3, <1>4, <1>6
<1>8. GSendInv(r, c)
  BY <1>1 DEF GChanInv
<1>9. /\ c.packet_element_id <= c.returned
      /\ (c.op = "SYNCH" <=> c.packet_element_id = c.returned)
      /\ \A e \in 0 .. c.packet_element_id - 1 :
             c.net[e] = <<k, r, c.returned - c.packet_element_id + 1 + e>>
  BY <1>5, <1>8 DEF GSendInv
<1>10. /\ c.packet_element_id \in Nat /\ c.packet_element_id < ElementsPerPacket
       /\ c.op \in {"SYNCH", "GATHER"} /\ c.net \in G!Packet
  BY <1>1, GChannelFields
<1> QED  BY <1>1, <1>3, <1>4, <1>5, <1>6, <1>7, <1>9, <1>10

(* A contributor packs an element.  A packet that leaves is a packet of its  *)
(* line, and the next one begins where it ends.                              *)
LEMMA GSendType ==
    ASSUME GTypeInv, NEW r \in Ranks, G!Send(r)
    PROVE  LET c == gchan[r]
               k == c.coll
           IN  /\ GTypeInv' /\ G!InCall(r) /\ ~ G!IsRoot(r)
               /\ UNCHANGED <<gsupport, gdata, gcontrol>>
               /\ gchan \in [Ranks -> GChannel] /\ gather \in [Ranks -> Seq(GMessage)]
               /\ \E c2 \in GChannel, m \in GMessage :
                      /\ gchan' = [gchan EXCEPT ![r] = c2]
                      /\ c2.next_contrib = 0 /\ c2.processed_elements_root = 0
                      /\ \/ gather' = gather /\ GFill(r, c2) = GFill(r, c)
                         \/ /\ gather[r] = <<>> /\ gather' = [gather EXCEPT ![r] = <<m>>]
                            /\ m.net[0] = GFill(r, c) /\ GItem(r, m.net)
                            /\ m.dst = GatherRoots[k]
                            /\ (m.op = "SYNCH" <=> m.net[0][3] = 1)
                            /\ GFill(r, c2) = GNext(m.net[0])
<1> DEFINE c == gchan[r]
           k == c.coll
           e == c.packet_element_id
           n == GatherCounts[k]
           leaves == G!Leaves(c)
           packed == [c.net EXCEPT ![e] = <<k, r, c.entered>>]
           m  == [op |-> c.op, dst |-> GatherRoots[k], net |-> packed]
           c1 == [c EXCEPT !.net = packed,
                           !.packet_element_id = IF leaves THEN 0 ELSE @ + 1,
                           !.op = IF leaves THEN "GATHER" ELSE @]
           c2 == G!Returned(r, c1)
           first == c.returned - e + 1
<1>1. /\ G!TypeOK /\ gchan \in [Ranks -> GChannel] /\ gsupport \in [Ranks -> GSupport]
      /\ gather \in [Ranks -> Seq(GMessage)]
      /\ gdata \in Net(G!Packet) /\ gcontrol \in Net(GRequest)
  BY GTypeOK DEF GTypeInv
<1>2. /\ G!InCall(r) /\ ~ G!IsRoot(r) /\ (leaves => gather[r] = <<>>)
      /\ gather' = [gather EXCEPT ![r] = IF leaves THEN <<m>> ELSE @]
      /\ gchan' = [gchan EXCEPT ![r] = c2]
      /\ UNCHANGED <<gsupport, gdata, gcontrol>>
  BY DEF G!Send
<1>3. /\ c \in GChannel /\ ~ GRooted(r, k) /\ k \in 1 .. G!NumCollectives /\ k \in Int
      /\ k + 1 \in 1 .. G!NumCollectives + 1
      /\ n \in Int /\ n >= 1 /\ GatherRoots[k] # r /\ GatherRoots[k] \in Ranks
      /\ c.returned \in Nat /\ c.entered = c.returned + 1
      /\ c.entered <= n /\ c.entered >= 1
      /\ e \in Nat /\ e < ElementsPerPacket /\ e <= c.returned
      /\ c.op \in {"SYNCH", "GATHER"} /\ c.net \in G!Packet
      /\ (c.op = "SYNCH" <=> e = c.returned)
      /\ \A i \in 0 .. e - 1 : c.net[i] = <<k, r, first + i>>
  BY <1>2, GSenderFields
<1>4. ElementsPerPacket \in Int /\ ElementsPerPacket >= 1
      /\ \A i : i \in G!Slots <=> i \in Int /\ 0 <= i /\ i < ElementsPerPacket
  BY GNumbers, Numbers
<1>5. first \in Int /\ first >= 1 /\ first <= n /\ first \in 1 .. n
      /\ first + e = c.entered
  BY <1>3
<1>6. leaves <=> e + 1 = ElementsPerPacket \/ c.entered = n
  BY DEF G!Leaves
<1>7. /\ packed \in G!Packet
      /\ \A i \in G!Slots : packed[i] = IF i = e THEN <<k, r, c.entered>> ELSE c.net[i]
  <2>1. <<k, r, c.entered>> \in G!Elements
    <3>1. c.entered \in 1 .. n
      BY <1>3
    <3> QED  BY <1>3, <3>1, GElements
  <2>2. e \in G!Slots
    BY <1>3, <1>4
  <2> QED  BY <1>3, <2>1, <2>2 DEF G!Packet
<1> HIDE DEF packed
<1>8. \A i \in 0 .. e : packed[i] = <<k, r, first + i>>
  <2> TAKE i \in 0 .. e
  <2>1. i \in G!Slots
    BY <1>3, <1>4
  <2>2. i # e => i \in 0 .. e - 1
    BY <1>3
  <2> QED  BY <1>3, <1>5, <1>7, <2>1, <2>2
<1>9. /\ c1 \in GChannel /\ c1.coll = k /\ c1.entered = c.entered /\ c1.returned = c.returned
      /\ c1.requested = c.requested /\ c1.next_contrib = c.next_contrib
      /\ c1.processed_elements_root = c.processed_elements_root /\ c1.net = packed
      /\ c1.packet_element_id = (IF leaves THEN 0 ELSE e + 1)
      /\ c1.packet_element_id_rcv = c.packet_element_id_rcv
      /\ c1.op = (IF leaves THEN "GATHER" ELSE c.op)
  <2>1. (IF leaves THEN 0 ELSE e + 1) \in G!Slots
    <3>1. ~ leaves => e + 1 \in G!Slots
      BY <1>3, <1>4, <1>6
    <3> QED  BY <3>1, GNumbers
  <2> HIDE DEF leaves
  <2>2. (IF leaves THEN "GATHER" ELSE c.op) \in {"SYNCH", "GATHER"}
    BY <1>3
  <2>3. c1 = [c EXCEPT !.net = packed,
                       !.packet_element_id = IF leaves THEN 0 ELSE e + 1,
                       !.op = IF leaves THEN "GATHER" ELSE c.op]
    BY <1>3 DEF GChannel
  <2> QED  BY <1>3, <1>7, <2>1, <2>2, <2>3 DEF GChannel
<1> HIDE DEF c1
<1>10. G!Calls(k, r) = n
  BY <1>3, GCalls
<1>11. c.entered = n => leaves
  BY <1>6
<1>12. /\ c2 \in GChannel /\ GChanInv(r, c2)
       /\ c2.next_contrib = 0 /\ c2.processed_elements_root = 0
       /\ GFill(r, c2) = IF c.entered = n THEN <<k + 1, r, 1>>
                         ELSE IF leaves THEN <<k, r, c.entered + 1>> ELSE <<k, r, first>>
  <2>1. CASE c.entered = n
    <3>1. c2 = G!Opened(k + 1)
      BY <1>9, <1>10, <2>1 DEF G!Returned
    <3>2. c2 \in GChannel /\ GChanInv(r, c2)
      BY <1>3, <3>1, GOpened
    <3>3. /\ c2.coll = k + 1 /\ c2.returned = 0 /\ c2.packet_element_id = 0
          /\ c2.next_contrib = 0 /\ c2.processed_elements_root = 0
      BY <3>1 DEF G!Opened
    <3> HIDE DEF c2
    <3> QED  BY <2>1, <3>2, <3>3 DEF GFill
  <2>2. CASE c.entered # n
    <3>1. c2 = [c1 EXCEPT !.returned = c.entered, !.requested = FALSE]
      BY <1>9, <1>10, <2>2 DEF G!Returned
    <3>2. /\ c2 \in GChannel /\ c2.coll = k /\ c2.entered = c.entered
          /\ c2.returned = c.entered /\ ~ c2.requested
          /\ c2.next_contrib = c.next_contrib
          /\ c2.processed_elements_root = c.processed_elements_root
          /\ c2.packet_element_id_rcv = c.packet_element_id_rcv
          /\ c2.packet_element_id = (IF leaves THEN 0 ELSE e + 1)
          /\ c2.net = packed /\ c2.op = (IF leaves THEN "GATHER" ELSE c.op)
      BY <1>3, <1>9, <3>1 DEF GChannel
    <3> HIDE DEF c2, leaves
    <3>3. GRootInv(r, c)
      BY DEF GTypeInv, GChanInv
    <3>4. /\ c2.next_contrib = 0 /\ c2.processed_elements_root = 0
          /\ c2.packet_element_id_rcv = 0
      BY <1>3, <3>2, <3>3 DEF GRootInv
    <3>5. GRootInv(r, c2)
      BY <1>3, <3>2, <3>4 DEF GRootInv
    <3>6. GCallInv(r, c2)
      <4>1. c.entered < n /\ ~ (k > G!NumCollectives)
        BY <1>3, <2>2, GNumbers
      <4> QED  BY <1>10, <3>2, <4>1 DEF GCallInv
    <3>7. GSendInv(r, c2)
      <4>1. CASE leaves
        BY <1>3, <3>2, <4>1 DEF GSendInv
      <4>2. CASE ~ leaves
        <5>1. c2.packet_element_id = e + 1 /\ c2.op = c.op /\ c2.net = packed
              /\ c2.returned = c.returned + 1
          BY <1>3, <3>2, <4>2
        <5>2. c.returned + 1 - (e + 1) + 1 = first
          BY <1>3
        <5>3. e + 1 <= c.returned + 1 /\ (c.op = "SYNCH" <=> e + 1 = c.returned + 1)
          BY <1>3
        <5>4. /\ c2.coll = k /\ c2.net = packed
              /\ c2.returned - c2.packet_element_id + 1 = first
              /\ c2.packet_element_id - 1 = e
          BY <1>3, <3>2, <5>1, <5>2
        <5>5. \A i \in 0 .. c2.packet_element_id - 1 :
                  c2.net[i] = <<c2.coll, r, c2.returned - c2.packet_element_id + 1 + i>>
          <6> HIDE DEF first, e, k
          <6> QED  BY <1>8, <5>4
        <5>6. c2.packet_element_id <= c2.returned
              /\ (c2.op = "SYNCH" <=> c2.packet_element_id = c2.returned)
          BY <5>1, <5>3
        <5> QED  BY <5>5, <5>6 DEF GSendInv
      <4> QED  BY <4>1, <4>2
    <3>8. GFill(r, c2) = IF leaves THEN <<k, r, c.entered + 1>> ELSE <<k, r, first>>
      <4>1. c.entered - 0 + 1 = c.entered + 1 /\ c.entered - (e + 1) + 1 = first
        BY <1>3
      <4> QED  BY <3>2, <4>1 DEF GFill
    <3> QED  BY <2>2, <3>2, <3>4, <3>5, <3>6, <3>7, <3>8 DEF GChanInv
  <2> QED  BY <2>1, <2>2
<1> HIDE DEF c2
<1>13. m \in GMessage /\ m.op = c.op /\ m.dst = GatherRoots[k] /\ m.net = packed
  BY <1>3, <1>7 DEF GMessage
<1> HIDE DEF m
<1>14. gather' \in [Ranks -> Seq(GMessage)]
  BY <1>1, <1>2, <1>13
<1>15. GTypeInv'
  BY <1>1, <1>2, <1>12, <1>14, GChanStep
<1>16. GFill(r, c) = <<k, r, first>>
  BY DEF GFill
<1>17. CASE ~ leaves
  <2>1. gather' = gather
    BY <1>1, <1>2, <1>17
  <2>2. GFill(r, c2) = GFill(r, c)
    BY <1>11, <1>12, <1>16, <1>17
  <2> QED  BY <1>1, <1>2, <1>12, <1>13, <1>15, <2>1, <2>2
<1>18. CASE leaves
  <2>1. gather[r] = <<>> /\ gather' = [gather EXCEPT ![r] = <<m>>]
    BY <1>2, <1>18
  <2>2. packed[0] = <<k, r, first>>
    <3>1. 0 \in 0 .. e /\ first + 0 = first
      BY <1>3, <1>5
    <3> QED  BY <1>8, <3>1
  <2>3. GItem(r, packed)
    <3>1. \A i \in G!Slots : first + i <= n => i \in 0 .. e
      BY <1>3, <1>4, <1>5, <1>6, <1>18
    <3>2. GPacket(packed, r, k, first)
      BY <1>3, <1>5, <1>7, <1>8, <3>1 DEF GPacket
    <3> QED  BY <2>2, <3>2 DEF GItem
  <2>4. m.op = "SYNCH" <=> m.net[0][3] = 1
    BY <1>3, <1>13, <2>2
  <2>5. GFill(r, c2) = GNext(m.net[0])
    <3>1. CASE c.entered = n
      <4>1. ~ (first + ElementsPerPacket <= n)
        BY <1>3, <1>4, <1>5, <3>1
      <4> QED  BY <1>12, <1>13, <2>2, <3>1, <4>1 DEF GNext
    <3>2. CASE c.entered # n
      <4>1. first + ElementsPerPacket = c.entered + 1 /\ c.entered + 1 <= n
        BY <1>3, <1>4, <1>5, <1>6, <1>18, <3>2
      <4> QED  BY <1>12, <1>13, <1>18, <2>2, <3>2, <4>1 DEF GNext
    <3> QED  BY <3>1, <3>2
  <2> QED  BY <1>1, <1>2, <1>12, <1>13, <1>15, <1>16, <2>1, <2>2, <2>3, <2>4, <2>5, ZenonT(30)
<1> QED  BY <1>17, <1>18

-----------------------------------------------------------------------------
(* The kernels keep the types, whoever the roots are *)

LEMMA GInitType == G!Init => GTypeInv
<1> SUFFICES ASSUME G!Init PROVE GTypeInv
  OBVIOUS
<1>1. /\ gchan = [r \in Ranks |-> G!Opened(1)] /\ gsupport = [r \in Ranks |-> G!Idle]
      /\ gather = [r \in Ranks |-> <<>>] /\ gdata = Quiet /\ gcontrol = Quiet
  BY GWires DEF G!Init
<1>2. 1 \in 1 .. G!NumCollectives + 1 /\ 0 \in Ranks
  BY GNumbers, Numbers
<1>3. \A r \in Ranks : G!Opened(1) \in GChannel /\ GChanInv(r, G!Opened(1))
  BY <1>2, GOpened
<1>4. G!Idle \in GSupport
  BY <1>2, GElements DEF G!Idle, GSupport, GMessage
<1>5. <<>> \in Seq(GMessage)
  OBVIOUS
<1>6. G!TypeOK
  BY <1>1, <1>3, <1>4, <1>5, GTypeOK, QuietIsEmpty
<1> QED  BY <1>1, <1>3, <1>6 DEF GTypeInv

LEMMA GKernelTypes ==
    ASSUME GTypeInv, gchan' = gchan, gsupport' \in [Ranks -> GSupport],
           gather' \in [Ranks -> Seq(GMessage)],
           gdata' \in Net(G!Packet), gcontrol' \in Net(GRequest)
    PROVE  GTypeInv'
<1>1. G!TypeOK'
  BY GTypeOK, GTypeOKNext DEF GTypeInv
<1> QED  BY <1>1 DEF GTypeInv

LEMMA GReadApplicationType ==
    ASSUME GTypeInv, NEW r \in Ranks, G!ReadApplication(r)
    PROVE  LET mess == gather[r][1]
           IN  /\ GTypeInv' /\ UNCHANGED <<gchan, gdata, gcontrol>>
               /\ ~ gsupport[r].waits /\ ~ gsupport[r].writes /\ gather[r] # <<>>
               /\ gather' = [gather EXCEPT ![r] = <<>>]
               /\ \A q \in Ranks \ {r} : gsupport'[q] = gsupport[q]
               /\ gsupport'[r].mess = mess /\ gsupport'[r].from = gsupport[r].from
               /\ gsupport'[r].waits = (mess.op = "SYNCH")
               /\ gsupport'[r].writes = (mess.op # "SYNCH")
<1> DEFINE mess == Head(gather[r])
           s2 == [gsupport[r] EXCEPT !.mess = mess, !.waits = (mess.op = "SYNCH"),
                                     !.writes = (mess.op # "SYNCH")]
<1>1. /\ gsupport \in [Ranks -> GSupport] /\ gather \in [Ranks -> Seq(GMessage)]
      /\ gdata \in Net(G!Packet) /\ gcontrol \in Net(GRequest)
  BY GTypeOK DEF GTypeInv
<1>2. /\ ~ gsupport[r].waits /\ ~ gsupport[r].writes /\ gather[r] # <<>>
      /\ gather' = [gather EXCEPT ![r] = <<>>]
      /\ gsupport' = [gsupport EXCEPT ![r] = s2]
      /\ UNCHANGED <<gchan, gdata, gcontrol>>
  BY <1>1 DEF G!ReadApplication, G!Marked
<1>3. gather[r] \in Seq(GMessage) /\ mess \in GMessage /\ mess = gather[r][1]
  BY <1>1, <1>2
<1>4. gsupport[r] \in GSupport
  BY <1>1
<1> HIDE DEF mess
<1>5. /\ s2 \in GSupport /\ s2.mess = mess /\ s2.from = gsupport[r].from
      /\ s2.waits = (mess.op = "SYNCH") /\ s2.writes = (mess.op # "SYNCH")
  BY <1>3, <1>4 DEF GSupport
<1> HIDE DEF s2
<1>6. gsupport' \in [Ranks -> GSupport] /\ gsupport'[r] = s2
      /\ \A q \in Ranks \ {r} : gsupport'[q] = gsupport[q]
  BY <1>1, <1>2, <1>5
<1>7. gather' \in [Ranks -> Seq(GMessage)]
  BY <1>1, <1>2
<1>8. GTypeInv'
  BY <1>1, <1>2, <1>6, <1>7, GKernelTypes
<1> QED  BY <1>2, <1>3, <1>5, <1>6, <1>8

LEMMA GTakeRequestType ==
    ASSUME GTypeInv, NEW r \in Ranks, G!TakeRequest(r)
    PROVE  /\ GTypeInv' /\ UNCHANGED <<gchan, gather, gdata>>
           /\ gsupport[r].waits /\ ~ gsupport'[r].waits /\ gsupport'[r].writes
           /\ gsupport'[r].mess = gsupport[r].mess
           /\ \A q \in Ranks \ {r} : gsupport'[q] = gsupport[q]
           /\ \E src \in Waiting(gcontrol, r) :
                  gsupport'[r].from = src /\ gcontrol' = Take(gcontrol, src, r)
<1>1. /\ gsupport \in [Ranks -> GSupport] /\ gather \in [Ranks -> Seq(GMessage)]
      /\ gdata \in Net(G!Packet) /\ gcontrol \in Net(GRequest)
      /\ gsupport[r] \in GSupport
  BY GTypeOK DEF GTypeInv
<1>2. PICK src \in Waiting(gcontrol, r) :
          /\ gcontrol' = Take(gcontrol, src, r)
          /\ gsupport' = [gsupport EXCEPT ![r].waits = FALSE, ![r].writes = TRUE,
                                          ![r].from = src]
  BY GWires DEF G!TakeRequest
<1>3. gsupport[r].waits /\ UNCHANGED <<gchan, gather, gdata>>
  BY DEF G!TakeRequest
<1>4. src \in Ranks /\ gcontrol' \in Net(GRequest)
  BY <1>1, <1>2, TakeAt
<1> DEFINE s2 == [gsupport[r] EXCEPT !.waits = FALSE, !.writes = TRUE, !.from = src]
<1>5. gsupport' = [gsupport EXCEPT ![r] = s2]
  BY <1>1, <1>2
<1>6. /\ s2 \in GSupport /\ s2.mess = gsupport[r].mess /\ s2.from = src
      /\ ~ s2.waits /\ s2.writes
  BY <1>1, <1>4 DEF GSupport
<1> HIDE DEF s2
<1>7. gsupport' \in [Ranks -> GSupport] /\ gsupport'[r] = s2
      /\ \A q \in Ranks \ {r} : gsupport'[q] = gsupport[q]
  BY <1>1, <1>5, <1>6
<1>8. GTypeInv'
  BY <1>1, <1>3, <1>4, <1>7, GKernelTypes
<1> QED  BY <1>2, <1>3, <1>6, <1>7, <1>8

LEMMA GForwardType ==
    ASSUME GTypeInv, NEW r \in Ranks, G!Forward(r)
    PROVE  LET mess == gsupport[r].mess
           IN  /\ GTypeInv' /\ UNCHANGED <<gchan, gather, gcontrol>>
               /\ gsupport[r].writes /\ ~ gsupport'[r].writes
               /\ gsupport'[r].waits = gsupport[r].waits
               /\ gsupport'[r].mess = mess /\ gsupport'[r].from = gsupport[r].from
               /\ \A q \in Ranks \ {r} : gsupport'[q] = gsupport[q]
               /\ mess.dst \in Ranks /\ mess.net \in G!Packet
               /\ gdata' = Put(gdata, r, mess.dst, mess.net)
<1> DEFINE mess == gsupport[r].mess
<1>1. /\ gsupport \in [Ranks -> GSupport] /\ gather \in [Ranks -> Seq(GMessage)]
      /\ gdata \in Net(G!Packet) /\ gcontrol \in Net(GRequest)
      /\ gsupport[r] \in GSupport
  BY GTypeOK DEF GTypeInv
<1>2. mess.dst \in Ranks /\ mess.net \in G!Packet
  BY <1>1, GSupportFields
<1>3. /\ gsupport[r].writes /\ gdata' = Put(gdata, r, mess.dst, mess.net)
      /\ gsupport' = [gsupport EXCEPT ![r].writes = FALSE]
      /\ UNCHANGED <<gchan, gather, gcontrol>>
  BY GWires DEF G!Forward
<1>4. gdata' \in Net(G!Packet)
  BY <1>1, <1>2, <1>3, PutAt
<1> DEFINE s2 == [gsupport[r] EXCEPT !.writes = FALSE]
<1>5. gsupport' = [gsupport EXCEPT ![r] = s2]
  BY <1>1, <1>3
<1>6. /\ s2 \in GSupport /\ s2.mess = mess /\ s2.from = gsupport[r].from
      /\ s2.waits = gsupport[r].waits /\ ~ s2.writes
  BY <1>1 DEF GSupport
<1> HIDE DEF s2
<1>7. gsupport' \in [Ranks -> GSupport] /\ gsupport'[r] = s2
      /\ \A q \in Ranks \ {r} : gsupport'[q] = gsupport[q]
  BY <1>1, <1>5, <1>6
<1>8. GTypeInv'
  BY <1>1, <1>3, <1>4, <1>7, GKernelTypes
<1> QED  BY <1>2, <1>3, <1>6, <1>7, <1>8

LEMMA GTypeNext ==
    ASSUME GTypeInv, NEW r \in Ranks, G!Application(r) \/ G!Support(r)
    PROVE  GTypeInv'
<1>1. CASE G!Call(r)
  BY <1>1, GCallType
<1>2. CASE G!SendRequest(r)
  BY <1>2, GSendRequestType
<1>3. CASE G!Receive(r)
  BY <1>3, GReceiveType
<1>4. CASE G!Send(r)
  BY <1>4, GSendType
<1>5. CASE G!ReadApplication(r)
  BY <1>5, GReadApplicationType
<1>6. CASE G!TakeRequest(r)
  BY <1>6, GTakeRequestType
<1>7. CASE G!Forward(r)
  BY <1>7, GForwardType
<1> QED  BY <1>1, <1>2, <1>3, <1>4, <1>5, <1>6, <1>7 DEF G!Application, G!Support

LEMMA GTypeStutter ==
    ASSUME GTypeInv, UNCHANGED gvars
    PROVE  GTypeInv'
<1>1. /\ gchan' = gchan /\ gsupport' = gsupport /\ gather' = gather
      /\ gdata' = gdata /\ gcontrol' = gcontrol
  BY DEF gvars
<1> QED  BY <1>1, GTypeOK, GKernelTypes DEF GTypeInv

-----------------------------------------------------------------------------
(* Places and packets *)

LEMMA GRootIs ==
    /\ GRoot \in Ranks /\ GRoot \notin Contributors
    /\ \A q \in Ranks : q # GRoot => q \in Contributors
    /\ \A q \in Contributors : q \in Ranks /\ q # GRoot /\ q \in Int
    /\ OneGatherRoot => \A k \in 1 .. G!NumCollectives : GatherRoots[k] = GRoot
<1>1. G!NumCollectives # 0 => 1 \in 1 .. G!NumCollectives
  BY GNumbers
<1>2. GRoot \in Ranks
  BY <1>1, GNumbers, Numbers DEF GRoot
<1>3. OneGatherRoot => \A k \in 1 .. G!NumCollectives : GatherRoots[k] = GRoot
  <2> SUFFICES ASSUME OneGatherRoot, NEW k \in 1 .. G!NumCollectives
               PROVE  GatherRoots[k] = GRoot
    OBVIOUS
  <2>1. G!NumCollectives # 0
    BY GNumbers
  <2> QED  BY <1>1, <2>1 DEF GRoot, OneGatherRoot
<1> QED  BY <1>2, <1>3, Numbers DEF Contributors

LEMMA GIsRoot ==
    ASSUME GTypeInv, OneGatherRoot, NEW r \in Ranks
    PROVE  /\ G!IsRoot(r) => r = GRoot
           /\ G!InCall(r) /\ ~ G!IsRoot(r) => r \in Contributors
<1>1. G!IsRoot(r) => r = GRoot
  BY GRootFields, GRootIs
<1>2. ASSUME G!InCall(r), ~ G!IsRoot(r) PROVE r \in Contributors
  BY <1>2, GSenderFields, GRootIs
<1> QED  BY <1>1, <1>2

LEMMA GItemPlace ==
    ASSUME NEW q, NEW net, GItem(q, net)
    PROVE  LET p == net[0]
               n == GatherCounts[p[1]]
               x == GNext(p)
           IN  /\ p = <<p[1], q, p[3]>> /\ p[2] = q
               /\ p[1] \in 1 .. G!NumCollectives /\ p[1] \in Int /\ p[1] >= 1
               /\ p[1] <= G!NumCollectives
               /\ p[3] \in Int /\ p[3] >= 1 /\ p[3] <= n /\ n \in Int
               /\ \/ x = <<p[1], q, p[3] + ElementsPerPacket>>
                     /\ p[3] + ElementsPerPacket <= n
                  \/ x = <<p[1] + 1, q, 1>> /\ p[3] + ElementsPerPacket > n
               /\ x[2] = q /\ x[3] \in Int /\ x[3] >= 1
               /\ x[1] = p[1] + 1 => x[3] = 1
               /\ x[1] \in {p[1], p[1] + 1}
               /\ x[3] # 1 => x[1] = p[1]
<1> DEFINE p == net[0]
           n == GatherCounts[p[1]]
           x == GNext(p)
<1>1. /\ p[1] \in 1 .. G!NumCollectives /\ p[3] \in 1 .. GatherCounts[p[1]]
      /\ \A e \in G!Slots : p[3] + e <= n => p = p /\ net[e] = <<p[1], q, p[3] + e>>
  BY DEF GItem, GPacket
<1>2. n \in Int /\ n >= 1
  BY <1>1, GNumbers
<1>3. p[3] \in Int /\ p[3] >= 1 /\ p[3] <= n
  BY <1>1, <1>2
<1>4. p = <<p[1], q, p[3]>>
  <2>1. p[3] + 0 = p[3]
    BY <1>3
  <2>2. net[0] = <<p[1], q, p[3] + 0>>
    BY <1>1, <1>3, <2>1, GNumbers
  <2> QED  BY <2>1, <2>2
<1>5. p[2] = q
  <2> DEFINE a == p[1]
             b == p[3]
  <2> HIDE DEF a, b
  <2>1. p = <<a, q, b>>
    BY <1>4 DEF a, b
  <2> QED  BY <2>1
<1>6. p[1] \in Int /\ p[1] >= 1 /\ p[1] <= G!NumCollectives
  BY <1>1, GNumbers
<1>7. \/ x = <<p[1], q, p[3] + ElementsPerPacket>> /\ p[3] + ElementsPerPacket <= n
      \/ x = <<p[1] + 1, q, 1>> /\ p[3] + ElementsPerPacket > n
  <2> HIDE DEF p
  <2>1. x = IF p[3] + ElementsPerPacket <= n
            THEN <<p[1], p[2], p[3] + ElementsPerPacket>> ELSE <<p[1] + 1, p[2], 1>>
    BY DEF GNext
  <2> QED  BY <1>3, <1>2, <1>5, <2>1, Numbers
<1>8. /\ x[2] = q /\ x[3] \in Int /\ x[3] >= 1
      /\ x[1] = p[1] + 1 => x[3] = 1
      /\ x[1] \in {p[1], p[1] + 1}
      /\ x[3] # 1 => x[1] = p[1]
  <2> HIDE DEF x, p
  <2> QED  BY <1>3, <1>6, <1>7, Numbers
<1> HIDE DEF x, n, p
<1>9. /\ p = <<p[1], q, p[3]>> /\ p[2] = q
      /\ p[1] \in 1 .. G!NumCollectives /\ p[1] \in Int /\ p[1] >= 1
      /\ p[1] <= G!NumCollectives
      /\ p[3] \in Int /\ p[3] >= 1 /\ p[3] <= n /\ n \in Int
      /\ \/ x = <<p[1], q, p[3] + ElementsPerPacket>>
            /\ p[3] + ElementsPerPacket <= n
         \/ x = <<p[1] + 1, q, 1>> /\ p[3] + ElementsPerPacket > n
      /\ x[2] = q /\ x[3] \in Int /\ x[3] >= 1
      /\ x[1] = p[1] + 1 => x[3] = 1
      /\ x[1] \in {p[1], p[1] + 1}
      /\ x[3] # 1 => x[1] = p[1]
  BY <1>1, <1>2, <1>3, <1>4, <1>5, <1>6, <1>7, <1>8
<1> QED  BY <1>9 DEF x, n, p

(* What the root reads of a rank before it comes to it, and after *)
LEMMA GReadElsewhere ==
    ASSUME NEW c, NEW q \in Int, c.next_contrib \in Int, c.next_contrib # q
    PROVE  /\ c.next_contrib > q => GRead(q, c) = <<c.coll + 1, q, 1>>
           /\ ~ (c.next_contrib > q) => GRead(q, c) = <<c.coll, q, 1>>
           /\ GRead(q, c)[3] = 1
<1>1. c.next_contrib > q => GRead(q, c) = <<c.coll + 1, q, 1>>
  BY DEF GRead
<1>2. ~ (c.next_contrib > q) => GRead(q, c) = <<c.coll, q, 1>>
  BY DEF GRead
<1> QED  BY <1>1, <1>2

LEMMA GReadOthers ==
    ASSUME NEW c \in GChannel, NEW c2 \in GChannel, NEW net, GCountsOn(c, net, c2),
           NEW q \in Ranks, q # c.next_contrib
    PROVE  /\ GRead(q, c2) = GRead(q, c)
           /\ GAsked(q, c2) => c2.next_contrib > q /\ c2.coll = c.coll
<1>1. /\ c.next_contrib \in Int /\ c.coll \in Int /\ c2.next_contrib \in Int
      /\ c.processed_elements_root \in Int /\ c.processed_elements_root >= 0
      /\ q \in Int /\ 0 <= q /\ q < NumRanks /\ NumRanks \in Int
  BY GChannelFields, Numbers
<1> DEFINE p == c.processed_elements_root
           n == GatherCounts[c.coll]
<1>2. ASSUME c2.coll = c.coll, c2.next_contrib = c.next_contrib
      PROVE  /\ GRead(q, c2) = GRead(q, c)
             /\ GAsked(q, c2) => c2.next_contrib > q
  BY <1>1, <1>2 DEF GRead, GAsked
<1>3. ASSUME c2.coll = c.coll, c2.next_contrib = c.next_contrib + 1,
             c2.processed_elements_root = 0, c2.packet_element_id_rcv = 0, ~ c2.requested
      PROVE  /\ GRead(q, c2) = GRead(q, c)
             /\ GAsked(q, c2) => c2.next_contrib > q
  <2>1. CASE c.next_contrib > q
    <3>1. c2.next_contrib > q
      BY <1>1, <1>3, <2>1
    <3> QED  BY <1>3, <2>1, <3>1 DEF GRead
  <2>2. CASE c.next_contrib < q
    <3>1. c2.next_contrib < q \/ c2.next_contrib = q
      BY <1>1, <1>3, <2>2
    <3>2. ~ (c2.next_contrib > q) /\ ~ (c.next_contrib > q)
      BY <1>1, <1>3, <2>2
    <3>3. c2.next_contrib = q => GRead(q, c2) = <<c2.coll, q, 0 + 1>>
      BY <1>1, <1>3, <3>2 DEF GRead
    <3>4. GRead(q, c2) = <<c.coll, q, 1>>
      BY <1>1, <1>3, <3>1, <3>2, <3>3 DEF GRead
    <3>5. ~ GAsked(q, c2)
      BY <1>1, <1>3, <3>2 DEF GAsked
    <3> QED  BY <1>1, <2>2, <3>2, <3>4, <3>5 DEF GRead
  <2> QED  BY <1>1, <2>1, <2>2
<1>4. ASSUME c.next_contrib + 1 = NumRanks, c2.coll = c.coll + 1, c2.next_contrib = 0,
             c2.processed_elements_root = 0, c2.packet_element_id_rcv = 0, ~ c2.requested
      PROVE  GRead(q, c2) = GRead(q, c) /\ ~ GAsked(q, c2)
  <2>1. c.next_contrib > q
    BY <1>1, <1>4
  <2>2. ~ (c2.next_contrib > q)
    BY <1>1, <1>4
  <2>3. q = 0 => GRead(q, c2) = <<c2.coll, q, 0 + 1>>
    BY <1>1, <1>4 DEF GRead
  <2>4. GRead(q, c2) = <<c.coll + 1, q, 1>>
    BY <1>1, <1>4, <2>2, <2>3 DEF GRead
  <2>5. ~ GAsked(q, c2)
    BY <1>1, <1>4, <2>2 DEF GAsked
  <2> QED  BY <2>1, <2>4, <2>5 DEF GRead
<1> QED  BY <1>2, <1>3, <1>4 DEF GCountsOn

(* What the root reads next of the contributor it is at *)
LEMMA GReadHere ==
    ASSUME NEW c \in GChannel, NEW c2 \in GChannel, NEW net, GCountsOn(c, net, c2),
           c.packet_element_id_rcv <= c.processed_elements_root,
           c.coll \in 1 .. G!NumCollectives
    PROVE  LET q == c.next_contrib
               p == c.processed_elements_root
               x == GRead(q, c)
               x2 == GRead(q, c2)
           IN  /\ c.packet_element_id_rcv # 0 => x2 = x
               /\ c.packet_element_id_rcv = 0 => x = <<c.coll, q, p + 1>> /\ x2 = GNext(x)
               /\ \/ /\ c2.coll = c.coll /\ c2.next_contrib = q /\ GAsked(q, c2)
                  \/ /\ x2 = <<c.coll + 1, q, 1>>
                     /\ GAsked(q, c2) => c2.coll = c.coll
<1> DEFINE q == c.next_contrib
           p == c.processed_elements_root
           k == c.coll
           e == c.packet_element_id_rcv
           n == GatherCounts[k]
           x == GRead(q, c)
           x2 == GRead(q, c2)
           first == p - e + 1
<1>1. /\ q \in Int /\ q >= 0 /\ k \in Int /\ p \in Int /\ p >= 0
      /\ e \in Int /\ e >= 0 /\ e < ElementsPerPacket /\ e <= p
      /\ ElementsPerPacket \in Int /\ ElementsPerPacket >= 1 /\ NumRanks \in Int
      /\ n \in Int /\ n >= 1
  BY GChannelFields, Numbers, GNumbers
<1>2. x = IF e = 0 THEN <<k, q, p + 1>> ELSE GNext(<<k, q, first>>)
  BY <1>1 DEF GRead
<1>3. GNext(<<k, q, first>>) = IF first + ElementsPerPacket <= n
                               THEN <<k, q, first + ElementsPerPacket>> ELSE <<k + 1, q, 1>>
  BY DEF GNext
<1>4. e = 0 => first = p + 1
  BY <1>1
<1>5. ASSUME p + 1 < n, c2.coll = k, c2.next_contrib = q, c2.processed_elements_root = p + 1,
             c2.packet_element_id_rcv = IF e + 1 = ElementsPerPacket THEN 0 ELSE e + 1
      PROVE  x2 = GNext(<<k, q, first>>) /\ GAsked(q, c2)
  <2>1. CASE e + 1 = ElementsPerPacket
    <3>1. x2 = <<k, q, p + 1 + 1>>
      BY <1>1, <1>5, <2>1 DEF GRead
    <3>2. first + ElementsPerPacket = p + 1 + 1 /\ first + ElementsPerPacket <= n
      BY <1>1, <1>5, <2>1
    <3>3. GAsked(q, c2)
      BY <1>1, <1>5 DEF GAsked
    <3> QED  BY <1>3, <3>1, <3>2, <3>3
  <2>2. CASE e + 1 # ElementsPerPacket
    <3>1. p + 1 - (e + 1) + 1 = first /\ e + 1 # 0 /\ ~ (q > q) /\ ~ (q < q)
      BY <1>1
    <3>2. x2 = GNext(<<k, q, first>>)
      <4>1. c2.packet_element_id_rcv = e + 1
        BY <1>5, <2>2
      <4>2. c2.processed_elements_root - c2.packet_element_id_rcv + 1 = first
        <5>1. c2.processed_elements_root = p + 1
          BY <1>5
        <5> HIDE DEF p, e
        <5> QED  BY <1>1, <4>1, <5>1
      <4>3. x2 = GNext(<<c2.coll, q, c2.processed_elements_root
                                      - c2.packet_element_id_rcv + 1>>)
        <5>1. ~ (c2.next_contrib > q) /\ ~ (c2.next_contrib < q)
              /\ c2.packet_element_id_rcv # 0
          BY <1>5, <3>1, <4>1
        <5> QED  BY <5>1 DEF GRead
      <4> QED  BY <1>5, <4>2, <4>3
    <3>3. GAsked(q, c2)
      BY <1>1, <1>5 DEF GAsked
    <3> QED  BY <3>2, <3>3
  <2> QED  BY <2>1, <2>2
<1>6. ASSUME p + 1 = n
      PROVE  GNext(<<k, q, first>>) = <<k + 1, q, 1>>
  <2>1. ~ (first + ElementsPerPacket <= n)
    BY <1>1, <1>6
  <2> QED  BY <1>3, <2>1
<1>7. ASSUME c2.coll = k, c2.next_contrib = q + 1
      PROVE  x2 = <<k + 1, q, 1>>
  BY <1>1, <1>7 DEF GRead
<1>8. ASSUME q + 1 = NumRanks, c2.coll = k + 1, c2.next_contrib = 0,
             c2.processed_elements_root = 0, c2.packet_element_id_rcv = 0, ~ c2.requested
      PROVE  x2 = <<k + 1, q, 1>> /\ ~ GAsked(q, c2)
  <2>1. ~ (0 > q) /\ ~ (0 > 0)
    BY <1>1
  <2>2. q = 0 => x2 = <<k + 1, q, 0 + 1>>
    BY <1>8, <2>1 DEF GRead
  <2>3. q # 0 => x2 = <<k + 1, q, 1>>
    BY <1>1, <1>8, <2>1 DEF GRead
  <2>4. ~ GAsked(q, c2)
    BY <1>8, <2>1 DEF GAsked
  <2> QED  BY <2>2, <2>3, <2>4
<1> HIDE DEF x, x2, first
<1>9. \/ /\ p + 1 < n /\ c2.coll = k /\ c2.next_contrib = q
         /\ c2.processed_elements_root = p + 1
         /\ c2.packet_element_id_rcv = IF e + 1 = ElementsPerPacket THEN 0 ELSE e + 1
      \/ p + 1 = n /\ c2.coll = k /\ c2.next_contrib = q + 1
      \/ /\ p + 1 = n /\ q + 1 = NumRanks /\ c2.coll = k + 1 /\ c2.next_contrib = 0
         /\ c2.processed_elements_root = 0 /\ c2.packet_element_id_rcv = 0 /\ ~ c2.requested
  BY DEF GCountsOn
<1>10. x2 = GNext(<<k, q, first>>)
  BY <1>5, <1>6, <1>7, <1>8, <1>9
<1>11. \/ c2.coll = k /\ c2.next_contrib = q /\ GAsked(q, c2)
       \/ x2 = <<k + 1, q, 1>> /\ (GAsked(q, c2) => c2.coll = k)
  BY <1>5, <1>6, <1>7, <1>8, <1>9, <1>10
<1>12. e # 0 => x2 = x
  BY <1>2, <1>10
<1>13. e = 0 => x = <<k, q, p + 1>> /\ x2 = GNext(x)
  BY <1>2, <1>4, <1>10
<1> QED  BY <1>11, <1>12, <1>13 DEF x, x2

(* A packet is taken from the head of a line, or put at its end. *)
LEMMA GQueueTail ==
    ASSUME NEW queue \in Seq(G!Packet), NEW q, NEW x, queue # <<>>, GQueueInv(q, queue, x)
    PROVE  /\ GQueueInv(q, Tail(queue), GNext(x))
           /\ GExpects(Tail(queue), GNext(x)) = GExpects(queue, x)
           /\ \A j \in 1 .. Len(Tail(queue)) : j + 1 \in 1 .. Len(queue)
                                              /\ Tail(queue)[j] = queue[j + 1]
<1> DEFINE tail == Tail(queue)
<1>1. /\ Len(queue) \in Int /\ Len(queue) >= 1 /\ Len(tail) = Len(queue) - 1
      /\ \A j \in 1 .. Len(tail) : tail[j] = queue[j + 1] /\ j + 1 \in 1 .. Len(queue)
      /\ tail = <<>> <=> Len(queue) = 1
  <2>1. Len(queue) \in Int /\ Len(queue) >= 1
    BY EmptySeq
  <2>2. tail \in Seq(G!Packet) /\ Len(tail) = Len(queue) - 1
        /\ \A j \in 1 .. Len(tail) : tail[j] = queue[j + 1]
    BY <2>1
  <2>3. tail = <<>> <=> Len(tail) = 0
    BY <2>2, EmptySeq
  <2> HIDE DEF tail
  <2> QED  BY <2>1, <2>2, <2>3
<1>2. /\ queue[1][0] = x
      /\ \A j \in 1 .. Len(queue) : GItem(q, queue[j])
      /\ \A j \in 1 .. Len(queue) - 1 : queue[j + 1][0] = GNext(queue[j][0])
  BY DEF GQueueInv
<1> HIDE DEF tail
<1>3. ASSUME tail # <<>>
      PROVE  /\ tail[1][0] = GNext(x)
             /\ \A j \in 1 .. Len(tail) : GItem(q, tail[j])
             /\ \A j \in 1 .. Len(tail) - 1 : tail[j + 1][0] = GNext(tail[j][0])
             /\ tail[Len(tail)] = queue[Len(queue)]
  <2>1. Len(queue) >= 2
    BY <1>1, <1>3
  <2>2. tail[1][0] = GNext(x)
    <3>1. 1 \in 1 .. Len(tail) /\ 1 \in 1 .. Len(queue) - 1
      BY <1>1, <2>1
    <3>2. queue[1 + 1][0] = GNext(x)
      BY <1>2, <3>1
    <3>3. tail[1] = queue[1 + 1]
      BY <1>1, <3>1
    <3> QED  BY <3>2, <3>3
  <2>3. \A j \in 1 .. Len(tail) : GItem(q, tail[j])
    BY <1>1, <1>2
  <2>4. ASSUME NEW j \in 1 .. Len(tail) - 1 PROVE tail[j + 1][0] = GNext(tail[j][0])
    <3>1. j \in 1 .. Len(tail) /\ j + 1 \in 1 .. Len(tail) /\ j + 1 \in 1 .. Len(queue) - 1
      BY <1>1
    <3>2. tail[j] = queue[j + 1] /\ tail[j + 1] = queue[j + 1 + 1]
      BY <1>1, <3>1
    <3> QED  BY <1>2, <3>1, <3>2
  <2>5. tail[Len(tail)] = queue[Len(queue)]
    <3>1. Len(tail) \in 1 .. Len(tail) /\ Len(tail) + 1 = Len(queue)
      BY <1>1, <2>1
    <3> QED  BY <1>1, <3>1
  <2> QED  BY <2>2, <2>3, <2>4, <2>5
<1>4. GQueueInv(q, tail, GNext(x))
  BY <1>3 DEF GQueueInv
<1>5. GExpects(tail, GNext(x)) = GExpects(queue, x)
  <2>1. CASE tail = <<>>
    <3>1. queue[Len(queue)][0] = x
      BY <1>1, <1>2, <2>1
    <3> QED  BY <2>1, <3>1 DEF GExpects
  <2>2. CASE tail # <<>>
    BY <1>3, <2>2 DEF GExpects
  <2> QED  BY <2>1, <2>2
<1> QED  BY <1>1, <1>4, <1>5 DEF tail

LEMMA GQueueAppend ==
    ASSUME NEW queue \in Seq(G!Packet), NEW q, NEW x, GQueueInv(q, queue, x),
           NEW net \in G!Packet, GItem(q, net), net[0] = GExpects(queue, x)
    PROVE  /\ GQueueInv(q, Append(queue, net), x)
           /\ GExpects(Append(queue, net), x) = GNext(net[0])
           /\ \A j \in 1 .. Len(Append(queue, net)) :
                  \/ j \in 1 .. Len(queue) /\ Append(queue, net)[j] = queue[j]
                  \/ Append(queue, net)[j] = net
<1> DEFINE all == Append(queue, net)
           n   == Len(queue)
<1>1. /\ n \in Int /\ n >= 0 /\ Len(all) = n + 1 /\ all[n + 1] = net
      /\ \A j \in 1 .. n : all[j] = queue[j]
      /\ queue = <<>> <=> n = 0
  BY EmptySeq
<1>2. all # <<>>
  BY EmptySeq
<1>3. \A j \in 1 .. n + 1 : j \in 1 .. n \/ j = n + 1
  BY <1>1
<1> HIDE DEF all
<1>4. queue # <<>> =>
          /\ queue[1][0] = x
          /\ \A j \in 1 .. n : GItem(q, queue[j])
          /\ \A j \in 1 .. n - 1 : queue[j + 1][0] = GNext(queue[j][0])
  BY DEF GQueueInv
<1>5. net[0] = IF queue = <<>> THEN x ELSE GNext(queue[n][0])
  BY DEF GExpects
<1>6. all[1][0] = x
  <2>1. CASE queue = <<>>
    BY <1>1, <1>5, <2>1
  <2>2. CASE queue # <<>>
    <3>1. 1 \in 1 .. n
      BY <1>1, <2>2
    <3> QED  BY <1>1, <1>4, <2>2, <3>1
  <2> QED  BY <2>1, <2>2
<1>7. \A j \in 1 .. Len(all) : GItem(q, all[j])
  <2> TAKE j \in 1 .. Len(all)
  <2>1. CASE j \in 1 .. n
    <3>1. queue # <<>>
      BY <1>1, <2>1
    <3> QED  BY <1>1, <1>4, <2>1, <3>1
  <2>2. CASE j = n + 1
    BY <1>1, <2>2
  <2> QED  BY <1>1, <1>3, <2>1, <2>2
<1>8. \A j \in 1 .. Len(all) - 1 : all[j + 1][0] = GNext(all[j][0])
  <2> TAKE j \in 1 .. Len(all) - 1
  <2>1. j \in 1 .. n /\ queue # <<>>
    BY <1>1
  <2>2. CASE j = n
    BY <1>1, <1>5, <2>1, <2>2
  <2>3. CASE j # n
    <3>1. j \in 1 .. n - 1 /\ j + 1 \in 1 .. n
      BY <1>1, <2>1, <2>3
    <3> QED  BY <1>1, <1>4, <2>1, <3>1
  <2> QED  BY <2>2, <2>3
<1>9. GQueueInv(q, all, x)
  BY <1>6, <1>7, <1>8 DEF GQueueInv
<1>10. GExpects(all, x) = GNext(net[0])
  BY <1>1, <1>2 DEF GExpects
<1> QED  BY <1>1, <1>3, <1>9, <1>10 DEF all

-----------------------------------------------------------------------------
(* The steps, when all gathers have one root *)

LEMMA GRankFields ==
    ASSUME GInv, NEW q \in Contributors
    PROVE  /\ q \in Ranks /\ q # GRoot /\ q \in Int /\ GTypeInv /\ G!TypeOK
           /\ gchan[GRoot] \in GChannel /\ gsupport[q] \in GSupport
           /\ gdata[q][GRoot] \in Seq(G!Packet) /\ gcontrol[GRoot][q] \in Seq(GRequest)
           /\ GLineInv(q) /\ GWayInv(q)
BY GRootIs, GTypes DEF GInv, GTypeInv

(* The state at a contributor, where it stays as it is *)
LEMMA GLineStays ==
    ASSUME GInv, NEW q \in Contributors, gather'[q] = gather[q],
           gsupport'[q] = gsupport[q], GFill(q, gchan'[q]) = GFill(q, gchan[q])
    PROVE  GLineInv(q)' /\ GGated(q)' = GGated(q)
<1>1. GOffered(q)' = GOffered(q)
  BY DEF GOffered
<1>2. GGated(q)' = GGated(q)
  BY <1>1 DEF GGated
<1> QED  BY <1>1, <1>2 DEF GLineInv, GInv

(* Between a contributor and the root, where no packet or request moves and  *)
(* the root stays with the contributor *)
LEMMA GWayStays ==
    ASSUME GInv, NEW q \in Contributors, GGated(q)' = GGated(q),
           gsupport'[q] = gsupport[q], gdata'[q][GRoot] = gdata[q][GRoot],
           gcontrol'[GRoot][q] = gcontrol[GRoot][q],
           GRead(q, gchan'[GRoot]) = GRead(q, gchan[GRoot]),
           gchan'[GRoot].coll = gchan[GRoot].coll,
           gchan'[GRoot].next_contrib = gchan[GRoot].next_contrib,
           GAsked(q, gchan'[GRoot]) <=> GAsked(q, gchan[GRoot])
    PROVE  GWayInv(q)'
<1> DEFINE c  == gchan[GRoot]
           c2 == gchan'[GRoot]
           gate == GGated(q)
<1>1. GAskInv(q, c, gsupport[q], gdata[q][GRoot], gate)
      => GAskInv(q, c2, gsupport[q], gdata[q][GRoot], gate)
  BY DEF GAskInv
<1>2. GRequestInv(q, c, gate, gcontrol[GRoot][q])
      => GRequestInv(q, c2, gate, gcontrol[GRoot][q])
  BY DEF GRequestInv
<1>3. GWayInv(q)
  BY DEF GInv
<1> QED  BY <1>1, <1>2, <1>3 DEF GWayInv

LEMMA GSilenceStays ==
    ASSUME GInv, gather'[GRoot] = gather[GRoot], gsupport'[GRoot] = gsupport[GRoot],
           \A s, d \in Ranks : s = GRoot \/ d # GRoot => gdata'[s][d] = gdata[s][d],
           \A s, d \in Ranks : s # GRoot \/ d = GRoot => gcontrol'[s][d] = gcontrol[s][d]
    PROVE  GSilence'
BY DEF GInv, GSilence

(* Before the root has asked a contributor, and when it is through with it,  *)
(* nothing of the contributor is past its kernel's wait. *)
LEMMA GUnasked ==
    ASSUME GInv, NEW q \in Contributors,
           ~ (gchan[GRoot].next_contrib = q /\ GAsked(q, gchan[GRoot]))
    PROVE  LET c == gchan[GRoot]
           IN  /\ gdata[q][GRoot] = <<>> /\ ~ gsupport[q].writes
               /\ GGated(q) = GRead(q, c) /\ GGated(q)[3] = 1
               /\ c.next_contrib > q => GGated(q) = <<c.coll + 1, q, 1>>
               /\ gcontrol[GRoot][q] = <<>>
<1> DEFINE c == gchan[GRoot]
<1>1. /\ c \in GChannel /\ GWayInv(q) /\ q \in Int
  BY GRankFields
<1>2. /\ gdata[q][GRoot] = <<>> /\ ~ gsupport[q].writes /\ GGated(q)[3] = 1
  BY <1>1 DEF GWayInv, GAskInv
<1>3. GGated(q) = GRead(q, c)
  BY <1>1, <1>2 DEF GWayInv, GExpects, GSent
<1>4. c.next_contrib \in Int /\ c.coll \in Int
  BY <1>1, GChannelFields
<1>5. c.next_contrib > q => GGated(q) = <<c.coll + 1, q, 1>>
  BY <1>1, <1>3, <1>4, GReadElsewhere
<1>6. ~ (GAsked(q, c) /\ GGated(q) = <<c.coll, q, 1>>)
  <2>1. c.next_contrib = q => ~ GAsked(q, c)
    OBVIOUS
  <2>2. ~ (c.next_contrib > q) /\ c.next_contrib # q => ~ GAsked(q, c)
    BY DEF GAsked
  <2>3. <<c.coll + 1, q, 1>> # <<c.coll, q, 1>>
    BY <1>4
  <2> QED  BY <1>5, <2>1, <2>2, <2>3
<1>7. gcontrol[GRoot][q] = <<>>
  BY <1>1, <1>6 DEF GWayInv, GRequestInv
<1> QED  BY <1>2, <1>3, <1>5, <1>7

(* ... also after a step of the root to another contributor or gather. *)
LEMMA GUnaskedStays ==
    ASSUME GInv, NEW q \in Contributors, GGated(q)' = GGated(q),
           ~ (gchan[GRoot].next_contrib = q /\ GAsked(q, gchan[GRoot])),
           gsupport'[q] = gsupport[q], gdata'[q][GRoot] = gdata[q][GRoot],
           gcontrol'[GRoot][q] = gcontrol[GRoot][q],
           GRead(q, gchan'[GRoot]) = GRead(q, gchan[GRoot]),
           GAsked(q, gchan'[GRoot]) =>
               GGated(q) # <<gchan'[GRoot].coll, q, 1>>
    PROVE  GWayInv(q)'
<1> DEFINE c  == gchan[GRoot]
           c2 == gchan'[GRoot]
           gate == GGated(q)
<1>1. /\ gdata[q][GRoot] = <<>> /\ ~ gsupport[q].writes
      /\ gate = GRead(q, c) /\ gate[3] = 1 /\ gcontrol[GRoot][q] = <<>>
  BY GUnasked
<1>3. GAskInv(q, c2, gsupport[q], <<>>, gate)
  BY <1>1 DEF GAskInv
<1>4. GRequestInv(q, c2, gate, <<>>)
  BY DEF GRequestInv
<1>5. GQueueInv(q, <<>>, GRead(q, c2)) /\ GExpects(<<>>, GRead(q, c2)) = GSent(gsupport[q], gate)
  BY <1>1 DEF GQueueInv, GExpects, GSent
<1> QED  BY <1>1, <1>3, <1>4, <1>5 DEF GWayInv

LEMMA GCallStep ==
    ASSUME GInv, NEW r \in Ranks, G!Call(r)
    PROVE  GInv'
<1> DEFINE c  == gchan[r]
           c2 == gchan'[r]
<1>1. /\ GTypeInv /\ GTypeInv' /\ c \in GChannel
      /\ gchan' = [gchan EXCEPT ![r] = [c EXCEPT !.entered = @ + 1]]
      /\ UNCHANGED <<gsupport, gather, gdata, gcontrol>>
      /\ gchan \in [Ranks -> GChannel]
  BY GCallType, GTypes, GTypeOK DEF GInv, GTypeInv
<1>2. /\ c2.coll = c.coll /\ c2.returned = c.returned /\ c2.requested = c.requested
      /\ c2.op = c.op /\ c2.next_contrib = c.next_contrib /\ c2.net = c.net
      /\ c2.processed_elements_root = c.processed_elements_root
      /\ c2.packet_element_id = c.packet_element_id
      /\ c2.packet_element_id_rcv = c.packet_element_id_rcv
      /\ \A q \in Ranks \ {r} : gchan'[q] = gchan[q]
  BY <1>1 DEF GChannel
<1> HIDE DEF c, c2
<1>3. \A q : /\ GFill(q, c2) = GFill(q, c) /\ GRead(q, c2) = GRead(q, c)
             /\ GAsked(q, c2) <=> GAsked(q, c)
  BY <1>2 DEF GFill, GRead, GAsked
<1>4. GReadInv(c) => GReadInv(c2)
  BY <1>2 DEF GReadInv
<1> USE DEF c, c2
<1>5. /\ \A q \in Ranks : GFill(q, gchan'[q]) = GFill(q, gchan[q])
      /\ \A q : /\ GRead(q, gchan'[GRoot]) = GRead(q, gchan[GRoot])
                /\ GAsked(q, gchan'[GRoot]) <=> GAsked(q, gchan[GRoot])
      /\ gchan'[GRoot].coll = gchan[GRoot].coll
      /\ gchan'[GRoot].next_contrib = gchan[GRoot].next_contrib
      /\ GReadInv(gchan'[GRoot])
  <2>1. GReadInv(gchan[GRoot]) /\ GRoot \in Ranks
    BY GRootIs DEF GInv
  <2>2. CASE r = GRoot
    BY <1>2, <1>3, <1>4, <2>1, <2>2
  <2>3. CASE r # GRoot
    BY <1>2, <1>3, <2>1, <2>3
  <2> QED  BY <2>2, <2>3
<1>6. ASSUME NEW q \in Contributors PROVE GLineInv(q)' /\ GWayInv(q)'
  <2>1. GLineInv(q)' /\ GGated(q)' = GGated(q)
    BY <1>1, <1>5, GLineStays, GRootIs
  <2> QED  BY <1>1, <1>5, <2>1, GWayStays
<1>7. GSilence'
  BY <1>1, GSilenceStays
<1> QED  BY <1>1, <1>5, <1>6, <1>7 DEF GInv

LEMMA GSendRequestStep ==
    ASSUME GInv, OneGatherRoot, NEW r \in Ranks, G!SendRequest(r)
    PROVE  GInv'
<1> DEFINE c  == gchan[r]
           c2 == gchan'[r]
           to == c.next_contrib
<1>1. /\ GTypeInv /\ GTypeInv' /\ c \in GChannel /\ gchan \in [Ranks -> GChannel]
      /\ gcontrol \in Net(GRequest)
  BY GSendRequestType, GTypes, GTypeOK DEF GInv, GTypeInv
<1>2. /\ G!IsRoot(r) /\ G!Asks(c, r) /\ ~ c.requested /\ to \in Ranks
      /\ gchan' = [gchan EXCEPT ![r] = [c EXCEPT !.requested = TRUE]]
      /\ gcontrol' = Put(gcontrol, r, to, c.coll)
      /\ UNCHANGED <<gsupport, gather, gdata>>
  BY <1>1, GSendRequestType
<1>3. r = GRoot
  BY <1>1, <1>2, GIsRoot
<1>4. /\ c2.coll = c.coll /\ c2.returned = c.returned /\ c2.requested
      /\ c2.next_contrib = c.next_contrib /\ c2.net = c.net
      /\ c2.processed_elements_root = c.processed_elements_root
      /\ c2.packet_element_id = c.packet_element_id
      /\ c2.packet_element_id_rcv = c.packet_element_id_rcv
      /\ \A q \in Ranks \ {r} : gchan'[q] = gchan[q]
  BY <1>1, <1>2 DEF GChannel
<1>5. /\ to # r /\ c.processed_elements_root = 0 /\ c.packet_element_id_rcv = 0
      /\ c.coll \in GRequest /\ c.coll \in Int /\ to \in Contributors /\ to \in Int
  <2>1. to # r /\ c.processed_elements_root = 0
    BY <1>2 DEF G!Asks
  <2>2. /\ c.packet_element_id_rcv \in Nat
        /\ c.packet_element_id_rcv <= c.processed_elements_root
        /\ c.coll \in 1 .. G!NumCollectives /\ c.coll \in Int
    BY <1>1, <1>2, GRootFields
  <2> QED  BY <1>2, <1>3, <2>1, <2>2, GRootIs DEF GRequest
<1>6. /\ gcontrol'[r][to] = Append(gcontrol[r][to], c.coll)
      /\ \A a, b \in Ranks : a # r \/ b # to => gcontrol'[a][b] = gcontrol[a][b]
  <2> HIDE DEF c, to
  <2>1. /\ Put(gcontrol, r, to, c.coll)[r][to] = Append(gcontrol[r][to], c.coll)
        /\ \A a, b \in Ranks : a # r \/ b # to =>
               Put(gcontrol, r, to, c.coll)[a][b] = gcontrol[a][b]
    BY <1>1, <1>2, <1>5, PutAt, Z3T(30)
  <2> QED  BY <1>2, <2>1
<1> HIDE DEF c, c2, to
<1>7. \A q : GRead(q, c2) = GRead(q, c)
  BY <1>4 DEF GRead
<1>8. \A q : q # to => (GAsked(q, c2) <=> GAsked(q, c))
  BY <1>4 DEF GAsked, to
<1>9. ~ GAsked(to, c) /\ GAsked(to, c2)
  <2>1. ~ (to > to) /\ ~ (0 > 0)
    BY <1>5
  <2> QED  BY <1>2, <1>4, <1>5, <2>1 DEF GAsked, to
<1> USE DEF c, c2
<1>10. ASSUME NEW q \in Contributors PROVE GLineInv(q)' /\ GGated(q)' = GGated(q)
  BY <1>2, <1>3, <1>4, <1>10, GLineStays, GRootIs
<1>11. ASSUME NEW q \in Contributors PROVE GWayInv(q)'
  <2>1. CASE q # to
    <3>1. gcontrol'[GRoot][q] = gcontrol[GRoot][q] /\ q \in Ranks
      BY <1>3, <1>6, <2>1, GRootIs
    <3> QED  BY <1>2, <1>3, <1>4, <1>7, <1>8, <1>10, <2>1, <3>1, GWayStays, ZenonT(30)
  <2>2. CASE q = to
    <3> DEFINE gate == GGated(q)
    <3>1. ~ (c.next_contrib = q /\ GAsked(q, c))
      BY <1>9, <2>2
    <3>2. /\ gdata[q][r] = <<>> /\ ~ gsupport[q].writes
          /\ gate = GRead(q, c) /\ gate[3] = 1 /\ gcontrol[r][q] = <<>>
      BY <1>3, <3>1, GUnasked
    <3>3. gate = <<c.coll, q, 1>>
      <4>1. ~ (to > to) /\ ~ (to < to) /\ 0 + 1 = 1
        BY <1>5
      <4>2. GRead(to, c) = <<c.coll, to, 0 + 1>>
        BY <1>5, <4>1 DEF GRead, to
      <4> QED  BY <2>2, <3>2, <4>1, <4>2
    <3>4. gcontrol'[r][q] = <<c.coll>>
      BY <1>6, <2>2, <3>2
    <3>5. GRequestInv(q, c2, gate, gcontrol'[r][q])
      BY <1>4, <1>9, <2>2, <3>3, <3>4 DEF GRequestInv
    <3>6. GAskInv(q, c2, gsupport[q], gdata[q][r], gate)
      BY <3>2 DEF GAskInv
    <3>7. GWayInv(q)
      BY DEF GInv
    <3> QED  BY <1>2, <1>3, <1>7, <1>10, <3>5, <3>6, <3>7 DEF GWayInv
  <2> QED  BY <2>1, <2>2
<1>12. GSilence'
  BY <1>2, <1>3, <1>5, <1>6, GSilenceStays, GRootIs
<1>13. GReadInv(gchan'[GRoot])
  <2>1. GReadInv(c) => GReadInv(c2)
    <3> HIDE DEF c, c2
    <3> QED  BY <1>4 DEF GReadInv
  <2> QED  BY <1>3, <2>1 DEF GInv
<1> QED  BY <1>1, <1>10, <1>11, <1>12, <1>13 DEF GInv

(* The root takes a packet only of the contributor it is at. *)
LEMMA GReadsOf ==
    ASSUME GInv, NEW src \in Waiting(gdata, GRoot)
    PROVE  /\ src \in Contributors /\ gchan[GRoot].next_contrib = src
           /\ GAsked(src, gchan[GRoot])
<1>1. src \in Ranks /\ gdata[src][GRoot] # <<>>
  BY DEF Waiting
<1>2. src \in Contributors
  BY <1>1, GRootIs DEF GInv, GSilence
<1>3. GAskInv(src, gchan[GRoot], gsupport[src], gdata[src][GRoot], GGated(src))
  BY <1>2 DEF GInv, GWayInv
<1> QED  BY <1>1, <1>2, <1>3 DEF GAskInv

(* What the root has left of a packet, after its first element or a later one *)
LEMMA GReadKept ==
    ASSUME NEW c \in GChannel, NEW c2 \in GChannel, NEW net, GCountsOn(c, net, c2),
           c.next_contrib # GRoot /\ c.packet_element_id_rcv # 0 => GReadInv(c) /\ net = c.net,
           c.next_contrib # GRoot /\ c.packet_element_id_rcv = 0 =>
               /\ GItem(c.next_contrib, net)
               /\ net[0] = <<c.coll, c.next_contrib, c.processed_elements_root + 1>>
    PROVE  GReadInv(c2)
<1> DEFINE q == c.next_contrib
           k == c.coll
           n == GatherCounts[k]
           p == c.processed_elements_root
           e == c.packet_element_id_rcv
<1> SUFFICES ASSUME c2.next_contrib # GRoot, c2.packet_element_id_rcv # 0,
                    NEW i \in c2.packet_element_id_rcv .. ElementsPerPacket - 1,
                    c2.processed_elements_root + 1 + (i - c2.packet_element_id_rcv)
                        <= GatherCounts[c2.coll]
             PROVE  c2.net[i] = <<c2.coll, c2.next_contrib,
                        c2.processed_elements_root + 1 + (i - c2.packet_element_id_rcv)>>
  BY DEF GReadInv
<1>1. /\ c2.coll = k /\ c2.next_contrib = q /\ c2.processed_elements_root = p + 1
      /\ c2.packet_element_id_rcv = e + 1 /\ c2.net = net
  BY DEF GCountsOn
<1>2. /\ e \in Int /\ e >= 0 /\ p \in Int /\ p >= 0 /\ ElementsPerPacket \in Int
      /\ i \in Int /\ i >= e + 1 /\ i <= ElementsPerPacket - 1 /\ k \in Int
  BY <1>1, GChannelFields, Numbers
<1>3. p + 1 + 1 + (i - (e + 1)) = p + 1 + (i - e)
  BY <1>2
<1>4. p + 1 + (i - e) <= n
  BY <1>1, <1>3
<1>5. net[i] = <<k, q, p + 1 + (i - e)>>
  <2>1. CASE e # 0
    <3>1. i \in e .. ElementsPerPacket - 1
      BY <1>2
    <3>2. GReadInv(c) /\ net = c.net /\ q # GRoot
      BY <1>1, <2>1
    <3> HIDE DEF q, k, n, p, e
    <3>3. c.net[i] = <<k, q, p + 1 + (i - e)>>
      <4>1. \A x \in e .. ElementsPerPacket - 1 :
                p + 1 + (x - e) <= n => c.net[x] = <<k, q, p + 1 + (x - e)>>
        BY <2>1, <3>2 DEF GReadInv, q, k, n, p, e
      <4> QED  BY <1>4, <3>1, <4>1
    <3> QED  BY <3>2, <3>3
  <2>2. CASE e = 0
    <3>1. GItem(q, net) /\ net[0] = <<k, q, p + 1>>
      BY <1>1, <2>2
    <3>2. net[0][1] = k /\ net[0][3] = p + 1
      BY <3>1
    <3>3. \A x \in G!Slots : p + 1 + x <= n => net[x] = <<k, q, p + 1 + x>>
      BY <3>1, <3>2 DEF GItem, GPacket
    <3>4. i \in G!Slots /\ p + 1 + (i - e) = p + 1 + i
      BY <1>2, <2>2, GNumbers
    <3> HIDE DEF q, k, n, p, e
    <3> QED  BY <1>4, <3>3, <3>4
  <2> QED  BY <2>1, <2>2
<1> HIDE DEF q, k, n, p, e
<1> QED  BY <1>1, <1>3, <1>5

LEMMA GReceiveStep ==
    ASSUME GInv, OneGatherRoot, NEW r \in Ranks, G!Receive(r)
    PROVE  GInv'
<1> DEFINE c  == gchan[GRoot]
           at == c.next_contrib
           reads == at # GRoot /\ c.packet_element_id_rcv = 0
<1>1. GTypeInv /\ GTypeInv' /\ r = GRoot /\ G!IsRoot(r) /\ GRoot \in Ranks
  BY GReceiveType, GIsRoot DEF GInv
<1>2. /\ G!Asks(c, GRoot) => c.requested
      /\ c.entered = c.returned + 1 /\ UNCHANGED <<gsupport, gather, gcontrol>>
      /\ gchan \in [Ranks -> GChannel] /\ c \in GChannel
  BY <1>1, GReceiveType
<1>3. PICK net \in G!Packet, c2 \in GChannel :
          /\ gchan' = [gchan EXCEPT ![GRoot] = c2] /\ GCountsOn(c, net, c2)
          /\ IF reads
             THEN \E src \in Waiting(gdata, GRoot) :
                      gdata' = Take(gdata, src, GRoot) /\ net = Head(gdata[src][GRoot])
             ELSE gdata' = gdata /\ net = c.net
  BY <1>1, GReceiveType
<1>4. gchan'[GRoot] = c2 /\ \A q \in Contributors : gchan'[q] = gchan[q]
  BY <1>1, <1>2, <1>3, GRootIs
<1>5. /\ c.coll \in 1 .. G!NumCollectives /\ c.coll \in Int /\ at \in Ranks /\ at \in Int
      /\ c.packet_element_id_rcv <= c.processed_elements_root
      /\ c.processed_elements_root \in Int /\ c.processed_elements_root >= 0
      /\ c2.coll \in Int
  <2>1. /\ c.coll \in 1 .. G!NumCollectives /\ c.coll \in Int /\ at \in Ranks
        /\ c.packet_element_id_rcv <= c.processed_elements_root
        /\ c.processed_elements_root \in Nat
    BY <1>1, GRootFields
  <2> QED  BY <2>1, GChannelFields, Numbers
<1> HIDE DEF c, at
<1>6. ASSUME reads
      PROVE  /\ at \in Contributors /\ gdata[at][GRoot] # <<>>
             /\ gdata' = Take(gdata, at, GRoot) /\ net = gdata[at][GRoot][1]
             /\ gdata'[at][GRoot] = Tail(gdata[at][GRoot])
             /\ \A a, b \in Ranks : a # at \/ b # GRoot => gdata'[a][b] = gdata[a][b]
  <2>1. PICK src \in Waiting(gdata, GRoot) :
            gdata' = Take(gdata, src, GRoot) /\ net = Head(gdata[src][GRoot])
    BY <1>3, <1>6
  <2>2. src \in Contributors /\ at = src
    BY <2>1, GReadsOf DEF at, c
  <2>3. gdata \in Net(G!Packet)
    BY <1>1, GTypeOK DEF GTypeInv
  <2> QED  BY <1>1, <2>1, <2>2, <2>3, TakeAt
<1>7. ASSUME NEW q \in Contributors PROVE GLineInv(q)' /\ GGated(q)' = GGated(q)
  BY <1>2, <1>4, GLineStays
<1>8. ASSUME NEW q \in Contributors, q # at PROVE GWayInv(q)'
  <2>1. gdata'[q][GRoot] = gdata[q][GRoot] /\ q \in Ranks /\ q \in Int
    BY <1>1, <1>3, <1>6, <1>8, GRootIs
  <2>2. GRead(q, c2) = GRead(q, c) /\ (GAsked(q, c2) => c2.next_contrib > q /\ c2.coll = c.coll)
    BY <1>2, <1>3, <1>8, <2>1, GReadOthers DEF at
  <2>3. GAsked(q, c2) => GGated(q) # <<c2.coll, q, 1>>
    <3>1. SUFFICES ASSUME GAsked(q, c2) PROVE GGated(q) # <<c2.coll, q, 1>>
      OBVIOUS
    <3>2. GGated(q) = GRead(q, c2)
      BY <1>8, <2>2, GUnasked DEF at, c
    <3>3. c2.next_contrib \in Int /\ c2.next_contrib # q
      BY <2>1, <2>2, <3>1, GChannelFields
    <3>4. GRead(q, c2) = <<c2.coll + 1, q, 1>>
      BY <2>1, <2>2, <3>1, <3>3, GReadElsewhere
    <3> QED  BY <1>5, <3>2, <3>4
  <2> QED  BY <1>2, <1>4, <1>7, <1>8, <2>1, <2>2, <2>3, GUnaskedStays DEF at, c
<1>9. ASSUME NEW q \in Contributors, q = at PROVE GWayInv(q)'
  <2> DEFINE queue  == gdata[q][GRoot]
             queue2 == gdata'[q][GRoot]
             gate == GGated(q)
             x  == GRead(q, c)
             x2 == GRead(q, c2)
             s  == gsupport[q]
  <2>0. q # GRoot /\ q \in Ranks
    BY <1>9, GRootIs
  <2>1. GAsked(q, c)
    <3>1. c.processed_elements_root = 0 => c.requested
      BY <1>2, <1>9, <2>0 DEF G!Asks, at
    <3>2. c.processed_elements_root = 0 \/ c.processed_elements_root > 0
      BY <1>5
    <3> QED  BY <1>9, <3>1, <3>2 DEF GAsked, at
  <2>2. /\ queue \in Seq(G!Packet) /\ GQueueInv(q, queue, x)
        /\ GExpects(queue, x) = GSent(s, gate)
        /\ GAskInv(q, c, s, queue, gate)
        /\ GRequestInv(q, c, gate, gcontrol[GRoot][q])
    BY <1>9, GRankFields DEF GWayInv, c
  <2>3. /\ c.packet_element_id_rcv # 0 => x2 = x
        /\ c.packet_element_id_rcv = 0 => x2 = GNext(x)
        /\ \/ c2.coll = c.coll /\ c2.next_contrib = q /\ GAsked(q, c2)
           \/ x2 = <<c.coll + 1, q, 1>> /\ (GAsked(q, c2) => c2.coll = c.coll)
    BY <1>2, <1>3, <1>5, <1>9, GReadHere DEF at
  <2> HIDE DEF queue, queue2, x, x2, s, gate
  <2>4. /\ GQueueInv(q, queue2, x2) /\ GExpects(queue2, x2) = GExpects(queue, x)
        /\ \A j \in 1 .. Len(queue2) : queue2[j][0][1] = c.coll
        /\ queue2 # <<>> => queue # <<>>
        /\ queue2 \in Seq(G!Packet)
    <3>1. CASE c.packet_element_id_rcv # 0
      <4>1. queue2 = queue
        BY <1>3, <3>1 DEF queue, queue2
      <4> QED  BY <2>2, <2>3, <3>1, <4>1 DEF GAskInv
    <3>2. CASE c.packet_element_id_rcv = 0
      <4>1. queue2 = Tail(queue) /\ queue # <<>>
        BY <1>6, <1>9, <2>0, <3>2 DEF queue, queue2
      <4>2. \A j \in 1 .. Len(Tail(queue)) : j + 1 \in 1 .. Len(queue)
                                             /\ Tail(queue)[j] = queue[j + 1]
        BY <2>2, <4>1, GQueueTail
      <4>3. \A j \in 1 .. Len(queue2) : queue2[j][0][1] = c.coll
        BY <2>2, <4>1, <4>2 DEF GAskInv
      <4>4. GQueueInv(q, queue2, x2) /\ GExpects(queue2, x2) = GExpects(queue, x)
        BY <2>2, <2>3, <3>2, <4>1, GQueueTail
      <4>5. Tail(queue) \in Seq(G!Packet)
        BY <2>2, <4>1
      <4> QED  BY <4>1, <4>3, <4>4, <4>5
    <3> QED  BY <3>1, <3>2
  <2>5. GAskInv(q, c2, s, queue2, gate) /\ GRequestInv(q, c2, gate, gcontrol[GRoot][q])
    <3>1. CASE c2.coll = c.coll /\ c2.next_contrib = q /\ GAsked(q, c2)
      <4>1. GAskInv(q, c2, s, queue2, gate)
        BY <2>2, <2>4, <3>1 DEF GAskInv
      <4>2. GRequestInv(q, c2, gate, gcontrol[GRoot][q])
        BY <2>1, <2>2, <3>1 DEF GRequestInv
      <4> QED  BY <4>1, <4>2
    <3>2. CASE x2 = <<c.coll + 1, q, 1>> /\ (GAsked(q, c2) => c2.coll = c.coll)
      <4>1. c.coll + 1 # c.coll
        BY <1>5
      <4>2. queue2 = <<>>
        <5>1. ASSUME queue2 # <<>> PROVE FALSE
          <6>1. 1 \in 1 .. Len(queue2)
            BY <2>4, <5>1, EmptySeq
          <6>2. queue2[1][0][1] = c.coll
            BY <2>4, <6>1
          <6>3. queue2[1][0] = <<c.coll + 1, q, 1>>
            BY <2>4, <3>2, <5>1 DEF GQueueInv
          <6> QED  BY <4>1, <6>2, <6>3
        <5> QED  BY <5>1
      <4>3. GSent(s, gate) = <<c.coll + 1, q, 1>>
        BY <2>2, <2>4, <3>2, <4>2 DEF GExpects
      <4>4. ~ s.writes
        <5>1. s.writes => s.mess.net[0][1] = c.coll
          BY <2>2 DEF GAskInv
        <5> QED  BY <4>1, <4>3, <5>1 DEF GSent
      <4>5. gate = <<c.coll + 1, q, 1>> /\ gate[3] = 1
        BY <4>3, <4>4 DEF GSent
      <4>6. gate # <<c.coll, q, 1>> /\ (GAsked(q, c2) => gate # <<c2.coll, q, 1>>)
        BY <3>2, <4>1, <4>5
      <4>7. GAskInv(q, c2, s, queue2, gate)
        BY <4>2, <4>4, <4>5 DEF GAskInv
      <4>8. GRequestInv(q, c2, gate, gcontrol[GRoot][q])
        BY <2>2, <4>6 DEF GRequestInv
      <4> QED  BY <4>7, <4>8
    <3> QED  BY <2>3, <3>1, <3>2
  <2>6. gsupport'[q] = s /\ GGated(q)' = gate /\ gcontrol'[GRoot][q] = gcontrol[GRoot][q]
    BY <1>2, <1>7, <1>9 DEF s, gate
  <2>7. gdata'[q][GRoot] = queue2 /\ GRead(q, gchan'[GRoot]) = x2 /\ gchan'[GRoot] = c2
    BY <1>4 DEF queue2, x2
  <2>8. GExpects(queue2, x2) = GSent(s, gate)
    BY <2>2, <2>4
  <2> QED  BY <2>4, <2>5, <2>6, <2>7, <2>8 DEF GWayInv
<1>10. GSilence'
  <2>1. \A a, b \in Ranks : a = GRoot \/ b # GRoot => gdata'[a][b] = gdata[a][b]
    BY <1>3, <1>6, GRootIs
  <2> QED  BY <1>2, <2>1, GSilenceStays
<1>11. GReadInv(gchan'[GRoot])
  <2>1. GReadInv(c)
    BY DEF GInv, c
  <2>2. ASSUME reads
        PROVE  GItem(at, net) /\ net[0] = <<c.coll, at, c.processed_elements_root + 1>>
    <3>1. at \in Contributors /\ gdata[at][GRoot] # <<>> /\ net = gdata[at][GRoot][1]
      BY <1>6, <2>2
    <3>2. gdata[at][GRoot] \in Seq(G!Packet) /\ GQueueInv(at, gdata[at][GRoot], GRead(at, c))
      BY <3>1, GRankFields DEF GWayInv, c
    <3>3. 1 \in 1 .. Len(gdata[at][GRoot])
      BY <3>1, <3>2, EmptySeq
    <3>4. GItem(at, net) /\ net[0] = GRead(at, c)
      BY <3>1, <3>2, <3>3 DEF GQueueInv
    <3>5. GRead(at, c) = <<c.coll, at, c.processed_elements_root + 1>>
      BY <1>2, <1>3, <1>5, <2>2, GReadHere DEF at
    <3> QED  BY <3>4, <3>5
  <2>3. ~ reads => net = c.net
    BY <1>3
  <2>4. GCountsOn(c, net, c2) /\ c2 \in GChannel
    BY <1>3
  <2>5. GReadInv(c2)
    <3>1. c.next_contrib # GRoot /\ c.packet_element_id_rcv # 0 => GReadInv(c) /\ net = c.net
      BY <2>1, <2>3 DEF at
    <3>2. c.next_contrib # GRoot /\ c.packet_element_id_rcv = 0 =>
              /\ GItem(c.next_contrib, net)
              /\ net[0] = <<c.coll, c.next_contrib, c.processed_elements_root + 1>>
      BY <2>2 DEF at
    <3> QED  BY <1>2, <2>4, <3>1, <3>2, GReadKept
  <2> QED  BY <1>4, <2>5
<1>12. ASSUME NEW q \in Contributors PROVE GWayInv(q)'
  BY <1>8, <1>9
<1> QED  BY <1>1, <1>7, <1>10, <1>11, <1>12 DEF GInv

LEMMA GSendStep ==
    ASSUME GInv, OneGatherRoot, NEW r \in Ranks, G!Send(r)
    PROVE  GInv'
<1> DEFINE c == gchan[r]
<1>1. /\ GTypeInv /\ GTypeInv' /\ r \in Contributors
      /\ UNCHANGED <<gsupport, gdata, gcontrol>>
      /\ gchan \in [Ranks -> GChannel] /\ gather \in [Ranks -> Seq(GMessage)]
  BY GSendType, GIsRoot DEF GInv
<1>2. PICK c2 \in GChannel, m \in GMessage :
          /\ gchan' = [gchan EXCEPT ![r] = c2]
          /\ \/ gather' = gather /\ GFill(r, c2) = GFill(r, c)
             \/ /\ gather[r] = <<>> /\ gather' = [gather EXCEPT ![r] = <<m>>]
                /\ m.net[0] = GFill(r, c) /\ GItem(r, m.net)
                /\ m.dst = GatherRoots[c.coll]
                /\ (m.op = "SYNCH" <=> m.net[0][3] = 1)
                /\ GFill(r, c2) = GNext(m.net[0])
  BY <1>1, GSendType
<1>3. GatherRoots[c.coll] = GRoot
  <2>1. c.coll \in 1 .. G!NumCollectives
    BY <1>1, GSendType, GSenderFields
  <2> QED  BY <2>1, GRootIs
<1>4. /\ r # GRoot /\ GRoot \in Ranks /\ gchan'[GRoot] = gchan[GRoot]
      /\ gather'[GRoot] = gather[GRoot] /\ gchan'[r] = c2
      /\ \A q \in Contributors \ {r} : gchan'[q] = gchan[q] /\ gather'[q] = gather[q]
  BY <1>1, <1>2, GRootIs
<1>5. GSilence'
  BY <1>1, <1>4, GSilenceStays
<1>6. GLineInv(r)' /\ GGated(r)' = GGated(r)
  <2>1. CASE gather' = gather /\ GFill(r, c2) = GFill(r, c)
    BY <1>1, <1>4, <2>1, GLineStays
  <2>2. CASE /\ gather[r] = <<>> /\ gather' = [gather EXCEPT ![r] = <<m>>]
             /\ m.net[0] = GFill(r, c) /\ GItem(r, m.net)
             /\ m.dst = GatherRoots[c.coll]
             /\ (m.op = "SYNCH" <=> m.net[0][3] = 1)
             /\ GFill(r, c2) = GNext(m.net[0])
    <3>1. gather'[r] = <<m>> /\ <<m>> # <<>> /\ <<m>>[1] = m
      BY <1>1, <2>2, EmptySeq
    <3>2. GFifoInv(r, <<m>>, GFill(r, c2))
      BY <1>3, <2>2, <3>1 DEF GFifoInv, GMessInv
    <3>3. GOffered(r)' = GOffered(r)
      BY <2>2, <3>1 DEF GOffered, GOffer
    <3>4. GGated(r)' = GGated(r)
      BY <1>1, <3>3 DEF GGated
    <3>5. GKernelInv(r, gsupport[r], GOffered(r))
      BY <1>1 DEF GInv, GLineInv
    <3> QED  BY <1>1, <1>4, <3>1, <3>2, <3>3, <3>4, <3>5 DEF GLineInv
  <2> QED  BY <1>2, <2>1, <2>2
<1>7. ASSUME NEW q \in Contributors \ {r} PROVE GLineInv(q)' /\ GGated(q)' = GGated(q)
  BY <1>1, <1>4, GLineStays
<1>8. ASSUME NEW q \in Contributors PROVE GWayInv(q)'
  <2>1. GGated(q)' = GGated(q)
    BY <1>6, <1>7
  <2> QED  BY <1>1, <1>4, <2>1, GWayStays
<1>9. GReadInv(gchan'[GRoot])
  BY <1>4 DEF GInv
<1> QED  BY <1>1, <1>5, <1>6, <1>7, <1>8, <1>9 DEF GInv

LEMMA GReadApplicationStep ==
    ASSUME GInv, NEW r \in Ranks, G!ReadApplication(r)
    PROVE  GInv'
<1> DEFINE m  == gather[r][1]
           p  == m.net[0]
           s2 == gsupport'[r]
           c  == gchan[GRoot]
           fill == GFill(r, gchan[r])
<1>1. /\ GTypeInv /\ GTypeInv' /\ UNCHANGED <<gchan, gdata, gcontrol>>
      /\ ~ gsupport[r].waits /\ ~ gsupport[r].writes /\ gather[r] # <<>>
      /\ gather' = [gather EXCEPT ![r] = <<>>]
      /\ \A q \in Ranks \ {r} : gsupport'[q] = gsupport[q]
      /\ s2.mess = m /\ s2.from = gsupport[r].from
      /\ s2.waits = (m.op = "SYNCH") /\ s2.writes = (m.op # "SYNCH")
      /\ gather \in [Ranks -> Seq(GMessage)]
  BY GReadApplicationType, GTypeOK DEF GInv, GTypeInv
<1>2. r \in Contributors /\ r # GRoot /\ GRoot \in Ranks
  BY <1>1, GRootIs DEF GInv, GSilence
<1>3. /\ gather'[r] = <<>> /\ gather'[GRoot] = gather[GRoot]
      /\ gsupport'[GRoot] = gsupport[GRoot]
      /\ \A q \in Contributors \ {r} : gather'[q] = gather[q] /\ gsupport'[q] = gsupport[q]
  BY <1>1, <1>2, GRootIs
<1>4. GMessInv(r, m, fill)
  BY <1>1, <1>2 DEF GInv, GLineInv, GFifoInv
<1>5. GItem(r, m.net) /\ (m.op = "SYNCH" <=> p[3] = 1) /\ GNext(p) = fill
  BY <1>4 DEF GMessInv
<1>6. GOffered(r) = p /\ GGated(r) = p /\ GSent(gsupport[r], GGated(r)) = p
  BY <1>1 DEF GOffered, GOffer, GGated, GGate, GSent
<1>7. GOffered(r)' = fill
  BY <1>1, <1>3 DEF GOffered, GOffer
<1>8. GLineInv(r)'
  <2>1. GFifoInv(r, <<>>, fill)
    BY DEF GFifoInv
  <2>2. GKernelInv(r, s2, fill)
    BY <1>1, <1>4 DEF GKernelInv
  <2> QED  BY <1>1, <1>3, <1>7, <2>1, <2>2 DEF GLineInv
<1>9. GWayInv(r)'
  <2> DEFINE queue == gdata[r][GRoot]
             gate2 == IF s2.waits THEN p ELSE fill
  <2>1. GGated(r)' = gate2
    BY <1>1, <1>7 DEF GGated, GGate
  <2>2. GSent(s2, gate2) = p
    BY <1>1 DEF GSent
  <2>3. /\ GQueueInv(r, queue, GRead(r, c)) /\ GExpects(queue, GRead(r, c)) = p
        /\ GAskInv(r, c, gsupport[r], queue, p)
        /\ GRequestInv(r, c, p, gcontrol[GRoot][r])
    BY <1>2, <1>6 DEF GInv, GWayInv
  <2>4. GAskInv(r, c, s2, queue, gate2) /\ GRequestInv(r, c, gate2, gcontrol[GRoot][r])
    <3>1. CASE m.op = "SYNCH"
      <4>1. gate2 = p /\ ~ s2.writes /\ s2.from = gsupport[r].from
        BY <1>1, <3>1
      <4> HIDE DEF p, s2, c, queue, gate2
      <4> QED  BY <1>1, <2>3, <4>1 DEF GAskInv
    <3>2. CASE m.op # "SYNCH"
      <4>1. gate2 = fill /\ s2.writes /\ s2.mess = m /\ s2.from = gsupport[r].from
            /\ ~ gsupport[r].writes
        BY <1>1, <3>2
      <4>2. p[3] # 1
        BY <1>5, <3>2
      <4>3. /\ \A j \in 1 .. Len(queue) : queue[j][0][1] = c.coll
            /\ p[1] = c.coll /\ c.next_contrib = r /\ GAsked(r, c) /\ s2.from = GRoot
        BY <2>3, <4>1, <4>2 DEF GAskInv
      <4>4. /\ fill[3] # 1 => fill[1] = p[1]
            /\ fill # <<c.coll, r, 1>>
        <5>1. /\ fill[3] # 1 => fill[1] = p[1]
              /\ p[1] \in Int /\ p[3] \in Int /\ p[3] >= 1
              /\ \/ fill = <<p[1], r, p[3] + ElementsPerPacket>>
                 \/ fill = <<p[1] + 1, r, 1>>
          BY <1>5, GItemPlace
        <5> HIDE DEF p, fill, c
        <5>2. p[1] + 1 # p[1] /\ p[3] + ElementsPerPacket # 1
          BY <5>1, Numbers
        <5>3. fill # <<c.coll, r, 1>>
          BY <4>3, <5>1, <5>2
        <5> QED  BY <5>1, <5>3
      <4>5. p # <<c.coll, r, 1>>
        BY <4>2
      <4> HIDE DEF fill, s2, c, queue, gate2
      <4>6. GAskInv(r, c, s2, queue, gate2)
        <5>1. s2.mess.net[0][1] = c.coll
          BY <4>1, <4>3
        <5> QED  BY <4>1, <4>3, <4>4, <5>1 DEF GAskInv
      <4>7. GRequestInv(r, c, gate2, gcontrol[GRoot][r])
        BY <2>3, <4>1, <4>4, <4>5 DEF GRequestInv
      <4> QED  BY <4>6, <4>7
    <3> QED  BY <3>1, <3>2
  <2> HIDE DEF gate2
  <2> QED  BY <1>1, <2>1, <2>2, <2>3, <2>4 DEF GWayInv
<1>10. ASSUME NEW q \in Contributors \ {r} PROVE GLineInv(q)' /\ GWayInv(q)'
  <2>1. GLineInv(q)' /\ GGated(q)' = GGated(q)
    BY <1>1, <1>3, GLineStays
  <2> QED  BY <1>1, <1>3, <2>1, GWayStays
<1>11. GSilence'
  BY <1>1, <1>3, GSilenceStays
<1>12. GReadInv(gchan'[GRoot])
  BY <1>1 DEF GInv
<1> QED  BY <1>1, <1>8, <1>9, <1>10, <1>11, <1>12 DEF GInv

LEMMA GTakeRequestStep ==
    ASSUME GInv, NEW r \in Ranks, G!TakeRequest(r)
    PROVE  GInv'
<1> DEFINE s  == gsupport[r]
           s2 == gsupport'[r]
           p  == s.mess.net[0]
           c  == gchan[GRoot]
           offer == GOffered(r)
           queue == gdata[r][GRoot]
<1>1. /\ GTypeInv /\ GTypeInv' /\ UNCHANGED <<gchan, gather, gdata>>
      /\ s.waits /\ ~ s2.waits /\ s2.writes /\ s2.mess = s.mess
      /\ \A q \in Ranks \ {r} : gsupport'[q] = gsupport[q]
      /\ gcontrol \in Net(GRequest)
  BY GTakeRequestType, GTypeOK DEF GInv, GTypeInv
<1>2. PICK src \in Waiting(gcontrol, r) :
          s2.from = src /\ gcontrol' = Take(gcontrol, src, r)
  BY <1>1, GTakeRequestType
<1>3. /\ src \in Ranks /\ gcontrol[src][r] # <<>>
      /\ gcontrol'[src][r] = Tail(gcontrol[src][r])
      /\ \A a, b \in Ranks : a # src \/ b # r => gcontrol'[a][b] = gcontrol[a][b]
  BY <1>1, <1>2, TakeAt
<1>4. src = GRoot /\ r # GRoot /\ r \in Contributors /\ GRoot \in Ranks
  BY <1>3, GRootIs DEF GInv, GSilence
<1>5. /\ \A q \in Contributors \ {r} : gsupport'[q] = gsupport[q]
                                        /\ gcontrol'[GRoot][q] = gcontrol[GRoot][q]
      /\ gsupport'[GRoot] = gsupport[GRoot]
  BY <1>1, <1>3, <1>4, GRootIs
<1>6. GKernelInv(r, s, offer) /\ GFifoInv(r, gather[r], GFill(r, gchan[r]))
  BY <1>4 DEF GInv, GLineInv
<1>7. /\ ~ s.writes /\ GMessInv(r, s.mess, offer) /\ s.mess.op = "SYNCH"
      /\ GItem(r, s.mess.net) /\ p[3] = 1 /\ GNext(p) = offer
  BY <1>1, <1>6 DEF GKernelInv, GMessInv
<1>8. GOffered(r)' = offer
  BY <1>1 DEF GOffered
<1>9. GLineInv(r)'
  <2>1. GKernelInv(r, s2, offer)
    BY <1>1, <1>7 DEF GKernelInv
  <2> QED  BY <1>1, <1>6, <1>8, <2>1 DEF GLineInv
<1>10. GGated(r) = p /\ GSent(s, GGated(r)) = p
  BY <1>1, <1>7 DEF GGated, GGate, GSent
<1>11. /\ GQueueInv(r, queue, GRead(r, c)) /\ GExpects(queue, GRead(r, c)) = p
       /\ GAskInv(r, c, s, queue, p)
       /\ GRequestInv(r, c, p, gcontrol[GRoot][r])
  BY <1>4, <1>10 DEF GInv, GWayInv
<1>12. GAsked(r, c) /\ p = <<c.coll, r, 1>> /\ gcontrol[GRoot][r] = <<c.coll>>
  BY <1>3, <1>4, <1>11 DEF GRequestInv
<1>13. c.next_contrib = r
  <2>1. ASSUME c.next_contrib # r PROVE FALSE
    <3>1. gcontrol[GRoot][r] = <<>>
      BY <1>4, <2>1, GUnasked
    <3> QED  BY <1>3, <1>4, <3>1
  <2> QED  BY <2>1
<1>14. GWayInv(r)'
  <2>1. GGated(r)' = offer /\ GSent(s2, offer) = p
    BY <1>1, <1>8 DEF GGated, GGate, GSent
  <2>2. gcontrol'[GRoot][r] = <<>>
    <3>1. \A x : Tail(<<x>>) = <<>>
      OBVIOUS
    <3> QED  BY <1>3, <1>4, <1>12, <3>1
  <2>3. (offer[3] # 1 => offer[1] = c.coll) /\ offer # <<c.coll, r, 1>>
    <3>1. /\ offer[3] # 1 => offer[1] = p[1]
          /\ p[1] \in Int
          /\ \/ offer = <<p[1], r, p[3] + ElementsPerPacket>>
             \/ offer = <<p[1] + 1, r, 1>>
      BY <1>7, GItemPlace
    <3>2. p[1] = c.coll
      BY <1>12
    <3> HIDE DEF p, offer, c
    <3>3. p[1] + 1 # p[1] /\ p[3] + ElementsPerPacket # 1
      BY <1>7, <3>1, Numbers
    <3>4. offer # <<c.coll, r, 1>>
      BY <3>1, <3>2, <3>3
    <3> QED  BY <3>1, <3>2, <3>4
  <2>4. s2.mess.net[0][1] = c.coll /\ s2.from = GRoot
    BY <1>1, <1>2, <1>4, <1>12
  <2>5. \A j \in 1 .. Len(queue) : queue[j][0][1] = c.coll
    BY <1>11 DEF GAskInv
  <2> HIDE DEF s, s2, p, c, offer, queue
  <2>6. GAskInv(r, c, s2, queue, offer)
    BY <1>12, <1>13, <2>3, <2>4, <2>5 DEF GAskInv
  <2>7. GRequestInv(r, c, offer, <<>>)
    BY <2>3 DEF GRequestInv
  <2> USE DEF s2, c, queue
  <2> QED  BY <1>1, <1>11, <2>1, <2>2, <2>6, <2>7 DEF GWayInv
<1>15. ASSUME NEW q \in Contributors \ {r} PROVE GLineInv(q)' /\ GWayInv(q)'
  <2>1. GLineInv(q)' /\ GGated(q)' = GGated(q)
    BY <1>1, <1>5, GLineStays
  <2> QED  BY <1>1, <1>5, <2>1, GWayStays
<1>16. GSilence'
  BY <1>1, <1>3, <1>4, <1>5, GSilenceStays
<1>17. GReadInv(gchan'[GRoot])
  BY <1>1 DEF GInv
<1> QED  BY <1>1, <1>9, <1>14, <1>15, <1>16, <1>17 DEF GInv

LEMMA GForwardStep ==
    ASSUME GInv, NEW r \in Ranks, G!Forward(r)
    PROVE  GInv'
<1> DEFINE s  == gsupport[r]
           s2 == gsupport'[r]
           m  == s.mess
           p  == m.net[0]
           c  == gchan[GRoot]
           x  == GRead(r, c)
           offer == GOffered(r)
           queue == gdata[r][GRoot]
           all == Append(queue, m.net)
<1>1. /\ GTypeInv /\ GTypeInv' /\ UNCHANGED <<gchan, gather, gcontrol>>
      /\ s.writes /\ ~ s2.writes /\ s2.waits = s.waits /\ s2.mess = m /\ s2.from = s.from
      /\ \A q \in Ranks \ {r} : gsupport'[q] = gsupport[q]
      /\ m.dst \in Ranks /\ m.net \in G!Packet /\ gdata' = Put(gdata, r, m.dst, m.net)
      /\ gdata \in Net(G!Packet)
  BY GForwardType, GTypeOK DEF GInv, GTypeInv
<1>2. r # GRoot /\ r \in Contributors /\ GRoot \in Ranks
  BY <1>1, GRootIs DEF GInv, GSilence
<1>3. GKernelInv(r, s, offer) /\ GFifoInv(r, gather[r], GFill(r, gchan[r]))
  BY <1>2 DEF GInv, GLineInv
<1>4. /\ ~ s.waits /\ m.dst = GRoot /\ GItem(r, m.net) /\ GNext(p) = offer
  BY <1>1, <1>3 DEF GKernelInv, GMessInv
<1>5. /\ gdata'[r][GRoot] = all
      /\ \A a, b \in Ranks : a # r \/ b # GRoot => gdata'[a][b] = gdata[a][b]
  <2> HIDE DEF m, queue
  <2>1. /\ Put(gdata, r, GRoot, m.net)[r][GRoot] = Append(gdata[r][GRoot], m.net)
        /\ \A a, b \in Ranks : a # r \/ b # GRoot =>
               Put(gdata, r, GRoot, m.net)[a][b] = gdata[a][b]
    BY <1>1, <1>2, PutAt
  <2> QED  BY <1>1, <1>4, <2>1 DEF queue
<1>6. /\ \A q \in Contributors \ {r} : gsupport'[q] = gsupport[q]
                                        /\ gdata'[q][GRoot] = gdata[q][GRoot]
      /\ gsupport'[GRoot] = gsupport[GRoot]
  <2>1. \A q \in Ranks \ {r} : gsupport'[q] = gsupport[q]
    BY <1>1
  <2>2. \A a, b \in Ranks : a # r \/ b # GRoot => gdata'[a][b] = gdata[a][b]
    BY <1>5
  <2> HIDE DEF s, s2, m, p, c, x, offer, queue, all
  <2> QED  BY <1>2, <2>1, <2>2, GRootIs
<1>7. GOffered(r)' = offer
  BY <1>1 DEF GOffered
<1>8. GLineInv(r)'
  <2>1. GKernelInv(r, s2, offer)
    BY <1>1, <1>4 DEF GKernelInv
  <2> QED  BY <1>1, <1>3, <1>7, <2>1 DEF GLineInv
<1>9. GGated(r) = offer /\ GSent(s, offer) = p
  BY <1>1, <1>4 DEF GGated, GGate, GSent
<1>10. /\ queue \in Seq(G!Packet) /\ GQueueInv(r, queue, x) /\ GExpects(queue, x) = p
       /\ GAskInv(r, c, s, queue, offer)
       /\ GRequestInv(r, c, offer, gcontrol[GRoot][r])
  BY <1>2, <1>9, GRankFields DEF GWayInv
<1>11. /\ GQueueInv(r, all, x) /\ GExpects(all, x) = offer
       /\ \A j \in 1 .. Len(all) : \/ j \in 1 .. Len(queue) /\ all[j] = queue[j]
                                   \/ all[j] = m.net
  BY <1>1, <1>4, <1>10, GQueueAppend
<1>12. GWayInv(r)'
  <2>1. GGated(r)' = offer /\ GSent(s2, offer) = offer
    BY <1>1, <1>4, <1>7 DEF GGated, GGate, GSent
  <2> HIDE DEF s, s2, c, x, offer, queue, all
  <2>2. \A j \in 1 .. Len(all) : all[j][0][1] = c.coll
    BY <1>1, <1>10, <1>11 DEF GAskInv
  <2>3. GAskInv(r, c, s2, all, offer)
    BY <1>1, <1>10, <2>2 DEF GAskInv
  <2> USE DEF s2, c, x
  <2> QED  BY <1>1, <1>5, <1>10, <1>11, <2>1, <2>3 DEF GWayInv
<1>13. ASSUME NEW q \in Contributors \ {r} PROVE GLineInv(q)' /\ GWayInv(q)'
  <2>1. GLineInv(q)' /\ GGated(q)' = GGated(q)
    BY <1>1, <1>6, GLineStays
  <2> QED  BY <1>1, <1>6, <2>1, GWayStays
<1>14. GSilence'
  BY <1>1, <1>2, <1>5, <1>6, GSilenceStays
<1>15. GReadInv(gchan'[GRoot])
  BY <1>1 DEF GInv
<1> QED  BY <1>1, <1>8, <1>12, <1>13, <1>14, <1>15 DEF GInv

LEMMA GStep ==
    ASSUME GInv, OneGatherRoot, NEW r \in Ranks, G!Application(r) \/ G!Support(r)
    PROVE  GInv'
<1>1. CASE G!Call(r)
  BY <1>1, GCallStep
<1>2. CASE G!SendRequest(r)
  BY <1>2, GSendRequestStep
<1>3. CASE G!Receive(r)
  BY <1>3, GReceiveStep
<1>4. CASE G!Send(r)
  BY <1>4, GSendStep
<1>5. CASE G!ReadApplication(r)
  BY <1>5, GReadApplicationStep
<1>6. CASE G!TakeRequest(r)
  BY <1>6, GTakeRequestStep
<1>7. CASE G!Forward(r)
  BY <1>7, GForwardStep
<1> QED  BY <1>1, <1>2, <1>3, <1>4, <1>5, <1>6, <1>7 DEF G!Application, G!Support

LEMMA GStutter ==
    ASSUME GInv, UNCHANGED gvars
    PROVE  GInv'
<1>1. /\ gchan' = gchan /\ gsupport' = gsupport /\ gather' = gather
      /\ gdata' = gdata /\ gcontrol' = gcontrol
  BY DEF gvars
<1>2. GTypeInv'
  BY GTypeStutter DEF GInv
<1>3. ASSUME NEW q \in Contributors PROVE GLineInv(q)' /\ GWayInv(q)'
  <2>1. GLineInv(q)' /\ GGated(q)' = GGated(q)
    BY <1>1, GLineStays
  <2> QED  BY <1>1, <2>1, GWayStays
<1>4. GSilence'
  BY <1>1, GSilenceStays
<1>5. GReadInv(gchan'[GRoot])
  BY <1>1 DEF GInv
<1> QED  BY <1>1, <1>2, <1>3, <1>4, <1>5 DEF GInv

LEMMA GInit == G!Init => GInv
<1> SUFFICES ASSUME G!Init PROVE GInv
  OBVIOUS
<1> DEFINE c == G!Opened(1)
<1>1. /\ \A r \in Ranks : gchan[r] = c /\ gsupport[r] = G!Idle /\ gather[r] = <<>>
      /\ \A a, b \in Ranks : gdata[a][b] = <<>> /\ gcontrol[a][b] = <<>>
  BY GWires, QuietIsEmpty DEF G!Init
<1>2. GTypeInv /\ GRoot \in Ranks
  BY GInitType, GRootIs
<1>3. /\ c.coll = 1 /\ c.returned = 0 /\ ~ c.requested /\ c.next_contrib = 0
      /\ c.processed_elements_root = 0 /\ c.packet_element_id = 0
      /\ c.packet_element_id_rcv = 0
  BY DEF G!Opened
<1>4. ~ G!Idle.waits /\ ~ G!Idle.writes
  BY DEF G!Idle
<1> HIDE DEF c
<1>5. GSilence
  BY <1>1, <1>2, <1>4 DEF GSilence
<1>6. GReadInv(c)
  BY <1>3 DEF GReadInv
<1>7. ASSUME NEW q \in Contributors PROVE GLineInv(q) /\ GWayInv(q)
  <2>1. /\ q \in Ranks /\ q \in Int /\ q >= 0
    BY GRootIs, Numbers
  <2>2. GFill(q, c) = <<1, q, 1>>
    BY <1>3 DEF GFill
  <2>3. GRead(q, c) = <<1, q, 1>>
    <3>1. ~ (0 > q)
      BY <2>1
    <3>2. q = 0 => GRead(q, c) = <<1, q, 0 + 1>>
      BY <1>3, <3>1 DEF GRead
    <3>3. q # 0 => GRead(q, c) = <<1, q, 1>>
      BY <1>3, <2>1, <3>1 DEF GRead
    <3> QED  BY <3>2, <3>3
  <2>4. ~ GAsked(q, c)
    <3>1. ~ (0 > q) /\ ~ (0 > 0)
      BY <2>1
    <3> QED  BY <1>3, <3>1 DEF GAsked
  <2>5. GOffered(q) = <<1, q, 1>> /\ GGated(q) = <<1, q, 1>>
    BY <1>1, <1>4, <2>1, <2>2 DEF GOffered, GOffer, GGated, GGate
  <2>6. GLineInv(q)
    BY <1>1, <1>4, <2>1 DEF GLineInv, GFifoInv, GKernelInv
  <2>7. GWayInv(q)
    <3>1. GQueueInv(q, <<>>, GRead(q, c))
      BY DEF GQueueInv
    <3>2. GExpects(<<>>, GRead(q, c)) = GSent(G!Idle, <<1, q, 1>>)
      BY <1>4, <2>3 DEF GExpects, GSent
    <3>3. GAskInv(q, c, G!Idle, <<>>, <<1, q, 1>>)
      BY <1>4 DEF GAskInv
    <3>4. GRequestInv(q, c, <<1, q, 1>>, <<>>)
      BY <2>4 DEF GRequestInv
    <3> QED  BY <1>1, <1>2, <2>1, <2>5, <3>1, <3>2, <3>3, <3>4 DEF GWayInv
  <2> QED  BY <2>6, <2>7
<1> QED  BY <1>1, <1>2, <1>5, <1>6, <1>7 DEF GInv

(* What the invariant says of the properties *)
LEMMA GOneContributor == GInv => G!OneContributor
<1> SUFFICES ASSUME GInv, NEW r \in Ranks, NEW net \in UnderWay(gdata, r)
             PROVE  net[0][1] = gchan[r].coll /\ net[0][2] = gchan[r].next_contrib
  BY GWires DEF G!OneContributor
<1>1. PICK src \in Ranks : \E j \in 1 .. Len(gdata[src][r]) : net = gdata[src][r][j]
  BY DEF UnderWay
<1>2. PICK j \in 1 .. Len(gdata[src][r]) : net = gdata[src][r][j]
  BY <1>1
<1>3. gdata[src][r] # <<>>
  BY <1>2
<1>4. r = GRoot /\ src \in Contributors
  BY <1>1, <1>3, GRootIs DEF GInv, GSilence
<1>5. /\ GQueueInv(src, gdata[src][r], GRead(src, gchan[r]))
      /\ GAskInv(src, gchan[r], gsupport[src], gdata[src][r], GGated(src))
  BY <1>4 DEF GInv, GWayInv
<1>6. GItem(src, net) /\ net[0][1] = gchan[r].coll /\ gchan[r].next_contrib = src
  BY <1>2, <1>3, <1>5 DEF GQueueInv, GAskInv
<1> QED  BY <1>6, GItemPlace

LEMMA GWaits == GInv => G!WaitsForItsRoot
<1> SUFFICES ASSUME GInv, NEW r \in Ranks, gsupport[r].writes
             PROVE  gsupport[r].from = gsupport[r].mess.dst
  BY GWires DEF G!WaitsForItsRoot
<1>1. r \in Contributors
  BY GRootIs DEF GInv, GSilence
<1>2. /\ GAskInv(r, gchan[GRoot], gsupport[r], gdata[r][GRoot], GGated(r))
      /\ GKernelInv(r, gsupport[r], GOffered(r))
  BY <1>1 DEF GInv, GWayInv, GLineInv
<1> QED  BY <1>2 DEF GAskInv, GKernelInv, GMessInv

LEMMA GNextElement ==
    ASSUME GInv, OneGatherRoot, NEW r \in Ranks, G!InCall(r), G!IsRoot(r)
    PROVE  LET c == gchan[r]
               size == GatherCounts[c.coll]
               wanted == <<c.coll, c.next_contrib, c.processed_elements_root + 1>>
           IN  /\ (c.entered - 1) \div size = c.next_contrib
               /\ (c.entered - 1) % size = c.processed_elements_root
               /\ c.next_contrib # r /\ c.packet_element_id_rcv = 0 =>
                      \A src \in Waiting(gdata, r) : Head(gdata[src][r])[0] = wanted
               /\ c.next_contrib # r /\ c.packet_element_id_rcv # 0 =>
                      c.net[c.packet_element_id_rcv] = wanted
<1> DEFINE c == gchan[r]
           q == c.next_contrib
           p == c.processed_elements_root
           e == c.packet_element_id_rcv
           n == GatherCounts[c.coll]
           wanted == <<c.coll, q, p + 1>>
<1>1. r = GRoot /\ GTypeInv
  BY GIsRoot DEF GInv
<1>2. /\ c \in GChannel /\ c.coll \in 1 .. G!NumCollectives
      /\ n \in Nat \ {0} /\ q \in Nat /\ p \in Nat /\ p < n /\ q \in Ranks
      /\ e \in Nat /\ e < ElementsPerPacket
      /\ c.returned \in Nat /\ c.entered \in {c.returned, c.returned + 1}
      /\ c.returned = q * n + p
  BY <1>1, GRootFields
<1>3. c.entered - 1 = q * n + p
  <2>1. c.returned < c.entered
    BY DEF G!InCall
  <2>2. c.entered - 1 = c.returned
    BY <1>2, <2>1
  <2> QED  BY <1>2, <2>2
<1>4. (c.entered - 1) \div n = q /\ (c.entered - 1) % n = p
  <2>1. (q * n + p) \div n = q /\ (q * n + p) % n = p
    <3> HIDE DEF q, n, p
    <3> QED  BY <1>2, DivMod
  <2> QED  BY <1>3, <2>1
<1>5. ASSUME q # r, e = 0, NEW src \in Waiting(gdata, r)
      PROVE  Head(gdata[src][r])[0] = wanted
  <2>1. src \in Contributors /\ src = q
    BY <1>1, <1>5, GReadsOf
  <2>2. /\ gdata[src][r] \in Seq(G!Packet) /\ gdata[src][r] # <<>>
        /\ GQueueInv(src, gdata[src][r], GRead(src, c))
    BY <1>1, <2>1, GRankFields DEF GWayInv, Waiting
  <2>3. Head(gdata[src][r])[0] = GRead(src, c)
    BY <2>2 DEF GQueueInv
  <2>4. GRead(q, c) = wanted
    <3>1. ~ (q > q) /\ ~ (q < q)
      BY <1>2
    <3> QED  BY <1>5, <3>1 DEF GRead
  <2> QED  BY <2>1, <2>3, <2>4
<1>6. ASSUME q # r, e # 0 PROVE c.net[e] = wanted
  <2>1. GReadInv(c)
    BY <1>1 DEF GInv
  <2>2. e \in e .. ElementsPerPacket - 1 /\ p + 1 + (e - e) = p + 1 /\ p + 1 <= n
    BY <1>2, Numbers
  <2> HIDE DEF q, p, n
  <2>3. \A i \in e .. ElementsPerPacket - 1 :
            p + 1 + (i - e) <= n => c.net[i] = <<c.coll, q, p + 1 + (i - e)>>
    BY <1>1, <1>6, <2>1 DEF GReadInv, q, p, n
  <2> QED  BY <2>2, <2>3
<1> QED  BY <1>4, <1>5, <1>6

LEMMA GNextElementRight == GInv /\ OneGatherRoot => G!NextElementRight
<1> SUFFICES ASSUME GInv, OneGatherRoot, NEW r \in Ranks, G!InCall(r), G!IsRoot(r)
             PROVE  LET c == gchan[r]
                        size == GatherCounts[c.coll]
                        wanted == <<c.coll, (c.entered - 1) \div size,
                                    ((c.entered - 1) % size) + 1>>
                    IN  CASE c.next_contrib = r -> wanted[2] = r
                          [] c.next_contrib # r /\ c.packet_element_id_rcv = 0 ->
                                 \A src \in Waiting(gdata, r) :
                                     Head(gdata[src][r])[0] = wanted
                          [] OTHER -> c.net[c.packet_element_id_rcv] = wanted
  BY GWires DEF G!NextElementRight
<1> DEFINE c == gchan[r]
           size == GatherCounts[c.coll]
           wanted == <<c.coll, (c.entered - 1) \div size, ((c.entered - 1) % size) + 1>>
<1>1. /\ wanted = <<c.coll, c.next_contrib, c.processed_elements_root + 1>>
      /\ wanted[2] = c.next_contrib
  BY GNextElement
<1>2. /\ c.next_contrib # r /\ c.packet_element_id_rcv = 0 =>
             \A src \in Waiting(gdata, r) : Head(gdata[src][r])[0] = wanted
      /\ c.next_contrib # r /\ c.packet_element_id_rcv # 0 =>
             c.net[c.packet_element_id_rcv] = wanted
  BY <1>1, GNextElement
<1> HIDE DEF wanted
<1>3. CASE c.next_contrib = r
  BY <1>1, <1>3 DEF wanted
<1>4. CASE c.next_contrib # r /\ c.packet_element_id_rcv = 0
  BY <1>2, <1>4 DEF wanted
<1>5. CASE c.next_contrib # r /\ c.packet_element_id_rcv # 0
  BY <1>2, <1>5 DEF wanted
<1> QED  BY <1>3, <1>4, <1>5

LEMMA GNothingLeft == GInv => G!NothingLeft
<1> SUFFICES ASSUME GInv, \A r \in Ranks : gchan[r].coll = G!NumCollectives + 1
             PROVE  gdata = Quiet /\ gcontrol = Quiet
  BY GWires DEF G!NothingLeft
<1> DEFINE c == gchan[GRoot]
<1>1. /\ c.coll = G!NumCollectives + 1 /\ G!NumCollectives \in Int /\ GRoot \in Ranks
      /\ c \in GChannel /\ GRootInv(GRoot, c) /\ GTypeInv
  BY GRootIs, GNumbers, GTypes DEF GInv, GTypeInv, GChanInv
<1>2. c.next_contrib = 0 /\ c.processed_elements_root = 0 /\ ~ c.requested
  <2>1. ~ GRooted(GRoot, c.coll)
    BY <1>1 DEF GRooted
  <2> QED  BY <1>1, <2>1 DEF GRootInv
<1>3. ASSUME NEW q \in Contributors PROVE gdata[q][GRoot] = <<>> /\ gcontrol[GRoot][q] = <<>>
  <2>1. ~ (0 > q) /\ ~ (0 > 0)
    BY GRootIs, Numbers
  <2>2. ~ GAsked(q, c)
    BY <1>2, <2>1 DEF GAsked
  <2> QED  BY <2>2, GUnasked
<1>4. ASSUME NEW a \in Ranks, NEW b \in Ranks
      PROVE  gdata[a][b] = <<>> /\ gcontrol[a][b] = <<>>
  BY <1>3, GRootIs DEF GInv, GSilence
<1>5. gdata \in Net(G!Packet) /\ gcontrol \in Net(GRequest)
  BY <1>1, GTypeOK DEF GTypeInv
<1>6. gdata = Quiet
  BY <1>4, <1>5 DEF Net, Quiet
<1>7. gcontrol = Quiet
  BY <1>4, <1>5 DEF Net, Quiet
<1> QED  BY <1>6, <1>7

-----------------------------------------------------------------------------
(* The line of a root is never behind what it gives. *)
SUpto(p, f) ==
    p[1] < f[1] \/ (p[1] = f[1] /\ (p[2] < f[2] \/ (p[2] = f[2] /\ p[3] <= f[3])))

LEMMA SFollowsUpto ==
    ASSUME NEW b, NEW p, NEW f, SFollows(b, p, f), SIsPlace(p), SIsPlace(f)
    PROVE  SUpto(p, f)
BY Numbers DEF SFollows, SUpto, SIsPlace

LEMMA SUptoFurther ==
    ASSUME NEW p, NEW q, NEW f, SIsPlace(p), SIsPlace(q), SIsPlace(f), SUpto(p, q), SUpto(q, f)
    PROVE  SUpto(p, f)
BY DEF SUpto, SIsPlace

LEMMA SPlaceUpto ==
    ASSUME SInv, NEW b \in Ranks
    PROVE  SUpto(SPlace(b), SFills(b, schan[b]))
<1> DEFINE s == ssupport[b]
           f == SFills(b, schan[b])
           l == SLine(b)
           p == SPlace(b)
<1>1. SRankInv(b)
  BY DEF SInv
<1>2. SIsPlace(f) /\ SIsPlace(l) /\ SIsPlace(p)
  BY SPlaces
<1>3. SUpto(l, f)
  <2>1. CASE scatter[b] = <<>>
    <3>1. l = f
      BY <2>1 DEF SLine, SOffers
    <3> HIDE DEF l, f
    <3> QED  BY <1>2, <3>1 DEF SUpto, SIsPlace
  <2>2. CASE scatter[b] # <<>>
    <3>1. l = scatter[b][1].net[0] /\ SFollows(b, l, f)
      BY <1>1, <2>2 DEF SLine, SOffers, SRankInv, SFifoInv
    <3> HIDE DEF l, f
    <3> QED  BY <1>2, <3>1, SFollowsUpto
  <2> QED  BY <2>1, <2>2
<1>4. SUpto(p, l)
  <2>1. CASE s.external
    <3>1. p = l
      BY <2>1 DEF SPlace, SGives
    <3> HIDE DEF l, p
    <3> QED  BY <1>2, <3>1 DEF SUpto, SIsPlace
  <2>2. CASE ~ s.external
    <3>1. SFollows(b, p, l)
      BY <1>1, <2>2 DEF SPlace, SGives, SRankInv, SKernelInv
    <3> HIDE DEF l, p
    <3> QED  BY <1>2, <3>1, SFollowsUpto
  <2> QED  BY <2>1, <2>2
<1> HIDE DEF l, f, p
<1> QED  BY <1>2, <1>3, <1>4, SUptoFurther DEF f, p

LEMMA SQueueAhead ==
    ASSUME SInv, NEW r \in Ranks, NEW b \in Ranks, sdata[b][r] # <<>>
    PROVE  LET x == SX(b, r)
           IN  x \in Int /\ x >= SReads(schan[r]) + ElementsPerPacket
<1> DEFINE queue == sdata[b][r]
           c == schan[r]
           Z == {j \in Nat : j \in 1 .. Len(queue) /\ ~ queue[j][0][3] >= SReads(c)}
<1>1. queue \in Seq(S!Packet) /\ SQueueInv(queue, b, r, c)
  BY STypes DEF SInv, SPairInv
<1>2. Len(queue) \in Nat /\ Len(queue) >= 1
  BY <1>1, EmptySeq
<1>3. SReads(c) \in Int
  BY STypes, SChannelFields, Numbers DEF SInv, SReads
<1>4. /\ queue[1][0][3] = SReads(c)
      /\ \A j \in 1 .. Len(queue) : queue[j][0][3] \in Int
      /\ \A j \in 1 .. Len(queue) - 1 :
             queue[j + 1][0][3] = queue[j][0][3] + ElementsPerPacket
  <2>1. \A j \in 1 .. Len(queue) : SPacket(queue[j], c.coll, r, queue[j][0][3])
    BY <1>1 DEF SQueueInv
  <2>2. c.coll \in 1 .. S!NumCollectives
    BY <1>2, <2>1 DEF SPacket
  <2>3. ScatterCounts[c.coll] \in Int
    BY <2>2, SNumbers
  <2>4. \A j \in 1 .. Len(queue) : queue[j][0][3] \in Int
    BY <2>1, <2>3 DEF SPacket
  <2> QED  BY <1>1, <2>4 DEF SQueueInv
<1>5. SX(b, r) = queue[Len(queue)][0][3] + ElementsPerPacket
  BY DEF SX, SExpects
<1> HIDE DEF queue, c
<1>6. Z = {}
  <2> SUFFICES ASSUME Z # {} PROVE FALSE
    OBVIOUS
  <2>1. PICK j \in Z : \A i \in Z : j <= i
    BY Least
  <2>2. j # 1
    BY <1>3, <1>4, <2>1
  <2>3. j - 1 \in 1 .. Len(queue) - 1 /\ j - 1 \notin Z
    BY <1>2, <2>1, <2>2
  <2>4. queue[(j - 1) + 1][0][3] = queue[j - 1][0][3] + ElementsPerPacket
    BY <1>4, <2>3
  <2>5. queue[j - 1][0][3] >= SReads(c) /\ queue[j - 1][0][3] \in Int
    BY <1>2, <1>4, <2>3
  <2>6. queue[j][0][3] = queue[j - 1][0][3] + ElementsPerPacket /\ ~ queue[j][0][3] >= SReads(c)
    BY <2>1, <2>4
  <2>7. ElementsPerPacket \in Int /\ ElementsPerPacket >= 1
    BY Numbers
  <2>8. \A z, w \in Int : z >= w => z + ElementsPerPacket >= w
    BY <2>7
  <2> QED  BY <1>3, <2>5, <2>6, <2>8
<1>7. queue[Len(queue)][0][3] >= SReads(c) /\ queue[Len(queue)][0][3] \in Int
  BY <1>2, <1>4, <1>6
<1> QED  BY <1>3, <1>5, <1>7, Numbers DEF c

(* With w receivers before, a root is past the elements of receiver r. *)
LEMMA Products ==
    ASSUME NEW n \in Nat, NEW w \in Nat, NEW r \in Nat, w >= r + 1
    PROVE  w * n \in Nat /\ r * n \in Nat /\ w * n >= r * n + n
<1>1. PICK m \in Nat : w = r + 1 + m
  <2>1. w - (r + 1) \in Nat /\ w = r + 1 + (w - (r + 1))
    OBVIOUS
  <2> QED  BY <2>1
<1>2. w * n = r * n + n + m * n
  BY <1>1
<1>3. m * n \in Nat /\ r * n \in Nat
  OBVIOUS
<1> QED  BY <1>2, <1>3

(* The root of a scatter has made the call for the element a receiver reads. *)
LEMMA SRootCalled ==
    ASSUME SInv, NEW r \in Ranks, schan[r].returned < schan[r].entered, ~ S!IsRoot(r),
           schan[r].packet_element_id_rcv = 0 => Waiting(sdata, r) # {}
    PROVE  LET c == schan[r]
               b == ScatterRoots[c.coll]
               i == r * ScatterCounts[c.coll] + c.entered
           IN  /\ b \in Ranks /\ b # r /\ c.coll \in 1 .. S!NumCollectives
               /\ i \in Nat \ {0}
               /\ Called(schan, b, c.coll, i)
<1> DEFINE c == schan[r]
           k == c.coll
           b == ScatterRoots[k]
           n == ScatterCounts[k]
           x == SX(b, r)
           p == SPlace(b)
           cb == schan[b]
           f == SFills(b, cb)
<1>1. S!TypeOK /\ c \in SChannel /\ SCallInv(r, c)
  BY STypes DEF SInv, SRankInv
<1>2. /\ k \in Int /\ c.returned \in Int /\ c.returned >= 0 /\ c.entered = c.returned + 1
      /\ k \in 1 .. S!NumCollectives /\ n \in Nat \ {0}
      /\ c.packet_element_id_rcv \in Int /\ c.packet_element_id_rcv >= 0
      /\ c.packet_element_id_rcv < ElementsPerPacket
      /\ r \in Nat
  BY <1>1, SChannelFields, SNumbers, Numbers DEF SCallInv
<1>3. b \in Ranks /\ b # r /\ SRooted(b, k)
  <2>1. b \in Ranks /\ SRooted(b, k)
    BY <1>2, SNumbers DEF SRooted
  <2>2. b # r
    BY <1>2 DEF S!IsRoot
  <2> QED  BY <2>1, <2>2
<1>4. c.entered <= n
  <2>1. S!Calls(k, r) = n
    BY <1>3 DEF S!Calls
  <2>2. c.returned < S!Calls(k, r)
    BY <1>1, <1>2 DEF SCallInv
  <2> QED  BY <1>2, <2>1, <2>2
<1>5. x \in Int /\ x >= c.entered + 1
  <2>1. CASE sdata[b][r] = <<>>
    <3>1. c.packet_element_id_rcv # 0
      <4> SUFFICES ASSUME c.packet_element_id_rcv = 0 PROVE FALSE
        OBVIOUS
      <4>1. PICK src \in Ranks : sdata[src][r] # <<>>
        BY DEF Waiting
      <4>2. SRooted(src, k)
        BY <4>1 DEF SInv, SPairInv, SQueueInv
      <4> QED  BY <2>1, <4>1, <4>2 DEF SRooted
    <3>2. x = c.returned + 1 + (ElementsPerPacket - c.packet_element_id_rcv)
      BY <2>1, <3>1 DEF SX, SExpects, SReads
    <3> QED  BY <1>2, <3>2, Numbers
  <2>2. CASE sdata[b][r] # <<>>
    <3>1. x \in Int /\ x >= SReads(c) + ElementsPerPacket
      BY <1>3, <2>2, SQueueAhead
    <3>2. SReads(c) >= c.returned + 1 /\ SReads(c) \in Int
      BY <1>2, Numbers DEF SReads
    <3> QED  BY <1>2, <3>1, <3>2, Numbers
  <2> QED  BY <2>1, <2>2
<1>6. SAt(b, r, k, x, p)
  BY <1>3 DEF SInv, SPairInv
<1>7. SIsPlace(p) /\ SIsPlace(f) /\ SUpto(p, f)
  BY <1>3, SPlaces, SPlaceUpto
<1>8. \/ p[1] > k
      \/ p[1] = k /\ p[2] > r
      \/ p[1] = k /\ p[2] = r /\ p[3] >= c.entered + 1
  <2> HIDE DEF p, x, b, k, n
  <2> QED  BY <1>2, <1>3, <1>4, <1>5, <1>6, <1>7 DEF SAt, SIsPlace
<1>9. \/ f[1] > k
      \/ f[1] = k /\ f[2] > r
      \/ f[1] = k /\ f[2] = r /\ f[3] >= c.entered + 1
  <2> HIDE DEF p, f, b, k, n
  <2> QED  BY <1>2, <1>7, <1>8 DEF SUpto, SIsPlace
<1>10. cb \in SChannel /\ f[1] = cb.coll
  BY <1>3, STypes DEF SInv, SFills
<1>11. ASSUME cb.coll = k
       PROVE  cb.entered >= r * n + c.entered
  <2>1. SRooted(b, cb.coll)
    BY <1>3, <1>11
  <2>2. /\ cb.returned = cb.next_rcv * n + cb.processed_elements
        /\ cb.next_rcv \in Nat /\ cb.processed_elements \in Nat
        /\ cb.packet_element_id \in Nat
        /\ cb.entered \in {cb.returned, cb.returned + 1} /\ cb.returned \in Int
        /\ f[2] = cb.next_rcv
        /\ f[3] = cb.processed_elements - cb.packet_element_id + 1
    BY <1>3, <1>11, <2>1, SRootFields
  <2> DEFINE w == cb.next_rcv
             y == cb.processed_elements
  <2>3. w > r \/ (w = r /\ y >= c.entered)
    BY <1>2, <1>9, <1>10, <1>11, <2>2
  <2>4. w * n + y >= r * n + c.entered
    <3>1. CASE w > r
      <4>1. w * n \in Nat /\ r * n \in Nat /\ w * n >= r * n + n
        BY <1>2, <2>2, <3>1, Products
      <4> QED  BY <1>2, <1>4, <2>2, <4>1
    <3>2. CASE w = r /\ y >= c.entered
      <4>1. r * n \in Int
        BY <1>2
      <4> QED  BY <1>2, <2>2, <3>2, <4>1
    <3> QED  BY <2>3, <3>1, <3>2
  <2>5. w * n \in Int /\ r * n \in Int
    BY <1>2, <2>2
  <2> HIDE DEF w, y, n, cb, c
  <2> QED  BY <1>2, <2>2, <2>4, <2>5 DEF w, y
<1>12. Called(schan, b, k, r * n + c.entered)
  BY <1>2, <1>9, <1>10, <1>11, SChannelFields DEF Called
<1>13. r * n + c.entered \in Nat \ {0}
  <2>1. r * n \in Nat
    BY <1>2
  <2> QED  BY <1>2, <2>1
<1> QED  BY <1>2, <1>3, <1>12, <1>13

LEMMA SGoes ==
    ASSUME SInv, NEW r \in Ranks, S!Application(r)
    PROVE  LET k == schan[r].coll
           IN  Goes(schan, schan', r, S!Calls(k, r), S!ScatterNeeds(k, r, schan[r].entered))
<1> DEFINE c == schan[r]
           c2 == schan'[r]
           k == c.coll
           needs == S!ScatterNeeds(k, r, c.entered)
<1>1. S!TypeOK /\ c \in SChannel /\ schan \in [Ranks -> SChannel]
  BY STypes, STypeOK DEF SInv
<1>2. ASSUME NEW new, schan' = [schan EXCEPT ![r] = new]
      PROVE  c2 = new /\ \A q \in Ranks \ {r} : schan'[q] = schan[q]
  BY <1>1, <1>2
<1>3. ASSUME NEW d, {"coll", "entered", "returned"} \subseteq DOMAIN d,
             d.coll = k, d.entered = c.entered, c.returned < c.entered
      PROVE  Returning(c, S!Returned(r, d), S!Calls(k, r))
  <2>1. CASE c.entered = S!Calls(k, r)
    <3>1. S!Returned(r, d) = S!Opened(k + 1)
      BY <1>3, <2>1 DEF S!Returned
    <3> QED  BY <1>3, <2>1, <3>1 DEF Returning, S!Opened
  <2>2. CASE c.entered # S!Calls(k, r)
    <3> DEFINE e == S!Returned(r, d)
    <3>1. e = [d EXCEPT !.returned = d.entered]
      BY <1>3, <2>2 DEF S!Returned
    <3> HIDE DEF e
    <3>2. e.coll = k /\ e.entered = c.entered /\ e.returned = c.entered
      BY <1>3, <3>1
    <3> QED  BY <1>3, <2>2, <3>2 DEF Returning, e
  <2> QED  BY <2>1, <2>2
<1>4. CASE S!Call(r)
  <2>0. c.entered = c.returned
    <3>1. c.entered \in {c.returned, c.returned + 1} /\ c.returned \in Int
      BY <1>1, SChannelFields DEF SInv, SRankInv, SCallInv
    <3> QED  BY <1>4, <3>1 DEF S!Call, S!InCall
  <2>1. c.entered = c.returned /\ schan' = [schan EXCEPT ![r] = [c EXCEPT !.entered = @ + 1]]
    BY <1>4, <2>0 DEF S!Call
  <2>2. Entering(c, [c EXCEPT !.entered = @ + 1])
    BY <1>1, <2>1 DEF Entering, SChannel
  <2> QED  BY <1>2, <2>1, <2>2 DEF Goes
<1>5. CASE S!SendReady(r)
  <2>1. schan' = [schan EXCEPT ![r] = [c EXCEPT !.init = FALSE]]
    BY <1>5 DEF S!SendReady
  <2>2. Silent(c, [c EXCEPT !.init = FALSE])
    BY <1>1 DEF Silent, SChannel
  <2> QED  BY <1>2, <2>1, <2>2 DEF Goes
<1>6. CASE S!Send(r)
  <2> DEFINE own == c.next_rcv = r
             element == <<k, (c.entered - 1) \div ScatterCounts[k],
                          ((c.entered - 1) % ScatterCounts[k]) + 1>>
             packed == IF own THEN c.net
                       ELSE [c.net EXCEPT ![c.packet_element_id] = element]
             writes == S!Leaves(c) /\ ~ own
             d == [S!Counted(c) EXCEPT !.net = packed, !.op = IF writes THEN "SCATTER" ELSE @]
  <2>1. /\ c.returned < c.entered /\ S!IsRoot(r)
        /\ schan' = [schan EXCEPT ![r] = S!Returned(r, d)]
    BY <1>6 DEF S!Send, S!InCall
  <2>2. {"coll", "entered", "returned"} \subseteq DOMAIN d
        /\ d.coll = k /\ d.entered = c.entered
    <3>1. /\ DOMAIN S!Counted(c) = DOMAIN c
          /\ S!Counted(c).coll = k /\ S!Counted(c).entered = c.entered
      BY <1>1 DEF SChannel, S!Counted
    <3> DEFINE net == packed
               op == IF writes THEN "SCATTER" ELSE S!Counted(c).op
    <3>2. d = [S!Counted(c) EXCEPT !.net = net, !.op = op]
      OBVIOUS
    <3>3. {"coll", "entered", "returned"} \subseteq DOMAIN c
      BY <1>1 DEF SChannel
    <3> HIDE DEF net, op, d
    <3> QED  BY <3>1, <3>2, <3>3
  <2> HIDE DEF d
  <2>3. Returning(c, S!Returned(r, d), S!Calls(k, r))
    BY <1>3, <2>1, <2>2
  <2>4. AllCalled(schan, k, needs)
    BY <2>1 DEF AllCalled, S!ScatterNeeds, S!IsRoot
  <2> QED  BY <1>2, <2>1, <2>3, <2>4 DEF Goes
<1>7. CASE S!Receive(r)
  <2> DEFINE d(net) == [c EXCEPT !.net_2 = net,
                           !.packet_element_id_rcv = (@ + 1) % ElementsPerPacket]
  <2>1. /\ c.returned < c.entered /\ ~ S!IsRoot(r)
        /\ c.packet_element_id_rcv = 0 => Waiting(sdata, r) # {}
        /\ \E net : schan' = [schan EXCEPT ![r] = S!Returned(r, d(net))]
    BY <1>7, SWires DEF S!Receive, S!InCall
  <2>2. PICK net : schan' = [schan EXCEPT ![r] = S!Returned(r, d(net))]
    BY <2>1
  <2>3. {"coll", "entered", "returned"} \subseteq DOMAIN d(net)
        /\ d(net).coll = k /\ d(net).entered = c.entered
    BY <1>1 DEF SChannel
  <2> HIDE DEF d
  <2>4. Returning(c, S!Returned(r, d(net)), S!Calls(k, r))
    BY <1>3, <2>1, <2>3
  <2>5. AllCalled(schan, k, needs)
    <3> DEFINE i == r * ScatterCounts[k] + c.entered
    <3>1. /\ ScatterRoots[k] \in Ranks /\ i \in Nat \ {0}
          /\ Called(schan, ScatterRoots[k], k, i)
      BY <2>1, SRootCalled
    <3>2. needs \subseteq {<<ScatterRoots[k], i>>}
      BY DEF S!ScatterNeeds
    <3> HIDE DEF i, needs
    <3> QED  BY <3>1, <3>2 DEF AllCalled
  <2> QED  BY <1>2, <2>2, <2>4, <2>5 DEF Goes
<1> QED  BY <1>4, <1>5, <1>6, <1>7 DEF S!Application

-----------------------------------------------------------------------------
(* The packet that a contributor fills is never behind the one it sends. *)
GUpto(p, f) == p[1] < f[1] \/ (p[1] = f[1] /\ p[3] <= f[3])

GIsPlace(p) == p[1] \in Int /\ p[3] \in Int

LEMMA GNextUpto ==
    ASSUME NEW p, GIsPlace(p)
    PROVE  GIsPlace(GNext(p)) /\ GUpto(p, GNext(p))
BY Numbers DEF GNext, GUpto, GIsPlace

LEMMA GUptoFurther ==
    ASSUME NEW p, NEW q, NEW f, GIsPlace(p), GIsPlace(q), GIsPlace(f),
           GUpto(p, q), GUpto(q, f)
    PROVE  GUpto(p, f)
BY DEF GUpto, GIsPlace

LEMMA GSentUpto ==
    ASSUME GInv, NEW q \in Contributors
    PROVE  LET sent == GSent(gsupport[q], GGated(q))
               fill == GFill(q, gchan[q])
           IN  GIsPlace(sent) /\ GIsPlace(fill) /\ GUpto(sent, fill)
<1> DEFINE s == gsupport[q]
           fifo == gather[q]
           fill == GFill(q, gchan[q])
           offer == GOffered(q)
           gate == GGated(q)
           sent == GSent(s, gate)
<1>1. GFifoInv(q, fifo, fill) /\ GKernelInv(q, s, offer)
  BY GRankFields DEF GLineInv
<1>2. ASSUME NEW m, NEW next, GMessInv(q, m, next)
      PROVE  GIsPlace(m.net[0]) /\ GUpto(m.net[0], next)
  <2>1. GItem(q, m.net) /\ GNext(m.net[0]) = next
    BY <1>2 DEF GMessInv
  <2>2. GIsPlace(m.net[0])
    BY <2>1, GItemPlace DEF GIsPlace
  <2> QED  BY <2>1, <2>2, GNextUpto
<1>3. GIsPlace(fill)
  <2>1. gchan[q] \in GChannel
    BY GRankFields, GTypes
  <2> QED  BY <2>1, GChannelFields DEF GFill, GIsPlace
<1> HIDE DEF fill
<1>4. \A p : GIsPlace(p) => GUpto(p, p)
  BY DEF GUpto, GIsPlace
<1>5. GIsPlace(offer) /\ GUpto(offer, fill)
  <2>1. fifo = <<>> => offer = fill
    BY DEF GOffered, GOffer, fill
  <2>2. fifo # <<>> => offer = fifo[1].net[0] /\ GMessInv(q, fifo[1], fill)
    BY <1>1 DEF GOffered, GOffer, GFifoInv
  <2> HIDE DEF offer
  <2> QED  BY <1>2, <1>3, <1>4, <2>1, <2>2
<1> HIDE DEF offer
<1>6. GIsPlace(gate) /\ GUpto(gate, offer)
  <2>1. ~ s.waits => gate = offer
    BY DEF GGated, GGate, offer
  <2>2. s.waits => gate = s.mess.net[0] /\ GMessInv(q, s.mess, offer)
    BY <1>1 DEF GGated, GGate, GKernelInv, offer
  <2> HIDE DEF gate
  <2> QED  BY <1>2, <1>4, <1>5, <2>1, <2>2
<1>7. GIsPlace(sent) /\ GUpto(sent, offer)
  <2>1. ~ s.writes => sent = gate
    BY DEF GSent
  <2>2. s.writes => sent = s.mess.net[0] /\ GMessInv(q, s.mess, offer)
    BY <1>1 DEF GSent, GKernelInv
  <2> HIDE DEF sent, gate
  <2> QED  BY <1>2, <1>6, <2>1, <2>2
<1> HIDE DEF sent
<1>8. GUpto(sent, fill)
  BY <1>3, <1>5, <1>7, GUptoFurther
<1> QED  BY <1>3, <1>7, <1>8 DEF sent, fill

(* The packets on their way to the root are those it has yet to read.        *)
LEMMA GQueueAhead ==
    ASSUME GInv, NEW q \in Contributors, gdata[q][GRoot] # <<>>
    PROVE  LET queue == gdata[q][GRoot]
               read == GRead(q, gchan[GRoot])
               last == queue[Len(queue)][0]
           IN  /\ GIsPlace(read) /\ read[1] = gchan[GRoot].coll
               /\ GIsPlace(last) /\ last[1] = gchan[GRoot].coll /\ last[3] >= read[3]
<1> DEFINE c == gchan[GRoot]
           queue == gdata[q][GRoot]
           read == GRead(q, c)
           Z == {j \in Nat : j \in 1 .. Len(queue) /\ ~ queue[j][0][3] >= read[3]}
<1>1. /\ queue \in Seq(G!Packet) /\ GQueueInv(q, queue, read)
      /\ \A j \in 1 .. Len(queue) : queue[j][0][1] = c.coll
      /\ c.coll \in Int
  BY GRankFields, GChannelFields DEF GWayInv, GAskInv
<1>2. Len(queue) \in Nat /\ Len(queue) >= 1
  BY <1>1, EmptySeq
<1>3. /\ queue[1][0] = read
      /\ \A j \in 1 .. Len(queue) : GItem(q, queue[j])
      /\ \A j \in 1 .. Len(queue) - 1 : queue[j + 1][0] = GNext(queue[j][0])
  BY <1>1 DEF GQueueInv
<1>4. \A j \in 1 .. Len(queue) : queue[j][0][3] \in Int
  BY <1>3, GItemPlace
<1> HIDE DEF queue, read, c
<1>5. read[1] = c.coll /\ read[3] \in Int
  BY <1>1, <1>2, <1>3, <1>4
<1>6. Z = {}
  <2> SUFFICES ASSUME Z # {} PROVE FALSE
    OBVIOUS
  <2>1. PICK j \in Z : \A i \in Z : j <= i
    BY Least
  <2>2. j # 1
    BY <1>3, <1>5, <2>1
  <2>3. j - 1 \in 1 .. Len(queue) - 1 /\ j - 1 \notin Z /\ j - 1 \in 1 .. Len(queue)
    BY <1>2, <2>1, <2>2
  <2>4. queue[j][0] = GNext(queue[j - 1][0])
    <3>1. queue[(j - 1) + 1][0] = GNext(queue[j - 1][0])
      BY <1>3, <2>3
    <3>2. (j - 1) + 1 = j
      BY <2>1
    <3> QED  BY <3>1, <3>2
  <2>5. /\ queue[j - 1][0][3] >= read[3] /\ GIsPlace(queue[j - 1][0])
        /\ queue[j - 1][0][1] = c.coll /\ queue[j][0][1] = c.coll
    BY <1>1, <1>4, <2>1, <2>3 DEF GIsPlace
  <2>6. queue[j][0][3] >= queue[j - 1][0][3]
    BY <1>1, <2>4, <2>5, GNextUpto DEF GUpto, GIsPlace
  <2>7. queue[j][0][3] \in Int /\ queue[j - 1][0][3] \in Int
    BY <1>4, <2>1, <2>3
  <2> QED  BY <1>5, <2>1, <2>5, <2>6, <2>7
<1>7. Len(queue) \in 1 .. Len(queue)
  BY <1>2
<1>8. GIsPlace(queue[Len(queue)][0]) /\ queue[Len(queue)][0][1] = c.coll
      /\ queue[Len(queue)][0][3] >= read[3]
  BY <1>1, <1>4, <1>6, <1>7 DEF GIsPlace
<1> QED  BY <1>1, <1>5, <1>8 DEF GIsPlace, queue, read, c

(* The contributor whose turn it is has made the call for the element that   *)
(* the root reads.                                                           *)
LEMMA GContributorCalled ==
    ASSUME GInv, OneGatherRoot, NEW r \in Ranks, G!InCall(r), G!IsRoot(r),
           gchan[r].next_contrib # r,
           gchan[r].packet_element_id_rcv = 0 => Waiting(gdata, r) # {}
    PROVE  LET c == gchan[r]
               q == c.next_contrib
               i == c.processed_elements_root + 1
           IN  q \in Ranks /\ i \in Nat \ {0} /\ Called(gchan, q, c.coll, i)
<1> DEFINE c == gchan[r]
           k == c.coll
           q == c.next_contrib
           p == c.processed_elements_root
           e == c.packet_element_id_rcv
           cq == gchan[q]
           queue == gdata[q][r]
           read == GRead(q, c)
           sent == GSent(gsupport[q], GGated(q))
           fill == GFill(q, cq)
<1>1. r = GRoot /\ GTypeInv
  BY GIsRoot DEF GInv
<1>2. /\ k \in Int /\ q \in Ranks /\ q \in Int
      /\ p \in Int /\ p >= 0 /\ e \in Int /\ e >= 0 /\ e < ElementsPerPacket
      /\ ElementsPerPacket \in Int
  BY <1>1, GRootFields, Numbers
<1>3. q \in Contributors
  BY <1>1, <1>2, GRootIs
<1>4. GExpects(queue, read) = sent
  BY <1>1, <1>3, GRankFields DEF GWayInv
<1>5. /\ e = 0 => read = <<k, q, p + 1>>
      /\ e # 0 => read = GNext(<<k, q, p - e + 1>>)
  BY <1>2 DEF GRead
<1>6. e = 0 => queue # <<>>
  <2> SUFFICES ASSUME e = 0 PROVE queue # <<>>
    OBVIOUS
  <2>1. PICK src : src \in Waiting(gdata, r)
    OBVIOUS
  <2>2. src = q
    BY <1>1, <2>1, GReadsOf
  <2> QED  BY <2>1, <2>2 DEF Waiting
<1>7. GIsPlace(sent) /\ GIsPlace(fill) /\ GUpto(sent, fill)
  BY <1>3, GSentUpto
<1> HIDE DEF c, k, q, p, e, cq, queue, read, sent, fill
<1>8. e # 0 => read[1] = k + 1 \/ (read[1] = k /\ read[3] >= p + 2)
  BY <1>2, <1>5 DEF GNext
<1>9. sent[1] > k \/ (sent[1] = k /\ sent[3] >= p + 2)
  <2>1. CASE queue = <<>>
    <3>1. sent = read /\ e # 0
      BY <1>4, <1>6, <2>1 DEF GExpects
    <3> QED  BY <1>2, <1>8, <3>1
  <2>2. CASE queue # <<>>
    <3> DEFINE last == queue[Len(queue)][0]
    <3>1. sent = GNext(last)
      BY <1>4, <2>2 DEF GExpects
    <3>2. GIsPlace(last) /\ last[1] = k /\ last[3] >= read[3] /\ GIsPlace(read) /\ read[1] = k
      BY <1>1, <1>3, <2>2, GQueueAhead DEF queue, read, c, k
    <3> HIDE DEF last
    <3>3. read[3] >= p + 1
      <4>1. e = 0 => read[3] = p + 1
        BY <1>5
      <4>2. e # 0 => read[3] >= p + 2
        BY <1>2, <1>8, <3>2
      <4> QED  BY <1>2, <3>2, <4>1, <4>2 DEF GIsPlace
    <3>4. last[3] >= p + 1
      BY <1>2, <3>2, <3>3 DEF GIsPlace
    <3> QED  BY <1>2, <3>1, <3>2, <3>4, Numbers DEF GNext, GIsPlace
  <2> QED  BY <2>1, <2>2
<1>10. fill[1] > k \/ (fill[1] = k /\ fill[3] >= p + 2)
  BY <1>2, <1>7, <1>9 DEF GUpto, GIsPlace
<1>11. /\ cq \in GChannel /\ GCallInv(q, cq)
       /\ fill[1] = cq.coll /\ fill[3] = cq.returned - cq.packet_element_id + 1
  BY <1>1, <1>2, GTypes DEF GTypeInv, GChanInv, GFill, fill, cq
<1>12. /\ cq.coll \in Int /\ cq.returned \in Int /\ cq.packet_element_id \in Int
       /\ cq.packet_element_id >= 0 /\ cq.entered \in {cq.returned, cq.returned + 1}
  BY <1>11, GChannelFields DEF GCallInv
<1>13. Called(gchan, q, k, p + 1)
  BY <1>2, <1>10, <1>11, <1>12 DEF Called, cq
<1> QED  BY <1>2, <1>13 DEF c, k, q, p

LEMMA GGoes ==
    ASSUME GInv, OneGatherRoot, NEW r \in Ranks, G!Application(r)
    PROVE  LET k == gchan[r].coll
           IN  Goes(gchan, gchan', r, G!Calls(k, r), G!GatherNeeds(k, r, gchan[r].entered))
<1> DEFINE c == gchan[r]
           c2 == gchan'[r]
           k == c.coll
           needs == G!GatherNeeds(k, r, c.entered)
<1>1. GTypeInv /\ G!TypeOK /\ c \in GChannel /\ gchan \in [Ranks -> GChannel]
  BY GTypes, GTypeOK DEF GInv, GTypeInv
<1>2. ASSUME NEW new, gchan' = [gchan EXCEPT ![r] = new]
      PROVE  c2 = new /\ \A q \in Ranks \ {r} : gchan'[q] = gchan[q]
  BY <1>1, <1>2
<1>3. ASSUME NEW d, {"coll", "entered", "returned"} \subseteq DOMAIN d,
             d.coll = k, d.entered = c.entered, c.returned < c.entered
      PROVE  Returning(c, G!Returned(r, d), G!Calls(k, r))
  <2>1. CASE c.entered = G!Calls(k, r)
    <3>1. G!Returned(r, d) = G!Opened(k + 1)
      BY <1>3, <2>1 DEF G!Returned
    <3> QED  BY <1>3, <2>1, <3>1 DEF Returning, G!Opened
  <2>2. CASE c.entered # G!Calls(k, r)
    <3> DEFINE e == G!Returned(r, d)
    <3>1. e = [d EXCEPT !.returned = d.entered, !.requested = FALSE]
      BY <1>3, <2>2 DEF G!Returned
    <3> HIDE DEF e
    <3>2. e.coll = k /\ e.entered = c.entered /\ e.returned = c.entered
      BY <1>3, <3>1
    <3> QED  BY <1>3, <2>2, <3>2 DEF Returning, e
  <2> QED  BY <2>1, <2>2
<1>4. CASE G!Call(r)
  <2>1. c.entered = c.returned
    <3>1. c.entered \in {c.returned, c.returned + 1} /\ c.returned \in Int
      BY <1>1, GChannelFields DEF GTypeInv, GChanInv, GCallInv
    <3> QED  BY <1>4, <3>1 DEF G!Call, G!InCall
  <2>2. gchan' = [gchan EXCEPT ![r] = [c EXCEPT !.entered = @ + 1]]
    BY <1>4 DEF G!Call
  <2>3. Entering(c, [c EXCEPT !.entered = @ + 1])
    BY <1>1, <2>1 DEF Entering, GChannel
  <2> QED  BY <1>2, <2>2, <2>3 DEF Goes
<1>5. CASE G!SendRequest(r)
  <2>1. gchan' = [gchan EXCEPT ![r] = [c EXCEPT !.requested = TRUE]]
    BY <1>5 DEF G!SendRequest
  <2>2. Silent(c, [c EXCEPT !.requested = TRUE])
    BY <1>1 DEF Silent, GChannel
  <2> QED  BY <1>2, <2>1, <2>2 DEF Goes
<1>6. CASE G!Receive(r)
  <2> DEFINE d(net) == G!Counted([c EXCEPT !.net = net])
  <2>1. /\ G!InCall(r) /\ G!IsRoot(r) /\ c.returned < c.entered
        /\ c.next_contrib # r /\ c.packet_element_id_rcv = 0 => Waiting(gdata, r) # {}
        /\ \E net : gchan' = [gchan EXCEPT ![r] = G!Returned(r, d(net))]
    <3>1. [c EXCEPT !.net = c.net] = c
      BY <1>1 DEF GChannel
    <3> QED  BY <1>6, <3>1, GWires DEF G!Receive, G!InCall
  <2>2. PICK net : gchan' = [gchan EXCEPT ![r] = G!Returned(r, d(net))]
    BY <2>1
  <2>3. {"coll", "entered", "returned"} \subseteq DOMAIN d(net)
        /\ d(net).coll = k /\ d(net).entered = c.entered
    BY <1>1 DEF GChannel, G!Counted
  <2> HIDE DEF d
  <2>4. Returning(c, G!Returned(r, d(net)), G!Calls(k, r))
    BY <1>3, <2>1, <2>3
  <2>5. AllCalled(gchan, k, needs)
    <3> DEFINE q == c.next_contrib
               i == c.processed_elements_root + 1
    <3>1. /\ (c.entered - 1) \div GatherCounts[k] = q
          /\ (c.entered - 1) % GatherCounts[k] = c.processed_elements_root
      BY <2>1, GNextElement DEF GInv
    <3>2. CASE q = r
      <4>1. needs = {}
        BY <3>1, <3>2 DEF G!GatherNeeds
      <4> QED  BY <4>1 DEF AllCalled
    <3>3. CASE q # r
      <4>1. q \in Ranks /\ i \in Nat \ {0} /\ Called(gchan, q, k, i)
        BY <2>1, <3>3, GContributorCalled
      <4>2. needs \subseteq {<<q, i>>}
        BY <3>1 DEF G!GatherNeeds
      <4> HIDE DEF i, q, needs
      <4> QED  BY <4>1, <4>2 DEF AllCalled
    <3> QED  BY <3>2, <3>3
  <2> QED  BY <1>2, <2>2, <2>4, <2>5 DEF Goes
<1>7. CASE G!Send(r)
  <2> DEFINE packed == [c.net EXCEPT ![c.packet_element_id] = <<k, r, c.entered>>]
             d == [c EXCEPT !.net = packed,
                      !.packet_element_id = IF G!Leaves(c) THEN 0 ELSE @ + 1,
                      !.op = IF G!Leaves(c) THEN "GATHER" ELSE @]
  <2>1. /\ G!InCall(r) /\ ~ G!IsRoot(r) /\ c.returned < c.entered
        /\ gchan' = [gchan EXCEPT ![r] = G!Returned(r, d)]
    BY <1>7 DEF G!Send, G!InCall
  <2>2. {"coll", "entered", "returned"} \subseteq DOMAIN d
        /\ d.coll = k /\ d.entered = c.entered
    BY <1>1 DEF GChannel
  <2> HIDE DEF d
  <2>3. Returning(c, G!Returned(r, d), G!Calls(k, r))
    BY <1>3, <2>1, <2>2
  <2>4. AllCalled(gchan, k, needs)
    <3>1. r # GatherRoots[k]
      BY <1>1, <2>1, GSenderFields
    <3> QED  BY <3>1 DEF AllCalled, G!GatherNeeds
  <2> QED  BY <1>2, <2>1, <2>3, <2>4 DEF Goes
<1> QED  BY <1>4, <1>5, <1>6, <1>7 DEF G!Application
=============================================================================
