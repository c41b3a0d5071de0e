------------------------- MODULE CollectivesProofs -------------------------
(****************************************************************************)
(* The reduces of Collectives, and what the proofs about the kinds give for *)
(* the whole program, for every number of ranks, every program, every depth *)
(* of the FIFOs and every number of sums.                                   *)
(*                                                                          *)
(* A contributor may use the credit of a later reduce, from another root,   *)
(* before the one that is meant for it.  The invariant therefore does not   *)
(* say whose credits a rank uses, but counts: as many credits are used or   *)
(* under way to a rank as were issued to it.                                *)
(****************************************************************************)
EXTENDS ScatterProofs

-----------------------------------------------------------------------------
(* Cells of columns of given heights, to count credits with: one is added to *)
(* or taken from the top of a column.                                        *)

Cells(D, f) == {cell \in D \X (Nat \ {0}) : cell[2] <= f[cell[1]]}

LEMMA CellsSame ==
    ASSUME NEW D, NEW f, NEW g, \A d \in D : f[d] = g[d]
    PROVE  Cells(D, f) = Cells(D, g)
BY DEF Cells

LEMMA NoCells ==
    ASSUME NEW D, NEW f, \A d \in D : f[d] = 0
    PROVE  IsFiniteSet(Cells(D, f)) /\ Cardinality(Cells(D, f)) = 0
<1>1. Cells(D, f) = {}
  BY DEF Cells
<1> QED  BY <1>1, FS_EmptySet

LEMMA CellsMore ==
    ASSUME NEW D, NEW f, NEW g, NEW d \in D, f[d] \in Nat, g[d] = f[d] + 1,
           \A e \in D : e # d => g[e] = f[e], IsFiniteSet(Cells(D, f))
    PROVE  /\ IsFiniteSet(Cells(D, g))
           /\ Cardinality(Cells(D, f)) \in Nat
           /\ Cardinality(Cells(D, g)) = Cardinality(Cells(D, f)) + 1
<1> DEFINE cell == <<d, f[d] + 1>>
<1>1. cell \notin Cells(D, f)
  BY DEF Cells
<1>2. Cells(D, g) = Cells(D, f) \cup {cell}
  <2>1. ASSUME NEW c \in D \X (Nat \ {0})
        PROVE  c[2] <= g[c[1]] <=> c[2] <= f[c[1]] \/ c = cell
    <3>1. CASE c[1] = d
      <4>1. c[2] <= f[d] + 1 <=> c[2] <= f[d] \/ c[2] = f[d] + 1
        BY <2>1
      <4>2. c = <<c[1], c[2]>>
        BY <2>1
      <4> QED  BY <3>1, <4>1, <4>2
    <3>2. CASE c[1] # d
      BY <2>1, <3>2
    <3> QED  BY <3>1, <3>2
  <2>2. cell \in D \X (Nat \ {0})
    OBVIOUS
  <2> HIDE DEF cell
  <2> QED  BY <2>1, <2>2 DEF Cells
<1> HIDE DEF cell
<1> QED  BY <1>1, <1>2, FS_AddElement, FS_CardinalityType

(* Of two sets of cells, one that has not more has a cell the other lacks,   *)
(* or is the same.                                                           *)
LEMMA CellOutside ==
    ASSUME NEW D, NEW f, NEW g, IsFiniteSet(Cells(D, f)), IsFiniteSet(Cells(D, g)),
           Cardinality(Cells(D, f)) < Cardinality(Cells(D, g))
    PROVE  \E d \in D : \E n \in Nat : n >= 1 /\ n <= g[d] /\ ~ (n <= f[d])
<1>1. ~ (Cells(D, g) \subseteq Cells(D, f))
  <2>1. Cells(D, g) \subseteq Cells(D, f)
            => Cardinality(Cells(D, g)) <= Cardinality(Cells(D, f))
    BY FS_Subset
  <2> QED  BY <2>1, FS_CardinalityType
<1>2. PICK c \in Cells(D, g) : c \notin Cells(D, f)
  BY <1>1
<1> QED  BY <1>2 DEF Cells

-----------------------------------------------------------------------------
(* The ring of sums: the slot that is d places on from another, and how many *)
(* places a slot is on                                                       *)

On(slot, d) ==
    IF slot + d < credits_flow_control THEN slot + d ELSE slot + d - credits_flow_control

Distance(from, slot) ==
    IF slot >= from THEN slot - from ELSE slot - from + credits_flow_control

LEMMA RingNumbers ==
    /\ credits_flow_control \in Nat /\ credits_flow_control >= 1
    /\ READS_LIMIT \in Nat /\ READS_LIMIT >= 1
    /\ \A slot : slot \in R!Slots <=>
                 slot \in Int /\ 0 <= slot /\ slot < credits_flow_control
BY ProgramAssumption DEF R!Slots

LEMMA OneOn ==
    ASSUME NEW slot \in R!Slots
    PROVE  R!Next1(slot) = On(slot, 1) /\ R!Next1(slot) \in R!Slots
<1>1. R!Next1(slot) = IF slot + 1 = credits_flow_control THEN 0 ELSE slot + 1
  BY Wraps, RingNumbers DEF R!Next1
<1> QED  BY <1>1, RingNumbers DEF On

LEMMA PlacesOn ==
    ASSUME NEW first \in R!Slots, NEW d \in Int, 0 <= d, d <= credits_flow_control
    PROVE  /\ On(first, d) \in R!Slots
           /\ d < credits_flow_control => /\ Distance(first, On(first, d)) = d
                                          /\ R!Next1(On(first, d)) = On(first, d + 1)
           /\ d >= 1 => On(R!Next1(first), d - 1) = On(first, d)
<1>1. On(first, d) \in R!Slots
  BY RingNumbers DEF On
<1>2. d < credits_flow_control => Distance(first, On(first, d)) = d
  BY RingNumbers DEF On, Distance
<1>3. d < credits_flow_control => R!Next1(On(first, d)) = On(first, d + 1)
  <2>1. R!Next1(On(first, d)) = On(On(first, d), 1)
    BY <1>1, OneOn
  <2> QED  BY <2>1, RingNumbers DEF On
<1>4. d >= 1 => On(R!Next1(first), d - 1) = On(first, d)
  <2>1. R!Next1(first) = On(first, 1)
    BY OneOn
  <2> QED  BY <2>1, RingNumbers DEF On
<1> QED  BY <1>1, <1>2, <1>3, <1>4

LEMMA Distances ==
    ASSUME NEW first \in R!Slots, NEW slot \in R!Slots
    PROVE  /\ Distance(first, slot) \in Int /\ 0 <= Distance(first, slot)
           /\ Distance(first, slot) < credits_flow_control
           /\ On(first, Distance(first, slot)) = slot
           /\ Distance(first, slot) = 0 <=> slot = first
           /\ slot # first =>
                  Distance(R!Next1(first), slot) = Distance(first, slot) - 1
           /\ Distance(R!Next1(first), first) = credits_flow_control - 1
<1>1. R!Next1(first) = IF first + 1 < credits_flow_control THEN first + 1 ELSE 0
  BY OneOn, RingNumbers DEF On
<1>2. /\ first \in Int /\ 0 <= first /\ first < credits_flow_control
      /\ slot \in Int /\ 0 <= slot /\ slot < credits_flow_control
      /\ credits_flow_control \in Int
  BY RingNumbers
<1>3. slot # first => Distance(R!Next1(first), slot) = Distance(first, slot) - 1
  BY <1>1, <1>2 DEF Distance
<1>4. Distance(R!Next1(first), first) = credits_flow_control - 1
  BY <1>1, <1>2 DEF Distance
<1> QED  BY <1>2, <1>3, <1>4 DEF On, Distance

(* The sums under way, from the one completed next, the m + 1st of reduce k. *)
(* Rank q has given to the first ahead[q].                                   *)
Sums(result, first, k, m, ahead) ==
    /\ result \in [R!Slots -> SUBSET R!Contribution]
    /\ \A slot \in R!Slots : result[slot] =
           {<<k, q, m + 1 + Distance(first, slot)>> :
                q \in {p \in Ranks : Distance(first, slot) < ahead[p]}}

(* Where the next contribution of each rank is added *)
Pointers(r, s, ahead) ==
    /\ \A q \in Ranks : q # r => s.add_to[q] = On(s.current_buffer_element, ahead[q])
    /\ s.add_to_root = On(s.current_buffer_element, ahead[r])

Ring(r, s, k, m, ahead) ==
    /\ Pointers(r, s, ahead)
    /\ Sums(s.reduce_result, s.current_buffer_element, k, m, ahead)

(* A contribution of rank p is added, *)
LEMMA SumsAdd ==
    ASSUME NEW result, NEW first \in R!Slots, NEW k, NEW m \in Int,
           NEW ahead, NEW ahead2, NEW p \in Ranks, NEW item \in R!Contribution,
           Sums(result, first, k, m, ahead),
           \A q \in Ranks : ahead[q] \in Int,
           0 <= ahead[p], ahead[p] < credits_flow_control,
           ahead2[p] = ahead[p] + 1, \A q \in Ranks : q # p => ahead2[q] = ahead[q],
           item = <<k, p, m + 1 + ahead[p]>>
    PROVE  LET slot == On(first, ahead[p])
           IN  Sums([result EXCEPT ![slot] = @ \cup {item}], first, k, m, ahead2)
<1> DEFINE at == On(first, ahead[p])
           result2 == [result EXCEPT ![at] = @ \cup {item}]
<1>1. at \in R!Slots /\ Distance(first, at) = ahead[p]
  BY PlacesOn, RingNumbers
<1>2. result \in [R!Slots -> SUBSET R!Contribution]
  BY DEF Sums
<1>3. \A slot \in R!Slots : result2[slot] =
          IF slot = at THEN result[at] \cup {item} ELSE result[slot]
  BY <1>1, <1>2
<1>4. result2 \in [R!Slots -> SUBSET R!Contribution]
  BY <1>1, <1>2
<1>5. \A slot \in R!Slots : Distance(first, slot) = ahead[p] => slot = at
  BY Distances
<1> HIDE DEF at, result2
<1>6. ASSUME NEW slot \in R!Slots
      PROVE  result2[slot] = {<<k, q, m + 1 + Distance(first, slot)>> :
                                  q \in {x \in Ranks : Distance(first, slot) < ahead2[x]}}
  <2> DEFINE d == Distance(first, slot)
             older == {x \in Ranks : d < ahead[x]}
             newer == {x \in Ranks : d < ahead2[x]}
  <2>1. d \in Int /\ 0 <= d /\ (d = ahead[p] => slot = at)
    BY <1>5, Distances
  <2>2. result[slot] = {<<k, q, m + 1 + d>> : q \in older}
    BY DEF Sums
  <2> HIDE DEF d
  <2>3. CASE slot = at
    <3>1. d = ahead[p]
      BY <1>1, <2>3 DEF d
    <3>2. newer = older \cup {p}
      BY <2>1, <3>1
    <3> HIDE DEF older, newer
    <3> QED  BY <1>3, <2>2, <2>3, <3>1, <3>2 DEF d, newer
  <2>4. CASE slot # at
    <3>1. newer = older
      BY <2>1, <2>4
    <3> QED  BY <1>3, <2>2, <2>4, <3>1 DEF d
  <2> QED  BY <2>3, <2>4
<1> QED  BY <1>4, <1>6 DEF Sums, at, result2

(* the first sum emptied. *)
LEMMA SumsEmpty ==
    ASSUME NEW result, NEW first \in R!Slots, NEW k, NEW m \in Int,
           NEW ahead, NEW ahead2,
           Sums(result, first, k, m, ahead),
           \A q \in Ranks : /\ ahead[q] \in Int /\ 1 <= ahead[q]
                            /\ ahead[q] <= credits_flow_control
                            /\ ahead2[q] = ahead[q] - 1
    PROVE  Sums([result EXCEPT ![first] = {}], R!Next1(first), k, m + 1, ahead2)
<1> DEFINE next == R!Next1(first)
           result2 == [result EXCEPT ![first] = {}]
<1>1. result \in [R!Slots -> SUBSET R!Contribution]
  BY DEF Sums
<1>2. result2 \in [R!Slots -> SUBSET R!Contribution]
      /\ \A slot \in R!Slots :
             result2[slot] = IF slot = first THEN {} ELSE result[slot]
  BY <1>1
<1> HIDE DEF result2
<1>3. ASSUME NEW slot \in R!Slots
      PROVE  result2[slot] = {<<k, q, m + 1 + 1 + Distance(next, slot)>> :
                                  q \in {x \in Ranks : Distance(next, slot) < ahead2[x]}}
  <2> DEFINE d == Distance(first, slot)
             e == Distance(next, slot)
             older == {x \in Ranks : d < ahead[x]}
             newer == {x \in Ranks : e < ahead2[x]}
  <2>1. CASE slot = first
    <3>1. e = credits_flow_control - 1
      BY <2>1, Distances
    <3> HIDE DEF e
    <3>2. newer = {}
      BY <3>1, RingNumbers
    <3> QED  BY <1>2, <2>1, <3>2 DEF e
  <2>2. CASE slot # first
    <3>1. d \in Int /\ e = d - 1
      BY <2>2, Distances
    <3>2. result[slot] = {<<k, q, m + 1 + d>> : q \in older}
      BY DEF Sums
    <3> HIDE DEF d, e
    <3>3. newer = older /\ m + 1 + 1 + e = m + 1 + d
      BY <3>1
    <3> HIDE DEF older, newer
    <3> QED  BY <1>2, <2>2, <3>2, <3>3 DEF e, newer
  <2> QED  BY <2>1, <2>2
<1> QED  BY <1>2, <1>3 DEF Sums, result2

LEMMA SameCardinality == \A T : R!Cardinality(T) = Cardinality(T)
BY DEF R!Cardinality, Cardinality

(* When it has as many contributions as there are ranks, they are of all.    *)
LEMMA SumComplete ==
    ASSUME NEW result, NEW first \in R!Slots, NEW k, NEW m \in Int, NEW ahead,
           Sums(result, first, k, m, ahead), \A q \in Ranks : ahead[q] \in Int,
           Cardinality(result[first]) = NumRanks
    PROVE  /\ \A q \in Ranks : ahead[q] >= 1
           /\ result[first] = {<<k, q, m + 1>> : q \in Ranks}
<1> DEFINE P == {p \in Ranks : 0 < ahead[p]}
           f == [q \in P |-> <<k, q, m + 1>>]
           sum == {<<k, q, m + 1>> : q \in P}
<1>1. Distance(first, first) = 0
  BY Distances
<1>2. result[first] = sum
  <2>1. result[first] = {<<k, q, m + 1 + 0>> : q \in P}
    BY <1>1 DEF Sums
  <2> QED  BY <2>1
<1>3. f \in Surjection(P, sum)
  BY DEF Surjection
<1> HIDE DEF f
<1>4. IsFiniteSet(Ranks) /\ Cardinality(Ranks) = NumRanks
  BY Numbers, FS_Interval DEF Ranks
<1>5. IsFiniteSet(P) /\ Cardinality(P) <= NumRanks /\ (Cardinality(P) = NumRanks => P = Ranks)
  BY <1>4, FS_Subset
<1>6. Cardinality(sum) <= Cardinality(P)
  BY <1>3, <1>5, FS_Surjection
<1>7. P = Ranks
  <2>1. Cardinality(P) \in Nat
    BY <1>5, FS_CardinalityType
  <2> QED  BY <1>2, <1>5, <1>6, <2>1, Numbers
<1>8. result[first] = {<<k, q, m + 1>> : q \in Ranks}
  BY <1>2, <1>7
<1>9. \A q \in Ranks : ahead[q] >= 1
  BY <1>7
<1> QED  BY <1>8, <1>9

-----------------------------------------------------------------------------
(* The state of the reduces.  Reduce k is one of the program, and r its root: *)
RRooted(r, k) == k \in 1 .. R!NumCollectives /\ ReduceRoots[k] = r

(* The kernel of r is at the reduce that its program is root of: it has got  *)
(* the first element. *)
Begun(r) ==
    /\ RRooted(r, rchan[r].coll)
    /\ rchan[r].returned > 0 \/ (rchan[r].sent /\ reduce_send[r] = <<>>)

(* Its completed sums; what rank q has given to it; what of that was added;  *)
(* how many sums, from the one completed next, q is in.                      *)
Summed(r) == rchan[r].returned + Len(reduce_recv[r])

Given(r, q) ==
    LET k == rchan[r].coll
    IN  IF q = r THEN rchan[r].returned + (IF rchan[r].sent THEN 1 ELSE 0)
        ELSE IF rchan[q].coll > k THEN ReduceCounts[k]
        ELSE IF rchan[q].coll = k THEN rchan[q].returned ELSE 0

Added(r, q) ==
    Given(r, q) - (IF q = r THEN Len(reduce_send[r]) ELSE Len(rdata[q][r]))

Ahead(r, q) == IF Begun(r) THEN Added(r, q) - Summed(r) ELSE 0

AheadOf(r) == [q \in Ranks |-> Ahead(r, q)]

RRing(r) == Ring(r, rsupport[r], rchan[r].coll, Summed(r), AheadOf(r))

(* The program of a rank *)
RCallInv(r) ==
    LET c == rchan[r]
    IN  /\ c.entered \in {c.returned, c.returned + 1}
        /\ c.entered = c.returned => ~ c.sent /\ ~ c.credit
        /\ c.coll > R!NumCollectives => c.entered = 0
        /\ c.coll <= R!NumCollectives => c.returned < ReduceCounts[c.coll]
        /\ RRooted(r, c.coll) => ~ c.credit /\ (c.op = "SYNCH" <=> c.returned = 0 /\ ~ c.sent)
        /\ ~ RRooted(r, c.coll) => ~ c.sent

(* The FIFOs between the program of a root and its kernel *)
RHandedInv(r) ==
    LET c == rchan[r]
    IN  /\ reduce_send[r] # <<>> =>
               /\ c.sent /\ Len(reduce_send[r]) = 1
               /\ reduce_send[r][1].op = "SYNCH" <=> c.returned = 0
               /\ reduce_send[r][1].message_size = ReduceCounts[c.coll]
               /\ reduce_send[r][1].data = <<c.coll, r, c.entered>>
        /\ reduce_recv[r] # <<>> =>
               /\ c.sent /\ reduce_send[r] = <<>> /\ Len(reduce_recv[r]) = 1
               /\ reduce_recv[r][1] = {<<c.coll, q, c.entered>> : q \in Ranks}

(* Its credits: those sent and those due are as many as the sums allow.      *)
(* Alone, a rank gives none.                                                 *)
Allowed(k, m) ==
    IF ReduceCounts[k] < m + credits_flow_control
    THEN ReduceCounts[k] ELSE m + credits_flow_control

CreditsDue(s, k, m) ==
    IF s.send_credits
    THEN m < ReduceCounts[k] /\ s.credits >= 1 /\ s.sent_credits + s.credits = Allowed(k, m)
    ELSE /\ s.sent_credits = Allowed(k, m)
         /\ s.sent_credits < s.message_size => s.credits = 0

RCreditInv(r) ==
    LET s == rsupport[r]
    IN  /\ ~ s.send_credits => s.send_to = 0
        /\ NumRanks > 1 /\ ~ Begun(r) => ~ s.send_credits
        /\ NumRanks > 1 /\ Begun(r) =>
               /\ s.message_size = ReduceCounts[rchan[r].coll]
               /\ CreditsDue(s, rchan[r].coll, Summed(r))

RRankInv(r) == RCallInv(r) /\ RHandedInv(r) /\ RCreditInv(r) /\ RRing(r)

(* What rank q has sent to r, and what it may *)
RQueueInv(q, r) ==
    IF Begun(r) /\ q # r
    THEN /\ Summed(r) <= Added(r, q)
         /\ \A n \in 1 .. Len(rdata[q][r]) :
                rdata[q][r][n] = <<rchan[r].coll, q, Added(r, q) + n>>
         /\ Given(r, q) + (IF rchan[q].coll = rchan[r].coll /\ rchan[q].credit
                           THEN 1 ELSE 0) <= Summed(r) + credits_flow_control
    ELSE rdata[q][r] = <<>>

(* Nobody is at a reduce whose root has left it, *)
RRootLast(r, q) ==
    \A k \in 1 .. R!NumCollectives :
        ReduceRoots[k] = r /\ rchan[r].coll > k => rchan[q].coll > k

(* and nobody gets on in a reduce before its root.                           *)
Started(k) ==
    LET r == ReduceRoots[k]
    IN  rchan[r].coll > k \/ (rchan[r].coll = k /\ Begun(r))

GotOn(q, k) ==
    \/ rchan[q].coll > k
    \/ rchan[q].coll = k /\ (rchan[q].returned > 0 \/ rchan[q].credit)

RRootFirst(q) ==
    \A k \in 1 .. R!NumCollectives :
        ReduceRoots[k] # q /\ GotOn(q, k) => Started(k)

(* The credits for rank q: those of reduce k that were issued, those that q  *)
(* used in reduce k, and those under way. *)
Issued(k, q) ==
    LET r == ReduceRoots[k]
        s == rsupport[r]
    IN  IF rchan[r].coll > k THEN ReduceCounts[k]
        ELSE IF rchan[r].coll = k /\ Begun(r)
        THEN s.sent_credits + (IF s.send_credits /\ s.send_to > q THEN 1 ELSE 0)
        ELSE 0

Used(k, q) ==
    LET c == rchan[q]
    IN  IF c.coll > k THEN ReduceCounts[k]
        ELSE IF c.coll = k THEN c.returned + (IF c.credit THEN 1 ELSE 0)
        ELSE 0

Needs(q) == {k \in 1 .. R!NumCollectives : ReduceRoots[k] # q}

IssuedTo(q) == Cells(Needs(q), [k \in Needs(q) |-> Issued(k, q)])
UsedBy(q)   == Cells(Needs(q), [k \in Needs(q) |-> Used(k, q)])
SentTo(q)   == Cells(Ranks, [src \in Ranks |-> Len(rcontrol[src][q])])

RTokenInv(q) ==
    /\ IsFiniteSet(IssuedTo(q)) /\ IsFiniteSet(UsedBy(q)) /\ IsFiniteSet(SentTo(q))
    /\ Cardinality(UsedBy(q)) + Cardinality(SentTo(q)) = Cardinality(IssuedTo(q))

RChannel ==
    [coll : 1 .. R!NumCollectives + 1, entered : Nat, returned : Nat,
     op : {"SYNCH", "REDUCE"}, sent : BOOLEAN, credit : BOOLEAN]

RSupport ==
    [sender_id : {0, 1, R!Either}, contiguos_reads : 0 .. READS_LIMIT - 1,
     send_credits : BOOLEAN, credits : Int, send_to : Ranks,
     sent_credits : Nat, message_size : Nat,
     add_to : [Ranks -> R!Slots], add_to_root : R!Slots,
     current_buffer_element : R!Slots,
     reduce_result : [R!Slots -> SUBSET R!Contribution]]

RMessage == [op : {"SYNCH", "REDUCE"}, message_size : Nat, data : R!Contribution]

RResult == SUBSET R!Contribution

RTag == Int

RTypeOK ==
    /\ rchan \in [Ranks -> RChannel]
    /\ rsupport \in [Ranks -> RSupport]
    /\ reduce_send \in [Ranks -> Seq(RMessage)]
    /\ reduce_recv \in [Ranks -> Seq(RResult)]
    /\ rdata \in Net(R!Contribution)
    /\ rcontrol \in Net(RTag)

RInv ==
    /\ RTypeOK
    /\ \A r \in Ranks : RRankInv(r) /\ RRootFirst(r) /\ RTokenInv(r)
    /\ \A q, r \in Ranks : RQueueInv(q, r) /\ RRootLast(r, q)


-----------------------------------------------------------------------------
LEMMA RWires ==
    /\ R!Ranks = Ranks /\ R!Quiet = Quiet
    /\ \A n, s, d : R!HasRoom(n, s, d) = HasRoom(n, s, d)
    /\ \A n, d : R!Waiting(n, d) = Waiting(n, d)
    /\ \A n, s, d : R!Take(n, s, d) = Take(n, s, d)
    /\ \A n, s, d, p : R!Put(n, s, d, p) = Put(n, s, d, p)
BY DEF R!Ranks, Ranks, R!Quiet, Quiet, R!HasRoom, HasRoom, R!Waiting, Waiting,
       R!Take, Take, R!Put, Put

LEMMA RNumbers ==
    /\ R!NumCollectives \in Nat
    /\ ReduceRoots \in [1 .. R!NumCollectives -> Ranks]
    /\ ReduceCounts \in [1 .. R!NumCollectives -> Nat \ {0}]
    /\ \A k \in 1 .. R!NumCollectives :
           /\ ReduceRoots[k] \in Ranks
           /\ ReduceCounts[k] \in Int /\ ReduceCounts[k] >= 1
BY RootsAndCounts DEF ReduceRoots, ReduceCounts, R!NumCollectives

(* The fields of the state at one rank *)
LEMMA RTypes ==
    ASSUME RTypeOK, NEW r \in Ranks
    PROVE  /\ rchan[r] \in RChannel
           /\ rsupport[r] \in RSupport
           /\ reduce_send[r] \in Seq(RMessage)
           /\ reduce_recv[r] \in Seq(RResult)
           /\ \A q \in Ranks : /\ rdata[r][q] \in Seq(R!Contribution)
                               /\ rcontrol[r][q] \in Seq(RTag)
BY DEF RTypeOK, Net

LEMMA RChannelFields ==
    ASSUME NEW c \in RChannel
    PROVE  /\ c.coll \in Int /\ c.coll >= 1 /\ c.coll <= R!NumCollectives + 1
           /\ c.entered \in Int /\ c.entered >= 0 /\ c.returned \in Int /\ c.returned >= 0
           /\ c.op \in {"SYNCH", "REDUCE"}
           /\ c.sent \in BOOLEAN /\ c.credit \in BOOLEAN
BY RNumbers DEF RChannel

LEMMA RSupportFields ==
    ASSUME NEW s \in RSupport
    PROVE  /\ s.send_credits \in BOOLEAN /\ s.credits \in Int
           /\ s.send_to \in Int /\ s.send_to >= 0 /\ s.send_to < NumRanks
           /\ s.send_to \in Ranks
           /\ s.sent_credits \in Int /\ s.sent_credits >= 0
           /\ s.message_size \in Int /\ s.message_size >= 0
           /\ s.add_to \in [Ranks -> R!Slots] /\ s.add_to_root \in R!Slots
           /\ s.current_buffer_element \in R!Slots
BY Numbers DEF RSupport

LEMMA RItems ==
    \A k \in 1 .. R!NumCollectives : \A q \in Ranks : \A i \in Nat :
        <<k, q, i>> \in R!Contribution
BY RWires DEF R!Contribution

(* The lengths that are counted with *)
LEMMA RLengths ==
    ASSUME RTypeOK, NEW r \in Ranks
    PROVE  /\ Len(reduce_send[r]) \in Int /\ Len(reduce_send[r]) >= 0
           /\ (Len(reduce_send[r]) = 0 <=> reduce_send[r] = <<>>)
           /\ Len(reduce_recv[r]) \in Int /\ Len(reduce_recv[r]) >= 0
           /\ (Len(reduce_recv[r]) = 0 <=> reduce_recv[r] = <<>>)
           /\ \A q \in Ranks : /\ Len(rdata[q][r]) \in Int /\ Len(rdata[q][r]) >= 0
                               /\ (Len(rdata[q][r]) = 0 <=> rdata[q][r] = <<>>)
                               /\ Len(rcontrol[q][r]) \in Nat
<1>1. reduce_send[r] \in Seq(RMessage) /\ reduce_recv[r] \in Seq(RResult)
  BY RTypes
<1>2. \A q \in Ranks : rdata[q][r] \in Seq(R!Contribution) /\ rcontrol[q][r] \in Seq(RTag)
  BY RTypes
<1> QED  BY <1>1, <1>2, EmptySeq, LenProperties

(* What the invariant says of a rank *)
LEMMA RAt ==
    ASSUME RInv, NEW r \in Ranks
    PROVE  /\ rchan[r] \in RChannel /\ rsupport[r] \in RSupport
           /\ RCallInv(r) /\ RHandedInv(r) /\ RCreditInv(r) /\ RRing(r)
           /\ RRootFirst(r) /\ RTokenInv(r)
           /\ \A q \in Ranks : RQueueInv(q, r) /\ RRootLast(r, q)
BY RTypes DEF RInv, RRankInv

(* The counts of a reduce under way *)
LEMMA RCounts ==
    ASSUME RInv, NEW r \in Ranks
    PROVE  /\ Summed(r) \in Int /\ Summed(r) >= 0
           /\ RRooted(r, rchan[r].coll) =>
                  /\ rchan[r].coll \in 1 .. R!NumCollectives
                  /\ \A q \in Ranks : Given(r, q) \in Int /\ Given(r, q) >= 0
                                      /\ Given(r, q) <= ReduceCounts[rchan[r].coll]
                                      /\ Added(r, q) \in Int
           /\ \A q \in Ranks : Ahead(r, q) \in Int /\ 0 <= Ahead(r, q)
                               /\ Ahead(r, q) <= credits_flow_control
           /\ Ahead(r, r) <= 1
<1>1. rchan[r] \in RChannel /\ RCallInv(r) /\ RHandedInv(r)
  BY RAt
<1>2. Summed(r) \in Int /\ Summed(r) >= 0
  BY <1>1, RChannelFields, RLengths DEF Summed, RInv
<1>3. ASSUME RRooted(r, rchan[r].coll)
      PROVE  /\ rchan[r].coll \in 1 .. R!NumCollectives
             /\ \A q \in Ranks : Given(r, q) \in Int /\ Given(r, q) >= 0
                                 /\ Given(r, q) <= ReduceCounts[rchan[r].coll]
                                 /\ Added(r, q) \in Int
  <2>1. rchan[r].coll \in 1 .. R!NumCollectives
    BY <1>3 DEF RRooted
  <2>2. ReduceCounts[rchan[r].coll] \in Int /\ ReduceCounts[rchan[r].coll] >= 1
    BY <2>1, RNumbers
  <2> SUFFICES ASSUME NEW q \in Ranks
               PROVE  Given(r, q) \in Int /\ Given(r, q) >= 0 /\ Added(r, q) \in Int
                      /\ Given(r, q) <= ReduceCounts[rchan[r].coll]
    BY <2>1
  <2>3. rchan[q] \in RChannel /\ RCallInv(q)
    BY RAt
  <2>4. Given(r, q) \in Int /\ Given(r, q) >= 0
        /\ Given(r, q) <= ReduceCounts[rchan[r].coll]
    <3>1. q = r => Given(r, q) = rchan[r].returned + (IF rchan[r].sent THEN 1 ELSE 0)
      BY DEF Given
    <3>2. q # r => Given(r, q) \in {ReduceCounts[rchan[r].coll], 0}
                   \/ (rchan[q].coll = rchan[r].coll /\ Given(r, q) = rchan[q].returned)
      BY DEF Given
    <3>3. rchan[r].returned + 1 <= ReduceCounts[rchan[r].coll]
      BY <1>1, <2>1, <2>2, RChannelFields, RNumbers DEF RCallInv
    <3>4. rchan[q].coll = rchan[r].coll => rchan[q].returned <= ReduceCounts[rchan[r].coll]
      BY <2>1, <2>2, <2>3, RChannelFields, RNumbers DEF RCallInv
    <3>5. rchan[r].returned \in Int /\ rchan[r].returned >= 0
          /\ rchan[q].returned \in Int /\ rchan[q].returned >= 0
      BY <1>1, <2>3, RChannelFields
    <3> QED  BY <3>1, <3>2, <3>3, <3>4, <3>5, <2>2
  <2> QED  BY <2>4, RLengths DEF Added, RInv
<1>4. ASSUME Begun(r) PROVE Ahead(r, r) \in {0, 1}
  <2>1. rchan[r].returned \in Int
    BY <1>1, RChannelFields
  <2> DEFINE one == IF rchan[r].sent THEN 1 ELSE 0
  <2>2. one \in {0, 1} /\ (rchan[r].sent => one = 1)
    OBVIOUS
  <2>7. Given(r, r) = rchan[r].returned + one
    BY DEF Given
  <2> HIDE DEF one
  <2>3. RTypeOK
    BY DEF RInv
  <2>4. /\ Len(reduce_send[r]) \in Int /\ Len(reduce_recv[r]) \in Int
        /\ Len(reduce_send[r]) # 0 => Len(reduce_send[r]) = 1 /\ rchan[r].sent
        /\ Len(reduce_recv[r]) # 0 => /\ Len(reduce_recv[r]) = 1 /\ rchan[r].sent
                                      /\ Len(reduce_send[r]) = 0
    BY <1>1, <2>3, RLengths DEF RHandedInv
  <2> DEFINE handed == Len(reduce_send[r])
             results == Len(reduce_recv[r])
  <2>5. /\ Ahead(r, r) = Added(r, r) - Summed(r) /\ Added(r, r) = Given(r, r) - handed
        /\ Summed(r) = rchan[r].returned + results
    BY <1>4 DEF Ahead, Added, Summed
  <2> HIDE DEF handed, results
  <2>8. /\ one \in {0, 1} /\ handed \in Int /\ results \in Int
        /\ handed # 0 => handed = 1 /\ one = 1
        /\ results # 0 => results = 1 /\ one = 1 /\ handed = 0
    BY <2>2, <2>4 DEF handed, results
  <2>6. one \in Int /\ handed \in Int /\ results \in Int /\ one - handed - results \in {0, 1}
    <3>1. CASE results # 0
      BY <2>8, <3>1
    <3>2. CASE results = 0
      BY <2>8, <3>2
    <3> QED  BY <3>1, <3>2
  <2> QED  BY <2>1, <2>5, <2>6, <2>7
<1>5. ASSUME NEW q \in Ranks, q # r, Begun(r)
      PROVE  Ahead(r, q) \in Int /\ 0 <= Ahead(r, q) /\ Ahead(r, q) <= credits_flow_control
  <2>1. RRooted(r, rchan[r].coll)
    BY <1>5 DEF Begun
  <2>2. RQueueInv(q, r)
    BY RAt
  <2>3. /\ Summed(r) <= Added(r, q) /\ Added(r, q) <= Given(r, q)
        /\ Given(r, q) <= Summed(r) + credits_flow_control
    <3>1. /\ Summed(r) <= Added(r, q)
          /\ Given(r, q) + (IF rchan[q].coll = rchan[r].coll /\ rchan[q].credit
                            THEN 1 ELSE 0) <= Summed(r) + credits_flow_control
      BY <1>5, <2>2 DEF RQueueInv
    <3>2. Added(r, q) = Given(r, q) - Len(rdata[q][r])
      BY <1>5 DEF Added
    <3>3. Len(rdata[q][r]) \in Int /\ Len(rdata[q][r]) >= 0 /\ Given(r, q) \in Int
      BY <1>3, <2>1, RLengths DEF RInv
    <3> QED  BY <1>2, <3>1, <3>2, <3>3, RingNumbers
  <2>4. Given(r, q) \in Int /\ Added(r, q) \in Int
    BY <1>3, <2>1
  <2> QED  BY <1>2, <1>5, <2>3, <2>4, RingNumbers DEF Ahead
<1>6. ~ Begun(r) => \A q \in Ranks : Ahead(r, q) = 0
  BY DEF Ahead
<1> QED  BY <1>2, <1>3, <1>4, <1>5, <1>6, RingNumbers

LEMMA RInit == R!Init => RInv
<1> SUFFICES ASSUME R!Init PROVE RInv
  OBVIOUS
<1> DEFINE opened == R!Opened(1)
           start == [sender_id |-> 0, contiguos_reads |-> 0, send_credits |-> FALSE,
                     credits |-> credits_flow_control, send_to |-> 0, sent_credits |-> 0,
                     message_size |-> 0, add_to |-> [q \in Ranks |-> 0],
                     add_to_root |-> 0, current_buffer_element |-> 0,
                     reduce_result |-> [slot \in R!Slots |-> {}]]
<1>1. /\ rchan = [r \in Ranks |-> opened] /\ rsupport = [r \in Ranks |-> start]
      /\ reduce_send = [r \in Ranks |-> <<>>] /\ reduce_recv = [r \in Ranks |-> <<>>]
      /\ rdata = Quiet /\ rcontrol = Quiet
  BY RWires DEF R!Init
<1>2. RTypeOK
  <2>1. opened \in RChannel
    BY RNumbers DEF R!Opened, RChannel
  <2>2. /\ 0 \in Ranks /\ 0 \in R!Slots /\ credits_flow_control \in Int
        /\ 0 \in 0 .. READS_LIMIT - 1
    BY Numbers, RingNumbers
  <2>3. [slot \in R!Slots |-> {}] \in [R!Slots -> SUBSET R!Contribution]
    OBVIOUS
  <2>4. start \in RSupport
    BY <2>2, <2>3 DEF RSupport
  <2>5. reduce_send \in [Ranks -> Seq(RMessage)] /\ reduce_recv \in [Ranks -> Seq(RResult)]
    BY <1>1, EmptySeq
  <2> HIDE DEF opened, start
  <2> QED  BY <1>1, <2>1, <2>4, <2>5, QuietIsEmpty DEF RTypeOK
<1>3. ASSUME NEW r \in Ranks
      PROVE  /\ rchan[r].coll = 1 /\ rchan[r].entered = 0 /\ rchan[r].returned = 0
             /\ rchan[r].op = "SYNCH" /\ ~ rchan[r].sent /\ ~ rchan[r].credit
             /\ reduce_send[r] = <<>> /\ reduce_recv[r] = <<>>
             /\ ~ Begun(r) /\ \A q \in Ranks : Ahead(r, q) = 0
             /\ \A q \in Ranks : rdata[q][r] = <<>> /\ rcontrol[q][r] = <<>>
  BY <1>1, QuietIsEmpty DEF R!Opened, Begun, Ahead
<1>4. ASSUME NEW r \in Ranks PROVE RRankInv(r)
  <2>1. RCallInv(r) /\ RHandedInv(r)
    BY <1>3, RNumbers DEF RCallInv, RHandedInv
  <2>2. RCreditInv(r)
    BY <1>1, <1>3 DEF RCreditInv
  <2>3. RRing(r)
    <3>1. On(0, 0) = 0 /\ 0 \in R!Slots
      BY RingNumbers DEF On
    <3>2. Pointers(r, rsupport[r], AheadOf(r))
      BY <1>1, <1>3, <3>1 DEF Pointers, AheadOf
    <3>3. \A slot \in R!Slots : {p \in Ranks : Distance(0, slot) < AheadOf(r)[p]} = {}
      BY <1>3, <3>1, Distances DEF AheadOf
    <3>4. Sums([slot \in R!Slots |-> {}], 0, rchan[r].coll, Summed(r), AheadOf(r))
      BY <3>3 DEF Sums
    <3> QED  BY <1>1, <3>2, <3>4 DEF RRing, Ring
  <2> QED  BY <2>1, <2>2, <2>3 DEF RRankInv
<1>5. ASSUME NEW r \in Ranks PROVE RRootFirst(r)
  BY <1>3 DEF RRootFirst, GotOn
<1>6. ASSUME NEW q \in Ranks PROVE RTokenInv(q)
  <2>1. \A k \in Needs(q) : Issued(k, q) = 0 /\ Used(k, q) = 0
    BY <1>3, RNumbers DEF Needs, Issued, Used
  <2>2. \A src \in Ranks : Len(rcontrol[src][q]) = 0
    BY <1>3, EmptySeq
  <2> QED  BY <2>1, <2>2, NoCells DEF RTokenInv, IssuedTo, UsedBy, SentTo
<1>7. ASSUME NEW q \in Ranks, NEW r \in Ranks PROVE RQueueInv(q, r) /\ RRootLast(r, q)
  BY <1>3 DEF RQueueInv, RRootLast
<1> QED  BY <1>2, <1>4, <1>5, <1>6, <1>7 DEF RInv

-----------------------------------------------------------------------------
(* What the steps leave as it is *)

LEMMA RSameCounts ==
    ASSUME RInv,
           \A b \in Ranks : /\ rchan'[b].coll = rchan[b].coll
                            /\ rchan'[b].returned = rchan[b].returned
                            /\ rchan'[b].sent = rchan[b].sent,
           reduce_send' = reduce_send, reduce_recv' = reduce_recv, rdata' = rdata
    PROVE  \A b \in Ranks :
               /\ (Begun(b)' <=> Begun(b)) /\ Summed(b)' = Summed(b)
               /\ AheadOf(b)' = AheadOf(b)
               /\ \A q \in Ranks : Given(b, q)' = Given(b, q) /\ Added(b, q)' = Added(b, q)
<1> TAKE b \in Ranks
<1>1. (Begun(b)' <=> Begun(b)) /\ Summed(b)' = Summed(b)
  BY DEF Begun, Summed
<1>2. ASSUME NEW q \in Ranks
      PROVE  Given(b, q)' = Given(b, q) /\ Added(b, q)' = Added(b, q)
  <2>1. Given(b, q)' = Given(b, q)
    BY DEF Given
  <2> QED  BY <2>1 DEF Added
<1>3. AheadOf(b)' = AheadOf(b)
  BY <1>1, <1>2 DEF AheadOf, Ahead
<1> QED  BY <1>1, <1>2, <1>3

SameSums(s2, s) ==
    /\ s2.add_to = s.add_to /\ s2.add_to_root = s.add_to_root
    /\ s2.current_buffer_element = s.current_buffer_element
    /\ s2.reduce_result = s.reduce_result

SameCredits(s2, s) ==
    /\ s2.send_credits = s.send_credits /\ s2.credits = s.credits
    /\ s2.send_to = s.send_to /\ s2.sent_credits = s.sent_credits
    /\ s2.message_size = s.message_size

LEMMA RRingStays ==
    ASSUME NEW r \in Ranks, RRing(r), rsupport[r] \in RSupport,
           SameSums(rsupport'[r], rsupport[r]),
           AheadOf(r)' = AheadOf(r),
           \/ rchan'[r].coll = rchan[r].coll /\ Summed(r)' = Summed(r)
           \/ \A q \in Ranks : AheadOf(r)[q] = 0
    PROVE  RRing(r)'
<1> DEFINE s == rsupport[r]
           first == s.current_buffer_element
<1>1. Pointers(r, s, AheadOf(r)) /\ Sums(s.reduce_result, first, rchan[r].coll, Summed(r),
                                         AheadOf(r))
  BY DEF RRing, Ring
<1>2. Pointers(r, rsupport'[r], AheadOf(r))
  BY <1>1 DEF Pointers, SameSums
<1>3. Sums(s.reduce_result, first, rchan'[r].coll, Summed(r)', AheadOf(r))
  <2>1. CASE rchan'[r].coll = rchan[r].coll /\ Summed(r)' = Summed(r)
    BY <1>1, <2>1
  <2>2. CASE \A q \in Ranks : AheadOf(r)[q] = 0
    <3>1. \A slot \in R!Slots : {p \in Ranks : Distance(first, slot) < AheadOf(r)[p]} = {}
      BY <2>2, Distances, RSupportFields
    <3>2. \A slot \in R!Slots : s.reduce_result[slot] = {}
      BY <1>1, <3>1 DEF Sums
    <3>3. s.reduce_result \in [R!Slots -> SUBSET R!Contribution]
      BY <1>1 DEF Sums
    <3> QED  BY <3>1, <3>2, <3>3 DEF Sums
  <2> QED  BY <2>1, <2>2
<1> QED  BY <1>2, <1>3 DEF RRing, Ring, SameSums

LEMMA RTokensStay ==
    ASSUME NEW q, RTokenInv(q),
           \A k \in Needs(q) : Issued(k, q)' = Issued(k, q) /\ Used(k, q)' = Used(k, q),
           \A src \in Ranks : rcontrol'[src][q] = rcontrol[src][q]
    PROVE  RTokenInv(q)'
<1>1. IssuedTo(q)' = IssuedTo(q) /\ UsedBy(q)' = UsedBy(q)
  BY DEF IssuedTo, UsedBy, Needs
<1>2. SentTo(q)' = SentTo(q)
  BY DEF SentTo
<1> QED  BY <1>1, <1>2 DEF RTokenInv

(* A step that moves no element, no credit and no program on *)
LEMMA RQuietStep ==
    ASSUME RInv,
           \A b \in Ranks :
               /\ rchan'[b].coll = rchan[b].coll /\ rchan'[b].returned = rchan[b].returned
               /\ rchan'[b].sent = rchan[b].sent /\ rchan'[b].credit = rchan[b].credit
               /\ SameCredits(rsupport'[b], rsupport[b])
               /\ SameSums(rsupport'[b], rsupport[b]),
           reduce_send' = reduce_send, reduce_recv' = reduce_recv,
           rdata' = rdata, rcontrol' = rcontrol
    PROVE  \A r \in Ranks :
               /\ RCreditInv(r)' /\ RRing(r)' /\ RRootFirst(r)' /\ RTokenInv(r)'
               /\ \A q \in Ranks : RQueueInv(q, r)' /\ RRootLast(r, q)'
<1>1. \A b \in Ranks : /\ (Begun(b)' <=> Begun(b)) /\ Summed(b)' = Summed(b)
                       /\ AheadOf(b)' = AheadOf(b)
                       /\ \A q \in Ranks : Given(b, q)' = Given(b, q)
                                           /\ Added(b, q)' = Added(b, q)
  BY RSameCounts
<1> TAKE r \in Ranks
<1>2. RCreditInv(r)'
  <2>1. RCreditInv(r)
    BY RAt
  <2> QED  BY <1>1, <2>1 DEF RCreditInv, CreditsDue, SameCredits
<1>3. RRing(r)'
  BY <1>1, RAt, RRingStays
<1>4. RRootFirst(r)'
  <2>1. RRootFirst(r)
    BY RAt
  <2>2. \A k \in 1 .. R!NumCollectives :
            (GotOn(r, k)' <=> GotOn(r, k)) /\ (Started(k)' <=> Started(k))
    BY <1>1, RNumbers DEF GotOn, Started
  <2> QED  BY <2>1, <2>2 DEF RRootFirst
<1>5. RTokenInv(r)'
  <2>1. \A k \in Needs(r) : Issued(k, r)' = Issued(k, r) /\ Used(k, r)' = Used(k, r)
    BY <1>1, RNumbers DEF Needs, Issued, Used, SameCredits
  <2> QED  BY <2>1, RTokensStay, RAt
<1>6. ASSUME NEW q \in Ranks PROVE RQueueInv(q, r)' /\ RRootLast(r, q)'
  <2>1. RQueueInv(q, r) /\ RRootLast(r, q)
    BY RAt
  <2> QED  BY <1>1, <2>1 DEF RQueueInv, RRootLast
<1> QED  BY <1>2, <1>3, <1>4, <1>5, <1>6

LEMMA RCallStep ==
    ASSUME RInv, NEW r \in Ranks, R!Call(r)
    PROVE  RInv'
<1>1. /\ rchan' = [rchan EXCEPT ![r].entered = @ + 1]
      /\ rchan[r].coll <= R!NumCollectives /\ ~ (rchan[r].returned < rchan[r].entered)
      /\ rsupport' = rsupport /\ reduce_send' = reduce_send /\ reduce_recv' = reduce_recv
      /\ rdata' = rdata /\ rcontrol' = rcontrol
  BY DEF R!Call, R!InCall
<1>2. rchan \in [Ranks -> RChannel] /\ rchan[r] \in RChannel
  BY RAt DEF RInv, RTypeOK
<1>3. /\ rchan' \in [Ranks -> RChannel]
      /\ rchan'[r] = [rchan[r] EXCEPT !.entered = @ + 1]
      /\ \A q \in Ranks : q # r => rchan'[q] = rchan[q]
  BY <1>1, <1>2 DEF RChannel
<1>4. rchan[r].entered = rchan[r].returned /\ rchan'[r].entered = rchan[r].returned + 1
  BY <1>1, <1>2, <1>3, RAt, RChannelFields DEF RCallInv
<1>5. /\ rchan'[r].coll = rchan[r].coll /\ rchan'[r].returned = rchan[r].returned
      /\ rchan'[r].sent = rchan[r].sent /\ rchan'[r].credit = rchan[r].credit
      /\ rchan'[r].op = rchan[r].op
  BY <1>2, <1>3 DEF RChannel
<1>6. RTypeOK'
  BY <1>1, <1>3 DEF RInv, RTypeOK
<1>7. \A b \in Ranks :
          /\ RCreditInv(b)' /\ RRing(b)' /\ RRootFirst(b)' /\ RTokenInv(b)'
          /\ \A q \in Ranks : RQueueInv(q, b)' /\ RRootLast(b, q)'
  BY <1>1, <1>3, <1>5, RQuietStep DEF SameCredits, SameSums
<1>8. ASSUME NEW q \in Ranks PROVE RCallInv(q)' /\ RHandedInv(q)'
  <2>1. RCallInv(q) /\ RHandedInv(q)
    BY RAt
  <2>2. CASE q = r
    <3>1. ~ rchan[r].sent
      BY <1>4, <2>1, <2>2 DEF RCallInv
    <3>2. reduce_send[r] = <<>> /\ reduce_recv[r] = <<>>
      BY <2>1, <2>2, <3>1 DEF RHandedInv
    <3>3. rchan[r].returned + 1 # rchan[r].returned /\ rchan[r].coll \in Int
      BY <1>2, RChannelFields
    <3>4. RCallInv(r)'
      BY <1>1, <1>4, <1>5, <2>1, <2>2, <3>3, RNumbers DEF RCallInv, RRooted
    <3> QED  BY <1>1, <2>2, <3>2, <3>4 DEF RHandedInv
  <2>3. CASE q # r
    BY <1>1, <1>3, <2>1, <2>3 DEF RCallInv, RHandedInv
  <2> QED  BY <2>2, <2>3
<1> QED  BY <1>6, <1>7, <1>8 DEF RInv, RRankInv

LEMMA RPollEmptyStep ==
    ASSUME RInv, NEW r \in Ranks, R!PollEmpty(r)
    PROVE  RInv'
<1>1. /\ rsupport' = [rsupport EXCEPT ![r].sender_id = R!Either, ![r].contiguos_reads = 0]
      /\ rchan' = rchan /\ reduce_send' = reduce_send /\ reduce_recv' = reduce_recv
      /\ rdata' = rdata /\ rcontrol' = rcontrol
  BY DEF R!PollEmpty
<1>2. rsupport \in [Ranks -> RSupport] /\ rsupport[r] \in RSupport
  BY RAt DEF RInv, RTypeOK
<1>3. /\ rsupport' \in [Ranks -> RSupport]
      /\ rsupport'[r] = [rsupport[r] EXCEPT !.sender_id = R!Either, !.contiguos_reads = 0]
      /\ \A q \in Ranks : q # r => rsupport'[q] = rsupport[q]
  <2> DEFINE s2 == [rsupport[r] EXCEPT !.sender_id = R!Either, !.contiguos_reads = 0]
  <2>1. 0 \in 0 .. READS_LIMIT - 1
    BY RingNumbers
  <2>2. s2 \in RSupport
    BY <1>2, <2>1 DEF RSupport
  <2>3. rsupport' = [rsupport EXCEPT ![r] = s2]
    BY <1>1, <1>2 DEF RSupport
  <2> HIDE DEF s2
  <2>4. /\ rsupport' \in [Ranks -> RSupport] /\ rsupport'[r] = s2
        /\ \A q \in Ranks : q # r => rsupport'[q] = rsupport[q]
    BY <1>2, <2>2, <2>3
  <2> QED  BY <2>4 DEF s2
<1>4. RTypeOK'
  BY <1>1, <1>3 DEF RInv, RTypeOK
<1>5. \A b \in Ranks : SameCredits(rsupport'[b], rsupport[b]) /\ SameSums(rsupport'[b], rsupport[b])
  <2>1. SameCredits(rsupport'[r], rsupport[r]) /\ SameSums(rsupport'[r], rsupport[r])
    BY <1>2, <1>3 DEF RSupport, SameCredits, SameSums
  <2> QED  BY <1>3, <2>1 DEF SameCredits, SameSums
<1>6. \A b \in Ranks :
          /\ RCreditInv(b)' /\ RRing(b)' /\ RRootFirst(b)' /\ RTokenInv(b)'
          /\ \A q \in Ranks : RQueueInv(q, b)' /\ RRootLast(b, q)'
  BY <1>1, <1>5, RQuietStep
<1>7. \A q \in Ranks : RCallInv(q)' /\ RHandedInv(q)'
  BY <1>1, RAt DEF RCallInv, RHandedInv
<1> QED  BY <1>4, <1>6, <1>7 DEF RInv, RRankInv

-----------------------------------------------------------------------------
(* What a credit allows *)

LEMMA RIssued ==
    ASSUME RInv, NEW q \in Ranks, NEW k \in Needs(q)
    PROVE  LET b == ReduceRoots[k]
           IN  /\ Issued(k, q) \in Nat /\ Issued(k, q) <= ReduceCounts[k]
               /\ Issued(k, q) >= 1 => Started(k)
               /\ rchan[b].coll = k => Issued(k, q) <= Summed(b) + credits_flow_control
<1> DEFINE b == ReduceRoots[k]
           s == rsupport[b]
<1>1. k \in 1 .. R!NumCollectives /\ b \in Ranks /\ b # q
      /\ ReduceCounts[k] \in Int /\ ReduceCounts[k] >= 1
  BY RNumbers DEF Needs
<1>2. NumRanks > 1
  BY <1>1, Numbers
<1>3. Summed(b) \in Int /\ Summed(b) >= 0
  BY <1>1, RCounts
<1>4. s \in RSupport /\ RCreditInv(b)
  BY <1>1, RAt
<1>5. ASSUME rchan[b].coll = k, Begun(b)
      PROVE  s.sent_credits + (IF s.send_credits /\ s.send_to > q THEN 1 ELSE 0)
                 <= Allowed(k, Summed(b))
  <2>1. CreditsDue(s, k, Summed(b))
    BY <1>2, <1>4, <1>5 DEF RCreditInv
  <2> HIDE DEF s
  <2>2. CASE s.send_credits
    BY <1>4, <2>1, <2>2, RSupportFields, RingNumbers DEF CreditsDue
  <2>3. CASE ~ s.send_credits
    <3>1. s.sent_credits = Allowed(k, Summed(b))
      BY <2>1, <2>3 DEF CreditsDue
    <3> QED  BY <1>4, <2>3, <3>1, RSupportFields
  <2> QED  BY <2>2, <2>3
<1>6. Allowed(k, Summed(b)) <= ReduceCounts[k]
      /\ Allowed(k, Summed(b)) <= Summed(b) + credits_flow_control
      /\ Allowed(k, Summed(b)) \in Int
  BY <1>1, <1>3, RingNumbers DEF Allowed
<1>7. CASE rchan[b].coll > k
  <2>1. Issued(k, q) = ReduceCounts[k] /\ Started(k)
    BY <1>7 DEF Issued, Started
  <2>2. rchan[b].coll # k
    BY <1>1, <1>7
  <2> QED  BY <1>1, <2>1, <2>2
<1>8. CASE ~ (rchan[b].coll > k) /\ rchan[b].coll = k /\ Begun(b)
  <2> DEFINE more == IF s.send_credits /\ s.send_to > q THEN 1 ELSE 0
  <2>1. Issued(k, q) = s.sent_credits + more /\ Started(k)
    BY <1>8 DEF Issued, Started
  <2>2. more \in {0, 1} /\ s.sent_credits \in Int /\ s.sent_credits >= 0
    BY <1>4, RSupportFields
  <2>3. s.sent_credits + more <= Allowed(k, Summed(b))
    BY <1>5, <1>8
  <2> HIDE DEF more
  <2> QED  BY <1>1, <1>3, <1>6, <2>1, <2>2, <2>3, RingNumbers
<1>9. CASE ~ (rchan[b].coll > k) /\ ~ (rchan[b].coll = k /\ Begun(b))
  <2>1. Issued(k, q) = 0
    BY <1>9 DEF Issued
  <2> QED  BY <1>1, <1>3, <2>1, RingNumbers
<1> QED  BY <1>7, <1>8, <1>9

(* A rank that finds a credit may use it, whichever reduce it was issued for: *)
(* the kernel of its root has a sum for its next element.                    *)
LEMMA RCreditMeans ==
    ASSUME RInv, NEW q \in Ranks, rchan[q].coll \in 1 .. R!NumCollectives,
           ReduceRoots[rchan[q].coll] # q, ~ rchan[q].credit,
           NEW src \in Ranks, rcontrol[src][q] # <<>>
    PROVE  LET b == ReduceRoots[rchan[q].coll]
           IN  /\ b \in Ranks /\ rchan[b].coll = rchan[q].coll /\ Begun(b)
               /\ rchan[q].returned + 1 <= Summed(b) + credits_flow_control
<1> DEFINE j == rchan[q].coll
           b == ReduceRoots[j]
           i == rchan[q].returned
<1>1. /\ b \in Ranks /\ j \in Int /\ i \in Int /\ i >= 0
      /\ rchan[q] \in RChannel /\ RCallInv(q) /\ RRootFirst(q) /\ RTokenInv(q)
      /\ rchan[b] \in RChannel /\ RRootLast(b, q)
  BY RAt, RNumbers, RChannelFields
<1>2. i < ReduceCounts[j] /\ ReduceCounts[j] \in Int
  BY <1>1, RNumbers DEF RCallInv
<1>3. Cardinality(SentTo(q)) >= 1 /\ Cardinality(SentTo(q)) \in Nat
  <2>1. Len(rcontrol[src][q]) \in Nat /\ Len(rcontrol[src][q]) # 0
    BY RTypes, EmptySeq DEF RInv
  <2>2. <<src, 1>> \in SentTo(q)
    BY <2>1 DEF SentTo, Cells
  <2>3. IsFiniteSet(SentTo(q))
    BY <1>1 DEF RTokenInv
  <2> QED  BY <2>2, <2>3, FS_EmptySet, FS_CardinalityType
<1>4. PICK k \in Needs(q) : \E n \in Nat : n >= 1 /\ n <= Issued(k, q) /\ ~ (n <= Used(k, q))
  <2>1. /\ IsFiniteSet(IssuedTo(q)) /\ IsFiniteSet(UsedBy(q))
        /\ Cardinality(IssuedTo(q)) \in Nat /\ Cardinality(UsedBy(q)) \in Nat
        /\ Cardinality(UsedBy(q)) + Cardinality(SentTo(q)) = Cardinality(IssuedTo(q))
    BY <1>1, FS_CardinalityType DEF RTokenInv
  <2>2. Cardinality(UsedBy(q)) < Cardinality(IssuedTo(q))
    BY <1>3, <2>1
  <2>3. \E k \in Needs(q) : \E n \in Nat :
            n >= 1 /\ n <= [x \in Needs(q) |-> Issued(x, q)][k]
            /\ ~ (n <= [x \in Needs(q) |-> Used(x, q)][k])
    BY <2>1, <2>2, CellOutside DEF IssuedTo, UsedBy
  <2> QED  BY <2>3
<1>5. PICK n \in Nat : n >= 1 /\ n <= Issued(k, q) /\ ~ (n <= Used(k, q))
  BY <1>4
<1>6. k \in 1 .. R!NumCollectives /\ ReduceRoots[k] # q /\ ReduceRoots[k] \in Ranks
      /\ rchan[ReduceRoots[k]] \in RChannel /\ RCallInv(ReduceRoots[k])
      /\ RRootFirst(ReduceRoots[k])
  BY RNumbers, RAt DEF Needs
<1>7. Issued(k, q) \in Nat /\ Issued(k, q) <= ReduceCounts[k] /\ Started(k)
      /\ ReduceCounts[k] \in Int
  <2>1. Issued(k, q) \in Nat /\ Issued(k, q) <= ReduceCounts[k]
        /\ (Issued(k, q) >= 1 => Started(k)) /\ ReduceCounts[k] \in Int
    BY <1>6, RIssued, RNumbers
  <2> QED  BY <1>5, <2>1
<1>8. ~ (rchan[b].coll > j)
  BY <1>1 DEF RRootLast
<1>9. CASE k < j
  <2>1. Used(k, q) = ReduceCounts[k]
    BY <1>6, <1>9 DEF Used
  <2> QED  BY <1>5, <1>7, <2>1
<1>10. CASE k = j
  <2>1. rchan[b].coll = j /\ Begun(b)
    BY <1>7, <1>8, <1>10 DEF Started
  <2>2. Used(k, q) = i
    BY <1>1, <1>10 DEF Used
  <2>3. Issued(k, q) <= Summed(b) + credits_flow_control
    BY <1>10, <2>1, RIssued
  <2>4. Summed(b) \in Int
    BY <1>1, RCounts
  <2> QED  BY <1>1, <1>5, <1>7, <2>1, <2>2, <2>3, <2>4, RingNumbers
<1>11. CASE k > j
  <2> DEFINE a == ReduceRoots[k]
  <2>1. rchan[a].coll \in Int /\ rchan[a].coll > j
    BY <1>1, <1>6, <1>7, <1>11, RChannelFields DEF Started
  <2>2. a # b
    BY <1>8, <2>1
  <2>3. GotOn(a, j)
    BY <2>1 DEF GotOn
  <2>4. Started(j)
    BY <1>6, <2>2, <2>3 DEF RRootFirst
  <2>5. rchan[b].coll = j /\ Begun(b)
    BY <1>8, <2>4 DEF Started
  <2>6. RQueueInv(a, b) /\ Given(b, a) = ReduceCounts[j]
    BY <1>1, <1>6, <2>1, <2>2, <2>5, RAt DEF Given
  <2>7. ~ (rchan[a].coll = rchan[b].coll)
    BY <1>1, <2>1, <2>5
  <2>8. ReduceCounts[j] <= Summed(b) + credits_flow_control
    <3>1. Given(b, a) + 0 <= Summed(b) + credits_flow_control
      BY <2>2, <2>5, <2>6, <2>7 DEF RQueueInv
    <3>2. ReduceCounts[j] \in Int
      BY <1>2
    <3> QED  BY <2>6, <3>1, <3>2
  <2>9. Summed(b) \in Int
    BY <1>1, RCounts
  <2> QED  BY <1>1, <1>2, <2>5, <2>8, <2>9, RingNumbers
<1>12. k \in Int
  BY <1>6
<1> QED  BY <1>1, <1>9, <1>10, <1>11, <1>12

LEMMA RTakeCreditStep ==
    ASSUME RInv, NEW r \in Ranks, R!TakeCredit(r)
    PROVE  RInv'
<1> DEFINE k == rchan[r].coll
           b == ReduceRoots[k]
<1>1. PICK src \in Waiting(rcontrol, r) : rcontrol' = Take(rcontrol, src, r)
  BY RWires DEF R!TakeCredit
<1>2. /\ rchan' = [rchan EXCEPT ![r].credit = TRUE]
      /\ rchan[r].returned < rchan[r].entered /\ ~ R!IsRoot(r) /\ ~ rchan[r].credit
      /\ rsupport' = rsupport /\ reduce_send' = reduce_send /\ reduce_recv' = reduce_recv
      /\ rdata' = rdata
  BY DEF R!TakeCredit, R!InCall
<1>3. rchan \in [Ranks -> RChannel] /\ rchan[r] \in RChannel /\ RCallInv(r) /\ RHandedInv(r)
  BY RAt DEF RInv, RTypeOK
<1>4. k \in 1 .. R!NumCollectives /\ b # r /\ b \in Ranks /\ rchan[r].returned \in Int
      /\ rchan[r].returned >= 0
  <2>1. k \in Int /\ k >= 1 /\ rchan[r].returned \in Int /\ rchan[r].returned >= 0
        /\ rchan[r].entered # 0 /\ R!NumCollectives \in Int
    BY <1>2, <1>3, RChannelFields, RNumbers
  <2>2. k \in 1 .. R!NumCollectives
    BY <1>3, <2>1 DEF RCallInv
  <2> QED  BY <1>2, <2>1, <2>2, RNumbers DEF R!IsRoot
<1>5. /\ rcontrol \in Net(RTag)
      /\ src \in Ranks /\ rcontrol[src][r] \in Seq(RTag) /\ rcontrol[src][r] # <<>>
      /\ rcontrol' \in Net(RTag) /\ rcontrol'[src][r] = Tail(rcontrol[src][r])
      /\ \A x, y \in Ranks : x # src \/ y # r => rcontrol'[x][y] = rcontrol[x][y]
  <2>1. rcontrol \in Net(RTag)
    BY DEF RInv, RTypeOK
  <2> QED  BY <1>1, <2>1, TakeAt
<1>6. rchan[b].coll = k /\ Begun(b)
      /\ rchan[r].returned + 1 <= Summed(b) + credits_flow_control
  BY <1>2, <1>4, <1>5, RCreditMeans
<1>7. /\ rchan' \in [Ranks -> RChannel]
      /\ rchan'[r] = [rchan[r] EXCEPT !.credit = TRUE]
      /\ \A q \in Ranks : q # r => rchan'[q] = rchan[q]
  BY <1>2, <1>3 DEF RChannel
<1>8. /\ rchan'[r].coll = k /\ rchan'[r].returned = rchan[r].returned
      /\ rchan'[r].entered = rchan[r].entered
      /\ rchan'[r].sent = rchan[r].sent /\ rchan'[r].credit
      /\ rchan'[r].op = rchan[r].op
  BY <1>3, <1>7 DEF RChannel
<1>9. RTypeOK'
  BY <1>2, <1>5, <1>7 DEF RInv, RTypeOK
<1>10. \A x \in Ranks : /\ (Begun(x)' <=> Begun(x)) /\ Summed(x)' = Summed(x)
                        /\ AheadOf(x)' = AheadOf(x)
                        /\ \A q \in Ranks : Given(x, q)' = Given(x, q)
                                            /\ Added(x, q)' = Added(x, q)
  BY <1>2, <1>7, <1>8, RSameCounts
<1>11. \A q \in Ranks : rchan'[q].coll = rchan[q].coll /\ rchan'[q].returned = rchan[q].returned
  BY <1>7, <1>8
<1>12. ASSUME NEW q \in Ranks PROVE RRankInv(q)'
  <2>1. RCallInv(q) /\ RHandedInv(q) /\ RCreditInv(q) /\ RRing(q) /\ rsupport[q] \in RSupport
    BY RAt
  <2>2. RCallInv(q)'
    <3>1. CASE q = r
      <4>1. ~ RRooted(r, k)
        BY <1>4 DEF RRooted
      <4>2. rchan[r].entered # rchan[r].returned
        BY <1>2, <1>3, RChannelFields
      <4> QED  BY <1>8, <2>1, <3>1, <4>1, <4>2 DEF RCallInv, RRooted
    <3>2. CASE q # r
      BY <1>7, <2>1, <3>2 DEF RCallInv
    <3> QED  BY <3>1, <3>2
  <2>3. RHandedInv(q)'
    BY <1>2, <1>7, <1>8, <2>1 DEF RHandedInv
  <2>4. RCreditInv(q)'
    BY <1>2, <1>10, <1>11, <2>1 DEF RCreditInv, CreditsDue
  <2>5. RRing(q)'
    BY <1>2, <1>10, <1>11, <2>1, RRingStays DEF SameSums
  <2> QED  BY <2>2, <2>3, <2>4, <2>5 DEF RRankInv
<1>13. ASSUME NEW q \in Ranks PROVE RRootFirst(q)'
  <2>1. RRootFirst(q)
    BY RAt
  <2>2. \A x \in 1 .. R!NumCollectives : Started(x)' <=> Started(x)
    BY <1>10, <1>11, RNumbers DEF Started
  <2>3. ASSUME NEW x \in 1 .. R!NumCollectives, ReduceRoots[x] # q, GotOn(q, x)'
        PROVE  Started(x)
    <3>1. CASE GotOn(q, x)
      BY <2>1, <2>3, <3>1 DEF RRootFirst
    <3>2. CASE ~ GotOn(q, x)
      <4>1. q = r /\ x = k
        BY <1>7, <1>8, <2>3, <3>2 DEF GotOn
      <4> QED  BY <1>6, <4>1 DEF Started
    <3> QED  BY <3>1, <3>2
  <2> QED  BY <2>2, <2>3 DEF RRootFirst
<1>14. ASSUME NEW q \in Ranks PROVE RTokenInv(q)'
  <2>1. RTokenInv(q)
    BY RAt
  <2>2. \A x \in Needs(q) : Issued(x, q)' = Issued(x, q)
    BY <1>2, <1>10, <1>11, RNumbers DEF Needs, Issued
  <2>3. CASE q # r
    <3>1. \A x \in Needs(q) : Used(x, q)' = Used(x, q)
      BY <1>7, <2>3 DEF Used
    <3> QED  BY <1>5, <2>1, <2>2, <2>3, <3>1, RTokensStay
  <2>4. CASE q = r
    <3> DEFINE used  == [x \in Needs(r) |-> Used(x, r)]
               used2 == [x \in Needs(r) |-> Used(x, r)']
               sent  == [x \in Ranks |-> Len(rcontrol[x][r])]
               sent2 == [x \in Ranks |-> Len(rcontrol'[x][r])]
    <3>1. k \in Needs(r)
      BY <1>4 DEF Needs
    <3>2. /\ used[k] \in Nat /\ used2[k] = used[k] + 1
          /\ \A x \in Needs(r) : x # k => used2[x] = used[x]
      <4> SUFFICES ASSUME NEW x \in Needs(r)
                   PROVE  /\ x = k => /\ Used(x, r) = rchan[r].returned
                                      /\ Used(x, r)' = rchan[r].returned + 1
                          /\ x # k => Used(x, r)' = Used(x, r)
        BY <1>4, <3>1
      <4>1. x = k => Used(x, r) = rchan[r].returned
        BY <1>2, <1>3, RChannelFields DEF Used
      <4>2. x = k => Used(x, r)' = rchan[r].returned + 1
        BY <1>3, <1>8, RChannelFields DEF Used
      <4>3. x # k => Used(x, r)' = Used(x, r)
        BY <1>8 DEF Used
      <4> QED  BY <4>1, <4>2, <4>3
    <3>3. /\ sent2[src] \in Nat /\ sent[src] = sent2[src] + 1
          /\ \A x \in Ranks : x # src => sent2[x] = sent[x]
      <4>1. Len(Tail(rcontrol[src][r])) = Len(rcontrol[src][r]) - 1
            /\ Len(rcontrol[src][r]) \in Nat /\ Len(rcontrol[src][r]) # 0
        BY <1>5, EmptySeq, HeadTailProperties
      <4>2. sent2[src] = Len(rcontrol[src][r]) - 1 /\ sent[src] = Len(rcontrol[src][r])
        BY <1>5, <4>1
      <4>3. \A x \in Ranks : x # src => sent2[x] = sent[x]
        BY <1>5
      <4> DEFINE m == Len(rcontrol[src][r])
      <4>4. m \in Nat /\ m # 0 /\ sent2[src] = m - 1 /\ sent[src] = m
        BY <4>1, <4>2
      <4> HIDE DEF sent, sent2, m
      <4>5. sent2[src] \in Nat /\ sent[src] = sent2[src] + 1
        BY <4>4
      <4> QED  BY <4>3, <4>5
    <3>4. IsFiniteSet(Cells(Needs(r), used)) /\ IsFiniteSet(Cells(Ranks, sent))
          /\ IsFiniteSet(IssuedTo(r))
          /\ Cardinality(Cells(Needs(r), used)) + Cardinality(Cells(Ranks, sent))
                 = Cardinality(IssuedTo(r))
      BY <2>1, <2>4 DEF RTokenInv, UsedBy, SentTo
    <3>5. IssuedTo(r)' = IssuedTo(r)
      BY <2>2, <2>4 DEF IssuedTo, Needs
    <3>6. UsedBy(r)' = Cells(Needs(r), used2) /\ SentTo(r)' = Cells(Ranks, sent2)
      BY DEF UsedBy, SentTo, Needs
    <3> HIDE DEF used, used2, sent, sent2
    <3>7. /\ IsFiniteSet(Cells(Needs(r), used2)) /\ Cardinality(Cells(Needs(r), used)) \in Nat
          /\ Cardinality(Cells(Needs(r), used2)) = Cardinality(Cells(Needs(r), used)) + 1
      BY <3>1, <3>2, <3>4, CellsMore
    <3>8. IsFiniteSet(Cells(Ranks, sent2))
      <4>1. Cells(Ranks, sent2) \subseteq Cells(Ranks, sent)
        <5>1. ASSUME NEW x \in Ranks, NEW n \in Nat, n <= sent2[x] PROVE n <= sent[x]
          BY <1>5, <3>3, <5>1
        <5> QED  BY <5>1 DEF Cells
      <4> QED  BY <3>4, <4>1, FS_Subset
    <3>9. /\ Cardinality(Cells(Ranks, sent2)) \in Nat
          /\ Cardinality(Cells(Ranks, sent)) = Cardinality(Cells(Ranks, sent2)) + 1
      BY <1>5, <3>3, <3>8, CellsMore
    <3> QED  BY <2>4, <3>4, <3>5, <3>6, <3>7, <3>8, <3>9 DEF RTokenInv
  <2> QED  BY <2>3, <2>4
<1>15. ASSUME NEW q \in Ranks, NEW x \in Ranks PROVE RQueueInv(q, x)' /\ RRootLast(x, q)'
  <2>1. RQueueInv(q, x) /\ RRootLast(x, q)
    BY RAt
  <2>2. RRootLast(x, q)'
    BY <1>11, <2>1 DEF RRootLast
  <2>3. RQueueInv(q, x)'
    <3>1. CASE ~ (Begun(x) /\ q # x)
      BY <1>2, <1>10, <2>1, <3>1 DEF RQueueInv
    <3>2. CASE Begun(x) /\ q # x
      <4>1. Given(x, q) + (IF rchan'[q].coll = rchan'[x].coll /\ rchan'[q].credit
                           THEN 1 ELSE 0) <= Summed(x) + credits_flow_control
        <5>1. CASE q = r /\ rchan[x].coll = k
          <6>1. x = b
            BY <3>2, <5>1 DEF Begun, RRooted
          <6>2. Given(b, r) = rchan[r].returned
            BY <1>3, <1>4, <1>6, RChannelFields DEF Given
          <6>3. (IF rchan'[q].coll = rchan'[x].coll /\ rchan'[q].credit THEN 1 ELSE 0) = 1
            BY <1>8, <1>11, <5>1
          <6> QED  BY <1>6, <5>1, <6>1, <6>2, <6>3
        <5>2. CASE ~ (q = r /\ rchan[x].coll = k)
          <6>1. rchan'[q].coll = rchan'[x].coll /\ rchan'[q].credit
                    <=> rchan[q].coll = rchan[x].coll /\ rchan[q].credit
            BY <1>7, <1>8, <1>11, <5>2
          <6> QED  BY <2>1, <3>2, <6>1 DEF RQueueInv
        <5> QED  BY <5>1, <5>2
      <4> QED  BY <1>2, <1>10, <1>11, <2>1, <3>2, <4>1 DEF RQueueInv
    <3> QED  BY <3>1, <3>2
  <2> QED  BY <2>2, <2>3
<1> QED  BY <1>9, <1>12, <1>13, <1>14, <1>15 DEF RInv

-----------------------------------------------------------------------------
(* The program of the root *)

LEMMA ROfferStep ==
    ASSUME RInv, NEW r \in Ranks, R!Offer(r)
    PROVE  RInv'
<1> DEFINE c == rchan[r]
           k == c.coll
           mess == [op |-> c.op, message_size |-> ReduceCounts[k],
                    data |-> <<k, r, c.entered>>]
<1>1. /\ c.returned < c.entered /\ R!IsRoot(r) /\ ~ c.sent /\ reduce_send[r] = <<>>
      /\ reduce_send' = [reduce_send EXCEPT ![r] = <<mess>>]
      /\ rchan' = [rchan EXCEPT ![r].sent = TRUE, ![r].op = "REDUCE"]
      /\ rsupport' = rsupport /\ reduce_recv' = reduce_recv
      /\ rdata' = rdata /\ rcontrol' = rcontrol
  BY DEF R!Offer, R!InCall
<1>2. /\ rchan \in [Ranks -> RChannel] /\ c \in RChannel /\ RCallInv(r) /\ RHandedInv(r)
      /\ reduce_send \in [Ranks -> Seq(RMessage)]
  BY RAt DEF RInv, RTypeOK
<1>3. /\ k \in 1 .. R!NumCollectives /\ RRooted(r, k)
      /\ c.returned \in Int /\ c.returned >= 0 /\ c.entered = c.returned + 1
  <2>1. k \in Int /\ k >= 1 /\ c.returned \in Int /\ c.returned >= 0
        /\ R!NumCollectives \in Int
    BY <1>2, RChannelFields, RNumbers
  <2>2. k \in 1 .. R!NumCollectives /\ ReduceRoots[k] = r
    BY <1>1, <2>1 DEF R!IsRoot
  <2> QED  BY <1>1, <1>2, <2>1, <2>2 DEF RCallInv, RRooted
<1>4. mess \in RMessage /\ mess.op = c.op
      /\ mess.message_size = ReduceCounts[k] /\ mess.data = <<k, r, c.entered>>
  <2>1. <<k, r, c.entered>> \in R!Contribution
    BY <1>3, RItems
  <2>2. ReduceCounts[k] \in Nat
    BY <1>3, RNumbers
  <2> QED  BY <1>2, <2>1, <2>2 DEF RMessage, RChannel
<1> HIDE DEF mess
<1>5. /\ rchan' \in [Ranks -> RChannel]
      /\ rchan'[r] = [c EXCEPT !.sent = TRUE, !.op = "REDUCE"]
      /\ \A q \in Ranks : q # r => rchan'[q] = rchan[q]
  BY <1>1, <1>2 DEF RChannel
<1>6. /\ rchan'[r].coll = k /\ rchan'[r].returned = c.returned
      /\ rchan'[r].entered = c.entered
      /\ rchan'[r].sent /\ rchan'[r].credit = c.credit /\ rchan'[r].op = "REDUCE"
  BY <1>2, <1>5 DEF RChannel
<1>7. /\ reduce_send'[r] = <<mess>> /\ \A q \in Ranks : q # r => reduce_send'[q] = reduce_send[q]
      /\ reduce_send' \in [Ranks -> Seq(RMessage)]
      /\ Len(reduce_send'[r]) = 1 /\ reduce_send'[r][1] = mess /\ reduce_send'[r] # <<>>
      /\ Len(reduce_send[r]) = 0
  BY <1>1, <1>2, <1>4
<1>8. RTypeOK'
  BY <1>1, <1>5, <1>7 DEF RInv, RTypeOK
<1>9. \A q \in Ranks : rchan'[q].coll = rchan[q].coll /\ rchan'[q].returned = rchan[q].returned
                       /\ rchan'[q].credit = rchan[q].credit
  BY <1>5, <1>6
<1>10. ASSUME NEW x \in Ranks
       PROVE  /\ (Begun(x)' <=> Begun(x)) /\ Summed(x)' = Summed(x)
              /\ AheadOf(x)' = AheadOf(x)
              /\ \A q \in Ranks : q # x => Given(x, q)' = Given(x, q)
                                           /\ Added(x, q)' = Added(x, q)
  <2>1. Begun(x)' <=> Begun(x)
    <3>1. CASE x = r
      BY <1>1, <1>6, <1>7, <3>1 DEF Begun
    <3>2. CASE x # r
      BY <1>5, <1>7, <3>2 DEF Begun
    <3> QED  BY <3>1, <3>2
  <2>2. Summed(x)' = Summed(x)
    BY <1>1, <1>9 DEF Summed
  <2>3. ASSUME NEW q \in Ranks, q # x
        PROVE  Given(x, q)' = Given(x, q) /\ Added(x, q)' = Added(x, q)
    <3>1. Given(x, q)' = Given(x, q)
      BY <1>9, <2>3 DEF Given
    <3> QED  BY <1>1, <2>3, <3>1 DEF Added
  <2>4. Added(x, x)' = Added(x, x)
    <3>1. CASE x = r
      <4>1. Given(r, r) = c.returned + 0 /\ Given(r, r)' = c.returned + 1
        BY <1>1, <1>6 DEF Given
      <4>2. Added(r, r) = Given(r, r) - 0 /\ Added(r, r)' = Given(r, r)' - 1
        BY <1>7 DEF Added
      <4>3. Added(r, r) = Added(r, r)'
        BY <1>3, <4>1, <4>2
      <4> QED  BY <3>1, <4>3
    <3>2. CASE x # r
      <4>1. Given(x, x)' = Given(x, x)
        BY <1>5, <3>2 DEF Given
      <4> QED  BY <1>7, <3>2, <4>1 DEF Added
    <3> QED  BY <3>1, <3>2
  <2>5. AheadOf(x)' = AheadOf(x)
    BY <2>1, <2>2, <2>3, <2>4 DEF AheadOf, Ahead
  <2> QED  BY <2>1, <2>2, <2>3, <2>5
<1>11. ASSUME NEW q \in Ranks PROVE RRankInv(q)'
  <2>1. RCallInv(q) /\ RHandedInv(q) /\ RCreditInv(q) /\ RRing(q) /\ rsupport[q] \in RSupport
    BY RAt
  <2>2. RCallInv(q)' /\ RHandedInv(q)'
    <3>1. CASE q = r
      <4>1. c.entered # c.returned /\ k <= R!NumCollectives
        BY <1>3, RNumbers
      <4>2. RCallInv(r)'
        BY <1>3, <1>6, <2>1, <3>1, <4>1 DEF RCallInv
      <4>3. reduce_recv[r] = <<>>
        BY <1>1, <1>2 DEF RHandedInv
      <4>4. c.op = "SYNCH" <=> c.returned = 0
        BY <1>1, <1>2, <1>3 DEF RCallInv
      <4>5. RHandedInv(r)'
        BY <1>1, <1>4, <1>6, <1>7, <4>3, <4>4 DEF RHandedInv
      <4> QED  BY <3>1, <4>2, <4>5
    <3>2. CASE q # r
      BY <1>1, <1>5, <1>7, <2>1, <3>2 DEF RCallInv, RHandedInv
    <3> QED  BY <3>1, <3>2
  <2>3. RCreditInv(q)'
    BY <1>1, <1>9, <1>10, <2>1 DEF RCreditInv, CreditsDue
  <2>4. RRing(q)'
    BY <1>1, <1>9, <1>10, <2>1, RRingStays DEF SameSums
  <2> QED  BY <2>2, <2>3, <2>4 DEF RRankInv
<1>12. ASSUME NEW q \in Ranks PROVE RRootFirst(q)' /\ RTokenInv(q)'
  <2>1. RRootFirst(q) /\ RTokenInv(q)
    BY RAt
  <2>2. \A x \in 1 .. R!NumCollectives :
            (GotOn(q, x)' <=> GotOn(q, x)) /\ (Started(x)' <=> Started(x))
    BY <1>9, <1>10, RNumbers DEF GotOn, Started
  <2>3. ASSUME NEW x \in Needs(q)
        PROVE  Issued(x, q)' = Issued(x, q) /\ Used(x, q)' = Used(x, q)
    <3>1. ReduceRoots[x] \in Ranks
      BY RNumbers DEF Needs
    <3>2. Begun(ReduceRoots[x])' <=> Begun(ReduceRoots[x])
      BY <1>10, <3>1
    <3>3. Issued(x, q)' = Issued(x, q)
      BY <1>1, <1>9, <3>1, <3>2 DEF Issued
    <3> QED  BY <1>9, <3>3 DEF Used
  <2>4. RTokenInv(q)'
    BY <1>1, <2>1, <2>3, RTokensStay
  <2> QED  BY <2>1, <2>2, <2>4 DEF RRootFirst
<1>13. ASSUME NEW q \in Ranks, NEW x \in Ranks PROVE RQueueInv(q, x)' /\ RRootLast(x, q)'
  <2>1. RQueueInv(q, x) /\ RRootLast(x, q)
    BY RAt
  <2>2. RQueueInv(q, x)'
    BY <1>1, <1>9, <1>10, <2>1 DEF RQueueInv
  <2> QED  BY <1>9, <2>1, <2>2 DEF RRootLast
<1> QED  BY <1>8, <1>11, <1>12, <1>13 DEF RInv

(* A call returns, and the rank goes on to its next one, or the next reduce. *)
LEMMA RMovesOn ==
    ASSUME RInv, NEW r \in Ranks, rchan[r].coll \in 1 .. R!NumCollectives,
           rchan[r].returned < rchan[r].entered,
           RRooted(r, rchan[r].coll) => rchan[r].sent,
           rchan' = [rchan EXCEPT ![r] = R!Returned(rchan[r])]
    PROVE  LET c  == rchan[r]
               c2 == rchan'[r]
               k  == c.coll
           IN  /\ rchan' \in [Ranks -> RChannel] /\ RCallInv(r)'
               /\ \A q \in Ranks : q # r => rchan'[q] = rchan[q]
               /\ c.returned \in Int /\ c.returned >= 0 /\ c.entered = c.returned + 1
               /\ ~ c2.sent /\ ~ c2.credit
               /\ IF c.returned + 1 = ReduceCounts[k]
                  THEN c2.coll = k + 1 /\ c2.returned = 0
                  ELSE c2.coll = k /\ c2.returned = c.returned + 1
<1> DEFINE c  == rchan[r]
           c2 == rchan'[r]
           k  == c.coll
           opened == R!Opened(k + 1)
           again  == [c EXCEPT !.returned = c.entered, !.sent = FALSE, !.credit = FALSE]
<1>1. rchan \in [Ranks -> RChannel] /\ c \in RChannel /\ RCallInv(r)
  BY RAt DEF RInv, RTypeOK
<1>2. /\ c.returned \in Int /\ c.returned >= 0 /\ c.entered \in Nat /\ c.returned \in Nat
      /\ c.entered = c.returned + 1
      /\ k \in Int /\ R!NumCollectives \in Int /\ k >= 1 /\ k <= R!NumCollectives
      /\ ReduceCounts[k] \in Int /\ ReduceCounts[k] >= 1 /\ c.returned < ReduceCounts[k]
  <2>1. /\ c.returned \in Int /\ c.returned >= 0 /\ c.entered \in Int /\ k \in Int /\ c.entered >= 0
        /\ R!NumCollectives \in Int /\ k >= 1 /\ k <= R!NumCollectives
        /\ ReduceCounts[k] \in Int /\ ReduceCounts[k] >= 1
    BY <1>1, RChannelFields, RNumbers
  <2>2. c.entered = c.returned + 1 /\ c.returned < ReduceCounts[k]
    BY <1>1, <2>1 DEF RCallInv
  <2> QED  BY <2>1, <2>2
<1>3. /\ opened \in RChannel /\ opened.coll = k + 1 /\ opened.entered = 0
      /\ opened.returned = 0 /\ opened.op = "SYNCH" /\ ~ opened.sent /\ ~ opened.credit
  BY <1>2 DEF R!Opened, RChannel
<1>4. /\ again \in RChannel /\ again.coll = k /\ again.entered = c.entered
      /\ again.returned = c.entered /\ again.op = c.op /\ ~ again.sent /\ ~ again.credit
  BY <1>1, <1>2 DEF RChannel
<1>5. R!Returned(c) = IF c.entered = ReduceCounts[k] THEN opened ELSE again
  BY DEF R!Returned
<1> HIDE DEF opened, again
<1>6. c2 = (IF c.returned + 1 = ReduceCounts[k] THEN opened ELSE again) /\ c2 \in RChannel
  BY <1>1, <1>2, <1>3, <1>4, <1>5
<1>7. rchan' \in [Ranks -> RChannel] /\ \A q \in Ranks : q # r => rchan'[q] = rchan[q]
  BY <1>1, <1>3, <1>4, <1>5
<1>8. RCallInv(r)'
  <2>1. CASE c.returned + 1 = ReduceCounts[k]
    <3>1. k + 1 <= R!NumCollectives => 0 < ReduceCounts[k + 1]
      <4>1. k + 1 <= R!NumCollectives => k + 1 \in 1 .. R!NumCollectives
        BY <1>2
      <4> QED  BY <4>1, RNumbers
    <3> QED  BY <1>3, <1>6, <2>1, <3>1 DEF RCallInv
  <2>2. CASE c.returned + 1 # ReduceCounts[k]
    <3>1. c2 = again
      BY <1>6, <2>2
    <3>2. c.returned + 1 < ReduceCounts[k] /\ c.returned + 1 # 0 /\ ~ (k > R!NumCollectives)
      BY <1>2, <2>2
    <3>3. RRooted(r, k) => ~ (c.op = "SYNCH")
      BY <1>1 DEF RCallInv
    <3> QED  BY <1>2, <1>4, <3>1, <3>2, <3>3 DEF RCallInv
  <2> QED  BY <2>1, <2>2
<1> QED  BY <1>2, <1>3, <1>4, <1>6, <1>7, <1>8

(* What the roots count changes only for the root of the reduce, *)
LEMMA RGivenOn ==
    ASSUME RInv, NEW r \in Ranks, rchan[r].coll \in 1 .. R!NumCollectives,
           NEW x \in Ranks, x # r, RRooted(x, rchan[x].coll), rchan'[x].coll = rchan[x].coll,
           rchan[r].returned \in Int,
           IF rchan[r].returned + 1 = ReduceCounts[rchan[r].coll]
           THEN rchan'[r].coll = rchan[r].coll + 1 /\ rchan'[r].returned = 0
           ELSE rchan'[r].coll = rchan[r].coll /\ rchan'[r].returned = rchan[r].returned + 1
    PROVE  /\ rchan[x].coll = rchan[r].coll => /\ Given(x, r) = rchan[r].returned
                                               /\ Given(x, r)' = rchan[r].returned + 1
           /\ rchan[x].coll # rchan[r].coll => Given(x, r)' = Given(x, r)
<1> DEFINE k == rchan[r].coll
           j == rchan[x].coll
<1>1. k \in Int /\ j \in Int
  BY RAt, RChannelFields
<1>2. CASE j = k
  <2>1. Given(x, r) = rchan[r].returned
    BY <1>1, <1>2 DEF Given
  <2>2. Given(x, r)' = rchan[r].returned + 1
    BY <1>1, <1>2 DEF Given
  <2> QED  BY <1>2, <2>1, <2>2
<1>3. CASE j # k
  <2>1. CASE j < k
    <3>1. k > j /\ rchan'[r].coll > j
      BY <1>1, <2>1
    <3> QED  BY <1>3, <3>1 DEF Given
  <2>2. CASE j > k
    <3>1. ~ (k > j) /\ ~ (rchan'[r].coll > j)
          /\ (rchan'[r].coll = j => rchan'[r].returned = 0)
      BY <1>1, <2>2
    <3> QED  BY <1>3, <3>1 DEF Given
  <2> QED  BY <1>1, <1>3, <2>1, <2>2
<1> QED  BY <1>2, <1>3

(* and a rank got on in no other reduce. *)
LEMMA RGotOn ==
    ASSUME NEW r \in Ranks, rchan[r].coll \in 1 .. R!NumCollectives,
           ~ rchan'[r].credit,
           IF rchan[r].returned + 1 = ReduceCounts[rchan[r].coll]
           THEN rchan'[r].coll = rchan[r].coll + 1 /\ rchan'[r].returned = 0
           ELSE rchan'[r].coll = rchan[r].coll /\ rchan'[r].returned = rchan[r].returned + 1
    PROVE  \A x \in 1 .. R!NumCollectives :
               /\ x # rchan[r].coll => (GotOn(r, x)' => GotOn(r, x))
               /\ rchan[r].coll > x => rchan'[r].coll > x
               /\ x # rchan[r].coll => (rchan'[r].coll > x => rchan[r].coll > x)
<1> TAKE x \in 1 .. R!NumCollectives
<1>1. rchan[r].coll \in Int /\ x \in Int
  OBVIOUS
<1>2. (rchan[r].coll > x => rchan'[r].coll > x)
      /\ (x # rchan[r].coll => (rchan'[r].coll > x => rchan[r].coll > x))
  BY <1>1
<1>3. ASSUME x # rchan[r].coll, GotOn(r, x)' PROVE GotOn(r, x)
  <2>1. CASE rchan'[r].coll > x
    BY <1>2, <1>3, <2>1 DEF GotOn
  <2>2. CASE ~ (rchan'[r].coll > x)
    <3>1. rchan'[r].coll = x /\ rchan'[r].returned > 0
      BY <1>3, <2>2 DEF GotOn
    <3> QED  BY <1>1, <1>3, <3>1
  <2> QED  BY <2>1, <2>2
<1> QED  BY <1>2, <1>3

(* When the root takes the last result, all ranks are through, and its        *)
(* kernel is. *)
LEMMA RAllThrough ==
    ASSUME RInv, NEW r \in Ranks, Begun(r), Summed(r) = ReduceCounts[rchan[r].coll]
    PROVE  /\ \A q \in Ranks : q # r => /\ rchan[q].coll > rchan[r].coll
                                        /\ rdata[q][r] = <<>> /\ Ahead(r, q) = 0
           /\ NumRanks > 1 => /\ ~ rsupport[r].send_credits
                              /\ rsupport[r].sent_credits = ReduceCounts[rchan[r].coll]
<1> DEFINE k == rchan[r].coll
           n == ReduceCounts[k]
<1>1. RRooted(r, k) /\ k \in 1 .. R!NumCollectives /\ n \in Int /\ n >= 1 /\ k \in Int
  BY RNumbers DEF Begun, RRooted
<1>2. ASSUME NEW q \in Ranks, q # r
      PROVE  rchan[q].coll > k /\ rdata[q][r] = <<>> /\ Ahead(r, q) = 0
  <2>1. RQueueInv(q, r) /\ rchan[q] \in RChannel /\ RCallInv(q)
    BY RAt
  <2>2. Given(r, q) \in Int /\ Given(r, q) <= n /\ Len(rdata[q][r]) \in Int
        /\ Len(rdata[q][r]) >= 0 /\ (Len(rdata[q][r]) = 0 <=> rdata[q][r] = <<>>)
    BY <1>1, RCounts, RLengths DEF RInv
  <2>3. n <= Given(r, q) - Len(rdata[q][r])
    BY <1>2, <2>1 DEF RQueueInv, Added
  <2>4. Given(r, q) = n /\ Len(rdata[q][r]) = 0
    <3> DEFINE g == Given(r, q)
               m == Len(rdata[q][r])
    <3>1. n \in Int /\ g \in Int /\ g <= n /\ m \in Int /\ m >= 0 /\ n <= g - m
      BY <1>1, <2>2, <2>3
    <3> HIDE DEF g, m, n
    <3>2. g = n /\ m = 0
      BY <3>1
    <3> QED  BY <3>2 DEF g, m
  <2>5. rchan[q].coll > k
    <3>1. CASE rchan[q].coll = k
      <4>1. Given(r, q) = rchan[q].returned
        BY <1>1, <1>2, <3>1 DEF Given
      <4>2. rchan[q].returned < n
        BY <1>1, <2>1, <3>1 DEF RCallInv
      <4> QED  BY <1>1, <2>4, <4>1, <4>2
    <3>2. CASE rchan[q].coll < k
      <4>1. Given(r, q) = 0
        BY <1>1, <1>2, <2>1, <3>2, RChannelFields DEF Given
      <4> QED  BY <1>1, <2>4, <4>1
    <3>3. rchan[q].coll \in Int
      BY <2>1, RChannelFields
    <3> QED  BY <1>1, <3>1, <3>2, <3>3
  <2>6. Ahead(r, q) = 0
    <3>1. Added(r, q) = n - 0
      BY <1>2, <2>4 DEF Added
    <3> QED  BY <1>1, <3>1 DEF Ahead
  <2> QED  BY <2>2, <2>4, <2>5, <2>6
<1>3. ASSUME NumRanks > 1
      PROVE  ~ rsupport[r].send_credits /\ rsupport[r].sent_credits = n
  <2>1. CreditsDue(rsupport[r], k, n)
    BY <1>3, RAt DEF RCreditInv
  <2>2. ~ rsupport[r].send_credits
    BY <1>1, <2>1 DEF CreditsDue
  <2>3. rsupport[r].sent_credits = Allowed(k, n)
    BY <2>1, <2>2 DEF CreditsDue
  <2> QED  BY <1>1, <2>2, <2>3, RingNumbers DEF Allowed
<1> QED  BY <1>2, <1>3

LEMMA RTakeResultStep ==
    ASSUME RInv, NEW r \in Ranks, R!TakeResult(r)
    PROVE  RInv'
<1> DEFINE c == rchan[r]
           k == c.coll
           last == c.returned + 1 = ReduceCounts[k]
<1>1. /\ c.returned < c.entered /\ R!IsRoot(r) /\ c.sent /\ reduce_recv[r] # <<>>
      /\ reduce_recv' = [reduce_recv EXCEPT ![r] = <<>>]
      /\ rchan' = [rchan EXCEPT ![r] = R!Returned(c)]
      /\ rsupport' = rsupport /\ reduce_send' = reduce_send
      /\ rdata' = rdata /\ rcontrol' = rcontrol
  BY DEF R!TakeResult, R!InCall
<1>2. c \in RChannel /\ RHandedInv(r) /\ reduce_recv \in [Ranks -> Seq(RResult)]
  BY RAt DEF RInv, RTypeOK
<1>3. k \in 1 .. R!NumCollectives /\ RRooted(r, k) /\ k \in Int
  <2>1. k \in Int /\ k >= 1 /\ R!NumCollectives \in Int
    BY <1>2, RChannelFields, RNumbers
  <2> QED  BY <1>1, <2>1 DEF R!IsRoot, RRooted
<1>4. /\ rchan' \in [Ranks -> RChannel] /\ RCallInv(r)'
      /\ \A q \in Ranks : q # r => rchan'[q] = rchan[q]
      /\ c.returned \in Int /\ c.returned >= 0 /\ c.entered = c.returned + 1
      /\ ~ rchan'[r].sent /\ ~ rchan'[r].credit
      /\ IF last THEN rchan'[r].coll = k + 1 /\ rchan'[r].returned = 0
                 ELSE rchan'[r].coll = k /\ rchan'[r].returned = c.returned + 1
  BY <1>1, <1>3, RMovesOn
<1>5. /\ reduce_send[r] = <<>> /\ Len(reduce_recv[r]) = 1 /\ Len(reduce_send[r]) = 0
      /\ reduce_recv'[r] = <<>> /\ Len(reduce_recv'[r]) = 0
      /\ \A q \in Ranks : q # r => reduce_recv'[q] = reduce_recv[q]
      /\ reduce_recv' \in [Ranks -> Seq(RResult)]
  BY <1>1, <1>2, EmptySeq DEF RHandedInv
<1>6. /\ Begun(r) /\ Summed(r) = c.returned + 1
      /\ Given(r, r) = c.returned + 1 /\ Added(r, r) = c.returned + 1 /\ Ahead(r, r) = 0
  <2>1. Begun(r) /\ Summed(r) = c.returned + 1 /\ Given(r, r) = c.returned + 1
    <3>1. Begun(r)
      BY <1>1, <1>3, <1>5 DEF Begun
    <3>2. Summed(r) = c.returned + 1
      BY <1>5 DEF Summed
    <3>3. Given(r, r) = c.returned + 1
      BY <1>1 DEF Given
    <3> QED  BY <3>1, <3>2, <3>3
  <2>2. Added(r, r) = Given(r, r) - 0
    BY <1>5 DEF Added
  <2> QED  BY <1>4, <2>1, <2>2 DEF Ahead
<1>7. RTypeOK'
  BY <1>1, <1>4, <1>5 DEF RInv, RTypeOK
<1>8. ~ last => /\ Begun(r)' /\ Summed(r)' = Summed(r) /\ AheadOf(r)' = AheadOf(r)
                /\ \A q \in Ranks : q # r => Given(r, q)' = Given(r, q)
                                             /\ Added(r, q)' = Added(r, q)
  <2> SUFFICES ASSUME ~ last
               PROVE  /\ Begun(r)' /\ Summed(r)' = Summed(r) /\ AheadOf(r)' = AheadOf(r)
                      /\ \A q \in Ranks : q # r => Given(r, q)' = Given(r, q)
                                                   /\ Added(r, q)' = Added(r, q)
    OBVIOUS
  <2>1. Begun(r)'
    BY <1>3, <1>4 DEF Begun
  <2>2. Summed(r)' = c.returned + 1 + 0
    BY <1>4, <1>5 DEF Summed
  <2>3. ASSUME NEW q \in Ranks, q # r
        PROVE  Given(r, q)' = Given(r, q) /\ Added(r, q)' = Added(r, q)
    <3>1. Given(r, q)' = Given(r, q)
      BY <1>4, <2>3 DEF Given
    <3> QED  BY <1>1, <2>3, <3>1 DEF Added
  <2>4. Added(r, r)' = c.returned + 1
    <3>1. Given(r, r)' = c.returned + 1 + 0
      BY <1>4 DEF Given
    <3>2. Added(r, r)' = Given(r, r)' - 0
      BY <1>1, <1>5 DEF Added
    <3> QED  BY <1>4, <3>1, <3>2
  <2>5. Summed(r)' = Summed(r)
    BY <1>4, <1>6, <2>2
  <2>6. AheadOf(r)' = AheadOf(r)
    BY <1>6, <2>1, <2>3, <2>4, <2>5 DEF AheadOf, Ahead
  <2> QED  BY <2>1, <2>3, <2>5, <2>6
<1>9. last => /\ ~ Begun(r)' /\ AheadOf(r)' = AheadOf(r) /\ \A q \in Ranks : AheadOf(r)[q] = 0
              /\ \A q \in Ranks : q # r => rchan[q].coll > k /\ rdata[q][r] = <<>>
              /\ NumRanks > 1 => /\ ~ rsupport[r].send_credits
                                 /\ rsupport[r].sent_credits = ReduceCounts[k]
  <2> SUFFICES ASSUME last
               PROVE  /\ ~ Begun(r)' /\ AheadOf(r)' = AheadOf(r)
                      /\ \A q \in Ranks : AheadOf(r)[q] = 0
                      /\ \A q \in Ranks : q # r => rchan[q].coll > k /\ rdata[q][r] = <<>>
                      /\ NumRanks > 1 => /\ ~ rsupport[r].send_credits
                                         /\ rsupport[r].sent_credits = ReduceCounts[k]
    OBVIOUS
  <2>1. ~ Begun(r)'
    BY <1>4 DEF Begun
  <2>2. \A q \in Ranks : q # r => /\ rchan[q].coll > k /\ rdata[q][r] = <<>>
                                  /\ Ahead(r, q) = 0
    BY <1>6, RAllThrough
  <2>3. NumRanks > 1 => /\ ~ rsupport[r].send_credits
                        /\ rsupport[r].sent_credits = ReduceCounts[k]
    BY <1>6, RAllThrough
  <2>4. \A q \in Ranks : AheadOf(r)[q] = 0
    BY <1>6, <2>2 DEF AheadOf
  <2>5. AheadOf(r)' = AheadOf(r)
    BY <1>6, <2>1, <2>2 DEF AheadOf, Ahead
  <2> QED  BY <2>1, <2>2, <2>3, <2>4, <2>5
<1> HIDE DEF last
<1>10. ASSUME NEW x \in Ranks, x # r
       PROVE  /\ (Begun(x)' <=> Begun(x)) /\ Summed(x)' = Summed(x)
              /\ AheadOf(x)' = AheadOf(x)
              /\ Begun(x) => \A q \in Ranks : Given(x, q)' = Given(x, q)
                                              /\ Added(x, q)' = Added(x, q)
  <2>1. (Begun(x)' <=> Begun(x)) /\ Summed(x)' = Summed(x)
    BY <1>1, <1>4, <1>5, <1>10 DEF Begun, Summed
  <2>2. ASSUME Begun(x), NEW q \in Ranks
        PROVE  Given(x, q)' = Given(x, q) /\ Added(x, q)' = Added(x, q)
    <3>1. RRooted(x, rchan[x].coll) /\ rchan'[x] = rchan[x] /\ rchan[x].coll # k
      BY <1>3, <1>4, <1>10, <2>2 DEF Begun, RRooted
    <3>2. CASE q = r
      <4>1. Given(x, r)' = Given(x, r)
        BY <1>3, <1>4, <1>10, <3>1, RGivenOn DEF last
      <4> QED  BY <1>1, <1>10, <3>2, <4>1 DEF Added
    <3>3. CASE q # r
      <4>1. Given(x, q)' = Given(x, q)
        BY <1>4, <3>1, <3>3 DEF Given
      <4> QED  BY <1>1, <4>1 DEF Added
    <3> QED  BY <3>2, <3>3
  <2>3. AheadOf(x)' = AheadOf(x)
    BY <2>1, <2>2 DEF AheadOf, Ahead
  <2> QED  BY <2>1, <2>2, <2>3
<1>11. \A y \in 1 .. R!NumCollectives :
           /\ y # k => (GotOn(r, y)' => GotOn(r, y))
           /\ k > y => rchan'[r].coll > y
           /\ y # k => (rchan'[r].coll > y => k > y)
  BY <1>3, <1>4, RGotOn DEF last
<1>12. ASSUME NEW q \in Ranks PROVE RRankInv(q)'
  <2>1. RCallInv(q) /\ RHandedInv(q) /\ RCreditInv(q) /\ RRing(q) /\ rsupport[q] \in RSupport
    BY RAt
  <2>2. CASE q = r
    <3>1. RHandedInv(r)'
      BY <1>1, <1>5 DEF RHandedInv
    <3>2. RCreditInv(r)'
      <4>1. CASE last
        BY <1>1, <1>9, <2>1, <2>2, <4>1 DEF RCreditInv
      <4>2. CASE ~ last
        BY <1>1, <1>4, <1>6, <1>8, <2>1, <2>2, <4>2 DEF RCreditInv, CreditsDue
      <4> QED  BY <4>1, <4>2
    <3>3. RRing(r)'
      <4>1. SameSums(rsupport'[r], rsupport[r])
        BY <1>1 DEF SameSums
      <4>2. AheadOf(r)' = AheadOf(r)
        BY <1>8, <1>9
      <4>3. \/ rchan'[r].coll = rchan[r].coll /\ Summed(r)' = Summed(r)
            \/ \A x \in Ranks : AheadOf(r)[x] = 0
        BY <1>4, <1>8, <1>9
      <4> QED  BY <2>1, <2>2, <4>1, <4>2, <4>3, RRingStays
    <3> QED  BY <1>4, <2>2, <3>1, <3>2, <3>3 DEF RRankInv
  <2>3. CASE q # r
    <3>1. RCallInv(q)' /\ RHandedInv(q)'
      BY <1>1, <1>4, <1>5, <2>1, <2>3 DEF RCallInv, RHandedInv
    <3>2. RCreditInv(q)'
      BY <1>1, <1>4, <1>10, <2>1, <2>3 DEF RCreditInv, CreditsDue
    <3>3. RRing(q)'
      BY <1>1, <1>4, <1>10, <2>1, <2>3, RRingStays DEF SameSums
    <3> QED  BY <3>1, <3>2, <3>3 DEF RRankInv
  <2> QED  BY <2>2, <2>3
<1>13. ASSUME NEW y \in 1 .. R!NumCollectives, Started(y)
       PROVE  Started(y)'
  <2> DEFINE b == ReduceRoots[y]
  <2>1. b \in Ranks
    BY RNumbers
  <2>2. CASE b # r
    BY <1>4, <1>10, <1>13, <2>1, <2>2 DEF Started
  <2>3. CASE b = r
    <3>1. CASE k > y
      BY <1>11, <2>3, <3>1 DEF Started
    <3>2. CASE ~ (k > y)
      <4>1. k = y
        BY <1>13, <2>3, <3>2 DEF Started
      <4>2. last => rchan'[r].coll > y
        BY <1>3, <1>4, <4>1
      <4>3. ~ last => rchan'[r].coll = y /\ Begun(r)'
        BY <1>4, <1>8, <4>1
      <4> QED  BY <2>3, <4>2, <4>3 DEF Started
    <3> QED  BY <3>1, <3>2
  <2> QED  BY <2>2, <2>3
<1>14. ASSUME NEW q \in Ranks PROVE RRootFirst(q)'
  <2>1. RRootFirst(q)
    BY RAt
  <2> SUFFICES ASSUME NEW y \in 1 .. R!NumCollectives, ReduceRoots[y] # q, GotOn(q, y)'
               PROVE  Started(y)'
    BY DEF RRootFirst
  <2>2. GotOn(q, y)
    <3>1. CASE q = r
      BY <1>3, <1>11, <3>1 DEF RRooted
    <3>2. CASE q # r
      BY <1>4, <3>2 DEF GotOn
    <3> QED  BY <3>1, <3>2
  <2> QED  BY <1>13, <2>1, <2>2 DEF RRootFirst
<1>15. ASSUME NEW q \in Ranks PROVE RTokenInv(q)'
  <2>1. ASSUME NEW y \in Needs(q) PROVE Issued(y, q)' = Issued(y, q)
    <3> DEFINE b == ReduceRoots[y]
    <3>1. b \in Ranks /\ b # q /\ y \in Int /\ y \in 1 .. R!NumCollectives
      BY RNumbers DEF Needs
    <3>2. CASE b # r
      BY <1>1, <1>4, <1>10, <3>1, <3>2 DEF Issued
    <3>3. CASE b = r
      <4>1. NumRanks > 1
        BY <3>1, Numbers
      <4>2. CASE k > y
        BY <1>11, <3>1, <3>3, <4>2 DEF Issued
      <4>3. CASE k < y
        <5>1. ~ (k > y) /\ k # y /\ ~ (rchan'[r].coll > y)
              /\ ~ (rchan'[r].coll = y /\ Begun(r)')
          BY <1>3, <1>4, <1>9, <3>1, <4>3
        <5> QED  BY <3>3, <5>1 DEF Issued
      <4>4. CASE k = y /\ last
        <5>1. rchan'[r].coll > y /\ ~ (k > y)
          BY <1>3, <1>4, <4>4
        <5>2. Issued(y, q)' = ReduceCounts[y]
          BY <3>3, <5>1 DEF Issued
        <5>3. Issued(y, q) = rsupport[r].sent_credits + 0
          BY <1>6, <1>9, <3>3, <4>1, <4>4, <5>1 DEF Issued
        <5>4. ReduceCounts[y] \in Int
          BY <3>1, RNumbers
        <5> QED  BY <1>9, <4>1, <4>4, <5>2, <5>3, <5>4
      <4>5. CASE k = y /\ ~ last
        BY <1>1, <1>4, <1>6, <1>8, <3>3, <4>5 DEF Issued
      <4> QED  BY <1>3, <3>1, <4>2, <4>3, <4>4, <4>5
    <3> QED  BY <3>2, <3>3
  <2>2. ASSUME NEW y \in Needs(q) PROVE Used(y, q)' = Used(y, q)
    <3>1. CASE q # r
      BY <1>4, <3>1 DEF Used
    <3>2. CASE q = r
      <4>1. y # k /\ y \in Int /\ y \in 1 .. R!NumCollectives
        BY <1>3, <3>2 DEF Needs, RRooted
      <4>2. CASE k > y
        BY <1>11, <3>2, <4>1, <4>2 DEF Used
      <4>3. CASE ~ (k > y)
        <5>1. ~ (rchan'[r].coll > y) /\ (rchan'[r].coll = y => rchan'[r].returned = 0)
          BY <1>3, <1>4, <4>1, <4>3
        <5> QED  BY <1>4, <3>2, <4>1, <4>3, <5>1 DEF Used
      <4> QED  BY <4>2, <4>3
    <3> QED  BY <3>1, <3>2
  <2> QED  BY <1>1, <2>1, <2>2, RAt, RTokensStay
<1>16. ASSUME NEW q \in Ranks, NEW x \in Ranks PROVE RQueueInv(q, x)' /\ RRootLast(x, q)'
  <2>1. RQueueInv(q, x) /\ RRootLast(x, q)
    BY RAt
  <2>2. RRootLast(x, q)'
    <3> SUFFICES ASSUME NEW y \in 1 .. R!NumCollectives, ReduceRoots[y] = x,
                        rchan'[x].coll > y
                 PROVE  rchan'[q].coll > y
      BY DEF RRootLast
    <3>1. CASE x = r /\ y = k
      <4>1. last
        BY <1>3, <1>4, <3>1
      <4> QED  BY <1>4, <1>9, <3>1, <4>1
    <3>2. CASE ~ (x = r /\ y = k)
      <4>1. rchan[x].coll > y
        BY <1>4, <1>11, <3>2
      <4>2. rchan[q].coll > y
        BY <2>1, <4>1 DEF RRootLast
      <4> QED  BY <1>4, <1>11, <4>2
    <3> QED  BY <3>1, <3>2
  <2>3. RQueueInv(q, x)'
    <3>1. CASE x = r /\ q # r /\ last
      BY <1>1, <1>9, <3>1 DEF RQueueInv
    <3>2. CASE x = r /\ q # r /\ ~ last
      BY <1>1, <1>4, <1>6, <1>8, <2>1, <3>2 DEF RQueueInv
    <3>3. CASE q = x
      BY <1>1, <2>1, <3>3 DEF RQueueInv
    <3>4. CASE x # r /\ q # x /\ ~ Begun(x)
      BY <1>1, <1>10, <2>1, <3>4 DEF RQueueInv
    <3>5. CASE x # r /\ q # x /\ Begun(x)
      <4>1. /\ Given(x, q)' = Given(x, q) /\ Added(x, q)' = Added(x, q)
            /\ Summed(x)' = Summed(x) /\ Begun(x)' /\ rchan'[x] = rchan[x]
        BY <1>4, <1>10, <3>5
      <4>2. Given(x, q) \in Int /\ Summed(x) \in Int
        BY <3>5, RCounts DEF Begun
      <4>3. Given(x, q) + (IF rchan'[q].coll = rchan'[x].coll /\ rchan'[q].credit
                           THEN 1 ELSE 0) <= Summed(x) + credits_flow_control
        <5>1. Given(x, q) <= Summed(x) + credits_flow_control
          BY <2>1, <3>5, <4>2, RingNumbers DEF RQueueInv
        <5>2. CASE q = r
          BY <1>4, <4>2, <5>1, <5>2
        <5>3. CASE q # r
          BY <1>4, <2>1, <3>5, <4>1, <5>3 DEF RQueueInv
        <5> QED  BY <5>2, <5>3
      <4> QED  BY <1>1, <2>1, <3>5, <4>1, <4>3 DEF RQueueInv
    <3> QED  BY <3>1, <3>2, <3>3, <3>4, <3>5
  <2> QED  BY <2>2, <2>3
<1> QED  BY <1>7, <1>12, <1>14, <1>15, <1>16 DEF RInv

-----------------------------------------------------------------------------
(* The program of a contributor *)

LEMMA RContributeStep ==
    ASSUME RInv, NEW r \in Ranks, R!Contribute(r)
    PROVE  RInv'
<1> DEFINE c == rchan[r]
           k == c.coll
           last == c.returned + 1 = ReduceCounts[k]
<1>1. PICK b \in Ranks :
          /\ b = ReduceRoots[k] /\ k \in 1 .. R!NumCollectives /\ b # r /\ k \in Int
  <2>1. k \in Int /\ k >= 1 /\ R!NumCollectives \in Int /\ c.entered \in Int
        /\ c.returned \in Int /\ c.returned >= 0 /\ RCallInv(r)
    BY RAt, RChannelFields, RNumbers
  <2>2. c.returned < c.entered /\ ~ R!IsRoot(r)
    BY DEF R!Contribute, R!InCall
  <2>3. k \in 1 .. R!NumCollectives
    BY <2>1, <2>2 DEF RCallInv
  <2> QED  BY <2>1, <2>2, <2>3, RNumbers DEF R!IsRoot
<1> DEFINE item == <<k, r, c.entered>>
<1>2. /\ c.returned < c.entered /\ c.credit
      /\ rdata' = Put(rdata, r, b, item)
      /\ rchan' = [rchan EXCEPT ![r] = R!Returned(c)]
      /\ rsupport' = rsupport /\ reduce_send' = reduce_send /\ reduce_recv' = reduce_recv
      /\ rcontrol' = rcontrol
  BY <1>1, RWires DEF R!Contribute, R!InCall
<1>3. ~ RRooted(r, k) /\ ~ Begun(r)
  BY <1>1 DEF RRooted, Begun
<1>4. /\ rchan' \in [Ranks -> RChannel] /\ RCallInv(r)'
      /\ \A q \in Ranks : q # r => rchan'[q] = rchan[q]
      /\ c.returned \in Int /\ c.returned >= 0 /\ c.entered = c.returned + 1
      /\ ~ rchan'[r].sent /\ ~ rchan'[r].credit
      /\ IF last THEN rchan'[r].coll = k + 1 /\ rchan'[r].returned = 0
                 ELSE rchan'[r].coll = k /\ rchan'[r].returned = c.returned + 1
  BY <1>1, <1>2, <1>3, RMovesOn
<1>5. item \in R!Contribution
  BY <1>1, <1>4, RItems
<1> HIDE DEF item
<1>6. /\ rdata' \in Net(R!Contribution) /\ rdata[r][b] \in Seq(R!Contribution)
      /\ rdata'[r][b] = Append(rdata[r][b], item)
      /\ \A x, y \in Ranks : x # r \/ y # b => rdata'[x][y] = rdata[x][y]
  <2>1. rdata \in Net(R!Contribution) /\ rdata[r][b] \in Seq(R!Contribution)
    BY RTypes DEF RInv, RTypeOK
  <2>2. LET net == Put(rdata, r, b, item)
        IN  /\ net \in Net(R!Contribution) /\ net[r][b] = Append(rdata[r][b], item)
            /\ \A x, y \in Ranks : x # r \/ y # b => net[x][y] = rdata[x][y]
    BY <1>5, <2>1, PutAt, Z3
  <2> QED  BY <1>2, <2>1, <2>2
<1>7. RTypeOK'
  BY <1>2, <1>4, <1>6 DEF RInv, RTypeOK
<1>8. rchan[b].coll = k /\ Begun(b)
  <2>1. RRootFirst(r) /\ RRootLast(b, r)
    BY RAt
  <2>2. Started(k)
    BY <1>1, <1>2, <2>1 DEF RRootFirst, GotOn
  <2>3. ~ (rchan[b].coll > k)
    BY <1>1, <2>1 DEF RRootLast
  <2> QED  BY <1>1, <2>2, <2>3 DEF Started
<1>9. \A y \in 1 .. R!NumCollectives :
           /\ y # k => (GotOn(r, y)' => GotOn(r, y))
           /\ k > y => rchan'[r].coll > y
           /\ y # k => (rchan'[r].coll > y => k > y)
  BY <1>1, <1>4, RGotOn
<1>10. reduce_send[r] = <<>> /\ reduce_recv[r] = <<>> /\ ~ c.sent
  <2>1. RCallInv(r) /\ RHandedInv(r)
    BY RAt
  <2> QED  BY <1>3, <2>1 DEF RCallInv, RHandedInv
<1>11. ~ Begun(r)'
  <2>1. rchan'[r].coll = k => ~ RRooted(r, rchan'[r].coll)
    BY <1>3
  <2>2. rchan'[r].coll # k => rchan'[r].returned = 0
    BY <1>4
  <2> QED  BY <1>4, <2>1, <2>2 DEF Begun
<1>12. /\ Given(b, r) = c.returned /\ Given(b, r)' = c.returned + 1
       /\ Added(b, r)' = Added(b, r) /\ Len(rdata[r][b]) \in Int
       /\ Len(rdata'[r][b]) = Len(rdata[r][b]) + 1
  <2>1. Given(b, r) = c.returned /\ Given(b, r)' = c.returned + 1
    <3>1. RRooted(b, rchan[b].coll) /\ rchan'[b].coll = rchan[b].coll
      BY <1>1, <1>4, <1>8 DEF RRooted
    <3> QED  BY <1>1, <1>4, <1>8, <3>1, RGivenOn
  <2>2. Len(rdata'[r][b]) = Len(rdata[r][b]) + 1 /\ Len(rdata[r][b]) \in Int
    BY <1>5, <1>6, AppendProperties, LenProperties
  <2>3. Added(b, r) = c.returned - Len(rdata[r][b])
    BY <1>1, <2>1 DEF Added
  <2>4. Added(b, r)' = (c.returned + 1) - (Len(rdata[r][b]) + 1)
    BY <1>1, <2>1, <2>2 DEF Added
  <2> QED  BY <1>4, <2>1, <2>2, <2>3, <2>4
<1> HIDE DEF last
<1>13. ASSUME NEW x \in Ranks, x # r
       PROVE  /\ (Begun(x)' <=> Begun(x)) /\ Summed(x)' = Summed(x)
              /\ AheadOf(x)' = AheadOf(x)
              /\ Begun(x) => \A q \in Ranks : /\ Added(x, q)' = Added(x, q)
                                              /\ ~ (q = r /\ x = b)
                                                     => Given(x, q)' = Given(x, q)
  <2>1. (Begun(x)' <=> Begun(x)) /\ Summed(x)' = Summed(x)
    BY <1>2, <1>4, <1>13 DEF Begun, Summed
  <2>2. ASSUME Begun(x), NEW q \in Ranks
        PROVE  Added(x, q)' = Added(x, q) /\ (~ (q = r /\ x = b) => Given(x, q)' = Given(x, q))
    <3>1. RRooted(x, rchan[x].coll) /\ rchan'[x] = rchan[x]
      BY <1>4, <1>13, <2>2 DEF Begun
    <3>2. CASE q = r /\ x = b
      BY <1>12, <3>2
    <3>3. CASE q = r /\ x # b
      <4>1. rchan[x].coll # k
        BY <1>1, <3>1, <3>3 DEF RRooted
      <4>2. Given(x, r)' = Given(x, r)
        BY <1>1, <1>4, <1>13, <3>1, <4>1, RGivenOn DEF last
      <4> QED  BY <1>6, <1>13, <3>3, <4>2 DEF Added
    <3>4. CASE q # r
      <4>1. Given(x, q)' = Given(x, q)
        BY <1>4, <3>1, <3>4 DEF Given
      <4> QED  BY <1>2, <1>6, <3>4, <4>1 DEF Added
    <3> QED  BY <3>2, <3>3, <3>4
  <2>3. AheadOf(x)' = AheadOf(x)
    BY <2>1, <2>2 DEF AheadOf, Ahead
  <2> QED  BY <2>1, <2>2, <2>3
<1>14. AheadOf(r)' = AheadOf(r) /\ \A q \in Ranks : AheadOf(r)[q] = 0
  BY <1>3, <1>11 DEF AheadOf, Ahead
<1>15. ASSUME NEW q \in Ranks PROVE RRankInv(q)'
  <2>1. RCallInv(q) /\ RHandedInv(q) /\ RCreditInv(q) /\ RRing(q) /\ rsupport[q] \in RSupport
    BY RAt
  <2>2. CASE q = r
    <3>1. RHandedInv(r)'
      BY <1>2, <1>10 DEF RHandedInv
    <3>2. RCreditInv(r)'
      BY <1>2, <1>3, <1>11, <2>1, <2>2 DEF RCreditInv
    <3>3. RRing(r)'
      <4>1. SameSums(rsupport'[r], rsupport[r])
        BY <1>2 DEF SameSums
      <4> QED  BY <1>14, <2>1, <2>2, <4>1, RRingStays
    <3> QED  BY <1>4, <2>2, <3>1, <3>2, <3>3 DEF RRankInv
  <2>3. CASE q # r
    <3>1. RCallInv(q)' /\ RHandedInv(q)'
      BY <1>2, <1>4, <2>1, <2>3 DEF RCallInv, RHandedInv
    <3>2. RCreditInv(q)'
      BY <1>2, <1>4, <1>13, <2>1, <2>3 DEF RCreditInv, CreditsDue
    <3>3. RRing(q)'
      BY <1>2, <1>4, <1>13, <2>1, <2>3, RRingStays DEF SameSums
    <3> QED  BY <3>1, <3>2, <3>3 DEF RRankInv
  <2> QED  BY <2>2, <2>3
<1>16. ASSUME NEW y \in 1 .. R!NumCollectives, Started(y)
       PROVE  Started(y)'
  <2>1. ReduceRoots[y] \in Ranks
    BY RNumbers
  <2>2. CASE ReduceRoots[y] # r
    BY <1>4, <1>13, <1>16, <2>1, <2>2 DEF Started
  <2>3. CASE ReduceRoots[y] = r
    <3>1. k > y
      BY <1>3, <1>16, <2>3 DEF Started
    <3> QED  BY <1>9, <2>3, <3>1 DEF Started
  <2> QED  BY <2>2, <2>3
<1>17. ASSUME NEW q \in Ranks PROVE RRootFirst(q)'
  <2>1. RRootFirst(q)
    BY RAt
  <2> SUFFICES ASSUME NEW y \in 1 .. R!NumCollectives, ReduceRoots[y] # q, GotOn(q, y)'
               PROVE  Started(y)
    BY <1>16 DEF RRootFirst
  <2>2. CASE q = r /\ y = k
    BY <1>1, <1>8, <2>2 DEF Started
  <2>3. CASE ~ (q = r /\ y = k)
    <3>1. GotOn(q, y)
      <4>1. CASE q = r
        BY <1>9, <2>3, <4>1
      <4>2. CASE q # r
        BY <1>4, <4>2 DEF GotOn
      <4> QED  BY <4>1, <4>2
    <3> QED  BY <2>1, <3>1 DEF RRootFirst
  <2> QED  BY <2>2, <2>3
<1>18. ASSUME NEW q \in Ranks PROVE RTokenInv(q)'
  <2>1. ASSUME NEW y \in Needs(q) PROVE Issued(y, q)' = Issued(y, q)
    <3>1. ReduceRoots[y] \in Ranks /\ y \in Int /\ y \in 1 .. R!NumCollectives
      BY RNumbers DEF Needs
    <3>2. CASE ReduceRoots[y] # r
      BY <1>2, <1>4, <1>13, <3>1, <3>2 DEF Issued
    <3>3. CASE ReduceRoots[y] = r
      <4>1. y # k
        BY <1>1, <3>3
      <4>2. k > y <=> rchan'[r].coll > y
        BY <1>9, <3>1, <4>1
      <4> QED  BY <1>3, <1>11, <3>3, <4>2 DEF Issued
    <3> QED  BY <3>2, <3>3
  <2>2. ASSUME NEW y \in Needs(q) PROVE Used(y, q)' = Used(y, q)
    <3>1. CASE q # r
      BY <1>4, <3>1 DEF Used
    <3>2. CASE q = r
      <4>1. y \in Int /\ y \in 1 .. R!NumCollectives
        BY DEF Needs
      <4>2. CASE k > y
        BY <1>9, <3>2, <4>1, <4>2 DEF Used
      <4>3. CASE k = y
        <5>1. Used(y, r) = c.returned + 1
          BY <1>1, <1>2, <4>3 DEF Used
        <5>2. CASE last
          <6>1. rchan'[r].coll > y
            BY <1>1, <1>4, <4>3, <5>2
          <6> QED  BY <3>2, <4>3, <5>1, <5>2, <6>1 DEF Used, last
        <5>3. CASE ~ last
          <6>1. rchan'[r].coll = y /\ ~ (rchan'[r].coll > y)
                /\ rchan'[r].returned = c.returned + 1
            BY <1>1, <1>4, <4>3, <5>3
          <6>2. Used(y, r)' = c.returned + 1 + 0
            BY <1>4, <6>1 DEF Used
          <6> QED  BY <1>4, <3>2, <5>1, <6>2
        <5> QED  BY <5>2, <5>3
      <4>4. CASE k < y
        <5>1. ~ (rchan'[r].coll > y) /\ (rchan'[r].coll = y => rchan'[r].returned = 0)
              /\ ~ (k > y) /\ k # y
          BY <1>1, <1>4, <4>1, <4>4
        <5> QED  BY <1>4, <3>2, <5>1 DEF Used
      <4> QED  BY <1>1, <4>1, <4>2, <4>3, <4>4
    <3> QED  BY <3>1, <3>2
  <2> QED  BY <1>2, <2>1, <2>2, RAt, RTokensStay
<1>19. ASSUME NEW q \in Ranks, NEW x \in Ranks PROVE RQueueInv(q, x)' /\ RRootLast(x, q)'
  <2>1. RQueueInv(q, x) /\ RRootLast(x, q)
    BY RAt
  <2>2. RRootLast(x, q)'
    <3> SUFFICES ASSUME NEW y \in 1 .. R!NumCollectives, ReduceRoots[y] = x,
                        rchan'[x].coll > y
                 PROVE  rchan'[q].coll > y
      BY DEF RRootLast
    <3>1. x = r => y # k
      BY <1>1
    <3>2. rchan[x].coll > y
      BY <1>4, <1>9, <3>1
    <3>3. rchan[q].coll > y
      BY <2>1, <3>2 DEF RRootLast
    <3> QED  BY <1>4, <1>9, <3>3
  <2>3. RQueueInv(q, x)'
    <3>1. CASE x = r
      <4>1. rdata[q][r] = <<>> /\ rdata'[q][r] = rdata[q][r]
        BY <1>1, <1>3, <1>6, <2>1, <3>1 DEF RQueueInv
      <4> QED  BY <1>11, <3>1, <4>1 DEF RQueueInv
    <3>2. CASE x # r /\ ~ (Begun(x) /\ q # x)
      <4>1. rdata[q][x] = <<>> /\ rdata'[q][x] = rdata[q][x]
        BY <1>6, <1>8, <2>1, <3>2 DEF RQueueInv
      <4> QED  BY <1>13, <3>2, <4>1 DEF RQueueInv
    <3>3. CASE x # r /\ Begun(x) /\ q # x
      <4>1. /\ Added(x, q)' = Added(x, q) /\ Summed(x)' = Summed(x) /\ Begun(x)'
            /\ rchan'[x] = rchan[x]
        BY <1>4, <1>13, <3>3
      <4>2. Given(x, q) \in Int /\ Summed(x) \in Int
        BY <3>3, RCounts DEF Begun
      <4>3. CASE q = r /\ x = b
        <5>1. c.returned + 1 <= Summed(b) + credits_flow_control
          BY <1>2, <1>8, <1>12, <2>1, <3>3, <4>3 DEF RQueueInv
        <5>2. Given(b, r)' + 0 <= Summed(b) + credits_flow_control
          BY <1>4, <1>12, <5>1
        <5>3. \A n \in 1 .. Len(rdata'[r][b]) :
                  rdata'[r][b][n] = <<rchan[b].coll, r, Added(b, r) + n>>
          <6> SUFFICES ASSUME NEW n \in 1 .. Len(rdata'[r][b])
                       PROVE  rdata'[r][b][n] = <<rchan[b].coll, r, Added(b, r) + n>>
            OBVIOUS
          <6>1. CASE n = Len(rdata[r][b]) + 1
            <7>1. rdata'[r][b][n] = item
              BY <1>5, <1>6, <6>1, AppendProperties
            <7>2. Added(b, r) + n = c.returned + 1
              <8>1. Added(b, r) = c.returned - Len(rdata[r][b])
                BY <1>1, <1>12 DEF Added
              <8> QED  BY <1>4, <1>12, <6>1, <8>1
            <7> QED  BY <1>4, <1>8, <7>1, <7>2 DEF item
          <6>2. CASE n # Len(rdata[r][b]) + 1
            <7>1. n \in 1 .. Len(rdata[r][b])
              BY <1>12, <6>2
            <7>2. rdata'[r][b][n] = rdata[r][b][n]
              BY <1>5, <1>6, <7>1, AppendProperties
            <7> QED  BY <2>1, <3>3, <4>3, <7>1, <7>2 DEF RQueueInv
          <6> QED  BY <6>1, <6>2
        <5> QED  BY <1>4, <2>1, <3>3, <4>1, <4>3, <5>2, <5>3 DEF RQueueInv
      <4>4. CASE ~ (q = r /\ x = b)
        <5>1. Given(x, q)' = Given(x, q) /\ rdata'[q][x] = rdata[q][x]
          BY <1>6, <1>13, <3>3, <4>4
        <5>2. Given(x, q) + (IF rchan'[q].coll = rchan'[x].coll /\ rchan'[q].credit
                             THEN 1 ELSE 0) <= Summed(x) + credits_flow_control
          <6>1. Given(x, q) <= Summed(x) + credits_flow_control
            BY <2>1, <3>3, <4>2, RingNumbers DEF RQueueInv
          <6>2. CASE q = r
            BY <1>4, <4>2, <6>1, <6>2
          <6>3. CASE q # r
            BY <1>4, <2>1, <3>3, <4>1, <6>3 DEF RQueueInv
          <6> QED  BY <6>2, <6>3
        <5> QED  BY <2>1, <3>3, <4>1, <5>1, <5>2 DEF RQueueInv
      <4> QED  BY <4>3, <4>4
    <3> QED  BY <3>1, <3>2, <3>3
  <2> QED  BY <2>2, <2>3
<1> QED  BY <1>7, <1>15, <1>17, <1>18, <1>19 DEF RInv

-----------------------------------------------------------------------------
(* The kernel of the root *)

LEMMA REmptied ==
    ASSUME NEW s \in RSupport
    PROVE  LET s2 == R!Emptied(s)
               first == s.current_buffer_element
           IN  /\ s2 \in RSupport
               /\ s2.send_credits = (s.sent_credits < s.message_size)
               /\ s2.credits = s.credits + 1 /\ s2.send_to = s.send_to
               /\ s2.sent_credits = s.sent_credits /\ s2.message_size = s.message_size
               /\ s2.add_to = s.add_to /\ s2.add_to_root = s.add_to_root
               /\ s2.current_buffer_element = R!Next1(first)
               /\ s2.reduce_result = [s.reduce_result EXCEPT ![first] = {}]
<1> DEFINE first == s.current_buffer_element
           next == R!Next1(first)
           due == s.sent_credits < s.message_size
           result == [s.reduce_result EXCEPT ![first] = {}]
           s2 == [s EXCEPT !.send_credits = due, !.credits = @ + 1,
                           !.reduce_result = result, !.current_buffer_element = next]
<1>1. first \in R!Slots /\ next \in R!Slots /\ due \in BOOLEAN /\ s.credits + 1 \in Int
  BY RSupportFields, OneOn
<1>2. result \in [R!Slots -> SUBSET R!Contribution]
  BY <1>1 DEF RSupport
<1>3. R!Emptied(s) = s2
  BY DEF R!Emptied
<1> HIDE DEF first, next, due, result
<1>4. s2 \in RSupport
  BY <1>1, <1>2 DEF RSupport
<1>5. /\ s2.send_credits = due /\ s2.credits = s.credits + 1 /\ s2.send_to = s.send_to
      /\ s2.sent_credits = s.sent_credits /\ s2.message_size = s.message_size
      /\ s2.add_to = s.add_to /\ s2.add_to_root = s.add_to_root
      /\ s2.current_buffer_element = next /\ s2.reduce_result = result
  BY DEF RSupport
<1> HIDE DEF s2
<1> QED  BY <1>3, <1>4, <1>5 DEF first, next, due, result

LEMMA RFinish ==
    ASSUME RTypeOK, NEW r \in Ranks, NEW s \in RSupport, NEW k, NEW m \in Int, NEW ahead,
           \A q \in Ranks : ahead[q] \in Int /\ 0 <= ahead[q] /\ ahead[q] <= credits_flow_control,
           Ring(r, s, k, m, ahead), R!Finish(r, s)
    PROVE  /\ rsupport' \in [Ranks -> RSupport] /\ reduce_recv' \in [Ranks -> Seq(RResult)]
           /\ \A q \in Ranks : q # r => rsupport'[q] = rsupport[q]
                                        /\ reduce_recv'[q] = reduce_recv[q]
           /\ \/ reduce_recv' = reduce_recv /\ rsupport'[r] = s
              \/ /\ reduce_recv[r] = <<>> /\ Len(reduce_recv'[r]) = 1
                 /\ reduce_recv'[r][1] = {<<k, q, m + 1>> : q \in Ranks}
                 /\ \A q \in Ranks : ahead[q] >= 1
                 /\ rsupport'[r] = R!Emptied(s)
                 /\ Ring(r, R!Emptied(s), k, m + 1, [q \in Ranks |-> ahead[q] - 1])
<1> DEFINE first == s.current_buffer_element
           result == s.reduce_result
<1>1. rsupport \in [Ranks -> RSupport] /\ reduce_recv \in [Ranks -> Seq(RResult)]
  BY DEF RTypeOK
<1>2. /\ first \in R!Slots /\ Sums(result, first, k, m, ahead) /\ Pointers(r, s, ahead)
  BY RSupportFields DEF Ring
<1>3. CASE R!Complete(s)
  <2>1. /\ reduce_recv[r] = <<>> /\ reduce_recv' = [reduce_recv EXCEPT ![r] = <<result[first]>>]
        /\ rsupport' = [rsupport EXCEPT ![r] = R!Emptied(s)]
    BY <1>3 DEF R!Finish
  <2>2. Cardinality(result[first]) = NumRanks
    BY <1>3, SameCardinality DEF R!Complete
  <2>3. /\ \A q \in Ranks : ahead[q] >= 1
        /\ result[first] = {<<k, q, m + 1>> : q \in Ranks}
    BY <1>2, <2>2, SumComplete
  <2>4. result[first] \in RResult
    BY <1>2 DEF Sums, RResult
  <2>5. R!Emptied(s) \in RSupport
    BY REmptied
  <2> DEFINE ahead2 == [q \in Ranks |-> ahead[q] - 1]
  <2>6. Sums([result EXCEPT ![first] = {}], R!Next1(first), k, m + 1, ahead2)
    <3>1. \A q \in Ranks : /\ ahead[q] \in Int /\ 1 <= ahead[q]
                           /\ ahead[q] <= credits_flow_control
                           /\ ahead2[q] = ahead[q] - 1
      BY <2>3
    <3> HIDE DEF ahead2, first, result
    <3> QED  BY <1>2, <3>1, SumsEmpty
  <2>7. Pointers(r, R!Emptied(s), ahead2)
    <3>1. \A q \in Ranks : On(R!Next1(first), ahead[q] - 1) = On(first, ahead[q])
      BY <1>2, <2>3, PlacesOn
    <3>2. /\ R!Emptied(s).add_to = s.add_to /\ R!Emptied(s).add_to_root = s.add_to_root
          /\ R!Emptied(s).current_buffer_element = R!Next1(first)
      BY REmptied
    <3> QED  BY <1>2, <3>1, <3>2 DEF Pointers
  <2>8. Ring(r, R!Emptied(s), k, m + 1, ahead2)
    BY <2>6, <2>7, REmptied DEF Ring
  <2>9. reduce_recv' \in [Ranks -> Seq(RResult)] /\ reduce_recv'[r] = <<result[first]>>
        /\ \A q \in Ranks : q # r => reduce_recv'[q] = reduce_recv[q]
    BY <1>1, <2>1, <2>4
  <2>10. Len(reduce_recv'[r]) = 1 /\ reduce_recv'[r][1] = result[first]
    BY <2>9
  <2>11. rsupport' \in [Ranks -> RSupport] /\ rsupport'[r] = R!Emptied(s)
         /\ \A q \in Ranks : q # r => rsupport'[q] = rsupport[q]
    BY <1>1, <2>1, <2>5
  <2> QED  BY <2>1, <2>3, <2>8, <2>9, <2>10, <2>11
<1>4. CASE ~ R!Complete(s)
  <2>1. reduce_recv' = reduce_recv /\ rsupport' = [rsupport EXCEPT ![r] = s]
    BY <1>4 DEF R!Finish
  <2> QED  BY <1>1, <2>1
<1> QED  BY <1>3, <1>4


(* An addition of a contributor's next element: s is what the kernel has     *)
(* before it looks whether the sum is complete. *)
AddedStep(r, s, k, m, ahead) ==
    /\ s \in RSupport
    /\ k = rchan[r].coll /\ m = Summed(r) /\ RRooted(r, k) /\ Begun(r)'
    /\ rchan' = rchan /\ rcontrol' = rcontrol
    /\ reduce_send' \in [Ranks -> Seq(RMessage)] /\ rdata' \in Net(R!Contribution)
    /\ \A x \in Ranks : x # r => reduce_send'[x] = reduce_send[x]
    /\ \A x, q \in Ranks : x # r => rdata'[q][x] = rdata[q][x]
    /\ reduce_send'[r] = <<>> \/ reduce_send'[r] = reduce_send[r]
    /\ rdata'[r][r] = <<>>
    /\ \A q \in Ranks : /\ ahead[q] \in Int /\ 0 <= ahead[q]
                        /\ ahead[q] <= credits_flow_control
                        /\ Added(r, q)' = m + ahead[q]
    /\ \A q \in Ranks : q # r =>
           /\ \A n \in 1 .. Len(rdata'[q][r]) :
                  rdata'[q][r][n] = <<k, q, Added(r, q)' + n>>
           /\ Given(r, q) + (IF rchan[q].coll = k /\ rchan[q].credit THEN 1 ELSE 0)
                  <= m + credits_flow_control
           /\ Issued(k, q) = s.sent_credits
    /\ s.send_to = 0
    /\ NumRanks > 1 => /\ s.message_size = ReduceCounts[k]
                       /\ CreditsDue(s, k, m)
                       /\ s.send_credits => \E q \in Ranks : ahead[q] = 0
    /\ Ring(r, s, k, m, ahead) /\ R!Finish(r, s)

LEMMA RAdded ==
    ASSUME RInv, NEW r \in Ranks, NEW s, NEW k, NEW m, NEW ahead,
           AddedStep(r, s, k, m, ahead)
    PROVE  RInv'
<1> USE DEF AddedStep
<1> DEFINE s2 == rsupport'[r]
           complete == reduce_recv' # reduce_recv
<1>1. /\ k \in 1 .. R!NumCollectives /\ k \in Int /\ k <= R!NumCollectives
      /\ ReduceCounts[k] \in Int /\ ReduceCounts[k] >= 1
      /\ rchan[r] \in RChannel /\ RCallInv(r) /\ RHandedInv(r)
      /\ m \in Int /\ m >= 0 /\ rchan[r].returned \in Int /\ rchan[r].returned >= 0
  <2>1. k \in 1 .. R!NumCollectives /\ k \in Int /\ k <= R!NumCollectives
    BY RNumbers DEF RRooted
  <2>2. rchan[r] \in RChannel /\ RCallInv(r) /\ RHandedInv(r)
    BY RAt
  <2> QED  BY <2>1, <2>2, RNumbers, RCounts, RChannelFields
<1>2. RTypeOK
  BY DEF RInv
<1>3. /\ rsupport' \in [Ranks -> RSupport] /\ reduce_recv' \in [Ranks -> Seq(RResult)]
      /\ \A q \in Ranks : q # r => rsupport'[q] = rsupport[q]
                                   /\ reduce_recv'[q] = reduce_recv[q]
      /\ \/ reduce_recv' = reduce_recv /\ s2 = s
         \/ /\ reduce_recv[r] = <<>> /\ Len(reduce_recv'[r]) = 1
            /\ reduce_recv'[r][1] = {<<k, q, m + 1>> : q \in Ranks}
            /\ \A q \in Ranks : ahead[q] >= 1
            /\ s2 = R!Emptied(s)
            /\ Ring(r, R!Emptied(s), k, m + 1, [q \in Ranks |-> ahead[q] - 1])
  <2>1. \A q \in Ranks : ahead[q] \in Int /\ 0 <= ahead[q] /\ ahead[q] <= credits_flow_control
    OBVIOUS
  <2>2. m \in Int /\ Ring(r, s, k, m, ahead) /\ R!Finish(r, s)
    BY <1>1
  <2>3. s \in RSupport
    OBVIOUS
  <2> HIDE DEF AddedStep
  <2> QED  BY <1>2, <2>1, <2>2, <2>3, RFinish
<1>4. RTypeOK'
  BY <1>2, <1>3 DEF RTypeOK
<1>5. \A q \in Ranks : q # r => reduce_recv'[q] = reduce_recv[q]
  BY <1>3
<1>6. /\ ~ complete => Summed(r)' = m /\ s2 = s
      /\ complete => /\ Summed(r)' = m + 1 /\ reduce_recv[r] = <<>> /\ s2 = R!Emptied(s)
                     /\ m = rchan[r].returned
                     /\ Len(reduce_recv'[r]) = 1
                     /\ reduce_recv'[r][1] = {<<k, q, m + 1>> : q \in Ranks}
                     /\ \A q \in Ranks : ahead[q] >= 1
                     /\ Ring(r, s2, k, m + 1, [q \in Ranks |-> ahead[q] - 1])
  <2>1. CASE ~ complete
    <3>1. Summed(r)' = m
      BY <2>1 DEF Summed
    <3> QED  BY <1>3, <2>1, <3>1, EmptySeq
  <2>2. CASE complete
    <3>1. reduce_recv[r] = <<>> /\ Len(reduce_recv[r]) = 0
      BY <1>3, <2>2, EmptySeq
    <3>2. Summed(r)' = rchan[r].returned + 1
      BY <1>3, <2>2 DEF Summed
    <3>3. m = rchan[r].returned + 0
      BY <3>1 DEF Summed
    <3> QED  BY <1>1, <1>3, <2>2, <3>1, <3>2, <3>3
  <2> QED  BY <2>1, <2>2
<1>7. s2 \in RSupport
  BY <1>3
<1> HIDE DEF s2, complete
<1>8. s2.send_to = 0 /\ s2.sent_credits = s.sent_credits /\ s2.message_size = s.message_size
  <2>1. s \in RSupport /\ s.send_to = 0
    OBVIOUS
  <2>2. /\ R!Emptied(s).send_to = s.send_to /\ R!Emptied(s).sent_credits = s.sent_credits
        /\ R!Emptied(s).message_size = s.message_size
    BY <2>1, REmptied
  <2>3. s2 = s \/ s2 = R!Emptied(s)
    BY <1>6
  <2> QED  BY <2>1, <2>2, <2>3
<1>9. ASSUME NEW x \in Ranks, x # r
      PROVE  /\ (Begun(x)' <=> Begun(x)) /\ Summed(x)' = Summed(x)
             /\ AheadOf(x)' = AheadOf(x)
             /\ \A q \in Ranks : Given(x, q)' = Given(x, q) /\ Added(x, q)' = Added(x, q)
  <2>1. (Begun(x)' <=> Begun(x)) /\ Summed(x)' = Summed(x)
    BY <1>5, <1>9 DEF Begun, Summed
  <2>2. ASSUME NEW q \in Ranks
        PROVE  Given(x, q)' = Given(x, q) /\ Added(x, q)' = Added(x, q)
    <3>1. Given(x, q)' = Given(x, q)
      BY DEF Given
    <3> QED  BY <1>9, <3>1 DEF Added
  <2>3. AheadOf(x)' = AheadOf(x)
    BY <2>1, <2>2 DEF AheadOf, Ahead
  <2> QED  BY <2>1, <2>2, <2>3
<1>10. \A q \in Ranks : Given(r, q)' = Given(r, q)
  BY DEF Given
<1>11. RHandedInv(r)'
  <2>1. CASE ~ complete
    <3>1. reduce_recv' = reduce_recv
      BY <2>1 DEF complete
    <3>2. reduce_recv[r] # <<>> => reduce_send'[r] = <<>>
      BY <1>1 DEF RHandedInv
    <3> QED  BY <1>1, <3>1, <3>2 DEF RHandedInv
  <2>2. CASE complete
    <3> DEFINE one == IF rchan[r].sent THEN 1 ELSE 0
               handed == Len(reduce_send'[r])
    <3>1. one \in Int /\ ((one = 1 /\ rchan[r].sent) \/ one = 0)
      OBVIOUS
    <3>2. handed \in Int /\ handed >= 0 /\ (handed = 0 => reduce_send'[r] = <<>>)
      <4>1. reduce_send'[r] \in Seq(RMessage)
        OBVIOUS
      <4> QED  BY <4>1, EmptySeq, LenProperties
    <3>3. Given(r, r) = rchan[r].returned + one
      BY DEF Given
    <3>4. Added(r, r)' = Given(r, r) - handed
      BY <1>10 DEF Added
    <3>5. Added(r, r)' = m + ahead[r] /\ ahead[r] >= 1 /\ ahead[r] \in Int
          /\ m = rchan[r].returned
      BY <1>6, <2>2
    <3> HIDE DEF one, handed
    <3>6. one = 1 /\ handed = 0
      BY <1>1, <3>1, <3>2, <3>3, <3>4, <3>5, SMTT(30)
    <3>7. rchan[r].sent /\ reduce_send'[r] = <<>>
      BY <3>1, <3>2, <3>6
    <3>8. rchan[r].entered = m + 1
      <4>1. rchan[r].entered \in {rchan[r].returned, rchan[r].returned + 1}
            /\ rchan[r].entered # rchan[r].returned
        BY <1>1, <3>7 DEF RCallInv
      <4> QED  BY <1>6, <2>2, <4>1
    <3> QED  BY <1>6, <2>2, <3>7, <3>8 DEF RHandedInv
  <2> QED  BY <2>1, <2>2
<1>12. RCreditInv(r)'
  <2>1. ASSUME NumRanks > 1
        PROVE  s2.message_size = ReduceCounts[k] /\ CreditsDue(s2, k, Summed(r)')
    <3>1. CASE ~ complete
      BY <1>6, <2>1, <3>1
    <3>2. CASE complete
      <4>1. ~ s.send_credits
        <5>1. s.send_credits => \E q \in Ranks : ahead[q] = 0 /\ ahead[q] >= 1
          BY <1>6, <2>1, <3>2
        <5> QED  BY <5>1
      <4>2. /\ s.sent_credits = Allowed(k, m) /\ s.message_size = ReduceCounts[k]
            /\ s.sent_credits < s.message_size => s.credits = 0
        BY <2>1, <4>1 DEF CreditsDue
      <4>3. s2.send_credits = (s.sent_credits < s.message_size) /\ s2.credits = s.credits + 1
        BY <1>6, <3>2, REmptied
      <4>4. s.sent_credits \in Int /\ s.credits \in Int
        BY RSupportFields
      <4>5. CASE s.sent_credits < ReduceCounts[k]
        <5>1. s.sent_credits = m + credits_flow_control
          <6>1. Allowed(k, m) = ReduceCounts[k] \/ Allowed(k, m) = m + credits_flow_control
            BY DEF Allowed
          <6> QED  BY <1>1, <4>2, <4>5, <6>1
        <5>2. Allowed(k, m + 1) = m + 1 + credits_flow_control
          BY <1>1, <4>5, <5>1, RingNumbers DEF Allowed
        <5>3. s2.send_credits /\ s2.credits = 1
          <6>1. s.sent_credits < s.message_size
            BY <4>2, <4>5
          <6>2. s.credits = 0
            BY <4>2, <6>1
          <6>3. s2.send_credits
            BY <4>3, <6>1, Zenon
          <6>4. s2.credits = 1
            BY <4>3, <6>2
          <6> QED  BY <6>3, <6>4
        <5>4. s2.sent_credits + s2.credits = Allowed(k, m + 1)
              /\ m + 1 < ReduceCounts[k]
          BY <1>1, <1>8, <4>5, <5>1, <5>2, <5>3, RingNumbers
        <5> QED  BY <1>6, <1>8, <3>2, <4>2, <5>3, <5>4 DEF CreditsDue
      <4>6. CASE ~ (s.sent_credits < ReduceCounts[k])
        <5>1. s.sent_credits = ReduceCounts[k] /\ ReduceCounts[k] <= m + credits_flow_control
          <6>1. \/ ReduceCounts[k] < m + credits_flow_control
                   /\ s.sent_credits = ReduceCounts[k]
                \/ ~ (ReduceCounts[k] < m + credits_flow_control)
                   /\ s.sent_credits = m + credits_flow_control
            BY <4>2 DEF Allowed
          <6> QED  BY <1>1, <4>4, <4>6, <6>1, RingNumbers
        <5>3. Allowed(k, m + 1) = ReduceCounts[k]
          BY <1>1, <5>1, RingNumbers DEF Allowed
        <5>2. ~ s2.send_credits
          BY <4>2, <4>3, <4>6
        <5>4. s2.sent_credits = Allowed(k, m + 1) /\ ~ (s2.sent_credits < s2.message_size)
          BY <1>1, <1>8, <4>2, <5>1, <5>3
        <5> QED  BY <1>6, <1>8, <3>2, <4>2, <5>2, <5>4 DEF CreditsDue
      <4> QED  BY <4>5, <4>6
    <3> QED  BY <3>1, <3>2
  <2> QED  BY <1>8, <2>1 DEF RCreditInv, s2
<1>13. RRing(r)'
  <2>1. Ring(r, s2, k, Summed(r)', AheadOf(r)')
    <3>1. CASE ~ complete
      <4>1. Added(r, r)' - m = ahead[r]
            /\ \A q \in Ranks : Added(r, q)' - m = ahead[q]
        BY <1>1
      <4>2. \A q \in Ranks : AheadOf(r)'[q] = ahead[q]
        BY <1>6, <3>1, <4>1 DEF AheadOf, Ahead
      <4>3. Ring(r, s2, k, m, ahead)
        BY <1>6, <3>1
      <4> HIDE DEF AheadOf
      <4> QED  BY <1>6, <3>1, <4>2, <4>3 DEF Ring, Pointers, Sums
    <3>2. CASE complete
      <4>1. \A q \in Ranks : Added(r, q)' - (m + 1) = ahead[q] - 1
        BY <1>1
      <4>2. AheadOf(r)' = [q \in Ranks |-> ahead[q] - 1]
        BY <1>6, <3>2, <4>1 DEF AheadOf, Ahead
      <4> QED  BY <1>6, <3>2, <4>2
    <3> QED  BY <3>1, <3>2
  <2> QED  BY <2>1 DEF RRing, s2
<1>14. ASSUME NEW q \in Ranks PROVE RRankInv(q)'
  <2>1. RCallInv(q) /\ RHandedInv(q) /\ RCreditInv(q) /\ RRing(q) /\ rsupport[q] \in RSupport
    BY RAt
  <2>2. RCallInv(q)'
    BY <2>1 DEF RCallInv
  <2>3. CASE q = r
    BY <1>11, <1>12, <1>13, <2>2, <2>3 DEF RRankInv
  <2>4. CASE q # r
    <3>1. RHandedInv(q)'
      BY <1>5, <2>1, <2>4 DEF RHandedInv
    <3>2. RCreditInv(q)'
      BY <1>3, <1>9, <2>1, <2>4 DEF RCreditInv, CreditsDue
    <3>3. RRing(q)'
      BY <1>3, <1>9, <2>1, <2>4, RRingStays DEF SameSums
    <3> QED  BY <2>2, <3>1, <3>2, <3>3 DEF RRankInv
  <2> QED  BY <2>3, <2>4
<1>15. ASSUME NEW q \in Ranks PROVE RRootFirst(q)'
  <2>1. RRootFirst(q)
    BY RAt
  <2>2. ASSUME NEW y \in 1 .. R!NumCollectives, Started(y) PROVE Started(y)'
    <3>1. ReduceRoots[y] \in Ranks
      BY RNumbers
    <3>2. Begun(ReduceRoots[y]) => Begun(ReduceRoots[y])'
      BY <1>9, <3>1
    <3> QED  BY <2>2, <3>2 DEF Started
  <2>3. \A y \in 1 .. R!NumCollectives : GotOn(q, y)' => GotOn(q, y)
    BY DEF GotOn
  <2> QED  BY <2>1, <2>2, <2>3 DEF RRootFirst
<1>16. ASSUME NEW q \in Ranks PROVE RTokenInv(q)'
  <2>1. ASSUME NEW y \in Needs(q) PROVE Issued(y, q)' = Issued(y, q)
    <3>1. ReduceRoots[y] \in Ranks /\ ReduceRoots[y] # q /\ y \in Int
      BY RNumbers DEF Needs
    <3>2. CASE ReduceRoots[y] # r
      BY <1>3, <1>9, <3>1, <3>2 DEF Issued
    <3>3. CASE ReduceRoots[y] = r
      <4>1. CASE y # k
        BY <3>3, <4>1 DEF Issued
      <4>2. CASE y = k
        <5>1. ~ (rchan[r].coll > y)
          BY <1>1, <4>2
        <5>2. q \in Int /\ q >= 0 /\ ~ (0 > q)
          BY Numbers
        <5>3. Issued(k, q)' = s2.sent_credits + 0
          BY <1>8, <3>3, <4>2, <5>1, <5>2 DEF Issued, s2
        <5>4. Issued(k, q) = s.sent_credits /\ s.sent_credits \in Int
          BY <3>1, <3>3, RSupportFields
        <5> QED  BY <1>8, <4>2, <5>3, <5>4
      <4> QED  BY <4>1, <4>2
    <3> QED  BY <3>2, <3>3
  <2>2. \A y \in Needs(q) : Used(y, q)' = Used(y, q)
    BY DEF Used
  <2> QED  BY <2>1, <2>2, RAt, RTokensStay
<1>17. ASSUME NEW q \in Ranks, NEW x \in Ranks PROVE RQueueInv(q, x)' /\ RRootLast(x, q)'
  <2>1. RQueueInv(q, x) /\ RRootLast(x, q)
    BY RAt
  <2>2. RRootLast(x, q)'
    BY <2>1 DEF RRootLast
  <2>3. RQueueInv(q, x)'
    <3>1. CASE x # r
      BY <1>9, <2>1, <3>1 DEF RQueueInv
    <3>2. CASE x = r /\ q = r
      BY <3>2 DEF RQueueInv
    <3>3. CASE x = r /\ q # r
      <4>1. Summed(r)' <= Added(r, q)'
        BY <1>1, <1>6, SMTT(30)
      <4>2. Given(r, q) + (IF rchan[q].coll = k /\ rchan[q].credit THEN 1 ELSE 0)
                <= Summed(r)' + credits_flow_control
        <5> DEFINE left == Given(r, q)
                                + (IF rchan[q].coll = k /\ rchan[q].credit THEN 1 ELSE 0)
        <5>1. left \in Int /\ left <= m + credits_flow_control
          <6>1. Given(r, q) \in Int
            BY RCounts
          <6>2. left <= m + credits_flow_control
            BY <3>3
          <6> QED  BY <6>1, <6>2
        <5> HIDE DEF left
        <5>2. left <= Summed(r)' + credits_flow_control
          BY <1>1, <1>6, <5>1, RingNumbers
        <5> QED  BY <5>2 DEF left
      <4> QED  BY <1>10, <3>3, <4>1, <4>2 DEF RQueueInv
    <3> QED  BY <3>1, <3>2, <3>3
  <2> QED  BY <2>2, <2>3
<1> QED  BY <1>4, <1>14, <1>15, <1>16, <1>17 DEF RInv


With(result, slot, item) == [result EXCEPT ![slot] = @ \cup {item}]

OneAhead(ahead2, ahead, p) ==
    ahead2[p] = ahead[p] + 1 /\ \A q \in Ranks : q # p => ahead2[q] = ahead[q]

(* Rank p's contribution is added where its place is, which moves on. *)
AddedFor(r, p, s2, s, item) ==
    /\ s2.current_buffer_element = s.current_buffer_element
    /\ p = r => /\ s2.reduce_result = With(s.reduce_result, s.add_to_root, item)
                /\ s2.add_to_root = R!Next1(s.add_to_root) /\ s2.add_to = s.add_to
    /\ p # r => /\ s2.reduce_result = With(s.reduce_result, s.add_to[p], item)
                /\ s2.add_to_root = s.add_to_root
                /\ s2.add_to = [s.add_to EXCEPT ![p] = R!Next1(@)]

LEMMA RingAdd ==
    ASSUME NEW r \in Ranks, NEW p \in Ranks, NEW s \in RSupport, NEW s2, NEW k, NEW m \in Int,
           NEW ahead, NEW ahead2, NEW item \in R!Contribution,
           Ring(r, s, k, m, ahead),
           \A q \in Ranks : ahead[q] \in Int /\ 0 <= ahead[q],
           ahead[p] < credits_flow_control,
           OneAhead(ahead2, ahead, p), item = <<k, p, m + 1 + ahead[p]>>,
           AddedFor(r, p, s2, s, item)
    PROVE  Ring(r, s2, k, m, ahead2)
<1> DEFINE first == s.current_buffer_element
           slot == On(first, ahead[p])
<1>1. /\ first \in R!Slots /\ Sums(s.reduce_result, first, k, m, ahead)
      /\ Pointers(r, s, ahead) /\ s.add_to \in [Ranks -> R!Slots]
  BY RSupportFields DEF Ring
<1>2. ahead[p] \in Int /\ 0 <= ahead[p] /\ ahead[p] <= credits_flow_control
  BY RingNumbers
<1>3. R!Next1(slot) = On(first, ahead2[p])
  BY <1>1, <1>2, PlacesOn DEF OneAhead
<1>4. (p = r => s.add_to_root = slot) /\ (p # r => s.add_to[p] = slot)
  BY <1>1 DEF Pointers
<1>5. Sums([s.reduce_result EXCEPT ![slot] = @ \cup {item}], first, k, m, ahead2)
  <2>1. \A q \in Ranks : ahead[q] \in Int
    OBVIOUS
  <2> DEFINE result == s.reduce_result
  <2>2. Sums(result, first, k, m, ahead) /\ first \in R!Slots
    BY <1>1
  <2> HIDE DEF result, first
  <2>3. Sums([result EXCEPT ![On(first, ahead[p])] = @ \cup {item}], first, k, m, ahead2)
    BY <1>2, <2>1, <2>2, SumsAdd DEF OneAhead
  <2> QED  BY <2>3 DEF result
<1>6. s2.reduce_result = [s.reduce_result EXCEPT ![slot] = @ \cup {item}]
  BY <1>4 DEF AddedFor, With
<1>7. Pointers(r, s2, ahead2)
  <2> HIDE DEF slot
  <2>1. CASE p = r
    BY <1>1, <1>3, <1>4, <2>1 DEF Pointers, OneAhead, AddedFor
  <2>2. CASE p # r
    <3>1. s2.add_to[p] = On(first, ahead2[p])
          /\ \A q \in Ranks : q # p => s2.add_to[q] = s.add_to[q]
      BY <1>1, <1>3, <1>4, <2>2 DEF AddedFor
    <3> QED  BY <1>1, <2>2, <3>1 DEF Pointers, OneAhead, AddedFor
  <2> QED  BY <2>1, <2>2
<1> QED  BY <1>5, <1>6, <1>7 DEF Ring, AddedFor

LEMMA RStart ==
    ASSUME NEW s \in RSupport, NEW size \in Nat
    PROVE  LET s2 == R!StartReduce(s, size)
           IN  /\ s2 \in RSupport /\ s2.send_credits /\ s2.sent_credits = 0 /\ s2.send_to = 0
               /\ s2.message_size = size
               /\ s2.credits = IF size < credits_flow_control THEN size ELSE credits_flow_control
               /\ SameSums(s2, s)
<1> DEFINE due == IF size < credits_flow_control THEN size ELSE credits_flow_control
           s2 == [s EXCEPT !.sent_credits = 0, !.send_to = 0, !.message_size = size,
                           !.send_credits = TRUE, !.credits = due]
<1>1. R!StartReduce(s, size) = s2
  BY DEF R!StartReduce
<1>2. due \in Int /\ 0 \in Ranks
  BY RingNumbers, Numbers
<1> HIDE DEF due
<1>3. s2 \in RSupport
  BY <1>2 DEF RSupport
<1>4. /\ s2.send_credits /\ s2.sent_credits = 0 /\ s2.send_to = 0
      /\ s2.message_size = size /\ s2.credits = due
  BY DEF RSupport
<1>5. SameSums(s2, s)
  BY DEF RSupport, SameSums
<1> HIDE DEF s2
<1> QED  BY <1>1, <1>3, <1>4, <1>5 DEF due

(* What the kernel of the root has added is what it was given less what is   *)
(* still on the way, begun or not; and its credits count up to its sums.     *)
LEMMA RWas ==
    ASSUME RInv, NEW r \in Ranks, RRooted(r, rchan[r].coll),
           ~ Begun(r) => reduce_send[r] # <<>> /\ rchan[r].returned = 0
    PROVE  LET k == rchan[r].coll
           IN  /\ \A q \in Ranks : Added(r, q) = Summed(r) + Ahead(r, q)
               /\ rdata[r][r] = <<>>
               /\ \A q \in Ranks : q # r =>
                      /\ \A n \in 1 .. Len(rdata[q][r]) :
                             rdata[q][r][n] = <<k, q, Added(r, q) + n>>
                      /\ Given(r, q) + (IF rchan[q].coll = k /\ rchan[q].credit
                                        THEN 1 ELSE 0) <= Summed(r) + credits_flow_control
                      /\ ~ rsupport[r].send_credits =>
                             Issued(k, q) = IF Begun(r) THEN rsupport[r].sent_credits ELSE 0
<1> DEFINE k == rchan[r].coll
<1>1. k \in 1 .. R!NumCollectives /\ k \in Int /\ ReduceRoots[k] = r
  BY RNumbers DEF RRooted
<1>2. /\ Summed(r) \in Int /\ \A q \in Ranks : Added(r, q) \in Int /\ Given(r, q) \in Int
  BY RCounts
<1>3. rdata[r][r] = <<>>
  BY RAt DEF RQueueInv
<1>4. CASE Begun(r)
  <2>1. \A q \in Ranks : Added(r, q) = Summed(r) + Ahead(r, q)
    BY <1>2, <1>4 DEF Ahead
  <2>2. \A q \in Ranks : RQueueInv(q, r)
    BY RAt
  <2>3. ASSUME NEW q \in Ranks, q # r, ~ rsupport[r].send_credits
        PROVE  Issued(k, q) = rsupport[r].sent_credits
    <3>1. Issued(k, q) = rsupport[r].sent_credits + 0
      BY <1>1, <1>4, <2>3 DEF Issued
    <3> QED  BY <3>1, RAt, RSupportFields
  <2> QED  BY <1>3, <1>4, <2>1, <2>2, <2>3 DEF RQueueInv
<1>5. CASE ~ Begun(r)
  <2>1. Summed(r) = 0
    <3>1. RHandedInv(r)
      BY RAt
    <3>2. Len(reduce_recv[r]) = 0
      BY <1>5, <3>1, EmptySeq DEF RHandedInv
    <3> QED  BY <1>5, <3>2 DEF Summed
  <2>2. ASSUME NEW q \in Ranks, q # r
        PROVE  /\ Given(r, q) = 0 /\ Added(r, q) = 0 /\ rdata[q][r] = <<>>
               /\ ~ (rchan[q].coll = k /\ rchan[q].credit)
    <3>1. RRootFirst(q) /\ RQueueInv(q, r) /\ rchan[q] \in RChannel
      BY RAt
    <3>2. ~ Started(k)
      BY <1>1, <1>5 DEF Started
    <3>3. ~ GotOn(q, k)
      BY <1>1, <2>2, <3>1, <3>2 DEF RRootFirst
    <3>4. /\ ~ (rchan[q].coll > k) /\ (rchan[q].coll = k => rchan[q].returned = 0)
          /\ ~ (rchan[q].coll = k /\ rchan[q].credit)
      BY <3>1, <3>3, RChannelFields DEF GotOn
    <3>5. Given(r, q) = 0
      BY <2>2, <3>4 DEF Given
    <3>6. rdata[q][r] = <<>> /\ Len(rdata[q][r]) = 0
      BY <1>5, <3>1, EmptySeq DEF RQueueInv
    <3>7. Added(r, q) = Given(r, q) - 0
      BY <2>2, <3>6 DEF Added
    <3> QED  BY <3>4, <3>5, <3>6, <3>7
  <2>3. Added(r, r) = 0
    <3>1. RHandedInv(r)
      BY RAt
    <3>2. rchan[r].sent /\ Len(reduce_send[r]) = 1
      BY <1>5, <3>1 DEF RHandedInv
    <3>3. Given(r, r) = 0 + 1
      BY <1>5, <3>2 DEF Given
    <3>4. Added(r, r) = Given(r, r) - 1
      BY <3>2 DEF Added
    <3> QED  BY <3>3, <3>4
  <2>4. \A q \in Ranks : Ahead(r, q) = 0
    BY <1>5 DEF Ahead
  <2>5. \A q \in Ranks : Added(r, q) = Summed(r) + Ahead(r, q)
    BY <2>1, <2>2, <2>3, <2>4
  <2>6. ASSUME NEW q \in Ranks, q # r
        PROVE  /\ \A n \in 1 .. Len(rdata[q][r]) :
                      rdata[q][r][n] = <<k, q, Added(r, q) + n>>
               /\ Given(r, q) + (IF rchan[q].coll = k /\ rchan[q].credit
                                 THEN 1 ELSE 0) <= Summed(r) + credits_flow_control
               /\ Issued(k, q) = 0
    <3>1. Len(rdata[q][r]) = 0
      BY <2>2, <2>6, EmptySeq
    <3>2. Given(r, q) + 0 <= Summed(r) + credits_flow_control
      BY <2>1, <2>2, <2>6, RingNumbers
    <3>3. Issued(k, q) = 0
      BY <1>1, <1>5 DEF Issued
    <3> QED  BY <2>2, <2>6, <3>1, <3>2, <3>3
  <2> QED  BY <1>3, <1>5, <2>5, <2>6
<1> QED  BY <1>4, <1>5


LEMMA RAddOwnStep ==
    ASSUME RInv, NEW r \in Ranks, R!AddOwn(r)
    PROVE  RInv'
<1> DEFINE k == rchan[r].coll
           m == Summed(r)
           s == rsupport[r]
           mess == Head(reduce_send[r])
           item == mess.data
           added == [s EXCEPT !.sender_id = 1,
                              !.reduce_result[s.add_to_root] = @ \cup {item},
                              !.add_to_root = R!Next1(@)]
           s3 == IF mess.op = "SYNCH" THEN R!StartReduce(added, mess.message_size) ELSE added
           ahead == [q \in Ranks |-> IF q = r THEN Ahead(r, r) + 1 ELSE Ahead(r, q)]
<1>1. /\ ~ s.send_credits /\ reduce_send[r] # <<>>
      /\ reduce_send' = [reduce_send EXCEPT ![r] = <<>>]
      /\ R!Finish(r, s3)
      /\ rchan' = rchan /\ rdata' = rdata /\ rcontrol' = rcontrol
  BY DEF R!AddOwn, R!Ready
<1>2. /\ rchan[r] \in RChannel /\ s \in RSupport /\ RCallInv(r) /\ RHandedInv(r)
      /\ RCreditInv(r) /\ RRing(r) /\ rdata \in Net(R!Contribution)
      /\ reduce_send \in [Ranks -> Seq(RMessage)]
  BY RAt DEF RInv, RTypeOK
<1>3. /\ rchan[r].returned \in Int /\ rchan[r].returned >= 0
      /\ rchan[r].sent /\ Len(reduce_send[r]) = 1
      /\ mess = reduce_send[r][1] /\ mess \in RMessage
      /\ mess.op = "SYNCH" <=> rchan[r].returned = 0
      /\ mess.message_size = ReduceCounts[k] /\ item = <<k, r, rchan[r].entered>>
  <2>1. mess = reduce_send[r][1] /\ mess \in RMessage
    <3>1. reduce_send[r] \in Seq(RMessage) /\ reduce_send[r] # <<>>
      BY <1>1, <1>2
    <3> QED  BY <3>1
  <2> QED  BY <1>1, <1>2, <2>1, RChannelFields DEF RHandedInv
<1>4. /\ RRooted(r, k) /\ k \in 1 .. R!NumCollectives /\ rchan[r].entered = rchan[r].returned + 1
      /\ ReduceCounts[k] \in Nat /\ ReduceCounts[k] >= 1
  <2>1. RRooted(r, k) /\ rchan[r].entered = rchan[r].returned + 1
    BY <1>2, <1>3 DEF RCallInv
  <2> QED  BY <2>1, RNumbers DEF RRooted
<1>5. m = rchan[r].returned /\ m \in Int
  <2>1. Len(reduce_recv[r]) = 0
    BY <1>1, <1>2, EmptySeq DEF RHandedInv
  <2>2. m = rchan[r].returned + 0
    BY <2>1 DEF Summed
  <2> QED  BY <1>3, <2>2
<1>6. (Begun(r) <=> rchan[r].returned > 0) /\ (~ Begun(r) => rchan[r].returned = 0)
  BY <1>1, <1>3, <1>4 DEF Begun
<1>7. /\ \A q \in Ranks : Added(r, q) = m + Ahead(r, q)
      /\ rdata[r][r] = <<>>
      /\ \A q \in Ranks : q # r =>
             /\ \A n \in 1 .. Len(rdata[q][r]) :
                    rdata[q][r][n] = <<k, q, Added(r, q) + n>>
             /\ Given(r, q) + (IF rchan[q].coll = k /\ rchan[q].credit
                               THEN 1 ELSE 0) <= m + credits_flow_control
             /\ Issued(k, q) = IF Begun(r) THEN s.sent_credits ELSE 0
  BY <1>1, <1>4, <1>6, RWas
<1>8. \A q \in Ranks : /\ Ahead(r, q) \in Int /\ 0 <= Ahead(r, q)
                       /\ Ahead(r, q) <= credits_flow_control
  BY RCounts
<1>9. /\ Given(r, r) = m + 1 /\ Added(r, r) = m /\ Ahead(r, r) = 0
  <2>1. Given(r, r) = rchan[r].returned + 1
    BY <1>3 DEF Given
  <2>2. Added(r, r) = Given(r, r) - 1
    BY <1>3 DEF Added
  <2>3. Added(r, r) = m + Ahead(r, r) /\ Ahead(r, r) \in Int
    BY <1>7, <1>8
  <2> QED  BY <1>5, <2>1, <2>2, <2>3
<1>10. /\ reduce_send' \in [Ranks -> Seq(RMessage)] /\ reduce_send'[r] = <<>>
       /\ Len(reduce_send'[r]) = 0
       /\ \A x \in Ranks : x # r => reduce_send'[x] = reduce_send[x]
  BY <1>1, <1>2, EmptySeq
<1>11. /\ ahead[r] = 1 /\ \A q \in Ranks : q # r => ahead[q] = Ahead(r, q)
  BY <1>9
<1>12. \A q \in Ranks : Added(r, q)' = m + ahead[q]
  <2>1. \A q \in Ranks : Given(r, q)' = Given(r, q)
    BY <1>1 DEF Given
  <2>2. Added(r, r)' = Given(r, r) - 0
    BY <1>10, <2>1 DEF Added
  <2>3. \A q \in Ranks : q # r => Added(r, q)' = Added(r, q)
    BY <1>1, <2>1 DEF Added
  <2> QED  BY <1>5, <1>7, <1>9, <1>11, <2>2, <2>3
<1>13. Begun(r)'
  BY <1>1, <1>3, <1>4, <1>10 DEF Begun
<1>14. item \in R!Contribution
  BY <1>3 DEF RMessage
<1> HIDE DEF item, mess
<1>15. /\ added \in RSupport
       /\ added.current_buffer_element = s.current_buffer_element
       /\ added.reduce_result = [s.reduce_result EXCEPT ![s.add_to_root] = @ \cup {item}]
       /\ added.add_to_root = R!Next1(s.add_to_root) /\ added.add_to = s.add_to
       /\ added.sent_credits = s.sent_credits /\ added.send_to = s.send_to
       /\ added.message_size = s.message_size /\ added.credits = s.credits
       /\ (added.send_credits <=> s.send_credits)
  <2>1. s.add_to_root \in R!Slots /\ R!Next1(s.add_to_root) \in R!Slots
    BY <1>2, RSupportFields, OneOn
  <2> DEFINE result == [s.reduce_result EXCEPT ![s.add_to_root] = @ \cup {item}]
             next == R!Next1(s.add_to_root)
             added2 == [s EXCEPT !.sender_id = 1, !.reduce_result = result,
                                 !.add_to_root = next]
  <2>2. result \in [R!Slots -> SUBSET R!Contribution]
    BY <1>2, <1>14, <2>1 DEF RSupport
  <2>3. added = added2
    BY <1>2 DEF RSupport
  <2> HIDE DEF added, result, next
  <2>4. next \in R!Slots
    BY <2>1 DEF next
  <2>5. added2 \in RSupport
    BY <1>2, <2>2, <2>4 DEF RSupport
  <2>6. /\ added2.current_buffer_element = s.current_buffer_element
        /\ added2.reduce_result = result
        /\ added2.add_to_root = next /\ added2.add_to = s.add_to
        /\ added2.sent_credits = s.sent_credits /\ added2.send_to = s.send_to
        /\ added2.message_size = s.message_size /\ added2.credits = s.credits
    BY <1>2 DEF RSupport
  <2>7. added2.send_credits <=> s.send_credits
    BY <1>2 DEF RSupport
  <2> QED  BY <2>3, <2>5, <2>6, <2>7 DEF result, next
<1> HIDE DEF added, k, m, s, ahead
<1>16. Ring(r, added, k, m, ahead)
  <2> DEFINE before == AheadOf(r)
  <2>1. Ring(r, s, k, m, before)
    BY <1>2 DEF RRing, k, m, s
  <2>2. \A q \in Ranks : before[q] = Ahead(r, q)
    BY DEF AheadOf
  <2> HIDE DEF before
  <2>3. /\ \A q \in Ranks : before[q] \in Int /\ 0 <= before[q]
        /\ before[r] < credits_flow_control
        /\ ahead[r] = before[r] + 1 /\ \A q \in Ranks : q # r => ahead[q] = before[q]
    BY <1>8, <1>9, <1>11, <2>2, RingNumbers
  <2>4. item = <<k, r, m + 1 + before[r]>>
    <3>1. m + 1 + before[r] = rchan[r].entered
      BY <1>4, <1>5, <1>9, <2>2
    <3> QED  BY <1>3, <3>1
  <2>5. AddedFor(r, r, added, s, item)
    BY <1>15 DEF AddedFor, With
  <2>6. OneAhead(ahead, before, r)
    BY <2>3 DEF OneAhead
  <2>7. s \in RSupport /\ item \in R!Contribution /\ m \in Int
    BY <1>2, <1>5, <1>14
  <2> QED  BY <2>1, <2>3, <2>4, <2>5, <2>6, <2>7, RingAdd
<1>17. s.send_to = 0
  BY <1>1, <1>2 DEF RCreditInv, s
<1>18. /\ s3 \in RSupport /\ s3.send_to = 0 /\ Ring(r, s3, k, m, ahead)
       /\ \A q \in Ranks : q # r => Issued(k, q) = s3.sent_credits
       /\ NumRanks > 1 => /\ s3.message_size = ReduceCounts[k]
                          /\ CreditsDue(s3, k, m)
                          /\ s3.send_credits => \E q \in Ranks : ahead[q] = 0
  <2>1. CASE mess.op = "SYNCH"
    <3> DEFINE size == ReduceCounts[k]
    <3>1. s3 = R!StartReduce(added, size) /\ size \in Nat
      BY <1>3, <1>4, <2>1
    <3> HIDE DEF s3, size
    <3>2. /\ s3 \in RSupport /\ s3.send_credits /\ s3.sent_credits = 0 /\ s3.send_to = 0
          /\ s3.message_size = size
          /\ s3.credits = IF size < credits_flow_control THEN size ELSE credits_flow_control
          /\ SameSums(s3, added)
      BY <1>15, <3>1, RStart
    <3>3. ~ Begun(r) /\ m = 0
      BY <1>3, <1>5, <1>6, <2>1
    <3>4. Ring(r, s3, k, m, ahead)
      BY <1>16, <3>2 DEF Ring, Pointers, SameSums
    <3>5. CreditsDue(s3, k, m)
      <4>1. s3.credits = Allowed(k, m)
        BY <3>2, <3>3, RingNumbers DEF Allowed, size
      <4>2. s3.credits >= 1 /\ m < ReduceCounts[k] /\ s3.credits \in Int
        BY <1>4, <3>2, <3>3, RingNumbers DEF size
      <4> QED  BY <3>2, <4>1, <4>2 DEF CreditsDue
    <3>6. ASSUME NumRanks > 1 PROVE \E q \in Ranks : ahead[q] = 0
      <4>1. PICK q \in Ranks : q # r
        <5>1. 0 \in Ranks /\ 1 \in Ranks
          BY <3>6, Numbers
        <5> QED  BY <5>1
      <4>2. ahead[q] = 0
        BY <1>11, <3>3, <4>1 DEF Ahead
      <4> QED  BY <4>2
    <3>7. \A q \in Ranks : q # r => Issued(k, q) = s3.sent_credits
      BY <1>7, <3>2, <3>3
    <3> QED  BY <3>2, <3>4, <3>5, <3>6, <3>7 DEF size
  <2>2. CASE mess.op # "SYNCH"
    <3>1. s3 = added
      BY <2>2
    <3> HIDE DEF s3
    <3>2. Begun(r) /\ ~ s3.send_credits
      BY <1>1, <1>3, <1>6, <1>15, <2>2, <3>1 DEF s
    <3>3. NumRanks > 1 => s3.message_size = ReduceCounts[k] /\ CreditsDue(s3, k, m)
      <4>1. NumRanks > 1 => s.message_size = ReduceCounts[k] /\ CreditsDue(s, k, m)
        BY <1>2, <3>2 DEF RCreditInv, s, k, m
      <4> QED  BY <1>15, <3>1, <4>1 DEF CreditsDue
    <3>4. \A q \in Ranks : q # r => Issued(k, q) = s3.sent_credits
      BY <1>7, <1>15, <3>1, <3>2
    <3> QED  BY <1>15, <1>16, <1>17, <3>1, <3>2, <3>3, <3>4
  <2> QED  BY <2>1, <2>2
<1> HIDE DEF s3
<1>19. /\ \A q \in Ranks : /\ ahead[q] \in Int /\ 0 <= ahead[q]
                           /\ ahead[q] <= credits_flow_control
       /\ \A q \in Ranks : q # r => Added(r, q)' = Added(r, q)
  BY <1>5, <1>7, <1>8, <1>11, <1>12, RingNumbers
<1>20. \A q \in Ranks : q # r =>
           /\ \A n \in 1 .. Len(rdata'[q][r]) :
                  rdata'[q][r][n] = <<k, q, Added(r, q)' + n>>
           /\ Given(r, q) + (IF rchan[q].coll = k /\ rchan[q].credit THEN 1 ELSE 0)
                  <= m + credits_flow_control
           /\ Issued(k, q) = s3.sent_credits
  BY <1>1, <1>7, <1>18, <1>19
<1>21. rdata' \in Net(R!Contribution) /\ rdata'[r][r] = <<>>
       /\ \A x, q \in Ranks : x # r => rdata'[q][x] = rdata[q][x]
  BY <1>1, <1>2, <1>7
<1>22. k = rchan[r].coll /\ m = Summed(r) /\ RRooted(r, k) /\ rchan' = rchan /\ rcontrol' = rcontrol
  BY <1>1, <1>4 DEF k, m
<1>23. AddedStep(r, s3, k, m, ahead)
  BY <1>1, <1>10, <1>12, <1>13, <1>18, <1>19, <1>20, <1>21, <1>22 DEF AddedStep
<1> HIDE DEF k, m, ahead
<1> QED  BY <1>23, RAdded


LEMMA RAddOtherStep ==
    ASSUME RInv, NEW r \in Ranks, R!AddOther(r)
    PROVE  RInv'
<1> DEFINE k == rchan[r].coll
           m == Summed(r)
           s == rsupport[r]
<1>1. PICK src \in Waiting(rdata, r) :
          LET last == s.contiguos_reads + 1 = READS_LIMIT
          IN  /\ ~ s.send_credits
              /\ rdata' = Take(rdata, src, r)
              /\ R!Finish(r, [s EXCEPT
                     !.sender_id = IF last THEN 0 ELSE 1,
                     !.contiguos_reads = IF last THEN 0 ELSE @ + 1,
                     !.reduce_result[s.add_to[src]] = @ \cup {Head(rdata[src][r])},
                     !.add_to[src] = R!Next1(@)])
              /\ rchan' = rchan /\ reduce_send' = reduce_send /\ rcontrol' = rcontrol
  BY RWires DEF R!AddOther, R!Ready
<1> DEFINE last == s.contiguos_reads + 1 = READS_LIMIT
           item == Head(rdata[src][r])
           added == [s EXCEPT !.sender_id = IF last THEN 0 ELSE 1,
                              !.contiguos_reads = IF last THEN 0 ELSE @ + 1,
                              !.reduce_result[s.add_to[src]] = @ \cup {item},
                              !.add_to[src] = R!Next1(@)]
           ahead == [q \in Ranks |-> IF q = src THEN Ahead(r, src) + 1 ELSE Ahead(r, q)]
<1>2. /\ ~ s.send_credits /\ R!Finish(r, added)
      /\ rchan' = rchan /\ reduce_send' = reduce_send /\ rcontrol' = rcontrol
  BY <1>1
<1>3. /\ s \in RSupport /\ RHandedInv(r) /\ RCreditInv(r) /\ RRing(r)
      /\ rdata \in Net(R!Contribution) /\ reduce_send \in [Ranks -> Seq(RMessage)]
  BY RAt DEF RInv, RTypeOK
<1>4. /\ src \in Ranks /\ rdata[src][r] \in Seq(R!Contribution) /\ rdata[src][r] # <<>>
      /\ rdata' \in Net(R!Contribution) /\ rdata'[src][r] = Tail(rdata[src][r])
      /\ \A x, y \in Ranks : x # src \/ y # r => rdata'[x][y] = rdata[x][y]
  BY <1>1, <1>3, TakeAt
<1>5. Begun(r) /\ src # r
  <2>1. RQueueInv(src, r)
    BY <1>4, RAt
  <2> QED  BY <1>4, <2>1 DEF RQueueInv
<1>6. RRooted(r, k) /\ k \in 1 .. R!NumCollectives /\ m \in Int
  BY <1>5, RCounts DEF Begun, RRooted
<1>7. /\ \A q \in Ranks : Added(r, q) = m + Ahead(r, q)
      /\ rdata[r][r] = <<>>
      /\ \A q \in Ranks : q # r =>
             /\ \A n \in 1 .. Len(rdata[q][r]) :
                    rdata[q][r][n] = <<k, q, Added(r, q) + n>>
             /\ Given(r, q) + (IF rchan[q].coll = k /\ rchan[q].credit
                               THEN 1 ELSE 0) <= m + credits_flow_control
             /\ Issued(k, q) = s.sent_credits
  BY <1>2, <1>5, <1>6, RWas
<1>8. \A q \in Ranks : /\ Ahead(r, q) \in Int /\ 0 <= Ahead(r, q)
                       /\ Ahead(r, q) <= credits_flow_control
  BY RCounts
<1>9. /\ Len(rdata[src][r]) \in Int /\ Len(rdata[src][r]) >= 1
      /\ item = rdata[src][r][1] /\ item \in R!Contribution
      /\ Len(rdata'[src][r]) = Len(rdata[src][r]) - 1
      /\ \A n \in 1 .. Len(rdata'[src][r]) : rdata'[src][r][n] = rdata[src][r][n + 1]
  <2>1. Len(rdata[src][r]) \in Nat /\ Len(rdata[src][r]) # 0
    BY <1>4, EmptySeq
  <2>2. item = rdata[src][r][1] /\ item \in R!Contribution
    BY <1>4, HeadTailProperties
  <2>3. Len(Tail(rdata[src][r])) = Len(rdata[src][r]) - 1
        /\ \A n \in 1 .. Len(Tail(rdata[src][r])) : Tail(rdata[src][r])[n] = rdata[src][r][n + 1]
    BY <1>4, HeadTailProperties
  <2> QED  BY <1>4, <2>1, <2>2, <2>3
<1>10. /\ Given(r, src) \in Int /\ Added(r, src) = Given(r, src) - Len(rdata[src][r])
       /\ Ahead(r, src) < credits_flow_control
       /\ Added(r, src)' = Added(r, src) + 1
  <2>1. Given(r, src) \in Int /\ Given(r, src)' = Given(r, src)
    BY <1>2, <1>4, <1>6, RCounts DEF Given
  <2>2. /\ Added(r, src) = Given(r, src) - Len(rdata[src][r])
        /\ Added(r, src)' = Given(r, src) - Len(rdata'[src][r])
    BY <1>5, <2>1 DEF Added
  <2>3. Given(r, src) <= m + credits_flow_control
    <3>1. Given(r, src) + 1 <= m + credits_flow_control
          \/ Given(r, src) + 0 <= m + credits_flow_control
      BY <1>4, <1>5, <1>7
    <3> QED  BY <1>6, <2>1, <3>1, RingNumbers
  <2>4. Added(r, src) = m + Ahead(r, src) /\ Ahead(r, src) \in Int
    BY <1>4, <1>7, <1>8
  <2> QED  BY <1>6, <1>9, <2>1, <2>2, <2>3, <2>4, RingNumbers, SMTT(30)
<1>11. /\ ahead[src] = Ahead(r, src) + 1
       /\ \A q \in Ranks : q # src => ahead[q] = Ahead(r, q)
  BY <1>4
<1>12. \A q \in Ranks : Added(r, q)' = m + ahead[q]
  <2>1. ASSUME NEW q \in Ranks, q # src PROVE Added(r, q)' = Added(r, q)
    <3>1. Given(r, q)' = Given(r, q)
      BY <1>2 DEF Given
    <3> QED  BY <1>2, <1>4, <2>1, <3>1 DEF Added
  <2>2. Added(r, src)' = m + ahead[src]
    BY <1>4, <1>6, <1>7, <1>8, <1>10, <1>11
  <2> QED  BY <1>7, <1>11, <2>1, <2>2
<1>13. Begun(r)'
  BY <1>2, <1>5 DEF Begun
<1> HIDE DEF item
<1>14. /\ added \in RSupport
       /\ added.current_buffer_element = s.current_buffer_element
       /\ added.reduce_result = With(s.reduce_result, s.add_to[src], item)
       /\ added.add_to_root = s.add_to_root
       /\ added.add_to = [s.add_to EXCEPT ![src] = R!Next1(@)]
       /\ added.sent_credits = s.sent_credits /\ added.send_to = s.send_to
       /\ added.message_size = s.message_size /\ added.credits = s.credits
       /\ (added.send_credits <=> s.send_credits)
  <2> DEFINE slot == s.add_to[src]
             result == With(s.reduce_result, slot, item)
             places == [s.add_to EXCEPT ![src] = R!Next1(@)]
             sender == IF last THEN 0 ELSE 1
             reads == IF last THEN 0 ELSE s.contiguos_reads + 1
             added2 == [s EXCEPT !.sender_id = sender, !.contiguos_reads = reads,
                                 !.reduce_result = result, !.add_to = places]
  <2>1. slot \in R!Slots /\ R!Next1(slot) \in R!Slots
    BY <1>3, <1>4, RSupportFields, OneOn
  <2>2. result \in [R!Slots -> SUBSET R!Contribution]
    BY <1>3, <1>9, <2>1 DEF RSupport, With
  <2>3. places \in [Ranks -> R!Slots]
    BY <1>3, <1>4, <2>1, RSupportFields
  <2>4. sender \in {0, 1, R!Either} /\ reads \in 0 .. READS_LIMIT - 1
    <3>1. s.contiguos_reads \in 0 .. READS_LIMIT - 1
      BY <1>3 DEF RSupport
    <3> QED  BY <3>1, RingNumbers
  <2>5. added = added2
    BY <1>3 DEF RSupport, With
  <2> HIDE DEF added, result, places, sender, reads
  <2>6. added2 \in RSupport
    BY <1>3, <2>2, <2>3, <2>4 DEF RSupport
  <2>7. /\ added2.current_buffer_element = s.current_buffer_element
        /\ added2.reduce_result = result
        /\ added2.add_to_root = s.add_to_root /\ added2.add_to = places
        /\ added2.sent_credits = s.sent_credits /\ added2.send_to = s.send_to
        /\ added2.message_size = s.message_size /\ added2.credits = s.credits
    BY <1>3 DEF RSupport
  <2>8. added2.send_credits <=> s.send_credits
    BY <1>3 DEF RSupport
  <2> QED  BY <2>5, <2>6, <2>7, <2>8 DEF result, places
<1> HIDE DEF added, k, m, s, ahead
<1>15. Ring(r, added, k, m, ahead)
  <2> DEFINE before == AheadOf(r)
  <2>1. Ring(r, s, k, m, before)
    BY <1>3 DEF RRing, k, m, s
  <2>2. \A q \in Ranks : before[q] = Ahead(r, q)
    BY DEF AheadOf
  <2> HIDE DEF before
  <2>3. /\ \A q \in Ranks : before[q] \in Int /\ 0 <= before[q]
        /\ before[src] < credits_flow_control
        /\ OneAhead(ahead, before, src)
    BY <1>4, <1>8, <1>10, <1>11, <2>2 DEF OneAhead
  <2>4. item = <<k, src, m + 1 + before[src]>>
    <3>1. rdata[src][r][1] = <<k, src, Added(r, src) + 1>>
      BY <1>4, <1>5, <1>7, <1>9
    <3>2. Added(r, src) + 1 = m + 1 + before[src]
      BY <1>4, <1>6, <1>7, <1>8, <2>2
    <3> QED  BY <1>9, <3>1, <3>2
  <2>5. AddedFor(r, src, added, s, item)
    BY <1>5, <1>14 DEF AddedFor
  <2>6. s \in RSupport /\ item \in R!Contribution /\ m \in Int
    BY <1>3, <1>6, <1>9
  <2> QED  BY <1>4, <2>1, <2>3, <2>4, <2>5, <2>6, RingAdd
<1>16. added.send_to = 0
  <2>1. s.send_to = 0
    BY <1>2, <1>3 DEF RCreditInv, s
  <2> QED  BY <1>14, <2>1
<1>17. NumRanks > 1 => /\ added.message_size = ReduceCounts[k]
                       /\ CreditsDue(added, k, m) /\ ~ added.send_credits
  <2>1. NumRanks > 1 => s.message_size = ReduceCounts[k] /\ CreditsDue(s, k, m)
    BY <1>3, <1>5 DEF RCreditInv, s, k, m
  <2> QED  BY <1>2, <1>14, <2>1 DEF CreditsDue
<1>18. /\ \A q \in Ranks : /\ ahead[q] \in Int /\ 0 <= ahead[q]
                           /\ ahead[q] <= credits_flow_control
       /\ \A q \in Ranks : q # src => Added(r, q)' = Added(r, q)
  <2>1. ahead[src] \in Int /\ 0 <= ahead[src] /\ ahead[src] <= credits_flow_control
    BY <1>4, <1>8, <1>10, <1>11, RingNumbers
  <2>2. \A q \in Ranks : q # src => /\ ahead[q] \in Int /\ 0 <= ahead[q]
                                    /\ ahead[q] <= credits_flow_control
    BY <1>8, <1>11
  <2>3. \A q \in Ranks : q # src => Added(r, q)' = Added(r, q)
    BY <1>7, <1>11, <1>12
  <2> QED  BY <2>1, <2>2, <2>3
<1>19. ASSUME NEW q \in Ranks, q # r
       PROVE  /\ \A n \in 1 .. Len(rdata'[q][r]) :
                     rdata'[q][r][n] = <<k, q, Added(r, q)' + n>>
              /\ Given(r, q) + (IF rchan[q].coll = k /\ rchan[q].credit THEN 1 ELSE 0)
                     <= m + credits_flow_control
              /\ Issued(k, q) = added.sent_credits
  <2>1. CASE q = src
    <3>1. ASSUME NEW n \in 1 .. Len(rdata'[src][r])
          PROVE  rdata'[src][r][n] = <<k, src, Added(r, src)' + n>>
      <4>1. n \in Int /\ n + 1 \in 1 .. Len(rdata[src][r])
        BY <1>9
      <4>2. rdata[src][r][n + 1] = <<k, src, Added(r, src) + (n + 1)>>
        BY <1>4, <1>5, <1>7, <4>1
      <4>3. Added(r, src) \in Int
        BY <1>4, <1>6, <1>7, <1>8
      <4>4. Added(r, src)' = Added(r, src) + 1
        BY <1>10
      <4>5. Added(r, src) + (n + 1) = Added(r, src)' + n
        BY <4>1, <4>3, <4>4
      <4> QED  BY <1>9, <4>2, <4>5
    <3> QED  BY <1>7, <1>14, <1>19, <2>1, <3>1
  <2>2. CASE q # src
    BY <1>4, <1>7, <1>14, <1>18, <1>19, <2>2
  <2> QED  BY <2>1, <2>2
<1>20. rdata' \in Net(R!Contribution) /\ rdata'[r][r] = <<>>
       /\ \A x, q \in Ranks : x # r => rdata'[q][x] = rdata[q][x]
  BY <1>4, <1>5, <1>7
<1>21. /\ k = rchan[r].coll /\ m = Summed(r) /\ RRooted(r, k)
       /\ rchan' = rchan /\ rcontrol' = rcontrol
  BY <1>2, <1>6 DEF k, m
<1>22. /\ reduce_send' \in [Ranks -> Seq(RMessage)] /\ reduce_send'[r] = reduce_send[r]
       /\ \A x \in Ranks : x # r => reduce_send'[x] = reduce_send[x]
  BY <1>2, <1>3
<1>23. added \in RSupport /\ R!Finish(r, added)
  BY <1>2, <1>14
<1>24. AddedStep(r, added, k, m, ahead)
  BY <1>12, <1>13, <1>15, <1>16, <1>17, <1>18, <1>19, <1>20, <1>21, <1>22, <1>23 DEF AddedStep
<1> HIDE DEF k, m, ahead
<1> QED  BY <1>24, RAdded


LEMMA RSendCreditsStep ==
    ASSUME RInv, NEW r \in Ranks, R!SendCredits(r)
    PROVE  RInv'
<1> DEFINE k == rchan[r].coll
           s == rsupport[r]
           to == s.send_to
           last == to + 1 = NumRanks
           next == IF last THEN [s EXCEPT !.send_to = 0, !.credits = @ - 1,
                                          !.send_credits = s.credits # 1,
                                          !.sent_credits = @ + 1]
                   ELSE [s EXCEPT !.send_to = @ + 1]
           s2 == rsupport'[r]
<1>1. /\ s.send_credits
      /\ IF to # r THEN rcontrol' = Put(rcontrol, r, to, k) ELSE rcontrol' = rcontrol
      /\ rsupport' = [rsupport EXCEPT ![r] = next]
      /\ rchan' = rchan /\ reduce_send' = reduce_send /\ reduce_recv' = reduce_recv
      /\ rdata' = rdata
  BY RWires DEF R!SendCredits
<1>2. /\ rchan[r] \in RChannel /\ s \in RSupport /\ RCreditInv(r)
      /\ rsupport \in [Ranks -> RSupport] /\ rcontrol \in Net(RTag)
      /\ k \in Int
  BY RAt, RChannelFields DEF RInv, RTypeOK
<1>3. /\ to \in Int /\ to >= 0 /\ to < NumRanks /\ to \in Ranks
      /\ s.credits \in Int /\ s.sent_credits \in Int /\ s.sent_credits >= 0
      /\ NumRanks \in Int
  BY <1>2, RSupportFields, Numbers
<1>4. next \in RSupport /\ SameSums(next, s) /\ next.message_size = s.message_size
      /\ IF last THEN /\ next.send_to = 0 /\ next.credits = s.credits - 1
                      /\ (next.send_credits <=> s.credits # 1)
                      /\ next.sent_credits = s.sent_credits + 1
                 ELSE /\ next.send_to = to + 1 /\ next.credits = s.credits
                      /\ next.send_credits
                      /\ next.sent_credits = s.sent_credits
  <2>1. CASE last
    <3> DEFINE more == s.credits # 1
               sent == s.sent_credits + 1
               left == s.credits - 1
               last2 == [s EXCEPT !.send_to = 0, !.credits = left,
                                  !.send_credits = more, !.sent_credits = sent]
    <3>1. next = last2
      BY <2>1
    <3>2. more \in BOOLEAN /\ sent \in Nat /\ left \in Int /\ 0 \in Ranks
      BY <1>3, Numbers
    <3> HIDE DEF next, more, sent, left
    <3>3. last2 \in RSupport /\ SameSums(last2, s)
      BY <1>2, <3>2 DEF RSupport, SameSums
    <3>4. /\ last2.message_size = s.message_size /\ last2.send_to = 0 /\ last2.credits = left
          /\ last2.sent_credits = sent
      BY <1>2 DEF RSupport
    <3>5. last2.send_credits = more
      BY <1>2 DEF RSupport
    <3> QED  BY <2>1, <3>1, <3>3, <3>4, <3>5 DEF more, sent, left
  <2>2. CASE ~ last
    <3> DEFINE more2 == [s EXCEPT !.send_to = to + 1]
    <3>1. next = more2
      BY <2>2
    <3>2. to + 1 \in Ranks
      BY <1>3, <2>2, Numbers
    <3> HIDE DEF next
    <3>3. more2 \in RSupport /\ SameSums(more2, s)
      BY <1>2, <3>2 DEF RSupport, SameSums
    <3>4. /\ more2.message_size = s.message_size /\ more2.send_to = to + 1
          /\ more2.credits = s.credits /\ more2.sent_credits = s.sent_credits
      BY <1>2 DEF RSupport
    <3>5. more2.send_credits = s.send_credits
      BY <1>2 DEF RSupport
    <3> QED  BY <1>1, <2>2, <3>1, <3>3, <3>4, <3>5
  <2> QED  BY <2>1, <2>2
<1> HIDE DEF next
<1>5. /\ rsupport' \in [Ranks -> RSupport] /\ s2 = next
      /\ \A q \in Ranks : q # r => rsupport'[q] = rsupport[q]
  BY <1>1, <1>2, <1>4
<1>6. /\ rcontrol' \in Net(RTag)
      /\ \A x, y \in Ranks : ~ (x = r /\ y = to /\ to # r) => rcontrol'[x][y] = rcontrol[x][y]
      /\ to # r => Len(rcontrol'[r][to]) = Len(rcontrol[r][to]) + 1
  <2>1. CASE to # r
    <3>1. k \in RTag /\ rcontrol[r][to] \in Seq(RTag)
      BY <1>2, <1>3, RTypes DEF RTag, RInv
    <3>2. LET net == Put(rcontrol, r, to, k)
          IN  /\ net \in Net(RTag) /\ net[r][to] = Append(rcontrol[r][to], k)
              /\ \A x, y \in Ranks : x # r \/ y # to => net[x][y] = rcontrol[x][y]
      <4>1. to \in Ranks
        BY <1>3
      <4> HIDE DEF to, k
      <4> QED  BY <1>2, <3>1, <4>1, PutAt, Z3
    <3>3. rcontrol' = Put(rcontrol, r, to, k)
      BY <1>1, <2>1
    <3>4. Len(Append(rcontrol[r][to], k)) = Len(rcontrol[r][to]) + 1
      BY <3>1, AppendProperties
    <3> QED  BY <2>1, <3>2, <3>3, <3>4
  <2>2. CASE to = r
    BY <1>1, <1>2, <2>2
  <2> QED  BY <2>1, <2>2
<1>7. RTypeOK'
  BY <1>1, <1>5, <1>6 DEF RInv, RTypeOK
<1>8. \A b \in Ranks : /\ (Begun(b)' <=> Begun(b)) /\ Summed(b)' = Summed(b)
                       /\ AheadOf(b)' = AheadOf(b)
                       /\ \A q \in Ranks : Given(b, q)' = Given(b, q)
                                           /\ Added(b, q)' = Added(b, q)
  BY <1>1, RSameCounts
<1>9. RCreditInv(r)'
  <2>1. ~ s2.send_credits => s2.send_to = 0
    BY <1>4, <1>5
  <2>2. NumRanks > 1 => Begun(r)
    BY <1>1, <1>2 DEF RCreditInv
  <2>3. ASSUME NumRanks > 1, Begun(r)
        PROVE  s2.message_size = ReduceCounts[k] /\ CreditsDue(s2, k, Summed(r))
    <3>1. s.message_size = ReduceCounts[k] /\ CreditsDue(s, k, Summed(r))
      BY <1>2, <2>3 DEF RCreditInv
    <3>2. Summed(r) < ReduceCounts[k] /\ s.credits >= 1
          /\ s.sent_credits + s.credits = Allowed(k, Summed(r))
      BY <1>1, <3>1 DEF CreditsDue
    <3> HIDE DEF s2, s, k
    <3>3. CASE ~ last
      BY <1>4, <1>5, <3>1, <3>2, <3>3 DEF CreditsDue
    <3>4. CASE last
      <4>1. CASE s.credits = 1
        <5>1. /\ ~ s2.send_credits /\ s2.sent_credits = s.sent_credits + 1
              /\ s2.credits = s.credits - 1
          BY <1>4, <1>5, <3>4, <4>1
        <5>2. s2.sent_credits = Allowed(k, Summed(r)) /\ s2.credits = 0
          BY <1>3, <3>2, <4>1, <5>1
        <5> QED  BY <1>4, <1>5, <3>1, <5>1, <5>2 DEF CreditsDue
      <4>2. CASE s.credits # 1
        <5>1. /\ s2.send_credits /\ s2.sent_credits = s.sent_credits + 1
              /\ s2.credits = s.credits - 1
          BY <1>4, <1>5, <3>4, <4>2
        <5>2. s2.sent_credits + s2.credits = s.sent_credits + s.credits /\ s2.credits >= 1
          BY <1>3, <3>2, <4>2, <5>1
        <5> QED  BY <1>4, <1>5, <3>1, <3>2, <5>1, <5>2 DEF CreditsDue
      <4> QED  BY <4>1, <4>2
    <3> QED  BY <3>3, <3>4
  <2> QED  BY <1>1, <1>8, <2>1, <2>2, <2>3 DEF RCreditInv
<1>10. ASSUME NEW q \in Ranks PROVE RRankInv(q)'
  <2>1. RCallInv(q) /\ RHandedInv(q) /\ RCreditInv(q) /\ RRing(q) /\ rsupport[q] \in RSupport
    BY RAt
  <2>2. RCallInv(q)' /\ RHandedInv(q)'
    BY <1>1, <2>1 DEF RCallInv, RHandedInv
  <2>3. RCreditInv(q)'
    <3>1. CASE q # r
      BY <1>1, <1>5, <1>8, <2>1, <3>1 DEF RCreditInv, CreditsDue
    <3> QED  BY <1>9, <3>1
  <2>4. RRing(q)'
    <3>1. SameSums(rsupport'[q], rsupport[q])
      BY <1>4, <1>5 DEF SameSums
    <3> QED  BY <1>1, <1>8, <2>1, <3>1, RRingStays
  <2> QED  BY <2>2, <2>3, <2>4 DEF RRankInv
<1>11. ASSUME NEW q \in Ranks PROVE RRootFirst(q)'
  <2>1. RRootFirst(q)
    BY RAt
  <2>2. \A y \in 1 .. R!NumCollectives :
            (GotOn(q, y)' <=> GotOn(q, y)) /\ (Started(y)' <=> Started(y))
    BY <1>1, <1>8, RNumbers DEF GotOn, Started
  <2> QED  BY <2>1, <2>2 DEF RRootFirst
<1>12. ASSUME NEW q \in Ranks PROVE RTokenInv(q)'
  <2>1. RTokenInv(q)
    BY RAt
  <2>2. \A y \in Needs(q) : Used(y, q)' = Used(y, q)
    BY <1>1 DEF Used
  <2>3. ASSUME NEW y \in Needs(q), ~ (ReduceRoots[y] = r /\ y = k /\ q = to)
        PROVE  Issued(y, q)' = Issued(y, q)
    <3>1. ReduceRoots[y] \in Ranks /\ ReduceRoots[y] # q
      BY RNumbers DEF Needs
    <3>2. CASE ReduceRoots[y] # r
      BY <1>1, <1>5, <1>8, <3>1, <3>2 DEF Issued
    <3>3. CASE ReduceRoots[y] = r /\ y # k
      BY <1>1, <3>3 DEF Issued
    <3>4. CASE ReduceRoots[y] = r /\ y = k
      <4>1. q \in Int /\ q >= 0 /\ q < NumRanks /\ q # to
        BY <2>3, <3>4, Numbers
      <4> DEFINE more == IF s.send_credits /\ to > q THEN 1 ELSE 0
                 more2 == IF s2.send_credits /\ s2.send_to > q THEN 1 ELSE 0
      <4>2. s2.sent_credits + more2 = s.sent_credits + more
        <5>1. CASE last
          <6>1. to > q
            BY <1>3, <4>1, <5>1
          <6>2. ~ (s2.send_to > q) /\ s2.sent_credits = s.sent_credits + 1
            BY <1>4, <1>5, <4>1, <5>1
          <6>3. more = 1 /\ more2 = 0
            BY <1>1, <6>1, <6>2
          <6> QED  BY <1>3, <6>2, <6>3
        <5>2. CASE ~ last
          <6>1. s2.send_to = to + 1 /\ s2.send_credits /\ s2.sent_credits = s.sent_credits
            BY <1>4, <1>5, <5>2
          <6>2. s2.send_to > q <=> to > q
            BY <1>3, <4>1, <6>1
          <6> QED  BY <1>1, <6>1, <6>2
        <5> QED  BY <5>1, <5>2
      <4>3. Issued(y, q) = IF Begun(r) THEN s.sent_credits + more ELSE 0
        BY <1>2, <3>4 DEF Issued
      <4>4. Issued(y, q)' = IF Begun(r)' THEN s2.sent_credits + more2 ELSE 0
        BY <1>1, <1>2, <3>4 DEF Issued
      <4> HIDE DEF more, more2
      <4> QED  BY <1>8, <4>2, <4>3, <4>4
    <3> QED  BY <3>2, <3>3, <3>4
  <2>4. CASE q # to \/ to = r
    <3>1. \A src \in Ranks : rcontrol'[src][q] = rcontrol[src][q]
      BY <1>6, <2>4
    <3>2. \A y \in Needs(q) : ~ (ReduceRoots[y] = r /\ y = k /\ q = to)
      BY <2>4 DEF Needs
    <3> QED  BY <2>1, <2>2, <2>3, <3>1, <3>2, RTokensStay
  <2>5. CASE q = to /\ to # r
    <3>1. NumRanks > 1
      BY <1>3, <2>5, Numbers
    <3>2. Begun(r)
      BY <1>1, <1>2, <3>1 DEF RCreditInv
    <3>3. PICK j \in Needs(q) : j = k /\ ReduceRoots[j] = r
      BY <2>5, <3>2 DEF Begun, RRooted, Needs
    <3> DEFINE issued  == [y \in Needs(q) |-> Issued(y, q)]
               issued2 == [y \in Needs(q) |-> Issued(y, q)']
               sent  == [x \in Ranks |-> Len(rcontrol[x][q])]
               sent2 == [x \in Ranks |-> Len(rcontrol'[x][q])]
               more  == IF s.send_credits /\ s.send_to > q THEN 1 ELSE 0
               more2 == IF s2.send_credits /\ s2.send_to > q THEN 1 ELSE 0
    <3>4. Issued(j, q) = s.sent_credits /\ Issued(j, q)' = s.sent_credits + 1
      <4>1. ~ (rchan[r].coll > j) /\ rchan[r].coll = j
        BY <1>2, <3>3
      <4>2. Issued(j, q) = s.sent_credits + more
        BY <3>2, <3>3, <4>1 DEF Issued
      <4>3. Issued(j, q)' = s2.sent_credits + more2
        BY <1>1, <1>8, <3>2, <3>3, <4>1 DEF Issued
      <4>4. more = 0
        BY <1>3, <2>5
      <4>5. s2.sent_credits + more2 = s.sent_credits + 1
        <5>1. CASE last
          <6>1. s2.sent_credits = s.sent_credits + 1 /\ s2.send_to = 0 /\ ~ (0 > q)
            BY <1>3, <1>4, <1>5, <2>5, <5>1
          <6>2. more2 = 0
            BY <6>1
          <6> QED  BY <1>3, <6>1, <6>2
        <5>2. CASE ~ last
          <6>1. s2.sent_credits = s.sent_credits /\ s2.send_to = to + 1 /\ s2.send_credits
                /\ to + 1 > q
            BY <1>3, <1>4, <1>5, <2>5, <5>2
          <6>2. more2 = 1
            BY <6>1
          <6> QED  BY <6>1, <6>2
        <5> QED  BY <5>1, <5>2
      <4> HIDE DEF more, more2
      <4> QED  BY <1>3, <4>2, <4>3, <4>4, <4>5
    <3>5. /\ issued[j] \in Nat /\ issued2[j] = issued[j] + 1
          /\ \A y \in Needs(q) : y # j => issued2[y] = issued[y]
      <4>1. issued[j] = s.sent_credits /\ issued2[j] = s.sent_credits + 1
        BY <3>3, <3>4
      <4>2. \A y \in Needs(q) : y # j => issued2[y] = issued[y]
        BY <2>3, <3>3
      <4> HIDE DEF issued, issued2
      <4> QED  BY <1>3, <4>1, <4>2
    <3>6. /\ sent[r] \in Nat /\ sent2[r] = sent[r] + 1
          /\ \A x \in Ranks : x # r => sent2[x] = sent[x]
      <4>1. sent[r] \in Nat /\ sent2[r] = sent[r] + 1
        BY <1>6, <2>5, RLengths DEF RInv
      <4>2. \A x \in Ranks : x # r => sent2[x] = sent[x]
        BY <1>6
      <4> QED  BY <4>1, <4>2
    <3>7. IsFiniteSet(Cells(Needs(q), issued)) /\ IsFiniteSet(Cells(Ranks, sent))
          /\ IsFiniteSet(UsedBy(q))
          /\ Cardinality(UsedBy(q)) + Cardinality(Cells(Ranks, sent))
                 = Cardinality(Cells(Needs(q), issued))
      BY <2>1 DEF RTokenInv, IssuedTo, SentTo
    <3>8. UsedBy(q)' = UsedBy(q)
      BY <2>2 DEF UsedBy, Needs
    <3>9. IssuedTo(q)' = Cells(Needs(q), issued2) /\ SentTo(q)' = Cells(Ranks, sent2)
      BY DEF IssuedTo, SentTo, Needs
    <3> HIDE DEF issued, issued2, sent, sent2
    <3>10. /\ IsFiniteSet(Cells(Needs(q), issued2))
           /\ Cardinality(Cells(Needs(q), issued)) \in Nat
           /\ Cardinality(Cells(Needs(q), issued2)) = Cardinality(Cells(Needs(q), issued)) + 1
      BY <3>5, <3>7, CellsMore
    <3>11. /\ IsFiniteSet(Cells(Ranks, sent2)) /\ Cardinality(Cells(Ranks, sent)) \in Nat
           /\ Cardinality(Cells(Ranks, sent2)) = Cardinality(Cells(Ranks, sent)) + 1
      <4> DEFINE D == Ranks
      <4>1. /\ r \in D /\ sent[r] \in Nat /\ sent2[r] = sent[r] + 1
            /\ \A x \in D : x # r => sent2[x] = sent[x]
            /\ IsFiniteSet(Cells(D, sent))
        BY <3>6, <3>7
      <4> HIDE DEF D
      <4>2. /\ IsFiniteSet(Cells(D, sent2)) /\ Cardinality(Cells(D, sent)) \in Nat
            /\ Cardinality(Cells(D, sent2)) = Cardinality(Cells(D, sent)) + 1
        BY <4>1, CellsMore
      <4> QED  BY <4>2 DEF D
    <3>12. Cardinality(UsedBy(q)) \in Nat
      BY <3>7, FS_CardinalityType
    <3> QED  BY <3>7, <3>8, <3>9, <3>10, <3>11, <3>12 DEF RTokenInv
  <2> QED  BY <2>4, <2>5
<1>13. ASSUME NEW q \in Ranks, NEW x \in Ranks PROVE RQueueInv(q, x)' /\ RRootLast(x, q)'
  <2>1. RQueueInv(q, x) /\ RRootLast(x, q)
    BY RAt
  <2> QED  BY <1>1, <1>8, <2>1 DEF RQueueInv, RRootLast
<1> QED  BY <1>7, <1>10, <1>11, <1>12, <1>13 DEF RInv


-----------------------------------------------------------------------------
(* All steps of the reduces *)

LEMMA RNext ==
    ASSUME RInv, NEW r \in Ranks, R!Application(r) \/ R!Support(r)
    PROVE  RInv'
<1>1. CASE R!Call(r)
  BY <1>1, RCallStep
<1>2. CASE R!Offer(r)
  BY <1>2, ROfferStep
<1>3. CASE R!TakeResult(r)
  BY <1>3, RTakeResultStep
<1>4. CASE R!TakeCredit(r)
  BY <1>4, RTakeCreditStep
<1>5. CASE R!Contribute(r)
  BY <1>5, RContributeStep
<1>6. CASE R!PollEmpty(r)
  BY <1>6, RPollEmptyStep
<1>7. CASE R!AddOwn(r)
  BY <1>7, RAddOwnStep
<1>8. CASE R!AddOther(r)
  BY <1>8, RAddOtherStep
<1>9. CASE R!SendCredits(r)
  BY <1>9, RSendCreditsStep
<1> QED  BY <1>1, <1>2, <1>3, <1>4, <1>5, <1>6, <1>7, <1>8, <1>9
         DEF R!Application, R!Support

LEMMA RStutter ==
    ASSUME RInv, UNCHANGED rvars
    PROVE  RInv'
<1>1. /\ rchan' = rchan /\ rsupport' = rsupport
      /\ reduce_send' = reduce_send /\ reduce_recv' = reduce_recv
      /\ rdata' = rdata /\ rcontrol' = rcontrol
  BY DEF rvars
<1>2. RTypeOK'
  BY <1>1 DEF RInv, RTypeOK
<1>3. \A b \in Ranks :
          /\ RCreditInv(b)' /\ RRing(b)' /\ RRootFirst(b)' /\ RTokenInv(b)'
          /\ \A q \in Ranks : RQueueInv(q, b)' /\ RRootLast(b, q)'
  BY <1>1, RQuietStep DEF SameCredits, SameSums
<1>4. \A q \in Ranks : RCallInv(q)' /\ RHandedInv(q)'
  BY <1>1, RAt DEF RCallInv, RHandedInv
<1> QED  BY <1>2, <1>3, <1>4 DEF RInv, RRankInv

-----------------------------------------------------------------------------
(* What the invariant gives *)

LEMMA RSumsRight == RInv => SumsRight
<1> SUFFICES ASSUME RInv PROVE R!OneElementPerSum /\ R!ResultRight
  BY DEF SumsRight
<1>1. ASSUME NEW r \in Ranks, NEW slot \in R!Slots,
             NEW a \in rsupport[r].reduce_result[slot],
             NEW b \in rsupport[r].reduce_result[slot]
      PROVE  a[1] = b[1] /\ a[3] = b[3]
  <2> DEFINE s == rsupport[r]
             d == Distance(s.current_buffer_element, slot)
  <2>1. Sums(s.reduce_result, s.current_buffer_element, rchan[r].coll, Summed(r), AheadOf(r))
    BY RAt DEF RRing, Ring
  <2>2. s.reduce_result[slot] = {<<rchan[r].coll, q, Summed(r) + 1 + d>> :
                                     q \in {p \in Ranks : d < AheadOf(r)[p]}}
    BY <2>1 DEF Sums
  <2> QED  BY <2>2
<1>2. ASSUME NEW r \in Ranks, reduce_recv[r] # <<>>
      PROVE  Head(reduce_recv[r]) = {<<rchan[r].coll, q, rchan[r].entered>> : q \in Ranks}
  <2>1. RHandedInv(r) /\ reduce_recv[r] \in Seq(RResult)
    BY RAt, RTypes DEF RInv
  <2>2. Head(reduce_recv[r]) = reduce_recv[r][1]
    BY <1>2, <2>1
  <2> QED  BY <1>2, <2>1, <2>2 DEF RHandedInv
<1> QED  BY <1>1, <1>2, RWires DEF R!OneElementPerSum, R!ResultRight

LEMMA RNothingLeft == RInv => R!NothingLeft
<1> SUFFICES ASSUME RInv, \A r \in Ranks : rchan[r].coll = R!NumCollectives + 1
             PROVE  rdata = Quiet /\ rcontrol = Quiet
  BY RWires DEF R!NothingLeft
<1>1. \A k \in 1 .. R!NumCollectives : k \in Int /\ R!NumCollectives + 1 > k
  BY RNumbers
<1>2. ASSUME NEW q \in Ranks, NEW r \in Ranks PROVE rdata[q][r] = <<>>
  <2>1. R!NumCollectives + 1 \notin 1 .. R!NumCollectives
    BY RNumbers
  <2>2. ~ Begun(r)
    BY <2>1 DEF Begun, RRooted
  <2>3. RQueueInv(q, r)
    BY RAt
  <2> QED  BY <2>2, <2>3 DEF RQueueInv
<1>3. ASSUME NEW q \in Ranks, NEW src \in Ranks PROVE rcontrol[src][q] = <<>>
  <2> DEFINE issued == [k \in Needs(q) |-> Issued(k, q)]
             used   == [k \in Needs(q) |-> Used(k, q)]
  <2>1. \A k \in Needs(q) : Issued(k, q) = ReduceCounts[k] /\ Used(k, q) = ReduceCounts[k]
    BY <1>1, RNumbers DEF Needs, Issued, Used
  <2>2. \A k \in Needs(q) : issued[k] = used[k]
    BY <2>1
  <2>3. RTokenInv(q) /\ IssuedTo(q) = Cells(Needs(q), issued) /\ UsedBy(q) = Cells(Needs(q), used)
    BY RAt DEF IssuedTo, UsedBy
  <2> HIDE DEF issued, used
  <2>4. IssuedTo(q) = UsedBy(q)
    BY <2>2, <2>3, CellsSame
  <2>5. Cardinality(UsedBy(q)) \in Nat /\ Cardinality(SentTo(q)) \in Nat
        /\ IsFiniteSet(SentTo(q))
    BY <2>3, FS_CardinalityType DEF RTokenInv
  <2>6. Cardinality(SentTo(q)) = 0
    BY <2>3, <2>4, <2>5 DEF RTokenInv
  <2>7. SentTo(q) = {}
    BY <2>5, <2>6, FS_EmptySet
  <2>8. rcontrol[src][q] \in Seq(RTag)
    BY RTypes DEF RInv
  <2>9. Len(rcontrol[src][q]) = 0
    <3>1. Len(rcontrol[src][q]) \in Nat
      BY <2>8
    <3>2. Len(rcontrol[src][q]) # 0 => <<src, 1>> \in SentTo(q)
      BY <3>1 DEF SentTo, Cells
    <3> QED  BY <2>7, <3>2
  <2> QED  BY <2>8, <2>9, EmptySeq
<1>4. rdata \in Net(R!Contribution) /\ rcontrol \in Net(RTag)
  BY DEF RInv, RTypeOK
<1>5. rdata = Quiet
  BY <1>2, <1>4 DEF Net, Quiet
<1>6. rcontrol = Quiet
  BY <1>3, <1>4 DEF Net, Quiet
<1> QED  BY <1>5, <1>6

-----------------------------------------------------------------------------
(* The types of the kernels of the reduces need bounds of their counters,    *)
(* also for a rank that is alone.                                            *)

(* The credits that the kernel of the root still has to count in a reduce of *)
(* n elements, m of them summed.  While it sends them they are as many as    *)
(* the sums allow; a rank alone, which counts its first credits after its    *)
(* first sum, may have one more than there are elements.                     *)
AllowedOf(n, m) == IF n < m + credits_flow_control THEN n ELSE m + credits_flow_control

StillDue(s, n, m) ==
    /\ s.message_size = n
    /\ s.send_credits =>
           \/ s.sent_credits + s.credits = AllowedOf(n, m)
           \/ n <= credits_flow_control /\ n < s.sent_credits + s.credits
    /\ ~ s.send_credits /\ s.sent_credits < n =>
           s.credits = 0 /\ s.sent_credits = AllowedOf(n, m)
    /\ ~ s.send_credits /\ s.sent_credits >= n =>
           s.credits + n - m <= credits_flow_control

Counters(s) ==
    /\ s.credits >= 0 /\ s.credits <= credits_flow_control + 1
    /\ s.send_credits => s.credits >= 1
    /\ ~ s.send_credits => s.credits <= credits_flow_control
    /\ NumRanks > 1 => s.sent_credits <= s.message_size

RDueInv(r) ==
    LET c == rchan[r]
    IN  /\ Counters(rsupport[r])
        /\ Begun(r) => StillDue(rsupport[r], ReduceCounts[c.coll], Summed(r))

LEMMA DueNumbers ==
    ASSUME NEW s \in RSupport
    PROVE  /\ s.credits \in Int /\ s.sent_credits \in Int /\ s.sent_credits >= 0
           /\ credits_flow_control \in Int /\ credits_flow_control >= 1
BY RSupportFields, RingNumbers

(* The first credits are due. *)
Fresh(s, n) ==
    /\ s.sent_credits = 0 /\ s.message_size = n
    /\ s.credits = IF n < credits_flow_control THEN n ELSE credits_flow_control

LEMMA DueStart ==
    ASSUME NEW s \in RSupport, NEW n \in Nat, n >= 1
    PROVE  LET s2 == R!StartReduce(s, n)
           IN  /\ s2 \in RSupport /\ s2.send_credits /\ Fresh(s2, n)
               /\ Counters(s2) /\ StillDue(s2, n, 0)
<1> DEFINE s2 == R!StartReduce(s, n)
<1>1. s2 \in RSupport /\ s2.send_credits /\ Fresh(s2, n)
  BY RStart DEF Fresh
<1> HIDE DEF s2
<1>2. Counters(s2)
  BY <1>1, RingNumbers DEF Counters, Fresh
<1>3. StillDue(s2, n, 0)
  BY <1>1, RingNumbers DEF StillDue, AllowedOf, Fresh
<1> QED  BY <1>1, <1>2, <1>3 DEF s2

(* A rank alone completes a sum in the step that starts a reduce. *)
LEMMA DueEmptied ==
    ASSUME NEW s \in RSupport, NEW n \in Int, NEW m \in Int, m >= 0, m < n,
           Counters(s), StillDue(s, n, m), s.send_credits => Fresh(s, n) /\ m = 0
    PROVE  Counters(R!Emptied(s)) /\ StillDue(R!Emptied(s), n, m + 1)
<1> DEFINE s2 == R!Emptied(s)
<1>1. /\ s2.credits = s.credits + 1 /\ s2.sent_credits = s.sent_credits
      /\ s2.message_size = n /\ s.message_size = n
  BY REmptied DEF StillDue
<1>2. s2.send_credits = (s.sent_credits < n)
  BY <1>1, REmptied
<1>3. /\ s.credits \in Int /\ s.sent_credits \in Int /\ s.sent_credits >= 0
      /\ credits_flow_control \in Int /\ credits_flow_control >= 1
  BY DueNumbers
<1>4. NumRanks > 1 => s2.sent_credits <= s2.message_size
  BY <1>1 DEF Counters
<1> HIDE DEF s2
<1>5. ASSUME s.send_credits PROVE Counters(s2) /\ StillDue(s2, n, m + 1)
  <2>1. /\ s.credits = (IF n < credits_flow_control THEN n ELSE credits_flow_control)
        /\ s.sent_credits = 0 /\ m = 0
    BY <1>5 DEF Fresh
  <2>2. s2.send_credits
    <3>1. s.sent_credits < n
      BY <2>1
    <3> QED  BY <1>2, <3>1, Zenon
  <2>3. Counters(s2)
    BY <1>1, <1>3, <1>4, <2>1, <2>2 DEF Counters
  <2>4. \/ s2.sent_credits + s2.credits = AllowedOf(n, m + 1)
        \/ n <= credits_flow_control /\ n < s2.sent_credits + s2.credits
    BY <1>1, <1>3, <2>1 DEF AllowedOf
  <2>5. StillDue(s2, n, m + 1)
    BY <1>1, <2>2, <2>4 DEF StillDue
  <2> QED  BY <2>3, <2>5
<1>6. ASSUME ~ s.send_credits /\ s.sent_credits < n PROVE Counters(s2) /\ StillDue(s2, n, m + 1)
  <2>1. /\ s.credits = 0
        /\ s.sent_credits = IF n < m + credits_flow_control THEN n ELSE m + credits_flow_control
    BY <1>6 DEF StillDue, AllowedOf
  <2>2. s2.send_credits
    BY <1>2, <1>6, Zenon
  <2>3. s2.credits = 1
    BY <1>1, <2>1
  <2>4. Counters(s2)
    BY <1>3, <1>4, <2>2, <2>3 DEF Counters
  <2>5. s2.sent_credits + 1 = AllowedOf(n, m + 1)
    BY <1>1, <1>3, <1>6, <2>1 DEF AllowedOf
  <2>6. StillDue(s2, n, m + 1)
    BY <1>1, <2>2, <2>3, <2>5 DEF StillDue
  <2> QED  BY <2>4, <2>6
<1>7. ASSUME ~ s.send_credits /\ ~ (s.sent_credits < n) PROVE Counters(s2) /\ StillDue(s2, n, m + 1)
  <2>1. s.credits + n - m <= credits_flow_control /\ s.sent_credits >= n
    BY <1>3, <1>7 DEF StillDue
  <2>2. ~ s2.send_credits
    BY <1>2, <1>7, Zenon
  <2>3. s.credits >= 0
    BY DEF Counters
  <2>4. Counters(s2)
    BY <1>1, <1>3, <1>4, <2>1, <2>2, <2>3 DEF Counters
  <2>5. s2.sent_credits >= n /\ s2.credits + n - (m + 1) <= credits_flow_control
    BY <1>1, <1>3, <2>1
  <2>6. StillDue(s2, n, m + 1)
    BY <1>1, <1>3, <2>2, <2>5 DEF StillDue
  <2> QED  BY <2>4, <2>6
<1> QED  BY <1>5, <1>6, <1>7 DEF s2

(* An addition leaves the counters as they are, unless the sum is complete.  *)
LEMMA RDueAdded ==
    ASSUME RInv, NEW r \in Ranks, NEW s \in RSupport, NEW n, n = ReduceCounts[rchan[r].coll],
           reduce_recv[r] = <<>> => Summed(r) < n, RRooted(r, rchan[r].coll),
           Counters(s), StillDue(s, n, Summed(r)),
           s.send_credits => Fresh(s, n) /\ Summed(r) = 0,
           rchan' = rchan, R!Finish(r, s)
    PROVE  RDueInv(r)'
<1> DEFINE m == Summed(r)
<1>1. /\ rsupport \in [Ranks -> RSupport] /\ reduce_recv \in [Ranks -> Seq(RResult)]
      /\ m \in Int /\ m >= 0 /\ n \in Int
  BY RCounts, RNumbers DEF RInv, RTypeOK, RRooted
<1>2. CASE R!Complete(s)
  <2>1. /\ reduce_recv[r] = <<>>
        /\ reduce_recv' = [reduce_recv EXCEPT ![r] =
               <<s.reduce_result[s.current_buffer_element]>>]
        /\ rsupport' = [rsupport EXCEPT ![r] = R!Emptied(s)]
    BY <1>2 DEF R!Finish
  <2>2. rsupport'[r] = R!Emptied(s) /\ Len(reduce_recv'[r]) = 1 /\ Len(reduce_recv[r]) = 0
    BY <1>1, <2>1
  <2>3. Summed(r)' = m + 1
    <3>1. rchan[r].returned \in Int
      BY RAt, RChannelFields
    <3> QED  BY <2>2, <3>1 DEF Summed
  <2> HIDE DEF m
  <2>4. /\ m \in Int /\ m >= 0 /\ m < n /\ n \in Int
        /\ Counters(s) /\ StillDue(s, n, m) /\ (s.send_credits => Fresh(s, n) /\ m = 0)
    BY <1>1, <2>1 DEF m
  <2>5. Counters(R!Emptied(s)) /\ StillDue(R!Emptied(s), n, m + 1)
    BY <2>4, DueEmptied
  <2> QED  BY <2>2, <2>3, <2>5 DEF RDueInv
<1>3. CASE ~ R!Complete(s)
  <2>1. reduce_recv' = reduce_recv /\ rsupport' = [rsupport EXCEPT ![r] = s]
    BY <1>3 DEF R!Finish
  <2>2. rsupport'[r] = s /\ Summed(r)' = m
    BY <1>1, <2>1 DEF Summed
  <2> QED  BY <2>2 DEF RDueInv
<1> QED  BY <1>2, <1>3

LEMMA RDueAddOwn ==
    ASSUME RInv, NEW r \in Ranks, RDueInv(r), R!AddOwn(r)
    PROVE  RDueInv(r)'
<1> DEFINE k == rchan[r].coll
           n == ReduceCounts[k]
           s == rsupport[r]
           mess == Head(reduce_send[r])
           result == [s.reduce_result EXCEPT ![s.add_to_root] = @ \cup {mess.data}]
           next == R!Next1(s.add_to_root)
           added == [s EXCEPT !.sender_id = 1, !.reduce_result = result, !.add_to_root = next]
           s3 == IF mess.op = "SYNCH" THEN R!StartReduce(added, mess.message_size) ELSE added
<1>1. /\ rchan[r] \in RChannel /\ s \in RSupport /\ RCallInv(r) /\ RHandedInv(r)
      /\ reduce_send[r] \in Seq(RMessage)
  BY RAt, RTypes DEF RInv
<1>2. /\ ~ s.send_credits /\ reduce_send[r] # <<>> /\ R!Finish(r, s3) /\ rchan' = rchan
  <2>1. R!Finish(r, IF mess.op = "SYNCH"
                    THEN R!StartReduce([s EXCEPT !.sender_id = 1,
                             !.reduce_result[s.add_to_root] = @ \cup {mess.data},
                             !.add_to_root = R!Next1(@)], mess.message_size)
                    ELSE [s EXCEPT !.sender_id = 1,
                             !.reduce_result[s.add_to_root] = @ \cup {mess.data},
                             !.add_to_root = R!Next1(@)])
        /\ ~ s.send_credits /\ reduce_send[r] # <<>> /\ rchan' = rchan
    BY DEF R!AddOwn, R!Ready
  <2>2. [s EXCEPT !.sender_id = 1, !.reduce_result[s.add_to_root] = @ \cup {mess.data},
                  !.add_to_root = R!Next1(@)] = added
    BY <1>1 DEF RSupport
  <2> HIDE DEF added
  <2> QED  BY <2>1, <2>2
<1>3. /\ rchan[r].sent /\ mess = reduce_send[r][1] /\ mess \in RMessage
      /\ (mess.op = "SYNCH" <=> rchan[r].returned = 0)
      /\ mess.message_size = n /\ reduce_recv[r] = <<>>
  BY <1>1, <1>2, EmptySeq DEF RHandedInv
<1>4. /\ RRooted(r, k) /\ k \in 1 .. R!NumCollectives /\ n \in Nat /\ n >= 1
      /\ rchan[r].returned \in Int /\ rchan[r].returned >= 0 /\ rchan[r].returned < n
      /\ Summed(r) = rchan[r].returned
  <2>1. RRooted(r, k)
    BY <1>1, <1>3 DEF RCallInv
  <2>2. k \in 1 .. R!NumCollectives /\ n \in Nat /\ n >= 1
    BY <2>1, RNumbers DEF RRooted
  <2>3. rchan[r].returned \in Int /\ rchan[r].returned >= 0 /\ rchan[r].returned < n
    BY <1>1, <2>2, RChannelFields, RNumbers DEF RCallInv
  <2>4. Summed(r) = rchan[r].returned + 0
    BY <1>3, EmptySeq DEF Summed
  <2> QED  BY <2>1, <2>2, <2>3, <2>4
<1>5. next \in R!Slots /\ result \in [R!Slots -> SUBSET R!Contribution]
  <2>1. s.add_to_root \in R!Slots
    BY <1>1, RSupportFields
  <2>2. mess.data \in R!Contribution
    BY <1>3 DEF RMessage
  <2> QED  BY <1>1, <2>1, <2>2, OneOn DEF RSupport
<1> HIDE DEF next, result, mess
<1>6. /\ added \in RSupport
      /\ added.sent_credits = s.sent_credits /\ added.message_size = s.message_size
      /\ added.credits = s.credits
  BY <1>1, <1>5 DEF RSupport
<1>7. added.send_credits <=> s.send_credits
  BY <1>1 DEF RSupport
<1> HIDE DEF added, s, n
<1>8. CASE mess.op = "SYNCH"
  <2>1. s3 = R!StartReduce(added, n)
    BY <1>3, <1>8
  <2> HIDE DEF s3
  <2>2. /\ s3 \in RSupport /\ s3.send_credits /\ Fresh(s3, n)
        /\ Counters(s3) /\ StillDue(s3, n, 0)
    BY <1>4, <1>6, <2>1, DueStart
  <2>3. Summed(r) = 0
    BY <1>3, <1>4, <1>8
  <2> QED  BY <1>2, <1>3, <1>4, <2>2, <2>3, RDueAdded DEF n
<1>9. CASE mess.op # "SYNCH"
  <2>1. s3 = added
    BY <1>9
  <2> HIDE DEF s3
  <2>2. Begun(r)
    BY <1>3, <1>4, <1>9 DEF Begun
  <2>3. Counters(s) /\ StillDue(s, n, Summed(r))
    BY <2>2 DEF RDueInv, s, n
  <2>4. Counters(added)
    BY <1>6, <1>7, <2>3 DEF Counters
  <2>5. StillDue(added, n, Summed(r))
    BY <1>6, <1>7, <2>3 DEF StillDue
  <2> QED  BY <1>2, <1>3, <1>4, <1>6, <1>7, <2>1, <2>4, <2>5, RDueAdded DEF n
<1> QED  BY <1>8, <1>9

LEMMA RDueAddOther ==
    ASSUME RInv, NEW r \in Ranks, RDueInv(r), R!AddOther(r)
    PROVE  RDueInv(r)'
<1> DEFINE k == rchan[r].coll
           n == ReduceCounts[k]
           s == rsupport[r]
<1>1. PICK src \in Waiting(rdata, r) :
          LET last == s.contiguos_reads + 1 = READS_LIMIT
          IN  /\ ~ s.send_credits
              /\ R!Finish(r, [s EXCEPT
                     !.sender_id = IF last THEN 0 ELSE 1,
                     !.contiguos_reads = IF last THEN 0 ELSE @ + 1,
                     !.reduce_result[s.add_to[src]] = @ \cup {Head(rdata[src][r])},
                     !.add_to[src] = R!Next1(@)])
              /\ rchan' = rchan
  BY RWires DEF R!AddOther, R!Ready
<1> DEFINE last == s.contiguos_reads + 1 = READS_LIMIT
           item == Head(rdata[src][r])
           sender == IF last THEN 0 ELSE 1
           reads == IF last THEN 0 ELSE s.contiguos_reads + 1
           result == [s.reduce_result EXCEPT ![s.add_to[src]] = @ \cup {item}]
           places == [s.add_to EXCEPT ![src] = R!Next1(@)]
           added == [s EXCEPT !.sender_id = sender, !.contiguos_reads = reads,
                              !.reduce_result = result, !.add_to = places]
<1>2. /\ rchan[r] \in RChannel /\ s \in RSupport /\ RCallInv(r) /\ RHandedInv(r)
      /\ reduce_recv[r] \in Seq(RResult) /\ rchan[r].returned \in Int
  BY RAt, RTypes, RChannelFields DEF RInv
<1>3. /\ src \in Ranks /\ rdata[src][r] \in Seq(R!Contribution) /\ rdata[src][r] # <<>>
  BY <1>1, RTypes DEF Waiting, RInv
<1>4. /\ ~ s.send_credits /\ R!Finish(r, added) /\ rchan' = rchan
  <2>1. [s EXCEPT !.sender_id = IF last THEN 0 ELSE 1,
                  !.contiguos_reads = IF last THEN 0 ELSE @ + 1,
                  !.reduce_result[s.add_to[src]] = @ \cup {item},
                  !.add_to[src] = R!Next1(@)] = added
    BY <1>2 DEF RSupport
  <2> HIDE DEF added
  <2> QED  BY <1>1, <2>1
<1>5. Begun(r)
  <2>1. RQueueInv(src, r)
    BY <1>3, RAt
  <2> QED  BY <1>3, <2>1 DEF RQueueInv
<1>6. RRooted(r, k) /\ k \in 1 .. R!NumCollectives /\ n \in Int /\ Summed(r) \in Int
      /\ rchan[r].returned < n
  <2>1. RRooted(r, k) /\ k \in 1 .. R!NumCollectives
    BY <1>5 DEF Begun, RRooted
  <2> QED  BY <1>2, <2>1, RNumbers, RCounts, RChannelFields DEF RCallInv
<1>7. /\ sender \in {0, 1, R!Either} /\ reads \in 0 .. READS_LIMIT - 1
      /\ result \in [R!Slots -> SUBSET R!Contribution] /\ places \in [Ranks -> R!Slots]
  <2>1. s.contiguos_reads \in 0 .. READS_LIMIT - 1
    BY <1>2 DEF RSupport
  <2>2. s.add_to[src] \in R!Slots /\ R!Next1(s.add_to[src]) \in R!Slots
    BY <1>2, <1>3, RSupportFields, OneOn
  <2>3. item \in R!Contribution
    BY <1>3, HeadTailProperties
  <2>4. reads \in 0 .. READS_LIMIT - 1
    BY <2>1, RingNumbers
  <2>5. result \in [R!Slots -> SUBSET R!Contribution]
    BY <1>2, <2>2, <2>3 DEF RSupport
  <2>6. places \in [Ranks -> R!Slots]
    BY <1>2, <1>3, <2>2, RSupportFields
  <2> QED  BY <2>4, <2>5, <2>6
<1> HIDE DEF sender, reads, result, places
<1>8. /\ added \in RSupport
      /\ added.sent_credits = s.sent_credits /\ added.message_size = s.message_size
      /\ added.credits = s.credits /\ added.current_buffer_element = s.current_buffer_element
  BY <1>2, <1>7 DEF RSupport
<1>9. added.send_credits <=> s.send_credits
  BY <1>2 DEF RSupport
<1> HIDE DEF added
<1>10. Counters(s) /\ StillDue(s, n, Summed(r))
  BY <1>5 DEF RDueInv
<1>11. Counters(added) /\ StillDue(added, n, Summed(r))
  BY <1>8, <1>9, <1>10 DEF Counters, StillDue
<1>12. reduce_recv[r] = <<>> => Summed(r) < n
  <2>1. reduce_recv[r] = <<>> => Summed(r) = rchan[r].returned + 0
    BY EmptySeq DEF Summed
  <2> QED  BY <1>2, <1>6, <2>1
<1> HIDE DEF s
<1> QED  BY <1>4, <1>6, <1>8, <1>9, <1>11, <1>12, RDueAdded

LEMMA RDueSendCredits ==
    ASSUME RInv, NEW r \in Ranks, RDueInv(r), R!SendCredits(r)
    PROVE  RDueInv(r)'
<1> DEFINE s == rsupport[r]
           n == ReduceCounts[rchan[r].coll]
           last == s.send_to + 1 = NumRanks
           more == s.credits # 1
           sent == s.sent_credits + 1
           left == s.credits - 1
           next == IF last THEN [s EXCEPT !.send_to = 0, !.credits = left,
                                          !.send_credits = more, !.sent_credits = sent]
                   ELSE [s EXCEPT !.send_to = @ + 1]
<1>1. /\ s.send_credits /\ rsupport' = [rsupport EXCEPT ![r] = next]
      /\ rchan' = rchan /\ reduce_send' = reduce_send /\ reduce_recv' = reduce_recv
  BY DEF R!SendCredits
<1>2. /\ s \in RSupport /\ RCreditInv(r) /\ rsupport \in [Ranks -> RSupport]
      /\ s.credits \in Int /\ s.sent_credits \in Int /\ s.sent_credits >= 0
      /\ credits_flow_control \in Int /\ credits_flow_control >= 1
  BY RAt, DueNumbers DEF RInv, RTypeOK
<1>3. rsupport'[r] = next
  BY <1>1, <1>2
<1>4. Counters(s) /\ s.credits >= 1 /\ s.credits <= credits_flow_control + 1
  BY <1>1, <1>2 DEF RDueInv, Counters
<1>5. (Begun(r)' <=> Begun(r)) /\ Summed(r)' = Summed(r)
  BY <1>1 DEF Begun, Summed
<1>6. ASSUME Begun(r)
      PROVE  /\ StillDue(s, n, Summed(r)) /\ n \in Int /\ Summed(r) \in Int
             /\ Summed(r) >= 0
  BY <1>6, RCounts, RNumbers DEF RDueInv, Begun, RRooted
<1>7. CASE last
  <2>1. next = [s EXCEPT !.send_to = 0, !.credits = left, !.send_credits = more,
                         !.sent_credits = sent]
    BY <1>7
  <2> HIDE DEF next
  <2>2. /\ next.credits = s.credits - 1 /\ next.sent_credits = s.sent_credits + 1
        /\ next.message_size = s.message_size
    BY <1>2, <2>1 DEF RSupport
  <2>3. next.send_credits = more
    BY <1>2, <2>1 DEF RSupport
  <2> HIDE DEF left, sent
  <2>4. next.send_credits <=> s.credits # 1
    BY <2>3
  <2> HIDE DEF more
  <2>5. ASSUME NumRanks > 1 PROVE next.sent_credits <= next.message_size
    <3>1. Begun(r)
      BY <1>1, <1>2, <2>5 DEF RCreditInv
    <3>2. s.message_size = n /\ s.sent_credits + s.credits = Allowed(rchan[r].coll, Summed(r))
      BY <1>1, <1>2, <2>5, <3>1 DEF RCreditInv, CreditsDue
    <3>3. Allowed(rchan[r].coll, Summed(r)) <= n
      BY <1>2, <1>6, <3>1 DEF Allowed
    <3> HIDE DEF n, s
    <3> QED  BY <1>2, <1>4, <1>6, <2>2, <3>1, <3>2, <3>3
  <2> HIDE DEF s
  <2>6. Counters(next)
    BY <1>2, <1>4, <2>2, <2>4, <2>5 DEF Counters
  <2>7. ASSUME Begun(r) PROVE StillDue(next, n, Summed(r))
    <3> HIDE DEF n
    <3> QED  BY <1>1, <1>2, <1>4, <1>6, <2>2, <2>4, <2>7 DEF StillDue, AllowedOf
  <2> QED  BY <1>1, <1>3, <1>5, <2>6, <2>7 DEF RDueInv
<1>8. CASE ~ last
  <2>1. next = [s EXCEPT !.send_to = @ + 1]
    BY <1>8
  <2> HIDE DEF next
  <2>2. /\ next.credits = s.credits /\ next.sent_credits = s.sent_credits
        /\ next.message_size = s.message_size
    BY <1>2, <2>1 DEF RSupport
  <2>3. next.send_credits = s.send_credits
    BY <1>2, <2>1 DEF RSupport
  <2> HIDE DEF s
  <2>4. Counters(next)
    BY <1>4, <2>2, <2>3 DEF Counters
  <2>5. ASSUME Begun(r) PROVE StillDue(next, n, Summed(r))
    BY <1>6, <2>2, <2>3, <2>5 DEF StillDue
  <2> QED  BY <1>1, <1>3, <1>5, <2>4, <2>5 DEF RDueInv
<1> QED  BY <1>7, <1>8

(* The other steps *)
LEMMA RDueStays ==
    ASSUME NEW r \in Ranks, RDueInv(r),
           Counters(rsupport[r]) => Counters(rsupport'[r]),
           \A n, m : StillDue(rsupport[r], n, m) => StillDue(rsupport'[r], n, m),
           Begun(r)' => Begun(r) /\ rchan'[r].coll = rchan[r].coll /\ Summed(r)' = Summed(r)
    PROVE  RDueInv(r)'
BY DEF RDueInv

LEMMA RDueOther ==
    ASSUME NEW q \in Ranks, RDueInv(q), rchan'[q] = rchan[q], rsupport'[q] = rsupport[q],
           reduce_send'[q] = reduce_send[q], reduce_recv'[q] = reduce_recv[q]
    PROVE  RDueInv(q)'
<1>1. (Begun(q)' <=> Begun(q)) /\ Summed(q)' = Summed(q)
  BY DEF Begun, Summed
<1> QED  BY <1>1, RDueStays

LEMMA RDueApplication ==
    ASSUME RInv, NEW r \in Ranks, RDueInv(r), R!Application(r)
    PROVE  RDueInv(r)'
<1> DEFINE c == rchan[r]
<1>1. /\ c \in RChannel /\ RCallInv(r) /\ RHandedInv(r) /\ rchan \in [Ranks -> RChannel]
      /\ reduce_send \in [Ranks -> Seq(RMessage)] /\ reduce_recv \in [Ranks -> Seq(RResult)]
      /\ c.coll \in Int /\ c.returned \in Int /\ c.returned >= 0
  BY RAt, RChannelFields DEF RInv, RTypeOK
<1>2. rsupport' = rsupport
  BY DEF R!Application, R!Call, R!Offer, R!TakeResult, R!TakeCredit, R!Contribute
<1>3. SUFFICES Begun(r)' => Begun(r) /\ rchan'[r].coll = c.coll /\ Summed(r)' = Summed(r)
  BY <1>2, RDueStays
<1>4. CASE R!Call(r)
  <2>1. /\ rchan' = [rchan EXCEPT ![r].entered = @ + 1]
        /\ reduce_send' = reduce_send /\ reduce_recv' = reduce_recv
    BY <1>4 DEF R!Call
  <2>2. /\ rchan'[r].coll = c.coll /\ rchan'[r].returned = c.returned
        /\ rchan'[r].sent = c.sent
    BY <1>1, <2>1 DEF RChannel
  <2> QED  BY <2>1, <2>2 DEF Begun, Summed
<1>5. CASE R!Offer(r)
  <2>1. /\ rchan' = [rchan EXCEPT ![r].sent = TRUE, ![r].op = "REDUCE"]
        /\ \E mess : reduce_send' = [reduce_send EXCEPT ![r] = <<mess>>]
        /\ reduce_recv' = reduce_recv
    BY <1>5 DEF R!Offer
  <2>2. /\ rchan'[r].coll = c.coll /\ rchan'[r].returned = c.returned
    BY <1>1, <2>1 DEF RChannel
  <2>3. reduce_send'[r] # <<>>
    BY <1>1, <2>1
  <2> QED  BY <2>1, <2>2, <2>3 DEF Begun, Summed
<1>6. CASE R!TakeResult(r)
  <2>1. /\ rchan' = [rchan EXCEPT ![r] = R!Returned(c)] /\ reduce_recv[r] # <<>>
        /\ reduce_recv' = [reduce_recv EXCEPT ![r] = <<>>] /\ reduce_send' = reduce_send
        /\ R!InCall(r)
    BY <1>6 DEF R!TakeResult
  <2>2. /\ c.sent /\ reduce_send[r] = <<>> /\ Len(reduce_recv[r]) = 1
        /\ Len(reduce_recv'[r]) = 0 /\ rchan'[r] = R!Returned(c) /\ RRooted(r, c.coll)
    BY <1>1, <2>1, EmptySeq DEF RHandedInv, RCallInv
  <2>3. Begun(r)
    BY <2>2 DEF Begun
  <2>4. c.entered = c.returned + 1
    BY <1>1, <2>1 DEF RCallInv, R!InCall
  <2>5. CASE c.entered = ReduceCounts[c.coll]
    <3>1. rchan'[r].returned = 0 /\ ~ rchan'[r].sent
      BY <2>2, <2>5 DEF R!Returned, R!Opened
    <3> QED  BY <3>1 DEF Begun
  <2>6. CASE c.entered # ReduceCounts[c.coll]
    <3>1. rchan'[r] = [c EXCEPT !.returned = c.entered, !.sent = FALSE, !.credit = FALSE]
      BY <2>2, <2>6 DEF R!Returned
    <3>2. rchan'[r].returned = c.entered /\ rchan'[r].coll = c.coll
      BY <1>1, <3>1 DEF RChannel
    <3> HIDE DEF c
    <3>3. Summed(r)' = c.returned + 1 + 0 /\ Summed(r) = c.returned + 1
      BY <2>2, <2>4, <3>2 DEF Summed, c
    <3>4. Summed(r)' = Summed(r)
      BY <1>1, <3>3
    <3> QED  BY <2>3, <3>2, <3>4 DEF c
  <2> QED  BY <2>5, <2>6
<1>7. CASE R!TakeCredit(r)
  <2>1. /\ rchan' = [rchan EXCEPT ![r].credit = TRUE]
        /\ reduce_send' = reduce_send /\ reduce_recv' = reduce_recv
    BY <1>7 DEF R!TakeCredit
  <2>2. /\ rchan'[r].coll = c.coll /\ rchan'[r].returned = c.returned
        /\ rchan'[r].sent = c.sent
    BY <1>1, <2>1 DEF RChannel
  <2> QED  BY <2>1, <2>2 DEF Begun, Summed
<1>8. CASE R!Contribute(r)
  <2>1. /\ rchan' = [rchan EXCEPT ![r] = R!Returned(c)] /\ ~ R!IsRoot(r) /\ R!InCall(r)
    BY <1>8 DEF R!Contribute
  <2>2. rchan'[r] = R!Returned(c) /\ ~ RRooted(r, c.coll)
    BY <1>1, <2>1, RNumbers DEF R!IsRoot, RRooted
  <2>3. CASE c.entered = ReduceCounts[c.coll]
    <3>1. rchan'[r].returned = 0 /\ ~ rchan'[r].sent
      BY <2>2, <2>3 DEF R!Returned, R!Opened
    <3> QED  BY <3>1 DEF Begun
  <2>4. CASE c.entered # ReduceCounts[c.coll]
    <3>1. rchan'[r] = [c EXCEPT !.returned = c.entered, !.sent = FALSE, !.credit = FALSE]
      BY <2>2, <2>4 DEF R!Returned
    <3>2. rchan'[r].coll = c.coll
      BY <1>1, <3>1 DEF RChannel
    <3> QED  BY <2>2, <3>2 DEF Begun
  <2> QED  BY <2>3, <2>4
<1> QED  BY <1>4, <1>5, <1>6, <1>7, <1>8 DEF R!Application

LEMMA RDuePollEmpty ==
    ASSUME RInv, NEW r \in Ranks, RDueInv(r), R!PollEmpty(r)
    PROVE  RDueInv(r)'
<1> DEFINE s == rsupport[r]
           s2 == [s EXCEPT !.sender_id = R!Either, !.contiguos_reads = 0]
<1>1. /\ rsupport' = [rsupport EXCEPT ![r].sender_id = R!Either, ![r].contiguos_reads = 0]
      /\ rchan' = rchan /\ reduce_send' = reduce_send /\ reduce_recv' = reduce_recv
  BY DEF R!PollEmpty
<1>2. rsupport \in [Ranks -> RSupport] /\ s \in RSupport
  BY RAt DEF RInv, RTypeOK
<1>3. rsupport'[r] = s2
  BY <1>1, <1>2 DEF RSupport
<1>4. /\ s2.sent_credits = s.sent_credits /\ s2.message_size = s.message_size
      /\ s2.credits = s.credits
  BY <1>2 DEF RSupport
<1>5. s2.send_credits = s.send_credits
  BY <1>2 DEF RSupport
<1>6. (Begun(r)' <=> Begun(r)) /\ Summed(r)' = Summed(r)
  BY <1>1 DEF Begun, Summed
<1> HIDE DEF s, s2
<1>7. Counters(s) => Counters(s2)
  BY <1>4, <1>5 DEF Counters
<1>8. \A n, m : StillDue(s, n, m) => StillDue(s2, n, m)
  BY <1>4, <1>5 DEF StillDue
<1> QED  BY <1>1, <1>3, <1>6, <1>7, <1>8, RDueStays DEF s

(* The reduces with the bounds of their counters *)
RTypeInv == RInv /\ \A r \in Ranks : RDueInv(r)

LEMMA RTypeInit == R!Init => RTypeInv
<1> SUFFICES ASSUME R!Init PROVE RTypeInv
  OBVIOUS
<1>1. ASSUME NEW r \in Ranks PROVE RDueInv(r)
  <2>1. /\ ~ rsupport[r].send_credits /\ rsupport[r].credits = credits_flow_control
        /\ rsupport[r].sent_credits = 0 /\ rsupport[r].message_size = 0
    BY RWires DEF R!Init
  <2>2. rchan[r] = R!Opened(1)
    BY RWires DEF R!Init
  <2>3. ~ Begun(r)
    BY <2>2 DEF Begun, R!Opened
  <2> QED  BY <2>1, <2>3, RingNumbers DEF RDueInv, Counters
<1> QED  BY <1>1, RInit DEF RTypeInv

LEMMA RTypeNext ==
    ASSUME RTypeInv, NEW r \in Ranks, R!Application(r) \/ R!Support(r)
    PROVE  RTypeInv'
<1>1. RInv /\ RInv' /\ RDueInv(r)
  BY RNext DEF RTypeInv
<1>2. RDueInv(r)'
  BY <1>1, RDueApplication, RDuePollEmpty, RDueAddOwn, RDueAddOther, RDueSendCredits
     DEF R!Support
<1>3. ASSUME NEW q \in Ranks, q # r PROVE RDueInv(q)'
  <2>1. /\ rchan'[q] = rchan[q] /\ rsupport'[q] = rsupport[q]
        /\ reduce_send'[q] = reduce_send[q] /\ reduce_recv'[q] = reduce_recv[q]
    <3>1. /\ rchan \in [Ranks -> RChannel] /\ rsupport \in [Ranks -> RSupport]
          /\ reduce_send \in [Ranks -> Seq(RMessage)]
          /\ reduce_recv \in [Ranks -> Seq(RResult)]
      BY <1>1 DEF RInv, RTypeOK
    <3>2. CASE R!Application(r)
      BY <1>3, <3>1, <3>2 DEF R!Application, R!Call, R!Offer, R!TakeResult,
         R!TakeCredit, R!Contribute
    <3>3. CASE R!Support(r)
      BY <1>3, <3>1, <3>3 DEF R!Support, R!PollEmpty, R!AddOwn, R!AddOther,
         R!SendCredits, R!Finish
    <3> QED  BY <3>2, <3>3
  <2> QED  BY <2>1, RDueOther DEF RTypeInv
<1> QED  BY <1>1, <1>2, <1>3 DEF RTypeInv

LEMMA RTypeStutter ==
    ASSUME RTypeInv, UNCHANGED rvars
    PROVE  RTypeInv'
<1>1. RInv'
  BY RStutter DEF RTypeInv
<1>2. /\ rchan' = rchan /\ rsupport' = rsupport
      /\ reduce_send' = reduce_send /\ reduce_recv' = reduce_recv
  BY DEF rvars
<1>3. \A q \in Ranks : RDueInv(q)'
  BY <1>2, RDueOther DEF RTypeInv
<1> QED  BY <1>1, <1>3 DEF RTypeInv

LEMMA RTypesRight == RTypeInv => R!TypeOK
<1> SUFFICES ASSUME RTypeInv PROVE R!TypeOK
  OBVIOUS
<1>1. rchan \in [Ranks -> RChannel] /\ R!Ranks = Ranks
  BY RWires DEF RTypeInv, RInv, RTypeOK
<1>2. ASSUME NEW r \in Ranks
      PROVE  LET s == rsupport[r]
             IN  /\ s.sender_id \in {0, 1, R!Either}
                 /\ s.contiguos_reads \in 0 .. READS_LIMIT - 1
                 /\ s.credits \in 0 .. credits_flow_control + 1
                 /\ s.send_to \in 0 .. NumRanks - 1
                 /\ {s.sent_credits, s.message_size} \subseteq Nat
                 /\ NumRanks > 1 => s.sent_credits <= s.message_size
                 /\ s.add_to \in [Ranks -> R!Slots]
                 /\ {s.add_to_root, s.current_buffer_element} \subseteq R!Slots
  <2>1. rsupport[r] \in RSupport /\ Counters(rsupport[r])
    BY RAt DEF RTypeInv, RDueInv
  <2>2. rsupport[r].credits \in 0 .. credits_flow_control + 1
    BY <2>1, DueNumbers DEF Counters
  <2>3. rsupport[r].send_to \in 0 .. NumRanks - 1
    BY <2>1, RSupportFields, Numbers
  <2> QED  BY <2>1, <2>2, <2>3 DEF RSupport, Counters
<1> QED  BY <1>1, <1>2 DEF R!TypeOK, RChannel

-----------------------------------------------------------------------------
(* The invariants of the four kinds hold in every program: a step of it is   *)
(* one of one kind, and the others do not see it.                            *)

THEOREM InvariantHolds == Spec => [](BInv /\ SInv /\ GTypeInv /\ RTypeInv)
<1>1. Init => BInv /\ SInv /\ GTypeInv /\ RTypeInv
  BY BInit, SInit, GInitType, RTypeInit DEF Init
<1>2. (BInv /\ SInv /\ GTypeInv /\ RTypeInv) /\ [Next]_vars
          => (BInv /\ SInv /\ GTypeInv /\ RTypeInv)'
  <2> SUFFICES ASSUME BInv, SInv, GTypeInv, RTypeInv, [Next]_vars
               PROVE  BInv' /\ SInv' /\ GTypeInv' /\ RTypeInv'
    OBVIOUS
  <2>1. CASE UNCHANGED vars
    <3>1. UNCHANGED bvars /\ UNCHANGED svars /\ UNCHANGED gvars /\ UNCHANGED rvars
      BY <2>1 DEF vars
    <3> QED  BY <3>1, BStutter, SStutter, GTypeStutter, RTypeStutter
  <2>2. ASSUME NEW r \in Ranks, Application(r) \/ Kernels(r)
        PROVE  BInv' /\ SInv' /\ GTypeInv' /\ RTypeInv'
    <3>1. CASE /\ B!Application(r) \/ B!Support(r)
               /\ UNCHANGED svars /\ UNCHANGED gvars /\ UNCHANGED rvars
      BY <3>1, BNext, SStutter, GTypeStutter, RTypeStutter
    <3>2. CASE /\ S!Application(r) \/ S!Support(r)
               /\ UNCHANGED bvars /\ UNCHANGED gvars /\ UNCHANGED rvars
      BY <3>2, BStutter, SNext, GTypeStutter, RTypeStutter
    <3>3. CASE /\ G!Application(r) \/ G!Support(r)
               /\ UNCHANGED bvars /\ UNCHANGED svars /\ UNCHANGED rvars
      BY <3>3, BStutter, SStutter, GTypeNext, RTypeStutter
    <3>4. CASE /\ R!Application(r) \/ R!Support(r)
               /\ UNCHANGED bvars /\ UNCHANGED svars /\ UNCHANGED gvars
      BY <3>4, BStutter, SStutter, GTypeStutter, RTypeNext
    <3> QED  BY <2>2, <3>1, <3>2, <3>3, <3>4 DEF Application, Kernels
  <2> QED  BY <2>1, <2>2 DEF Next
<1> QED  BY <1>1, <1>2, PTL DEF Spec

(* The channels, support kernels and FIFOs keep their types: no counter of a *)
(* packet, a ring or the credits leaves its range, whatever the roots and    *)
(* counts of the collectives are.                                            *)
THEOREM TypeCorrect == Spec => []TypeOK
<1>1. BInv /\ SInv /\ GTypeInv /\ RTypeInv => TypeOK
  BY RTypesRight DEF TypeOK, BInv, SInv, GTypeInv
<1> QED  BY <1>1, InvariantHolds, PTL

(* In every reduce of a program the root takes, for each element, the sum of *)
(* exactly one contribution of every rank to that element, and no sum of its *)
(* ring ever mixes elements or reduces: though a contribution is added where *)
(* its sender's counter points (reduce.cl), and a rank may use the credit    *)
(* that another root issued for a later reduce.                              *)
THEOREM SumsAreRight == Spec => []SumsRight
<1>1. BInv /\ SInv /\ GTypeInv /\ RTypeInv => SumsRight
  BY RSumsRight DEF RTypeInv
<1> QED  BY <1>1, InvariantHolds, PTL

(* Subsequent broadcasts on a port do not mix, nor do scatters: a packet on  *)
(* its way to a rank belongs to the collective this rank is at, and a packet *)
(* of a scatter is meant for it, whatever the roots are.                     *)
THEOREM PacketsDoNotIntermix == Spec => [](B!NoIntermixing /\ S!NoIntermixing)
<1>1. BInv /\ SInv /\ GTypeInv /\ RTypeInv => B!NoIntermixing /\ S!NoIntermixing
  BY BNoIntermixing, SNoIntermixing
<1> QED  BY <1>1, InvariantHolds, PTL

(* The kernels of bcast.cl and scatter.cl count requests without looking     *)
(* whom they are from; each is still used for the collective it was meant    *)
(* for.                                                                      *)
THEOREM RequestsAreUsedRight ==
    Spec => [](B!RequestsInTheirBroadcast /\ S!RequestsInTheirScatter)
<1>1. BInv /\ SInv /\ GTypeInv /\ RTypeInv
          => B!RequestsInTheirBroadcast /\ S!RequestsInTheirScatter
  BY BRequests, SRequests
<1> QED  BY <1>1, InvariantHolds, PTL

(* What a rank's call of SMI_Bcast or SMI_Scatter reads next is the element  *)
(* it asks for: no element is lost, doubled, reordered or another rank's.    *)
THEOREM ElementsArriveRight == Spec => [](B!NextElementRight /\ S!NextElementRight)
<1>1. BInv /\ SInv /\ GTypeInv /\ RTypeInv => B!NextElementRight /\ S!NextElementRight
  BY BNextElementRight, SNextElementRight
<1> QED  BY <1>1, InvariantHolds, PTL

(* When all ranks are through their broadcasts, scatters or reduces, no      *)
(* packet, request or credit of them is left in the network to disturb what  *)
(* uses the port next.                                                       *)
THEOREM NothingStaysBehind == Spec => [](B!NothingLeft /\ S!NothingLeft /\ R!NothingLeft)
<1>1. BInv /\ SInv /\ GTypeInv /\ RTypeInv => B!NothingLeft /\ S!NothingLeft /\ R!NothingLeft
  BY BNothingLeft, SNothingLeft, RNothingLeft DEF RTypeInv
<1> QED  BY <1>1, InvariantHolds, PTL

-----------------------------------------------------------------------------
(* When all gathers of the program have one root, what was said of the other *)
(* kinds holds for gathers too.  It does not without that assumption: the    *)
(* kernel of a contributor takes any request for its root's (gather.cl), and *)
(* the next root's may come first.                                           *)

THEOREM GatherInvariantHolds ==
    ASSUME OneGatherRoot
    PROVE  Spec => []GInv
<1>1. Init => GInv
  BY GInit DEF Init
<1>2. GInv /\ [Next]_vars => GInv'
  <2> SUFFICES ASSUME GInv, [Next]_vars PROVE GInv'
    OBVIOUS
  <2>1. CASE UNCHANGED vars
    <3>1. UNCHANGED gvars
      BY <2>1 DEF vars
    <3> QED  BY <3>1, GStutter
  <2>2. ASSUME NEW r \in Ranks, Application(r) \/ Kernels(r) PROVE GInv'
    <3>1. CASE G!Application(r) \/ G!Support(r)
      BY <3>1, GStep
    <3>2. CASE UNCHANGED gvars
      BY <3>2, GStutter
    <3> QED  BY <2>2, <3>1, <3>2 DEF Application, Kernels
  <2> QED  BY <2>1, <2>2 DEF Next
<1> QED  BY <1>1, <1>2, PTL DEF Spec

(* With one root of all gathers, subsequent collectives on a port do not     *)
(* mix: a packet under way belongs to the collective, at the root of a       *)
(* gather also to the contributor, that the rank it goes to is at.           *)
THEOREM CollectivesDoNotIntermix ==
    ASSUME OneGatherRoot
    PROVE  Spec => []NoIntermixing
<1>1. Spec => []GInv
  BY GatherInvariantHolds
<1>2. B!NoIntermixing /\ S!NoIntermixing /\ GInv => NoIntermixing
  BY GOneContributor DEF NoIntermixing
<1> QED  BY <1>1, <1>2, PacketsDoNotIntermix, PTL

(* And no kernel acts on a request that was meant for another collective; a  *)
(* contributor's packet goes to the root that asked.                         *)
THEOREM RequestsKeepToTheirCollective ==
    ASSUME OneGatherRoot
    PROVE  Spec => []RequestsInTheirCollective
<1>1. Spec => []GInv
  BY GatherInvariantHolds
<1>2. B!RequestsInTheirBroadcast /\ S!RequestsInTheirScatter /\ GInv
          => RequestsInTheirCollective
  BY GWaits DEF RequestsInTheirCollective
<1> QED  BY <1>1, <1>2, RequestsAreUsedRight, PTL

(* And every call of SMI_Bcast, SMI_Scatter and SMI_Gather reads the element *)
(* it asks for; the root of a gather goes from contributor to contributor    *)
(* with the packets, whether their last ones are full or not.                *)
THEOREM CallsReadTheirElement ==
    ASSUME OneGatherRoot
    PROVE  Spec => []NextElementRight
<1>1. Spec => []GInv
  BY GatherInvariantHolds
<1>2. B!NextElementRight /\ S!NextElementRight /\ GInv => NextElementRight
  BY GNextElementRight DEF NextElementRight
<1> QED  BY <1>1, <1>2, ElementsArriveRight, PTL

(* And the program leaves no packet, request or credit behind.               *)
THEOREM ProgramsCleanUp ==
    ASSUME OneGatherRoot
    PROVE  Spec => []NothingLeft
<1>1. Spec => []GInv
  BY GatherInvariantHolds
<1>2. (B!NothingLeft /\ S!NothingLeft /\ R!NothingLeft) /\ GInv => NothingLeft
  BY GNothingLeft DEF NothingLeft
<1> QED  BY <1>1, <1>2, NothingStaysBehind, PTL

-----------------------------------------------------------------------------
(* What a program sees of a call of SMI_Reduce, and what the call needs      *)

(* Who has given n contributions to a reduce has made n calls.              *)
LEMMA RGivenCalled ==
    ASSUME RInv, NEW r \in Ranks, NEW p \in Ranks, p # r, NEW n \in Nat \ {0},
           RRooted(r, rchan[r].coll), n <= Given(r, p)
    PROVE  Called(rchan, p, rchan[r].coll, n)
<1> DEFINE k == rchan[r].coll
           c == rchan[p]
<1>1. c \in RChannel /\ RCallInv(p) /\ rchan[r] \in RChannel
  BY RAt
<1>2. /\ k \in Int /\ c.coll \in Int /\ c.returned \in Int
      /\ c.entered \in {c.returned, c.returned + 1}
  BY <1>1, RChannelFields DEF RCallInv
<1>3. c.coll > k \/ (c.coll = k /\ Given(r, p) = c.returned) \/ Given(r, p) = 0
  BY DEF Given
<1> HIDE DEF k, c
<1>4. c.coll > k \/ (c.coll = k /\ n <= c.returned)
  BY <1>2, <1>3
<1> QED  BY <1>2, <1>4 DEF Called, k, c

(* Everybody has made the call for a sum that is complete.                   *)
LEMMA RSummedCalled ==
    ASSUME RInv, NEW r \in Ranks, Begun(r), NEW n \in Nat \ {0}, n <= Summed(r),
           NEW p \in Ranks
    PROVE  Called(rchan, p, rchan[r].coll, n)
<1> DEFINE k == rchan[r].coll
           c == rchan[r]
<1>0. RTypeOK /\ Summed(r) \in Int /\ RRooted(r, k)
  BY RCounts DEF RInv, Begun
<1>1. CASE p = r
  <2>1. c \in RChannel /\ RCallInv(r) /\ RHandedInv(r)
    BY RAt
  <2>2. /\ c.returned \in Int /\ c.entered \in {c.returned, c.returned + 1}
        /\ c.entered = c.returned => ~ c.sent
    BY <2>1, RChannelFields DEF RCallInv
  <2>3. reduce_recv[r] # <<>> => c.sent /\ Len(reduce_recv[r]) = 1
    BY <2>1 DEF RHandedInv
  <2>4. Len(reduce_recv[r]) \in Int /\ (reduce_recv[r] = <<>> => Len(reduce_recv[r]) = 0)
    BY <1>0, RLengths
  <2>5. c.entered >= c.returned + Len(reduce_recv[r])
    <3> HIDE DEF c
    <3>1. CASE reduce_recv[r] = <<>>
      BY <2>2, <2>4, <3>1
    <3>2. CASE reduce_recv[r] # <<>>
      <4>1. c.entered # c.returned /\ Len(reduce_recv[r]) = 1
        BY <2>2, <2>3, <3>2
      <4>2. c.entered = c.returned + 1
        BY <2>2, <4>1
      <4> QED  BY <2>2, <4>1, <4>2
    <3> QED  BY <3>1, <3>2
  <2>6. c.entered >= n
    BY <1>0, <2>2, <2>4, <2>5 DEF Summed
  <2> QED  BY <1>1, <2>6 DEF Called
<1>2. CASE p # r
  <2>1. Summed(r) <= Added(r, p)
    BY <1>2, RAt DEF RQueueInv
  <2>2. Given(r, p) \in Int
    BY <1>0, RCounts
  <2>3. Added(r, p) = Given(r, p) - Len(rdata[p][r])
    BY <1>2 DEF Added
  <2>4. Len(rdata[p][r]) \in Int /\ Len(rdata[p][r]) >= 0
    BY <1>0, RLengths
  <2>5. n <= Given(r, p)
    BY <1>0, <2>1, <2>2, <2>3, <2>4
  <2> QED  BY <1>0, <1>2, <2>5, RGivenCalled
<1> QED  BY <1>1, <1>2

LEMMA RRootNeeds ==
    ASSUME RInv, NEW r \in Ranks, R!InCall(r), R!IsRoot(r), reduce_recv[r] # <<>>
    PROVE  AllCalled(rchan, rchan[r].coll, R!ReduceNeeds(rchan[r].coll, r, rchan[r].entered))
<1> DEFINE c == rchan[r]
           k == c.coll
           needs == R!ReduceNeeds(k, r, c.entered)
<1>1. /\ RTypeOK /\ c \in RChannel /\ RCallInv(r)
      /\ c.sent /\ reduce_send[r] = <<>> /\ Len(reduce_recv[r]) = 1
  BY RAt DEF RInv, RHandedInv
<1>2. c.returned \in Int /\ c.returned >= 0 /\ c.entered = c.returned + 1
  BY <1>1, RChannelFields DEF RCallInv, R!InCall
<1>3. RRooted(r, k)
  BY <1>1, RChannelFields, RNumbers DEF R!IsRoot, RRooted
<1>4. Begun(r) /\ Summed(r) = c.entered
  BY <1>1, <1>2, <1>3 DEF Begun, Summed
<1>5. \A q \in Ranks : Called(rchan, q, k, c.entered)
  <2>1. c.entered \in Nat \ {0} /\ c.entered <= Summed(r)
    BY <1>2, <1>4
  <2> QED  BY <1>4, <2>1, RSummedCalled
<1>6. needs = {<<q, c.entered>> : q \in Ranks}
  <2>1. r = ReduceRoots[k]
    BY <1>3 DEF RRooted
  <2> QED  BY <2>1, RWires DEF R!ReduceNeeds
<1> HIDE DEF needs
<1> QED  BY <1>2, <1>5, <1>6 DEF AllCalled, needs

LEMMA RContributorNeeds ==
    ASSUME RInv, NEW q \in Ranks, R!InCall(q), ~ R!IsRoot(q), rchan[q].credit
    PROVE  AllCalled(rchan, rchan[q].coll, R!ReduceNeeds(rchan[q].coll, q, rchan[q].entered))
<1> DEFINE c == rchan[q]
           k == c.coll
           r == ReduceRoots[k]
           i == c.entered
           F == credits_flow_control
           needs == R!ReduceNeeds(k, q, i)
<1>1. /\ RTypeOK /\ c \in RChannel /\ RCallInv(q)
  BY RAt DEF RInv
<1>2. /\ k \in 1 .. R!NumCollectives /\ k \in Int
      /\ c.returned \in Int /\ c.returned >= 0 /\ i = c.returned + 1
  BY <1>1, RChannelFields, RNumbers DEF RCallInv, R!InCall
<1>3. r \in Ranks /\ r # q /\ rchan[r] \in RChannel /\ rchan[r].coll \in Int
  <2>1. r \in Ranks
    BY <1>2, RNumbers
  <2>2. r # q
    BY <1>2 DEF R!IsRoot
  <2> QED  BY <2>1, <2>2, RAt, RChannelFields
<1>4. Started(k)
  <2>1. GotOn(q, k)
    BY DEF GotOn
  <2> QED  BY <1>2, <1>3, <2>1, RAt DEF RRootFirst
<1>5. rchan[r].coll > k \/ (rchan[r].coll = k /\ Begun(r))
  BY <1>4 DEF Started
<1>6. ASSUME rchan[r].coll > k, NEW p \in Ranks, NEW n
      PROVE  Called(rchan, p, k, n)
  BY <1>2, <1>3, <1>6, RAt DEF RRootLast, Called
<1>7. CASE i <= F
  <2>1. Called(rchan, r, k, 1)
    <3>1. CASE rchan[r].coll > k
      BY <1>3, <1>6, <3>1
    <3>2. CASE rchan[r].coll = k /\ Begun(r)
      <4>1. RCallInv(r) /\ rchan[r].returned \in Int /\ rchan[r].returned >= 0
        BY <1>3, RAt, RChannelFields
      <4>2. rchan[r].returned > 0 \/ rchan[r].sent
        BY <3>2 DEF Begun
      <4>3. rchan[r].entered >= 1
        BY <4>1, <4>2 DEF RCallInv
      <4> QED  BY <3>2, <4>3 DEF Called
    <3> QED  BY <1>5, <3>1, <3>2
  <2>2. needs = {<<r, 1>>}
    BY <1>3, <1>7 DEF R!ReduceNeeds
  <2> HIDE DEF needs, r, k
  <2> QED  BY <1>3, <2>1, <2>2 DEF AllCalled, needs, r, k
<1>8. CASE ~ i <= F
  <2>1. F \in Int /\ F >= 1
    BY RingNumbers
  <2> DEFINE n == i - F
  <2>2. n \in Nat \ {0}
    BY <1>2, <1>8, <2>1
  <2>3. ASSUME NEW p \in Ranks PROVE Called(rchan, p, k, n)
    <3>1. CASE rchan[r].coll > k
      BY <1>6, <3>1
    <3>2. CASE rchan[r].coll = k /\ Begun(r)
      <4>1. RQueueInv(q, r) /\ Summed(r) \in Int
        BY <1>3, RAt, RCounts
      <4>2. Given(r, q) + 1 <= Summed(r) + F
        BY <1>3, <3>2, <4>1 DEF RQueueInv
      <4>3. Given(r, q) = c.returned
        BY <1>2, <1>3, <3>2 DEF Given
      <4>4. n <= Summed(r)
        BY <1>2, <2>1, <4>1, <4>2, <4>3
      <4> HIDE DEF n
      <4> QED  BY <1>3, <2>2, <3>2, <4>4, RSummedCalled
    <3> QED  BY <1>5, <3>1, <3>2
  <2>4. needs = {<<p, n>> : p \in Ranks}
    BY <1>3, <1>8, RWires DEF R!ReduceNeeds
  <2> HIDE DEF needs, n
  <2> QED  BY <2>2, <2>3, <2>4 DEF AllCalled, needs, n
<1> QED  BY <1>7, <1>8

LEMMA RGoes ==
    ASSUME RInv, NEW r \in Ranks, R!Application(r)
    PROVE  LET k == rchan[r].coll
           IN  Goes(rchan, rchan', r, ReduceCounts[k], R!ReduceNeeds(k, r, rchan[r].entered))
<1> DEFINE c == rchan[r]
           c2 == rchan'[r]
           k == c.coll
           needs == R!ReduceNeeds(k, r, c.entered)
<1>1. c \in RChannel /\ rchan \in [Ranks -> RChannel] /\ RCallInv(r)
  BY RAt DEF RInv, RTypeOK
<1>2. ASSUME NEW new, rchan' = [rchan EXCEPT ![r] = new]
      PROVE  c2 = new /\ \A q \in Ranks \ {r} : rchan'[q] = rchan[q]
  BY <1>1, <1>2
<1>3. c.returned < c.entered => Returning(c, R!Returned(c), ReduceCounts[k])
  <2>1. CASE c.entered = ReduceCounts[k]
    <3>1. R!Returned(c) = R!Opened(k + 1)
      BY <2>1 DEF R!Returned
    <3> QED  BY <2>1, <3>1 DEF Returning, R!Opened
  <2>2. CASE c.entered # ReduceCounts[k]
    <3> DEFINE e == R!Returned(c)
    <3>1. e = [c EXCEPT !.returned = c.entered, !.sent = FALSE, !.credit = FALSE]
      BY <2>2 DEF R!Returned
    <3> HIDE DEF e
    <3>2. e.coll = k /\ e.entered = c.entered /\ e.returned = c.entered
      BY <1>1, <3>1 DEF RChannel
    <3> QED  BY <2>2, <3>2 DEF Returning, e
  <2> QED  BY <2>1, <2>2
<1>4. CASE R!Call(r)
  <2>1. c.entered = c.returned
    <3>1. c.entered \in {c.returned, c.returned + 1} /\ c.returned \in Int
      BY <1>1, RChannelFields DEF RCallInv
    <3> QED  BY <1>4, <3>1 DEF R!Call, R!InCall
  <2>2. rchan' = [rchan EXCEPT ![r] = [c EXCEPT !.entered = @ + 1]]
    BY <1>4 DEF R!Call
  <2>3. Entering(c, [c EXCEPT !.entered = @ + 1])
    BY <1>1, <2>1 DEF Entering, RChannel
  <2> QED  BY <1>2, <2>2, <2>3 DEF Goes
<1>5. CASE R!Offer(r)
  <2> DEFINE d == [c EXCEPT !.sent = TRUE, !.op = "REDUCE"]
  <2>1. rchan' = [rchan EXCEPT ![r] = d]
    <3>1. rchan' = [rchan EXCEPT ![r].sent = TRUE, ![r].op = "REDUCE"]
      BY <1>5 DEF R!Offer
    <3> QED  BY <1>1, <3>1
  <2>2. Silent(c, d)
    BY <1>1 DEF Silent, RChannel
  <2> QED  BY <1>2, <2>1, <2>2 DEF Goes
<1>6. CASE R!TakeCredit(r)
  <2>1. rchan' = [rchan EXCEPT ![r] = [c EXCEPT !.credit = TRUE]]
    BY <1>6 DEF R!TakeCredit
  <2>2. Silent(c, [c EXCEPT !.credit = TRUE])
    BY <1>1 DEF Silent, RChannel
  <2> QED  BY <1>2, <2>1, <2>2 DEF Goes
<1>7. CASE R!TakeResult(r)
  <2>1. /\ R!InCall(r) /\ R!IsRoot(r) /\ reduce_recv[r] # <<>> /\ c.returned < c.entered
        /\ rchan' = [rchan EXCEPT ![r] = R!Returned(c)]
    BY <1>7 DEF R!TakeResult, R!InCall
  <2>2. AllCalled(rchan, k, needs)
    BY <2>1, RRootNeeds
  <2> HIDE DEF needs
  <2> QED  BY <1>2, <1>3, <2>1, <2>2 DEF Goes, needs
<1>8. CASE R!Contribute(r)
  <2>1. /\ R!InCall(r) /\ ~ R!IsRoot(r) /\ c.credit /\ c.returned < c.entered
        /\ rchan' = [rchan EXCEPT ![r] = R!Returned(c)]
    BY <1>8 DEF R!Contribute, R!InCall
  <2>2. AllCalled(rchan, k, needs)
    BY <2>1, RContributorNeeds
  <2> HIDE DEF needs
  <2> QED  BY <1>2, <1>3, <2>1, <2>2 DEF Goes, needs
<1> QED  BY <1>4, <1>5, <1>6, <1>7, <1>8 DEF R!Application

-----------------------------------------------------------------------------
(* The collectives of one kind before the n-th of the program *)
Before(kind, n) == Cardinality({e \in 1 .. n - 1 : Program[e].kind = kind})

LEMMA BeforeNat ==
    ASSUME NEW kind, NEW n \in Nat
    PROVE  Before(kind, n) \in Nat
<1>1. IsFiniteSet(1 .. n - 1)
  BY FS_Interval
<1>2. IsFiniteSet({e \in 1 .. n - 1 : Program[e].kind = kind})
  BY <1>1, FS_Subset
<1> QED  BY <1>2, FS_CardinalityType DEF Before

LEMMA BeforeFirst == \A kind : Before(kind, 1) = 0
<1> SUFFICES ASSUME NEW kind PROVE Before(kind, 1) = 0
  OBVIOUS
<1>1. {e \in 1 .. 1 - 1 : Program[e].kind = kind} = {}
  OBVIOUS
<1> QED  BY <1>1, FS_EmptySet DEF Before

LEMMA BeforeGrows ==
    ASSUME NEW kind, NEW m \in Nat, NEW n \in Nat, m <= n
    PROVE  Before(kind, m) <= Before(kind, n)
<1> DEFINE T(i) == {e \in 1 .. i - 1 : Program[e].kind = kind}
<1>1. IsFiniteSet(1 .. n - 1)
  BY FS_Interval
<1>2. IsFiniteSet(T(n))
  BY <1>1, FS_Subset
<1>3. T(m) \subseteq T(n)
  OBVIOUS
<1> QED  BY <1>2, <1>3, FS_Subset DEF Before

LEMMA BeforeNext ==
    ASSUME NEW kind, NEW n \in Nat, n >= 1
    PROVE  Before(kind, n + 1) =
               IF Program[n].kind = kind THEN Before(kind, n) + 1 ELSE Before(kind, n)
<1> DEFINE T(i) == {e \in 1 .. i - 1 : Program[e].kind = kind}
<1>1. IsFiniteSet(1 .. n - 1)
  BY FS_Interval
<1>2. IsFiniteSet(T(n))
  BY <1>1, FS_Subset
<1>3. n \notin T(n)
  OBVIOUS
<1>4. T(n + 1) = IF Program[n].kind = kind THEN T(n) \cup {n} ELSE T(n)
  OBVIOUS
<1> QED  BY <1>2, <1>3, <1>4, FS_AddElement DEF Before

LEMMA OrdinalIs ==
    ASSUME NEW n \in 1 .. Len(Program)
    PROVE  Ordinal[n] = Before(Program[n].kind, n) + 1
<1>1. n \in Nat /\ n >= 1
  OBVIOUS
<1>2. (n + 1) - 1 = n
  BY <1>1
<1>3. Ordinal[n] = Before(Program[n].kind, n + 1)
  BY <1>2 DEF Ordinal, Before
<1> QED  BY <1>1, <1>3, BeforeNext

LEMMA ProgramFields ==
    /\ Len(Program) \in Nat
    /\ \A n \in 1 .. Len(Program) :
           /\ Program[n].kind \in Kinds /\ Program[n].root \in Ranks
           /\ Program[n].count \in Nat /\ Program[n].count >= 1
<1> DEFINE V == [kind : Kinds, root : Ranks, count : Nat \ {0}]
<1>1. Program \in Seq(V)
  BY ProgramAssumption
<1>2. Len(Program) \in Nat /\ \A n \in 1 .. Len(Program) : Program[n] \in V
  <2> HIDE DEF V
  <2> QED  BY <1>1, ElementOfSeq
<1> QED  BY <1>2

(* `Of' has the collectives of the kind, in the order of the program. *)
LEMMA OfIs ==
    ASSUME NEW kind
    PROVE  /\ Len(Of(kind)) = Before(kind, Len(Program) + 1)
           /\ \A n \in 1 .. Len(Program) :
                  Program[n].kind = kind => Of(kind)[Before(kind, n) + 1] = Program[n]
<1> DEFINE V == [kind : Kinds, root : Ranks, count : Nat \ {0}]
           m == Len(Program)
           f == CHOOSE g : Choice(kind, g, m)
           Right(j) == /\ f[j] \in Seq(V) /\ Len(f[j]) = Before(kind, j + 1)
                       /\ \A n \in 1 .. j : Program[n].kind = kind =>
                              f[j][Before(kind, n) + 1] = Program[n]
           T == {j \in Nat : j <= m /\ ~ Right(j)}
<1>1. m \in Nat /\ Program \in Seq(V)
  BY ProgramAssumption
<1>2. Choice(kind, f, m)
  BY <1>1, ChoiceExists
<1>3. Of(kind) = f[m]
  BY DEF Of, Choice, Chosen
<1> HIDE DEF f, V
<1>4. \A n \in 0 .. m : f[n] = IF n = 0 THEN <<>> ELSE Chosen(kind, n, f[n - 1])
  BY <1>2 DEF Choice
<1>5. SUFFICES ASSUME T # {} PROVE FALSE
  BY <1>1, <1>3
<1>6. PICK n \in T : \A y \in T : n <= y
  BY <1>5, Least
<1>7. n \in 0 .. m /\ ~ Right(n)
  BY <1>1, <1>6
<1>8. n # 0
  <2>1. f[0] = <<>>
    BY <1>1, <1>4
  <2>2. <<>> \in Seq(V) /\ Len(<<>>) = 0
    BY EmptySeq
  <2>3. Before(kind, 0 + 1) = 0
    BY BeforeFirst
  <2>4. Right(0)
    BY <2>1, <2>2, <2>3
  <2> QED  BY <1>7, <2>4
<1>9. n - 1 \in Nat /\ n - 1 <= m /\ Right(n - 1) /\ n >= 1 /\ n \in Nat /\ (n - 1) + 1 = n
  <2>1. n - 1 \in Nat /\ n - 1 <= m /\ n - 1 \notin T /\ n >= 1 /\ n \in Nat /\ (n - 1) + 1 = n
    BY <1>1, <1>6, <1>7, <1>8
  <2> QED  BY <2>1
<1>10. PICK s : s = f[n - 1]
  OBVIOUS
<1>11. s \in Seq(V) /\ Len(s) = Before(kind, n)
  BY <1>9, <1>10
<1>12. \A i \in 1 .. n - 1 : Program[i].kind = kind => s[Before(kind, i) + 1] = Program[i]
  BY <1>9, <1>10
<1>13. f[n] = IF Program[n].kind = kind THEN Append(s, Program[n]) ELSE s
  BY <1>4, <1>7, <1>8, <1>10 DEF Chosen
<1>14. Program[n] \in V
  BY <1>1, <1>7, <1>8, ElementOfSeq
<1>15. /\ Append(s, Program[n]) \in Seq(V) /\ Len(Append(s, Program[n])) = Len(s) + 1
       /\ Append(s, Program[n])[Len(s) + 1] = Program[n]
       /\ \A i \in 1 .. Len(s) : Append(s, Program[n])[i] = s[i]
  BY <1>11, <1>14, AppendProperties
<1>16. f[n] \in Seq(V)
  BY <1>11, <1>13, <1>15
<1>17. Len(f[n]) = Before(kind, n + 1)
  BY <1>9, <1>11, <1>13, <1>15, BeforeNext
<1>18. ASSUME NEW i \in 1 .. n, Program[i].kind = kind
       PROVE  f[n][Before(kind, i) + 1] = Program[i]
  <2>1. CASE i = n
    BY <2>1, <1>11, <1>13, <1>15, <1>18
  <2>2. CASE i # n
    <3>1. i \in 1 .. n - 1 /\ i \in Nat /\ i >= 1 /\ i + 1 <= n /\ i + 1 \in Nat
      BY <2>2, <1>9
    <3>2. s[Before(kind, i) + 1] = Program[i]
      BY <3>1, <1>12, <1>18
    <3>3. Before(kind, i + 1) = Before(kind, i) + 1
      BY <3>1, <1>18, BeforeNext
    <3>4. Before(kind, i) + 1 <= Len(s) /\ Before(kind, i) \in Nat /\ Len(s) \in Nat
      BY <3>1, <3>3, <1>9, <1>11, BeforeNat, BeforeGrows
    <3>5. Before(kind, i) + 1 \in 1 .. Len(s)
      BY <3>4
    <3> QED  BY <3>2, <3>5, <1>13, <1>15
  <2> QED  BY <2>1, <2>2
<1> QED  BY <1>7, <1>16, <1>17, <1>18

(* What the kinds know of a collective is what the program says of it. *)
LEMMA KindIs ==
    ASSUME NEW n \in 1 .. Len(Program), NEW kind, Program[n].kind = kind
    PROVE  LET k == Before(kind, n) + 1
           IN  /\ RootsOf(Of(kind))[k] = Program[n].root
               /\ CountsOf(Of(kind))[k] = Program[n].count
               /\ Ordinal[n] = k
<1> DEFINE k == Before(kind, n) + 1
           seq == Of(kind)
<1>0. Len(Program) \in Nat /\ n \in Nat /\ n >= 1 /\ n + 1 \in Nat /\ Len(Program) + 1 \in Nat
      /\ n + 1 <= Len(Program) + 1
  BY ProgramFields
<1>1. Before(kind, n + 1) = Before(kind, n) + 1 /\ Before(kind, n) \in Nat
  BY <1>0, BeforeNext, BeforeNat
<1>2. Before(kind, n + 1) <= Before(kind, Len(Program) + 1)
  BY <1>0, BeforeGrows
<1>3. Len(seq) = Before(kind, Len(Program) + 1) /\ Before(kind, Len(Program) + 1) \in Nat
  BY <1>0, OfIs, BeforeNat
<1> HIDE DEF seq
<1>4. k \in 1 .. Len(seq)
  BY <1>1, <1>2, <1>3
<1>5. seq[k] = Program[n]
  BY OfIs DEF seq
<1>6. RootsOf(seq)[k] = seq[k].root /\ CountsOf(seq)[k] = seq[k].count
  BY <1>4 DEF RootsOf, CountsOf
<1>7. Ordinal[n] = k
  BY OrdinalIs
<1> QED  BY <1>5, <1>6, <1>7 DEF seq

-----------------------------------------------------------------------------
(* The channels of the four kinds, and where a program with such channels is *)
Chans == [kind \in Kinds |-> CASE kind = "bcast"   -> bchan
                               [] kind = "scatter" -> schan
                               [] kind = "gather"  -> gchan
                               [] kind = "reduce"  -> rchan]

StepIn(ch, r) ==
    ch["bcast"][r].coll + ch["scatter"][r].coll + ch["gather"][r].coll
        + ch["reduce"][r].coll - 3

(* The n-th collective of the program is of this kind. *)
In(n, kind) == n \in 1 .. Len(Program) /\ Program[n].kind = kind

PlaceIn(ch, r) ==
    LET n == StepIn(ch, r)
    IN  [coll     |-> n,
         entered  |-> IF n > Len(Program) THEN 0 ELSE ch[Program[n].kind][r].entered,
         returned |-> IF n > Len(Program) THEN 0 ELSE ch[Program[n].kind][r].returned]

(* The channel of a kind is at the next collective of its kind, untouched    *)
(* until the program comes to it.                                            *)
WellAt(c, kind, n) ==
    /\ c.coll = Before(kind, n) + 1
    /\ c.entered \in Nat /\ c.returned \in Nat
    /\ ~ In(n, kind) => c.entered = 0 /\ c.returned = 0

Well(ch, r) ==
    /\ StepIn(ch, r) \in 1 .. Len(Program) + 1
    /\ \A kind \in Kinds : WellAt(ch[kind][r], kind, StepIn(ch, r))

LEMMA WellCalled ==
    ASSUME NEW ch, NEW q, Well(ch, q), NEW n \in 1 .. Len(Program),
           NEW i \in Nat \ {0}, NEW kind \in Kinds, Program[n].kind = kind,
           Called(ch[kind], q, Before(kind, n) + 1, i)
    PROVE  \/ PlaceIn(ch, q).coll > n
           \/ PlaceIn(ch, q).coll = n /\ PlaceIn(ch, q).entered >= i
<1> DEFINE m == StepIn(ch, q)
           c == ch[kind][q]
<1>1. m \in Nat /\ m >= 1 /\ m <= Len(Program) + 1 /\ n \in Nat /\ n >= 1 /\ n <= Len(Program)
      /\ Len(Program) \in Nat /\ m + 1 \in Nat /\ n + 1 \in Nat
  BY ProgramFields DEF Well
<1>2. WellAt(c, kind, m)
  BY DEF Well
<1>3. Before(kind, m) \in Nat /\ Before(kind, n) \in Nat
  BY <1>1, BeforeNat
<1>4. PlaceIn(ch, q).coll = m /\ (m = n => PlaceIn(ch, q).entered = c.entered)
  BY <1>1 DEF PlaceIn
<1>5. c.coll = Before(kind, m) + 1 /\ c.entered \in Nat
  BY <1>2 DEF WellAt
<1>6. c.coll > Before(kind, n) + 1
      \/ (c.coll = Before(kind, n) + 1 /\ c.entered >= i)
  BY DEF Called
<1> HIDE DEF m, c
<1>7. m >= n
  <2> SUFFICES ASSUME m < n PROVE FALSE
    BY <1>1
  <2>1. Before(kind, m) <= Before(kind, n) /\ m + 1 <= n
    BY <1>1, BeforeGrows
  <2>2. Before(kind, m) = Before(kind, n) /\ c.entered >= i
    BY <2>1, <1>3, <1>5, <1>6
  <2>3. In(m, kind)
    BY <2>2, <1>2, <1>5 DEF WellAt
  <2>4. Before(kind, m + 1) = Before(kind, m) + 1
    BY <2>3, <1>1, BeforeNext DEF In
  <2>5. Before(kind, m + 1) <= Before(kind, n)
    BY <2>1, <1>1, BeforeGrows
  <2> QED  BY <2>2, <2>4, <2>5, <1>3
<1>8. CASE m = n
  <2>1. c.coll = Before(kind, n) + 1
    BY <1>5, <1>8
  <2> QED  BY <2>1, <1>3, <1>4, <1>6, <1>8
<1>9. CASE m > n
  BY <1>4, <1>9
<1> QED  BY <1>1, <1>7, <1>8, <1>9

(* What a step of rank r does to places. *)
PlaceEnters(p, p2) ==
    /\ p.coll <= Len(Program) /\ p.entered = p.returned
    /\ p2 = [coll |-> p.coll, entered |-> p.entered + 1, returned |-> p.returned]

PlaceReturns(p, p2, calls) ==
    /\ p.returned < p.entered
    /\ p2 = IF p.entered = calls THEN [coll |-> p.coll + 1, entered |-> 0, returned |-> 0]
            ELSE [coll |-> p.coll, entered |-> p.entered, returned |-> p.entered]

AllReached(ch, n, needs) ==
    \A need \in needs :
        /\ need[1] \in Ranks
        /\ \/ PlaceIn(ch, need[1]).coll > n
           \/ PlaceIn(ch, need[1]).coll = n /\ PlaceIn(ch, need[1]).entered >= need[2]

(* A step of one kind, with the channels of the others as they are *)
Moves(ch, ch2, r, kind) ==
    /\ In(StepIn(ch, r), kind)
    /\ Goes(ch[kind], ch2[kind], r, CallsOf(StepIn(ch, r), r),
            ProgramNeeds(StepIn(ch, r), r, ch[kind][r].entered))
    /\ \A other \in Kinds \ {kind} : ch2[other] = ch[other]

LEMMA StepMoves ==
    ASSUME NEW ch, NEW ch2, NEW r, NEW kind \in Kinds, NEW d \in Int,
           \A other \in Kinds : ch[other][r].coll \in Int,
           \A other \in Kinds \ {kind} : ch2[other] = ch[other],
           ch2[kind][r].coll = ch[kind][r].coll + d
    PROVE  StepIn(ch2, r) = StepIn(ch, r) + d
<1> DEFINE a == ch["bcast"][r].coll
           b == ch["scatter"][r].coll
           c == ch["gather"][r].coll
           e == ch["reduce"][r].coll
           a2 == ch2["bcast"][r].coll
           b2 == ch2["scatter"][r].coll
           c2 == ch2["gather"][r].coll
           e2 == ch2["reduce"][r].coll
<1>1. a \in Int /\ b \in Int /\ c \in Int /\ e \in Int
  BY DEF Kinds
<1>2. \/ a2 = a + d /\ b2 = b /\ c2 = c /\ e2 = e
      \/ a2 = a /\ b2 = b + d /\ c2 = c /\ e2 = e
      \/ a2 = a /\ b2 = b /\ c2 = c + d /\ e2 = e
      \/ a2 = a /\ b2 = b /\ c2 = c /\ e2 = e + d
  <2>1. CASE kind = "bcast"
    BY <2>1 DEF Kinds
  <2>2. CASE kind = "scatter"
    BY <2>2 DEF Kinds
  <2>3. CASE kind = "gather"
    BY <2>3 DEF Kinds
  <2>4. CASE kind = "reduce"
    BY <2>4 DEF Kinds
  <2> QED  BY <2>1, <2>2, <2>3, <2>4 DEF Kinds
<1>3. StepIn(ch, r) = a + b + c + e - 3 /\ StepIn(ch2, r) = a2 + b2 + c2 + e2 - 3
  BY DEF StepIn
<1> HIDE DEF a, b, c, e, a2, b2, c2, e2
<1> QED  BY <1>1, <1>2, <1>3

LEMMA OthersStay ==
    ASSUME NEW ch, NEW ch2, NEW r \in Ranks, NEW kind \in Kinds, Moves(ch, ch2, r, kind),
           NEW q \in Ranks, q # r, Well(ch, q)
    PROVE  Well(ch2, q) /\ PlaceIn(ch2, q) = PlaceIn(ch, q)
<1>1. \A other \in Kinds : ch2[other][q] = ch[other][q]
  BY DEF Moves, Goes
<1>2. StepIn(ch2, q) = StepIn(ch, q)
  BY <1>1 DEF StepIn, Kinds
<1>3. StepIn(ch, q) \in 1 .. Len(Program) + 1
  BY DEF Well
<1>4. ~ (StepIn(ch, q) > Len(Program)) => Program[StepIn(ch, q)].kind \in Kinds
  BY <1>3, ProgramFields
<1> QED  BY <1>1, <1>2, <1>4 DEF Well, PlaceIn

LEMMA WellGoes ==
    ASSUME NEW ch, NEW ch2, NEW r \in Ranks, NEW kind \in Kinds, Moves(ch, ch2, r, kind),
           Well(ch, r)
    PROVE  /\ Well(ch2, r)
           /\ \/ PlaceIn(ch2, r) = PlaceIn(ch, r)
              \/ PlaceEnters(PlaceIn(ch, r), PlaceIn(ch2, r))
              \/ /\ PlaceReturns(PlaceIn(ch, r), PlaceIn(ch2, r), CallsOf(StepIn(ch, r), r))
                 /\ AllCalled(ch[kind], Before(kind, StepIn(ch, r)) + 1,
                        ProgramNeeds(StepIn(ch, r), r, PlaceIn(ch, r).entered))
<1> DEFINE n == StepIn(ch, r)
           c == ch[kind][r]
           c2 == ch2[kind][r]
           calls == CallsOf(n, r)
           p == PlaceIn(ch, r)
           p2 == PlaceIn(ch2, r)
<1>1. n \in Nat /\ n >= 1 /\ n <= Len(Program) /\ Len(Program) \in Nat /\ Program[n].kind = kind
      /\ n + 1 \in Nat /\ n \in Int
  BY ProgramFields DEF Moves, In
<1>2. \A other \in Kinds : WellAt(ch[other][r], other, n)
  BY DEF Well
<1>3. c.coll = Before(kind, n) + 1 /\ c.entered \in Nat /\ c.returned \in Nat
  BY <1>2 DEF WellAt
<1>4. \A other \in Kinds \ {kind} : ch2[other] = ch[other]
  BY DEF Moves
<1>5. \A other \in Kinds : Before(other, n) \in Nat /\ ch[other][r].coll \in Int
  BY <1>1, <1>2, BeforeNat DEF WellAt
<1>6. p = [coll |-> n, entered |-> c.entered, returned |-> c.returned]
  BY <1>1 DEF PlaceIn
<1>7. ASSUME c2.coll = c.coll, c2.entered \in Nat, c2.returned \in Nat
      PROVE  Well(ch2, r) /\ p2 = [coll |-> n, entered |-> c2.entered, returned |-> c2.returned]
  <2>1. c2.coll = c.coll + 0
    BY <1>3, <1>5, <1>7
  <2>2. StepIn(ch2, r) = n + 0
    <3>1. ch2[kind][r].coll = ch[kind][r].coll + 0 /\ 0 \in Int
          /\ \A other \in Kinds : ch[other][r].coll \in Int
      BY <2>1, <1>5
    <3>2. \A d \in Int : ch2[kind][r].coll = ch[kind][r].coll + d
                            => StepIn(ch2, r) = StepIn(ch, r) + d
      BY <3>1, <1>4, StepMoves
    <3> QED  BY <3>1, <3>2
  <2>3. StepIn(ch2, r) = n
    BY <2>2, <1>1
  <2>4. In(n, kind)
    BY DEF Moves
  <2>5. WellAt(c2, kind, n)
    BY <2>4, <1>3, <1>7 DEF WellAt
  <2>6. \A other \in Kinds : WellAt(ch2[other][r], other, n)
    BY <2>5, <1>2, <1>4
  <2>7. Well(ch2, r)
    BY <2>3, <2>6, <1>1 DEF Well
  <2>8. p2 = [coll |-> n, entered |-> c2.entered, returned |-> c2.returned]
    BY <2>3, <1>1 DEF PlaceIn
  <2> QED  BY <2>7, <2>8
<1>8. CASE Silent(c, c2)
  <2>1. c2.coll = c.coll /\ c2.entered = c.entered /\ c2.returned = c.returned
    BY <1>8 DEF Silent
  <2> HIDE DEF c, c2, p, p2
  <2> QED  BY <2>1, <1>3, <1>6, <1>7 DEF p, p2
<1>9. CASE Entering(c, c2)
  <2>1. c.entered = c.returned /\ c2.coll = c.coll /\ c2.entered = c.entered + 1
        /\ c2.returned = c.returned
    BY <1>9 DEF Entering
  <2>2. c2.entered \in Nat /\ c2.returned \in Nat
    BY <2>1, <1>3
  <2> HIDE DEF c, c2, p, p2
  <2>3. PlaceEnters(p, p2)
    BY <2>1, <2>2, <1>1, <1>6, <1>7 DEF PlaceEnters
  <2> QED  BY <2>1, <2>2, <2>3, <1>7 DEF p, p2
<1>10. ASSUME Returning(c, c2, calls), AllCalled(ch[kind], c.coll, ProgramNeeds(n, r, c.entered))
       PROVE  /\ Well(ch2, r) /\ PlaceReturns(p, p2, calls)
              /\ AllCalled(ch[kind], Before(kind, n) + 1, ProgramNeeds(n, r, p.entered))
  <2>1. AllCalled(ch[kind], Before(kind, n) + 1, ProgramNeeds(n, r, p.entered))
    BY <1>3, <1>6, <1>10
  <2>2. ASSUME c.entered # calls
        PROVE  Well(ch2, r) /\ PlaceReturns(p, p2, calls)
    <3>1. c2.coll = c.coll /\ c2.entered = c.entered /\ c2.returned = c.entered
          /\ c.returned < c.entered
      BY <2>2, <1>10 DEF Returning
    <3> HIDE DEF c, c2, p, p2, calls
    <3>2. Well(ch2, r) /\ p2 = [coll |-> n, entered |-> c.entered, returned |-> c.entered]
      BY <3>1, <1>3, <1>7
    <3> QED  BY <3>1, <3>2, <2>2, <1>6 DEF PlaceReturns
  <2>3. ASSUME c.entered = calls
        PROVE  Well(ch2, r) /\ PlaceReturns(p, p2, calls)
    <3>1. c2.coll = c.coll + 1 /\ c2.entered = 0 /\ c2.returned = 0 /\ c.returned < c.entered
      BY <2>3, <1>10 DEF Returning
    <3>2. StepIn(ch2, r) = n + 1
      BY <3>1, <1>4, <1>5, StepMoves
    <3>3. Before(kind, n + 1) = Before(kind, n) + 1
      BY <1>1, BeforeNext
    <3>4. WellAt(c2, kind, n + 1)
      BY <3>1, <3>3, <1>3 DEF WellAt
    <3>5. ASSUME NEW other \in Kinds \ {kind} PROVE WellAt(ch2[other][r], other, n + 1)
      <4>1. Before(other, n + 1) = Before(other, n)
        BY <1>1, BeforeNext
      <4>2. ~ In(n, other)
        BY <1>1 DEF In
      <4>3. ch2[other][r] = ch[other][r] /\ WellAt(ch[other][r], other, n)
        BY <1>2, <1>4
      <4>4. ch[other][r].coll = Before(other, n + 1) + 1 /\ ch[other][r].entered = 0
            /\ ch[other][r].returned = 0
        BY <4>1, <4>2, <4>3 DEF WellAt
      <4> QED  BY <4>3, <4>4 DEF WellAt
    <3>6. \A other \in Kinds : WellAt(ch2[other][r], other, n + 1)
      BY <3>4, <3>5
    <3>7. n + 1 \in 1 .. Len(Program) + 1
      BY <1>1
    <3>8. Well(ch2, r)
      BY <3>2, <3>6, <3>7 DEF Well
    <3>9. p2.coll = n + 1 /\ p2.entered = 0 /\ p2.returned = 0
          /\ p2 = [coll |-> n + 1, entered |-> 0, returned |-> 0]
      <4>1. CASE n + 1 > Len(Program)
        BY <4>1, <3>2 DEF PlaceIn
      <4>2. CASE ~ (n + 1 > Len(Program))
        <5>1. n + 1 \in 1 .. Len(Program)
          BY <4>2, <3>7, <1>1
        <5>2. PICK next \in Kinds : next = Program[n + 1].kind
          BY <5>1, ProgramFields
        <5>3. ch2[next][r].entered = 0 /\ ch2[next][r].returned = 0
          <6>1. CASE next = kind
            BY <6>1, <3>1
          <6>2. CASE next # kind
            <7>1. ch2[next][r] = ch[next][r] /\ ~ In(n, next) /\ WellAt(ch[next][r], next, n)
              BY <6>2, <1>1, <1>2, <1>4 DEF In
            <7> QED  BY <7>1 DEF WellAt
          <6> QED  BY <6>1, <6>2
        <5> QED  BY <4>2, <5>2, <5>3, <3>2 DEF PlaceIn
      <4> QED  BY <4>1, <4>2
    <3> HIDE DEF c, c2, p, p2, calls
    <3> QED  BY <3>1, <3>8, <3>9, <2>3, <1>6 DEF PlaceReturns
  <2> QED  BY <2>1, <2>2, <2>3
<1>11. Goes(ch[kind], ch2[kind], r, calls, ProgramNeeds(n, r, c.entered))
  BY DEF Moves
<1>12. \/ Silent(c, c2) \/ Entering(c, c2)
       \/ Returning(c, c2, calls) /\ AllCalled(ch[kind], c.coll, ProgramNeeds(n, r, c.entered))
  BY <1>11 DEF Goes
<1> HIDE DEF n, c, c2, calls, p, p2
<1> QED  BY <1>8, <1>9, <1>10, <1>12 DEF n, c, c2, calls, p, p2

-----------------------------------------------------------------------------
(* A step of a channel is one of the program.                                *)

LEMMA ChansAre ==
    /\ Chans["bcast"] = bchan /\ Chans["scatter"] = schan
    /\ Chans["gather"] = gchan /\ Chans["reduce"] = rchan
    /\ Chans'["bcast"] = bchan' /\ Chans'["scatter"] = schan'
    /\ Chans'["gather"] = gchan' /\ Chans'["reduce"] = rchan'
BY DEF Chans, Kinds

LEMMA StepIs == \A r : Step(r) = StepIn(Chans, r)
BY ChansAre DEF Step, StepIn

LEMMA ExecutesIn ==
    ASSUME NEW r \in Ranks, NEW kind \in Kinds, Well(Chans, r), Executes(r, kind)
    PROVE  LET n == StepIn(Chans, r)
           IN  /\ n \in 1 .. Len(Program) /\ Program[n].kind = kind /\ In(n, kind)
               /\ Chans[kind][r].coll = Before(kind, n) + 1
               /\ Ordinal[n] = Before(kind, n) + 1
               /\ RootsOf(Of(kind))[Before(kind, n) + 1] = Program[n].root
               /\ CountsOf(Of(kind))[Before(kind, n) + 1] = Program[n].count
<1> DEFINE n == StepIn(Chans, r)
<1>1. n \in 1 .. Len(Program) /\ Program[n].kind = kind
  BY StepIs, ProgramFields DEF Executes, Well
<1>2. WellAt(Chans[kind][r], kind, n)
  BY DEF Well
<1> HIDE DEF n
<1> QED  BY <1>1, <1>2, KindIs DEF n, In, WellAt

LEMMA BMoves ==
    ASSUME BInv, NEW r \in Ranks, Well(Chans, r), Executes(r, "bcast"), B!Application(r),
           UNCHANGED <<svars, gvars, rvars>>
    PROVE  Moves(Chans, Chans', r, "bcast")
<1> DEFINE n == StepIn(Chans, r)
           k == bchan[r].coll
<1>1. "bcast" \in Kinds
  BY DEF Kinds
<1>2. /\ n \in 1 .. Len(Program) /\ Program[n].kind = "bcast" /\ In(n, "bcast")
      /\ Ordinal[n] = k /\ BcastCounts[k] = Program[n].count
  BY <1>1, ExecutesIn, ChansAre DEF BcastCounts
<1>3. CallsOf(n, r) = BcastCounts[k] /\ \A i : ProgramNeeds(n, r, i) = B!BcastNeeds(k, r, i)
  BY <1>2 DEF CallsOf, ProgramNeeds
<1>4. Goes(bchan, bchan', r, BcastCounts[k], B!BcastNeeds(k, r, bchan[r].entered))
  BY BGoes
<1>5. \A other \in Kinds \ {"bcast"} : Chans'[other] = Chans[other]
  BY ChansAre DEF Kinds, svars, gvars, rvars
<1> HIDE DEF n, k
<1> QED  BY <1>2, <1>3, <1>4, <1>5, ChansAre DEF Moves, n

LEMMA SMoves ==
    ASSUME SInv, NEW r \in Ranks, Well(Chans, r), Executes(r, "scatter"), S!Application(r),
           UNCHANGED <<bvars, gvars, rvars>>
    PROVE  Moves(Chans, Chans', r, "scatter")
<1> DEFINE n == StepIn(Chans, r)
           k == schan[r].coll
<1>1. "scatter" \in Kinds
  BY DEF Kinds
<1>2. /\ n \in 1 .. Len(Program) /\ Program[n].kind = "scatter" /\ In(n, "scatter")
      /\ Ordinal[n] = k /\ ScatterCounts[k] = Program[n].count
      /\ ScatterRoots[k] = Program[n].root
  BY <1>1, ExecutesIn, ChansAre DEF ScatterCounts, ScatterRoots
<1>3. CallsOf(n, r) = S!Calls(k, r) /\ \A i : ProgramNeeds(n, r, i) = S!ScatterNeeds(k, r, i)
  BY <1>2 DEF CallsOf, ProgramNeeds, S!Calls
<1>4. Goes(schan, schan', r, S!Calls(k, r), S!ScatterNeeds(k, r, schan[r].entered))
  BY SGoes
<1>5. \A other \in Kinds \ {"scatter"} : Chans'[other] = Chans[other]
  BY ChansAre DEF Kinds, bvars, gvars, rvars
<1> HIDE DEF n, k
<1> QED  BY <1>2, <1>3, <1>4, <1>5, ChansAre DEF Moves, n

LEMMA GMoves ==
    ASSUME GInv, OneGatherRoot, NEW r \in Ranks, Well(Chans, r), Executes(r, "gather"),
           G!Application(r), UNCHANGED <<bvars, svars, rvars>>
    PROVE  Moves(Chans, Chans', r, "gather")
<1> DEFINE n == StepIn(Chans, r)
           k == gchan[r].coll
<1>1. "gather" \in Kinds
  BY DEF Kinds
<1>2. /\ n \in 1 .. Len(Program) /\ Program[n].kind = "gather" /\ In(n, "gather")
      /\ Ordinal[n] = k /\ GatherCounts[k] = Program[n].count
      /\ GatherRoots[k] = Program[n].root
  BY <1>1, ExecutesIn, ChansAre DEF GatherCounts, GatherRoots
<1>3. CallsOf(n, r) = G!Calls(k, r) /\ \A i : ProgramNeeds(n, r, i) = G!GatherNeeds(k, r, i)
  BY <1>2 DEF CallsOf, ProgramNeeds, G!Calls
<1>4. Goes(gchan, gchan', r, G!Calls(k, r), G!GatherNeeds(k, r, gchan[r].entered))
  BY GGoes
<1>5. \A other \in Kinds \ {"gather"} : Chans'[other] = Chans[other]
  BY ChansAre DEF Kinds, bvars, svars, rvars
<1> HIDE DEF n, k
<1> QED  BY <1>2, <1>3, <1>4, <1>5, ChansAre DEF Moves, n

LEMMA RMoves ==
    ASSUME RInv, NEW r \in Ranks, Well(Chans, r), Executes(r, "reduce"), R!Application(r),
           UNCHANGED <<bvars, svars, gvars>>
    PROVE  Moves(Chans, Chans', r, "reduce")
<1> DEFINE n == StepIn(Chans, r)
           k == rchan[r].coll
<1>1. "reduce" \in Kinds
  BY DEF Kinds
<1>2. /\ n \in 1 .. Len(Program) /\ Program[n].kind = "reduce" /\ In(n, "reduce")
      /\ Ordinal[n] = k /\ ReduceCounts[k] = Program[n].count
  BY <1>1, ExecutesIn, ChansAre DEF ReduceCounts
<1>3. CallsOf(n, r) = ReduceCounts[k] /\ \A i : ProgramNeeds(n, r, i) = R!ReduceNeeds(k, r, i)
  BY <1>2 DEF CallsOf, ProgramNeeds
<1>4. Goes(rchan, rchan', r, ReduceCounts[k], R!ReduceNeeds(k, r, rchan[r].entered))
  BY RGoes
<1>5. \A other \in Kinds \ {"reduce"} : Chans'[other] = Chans[other]
  BY ChansAre DEF Kinds, bvars, svars, gvars
<1> HIDE DEF n, k
<1> QED  BY <1>2, <1>3, <1>4, <1>5, ChansAre DEF Moves, n

-----------------------------------------------------------------------------
(* The channels of every rank agree on where its program is. *)
ProgramInv == \A r \in Ranks : Well(Chans, r)

PlaceRight == place = [r \in Ranks |-> PlaceIn(Chans, r)]

LEMMA PlaceIs == ProgramInv => PlaceRight
<1> SUFFICES ASSUME \A r \in Ranks : Well(Chans, r)
             PROVE  place = [r \in Ranks |-> PlaceIn(Chans, r)]
  BY DEF ProgramInv, PlaceRight
<1>1. ASSUME NEW r \in Ranks PROVE place[r] = PlaceIn(Chans, r)
  <2> DEFINE n == StepIn(Chans, r)
  <2>1. n \in 1 .. Len(Program) + 1 /\ Step(r) = n
    BY StepIs DEF Well
  <2>2. CASE n > Len(Program)
    BY <2>1, <2>2 DEF place, PlaceIn
  <2>3. CASE ~ (n > Len(Program))
    <3>1. Program[n].kind \in Kinds
      BY <2>1, <2>3, ProgramFields
    <3>2. PICK kind \in Kinds : kind = Program[n].kind
      BY <3>1
    <3>3. PlaceIn(Chans, r) = [coll |-> n, entered |-> Chans[kind][r].entered,
                               returned |-> Chans[kind][r].returned]
      BY <2>3, <3>2 DEF PlaceIn
    <3> HIDE DEF n
    <3>4. CASE kind = "bcast"
      BY <2>1, <2>3, <3>2, <3>3, <3>4, ChansAre DEF place
    <3>5. CASE kind = "scatter"
      BY <2>1, <2>3, <3>2, <3>3, <3>5, ChansAre DEF place
    <3>6. CASE kind = "gather"
      BY <2>1, <2>3, <3>2, <3>3, <3>6, ChansAre DEF place
    <3>7. CASE kind = "reduce"
      BY <2>1, <2>3, <3>2, <3>3, <3>7, ChansAre DEF place
    <3> QED  BY <3>2, <3>4, <3>5, <3>6, <3>7 DEF Kinds
  <2> QED  BY <2>2, <2>3
<1>2. place = [r \in Ranks |-> place[r]]
  BY DEF place
<1> QED  BY <1>1, <1>2

LEMMA ProgramInit == Init => ProgramInv /\ Abstract!Init
<1> SUFFICES ASSUME Init PROVE ProgramInv /\ Abstract!Init
  OBVIOUS
<1>1. ASSUME NEW r \in Ranks, NEW kind \in Kinds
      PROVE  Chans[kind][r].coll = 1 /\ Chans[kind][r].entered = 0
             /\ Chans[kind][r].returned = 0
  <2>1. bchan[r].coll = 1 /\ bchan[r].entered = 0 /\ bchan[r].returned = 0
    BY DEF Init, B!Init, B!Opened, B!Ranks, Ranks
  <2>2. schan[r].coll = 1 /\ schan[r].entered = 0 /\ schan[r].returned = 0
    BY DEF Init, S!Init, S!Opened, S!Ranks, Ranks
  <2>3. gchan[r].coll = 1 /\ gchan[r].entered = 0 /\ gchan[r].returned = 0
    BY DEF Init, G!Init, G!Opened, G!Ranks, Ranks
  <2>4. rchan[r].coll = 1 /\ rchan[r].entered = 0 /\ rchan[r].returned = 0
    BY DEF Init, R!Init, R!Opened, R!Ranks, Ranks
  <2> QED  BY <2>1, <2>2, <2>3, <2>4, ChansAre DEF Kinds
<1>2. ASSUME NEW r \in Ranks
      PROVE  Well(Chans, r) /\ PlaceIn(Chans, r) = [coll |-> 1, entered |-> 0, returned |-> 0]
  <2>1. StepIn(Chans, r) = 1
    BY <1>1 DEF StepIn, Kinds
  <2>2. 1 \in 1 .. Len(Program) + 1 /\ Len(Program) \in Nat
    BY ProgramFields
  <2>3. \A kind \in Kinds : WellAt(Chans[kind][r], kind, 1)
    BY <1>1, BeforeFirst DEF WellAt
  <2>4. ~ (1 > Len(Program)) => Program[1].kind \in Kinds
    BY <2>2, ProgramFields
  <2> QED  BY <2>1, <2>2, <2>3, <2>4, <1>1 DEF Well, PlaceIn
<1>3. place = [r \in Ranks |-> PlaceIn(Chans, r)]
  BY <1>2, PlaceIs DEF ProgramInv, PlaceRight
<1>4. Abstract!Init
  BY <1>2, <1>3 DEF Abstract!Init, Abstract!Ranks, Ranks
<1> QED  BY <1>2, <1>3, <1>4 DEF ProgramInv

(* A step of a program of any kind, on the channels *)
Stays == \A q \in Ranks : PlaceIn(Chans', q) = PlaceIn(Chans, q)

Proceeds(r) ==
    LET p == PlaceIn(Chans, r)
        p2 == PlaceIn(Chans', r)
    IN  /\ \A q \in Ranks \ {r} : PlaceIn(Chans', q) = PlaceIn(Chans, q)
        /\ \/ PlaceEnters(p, p2)
           \/ PlaceReturns(p, p2, CallsOf(p.coll, r))
              /\ AllReached(Chans, p.coll, ProgramNeeds(p.coll, r, p.entered))

LEMMA ProgramMoves ==
    ASSUME ProgramInv, NEW r \in Ranks, NEW kind \in Kinds, Moves(Chans, Chans', r, kind)
    PROVE  /\ ProgramInv'
           /\ Stays \/ Proceeds(r)
<1> DEFINE n == StepIn(Chans, r)
           p == PlaceIn(Chans, r)
           p2 == PlaceIn(Chans', r)
<1>1. \A q \in Ranks \ {r} : Well(Chans', q) /\ PlaceIn(Chans', q) = PlaceIn(Chans, q)
  BY OthersStay DEF ProgramInv
<1>2. /\ Well(Chans', r)
      /\ \/ p2 = p
         \/ PlaceEnters(p, p2)
         \/ /\ PlaceReturns(p, p2, CallsOf(n, r))
            /\ AllCalled(Chans[kind], Before(kind, n) + 1, ProgramNeeds(n, r, p.entered))
  BY WellGoes DEF ProgramInv
<1>3. n \in 1 .. Len(Program) /\ Program[n].kind = kind /\ p.coll = n
  BY DEF Moves, In, PlaceIn
<1>4. ASSUME NEW needs, AllCalled(Chans[kind], Before(kind, n) + 1, needs)
      PROVE  AllReached(Chans, n, needs)
  <2> SUFFICES ASSUME NEW need \in needs
               PROVE  /\ need[1] \in Ranks
                      /\ \/ PlaceIn(Chans, need[1]).coll > n
                         \/ /\ PlaceIn(Chans, need[1]).coll = n
                            /\ PlaceIn(Chans, need[1]).entered >= need[2]
    BY DEF AllReached
  <2>1. need[1] \in Ranks /\ need[2] \in Nat \ {0} /\ Well(Chans, need[1])
        /\ Called(Chans[kind], need[1], Before(kind, n) + 1, need[2])
    BY <1>4 DEF AllCalled, ProgramInv
  <2> HIDE DEF n
  <2> QED  BY <2>1, <1>3, WellCalled
<1> HIDE DEF n, p, p2
<1>5. p2 = p => Stays
  BY <1>1 DEF Stays, p, p2
<1>6. p2 # p => Proceeds(r)
  BY <1>1, <1>2, <1>3, <1>4 DEF Proceeds, p, p2
<1> QED  BY <1>1, <1>2, <1>5, <1>6 DEF ProgramInv

LEMMA ProgramStep ==
    ASSUME BInv, SInv, GInv, RInv, OneGatherRoot, ProgramInv, [Next]_vars
    PROVE  /\ ProgramInv'
           /\ Stays \/ \E r \in Ranks : Proceeds(r)
<1>1. ASSUME bchan' = bchan, schan' = schan, gchan' = gchan, rchan' = rchan
      PROVE  ProgramInv' /\ Stays
  <2>1. Chans' = Chans
    BY <1>1 DEF Chans
  <2> QED  BY <2>1 DEF Stays, ProgramInv
<1>2. CASE UNCHANGED vars
  BY <1>1, <1>2 DEF vars, bvars, svars, gvars, rvars
<1>3. ASSUME NEW r \in Ranks, Kernels(r)
      PROVE  bchan' = bchan /\ schan' = schan /\ gchan' = gchan /\ rchan' = rchan
  <2>1. CASE B!Support(r) /\ UNCHANGED <<svars, gvars, rvars>>
    BY <2>1 DEF B!Support, B!ReadApplication, B!TakeRequest, B!Deliver, svars, gvars, rvars
  <2>2. CASE S!Support(r) /\ UNCHANGED <<bvars, gvars, rvars>>
    BY <2>2 DEF S!Support, S!ReadApplication, S!TakeRequest, S!Forward, bvars, gvars, rvars
  <2>3. CASE G!Support(r) /\ UNCHANGED <<bvars, svars, rvars>>
    BY <2>3 DEF G!Support, G!ReadApplication, G!TakeRequest, G!Forward, bvars, svars, rvars
  <2>4. CASE R!Support(r) /\ UNCHANGED <<bvars, svars, gvars>>
    BY <2>4 DEF R!Support, R!PollEmpty, R!AddOwn, R!AddOther, R!SendCredits,
                bvars, svars, gvars
  <2> QED  BY <1>3, <2>1, <2>2, <2>3, <2>4 DEF Kernels
<1>4. ASSUME NEW r \in Ranks, Application(r)
      PROVE  \E kind \in Kinds : Moves(Chans, Chans', r, kind)
  <2>1. "bcast" \in Kinds /\ "scatter" \in Kinds /\ "gather" \in Kinds /\ "reduce" \in Kinds
    BY DEF Kinds
  <2>2. Well(Chans, r)
    BY DEF ProgramInv
  <2> QED  BY <1>4, <2>1, <2>2, BMoves, SMoves, GMoves, RMoves DEF Application
<1>5. CASE \E r \in Ranks : Kernels(r)
  BY <1>1, <1>3, <1>5
<1>6. CASE \E r \in Ranks : Application(r)
  BY <1>4, <1>6, ProgramMoves
<1> QED  BY <1>2, <1>5, <1>6 DEF Next

LEMMA ProgramKeeps ==
    ASSUME BInv, SInv, GInv, RInv, OneGatherRoot, ProgramInv, PlaceRight, PlaceRight', [Next]_vars
    PROVE  [Abstract!Next]_place
<1>1. /\ place = [q \in Ranks |-> PlaceIn(Chans, q)]
      /\ place' = [q \in Ranks |-> PlaceIn(Chans', q)]
  BY DEF PlaceRight
<1>2. CASE Stays
  BY <1>1, <1>2 DEF Stays
<1>3. ASSUME NEW r \in Ranks, Proceeds(r) PROVE Abstract!Next
  <2> DEFINE p == PlaceIn(Chans, r)
             p2 == PlaceIn(Chans', r)
  <2>1. place[r] = p /\ place' = [place EXCEPT ![r] = p2]
    BY <1>1, <1>3 DEF Proceeds
  <2>2. p = [coll |-> p.coll, entered |-> p.entered, returned |-> p.returned]
    BY DEF PlaceIn
  <2>3. r \in Abstract!Ranks
    BY DEF Abstract!Ranks, Ranks
  <2>4. CASE PlaceEnters(p, p2)
    <3>1. p2 = [p EXCEPT !.entered = p.entered + 1]
      BY <2>2, <2>4 DEF PlaceEnters
    <3>2. Abstract!Enter(r)
      BY <2>1, <2>4, <3>1 DEF PlaceEnters, Abstract!Enter
    <3> QED  BY <2>3, <3>2 DEF Abstract!Next
  <2>5. ASSUME PlaceReturns(p, p2, CallsOf(p.coll, r)),
               AllReached(Chans, p.coll, ProgramNeeds(p.coll, r, p.entered))
        PROVE  Abstract!Next
    <3>1. p2 = IF p.entered = CallsOf(p.coll, r)
               THEN [coll |-> p.coll + 1, entered |-> 0, returned |-> 0]
               ELSE [p EXCEPT !.returned = p.entered]
      BY <2>2, <2>5 DEF PlaceReturns
    <3>2. ASSUME NEW need \in ProgramNeeds(p.coll, r, p.entered)
          PROVE  Abstract!Reached(need[1], p.coll, need[2])
      <4>1. need[1] \in Ranks
        BY <2>5, <3>2 DEF AllReached
      <4> QED  BY <4>1, <1>1, <2>5, <3>2 DEF AllReached, Abstract!Reached
    <3>3. Abstract!Return(r)
      BY <2>1, <2>5, <3>1, <3>2 DEF PlaceReturns, Abstract!Return
    <3> QED  BY <2>3, <3>3 DEF Abstract!Next
  <2> QED  BY <1>3, <2>4, <2>5 DEF Proceeds
<1> QED  BY <1>1, <1>2, <1>3, ProgramStep

(* Programs of the four kinds, one after the other and each on its port, do  *)
(* what collectives do: every rank makes its calls in order, and a call of   *)
(* SMI_Bcast, SMI_Scatter, SMI_Gather or SMI_Reduce returns only when the    *)
(* ranks whose data or readiness it needs have come far enough.  Which call  *)
(* that is follows from the packets and credits the return really hangs on.  *)
THEOREM ProgramsAreCollectives ==
    ASSUME OneGatherRoot
    PROVE  Spec => Abstract!Safety
<1>1. Init => ProgramInv /\ Abstract!Init
  BY ProgramInit
<1>2. BInv /\ SInv /\ GInv /\ RInv /\ ProgramInv /\ [Next]_vars => ProgramInv'
  BY ProgramStep
<1>3. BInv /\ SInv /\ GInv /\ RInv /\ ProgramInv /\ PlaceRight /\ PlaceRight' /\ [Next]_vars
          => [Abstract!Next]_place
  BY ProgramKeeps
<1>4. RTypeInv => RInv
  BY DEF RTypeInv
<1>5. Spec => []GInv
  BY GatherInvariantHolds
<1> QED  BY <1>1, <1>2, <1>3, <1>4, <1>5, PlaceIs, InvariantHolds, PTL DEF Spec, Abstract!Safety

(* The same as the runs check it: no step of a program that the others can   *)
(* see is one that collectives do not have.                                  *)
THEOREM CallsReturnWithTheirNeeds ==
    ASSUME OneGatherRoot
    PROVE  Spec => ReturnsWithNeeds
<1>1. Spec => Abstract!Safety
  BY ProgramsAreCollectives
<1>2. [Abstract!Next]_place => [place' # place => Abstract!Next]_vars
  OBVIOUS
<1> QED  BY <1>1, <1>2, PTL DEF Abstract!Safety, ReturnsWithNeeds
=============================================================================
