----------------------------- MODULE TreeProofs -----------------------------
(****************************************************************************)
(* Proofs about Tree: for every size up to 63 and every root the two sides  *)
(* of an edge agree, and every hop leads towards the root.  The argument is *)
(* that Place turns the tree into the standard one, in which the children   *)
(* of p are 2 p + 1 and 2 p + 2.                                            *)
(****************************************************************************)
EXTENDS Tree, TLAPS

LEMMA Numbers ==
    ASSUME TypeOK
    PROVE  /\ num_rank \in Nat /\ 1 <= num_rank /\ num_rank <= MAX_RANKS
           /\ MAX_RANKS \in Nat /\ Ranks = 0 .. num_rank - 1
           /\ root_rank \in 0 .. num_rank - 1 /\ at \in 0 .. num_rank - 1
BY RanksAssumption DEF TypeOK, Ranks

(* Up to 63 ranks a child fits in a char. *)
LEMMA BoundedFits ==
    ASSUME TypeOK, NEW child \in 0 .. 127
    PROVE  Bounded(child) = IF child >= num_rank THEN -1 ELSE child
<1>1. ToChar(child) = child
  BY DEF ToChar
<1> QED  BY <1>1 DEF Bounded

LEMMA PlaceOfRank ==
    ASSUME TypeOK, NEW r \in Ranks
    PROVE  /\ Place(r) \in 0 .. num_rank - 1
           /\ Place(r) = 0 <=> r = root_rank
BY Numbers DEF Place

LEMMA PlaceIsInjective ==
    ASSUME TypeOK, NEW r \in Ranks, NEW q \in Ranks, Place(r) = Place(q)
    PROVE  r = q
BY Numbers DEF Place

(* A rank is one of the two children of its parent, in the standard tree. *)
LEMMA ParentPlace ==
    ASSUME TypeOK, NEW r \in Ranks, r # root_rank
    PROVE  /\ MyParent(r) \in Ranks
           /\ \/ Place(r) = 2 * Place(MyParent(r)) + 1
              \/ Place(r) = 2 * Place(MyParent(r)) + 2
<1> DEFINE up(s) == (s + 1) \div 2 - 1
<1>1. ASSUME NEW s \in 1 .. num_rank - 1
      PROVE  /\ up(s) \in 0 .. num_rank - 1 /\ up(s) < s
             /\ s = 2 * up(s) + 1 \/ s = 2 * up(s) + 2
  BY Numbers
<1>2. CASE r = 0
  <2>1. root_rank \in 1 .. num_rank - 1
    BY <1>2, Numbers
  <2>2. MyParent(r) = IF up(root_rank) = 0 THEN root_rank ELSE up(root_rank)
    BY <1>2 DEF MyParent
  <2>3. Place(MyParent(r)) = up(root_rank)
    BY <1>1, <2>1, <2>2 DEF Place
  <2> QED  BY <1>1, <1>2, <2>1, <2>2, <2>3, Numbers DEF Place
<1>3. CASE r # 0
  <2>1. r \in 1 .. num_rank - 1
    BY <1>3, Numbers
  <2>2. MyParent(r) = IF up(r) = 0 THEN root_rank
                      ELSE IF up(r) = root_rank THEN 0 ELSE up(r)
    BY <1>3 DEF MyParent
  <2>3. Place(MyParent(r)) = up(r)
    BY <1>1, <2>1, <2>2, Numbers DEF Place
  <2>4. Place(r) = r
    BY <1>3 DEF Place
  <2>5. /\ up(r) \in 0 .. num_rank - 1
        /\ r = 2 * up(r) + 1 \/ r = 2 * up(r) + 2
    BY <1>1, <2>1
  <2>6. MyParent(r) \in Ranks
    BY <2>2, <2>5, Numbers
  <2> HIDE DEF up
  <2> QED  BY <2>3, <2>4, <2>5, <2>6
<1> QED  BY <1>2, <1>3

(* The children of a rank are those of its place. *)
LEMMA ChildPlace ==
    ASSUME TypeOK, MAX_RANKS <= 63, NEW r \in Ranks, NEW which \in {1, 2}
    PROVE  LET place == 2 * Place(r) + which
           IN  IF place < num_rank
               THEN Child(which, r) \in Ranks /\ Place(Child(which, r)) = place
               ELSE Child(which, r) = -1
<1>1. ASSUME NEW s \in 0 .. num_rank - 1
      PROVE  Bounded(2 * s + which) = IF 2 * s + which >= num_rank THEN -1
                                      ELSE 2 * s + which
  <2>1. 2 * s + which \in 0 .. 127
    BY Numbers
  <2> QED  BY <2>1, BoundedFits
<1>2. Bounded(which) = IF which >= num_rank THEN -1 ELSE which
  BY BoundedFits
<1>3. CASE r = root_rank
  <2>1. Place(r) = 0
    BY <1>3 DEF Place
  <2>2. Child(which, r) = IF root_rank = which THEN 0 ELSE Bounded(which)
    BY <1>3 DEF Child
  <2> QED  BY <1>2, <2>1, <2>2, Numbers DEF Place
<1>4. CASE r # root_rank /\ r = 0
  <2>1. Place(r) = root_rank
    BY <1>4 DEF Place
  <2>2. Child(which, r) = Bounded(2 * root_rank + which)
    BY <1>4 DEF Child
  <2> QED  BY <1>1, <1>4, <2>1, <2>2, Numbers DEF Place
<1>5. CASE r # root_rank /\ r # 0
  <2> DEFINE child == 2 * r + which
  <2>1. Place(r) = r
    BY <1>5 DEF Place
  <2>2. Child(which, r) = IF Bounded(child) = root_rank THEN 0
                          ELSE Bounded(child)
    BY <1>5 DEF Child
  <2>3. /\ Bounded(child) = IF child >= num_rank THEN -1 ELSE child
        /\ child \in Nat \ {0}
    <3>1. r \in 0 .. num_rank - 1 /\ r \in Nat \ {0}
      BY <1>5, Numbers
    <3>2. child \in Nat \ {0}
      BY <3>1
    <3> QED  BY <1>1, <3>1, <3>2
  <2> HIDE DEF child
  <2>4. child >= num_rank => Child(which, r) = -1
    BY <2>2, <2>3, Numbers
  <2>5. child < num_rank /\ child = root_rank
            => Child(which, r) = 0 /\ Place(0) = child
    BY <2>2, <2>3, Numbers DEF Place
  <2>6. child < num_rank /\ child # root_rank
            => Child(which, r) = child /\ Place(child) = child
    BY <2>2, <2>3, Numbers DEF Place
  <2>7. IF child < num_rank
        THEN Child(which, r) \in Ranks /\ Place(Child(which, r)) = child
        ELSE Child(which, r) = -1
    BY <2>3, <2>4, <2>5, <2>6, Numbers
  <2> QED  BY <2>1, <2>7 DEF child
<1> QED  BY <1>3, <1>4, <1>5

LEMMA ShapeIsRight ==
    ASSUME TypeOK, MAX_RANKS <= 63
    PROVE  ChildrenInRange /\ ParentAndChildAgree
<1>1. at \in Ranks /\ Place(at) \in 0 .. num_rank - 1
  BY PlaceOfRank DEF TypeOK
<1>2. ChildrenInRange
  <2>1. \A which \in {1, 2} : Child(which, at) \in Ranks \cup {-1}
    BY <1>1, ChildPlace
  <2>2. ASSUME Child(1, at) # -1 PROVE Child(1, at) # Child(2, at)
    <3>1. Place(Child(1, at)) = 2 * Place(at) + 1
      BY <1>1, <2>2, ChildPlace
    <3>2. Child(2, at) # -1 => Place(Child(2, at)) = 2 * Place(at) + 2
      BY <1>1, ChildPlace
    <3> QED  BY <1>1, <2>2, <3>1, <3>2
  <2> QED  BY <2>1, <2>2 DEF ChildrenInRange
<1>3. ASSUME NEW r \in Ranks, MyParent(r) = at
      PROVE  \E which \in {1, 2} : Child(which, at) = r
  <2>1. r # root_rank
    BY <1>1, <1>3, Numbers DEF MyParent
  <2>2. PICK which \in {1, 2} : Place(r) = 2 * Place(at) + which
    BY <1>3, <2>1, ParentPlace
  <2>3. 2 * Place(at) + which < num_rank
    BY <2>2, PlaceOfRank, Numbers
  <2>4. Child(which, at) \in Ranks /\ Place(Child(which, at)) = Place(r)
    BY <1>1, <2>2, <2>3, ChildPlace
  <2> QED  BY <2>4, PlaceIsInjective
<1>4. ASSUME NEW r \in Ranks, NEW which \in {1, 2}, Child(which, at) = r
      PROVE  MyParent(r) = at
  <2>1. r # -1
    BY Numbers
  <2>2. Place(r) = 2 * Place(at) + which
    BY <1>1, <1>4, <2>1, ChildPlace
  <2>3. r # root_rank
    BY <1>1, <2>2, PlaceOfRank
  <2>4. /\ MyParent(r) \in Ranks
        /\ \/ Place(r) = 2 * Place(MyParent(r)) + 1
           \/ Place(r) = 2 * Place(MyParent(r)) + 2
    BY <2>3, ParentPlace
  <2>5. Place(MyParent(r)) \in Nat
    BY <2>4, PlaceOfRank, Numbers
  <2>6. Place(MyParent(r)) = Place(at)
    BY <1>1, <2>2, <2>4, <2>5
  <2> QED  BY <1>1, <2>4, <2>6, PlaceIsInjective
<1> QED  BY <1>2, <1>3, <1>4 DEF ParentAndChildAgree

LEMMA ClimbStep ==
    ASSUME TypeOK, Climb
    PROVE  TypeOK' /\ 2 * (Place(at') + 1) <= Place(at) + 1
<1>1. at \in Ranks /\ at # root_rank /\ at' = MyParent(at)
  BY DEF TypeOK, Climb
<1>2. /\ at' \in Ranks
      /\ Place(at) = 2 * Place(at') + 1 \/ Place(at) = 2 * Place(at') + 2
  BY <1>1, ParentPlace
<1>3. Place(at') \in Nat
  BY <1>2, PlaceOfRank, Numbers
<1> QED  BY <1>2, <1>3 DEF Climb, TypeOK, Ranks

-----------------------------------------------------------------------------
(* Types, for every number of ranks a char can hold. *)
THEOREM TypeCorrect == Spec => []TypeOK
<1>1. Init => TypeOK
  BY DEF Init, TypeOK
<1>2. TypeOK /\ [Next]_vars => TypeOK'
  BY ClimbStep DEF Next, vars, TypeOK, Ranks
<1> QED  BY <1>1, <1>2, PTL DEF Spec

(* With at most 63 ranks, the children of every rank of every tree are       *)
(* ranks, and no rank has one child twice.                                   *)
THEOREM ChildrenAreRanks ==
    ASSUME MAX_RANKS <= 63
    PROVE  Spec => []ChildrenInRange
<1>1. TypeOK => ChildrenInRange
  BY ShapeIsRight
<1> QED  BY <1>1, TypeCorrect, PTL

(* With at most 63 ranks, the two ends of every edge of every tree agree.    *)
THEOREM TreeIsConsistent ==
    ASSUME MAX_RANKS <= 63
    PROVE  Spec => []ParentAndChildAgree
<1>1. TypeOK => ParentAndChildAgree
  BY ShapeIsRight
<1> QED  BY <1>1, TypeCorrect, PTL

(* Every hop halves the place, for every number of ranks a char can hold:    *)
(* the parents, unlike the children, never leave the range of a char.        *)
THEOREM ParentsLeadToTheRoot == Spec => HopsHalve
<1>1. TypeOK /\ [Next]_vars => [2 * (Place(at') + 1) <= Place(at) + 1]_vars
  BY ClimbStep DEF Next
<1> QED  BY <1>1, TypeCorrect, PTL DEF Spec, HopsHalve
=============================================================================
