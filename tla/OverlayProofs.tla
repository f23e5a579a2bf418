--------------------------- MODULE OverlayProofs ---------------------------
(***************************************************************************)
(* What find_closest_node returns, for addresses of any length and any     *)
(* finite set of nodes: it is always defined, the node it names is strictly *)
(* closer than every other, and no other has a greater proximity.          *)
(***************************************************************************)
EXTENDS Overlay, FiniteSetTheorems, WellFoundedInduction, TLAPS

(* A set of naturals that is not empty has a least element.                *)
LEMMA LeastNat ==
    ASSUME NEW S \in SUBSET Nat, S # {}
    PROVE  \E x \in S : \A y \in S : x <= y
<1> DEFINE R == {p \in Nat \X Nat : p[1] < p[2]}
<1>1. IsWellFoundedOn(R, Nat)
    BY NatLessThanWellFounded DEF OpToRel
<1>2. \E x \in S : \A y \in S : <<y, x>> \notin R
    BY <1>1, WFMin
<1>3. PICK x \in S : \A y \in S : <<y, x>> \notin R
    BY <1>2
<1>4. \A y \in S : x \in Nat /\ y \in Nat /\ ~(y < x)
    BY <1>3
<1>5. \A y \in S : x <= y
    BY <1>4
<1> QED BY <1>5

(* A bounded set of naturals that is not empty has a maximum.              *)
LEMMA MaxOfBounded ==
    ASSUME NEW B \in Nat, NEW S \in SUBSET (0..B), S # {}
    PROVE  Max(S) \in S /\ \A y \in S : y <= Max(S)
<1> DEFINE R == {B - x : x \in S}
<1>0. \A x \in S : x \in 0..B /\ B - x \in Nat
    OBVIOUS
<1>1. R \in SUBSET Nat /\ R # {}
    BY <1>0
<1>2. PICK r \in R : \A y \in R : r <= y
    BY <1>1, LeastNat
<1>3. PICK x \in S : r = B - x
    OBVIOUS
<1>4. \A y \in S : B - x <= B - y
    BY <1>2, <1>3
<1> HIDE DEF R
<1>5. \A y \in S : x >= y
    BY <1>0, <1>4
<1>6. Max(S) \in S /\ \A y \in S : Max(S) >= y
    BY <1>5 DEF Max
<1> QED BY <1>0, <1>6

(* Of two naturals the one or the other is the lesser ...                  *)
LEMMA MinOfTwo == \A a, b \in Nat : Min({a, b}) = IF a <= b THEN a ELSE b
<1> TAKE a, b \in Nat
<1>1. \E x \in {a, b} : \A y \in {a, b} : x <= y
    OBVIOUS
<1>2. Min({a, b}) \in {a, b} /\ Min({a, b}) <= a /\ Min({a, b}) <= b
    BY <1>1 DEF Min
<1> QED BY <1>2

(* ... and the greater likewise.                                           *)
LEMMA MaxOfTwo == \A a, b \in Nat : Max({a, b}) = IF a >= b THEN a ELSE b
<1> TAKE a, b \in Nat
<1>1. \E x \in {a, b} : \A y \in {a, b} : x >= y
    OBVIOUS
<1>2. Max({a, b}) \in {a, b} /\ Max({a, b}) >= a /\ Max({a, b}) >= b
    BY <1>1 DEF Max
<1> QED BY <1>2
-----------------------------------------------------------------------------
(* Two addresses agree before their first different bit.                   *)
LEMMA FirstDifference ==
    ASSUME NEW a \in Address, NEW b \in Address, a # b
    PROVE  \E i \in 1..Bits : a[i] # b[i] /\ \A j \in 1..(i - 1) : a[j] = b[j]
<1> DEFINE D == {i \in 1..Bits : a[i] # b[i]}
<1>1. D \in SUBSET Nat /\ D # {}
    BY BitsAssumption DEF Address
<1>2. PICK i \in D : \A j \in D : i <= j
    BY <1>1, LeastNat
<1>3. \A j \in 1..(i - 1) : a[j] = b[j]
    BY <1>2, BitsAssumption
<1> QED BY <1>2, <1>3

(* Of two different addresses one is closer.                               *)
LEMMA CloserTotal ==
    ASSUME NEW c \in Address, NEW a \in Address, NEW b \in Address, a # b
    PROVE  Closer(c, a, b) \/ Closer(c, b, a)
<1>1. PICK i \in 1..Bits : a[i] # b[i] /\ \A j \in 1..(i - 1) : a[j] = b[j]
    BY FirstDifference
<1>2. a[i] \in {0, 1} /\ b[i] \in {0, 1} /\ c[i] \in {0, 1}
    BY DEF Address
<1> QED BY <1>1, <1>2 DEF Closer

(* No address is closer than itself, and closer than closer is closer.     *)
LEMMA CloserTransitive ==
    ASSUME NEW c, NEW a, NEW b, NEW d, Closer(c, a, b), Closer(c, b, d)
    PROVE  Closer(c, a, d)
<1>1. PICK i \in 1..Bits : /\ a[i] = c[i] /\ b[i] # c[i]
                           /\ \A k \in 1..(i - 1) : a[k] = b[k]
    BY DEF Closer
<1>2. PICK j \in 1..Bits : /\ b[j] = c[j] /\ d[j] # c[j]
                           /\ \A k \in 1..(j - 1) : b[k] = d[k]
    BY DEF Closer
<1>3. CASE i < j
    <2>1. d[i] # c[i]
        BY <1>1, <1>2, <1>3, BitsAssumption
    <2>2. \A k \in 1..(i - 1) : a[k] = d[k]
        BY <1>1, <1>2, <1>3, BitsAssumption
    <2> QED BY <1>1, <2>1, <2>2 DEF Closer
<1>4. CASE j < i
    <2>1. a[j] = c[j]
        BY <1>1, <1>2, <1>4, BitsAssumption
    <2>2. \A k \in 1..(j - 1) : a[k] = d[k]
        BY <1>1, <1>2, <1>4, BitsAssumption
    <2> QED BY <1>2, <2>1, <2>2 DEF Closer
<1>5. i # j
    BY <1>1, <1>2
<1> QED BY <1>3, <1>4, <1>5, BitsAssumption

(* A proximity is a number of bits.                                        *)
LEMMA ProximityBounded ==
    ASSUME NEW a, NEW b
    PROVE  Proximity(a, b) \in 0..Bits
<1> DEFINE Common == {k \in 0..Bits : \A i \in 1..k : a[i] = b[i]}
<1>1. Common \in SUBSET (0..Bits) /\ 0 \in Common
    BY BitsAssumption
<1> HIDE DEF Common
<1>2. Max(Common) \in Common
    BY <1>1, BitsAssumption, MaxOfBounded
<1>3. Proximity(a, b) = Max(Common)
    BY DEF Proximity, Common
<1> QED BY <1>1, <1>2, <1>3

(* What is closer has no smaller proximity.                                *)
LEMMA CloserIsNearer ==
    ASSUME NEW c \in Address, NEW a \in Address, NEW b \in Address, Closer(c, a, b)
    PROVE  Proximity(c, a) >= Proximity(c, b)
<1> DEFINE Common(x) == {k \in 0..Bits : \A i \in 1..k : c[i] = x[i]}
<1>1. \A x : Common(x) \in SUBSET (0..Bits) /\ 0 \in Common(x)
    BY BitsAssumption
<1>2. /\ Proximity(c, a) = Max(Common(a)) /\ Proximity(c, b) = Max(Common(b))
      /\ \A k \in Common(a) : k <= Proximity(c, a)
      /\ Proximity(c, b) \in Common(b)
    <2> HIDE DEF Common
    <2>1. /\ \A k \in Common(a) : k <= Max(Common(a))
          /\ Max(Common(b)) \in Common(b)
        BY <1>1, BitsAssumption, MaxOfBounded
    <2> QED BY <2>1 DEF Proximity, Common
<1>3. PICK i \in 1..Bits : /\ a[i] = c[i] /\ b[i] # c[i]
                           /\ \A j \in 1..(i - 1) : a[j] = b[j]
    BY DEF Closer
<1>4. Proximity(c, b) < i
    BY <1>2, <1>3, BitsAssumption
<1>5. Proximity(c, b) \in Common(a)
    <2> DEFINE k == Proximity(c, b)
    <2>1. k \in 0..Bits /\ \A j \in 1..k : c[j] = b[j]
        BY <1>2
    <2> HIDE DEF k
    <2>2. \A j \in 1..k : j \in 1..(i - 1)
        BY <1>4, <2>1, BitsAssumption DEF k
    <2>3. \A j \in 1..k : c[j] = a[j]
        BY <1>3, <2>1, <2>2
    <2> QED BY <2>1, <2>3 DEF k
<1> QED BY <1>2, <1>5
-----------------------------------------------------------------------------
(* Some node is closer than every other.                                   *)
LEMMA ClosestExists ==
    ASSUME NEW c \in Address, NEW S, IsFiniteSet(S), S # {}, NEW overlay,
           \A n \in S : overlay[n] \in Address,
           \A m, n \in S : m # n => overlay[m] # overlay[n]
    PROVE  \E n \in S : \A m \in S \ {n} : Closer(c, overlay[n], overlay[m])
<1> DEFINE Better(n) == {m \in S : Closer(c, overlay[m], overlay[n])}
           Sizes == {Cardinality(Better(n)) : n \in S}
<1>1. \A n \in S : IsFiniteSet(Better(n)) /\ Cardinality(Better(n)) \in Nat
    BY FS_Subset, FS_CardinalityType
<1>2. PICK n \in S : \A m \in S : Cardinality(Better(n)) <= Cardinality(Better(m))
    <2> HIDE DEF Better
    <2>1. Sizes \in SUBSET Nat /\ Sizes # {}
        BY <1>1
    <2>2. PICK k \in Sizes : \A l \in Sizes : k <= l
        BY <2>1, LeastNat
    <2> QED BY <2>2
<1>3. ASSUME NEW m \in Better(n)
      PROVE  FALSE
    <2>1. Better(m) \subseteq Better(n)
        BY <1>3, CloserTransitive
    <2>2. m \notin Better(m)
        BY DEF Closer
    <2>3. Cardinality(Better(m)) <= Cardinality(Better(n)) /\ Better(m) # Better(n)
        BY <1>1, <1>3, <2>1, <2>2, FS_Subset
    <2>4. Cardinality(Better(m)) # Cardinality(Better(n))
        BY <1>1, <2>1, <2>3, FS_Subset
    <2> HIDE DEF Better
    <2>5. m \in S
        BY <1>3 DEF Better
    <2> QED BY <1>1, <1>2, <2>3, <2>4, <2>5
<1>4. \A m \in S \ {n} : Closer(c, overlay[n], overlay[m])
    BY <1>3, CloserTotal
<1> QED BY <1>4

(* find_closest_node (pushsync.rs:143, pullsync.rs:200) returns one of the *)
(* nodes whose address is known, strictly closer to the chunk than every   *)
(* other of them, whatever the addresses, as long as they are different.   *)
THEOREM ClosestIsClosest ==
    ASSUME NEW c \in Address, NEW S, IsFiniteSet(S), S # {}, NEW overlay,
           \A n \in S : overlay[n] \in Address,
           \A m, n \in S : m # n => overlay[m] # overlay[n]
    PROVE  /\ FindClosestNode(c, overlay, S) \in S
           /\ \A m \in S \ {FindClosestNode(c, overlay, S)} :
                 Closer(c, overlay[FindClosestNode(c, overlay, S)], overlay[m])
BY ClosestExists DEF FindClosestNode

(* The node it returns has the greatest proximity, so that the proximity   *)
(* the checks report with it (pushsync.rs:363) is the chunk's depth in the *)
(* network.                                                                *)
THEOREM ClosestIsNearest ==
    ASSUME NEW c \in Address, NEW S, IsFiniteSet(S), S # {}, NEW overlay,
           \A n \in S : overlay[n] \in Address,
           \A m, n \in S : m # n => overlay[m] # overlay[n],
           NEW m \in S
    PROVE  Proximity(c, overlay[FindClosestNode(c, overlay, S)]) >= Proximity(c, overlay[m])
<1> DEFINE n == FindClosestNode(c, overlay, S)
<1>1. n \in S /\ (m # n => Closer(c, overlay[n], overlay[m]))
    BY ClosestIsClosest
<1> HIDE DEF n
<1>2. ASSUME m # n
      PROVE  Proximity(c, overlay[n]) >= Proximity(c, overlay[m])
    <2>1. overlay[n] \in Address /\ overlay[m] \in Address
        BY <1>1
    <2> QED BY <1>1, <1>2, <2>1, CloserIsNearer
<1>3. Proximity(c, overlay[m]) >= Proximity(c, overlay[m])
    <2>1. Proximity(c, overlay[m]) \in 0..Bits
        BY ProximityBounded
    <2> QED BY <2>1, BitsAssumption
<1> QED BY <1>2, <1>3 DEF n
=============================================================================
