--------------------------- MODULE SpscInitProof ---------------------------
(***************************************************************************)
(* What spsc_init sets up, for every region, block size and word: proofs   *)
(* of the properties that SpscQueue takes for granted of its ring.  The    *)
(* capacity is the largest power of two that divides the number of blocks  *)
(* (TrailingZeros of Arithmetic.tla), so it is no more than that number,   *)
(* and a power of two has the remainder as its mask (Mask).                *)
(***************************************************************************)
EXTENDS SpscInit, Arithmetic

\* The one successful call of spsc_init that has set up the ring.
RingInv ==
  \/ ring = NoRing
  \/ /\ ring.length \in Nat /\ ring.length <= MaxLength
     /\ ring.log2BlockSize \in Nat
     /\ ring.blocks = Blocks(ring.length, ring.log2BlockSize)
     /\ ring.blocks \in Nat \ {0}
     /\ ring.log2Capacity = Log2Capacity(ring.blocks)

\* Whole blocks of a region take no more bytes than it has.
LEMMA BlocksFit ==
  ASSUME NEW length \in Nat, NEW log2BlockSize \in Nat
  PROVE  /\ Shifted[log2BlockSize] \in Nat \ {0}
         /\ Blocks(length, log2BlockSize) \in Nat
         /\ Blocks(length, log2BlockSize) * Shifted[log2BlockSize] <= length
<1> DEFINE size == Shifted[log2BlockSize]
           blocks == length \div size
<1>1. size \in Nat \ {0}
  BY ShiftedIs
<1> HIDE DEF size
<1>2. length % size \in Nat /\ blocks \in Int /\ length = size * blocks + (length % size)
  BY <1>1, ModDef
<1>3. blocks \in Nat
  BY <1>1, SMT
<1> HIDE DEF blocks
<1>4. blocks * size <= length
  <2>1. blocks * size = size * blocks /\ size * blocks \in Int
    BY <1>1, <1>3
  <2> QED
    BY <1>2, <2>1
<1> QED
  BY <1>1, <1>3, <1>4 DEF Blocks, size, blocks

\* The capacity of a ring is a power of two no larger than its blocks.
LEMMA CapacityFits ==
  ASSUME NEW blocks \in Nat \ {0}
  PROVE  /\ Log2Capacity(blocks) \in Nat
         /\ Shifted[Log2Capacity(blocks)] \in Nat \ {0}
         /\ Shifted[Log2Capacity(blocks)] <= blocks
<1> DEFINE capacity == Shifted[CountTrailingZeros[blocks]]
<1>1. CountTrailingZeros[blocks] \in Nat
  BY CountTrailingZerosIs
<1>2. capacity \in Nat \ {0}
  BY <1>1, ShiftedIs
<1>3. PICK k \in Nat : blocks = capacity * k
  BY TrailingZeros
<1> HIDE DEF capacity
<1>4. capacity * k >= capacity
  BY <1>2, <1>3, MulAtLeast
<1> QED
  BY <1>1, <1>2, <1>3, <1>4 DEF Log2Capacity, capacity

\* spsc_init sets up the ring of its last successful call.
LEMMA RingStep == RingInv /\ [Next]_ring => RingInv'
<1> SUFFICES ASSUME RingInv, [Next]_ring PROVE RingInv'
  OBVIOUS
<1>1. ASSUME NEW length \in MinLength .. MaxLength, NEW log2BlockSize \in MinLog2 .. MaxLog2,
             SpscInit(length, log2BlockSize)
      PROVE  RingInv'
  <2> DEFINE blocks == Blocks(length, log2BlockSize)
  <2>1. length \in Nat /\ length <= MaxLength /\ log2BlockSize \in Nat
    BY SpscInitAssumption
  <2>2. blocks \in Nat
    BY <2>1, BlocksFit
  <2>3. CASE blocks = 0
    BY <1>1, <2>3 DEF SpscInit, RingInv
  <2>4. CASE blocks # 0
    <3>1. ring' = [blocks |-> blocks, log2BlockSize |-> log2BlockSize,
                   log2Capacity |-> Log2Capacity(blocks), length |-> length]
      BY <1>1, <2>4 DEF SpscInit
    <3> HIDE DEF blocks
    <3>2. /\ ring'.length = length /\ ring'.log2BlockSize = log2BlockSize
          /\ ring'.blocks = blocks /\ ring'.log2Capacity = Log2Capacity(blocks)
      BY <3>1
    <3> QED
      BY <2>1, <2>2, <2>4, <3>2 DEF RingInv, blocks
  <2> QED
    BY <2>3, <2>4
<1>2. CASE ring' = ring
  BY <1>2 DEF RingInv
<1> QED
  BY <1>1, <1>2 DEF Next

\* RingInv is inductive.
LEMMA RingAlways == Spec => []RingInv
<1>1. Init => RingInv
  BY DEF Init, RingInv
<1> QED
  BY <1>1, RingStep, PTL DEF Spec

\* What the ring's numbers are.
LEMMA RingNumbers ==
  ASSUME RingInv, ring # NoRing
  PROVE  /\ Capacity(ring) \in Nat \ {0} /\ ring.log2Capacity \in Nat
         /\ Capacity(ring) <= ring.blocks
         /\ Shifted[ring.log2BlockSize] \in Nat \ {0} /\ ring.blocks \in Nat \ {0}
         /\ ring.blocks * Shifted[ring.log2BlockSize] <= ring.length
         /\ ring.length \in Nat /\ ring.length <= MaxLength
         /\ \A i \in Nat : Masked(i, ring) = i % Capacity(ring)
<1>1. \A i \in Nat : Masked(i, ring) = i % Capacity(ring)
  BY CapacityFits, Mask DEF RingInv, Masked, Capacity
<1>2. /\ Shifted[ring.log2BlockSize] \in Nat \ {0}
      /\ ring.blocks * Shifted[ring.log2BlockSize] <= ring.length
  BY BlocksFit DEF RingInv
<1> QED
  BY <1>1, <1>2, CapacityFits DEF RingInv, Capacity

(* No index selects a block that ends beyond the region that spsc_init was *)
(* given: spsc_new_block and spsc_front_block stay inside the dataport.     *)
THEOREM BlocksAreInRegion == Spec => []BlocksInRegion
<1>1. RingInv => BlocksInRegion
  <2> SUFFICES ASSUME RingInv, ring # NoRing, NEW i \in 0 .. MaxIndex
               PROVE  (Masked(i, ring) + 1) * Shifted[ring.log2BlockSize] <= ring.length
    BY DEF BlocksInRegion
  <2> DEFINE m == Masked(i, ring)
             c == Capacity(ring)
             s == Shifted[ring.log2BlockSize]
             b == ring.blocks
             l == ring.length
  <2>1. i \in Nat
    BY SpscInitAssumption
  <2>2. /\ c \in Nat \ {0} /\ c <= b /\ m = i % c
        /\ s \in Nat \ {0} /\ b \in Nat \ {0} /\ b * s <= l /\ l \in Nat
    BY <2>1, RingNumbers
  <2> HIDE DEF m, c, s, b, l
  <2>3. m \in Nat /\ m + 1 <= b
    BY <2>1, <2>2, ModDef
  <2>4. (m + 1) * s <= b * s
    <3>1. b - (m + 1) \in Nat
      BY <2>2, <2>3
    <3>2. (b - (m + 1)) * s >= 0 /\ b * s = (m + 1) * s + (b - (m + 1)) * s
      BY <2>2, <2>3, <3>1
    <3>3. (m + 1) * s \in Int /\ (b - (m + 1)) * s \in Int
      BY <2>2, <2>3
    <3> QED
      BY <3>2, <3>3
  <2>5. (m + 1) * s <= l
    BY <2>2, <2>3, <2>4
  <2> QED
    BY <2>5 DEF m, s, l
<1> QED
  BY <1>1, RingAlways, PTL

(* The capacity is less than a word and divides it, and masking an index    *)
(* is the remainder by the capacity: what SpscQueue assumes of its ring.    *)
THEOREM IndicesAlwaysGoRound == Spec => []IndicesGoRound
<1>1. RingInv => IndicesGoRound
  <2> SUFFICES ASSUME RingInv, ring # NoRing PROVE IndicesGoRound
    BY DEF IndicesGoRound
  <2>1. \A i \in 0 .. MaxIndex : i \in Nat
    BY SpscInitAssumption
  <2>2. Capacity(ring) \in Nat \ {0} /\ \A i \in 0 .. MaxIndex : Masked(i, ring) = i % Capacity(ring)
    BY <2>1, RingNumbers
  <2>3. Capacity(ring) < Shifted[WordBits]
    <3> DEFINE c == Capacity(ring)
               s == Shifted[ring.log2BlockSize]
               b == ring.blocks
               w == Shifted[WordBits]
    <3>1. /\ c \in Nat \ {0} /\ c <= b /\ s \in Nat \ {0} /\ b \in Nat \ {0}
          /\ b * s <= MaxLength /\ MaxLength < w
      BY RingNumbers, SpscInitAssumption
    <3>2. w \in Nat
      BY ShiftedIs, SpscInitAssumption
    <3>3. MaxLength \in Nat
      BY SpscInitAssumption
    <3> HIDE DEF c, s, b, w
    <3>4. b * s >= b /\ b * s \in Int
      <4>1. b * s > 0 /\ b * s \in Int
        BY <3>1
      <4> QED
        BY <3>1, <4>1, MulAtLeast
    <3>5. c < w
      BY <3>1, <3>2, <3>3, <3>4
    <3> QED
      BY <3>5 DEF c, w
  <2>4. Shifted[WordBits] % Capacity(ring) = 0
    BY <2>3, RingNumbers, ShiftedDivides, SpscInitAssumption DEF Capacity
  <2> QED
    BY <2>2, <2>3, <2>4 DEF IndicesGoRound
<1> QED
  BY <1>1, RingAlways, PTL
=============================================================================
