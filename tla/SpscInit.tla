------------------------------ MODULE SpscInit ------------------------------
(***************************************************************************)
(* spsc_init of util/spsc_queue.h: from the bytes of a shared region to    *)
(* the blocks and the capacity of the ring.  The module SpscQueue takes    *)
(* from here that a ring lies inside its region, that its capacity divides *)
(* the word and that masking an index is the remainder by the capacity.    *)
(***************************************************************************)
EXTENDS Bits

CONSTANTS
  MinLength, MaxLength,  \* end - begin, in bytes, of the calls considered
  MinLog2, MaxLog2,      \* the fourth argument: 11 in both of its callers
  WordBits,              \* of size_t and uint64_t: 64
  MaxIndex               \* the largest index that is masked

\* A length is a difference of addresses; a shift by WordBits or more is undefined.
ASSUME SpscInitAssumption ==
  /\ {MinLength, MaxLength, MaxIndex, WordBits} \subseteq Nat
  /\ {MinLog2, MaxLog2} \subseteq 0 .. (WordBits - 1)
  /\ MaxLength < Shifted[WordBits]

VARIABLE ring  \* what the last successful call of spsc_init has set up

\* The position of the highest one bit.
Log2[n \in Nat \ {0}] == IF n = 1 THEN 0 ELSE 1 + Log2[n \div 2]

\* A capacity rounded up, not down, to a power of two.
BugRoundUp(blocks) == Log2[blocks] + 1

Log2Capacity(blocks) == CountTrailingZeros[blocks]

\* Every block is used: the capacity need not be a power of two.
BugCapacity(r) == r.blocks

Capacity(r) == Shifted[r.log2Capacity]

\* Whole blocks in the region.
Blocks(length, log2BlockSize) == length \div Shifted[log2BlockSize]

NoRing == [blocks |-> 0, log2BlockSize |-> 0, log2Capacity |-> 0, length |-> 0]

Init == ring = NoRing

\* A region shorter than a block is refused and the ring left as it was.
SpscInit(length, log2BlockSize) ==
  LET blocks == Blocks(length, log2BlockSize)
  IN  ring' = IF blocks = 0 THEN ring
              ELSE [blocks |-> blocks, log2BlockSize |-> log2BlockSize,
                    log2Capacity |-> Log2Capacity(blocks), length |-> length]

Next == \E length \in MinLength .. MaxLength, log2BlockSize \in MinLog2 .. MaxLog2 :
          SpscInit(length, log2BlockSize)

Spec == Init /\ [][Next]_ring

\* index & (capacity - 1), the block spsc_new_block and spsc_front_block take
Masked(i, r) == BitAnd[i][Capacity(r) - 1]
-----------------------------------------------------------------------------
(* No index, however large, selects a block that ends beyond the region:    *)
(* what spsc_init rounds away at the end is never written.                  *)
BlocksInRegion ==
  ring # NoRing =>
    \A i \in 0 .. MaxIndex :
      (Masked(i, ring) + 1) * Shifted[ring.log2BlockSize] <= ring.length

(* What SpscQueue takes for granted: the capacity is less than a word and   *)
(* divides it, so that the index after the last of a word is again in the   *)
(* next block, and the block of an index is its remainder by the capacity.  *)
IndicesGoRound ==
  ring # NoRing =>
    /\ Capacity(ring) \in Nat \ {0}
    /\ Shifted[WordBits] > Capacity(ring) /\ Shifted[WordBits] % Capacity(ring) = 0
    /\ \A i \in 0 .. MaxIndex : Masked(i, ring) = i % Capacity(ring)

(* log2Capacity is the logarithm of the number of blocks, rounded down: the *)
(* ring has the largest power of two of blocks that fits in its region.     *)
CapacityUsesRegion ==
  ring # NoRing => ring.blocks < 2 * Capacity(ring)
=============================================================================
