--------------------------- MODULE SpscQueueProof ---------------------------
(***************************************************************************)
(* Proofs about util/spsc_queue.h for every capacity, word size and set of *)
(* packets.                                                                *)
(***************************************************************************)
EXTENDS SpscQueue, Arithmetic

(* How far an index lies beyond the oldest front anybody still remembers,   *)
(* the copy the producer took of it.                                        *)
Beyond(i) == Dist(q.producerCachedFront, i)

(* The producer's own index is ahead of the published one only inside       *)
(* spsc_push, and then by one.                                              *)
BackInv ==
  IF prod.pc = "publish"
  THEN /\ q.producerCachedBack = Inc(q.back)
       /\ prod.newBack = q.producerCachedBack
  ELSE q.producerCachedBack = q.back

(* Walking up from the producer's copy of front one meets front, then the   *)
(* consumer's copy of back, then back, all within one ring.                 *)
OrderInv ==
  /\ q.consumerCachedFront = q.front
  /\ Beyond(q.front) <= Beyond(q.consumerCachedBack)
  /\ Beyond(q.consumerCachedBack) <= Beyond(q.back)
  /\ Beyond(q.back) <= Capacity
  /\ prod.pc \in {"fill", "push", "publish"} => Beyond(q.back) < Capacity

(* What each side knows about its block between its calls. *)
BlockInv ==
  /\ prod.pc \in {"push", "publish"} => block[Slot(q.back)] = prod.pkt
  /\ cons.pc \in {"read", "pop"} => q.consumerCachedBack # q.consumerCachedFront
  /\ cons.pc = "pop" => cons.pkt = block[Slot(q.front)]

IInv == TypeOK /\ BackInv /\ OrderInv /\ BlockInv
-----------------------------------------------------------------------------
(* The wrapping arithmetic of the indices, read off the line of integers.   *)

\* What the assumptions say of the word the indices are stored in.
LEMMA WordSizePositive == WordSize \in Nat \ {0} /\ WordSize > Capacity
BY CapacityAssumption, WordAssumption

\* ++ on an index: one more, or zero at the end of the word.
LEMMA IncValue ==
  ASSUME NEW i \in Word
  PROVE  Inc(i) = IF i = WordSize - 1 THEN 0 ELSE i + 1
<1>1. CASE i = WordSize - 1
  BY <1>1, WordSizePositive, ModAbove DEF Inc, Word
<1>2. CASE i # WordSize - 1
  BY <1>2, WordSizePositive, ModBelow DEF Inc, Word
<1> QED
  BY <1>1, <1>2

\* ++ keeps an index in its word.
LEMMA IncType == \A i \in Word : Inc(i) \in Word
BY IncValue, WordSizePositive DEF Word

\* The difference of two indices, with and without a wrap between them.
LEMMA DistValue ==
  ASSUME NEW i \in Word, NEW j \in Word
  PROVE  Dist(i, j) = IF i <= j THEN j - i ELSE j - i + WordSize
<1>1. CASE i <= j
  BY <1>1, WordSizePositive, ModBelow DEF Dist, Word
<1>2. CASE ~(i <= j)
  BY <1>2, WordSizePositive, ModNegative DEF Dist, Word
<1> QED
  BY <1>1, <1>2

\* The difference of two indices is below the word size.
LEMMA DistType == \A i, j \in Word : Dist(i, j) \in Nat /\ Dist(i, j) < WordSize
BY DistValue, WordSizePositive DEF Word

\* Two indices are equal exactly when their difference is zero.
LEMMA DistZero == \A i, j \in Word : Dist(i, j) = 0 <=> i = j
BY DistValue, WordSizePositive DEF Word

(* From an index to a later one is the difference of their distances. *)
LEMMA DistBetween ==
  ASSUME NEW c \in Word, NEW a \in Word, NEW b \in Word,
         Dist(c, a) <= Dist(c, b)
  PROVE  Dist(a, b) = Dist(c, b) - Dist(c, a)
BY DistValue, WordSizePositive DEF Word

\* One index further is one more from where it is counted, within the ring.
LEMMA DistInc ==
  ASSUME NEW c \in Word, NEW a \in Word, Dist(c, a) < Capacity
  PROVE  Dist(c, Inc(a)) = Dist(c, a) + 1
<1>1. /\ Inc(a) \in Word
      /\ Inc(a) = IF a = WordSize - 1 THEN 0 ELSE a + 1
  BY IncType, IncValue
<1>2. Dist(c, a) = IF c <= a THEN a - c ELSE a - c + WordSize
  BY DistValue
<1>3. Dist(c, Inc(a)) = IF c <= Inc(a) THEN Inc(a) - c ELSE Inc(a) - c + WordSize
  BY <1>1, DistValue
<1> QED
  BY <1>1, <1>2, <1>3, WordSizePositive, CapacityAssumption DEF Word

\* A masked index is a block of the ring.
LEMMA SlotType == \A i \in Word : Slot(i) \in Slots
BY CapacityAssumption, ModDef DEF Slot, Slots, Word

(* Two indices less than a ring apart are two different blocks, also when   *)
(* one has wrapped and the other has not: the ring divides the word.        *)
LEMMA SlotApart ==
  ASSUME NEW i \in Word, NEW j \in Word, 0 < Dist(i, j), Dist(i, j) < Capacity
  PROVE  Slot(i) # Slot(j)
<1>1. CASE i <= j
  <2>1. i \in Int /\ j \in Int /\ i < j /\ j - i < Capacity
    BY <1>1, DistValue DEF Word
  <2> QED
    BY <2>1, CapacityAssumption, ModApart DEF Slot
<1>2. CASE ~(i <= j)
  <2> DEFINE k == WordSize \div Capacity
  <2>1. k \in Int /\ WordSize = Capacity * k
    BY CapacityAssumption, WordAssumption, ModDef
  <2> HIDE DEF k
  <2>2. /\ i \in Int /\ j \in Int /\ j + Capacity * k \in Int
        /\ i < j + Capacity * k
        /\ (j + Capacity * k) - i < Capacity
    BY <1>2, <2>1, DistValue, WordSizePositive DEF Word
  <2>3. i % Capacity # (j + Capacity * k) % Capacity
    BY <2>2, CapacityAssumption, ModApart
  <2>4. (j + Capacity * k) % Capacity = j % Capacity
    BY <2>1, <2>2, CapacityAssumption, ModShift
  <2> QED
    BY <2>3, <2>4 DEF Slot
<1> QED
  BY <1>1, <1>2
-----------------------------------------------------------------------------
\* Every step leaves the indices words and the program counters in range.
LEMMA TypeStep ==
  ASSUME TypeOK, [Next]_vars
  PROVE  TypeOK'
<1>1. ASSUME NEW p \in Payload, NewBlock(p)
      PROVE  TypeOK'
  BY <1>1 DEF NewBlock, TypeOK
<1>2. CASE ReloadFront
  BY <1>2 DEF ReloadFront, TypeOK
<1>3. CASE FillBlock
  BY <1>3 DEF FillBlock, TypeOK
<1>4. CASE Push
  BY <1>4, IncType DEF Push, TypeOK
<1>5. CASE PublishBack
  BY <1>5 DEF PublishBack, TypeOK
<1>6. CASE Empty
  BY <1>6 DEF Empty, TypeOK
<1>7. CASE FrontBlock
  BY <1>7 DEF FrontBlock, TypeOK
<1>8. CASE ReloadBack
  BY <1>8 DEF ReloadBack, TypeOK
<1>9. CASE ReadBlock
  <2>1. Slot(q.consumerCachedFront) \in Slots
    BY SlotType DEF TypeOK
  <2> QED
    BY <1>9, <2>1 DEF ReadBlock, TypeOK
<1>10. CASE Pop
  BY <1>10, IncType DEF Pop, TypeOK
<1>11. CASE UNCHANGED vars
  BY <1>11 DEF vars, TypeOK
<1> QED
  BY <1>1, <1>2, <1>3, <1>4, <1>5, <1>6, <1>7, <1>8, <1>9, <1>10, <1>11
     DEF Next, Producer, Consumer

(* Every variable keeps its type; in particular the six indices of          *)
(* spsc_queue_t stay words although nothing ever reduces them to the ring.  *)
THEOREM TypeCorrect == Spec => []TypeOK
<1>1. Init => TypeOK
  BY WordSizePositive, CapacityAssumption
     DEF Init, TypeOK, EmptyRing, Word
<1>2. TypeOK /\ [Next]_vars => TypeOK'
  BY TypeStep
<1> QED
  BY <1>1, <1>2, PTL DEF Spec

\* spsc_init establishes the invariant.
LEMMA InitIInv == Init => IInv
<1> SUFFICES ASSUME Init
             PROVE  IInv
  OBVIOUS
<1>1. TypeOK
  BY WordSizePositive, CapacityAssumption DEF Init, TypeOK, EmptyRing, Word
<1>2. 0 \in Word
  BY WordSizePositive, CapacityAssumption DEF Word
<1>3. Dist(0, 0) = 0
  BY <1>2, DistZero
<1> QED
  BY <1>1, <1>3, CapacityAssumption
     DEF Init, EmptyRing, IInv, BackInv, OrderInv, BlockInv, Beyond

(* While the consumer is between spsc_front_block and spsc_pop, the block   *)
(* the producer may fill is not the one the consumer reads.                 *)
LEMMA FrontNotBack ==
  ASSUME TypeOK, OrderInv, prod.pc \in {"fill", "push", "publish"},
         q.consumerCachedBack # q.consumerCachedFront
  PROVE  Slot(q.front) # Slot(q.back)
<1>1. /\ q.front \in Word /\ q.back \in Word /\ q.consumerCachedBack \in Word
      /\ q.producerCachedFront \in Word
  BY DEF TypeOK
<1>2. /\ Beyond(q.front) \in Nat
      /\ Beyond(q.consumerCachedBack) \in Nat
      /\ Beyond(q.back) \in Nat
  BY <1>1, DistType DEF Beyond
<1>3. Dist(q.front, q.consumerCachedBack)
        = Beyond(q.consumerCachedBack) - Beyond(q.front)
  BY <1>1, DistBetween DEF OrderInv, Beyond
<1>4. Dist(q.front, q.consumerCachedBack) # 0
  BY <1>1, DistZero DEF OrderInv
<1>5. Beyond(q.front) < Beyond(q.back) /\ Beyond(q.back) < Capacity
  BY <1>2, <1>3, <1>4 DEF OrderInv
<1>6. Dist(q.front, q.back) = Beyond(q.back) - Beyond(q.front)
  BY <1>1, <1>2, <1>5, DistBetween DEF Beyond
<1>7. 0 < Dist(q.front, q.back) /\ Dist(q.front, q.back) < Capacity
  BY <1>2, <1>5, <1>6, CapacityAssumption
<1> QED
  BY <1>1, <1>7, SlotApart

\* The producer's indices: what it has pushed and what it has published.
LEMMA BackStep ==
  ASSUME TypeOK, BackInv, [Next]_vars
  PROVE  BackInv'
<1>1. ASSUME NEW p \in Payload, NewBlock(p)
      PROVE  BackInv'
  BY <1>1 DEF NewBlock, BackInv, TypeOK
<1>2. CASE ReloadFront
  BY <1>2 DEF ReloadFront, BackInv, TypeOK
<1>3. CASE FillBlock
  BY <1>3 DEF FillBlock, BackInv, TypeOK
<1>4. CASE Push
  BY <1>4 DEF Push, BackInv, TypeOK
<1>5. CASE PublishBack
  BY <1>5 DEF PublishBack, BackInv, TypeOK
<1>6. CASE Empty
  BY <1>6 DEF Empty, BackInv, TypeOK
<1>7. CASE FrontBlock
  BY <1>7 DEF FrontBlock, BackInv, TypeOK
<1>8. CASE ReloadBack
  BY <1>8 DEF ReloadBack, BackInv, TypeOK
<1>9. CASE ReadBlock
  BY <1>9 DEF ReadBlock, BackInv, TypeOK
<1>10. CASE Pop
  BY <1>10 DEF Pop, BackInv, TypeOK
<1>11. CASE UNCHANGED vars
  BY <1>11 DEF vars, BackInv
<1> QED
  BY <1>1, <1>2, <1>3, <1>4, <1>5, <1>6, <1>7, <1>8, <1>9, <1>10, <1>11
     DEF Next, Producer, Consumer

\* The order of the six indices around the word, and the capacity.
LEMMA OrderStep ==
  ASSUME TypeOK, BackInv, OrderInv, BlockInv, [Next]_vars
  PROVE  OrderInv'
<1> USE DEF Beyond
<1>0. /\ q.front \in Word /\ q.back \in Word /\ q.consumerCachedBack \in Word
      /\ q.producerCachedFront \in Word /\ q.consumerCachedFront \in Word
      /\ Beyond(q.front) \in Nat
      /\ Beyond(q.consumerCachedBack) \in Nat
      /\ Beyond(q.back) \in Nat
  BY DistType DEF TypeOK
<1>1. ASSUME NEW p \in Payload, NewBlock(p)
      PROVE  OrderInv'
  <2>1. ~ProducerSeesFull(q) /\ prod.pc = "idle" => Beyond(q.back) # Capacity
    BY DEF ProducerSeesFull, BackInv
  <2> QED
    BY <1>0, <1>1, <2>1, CapacityAssumption DEF NewBlock, OrderInv, TypeOK
<1>2. CASE ReloadFront
  <2>1. /\ q' = [q EXCEPT !.producerCachedFront = q.front]
        /\ prod'.pc = IF ProducerSeesFull(q') THEN "full" ELSE "fill"
        /\ prod.pc = "full"
    BY <1>2 DEF ReloadFront, TypeOK
  <2>2. /\ Beyond(q.front)' = 0
        /\ Beyond(q.consumerCachedBack)'
             = Beyond(q.consumerCachedBack) - Beyond(q.front)
        /\ Beyond(q.back)' = Beyond(q.back) - Beyond(q.front)
    BY <1>0, <2>1, DistZero, DistBetween DEF OrderInv, TypeOK
  <2>3. prod'.pc = "fill" => Beyond(q.back)' # Capacity
    BY <2>1 DEF ProducerSeesFull, BackInv, TypeOK
  <2> QED
    BY <1>0, <2>1, <2>2, <2>3, CapacityAssumption DEF OrderInv, TypeOK
<1>3. CASE FillBlock
  BY <1>3 DEF FillBlock, OrderInv, TypeOK
<1>4. CASE Push
  BY <1>4 DEF Push, OrderInv, TypeOK
<1>5. CASE PublishBack
  <2>1. /\ q' = [q EXCEPT !.back = prod.newBack]
        /\ prod'.pc = "idle"
        /\ prod.pc = "publish"
    BY <1>5 DEF PublishBack, TypeOK
  <2>2. q'.back = Inc(q.back)
    BY <2>1 DEF BackInv, TypeOK
  <2>3. Beyond(q.back)' = Beyond(q.back) + 1
    BY <1>0, <2>1, <2>2, DistInc DEF OrderInv, TypeOK
  <2> QED
    BY <1>0, <2>1, <2>3, CapacityAssumption DEF OrderInv, TypeOK
<1>6. CASE Empty
  BY <1>0, <1>6 DEF Empty, OrderInv, TypeOK
<1>7. CASE FrontBlock
  BY <1>7 DEF FrontBlock, OrderInv, TypeOK
<1>8. CASE ReloadBack
  BY <1>0, <1>8 DEF ReloadBack, OrderInv, TypeOK
<1>9. CASE ReadBlock
  BY <1>9 DEF ReadBlock, OrderInv, TypeOK
<1>10. CASE Pop
  <2>1. /\ q' = [q EXCEPT !.consumerCachedFront = Inc(q.consumerCachedFront),
                          !.front = Inc(q.consumerCachedFront)]
        /\ prod' = prod
        /\ cons.pc = "pop"
    BY <1>10 DEF Pop
  <2>2. Beyond(q.front) # Beyond(q.consumerCachedBack)
    <3>1. Dist(q.front, q.consumerCachedBack) # 0
      BY <1>0, <2>1, DistZero DEF OrderInv, BlockInv
    <3> QED
      BY <1>0, <3>1, DistBetween DEF OrderInv
  <2>3. Beyond(q.front) < Capacity
    BY <1>0, <2>2, CapacityAssumption DEF OrderInv
  <2>4. Beyond(q.front)' = Beyond(q.front) + 1
    BY <1>0, <2>1, <2>3, DistInc DEF OrderInv, TypeOK
  <2> QED
    BY <1>0, <2>1, <2>2, <2>4 DEF OrderInv, TypeOK
<1>11. CASE UNCHANGED vars
  BY <1>11 DEF vars, OrderInv
<1> QED
  BY <1>1, <1>2, <1>3, <1>4, <1>5, <1>6, <1>7, <1>8, <1>9, <1>10, <1>11
     DEF Next, Producer, Consumer

\* The block being read keeps its packet, whatever the producer writes.
LEMMA BlockStep ==
  ASSUME TypeOK, BackInv, OrderInv, BlockInv, [Next]_vars
  PROVE  BlockInv'
<1>1. ASSUME NEW p \in Payload, NewBlock(p)
      PROVE  BlockInv'
  BY <1>1 DEF NewBlock, BlockInv, TypeOK
<1>2. CASE ReloadFront
  BY <1>2 DEF ReloadFront, BlockInv, TypeOK
<1>3. CASE FillBlock
  <2>1. /\ prod.pc = "fill"
        /\ block' = [block EXCEPT ![Slot(q.back)] = prod.pkt]
        /\ prod' = [prod EXCEPT !.pc = "push"]
        /\ UNCHANGED << q, cons >>
    BY <1>3 DEF FillBlock, BackInv
  <2>2. Slot(q.back) \in Slots /\ Slot(q.front) \in Slots
    BY SlotType DEF TypeOK
  <2>3. block'[Slot(q.back)] = prod.pkt
    BY <2>1, <2>2 DEF TypeOK
  <2>4. ASSUME cons.pc = "pop"
        PROVE  cons.pkt = block'[Slot(q.front)]
    <3>1. Slot(q.front) # Slot(q.back)
      BY <2>1, <2>4, FrontNotBack DEF BlockInv
    <3> QED
      BY <2>1, <2>2, <2>4, <3>1 DEF BlockInv, TypeOK
  <2> QED
    BY <2>1, <2>3, <2>4 DEF BlockInv, TypeOK
<1>4. CASE Push
  BY <1>4 DEF Push, BlockInv, TypeOK
<1>5. CASE PublishBack
  BY <1>5 DEF PublishBack, BlockInv, TypeOK
<1>6. CASE Empty
  BY <1>6 DEF Empty, BlockInv, TypeOK
<1>7. CASE FrontBlock
  BY <1>7 DEF FrontBlock, ConsumerSeesEmpty, BlockInv, TypeOK
<1>8. CASE ReloadBack
  BY <1>8 DEF ReloadBack, ConsumerSeesEmpty, BlockInv, TypeOK
<1>9. CASE ReadBlock
  BY <1>9 DEF ReadBlock, OrderInv, BlockInv, TypeOK
<1>10. CASE Pop
  BY <1>10 DEF Pop, BlockInv, TypeOK
<1>11. CASE UNCHANGED vars
  BY <1>11 DEF vars, BlockInv
<1> QED
  BY <1>1, <1>2, <1>3, <1>4, <1>5, <1>6, <1>7, <1>8, <1>9, <1>10, <1>11
     DEF Next, Producer, Consumer

\* One step of either side, all parts together.
LEMMA IInvStep ==
  ASSUME IInv, [Next]_vars
  PROVE  IInv'
BY TypeStep, BackStep, OrderStep, BlockStep DEF IInv

\* The inductive invariant holds of every reachable state.
LEMMA Inductive == Spec => [](TypeOK /\ BackInv /\ OrderInv /\ BlockInv)
<1>1. Init => TypeOK /\ BackInv /\ OrderInv /\ BlockInv
  BY InitIInv DEF IInv
<1>2. BackInv /\ OrderInv /\ BlockInv /\ TypeOK /\ TypeOK' /\ [Next]_vars
        => BackInv' /\ OrderInv' /\ BlockInv'
  BY BackStep, OrderStep, BlockStep
<1> QED
  BY <1>1, <1>2, TypeCorrect, PTL DEF Spec
-----------------------------------------------------------------------------
(* What the invariant gives the users of the ring.                          *)

\* The held packets, counted from the producer's copy of front.
LEMMA HeldCount ==
  ASSUME TypeOK, OrderInv
  PROVE  /\ Dist(q.front, q.back) = Beyond(q.back) - Beyond(q.front)
         /\ Dist(q.front, q.back) \in Nat
         /\ Beyond(q.front) \in Nat
         /\ Beyond(q.back) \in Nat
<1>1. /\ q.front \in Word /\ q.back \in Word /\ q.consumerCachedBack \in Word
      /\ q.producerCachedFront \in Word
  BY DEF TypeOK
<1>2. /\ Beyond(q.front) \in Nat
      /\ Beyond(q.consumerCachedBack) \in Nat
      /\ Beyond(q.back) \in Nat
      /\ Dist(q.front, q.back) \in Nat
  BY <1>1, DistType DEF Beyond
<1>3. Beyond(q.front) <= Beyond(q.back)
  BY <1>2 DEF OrderInv
<1> QED
  BY <1>1, <1>2, <1>3, DistBetween DEF Beyond

(* spsc_new_block never hands out a block beyond the capacity of the ring:  *)
(* stale copies of the other side's index only make a side wait longer.     *)
THEOREM NeverOverrun == Spec => []NoOverrun
<1>1. TypeOK /\ OrderInv => NoOverrun
  BY HeldCount, CapacityAssumption DEF OrderInv, NoOverrun
<1> QED
  BY <1>1, Inductive, PTL

(* The producer's memcpy into a block and the consumer's memcpy out of one  *)
(* never touch the same block.                                              *)
THEOREM BlocksExclusive == Spec => []BlockExclusion
<1>1. TypeOK /\ BackInv /\ OrderInv /\ BlockInv => BlockExclusion
  BY FrontNotBack DEF BlockExclusion, BackInv, OrderInv, BlockInv
<1> QED
  BY <1>1, Inductive, PTL

\* What the consumer has read is the head of what the ring holds.
LEMMA OldestHeld ==
  ASSUME TypeOK, OrderInv, BlockInv, cons.pc = "pop"
  PROVE  Contents # << >> /\ Head(Contents) = cons.pkt
<1> DEFINE n == Dist(q.front, q.back)
           held(i) == block[Slot((q.front + i - 1) % WordSize)]
<1>1. /\ q.front \in Word /\ q.back \in Word /\ q.consumerCachedBack \in Word
      /\ q.producerCachedFront \in Word
  BY DEF TypeOK
<1>2. n \in Nat /\ n > 0
  <2>1. Dist(q.front, q.consumerCachedBack) # 0
    BY <1>1, DistZero DEF OrderInv, BlockInv
  <2>2. /\ Beyond(q.consumerCachedBack) \in Nat
        /\ Dist(q.front, q.consumerCachedBack)
             = Beyond(q.consumerCachedBack) - Beyond(q.front)
    BY <1>1, DistType, DistBetween DEF OrderInv, Beyond
  <2> QED
    BY <2>1, <2>2, HeldCount DEF OrderInv
<1>3. Contents = [i \in 1 .. n |-> held(i)]
  BY DEF Contents
<1>4. held(1) = block[Slot(q.front)]
  <2>1. (q.front + 1 - 1) % WordSize = q.front
    BY <1>1, WordSizePositive, ModBelow DEF Word
  <2> QED
    BY <2>1
<1> HIDE DEF n, held
<1>5. Contents # << >>
  BY <1>2, <1>3
<1>6. Head(Contents) = held(1)
  BY <1>2, <1>3
<1> QED
  BY <1>4, <1>5, <1>6 DEF BlockInv

(* spsc_front_block hands the consumer the oldest packet that was pushed    *)
(* and not popped, and that packet stays in its block until spsc_pop.       *)
THEOREM OldestIsRead == Spec => []ReadsOldest
<1>1. TypeOK /\ OrderInv /\ BlockInv => ReadsOldest
  BY OldestHeld DEF ReadsOldest
<1> QED
  BY <1>1, Inductive, PTL
-----------------------------------------------------------------------------
(* The ring implements the bounded channel.                                 *)

\* The i-th index from f on, and how far it still is from b.
Nth(f, i) == (f + i - 1) % WordSize

\* The i-th held index, with and without a wrap.
LEMMA NthValue ==
  ASSUME NEW f \in Word, NEW i \in 1 .. WordSize
  PROVE  /\ Nth(f, i) = IF f + i - 1 < WordSize THEN f + i - 1
                                               ELSE f + i - 1 - WordSize
         /\ Nth(f, i) \in Word
<1>1. CASE f + i - 1 < WordSize
  BY <1>1, WordSizePositive, ModBelow DEF Nth, Word
<1>2. CASE ~(f + i - 1 < WordSize)
  <2> DEFINE x == f + i - 1
  <2>1. /\ x \in Nat
        /\ WordSize <= x
        /\ x < 2 * WordSize
        /\ x - WordSize \in Word
    BY <1>2, WordSizePositive DEF Word
  <2>2. Nth(f, i) = x % WordSize
    BY DEF Nth
  <2> HIDE DEF x
  <2>3. x % WordSize = x - WordSize
    BY <2>1, WordSizePositive, ModAbove
  <2> QED
    BY <1>2, <2>1, <2>2, <2>3, WordSizePositive DEF x, Word
<1> QED
  BY <1>1, <1>2

\* How far the i-th held index still is from back.
LEMMA NthDist ==
  ASSUME NEW f \in Word, NEW b \in Word, NEW i \in 1 .. Dist(f, b)
  PROVE  Dist(Nth(f, i), b) = Dist(f, b) - i + 1
<1>1. Dist(f, b) = IF f <= b THEN b - f ELSE b - f + WordSize
  BY DistValue
<1>2. Dist(f, b) \in Nat /\ Dist(f, b) < WordSize
  BY DistType
<1>3. /\ Nth(f, i) = IF f + i - 1 < WordSize THEN f + i - 1
                                            ELSE f + i - 1 - WordSize
      /\ Nth(f, i) \in Word
  BY <1>2, NthValue, WordSizePositive
<1>4. Dist(Nth(f, i), b) = IF Nth(f, i) <= b THEN b - Nth(f, i)
                                            ELSE b - Nth(f, i) + WordSize
  BY <1>3, DistValue
<1> QED
  BY <1>1, <1>2, <1>3, <1>4, WordSizePositive DEF Word

\* The index after the last held one is back.
LEMMA NthEnd ==
  ASSUME NEW f \in Word, NEW b \in Word
  PROVE  Nth(f, Dist(f, b) + 1) = b
<1>1. Dist(f, b) = IF f <= b THEN b - f ELSE b - f + WordSize
  BY DistValue
<1>2. Dist(f, b) + 1 \in 1 .. WordSize
  BY DistType, WordSizePositive
<1>3. Nth(f, Dist(f, b) + 1)
        = IF f + (Dist(f, b) + 1) - 1 < WordSize
          THEN f + (Dist(f, b) + 1) - 1
          ELSE f + (Dist(f, b) + 1) - 1 - WordSize
  BY <1>2, NthValue
<1> QED
  BY <1>1, <1>3, WordSizePositive DEF Word

\* After a pop the i-th held index is what was the next one.
LEMMA NthInc ==
  ASSUME NEW f \in Word, NEW i \in 1 .. WordSize - 1
  PROVE  Nth(Inc(f), i) = Nth(f, i + 1)
<1>1. Inc(f) \in Word /\ Inc(f) = IF f = WordSize - 1 THEN 0 ELSE f + 1
  BY IncType, IncValue
<1>2. Nth(f, i + 1) = IF f + (i + 1) - 1 < WordSize THEN f + (i + 1) - 1
                                                  ELSE f + (i + 1) - 1 - WordSize
  BY NthValue, WordSizePositive
<1>3. Nth(Inc(f), i) = IF Inc(f) + i - 1 < WordSize THEN Inc(f) + i - 1
                                                   ELSE Inc(f) + i - 1 - WordSize
  BY <1>1, NthValue, WordSizePositive
<1> QED
  BY <1>1, <1>2, <1>3, WordSizePositive DEF Word

PktInv == prod.pc # "idle" => prod.pkt \in Payload

\* While the producer has a block in hand its packet is a real one.
LEMMA PktStep ==
  ASSUME TypeOK, PktInv, [Next]_vars
  PROVE  PktInv'
BY DEF TypeOK, PktInv, Next, vars, Producer, Consumer, NewBlock, ReloadFront,
         FillBlock, Push, PublishBack, Empty, FrontBlock, ReloadBack, ReadBlock, Pop

\* From the first call of spsc_new_block on.
LEMMA PktCorrect == Spec => []PktInv
<1>1. Init => PktInv
  BY DEF Init, PktInv
<1>2. TypeOK /\ PktInv /\ [Next]_vars => PktInv'
  BY PktStep
<1> QED
  BY <1>1, <1>2, TypeCorrect, PTL DEF Spec

\* What the ring holds, index by index.
LEMMA ContentsForm ==
  Contents = [i \in 1 .. Dist(q.front, q.back) |-> block[Slot(Nth(q.front, i))]]
BY DEF Contents, Nth

\* What the ring holds is a sequence, as long as from the one index to the other.
LEMMA ContentsType ==
  ASSUME TypeOK
  PROVE  /\ Contents \in Seq(Payload \cup {Garbage})
         /\ Len(Contents) = Dist(q.front, q.back)
<1>1. /\ q.front \in Word /\ q.back \in Word
  BY DEF TypeOK
<1>2. Dist(q.front, q.back) \in Nat /\ Dist(q.front, q.back) < WordSize
  BY <1>1, DistType
<1>3. ASSUME NEW i \in 1 .. Dist(q.front, q.back)
      PROVE  block[Slot(Nth(q.front, i))] \in Payload \cup {Garbage}
  <2>1. Nth(q.front, i) \in Word
    BY <1>1, <1>2, NthValue, WordSizePositive
  <2> QED
    BY <2>1, SlotType DEF TypeOK
<1>4. Contents = [i \in 1 .. Dist(q.front, q.back) |-> block[Slot(Nth(q.front, i))]]
  BY ContentsForm
<1> QED
  BY <1>2, <1>3, <1>4

(* A step that moves neither index and writes no held block shows nothing.  *)
LEMMA ContentsSame ==
  ASSUME UNCHANGED block, q'.front = q.front, q'.back = q.back
  PROVE  Contents' = Contents
BY DEF Contents, Dist, Slot

(* Filling the next free block leaves the held packets alone. *)
LEMMA FillShowsNothing ==
  ASSUME TypeOK, BackInv, OrderInv, FillBlock
  PROVE  Contents' = Contents
<1> DEFINE n == Dist(q.front, q.back)
<1>1. /\ q.front \in Word /\ q.back \in Word
      /\ prod.pc = "fill" /\ q' = q
      /\ block' = [block EXCEPT ![Slot(q.back)] = prod.pkt]
  BY DEF TypeOK, FillBlock, BackInv
<1>2. n \in Nat /\ n < Capacity /\ n < WordSize
  BY <1>1, HeldCount, CapacityAssumption, WordSizePositive DEF OrderInv
<1>3. ASSUME NEW i \in 1 .. n
      PROVE  block'[Slot(Nth(q.front, i))] = block[Slot(Nth(q.front, i))]
  <2>1. Nth(q.front, i) \in Word
    BY <1>1, <1>2, NthValue, WordSizePositive
  <2>2. Dist(Nth(q.front, i), q.back) = n - i + 1
    BY <1>1, NthDist
  <2>3. Slot(Nth(q.front, i)) # Slot(q.back)
    BY <1>1, <1>2, <2>1, <2>2, SlotApart, CapacityAssumption
  <2>4. Slot(Nth(q.front, i)) \in Slots
    BY <2>1, SlotType
  <2> QED
    BY <1>1, <2>3, <2>4 DEF TypeOK
<1>4. Contents = [i \in 1 .. n |-> block[Slot(Nth(q.front, i))]]
  BY ContentsForm
<1>5. Contents' = [i \in 1 .. n |-> block'[Slot(Nth(q.front, i))]]
  BY <1>1 DEF Contents, Nth, Dist, Slot
<1> HIDE DEF n
<1> QED
  BY <1>3, <1>4, <1>5

(* The release store of spsc_push appends the packet. *)
LEMMA PublishPuts ==
  ASSUME TypeOK, BackInv, OrderInv, BlockInv, PublishBack
  PROVE  /\ Len(Contents) < Capacity
         /\ Contents' = Append(Contents, prod.pkt)
<1> DEFINE n == Dist(q.front, q.back)
           at(i) == block[Slot(Nth(q.front, i))]
<1>1. /\ q.front \in Word /\ q.back \in Word
      /\ prod.pc = "publish" /\ block' = block
      /\ q'.front = q.front
      /\ q'.back = Inc(q.back)
  BY DEF TypeOK, PublishBack, BackInv
<1>2. n \in Nat /\ n < Capacity
  BY <1>1, HeldCount, CapacityAssumption DEF OrderInv
<1>3. Dist(q'.front, q'.back) = n + 1
  BY <1>1, <1>2, DistInc
<1>4. Nth(q.front, n + 1) = q.back
  BY <1>1, NthEnd
<1>5. at(n + 1) = prod.pkt
  BY <1>1, <1>4 DEF BlockInv
<1>6. Contents = [i \in 1 .. n |-> at(i)]
  BY ContentsForm
<1>7. Contents' = [i \in 1 .. n + 1 |-> at(i)]
  BY <1>1, <1>3 DEF Contents, Nth, Slot
<1>8. Contents \in Seq(Payload \cup {Garbage}) /\ Len(Contents) = n
  BY ContentsType
<1> HIDE DEF n, at
<1> QED
  BY <1>2, <1>5, <1>6, <1>7, <1>8

(* The release store of spsc_pop removes the oldest packet. *)
LEMMA PopGets ==
  ASSUME TypeOK, OrderInv, BlockInv, Pop
  PROVE  /\ Contents # << >>
         /\ Contents' = Tail(Contents)
<1> DEFINE n == Dist(q.front, q.back)
           at(i) == block[Slot(Nth(q.front, i))]
<1>1. /\ q.front \in Word /\ q.back \in Word /\ q.consumerCachedBack \in Word
      /\ q.producerCachedFront \in Word
      /\ cons.pc = "pop" /\ block' = block
      /\ q'.front = Inc(q.front)
      /\ q'.back = q.back
  BY DEF TypeOK, Pop, OrderInv
<1>2. n \in Nat /\ n > 0 /\ n < WordSize
  <2>1. Dist(q.front, q.consumerCachedBack) # 0
    BY <1>1, DistZero DEF OrderInv, BlockInv
  <2>2. /\ Beyond(q.consumerCachedBack) \in Nat
        /\ Dist(q.front, q.consumerCachedBack)
             = Beyond(q.consumerCachedBack) - Beyond(q.front)
    BY <1>1, DistType, DistBetween DEF OrderInv, Beyond
  <2> QED
    BY <1>1, <2>1, <2>2, HeldCount, DistType DEF OrderInv
<1>3. Dist(Inc(q.front), q.back) = n - 1
  <2>1. Nth(q.front, 2) = Inc(q.front)
    BY <1>1 DEF Nth, Inc, Word
  <2>2. CASE n = 1
    <3>1. Nth(q.front, 2) = q.back
      BY <1>1, <2>2, NthEnd
    <3> QED
      BY <1>1, <2>1, <2>2, <3>1, DistZero
  <2>3. CASE n # 1
    <3>1. 2 \in 1 .. n
      BY <1>2, <2>3
    <3> QED
      BY <1>1, <1>2, <2>1, <3>1, NthDist
  <2> QED
    BY <2>2, <2>3
<1>4. ASSUME NEW i \in 1 .. n - 1
      PROVE  block'[Slot(Nth(q'.front, i))] = at(i + 1)
  <2>1. i \in 1 .. WordSize - 1
    BY <1>2, WordSizePositive
  <2> QED
    BY <1>1, <2>1, NthInc
<1>5. Contents = [i \in 1 .. n |-> at(i)]
  BY ContentsForm
<1>6. Contents' = [i \in 1 .. n - 1 |-> block'[Slot(Nth(q'.front, i))]]
  BY <1>1, <1>3 DEF Contents, Nth, Slot
<1>7. Contents \in Seq(Payload \cup {Garbage}) /\ Len(Contents) = n
  BY ContentsType
<1> HIDE DEF n, at
<1> QED
  BY <1>2, <1>4, <1>5, <1>6, <1>7

\* Only the two release stores change what the ring holds.
LEMMA Unseen ==
  ASSUME TypeOK, BackInv, OrderInv,
         \/ \E p \in Payload : NewBlock(p)
         \/ ReloadFront \/ FillBlock \/ Push
         \/ Empty \/ FrontBlock \/ ReloadBack \/ ReadBlock
         \/ UNCHANGED vars
  PROVE  Contents' = Contents
<1>1. ASSUME NEW p \in Payload, NewBlock(p)
      PROVE  Contents' = Contents
  BY <1>1, ContentsSame DEF NewBlock
<1>2. CASE ReloadFront
  BY <1>2, ContentsSame DEF ReloadFront, TypeOK
<1>3. CASE FillBlock
  BY <1>3, FillShowsNothing
<1>4. CASE Push
  BY <1>4, ContentsSame DEF Push, TypeOK
<1>5. CASE Empty
  BY <1>5, ContentsSame DEF Empty, TypeOK
<1>6. CASE FrontBlock
  BY <1>6, ContentsSame DEF FrontBlock
<1>7. CASE ReloadBack
  BY <1>7, ContentsSame DEF ReloadBack, TypeOK
<1>8. CASE ReadBlock
  BY <1>8, ContentsSame DEF ReadBlock
<1>9. CASE UNCHANGED vars
  BY <1>9, ContentsSame DEF vars
<1> QED
  BY <1>1, <1>2, <1>3, <1>4, <1>5, <1>6, <1>7, <1>8, <1>9

(* The ring is the bounded first-in first-out channel of BoundedFifo: only  *)
(* the two release stores show, the rest of spsc_push, spsc_new_block,      *)
(* spsc_empty, spsc_front_block and spsc_pop are steps nobody can observe.  *)
THEOREM RingIsFifo == Spec => ImplementsFifo
<1>1. Init => Fifo!Init
  <2> SUFFICES ASSUME Init
               PROVE  Contents = << >>
    BY DEF Fifo!Init
  <2>1. q.front = 0 /\ q.back = 0 /\ 0 \in Word
    BY WordSizePositive, CapacityAssumption DEF Init, EmptyRing, Word
  <2>2. Dist(q.front, q.back) = 0
    BY <2>1, DistZero
  <2> QED
    BY <2>2 DEF Contents
<1>2. /\ TypeOK /\ BackInv /\ OrderInv /\ BlockInv /\ PktInv
      /\ [Next]_vars
      => [Fifo!Next]_Contents
  <2> SUFFICES ASSUME TypeOK, BackInv, OrderInv, BlockInv, PktInv, [Next]_vars
               PROVE  [Fifo!Next]_Contents
    OBVIOUS
  <2>1. CASE PublishBack
    <3>1. prod.pkt \in Payload
      BY <2>1 DEF PublishBack, PktInv
    <3>2. Fifo!Put(prod.pkt)
      BY <2>1, PublishPuts DEF Fifo!Put
    <3> QED
      BY <3>1, <3>2 DEF Fifo!Next
  <2>2. CASE Pop
    BY <2>2, PopGets DEF Fifo!Get, Fifo!Next
  <2> QED
    BY <2>1, <2>2, Unseen DEF Next, Producer, Consumer
<1> QED
  BY <1>1, <1>2, TypeCorrect, Inductive, PktCorrect, PTL
     DEF Spec, ImplementsFifo, Fifo!Spec
-----------------------------------------------------------------------------
(* What a program that uses a ring needs to know of its operations: what    *)
(* they do to what the ring holds, and where they leave the two sides.      *)

UserInv == IInv /\ PktInv

\* It holds of a ring that spsc_init has just made.
LEMMA InitUser == Init => UserInv /\ Contents = << >>
<1> SUFFICES ASSUME Init
             PROVE  UserInv /\ Contents = << >>
  OBVIOUS
<1>1. q.front = 0 /\ q.back = 0 /\ 0 \in Word
  BY WordSizePositive, CapacityAssumption DEF Init, EmptyRing, Word
<1>2. Dist(q.front, q.back) = 0
  BY <1>1, DistZero
<1> QED
  BY <1>2, InitIInv DEF Contents, UserInv, PktInv, Init

\* It is kept by whatever either side does.
LEMMA UserStep ==
  ASSUME UserInv, [Next]_vars
  PROVE  UserInv'
BY IInvStep, PktStep DEF UserInv, IInv

\* What the ring holds is a sequence.
LEMMA UserContents ==
  ASSUME UserInv
  PROVE  Contents \in Seq(Payload \cup {Garbage}) /\ Len(Contents) <= Capacity
BY ContentsType, HeldCount, CapacityAssumption DEF UserInv, IInv, OrderInv

\* Nobody sees a packet before the release store of spsc_push.
LEMMA UserWrites ==
  ASSUME UserInv, NEW p \in Payload,
         NewBlock(p) \/ ReloadFront \/ FillBlock \/ Push,
         prod.pc # "idle" => prod.pkt = p
  PROVE  /\ UserInv' /\ Contents' = Contents
         /\ cons' = cons /\ prod'.pkt = p
<1>1. UserInv' /\ Contents' = Contents
  BY UserStep, Unseen DEF UserInv, IInv, Next, Producer
<1>2. cons' = cons /\ prod'.pkt = p
  BY DEF NewBlock, ReloadFront, FillBlock, Push, UserInv, IInv, TypeOK
<1> QED
  BY <1>1, <1>2

\* The release store of spsc_push ends the producer's turn.
LEMMA UserPublishes ==
  ASSUME UserInv, PublishBack
  PROVE  /\ UserInv' /\ Contents' = Append(Contents, prod.pkt)
         /\ cons' = cons /\ prod.pc # "idle" /\ prod'.pc = "idle"
<1>1. UserInv' /\ Contents' = Append(Contents, prod.pkt)
  BY UserStep, PublishPuts DEF UserInv, IInv, Next, Producer
<1>2. cons' = cons /\ prod.pc # "idle" /\ prod'.pc = "idle"
  BY DEF PublishBack, UserInv, IInv, TypeOK
<1> QED
  BY <1>1, <1>2

\* spsc_empty tells whether the ring is empty.
LEMMA UserTests ==
  ASSUME UserInv, Empty
  PROVE  /\ UserInv' /\ Contents' = Contents
         /\ prod' = prod /\ cons' = cons /\ cons.pc = "idle"
         /\ ConsumerSeesEmpty(q') <=> Contents = << >>
<1>1. UserInv' /\ Contents' = Contents
  BY UserStep, Unseen DEF UserInv, IInv, Next, Consumer
<1>2. prod' = prod /\ cons' = cons /\ cons.pc = "idle"
  BY DEF Empty
<1>3. ConsumerSeesEmpty(q') <=> q.back = q.front
  BY DEF Empty, ConsumerSeesEmpty, UserInv, IInv, TypeOK, OrderInv
<1>4. q.back = q.front <=> Dist(q.front, q.back) = 0
  BY DistZero DEF UserInv, IInv, TypeOK
<1>5. /\ Contents \in Seq(Payload \cup {Garbage})
      /\ Len(Contents) = Dist(q.front, q.back)
  BY ContentsType DEF UserInv, IInv
<1> QED
  BY <1>1, <1>2, <1>3, <1>4, <1>5

\* spsc_front_block takes nothing out.
LEMMA UserFronts ==
  ASSUME UserInv, FrontBlock \/ ReloadBack
  PROVE  /\ UserInv' /\ Contents' = Contents
         /\ prod' = prod /\ cons.pc # "pop" /\ cons'.pc # "pop"
<1>1. UserInv' /\ Contents' = Contents
  BY UserStep, Unseen DEF UserInv, IInv, Next, Consumer
<1>2. prod' = prod /\ cons.pc # "pop" /\ cons'.pc # "pop"
  BY DEF FrontBlock, ReloadBack, UserInv, IInv, TypeOK
<1> QED
  BY <1>1, <1>2

\* The same of the next state.
LEMMA OldestNext == (TypeOK /\ OrderInv /\ BlockInv)' => ReadsOldest'
<1>1. TypeOK /\ OrderInv /\ BlockInv => ReadsOldest
  BY OldestHeld DEF ReadsOldest
<1> QED
  BY <1>1, PTL

\* The block it returns holds the oldest packet.
LEMMA UserReads ==
  ASSUME UserInv, ReadBlock
  PROVE  /\ UserInv' /\ Contents' = Contents
         /\ prod' = prod /\ cons.pc = "read" /\ cons'.pc = "pop"
         /\ Contents # << >> /\ cons'.pkt = Head(Contents)
<1>1. UserInv' /\ Contents' = Contents
  BY UserStep, Unseen DEF UserInv, IInv, Next, Consumer
<1>2. prod' = prod /\ cons.pc = "read" /\ cons'.pc = "pop"
  BY DEF ReadBlock, UserInv, IInv, TypeOK
<1>3. ReadsOldest'
  BY <1>1, OldestNext DEF UserInv, IInv
<1> QED
  BY <1>1, <1>2, <1>3 DEF ReadsOldest

\* spsc_pop takes it out.
LEMMA UserPops ==
  ASSUME UserInv, Pop
  PROVE  /\ UserInv' /\ Contents' = Tail(Contents)
         /\ prod' = prod /\ cons.pc = "pop" /\ cons'.pc = "idle"
         /\ Contents # << >> /\ cons.pkt = Head(Contents)
<1>1. UserInv' /\ Contents' = Tail(Contents)
  BY UserStep, PopGets DEF UserInv, IInv, Next, Consumer
<1>2. prod' = prod /\ cons.pc = "pop" /\ cons'.pc = "idle"
  BY DEF Pop, UserInv, IInv, TypeOK
<1> QED
  BY <1>1, <1>2, OldestHeld DEF UserInv, IInv
=============================================================================
