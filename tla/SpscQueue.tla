----------------------------- MODULE SpscQueue -----------------------------
(***************************************************************************)
(* The single-producer single-consumer ring of util/spsc_queue.h, one      *)
(* memory access per step.                                                 *)
(*                                                                         *)
(* The producer's turn is spsc_new_block, which spins on a full ring;      *)
(* filling the block it returned; and spsc_push.  The consumer's turn is   *)
(* spsc_empty or spsc_front_block, which spins on an empty ring; reading   *)
(* the block; and spsc_pop.  front and back are the shared indices: 64-bit *)
(* words that are never reduced to the ring and wrap at WordSize.  Each    *)
(* side works on its own cached copies of both and reads the other side's  *)
(* index only when its copy says that the ring is full or empty.           *)
(*                                                                         *)
(* The loads and stores are sequentially consistent here: each release     *)
(* store is paired with an acquire load, or with the acquire fence after   *)
(* the relaxed load of a spin loop.                                        *)
(***************************************************************************)
EXTENDS Integers, Sequences

CONSTANTS
  Capacity,   \* 1 << log2Capacity
  WordSize,   \* 2^64: the indices are uint64_t
  Payload,    \* packets
  Garbage     \* what a block holds before its first use

ASSUME CapacityAssumption == Capacity \in Nat \ {0}

\* 1 << log2Capacity divides 2^64 and, as log2Capacity < 64, is not 2^64.
ASSUME WordAssumption ==
  WordSize \in Nat /\ WordSize > Capacity /\ WordSize % Capacity = 0

ASSUME GarbageAssumption == Garbage \notin Payload

VARIABLES
  q,          \* the indices of spsc_queue_t
  block,      \* the blocks from q->begin on
  prod,       \* the producer: where it is, its packet, the index it publishes
  cons        \* the consumer: where it is, the packet it has read

vars == << q, block, prod, cons >>

Word == 0 .. WordSize - 1
Slots == 0 .. Capacity - 1

\* Definitions named Bug... are not part of the specification.  Each is the
\* next definition with a mistake that its code could contain: put in its
\* place, it breaks one of the properties at the end of the module.

\* an index that outgrows its word
BugIncWide(i) == i + 1

\* uint64_t increment and difference
Inc(i) == (i + 1) % WordSize
Dist(i, j) == (j - i) % WordSize

\* index & (capacity - 1)
Slot(i) == i % Capacity

EmptyRing ==
  [front |-> 0, consumerCachedFront |-> 0, producerCachedFront |-> 0,
   back  |-> 0, consumerCachedBack  |-> 0, producerCachedBack  |-> 0]

\* one block too many
BugFullLate(r) ==
  Dist(r.producerCachedFront, r.producerCachedBack) = Capacity + 1

\* ring positions compared in place of indices: a full ring looks empty
BugFullMasked(r) ==
  Slot(r.producerCachedBack) - Slot(r.producerCachedFront) = Capacity

\* The two conditions of the spin loops, on the caches alone.
ProducerSeesFull(r) ==
  Dist(r.producerCachedFront, r.producerCachedBack) = Capacity

ConsumerSeesEmpty(r) == r.consumerCachedBack = r.consumerCachedFront

TypeOK ==
  /\ q \in [front : Word, consumerCachedFront : Word, producerCachedFront : Word,
            back : Word, consumerCachedBack : Word, producerCachedBack : Word]
  /\ block \in [Slots -> Payload \cup {Garbage}]
  /\ prod \in [pc : {"idle", "full", "fill", "push", "publish"},
               pkt : Payload \cup {Garbage}, newBack : Word]
  /\ cons \in [pc : {"idle", "empty", "read", "pop"},
               pkt : Payload \cup {Garbage}]

(* spsc_init zeroes the six indices; the blocks keep what was there. *)
Init ==
  /\ q = EmptyRing
  /\ block = [s \in Slots |-> Garbage]
  /\ prod = [pc |-> "idle", pkt |-> Garbage, newBack |-> 0]
  /\ cons = [pc |-> "idle", pkt |-> Garbage]
-----------------------------------------------------------------------------
(* The producer. *)

\* spsc_new_block: the test before the first pause
NewBlock(p) ==
  /\ prod.pc = "idle"
  /\ prod' = [prod EXCEPT !.pc = IF ProducerSeesFull(q) THEN "full" ELSE "fill",
                          !.pkt = p]
  /\ UNCHANGED << q, block, cons >>

\* the loop tests again what it already knows
BugNoReloadFront ==
  /\ prod.pc = "full"
  /\ prod' = [prod EXCEPT !.pc = IF ProducerSeesFull(q) THEN "full" ELSE "fill"]
  /\ UNCHANGED << q, block, cons >>

\* spsc_new_block: one round of the spin loop
ReloadFront ==
  /\ prod.pc = "full"
  /\ q' = [q EXCEPT !.producerCachedFront = q.front]
  /\ prod' = [prod EXCEPT !.pc = IF ProducerSeesFull(q') THEN "full" ELSE "fill"]
  /\ UNCHANGED << block, cons >>

\* the block after the one the index stands for
BugFillNext ==
  /\ prod.pc = "fill"
  /\ block' = [block EXCEPT ![Slot(Inc(q.producerCachedBack))] = prod.pkt]
  /\ prod' = [prod EXCEPT !.pc = "push"]
  /\ UNCHANGED << q, cons >>

\* the caller writes its packet to the block spsc_new_block returned
FillBlock ==
  /\ prod.pc = "fill"
  /\ block' = [block EXCEPT ![Slot(q.producerCachedBack)] = prod.pkt]
  /\ prod' = [prod EXCEPT !.pc = "push"]
  /\ UNCHANGED << q, cons >>

\* spsc_push: ++producerCachedBack, whose value stays in a register
Push ==
  /\ prod.pc = "push"
  /\ q' = [q EXCEPT !.producerCachedBack = Inc(q.producerCachedBack)]
  /\ prod' = [prod EXCEPT !.pc = "publish", !.newBack = Inc(q.producerCachedBack)]
  /\ UNCHANGED << block, cons >>

\* spsc_push: the release store
PublishBack ==
  /\ prod.pc = "publish"
  /\ q' = [q EXCEPT !.back = prod.newBack]
  /\ prod' = [prod EXCEPT !.pc = "idle"]
  /\ UNCHANGED << block, cons >>

Producer ==
  \/ \E p \in Payload : NewBlock(p)
  \/ ReloadFront \/ FillBlock \/ Push \/ PublishBack
-----------------------------------------------------------------------------
(* The consumer. *)

\* spsc_empty refreshes the cached back whatever it returns
Empty ==
  /\ cons.pc = "idle"
  /\ q' = [q EXCEPT !.consumerCachedBack = q.back]
  /\ UNCHANGED << block, prod, cons >>

\* spsc_front_block: the test before the first pause
FrontBlock ==
  /\ cons.pc = "idle"
  /\ cons' = [cons EXCEPT !.pc = IF ConsumerSeesEmpty(q) THEN "empty" ELSE "read"]
  /\ UNCHANGED << q, block, prod >>

\* spsc_front_block: one round of the spin loop
ReloadBack ==
  /\ cons.pc = "empty"
  /\ q' = [q EXCEPT !.consumerCachedBack = q.back]
  /\ cons' = [cons EXCEPT !.pc = IF ConsumerSeesEmpty(q') THEN "empty" ELSE "read"]
  /\ UNCHANGED << block, prod >>

\* the newest packet in place of the oldest
BugReadNewest ==
  /\ cons.pc = "read"
  /\ cons' = [cons EXCEPT !.pc = "pop",
                          !.pkt = block[Slot(q.consumerCachedBack + WordSize - 1)]]
  /\ UNCHANGED << q, block, prod >>

\* the caller reads the block spsc_front_block returned
ReadBlock ==
  /\ cons.pc = "read"
  /\ cons' = [cons EXCEPT !.pc = "pop", !.pkt = block[Slot(q.consumerCachedFront)]]
  /\ UNCHANGED << q, block, prod >>

\* spsc_pop: nobody but the consumer reads consumerCachedFront
Pop ==
  /\ cons.pc = "pop"
  /\ q' = [q EXCEPT !.consumerCachedFront = Inc(q.consumerCachedFront),
                    !.front = Inc(q.consumerCachedFront)]
  /\ cons' = [cons EXCEPT !.pc = "idle"]
  /\ UNCHANGED << block, prod >>

Consumer == Empty \/ FrontBlock \/ ReloadBack \/ ReadBlock \/ Pop

Next == Producer \/ Consumer

Spec == Init /\ [][Next]_vars

(* Both loops pause with seL4_Yield, so each side keeps being scheduled.    *)
(* A producer that has begun a turn finishes it; it need not begin another. *)
Fairness ==
  /\ WF_vars(ReloadFront \/ FillBlock \/ Push \/ PublishBack)
  /\ WF_vars(FrontBlock \/ ReloadBack \/ ReadBlock \/ Pop)

FairSpec == Spec /\ Fairness
-----------------------------------------------------------------------------
(* Properties. *)

\* What the ring holds: the blocks from front up to, not including, back.
Contents ==
  [i \in 1 .. Dist(q.front, q.back) |-> block[Slot((q.front + i - 1) % WordSize)]]

(* The ring never holds more packets than it has blocks, however old the    *)
(* caches are on which spsc_new_block decides, also across the wrap of the  *)
(* indices.                                                                 *)
NoOverrun == Dist(q.front, q.back) <= Capacity

(* The block the producer writes is never the block the consumer reads: the *)
(* memcpy of the one and that of the other take no lock.                    *)
BlockExclusion ==
  ~ /\ prod.pc = "fill"
    /\ cons.pc \in {"read", "pop"}
    /\ Slot(q.producerCachedBack) = Slot(q.consumerCachedFront)

(* Between reading a block and spsc_pop the consumer holds the oldest       *)
(* unpopped packet, and the block it points into still holds that packet.   *)
ReadsOldest ==
  cons.pc = "pop" => Contents # << >> /\ Head(Contents) = cons.pkt

Fifo == INSTANCE BoundedFifo WITH chan <- Contents

(* The ring is a bounded first-in first-out channel: spsc_push appends the  *)
(* packet the producer wrote, spsc_pop removes the oldest one, and no other *)
(* step adds, drops, reorders or overwrites a packet.                       *)
ImplementsFifo == Fifo!Spec

(* A producer spinning on a full ring is handed a block as long as the      *)
(* consumer keeps consuming.                                                *)
FullProducerProceeds == prod.pc = "full" ~> prod.pc = "fill"
=============================================================================
