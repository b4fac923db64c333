---------------------------- MODULE BoundedFifo ----------------------------
(***************************************************************************)
(* What util/spsc_queue.h promises its two users: a lossless first-in      *)
(* first-out channel that never holds more than Capacity packets.          *)
(***************************************************************************)
EXTENDS Naturals, Sequences

CONSTANTS
  Capacity,   \* blocks in the ring, 1 << log2Capacity
  Payload     \* the packets that travel through it

VARIABLE chan \* the packets pushed and not yet popped, oldest first

Init == chan = << >>

Put(p) ==
  /\ Len(chan) < Capacity
  /\ chan' = Append(chan, p)

Get ==
  /\ chan # << >>
  /\ chan' = Tail(chan)

Next == (\E p \in Payload : Put(p)) \/ Get

Spec == Init /\ [][Next]_chan
=============================================================================
