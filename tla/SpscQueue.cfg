SPECIFICATION FairSpec
CONSTANTS
  Capacity = 2
  WordSize = 8
  Payload = {p1, p2}
  Garbage = none
INVARIANTS
  TypeOK
  NoOverrun
  BlockExclusion
  ReadsOldest
PROPERTIES
  ImplementsFifo
  FullProducerProceeds
