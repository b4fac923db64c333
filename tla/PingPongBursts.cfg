\* The agent answers in bursts and the guest sends two packets of its own:
\* PP and VMM wait for one another, each for a block of a full ring.
SPECIFICATION FairSpec
CONSTANTS
  Capacity = 1
  WordSize = 4
  SetupCalls = 2
  ReplyBurst = 2
  KickBurst = 2
  MaxNoise = 2
  ReadyWrites = 1
  NoiseFrom = "rings"
  Faulty = FALSE
PROPERTIES
  FirstPingSent
CHECK_DEADLOCK FALSE
