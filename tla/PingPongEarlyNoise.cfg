\* One packet of the guest before it signals readiness: PP follows a null
\* pointer.
SPECIFICATION FairSpec
CONSTANTS
  Capacity = 1
  WordSize = 4
  SetupCalls = 1
  ReplyBurst = 1
  KickBurst = 1
  MaxNoise = 1
  ReadyWrites = 1
  NoiseFrom = "boot"
  Faulty = FALSE
PROPERTIES
  FirstPingSent
CHECK_DEADLOCK FALSE
