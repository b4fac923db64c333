\* The guest transmits from its boot on, the agent answers in bursts, library
\* calls fail, virtIO drops packets and the guest may be stopped.
SPECIFICATION Spec
CONSTANTS
  Capacity = 1
  WordSize = 4
  SetupCalls = 2
  ReplyBurst = 2
  KickBurst = 2
  MaxNoise = 2
  ReadyWrites = 2
  NoiseFrom = "boot"
  Faulty = TRUE
INVARIANTS
  TypeOK
  NoLostWakeup
  AgentListens
  OneMessageInFlight
  NullRingOnlyByNoise
  
CHECK_DEADLOCK FALSE
