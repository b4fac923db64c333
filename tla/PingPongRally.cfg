\* Nothing fails and the guest stays quiet until PP has set up its rings:
\* everything that must happen happens, whatever the guest sends then.
SPECIFICATION FairSpec
CONSTANTS
  Capacity = 1
  WordSize = 4
  SetupCalls = 2
  ReplyBurst = 1
  KickBurst = 3
  MaxNoise = 2
  ReadyWrites = 2
  NoiseFrom = "rings"
  Faulty = FALSE
INVARIANTS
  NeverStuckTogether
PROPERTIES
  RingsFollowProtocol
  PingsKeepComing
