SPECIFICATION Spec
CONSTANTS
    PublisherNumber = 3
    NsPerMs = 10
    Width = 8
    InitialRate = 10
    OtherNodes = {n1, n2}
    MaxChanges = 4
    BasicAttempts = 5
    MaxStarts = 3
    Attempts = 3
    Devices = {d1, d2}
    MaxPings = 2
    MaxLate = 2
    Boards = {b1, b2}
INVARIANTS
    TypeOK
    UsesWhatExists
    ExecutorsFit
    NothingLeft
    PublishesOnWhatExists
    ParametersObeyed
    NothingMissed
    SaysUpOnlyIfHeard
    SessionNeedsConnection
    PongsAddUp
PROPERTIES
    PongsOtherBoards
    ShutdownCompletes
    PictureCatchesUp
    LostAgentEndsIt
    StartsWhenAgentStays
    FailedOpenFoundOut
CHECK_DEADLOCK FALSE
