CONSTANTS
    MaxHeight = 4
    Relayers = {r1}
    ProcessMissedBlocks = TRUE
    HistoricalHeight = 1
    HeadersCapacity = 1
    MaxRestarts = 1
    MaxErrors = 1
SPECIFICATION FairSpec
CHECK_DEADLOCK FALSE
INVARIANTS TypeOK NoBlockLost AtMostTwice MissedHoldsCheckpoint
PROPERTIES ImplementsCheckpointManager EveryBlockDispatched
