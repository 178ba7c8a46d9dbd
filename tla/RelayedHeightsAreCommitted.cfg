CONSTANTS
    MaxHeight = 5
    Relayers = {r1}
    ProcessMissedBlocks = TRUE
    HistoricalHeight = 1
    HeadersCapacity = 2
    MaxRestarts = 1
    MaxErrors = 1
SPECIFICATION Spec
CHECK_DEADLOCK FALSE
INVARIANT RelayedHeightsAreCommitted
