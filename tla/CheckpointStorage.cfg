CONSTANTS
    m1 = m1
    m2 = m2
    id1 = id1
    Managers = {m1, m2}
    IDs = {id1}
    IDOf <- MCIDOf
    Order <- MCOrder
    MaxHeight = 3
    MaxRestarts = 1
    MaxFailures = 1
SPECIFICATION FairSpec
CHECK_DEADLOCK FALSE
INVARIANTS TypeOK FilesComplete TickerWaitsForRunning
PROPERTIES RowNeverLowered ImplementsDatabase StartUpCompletes CommittedReachesFile
