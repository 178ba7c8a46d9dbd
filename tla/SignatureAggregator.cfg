CONSTANTS
    v1 = v1
    v2 = v2
    Validators = {v1, v2}
    Weight <- MCWeight
    NumNodes <- MCNumNodes
    TotalValidatorWeight = 4
    QuorumPercentages = {0, 80, 101}
    MaxAttempts = 2
SPECIFICATION FairSpec
CHECK_DEADLOCK FALSE
INVARIANTS TypeOK SendsHaveRoom FailureMeansNoQuorum SignedMeansQuorum TimeoutUnlessStray EntryHasTimeout
PROPERTIES Returns ReturnsUnlessStray EntryCleared
