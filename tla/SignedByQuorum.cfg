CONSTANTS
    v1 = v1
    v2 = v2
    Validators = {v1, v2}
    Weight <- MCWeight
    NumNodes <- MCNumNodes
    TotalValidatorWeight = 4
    QuorumPercentages = {67, 90}
    MaxAttempts = 2
SPECIFICATION Spec
CHECK_DEADLOCK FALSE
INVARIANT SignedByQuorum
