CONSTANTS
    b1 = b1
    b2 = b2
    b3 = b3
    a1 = a1
    m1 = m1
    m2 = m2
    m3 = m3
    Tasks = {b1, b2, b3, a1}
    BlockTasks = {b1, b2, b3}
    Messages = {m1, m2, m3}
    MsgOf <- MCMsgOf
    OffChain = {m2}
    Ineligible = {m3}
    MaxRestarts = 1
SPECIFICATION FairSpec
CHECK_DEADLOCK FALSE
INVARIANTS TypeOK StagedIsDelivered NoncesContiguous WaitedForExists
PROPERTY HeightDecided
