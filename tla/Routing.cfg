CONSTANTS
    cChain = cChain
    sChain = sChain
    primary = primary
    sNet = sNet
    zero = zero
    a = a
    b = b
    n1 = n1
    n2 = n2
    n3 = n3
    k1 = k1
    k2 = k2
    k3 = k3
    NoKey = NoKey
    Chains = {cChain, sChain}
    Subnets = {primary, sNet}
    Addresses = {zero, a, b}
    ZeroAddress = zero
    Configs <- MCConfigs
    PrimaryNetworkID = primary
    ChainConfig <- MCChainConfig
    Nodes = {n1, n2, n3}
    ApiNode = n2
    PChain <- MCPChain
    Messages <- MCMessages
    MaxHeight = 2
    MaxRestarts = 1
SPECIFICATION Spec
CHECK_DEADLOCK FALSE
INVARIANTS TypeOK NoWarningMeansBacked RowMeansRelayed
PROPERTIES RelayedIsAllowed
