SPECIFICATION FairSpec
CONSTANTS
    m = m  n = n
    Node = {m, n}
    Conn = {1, 2}
    Address <- Hosts
    Ranges <- LowAndHigh
    InitialRange <- Low
    Configs <- AnyConfig
    MaxRestarts = 1
    Staller = {m}
    None = None
    NoConn = 0
    NoMsg = NoMsg
INVARIANTS TypeOK ServedUnderOwnAddress
PROPERTIES LeasesAreUsed NodesRejoin
CHECK_DEADLOCK FALSE
