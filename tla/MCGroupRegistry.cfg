SPECIFICATION FairSpec
CONSTANTS
    Tunnel = {t1, t2}
    Addr <- TwoHosts
    Network = 1
    Broadcast = 4
    Nonce = {n1}
    Wan = {w1}
    UdpTask = UdpTask
    NoTunnel = NoTunnel
    NoAddr = 0
    NoNonce = NoNonce
    NoWan = NoWan
    NoNode = NoNode
    Free = Free
INVARIANTS TypeOK OneOwner NoLostUpdate
PROPERTIES ReleasedLast ImplementsLease NodesConverge DropCompletes RegisterAnswered
