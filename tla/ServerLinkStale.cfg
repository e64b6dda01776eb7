SPECIFICATION FairSpec
CONSTANTS
    SeqMod = 3
    LossLimit = 2
    RecvLimit = 2
    Addr = {a1, a2}
    NoAddr = NoAddr
    Unavailable = Unavailable
    InFlight = 2
    Sessions = 1
    Duplicates = FALSE
PROPERTIES UdpRelayReachesNode
