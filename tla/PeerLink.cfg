SPECIFICATION FairSpec
CONSTANTS
    SeqMod = 3
    LossLimit = 2
    RecvLimit = 1
    Lan = lan
    Wan = wan
    Other = {}
    Virtuals = {{}, {lan}}
    NoAddr = NoAddr
    Unavailable = Unavailable
    Receiver = {1, 2}
    InFlight = 1
INVARIANTS TypeOK AvailableWasPinged
PROPERTIES DownAfterLostRounds DirectPathIsFound DeadPeerDetected
