CONSTANTS
    sender = sender
    middle = middle
    receiver = receiver
    Node <- MCNode
    Configs <- MCConfigs
    Server = Server
    Everyone = Everyone
    Nothing = Nothing
    Keyed = TRUE
    Nonce = {1, 2}
    KEY_LEN = 3
    Lengths = {2}
    SIZE = 18
    MAX_DATAGRAM = 11
    MaxForwards = 1
SPECIFICATION Spec
INVARIANT
    EveryCopyReadable
CHECK_DEADLOCK FALSE
