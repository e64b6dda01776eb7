SPECIFICATION Spec
CONSTANTS
    a1 = a1  a2 = a2  a3 = a3
    Pusher = {p1, p2}
    Addr <- ThreeAddrs
    Rules <- NestedRules
    Lengths = {1, 3}
    MaxTime = 2
    NoEntry = NoEntry
    NoRequest = NoRequest
INVARIANTS TypeOK RateLimited
PROPERTIES RejectIsNeeded
