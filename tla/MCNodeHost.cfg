CONSTANTS
    Nothing = Nothing
    Group = {1, 2}
    BITS = 4
    Leases <- MCLeases
    Manual <- MCManual
    AllowedIps <- MCAllowedIps
    Ips <- MCIps
SPECIFICATION Spec
INVARIANTS
    TypeOK
    ConnectedIsConsistent
    NetworksServed
    TablesAgree
    NothingLeftBehind
CHECK_DEADLOCK FALSE
