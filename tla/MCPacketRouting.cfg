SPECIFICATION Spec
CONSTANTS
  a = a
  b = b
  c = c
  d = d
  lan = lan
  Node = {a, b, c, d}
  Net = {lan}
  Gateway <- Routes
  Mode <- ModeOf
  SpecifyMode <- Special
  Forwards = {a, c, d}
  ToKernel = {c}
  AutoRoute = {a, c}
  Allowed = {"UDP", "TCP"}
  Link <- Links
  Cost <- Costs
  Traffic <- Packets
  Fragile <- FragileLinks
  Restless = {b}
  MaxChanges = 2
  Everyone = Everyone
  NoNode = NoNode
  NoEntry = NoEntry
  NoHop = NoHop
  NoPacket = NoPacket
INVARIANTS TypeOK GivenOnce
PROPERTIES NoPacketCirclesForEver NodesGetTheirs
