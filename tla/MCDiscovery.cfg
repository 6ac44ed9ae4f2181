CONSTANTS
  na = na
  nb = nb
  nc = nc
  p1 = p1
  p2 = p2
  p3 = p3
  Nodes <- MCNodes
  Ports <- MCPorts
  Bootstrap <- MCBootstrap
  ProtocolVersion <- MCVersion
  LoopbackAddresses <- MCLoopback
  MaxDials = 1
  MaxDrops = 1
  MaxRetries = 1
SPECIFICATION Spec
INVARIANTS
  TypeOK
  GossipIntroducesNobody
PROPERTIES
  SelfConnectionsEnd
  GossipEnds
CHECK_DEADLOCK FALSE
