CONSTANTS
  a = a
  b = b
  q = q
  c1 = c1
  c2 = c2
  udp = udp
  main = main
  None = None
  Idle = Idle
  Datagram <- Queries
  Conn <- Connections
  Malformed <- FromA
  Ip <- Clients
  Source <- Sources
  Limited <- Settings
  Window = 1
  MaxRequests = 1
  PruneLen = 0
  MaxTime = 1
SPECIFICATION Spec
CHECK_DEADLOCK FALSE
INVARIANTS
  TypeOK
  QuotaIsShared
  OutageNeedsLostPeer
PROPERTIES
  ImplementsService
  TcpProgress
  DropsAreDeserved
