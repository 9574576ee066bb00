CONSTANTS
  a = a
  b = b
  c = c
  udp = udp
  tcp = tcp
  Idle = Idle
  Ip <- ThreeClients
  Watch <- OneClient
  Thread <- TwoThreads
  Window = 2
  MaxRequests = 1
  PruneLen = 1
  MaxTime = 6
SPECIFICATION Spec
SYMMETRY Symmetry
INVARIANTS
  QuotaInWindow
PROPERTIES
  ImplementsQuota
  DropsAreJustified
  WindowsMoveForward
  OnlyExpiredForgotten
  LargeMapIsLive
