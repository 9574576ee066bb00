CONSTANTS
  a = a
  b = b
  c = c
  udp = udp
  tcp = tcp
  Idle = Idle
  Ip <- OneClient
  Watch <- OneClient
  Thread <- OneThread
  Window = 3
  MaxRequests = 2
  PruneLen = 1
  MaxTime = 7
SPECIFICATION Spec
SYMMETRY Symmetry
INVARIANTS
  AtMostQuotaEveryWindow

