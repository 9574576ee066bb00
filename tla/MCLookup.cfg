CONSTANTS
  a = a
  b = b
  resolver = a
  udp = udp
  main = main
  Idle = Idle
  Never = Never
  Ip <- Clients
  Window = 2
  MaxRequests = 2
  PruneLen = 1
  MaxTime = 4
  MaxSent = 2
SPECIFICATION Spec
INVARIANTS
  PatientLookupIsServed
CHECK_DEADLOCK FALSE
