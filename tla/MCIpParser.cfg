CONSTANTS
  None = None
  V4 <- Octets
  V6 <- Groups
  Zone <- ZoneLabels
SPECIFICATION Spec
CHECK_DEADLOCK FALSE
INVARIANTS
  TypeOK
  NamesMeanTheirAddresses
