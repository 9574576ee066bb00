CONSTANTS
  None = None
  V4 <- NoAddresses
  V6 <- Everyday
  Zone <- ZoneLabels
SPECIFICATION Spec
CHECK_DEADLOCK FALSE
INVARIANTS
  OneFamilyPerLabel
