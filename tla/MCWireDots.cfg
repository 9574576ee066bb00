CONSTANTS
  None = None
  Lower <- Case
  Dot <- TheDot
  NotText <- Invalid
  Query <- Queries
  Zone <- TwoLabels
  VersionText <- Versions
SPECIFICATION Spec
CHECK_DEADLOCK FALSE
INVARIANTS
  InZoneIsSubdomain
