CONSTANTS
  None = None
  Case <- Denials
  Era = 40
  Validity = 12
  Skew = 3
  Ttl = 16
  Drift = 4
  MaxTime = 90
SPECIFICATION Spec
CHECK_DEADLOCK FALSE
INVARIANTS
  NothingLostOrInvented
  BlocksAreCanonical
  LengthIsKnown
  HoldsInTimeAndEra
  TagFindsTheKey
