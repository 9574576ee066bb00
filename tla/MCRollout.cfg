CONSTANTS
  s1 = s1
  s2 = s2
  s3 = s3
  k1 = k1
  k2 = k2
  Down = Down
  Unsigned = Unsigned
  None = None
  Unset = Unset
  Server <- Servers
  Key <- Keys
  Chosen = k1
  Secret <- Secrets
  GlueName = "nip.nu"
  Patience = 1
  ScanPeriod = 2
  ScansNeeded = 2
  MaxCrashes = 2
SPECIFICATION Spec
CHECK_DEADLOCK FALSE
INVARIANTS
  TypeOK
  NeverBogus
PROPERTIES
  EventuallySecured
