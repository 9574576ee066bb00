CONSTANTS
  apex = apex
  dmarc = dmarc
  ns1 = ns1
  ns2 = ns2
  far = far
  ipns = ipns
  v4name = v4name
  dual = dual
  plain = plain
  version = version
  outside = outside
  long = long
  huge = huge
  blank = blank
  Blank = blank
  None = None
  Name <- Names
  Apex = apex
  WireLen <- Lengths
  Rank <- Ranks
  InZone <- Zone
  Version <- VersionNames
  Dmarc = dmarc
  Address <- Parsed
  Env <- Envs
  Query <- Queries
  MaxAsks = 2
SPECIFICATION Spec
CHECK_DEADLOCK FALSE
INVARIANTS
  TypeOK
  AnswersAgree
  NoContradiction
  ProofsAreTrue
  SignaturesValidate
  CompleteOrTruncated
