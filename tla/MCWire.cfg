CONSTANTS
  None = None
  Lower <- Case
  Dot <- TheDot
  NotText <- Invalid
  Query <- Queries
  Zone <- Zones
  VersionText <- Versions
SPECIFICATION Spec
CHECK_DEADLOCK FALSE
INVARIANTS
  TypeOK
  Walked
  AnswersTheQuestionRead
  ZoneTestsFollowLabels
  OwnerIsCanonical
  LegalIsUnderstood
