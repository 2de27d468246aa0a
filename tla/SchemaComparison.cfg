SPECIFICATION ComparisonSpec
CONSTANTS
  Payloads <- Documents
  Views <- ReadingOf
  EnumThreshold = 1
INVARIANTS
  ReadingIsFaithful
  RegistryJudgesLosses
  DetectorsAgree
  SilenceMeansSame
CHECK_DEADLOCK FALSE
