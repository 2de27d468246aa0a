SPECIFICATION FairSpec
CONSTANTS
  Requests = {r1, r2, r3}
  k1 = k1
  k2 = k2
  f1 = f1
  f2 = f2
  f3 = f3
  Keys <- MCKeys
  Fingerprints <- ThreeFingerprints
  LockIds = {1}
  LockId <- Colliding
  Severities <- MCSeverities
  Safe = "SAFE"
  Verdict <- MCVerdict
  None = None
INVARIANTS
  UniqueConstraints
  CurrentIsLatest
  VersionChain
  ClassifiedAgainstPredecessor
  AnswerIsCommitted
PROPERTIES
  ImplementsHistory
  EveryRequestEnds
