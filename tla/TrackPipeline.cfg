SPECIFICATION PipeSpec
CONSTANTS
  Deliveries = {d1, d2, d3}
  Requests = {d1, d2, d3}
  Keys = {k1}
  MaxRestarts = 1
  None = None
  Endpoints = {e1}
  f1 = f1
  f2 = f2
  s1 = s1
  s2 = s2
  Fingerprints = {f1, f2}
  Schemas = {s1, s2}
  LegacyOf <- LegacyOfTwo
  LockOf <- OneLock
  Severe <- EveryPair
  Namespaces = {n1, n2}
  Benchmarks = {n2}
SYMMETRY Symmetry
CONSTRAINT SmallInstance
INVARIANTS
  UniqueSnapshots
  InsertedHasBaseline
  SingleBaseline
  AcceptedIsRecorded
  AnnouncementsMatch
  ChangesAreAnnounced
  ViolationsAreRecorded
  AnswersAreTrue
PROPERTIES
  BaselineIsKept
  NoReplayAfterAccept
CHECK_DEADLOCK FALSE
