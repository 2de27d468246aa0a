SPECIFICATION FairSpec
CONSTANTS
  Events = {e1, e2}
  Operators = {p1, p2}
  Retries = 2
  MaxReplays = 3
  MaxCrashes = 1
  None = None
INVARIANTS
  ReplayedWasAccepted
  GaugeCountsPending
PROPERTIES
  ImplementsLedger
  ReplayedIsFinal
  EveryEventArrives
CHECK_DEADLOCK FALSE
