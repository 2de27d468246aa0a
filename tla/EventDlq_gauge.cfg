SPECIFICATION Spec
CONSTANTS
  Events = {e1}
  Operators = {p1, p2}
  Retries = 1
  MaxReplays = 2
  MaxCrashes = 0
  None = None
INVARIANT
  GaugeIsRowCount
CHECK_DEADLOCK FALSE
