SPECIFICATION Spec
CONSTANTS
  Deliveries = {d1, d2}
  Keys = {k1}
  MaxRestarts = 0
  None = None
INVARIANT
  AcceptedOnce
CHECK_DEADLOCK FALSE
