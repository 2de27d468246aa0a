SPECIFICATION Spec
CONSTANTS
  Runs = {r1}
  Readers = {q}
  Endpoints = {e1}
  a = a
  b = b
  Schemas = {a, b}
  Visible <- Both
  Conns = {c1, c2}
  PoolSize = 2
  Keep = 1
  Earlier <- NoHistory
  MaxFaults = 0
  None = None
INVARIANTS
  LockIsReleased
CHECK_DEADLOCK FALSE
