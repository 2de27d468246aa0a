SPECIFICATION FairSpec
CONSTANTS
  Runs = {r1, r2}
  Readers = {q}
  Endpoints = {e1, e2}
  a = a
  b = b
  Schemas = {a, b}
  Visible <- Both
  Conns = {c1, c2}
  PoolSize = 2
  Keep = 1
  Earlier <- OneKnown
  MaxFaults = 1
  None = None
INVARIANTS
  OneRunAtATime
  
  SamplesAreBounded
PROPERTIES
  EveryRunEnds
  
CHECK_DEADLOCK FALSE
