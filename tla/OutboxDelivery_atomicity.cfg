SPECIFICATION Spec
CONSTANTS
  t1 = t1
  t2 = t2
  a = a
  b = b
  c = c
  w1 = w1
  w2 = w2
  r1 = r1
  Tracks <- OneTrack
  Rows <- TwoRows
  RowsOf <- BothOfOne
  DlqKeys <- TwoRows
  DlqKey <- OwnKey
  Workers <- OneWorker
  BatchSize = 2
  MaxAttempts = 2
  Inline = TRUE
  Replays <- NoReplays
  MaxReceipts = 3
  MaxCrashes = 1
  MaxToggles = 1
  None = None
INVARIANT
  EveryChangeIsQueued
CHECK_DEADLOCK FALSE
