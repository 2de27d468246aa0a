SPECIFICATION FairSpec
CONSTANTS
  t1 = t1
  t2 = t2
  a = a
  b = b
  c = c
  w1 = w1
  w2 = w2
  r1 = r1
  Tracks <- OneTrack
  Rows <- TwoRows
  RowsOf <- BothOfOne
  DlqKeys <- TwoRows
  DlqKey <- OwnKey
  Workers <- TwoWorkers
  BatchSize = 2
  MaxAttempts = 2
  Inline = TRUE
  Replays <- NoReplays
  MaxReceipts = 1
  MaxCrashes = 1
  MaxToggles = 1
  None = None
INVARIANTS
  DeliveredWasReceived
  FailedIsInDlq
  DeliveringIsHandled
PROPERTY
  EveryRowSettles
CHECK_DEADLOCK FALSE
