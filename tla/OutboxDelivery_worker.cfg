SPECIFICATION Spec
CONSTANTS
  t1 = t1
  t2 = t2
  a = a
  b = b
  c = c
  w1 = w1
  w2 = w2
  r1 = r1
  Tracks <- TwoTracks
  Rows <- ThreeRows
  RowsOf <- TwoAndOne
  DlqKeys <- ThreeRows
  DlqKey <- SharedKey
  Workers <- OneWorker
  BatchSize = 2
  MaxAttempts = 2
  Inline = FALSE
  Replays <- OneReplay
  MaxReceipts = 4
  MaxCrashes = 1
  MaxToggles = 1
  None = None
INVARIANTS
  PostsAreBounded
PROPERTY
  SettledIsFinal
  ImplementsPromise
CHECK_DEADLOCK FALSE
