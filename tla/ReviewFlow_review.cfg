SPECIFICATION Spec
CONSTANTS
  Reviews = {r1}
  Endpoints = {e1, e2, e3}
  Registered = {e1, e2}
  Sayings = {"breaking", "risky", "compatible"}
  Outcomes <- SomeOutcomes
  EvidenceLimit = 1
  Models = 2
  MaxRows = 3
  None = None
INVARIANTS
  StoredReviewsAreGrounded
  BreakInSightBlocks
CHECK_DEADLOCK FALSE
