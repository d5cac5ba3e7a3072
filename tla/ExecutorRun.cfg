SPECIFICATION FairSpec
CONSTANTS
  Tasks = {"a", "b", "c", "d", "e"}
  Plan <- TwoGroups
  Processes <- SomeTwo
  Chunked = {"a", "b"}
  Overlaps <- BC
  MaxWorkers = 2
  Interrupts = TRUE
INVARIANT Orderly
INVARIANT NoOverlap
INVARIANT FailuresTold
PROPERTY Returns
CHECK_DEADLOCK FALSE
