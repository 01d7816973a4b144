SPECIFICATION BehaviorSpec
CONSTANTS
  MaxCollected = 2
  MaxEnriched = 4
  BatchSize = 2
  Window = 2
  MaxFailedRuns = 1
  MaxCrashes = 1
INVARIANTS
  PublishedBeforeCommitted
CHECK_DEADLOCK FALSE
