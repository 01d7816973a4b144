SPECIFICATION Spec
CONSTANTS
  Products = {1, 2}
  Existing = {1}
  Txns = {t1}
  Statuses = {"draft", "published"}
  CategoryInputs = {"some", "omitted"}
  MaxEvents = 2
  Consumers = {c1}
  Rebuild = rebuild
  PageSize = 1
  MaxFaults = 1
INVARIANTS
  OnlyTheRebuildLeavesStale
PROPERTIES
  IndexCatchesUp
CHECK_DEADLOCK FALSE
