SPECIFICATION CatalogSpec
CONSTANTS
  Products = {1}
  Existing = {1}
  Txns = {t1, t2}
  Statuses = {"draft", "published", "archived"}
  CategoryInputs = {"omitted", "none", "some"}
  MaxEvents = 3
INVARIANTS
  PublishedHasCategory
CHECK_DEADLOCK FALSE
