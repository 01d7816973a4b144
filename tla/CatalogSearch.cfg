SPECIFICATION Spec
CONSTANTS
  Rows <- MCRows
  Filters <- MCFilters
  Shops = {"s1", "s2"}
  Categories = {"c1", "c2"}
  Prices = {10, 20, 30}
  Unset = Unset
  Millisecond = 2
  MaxRows = 3
  Limit = 1
  MaxWindow = 2
INVARIANTS
  SameAnswer
  PagesExact
CHECK_DEADLOCK FALSE
