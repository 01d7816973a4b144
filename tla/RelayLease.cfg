SPECIFICATION LeaseSpec
CONSTANTS
  EventIds = {1, 2}
  Relays = {r1, r2}
  BatchSize = 2
  MaxFaults = 0
PROPERTIES
  OnlyLeftBehindIsRecovered
CHECK_DEADLOCK FALSE
