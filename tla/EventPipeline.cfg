SPECIFICATION Spec
CONSTANTS
  EventIds = {1, 2}
  Kind <- MCKind
  Uuids = {u1}
  Nil = Nil
  Relays = {r1, r2}
  BatchSize = 2
  MaxFaults = 1
INVARIANTS
  PublishedIsOnTopic
  CommittedIsHandled
  PushedAtMostOnce
PROPERTIES
  EveryEventDelivered
CHECK_DEADLOCK FALSE
