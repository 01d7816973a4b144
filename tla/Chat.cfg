SPECIFICATION ChatSpec

CONSTANTS
  BuyerDevices = {b1}
  StaffDevices = {}
  MaxConnections = 1
  MaxUserConnections = 1
  QueueSize = 1
  ClientIds = {1}
  PageSize = 1
  MaxMessages = 2
  MaxRequests = 2
  MaxOthers = 1
  MaxFaults = 1

INVARIANTS
  NothingMissed
  RepeatIsAnswered

PROPERTIES
  NobodyWaitsForASlowClient
