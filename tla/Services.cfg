SPECIFICATION ServicesSpec
CONSTANTS
  AnySeller = AnySeller
  Sellers = {"shopA", "shopB"}
  LineAmounts = {0, 35, 10007}
  Offers <- MCOffers
  MaxLines = 4
  BuyerDevices = {phone, laptop}
  StaffDevices = {desk}
  MaxConnections = 2
  MaxUserConnections = 1
  QueueSize = 2
  Sessions = {a, b}
  Resets = {r1, r2}
  Handlers = {h1, h2}
  Passwords = {"old", "new"}
  InitialPassword = "old"
  MaxRotations = 3
  People = {ann, bob}
  Requests = {q1, q2}
  MaxDecisions = 1
  Sends = {s1, s2}
  AboutProduct = {s1}
  NoSend = NoSend
  MaxCollected = 2
  MaxEnriched = 3
  BatchSize = 2
  Window = 2
  MaxFailedRuns = 1
  MaxCrashes = 1
  Products = {1, 2, 3}
  ShopOf <- MCShopOf
  CategoriesOf <- MCCategoriesOf
  Limits = {1, 3}
  MaxCached = 1
  MaxChanges = 1
  Starters = {"api", "api2", "identity", "identity2", "seller", "chat", "assistant", "notification"}
  ServiceOf <- MCServiceOf
  MaxDeployed = 3
  MaxReboots = 1
SYMMETRY Interchangeable
INVARIANTS
  DiscountExact
  SharesFair
  HubWithinLimits
  TokensWorkOnce
  OnlyMembersAct
  TurnsToldRight
  LostOnlyByFailedRuns
  CountedOnce
  ShownIsForSale
  StartupSound
CHECK_DEADLOCK FALSE
