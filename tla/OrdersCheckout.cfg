SPECIFICATION Spec
CONSTANTS
  AnySeller = AnySeller
  Users = {u1, u2}
  Keys = {k1, k2}
  Addresses = {home}
  Sellers <- MCTwoShops
  Variants <- MCTwoVariants
  SellerOf <- MCSellerOf
  Price <- MCPrice
  CommissionRate <- MCCommission
  Orders = {o1, o2}
  NoOrder = NoOrder
  Coupons = {c1}
  NoCoupon = NoCoupon
  Offer <- MCOffer
  Drivers = {}
  NoDriver = NoDriver
  Transfers = {}
  NoReceipt = NoReceipt
  InitialStock <- MCInitialStock
  Stock = 1
  MaxStock = 1
  CartLimit = 2
  Amounts = {}
  Quantities = {0, 1}
  CheckoutInputs <- MCOnlineRequests
  Deltas <- MCDeltas
  ShopDecisions = {}
  DriverDecisions = {}
SYMMETRY Interchangeable
INVARIANTS
  TypeOK
  StockConserved
  LedgerMatchesOrders
  CouponWithinLimit
  OneOrderPerKey
  TotalsAddUp
