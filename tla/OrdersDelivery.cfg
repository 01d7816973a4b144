SPECIFICATION Spec
CONSTANTS
  AnySeller = AnySeller
  Users = {u1}
  Keys = {k1}
  Addresses = {home}
  Sellers <- MCTwoShops
  Variants <- MCTwoVariants
  SellerOf <- MCSellerOf
  Price <- MCPrice
  CommissionRate <- MCCommission
  Orders = {o1}
  NoOrder = NoOrder
  Coupons = {c1}
  NoCoupon = NoCoupon
  Offer <- MCShopOffer
  Drivers = {d1, d2}
  NoDriver = NoDriver
  Transfers = {t1}
  NoReceipt = NoReceipt
  InitialStock <- MCInitialStock
  Stock = 1
  MaxStock = 1
  CartLimit = 2
  Amounts = {7}
  Quantities = {1}
  CheckoutInputs <- MCPlainRequests
  Deltas <- MCNoDeltas
  ShopDecisions = {}
  DriverDecisions = {"approved", "suspended"}
SYMMETRY Interchangeable
INVARIANTS
  CashAccounted
  WorkOnlyWhenPayable
  ParentMatchesChildren
  ShipmentMatchesChild
PROPERTIES
  ChildMovesForward
  DriverKeepsParcel
  LifecycleKept
