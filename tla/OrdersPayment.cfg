SPECIFICATION Spec
CONSTANTS
  AnySeller = AnySeller
  Users = {u1}
  Keys = {k1, k2}
  Addresses = {home}
  Sellers <- MCOneShop
  Variants <- MCOneVariant
  SellerOf <- MCSellerOf
  Price <- MCPrice
  CommissionRate <- MCCommission
  Orders = {o1, o2}
  NoOrder = NoOrder
  Coupons = {}
  NoCoupon = NoCoupon
  Offer <- MCOffer
  Drivers = {}
  NoDriver = NoDriver
  Transfers = {t1, t2}
  NoReceipt = NoReceipt
  InitialStock <- MCInitialStock
  Stock = 2
  MaxStock = 2
  CartLimit = 1
  Amounts = {3, 4}
  Quantities = {1}
  CheckoutInputs <- MCPlainRequests
  Deltas <- MCNoDeltas
  ShopDecisions = {"suspended"}
  DriverDecisions = {}
SYMMETRY Interchangeable
INVARIANTS
  PaidByOneTransfer
  NoTransferForgotten
  CancelledIsInert
PROPERTIES
  PaidIsFinal
