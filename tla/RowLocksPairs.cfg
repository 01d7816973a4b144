SPECIFICATION Spec
CONSTANTS
  Txns = {t1, t2}
  Users = {u1, u2}
  Drivers = {u1, u2}
  Staff = {u1, u2}
  Sellers = {"shopA", "shopB"}
  Variants <- MCTwoVariants
  Products = {"lamp", "desk"}
  ProductOf <- MCTwoProducts
  SellerOf <- MCTwoShops
  Coupons = {c1, c2}
  Orders = {o1, o2}
  ItemsOf <- MCItemsOf
  Transfers = {x1}
SYMMETRY Sessions
INVARIANTS
  DecisionsHold
  OnlyMembershipDeadlocks
