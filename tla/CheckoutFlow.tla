---------------------------- MODULE CheckoutFlow ----------------------------
(***************************************************************************)
(* The customer's and the shop's side of an order: the cart, checkout,     *)
(* cancellation, stock adjustments, and the switches an administrator has  *)
(* over coupons and shops.                                                 *)
(***************************************************************************)
EXTENDS Marketplace, Sorting

---------------------------------------------------------------------------
(* The cart *)

\* The upsert of one cart item; quantity 0 removes it.
PutCart(u, v, quantity) ==
    /\ cart[u][v] # quantity
    /\ quantity > 0 =>
          /\ shop[SellerOf[v]] = "approved"
          /\ stock[v] >= quantity
          /\ Cardinality({w \in Variants \ {v} : cart[u][w] > 0}) < CartLimit
    /\ cart' = [cart EXCEPT ![u][v] = quantity]
    /\ UNCHANGED <<shop, stock, adjusted, couponActive, couponVars, orderVars,
                   moneyVars, fleetVars, outbox>>

---------------------------------------------------------------------------
(* Checkout *)

\* The cart items the request takes, in the order they are locked and priced.
Selected(r) ==
    {v \in Variants : cart[r.user][v] > 0 /\ (r.selection = {} \/ v \in r.selection)}

CheckoutLines(r) ==
    LET sorted == Ascending(Selected(r))
    IN  [i \in 1..Len(sorted) |-> [seller |-> SellerOf[sorted[i]],
                                   amount |-> Price[sorted[i]] * cart[r.user][sorted[i]]]]

\* Mutant: only an identical selection counts as a repetition.
AlreadyPlacedSame(r) ==
    \E o \in Placed : /\ placed[o].user = r.user /\ placed[o].key = r.key
                      /\ placed[o].selection = r.selection

\* A second request with the customer's key only reads the first one's order.
AlreadyPlaced(r) ==
    \E o \in Placed : placed[o].user = r.user /\ placed[o].key = r.key

\* Every selected item is in the cart, its shop sells, and its stock suffices.
CartReady(r) ==
    /\ Selected(r) # {} /\ Cardinality(Selected(r)) <= CartLimit
    /\ r.selection \subseteq Selected(r)
    /\ \A v \in Selected(r) : /\ shop[SellerOf[v]] = "approved"
                              /\ stock[v] >= cart[r.user][v]

\* Mutant: off by one.
QuotaLeftOrUsedUp(c) == Offer[c].usageLimit = 0 \/ usedCount[c] <= Offer[c].usageLimit

\* Calculate's refusals, under the lock of the coupon row, then Consume's: the
\* insert of a redemption that exists already.
QuotaLeft(c) == Offer[c].usageLimit = 0 \/ usedCount[c] < Offer[c].usageLimit

Redeemable(u, c, lines) ==
    /\ couponActive[c]
    /\ QuotaLeft(c)
    /\ Applicable(Offer[c], lines)
    /\ u \notin redeemed[c]

OrderDiscount(c, lines) == IF c = NoCoupon THEN 0 ELSE Discount(Offer[c], lines)

LineDiscount(c, lines, i) == IF c = NoCoupon THEN 0 ELSE LineDiscounts(Offer[c], lines)[i]

Subtotal(lines) == Total([i \in DOMAIN lines |-> lines[i].amount])

\* seller_orders.total: the shop's lines less their share of the discount.
SellerTotal(c, lines, s) ==
    Total([i \in {j \in DOMAIN lines : lines[j].seller = s} |->
              lines[i].amount - LineDiscount(c, lines, i)])

\* The rows of the order that nothing updates later.
PlacedRow(r, lines) ==
    LET totals == [s \in Sellers |-> SellerTotal(r.coupon, lines, s)]
    IN  [user |-> r.user, key |-> r.key, address |-> r.address, method |-> r.method,
         selection |-> r.selection, coupon |-> r.coupon,
         quantity |-> [v \in Variants |-> IF v \in Selected(r) THEN cart[r.user][v] ELSE 0],
         amount |-> Subtotal(lines) - OrderDiscount(r.coupon, lines),
         totals |-> totals,
         commission |-> [s \in Sellers |-> Commission(totals[s], CommissionRate[s])]]

Shops(r) == {SellerOf[v] : v \in Selected(r)}

Redeem(r) ==
    IF r.coupon = NoCoupon THEN UNCHANGED couponVars
    ELSE /\ redeemed' = [redeemed EXCEPT ![r.coupon] = @ \cup {r.user}]
         /\ usedCount' = [usedCount EXCEPT ![r.coupon] = @ + 1]

TakeStock(o, r) ==
    LET taken(v) == IF v \in Selected(r) THEN cart[r.user][v] ELSE 0
    IN  /\ stock' = [v \in Variants |-> stock[v] - taken(v)]
        /\ moved' = [moved EXCEPT ![o] = [v \in Variants |-> @[v] - taken(v)]]

EmptyCart(r) ==
    cart' = [cart EXCEPT ![r.user] = [v \in Variants |-> IF v \in Selected(r) THEN 0 ELSE @[v]]]

\* The inserts of one checkout, for the fresh order id o.
PlaceOrder(o, r, lines) ==
    /\ placed' = [placed EXCEPT ![o] = PlacedRow(r, lines)]
    /\ orderStatus' = [orderStatus EXCEPT ![o] = "pending"]
    /\ childStatus' = [childStatus EXCEPT ![o] =
                          [s \in Sellers |-> IF s \in Shops(r) THEN "pending" ELSE "none"]]
    /\ payStatus' = [payStatus EXCEPT ![o] = "pending"]
    /\ TakeStock(o, r)
    /\ Redeem(r)
    /\ EmptyCart(r)
    /\ Enqueue({<<"order_created", o>>})

Checkout(o, r) ==
    LET lines == CheckoutLines(r) IN
    /\ orderStatus[o] = "none"
    /\ ~AlreadyPlaced(r)
    /\ CartReady(r)
    /\ r.coupon # NoCoupon => Redeemable(r.user, r.coupon, lines)
    /\ r.method = "sepay" => Subtotal(lines) > OrderDiscount(r.coupon, lines)
    /\ PlaceOrder(o, r, lines)
    /\ UNCHANGED <<shop, adjusted, couponActive, receipts, fleetVars>>

---------------------------------------------------------------------------
(* Cancellation by the customer *)

\* Mutant: payment is not looked at.
CancellableWhenPaid(o) ==
    orderStatus[o] = "pending" /\ \A s \in ChildrenOf(o) : childStatus[o][s] = "pending"

\* Mutant: an order can be cancelled until it is delivered.
CancellableUntilDelivered(o) ==
    /\ orderStatus[o] \in {"pending", "processing"}
    /\ ~(placed[o].method = "sepay" /\ payStatus[o] = "paid")

\* A paid online order would need a refund, which the system does not have yet.
Cancellable(o) ==
    /\ orderStatus[o] = "pending"
    /\ ~(placed[o].method = "sepay" /\ payStatus[o] = "paid")
    /\ \A s \in ChildrenOf(o) : childStatus[o][s] = "pending"

\* Mutant: the movement is written, the stock is not.
RestoreMovement(o) ==
    /\ moved' = [moved EXCEPT ![o] = [v \in Variants |-> @[v] + placed[o].quantity[v]]]
    /\ UNCHANGED stock

\* Mutant: the stock is written, the movement is not.
RestoreUnrecorded(o) ==
    /\ stock' = [v \in Variants |-> stock[v] + placed[o].quantity[v]]
    /\ UNCHANGED moved

RestoreStock(o) ==
    /\ stock' = [v \in Variants |-> stock[v] + placed[o].quantity[v]]
    /\ moved' = [moved EXCEPT ![o] = [v \in Variants |-> @[v] + placed[o].quantity[v]]]

\* A sum that leaves the column's range aborts the transaction.
Cancel(o) ==
    /\ Cancellable(o)
    /\ \A v \in Variants : stock[v] + placed[o].quantity[v] <= MaxStock
    /\ RestoreStock(o)
    /\ orderStatus' = [orderStatus EXCEPT ![o] = "cancelled"]
    /\ childStatus' = [childStatus EXCEPT ![o] =
                          [s \in Sellers |-> IF s \in ChildrenOf(o) THEN "cancelled" ELSE "none"]]
    /\ payStatus' = [payStatus EXCEPT ![o] = "cancelled"]
    /\ Enqueue({<<"order_cancelled", o>>})
    /\ UNCHANGED <<shop, adjusted, cart, couponActive, couponVars, placed, receipts, fleetVars>>

---------------------------------------------------------------------------
(* The shop's stock, and the administrator's switches *)

\* Mutant: no upper bound.
NotNegative(v, delta) == stock[v] + delta >= 0

InRange(v, delta) == stock[v] + delta \in 0..MaxStock

Adjust(v, delta) ==
    /\ InRange(v, delta)
    /\ stock' = [stock EXCEPT ![v] = @ + delta]
    /\ adjusted' = [adjusted EXCEPT ![v] = @ + delta]
    /\ Enqueue({<<"inventory_changed", v>>})
    /\ UNCHANGED <<shop, cart, couponActive, couponVars, orderVars, moneyVars, fleetVars>>

SetCouponActive(c, active) ==
    /\ couponActive[c] # active
    /\ couponActive' = [couponActive EXCEPT ![c] = active]
    /\ UNCHANGED <<shop, stock, adjusted, cart, couponVars, orderVars, moneyVars,
                   fleetVars, outbox>>

SetShopStatus(s, status) ==
    /\ shop' = [shop EXCEPT ![s] = status]
    /\ Enqueue({<<"seller_status_changed", s>>})
    /\ UNCHANGED <<stock, adjusted, cart, couponActive, couponVars, orderVars,
                   moneyVars, fleetVars>>

=============================================================================
