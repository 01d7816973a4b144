------------------------------- MODULE Orders -------------------------------
(***************************************************************************)
(* Orders from checkout to the last unit of cash: the composition of the   *)
(* handlers of CheckoutFlow, PaymentFlow and DeliveryFlow over the tables  *)
(* of Marketplace, and what they guarantee together.                       *)
(***************************************************************************)
EXTENDS CheckoutFlow, PaymentFlow, DeliveryFlow

\* The inputs of the handlers: what customers, shops and administrators send.
CONSTANTS
    Quantities,       \* quantities a cart item is set to
    CheckoutInputs,   \* checkout requests
    Deltas,           \* stock adjustments
    ShopDecisions,    \* statuses administrators give to shops
    DriverDecisions   \* and to drivers

ASSUME InputAssumption ==
    /\ Quantities \subseteq Nat /\ CheckoutInputs \subseteq Requests
    /\ Deltas \subseteq Int \ {0}
    /\ ShopDecisions \subseteq ShopStatuses \ {"pending"}
    /\ DriverDecisions \subseteq DriverStatuses \ {"none", "pending"}

Shopping ==
    \/ \E u \in Users, v \in Variants, q \in Quantities : PutCart(u, v, q)
    \/ \E o \in Orders, r \in CheckoutInputs : Checkout(o, r)
    \/ \E o \in Orders : Cancel(o)

Paying == \E w \in Webhooks : Receive(w)

Shipping ==
    \E o \in Orders, s \in Sellers :
        \/ \E to \in {"confirmed", "shipping", "delivered"},
              carrier \in {"external", "internal"} : Fulfill(o, s, to, carrier)
        \/ CreateShipment(o, s)
        \/ \E d \in Drivers : Assign(o, s, d)
        \/ \E d \in Drivers, to \in ShipmentStatuses, collected \in BOOLEAN :
              UpdateShipment(o, s, d, to, collected)
        \/ Settle(o, s)

Administering ==
    \/ \E v \in Variants, delta \in Deltas : Adjust(v, delta)
    \/ \E c \in Coupons, active \in BOOLEAN : SetCouponActive(c, active)
    \/ \E s \in Sellers, status \in ShopDecisions : SetShopStatus(s, status)
    \/ \E d \in Drivers : Apply(d)
    \/ \E d \in Drivers, status \in DriverDecisions : ApproveDriver(d, status)

Next == Shopping \/ Paying \/ Shipping \/ Administering

Spec == Init /\ [][Next]_vars

---------------------------------------------------------------------------
(* Types *)

IsPlacedRow(row) ==
    /\ row.user \in Users /\ row.key \in Keys /\ row.method \in Methods
    /\ row.coupon \in Coupons \cup {NoCoupon}
    /\ row.quantity \in [Variants -> Nat]

IsShipment(shipment) ==
    /\ DOMAIN shipment = DOMAIN NoShipment
    /\ shipment.carrier \in {"none", "internal", "external"}
    /\ shipment.status \in ShipmentStatuses
    /\ shipment.driver \in Drivers \cup {NoDriver}
    /\ shipment.collected \in BOOLEAN /\ shipment.settled \in BOOLEAN

CatalogTypeOK ==
    /\ shop \in [Sellers -> ShopStatuses]
    /\ stock \in [Variants -> 0..MaxStock]
    /\ adjusted \in [Variants -> Int]
    /\ cart \in [Users -> [Variants -> Nat]]
    /\ couponActive \in [Coupons -> BOOLEAN]

CouponTypeOK ==
    /\ redeemed \in [Coupons -> SUBSET Users]
    /\ usedCount \in [Coupons -> Nat]

OrderTypeOK ==
    /\ DOMAIN placed = Orders /\ \A o \in Placed : IsPlacedRow(placed[o])
    /\ moved \in [Orders -> [Variants -> Int]]
    /\ orderStatus \in [Orders -> OrderStatuses]
    /\ childStatus \in [Orders -> [Sellers -> ChildStatuses]]

MoneyTypeOK ==
    /\ payStatus \in [Orders -> PayStatuses]
    /\ receipts \in [Transfers -> Receipts \cup {NoReceipt}]

FleetTypeOK ==
    /\ driver \in [Drivers -> DriverStatuses]
    /\ DOMAIN shipments = Orders
    /\ \A o \in Orders : /\ DOMAIN shipments[o] = Sellers
                         /\ \A s \in Sellers : IsShipment(shipments[o][s])

\* Every column holds a value the code writes there; the stock of a variant never
\* leaves the range of its integer column, though units are taken, returned and
\* adjusted by different people.
TypeOK ==
    /\ CatalogTypeOK /\ CouponTypeOK /\ OrderTypeOK /\ MoneyTypeOK /\ FleetTypeOK
    /\ outbox \in [Events -> 0..2]

---------------------------------------------------------------------------
(* Stock, coupons and totals *)

Live == {o \in Placed : orderStatus[o] # "cancelled"}

\* Units are neither lost nor sold twice: what the warehouse held, corrected by
\* the shop's adjustments, is the stock plus the units of the orders that were
\* not cancelled, whatever checkouts and cancellations interleave.
StockConserved ==
    \A v \in Variants :
        stock[v] + Total([o \in Live |-> placed[o].quantity[v]])
            = InitialStock[v] + adjusted[v]

\* The movements that reference an order say how many of its units are out of
\* stock: all of them while it lives, none once it is cancelled.
LedgerMatchesOrders ==
    \A o \in Orders, v \in Variants :
        moved[o][v] = IF o \in Live THEN -placed[o].quantity[v] ELSE 0

\* A coupon is redeemed at most as often as its limit allows and once by each
\* customer, its counter agrees with the redemptions, and these are exactly the
\* customers whose orders carry the code.
CouponWithinLimit ==
    \A c \in Coupons :
        /\ usedCount[c] = Cardinality(redeemed[c])
        /\ Offer[c].usageLimit > 0 => usedCount[c] <= Offer[c].usageLimit
        /\ redeemed[c] = {placed[o].user : o \in {p \in Placed : placed[p].coupon = c}}
        /\ \A o, p \in Placed :
              placed[o].coupon = c /\ placed[p].coupon = c /\ o # p
                 => placed[o].user # placed[p].user

\* However often a customer's checkout request is repeated, its idempotency key
\* has one order.
OneOrderPerKey ==
    \A o, p \in Placed :
        placed[o].user = placed[p].user /\ placed[o].key = placed[p].key => o = p

\* The discount of an order is split over its shops without losing or creating
\* a unit: the shops' totals add up to what the customer pays, none is negative,
\* none is below the platform's commission, and an online order costs something.
TotalsAddUp ==
    \A o \in Placed :
        /\ Total([s \in Sellers |-> placed[o].totals[s]]) = placed[o].amount
        /\ \A s \in Sellers : placed[o].commission[s] \in 0..placed[o].totals[s]
        /\ placed[o].method = "sepay" => placed[o].amount > 0

---------------------------------------------------------------------------
(* Money *)

Applied(o) == {t \in Transfers : /\ receipts[t] # NoReceipt
                                 /\ receipts[t].status = "applied"
                                 /\ receipts[t].order = o}

\* An online order is paid exactly when one transfer has been applied to it, of
\* exactly its amount, into the right account; no transfer pays any other order.
PaidByOneTransfer ==
    \A o \in Orders :
        IF payStatus[o] = "paid" /\ placed[o].method = "sepay"
        THEN \E t \in Transfers : /\ Applied(o) = {t}
                                  /\ receipts[t].amount = placed[o].amount
                                  /\ receipts[t].account = "ours"
                                  /\ receipts[t].direction = "in"
        ELSE Applied(o) = {}

\* Money that came in and paid for nothing (late, short, excess, unknown code)
\* is on record for the administrators, who have been told once.
NoTransferForgotten ==
    \A t \in Transfers :
        outbox[<<"payment_reconciliation_required", t>>]
            = IF /\ receipts[t] # NoReceipt
                 /\ receipts[t].direction = "in"
                 /\ \A o \in Orders : t \notin Applied(o)
              THEN 1 ELSE 0

\* The rest of the system hears of every payment once: of an online order or of
\* the settled cash of a platform delivery. Cash taken by a shop's own carrier
\* is recorded without an event.
PaymentAnnouncedOnce ==
    \A o \in Orders :
        outbox[<<"payment_succeeded", o>>]
            = IF payStatus[o] = "paid" /\ (placed[o].method = "sepay" \/ ~HasExternal(o))
              THEN 1 ELSE 0

\* The cash of an order is recorded as received exactly when all its parcels are
\* delivered and, where the platform's drivers carried them, each is settled;
\* the drivers then have collected, in total, what the customer owed.
CashAccounted ==
    \A o \in Placed :
        placed[o].method = "cod" =>
            /\ payStatus[o] = "paid" <=>
                 /\ orderStatus[o] = "delivered"
                 /\ HasInternal(o) => \A s \in ChildrenOf(o) : shipments[o][s].settled
            /\ payStatus[o] = "paid" /\ HasInternal(o) =>
                 /\ Total([s \in ChildrenOf(o) |-> shipments[o][s].cod])
                        = placed[o].amount
                 /\ \A s \in ChildrenOf(o) : shipments[o][s].collected

\* Nobody works on an online order, and so no driver is sent, before it is paid.
WorkOnlyWhenPayable ==
    \A o \in Placed, s \in Sellers :
        placed[o].method = "sepay" /\ childStatus[o][s] \in {"confirmed", "shipping", "delivered"}
            => payStatus[o] = "paid"

\* A payment once recorded is never taken back, and its order never cancelled.
PaidIsFinal ==
    [][\A o \in Orders : payStatus[o] = "paid" =>
            payStatus'[o] = "paid" /\ orderStatus'[o] # "cancelled"]_vars

---------------------------------------------------------------------------
(* Parcels *)

\* The order's status is what its children add up to.
ParentMatchesChildren ==
    \A o \in Placed :
        LET children == {childStatus[o][s] : s \in ChildrenOf(o)} IN
        /\ children # {}
        /\ orderStatus[o] = "pending" <=> children = {"pending"}
        /\ orderStatus[o] = "delivered" <=> children = {"delivered"}
        /\ orderStatus[o] = "cancelled" <=> "cancelled" \in children
        /\ orderStatus[o] = "cancelled" => children = {"cancelled"}

\* A cancelled order has nothing on the road, no payment and no units out of
\* stock, and it stays cancelled: no late webhook, driver or shop revives it.
CancelledIsInert ==
    \A o \in Orders : orderStatus[o] = "cancelled" =>
        /\ payStatus[o] = "cancelled"
        /\ \A s \in Sellers : shipments[o][s] = NoShipment
        /\ \A v \in Variants : moved[o][v] = 0

CancelledIsFinal ==
    [][\A o \in Orders : orderStatus[o] = "cancelled" =>
            orderStatus'[o] = "cancelled" /\ payStatus'[o] = "cancelled"]_vars

\* No order is shipped partly by a shop's carrier and partly by the platform.
NoMixedCarriers == \A o \in Orders : ~(HasInternal(o) /\ HasExternal(o))

\* The parcel and the seller order tell the same story.
ChildOf ==
    [none |-> {"none", "pending", "confirmed", "cancelled"},
     pending |-> {"confirmed"}, assigned |-> {"confirmed"}, accepted |-> {"confirmed"},
     picked_up |-> {"shipping"}, delivering |-> {"shipping"}, failed |-> {"shipping"},
     returned |-> {"shipping"}, shipping |-> {"shipping"}, delivered |-> {"delivered"}]

ShipmentMatchesChild ==
    \A o \in Orders, s \in Sellers :
        childStatus[o][s] \in ChildOf[shipments[o][s].status]

Rank == [none |-> 0, pending |-> 1, confirmed |-> 2, shipping |-> 3, delivered |-> 4,
         cancelled |-> 5]

\* A seller order never moves back, and skips no stage a customer is shown: it is
\* confirmed before it ships, ships before it is delivered.
ChildMovesForward ==
    [][\A o \in Orders, s \in Sellers :
          \/ childStatus'[o][s] = childStatus[o][s]
          \/ Rank[childStatus'[o][s]] = Rank[childStatus[o][s]] + 1
          \/ childStatus[o][s] = "pending" /\ childStatus'[o][s] = "cancelled"]_vars

\* From pick-up on, a parcel belongs to the driver who picked it up, who was
\* approved when it was handed over; nobody can reassign it.
Carried == {"picked_up", "delivering", "failed", "returned", "delivered"}

DriverKeepsParcel ==
    [][\A o \in Orders, s \in Sellers :
          /\ Internal(o, s) /\ shipments[o][s].status \in Carried =>
                shipments'[o][s].driver = shipments[o][s].driver
          /\ Internal(o, s) /\ shipments'[o][s].status # shipments[o][s].status
             /\ shipments'[o][s].status \in Carried =>
                driver[shipments[o][s].driver] = "approved"]_vars

---------------------------------------------------------------------------
(* The customer's view: Orders implements OrderLifecycle. *)

Lifecycle == INSTANCE OrderLifecycle WITH
    phase  <- orderStatus,
    money  <- payStatus,
    method <- [o \in Orders |-> IF orderStatus[o] = "none" THEN "none" ELSE placed[o].method]

\* Every order follows the life a customer is promised.
LifecycleKept == Lifecycle!Spec

=============================================================================
