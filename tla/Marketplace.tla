---------------------------- MODULE Marketplace ----------------------------
(***************************************************************************)
(* The tables that orders, payments, deliveries, stock, carts and coupons  *)
(* share in PostgreSQL, as the transactions of the API process see them.   *)
(*                                                                         *)
(* Each variable is one table, or one mutable column of it, keyed by the   *)
(* table's natural key: a seller order by (order, seller), a shipment by   *)
(* its seller order, a receipt by the provider's transaction id. Columns   *)
(* that are written once, by checkout, are kept together in "placed".      *)
(*                                                                         *)
(* The handlers are in CheckoutFlow, PaymentFlow and DeliveryFlow; Orders  *)
(* composes them. Every handler is one database transaction that takes the *)
(* row lock of the parent order (or of the user, for checkout) before it   *)
(* reads what it decides on, so it is one atomic action here.              *)
(***************************************************************************)
EXTENDS Integers, FiniteSets, Functions, Voucher

CONSTANTS
    Users, Keys, Addresses,      \* customers, idempotency keys, address ids
    Sellers, Variants,           \* shops; variant ids, ordered as ORDER BY variant_id
    SellerOf, Price,             \* the shop and the unit price of each variant
    CommissionRate,              \* per shop, in hundredths of a percent
    Orders, NoOrder,             \* order ids; the absence of an order
    Coupons, NoCoupon, Offer,    \* coupon ids; the empty code; the offer of each
    Drivers, NoDriver,           \* users with a driver profile; driver_id NULL
    Transfers, NoReceipt,        \* provider transaction ids; no receipt stored
    InitialStock, MaxStock,      \* stock of each variant; the width of the column
    CartLimit                    \* how many items a cart may hold

ASSUME MarketAssumption ==
    /\ IsFiniteSet(Sellers) /\ IsFiniteSet(Variants)
    /\ Variants \subseteq Nat /\ MaxStock \in Nat /\ CartLimit \in Nat
    /\ SellerOf \in [Variants -> Sellers]
    /\ Price \in [Variants -> Nat]
    /\ CommissionRate \in [Sellers -> Nat] /\ \A s \in Sellers : CommissionRate[s] <= 10000
    /\ InitialStock \in [Variants -> 0..MaxStock]
    /\ NoOrder \notin Orders /\ NoCoupon \notin Coupons /\ NoDriver \notin Drivers
    /\ AnySeller \notin Sellers
    /\ \A c \in Coupons : IsOffer(Offer[c]) /\ Offer[c].seller \in Sellers \cup {AnySeller}

VARIABLES
    shop,         \* sellers.status
    stock,        \* product_variants.stock
    adjusted,     \* sum of the "adjustment" movements of each variant
    moved,        \* sum of the movements of each variant that reference an order
    cart,         \* cart_items.quantity, 0 when there is no item
    couponActive, \* coupons.active, its validity window included
    redeemed,     \* coupon_redemptions: the users of each coupon
    usedCount,    \* coupons.used_count
    placed,       \* what checkout wrote of each order and never changes
    orderStatus,  \* orders.status, "none" before checkout
    childStatus,  \* seller_orders.status, "none" when the shop has no part in it
    payStatus,    \* payments.status
    receipts,     \* payment_webhook_receipts
    driver,       \* driver_profiles.status, "none" before the application
    shipments,    \* shipments, one at most per seller order
    outbox        \* outbox_events: how many of each, 2 standing for "2 or more"

catalogVars == <<shop, stock, adjusted, cart, couponActive>>
couponVars  == <<redeemed, usedCount>>
orderVars   == <<placed, moved, orderStatus, childStatus>>
moneyVars   == <<payStatus, receipts>>
fleetVars   == <<driver, shipments>>
vars        == <<catalogVars, couponVars, orderVars, moneyVars, fleetVars, outbox>>

---------------------------------------------------------------------------
(* Row types *)

Methods          == {"cod", "sepay"}
ShopStatuses     == {"pending", "approved", "rejected", "suspended"}
OrderStatuses    == {"none", "pending", "processing", "delivered", "cancelled"}
ChildStatuses    == {"none", "pending", "confirmed", "shipping", "delivered", "cancelled"}
PayStatuses      == {"none", "pending", "paid", "cancelled"}
DriverStatuses   == {"none", "pending", "approved", "rejected", "suspended"}
ShipmentStatuses == {"none", "pending", "assigned", "accepted", "picked_up", "delivering",
                     "failed", "returned", "delivered", "shipping"}
ReceiptStatuses  == {"unmatched", "ignored", "requires_review", "applied"}

\* A checkout request. The service normalises the coupon code and the selection;
\* the empty selection means the whole cart.
Requests == [user : Users, key : Keys, address : Addresses, method : Methods,
             selection : SUBSET Variants, coupon : Coupons \cup {NoCoupon}]

\* cod is cod_amount; carrier "external" is any carrier name but "internal".
NoShipment == [carrier |-> "none", status |-> "none", driver |-> NoDriver,
               cod |-> 0, collected |-> FALSE, settled |-> FALSE]

\* The outbox rows of these handlers. Payloads are reduced to what tells two
\* events of one type apart.
Events == {<<"order_created", o>> : o \in Orders}
     \cup {<<"payment_succeeded", o>> : o \in Orders}
     \cup {<<"order_cancelled", o>> : o \in Orders}
     \cup {<<"order_status_changed", o, s, c>> : o \in Orders, s \in Sellers, c \in ChildStatuses}
     \cup {<<"payment_reconciliation_required", t>> : t \in Transfers}
     \cup {<<"shipment_status_changed", o, s>> : o \in Orders, s \in Sellers}
     \cup {<<"inventory_changed", v>> : v \in Variants}
     \cup {<<"seller_status_changed", s>> : s \in Sellers}

\* The handler's inserts into the outbox, in its own transaction.
Enqueue(events) ==
    outbox' = [e \in Events |-> IF e \in events /\ outbox[e] < 2 THEN outbox[e] + 1
                                                              ELSE outbox[e]]

---------------------------------------------------------------------------
(* What the handlers look up *)

Placed        == {o \in Orders : orderStatus[o] # "none"}
ChildrenOf(o) == {s \in Sellers : childStatus[o][s] # "none"}

\* Mutant: a payment that is still due counts as good enough.
PayableWhenDue(o) == placed[o].method = "cod" \/ payStatus[o] \in {"pending", "paid"}

\* A cash order may be worked on before it is paid, an online order only after.
Payable(o) == placed[o].method = "cod" \/ payStatus[o] = "paid"

\* Mutant: the first delivery completes the order.
ParentStatusOfFirst(children) ==
    IF \E s \in Sellers : children[s] = "delivered" THEN "delivered" ELSE "processing"

\* orders.status after a child of it moved: children is its row of childStatus'.
ParentStatus(children) ==
    IF \A s \in Sellers : children[s] \in {"none", "delivered"}
    THEN "delivered" ELSE "processing"

Internal(o, s) == shipments[o][s].carrier = "internal"

\* The database as migrations leave it, with the shops approved.
Init ==
    /\ shop = [s \in Sellers |-> "approved"]
    /\ stock = InitialStock
    /\ adjusted = [v \in Variants |-> 0]
    /\ moved = [o \in Orders |-> [v \in Variants |-> 0]]
    /\ cart = [u \in Users |-> [v \in Variants |-> 0]]
    /\ couponActive = [c \in Coupons |-> TRUE]
    /\ redeemed = [c \in Coupons |-> {}]
    /\ usedCount = [c \in Coupons |-> 0]
    /\ placed = [o \in Orders |-> NoOrder]
    /\ orderStatus = [o \in Orders |-> "none"]
    /\ childStatus = [o \in Orders |-> [s \in Sellers |-> "none"]]
    /\ payStatus = [o \in Orders |-> "none"]
    /\ receipts = [t \in Transfers |-> NoReceipt]
    /\ driver = [d \in Drivers |-> "none"]
    /\ shipments = [o \in Orders |-> [s \in Sellers |-> NoShipment]]
    /\ outbox = [e \in Events |-> 0]

=============================================================================
