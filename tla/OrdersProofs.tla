---------------------------- MODULE OrdersProofs ----------------------------
(***************************************************************************)
(* The safety of Orders, for every number of customers, shops, orders,     *)
(* coupons, drivers and transfers. First type correctness, an inductive    *)
(* invariant of each order's rows, from which the properties of the runs   *)
(* follow, and what no step may do; then the rows of several orders:       *)
(* idempotency keys, the limits of coupons, the accounting of transfers,   *)
(* that stock is conserved, that the totals of an order add up, and that   *)
(* its cash is accounted for.                                              *)
(***************************************************************************)
EXTENDS Orders, ArithmeticProofs

-----------------------------------------------------------------------------
(* Type correctness *)

\* The inserts of a handler keep the counts of events in range.
LEMMA EnqueueType ==
    ASSUME NEW events, outbox \in [Events -> 0..2], Enqueue(events)
    PROVE  outbox' \in [Events -> 0..2]
BY DEF Enqueue

\* Nothing refers to an order that has not been placed. Without it a handler of a
\* parcel could bring an order into being whose row nobody wrote, and TypeOK would
\* not be inductive.
UnplacedIsEmpty ==
    \A o \in Orders : orderStatus[o] = "none" =>
        /\ payStatus[o] = "none"
        /\ \A s \in Sellers : childStatus[o][s] = "none" /\ shipments[o][s].carrier = "none"

\* Shops, stock, carts and coupon switches that are not written keep their types.
LEMMA CatalogUnchanged == CatalogTypeOK /\ UNCHANGED catalogVars => CatalogTypeOK'
BY DEF CatalogTypeOK, catalogVars

\* So do redemptions and their counters,
LEMMA CouponUnchanged == CouponTypeOK /\ UNCHANGED couponVars => CouponTypeOK'
BY DEF CouponTypeOK, couponVars

\* orders and their movements,
LEMMA OrderUnchanged == OrderTypeOK /\ UNCHANGED orderVars => OrderTypeOK'
BY DEF OrderTypeOK, orderVars, Placed

\* payments and receipts,
LEMMA MoneyUnchanged == MoneyTypeOK /\ UNCHANGED moneyVars => MoneyTypeOK'
BY DEF MoneyTypeOK, moneyVars

\* drivers and shipments.
LEMMA FleetUnchanged == FleetTypeOK /\ UNCHANGED fleetVars => FleetTypeOK'
BY DEF FleetTypeOK, fleetVars

\* The empty tables are well typed.
THEOREM InitType == Init => TypeOK
<1> SUFFICES ASSUME Init PROVE TypeOK
  OBVIOUS
<1>1. CatalogTypeOK
  <2>1. shop \in [Sellers -> ShopStatuses] /\ couponActive \in [Coupons -> BOOLEAN]
    BY DEF Init, ShopStatuses
  <2>2. stock \in [Variants -> 0..MaxStock]
    <3>1. stock = InitialStock
      BY DEF Init
    <3>2. InitialStock \in [Variants -> 0..MaxStock]
      BY SMTT(30), MarketAssumption
    <3> QED
      BY <3>1, <3>2
  <2>3. adjusted \in [Variants -> Int] /\ cart \in [Users -> [Variants -> Nat]]
    BY DEF Init
  <2> QED
    BY <2>1, <2>2, <2>3 DEF CatalogTypeOK
<1>2. CouponTypeOK
  BY DEF Init, CouponTypeOK
<1>3. OrderTypeOK
  BY DEF Init, OrderTypeOK, Placed, OrderStatuses, ChildStatuses
<1>4. MoneyTypeOK
  BY DEF Init, MoneyTypeOK, PayStatuses
<1>5. FleetTypeOK
  <2>1. IsShipment(NoShipment)
    BY DEF IsShipment, NoShipment, ShipmentStatuses
  <2> QED
    BY <2>1 DEF Init, FleetTypeOK, DriverStatuses
<1>6. outbox \in [Events -> 0..2]
  BY DEF Init
<1> QED
  BY <1>1, <1>2, <1>3, <1>4, <1>5, <1>6 DEF TypeOK

---------------------------------------------------------------------------
(* One lemma per handler *)

\* A cart item is set to a quantity that is a natural number.
LEMMA PutCartType ==
    ASSUME TypeOK, NEW u \in Users, NEW v \in Variants, NEW q \in Quantities, PutCart(u, v, q)
    PROVE  TypeOK'
<1>1. q \in Nat
  BY InputAssumption
<1>2. CatalogTypeOK'
  BY <1>1 DEF TypeOK, CatalogTypeOK, PutCart
<1> QED
  BY <1>2, CouponUnchanged, OrderUnchanged, MoneyUnchanged, FleetUnchanged DEF TypeOK, PutCart

\* Checkout takes no more units than there are, and writes well-typed rows.
LEMMA CheckoutType ==
    ASSUME TypeOK, NEW o \in Orders, NEW r \in CheckoutInputs, Checkout(o, r)
    PROVE  TypeOK'
<1> DEFINE row      == PlacedRow(r, CheckoutLines(r))
           taken    == [v \in Variants |-> IF v \in Selected(r) THEN cart[r.user][v] ELSE 0]
           children == [s \in Sellers |-> IF s \in Shops(r) THEN "pending" ELSE "none"]
<1>1. /\ r.user \in Users /\ r.key \in Keys /\ r.method \in Methods
      /\ r.coupon \in Coupons \cup {NoCoupon}
  BY InputAssumption DEF Requests
<1>2. /\ stock' = [v \in Variants |-> stock[v] - taken[v]]
      /\ moved' = [moved EXCEPT ![o] = [v \in Variants |-> @[v] - taken[v]]]
  BY DEF Checkout, PlaceOrder, TakeStock
<1>3. /\ placed' = [placed EXCEPT ![o] = row]
      /\ orderStatus' = [orderStatus EXCEPT ![o] = "pending"]
      /\ childStatus' = [childStatus EXCEPT ![o] = children]
      /\ payStatus' = [payStatus EXCEPT ![o] = "pending"]
  BY DEF Checkout, PlaceOrder
<1>4. taken \in [Variants -> Nat] /\ \A v \in Variants : stock[v] - taken[v] \in 0..MaxStock
  <2>1. MaxStock \in Nat
    BY MarketAssumption
  <2>2. /\ \A v \in Variants : stock[v] \in 0..MaxStock /\ cart[r.user][v] \in Nat
        /\ \A v \in Selected(r) : cart[r.user][v] <= stock[v]
    BY <1>1 DEF TypeOK, CatalogTypeOK, Checkout, CartReady, Selected
  <2> QED
    BY <2>1, <2>2
<1>5. IsPlacedRow(row)
  BY <1>1, <1>4 DEF IsPlacedRow, PlacedRow
<1>6. children \in [Sellers -> ChildStatuses]
  BY DEF ChildStatuses
<1> HIDE DEF row, taken, children
<1>7. CatalogTypeOK'
  <2>1. cart' \in [Users -> [Variants -> Nat]]
    BY <1>1 DEF TypeOK, CatalogTypeOK, Checkout, PlaceOrder, EmptyCart
  <2> QED
    BY <2>1, <1>2, <1>4 DEF TypeOK, CatalogTypeOK, Checkout
<1>8. CouponTypeOK'
  BY <1>1 DEF TypeOK, CouponTypeOK, Checkout, PlaceOrder, Redeem, couponVars
<1>9. OrderTypeOK'
  <2>1. DOMAIN placed' = Orders /\ \A p \in Placed' : IsPlacedRow(placed'[p])
    BY <1>3, <1>5 DEF TypeOK, OrderTypeOK, Placed
  <2>2. moved' \in [Orders -> [Variants -> Int]]
    BY <1>2, <1>4 DEF TypeOK, OrderTypeOK
  <2>3. orderStatus' \in [Orders -> OrderStatuses]
    BY <1>3 DEF TypeOK, OrderTypeOK, OrderStatuses
  <2>4. childStatus' \in [Orders -> [Sellers -> ChildStatuses]]
    BY <1>3, <1>6 DEF TypeOK, OrderTypeOK
  <2> QED
    BY <2>1, <2>2, <2>3, <2>4 DEF OrderTypeOK
<1>10. MoneyTypeOK'
  BY <1>3 DEF TypeOK, MoneyTypeOK, Checkout, PayStatuses
<1>11. outbox' \in [Events -> 0..2]
  BY EnqueueType DEF TypeOK, Checkout, PlaceOrder
<1> QED
  BY <1>7, <1>8, <1>9, <1>10, <1>11, FleetUnchanged DEF TypeOK, Checkout

\* Cancel returns units only as far as the column of the stock holds them.
LEMMA CancelType ==
    ASSUME TypeOK, NEW o \in Orders, Cancel(o)
    PROVE  TypeOK'
<1>1. o \in Placed /\ placed[o].quantity \in [Variants -> Nat]
  BY DEF TypeOK, OrderTypeOK, Cancel, Cancellable, Placed, IsPlacedRow
<1>2. CatalogTypeOK'
  <2>1. MaxStock \in Nat
    BY MarketAssumption
  <2>2. stock' \in [Variants -> 0..MaxStock]
    BY <1>1, <2>1 DEF TypeOK, CatalogTypeOK, Cancel, RestoreStock
  <2>3. UNCHANGED <<shop, adjusted, cart, couponActive>>
    BY DEF Cancel
  <2> QED
    BY <2>2, <2>3 DEF TypeOK, CatalogTypeOK
<1>3. OrderTypeOK'
  <2>1. moved' \in [Orders -> [Variants -> Int]]
    BY <1>1 DEF TypeOK, OrderTypeOK, Cancel, RestoreStock
  <2>2. /\ orderStatus' \in [Orders -> OrderStatuses]
        /\ childStatus' \in [Orders -> [Sellers -> ChildStatuses]]
    BY DEF TypeOK, OrderTypeOK, Cancel, OrderStatuses, ChildStatuses
  <2>3. Placed' = Placed
    BY <1>1 DEF TypeOK, OrderTypeOK, Cancel, Placed
  <2> QED
    BY <2>1, <2>2, <2>3 DEF TypeOK, OrderTypeOK, Cancel
<1>4. MoneyTypeOK'
  BY DEF TypeOK, MoneyTypeOK, Cancel, PayStatuses
<1>5. outbox' \in [Events -> 0..2]
  BY EnqueueType DEF TypeOK, Cancel
<1> QED
  BY <1>2, <1>3, <1>4, <1>5, CouponUnchanged, FleetUnchanged DEF TypeOK, Cancel

\* Adjust keeps the stock in the range of its column.
LEMMA AdjustType ==
    ASSUME TypeOK, NEW v \in Variants, NEW delta \in Deltas, Adjust(v, delta)
    PROVE  TypeOK'
<1>1. delta \in Int
  BY InputAssumption
<1>2. CatalogTypeOK'
  BY <1>1 DEF TypeOK, CatalogTypeOK, Adjust, InRange
<1>3. outbox' \in [Events -> 0..2]
  BY EnqueueType DEF TypeOK, Adjust
<1> QED
  BY <1>2, <1>3, CouponUnchanged, OrderUnchanged, MoneyUnchanged, FleetUnchanged DEF TypeOK, Adjust

\* The switches over coupons and shops set them to statuses there are.
LEMMA SwitchType ==
    ASSUME TypeOK,
           \/ \E c \in Coupons, active \in BOOLEAN : SetCouponActive(c, active)
           \/ \E s \in Sellers, status \in ShopDecisions : SetShopStatus(s, status)
    PROVE  TypeOK'
<1>1. ASSUME NEW c \in Coupons, NEW active \in BOOLEAN, SetCouponActive(c, active)
      PROVE  TypeOK'
  <2>1. CatalogTypeOK'
    BY <1>1 DEF TypeOK, CatalogTypeOK, SetCouponActive
  <2> QED
    BY <1>1, <2>1, CouponUnchanged, OrderUnchanged, MoneyUnchanged, FleetUnchanged
       DEF TypeOK, SetCouponActive
<1>2. ASSUME NEW s \in Sellers, NEW status \in ShopDecisions, SetShopStatus(s, status)
      PROVE  TypeOK'
  <2>1. CatalogTypeOK'
    BY <1>2, InputAssumption DEF TypeOK, CatalogTypeOK, SetShopStatus
  <2>2. outbox' \in [Events -> 0..2]
    BY <1>2, EnqueueType DEF TypeOK, SetShopStatus
  <2> QED
    BY <1>2, <2>1, <2>2, CouponUnchanged, OrderUnchanged, MoneyUnchanged, FleetUnchanged
       DEF TypeOK, SetShopStatus
<1> QED
  BY <1>1, <1>2

\* The webhook writes a receipt and possibly the status of a payment.
LEMMA ReceiveType ==
    ASSUME TypeOK, NEW w \in Webhooks, Receive(w)
    PROVE  TypeOK'
<1>1. w.id \in Transfers
  BY DEF Webhooks
<1>2. ReceiptStatus(w) \in ReceiptStatuses
  BY DEF ReceiptStatus, ReceiptStatuses, Webhooks
<1>3. MoneyTypeOK'
  <2>1. payStatus' \in [Orders -> PayStatuses]
    BY DEF TypeOK, MoneyTypeOK, Receive, MarkPaid, PayStatuses
  <2>2. receipts' \in [Transfers -> Receipts \cup {NoReceipt}]
    <3>1. [order |-> w.order, amount |-> w.amount, direction |-> w.direction,
           account |-> w.account, status |-> ReceiptStatus(w)] \in Receipts
      BY <1>1, <1>2 DEF Receipts, Webhooks
    <3> QED
      BY <1>1, <3>1 DEF TypeOK, MoneyTypeOK, Receive
  <2> QED
    BY <2>1, <2>2 DEF MoneyTypeOK
<1>4. outbox' \in [Events -> 0..2]
  BY EnqueueType DEF TypeOK, Receive
<1> QED
  BY <1>3, <1>4, CatalogUnchanged, CouponUnchanged, OrderUnchanged, FleetUnchanged
     DEF TypeOK, Receive

\* Fulfill moves a seller order, its order and possibly its shipment and payment.
LEMMA FulfillType ==
    ASSUME TypeOK, UnplacedIsEmpty, NEW o \in Orders, NEW s \in Sellers,
           NEW to \in {"confirmed", "shipping", "delivered"},
           NEW carrier \in {"external", "internal"}, Fulfill(o, s, to, carrier)
    PROVE  TypeOK'
<1> DEFINE parcel == [NoShipment EXCEPT !.carrier = carrier, !.status = "shipping"]
<1>1. childStatus' = [childStatus EXCEPT ![o] = [childStatus[o] EXCEPT ![s] = to]]
  BY DEF Fulfill
<1>2. orderStatus' = [orderStatus EXCEPT ![o] = ParentStatus([childStatus[o] EXCEPT ![s] = to])]
  BY DEF Fulfill
<1>3. \/ UNCHANGED shipments
      \/ shipments' = [shipments EXCEPT ![o][s] = parcel]
      \/ shipments' = [shipments EXCEPT ![o][s].status = "delivered"]
  BY DEF Fulfill
<1>4. UNCHANGED <<catalogVars, couponVars, placed, moved, receipts, driver>>
  BY DEF Fulfill
<1>5. Placed' = Placed
  BY <1>2 DEF UnplacedIsEmpty, TypeOK, OrderTypeOK, Placed, ParentStatus, Fulfill, ChildrenOf
<1>6. OrderTypeOK'
  BY <1>1, <1>2, <1>4, <1>5 DEF TypeOK, OrderTypeOK, OrderStatuses, ChildStatuses, ParentStatus
<1>7. MoneyTypeOK'
  BY <1>4 DEF TypeOK, MoneyTypeOK, Fulfill, PayOnDelivery, PayStatuses
<1>8. FleetTypeOK'
  <2>1. IsShipment(parcel)
    BY DEF IsShipment, NoShipment, ShipmentStatuses
  <2>2. IsShipment([shipments[o][s] EXCEPT !.status = "delivered"])
    BY DEF TypeOK, FleetTypeOK, IsShipment, NoShipment, ShipmentStatuses
  <2> HIDE DEF parcel
  <2> QED
    BY <1>3, <1>4, <2>1, <2>2 DEF TypeOK, FleetTypeOK
<1>9. outbox' \in [Events -> 0..2]
  BY EnqueueType DEF TypeOK, Fulfill
<1> QED
  BY <1>4, <1>6, <1>7, <1>8, <1>9, CatalogUnchanged, CouponUnchanged DEF TypeOK

\* The handlers of driver profiles set them to statuses there are.
LEMMA DriverType ==
    ASSUME TypeOK,
           \/ \E d \in Drivers : Apply(d)
           \/ \E d \in Drivers, status \in DriverDecisions : ApproveDriver(d, status)
    PROVE  TypeOK'
<1>1. driver' \in [Drivers -> DriverStatuses]
  BY InputAssumption DEF TypeOK, FleetTypeOK, Apply, ApproveDriver, DriverStatuses
<1>2. UNCHANGED <<catalogVars, couponVars, orderVars, moneyVars, shipments, outbox>>
  BY DEF Apply, ApproveDriver
<1>3. FleetTypeOK'
  BY <1>1, <1>2 DEF TypeOK, FleetTypeOK
<1> QED
  BY <1>2, <1>3, CatalogUnchanged, CouponUnchanged, OrderUnchanged, MoneyUnchanged DEF TypeOK

\* CreateShipment writes a shipment of the platform.
LEMMA CreateShipmentType ==
    ASSUME TypeOK, NEW o \in Orders, NEW s \in Sellers, CreateShipment(o, s)
    PROVE  TypeOK'
<1> DEFINE parcel == [NoShipment EXCEPT
                        !.carrier = "internal", !.status = "pending",
                        !.cod = IF placed[o].method = "cod" THEN placed[o].totals[s] ELSE 0]
<1>1. IsShipment(parcel)
  BY DEF IsShipment, NoShipment, ShipmentStatuses
<1>2. shipments' = [shipments EXCEPT ![o][s] = parcel] /\ UNCHANGED driver
  BY DEF CreateShipment
<1> HIDE DEF parcel
<1>3. FleetTypeOK'
  BY <1>1, <1>2 DEF TypeOK, FleetTypeOK
<1>4. outbox' \in [Events -> 0..2]
  BY EnqueueType DEF TypeOK, CreateShipment
<1> QED
  BY <1>3, <1>4, CatalogUnchanged, CouponUnchanged, OrderUnchanged, MoneyUnchanged
     DEF TypeOK, CreateShipment

\* Assign writes the driver and the status of a shipment.
LEMMA AssignType ==
    ASSUME TypeOK, NEW o \in Orders, NEW s \in Sellers, NEW d \in Drivers, Assign(o, s, d)
    PROVE  TypeOK'
<1> DEFINE parcel == [shipments[o][s] EXCEPT !.driver = d, !.status = "assigned"]
<1>1. IsShipment(parcel)
  BY DEF TypeOK, FleetTypeOK, IsShipment, NoShipment, ShipmentStatuses
<1>2. shipments' = [shipments EXCEPT ![o][s] = parcel] /\ UNCHANGED driver
  BY DEF Assign, TypeOK, FleetTypeOK
<1> HIDE DEF parcel
<1>3. FleetTypeOK'
  BY <1>1, <1>2 DEF TypeOK, FleetTypeOK
<1>4. outbox' \in [Events -> 0..2]
  BY EnqueueType DEF TypeOK, Assign
<1> QED
  BY <1>3, <1>4, CatalogUnchanged, CouponUnchanged, OrderUnchanged, MoneyUnchanged
     DEF TypeOK, Assign

\* UpdateShipment writes a shipment, its seller order and its order.
LEMMA UpdateShipmentType ==
    ASSUME TypeOK, UnplacedIsEmpty, NEW o \in Orders, NEW s \in Sellers, NEW d \in Drivers,
           NEW to \in ShipmentStatuses, NEW collected \in BOOLEAN,
           UpdateShipment(o, s, d, to, collected)
    PROVE  TypeOK'
<1> DEFINE parcel   == [shipments[o][s] EXCEPT !.status = to, !.collected = collected]
           children == [childStatus[o] EXCEPT ![s] = ChildAfter(to)]
<1>1. IsShipment(parcel)
  BY DEF TypeOK, FleetTypeOK, IsShipment, NoShipment
<1>2. shipments' = [shipments EXCEPT ![o][s] = parcel] /\ UNCHANGED driver
  BY DEF UpdateShipment, TypeOK, FleetTypeOK
<1>3. /\ childStatus' = [childStatus EXCEPT ![o] = children]
      /\ orderStatus' = [orderStatus EXCEPT ![o] = ParentStatus(children)]
      /\ UNCHANGED <<catalogVars, couponVars, placed, moved, moneyVars>>
  BY DEF UpdateShipment, SyncOrder
<1>4. Placed' = Placed
  BY <1>3 DEF UnplacedIsEmpty, TypeOK, OrderTypeOK, Placed, ParentStatus, UpdateShipment,
              Serviceable, Internal
<1>5. children \in [Sellers -> ChildStatuses]
  BY DEF TypeOK, OrderTypeOK, ChildAfter, ChildStatuses
<1> HIDE DEF parcel, children
<1>6. OrderTypeOK'
  BY <1>3, <1>4, <1>5 DEF TypeOK, OrderTypeOK, ParentStatus, OrderStatuses
<1>7. FleetTypeOK'
  BY <1>1, <1>2 DEF TypeOK, FleetTypeOK
<1>8. outbox' \in [Events -> 0..2]
  BY EnqueueType DEF TypeOK, UpdateShipment
<1> QED
  BY <1>3, <1>6, <1>7, <1>8, CatalogUnchanged, CouponUnchanged, MoneyUnchanged DEF TypeOK

\* Settle writes a shipment and possibly a payment.
LEMMA SettleType ==
    ASSUME TypeOK, NEW o \in Orders, NEW s \in Sellers, Settle(o, s)
    PROVE  TypeOK'
<1> DEFINE parcel == [shipments[o][s] EXCEPT !.settled = TRUE, !.collected = TRUE]
<1>1. IsShipment(parcel)
  BY DEF TypeOK, FleetTypeOK, IsShipment, NoShipment
<1>2. shipments' = [shipments EXCEPT ![o][s] = parcel] /\ UNCHANGED driver
  BY DEF Settle, TypeOK, FleetTypeOK
<1> HIDE DEF parcel
<1>3. FleetTypeOK'
  BY <1>1, <1>2 DEF TypeOK, FleetTypeOK
<1>4. MoneyTypeOK'
  BY DEF TypeOK, MoneyTypeOK, Settle, PayStatuses
<1>5. outbox' \in [Events -> 0..2]
  BY EnqueueType DEF TypeOK, Settle
<1> QED
  BY <1>3, <1>4, <1>5, CatalogUnchanged, CouponUnchanged, OrderUnchanged DEF TypeOK, Settle

-----------------------------------------------------------------------------
(* The rows of an order *)

---------------------------------------------------------------------------
(* The inductive invariant *)

\* An order that has not been placed has no rows.
Unplaced(o) ==
    orderStatus[o] = "none" =>
        /\ payStatus[o] = "none"
        /\ \A s \in Sellers : childStatus[o][s] = "none" /\ shipments[o][s] = NoShipment

\* A parcel has a carrier exactly when it is in the table, its child stands where
\* it stands, and the platform's parcels satisfy the table's constraint.
Parcels(o) ==
    \A s \in Sellers :
        /\ shipments[o][s].carrier = "none" \/ shipments[o][s].status = "none"
              => shipments[o][s] = NoShipment
        /\ childStatus[o][s] \in ChildOf[shipments[o][s].status]
        /\ Allowed(shipments[o][s])
        /\ shipments[o][s].carrier = "external"
              => shipments[o][s].status \in {"shipping", "delivered"}

OneCarrier(o) == ~(HasInternal(o) /\ HasExternal(o))

\* The order's status is what its children add up to.
Parent(o) ==
    /\ orderStatus[o] # "none" => \E s \in Sellers : childStatus[o][s] # "none"
    /\ orderStatus[o] = "pending" =>
          \A s \in Sellers : childStatus[o][s] \in {"none", "pending"}
    /\ orderStatus[o] = "processing" =>
          /\ \E s \in Sellers : childStatus[o][s] \notin {"none", "delivered"}
          /\ \E s \in Sellers : childStatus[o][s] \in {"confirmed", "shipping", "delivered"}
    /\ orderStatus[o] = "delivered" =>
          \A s \in Sellers : childStatus[o][s] \in {"none", "delivered"}
    /\ orderStatus[o] = "cancelled" <=> \E s \in Sellers : childStatus[o][s] = "cancelled"
    /\ orderStatus[o] = "cancelled" =>
          \A s \in Sellers : /\ childStatus[o][s] \in {"none", "cancelled"}
                             /\ shipments[o][s] = NoShipment

\* What is paid, and when: cash not before the last delivery, a transfer not
\* after the first confirmation.
Payment(o) ==
    /\ orderStatus[o] # "none" => payStatus[o] # "none"
    /\ payStatus[o] = "cancelled" <=> orderStatus[o] = "cancelled"
    /\ payStatus[o] = "paid" /\ placed[o].method = "cod" => orderStatus[o] = "delivered"
    /\ orderStatus[o] \in {"processing", "delivered"} /\ placed[o].method = "sepay"
          => payStatus[o] = "paid"

Ledger(o) ==
    \A v \in Variants :
        moved[o][v] = IF o \in Live THEN -placed[o].quantity[v] ELSE 0

OrderInv(o) ==
    /\ Unplaced(o) /\ Parcels(o) /\ OneCarrier(o) /\ Parent(o) /\ Payment(o) /\ Ledger(o)

IInv == TypeOK /\ \A o \in Orders : OrderInv(o)

\* The table ChildOf, entry by entry.
LEMMA Child ==
    /\ ChildOf["none"] = {"none", "pending", "confirmed", "cancelled"}
    /\ ChildOf["pending"] = {"confirmed"} /\ ChildOf["assigned"] = {"confirmed"}
    /\ ChildOf["accepted"] = {"confirmed"} /\ ChildOf["picked_up"] = {"shipping"}
    /\ ChildOf["delivering"] = {"shipping"} /\ ChildOf["failed"] = {"shipping"}
    /\ ChildOf["returned"] = {"shipping"} /\ ChildOf["shipping"] = {"shipping"}
    /\ ChildOf["delivered"] = {"delivered"}
BY DEF ChildOf

\* A seller order without a shipment row.
LEMMA NoParcel == NoShipment.carrier = "none" /\ NoShipment.status = "none"
BY DEF NoShipment

---------------------------------------------------------------------------
(* The rows of an order that a step does not touch *)

Untouched(p) ==
    /\ placed'[p] = placed[p] /\ moved'[p] = moved[p]
    /\ orderStatus'[p] = orderStatus[p] /\ childStatus'[p] = childStatus[p]
    /\ payStatus'[p] = payStatus[p] /\ shipments'[p] = shipments[p]

\* The invariant of an order is about its own rows only.
LEMMA UntouchedInv ==
    ASSUME NEW p \in Orders, OrderInv(p), Untouched(p)
    PROVE  OrderInv(p)'
<1>1. Unplaced(p)'
  BY DEF OrderInv, Unplaced, Untouched
<1>2. Parcels(p)'
  BY DEF OrderInv, Parcels, Untouched, Allowed
<1>3. OneCarrier(p)'
  BY DEF OrderInv, OneCarrier, HasInternal, HasExternal, Untouched
<1>4. Parent(p)'
  BY DEF OrderInv, Parent, Untouched
<1>5. Payment(p)'
  BY DEF OrderInv, Payment, Untouched
<1>6. Ledger(p)'
  BY DEF OrderInv, Ledger, Live, Placed, Untouched
<1> QED
  BY <1>1, <1>2, <1>3, <1>4, <1>5, <1>6 DEF OrderInv

\* A checkout writes the rows of a new order.
LEMMA CheckoutInv ==
    ASSUME IInv, NEW o \in Orders, NEW r \in CheckoutInputs, Checkout(o, r)
    PROVE  \A p \in Orders : OrderInv(p)'
<1> DEFINE taken    == [v \in Variants |-> IF v \in Selected(r) THEN cart[r.user][v] ELSE 0]
           children == [s \in Sellers |-> IF s \in Shops(r) THEN "pending" ELSE "none"]
<1>1. /\ placed' = [placed EXCEPT ![o] = PlacedRow(r, CheckoutLines(r))]
      /\ orderStatus' = [orderStatus EXCEPT ![o] = "pending"]
      /\ childStatus' = [childStatus EXCEPT ![o] = children]
      /\ payStatus' = [payStatus EXCEPT ![o] = "pending"]
      /\ moved' = [moved EXCEPT ![o] = [v \in Variants |-> @[v] - taken[v]]]
      /\ UNCHANGED shipments
  BY DEF Checkout, PlaceOrder, TakeStock, fleetVars
<1>2. PlacedRow(r, CheckoutLines(r)).quantity = taken
  BY DEF PlacedRow
<1>3. /\ orderStatus[o] = "none" /\ \A v \in Variants : moved[o][v] = 0
      /\ \A s \in Sellers : shipments[o][s] = NoShipment
  BY DEF IInv, OrderInv, Unplaced, Ledger, Live, Placed, Checkout
<1>4. taken \in [Variants -> Int]
  BY InputAssumption DEF IInv, TypeOK, CatalogTypeOK, Requests, Selected
<1>5. children \in [Sellers -> {"none", "pending"}] /\ \E s \in Sellers : children[s] = "pending"
  BY MarketAssumption DEF Checkout, CartReady, Shops, Selected
<1> HIDE DEF taken, children
<1>6. ASSUME NEW p \in Orders \ {o} PROVE OrderInv(p)'
  BY <1>1, UntouchedInv DEF IInv, TypeOK, OrderTypeOK, MoneyTypeOK, Untouched
<1>7. /\ orderStatus'[o] = "pending" /\ childStatus'[o] = children /\ payStatus'[o] = "pending"
      /\ shipments'[o] = shipments[o]
      /\ placed'[o].quantity = taken
  BY <1>1, <1>2 DEF IInv, TypeOK, OrderTypeOK, MoneyTypeOK
<1>8. Ledger(o)'
  <2>1. \A v \in Variants : moved'[o][v] = -taken[v]
    BY <1>1, <1>3, <1>4 DEF IInv, TypeOK, OrderTypeOK
  <2> QED
    BY <1>7, <2>1 DEF Ledger, Live, Placed
<1>9. Parcels(o)'
  BY <1>3, <1>5, <1>7, Child, NoParcel DEF Parcels, Allowed
<1>10. Unplaced(o)' /\ Parent(o)' /\ Payment(o)'
  <2>1. Unplaced(o)'
    BY <1>5, <1>7 DEF Unplaced
  <2>2. Parent(o)'
    BY <1>5, <1>7 DEF Parent
  <2>3. Payment(o)'
    BY <1>5, <1>7 DEF Payment
  <2> QED
    BY <2>1, <2>2, <2>3
<1>11. OneCarrier(o)'
  BY <1>3, <1>7 DEF OneCarrier, HasInternal, HasExternal, NoShipment
<1>12. OrderInv(o)'
  BY <1>8, <1>9, <1>10, <1>11 DEF OrderInv
<1> QED
  BY <1>6, <1>12

\* A cancellation takes nothing from the road: all children were pending.
LEMMA CancelInv ==
    ASSUME IInv, NEW o \in Orders, Cancel(o)
    PROVE  \A p \in Orders : OrderInv(p)'
<1> DEFINE children == [s \in Sellers |-> IF s \in ChildrenOf(o) THEN "cancelled" ELSE "none"]
<1>1. /\ orderStatus' = [orderStatus EXCEPT ![o] = "cancelled"]
      /\ childStatus' = [childStatus EXCEPT ![o] = children]
      /\ payStatus' = [payStatus EXCEPT ![o] = "cancelled"]
      /\ moved' = [moved EXCEPT ![o] = [v \in Variants |-> @[v] + placed[o].quantity[v]]]
      /\ UNCHANGED <<placed, shipments>>
  BY DEF Cancel, RestoreStock, fleetVars
<1>2. orderStatus[o] = "pending" /\ \A s \in ChildrenOf(o) : childStatus[o][s] = "pending"
  BY DEF Cancel, Cancellable
<1>3. \A s \in Sellers : shipments[o][s] = NoShipment
  <2> SUFFICES ASSUME NEW s \in Sellers PROVE shipments[o][s] = NoShipment
    OBVIOUS
  <2>1. childStatus[o][s] \in {"none", "pending"}
    BY <1>2 DEF ChildrenOf
  <2>2. childStatus[o][s] \in ChildOf[shipments[o][s].status]
    BY DEF IInv, OrderInv, Parcels
  <2>3. shipments[o][s].status = "none"
    BY <2>1, <2>2, Child DEF IInv, TypeOK, FleetTypeOK, IsShipment, ShipmentStatuses
  <2> QED
    BY <2>3 DEF IInv, OrderInv, Parcels
<1>4. children \in [Sellers -> {"none", "cancelled"}]
      /\ \E s \in Sellers : children[s] = "cancelled"
  BY <1>2 DEF IInv, OrderInv, Parent, ChildrenOf
<1> HIDE DEF children
<1>5. ASSUME NEW p \in Orders \ {o} PROVE OrderInv(p)'
  BY <1>1, UntouchedInv DEF IInv, TypeOK, OrderTypeOK, MoneyTypeOK, Untouched
<1>6. /\ orderStatus'[o] = "cancelled" /\ childStatus'[o] = children /\ payStatus'[o] = "cancelled"
      /\ shipments'[o] = shipments[o]
  BY <1>1 DEF IInv, TypeOK, OrderTypeOK, MoneyTypeOK
<1>7. Ledger(o)'
  <2>1. o \in Live /\ placed[o].quantity \in [Variants -> Nat]
    BY <1>2 DEF IInv, TypeOK, OrderTypeOK, IsPlacedRow, Live, Placed
  <2>2. \A v \in Variants : moved'[o][v] = 0
    BY <1>1, <2>1 DEF IInv, TypeOK, OrderTypeOK, OrderInv, Ledger
  <2> QED
    BY <1>6, <2>2 DEF Ledger, Live, Placed
<1>8. Parcels(o)'
  BY <1>3, <1>4, <1>6, Child, NoParcel DEF Parcels, Allowed
<1>9. Unplaced(o)' /\ Parent(o)' /\ Payment(o)'
  <2>1. Unplaced(o)'
    BY <1>3, <1>4, <1>6 DEF Unplaced
  <2>2. Parent(o)'
    BY <1>3, <1>4, <1>6 DEF Parent
  <2>3. Payment(o)'
    BY <1>3, <1>4, <1>6 DEF Payment
  <2> QED
    BY <2>1, <2>2, <2>3
<1>10. OneCarrier(o)'
  BY <1>3, <1>6 DEF OneCarrier, HasInternal, HasExternal, NoShipment
<1>11. OrderInv(o)'
  BY <1>7, <1>8, <1>9, <1>10 DEF OrderInv
<1> QED
  BY <1>5, <1>11

\* A transfer is applied to pending online orders only.
LEMMA ReceiveInv ==
    ASSUME IInv, NEW w \in Webhooks, Receive(w)
    PROVE  \A p \in Orders : OrderInv(p)'
<1>1. UNCHANGED <<orderVars, fleetVars>>
  BY DEF Receive
<1>2. CASE UNCHANGED payStatus
  BY <1>1, <1>2, UntouchedInv DEF IInv, Untouched, orderVars, fleetVars
<1>3. CASE ReceiptStatus(w) = "applied" /\ MarkPaid(w.order)
  <2>1. w.order \in Placed /\ CanApply(w, w.order)
    BY <1>3 DEF ReceiptStatus, Webhooks, Matches
  <2>2. payStatus' = [payStatus EXCEPT ![w.order] = "paid"]
    BY <1>3 DEF MarkPaid
  <2>3. ASSUME NEW p \in Orders \ {w.order} PROVE OrderInv(p)'
    BY <1>1, <2>2, UntouchedInv DEF IInv, TypeOK, MoneyTypeOK, Untouched, orderVars, fleetVars
  <2>4. w.order \in Orders /\ payStatus'[w.order] = "paid"
    BY <2>1, <2>2 DEF IInv, TypeOK, MoneyTypeOK, Placed
  <2>5. Payment(w.order)'
    BY <1>1, <2>1, <2>4 DEF Payment, CanApply, orderVars
  <2>6. /\ Unplaced(w.order)' /\ Parcels(w.order)' /\ OneCarrier(w.order)' /\ Parent(w.order)'
        /\ Ledger(w.order)'
    BY <1>1, <2>1, <2>4
       DEF IInv, OrderInv, Unplaced, Parcels, Allowed, OneCarrier, HasInternal, HasExternal, Parent,
           Ledger, Live, Placed, orderVars, fleetVars
  <2> QED
    BY <2>3, <2>5, <2>6 DEF OrderInv
<1> QED
  BY <1>2, <1>3 DEF Receive

---------------------------------------------------------------------------
(* The steps of one seller order and its parcel *)

\* The step writes, of all the children and parcels, those of (o, s) only.
OnlyParcel(o, s) ==
    /\ \A p \in Orders \ {o} : Untouched(p)
    /\ placed'[o] = placed[o] /\ moved'[o] = moved[o]
    /\ \A q \in Sellers \ {s} : /\ childStatus'[o][q] = childStatus[o][q]
                               /\ shipments'[o][q] = shipments[o][q]

\* It leaves behind a parcel that fits its child, its table and its order.
FitsIn(o, s) ==
    LET parcel == shipments'[o][s] IN
    /\ parcel.carrier = "none" \/ parcel.status = "none" => parcel = NoShipment
    /\ childStatus'[o][s] \in ChildOf[parcel.status]
    /\ Allowed(parcel)
    /\ parcel.carrier = "external" => parcel.status \in {"shipping", "delivered"}
    /\ parcel.carrier = "internal" => ~HasExternal(o)
    /\ parcel.carrier = "external" => ~HasInternal(o)

\* Such a step keeps what is said of the order's parcels.
LEMMA ParcelStep ==
    ASSUME IInv, NEW o \in Orders, NEW s \in Sellers, OnlyParcel(o, s), FitsIn(o, s)
    PROVE  Parcels(o)' /\ OneCarrier(o)'
<1>1. Parcels(o)'
  <2> SUFFICES ASSUME NEW q \in Sellers PROVE
        /\ shipments'[o][q].carrier = "none" \/ shipments'[o][q].status = "none"
              => shipments'[o][q] = NoShipment
        /\ childStatus'[o][q] \in ChildOf[shipments'[o][q].status]
        /\ Allowed(shipments'[o][q])
        /\ shipments'[o][q].carrier = "external"
              => shipments'[o][q].status \in {"shipping", "delivered"}
    BY DEF Parcels, Allowed
  <2>1. CASE q = s
    BY <2>1 DEF FitsIn
  <2>2. CASE q # s
    BY <2>2 DEF IInv, OrderInv, Parcels, OnlyParcel
  <2> QED
    BY <2>1, <2>2
<1>2. OneCarrier(o)'
  BY DEF IInv, OrderInv, OneCarrier, HasInternal, HasExternal, OnlyParcel, FitsIn
<1> QED
  BY <1>1, <1>2

\* A step of work: the child moves to a stage after "pending", the parent follows,
\* and the cash of a delivered order may be recorded with it.
LEMMA WorkInv ==
    ASSUME IInv, NEW o \in Orders, NEW s \in Sellers, OnlyParcel(o, s), FitsIn(o, s),
           Payable(o), orderStatus[o] # "cancelled",
           childStatus[o][s] \in {"pending", "confirmed", "shipping"},
           childStatus'[o][s] \in {"confirmed", "shipping", "delivered"},
           orderStatus'[o] = ParentStatus(childStatus'[o]),
           \/ payStatus'[o] = payStatus[o]
           \/ /\ payStatus'[o] = "paid" /\ placed[o].method = "cod"
              /\ orderStatus'[o] = "delivered"
    PROVE  \A p \in Orders : OrderInv(p)'
<1>1. ASSUME NEW p \in Orders \ {o} PROVE OrderInv(p)'
  BY UntouchedInv DEF IInv, OnlyParcel
<1>2. orderStatus[o] \in {"pending", "processing"}
  BY DEF IInv, TypeOK, OrderTypeOK, OrderStatuses, OrderInv, Unplaced, Parent
<1>3. orderStatus'[o] \in {"processing", "delivered"}
  BY DEF ParentStatus
<1>4. \A q \in Sellers : childStatus'[o][q] # "cancelled"
  BY DEF IInv, OrderInv, Parent, OnlyParcel
<1>5. Parent(o)'
  <2>1. orderStatus'[o] = "processing" =>
           \E q \in Sellers : childStatus'[o][q] \notin {"none", "delivered"}
    BY DEF ParentStatus
  <2>2. orderStatus'[o] = "delivered" =>
           \A q \in Sellers : childStatus'[o][q] \in {"none", "delivered"}
    BY DEF ParentStatus
  <2> QED
    BY <1>3, <1>4, <2>1, <2>2 DEF Parent
<1>6. Payment(o)'
  BY <1>2, <1>3 DEF IInv, OrderInv, Payment, Payable, OnlyParcel
<1>7. Unplaced(o)'
  BY <1>3 DEF Unplaced
<1>8. Ledger(o)'
  BY <1>2, <1>3 DEF IInv, OrderInv, Ledger, Live, Placed, OnlyParcel
<1>9. OrderInv(o)'
  BY <1>5, <1>6, <1>7, <1>8, ParcelStep DEF OrderInv
<1> QED
  BY <1>1, <1>9

\* A step that moves no status, and may record cash once all is delivered.
LEMMA ServiceInv ==
    ASSUME IInv, NEW o \in Orders, NEW s \in Sellers, OnlyParcel(o, s), FitsIn(o, s),
           orderStatus[o] \notin {"none", "cancelled"},
           orderStatus'[o] = orderStatus[o], childStatus'[o] = childStatus[o],
           \/ payStatus'[o] = payStatus[o]
           \/ payStatus'[o] = "paid" /\ orderStatus[o] = "delivered"
    PROVE  \A p \in Orders : OrderInv(p)'
<1>1. ASSUME NEW p \in Orders \ {o} PROVE OrderInv(p)'
  BY UntouchedInv DEF IInv, OnlyParcel
<1>2. Unplaced(o)' /\ Parent(o)'
  BY DEF IInv, OrderInv, Unplaced, Parent
<1>3. Payment(o)'
  BY DEF IInv, OrderInv, Payment, OnlyParcel
<1>4. Ledger(o)'
  BY DEF IInv, OrderInv, Ledger, Live, Placed, OnlyParcel
<1>5. OrderInv(o)'
  BY <1>2, <1>3, <1>4, ParcelStep DEF OrderInv
<1> QED
  BY <1>1, <1>5

\* The shop's own carrier. That a parcel called "internal" cannot be inserted is
\* the table's constraint, not the handler's doing.
LEMMA FulfillInv ==
    ASSUME IInv, NEW o \in Orders, NEW s \in Sellers,
           NEW to \in {"confirmed", "shipping", "delivered"},
           NEW carrier \in {"external", "internal"}, Fulfill(o, s, to, carrier)
    PROVE  \A p \in Orders : OrderInv(p)'
<1> DEFINE parcel == [NoShipment EXCEPT !.carrier = carrier, !.status = "shipping"]
           children == [childStatus[o] EXCEPT ![s] = to]
<1>1. /\ childStatus' = [childStatus EXCEPT ![o] = children]
      /\ orderStatus' = [orderStatus EXCEPT ![o] = ParentStatus(children)]
      /\ UNCHANGED <<placed, moved>>
  BY DEF Fulfill
<1>2. \/ to = "confirmed" /\ UNCHANGED shipments
      \/ /\ to = "shipping" /\ shipments[o][s] = NoShipment /\ Allowed(parcel) /\ ~HasInternal(o)
         /\ shipments' = [shipments EXCEPT ![o][s] = parcel]
      \/ /\ to = "delivered" /\ shipments[o][s] # NoShipment
         /\ shipments' = [shipments EXCEPT ![o][s].status = "delivered"]
  BY DEF Fulfill
<1>3. \/ UNCHANGED payStatus
      \/ /\ ParentStatus(children) = "delivered" /\ placed[o].method = "cod"
         /\ payStatus' = [payStatus EXCEPT ![o] = "paid"]
  BY DEF Fulfill, PayOnDelivery
<1>4. /\ ~Internal(o, s) /\ orderStatus[o] # "cancelled" /\ Payable(o)
      /\ ValidTransition(childStatus[o][s], to)
  BY DEF Fulfill
<1>5. /\ childStatus'[o] = children /\ orderStatus'[o] = ParentStatus(children)
      /\ childStatus'[o][s] = to
  BY <1>1 DEF IInv, TypeOK, OrderTypeOK
<1>6. OnlyParcel(o, s)
  <2>1. \A p \in Orders \ {o} : Untouched(p)
    BY <1>1, <1>2, <1>3 DEF IInv, TypeOK, OrderTypeOK, MoneyTypeOK, FleetTypeOK, Untouched
  <2>2. \A q \in Sellers \ {s} : shipments'[o][q] = shipments[o][q]
    BY <1>2 DEF IInv, TypeOK, FleetTypeOK
  <2>3. \A q \in Sellers \ {s} : childStatus'[o][q] = childStatus[o][q]
    BY <1>5 DEF IInv, TypeOK, OrderTypeOK
  <2> QED
    BY <1>1, <2>1, <2>2, <2>3 DEF OnlyParcel
<1>7. childStatus[o][s] \in {"pending", "confirmed", "shipping"}
  BY <1>4 DEF ValidTransition
<1>8. FitsIn(o, s)
  <2>1. CASE to = "confirmed" /\ UNCHANGED shipments
    <3>1. childStatus[o][s] = "pending"
      BY <1>4, <2>1 DEF ValidTransition
    <3>2. shipments[o][s] = NoShipment
      BY <3>1, Child DEF IInv, OrderInv, Parcels, TypeOK, FleetTypeOK, IsShipment, ShipmentStatuses
    <3> QED
      BY <1>5, <2>1, <3>2, Child, NoParcel DEF FitsIn, Allowed
  <2>2. CASE /\ to = "shipping" /\ Allowed(parcel) /\ ~HasInternal(o)
             /\ shipments' = [shipments EXCEPT ![o][s] = parcel]
    <3>1. parcel.carrier = carrier /\ parcel.status = "shipping"
      BY DEF NoShipment
    <3>2. carrier = "external"
      BY <2>2, <3>1 DEF Allowed
    <3>3. shipments'[o][s] = parcel
      BY <2>2 DEF IInv, TypeOK, FleetTypeOK
    <3> HIDE DEF parcel
    <3> QED
      BY <1>5, <2>2, <3>1, <3>2, <3>3, Child DEF FitsIn
  <2>3. CASE /\ to = "delivered" /\ shipments[o][s] # NoShipment
             /\ shipments' = [shipments EXCEPT ![o][s].status = "delivered"]
    <3> DEFINE arrived == [shipments[o][s] EXCEPT !.status = "delivered"]
    <3>1. shipments[o][s].carrier = "external"
      BY <1>4, <2>3 DEF Internal, IInv, OrderInv, Parcels, TypeOK, FleetTypeOK, IsShipment
    <3>2. shipments' = [shipments EXCEPT ![o][s] = arrived]
      BY <2>3 DEF IInv, TypeOK, FleetTypeOK
    <3>3. arrived.carrier = "external" /\ arrived.status = "delivered"
      BY <3>1 DEF IInv, TypeOK, FleetTypeOK, IsShipment, NoShipment
    <3> HIDE DEF arrived
    <3>4. shipments'[o][s] = arrived
      BY <3>2 DEF IInv, TypeOK, FleetTypeOK
    <3>5. ~HasInternal(o)
      BY <3>1 DEF IInv, OrderInv, OneCarrier, HasExternal
    <3> QED
      BY <1>5, <2>3, <3>3, <3>4, <3>5, Child DEF FitsIn, Allowed
  <2> QED
    BY <1>2, <2>1, <2>2, <2>3
<1>9. \/ payStatus'[o] = payStatus[o]
      \/ /\ payStatus'[o] = "paid" /\ placed[o].method = "cod"
         /\ orderStatus'[o] = "delivered"
  BY <1>3, <1>5 DEF IInv, TypeOK, MoneyTypeOK
<1> QED
  BY <1>4, <1>5, <1>6, <1>7, <1>8, <1>9, WorkInv

\* CreateShipment adds a pending platform parcel to a confirmed seller order.
LEMMA CreateShipmentInv ==
    ASSUME IInv, NEW o \in Orders, NEW s \in Sellers, CreateShipment(o, s)
    PROVE  \A p \in Orders : OrderInv(p)'
<1> DEFINE parcel == [NoShipment EXCEPT
                        !.carrier = "internal", !.status = "pending",
                        !.cod = IF placed[o].method = "cod" THEN placed[o].totals[s] ELSE 0]
<1>1. shipments' = [shipments EXCEPT ![o][s] = parcel] /\ UNCHANGED <<orderVars, moneyVars>>
  BY DEF CreateShipment
<1>2. parcel.carrier = "internal" /\ parcel.status = "pending"
  BY DEF NoShipment
<1> HIDE DEF parcel
<1>3. shipments'[o][s] = parcel
  BY <1>1 DEF IInv, TypeOK, FleetTypeOK
<1>4. OnlyParcel(o, s)
  BY <1>1 DEF IInv, TypeOK, FleetTypeOK, OnlyParcel, Untouched, orderVars, moneyVars
<1>5. childStatus'[o][s] = "confirmed" /\ ~HasExternal(o) /\ orderStatus[o] # "cancelled"
  BY <1>1 DEF CreateShipment, orderVars
<1>6. FitsIn(o, s)
  BY <1>2, <1>3, <1>5, Child DEF FitsIn, Allowed
<1>7. orderStatus[o] # "none"
  BY <1>1, <1>5 DEF IInv, OrderInv, Unplaced, orderVars
<1> QED
  BY <1>1, <1>4, <1>5, <1>6, <1>7, ServiceInv DEF orderVars, moneyVars

\* Assign changes the driver and the status of a parcel that is not on the road.
LEMMA AssignInv ==
    ASSUME IInv, NEW o \in Orders, NEW s \in Sellers, NEW d \in Drivers, Assign(o, s, d)
    PROVE  \A p \in Orders : OrderInv(p)'
<1> DEFINE parcel == [shipments[o][s] EXCEPT !.driver = d, !.status = "assigned"]
<1>1. shipments' = [shipments EXCEPT ![o][s] = parcel] /\ UNCHANGED <<orderVars, moneyVars>>
  BY DEF Assign, IInv, TypeOK, FleetTypeOK
<1>2. shipments[o][s].carrier = "internal" /\ orderStatus[o] # "cancelled"
  BY DEF Assign, Serviceable, Internal
<1>3. parcel.carrier = "internal" /\ parcel.status = "assigned" /\ parcel.driver = d
  BY <1>2 DEF IInv, TypeOK, FleetTypeOK, IsShipment, NoShipment
<1> HIDE DEF parcel
<1>4. shipments'[o][s] = parcel
  BY <1>1 DEF IInv, TypeOK, FleetTypeOK
<1>5. OnlyParcel(o, s)
  BY <1>1 DEF IInv, TypeOK, FleetTypeOK, OnlyParcel, Untouched, orderVars, moneyVars
<1>6. childStatus'[o][s] = "confirmed"
  BY <1>1, Child DEF Assign, Assignable, IInv, OrderInv, Parcels, orderVars
<1>7. ~HasExternal(o)
  BY <1>2 DEF IInv, OrderInv, OneCarrier, HasInternal
<1>8. FitsIn(o, s)
  BY <1>3, <1>4, <1>6, <1>7, Child, MarketAssumption DEF FitsIn, Allowed
<1>9. orderStatus[o] # "none"
  BY <1>2, NoParcel DEF IInv, OrderInv, Unplaced
<1> QED
  BY <1>1, <1>2, <1>5, <1>8, <1>9, ServiceInv DEF orderVars, moneyVars

\* UpdateShipment moves a parcel, its seller order and the order's status together.
LEMMA UpdateShipmentInv ==
    ASSUME IInv, NEW o \in Orders, NEW s \in Sellers, NEW d \in Drivers,
           NEW to \in ShipmentStatuses, NEW collected \in BOOLEAN,
           UpdateShipment(o, s, d, to, collected)
    PROVE  \A p \in Orders : OrderInv(p)'
<1> DEFINE parcel   == [shipments[o][s] EXCEPT !.status = to, !.collected = collected]
           children == [childStatus[o] EXCEPT ![s] = ChildAfter(to)]
<1>1. /\ shipments' = [shipments EXCEPT ![o][s] = parcel]
      /\ UNCHANGED <<placed, moved, moneyVars>>
  BY DEF UpdateShipment, IInv, TypeOK, FleetTypeOK
<1>2. /\ childStatus' = [childStatus EXCEPT ![o] = children]
      /\ orderStatus' = [orderStatus EXCEPT ![o] = ParentStatus(children)]
  BY DEF UpdateShipment, SyncOrder
<1>3. /\ shipments[o][s].carrier = "internal" /\ orderStatus[o] # "cancelled" /\ Payable(o)
      /\ shipments[o][s].driver = d /\ Transition(shipments[o][s].status, to)
  BY DEF UpdateShipment, Serviceable, Internal
<1>4. parcel.carrier = "internal" /\ parcel.status = to /\ parcel.driver = d
  BY <1>3 DEF IInv, TypeOK, FleetTypeOK, IsShipment, NoShipment
<1>5. children[s] = ChildAfter(to) /\ \A q \in Sellers \ {s} : children[q] = childStatus[o][q]
  BY DEF IInv, TypeOK, OrderTypeOK
<1> HIDE DEF parcel, children
<1>6. /\ shipments'[o][s] = parcel /\ childStatus'[o] = children
      /\ orderStatus'[o] = ParentStatus(childStatus'[o])
  BY <1>1, <1>2 DEF IInv, TypeOK, FleetTypeOK, OrderTypeOK
<1>7. OnlyParcel(o, s)
  BY <1>1, <1>2, <1>5, <1>6
     DEF IInv, TypeOK, FleetTypeOK, OrderTypeOK, OnlyParcel, Untouched, moneyVars
<1>8. to \in {"accepted", "picked_up", "delivering", "delivered", "failed", "returned"}
  BY <1>3 DEF Transition
<1>9. childStatus[o][s] \in {"confirmed", "shipping"}
  BY <1>3, Child DEF Transition, IInv, OrderInv, Parcels
<1>10. childStatus'[o][s] = ChildAfter(to)
  BY <1>5, <1>6
<1>11. ~HasExternal(o)
  BY <1>3 DEF IInv, OrderInv, OneCarrier, HasInternal
<1>12. ChildAfter(to) \in ChildOf[to]
  BY <1>8, Child DEF ChildAfter
<1>13. FitsIn(o, s)
  BY <1>4, <1>6, <1>8, <1>10, <1>11, <1>12, MarketAssumption DEF FitsIn, Allowed
<1>14. childStatus'[o][s] \in {"confirmed", "shipping", "delivered"}
  BY <1>8, <1>10 DEF ChildAfter
<1>15. payStatus'[o] = payStatus[o]
  BY <1>1 DEF moneyVars
<1> QED
  BY <1>3, <1>6, <1>7, <1>9, <1>13, <1>14, <1>15, WorkInv

\* Settle marks a delivered parcel as settled and, with the last one, the cash as paid.
LEMMA SettleInv ==
    ASSUME IInv, NEW o \in Orders, NEW s \in Sellers, Settle(o, s)
    PROVE  \A p \in Orders : OrderInv(p)'
<1> DEFINE parcel == [shipments[o][s] EXCEPT !.settled = TRUE, !.collected = TRUE]
           rows   == [shipments[o] EXCEPT ![s].settled = TRUE, ![s].collected = TRUE]
<1>1. shipments' = [shipments EXCEPT ![o][s] = parcel] /\ UNCHANGED <<orderVars, receipts>>
  BY DEF Settle, IInv, TypeOK, FleetTypeOK
<1>2. \/ UNCHANGED payStatus
      \/ AllSettled(o, rows) /\ payStatus' = [payStatus EXCEPT ![o] = "paid"]
  BY DEF Settle, IInv, TypeOK, MoneyTypeOK
<1>3. /\ shipments[o][s].carrier = "internal" /\ shipments[o][s].status = "delivered"
      /\ orderStatus[o] # "cancelled"
  BY DEF Settle, Serviceable, Internal
<1>4. /\ parcel.carrier = "internal" /\ parcel.status = "delivered"
      /\ parcel.driver = shipments[o][s].driver
  BY <1>3 DEF IInv, TypeOK, FleetTypeOK, IsShipment, NoShipment
<1> HIDE DEF parcel, rows
<1>5. shipments'[o][s] = parcel
  BY <1>1 DEF IInv, TypeOK, FleetTypeOK
<1>6. OnlyParcel(o, s)
  BY <1>1, <1>2 DEF IInv, TypeOK, FleetTypeOK, MoneyTypeOK, OnlyParcel, Untouched, orderVars
<1>7. childStatus[o][s] = "delivered" /\ Allowed(shipments[o][s])
  BY <1>3, Child DEF IInv, OrderInv, Parcels
<1>8. ~HasExternal(o)
  BY <1>3 DEF IInv, OrderInv, OneCarrier, HasInternal
<1>9. FitsIn(o, s)
  BY <1>1, <1>3, <1>4, <1>5, <1>7, <1>8, Child DEF FitsIn, Allowed, orderVars
<1>10. orderStatus[o] # "none"
  BY <1>3, NoParcel DEF IInv, OrderInv, Unplaced
<1>11. AllSettled(o, rows) => orderStatus[o] = "delivered"
  BY <1>3, <1>7, <1>10
     DEF AllSettled, ChildrenOf, IInv, TypeOK, OrderTypeOK, OrderStatuses, OrderInv, Parent
<1>12. \/ payStatus'[o] = payStatus[o]
       \/ payStatus'[o] = "paid" /\ orderStatus[o] = "delivered"
  BY <1>2, <1>11 DEF IInv, TypeOK, MoneyTypeOK
<1> QED
  BY <1>1, <1>3, <1>6, <1>9, <1>10, <1>12, ServiceInv DEF orderVars

---------------------------------------------------------------------------
(* The invariant is inductive *)

\* The empty tables satisfy the invariant: no order is placed.
LEMMA InitInv == Init => IInv
<1> SUFFICES ASSUME Init PROVE IInv
  OBVIOUS
<1>1. TypeOK
  BY InitType
<1>2. ASSUME NEW o \in Orders PROVE OrderInv(o)
  <2>1. /\ orderStatus[o] = "none" /\ payStatus[o] = "none"
        /\ \A s \in Sellers : childStatus[o][s] = "none" /\ shipments[o][s] = NoShipment
        /\ \A v \in Variants : moved[o][v] = 0
    BY DEF Init
  <2>2. Parcels(o)
    BY <2>1, Child, NoParcel DEF Parcels, Allowed
  <2> QED
    BY <2>1, <2>2, NoParcel
       DEF OrderInv, Unplaced, OneCarrier, HasInternal, Parent, Payment, Ledger, Live, Placed
<1> QED
  BY <1>1, <1>2 DEF IInv

\* What the type proofs need of the orders that are not placed.
LEMMA IInvUnplaced == IInv => UnplacedIsEmpty
BY NoParcel DEF IInv, OrderInv, Unplaced, UnplacedIsEmpty

\* No handler disturbs the types, whatever it is called with.
LEMMA StepType == IInv /\ [Next]_vars => TypeOK'
<1> SUFFICES ASSUME IInv, [Next]_vars PROVE TypeOK'
  OBVIOUS
<1>1. TypeOK /\ UnplacedIsEmpty
  BY IInvUnplaced DEF IInv
<1>2. CASE UNCHANGED vars
  BY <1>1, <1>2, CatalogUnchanged, CouponUnchanged, OrderUnchanged, MoneyUnchanged,
     FleetUnchanged DEF TypeOK, vars
<1>3. CASE Shopping
  BY <1>1, <1>3, PutCartType, CheckoutType, CancelType DEF Shopping
<1>4. CASE Paying
  BY <1>1, <1>4, ReceiveType DEF Paying
<1>5. CASE Shipping
  BY <1>1, <1>5, FulfillType, CreateShipmentType, AssignType, UpdateShipmentType, SettleType
     DEF Shipping
<1>6. CASE Administering
  BY <1>1, <1>6, AdjustType, SwitchType, DriverType DEF Administering
<1> QED
  BY <1>2, <1>3, <1>4, <1>5, <1>6 DEF Next

\* Carts, stock adjustments, coupons, shops and driver profiles are not the
\* columns of any order.
Elsewhere ==
    \/ \E u \in Users, v \in Variants, q \in Quantities : PutCart(u, v, q)
    \/ \E v \in Variants, delta \in Deltas : Adjust(v, delta)
    \/ \E c \in Coupons, active \in BOOLEAN : SetCouponActive(c, active)
    \/ \E s \in Sellers, status \in ShopDecisions : SetShopStatus(s, status)
    \/ \E d \in Drivers : Apply(d)
    \/ \E d \in Drivers, status \in DriverDecisions : ApproveDriver(d, status)
    \/ UNCHANGED vars

\* The handlers of carts, stock, coupons, shops and driver profiles leave orders,
\* payments and shipments alone.
LEMMA ElsewhereUntouched == Elsewhere => UNCHANGED <<orderVars, moneyVars, shipments>>
BY DEF Elsewhere, PutCart, Adjust, SetCouponActive, SetShopStatus, Apply, ApproveDriver, vars, fleetVars

\* Every step is one of these, or touches an order.
LEMMA Steps ==
    ASSUME [Next]_vars
    PROVE  \/ Elsewhere
           \/ \E o \in Orders, r \in CheckoutInputs : Checkout(o, r)
           \/ \E o \in Orders : Cancel(o)
           \/ Paying
           \/ Shipping
BY DEF Next, Shopping, Administering, Elsewhere

\* Every handler preserves the invariant.
LEMMA StepInv == IInv /\ [Next]_vars => IInv'
<1> SUFFICES ASSUME IInv, [Next]_vars PROVE \A p \in Orders : OrderInv(p)'
  BY StepType DEF IInv
<1>1. CASE Elsewhere
  BY <1>1, ElsewhereUntouched, UntouchedInv DEF IInv, Untouched, orderVars, moneyVars
<1>2. CASE \E o \in Orders, r \in CheckoutInputs : Checkout(o, r)
  BY <1>2, CheckoutInv
<1>3. CASE \E o \in Orders : Cancel(o)
  BY <1>3, CancelInv
<1>4. CASE Paying
  BY <1>4, ReceiveInv DEF Paying
<1>5. CASE Shipping
  BY <1>5, FulfillInv, CreateShipmentInv, AssignInv, UpdateShipmentInv, SettleInv DEF Shipping
<1> QED
  BY <1>1, <1>2, <1>3, <1>4, <1>5, Steps

\* In every state the rows of every order are consistent.
THEOREM Inductive == Spec => []IInv
<1> QED
  BY InitInv, StepInv, PTL DEF Spec

---------------------------------------------------------------------------
(* What follows of every state *)

\* Every column of every table holds a value the code writes there.
THEOREM TypeCorrect == Spec => []TypeOK
<1>1. IInv => TypeOK
  BY DEF IInv
<1> QED
  BY <1>1, Inductive, PTL

\* The units an order took are out of stock while it lives, and none once it is
\* cancelled.
THEOREM LedgerCorrect == Spec => []LedgerMatchesOrders
<1>1. IInv => LedgerMatchesOrders
  BY DEF IInv, OrderInv, Ledger, LedgerMatchesOrders
<1> QED
  BY <1>1, Inductive, PTL

\* No order mixes a shop's carrier with the platform's drivers.
THEOREM CarriersNotMixed == Spec => []NoMixedCarriers
<1>1. IInv => NoMixedCarriers
  BY DEF IInv, OrderInv, OneCarrier, NoMixedCarriers
<1> QED
  BY <1>1, Inductive, PTL

\* A parcel and its seller order never disagree on how far they are.
THEOREM ParcelsMatch == Spec => []ShipmentMatchesChild
<1>1. IInv => ShipmentMatchesChild
  BY DEF IInv, OrderInv, Parcels, ShipmentMatchesChild
<1> QED
  BY <1>1, Inductive, PTL

\* The status of an order is what those of its children add up to.
THEOREM ParentCorrect == Spec => []ParentMatchesChildren
<1>1. IInv => ParentMatchesChildren
  <2> SUFFICES ASSUME IInv, NEW o \in Placed
               PROVE  LET children == {childStatus[o][s] : s \in ChildrenOf(o)} IN
                      /\ children # {}
                      /\ orderStatus[o] = "pending" <=> children = {"pending"}
                      /\ orderStatus[o] = "delivered" <=> children = {"delivered"}
                      /\ orderStatus[o] = "cancelled" <=> "cancelled" \in children
                      /\ orderStatus[o] = "cancelled" => children = {"cancelled"}
    BY DEF ParentMatchesChildren
  <2> DEFINE children == {childStatus[o][s] : s \in ChildrenOf(o)}
  <2>1. /\ o \in Orders /\ Parent(o)
        /\ orderStatus[o] \in {"pending", "processing", "delivered", "cancelled"}
    BY DEF IInv, TypeOK, OrderTypeOK, OrderStatuses, OrderInv, Placed
  <2>2. \A c : c \in children <=> \E s \in Sellers : childStatus[o][s] = c /\ c # "none"
    BY DEF ChildrenOf
  <2>3. PICK s \in Sellers : childStatus[o][s] # "none"
    BY <2>1 DEF Parent
  <2>4. childStatus[o][s] \in children
    BY <2>2, <2>3
  <2> HIDE DEF children
  <2>5. orderStatus[o] = "pending" <=> children = {"pending"}
    BY <2>1, <2>2, <2>3, <2>4 DEF Parent
  <2>6. orderStatus[o] = "delivered" <=> children = {"delivered"}
    BY <2>1, <2>2, <2>3, <2>4 DEF Parent
  <2>7. orderStatus[o] = "cancelled" <=> "cancelled" \in children
    BY <2>1, <2>2 DEF Parent
  <2>8. orderStatus[o] = "cancelled" => children = {"cancelled"}
    BY <2>1, <2>2, <2>3, <2>4 DEF Parent
  <2> QED
    BY <2>4, <2>5, <2>6, <2>7, <2>8 DEF children
<1> QED
  BY <1>1, Inductive, PTL

\* A cancelled order has no payment, no parcel and no units out of stock.
THEOREM CancelledInert == Spec => []CancelledIsInert
<1>1. IInv => CancelledIsInert
  BY DEF IInv, OrderInv, Parent, Payment, Ledger, Live, CancelledIsInert
<1> QED
  BY <1>1, Inductive, PTL

\* Nobody works on an online order before it is paid.
THEOREM WorkPaid == Spec => []WorkOnlyWhenPayable
<1>1. IInv => WorkOnlyWhenPayable
  <2> SUFFICES ASSUME IInv, NEW o \in Placed, NEW s \in Sellers,
                      placed[o].method = "sepay",
                      childStatus[o][s] \in {"confirmed", "shipping", "delivered"}
               PROVE  payStatus[o] = "paid"
    BY DEF WorkOnlyWhenPayable
  <2>1. o \in Orders /\ Parent(o) /\ Payment(o)
    BY DEF IInv, OrderInv, Placed
  <2>2. orderStatus[o] \in {"processing", "delivered"}
    BY <2>1 DEF IInv, TypeOK, OrderTypeOK, OrderStatuses, Placed, Parent
  <2> QED
    BY <2>1, <2>2 DEF Payment
<1> QED
  BY <1>1, Inductive, PTL

-----------------------------------------------------------------------------
(***************************************************************************)
(* What no step of Orders may do: every step of the handlers is a step of  *)
(* OrderLifecycle or leaves what the customer sees unchanged, and children *)
(* and parcels only move forward.                                          *)
(***************************************************************************)

---------------------------------------------------------------------------
(* The refinement of OrderLifecycle *)

\* The method a customer sees, as the refinement mapping defines it.
Method == [o \in Orders |-> IF orderStatus[o] = "none" THEN "none" ELSE placed[o].method]

\* The empty tables of Init are the initial state of the promised lifecycle.
LEMMA LifeInit == Init => Lifecycle!Init
BY DEF Init, Lifecycle!Init

\* A step that leaves the three columns alone is a stutter.
LEMMA LifeStutter ==
    UNCHANGED <<placed, orderStatus, payStatus>> => UNCHANGED Lifecycle!vars
BY DEF Lifecycle!vars

\* A checkout places the order, with the method the request asks for.
LEMMA LifeCheckout ==
    ASSUME IInv, NEW o \in Orders, NEW r \in CheckoutInputs, Checkout(o, r)
    PROVE  Lifecycle!Place(o, r.method)
<1>1. /\ placed' = [placed EXCEPT ![o] = PlacedRow(r, CheckoutLines(r))]
      /\ orderStatus' = [orderStatus EXCEPT ![o] = "pending"]
      /\ payStatus' = [payStatus EXCEPT ![o] = "pending"]
      /\ orderStatus[o] = "none"
  BY DEF Checkout, PlaceOrder
<1>2. PlacedRow(r, CheckoutLines(r)).method = r.method
  BY DEF PlacedRow
<1>3. Method' = [Method EXCEPT ![o] = r.method]
  BY <1>1, <1>2 DEF Method, IInv, TypeOK, OrderTypeOK
<1> QED
  BY <1>1, <1>3 DEF Lifecycle!Place, Method

\* A cancellation is one the lifecycle allows: of a pending order not yet paid for.
LEMMA LifeCancel ==
    ASSUME IInv, NEW o \in Orders, Cancel(o)
    PROVE  Lifecycle!Cancel(o)
<1>1. /\ orderStatus' = [orderStatus EXCEPT ![o] = "cancelled"]
      /\ payStatus' = [payStatus EXCEPT ![o] = "cancelled"]
      /\ UNCHANGED placed
      /\ orderStatus[o] = "pending"
      /\ ~(placed[o].method = "sepay" /\ payStatus[o] = "paid")
  BY DEF Cancel, Cancellable
<1>2. placed[o].method \in {"cod", "sepay"}
  BY <1>1 DEF IInv, TypeOK, OrderTypeOK, IsPlacedRow, Placed, Methods
<1>3. payStatus[o] = "pending"
  BY <1>1, <1>2 DEF IInv, TypeOK, MoneyTypeOK, PayStatuses, OrderInv, Payment
<1>4. Method' = Method
  BY <1>1 DEF Method, IInv, TypeOK, OrderTypeOK
<1> QED
  BY <1>1, <1>3, <1>4 DEF Lifecycle!Cancel, Method

\* A webhook pays a pending online order, or changes nothing a customer sees.
LEMMA LifeReceive ==
    ASSUME IInv, NEW w \in Webhooks, Receive(w)
    PROVE  \/ UNCHANGED Lifecycle!vars
           \/ \E o \in Orders : Lifecycle!PayOnline(o)
<1>1. UNCHANGED orderVars
  BY DEF Receive
<1>2. CASE UNCHANGED payStatus
  BY <1>1, <1>2, LifeStutter DEF orderVars
<1>3. CASE ReceiptStatus(w) = "applied" /\ MarkPaid(w.order)
  <2>1. /\ w.order \in Orders /\ orderStatus[w.order] = "pending"
        /\ payStatus[w.order] = "pending" /\ placed[w.order].method = "sepay"
    BY <1>3 DEF ReceiptStatus, Webhooks, Matches, Placed, CanApply
  <2>2. Method' = Method /\ Method[w.order] = "sepay"
    BY <1>1, <2>1 DEF Method, orderVars
  <2>3. Lifecycle!PayOnline(w.order)
    BY <1>1, <1>3, <2>1, <2>2 DEF Lifecycle!PayOnline, Method, MarkPaid, orderVars
  <2> QED
    BY <2>1, <2>3
<1> QED
  BY <1>2, <1>3 DEF Receive

\* What Fulfill and UpdateShipment have in common: a child at work moves on.
LEMMA LifeWork ==
    ASSUME IInv, NEW o \in Orders, NEW s \in Sellers, NEW children,
           Payable(o), orderStatus[o] # "cancelled",
           childStatus[o][s] \in {"pending", "confirmed", "shipping"},
           orderStatus' = [orderStatus EXCEPT ![o] = ParentStatus(children)],
           UNCHANGED placed,
           \/ UNCHANGED payStatus
           \/ /\ ParentStatus(children) = "delivered" /\ placed[o].method = "cod"
              /\ payStatus' = [payStatus EXCEPT ![o] = "paid"]
    PROVE  \E next \in {"processing", "delivered"} : Lifecycle!Advance(o, next)
<1>1. orderStatus[o] \in {"pending", "processing"}
  BY DEF IInv, TypeOK, OrderTypeOK, OrderStatuses, OrderInv, Unplaced, Parent
<1>2. ParentStatus(children) \in {"processing", "delivered"}
  BY DEF ParentStatus
<1>3. Method' = Method /\ Method[o] = placed[o].method
  BY <1>1, <1>2 DEF Method, IInv, TypeOK, OrderTypeOK
<1>4. placed[o].method \in {"cod", "sepay"}
  BY <1>1 DEF IInv, TypeOK, OrderTypeOK, IsPlacedRow, Placed, Methods
<1>5. Lifecycle!Advance(o, ParentStatus(children))
  BY <1>1, <1>3, <1>4 DEF Lifecycle!Advance, Method, Payable
<1> QED
  BY <1>2, <1>5

\* A report of a shop advances the order; its cash comes with the last delivery.
LEMMA LifeFulfill ==
    ASSUME IInv, NEW o \in Orders, NEW s \in Sellers,
           NEW to \in {"confirmed", "shipping", "delivered"},
           NEW carrier \in {"external", "internal"}, Fulfill(o, s, to, carrier)
    PROVE  \E next \in {"processing", "delivered"} : Lifecycle!Advance(o, next)
<1> DEFINE children == [childStatus[o] EXCEPT ![s] = to]
<1>1. /\ Payable(o) /\ orderStatus[o] # "cancelled"
      /\ childStatus[o][s] \in {"pending", "confirmed", "shipping"}
      /\ orderStatus' = [orderStatus EXCEPT ![o] = ParentStatus(children)]
      /\ UNCHANGED placed
  BY DEF Fulfill, ValidTransition
<1>2. \/ UNCHANGED payStatus
      \/ /\ ParentStatus(children) = "delivered" /\ placed[o].method = "cod"
         /\ payStatus' = [payStatus EXCEPT ![o] = "paid"]
  BY DEF Fulfill, PayOnDelivery
<1> HIDE DEF children
<1> QED
  BY <1>1, <1>2, LifeWork

\* A report of a driver advances the order and moves no money.
LEMMA LifeUpdateShipment ==
    ASSUME IInv, NEW o \in Orders, NEW s \in Sellers, NEW d \in Drivers,
           NEW to \in ShipmentStatuses, NEW collected \in BOOLEAN,
           UpdateShipment(o, s, d, to, collected)
    PROVE  \E next \in {"processing", "delivered"} : Lifecycle!Advance(o, next)
<1> DEFINE children == [childStatus[o] EXCEPT ![s] = ChildAfter(to)]
<1>1. /\ Payable(o) /\ orderStatus[o] # "cancelled"
      /\ orderStatus' = [orderStatus EXCEPT ![o] = ParentStatus(children)]
      /\ UNCHANGED <<placed, payStatus>>
  BY DEF UpdateShipment, Serviceable, SyncOrder, moneyVars
<1>2. childStatus[o][s] \in {"confirmed", "shipping"}
  BY Child DEF UpdateShipment, Transition, IInv, OrderInv, Parcels
<1> HIDE DEF children
<1> QED
  BY <1>1, <1>2, LifeWork

\* A settlement records the cash of a delivered order, or changes nothing a customer sees.
LEMMA LifeSettle ==
    ASSUME IInv, NEW o \in Orders, NEW s \in Sellers, Settle(o, s)
    PROVE  UNCHANGED Lifecycle!vars \/ Lifecycle!PayCash(o)
<1> DEFINE rows == [shipments[o] EXCEPT ![s].settled = TRUE, ![s].collected = TRUE]
<1>1. UNCHANGED orderVars /\ placed[o].method = "cod" /\ orderStatus[o] # "cancelled"
  BY DEF Settle, Serviceable
<1>2. \/ UNCHANGED payStatus
      \/ /\ AllSettled(o, rows) /\ payStatus[o] = "pending"
         /\ payStatus' = [payStatus EXCEPT ![o] = "paid"]
  BY DEF Settle, IInv, TypeOK, MoneyTypeOK
<1> HIDE DEF rows
<1>3. CASE UNCHANGED payStatus
  BY <1>1, <1>3, LifeStutter DEF orderVars
<1>4. CASE /\ AllSettled(o, rows) /\ payStatus[o] = "pending"
           /\ payStatus' = [payStatus EXCEPT ![o] = "paid"]
  <2>1. childStatus[o][s] = "delivered" /\ orderStatus[o] # "none"
    BY Child, NoParcel DEF Settle, Serviceable, Internal, IInv, OrderInv, Parcels, Unplaced
  <2>2. orderStatus[o] = "delivered"
    BY <1>1, <1>4, <2>1
       DEF AllSettled, ChildrenOf, IInv, TypeOK, OrderTypeOK, OrderStatuses, OrderInv, Parent
  <2>3. Method' = Method /\ Method[o] = "cod"
    BY <1>1, <2>2 DEF Method, orderVars
  <2> QED
    BY <1>1, <1>4, <2>2, <2>3 DEF Lifecycle!PayCash, Method, orderVars
<1> QED
  BY <1>2, <1>3, <1>4

\* Every step of the handlers is one the customer was promised, or none at all.
LEMMA LifeStep == IInv /\ [Next]_vars => [Lifecycle!Next]_(Lifecycle!vars)
<1> SUFFICES ASSUME IInv, [Next]_vars PROVE Lifecycle!Next \/ UNCHANGED Lifecycle!vars
  OBVIOUS
<1>1. CASE Elsewhere
  BY <1>1, ElsewhereUntouched, LifeStutter DEF orderVars, moneyVars
<1>2. ASSUME NEW o \in Orders, NEW r \in CheckoutInputs, Checkout(o, r)
      PROVE  Lifecycle!Next
  <2>1. r.method \in {"cod", "sepay"}
    BY InputAssumption DEF Requests, Methods
  <2> QED
    BY <1>2, <2>1, LifeCheckout DEF Lifecycle!Next
<1>3. CASE \E o \in Orders : Cancel(o)
  BY <1>3, LifeCancel DEF Lifecycle!Next
<1>4. CASE Paying
  BY <1>4, LifeReceive DEF Paying, Lifecycle!Next
<1>5. ASSUME NEW o \in Orders, NEW s \in Sellers,
             NEW to \in {"confirmed", "shipping", "delivered"},
             NEW carrier \in {"external", "internal"}, Fulfill(o, s, to, carrier)
      PROVE  Lifecycle!Next
  BY <1>5, LifeFulfill DEF Lifecycle!Next
<1>6. ASSUME NEW o \in Orders, NEW s \in Sellers,
             CreateShipment(o, s) \/ \E d \in Drivers : Assign(o, s, d)
      PROVE  UNCHANGED Lifecycle!vars
  <2>1. UNCHANGED <<orderVars, moneyVars>>
    BY <1>6 DEF CreateShipment, Assign
  <2> QED
    BY <2>1, LifeStutter DEF orderVars, moneyVars
<1>7. ASSUME NEW o \in Orders, NEW s \in Sellers, NEW d \in Drivers,
             NEW to \in ShipmentStatuses, NEW collected \in BOOLEAN,
             UpdateShipment(o, s, d, to, collected)
      PROVE  Lifecycle!Next
  BY <1>7, LifeUpdateShipment DEF Lifecycle!Next
<1>8. ASSUME NEW o \in Orders, NEW s \in Sellers, Settle(o, s)
      PROVE  Lifecycle!Next \/ UNCHANGED Lifecycle!vars
  BY <1>8, LifeSettle DEF Lifecycle!Next
<1>9. CASE Shipping
  BY <1>5, <1>6, <1>7, <1>8, <1>9 DEF Shipping
<1> QED
  BY <1>1, <1>2, <1>3, <1>4, <1>9, Steps

\* Orders implements the life of an order that the customer is promised.
THEOREM ImplementsLifecycle == Spec => LifecycleKept
<1> QED
  BY LifeInit, LifeStep, Inductive, PTL DEF Spec, LifecycleKept, Lifecycle!Spec

---------------------------------------------------------------------------
(* What no step may do *)

\* In the abstract life of an order, money once paid stays, and so does a
\* cancellation.
LEMMA LifeFinal ==
    ASSUME IInv, [Lifecycle!Next]_(Lifecycle!vars), NEW o \in Orders
    PROVE  /\ payStatus[o] = "paid" => payStatus'[o] = "paid" /\ orderStatus'[o] # "cancelled"
           /\ orderStatus[o] = "cancelled" =>
                 orderStatus'[o] = "cancelled" /\ payStatus'[o] = "cancelled"
<1>1. /\ Unplaced(o) /\ Payment(o)
      /\ orderStatus \in [Orders -> OrderStatuses] /\ payStatus \in [Orders -> PayStatuses]
  BY DEF IInv, OrderInv, TypeOK, OrderTypeOK, MoneyTypeOK
<1>2. CASE UNCHANGED <<orderStatus, payStatus>>
  BY <1>1, <1>2 DEF Payment
<1>3. ASSUME NEW p \in Orders, NEW m \in {"cod", "sepay"}, Lifecycle!Place(p, m)
      PROVE  /\ orderStatus[p] = "none"
             /\ orderStatus' = [orderStatus EXCEPT ![p] = "pending"]
             /\ payStatus' = [payStatus EXCEPT ![p] = "pending"]
  BY <1>3 DEF Lifecycle!Place
<1>4. ASSUME NEW p \in Orders, Lifecycle!Cancel(p)
      PROVE  /\ orderStatus[p] = "pending" /\ payStatus[p] = "pending"
             /\ orderStatus' = [orderStatus EXCEPT ![p] = "cancelled"]
             /\ payStatus' = [payStatus EXCEPT ![p] = "cancelled"]
  BY <1>4 DEF Lifecycle!Cancel
<1>5. ASSUME NEW p \in Orders, Lifecycle!PayOnline(p) \/ Lifecycle!PayCash(p)
      PROVE  /\ payStatus[p] = "pending"
             /\ payStatus' = [payStatus EXCEPT ![p] = "paid"] /\ UNCHANGED orderStatus
  BY <1>5 DEF Lifecycle!PayOnline, Lifecycle!PayCash
<1>6. ASSUME NEW p \in Orders, NEW next \in {"processing", "delivered"}, Lifecycle!Advance(p, next)
      PROVE  /\ orderStatus[p] \in {"pending", "processing"}
             /\ orderStatus' = [orderStatus EXCEPT ![p] = next]
             /\ UNCHANGED payStatus \/ payStatus' = [payStatus EXCEPT ![p] = "paid"]
  BY <1>6 DEF Lifecycle!Advance
<1>7. UNCHANGED Lifecycle!vars => UNCHANGED <<orderStatus, payStatus>>
  BY DEF Lifecycle!vars
<1>8. CASE \E p \in Orders, m \in {"cod", "sepay"} : Lifecycle!Place(p, m)
  BY <1>1, <1>3, <1>8 DEF Unplaced, Payment
<1>9. CASE \E p \in Orders : Lifecycle!Cancel(p)
  BY <1>1, <1>4, <1>9 DEF Payment
<1>10. CASE \E p \in Orders : Lifecycle!PayOnline(p) \/ Lifecycle!PayCash(p)
  BY <1>1, <1>5, <1>10 DEF Payment
<1>11. CASE \E p \in Orders, next \in {"processing", "delivered"} : Lifecycle!Advance(p, next)
  BY <1>1, <1>6, <1>11 DEF Payment
<1> QED
  BY <1>2, <1>7, <1>8, <1>9, <1>10, <1>11 DEF Lifecycle!Next

\* A payment once recorded is never taken back, and its order never cancelled.
THEOREM PaymentsFinal == Spec => PaidIsFinal
<1>1. IInv /\ [Next]_vars =>
         \A o \in Orders : payStatus[o] = "paid" =>
            payStatus'[o] = "paid" /\ orderStatus'[o] # "cancelled"
  BY LifeStep, LifeFinal
<1> QED
  BY <1>1, Inductive, PTL DEF Spec, PaidIsFinal

\* No late webhook, driver or shop revives a cancelled order.
THEOREM CancellationsFinal == Spec => CancelledIsFinal
<1>1. IInv /\ [Next]_vars =>
         \A o \in Orders : orderStatus[o] = "cancelled" =>
            orderStatus'[o] = "cancelled" /\ payStatus'[o] = "cancelled"
  BY LifeStep, LifeFinal
<1> QED
  BY <1>1, Inductive, PTL DEF Spec, CancelledIsFinal

\* The stages of a seller order, in the order a customer is shown them.
LEMMA Ranks ==
    /\ Rank["none"] = 0 /\ Rank["pending"] = 1 /\ Rank["confirmed"] = 2
    /\ Rank["shipping"] = 3 /\ Rank["delivered"] = 4
BY DEF Rank

\* What ChildMovesForward allows of one child.
Forward(from, to) ==
    to = from \/ Rank[to] = Rank[from] + 1 \/ (from = "pending" /\ to = "cancelled")

\* No handler moves a seller order back or over a stage.
LEMMA ForwardStep ==
    ASSUME IInv, [Next]_vars, NEW o \in Orders, NEW s \in Sellers
    PROVE  Forward(childStatus[o][s], childStatus'[o][s])
<1> USE DEF Forward
<1>1. childStatus \in [Orders -> [Sellers -> ChildStatuses]]
  BY DEF IInv, TypeOK, OrderTypeOK
<1>2. CASE Elsewhere
  BY <1>2, ElsewhereUntouched DEF orderVars
<1>3. ASSUME NEW p \in Orders, NEW r \in CheckoutInputs, Checkout(p, r)
      PROVE  Forward(childStatus[o][s], childStatus'[o][s])
  <2>1. childStatus' = [childStatus EXCEPT ![p] =
                           [q \in Sellers |-> IF q \in Shops(r) THEN "pending" ELSE "none"]]
    BY <1>3 DEF Checkout, PlaceOrder
  <2>2. childStatus[p][s] = "none"
    BY <1>3 DEF Checkout, IInv, OrderInv, Unplaced
  <2> QED
    BY <1>1, <2>1, <2>2, Ranks
<1>4. ASSUME NEW p \in Orders, Cancel(p)
      PROVE  Forward(childStatus[o][s], childStatus'[o][s])
  BY <1>1, <1>4 DEF Cancel, Cancellable, ChildrenOf
<1>5. CASE Paying
  BY <1>5 DEF Paying, Receive, orderVars
<1>6. ASSUME NEW p \in Orders, NEW q \in Sellers,
             NEW to \in {"confirmed", "shipping", "delivered"},
             NEW carrier \in {"external", "internal"}, Fulfill(p, q, to, carrier)
      PROVE  Forward(childStatus[o][s], childStatus'[o][s])
  <2>1. /\ childStatus' = [childStatus EXCEPT ![p] = [childStatus[p] EXCEPT ![q] = to]]
        /\ ValidTransition(childStatus[p][q], to)
    BY <1>6 DEF Fulfill
  <2>2. Rank[to] = Rank[childStatus[p][q]] + 1
    BY <2>1, Ranks DEF ValidTransition
  <2> QED
    BY <1>1, <2>1, <2>2
<1>7. ASSUME NEW p \in Orders, NEW q \in Sellers, NEW d \in Drivers,
             NEW to \in ShipmentStatuses, NEW collected \in BOOLEAN,
             UpdateShipment(p, q, d, to, collected)
      PROVE  Forward(childStatus[o][s], childStatus'[o][s])
  <2>1. childStatus' = [childStatus EXCEPT ![p] = [childStatus[p] EXCEPT ![q] = ChildAfter(to)]]
    BY <1>7 DEF UpdateShipment, SyncOrder
  <2>2. /\ Transition(shipments[p][q].status, to)
        /\ childStatus[p][q] \in ChildOf[shipments[p][q].status]
    BY <1>7 DEF UpdateShipment, IInv, OrderInv, Parcels
  <2>3. \/ ChildAfter(to) = childStatus[p][q]
        \/ Rank[ChildAfter(to)] = Rank[childStatus[p][q]] + 1
    BY <2>2, Child, Ranks DEF Transition, ChildAfter
  <2> QED
    BY <1>1, <2>1, <2>3
<1>8. ASSUME NEW p \in Orders, NEW q \in Sellers,
             CreateShipment(p, q) \/ Settle(p, q) \/ \E d \in Drivers : Assign(p, q, d)
      PROVE  Forward(childStatus[o][s], childStatus'[o][s])
  <2>1. CreateShipment(p, q) => UNCHANGED childStatus
    BY DEF CreateShipment, orderVars
  <2>2. Settle(p, q) => UNCHANGED childStatus
    BY DEF Settle, orderVars
  <2>3. (\E d \in Drivers : Assign(p, q, d)) => UNCHANGED childStatus
    BY DEF Assign, orderVars
  <2> QED
    BY <1>8, <2>1, <2>2, <2>3
<1>9. CASE Shipping
  BY <1>6, <1>7, <1>8, <1>9 DEF Shipping
<1> QED
  BY <1>2, <1>3, <1>4, <1>5, <1>9, Steps

\* A seller order skips no stage and never moves back.
THEOREM ChildrenForward == Spec => ChildMovesForward
<1>1. IInv /\ [Next]_vars =>
         \A o \in Orders, s \in Sellers :
            \/ childStatus'[o][s] = childStatus[o][s]
            \/ Rank[childStatus'[o][s]] = Rank[childStatus[o][s]] + 1
            \/ childStatus[o][s] = "pending" /\ childStatus'[o][s] = "cancelled"
  BY ForwardStep DEF Forward
<1> QED
  BY <1>1, Inductive, PTL DEF Spec, ChildMovesForward

\* What DriverKeepsParcel demands of one parcel.
Kept(o, s) ==
    /\ Internal(o, s) /\ shipments[o][s].status \in Carried =>
          shipments'[o][s].driver = shipments[o][s].driver
    /\ Internal(o, s) /\ shipments'[o][s].status # shipments[o][s].status
       /\ shipments'[o][s].status \in Carried =>
          driver[shipments[o][s].driver] = "approved"

\* No handler takes a parcel from the driver who carries it, or lets a driver who is not
\* approved take it on.
LEMMA KeptStep ==
    ASSUME IInv, [Next]_vars, NEW o \in Orders, NEW s \in Sellers
    PROVE  Kept(o, s)
<1>1. /\ DOMAIN shipments = Orders
      /\ \A p \in Orders : DOMAIN shipments[p] = Sellers
      /\ \A p \in Orders, q \in Sellers : IsShipment(shipments[p][q])
  BY DEF IInv, TypeOK, FleetTypeOK
<1>2. shipments'[o][s] = shipments[o][s] => Kept(o, s)
  BY DEF Kept
<1>3. CASE UNCHANGED shipments
  BY <1>2, <1>3
<1>4. ASSUME NEW p \in Orders, NEW q \in Sellers,
             NEW to \in {"confirmed", "shipping", "delivered"},
             NEW carrier \in {"external", "internal"}, Fulfill(p, q, to, carrier)
      PROVE  Kept(o, s)
  <2>1. ~Internal(p, q)
    BY <1>4 DEF Fulfill
  <2>2. (<<p, q>> # <<o, s>>) => shipments'[o][s] = shipments[o][s]
    BY <1>1, <1>4 DEF Fulfill
  <2> QED
    BY <1>2, <2>1, <2>2 DEF Kept
<1>5. ASSUME NEW p \in Orders, NEW q \in Sellers, CreateShipment(p, q)
      PROVE  Kept(o, s)
  <2>1. ~Internal(p, q)
    BY <1>5, NoParcel DEF CreateShipment, Internal
  <2>2. (<<p, q>> # <<o, s>>) => shipments'[o][s] = shipments[o][s]
    BY <1>1, <1>5 DEF CreateShipment
  <2> QED
    BY <1>2, <2>1, <2>2 DEF Kept
<1>6. ASSUME NEW p \in Orders, NEW q \in Sellers, NEW d \in Drivers, Assign(p, q, d)
      PROVE  Kept(o, s)
  <2> DEFINE parcel == [shipments[p][q] EXCEPT !.driver = d, !.status = "assigned"]
  <2>1. shipments' = [shipments EXCEPT ![p][q] = parcel]
    BY <1>1, <1>6 DEF Assign
  <2>2. parcel.status = "assigned" /\ shipments[p][q].status \in Assignable
    BY <1>1, <1>6 DEF Assign, IsShipment, NoShipment
  <2> HIDE DEF parcel
  <2>3. (<<p, q>> # <<o, s>>) => shipments'[o][s] = shipments[o][s]
    BY <1>1, <2>1
  <2>4. shipments'[p][q] = parcel
    BY <1>1, <2>1
  <2> QED
    BY <1>2, <2>2, <2>3, <2>4 DEF Kept, Carried, Assignable
<1>7. ASSUME NEW p \in Orders, NEW q \in Sellers, NEW d \in Drivers,
             NEW to \in ShipmentStatuses, NEW collected \in BOOLEAN,
             UpdateShipment(p, q, d, to, collected)
      PROVE  Kept(o, s)
  <2> DEFINE parcel == [shipments[p][q] EXCEPT !.status = to, !.collected = collected]
  <2>1. shipments' = [shipments EXCEPT ![p][q] = parcel]
    BY <1>1, <1>7 DEF UpdateShipment
  <2>2. parcel.driver = shipments[p][q].driver
    BY <1>1 DEF IsShipment, NoShipment
  <2>3. driver[shipments[p][q].driver] = "approved"
    BY <1>7 DEF UpdateShipment
  <2> HIDE DEF parcel
  <2>4. (<<p, q>> # <<o, s>>) => shipments'[o][s] = shipments[o][s]
    BY <1>1, <2>1
  <2>5. shipments'[p][q] = parcel
    BY <1>1, <2>1
  <2> QED
    BY <1>2, <2>2, <2>3, <2>4, <2>5 DEF Kept
<1>8. ASSUME NEW p \in Orders, NEW q \in Sellers, Settle(p, q)
      PROVE  Kept(o, s)
  <2> DEFINE parcel == [shipments[p][q] EXCEPT !.settled = TRUE, !.collected = TRUE]
  <2>1. shipments' = [shipments EXCEPT ![p][q] = parcel]
    BY <1>1, <1>8 DEF Settle
  <2>2. parcel.driver = shipments[p][q].driver /\ parcel.status = shipments[p][q].status
    BY <1>1 DEF IsShipment, NoShipment
  <2> HIDE DEF parcel
  <2>3. (<<p, q>> # <<o, s>>) => shipments'[o][s] = shipments[o][s]
    BY <1>1, <2>1
  <2>4. shipments'[p][q] = parcel
    BY <1>1, <2>1
  <2> QED
    BY <1>2, <2>2, <2>3, <2>4 DEF Kept
<1>9. CASE Shipping
  BY <1>4, <1>5, <1>6, <1>7, <1>8, <1>9 DEF Shipping
<1>10. CASE \/ Elsewhere \/ Paying \/ \E p \in Orders : Cancel(p)
            \/ \E p \in Orders, r \in CheckoutInputs : Checkout(p, r)
  <2>1. UNCHANGED shipments
    BY <1>10, ElsewhereUntouched DEF Paying, Receive, Cancel, Checkout, fleetVars
  <2> QED
    BY <1>3, <2>1
<1> QED
  BY <1>9, <1>10, Steps

\* From pick-up on, a parcel stays with the driver who picked it up.
THEOREM DriversKeepParcels == Spec => DriverKeepsParcel
<1>1. IInv /\ [Next]_vars => \A o \in Orders, s \in Sellers : Kept(o, s)
  BY KeptStep
<1> QED
  BY <1>1, Inductive, PTL DEF Spec, DriverKeepsParcel, Kept

---------------------------------------------------------------------------
(* The rows that only checkout writes *)

CheckoutStep == \E o \in Orders, r \in CheckoutInputs : Checkout(o, r)

\* No other handler brings an order into being or rewrites what checkout wrote.
LEMMA RowsKept ==
    ASSUME IInv, [Next]_vars, ~CheckoutStep
    PROVE  Placed' = Placed /\ UNCHANGED <<placed, redeemed, usedCount>>
<1>1. CASE Elsewhere
  <2>1. UNCHANGED couponVars
    BY <1>1 DEF Elsewhere, PutCart, Adjust, SetCouponActive, SetShopStatus, Apply, ApproveDriver,
                vars
  <2> QED
    BY <1>1, <2>1, ElsewhereUntouched DEF orderVars, couponVars, Placed
<1>2. ASSUME NEW o \in Orders, Cancel(o)
      PROVE  Placed' = Placed /\ UNCHANGED <<placed, redeemed, usedCount>>
  BY <1>2 DEF Cancel, Cancellable, couponVars, Placed, IInv, TypeOK, OrderTypeOK
<1>3. CASE Paying
  BY <1>3 DEF Paying, Receive, orderVars, couponVars, Placed
<1>4. ASSUME NEW o \in Orders, NEW s \in Sellers,
             NEW to \in {"confirmed", "shipping", "delivered"},
             NEW carrier \in {"external", "internal"}, Fulfill(o, s, to, carrier)
      PROVE  Placed' = Placed /\ UNCHANGED <<placed, redeemed, usedCount>>
  <2>1. orderStatus' = [orderStatus EXCEPT
                          ![o] = ParentStatus([childStatus[o] EXCEPT ![s] = to])]
    BY <1>4 DEF Fulfill
  <2>2. orderStatus[o] # "none"
    BY <1>4 DEF Fulfill, ChildrenOf, IInv, OrderInv, Unplaced
  <2>3. Placed' = Placed
    BY <2>1, <2>2 DEF Placed, ParentStatus, IInv, TypeOK, OrderTypeOK
  <2> QED
    BY <1>4, <2>3 DEF Fulfill, couponVars
<1>5. ASSUME NEW o \in Orders, NEW s \in Sellers, NEW d \in Drivers,
             NEW to \in ShipmentStatuses, NEW collected \in BOOLEAN,
             UpdateShipment(o, s, d, to, collected)
      PROVE  Placed' = Placed /\ UNCHANGED <<placed, redeemed, usedCount>>
  <2>1. orderStatus' = [orderStatus EXCEPT
                          ![o] = ParentStatus([childStatus[o] EXCEPT ![s] = ChildAfter(to)])]
    BY <1>5 DEF UpdateShipment, SyncOrder
  <2>2. orderStatus[o] # "none"
    BY <1>5, NoParcel DEF UpdateShipment, Serviceable, Internal, IInv, OrderInv, Unplaced
  <2>3. Placed' = Placed
    BY <2>1, <2>2 DEF Placed, ParentStatus, IInv, TypeOK, OrderTypeOK
  <2> QED
    BY <1>5, <2>3 DEF UpdateShipment, couponVars
<1>6. ASSUME NEW o \in Orders, NEW s \in Sellers,
             CreateShipment(o, s) \/ Settle(o, s) \/ \E d \in Drivers : Assign(o, s, d)
      PROVE  Placed' = Placed /\ UNCHANGED <<placed, redeemed, usedCount>>
  <2>1. CreateShipment(o, s) => UNCHANGED <<orderVars, couponVars>>
    BY DEF CreateShipment
  <2>2. Settle(o, s) => UNCHANGED <<orderVars, couponVars>>
    BY DEF Settle
  <2>3. (\E d \in Drivers : Assign(o, s, d)) => UNCHANGED <<orderVars, couponVars>>
    BY DEF Assign
  <2> QED
    BY <1>6, <2>1, <2>2, <2>3 DEF orderVars, couponVars, Placed
<1>7. CASE Shipping
  BY <1>4, <1>5, <1>6, <1>7 DEF Shipping
<1> QED
  BY <1>1, <1>2, <1>3, <1>7, Steps DEF CheckoutStep

\* What a checkout adds.
LEMMA RowAdded ==
    ASSUME IInv, NEW o \in Orders, NEW r \in CheckoutInputs, Checkout(o, r)
    PROVE  /\ o \notin Placed /\ Placed' = Placed \cup {o}
           /\ placed'[o].user = r.user /\ placed'[o].key = r.key
           /\ placed'[o].coupon = r.coupon
           /\ \A p \in Orders \ {o} : placed'[p] = placed[p]
<1> DEFINE row == PlacedRow(r, CheckoutLines(r))
<1>1. /\ placed' = [placed EXCEPT ![o] = row] /\ orderStatus[o] = "none"
      /\ orderStatus' = [orderStatus EXCEPT ![o] = "pending"]
  BY DEF Checkout, PlaceOrder
<1>2. row.user = r.user /\ row.key = r.key /\ row.coupon = r.coupon
  BY DEF PlacedRow
<1> HIDE DEF row
<1> QED
  BY <1>1, <1>2 DEF IInv, TypeOK, OrderTypeOK, Placed

---------------------------------------------------------------------------
(* Idempotency keys *)

\* However often a customer's checkout request is repeated, its key has one order.
THEOREM KeysUnique == Spec => []OneOrderPerKey
<1>1. Init => OneOrderPerKey
  BY DEF Init, OneOrderPerKey, Placed
<1>2. IInv /\ OneOrderPerKey /\ [Next]_vars => OneOrderPerKey'
  <2> SUFFICES ASSUME IInv, OneOrderPerKey, [Next]_vars PROVE OneOrderPerKey'
    OBVIOUS
  <2>1. CASE ~CheckoutStep
    BY <2>1, RowsKept DEF OneOrderPerKey
  <2>2. ASSUME NEW o \in Orders, NEW r \in CheckoutInputs, Checkout(o, r) PROVE OneOrderPerKey'
    <3>1. \A p \in Placed : ~(placed[p].user = r.user /\ placed[p].key = r.key)
      BY <2>2 DEF Checkout, AlreadyPlaced
    <3>2. Placed \subseteq Orders
      BY DEF Placed
    <3> QED
      BY <2>2, <3>1, <3>2, RowAdded DEF OneOrderPerKey
  <2> QED
    BY <2>1, <2>2 DEF CheckoutStep
<1> QED
  BY <1>1, <1>2, Inductive, PTL DEF Spec

---------------------------------------------------------------------------
(* Coupons *)

\* The redemptions of one coupon; finite, so that they can be counted.
CouponInv(c) ==
    /\ IsFiniteSet(redeemed[c])
    /\ usedCount[c] = Cardinality(redeemed[c])
    /\ Offer[c].usageLimit > 0 => usedCount[c] <= Offer[c].usageLimit
    /\ \A u : u \in redeemed[c] <=> \E o \in Placed : placed[o].coupon = c /\ placed[o].user = u
    /\ \A o, p \in Placed :
          placed[o].coupon = c /\ placed[p].coupon = c /\ o # p => placed[o].user # placed[p].user

\* No coupon has been redeemed, and no order placed, at first.
LEMMA CouponInit == ASSUME Init, NEW c \in Coupons PROVE CouponInv(c)
<1>1. redeemed[c] = {} /\ usedCount[c] = 0 /\ Placed = {}
  BY DEF Init, Placed
<1>2. Offer[c].usageLimit \in Nat
  BY SMTT(30), MarketAssumption DEF IsOffer
<1> QED
  BY <1>1, <1>2, FS_EmptySet DEF CouponInv

\* Between the check of the limit and the insert nothing else can redeem: the row
\* of the coupon is locked.
LEMMA CouponStep ==
    ASSUME IInv, [Next]_vars, NEW c \in Coupons, CouponInv(c)
    PROVE  CouponInv(c)'
<1>1. CASE ~CheckoutStep
  BY <1>1, RowsKept DEF CouponInv
<1>2. ASSUME NEW o \in Orders, NEW r \in CheckoutInputs, Checkout(o, r)
      PROVE  CouponInv(c)'
  <2>1. /\ o \notin Placed /\ Placed' = Placed \cup {o}
        /\ placed'[o].user = r.user /\ placed'[o].coupon = r.coupon
        /\ \A p \in Placed : placed'[p] = placed[p]
    BY <1>2, RowAdded DEF Placed
  <2>2. redeemed \in [Coupons -> SUBSET Users] /\ usedCount \in [Coupons -> Nat]
    BY DEF IInv, TypeOK, CouponTypeOK
  <2>3. CASE r.coupon # c
    <3>1. redeemed'[c] = redeemed[c] /\ usedCount'[c] = usedCount[c]
      BY <1>2, <2>2, <2>3 DEF Checkout, PlaceOrder, Redeem, couponVars
    <3> QED
      BY <2>1, <2>3, <3>1 DEF CouponInv
  <2>4. CASE r.coupon = c
    <3>1. c # NoCoupon
      BY MarketAssumption
    <3>2. /\ r.user \notin redeemed[c]
          /\ Offer[c].usageLimit = 0 \/ usedCount[c] < Offer[c].usageLimit
      BY <1>2, <2>4, <3>1 DEF Checkout, Redeemable, QuotaLeft
    <3>3. redeemed'[c] = redeemed[c] \cup {r.user} /\ usedCount'[c] = usedCount[c] + 1
      BY <1>2, <2>2, <2>4, <3>1 DEF Checkout, PlaceOrder, Redeem
    <3>4. /\ IsFiniteSet(redeemed'[c])
          /\ Cardinality(redeemed'[c]) = Cardinality(redeemed[c]) + 1
      <4>1. IsFiniteSet(redeemed[c])
        BY DEF CouponInv
      <4>2. /\ IsFiniteSet(redeemed[c] \cup {r.user})
            /\ Cardinality(redeemed[c] \cup {r.user}) = Cardinality(redeemed[c]) + 1
        BY <3>2, <4>1, FS_AddElement
      <4> QED
        BY <3>3, <4>2
    <3>5. usedCount[c] \in Nat /\ Offer[c].usageLimit \in Nat
      <4>1. Offer[c].usageLimit \in Nat
        BY SMTT(30), MarketAssumption DEF IsOffer
      <4> QED
        BY <2>2, <4>1
    <3>6. /\ usedCount'[c] = Cardinality(redeemed'[c])
          /\ Offer[c].usageLimit > 0 => usedCount'[c] <= Offer[c].usageLimit
      BY <3>2, <3>3, <3>4, <3>5 DEF CouponInv
    <3>7. \A u : u \in redeemed'[c]
                   <=> \E p \in Placed' : placed'[p].coupon = c /\ placed'[p].user = u
      BY <2>1, <2>4, <3>3 DEF CouponInv
    <3>8. \A p, q \in Placed' : placed'[p].coupon = c /\ placed'[q].coupon = c /\ p # q
             => placed'[p].user # placed'[q].user
      BY <2>1, <2>4, <3>2 DEF CouponInv
    <3> QED
      BY <3>4, <3>6, <3>7, <3>8 DEF CouponInv
  <2> QED
    BY <2>3, <2>4
<1> QED
  BY <1>1, <1>2 DEF CheckoutStep

\* A coupon is redeemed at most as often as its limit allows and once by each
\* customer, its counter agrees with its redemptions, and these with the orders.
THEOREM CouponsWithinLimit == Spec => []CouponWithinLimit
<1> DEFINE Inv == \A c \in Coupons : CouponInv(c)
<1>1. Init => Inv
  BY CouponInit
<1>2. IInv /\ Inv /\ [Next]_vars => Inv'
  BY CouponStep
<1>3. Inv => CouponWithinLimit
  <2> SUFFICES ASSUME NEW c \in Coupons, CouponInv(c)
               PROVE  redeemed[c] = {placed[o].user : o \in {p \in Placed : placed[p].coupon = c}}
    BY DEF CouponInv, CouponWithinLimit
  <2> QED
    BY DEF CouponInv
<1> HIDE DEF Inv
<1> QED
  BY <1>1, <1>2, <1>3, Inductive, PTL DEF Spec

---------------------------------------------------------------------------
(* Transfers *)

\* What PaidByOneTransfer demands of one order.
PaidOnce(o) ==
    IF payStatus[o] = "paid" /\ placed[o].method = "sepay"
    THEN \E t \in Transfers : /\ Applied(o) = {t}
                              /\ receipts[t].amount = placed[o].amount
                              /\ receipts[t].account = "ours"
                              /\ receipts[t].direction = "in"
    ELSE Applied(o) = {}

\* A step that writes no receipt and neither pays an online order nor takes a
\* payment back.
LEMMA NoReceiptStep ==
    ASSUME NEW o \in Orders, PaidOnce(o), UNCHANGED receipts,
           payStatus[o] = "paid" /\ placed[o].method = "sepay"
              <=> payStatus'[o] = "paid" /\ placed'[o].method = "sepay",
           payStatus[o] = "paid" => placed'[o] = placed[o]
    PROVE  PaidOnce(o)'
<1>1. Applied(o)' = Applied(o)
  BY DEF Applied
<1> QED
  BY <1>1 DEF PaidOnce

\* The first delivery of a transfer, in the only step that writes receipts.
LEMMA ReceiptStep ==
    ASSUME IInv, \A o \in Orders : PaidOnce(o), NEW w \in Webhooks, Receive(w), NEW o \in Orders
    PROVE  PaidOnce(o)'
<1> DEFINE row == [order |-> w.order, amount |-> w.amount, direction |-> w.direction,
                   account |-> w.account, status |-> ReceiptStatus(w)]
<1>1. receipts[w.id] = NoReceipt /\ receipts' = [receipts EXCEPT ![w.id] = row] /\ UNCHANGED placed
  BY DEF Receive, orderVars
<1>2. /\ w.id \in Transfers /\ w.direction \in {"in", "out"}
      /\ w.order \in Orders \cup {NoOrder} /\ w.amount \in Amounts
      /\ w.account \in {"ours", "other"}
  BY DEF Webhooks
<1>3. row # NoReceipt
  <2>1. ReceiptStatus(w) \in ReceiptStatuses
    BY <1>2 DEF ReceiptStatus, ReceiptStatuses
  <2>2. row \in Receipts
    BY <1>2, <2>1 DEF Receipts
  <2> QED
    BY <2>2, ReceiptAssumption
<1>4. row.order = w.order /\ row.amount = w.amount /\ row.direction = w.direction
      /\ row.account = w.account /\ row.status = ReceiptStatus(w)
  OBVIOUS
<1> HIDE DEF row
<1>5. \A t \in Transfers \ {w.id} : receipts'[t] = receipts[t]
  BY <1>1, <1>2 DEF IInv, TypeOK, MoneyTypeOK
<1>6. receipts'[w.id] = row
  BY <1>1, <1>2 DEF IInv, TypeOK, MoneyTypeOK
<1>7. w.id \notin Applied(o)
  BY <1>1 DEF Applied
<1>8. CASE ReceiptStatus(w) = "applied" /\ w.order = o
  <2>1. /\ w.direction = "in" /\ w.account = "ours" /\ w.amount = placed[o].amount
        /\ placed[o].method = "sepay" /\ payStatus[o] = "pending"
    BY <1>2, <1>8 DEF ReceiptStatus, CanApply
  <2>2. Applied(o) = {}
    BY <2>1 DEF PaidOnce
  <2>3. Applied(o)' = {w.id}
    BY <1>2, <1>3, <1>4, <1>5, <1>6, <1>8, <2>2 DEF Applied
  <2>4. payStatus'[o] = "paid"
    BY <1>8 DEF Receive, MarkPaid, IInv, TypeOK, MoneyTypeOK
  <2> QED
    BY <1>1, <1>2, <1>4, <1>6, <2>1, <2>3, <2>4 DEF PaidOnce
<1>9. CASE ~(ReceiptStatus(w) = "applied" /\ w.order = o)
  <2>1. Applied(o)' = Applied(o)
    BY <1>1, <1>2, <1>4, <1>5, <1>6, <1>9 DEF Applied
  <2>2. payStatus'[o] = payStatus[o]
    BY <1>9 DEF Receive, MarkPaid, IInv, TypeOK, MoneyTypeOK
  <2>3. \A t \in Applied(o) : receipts'[t] = receipts[t]
    BY <1>5, <1>7 DEF Applied
  <2> QED
    BY <1>1, <2>1, <2>2, <2>3 DEF PaidOnce
<1> QED
  BY <1>8, <1>9

\* The handlers that only cash orders, or orders without a payment, can be paid by.
LEMMA OtherStep ==
    ASSUME IInv, \A o \in Orders : PaidOnce(o), [Next]_vars, ~Paying, NEW o \in Orders
    PROVE  PaidOnce(o)'
<1>1. CASE Elsewhere
  BY <1>1, ElsewhereUntouched, NoReceiptStep DEF orderVars, moneyVars
<1>2. ASSUME NEW p \in Orders, NEW r \in CheckoutInputs, Checkout(p, r) PROVE PaidOnce(o)'
  <2>1. /\ payStatus' = [payStatus EXCEPT ![p] = "pending"] /\ orderStatus[p] = "none"
        /\ placed' = [placed EXCEPT ![p] = PlacedRow(r, CheckoutLines(r))]
        /\ UNCHANGED receipts
    BY <1>2 DEF Checkout, PlaceOrder
  <2>2. payStatus[p] = "none"
    BY <2>1 DEF IInv, OrderInv, Unplaced
  <2> QED
    BY <2>1, <2>2, NoReceiptStep DEF IInv, TypeOK, OrderTypeOK, MoneyTypeOK
<1>3. ASSUME NEW p \in Orders, Cancel(p) PROVE PaidOnce(o)'
  BY <1>3, NoReceiptStep DEF Cancel, Cancellable, IInv, TypeOK, MoneyTypeOK
<1>4. ASSUME NEW p \in Orders, NEW s \in Sellers,
             NEW to \in {"confirmed", "shipping", "delivered"},
             NEW carrier \in {"external", "internal"}, Fulfill(p, s, to, carrier)
      PROVE  PaidOnce(o)'
  <2>1. \/ UNCHANGED payStatus
        \/ placed[p].method = "cod" /\ payStatus' = [payStatus EXCEPT ![p] = "paid"]
    BY <1>4 DEF Fulfill, PayOnDelivery
  <2>2. UNCHANGED <<receipts, placed>>
    BY <1>4 DEF Fulfill
  <2> QED
    BY <2>1, <2>2, NoReceiptStep DEF IInv, TypeOK, MoneyTypeOK
<1>5. ASSUME NEW p \in Orders, NEW s \in Sellers, Settle(p, s) PROVE PaidOnce(o)'
  <2>1. /\ \/ UNCHANGED payStatus
           \/ payStatus' = [payStatus EXCEPT ![p] = "paid"]
        /\ placed[p].method = "cod"
    BY <1>5 DEF Settle, IInv, TypeOK, MoneyTypeOK
  <2>2. UNCHANGED <<receipts, placed>>
    BY <1>5 DEF Settle, orderVars
  <2> QED
    BY <2>1, <2>2, NoReceiptStep DEF IInv, TypeOK, MoneyTypeOK
<1>6. ASSUME NEW p \in Orders, NEW s \in Sellers, NEW d \in Drivers,
             NEW to \in ShipmentStatuses, NEW collected \in BOOLEAN,
             UpdateShipment(p, s, d, to, collected)
      PROVE  PaidOnce(o)'
  <2>1. UNCHANGED <<placed, payStatus, receipts>>
    BY <1>6 DEF UpdateShipment, moneyVars
  <2> QED
    BY <2>1, NoReceiptStep
<1>7. ASSUME NEW p \in Orders, NEW s \in Sellers,
             CreateShipment(p, s) \/ \E d \in Drivers : Assign(p, s, d)
      PROVE  PaidOnce(o)'
  <2>1. UNCHANGED <<placed, payStatus, receipts>>
    BY <1>7 DEF CreateShipment, Assign, orderVars, moneyVars
  <2> QED
    BY <2>1, NoReceiptStep
<1>8. CASE Shipping
  BY <1>4, <1>5, <1>6, <1>7, <1>8 DEF Shipping
<1> QED
  BY <1>1, <1>2, <1>3, <1>8, Steps

\* An online order is paid by exactly one transfer, of exactly its amount.
THEOREM PaidExactlyOnce == Spec => []PaidByOneTransfer
<1> DEFINE Inv == \A o \in Orders : PaidOnce(o)
<1>1. Init => Inv
  BY DEF Init, PaidOnce, Applied
<1>2. IInv /\ Inv /\ [Next]_vars => Inv'
  BY ReceiptStep, OtherStep DEF Paying
<1>3. Inv => PaidByOneTransfer
  BY DEF PaidOnce, PaidByOneTransfer
<1> HIDE DEF Inv
<1> QED
  BY <1>1, <1>2, <1>3, Inductive, PTL DEF Spec

---------------------------------------------------------------------------
(* What the rest of the system is told of the money *)

Required(t)  == <<"payment_reconciliation_required", t>>
Succeeded(o) == <<"payment_succeeded", o>>

\* The two events of the payment handlers are rows the outbox may hold.
LEMMA MoneyEvents ==
    /\ \A t \in Transfers : Required(t) \in Events
    /\ \A o \in Orders : Succeeded(o) \in Events
BY DEF Required, Succeeded, Events

\* An event is counted by the handler that writes it.
LEMMA Counted ==
    ASSUME IInv, NEW events, Enqueue(events), NEW e \in Events
    PROVE  /\ e \notin events => outbox'[e] = outbox[e]
           /\ e \in events /\ outbox[e] = 0 => outbox'[e] = 1
BY DEF IInv, TypeOK, Enqueue

\* The handlers that write other events, or none.
LEMMA OtherEvents ==
    ASSUME IInv, [Next]_vars, ~Paying
    PROVE  /\ UNCHANGED receipts
           /\ \A t \in Transfers : outbox'[Required(t)] = outbox[Required(t)]
           /\ (~\E p \in Orders, s \in Sellers : Settle(p, s)) =>
                 \A o \in Orders : outbox'[Succeeded(o)] = outbox[Succeeded(o)]
<1> DEFINE Silent == /\ UNCHANGED receipts
                     /\ \A t \in Transfers : outbox'[Required(t)] = outbox[Required(t)]
                     /\ \A o \in Orders : outbox'[Succeeded(o)] = outbox[Succeeded(o)]
<1>1. ASSUME NEW events, Enqueue(events), UNCHANGED receipts,
             \A t \in Transfers : Required(t) \notin events,
             \A o \in Orders : Succeeded(o) \notin events
      PROVE  Silent
  BY <1>1, Counted, MoneyEvents
<1>2. CASE Elsewhere
  <2>1. UNCHANGED receipts
    BY <1>2, ElsewhereUntouched DEF moneyVars
  <2>2. ASSUME NEW v \in Variants, NEW delta \in Deltas, Adjust(v, delta) PROVE Silent
    <3>1. Enqueue({<<"inventory_changed", v>>})
      BY <2>2 DEF Adjust
    <3> QED
      BY <1>1, <2>1, <3>1 DEF Required, Succeeded
  <2>3. ASSUME NEW s \in Sellers, NEW status \in ShopDecisions, SetShopStatus(s, status)
        PROVE  Silent
    <3>1. Enqueue({<<"seller_status_changed", s>>})
      BY <2>3 DEF SetShopStatus
    <3> QED
      BY <1>1, <2>1, <3>1 DEF Required, Succeeded
  <2>4. UNCHANGED outbox => Silent
    BY <2>1
  <2> QED
    BY <1>2, <2>2, <2>3, <2>4 DEF Elsewhere, PutCart, SetCouponActive, Apply, ApproveDriver, vars
<1>3. ASSUME NEW o \in Orders, NEW r \in CheckoutInputs, Checkout(o, r) PROVE Silent
  <2>1. Enqueue({<<"order_created", o>>}) /\ UNCHANGED receipts
    BY <1>3 DEF Checkout, PlaceOrder
  <2> QED
    BY <1>1, <2>1 DEF Required, Succeeded
<1>4. ASSUME NEW o \in Orders, Cancel(o) PROVE Silent
  <2>1. Enqueue({<<"order_cancelled", o>>}) /\ UNCHANGED receipts
    BY <1>4 DEF Cancel
  <2> QED
    BY <1>1, <2>1 DEF Required, Succeeded
<1>5. ASSUME NEW o \in Orders, NEW s \in Sellers,
             NEW to \in {"confirmed", "shipping", "delivered"},
             NEW carrier \in {"external", "internal"}, Fulfill(o, s, to, carrier)
      PROVE  Silent
  <2>1. Enqueue({<<"order_status_changed", o, s, to>>}) /\ UNCHANGED receipts
    BY <1>5 DEF Fulfill
  <2>2. /\ \A t \in Transfers : Required(t) # <<"order_status_changed", o, s, to>>
        /\ \A p \in Orders : Succeeded(p) # <<"order_status_changed", o, s, to>>
    BY DEF Required, Succeeded
  <2> QED
    BY <1>1, <2>1, <2>2
<1>6. ASSUME NEW o \in Orders, NEW s \in Sellers,
             \/ CreateShipment(o, s)
             \/ \E d \in Drivers : Assign(o, s, d)
             \/ \E d \in Drivers, to \in ShipmentStatuses, collected \in BOOLEAN :
                   UpdateShipment(o, s, d, to, collected)
      PROVE  Silent
  <2>1. Enqueue({<<"shipment_status_changed", o, s>>}) /\ UNCHANGED receipts
    BY <1>6 DEF CreateShipment, Assign, UpdateShipment, moneyVars
  <2>2. /\ \A t \in Transfers : Required(t) # <<"shipment_status_changed", o, s>>
        /\ \A p \in Orders : Succeeded(p) # <<"shipment_status_changed", o, s>>
    BY DEF Required, Succeeded
  <2> QED
    BY <1>1, <2>1, <2>2
<1>7. ASSUME NEW o \in Orders, NEW s \in Sellers, Settle(o, s)
      PROVE  UNCHANGED receipts /\ \A t \in Transfers : outbox'[Required(t)] = outbox[Required(t)]
  <2>1. UNCHANGED receipts /\ \E events : /\ Enqueue(events)
                                         /\ \A t \in Transfers : Required(t) \notin events
    <3> DEFINE paid   == /\ AllSettled(o, [shipments[o] EXCEPT ![s].settled = TRUE,
                                                               ![s].collected = TRUE])
                         /\ payStatus[o] = "pending"
               events == {<<"shipment_status_changed", o, s>>}
                         \cup (IF paid THEN {<<"payment_succeeded", o>>} ELSE {})
    <3>1. Enqueue(events) /\ UNCHANGED receipts
      BY <1>7 DEF Settle
    <3>2. \A t \in Transfers : Required(t) \notin events
      <4> HIDE DEF paid
      <4> QED
        BY DEF Required
    <3> QED
      BY <3>1, <3>2
  <2> QED
    BY <2>1, Counted, MoneyEvents
<1>8. CASE Shipping
  BY <1>5, <1>6, <1>7, <1>8 DEF Shipping
<1> QED
  BY <1>2, <1>3, <1>4, <1>8, Steps

\* What NoTransferForgotten says of one transfer.
OnRecord(t) ==
    outbox[Required(t)] = IF /\ receipts[t] # NoReceipt
                             /\ receipts[t].direction = "in"
                             /\ \A o \in Orders : t \notin Applied(o)
                          THEN 1 ELSE 0

\* A webhook stores its receipt and, when it pays for nothing, the one event about it.
LEMMA ReceiptOnRecord ==
    ASSUME IInv, \A t \in Transfers : OnRecord(t), NEW w \in Webhooks, Receive(w),
           NEW t \in Transfers
    PROVE  OnRecord(t)'
<1> DEFINE row == [order |-> w.order, amount |-> w.amount, direction |-> w.direction,
                   account |-> w.account, status |-> ReceiptStatus(w)]
<1>1. receipts[w.id] = NoReceipt /\ receipts' = [receipts EXCEPT ![w.id] = row]
  BY DEF Receive
<1>2. /\ w.id \in Transfers /\ w.direction \in {"in", "out"}
      /\ w.order \in Orders \cup {NoOrder} /\ w.amount \in Amounts
      /\ w.account \in {"ours", "other"}
  BY DEF Webhooks
<1>3. ReceiptStatus(w) \in ReceiptStatuses
  BY <1>2 DEF ReceiptStatus, ReceiptStatuses
<1>4. row # NoReceipt
  BY <1>2, <1>3, ReceiptAssumption DEF Receipts
<1>5. row.order = w.order /\ row.direction = w.direction /\ row.status = ReceiptStatus(w)
  OBVIOUS
<1> HIDE DEF row
<1>6. receipts'[w.id] = row /\ \A u \in Transfers \ {w.id} : receipts'[u] = receipts[u]
  BY <1>1, <1>2 DEF IInv, TypeOK, MoneyTypeOK
<1>7. \A u \in Transfers \ {w.id} : \A o \in Orders : u \in Applied(o)' <=> u \in Applied(o)
  BY <1>6 DEF Applied
<1>8. CASE t # w.id
  <2>1. Required(t) # Required(w.id) /\ \A o \in Orders : Required(t) # Succeeded(o)
    BY <1>8 DEF Required, Succeeded
  <2>2. \/ ReceiptStatus(w) = "applied" /\ Enqueue({Succeeded(w.order)})
        \/ Enqueue({Required(w.id)})
        \/ UNCHANGED outbox
    BY DEF Receive, Required, Succeeded
  <2>3. ReceiptStatus(w) = "applied" => w.order \in Orders
    BY <1>2 DEF ReceiptStatus, Matches, Placed
  <2>4. outbox'[Required(t)] = outbox[Required(t)]
    BY <2>1, <2>2, <2>3, Counted, MoneyEvents
  <2> QED
    BY <1>6, <1>7, <1>8, <2>4 DEF OnRecord
<1>9. CASE t = w.id
  <2>1. outbox[Required(t)] = 0
    BY <1>1, <1>9 DEF OnRecord
  <2>2. CASE ReceiptStatus(w) = "applied"
    <3>1. w.order \in Orders /\ Enqueue({Succeeded(w.order)})
      BY <1>2, <2>2 DEF Receive, Succeeded, ReceiptStatus, Matches, Placed
    <3>2. Required(t) # Succeeded(w.order)
      BY DEF Required, Succeeded
    <3>3. outbox'[Required(t)] = 0
      BY <2>1, <3>1, <3>2, Counted, MoneyEvents
    <3>4. t \in Applied(w.order)'
      BY <1>4, <1>5, <1>6, <1>9, <2>2 DEF Applied
    <3> QED
      BY <3>1, <3>3, <3>4 DEF OnRecord
  <2>3. CASE ReceiptStatus(w) \in {"requires_review", "unmatched"}
    <3>1. w.direction = "in"
      BY <1>2, <2>3 DEF ReceiptStatus
    <3>2. Enqueue({Required(w.id)})
      BY <2>3 DEF Receive, Required
    <3>3. outbox'[Required(t)] = 1
      BY <1>9, <2>1, <3>2, Counted, MoneyEvents
    <3>4. \A o \in Orders : t \notin Applied(o)'
      BY <1>5, <1>6, <1>9, <2>3 DEF Applied
    <3> QED
      BY <1>4, <1>5, <1>6, <1>9, <3>1, <3>3, <3>4 DEF OnRecord
  <2>4. CASE ReceiptStatus(w) = "ignored"
    <3>1. w.direction = "out"
      BY <1>2, <2>4 DEF ReceiptStatus
    <3>2. UNCHANGED outbox
      BY <2>4 DEF Receive
    <3> QED
      BY <1>5, <1>6, <1>9, <2>1, <3>1, <3>2 DEF OnRecord
  <2> QED
    BY <1>3, <2>2, <2>3, <2>4 DEF ReceiptStatuses
<1> QED
  BY <1>8, <1>9

\* Money that came in and paid for nothing is on record, and told once.
THEOREM TransfersOnRecord == Spec => []NoTransferForgotten
<1> DEFINE Inv == \A t \in Transfers : OnRecord(t)
<1>1. Init => Inv
  BY MoneyEvents DEF Init, OnRecord
<1>2. IInv /\ Inv /\ [Next]_vars => Inv'
  <2> SUFFICES ASSUME IInv, Inv, [Next]_vars, NEW t \in Transfers PROVE OnRecord(t)'
    OBVIOUS
  <2>1. CASE Paying
    BY <2>1, ReceiptOnRecord DEF Paying
  <2>2. CASE ~Paying
    <3>1. UNCHANGED receipts /\ outbox'[Required(t)] = outbox[Required(t)]
      BY <2>2, OtherEvents
    <3>2. \A o \in Orders : Applied(o)' = Applied(o)
      BY <3>1 DEF Applied
    <3> QED
      BY <3>1, <3>2 DEF OnRecord
  <2> QED
    BY <2>1, <2>2
<1>3. Inv => NoTransferForgotten
  BY DEF OnRecord, Required, NoTransferForgotten
<1> HIDE DEF Inv
<1> QED
  BY <1>1, <1>2, <1>3, Inductive, PTL DEF Spec

\* What PaymentAnnouncedOnce says of one order.
Announced(o) ==
    outbox[Succeeded(o)]
        = IF payStatus[o] = "paid" /\ (placed[o].method = "sepay" \/ ~HasExternal(o))
          THEN 1 ELSE 0

\* A step that changes neither the payment nor the carriers of the order.
LEMMA SameMoney ==
    ASSUME NEW o \in Orders, Announced(o), payStatus'[o] = payStatus[o], placed'[o] = placed[o],
           \A s \in Sellers : shipments'[o][s].carrier = shipments[o][s].carrier,
           outbox'[Succeeded(o)] = outbox[Succeeded(o)]
    PROVE  Announced(o)'
BY DEF Announced, HasExternal

\* The webhook that pays an order writes its payment_succeeded, and no other one does.
LEMMA ReceiveAnnounced ==
    ASSUME IInv, NEW w \in Webhooks, Receive(w), NEW o \in Orders, Announced(o)
    PROVE  Announced(o)'
<1>1. UNCHANGED <<placed, shipments>>
  BY DEF Receive, orderVars, fleetVars
<1>2. CASE ReceiptStatus(w) = "applied" /\ w.order = o
  <2>1. placed[o].method = "sepay" /\ payStatus[o] = "pending"
    BY <1>2 DEF ReceiptStatus, CanApply, Webhooks
  <2>2. outbox[Succeeded(o)] = 0
    BY <2>1 DEF Announced
  <2>3. Enqueue({Succeeded(o)}) /\ payStatus'[o] = "paid"
    BY <1>2 DEF Receive, MarkPaid, Succeeded, IInv, TypeOK, MoneyTypeOK
  <2>4. outbox'[Succeeded(o)] = 1
    BY <2>2, <2>3, Counted, MoneyEvents
  <2> QED
    BY <1>1, <2>1, <2>3, <2>4 DEF Announced
<1>3. CASE ~(ReceiptStatus(w) = "applied" /\ w.order = o)
  <2>1. \/ ReceiptStatus(w) = "applied" /\ Enqueue({Succeeded(w.order)})
        \/ Enqueue({Required(w.id)})
        \/ UNCHANGED outbox
    BY DEF Receive, Required, Succeeded
  <2>2. Succeeded(o) # Required(w.id) /\ (w.order # o => Succeeded(o) # Succeeded(w.order))
    BY DEF Required, Succeeded
  <2>3. outbox'[Succeeded(o)] = outbox[Succeeded(o)]
    <3>1. CASE ReceiptStatus(w) = "applied" /\ Enqueue({Succeeded(w.order)})
      BY <1>3, <2>2, <3>1, Counted, MoneyEvents
    <3>2. CASE Enqueue({Required(w.id)})
      BY <2>2, <3>2, Counted, MoneyEvents
    <3> QED
      BY <2>1, <3>1, <3>2
  <2>4. payStatus'[o] = payStatus[o]
    BY <1>3 DEF Receive, MarkPaid, IInv, TypeOK, MoneyTypeOK
  <2> QED
    BY <1>1, <2>3, <2>4, SameMoney
<1> QED
  BY <1>2, <1>3

\* A report of a shop may record cash, without an event, of an order it ships itself.
LEMMA FulfillAnnounced ==
    ASSUME IInv, NEW p \in Orders, NEW s \in Sellers,
           NEW to \in {"confirmed", "shipping", "delivered"},
           NEW carrier \in {"external", "internal"}, Fulfill(p, s, to, carrier),
           NEW o \in Orders, Announced(o), outbox'[Succeeded(o)] = outbox[Succeeded(o)]
    PROVE  Announced(o)'
<1> DEFINE children == [childStatus[p] EXCEPT ![s] = to]
<1>1. UNCHANGED placed /\ childStatus[p][s] \in {"pending", "confirmed", "shipping"} /\ ~Internal(p, s)
  BY DEF Fulfill, ValidTransition
<1>2. \/ UNCHANGED payStatus
      \/ /\ ParentStatus(children) = "delivered" /\ placed[p].method = "cod"
         /\ payStatus' = [payStatus EXCEPT ![p] = "paid"]
  BY DEF Fulfill, PayOnDelivery
<1>3. \A q \in Orders \ {p} : shipments'[q] = shipments[q]
  BY DEF Fulfill, IInv, TypeOK, FleetTypeOK
<1>4. CASE o # p
  BY <1>1, <1>2, <1>3, <1>4, SameMoney DEF IInv, TypeOK, MoneyTypeOK
<1>5. CASE o = p
  <2>1. ~(payStatus[p] = "paid" /\ placed[p].method = "cod")
    BY <1>1 DEF IInv, OrderInv, Payment, Parent
  <2>2. CASE UNCHANGED payStatus
    <3>1. placed[p].method \in {"cod", "sepay"}
      <4>1. orderStatus[p] # "none"
        BY <1>1 DEF IInv, OrderInv, Unplaced
      <4> QED
        BY <4>1 DEF IInv, TypeOK, OrderTypeOK, IsPlacedRow, Placed, Methods
    <3> QED
      BY <1>1, <1>5, <2>1, <2>2, <3>1 DEF Announced
  <2>3. CASE /\ ParentStatus(children) = "delivered" /\ placed[p].method = "cod"
             /\ payStatus' = [payStatus EXCEPT ![p] = "paid"]
    <3>1. children[s] = to
      BY DEF IInv, TypeOK, OrderTypeOK
    <3>2. to = "delivered"
      BY <2>3, <3>1 DEF ParentStatus
    <3>3. shipments[p][s] # NoShipment /\ shipments' = [shipments EXCEPT ![p][s].status = "delivered"]
      BY <3>2 DEF Fulfill
    <3>4. shipments[p][s].carrier = "external"
      BY <1>1, <3>3 DEF Internal, IInv, OrderInv, Parcels, TypeOK, FleetTypeOK, IsShipment
    <3>5. shipments'[p][s].carrier = "external"
      BY <3>3, <3>4 DEF IInv, TypeOK, FleetTypeOK, IsShipment, NoShipment
    <3> HIDE DEF children
    <3> QED
      BY <1>1, <1>5, <2>1, <2>3, <3>5 DEF Announced, HasExternal
  <2> QED
    BY <1>2, <2>2, <2>3
<1> QED
  BY <1>4, <1>5

\* The settlement that completes the cash of an order writes its payment_succeeded.
LEMMA SettleAnnounced ==
    ASSUME IInv, NEW p \in Orders, NEW s \in Sellers, Settle(p, s), NEW o \in Orders, Announced(o)
    PROVE  Announced(o)'
<1> DEFINE paid   == /\ AllSettled(p, [shipments[p] EXCEPT ![s].settled = TRUE,
                                                           ![s].collected = TRUE])
                     /\ payStatus[p] = "pending"
           parcel == [shipments[p][s] EXCEPT !.settled = TRUE, !.collected = TRUE]
           events == {<<"shipment_status_changed", p, s>>}
                     \cup (IF paid THEN {Succeeded(p)} ELSE {})
<1>1. /\ payStatus' = [payStatus EXCEPT ![p] = IF paid THEN "paid" ELSE @]
      /\ Enqueue(events) /\ UNCHANGED placed
  BY DEF Settle, Succeeded, orderVars
<1>2. shipments' = [shipments EXCEPT ![p][s] = parcel]
  BY DEF Settle, IInv, TypeOK, FleetTypeOK
<1>3. parcel.carrier = shipments[p][s].carrier
  BY DEF IInv, TypeOK, FleetTypeOK, IsShipment, NoShipment
<1> HIDE DEF paid, parcel
<1>4. \A q \in Sellers : shipments'[o][q].carrier = shipments[o][q].carrier
  BY <1>2, <1>3 DEF IInv, TypeOK, FleetTypeOK
<1>5. Succeeded(o) # <<"shipment_status_changed", p, s>> /\ (o # p => Succeeded(o) # Succeeded(p))
  BY DEF Succeeded
<1>6. CASE paid /\ o = p
  <2>1. payStatus[o] = "pending"
    BY <1>6 DEF paid
  <2>2. outbox'[Succeeded(o)] = 1
    BY <1>1, <1>6, <2>1, Counted, MoneyEvents DEF Announced
  <2>3. ~HasExternal(o)
    BY <1>6 DEF Settle, Serviceable, Internal, IInv, OrderInv, OneCarrier, HasInternal
  <2>4. ~HasExternal(o)' /\ payStatus'[o] = "paid"
    BY <1>1, <1>4, <1>6, <2>3 DEF HasExternal, IInv, TypeOK, MoneyTypeOK
  <2> QED
    BY <2>2, <2>4 DEF Announced
<1>7. CASE ~(paid /\ o = p)
  <2>1. Succeeded(o) \notin events
    BY <1>5, <1>7
  <2> HIDE DEF events
  <2>2. outbox'[Succeeded(o)] = outbox[Succeeded(o)]
    BY <1>1, <2>1, Counted, MoneyEvents
  <2>3. payStatus'[o] = payStatus[o]
    BY <1>1, <1>7 DEF IInv, TypeOK, MoneyTypeOK
  <2> QED
    BY <1>1, <1>4, <2>2, <2>3, SameMoney
<1> QED
  BY <1>6, <1>7

\* The other steps announce nothing, and leave nothing to announce.
LEMMA QuietAnnounced ==
    ASSUME IInv, [Next]_vars, NEW o \in Orders, Announced(o),
           outbox'[Succeeded(o)] = outbox[Succeeded(o)],
           \/ Elsewhere \/ CheckoutStep \/ \E p \in Orders : Cancel(p)
           \/ \E p \in Orders, s \in Sellers :
                \/ CreateShipment(p, s)
                \/ \E d \in Drivers : Assign(p, s, d)
                \/ \E d \in Drivers, to \in ShipmentStatuses, collected \in BOOLEAN :
                      UpdateShipment(p, s, d, to, collected)
    PROVE  Announced(o)'
<1>1. CASE Elsewhere
  BY <1>1, ElsewhereUntouched, SameMoney DEF orderVars, moneyVars
<1>2. ASSUME NEW p \in Orders, NEW r \in CheckoutInputs, Checkout(p, r) PROVE Announced(o)'
  <2>1. /\ placed' = [placed EXCEPT ![p] = PlacedRow(r, CheckoutLines(r))]
        /\ payStatus' = [payStatus EXCEPT ![p] = "pending"]
        /\ orderStatus[p] = "none" /\ UNCHANGED shipments
    BY <1>2 DEF Checkout, PlaceOrder, fleetVars
  <2>2. CASE o = p
    BY <2>1, <2>2 DEF Announced, IInv, OrderInv, Unplaced, TypeOK, MoneyTypeOK
  <2>3. CASE o # p
    BY <2>1, <2>3, SameMoney DEF IInv, TypeOK, OrderTypeOK, MoneyTypeOK
  <2> QED
    BY <2>2, <2>3
<1>3. ASSUME NEW p \in Orders, Cancel(p) PROVE Announced(o)'
  <2>1. /\ payStatus' = [payStatus EXCEPT ![p] = "cancelled"] /\ UNCHANGED <<placed, shipments>>
        /\ orderStatus[p] = "pending" /\ ~(placed[p].method = "sepay" /\ payStatus[p] = "paid")
    BY <1>3 DEF Cancel, Cancellable, fleetVars
  <2>2. CASE o = p
    <3>1. placed[p].method \in {"cod", "sepay"}
      BY <2>1 DEF IInv, TypeOK, OrderTypeOK, IsPlacedRow, Placed, Methods
    <3>2. payStatus[p] # "paid"
      BY <2>1, <3>1 DEF IInv, OrderInv, Payment
    <3> QED
      BY <2>1, <2>2, <3>2 DEF Announced, IInv, TypeOK, MoneyTypeOK
  <2>3. CASE o # p
    BY <2>1, <2>3, SameMoney DEF IInv, TypeOK, MoneyTypeOK
  <2> QED
    BY <2>2, <2>3
<1>4. ASSUME NEW p \in Orders, NEW s \in Sellers, CreateShipment(p, s) PROVE Announced(o)'
  <2> DEFINE parcel == [NoShipment EXCEPT
                          !.carrier = "internal", !.status = "pending",
                          !.cod = IF placed[p].method = "cod" THEN placed[p].totals[s] ELSE 0]
  <2>1. /\ shipments' = [shipments EXCEPT ![p][s] = parcel] /\ UNCHANGED <<placed, payStatus>>
        /\ ~HasExternal(p)
    BY <1>4 DEF CreateShipment, orderVars, moneyVars
  <2>2. parcel.carrier = "internal"
    BY DEF NoShipment
  <2> HIDE DEF parcel
  <2>3. HasExternal(o)' <=> HasExternal(o)
    BY <2>1, <2>2 DEF HasExternal, IInv, TypeOK, FleetTypeOK
  <2> QED
    BY <2>1, <2>3 DEF Announced
<1>5. ASSUME NEW p \in Orders, NEW s \in Sellers, NEW d \in Drivers, Assign(p, s, d)
      PROVE  Announced(o)'
  <2>1. UNCHANGED <<placed, payStatus>>
    BY <1>5 DEF Assign, orderVars, moneyVars
  <2>2. \A q \in Sellers : shipments'[o][q].carrier = shipments[o][q].carrier
    BY <1>5 DEF Assign, IInv, TypeOK, FleetTypeOK, IsShipment, NoShipment
  <2> QED
    BY <2>1, <2>2, SameMoney
<1>6. ASSUME NEW p \in Orders, NEW s \in Sellers, NEW d \in Drivers,
             NEW to \in ShipmentStatuses, NEW collected \in BOOLEAN,
             UpdateShipment(p, s, d, to, collected)
      PROVE  Announced(o)'
  <2>1. UNCHANGED <<placed, payStatus>>
    BY <1>6 DEF UpdateShipment, moneyVars
  <2>2. \A q \in Sellers : shipments'[o][q].carrier = shipments[o][q].carrier
    BY <1>6 DEF UpdateShipment, IInv, TypeOK, FleetTypeOK, IsShipment, NoShipment
  <2> QED
    BY <2>1, <2>2, SameMoney
<1> QED
  BY <1>1, <1>2, <1>3, <1>4, <1>5, <1>6 DEF CheckoutStep

\* The rest of the system hears of every payment once.
THEOREM PaymentsAnnounced == Spec => []PaymentAnnouncedOnce
<1> DEFINE Inv == \A o \in Orders : Announced(o)
<1>1. Init => Inv
  BY MoneyEvents DEF Init, Announced
<1>2. IInv /\ Inv /\ [Next]_vars => Inv'
  <2> SUFFICES ASSUME IInv, Inv, [Next]_vars, NEW o \in Orders PROVE Announced(o)'
    OBVIOUS
  <2>1. CASE Paying
    BY <2>1, ReceiveAnnounced DEF Paying
  <2>2. CASE \E p \in Orders, s \in Sellers : Settle(p, s)
    BY <2>2, SettleAnnounced
  <2>3. CASE ~Paying /\ ~\E p \in Orders, s \in Sellers : Settle(p, s)
    <3>1. outbox'[Succeeded(o)] = outbox[Succeeded(o)]
      BY <2>3, OtherEvents
    <3>2. CASE Shipping
      BY <2>3, <3>1, <3>2, FulfillAnnounced, QuietAnnounced DEF Shipping
    <3>3. CASE ~Shipping
      BY <2>3, <3>1, <3>3, Steps, QuietAnnounced DEF CheckoutStep
    <3> QED
      BY <3>2, <3>3
  <2> QED
    BY <2>1, <2>2, <2>3
<1>3. Inv => PaymentAnnouncedOnce
  BY DEF Announced, Succeeded, PaymentAnnouncedOnce
<1> HIDE DEF Inv
<1> QED
  BY <1>1, <1>2, <1>3, Inductive, PTL DEF Spec

---------------------------------------------------------------------------
(* Stock *)

\* The steps that move units.
StockStep == \/ CheckoutStep \/ \E o \in Orders : Cancel(o)
             \/ \E v \in Variants, delta \in Deltas : Adjust(v, delta)

\* Only checkout, cancellation and adjustment move units, and only the first two
\* change which orders hold any.
LEMMA StockKept ==
    ASSUME IInv, [Next]_vars, ~StockStep
    PROVE  Live' = Live /\ UNCHANGED <<placed, stock, adjusted>>
<1>1. UNCHANGED <<stock, adjusted>>
  <2>1. CASE Elsewhere
    <3>1. \/ \E u \in Users, v \in Variants, q \in Quantities : PutCart(u, v, q)
          \/ \E c \in Coupons, active \in BOOLEAN : SetCouponActive(c, active)
          \/ \E s \in Sellers, status \in ShopDecisions : SetShopStatus(s, status)
          \/ \E d \in Drivers : Apply(d)
          \/ \E d \in Drivers, status \in DriverDecisions : ApproveDriver(d, status)
          \/ UNCHANGED vars
      BY <2>1 DEF Elsewhere, StockStep
    <3> QED
      BY <3>1 DEF PutCart, SetCouponActive, SetShopStatus, Apply, ApproveDriver, vars, catalogVars
  <2>2. CASE Paying
    BY <2>2 DEF Paying, Receive, catalogVars
  <2>3. CASE Shipping
    <3>1. UNCHANGED catalogVars
      <4>1. \A o \in Orders, s \in Sellers, to \in {"confirmed", "shipping", "delivered"},
               carrier \in {"external", "internal"} :
                  Fulfill(o, s, to, carrier) => UNCHANGED catalogVars
        BY DEF Fulfill
      <4>2. \A o \in Orders, s \in Sellers : CreateShipment(o, s) => UNCHANGED catalogVars
        BY DEF CreateShipment
      <4>3. \A o \in Orders, s \in Sellers, d \in Drivers :
               Assign(o, s, d) => UNCHANGED catalogVars
        BY DEF Assign
      <4>4. \A o \in Orders, s \in Sellers, d \in Drivers, to \in ShipmentStatuses,
               collected \in BOOLEAN :
                  UpdateShipment(o, s, d, to, collected) => UNCHANGED catalogVars
        BY DEF UpdateShipment
      <4>5. \A o \in Orders, s \in Sellers : Settle(o, s) => UNCHANGED catalogVars
        BY DEF Settle
      <4> QED
        BY <2>3, <4>1, <4>2, <4>3, <4>4, <4>5 DEF Shipping
    <3> QED
      BY <3>1 DEF catalogVars
  <2> QED
    BY <2>1, <2>2, <2>3, Steps DEF StockStep, CheckoutStep
<1>2. Placed' = Placed /\ UNCHANGED placed
  BY RowsKept DEF StockStep
<1>3. \A o \in Orders : orderStatus'[o] = "cancelled" <=> orderStatus[o] = "cancelled"
  <2>1. CASE Elsewhere
    BY <2>1, ElsewhereUntouched DEF orderVars
  <2>2. CASE Paying
    BY <2>2 DEF Paying, Receive, orderVars
  <2>3. ASSUME NEW p \in Orders, NEW s \in Sellers,
               NEW to \in {"confirmed", "shipping", "delivered"},
               NEW carrier \in {"external", "internal"}, Fulfill(p, s, to, carrier)
        PROVE  \A o \in Orders : orderStatus'[o] = "cancelled" <=> orderStatus[o] = "cancelled"
    <3>1. /\ orderStatus' = [orderStatus EXCEPT
                               ![p] = ParentStatus([childStatus[p] EXCEPT ![s] = to])]
          /\ orderStatus[p] # "cancelled"
      BY <2>3 DEF Fulfill
    <3> QED
      BY <3>1 DEF ParentStatus, IInv, TypeOK, OrderTypeOK
  <2>4. ASSUME NEW p \in Orders, NEW s \in Sellers, NEW d \in Drivers,
               NEW to \in ShipmentStatuses, NEW collected \in BOOLEAN,
               UpdateShipment(p, s, d, to, collected)
        PROVE  \A o \in Orders : orderStatus'[o] = "cancelled" <=> orderStatus[o] = "cancelled"
    <3>1. /\ orderStatus' = [orderStatus EXCEPT
                               ![p] = ParentStatus([childStatus[p] EXCEPT ![s] = ChildAfter(to)])]
          /\ orderStatus[p] # "cancelled"
      BY <2>4 DEF UpdateShipment, SyncOrder, Serviceable
    <3> QED
      BY <3>1 DEF ParentStatus, IInv, TypeOK, OrderTypeOK
  <2>5. ASSUME NEW p \in Orders, NEW s \in Sellers,
               CreateShipment(p, s) \/ Settle(p, s) \/ \E d \in Drivers : Assign(p, s, d)
        PROVE  UNCHANGED orderStatus
    <3>1. CreateShipment(p, s) => UNCHANGED orderVars
      BY DEF CreateShipment
    <3>2. Settle(p, s) => UNCHANGED orderVars
      BY DEF Settle
    <3>3. (\E d \in Drivers : Assign(p, s, d)) => UNCHANGED orderVars
      BY DEF Assign
    <3> QED
      BY <2>5, <3>1, <3>2, <3>3 DEF orderVars
  <2>6. CASE Shipping
    BY <2>3, <2>4, <2>5, <2>6 DEF Shipping
  <2> QED
    BY <2>1, <2>2, <2>6, Steps DEF StockStep, CheckoutStep
<1> QED
  BY <1>1, <1>2, <1>3 DEF Live, Placed

\* The units of a variant that an order holds.
Held(o, v) == placed[o].quantity[v]

\* All the units of a variant that orders hold.
Out(v) == Total([o \in Live |-> Held(o, v)])

\* The orders are finitely many, so that their units can be added up.
StockInv ==
    /\ IsFiniteSet(Placed)
    /\ \A v \in Variants : stock[v] + Out(v) = InitialStock[v] + adjusted[v]

\* What there is to add up.
LEMMA OutOf ==
    ASSUME IInv, IsFiniteSet(Placed), NEW v \in Variants
    PROVE  /\ IsFiniteSet(Live) /\ [o \in Live |-> Held(o, v)] \in [Live -> Int]
           /\ Out(v) \in Int
<1>1. Live \in SUBSET Placed
  BY DEF Live
<1>2. IsFiniteSet(Live)
  BY <1>1, FS_Subset
<1>3. \A o \in Live : Held(o, v) \in Nat
  BY <1>1 DEF Held, IInv, TypeOK, OrderTypeOK, IsPlacedRow
<1> DEFINE f == [o \in Live |-> Held(o, v)]
<1>4. f \in [Live -> Int]
  BY <1>3
<1> HIDE DEF f
<1>5. Total(f) \in Int
  BY <1>2, <1>4, TotalType
<1> QED
  BY <1>2, <1>4, <1>5 DEF f, Out

\* The units g of the orders T, and the units f of these and of one more order.
OneMore(f, S, g, T, o) ==
    /\ IsFiniteSet(S) /\ o \in S /\ T = S \ {o}
    /\ f \in [S -> Int] /\ g \in [T -> Int] /\ \A p \in T : g[p] = f[p]

\* The units of that order are the difference.
LEMMA OneMoreTotal ==
    ASSUME NEW f, NEW S, NEW g, NEW T, NEW o, OneMore(f, S, g, T, o)
    PROVE  Total(f) = f[o] + Total(g)
<1> USE DEF OneMore
<1>1. Total(f) = f[o] + Total([p \in S \ {o} |-> f[p]])
  BY TotalLast
<1>2. g = [p \in S \ {o} |-> f[p]]
  OBVIOUS
<1> QED
  BY <1>1, <1>2

\* Every step keeps the books of one variant.
LEMMA StockStepInv ==
    ASSUME IInv, [Next]_vars, StockInv
    PROVE  StockInv'
<1> USE DEF StockInv
<1>0. IInv'
  BY StepInv
<1>1. CASE ~StockStep
  BY <1>1, StockKept, RowsKept DEF StockStep, Out, Held
<1>2. ASSUME NEW o \in Orders, NEW r \in CheckoutInputs, Checkout(o, r) PROVE StockInv'
  <2> DEFINE taken == [v \in Variants |-> IF v \in Selected(r) THEN cart[r.user][v] ELSE 0]
  <2>1. /\ orderStatus' = [orderStatus EXCEPT ![o] = "pending"] /\ orderStatus[o] = "none"
        /\ placed' = [placed EXCEPT ![o] = PlacedRow(r, CheckoutLines(r))]
        /\ stock' = [v \in Variants |-> stock[v] - taken[v]] /\ UNCHANGED adjusted
    BY <1>2 DEF Checkout, PlaceOrder, TakeStock
  <2>2. PlacedRow(r, CheckoutLines(r)).quantity = taken
    BY DEF PlacedRow
  <2>3. /\ Placed' = Placed \cup {o} /\ Live' = Live \cup {o} /\ o \notin Live
        /\ \A p \in Live : placed'[p] = placed[p]
        /\ placed'[o].quantity = taken
    BY <2>1, <2>2 DEF Placed, Live, IInv, TypeOK, OrderTypeOK
  <2>4. IsFiniteSet(Placed')
    BY <2>3, FS_AddElement
  <2>5. ASSUME NEW v \in Variants
        PROVE  stock'[v] + Out(v)' = InitialStock[v] + adjusted'[v]
    <3> DEFINE f == [p \in Live |-> Held(p, v)]
               g == [p \in Live' |-> Held(p, v)']
    <3>1. IsFiniteSet(Live) /\ f \in [Live -> Int] /\ Total(f) \in Int
      BY OutOf DEF Out
    <3>2. IsFiniteSet(Live') /\ g \in [Live' -> Int]
      <4>1. Live' \in SUBSET Placed'
        BY DEF Live
      <4>2. \A p \in Live' : Held(p, v)' \in Nat
        BY <1>0, <4>1 DEF Held, IInv, TypeOK, OrderTypeOK, IsPlacedRow
      <4> QED
        BY <2>4, <4>1, <4>2, FS_Subset
    <3>3. Live = Live' \ {o} /\ o \in Live' /\ \A p \in Live : f[p] = g[p]
      BY <2>3 DEF Held
    <3>4. g[o] = taken[v]
      BY <2>3 DEF Held
    <3>5. stock'[v] = stock[v] - taken[v] /\ stock[v] \in Int /\ adjusted[v] \in Int
      BY <2>1 DEF IInv, TypeOK, CatalogTypeOK
    <3>6. Out(v) = Total(f) /\ Out(v)' = Total(g)
      BY DEF Out
    <3>7. g[o] \in Int
      BY <3>2, <3>3
    <3> HIDE DEF f, g, taken
    <3>8. Total(g) = g[o] + Total(f)
      <4>1. OneMore(g, Live', f, Live, o)
        BY <3>1, <3>2, <3>3 DEF OneMore
      <4> QED
        BY <4>1, OneMoreTotal
    <3>9. stock[v] + Total(f) = InitialStock[v] + adjusted[v] /\ adjusted'[v] = adjusted[v]
      BY <2>1, <3>6
    <3>10. stock[v] - taken[v] + (taken[v] + Total(f)) = stock[v] + Total(f)
      BY <3>1, <3>4, <3>5, <3>7
    <3> QED
      BY <3>4, <3>5, <3>6, <3>8, <3>9, <3>10
  <2> QED
    BY <2>4, <2>5
<1>3. ASSUME NEW o \in Orders, Cancel(o) PROVE StockInv'
  <2>1. /\ orderStatus' = [orderStatus EXCEPT ![o] = "cancelled"] /\ orderStatus[o] = "pending"
        /\ stock' = [v \in Variants |-> stock[v] + Held(o, v)]
        /\ UNCHANGED <<placed, adjusted>>
    BY <1>3 DEF Cancel, Cancellable, RestoreStock, Held
  <2>2. Placed' = Placed /\ Live' = Live \ {o} /\ o \in Live
    BY <2>1 DEF Placed, Live, IInv, TypeOK, OrderTypeOK
  <2>3. ASSUME NEW v \in Variants
        PROVE  stock'[v] + Out(v)' = InitialStock[v] + adjusted'[v]
    <3> DEFINE f == [p \in Live |-> Held(p, v)]
               g == [p \in Live' |-> Held(p, v)']
    <3>1. IsFiniteSet(Live) /\ f \in [Live -> Int] /\ Total(f) \in Int
      BY OutOf DEF Out
    <3>2. g \in [Live' -> Int] /\ Total(g) \in Int
      <4>1. g \in [Live' -> Int]
        BY <2>1, <2>2, <3>1 DEF Held
      <4>2. IsFiniteSet(Live')
        BY <2>2, <3>1, FS_RemoveElement
      <4> HIDE DEF g
      <4> QED
        BY <4>1, <4>2, TotalType
    <3>3. \A p \in Live' : f[p] = g[p]
      BY <2>1, <2>2 DEF Held
    <3>4. f[o] = Held(o, v)
      BY <2>2
    <3>5. stock'[v] = stock[v] + Held(o, v) /\ stock[v] \in Int /\ adjusted[v] \in Int
      BY <2>1 DEF IInv, TypeOK, CatalogTypeOK
    <3>6. Out(v) = Total(f) /\ Out(v)' = Total(g)
      BY DEF Out
    <3>7. f[o] \in Int
      BY <2>2, <3>1
    <3> HIDE DEF f, g
    <3>8. Total(f) = f[o] + Total(g)
      <4>1. OneMore(f, Live, g, Live', o)
        BY <2>2, <3>1, <3>2, <3>3 DEF OneMore
      <4> QED
        BY <4>1, OneMoreTotal
    <3>9. stock[v] + Total(f) = InitialStock[v] + adjusted[v] /\ adjusted'[v] = adjusted[v]
      BY <2>1, <3>6
    <3>10. stock[v] + f[o] + Total(g) = stock[v] + (f[o] + Total(g))
      BY <3>2, <3>5, <3>7
    <3> QED
      BY <3>4, <3>5, <3>6, <3>8, <3>9, <3>10
  <2> QED
    BY <2>2, <2>3
<1>4. ASSUME NEW v \in Variants, NEW delta \in Deltas, Adjust(v, delta) PROVE StockInv'
  <2>1. /\ stock' = [stock EXCEPT ![v] = @ + delta]
        /\ adjusted' = [adjusted EXCEPT ![v] = @ + delta]
        /\ UNCHANGED orderVars
    BY <1>4 DEF Adjust
  <2>2. Placed' = Placed /\ Live' = Live /\ \A w \in Variants : Out(w)' = Out(w)
    BY <2>1 DEF Placed, Live, Out, Held, orderVars
  <2>3. delta \in Int
    BY InputAssumption
  <2>4. ASSUME NEW w \in Variants
        PROVE  stock'[w] + Out(w)' = InitialStock[w] + adjusted'[w]
    <3>1. stock[w] \in Int /\ adjusted[w] \in Int /\ Out(w) \in Int /\ InitialStock[w] \in Int
      <4>1. InitialStock \in [Variants -> 0..MaxStock]
        BY SMTT(30), MarketAssumption
      <4> QED
        BY <4>1, OutOf DEF IInv, TypeOK, CatalogTypeOK
    <3>2. /\ stock'[w] = IF w = v THEN stock[w] + delta ELSE stock[w]
          /\ adjusted'[w] = IF w = v THEN adjusted[w] + delta ELSE adjusted[w]
      BY <2>1 DEF IInv, TypeOK, CatalogTypeOK
    <3>3. stock[w] + Out(w) = InitialStock[w] + adjusted[w]
      OBVIOUS
    <3> QED
      BY <2>2, <2>3, <3>1, <3>2, <3>3
  <2> QED
    BY <2>2, <2>4
<1> QED
  BY <1>1, <1>2, <1>3, <1>4 DEF StockStep, CheckoutStep

\* Units are neither lost nor sold twice.
THEOREM StockIsConserved == Spec => []StockConserved
<1>1. Init => StockInv
  <2> SUFFICES ASSUME Init PROVE StockInv
    OBVIOUS
  <2>1. /\ stock = InitialStock /\ adjusted = [v \in Variants |-> 0] /\ Placed = {} /\ Live = {}
    BY DEF Init, Placed, Live
  <2>2. ASSUME NEW v \in Variants PROVE Out(v) = 0
    <3> DEFINE f == [o \in Live |-> Held(o, v)]
    <3>1. DOMAIN f = {} /\ f = [o \in {} |-> f[o]]
      BY <2>1
    <3> HIDE DEF f
    <3>2. Total(f) = 0
      BY <3>1, TotalOfNothing
    <3> QED
      BY <3>2 DEF f, Out
  <2>3. InitialStock \in [Variants -> 0..MaxStock]
    BY SMTT(30), MarketAssumption
  <2> QED
    BY <2>1, <2>2, <2>3, FS_EmptySet DEF StockInv
<1>2. IInv /\ StockInv /\ [Next]_vars => StockInv'
  BY StockStepInv
<1>3. StockInv => StockConserved
  BY DEF StockInv, Out, Held, StockConserved
<1> QED
  BY <1>1, <1>2, <1>3, Inductive, PTL DEF Spec

---------------------------------------------------------------------------
(* What the rows of a new order say *)

\* The lines of a checkout are of shops and cost a natural number, and each is of
\* a variant that the request selects.
LEMMA LinesAre ==
    ASSUME IInv, NEW r \in CheckoutInputs
    PROVE  /\ CheckoutLines(r) \in Lines(Sellers)
           /\ \A i \in 1..Len(CheckoutLines(r)) : CheckoutLines(r)[i].seller \in Shops(r)
<1> DEFINE items  == Selected(r)
           sorted == Ascending(items)
           n      == Len(sorted)
           At(i)  == [seller |-> SellerOf[sorted[i]],
                      amount |-> Price[sorted[i]] * cart[r.user][sorted[i]]]
<1>1. /\ IsFiniteSet(Variants) /\ Variants \subseteq Nat
      /\ SellerOf \in [Variants -> Sellers] /\ Price \in [Variants -> Nat]
  BY SMTT(30), MarketAssumption
<1>2. items \in SUBSET Variants
  BY DEF Selected
<1>3. sorted \in Seq(items)
  <2>1. IsFiniteSet(items) /\ items \subseteq Nat
    BY <1>1, <1>2, FS_Subset
  <2> HIDE DEF items
  <2> QED
    BY <2>1, AscendingIsRight
<1>4. CheckoutLines(r) = [i \in 1..n |-> At(i)]
  BY DEF CheckoutLines
<1>5. \A v \in Variants : cart[r.user][v] \in Nat
  BY InputAssumption DEF Requests, IInv, TypeOK, CatalogTypeOK
<1>6. ASSUME NEW i \in 1..n
      PROVE  At(i) \in [seller : Sellers, amount : Nat] /\ At(i).seller \in Shops(r)
  <2> DEFINE v == sorted[i]
             price == Price[v]
             quantity == cart[r.user][v]
  <2>1. v \in items
    <3> HIDE DEF sorted, items
    <3> QED
      BY <1>3
  <2>2. v \in Variants /\ SellerOf[v] \in Sellers /\ price \in Nat /\ quantity \in Nat
    <3> HIDE DEF sorted
    <3> QED
      BY <1>1, <1>2, <1>5, <2>1
  <2>3. price * quantity \in Nat
    <3> HIDE DEF price, quantity
    <3> QED
      BY <2>2
  <2>4. SellerOf[v] \in Shops(r)
    BY <2>1 DEF Shops
  <2> HIDE DEF v
  <2> QED
    BY <2>2, <2>3, <2>4 DEF v
<1> HIDE DEF At
<1>7. n \in Nat
  BY <1>3
<1> DEFINE lines == CheckoutLines(r)
<1>8. lines \in Seq([seller : Sellers, amount : Nat]) /\ Len(lines) = n
  <2> HIDE DEF n
  <2>1. lines = [i \in 1..n |-> At(i)]
    BY <1>4 DEF n
  <2> DEFINE R == [seller : Sellers, amount : Nat]
  <2>2. \A i \in 1..n : At(i) \in R
    BY <1>6
  <2> HIDE DEF R, lines
  <2>3. lines \in [1..n -> R]
    BY <2>1, <2>2
  <2>4. lines \in Seq(R) /\ Len(lines) = n
    BY <1>7, <2>3
  <2> QED
    BY <2>4 DEF R
<1>9. \A i \in 1..n : lines[i].seller \in Shops(r)
  <2> HIDE DEF n
  <2> QED
    BY <1>4, <1>6 DEF n
<1> QED
  BY <1>8, <1>9 DEF Lines

\* What there is of the lines' amounts and their shares of the discount.
IsPriced(c, lines) ==
    c # NoCoupon => c \in Coupons /\ Applicable(Offer[c], lines)

\* The shares are of the lines they are on, and add up.
LEMMA DiscountsAre ==
    ASSUME NEW lines \in Lines(Sellers), NEW c, IsPriced(c, lines)
    PROVE  /\ \A i \in 1..Len(lines) : LineDiscount(c, lines, i) \in 0..lines[i].amount
           /\ Total([i \in 1..Len(lines) |-> LineDiscount(c, lines, i)]) = OrderDiscount(c, lines)
<1> DEFINE n == Len(lines)
<1>1. n \in Nat /\ \A i \in 1..n : lines[i].amount \in Nat
  BY EligibleIs, LineOf
<1> HIDE DEF n
<1>2. IsFiniteSet(1..n)
  BY <1>1, FS_Interval
<1>3. CASE c = NoCoupon
  <2> DEFINE f == [i \in 1..n |-> 0]
  <2>1. f \in [1..n -> Int] /\ {} \in SUBSET (1..n) /\ \A i \in (1..n) \ {} : f[i] = 0
    OBVIOUS
  <2> HIDE DEF f
  <2>2. Total(f) = Total([i \in {} |-> f[i]])
    BY <1>2, <2>1, TotalOutside
  <2>3. Total([i \in {} |-> f[i]]) = 0
    <3> DEFINE e == [i \in {} |-> f[i]]
    <3>1. DOMAIN e = {} /\ e = [i \in {} |-> e[i]]
      OBVIOUS
    <3> HIDE DEF e
    <3>2. Total(e) = 0
      BY <3>1, TotalOfNothing
    <3> QED
      BY <3>2 DEF e
  <2>4. Total(f) = 0
    BY <2>2, <2>3
  <2> QED
    BY <1>1, <1>3, <2>4 DEF n, f, LineDiscount, OrderDiscount
<1>4. CASE c # NoCoupon
  <2> DEFINE offer == Offer[c]
             shares == LineDiscounts(offer, lines)
             parts == Parts(offer, lines)
  <2>1. IsOffer(offer) /\ Eligible(offer, lines) > 0
    BY <1>4, MarketAssumption DEF IsPriced, Applicable
  <2>2. /\ FairShares(shares, n, parts, Discount(offer, lines), Eligible(offer, lines))
        /\ Total(shares) = Discount(offer, lines)
    <3> HIDE DEF offer
    <3> QED
      BY <2>1, SharesAreFair DEF n
  <2>3. \A i \in 1..n : parts[i] \in 0..lines[i].amount
    <3> HIDE DEF offer
    <3>1. \A i \in 1..n : parts[i] = Part(offer, lines[i])
      BY EligibleIs DEF n
    <3> QED
      BY <3>1, LineOf DEF n
  <2> HIDE DEF parts, shares
  <2>4. \A i \in 1..n : shares[i] \in 0..lines[i].amount
    <3> SUFFICES ASSUME NEW i \in 1..n PROVE shares[i] \in 0..lines[i].amount
      OBVIOUS
    <3>1. shares[i] \in 0..parts[i]
      BY <2>2 DEF FairShares, FairShare
    <3> QED
      BY <1>1, <2>3, <3>1
  <2>5. shares = [i \in 1..n |-> shares[i]]
    BY <1>1, <2>2 DEF FairShares
  <2>6. \A i \in 1..n : LineDiscount(c, lines, i) = shares[i]
    BY <1>4 DEF LineDiscount, shares
  <2>7. OrderDiscount(c, lines) = Discount(offer, lines)
    BY <1>4 DEF OrderDiscount
  <2> HIDE DEF offer
  <2> QED
    BY <2>2, <2>4, <2>5, <2>6, <2>7 DEF n
<1> QED
  BY <1>3, <1>4

\* The shops' totals, c being the coupon.
Sold(c, lines) == [s \in Sellers |-> SellerTotal(c, lines, s)]

\* They add up to what the customer pays, and a shop without a line gets nothing.
LEMMA SoldAddsUp ==
    ASSUME NEW lines \in Lines(Sellers), NEW c, IsPriced(c, lines)
    PROVE  /\ Sold(c, lines) \in [Sellers -> Nat]
           /\ Total(Sold(c, lines)) = Subtotal(lines) - OrderDiscount(c, lines)
           /\ Subtotal(lines) \in Nat /\ OrderDiscount(c, lines) \in 0..Subtotal(lines)
           /\ \A s \in Sellers : (\A i \in 1..Len(lines) : lines[i].seller # s)
                                     => SellerTotal(c, lines, s) = 0
<1> DEFINE D == 1..Len(lines)
           amounts == [i \in D |-> lines[i].amount]
           less    == [i \in D |-> LineDiscount(c, lines, i)]
           net     == [i \in D |-> lines[i].amount - LineDiscount(c, lines, i)]
           shopOf  == [i \in D |-> lines[i].seller]
           Of(s)   == {i \in D : shopOf[i] = s}
           part(s) == [i \in Of(s) |-> net[i]]
<1>1. /\ Len(lines) \in Nat /\ DOMAIN lines = D
      /\ \A i \in D : lines[i].seller \in Sellers /\ lines[i].amount \in Nat
  BY EligibleIs, LineOf
<1>2. IsFiniteSet(D) /\ IsFiniteSet(Sellers)
  BY <1>1, FS_Interval, MarketAssumption
<1>3. /\ \A i \in D : LineDiscount(c, lines, i) \in 0..lines[i].amount
      /\ Total(less) = OrderDiscount(c, lines)
  BY DiscountsAre
<1>4. /\ amounts \in [D -> Int] /\ less \in [D -> Nat] /\ less \in [D -> Int] /\ net \in [D -> Nat] /\ net \in [D -> Int]
      /\ shopOf \in [D -> Sellers]
  <2> HIDE DEF D
  <2> QED
    BY <1>1, <1>3
<1>5. amounts = [i \in D |-> net[i] + less[i]]
  <2> HIDE DEF D
  <2> QED
    BY <1>1, <1>3
<1>6. Subtotal(lines) = Total(amounts)
  BY <1>1 DEF Subtotal
<1>7. ASSUME NEW s \in Sellers
      PROVE  SellerTotal(c, lines, s) = Total(part(s))
  <2>1. {j \in DOMAIN lines : lines[j].seller = s} = Of(s)
    BY <1>1
  <2>2. [i \in Of(s) |-> lines[i].amount - LineDiscount(c, lines, i)] = part(s)
    OBVIOUS
  <2> QED
    BY <2>1, <2>2 DEF SellerTotal
<1> HIDE DEF D, amounts, less, net, shopOf
<1>8. Total(amounts) = Total(net) + Total(less)
  BY <1>2, <1>4, <1>5, TotalPlus
<1>9. Total(net) \in Nat /\ Total(less) \in Nat
  BY <1>2, <1>4, TotalType
<1>10. ASSUME NEW s \in Sellers
       PROVE  SellerTotal(c, lines, s) \in Nat
  <2> DEFINE S == Of(s)
             f == part(s)
  <2>1. IsFiniteSet(S) /\ S \subseteq D
    BY <1>2, FS_Subset
  <2>2. f \in [S -> Nat] /\ f \in [S -> Int]
    <3> HIDE DEF S
    <3> QED
      BY <1>4, <2>1 DEF S
  <2> HIDE DEF S, f
  <2>3. Total(f) \in Nat
    BY <2>1, <2>2, TotalType
  <2> QED
    BY <1>7, <2>3 DEF f
<1>11. Total(Sold(c, lines)) = Total(net)
  <2>1. Sold(c, lines) = [s \in Sellers |-> Total(part(s))]
    BY <1>7 DEF Sold
  <2>2. Total([s \in Sellers |-> Total([i \in {j \in D : shopOf[j] = s} |-> net[i]])]) = Total(net)
    <3>1. IsFiniteSet(D) /\ IsFiniteSet(Sellers) /\ net \in [D -> Int] /\ shopOf \in [D -> Sellers]
      BY <1>2, <1>4
    <3> QED
      BY <3>1, TotalGrouped
  <2> QED
    BY <2>1, <2>2
<1>12. ASSUME NEW s \in Sellers, \A i \in 1..Len(lines) : lines[i].seller # s
       PROVE  SellerTotal(c, lines, s) = 0
  <2>1. Of(s) = {}
    BY <1>12 DEF D, shopOf
  <2> DEFINE f == part(s)
  <2>2. DOMAIN f = {} /\ f = [x \in {} |-> f[x]]
    BY <2>1
  <2> HIDE DEF f
  <2>3. Total(f) = 0
    BY <2>2, TotalOfNothing
  <2> QED
    BY <1>7, <2>3 DEF f
<1>13. Sold(c, lines) \in [Sellers -> Nat]
  BY <1>10 DEF Sold
<1>14. /\ Subtotal(lines) - OrderDiscount(c, lines) = Total(net)
       /\ Subtotal(lines) \in Nat /\ OrderDiscount(c, lines) \in 0..Subtotal(lines)
  BY <1>3, <1>6, <1>8, <1>9
<1> QED
  BY <1>11, <1>12, <1>13, <1>14

---------------------------------------------------------------------------
(* The totals of an order *)

\* What the row of an order says of its money: the shops' totals add up to the
\* amount, each covers its commission, and an online order costs something.
RowInv(row) ==
    /\ row.totals \in [Sellers -> Nat] /\ Total(row.totals) = row.amount
    /\ \A s \in Sellers : row.commission[s] \in 0..row.totals[s]
    /\ row.method = "sepay" => row.amount > 0

\* A checkout writes such a row, with totals of the selected shops alone.
LEMMA RowIsRight ==
    ASSUME IInv, NEW o \in Orders, NEW r \in CheckoutInputs, Checkout(o, r)
    PROVE  /\ RowInv(PlacedRow(r, CheckoutLines(r)))
           /\ \A s \in Sellers \ Shops(r) : PlacedRow(r, CheckoutLines(r)).totals[s] = 0
<1> DEFINE lines == CheckoutLines(r)
           row   == PlacedRow(r, lines)
           sold  == Sold(r.coupon, lines)
<1>1. lines \in Lines(Sellers) /\ \A i \in 1..Len(lines) : lines[i].seller \in Shops(r)
  BY LinesAre
<1>2. IsPriced(r.coupon, lines)
  BY InputAssumption DEF IsPriced, Checkout, Redeemable, Requests
<1>3. r.method = "sepay" => Subtotal(lines) > OrderDiscount(r.coupon, lines)
  BY DEF Checkout
<1>4. /\ row.totals = sold /\ row.amount = Subtotal(lines) - OrderDiscount(r.coupon, lines)
      /\ row.commission = [s \in Sellers |-> Commission(sold[s], CommissionRate[s])]
      /\ row.method = r.method
  BY DEF PlacedRow, Sold
<1> HIDE DEF lines, row
<1>5. /\ sold \in [Sellers -> Nat]
      /\ Total(sold) = Subtotal(lines) - OrderDiscount(r.coupon, lines)
      /\ Subtotal(lines) \in Nat /\ OrderDiscount(r.coupon, lines) \in 0..Subtotal(lines)
      /\ \A s \in Sellers : (\A i \in 1..Len(lines) : lines[i].seller # s)
                                => SellerTotal(r.coupon, lines, s) = 0
  BY <1>1, <1>2, SoldAddsUp
<1>6. \A s \in Sellers \ Shops(r) : sold[s] = 0
  BY <1>1, <1>5 DEF Sold
<1> HIDE DEF sold
<1>7. \A s \in Sellers : row.commission[s] \in 0..row.totals[s]
  <2> SUFFICES ASSUME NEW s \in Sellers PROVE row.commission[s] \in 0..row.totals[s]
    OBVIOUS
  <2>1. CommissionRate \in [Sellers -> Nat] /\ CommissionRate[s] <= 10000
    BY SMTT(30), MarketAssumption
  <2>2. sold[s] \in Nat /\ CommissionRate[s] \in Nat
    BY <1>5, <2>1
  <2> DEFINE total == sold[s]
             rate  == CommissionRate[s]
  <2>3. total \in Nat /\ rate \in Nat /\ rate <= 10000
    BY <2>1, <2>2
  <2> HIDE DEF total, rate
  <2>4. Commission(total, rate) \in 0..total
    BY <2>3, CommissionIsExact
  <2> QED
    BY <1>4, <2>4 DEF total, rate
<1>8. row.method = "sepay" => row.amount > 0
  <2> DEFINE a == Subtotal(lines)
             b == OrderDiscount(r.coupon, lines)
  <2>1. (r.method = "sepay" => a > b) /\ a \in Nat /\ b \in 0..a /\ row.amount = a - b
    BY <1>3, <1>4, <1>5
  <2> HIDE DEF a, b
  <2>2. r.method = "sepay" => row.amount > 0
    BY <2>1
  <2> QED
    BY <1>4, <2>2
<1>9. RowInv(row)
  BY <1>4, <1>5, <1>7, <1>8 DEF RowInv
<1> QED
  BY <1>4, <1>6, <1>9 DEF lines, row

\* The shops that take part in an order are those it was placed with.
LEMMA ChildrenKept ==
    ASSUME IInv, [Next]_vars, NEW o \in Placed
    PROVE  ChildrenOf(o)' = ChildrenOf(o)
<1>1. o \in Orders /\ orderStatus[o] # "none" /\ childStatus \in [Orders -> [Sellers -> ChildStatuses]]
  BY DEF Placed, IInv, TypeOK, OrderTypeOK
<1>2. CASE UNCHANGED childStatus
  BY <1>2 DEF ChildrenOf
<1>3. ASSUME NEW p \in Orders, NEW r \in CheckoutInputs, Checkout(p, r)
      PROVE  ChildrenOf(o)' = ChildrenOf(o)
  <2>1. p # o /\ \E row : childStatus' = [childStatus EXCEPT ![p] = row]
    BY <1>1, <1>3 DEF Checkout, PlaceOrder
  <2> QED
    BY <1>1, <2>1 DEF ChildrenOf
<1>4. ASSUME NEW p \in Orders, Cancel(p)
      PROVE  ChildrenOf(o)' = ChildrenOf(o)
  <2>1. childStatus' = [childStatus EXCEPT ![p] =
                           [s \in Sellers |-> IF s \in ChildrenOf(p) THEN "cancelled" ELSE "none"]]
    BY <1>4 DEF Cancel
  <2> QED
    BY <1>1, <2>1 DEF ChildrenOf
<1>5. ASSUME NEW p \in Orders, NEW s \in Sellers, NEW status, status # "none",
             childStatus[p][s] # "none",
             childStatus' = [childStatus EXCEPT ![p] = [childStatus[p] EXCEPT ![s] = status]]
      PROVE  ChildrenOf(o)' = ChildrenOf(o)
  BY <1>1, <1>5 DEF ChildrenOf
<1>6. ASSUME NEW p \in Orders, NEW s \in Sellers,
             NEW to \in {"confirmed", "shipping", "delivered"},
             NEW carrier \in {"external", "internal"}, Fulfill(p, s, to, carrier)
      PROVE  ChildrenOf(o)' = ChildrenOf(o)
  <2>1. /\ childStatus[p][s] # "none" /\ to # "none"
        /\ childStatus' = [childStatus EXCEPT ![p] = [childStatus[p] EXCEPT ![s] = to]]
    BY <1>6 DEF Fulfill, ChildrenOf
  <2> QED
    BY <1>5, <2>1
<1>7. ASSUME NEW p \in Orders, NEW s \in Sellers, NEW d \in Drivers,
             NEW to \in ShipmentStatuses, NEW collected \in BOOLEAN,
             UpdateShipment(p, s, d, to, collected)
      PROVE  ChildrenOf(o)' = ChildrenOf(o)
  <2>1. childStatus' = [childStatus EXCEPT ![p] = [childStatus[p] EXCEPT ![s] = ChildAfter(to)]]
    BY <1>7 DEF UpdateShipment, SyncOrder
  <2>2. childStatus[p][s] # "none"
    BY <1>7, Child DEF UpdateShipment, Transition, IInv, OrderInv, Parcels
  <2>3. ChildAfter(to) # "none"
    BY DEF ChildAfter
  <2> QED
    BY <1>5, <2>1, <2>2, <2>3
<1>8. ASSUME NEW p \in Orders, NEW s \in Sellers,
             CreateShipment(p, s) \/ Settle(p, s) \/ \E d \in Drivers : Assign(p, s, d)
      PROVE  UNCHANGED childStatus
  <2>1. CreateShipment(p, s) => UNCHANGED orderVars
    BY DEF CreateShipment
  <2>2. Settle(p, s) => UNCHANGED orderVars
    BY DEF Settle
  <2>3. (\E d \in Drivers : Assign(p, s, d)) => UNCHANGED orderVars
    BY DEF Assign
  <2> QED
    BY <1>8, <2>1, <2>2, <2>3 DEF orderVars
<1>9. CASE Shipping
  BY <1>2, <1>6, <1>7, <1>8, <1>9 DEF Shipping
<1>10. CASE Elsewhere \/ Paying
  <2>1. UNCHANGED childStatus
    BY <1>10, ElsewhereUntouched DEF Paying, Receive, orderVars
  <2> QED
    BY <1>2, <2>1
<1> QED
  BY <1>3, <1>4, <1>9, <1>10, Steps

\* Of an order, the totals are those of the shops that take part in it.
MoneyRow(o) ==
    o \in Placed => /\ RowInv(placed[o])
                    /\ \A s \in Sellers \ ChildrenOf(o) : placed[o].totals[s] = 0

\* Only checkout writes them.
LEMMA MoneyRowStep ==
    ASSUME IInv, [Next]_vars, NEW o \in Orders, MoneyRow(o)
    PROVE  MoneyRow(o)'
<1>1. CASE ~CheckoutStep
  <2>1. Placed' = Placed /\ UNCHANGED placed
    BY <1>1, RowsKept
  <2>2. o \in Placed => ChildrenOf(o)' = ChildrenOf(o)
    BY ChildrenKept
  <2> QED
    BY <2>1, <2>2 DEF MoneyRow, RowInv
<1>2. ASSUME NEW p \in Orders, NEW r \in CheckoutInputs, Checkout(p, r)
      PROVE  MoneyRow(o)'
  <2>1. Placed' = Placed \cup {p} /\ \A q \in Orders \ {p} : placed'[q] = placed[q]
    BY <1>2, RowAdded
  <2>2. CASE o # p
    <3>1. o \in Placed => ChildrenOf(o)' = ChildrenOf(o)
      BY ChildrenKept
    <3> QED
      BY <2>1, <2>2, <3>1 DEF MoneyRow, RowInv
  <2>3. CASE o = p
    <3> DEFINE row == PlacedRow(r, CheckoutLines(r))
    <3>1. placed'[p] = row
      BY <1>2 DEF Checkout, PlaceOrder, IInv, TypeOK, OrderTypeOK
    <3>2. RowInv(row) /\ \A s \in Sellers \ Shops(r) : row.totals[s] = 0
      BY <1>2, RowIsRight
    <3>3. childStatus'[p] = [s \in Sellers |-> IF s \in Shops(r) THEN "pending" ELSE "none"]
      BY <1>2 DEF Checkout, PlaceOrder, IInv, TypeOK, OrderTypeOK
    <3>4. \A s \in Sellers : s \in Shops(r) => s \in ChildrenOf(p)'
      BY <3>3 DEF ChildrenOf
    <3> HIDE DEF row
    <3> QED
      BY <2>3, <3>1, <3>2, <3>4 DEF MoneyRow, RowInv
  <2> QED
    BY <2>2, <2>3
<1> QED
  BY <1>1, <1>2 DEF CheckoutStep

\* In every state.
LEMMA MoneyRows == Spec => [](\A o \in Orders : MoneyRow(o))
<1> DEFINE Inv == \A o \in Orders : MoneyRow(o)
<1>1. Init => Inv
  BY DEF Init, Placed, MoneyRow
<1>2. IInv /\ Inv /\ [Next]_vars => Inv'
  BY MoneyRowStep
<1> HIDE DEF Inv
<1>3. Spec => []Inv
  BY <1>1, <1>2, Inductive, PTL DEF Spec
<1> QED
  BY <1>3 DEF Inv

\* The shops' totals of every order add up to what the customer pays.
THEOREM TotalsOfShops == Spec => []TotalsAddUp
<1>1. (\A o \in Orders : MoneyRow(o)) => TotalsAddUp
  <2> SUFFICES ASSUME NEW o \in Placed, RowInv(placed[o])
               PROVE  Total([s \in Sellers |-> placed[o].totals[s]]) = placed[o].amount
    BY DEF MoneyRow, RowInv, TotalsAddUp, Placed
  <2>1. placed[o].totals = [s \in Sellers |-> placed[o].totals[s]]
    BY DEF RowInv
  <2> QED
    BY <2>1 DEF RowInv
<1> QED
  BY <1>1, MoneyRows, PTL

---------------------------------------------------------------------------
(* Cash on delivery *)

\* A platform parcel collects its shop's total, and is settled only when it has
\* been delivered and its cash collected.
CashParcel(o, s) ==
    /\ Internal(o, s) /\ placed[o].method = "cod"
          => shipments[o][s].cod = placed[o].totals[s]
    /\ shipments[o][s].settled
          => Internal(o, s) /\ shipments[o][s].status = "delivered" /\ shipments[o][s].collected

\* The first half of CashAccounted, of one order.
CashPaid(o) ==
    o \in Placed /\ placed[o].method = "cod" =>
        (payStatus[o] = "paid" <=>
            /\ orderStatus[o] = "delivered"
            /\ HasInternal(o) => \A s \in ChildrenOf(o) : shipments[o][s].settled)

\* Of one order; inductive, together with IInv.
CashInv(o) == (\A s \in Sellers : CashParcel(o, s)) /\ CashPaid(o)

\* The cash of an order is about its own rows only.
LEMMA UntouchedCash ==
    ASSUME NEW o \in Orders, CashInv(o), Untouched(o)
    PROVE  CashInv(o)'
<1>1. \A s \in Sellers : CashParcel(o, s)'
  BY DEF CashInv, CashParcel, Internal, Untouched
<1>2. CashPaid(o)'
  <2>1. /\ ChildrenOf(o)' = ChildrenOf(o) /\ (HasInternal(o)' <=> HasInternal(o))
        /\ (o \in Placed') = (o \in Placed)
    BY DEF ChildrenOf, HasInternal, Placed, Untouched
  <2> QED
    BY <2>1 DEF CashInv, CashPaid, Untouched
<1> QED
  BY <1>1, <1>2 DEF CashInv

\* Until its last parcel is delivered, an order is not, and its cash not received.
LEMMA NotYet ==
    ASSUME IInv, NEW o \in Orders, NEW s \in Sellers, childStatus[o][s] \notin {"none", "delivered"}
    PROVE  orderStatus[o] # "delivered" /\ (placed[o].method = "cod" => payStatus[o] # "paid")
BY DEF IInv, OrderInv, Parent, Payment

\* An order without parcels that is not delivered has no cash to account for.
LEMMA CashOfNothing ==
    ASSUME IInv, IInv', NEW o \in Orders, UNCHANGED shipments,
           \A s \in Sellers : shipments[o][s] = NoShipment,
           orderStatus'[o] # "delivered"
    PROVE  CashInv(o)'
<1>1. ~NoShipment.settled /\ NoShipment.carrier # "internal"
  BY DEF NoShipment
<1>2. \A s \in Sellers : CashParcel(o, s)'
  BY <1>1 DEF CashParcel, Internal
<1>3. CashPaid(o)'
  BY DEF CashPaid, IInv, OrderInv, Payment
<1> QED
  BY <1>2, <1>3 DEF CashInv

\* A checkout adds no parcel.
LEMMA CashCheckout ==
    ASSUME IInv, IInv', \A p \in Orders : CashInv(p),
           NEW o \in Orders, NEW r \in CheckoutInputs, Checkout(o, r)
    PROVE  \A p \in Orders : CashInv(p)'
<1>1. /\ placed' = [placed EXCEPT ![o] = PlacedRow(r, CheckoutLines(r))]
      /\ orderStatus[o] = "none" /\ orderStatus' = [orderStatus EXCEPT ![o] = "pending"]
      /\ childStatus' = [childStatus EXCEPT ![o] =
                            [s \in Sellers |-> IF s \in Shops(r) THEN "pending" ELSE "none"]]
      /\ payStatus' = [payStatus EXCEPT ![o] = "pending"]
      /\ \E row : moved' = [moved EXCEPT ![o] = row]
      /\ UNCHANGED shipments
  BY DEF Checkout, PlaceOrder, TakeStock, fleetVars
<1>2. \A p \in Orders \ {o} : Untouched(p)
  BY <1>1 DEF IInv, TypeOK, OrderTypeOK, MoneyTypeOK, Untouched
<1>3. orderStatus'[o] = "pending" /\ \A s \in Sellers : shipments[o][s] = NoShipment
  BY <1>1 DEF IInv, TypeOK, OrderTypeOK, OrderInv, Unplaced
<1>4. CashInv(o)'
  BY <1>1, <1>3, CashOfNothing
<1> QED
  BY <1>2, <1>4, UntouchedCash

\* A cancellation finds none.
LEMMA CashCancel ==
    ASSUME IInv, IInv', \A p \in Orders : CashInv(p), NEW o \in Orders, Cancel(o)
    PROVE  \A p \in Orders : CashInv(p)'
<1>1. /\ orderStatus' = [orderStatus EXCEPT ![o] = "cancelled"]
      /\ \E row : childStatus' = [childStatus EXCEPT ![o] = row]
      /\ payStatus' = [payStatus EXCEPT ![o] = "cancelled"]
      /\ \E row : moved' = [moved EXCEPT ![o] = row]
      /\ UNCHANGED <<placed, shipments>>
  BY DEF Cancel, RestoreStock, fleetVars
<1>2. \A p \in Orders \ {o} : Untouched(p)
  BY <1>1 DEF IInv, TypeOK, OrderTypeOK, MoneyTypeOK, Untouched
<1>3. orderStatus'[o] = "cancelled"
  BY <1>1 DEF IInv, TypeOK, OrderTypeOK
<1>4. \A s \in Sellers : shipments[o][s] = NoShipment
  BY <1>1, <1>3 DEF IInv, OrderInv, Parent
<1>5. CashInv(o)'
  BY <1>1, <1>3, <1>4, CashOfNothing
<1> QED
  BY <1>2, <1>5, UntouchedCash

\* The webhook pays online orders only.
LEMMA CashReceive ==
    ASSUME IInv, \A p \in Orders : CashInv(p), NEW w \in Webhooks, Receive(w)
    PROVE  \A p \in Orders : CashInv(p)'
<1> SUFFICES ASSUME NEW o \in Orders PROVE CashInv(o)'
  OBVIOUS
<1>1. UNCHANGED <<placed, orderStatus, childStatus, shipments>>
  BY DEF Receive, orderVars, fleetVars
<1>2. placed[o].method = "cod" => payStatus'[o] = payStatus[o]
  BY DEF Receive, MarkPaid, ReceiptStatus, CanApply, Webhooks, IInv, TypeOK, MoneyTypeOK
<1>3. \A s \in Sellers : CashParcel(o, s)'
  BY <1>1 DEF CashInv, CashParcel, Internal
<1>4. CashPaid(o)'
  BY <1>1, <1>2 DEF CashInv, CashPaid, HasInternal, ChildrenOf, Placed
<1> QED
  BY <1>3, <1>4 DEF CashInv

\* Cash taken by a shop's own carrier is received with the last of its parcels.
LEMMA CashFulfill ==
    ASSUME IInv, IInv', \A p \in Orders : CashInv(p), NEW o \in Orders, NEW s \in Sellers,
           NEW to \in {"confirmed", "shipping", "delivered"},
           NEW carrier \in {"external", "internal"}, Fulfill(o, s, to, carrier)
    PROVE  \A p \in Orders : CashInv(p)'
<1> DEFINE parcel == [NoShipment EXCEPT !.carrier = carrier, !.status = "shipping"]
           arrived == [shipments[o][s] EXCEPT !.status = "delivered"]
           children == [childStatus[o] EXCEPT ![s] = to]
<1>1. /\ childStatus' = [childStatus EXCEPT ![o] = children]
      /\ orderStatus' = [orderStatus EXCEPT ![o] = ParentStatus(children)]
      /\ UNCHANGED <<placed, moved>>
  BY DEF Fulfill
<1>2. \/ to = "confirmed" /\ UNCHANGED shipments
      \/ /\ to = "shipping" /\ ~HasInternal(o) /\ Allowed(parcel)
         /\ shipments' = [shipments EXCEPT ![o][s] = parcel]
      \/ /\ to = "delivered" /\ shipments[o][s] # NoShipment
         /\ shipments' = [shipments EXCEPT ![o][s] = arrived]
  BY DEF Fulfill, IInv, TypeOK, FleetTypeOK
<1>3. IF ParentStatus(children) = "delivered" /\ placed[o].method = "cod" /\ ~HasInternal(o)
      THEN payStatus' = [payStatus EXCEPT ![o] = "paid"]
      ELSE UNCHANGED payStatus
  BY DEF Fulfill, PayOnDelivery
<1>4. /\ ~Internal(o, s) /\ childStatus[o][s] \in {"pending", "confirmed", "shipping"}
  BY DEF Fulfill, ValidTransition
<1>5. \A p \in Orders \ {o} : Untouched(p)
  BY <1>1, <1>2, <1>3 DEF IInv, TypeOK, OrderTypeOK, MoneyTypeOK, FleetTypeOK, Untouched
<1>6. \A q \in Sellers \ {s} : shipments'[o][q] = shipments[o][q]
  BY <1>2 DEF IInv, TypeOK, FleetTypeOK
<1>7. ~Internal(o, s)' /\ ~shipments'[o][s].settled
  <2>1. CASE UNCHANGED shipments
    BY <1>4, <2>1 DEF Internal, CashInv, CashParcel
  <2>2. CASE /\ Allowed(parcel) /\ shipments' = [shipments EXCEPT ![o][s] = parcel]
    <3>1. parcel.carrier = carrier /\ parcel.status = "shipping" /\ ~parcel.settled
      BY DEF NoShipment
    <3>2. carrier # "internal"
      BY <2>2, <3>1 DEF Allowed
    <3>3. shipments'[o][s] = parcel
      BY <2>2 DEF IInv, TypeOK, FleetTypeOK
    <3> HIDE DEF parcel
    <3> QED
      BY <3>1, <3>2, <3>3 DEF Internal
  <2>3. CASE shipments' = [shipments EXCEPT ![o][s] = arrived]
    <3>1. /\ arrived.carrier = shipments[o][s].carrier
          /\ arrived.settled = shipments[o][s].settled
      BY DEF IInv, TypeOK, FleetTypeOK, IsShipment, NoShipment
    <3>2. shipments'[o][s] = arrived
      BY <2>3 DEF IInv, TypeOK, FleetTypeOK
    <3> HIDE DEF arrived
    <3> QED
      BY <1>4, <3>1, <3>2 DEF Internal, CashInv, CashParcel
  <2> QED
    BY <1>2, <2>1, <2>2, <2>3
<1>8. HasInternal(o)' <=> HasInternal(o)
  BY <1>4, <1>6, <1>7 DEF HasInternal, Internal
<1>9. \A q \in Sellers : CashParcel(o, q)'
  BY <1>1, <1>6, <1>7 DEF CashInv, CashParcel, Internal
<1>10. /\ orderStatus'[o] = ParentStatus(children) /\ childStatus'[o] = children
       /\ children[s] = to
  BY <1>1 DEF IInv, TypeOK, OrderTypeOK
<1>11. placed[o].method = "cod" => payStatus[o] # "paid"
  BY <1>4, NotYet
<1>12. CashPaid(o)'
  <2>1. CASE HasInternal(o)
    <3>1. to = "confirmed"
      <4>1. to # "delivered"
        BY <1>2, <1>4, <2>1
           DEF IInv, OrderInv, OneCarrier, HasExternal, Internal, Parcels, TypeOK, FleetTypeOK,
               IsShipment
      <4> QED
        BY <1>2, <2>1, <4>1
    <3>2. orderStatus'[o] # "delivered"
      BY <1>10, <3>1 DEF ParentStatus
    <3>3. placed[o].method = "cod" => payStatus'[o] # "paid"
      BY <1>3, <1>11, <2>1
    <3> QED
      BY <1>1, <3>2, <3>3 DEF CashPaid
  <2>2. CASE ~HasInternal(o)
    <3>1. placed[o].method = "cod" =>
             (payStatus'[o] = "paid" <=> orderStatus'[o] = "delivered")
      BY <1>3, <1>10, <1>11, <2>2 DEF IInv, TypeOK, MoneyTypeOK
    <3> QED
      BY <1>1, <1>8, <2>2, <3>1 DEF CashPaid
  <2> QED
    BY <2>1, <2>2
<1> QED
  BY <1>5, <1>9, <1>12, UntouchedCash DEF CashInv

\* A platform parcel is to collect its shop's total.
LEMMA CashCreateShipment ==
    ASSUME IInv, IInv', \A p \in Orders : CashInv(p), NEW o \in Orders, NEW s \in Sellers,
           CreateShipment(o, s)
    PROVE  \A p \in Orders : CashInv(p)'
<1> DEFINE parcel == [NoShipment EXCEPT
                        !.carrier = "internal", !.status = "pending",
                        !.cod = IF placed[o].method = "cod" THEN placed[o].totals[s] ELSE 0]
<1>1. /\ shipments' = [shipments EXCEPT ![o][s] = parcel] /\ childStatus[o][s] = "confirmed"
      /\ UNCHANGED <<placed, moved, orderStatus, childStatus, payStatus>>
  BY DEF CreateShipment, orderVars, moneyVars
<1>2. /\ ~parcel.settled /\ (placed[o].method = "cod" => parcel.cod = placed[o].totals[s])
  BY DEF NoShipment
<1> HIDE DEF parcel
<1>3. /\ \A p \in Orders \ {o} : Untouched(p)
      /\ shipments'[o][s] = parcel /\ \A q \in Sellers \ {s} : shipments'[o][q] = shipments[o][q]
  BY <1>1 DEF IInv, TypeOK, FleetTypeOK, Untouched
<1>4. \A q \in Sellers : CashParcel(o, q)'
  BY <1>1, <1>2, <1>3 DEF CashInv, CashParcel, Internal
<1>5. CashPaid(o)'
  BY <1>1, NotYet DEF CashPaid
<1> QED
  BY <1>3, <1>4, <1>5, UntouchedCash DEF CashInv

\* The step writes to one parcel, and leaves its carrier and its cash alone.
SameCash(o, s) ==
    /\ \A p \in Orders \ {o} : shipments'[p] = shipments[p]
    /\ \A q \in Sellers \ {s} : shipments'[o][q] = shipments[o][q]
    /\ shipments'[o][s].carrier = shipments[o][s].carrier
    /\ shipments'[o][s].cod = shipments[o][s].cod
    /\ shipments'[o][s].settled = shipments[o][s].settled

\* An assignment leaves the cash of its parcel alone.
LEMMA AssignSameCash ==
    ASSUME IInv, NEW o \in Orders, NEW s \in Sellers, NEW d \in Drivers, Assign(o, s, d)
    PROVE  SameCash(o, s)
<1> DEFINE parcel == [shipments[o][s] EXCEPT !.driver = d, !.status = "assigned"]
<1>1. shipments' = [shipments EXCEPT ![o][s] = parcel]
  BY DEF Assign, IInv, TypeOK, FleetTypeOK
<1>2. /\ parcel.settled = shipments[o][s].settled /\ parcel.cod = shipments[o][s].cod
      /\ parcel.carrier = shipments[o][s].carrier
  BY DEF IInv, TypeOK, FleetTypeOK, IsShipment, NoShipment
<1> HIDE DEF parcel
<1> QED
  BY <1>1, <1>2 DEF IInv, TypeOK, FleetTypeOK, SameCash

\* A driver's report leaves the cash of its parcel alone.
LEMMA ReportSameCash ==
    ASSUME IInv, NEW o \in Orders, NEW s \in Sellers, NEW d \in Drivers,
           NEW to \in ShipmentStatuses, NEW collected \in BOOLEAN,
           UpdateShipment(o, s, d, to, collected)
    PROVE  SameCash(o, s)
<1> DEFINE parcel == [shipments[o][s] EXCEPT !.status = to, !.collected = collected]
<1>1. shipments' = [shipments EXCEPT ![o][s] = parcel]
  BY DEF UpdateShipment, IInv, TypeOK, FleetTypeOK
<1>2. /\ parcel.settled = shipments[o][s].settled /\ parcel.cod = shipments[o][s].cod
      /\ parcel.carrier = shipments[o][s].carrier
  BY DEF IInv, TypeOK, FleetTypeOK, IsShipment, NoShipment
<1> HIDE DEF parcel
<1> QED
  BY <1>1, <1>2 DEF IInv, TypeOK, FleetTypeOK, SameCash

\* The driver of a parcel changes before it is picked up.
LEMMA CashAssign ==
    ASSUME IInv, IInv', \A p \in Orders : CashInv(p), NEW o \in Orders, NEW s \in Sellers,
           NEW d \in Drivers, Assign(o, s, d)
    PROVE  \A p \in Orders : CashInv(p)'
<1>1. /\ shipments[o][s].status \in Assignable
      /\ UNCHANGED <<placed, moved, orderStatus, childStatus, payStatus>>
  BY DEF Assign, orderVars, moneyVars
<1>2. SameCash(o, s)
  BY AssignSameCash
<1>3. \A p \in Orders \ {o} : Untouched(p)
  BY <1>1, <1>2 DEF SameCash, Untouched
<1>4. ~shipments[o][s].settled
  BY <1>1 DEF CashInv, CashParcel, Assignable
<1>5. \A q \in Sellers : CashParcel(o, q)'
  BY <1>1, <1>2, <1>4 DEF SameCash, CashInv, CashParcel, Internal
<1>6. childStatus[o][s] = "confirmed"
  BY <1>1, Child DEF Assignable, IInv, OrderInv, Parcels
<1>7. CashPaid(o)'
  BY <1>1, <1>6, NotYet DEF CashPaid
<1> QED
  BY <1>3, <1>5, <1>7, UntouchedCash DEF CashInv

\* A driver's report pays nothing: the cash is still to be settled.
LEMMA CashUpdateShipment ==
    ASSUME IInv, IInv', \A p \in Orders : CashInv(p), NEW o \in Orders, NEW s \in Sellers,
           NEW d \in Drivers, NEW to \in ShipmentStatuses, NEW collected \in BOOLEAN,
           UpdateShipment(o, s, d, to, collected)
    PROVE  \A p \in Orders : CashInv(p)'
<1> DEFINE children == [childStatus[o] EXCEPT ![s] = ChildAfter(to)]
<1>1. /\ childStatus' = [childStatus EXCEPT ![o] = children]
      /\ orderStatus' = [orderStatus EXCEPT ![o] = ParentStatus(children)]
      /\ UNCHANGED <<placed, moved, payStatus>>
  <2>1. /\ childStatus' = [childStatus EXCEPT ![o] = children]
        /\ orderStatus' = [orderStatus EXCEPT ![o] = ParentStatus(children)]
    BY DEF UpdateShipment, SyncOrder
  <2> HIDE DEF children
  <2> QED
    BY <2>1 DEF UpdateShipment, moneyVars
<1>2. Internal(o, s) /\ Transition(shipments[o][s].status, to)
  BY DEF UpdateShipment, Serviceable
<1>3. SameCash(o, s)
  BY ReportSameCash
<1>4. children[s] = ChildAfter(to)
  BY DEF IInv, TypeOK, OrderTypeOK
<1> HIDE DEF children
<1>5. (\A p \in Orders \ {o} : Untouched(p)) /\ childStatus'[o] = children
  BY <1>1, <1>3 DEF IInv, TypeOK, OrderTypeOK, SameCash, Untouched
<1>6. ~shipments[o][s].settled
  BY <1>2 DEF CashInv, CashParcel, Transition
<1>7. \A q \in Sellers : CashParcel(o, q)'
  BY <1>1, <1>3, <1>6 DEF SameCash, CashInv, CashParcel, Internal
<1>8. childStatus[o][s] \in {"confirmed", "shipping"}
  BY <1>2, Child DEF Transition, IInv, OrderInv, Parcels
<1>9. placed[o].method = "cod" => payStatus[o] # "paid"
  BY <1>8, NotYet
<1>10. s \in ChildrenOf(o)' /\ HasInternal(o)' /\ ~shipments'[o][s].settled
  BY <1>2, <1>3, <1>4, <1>5, <1>6
     DEF SameCash, ChildrenOf, HasInternal, Internal, ChildAfter
<1>11. CashPaid(o)'
  BY <1>1, <1>9, <1>10 DEF CashPaid
<1> QED
  BY <1>5, <1>7, <1>11, UntouchedCash DEF CashInv

\* The last settlement completes the cash of its order.
LEMMA CashSettle ==
    ASSUME IInv, IInv', \A p \in Orders : CashInv(p), NEW o \in Orders, NEW s \in Sellers,
           Settle(o, s)
    PROVE  \A p \in Orders : CashInv(p)'
<1> DEFINE parcel == [shipments[o][s] EXCEPT !.settled = TRUE, !.collected = TRUE]
           rows   == [shipments[o] EXCEPT ![s].settled = TRUE, ![s].collected = TRUE]
           paid   == AllSettled(o, rows) /\ payStatus[o] = "pending"
<1>1. /\ shipments' = [shipments EXCEPT ![o] = rows]
      /\ payStatus' = [payStatus EXCEPT ![o] = IF paid THEN "paid" ELSE @]
      /\ UNCHANGED <<placed, moved, orderStatus, childStatus>>
      /\ placed[o].method = "cod"
  BY DEF Settle, orderVars
<1>2. /\ Internal(o, s) /\ shipments[o][s].status = "delivered" /\ ~shipments[o][s].settled
      /\ orderStatus[o] # "cancelled"
  BY DEF Settle, Serviceable
<1>3. /\ parcel.settled /\ parcel.collected /\ parcel.cod = shipments[o][s].cod
      /\ parcel.carrier = shipments[o][s].carrier /\ parcel.status = shipments[o][s].status
  BY DEF IInv, TypeOK, FleetTypeOK, IsShipment, NoShipment
<1>4. rows[s] = parcel /\ \A q \in Sellers \ {s} : rows[q] = shipments[o][q]
  BY DEF IInv, TypeOK, FleetTypeOK
<1> HIDE DEF parcel, rows, paid
<1>5. (\A p \in Orders \ {o} : Untouched(p)) /\ shipments'[o] = rows
  BY <1>1 DEF IInv, TypeOK, FleetTypeOK, MoneyTypeOK, Untouched
<1>6. \A q \in Sellers : CashParcel(o, q)'
  BY <1>1, <1>2, <1>3, <1>4, <1>5 DEF CashInv, CashParcel, Internal
<1>7. childStatus[o][s] = "delivered" /\ s \in ChildrenOf(o) /\ o \in Placed
  BY <1>2, Child, NoParcel DEF ChildrenOf, IInv, OrderInv, Parcels, Unplaced, Placed
<1>8. payStatus[o] # "paid"
  BY <1>1, <1>2, <1>7 DEF CashInv, CashPaid, HasInternal, Internal
<1>9. HasInternal(o)' /\ ChildrenOf(o)' = ChildrenOf(o)
  BY <1>1, <1>2, <1>3, <1>4, <1>5 DEF HasInternal, Internal, ChildrenOf
<1>10. AllSettled(o, rows) => orderStatus[o] = "delivered"
  <2>1. orderStatus[o] # "none"
    BY <1>2, NoParcel DEF IInv, OrderInv, Unplaced
  <2> QED
    BY <1>2, <1>7, <2>1
       DEF AllSettled, ChildrenOf, IInv, TypeOK, OrderTypeOK, OrderStatuses, OrderInv, Parent
<1>11. orderStatus[o] = "delivered" /\ (\A q \in ChildrenOf(o) : rows[q].settled)
          => AllSettled(o, rows)
  <2>1. \A q \in Sellers : rows[q].settled => rows[q].carrier = "internal"
    BY <1>5, <1>6 DEF CashParcel, Internal
  <2> QED
    BY <2>1 DEF AllSettled, ChildrenOf, IInv, OrderInv, Parent
<1>12. orderStatus[o] = "delivered" => payStatus[o] = "pending"
  BY <1>8 DEF IInv, TypeOK, MoneyTypeOK, PayStatuses, OrderInv, Payment
<1>13. payStatus'[o] = "paid" <=> paid
  BY <1>1, <1>8 DEF IInv, TypeOK, MoneyTypeOK
<1>14. AllSettled(o, rows) => \A q \in ChildrenOf(o) : rows[q].settled
  BY DEF AllSettled
<1>15. CashPaid(o)'
  BY <1>1, <1>5, <1>9, <1>10, <1>11, <1>12, <1>13, <1>14 DEF CashPaid, paid
<1> QED
  BY <1>5, <1>6, <1>15, UntouchedCash DEF CashInv

\* Every step keeps the cash of every order accounted for.
LEMMA CashStep ==
    ASSUME IInv, [Next]_vars, \A o \in Orders : CashInv(o)
    PROVE  \A o \in Orders : CashInv(o)'
<1>0. IInv'
  BY StepInv
<1>1. CASE Elsewhere
  BY <1>1, ElsewhereUntouched, UntouchedCash DEF Untouched, orderVars, moneyVars
<1>2. CASE \E o \in Orders, r \in CheckoutInputs : Checkout(o, r)
  BY <1>0, <1>2, CashCheckout
<1>3. CASE \E o \in Orders : Cancel(o)
  BY <1>0, <1>3, CashCancel
<1>4. CASE Paying
  BY <1>4, CashReceive DEF Paying
<1>5. CASE Shipping
  BY <1>0, <1>5, CashFulfill, CashCreateShipment, CashAssign, CashUpdateShipment, CashSettle
     DEF Shipping
<1> QED
  BY <1>1, <1>2, <1>3, <1>4, <1>5, Steps

\* What the drivers are to collect of an order is what the customer owes.
LEMMA CollectedIsOwed ==
    ASSUME NEW o \in Placed, MoneyRow(o), CashInv(o), placed[o].method = "cod",
           payStatus[o] = "paid", HasInternal(o)
    PROVE  /\ Total([s \in ChildrenOf(o) |-> shipments[o][s].cod]) = placed[o].amount
           /\ \A s \in ChildrenOf(o) : shipments[o][s].collected
<1> DEFINE totals == placed[o].totals
           S == ChildrenOf(o)
<1>1. \A s \in S : shipments[o][s].collected /\ shipments[o][s].cod = totals[s]
  BY DEF CashInv, CashPaid, CashParcel, ChildrenOf
<1>2. /\ totals \in [Sellers -> Nat] /\ totals \in [Sellers -> Int] /\ S \in SUBSET Sellers
      /\ \A s \in Sellers \ S : totals[s] = 0
      /\ Total(totals) = placed[o].amount
  BY DEF MoneyRow, RowInv, ChildrenOf
<1>3. IsFiniteSet(Sellers)
  BY SMTT(30), MarketAssumption
<1>4. [s \in S |-> shipments[o][s].cod] = [s \in S |-> totals[s]]
  BY <1>1
<1> HIDE DEF totals, S
<1>5. Total(totals) = Total([s \in S |-> totals[s]])
  BY <1>2, <1>3, TotalOutside
<1> QED
  BY <1>1, <1>2, <1>4, <1>5 DEF S

\* The cash of an order is recorded as received exactly when all of it is in.
THEOREM CashIsAccounted == Spec => []CashAccounted
<1> DEFINE Inv == \A o \in Orders : CashInv(o)
           Rows == \A o \in Orders : MoneyRow(o)
<1>1. Init => Inv
  <2> SUFFICES ASSUME Init, NEW o \in Orders PROVE CashInv(o)
    OBVIOUS
  <2>1. Placed = {} /\ \A s \in Sellers : shipments[o][s] = NoShipment
    BY DEF Init, Placed
  <2>2. ~NoShipment.settled /\ NoShipment.carrier # "internal"
    BY DEF NoShipment
  <2> QED
    BY <2>1, <2>2 DEF CashInv, CashPaid, CashParcel, Internal
<1>2. IInv /\ Inv /\ [Next]_vars => Inv'
  BY CashStep
<1>3. Inv /\ Rows => CashAccounted
  <2> SUFFICES ASSUME NEW o \in Placed, MoneyRow(o), CashInv(o), placed[o].method = "cod"
               PROVE  /\ payStatus[o] = "paid" <=>
                           /\ orderStatus[o] = "delivered"
                           /\ HasInternal(o) => \A s \in ChildrenOf(o) : shipments[o][s].settled
                      /\ payStatus[o] = "paid" /\ HasInternal(o) =>
                           /\ Total([s \in ChildrenOf(o) |-> shipments[o][s].cod])
                                 = placed[o].amount
                           /\ \A s \in ChildrenOf(o) : shipments[o][s].collected
    BY DEF CashAccounted, Placed
  <2> QED
    BY CollectedIsOwed DEF CashInv, CashPaid
<1>4. Spec => []Rows
  BY MoneyRows
<1> HIDE DEF Inv, Rows
<1> QED
  BY <1>1, <1>2, <1>3, <1>4, Inductive, PTL DEF Spec

=============================================================================
