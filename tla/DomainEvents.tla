---------------------------- MODULE DomainEvents ----------------------------
(***************************************************************************)
(* The events the handlers write to the outbox, with what is in them, and  *)
(* what the notification service takes from an event. One that it cannot   *)
(* make sense of goes to the dead letters for good.                        *)
(***************************************************************************)
EXTENDS Integers

CONSTANTS Uuids, Nil \* the ids of rows, and uuid.Nil

ASSUME DomainAssumption == Nil \notin Uuids

\* The relay adds the version; id and time are the outbox row's own.
Envelope(type, aggregate, id, payload) ==
    [type |-> type, aggregate |-> aggregate, id |-> id, version |-> 1, payload |-> payload]

---------------------------------------------------------------------------
(* What recipient makes of an event. Other types are other consumers'.     *)

Header(e) == e.version = 1 /\ e.aggregate # "" /\ e.id # Nil

OrderCreated(p) ==
    p.order # Nil /\ p.user # Nil /\ p.total \in Nat /\ p.discount \in Nat /\ p.currency # ""

PaymentSucceeded(p) == p.order # Nil /\ p.user # Nil /\ p.amount \in Nat /\ p.method # ""

OrderStatusChanged(p) == p.order # Nil /\ p.user # Nil /\ p.status # ""

Understood(e) ==
    /\ Header(e)
    /\ e.type = "order_created"          => OrderCreated(e.payload)
    /\ e.type = "payment_succeeded"      => PaymentSucceeded(e.payload)
    /\ e.type = "order_status_changed"   => OrderStatusChanged(e.payload)
    /\ e.type = "product_search_updated" => e.aggregate = "product"
    /\ e.type = "inventory_changed"      => e.aggregate = "variant" /\ e.payload.delta \in Int
    /\ e.type = "review_search_updated"  => e.aggregate = "product" /\ e.payload.product = e.id
    /\ e.type = "seller_search_updated"  => e.aggregate = "seller"
    /\ e.type = "seller_status_changed"  =>
         e.aggregate = "seller" /\ e.payload.status \in {"approved", "rejected", "suspended"}

recipient(e) ==
    CASE ~Understood(e) -> "invalid"
      [] Understood(e) /\ e.type \in {"order_created", "payment_succeeded", "order_status_changed"} -> "notify"
      [] OTHER -> "skip"

---------------------------------------------------------------------------
(* What is raised. Amounts are checked not to be negative by the schema.   *)

Checkouts ==
    {Envelope("order_created", "order", p.order, p) :
       p \in [order : Uuids, user : Uuids, total : Nat, discount : Nat, currency : {"VND"}]}

Cancellations ==
    {Envelope("order_status_changed", "order", p.order, p) :
       p \in [order : Uuids, user : Uuids, status : {"cancelled"}]}

Fulfilments ==
    {Envelope("order_status_changed", "seller_order", c, p) :
       c \in Uuids,
       p \in [order : Uuids, user : Uuids, status : {"confirmed", "shipping", "delivered"}]}

PaidBy(method) == [order : Uuids, user : Uuids, amount : Nat, method : {method}]

Transfers == {Envelope("payment_succeeded", "payment", id, p) : id \in Uuids, p \in PaidBy("sepay")}

Settlements == {Envelope("payment_succeeded", "order", p.order, p) : p \in PaidBy("cod")}

Reviewed ==
    {Envelope("payment_reconciliation_required", "payment_webhook", r, [status |-> s]) :
       r \in Uuids, s \in {"requires_review", "unmatched"}}

Parcels == {Envelope("shipment_status_changed", "shipment", s, [order |-> c]) : s \in Uuids, c \in Uuids}

Products == {Envelope("product_search_updated", "product", p, [none |-> Nil]) : p \in Uuids}

Inventory == {Envelope("inventory_changed", "variant", v, [delta |-> d]) : v \in Uuids, d \in Int}

Reviews == {Envelope("review_search_updated", "product", p, [product |-> p]) : p \in Uuids}

ShopStatuses ==
    {Envelope("seller_status_changed", "seller", s, [status |-> t]) :
       s \in Uuids, t \in {"approved", "rejected", "suspended"}}

ShopChanges ==
    {Envelope(t, "seller", s, [none |-> Nil]) :
       s \in Uuids, t \in {"seller_search_updated", "seller_updated", "seller_member_updated"}}

ToCustomers == Checkouts \cup Cancellations \cup Fulfilments \cup Transfers \cup Settlements
ToOthers    == Reviewed \cup Parcels \cup Products \cup Inventory \cup Reviews
               \cup ShopStatuses \cup ShopChanges

=============================================================================
