---------------------------- MODULE DeliveryFlow ----------------------------
(***************************************************************************)
(* How a shop's part of an order reaches the customer. Either the shop     *)
(* ships it with a carrier of its own and reports the steps (Fulfill), or  *)
(* it asks for the platform's drivers (CreateShipment, Assign,             *)
(* UpdateShipment), who also collect the cash that an administrator later  *)
(* settles (Settle). One order never mixes the two.                        *)
(***************************************************************************)
EXTENDS Marketplace

HasInternal(o) == \E s \in Sellers : shipments[o][s].carrier = "internal"
HasExternal(o) == \E s \in Sellers : shipments[o][s].carrier = "external"

\* The CHECK constraint internal_shipment_state of the table. A shop names its
\* carrier freely, and nothing but this constraint keeps it from naming the
\* platform's.
Allowed(shipment) ==
    shipment.carrier = "internal" =>
        /\ shipment.status # "shipping"
        /\ shipment.status = "pending" \/ shipment.driver # NoDriver

---------------------------------------------------------------------------
(* The shop's own carrier *)

\* Mutant: a shop may ship without confirming.
ValidTransitionSkipping(from, to) ==
    <<from, to>> \in {<<"pending", "confirmed">>, <<"confirmed", "shipping">>,
                      <<"pending", "shipping">>, <<"shipping", "delivered">>}

ValidTransition(from, to) ==
    <<from, to>> \in {<<"pending", "confirmed">>, <<"confirmed", "shipping">>,
                      <<"shipping", "delivered">>}

\* Mutant: paid as soon as a parcel moves.
PayOnShipping(o, children) ==
    IF placed[o].method = "cod" /\ ~HasInternal(o)
    THEN payStatus' = [payStatus EXCEPT ![o] = "paid"]
    ELSE UNCHANGED payStatus

\* Cash is taken to be in when the last parcel of an order without platform
\* shipments is delivered. No event announces it.
PayOnDelivery(o, children) ==
    IF /\ ParentStatus(children) = "delivered"
       /\ placed[o].method = "cod"
       /\ ~HasInternal(o)
    THEN payStatus' = [payStatus EXCEPT ![o] = "paid"]
    ELSE UNCHANGED payStatus

Fulfill(o, s, to, carrier) ==
    LET children == [childStatus[o] EXCEPT ![s] = to]
        parcel   == [NoShipment EXCEPT !.carrier = carrier, !.status = "shipping"]
    IN
    /\ s \in ChildrenOf(o)
    /\ ~Internal(o, s)
    /\ to = "shipping" => ~HasInternal(o)
    /\ ValidTransition(childStatus[o][s], to)
    /\ orderStatus[o] # "cancelled"
    /\ Payable(o)
    /\ childStatus' = [childStatus EXCEPT ![o] = children]
    /\ \/ to = "confirmed" /\ UNCHANGED shipments
       \/ /\ to = "shipping" /\ shipments[o][s] = NoShipment /\ Allowed(parcel)
          /\ shipments' = [shipments EXCEPT ![o][s] = parcel]
       \/ /\ to = "delivered" /\ shipments[o][s] # NoShipment
          /\ shipments' = [shipments EXCEPT ![o][s].status = "delivered"]
    /\ PayOnDelivery(o, children)
    /\ orderStatus' = [orderStatus EXCEPT ![o] = ParentStatus(children)]
    /\ Enqueue({<<"order_status_changed", o, s, to>>})
    /\ UNCHANGED <<catalogVars, couponVars, placed, moved, receipts, driver>>

---------------------------------------------------------------------------
(* The platform's drivers *)

Apply(d) ==
    /\ driver[d] = "none"
    /\ driver' = [driver EXCEPT ![d] = "pending"]
    /\ UNCHANGED <<catalogVars, couponVars, orderVars, moneyVars, shipments, outbox>>

ApproveDriver(d, status) ==
    /\ driver[d] # "none"
    /\ driver' = [driver EXCEPT ![d] = status]
    /\ UNCHANGED <<catalogVars, couponVars, orderVars, moneyVars, shipments, outbox>>

CreateShipment(o, s) ==
    /\ s \in ChildrenOf(o)
    /\ shipments[o][s] = NoShipment
    /\ childStatus[o][s] = "confirmed"
    /\ orderStatus[o] # "cancelled"
    /\ ~HasExternal(o)
    /\ Payable(o)
    /\ shop[s] = "approved"
    /\ shipments' = [shipments EXCEPT ![o][s] =
                        [NoShipment EXCEPT
                           !.carrier = "internal", !.status = "pending",
                           !.cod = IF placed[o].method = "cod" THEN placed[o].totals[s] ELSE 0]]
    /\ Enqueue({<<"shipment_status_changed", o, s>>})
    /\ UNCHANGED <<catalogVars, couponVars, orderVars, moneyVars, driver>>

\* What every operation on a platform shipment checks first.
Serviceable(o, s) == Internal(o, s) /\ orderStatus[o] # "cancelled"

\* Mutant: a parcel on the road can be given to another driver.
AssignableOnTheRoad == {"pending", "assigned", "accepted", "picked_up"}

Assignable == {"pending", "assigned", "accepted"}

Assign(o, s, d) ==
    /\ Serviceable(o, s)
    /\ driver[d] = "approved"
    /\ shipments[o][s].status \in Assignable
    /\ shipments[o][s].driver # d
    /\ shipments' = [shipments EXCEPT ![o][s].driver = d, ![o][s].status = "assigned"]
    /\ Enqueue({<<"shipment_status_changed", o, s>>})
    /\ UNCHANGED <<catalogVars, couponVars, orderVars, moneyVars, driver>>

Transition(from, to) ==
    <<from, to>> \in {<<"assigned", "accepted">>, <<"accepted", "picked_up">>,
                      <<"picked_up", "delivering">>,
                      <<"delivering", "delivered">>, <<"delivering", "failed">>,
                      <<"failed", "delivering">>, <<"failed", "returned">>}

\* Mutant: accepting the job is shown as shipping.
ChildAfterAny(to) == IF to = "delivered" THEN "delivered" ELSE "shipping"

\* seller_orders.status after the driver reported "to".
ChildAfter(to) ==
    CASE to = "accepted"  -> "confirmed"
      [] to = "delivered" -> "delivered"
      [] OTHER            -> "shipping"

\* The parent follows its children; the payment does not.
SyncOrder(o, s, status) ==
    LET children == [childStatus[o] EXCEPT ![s] = status]
    IN  /\ childStatus' = [childStatus EXCEPT ![o] = children]
        /\ orderStatus' = [orderStatus EXCEPT ![o] = ParentStatus(children)]

\* The driver's confirmation of the cash goes with the report of the delivery,
\* exactly when there is cash to collect.
CashReported(shipment, to, collected) ==
    IF to = "delivered" THEN collected = (shipment.cod > 0) ELSE ~collected

UpdateShipment(o, s, d, to, collected) ==
    /\ Serviceable(o, s)
    /\ driver[d] = "approved"
    /\ shipments[o][s].driver = d
    /\ Transition(shipments[o][s].status, to)
    /\ Payable(o)
    /\ CashReported(shipments[o][s], to, collected)
    /\ shipments' = [shipments EXCEPT ![o][s].status = to,
                                       ![o][s].collected = collected]
    /\ SyncOrder(o, s, ChildAfter(to))
    /\ Enqueue({<<"shipment_status_changed", o, s>>})
    /\ UNCHANGED <<catalogVars, couponVars, placed, moved, moneyVars, driver>>

---------------------------------------------------------------------------
(* Cash settlement *)

\* Mutant: a child without a shipment is not waited for.
AllShipmentsSettled(o, rows) ==
    \A s \in ChildrenOf(o) : rows[s].carrier = "internal" => rows[s].settled

\* Whether the cash of every child is in, rows being the order's row of shipments.
AllSettled(o, rows) ==
    \A s \in ChildrenOf(o) :
        childStatus[o][s] = "delivered" /\ rows[s].carrier = "internal" /\ rows[s].settled

Settle(o, s) ==
    LET rows == [shipments[o] EXCEPT ![s].settled = TRUE, ![s].collected = TRUE]
        paid == AllSettled(o, rows) /\ payStatus[o] = "pending"
    IN
    /\ Serviceable(o, s)
    /\ placed[o].method = "cod"
    /\ shipments[o][s].status = "delivered"
    /\ shipments[o][s].collected \/ shipments[o][s].cod = 0
    /\ ~shipments[o][s].settled
    /\ shipments' = [shipments EXCEPT ![o] = rows]
    /\ payStatus' = [payStatus EXCEPT ![o] = IF paid THEN "paid" ELSE @]
    /\ Enqueue({<<"shipment_status_changed", o, s>>}
               \cup (IF paid THEN {<<"payment_succeeded", o>>} ELSE {}))
    /\ UNCHANGED <<catalogVars, couponVars, orderVars, receipts, driver>>

=============================================================================
