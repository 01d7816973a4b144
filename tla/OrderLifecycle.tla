--------------------------- MODULE OrderLifecycle ---------------------------
(***************************************************************************)
(* What a customer is promised of an order, whatever shops, drivers, the   *)
(* bank and the administrators do: it moves forward through its phases,    *)
(* it can be cancelled only before anybody works on it, an online order is *)
(* worked on only after it is paid, cash is due until delivery, and money  *)
(* once recorded as received stays recorded. Orders implements it.         *)
(***************************************************************************)
CONSTANTS Orders

VARIABLES
    phase,    \* "none", "pending", "processing", "delivered", "cancelled"
    money,    \* "none", "pending", "paid", "cancelled"
    method    \* "none", "cod", "sepay"

vars == <<phase, money, method>>

Init ==
    /\ phase = [o \in Orders |-> "none"]
    /\ money = [o \in Orders |-> "none"]
    /\ method = [o \in Orders |-> "none"]

Place(o, m) ==
    /\ phase[o] = "none"
    /\ phase' = [phase EXCEPT ![o] = "pending"]
    /\ money' = [money EXCEPT ![o] = "pending"]
    /\ method' = [method EXCEPT ![o] = m]

Cancel(o) ==
    /\ phase[o] = "pending" /\ money[o] = "pending"
    /\ phase' = [phase EXCEPT ![o] = "cancelled"]
    /\ money' = [money EXCEPT ![o] = "cancelled"]
    /\ UNCHANGED method

\* The bank reports the transfer of an order nobody has started on.
PayOnline(o) ==
    /\ method[o] = "sepay" /\ phase[o] = "pending" /\ money[o] = "pending"
    /\ money' = [money EXCEPT ![o] = "paid"]
    /\ UNCHANGED <<phase, method>>

\* A shop or a driver works on the order; the last delivery may bring the cash.
Advance(o, next) ==
    /\ phase[o] \in {"pending", "processing"}
    /\ method[o] = "sepay" => money[o] = "paid"
    /\ phase' = [phase EXCEPT ![o] = next]
    /\ \/ UNCHANGED money
       \/ /\ next = "delivered" /\ method[o] = "cod"
          /\ money' = [money EXCEPT ![o] = "paid"]
    /\ UNCHANGED method

\* The cash a driver collected is settled, some time after the delivery.
PayCash(o) ==
    /\ method[o] = "cod" /\ phase[o] = "delivered" /\ money[o] = "pending"
    /\ money' = [money EXCEPT ![o] = "paid"]
    /\ UNCHANGED <<phase, method>>

Next ==
    \E o \in Orders :
        \/ \E m \in {"cod", "sepay"} : Place(o, m)
        \/ Cancel(o)
        \/ PayOnline(o)
        \/ \E next \in {"processing", "delivered"} : Advance(o, next)
        \/ PayCash(o)

Spec == Init /\ [][Next]_vars

=============================================================================
