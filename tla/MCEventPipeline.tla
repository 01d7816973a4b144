--------------------------- MODULE MCEventPipeline --------------------------
(***************************************************************************)
(* One event to notify of and one the service rejects, and two relays.     *)
(***************************************************************************)
EXTENDS EventPipeline, DomainEvents

\* The cancellation of an order, with the customer and without.
MCEvent(e) ==
    LET id == CHOOSE u \in Uuids : TRUE
        user == IF e = 1 THEN id ELSE Nil
    IN  Envelope("order_status_changed", "order", id, [order |-> id, user |-> user, status |-> "cancelled"])

MCKind == [e \in EventIds |-> recipient(MCEvent(e))]

=============================================================================
