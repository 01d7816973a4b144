--------------------------- MODULE EventDelivery ---------------------------
(***************************************************************************)
(* What the producers of events rely on: every event that a transaction    *)
(* raised is eventually dealt with, exactly once: it becomes the one       *)
(* notification of its event id, or goes to the dead letters.              *)
(***************************************************************************)
CONSTANTS EventIds, Kind

VARIABLES raised, notified, dead

vars == <<raised, notified, dead>>

Init == raised = {} /\ notified = {} /\ dead = {}

Raise(e) ==
    /\ e \notin raised
    /\ raised' = raised \cup {e}
    /\ UNCHANGED <<notified, dead>>

Notify(e) ==
    /\ e \in raised \ notified /\ Kind[e] = "notify"
    /\ notified' = notified \cup {e}
    /\ UNCHANGED <<raised, dead>>

Bury(e) ==
    /\ e \in raised \ dead /\ Kind[e] = "invalid"
    /\ dead' = dead \cup {e}
    /\ UNCHANGED <<raised, notified>>

Next == \E e \in EventIds : Raise(e) \/ Notify(e) \/ Bury(e)

Spec ==
    /\ Init /\ [][Next]_vars
    /\ \A e \in EventIds : WF_vars(Notify(e)) /\ WF_vars(Bury(e))

=============================================================================
