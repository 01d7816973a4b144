----------------------------- MODULE RelayLease -----------------------------
(***************************************************************************)
(* How long a relay's claim holds. The relays of OutboxRelay, without any  *)
(* crash or failure, and a clock that records which of them have held      *)
(* their batch for over a minute.                                          *)
(***************************************************************************)
EXTENDS OutboxRelay

VARIABLE longHeld

leaseVars == <<topicVars, relayVars, longHeld>>

LeaseInit == TopicInit /\ RelayInit /\ longHeld = [r \in Relays |-> FALSE]

\* A minute after its claim, all rows a relay still holds were due over a minute
\* ago: available_at is never later than the claim.
ClaimAges(r) ==
    /\ batch[r] # <<>> /\ ~longHeld[r]
    /\ \A e \in Range(batch[r]) : age[e] = "old"
    /\ longHeld' = [longHeld EXCEPT ![r] = TRUE]
    /\ UNCHANGED <<relayVars, topicVars>>

LeaseNext ==
    \/ \E e \in EventIds : (Raise(e) \/ RowAges(e)) /\ UNCHANGED longHeld
    \/ \E r \in Relays : Claim(r) /\ longHeld' = [longHeld EXCEPT ![r] = FALSE]
    \/ \E r \in Relays : (Publish(r) \/ MarkPublished(r)) /\ UNCHANGED longHeld
    \/ \E r \in Relays : ClaimAges(r)

LeaseSpec == LeaseInit /\ [][LeaseNext]_leaseVars

\* "Recover claims left behind by a relay crash" (cmd/outbox-relay/main.go:56):
\* a relay takes rows over from another one only after that has been holding
\* them for over a minute. The code compares available_at, which the claim does
\* not renew: rows that waited for a minute before their claim, as after an
\* outage, are taken over at once from a relay that is at work on them.
OnlyLeftBehindIsRecovered ==
    [][\A r, other \in Relays :
          r # other /\ batch[r] = <<>> /\ Range(batch'[r]) \cap Range(batch[other]) # {}
             => longHeld[other]]_leaseVars

=============================================================================
