--------------------------- MODULE EventPipeline ---------------------------
(***************************************************************************)
(* From the outbox to the customer: relays, topic and consumer together.   *)
(***************************************************************************)
EXTENDS OutboxRelay, NotificationConsumer

vars == <<topicVars, relayVars, consumerVars>>

Init == TopicInit /\ RelayInit /\ ConsumerInit

Relaying ==
    \/ \E e \in EventIds : Raise(e) \/ RowAges(e)
    \/ \E r \in Relays : RelayStep(r) \/ PublishFails(r) \/ RelayCrash(r)

Next ==
    \/ Relaying /\ UNCHANGED consumerVars
    \/ (ConsumerStep \/ ConsumerCrash) /\ UNCHANGED relayVars

\* The loops of the relays and of the consumer go on, and so does the clock.
\* Nothing is assumed of transactions, crashes and failures.
Fairness ==
    /\ \A r \in Relays : WF_vars(RelayStep(r) /\ UNCHANGED consumerVars)
    /\ \A e \in EventIds : WF_vars(RowAges(e) /\ UNCHANGED consumerVars)
    /\ WF_vars(ConsumerStep /\ UNCHANGED relayVars)

Spec == Init /\ [][Next]_vars /\ Fairness

---------------------------------------------------------------------------

\* A row is marked published only when it is on the topic, whoever wrote it and
\* whatever relay crashed, failed or was overtaken: no event is dropped there.
PublishedIsOnTopic ==
    \A e \in EventIds : row[e] = "published" => e \in Range(log)

\* The consumer moves past a message only when it is done with it, in spite of
\* crashes at any point.
CommittedIsHandled ==
    \A i \in 1..committed :
        /\ Kind[log[i]] = "notify" => log[i] \in notified
        /\ Kind[log[i]] = "invalid" => log[i] \in dead

\* However often an event is on the topic or delivered from it, the customer's
\* connections see it at most once, and never before it is stored.
PushedAtMostOnce ==
    \A e \in EventIds : pushes[e] <= 1 /\ (pushes[e] = 1 => e \in notified)

Delivery == INSTANCE EventDelivery WITH raised <- {e \in EventIds : row[e] # "none"}

\* Every event a transaction raised is dealt with, once, though relays and the
\* consumer crash between any two steps and messages are duplicated.
EveryEventDelivered == Delivery!Spec

=============================================================================
