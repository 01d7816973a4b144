---------------------------- MODULE OutboxRelay ----------------------------
(***************************************************************************)
(* The relay (cmd/outbox-relay) that carries outbox rows to the topic.     *)
(* Several may run. One claims a batch of due rows in a transaction, then, *)
(* outside of it, writes each to the topic and marks it published. A claim *)
(* carries no owner and no time of its own: a row is taken to be abandoned *)
(* when its available_at is more than a minute ago.                        *)
(***************************************************************************)
EXTENDS EventTopic, Sorting

CONSTANTS
    Relays,      \* relay processes
    BatchSize    \* rows a claim takes at most (50)

ASSUME RelayAssumption == BatchSize \in Nat \ {0}

VARIABLES
    row,         \* outbox_events.status, "none" before the insert
    age,         \* available_at against the clock: "later", "due", or "old"
                 \*   once it is more than a minute ago
    batch,       \* the claimed rows a relay has not finished, in order
    sent         \* whether the first of them is on the topic already

relayVars == <<row, age, batch, sent>>

RelayInit ==
    /\ row = [e \in EventIds |-> "none"]
    /\ age = [e \in EventIds |-> "due"]
    /\ batch = [r \in Relays |-> <<>>]
    /\ sent = [r \in Relays |-> FALSE]

\* The insert, committed with the transaction the event is about; these commit
\* in any order.
Raise(e) ==
    /\ row[e] = "none"
    /\ row' = [row EXCEPT ![e] = "pending"]
    /\ UNCHANGED <<age, batch, sent, topicVars>>

---------------------------------------------------------------------------

\* Mutant: what was claimed once is never looked at again.
NoneAbandoned == {}

Abandoned == {e \in EventIds : row[e] = "publishing" /\ age[e] = "old"}

Claimable == {e \in EventIds : row[e] = "pending" /\ age[e] # "later"} \cup Abandoned

Oldest(S) == SubSeq(Ascending(S), 1, Min({BatchSize, Cardinality(S)}))

\* Abandoned rows become pending and due; of all that are, the oldest are
\* claimed. The claim leaves available_at alone.
Claim(r) ==
    LET taken == Oldest(Claimable) IN
    /\ batch[r] = <<>> /\ Claimable # {}
    /\ batch' = [batch EXCEPT ![r] = taken]
    /\ row' = [e \in EventIds |-> IF e \in Range(taken) THEN "publishing"
                                  ELSE IF e \in Abandoned THEN "pending" ELSE row[e]]
    /\ age' = [e \in EventIds |-> IF e \in Abandoned THEN "due" ELSE age[e]]
    /\ UNCHANGED <<sent, topicVars>>

\* Mutant: the writer does not wait for the broker's acknowledgement.
WriteUnacknowledged(r) == log' \in {log, Append(log, Head(batch[r]))}

Write(r) == log' = Append(log, Head(batch[r]))

Publish(r) ==
    /\ batch[r] # <<>> /\ ~sent[r]
    /\ Write(r)
    /\ sent' = [sent EXCEPT ![r] = TRUE]
    /\ UNCHANGED <<row, age, batch, faults>>

MarkPublished(r) ==
    /\ sent[r]
    /\ row' = [row EXCEPT ![Head(batch[r])] = "published"]
    /\ batch' = [batch EXCEPT ![r] = Tail(@)]
    /\ sent' = [sent EXCEPT ![r] = FALSE]
    /\ UNCHANGED <<age, topicVars>>

\* The write is reported to have failed, whether or not it reached the topic:
\* the row is due again in a second, whatever became of it meanwhile, and the
\* rest of the batch stays as claimed.
PublishFails(r) ==
    /\ Fault
    /\ batch[r] # <<>> /\ ~sent[r]
    /\ log' \in {log, Append(log, Head(batch[r]))}
    /\ row' = [row EXCEPT ![Head(batch[r])] = "pending"]
    /\ age' = [age EXCEPT ![Head(batch[r])] = "later"]
    /\ batch' = [batch EXCEPT ![r] = <<>>]
    /\ UNCHANGED sent

\* The process stops, or an update of a row fails and the batch is given up.
RelayCrash(r) ==
    /\ Fault
    /\ batch[r] # <<>>
    /\ batch' = [batch EXCEPT ![r] = <<>>]
    /\ sent' = [sent EXCEPT ![r] = FALSE]
    /\ UNCHANGED <<row, age, log>>

---------------------------------------------------------------------------
(* Time *)

\* The clock passes available_at, later available_at plus a minute.
RowAges(e) ==
    /\ row[e] \in {"pending", "publishing"} /\ age[e] # "old"
    /\ age' = [age EXCEPT ![e] = IF @ = "later" THEN "due" ELSE "old"]
    /\ UNCHANGED <<row, batch, sent, topicVars>>

RelayStep(r) == Claim(r) \/ Publish(r) \/ MarkPublished(r)

=============================================================================
