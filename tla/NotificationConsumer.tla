------------------------ MODULE NotificationConsumer ------------------------
(***************************************************************************)
(* The notification service's consumer (internal/modules/notification): it *)
(* takes the messages of its partition one by one, stores the notification *)
(* of an event once, pushes it to the customer's open connections, and     *)
(* commits the offset. What it was doing is lost when it stops; it starts  *)
(* again after the last committed offset.                                  *)
(***************************************************************************)
EXTENDS EventTopic

CONSTANT Kind    \* what an event is to the service: "notify", "skip" or "invalid"

ASSUME ConsumerAssumption == Kind \in [EventIds -> {"notify", "skip", "invalid"}]

VARIABLES
    committed,      \* the group's committed offset
    current,        \* the offset of the message being processed, 0 when none
    stage,          \* "handle", "push" or "commit", of that message
    notified,       \* event_id of the stored notifications
    pushes,         \* how often an event was pushed to connections
    dead            \* events on the dead-letter topic

consumerVars == <<committed, current, stage, notified, pushes, dead>>

ConsumerInit ==
    /\ committed = 0 /\ current = 0 /\ stage = "handle"
    /\ notified = {} /\ dead = {}
    /\ pushes = [e \in EventIds |-> 0]

More == committed < Len(log)

\* Mutant: the offset is committed when the message is fetched.
FetchCommitting ==
    /\ current = 0 /\ More
    /\ current' = committed + 1 /\ committed' = committed + 1
    /\ stage' = "handle"
    /\ UNCHANGED <<notified, pushes, dead, topicVars>>

Fetch ==
    /\ current = 0 /\ More
    /\ current' = committed + 1
    /\ stage' = "handle"
    /\ UNCHANGED <<committed, notified, pushes, dead, topicVars>>

\* Mutant: a notification stored before counts as created.
StoreAlways(e) ==
    /\ notified' = notified \cup {e}
    /\ stage' = "push"

\* INSERT ... ON CONFLICT (event_id) DO NOTHING, and whether it created a row.
Store(e) ==
    /\ notified' = notified \cup {e}
    /\ stage' = IF e \in notified THEN "commit" ELSE "push"

\* A call that fails is retried for as long as it takes, so only its success is
\* a step. An invalid event is put on the dead-letter topic, again until it is.
Handle ==
    LET e == log[current] IN
    /\ current # 0 /\ stage = "handle"
    /\ \/ Kind[e] = "notify" /\ Store(e) /\ UNCHANGED dead
       \/ /\ Kind[e] # "notify" /\ stage' = "commit" /\ UNCHANGED notified
          /\ dead' = IF Kind[e] = "invalid" THEN dead \cup {e} ELSE dead
    /\ UNCHANGED <<committed, current, pushes, topicVars>>

\* The push may fail; that is logged and not retried.
Push ==
    /\ current # 0 /\ stage = "push"
    /\ pushes' \in {pushes, [pushes EXCEPT ![log[current]] = @ + 1]}
    /\ stage' = "commit"
    /\ UNCHANGED <<committed, current, notified, dead, topicVars>>

Commit ==
    /\ current # 0 /\ stage = "commit"
    /\ committed' = current
    /\ current' = 0
    /\ UNCHANGED <<stage, notified, pushes, dead, topicVars>>

ConsumerCrash ==
    /\ Fault
    /\ current # 0
    /\ current' = 0
    /\ UNCHANGED <<committed, stage, notified, pushes, dead, log>>

ConsumerStep == Fetch \/ Handle \/ Push \/ Commit

=============================================================================
