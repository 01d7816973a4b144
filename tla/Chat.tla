-------------------------------- MODULE Chat --------------------------------
(***************************************************************************)
(* One conversation of a buyer and a shop: sends, read positions and what  *)
(* is announced of them through the hub, and the clients, which are not in *)
(* the repository but are told how to recover: "history + per-conversation *)
(* sequence recovers gaps".                                                *)
(*                                                                         *)
(* A message's sequence is its place in messages. A frame is AuthOK, the   *)
(* sequence of a message, or Other: an ack, chat:read, chat:typing or a    *)
(* notification. req[c] is what a caller has under way: a device over its  *)
(* socket, anybody through the REST API and gRPC, the channel of Redis.    *)
(***************************************************************************)
EXTENDS Realtime, SequencesExt, FiniteSetsExt

CONSTANTS
    ClientIds,         \* values of clientMessageId
    PageSize,          \* limit of a page of the history
    MaxMessages, MaxOthers, MaxRequests, MaxFaults \* bounds: requests are those under way

Gateway == "gateway"
Redis == "redis"

ASSUME ChatAssumption ==
    /\ PageSize \in Nat \ {0} /\ MaxMessages \in Nat /\ MaxOthers \in Nat
    /\ Gateway \notin Devices /\ Redis \notin Devices

VARIABLES
    messages, \* what is committed, in the order of the sequence
    read,     \* the last sequence read, per user
    req,
    unannounced, \* messages whose announcement failed
    cursor,   \* of each device: it has the messages up to here
    syncing,  \* the devices that are asking for the history
    others, faults \* counters of the bounds

chatVars == <<hubVars, messages, read, req, unannounced, cursor, syncing, others, faults>>

Other == -1
Callers == Devices \cup {Gateway, Redis}
Users == {"buyer", "staff"}

\* A socket speaks for who is logged in on it, the REST API for anybody.
Speaks(c) == IF c \in Devices THEN {Owner(c)} ELSE Users

NoRequest == [step |-> "idle"]

ChatInit ==
    /\ RealtimeInit
    /\ messages = <<>>
    /\ read = [u \in Users |-> 0]
    /\ req = [c \in Callers |-> NoRequest]
    /\ unannounced = {}
    /\ cursor = [d \in Devices |-> 0]
    /\ syncing = {}
    /\ others = 0 /\ faults = 0

Fault == faults < MaxFaults /\ faults' = faults + 1

KeepChat == UNCHANGED <<messages, read, unannounced, cursor, syncing, others, faults>>

---------------------------------------------------------------------------
\* Send

\* Mutant: the conversation is read without a lock.
LockableAlways(d) == TRUE

\* The row of the conversation, locked until the transaction ends.
Lockable(d) == \A e \in Callers : req[e].step # "locked"

Same(m, u, id) == m.sender = u /\ m.id = id
Existing(u, id) == SelectInSeq(messages, LAMBDA m : Same(m, u, id))

\* Socket requests come one at a time from a greeted peer.
Slot(c) == req[c] = NoRequest /\ Cardinality({e \in Callers : req[e] # NoRequest}) < MaxRequests
Ready(c) == Slot(c) /\ (c \in Devices => phase[c] = "open" /\ c \in greeted)

Answer(outcome) == [step |-> "answer", outcome |-> outcome]
Announce(frame, users) == [step |-> "notify", frame |-> frame, to |-> users]

\* access, Existing and Insert, up to the commit. same: whether the body is
\* that of the message already sent with this id, if there is one.
SendMessage(d, u, id, same) ==
    /\ Ready(d) /\ u \in Speaks(d)
    /\ Lockable(d)
    /\ LET n == Existing(u, id) IN
       \/ /\ n # 0 /\ same
          /\ req' = [req EXCEPT ![d] = Announce(n, Users)]
       \/ /\ n # 0 /\ ~same
          /\ req' = [req EXCEPT ![d] = Answer("done")]
       \/ /\ n = 0 /\ Len(messages) < MaxMessages
          /\ req' = [req EXCEPT ![d] = [step |-> "locked", sequence |-> Len(messages) + 1,
                                        message |-> [sender |-> u, id |-> id]]]
    /\ KeepChat /\ UNCHANGED hubVars

\* The unique constraints of the table.
Insertable(d) ==
    /\ req[d].sequence = Len(messages) + 1
    /\ Existing(req[d].message.sender, req[d].message.id) = 0

Commit(d) ==
    /\ req[d].step = "locked"
    /\ IF Insertable(d)
       THEN /\ messages' = Append(messages, req[d].message)
            /\ req' = [req EXCEPT ![d] = Announce(@.sequence, Users)]
       ELSE /\ UNCHANGED messages
            /\ req' = [req EXCEPT ![d] = Answer("duplicate")]
    /\ UNCHANGED <<hubVars, read, unannounced, cursor, syncing, others, faults>>

\* The five seconds of a request, or the database.
Rollback(d) ==
    /\ req[d].step = "locked"
    /\ req' = [req EXCEPT ![d] = Answer("done")]
    /\ KeepChat /\ UNCHANGED hubVars

---------------------------------------------------------------------------
\* Read, Typing, and notifications forwarded from Redis.

More == others < MaxOthers /\ others' = others + 1

MarkRead(d, u, n) ==
    /\ Ready(d) /\ u \in Speaks(d) /\ More
    /\ Lockable(d) /\ n <= Len(messages)
    /\ read' = [read EXCEPT ![u] = Max({@, n})]
    /\ req' = [req EXCEPT ![d] = Announce(Other, Users)]
    /\ UNCHANGED <<hubVars, messages, unannounced, cursor, syncing, faults>>

Typing(d) ==
    /\ Ready(d) /\ More
    /\ req' = [req EXCEPT ![d] = Announce(Other, Users)]
    /\ UNCHANGED <<hubVars, messages, read, unannounced, cursor, syncing, faults>>

\* A message of the Redis channel, for one user; only the hub sees it.
Forward(u) ==
    /\ Slot(Redis) /\ More
    /\ req' = [req EXCEPT ![Redis] = Announce(Other, {u})]
    /\ UNCHANGED <<hubVars, messages, read, unannounced, cursor, syncing, faults>>

---------------------------------------------------------------------------
\* notify and the answer

\* Publish collects its targets under the hub's mutex and offers outside it.
Collect(d) ==
    /\ req[d].step = "notify"
    /\ req' = [req EXCEPT ![d] = [step |-> "offering", frame |-> @.frame, targets |-> Targets(@.to)]]
    /\ KeepChat /\ UNCHANGED hubVars

\* The recipients cannot be read: nothing is announced, the request succeeds.
NotifyFails(d) ==
    /\ req[d].step = "notify" /\ d # Redis /\ Fault
    /\ unannounced' = unannounced \cup ({req[d].frame} \ {Other})
    /\ req' = [req EXCEPT ![d] = Answer("done")]
    /\ UNCHANGED <<hubVars, messages, read, cursor, syncing, others>>

OfferNext(d) ==
    /\ req[d].step = "offering"
    /\ IF req[d].targets = {}
       THEN req' = [req EXCEPT ![d] = Answer("done")] /\ UNCHANGED hubVars
       ELSE \E e \in req[d].targets :
                Offer(e, req[d].frame) /\ req' = [req EXCEPT ![d].targets = @ \ {e}]
    /\ KeepChat

\* The ack of a socket; the result of a call.
Reply(d) ==
    /\ req[d].step = "answer"
    /\ req' = [req EXCEPT ![d] = NoRequest]
    /\ IF d \in Devices THEN Offer(d, Other) ELSE UNCHANGED hubVars
    /\ KeepChat

---------------------------------------------------------------------------
\* The clients, and the process

\* The writer's frame arrives: the next message is shown, a gap or a new
\* connection asks for the history, anything else is ignored.
Receive(d) ==
    /\ Send(d)
    /\ LET f == Head(queue[d]) IN
       /\ cursor' = IF f = cursor[d] + 1 THEN [cursor EXCEPT ![d] = f] ELSE cursor
       /\ syncing' = IF f = AuthOK \/ f \in (cursor[d] + 2)..MaxMessages
                     THEN syncing \cup {d} ELSE syncing
    /\ UNCHANGED <<messages, read, req, unannounced, others, faults>>

\* Service.Messages after a sequence, oldest first.
MessagesAfter(n) == SubSeq(messages, n + 1, Min({Len(messages), n + PageSize}))

\* A page at a time, until one is not full.
Fetch(d) ==
    /\ d \in syncing
    /\ LET page == MessagesAfter(cursor[d]) IN
       /\ cursor' = [cursor EXCEPT ![d] = @ + Len(page)]
       /\ syncing' = IF Len(page) = PageSize THEN syncing ELSE syncing \ {d}
    /\ UNCHANGED <<hubVars, messages, read, req, unannounced, others, faults>>

\* The handler of a socket returns when its request is done. To a publisher
\* that still has its peer among the targets, the peer stays a stopped one.
HandlerReturns(d) ==
    /\ Return(d)
    /\ req[d] = NoRequest
    /\ req' = [c \in Callers |-> IF req[c].step = "offering"
                                 THEN [req[c] EXCEPT !.targets = @ \ {d}] ELSE req[c]]
    /\ syncing' = syncing \ {d}
    /\ UNCHANGED <<messages, read, unannounced, cursor, others, faults>>

\* The process stops at any point and is started again.
Crash ==
    /\ Fault
    /\ Restart
    /\ req' = [c \in Callers |-> NoRequest]
    /\ syncing' = {}
    /\ UNCHANGED <<messages, read, unannounced, cursor, others>>

ServiceStep(d) == Commit(d) \/ Rollback(d)
CallerStep(c) == Collect(c) \/ NotifyFails(c) \/ OfferNext(c) \/ Reply(c)

ChatNext ==
    \/ \E d \in Devices :
        \/ (Connect(d) \/ Upgrade(d) \/ Authenticate(d) \/ Stop(d)) /\ KeepChat /\ UNCHANGED req
        \/ Typing(d)
        \/ Receive(d) \/ Fetch(d) \/ HandlerReturns(d)
    \/ \E c \in Callers \ {Redis} :
        \/ \E u \in Users, id \in ClientIds, same \in BOOLEAN : SendMessage(c, u, id, same)
        \/ \E u \in Users, n \in 0..MaxMessages : MarkRead(c, u, n)
        \/ ServiceStep(c)
    \/ \E c \in Callers : CallerStep(c)
    \/ \E u \in Users : Forward(u)
    \/ (Close \/ CloseReturns) /\ KeepChat /\ UNCHANGED req
    \/ Crash

\* Every step of the service itself goes on; no connection has to take a
\* frame, no client to do anything, and the writer's deadline is not used.
ChatFairness ==
    /\ \A d \in Devices :
        /\ WF_chatVars(HandlerReturns(d))
        /\ WF_chatVars(Upgrade(d) /\ KeepChat /\ UNCHANGED req)
    /\ \A c \in Callers : WF_chatVars(ServiceStep(c) \/ CallerStep(c))
    /\ WF_chatVars(CloseReturns /\ KeepChat /\ UNCHANGED req)

ChatSpec == ChatInit /\ [][ChatNext]_chatVars /\ ChatFairness

---------------------------------------------------------------------------

\* A message d is still to be sent: queued, or its announcement under way.
Coming(d, n) ==
    \/ \E i \in DOMAIN queue[d] : queue[d][i] = n
    \/ \E c \in Callers :
        \/ req[c].step = "notify" /\ req[c].frame = n
        \/ req[c].step = "offering" /\ req[c].frame = n /\ d \in req[c].targets

\* A client that has been greeted and has read the history since misses no
\* message while its connection lives, whatever order the announcements come
\* in, but for one whose recipients could not be read.
NothingMissed ==
    \A d \in Devices :
        phase[d] = "open" /\ d \in greeted /\ d \notin syncing
            /\ (\A i \in DOMAIN queue[d] : queue[d][i] # AuthOK)
        => \A n \in (cursor[d] + 1)..Len(messages) : Coming(d, n) \/ n \in unannounced

\* The same message sent again, at once or later, is the message sent before:
\* only another body is refused.
RepeatIsAnswered ==
    \A c \in Callers : req[c].step = "answer" => req[c].outcome # "duplicate"

\* No request, and no shutdown, waits for a connection that takes nothing.
NobodyWaitsForASlowClient ==
    /\ \A c \in Callers : req[c].step # "idle" ~> req[c].step = "idle"
    /\ hub = "closing" ~> hub # "closing"

=============================================================================
