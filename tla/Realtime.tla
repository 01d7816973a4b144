------------------------------ MODULE Realtime ------------------------------
(***************************************************************************)
(* The hub of WebSocket connections: one handler, one bounded queue and    *)
(* one writer per connection. What a connection is used for is up to the   *)
(* module that extends this one; a frame is anything put in a queue.       *)
(*                                                                         *)
(* phase of a device's connection: none, pending (counted while the        *)
(* handshake runs), open (among the peers), stopped (closed, its handler   *)
(* has still to return). A peer is greeted once it is authenticated: from  *)
(* then on it has a user and is sent what is published for that user.      *)
(***************************************************************************)
EXTENDS Integers, FiniteSets, Sequences

CONSTANTS
    BuyerDevices, \* devices that connect with a token of the buyer
    StaffDevices, \* and of a member of the shop
    MaxConnections, MaxUserConnections, QueueSize

Devices == BuyerDevices \cup StaffDevices

ASSUME RealtimeAssumption ==
    /\ IsFiniteSet(BuyerDevices) /\ IsFiniteSet(StaffDevices)
    /\ BuyerDevices \cap StaffDevices = {}
    /\ MaxConnections \in Nat /\ MaxUserConnections \in Nat /\ QueueSize \in Nat \ {0}

VARIABLES
    hub,     \* open, closing or closed
    phase,   \* of each device's connection
    greeted, \* the devices whose connection has a user
    queue    \* the frames its writer has still to send

hubVars == <<hub, phase, greeted, queue>>

AuthOK == 0 \* the frame auth:ok

Owner(d) == IF d \in BuyerDevices THEN "buyer" ELSE "staff"
In(ph) == {d \in Devices : phase[d] = ph}
Peers == In("open") \cup In("stopped")

RealtimeInit ==
    /\ hub = "open"
    /\ phase = [d \in Devices |-> "none"]
    /\ greeted = {}
    /\ queue = [d \in Devices |-> <<>>]

---------------------------------------------------------------------------

\* Mutant: handshakes under way are forgotten.
RoomAmongPeers == Cardinality(Peers) < MaxConnections

\* Handshakes under way count, too.
Room == Cardinality(In("pending")) + Cardinality(Peers) < MaxConnections

Connect(d) ==
    /\ phase[d] = "none" /\ hub = "open" /\ Room
    /\ phase' = [phase EXCEPT ![d] = "pending"]
    /\ UNCHANGED <<hub, greeted, queue>>

\* The handshake fails, or the hub was closed meanwhile, or there is a new peer.
Upgrade(d) ==
    /\ phase[d] = "pending"
    /\ \/ phase' = [phase EXCEPT ![d] = "none"]
       \/ hub = "open" /\ phase' = [phase EXCEPT ![d] = "open"]
    /\ UNCHANGED <<hub, greeted, queue>>

SameUser(d) == {e \in Peers \cap greeted : Owner(e) = Owner(d)}

UserRoom(d) == Cardinality(SameUser(d)) < MaxUserConnections

\* The first frame holds a good token of an active user. The greeting is
\* queued in the same critical section that makes the peer a target.
Authenticate(d) ==
    /\ phase[d] = "open" /\ d \notin greeted
    /\ hub = "open" /\ UserRoom(d)
    /\ queue' = [queue EXCEPT ![d] = <<AuthOK>>]
    /\ greeted' = greeted \cup {d}
    /\ UNCHANGED <<hub, phase>>

\* No first frame in time, a bad token, the limit of the user; later on a
\* token that expires, a ping or a write that fails, a client that leaves.
Stop(d) ==
    /\ phase[d] = "open"
    /\ phase' = [phase EXCEPT ![d] = "stopped"]
    /\ UNCHANGED <<hub, greeted, queue>>

\* The handler returns, after its writer.
Return(d) ==
    /\ phase[d] = "stopped"
    /\ phase' = [phase EXCEPT ![d] = "none"]
    /\ greeted' = greeted \ {d}
    /\ queue' = [queue EXCEPT ![d] = <<>>]
    /\ UNCHANGED hub

\* Mutant: what a full queue has no room for is dropped.
OfferDropping(d, frame) ==
    /\ queue' = IF phase[d] = "open" /\ Len(queue[d]) < QueueSize
                THEN [queue EXCEPT ![d] = Append(@, frame)] ELSE queue
    /\ UNCHANGED <<hub, phase, greeted>>

\* Mutant: the publisher waits for room.
OfferWaiting(d, frame) ==
    /\ phase[d] = "open" => Len(queue[d]) < QueueSize
    /\ queue' = IF phase[d] = "open" THEN [queue EXCEPT ![d] = Append(@, frame)] ELSE queue
    /\ UNCHANGED <<hub, phase, greeted>>

\* What is offered to a full queue stops the connection; nobody waits for it.
Offer(d, frame) ==
    /\ IF phase[d] = "open" /\ Len(queue[d]) < QueueSize
       THEN queue' = [queue EXCEPT ![d] = Append(@, frame)] ELSE UNCHANGED queue
    /\ IF phase[d] = "open" /\ Len(queue[d]) >= QueueSize
       THEN phase' = [phase EXCEPT ![d] = "stopped"] ELSE UNCHANGED phase
    /\ UNCHANGED <<hub, greeted>>

\* The writer sends the first frame.
Send(d) ==
    /\ phase[d] = "open" /\ queue[d] # <<>>
    /\ queue' = [queue EXCEPT ![d] = Tail(@)]
    /\ UNCHANGED <<hub, phase, greeted>>

\* The peers that an event for these users goes to.
Targets(users) == {d \in Peers \cap greeted : Owner(d) \in users}

\* Connections may stop at any time, so stopping all of them at once hides
\* no order in which Close stops them.
Close ==
    /\ hub = "open"
    /\ hub' = "closing"
    /\ phase' = [d \in Devices |-> IF phase[d] = "open" THEN "stopped" ELSE phase[d]]
    /\ UNCHANGED <<greeted, queue>>

\* It waits for the handlers.
CloseReturns ==
    /\ hub = "closing" /\ \A d \in Devices : phase[d] = "none"
    /\ hub' = "closed"
    /\ UNCHANGED <<phase, greeted, queue>>

\* The process stops at any point and is started again.
Restart ==
    /\ hub' = "open"
    /\ phase' = [d \in Devices |-> "none"]
    /\ greeted' = {}
    /\ queue' = [d \in Devices |-> <<>>]

RealtimeNext ==
    \/ \E d \in Devices :
        \/ Connect(d) \/ Upgrade(d) \/ Authenticate(d)
        \/ Stop(d) \/ Return(d) \/ Send(d)
        \/ d \in greeted /\ Offer(d, AuthOK + 1) \* any frame: the hub does not look at it
    \/ Close \/ CloseReturns \/ Restart

RealtimeSpec == RealtimeInit /\ [][RealtimeNext]_hubVars

---------------------------------------------------------------------------

\* Connections, with handshakes and handlers still returning, and those of a
\* user stay within their limits and queues within theirs; the greeting finds
\* an empty queue: it never waits for room while it holds the mutex.
HubWithinLimits ==
    /\ Cardinality({d \in Devices : phase[d] # "none"}) <= MaxConnections
    /\ \A d \in Devices : Cardinality(SameUser(d)) <= MaxUserConnections
    /\ \A d \in Devices : Len(queue[d]) <= QueueSize
    /\ \A d \in Devices : d \notin greeted => queue[d] = <<>>

=============================================================================
