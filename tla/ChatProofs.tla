----------------------------- MODULE ChatProofs -----------------------------
(***************************************************************************)
(* The hub of connections and the conversation behind it, for any number   *)
(* of devices, users and messages and any limits. For the hub the          *)
(* inductive invariant adds that only peers are greeted: the set whose     *)
(* size is limited then grows by the device that is admitted, after the    *)
(* count that admitted it. For the conversation it adds that a draft holds *)
(* the only lock, with the next sequence and an id not yet used, so that   *)
(* the unique constraints never refuse it, and that a message is           *)
(* unannounced, with a caller who announces it, or in the queue of every   *)
(* device that listens and does not have it.                               *)
(***************************************************************************)
EXTENDS Chat, FiniteSetTheorems, WellFoundedInduction, TLAPS

-----------------------------------------------------------------------------
(* The hub *)

HubType ==
    /\ hub \in {"open", "closing", "closed"}
    /\ phase \in [Devices -> {"none", "pending", "open", "stopped"}]
    /\ greeted \subseteq Peers
    /\ queue \in [Devices -> Seq(Int)]

HubInv == HubType /\ HubWithinLimits

Counted == {d \in Devices : phase[d] # "none"}

\* The hub has peers and forwarders, finitely many.
LEMMA FiniteDevices == IsFiniteSet(Devices)
  BY RealtimeAssumption, FS_Union DEF Devices

\* A subset is not larger than the set.
LEMMA NotMore ==
  ASSUME NEW S, NEW T, S \subseteq T, T \subseteq Devices
  PROVE  /\ Cardinality(S) \in Nat /\ Cardinality(T) \in Nat
         /\ Cardinality(S) <= Cardinality(T)
  BY FiniteDevices, FS_Subset, FS_CardinalityType

\* One more device is at most one more in number.
LEMMA OneMore ==
  ASSUME NEW S, S \subseteq Devices, NEW d \in Devices
  PROVE  Cardinality(S \cup {d}) <= Cardinality(S) + 1
  BY FiniteDevices, FS_Subset, FS_AddElement, FS_CardinalityType

\* What Room adds up is the number of connections.
LEMMA RoomCounts ==
  ASSUME HubType
  PROVE  Cardinality(In("pending")) + Cardinality(Peers) = Cardinality(Counted)
<1>1. In("pending") \subseteq Devices /\ Peers \subseteq Devices
  BY DEF In, Peers
<1>2. IsFiniteSet(In("pending")) /\ IsFiniteSet(Peers)
  BY <1>1, FiniteDevices, FS_Subset
<1>3. In("pending") \cap Peers = {} /\ Counted = In("pending") \cup Peers
  BY DEF In, Peers, Counted, HubType
<1>4. Cardinality({}) = 0
  BY FS_EmptySet
<1>5. Cardinality(Counted) = Cardinality(In("pending")) + Cardinality(Peers) - Cardinality({})
  BY <1>2, <1>3, FS_Union
<1> QED
  BY <1>2, <1>4, <1>5, FS_CardinalityType

\* A step after which no more connections count, no more peers are greeted
\* and no queue is too long keeps the limits.
LEMMA NoMoreIsWithin ==
  ASSUME HubInv, HubType', Counted' \subseteq Counted, greeted' \subseteq greeted,
         \A d \in Devices : Len(queue'[d]) <= QueueSize,
         \A d \in Devices : d \notin greeted' => queue'[d] = <<>>
  PROVE  HubInv'
<1>1. Cardinality(Counted') <= MaxConnections
  BY NotMore, RealtimeAssumption DEF HubInv, HubWithinLimits, Counted
<1>2. ASSUME NEW d \in Devices PROVE Cardinality(SameUser(d)') <= MaxUserConnections
  <2>1. SameUser(d)' \subseteq SameUser(d) /\ SameUser(d) \subseteq Devices
    BY DEF SameUser, HubInv, HubType, Peers, In
  <2> QED
    BY <2>1, NotMore, RealtimeAssumption DEF HubInv, HubWithinLimits
<1> QED
  BY <1>1, <1>2 DEF HubInv, HubWithinLimits, Counted

\* Initially nothing is connected.
LEMMA InitWithin == RealtimeInit => HubInv
<1> SUFFICES ASSUME RealtimeInit PROVE HubInv
  OBVIOUS
<1>1. HubType
  BY DEF RealtimeInit, HubType, Peers, In
<1>2. {d \in Devices : phase[d] # "none"} = {} /\ \A d \in Devices : SameUser(d) = {}
  BY DEF RealtimeInit, SameUser
<1>3. Cardinality({}) = 0
  BY FS_EmptySet
<1>4. \A d \in Devices : queue[d] = <<>> /\ Len(queue[d]) <= QueueSize
  BY RealtimeAssumption DEF RealtimeInit
<1>5. Cardinality({d \in Devices : phase[d] # "none"}) <= MaxConnections
  BY <1>2, <1>3, RealtimeAssumption
<1>6. \A d \in Devices : Cardinality(SameUser(d)) <= MaxUserConnections
  BY <1>2, <1>3, RealtimeAssumption
<1> QED
  BY <1>1, <1>4, <1>5, <1>6 DEF HubInv, HubWithinLimits

\* The step Connect keeps the limits.
LEMMA ConnectWithin ==
  ASSUME HubInv, NEW d \in Devices, Connect(d)
  PROVE  HubInv'
<1>1. HubType'
  BY DEF Connect, HubInv, HubType, Peers, In
<1>2. Cardinality(Counted') <= MaxConnections
  <2>1. Counted' = Counted \cup {d} /\ Counted \subseteq Devices
    BY DEF Connect, Counted, HubInv, HubType
  <2>2. Cardinality(Counted) < MaxConnections
    BY RoomCounts DEF Connect, Room, HubInv
  <2> QED
    BY <2>1, <2>2, OneMore, NotMore, RealtimeAssumption
<1>3. \A e \in Devices : SameUser(e)' = SameUser(e)
  BY DEF Connect, SameUser, Peers, In, HubInv, HubType
<1> QED
  BY <1>1, <1>2, <1>3 DEF Connect, HubInv, HubWithinLimits, Counted

\* The step Upgrade keeps the limits.
LEMMA UpgradeWithin ==
  ASSUME HubInv, NEW d \in Devices, Upgrade(d)
  PROVE  HubInv'
<1>1. HubType'
  BY DEF Upgrade, HubInv, HubType, Peers, In
<1>2. Counted' \subseteq Counted
  BY DEF Upgrade, Counted, HubInv, HubType
<1> QED
  BY <1>1, <1>2, NoMoreIsWithin DEF Upgrade, HubInv, HubWithinLimits

\* The step Authenticate keeps the limits: the count includes the newcomer.
LEMMA AuthenticateWithin ==
  ASSUME HubInv, NEW d \in Devices, Authenticate(d)
  PROVE  HubInv'
<1>1. HubType'
  BY DEF Authenticate, HubInv, HubType, Peers, In, AuthOK
<1>2. ASSUME NEW e \in Devices PROVE Cardinality(SameUser(e)') <= MaxUserConnections
  <2>1. CASE Owner(e) = Owner(d)
    <3>1. SameUser(e)' = SameUser(d) \cup {d} /\ SameUser(d) \subseteq Devices
      BY <2>1 DEF Authenticate, SameUser, Peers, In, Owner, HubInv, HubType
    <3> QED
      BY <3>1, OneMore, NotMore, RealtimeAssumption DEF Authenticate, UserRoom
  <2>2. CASE Owner(e) # Owner(d)
    <3>1. SameUser(e)' = SameUser(e)
      BY <2>2 DEF Authenticate, SameUser, Peers, In, Owner
    <3> QED
      BY <3>1 DEF HubInv, HubWithinLimits
  <2> QED
    BY <2>1, <2>2
<1>3. \A e \in Devices : Len(queue'[e]) <= QueueSize /\ (e \notin greeted' => queue'[e] = <<>>)
  BY RealtimeAssumption DEF Authenticate, HubInv, HubType, HubWithinLimits
<1> QED
  BY <1>1, <1>2, <1>3 DEF Authenticate, HubInv, HubWithinLimits

\* The step Stop keeps the limits.
LEMMA StopWithin ==
  ASSUME HubInv, NEW d \in Devices, Stop(d)
  PROVE  HubInv'
<1>1. HubType' /\ Counted' \subseteq Counted
  BY DEF Stop, HubInv, HubType, Peers, In, Counted
<1> QED
  BY <1>1, NoMoreIsWithin DEF Stop, HubInv, HubWithinLimits

\* The step Return keeps the limits.
LEMMA ReturnWithin ==
  ASSUME HubInv, NEW d \in Devices, Return(d)
  PROVE  HubInv'
<1>1. HubType' /\ Counted' \subseteq Counted
  BY DEF Return, HubInv, HubType, Peers, In, Counted
<1>2. \A e \in Devices : Len(queue'[e]) <= QueueSize /\ (e \notin greeted' => queue'[e] = <<>>)
  BY RealtimeAssumption DEF Return, HubInv, HubType, HubWithinLimits
<1> QED
  BY <1>1, <1>2, NoMoreIsWithin DEF Return

\* Only a peer that has been greeted is offered anything.
LEMMA OfferWithin ==
  ASSUME HubInv, NEW d \in Devices, d \in greeted, NEW frame \in Int, Offer(d, frame)
  PROVE  HubInv'
<1>1. phase' \in [Devices -> {"none", "pending", "open", "stopped"}] /\ queue' \in [Devices -> Seq(Int)]
  <2>1. Append(queue[d], frame) \in Seq(Int)
    BY DEF HubInv, HubType
  <2> QED
    BY <2>1 DEF Offer, HubInv, HubType
<1>2. HubType' /\ Counted' \subseteq Counted
  BY <1>1 DEF Offer, HubInv, HubType, Peers, In, Counted
<1>3. \A e \in Devices : Len(queue'[e]) <= QueueSize /\ (e \notin greeted' => queue'[e] = <<>>)
  <2>1. phase[d] = "open" /\ Len(queue[d]) < QueueSize => Len(Append(queue[d], frame)) <= QueueSize
    BY RealtimeAssumption DEF HubInv, HubType
  <2> QED
    BY <2>1, RealtimeAssumption DEF Offer, HubInv, HubType, HubWithinLimits
<1> QED
  BY <1>2, <1>3, NoMoreIsWithin DEF Offer

\* The step Send keeps the limits.
LEMMA SendWithin ==
  ASSUME HubInv, NEW d \in Devices, Send(d)
  PROVE  HubInv'
<1>1. HubType' /\ Counted' \subseteq Counted
  BY DEF Send, HubInv, HubType, Peers, In, Counted
<1>2. \A e \in Devices : Len(queue'[e]) <= QueueSize /\ (e \notin greeted' => queue'[e] = <<>>)
  BY RealtimeAssumption DEF Send, HubInv, HubType, HubWithinLimits
<1> QED
  BY <1>1, <1>2, NoMoreIsWithin DEF Send

\* The steps of closing the hub keep the limits.
LEMMA CloseWithin ==
  ASSUME HubInv, Close \/ CloseReturns
  PROVE  HubInv'
<1>1. HubType' /\ Counted' \subseteq Counted
  BY DEF Close, CloseReturns, HubInv, HubType, Peers, In, Counted
<1> QED
  BY <1>1, NoMoreIsWithin DEF Close, CloseReturns, HubInv, HubWithinLimits

\* The step Restart keeps the limits.
LEMMA RestartWithin == Restart => HubInv'
<1> SUFFICES ASSUME Restart PROVE HubInv'
  OBVIOUS
<1>1. HubType'
  BY DEF Restart, HubType, Peers, In
<1>2. {d \in Devices : phase[d] # "none"}' = {} /\ \A d \in Devices : SameUser(d)' = {}
  BY DEF Restart, SameUser
<1>3. Cardinality({}) = 0
  BY FS_EmptySet
<1>4. \A d \in Devices : queue'[d] = <<>> /\ Len(queue'[d]) <= QueueSize
  BY RealtimeAssumption DEF Restart
<1>5. Cardinality({d \in Devices : phase[d] # "none"}') <= MaxConnections
  BY <1>2, <1>3, RealtimeAssumption
<1>6. \A d \in Devices : Cardinality(SameUser(d)') <= MaxUserConnections
  BY <1>2, <1>3, RealtimeAssumption
<1> QED
  BY <1>1, <1>4, <1>5, <1>6 DEF HubInv, HubWithinLimits

\* Every step of the hub keeps the limits.
LEMMA NextWithin == HubInv /\ [RealtimeNext]_hubVars => HubInv'
<1> SUFFICES ASSUME HubInv, [RealtimeNext]_hubVars PROVE HubInv'
  OBVIOUS
<1>1. ASSUME NEW d \in Devices, Connect(d) PROVE HubInv'
  BY <1>1, ConnectWithin
<1>2. ASSUME NEW d \in Devices, Upgrade(d) PROVE HubInv'
  BY <1>2, UpgradeWithin
<1>3. ASSUME NEW d \in Devices, Authenticate(d) PROVE HubInv'
  BY <1>3, AuthenticateWithin
<1>4. ASSUME NEW d \in Devices, Stop(d) PROVE HubInv'
  BY <1>4, StopWithin
<1>5. ASSUME NEW d \in Devices, Return(d) PROVE HubInv'
  BY <1>5, ReturnWithin
<1>6. ASSUME NEW d \in Devices, Send(d) PROVE HubInv'
  BY <1>6, SendWithin
<1>7. ASSUME NEW d \in Devices, d \in greeted, Offer(d, AuthOK + 1) PROVE HubInv'
  BY <1>7, OfferWithin DEF AuthOK
<1>8. CASE Close \/ CloseReturns
  BY <1>8, CloseWithin
<1>9. CASE Restart
  BY <1>9, RestartWithin
<1>10. CASE UNCHANGED hubVars
  BY <1>10 DEF hubVars, HubInv, HubType, HubWithinLimits, SameUser, Peers, In
<1> QED
  BY <1>1, <1>2, <1>3, <1>4, <1>5, <1>6, <1>7, <1>8, <1>9, <1>10 DEF RealtimeNext

\* server.go counts a handshake before it starts it and a user's peers in the
\* critical section that admits one more: no limit is ever exceeded.
THEOREM LimitsHold == RealtimeSpec => []HubWithinLimits
<1>1. HubInv => HubWithinLimits
  BY DEF HubInv
<1> QED
  BY <1>1, InitWithin, NextWithin, PTL DEF RealtimeSpec

---------------------------------------------------------------------------
(* The conversation. What a caller has under way is one of these.           *)

Sent      == [sender : Users, id : ClientIds]
Drafts    == [step : {"locked"}, sequence : Int, message : Sent]
Answers   == [step : {"answer"}, outcome : {"done", "duplicate"}]
Notices   == [step : {"notify"}, frame : Int, to : SUBSET Users]
Offerings == [step : {"offering"}, frame : Int, targets : SUBSET Devices]
Requests  == {NoRequest} \cup Drafts \cup Answers \cup Notices \cup Offerings

ChatType ==
    /\ messages \in Seq(Sent) /\ Len(messages) <= MaxMessages
    /\ req \in [Callers -> Requests]
    /\ cursor \in [Devices -> Nat]
    /\ syncing \subseteq Devices

\* A draft holds the only lock, with the next sequence and an id not yet used.
Fits(c) ==
    /\ req[c].step = "locked" =>
          /\ Insertable(c) /\ Len(messages) < MaxMessages
          /\ \A e \in Callers : req[e].step = "locked" => e = c
    /\ req[c].step = "answer" => req[c].outcome = "done"
    /\ req[c].step = "notify" /\ req[c].frame # Other => req[c].to = Users
    /\ req[c].step = "offering" => req[c].targets \subseteq greeted
    /\ c \in Devices /\ req[c].step # "idle" => c \in greeted

AllFit == \A c \in Callers : Fits(c)

\* The clients that rely on what is announced to them.
Listens(d) ==
    /\ phase[d] = "open" /\ d \in greeted /\ d \notin syncing
    /\ \A i \in DOMAIN queue[d] : queue[d][i] # AuthOK

Owed(d, n) == Coming(d, n) \/ n \in unannounced

ChatInv == HubInv /\ ChatType /\ AllFit /\ NothingMissed

\* Nothing is missed just when every message after the cursor is on its way.
LEMMA MissedIsOwed ==
  NothingMissed <=> \A d \in Devices : Listens(d) =>
                        \A n \in (cursor[d] + 1)..Len(messages) : Owed(d, n)
BY DEF NothingMissed, Listens, Owed

\* What a request under way can be told by its step.
LEMMA Steps ==
  ASSUME NEW r \in Requests
  PROVE  /\ r.step = "locked" => r \in Drafts
         /\ r.step = "answer" => r \in Answers
         /\ r.step = "notify" => r \in Notices
         /\ r.step = "offering" => r \in Offerings
         /\ r = NoRequest => r.step = "idle"
         /\ r.step \in {"idle", "locked", "answer", "notify", "offering"}
BY DEF Requests, Drafts, Answers, Notices, Offerings, NoRequest

\* The answers and the announcements are requests.
LEMMA NewRequests ==
  /\ NoRequest \in Requests
  /\ \A o \in {"done", "duplicate"} : Answer(o) \in Requests /\ Answer(o).step = "answer" /\ Answer(o).outcome = o
  /\ \A n \in Int, us \in SUBSET Users :
        Announce(n, us) \in Requests /\ Announce(n, us).step = "notify"
        /\ Announce(n, us).frame = n /\ Announce(n, us).to = us
BY DEF Requests, Answers, Notices, Answer, Announce

\* The caller c goes on to a request r.
Turns(c, r) == req' = [req EXCEPT ![c] = r]

\* A step that leaves the messages alone: c goes on to a request that fits.
LEMMA FitsStill ==
  ASSUME ChatType, AllFit, NEW c \in Callers, NEW r \in Requests, Turns(c, r),
         messages' = messages, greeted' = greeted,
         r.step # "locked",
         r.step = "answer" => r.outcome = "done",
         r.step = "notify" /\ r.frame # Other => r.to = Users,
         r.step = "offering" => r.targets \subseteq greeted,
         c \in Devices /\ r.step # "idle" => c \in greeted
  PROVE  AllFit'
<1>1. \A e \in Callers : req'[e] = IF e = c THEN r ELSE req[e]
  BY DEF Turns, ChatType
<1>2. ASSUME NEW e \in Callers PROVE Fits(e)'
  <2>1. CASE e = c
    BY <1>1, <2>1 DEF Fits
  <2>2. CASE e # c
    <3>1. Insertable(e) /\ req[e].step = "locked" => Insertable(e)'
      BY <1>1, <2>2 DEF Insertable, Existing, Same, SelectInSeq
    <3> QED
      BY <1>1, <2>2, <3>1 DEF Fits, AllFit
  <2> QED
    BY <2>1, <2>2
<1> QED
  BY <1>2 DEF AllFit

\* The first message of a user with this id, if there is one.
LEMMA ExistingIsNumber ==
  ASSUME ChatType, NEW u, NEW id
  PROVE  Existing(u, id) \in Nat
<1> DEFINE I == {i \in 1..Len(messages) : Same(messages[i], u, id)}
<1>1. Existing(u, id) = IF I # {} THEN Min(I) ELSE 0
  BY DEF Existing, SelectInSeq
<1>2. I \subseteq Nat
  OBVIOUS
<1>3. ASSUME I # {} PROVE Min(I) \in I
  <2>1. IsWellFoundedOn(OpToRel(<, Nat), Nat)
    BY NatLessThanWellFounded
  <2>2. PICK x \in I : \A y \in I : ~ (<<y, x>> \in OpToRel(<, Nat))
    <3> HIDE DEF I
    <3> QED
      BY <1>2, <1>3, <2>1, WFMin
  <2>3. ASSUME NEW y \in I PROVE x <= y
    <3>1. x \in Nat /\ y \in Nat
      OBVIOUS
    <3>2. y < x => <<y, x>> \in OpToRel(<, Nat)
      BY <3>1 DEF OpToRel
    <3>3. ~ (y < x)
      BY <2>2, <3>2
    <3> HIDE DEF I
    <3> QED
      BY <3>1, <3>3
  <2> QED
    BY <2>3 DEF Min
<1> QED
  BY <1>1, <1>2, <1>3

\* What a request still carries to a device.
Carries(c, d, n) ==
    \/ req[c].step = "notify" /\ req[c].frame = n
    \/ req[c].step = "offering" /\ req[c].frame = n /\ d \in req[c].targets

\* A message is on its way in the queue, with a caller, or unannounced.
LEMMA OwedIs ==
  ASSUME NEW d \in Devices, NEW n
  PROVE  Owed(d, n) <=> \/ \E i \in DOMAIN queue[d] : queue[d][i] = n
                        \/ \E c \in Callers : Carries(c, d, n)
                        \/ n \in unannounced
BY DEF Owed, Coming, Carries

\* The same after a step.
LEMMA OwedIsNext ==
  ASSUME NEW d \in Devices, NEW n
  PROVE  Owed(d, n)' <=> \/ \E i \in DOMAIN queue'[d] : queue'[d][i] = n
                         \/ \E c \in Callers : Carries(c, d, n)'
                         \/ n \in unannounced'
BY DEF Owed, Coming, Carries

\* A device that listens has missed nothing if it listened before and what it
\* was owed it is owed still.
Keeps(d) ==
    /\ Listens(d)' => Listens(d)
    /\ cursor'[d] = cursor[d]
    /\ \A n \in Nat \ {0} : Owed(d, n) => Owed(d, n)'

\* So nothing is missed that was not before.
LEMMA MissedStill ==
  ASSUME ChatType, NothingMissed, messages' = messages,
         \A d \in Devices : Listens(d)' => Keeps(d)
  PROVE  NothingMissed'
<1>1. ASSUME NEW d \in Devices, Listens(d)', NEW n \in (cursor'[d] + 1)..Len(messages') PROVE Owed(d, n)'
  <2>1. Listens(d) /\ cursor'[d] = cursor[d] /\ cursor[d] \in Nat
    BY <1>1 DEF Keeps, ChatType
  <2>2. n \in (cursor[d] + 1)..Len(messages)
    BY <1>1, <2>1
  <2>3. Owed(d, n)
    BY <2>1, <2>2, MissedIsOwed
  <2>4. n \in Nat \ {0}
    BY <2>1, <2>2
  <2> QED
    BY <1>1, <2>3, <2>4 DEF Keeps
<1> QED
  BY <1>1 DEF NothingMissed, Listens, Owed

\* A turn of one caller: what the others carry they carry still.
LEMMA KeepsIfCarried ==
  ASSUME ChatType, NEW c \in Callers, NEW r \in Requests, Turns(c, r), NEW d \in Devices,
         Listens(d)' => Listens(d), cursor' = cursor, unannounced \subseteq unannounced',
         \A i \in DOMAIN queue[d] : i \in DOMAIN queue'[d] /\ queue'[d][i] = queue[d][i],
         \A n \in Nat \ {0} : Carries(c, d, n) => Owed(d, n)'
  PROVE  Keeps(d)
<1>1. ASSUME NEW n \in Nat \ {0}, Owed(d, n) PROVE Owed(d, n)'
  <2>1. ASSUME NEW e \in Callers, e # c, Carries(e, d, n) PROVE Owed(d, n)'
    <3>1. Carries(e, d, n)'
      BY <2>1 DEF Carries, Turns, ChatType
    <3> QED
      BY <3>1, OwedIsNext
  <2> QED
    BY <1>1, <2>1, OwedIs, OwedIsNext
<1> QED
  BY <1>1 DEF Keeps

\* A turn that leaves the hub alone and drops nothing.
LEMMA TurnKeeps ==
  ASSUME ChatInv, NEW c \in Callers, NEW r \in Requests, Turns(c, r),
         UNCHANGED hubVars, messages' = messages, cursor' = cursor, syncing' = syncing,
         unannounced \subseteq unannounced',
         \A d \in Devices : Listens(d) =>
             \A n \in Nat \ {0} : Carries(c, d, n) => Owed(d, n)'
  PROVE  HubInv' /\ ChatType' /\ NothingMissed'
<1>1. HubInv' /\ ChatType'
  BY DEF ChatInv, ChatType, Turns, hubVars, HubInv, HubType, HubWithinLimits, SameUser, Peers, In
<1>2. ASSUME NEW d \in Devices, Listens(d)' PROVE Keeps(d)
  <2>1. Listens(d)
    BY <1>2 DEF Listens, hubVars
  <2> QED
    BY <1>2, <2>1, KeepsIfCarried DEF ChatInv, hubVars
<1> QED
  BY <1>1, <1>2, MissedStill DEF ChatInv

\* Initially nobody has sent anything.
LEMMA InitFits == ChatInit => ChatInv
<1> SUFFICES ASSUME ChatInit PROVE ChatInv
  OBVIOUS
<1>1. HubInv
  BY InitWithin DEF ChatInit
<1>2. ChatType
  BY ChatAssumption DEF ChatInit, ChatType, Requests
<1>3. AllFit
  BY DEF ChatInit, AllFit, Fits, NoRequest
<1>4. NothingMissed
  BY DEF ChatInit, RealtimeInit, NothingMissed
<1> QED
  BY <1>1, <1>2, <1>3, <1>4 DEF ChatInv

\* A send that locks the conversation fits, as does one that is a repeat.
LEMMA SendFits ==
  ASSUME ChatInv, NEW d \in Callers, NEW u \in Users, NEW id \in ClientIds, NEW same \in BOOLEAN,
         SendMessage(d, u, id, same)
  PROVE  ChatInv'
<1>1. ChatType /\ AllFit /\ req[d] = NoRequest /\ req[d].step = "idle" /\ (d \in Devices => d \in greeted)
  BY DEF SendMessage, ChatInv, Ready, Slot, NoRequest
<1>2. UNCHANGED hubVars /\ messages' = messages /\ cursor' = cursor /\ syncing' = syncing /\ unannounced' = unannounced
      /\ greeted' = greeted
  BY DEF SendMessage, KeepChat, hubVars
<1>3. \A e \in Devices, n \in Nat : ~ Carries(d, e, n)
  BY <1>1 DEF Carries
<1>4. CASE Turns(d, Announce(Existing(u, id), Users))
  <2>1. PICK r \in Requests : r = Announce(Existing(u, id), Users) /\ r.step = "notify" /\ r.to = Users
    BY <1>1, ExistingIsNumber, NewRequests
  <2>2. Turns(d, r)
    BY <1>4, <2>1
  <2>3. AllFit'
    BY <1>1, <1>2, <2>1, <2>2, FitsStill
  <2> QED
    BY <1>2, <1>3, <2>2, <2>3, TurnKeeps DEF ChatInv
<1>5. CASE Turns(d, Answer("done"))
  <2>1. PICK r \in Requests : r = Answer("done") /\ r.step = "answer" /\ r.outcome = "done"
    BY NewRequests
  <2>2. Turns(d, r)
    BY <1>5, <2>1
  <2>3. AllFit'
    BY <1>1, <1>2, <2>1, <2>2, FitsStill
  <2> QED
    BY <1>2, <1>3, <2>2, <2>3, TurnKeeps DEF ChatInv
<1>6. CASE /\ Existing(u, id) = 0 /\ Len(messages) < MaxMessages
           /\ Turns(d, [step |-> "locked", sequence |-> Len(messages) + 1,
                        message |-> [sender |-> u, id |-> id]])
  <2>1. PICK r \in Requests : /\ r.step = "locked" /\ r.sequence = Len(messages) + 1
                              /\ r.message.sender = u /\ r.message.id = id /\ Turns(d, r)
    BY <1>1, <1>6 DEF Requests, Drafts, Sent, ChatType
  <2>2. \A e \in Callers : req'[e] = IF e = d THEN r ELSE req[e]
    BY <1>1, <2>1 DEF Turns, ChatType
  <2>3. \A e \in Callers : req[e].step # "locked"
    BY DEF SendMessage, Lockable
  <2>4. Existing(r.message.sender, r.message.id)' = 0
    BY <1>2, <1>6, <2>1 DEF Existing, SelectInSeq, Same
  <2>5. Insertable(d)'
    <3>1. req'[d] = r /\ req'[d].message.sender = u /\ req'[d].message.id = id
      BY <2>1, <2>2
    <3>2. Existing(req[d].message.sender, req[d].message.id)' = 0
      BY <1>2, <1>6, <3>1 DEF Existing, SelectInSeq, Same
    <3> QED
      BY <1>2, <2>1, <3>1, <3>2 DEF Insertable
  <2>6. ASSUME NEW e \in Callers PROVE Fits(e)'
    <3>1. CASE e = d
      BY <1>1, <1>2, <1>6, <2>1, <2>2, <2>3, <2>5, <3>1 DEF Fits
    <3>2. CASE e # d
      BY <1>1, <1>2, <2>2, <2>3, <3>2 DEF Fits, AllFit
    <3> QED
      BY <3>1, <3>2
  <2>7. AllFit'
    BY <2>6 DEF AllFit
  <2> QED
    BY <1>2, <1>3, <2>1, <2>7, TurnKeeps DEF ChatInv
<1> QED
  BY <1>4, <1>5, <1>6 DEF SendMessage, Turns

\* A request that ends with an answer, or whose announcement is not about a
\* message, has nothing of a message to lose.
LEMMA TurnFits ==
  ASSUME ChatInv, NEW c \in Callers, NEW r \in Requests, Turns(c, r),
         UNCHANGED hubVars, messages' = messages, cursor' = cursor, syncing' = syncing,
         unannounced \subseteq unannounced',
         r.step # "locked",
         r.step = "answer" => r.outcome = "done",
         r.step = "notify" /\ r.frame # Other => r.to = Users,
         r.step = "offering" => r.targets \subseteq greeted,
         c \in Devices /\ r.step # "idle" => c \in greeted,
         \A d \in Devices : Listens(d) =>
             \A n \in Nat \ {0} : Carries(c, d, n) => Owed(d, n)'
  PROVE  ChatInv'
<1>1. greeted' = greeted /\ ChatType /\ AllFit
  BY DEF hubVars, ChatInv
<1>2. AllFit'
  BY <1>1, FitsStill
<1> QED
  BY <1>2, TurnKeeps DEF ChatInv

\* The step Rollback keeps the invariant.
LEMMA RollbackFits ==
  ASSUME ChatInv, NEW c \in Callers, Rollback(c)
  PROVE  ChatInv'
<1>1. PICK r \in Requests : r = Answer("done") /\ r.step = "answer" /\ r.outcome = "done"
  BY NewRequests
<1>2. Turns(c, r) /\ (c \in Devices => c \in greeted)
  BY <1>1 DEF Rollback, Turns, ChatInv, AllFit, Fits
<1>3. \A d \in Devices, n \in Nat : ~ Carries(c, d, n)
  BY DEF Carries, Rollback
<1> QED
  BY <1>1, <1>2, <1>3, TurnFits DEF Rollback, KeepChat

\* An announcement that is not of a message keeps the invariant.
LEMMA OtherFits ==
  ASSUME ChatInv, NEW c \in Callers, NEW us \in SUBSET Users, Turns(c, Announce(Other, us)),
         req[c] = NoRequest, c \in Devices => c \in greeted,
         UNCHANGED hubVars, messages' = messages, cursor' = cursor, syncing' = syncing, unannounced' = unannounced
  PROVE  ChatInv'
<1>1. PICK r \in Requests : r = Announce(Other, us) /\ r.step = "notify" /\ r.frame = Other
  <2>1. Other \in Int
    BY DEF Other
  <2> HIDE DEF Other
  <2> QED
    BY <2>1, NewRequests
<1>2. Turns(c, r)
  BY <1>1
<1>3. \A d \in Devices, n \in Nat : ~ Carries(c, d, n)
  BY DEF Carries, NoRequest
<1> QED
  BY <1>1, <1>2, <1>3, TurnFits

\* The steps that announce something else than a message keep the invariant.
LEMMA AnnounceFits ==
  ASSUME ChatInv,
         \/ \E c \in Callers, u \in Users, n \in 0..MaxMessages : MarkRead(c, u, n)
         \/ \E d \in Devices : Typing(d)
         \/ \E u \in Users : Forward(u)
  PROVE  ChatInv'
<1>1. ASSUME NEW c \in Callers, NEW u \in Users, NEW n \in 0..MaxMessages, MarkRead(c, u, n) PROVE ChatInv'
  BY <1>1, OtherFits DEF MarkRead, Ready, Slot, Turns
<1>2. ASSUME NEW d \in Devices, Typing(d) PROVE ChatInv'
  <2>1. d \in Callers
    BY DEF Callers
  <2> QED
    BY <1>2, <2>1, OtherFits DEF Typing, Ready, Slot, Turns
<1>3. ASSUME NEW u \in Users, Forward(u) PROVE ChatInv'
  <2>1. Redis \in Callers /\ Redis \notin Devices /\ {u} \in SUBSET Users
    BY ChatAssumption DEF Callers
  <2> QED
    BY <1>3, <2>1, OtherFits DEF Forward, Ready, Slot, Turns, hubVars
<1> QED
  BY <1>1, <1>2, <1>3

\* The unique constraints never refuse a draft: its lock was the only one.
LEMMA CommitFits ==
  ASSUME ChatInv, NEW c \in Callers, Commit(c)
  PROVE  ChatInv'
<1>1. /\ ChatType /\ AllFit /\ HubInv /\ NothingMissed
      /\ req[c].step = "locked" /\ req[c] \in Drafts /\ Insertable(c) /\ Len(messages) < MaxMessages
      /\ \A e \in Callers : req[e].step = "locked" => e = c
      /\ c \in Devices => c \in greeted
  BY Steps DEF ChatInv, ChatType, Commit, AllFit, Fits
<1>2. PICK s \in Sent, n \in Nat : s = req[c].message /\ n = Len(messages) + 1 /\ req[c].sequence = n
  BY <1>1 DEF Drafts, Insertable, ChatType
<1>3. PICK r \in Requests : r = Announce(n, Users) /\ r.step = "notify" /\ r.frame = n /\ r.to = Users
  BY NewRequests
<1>4. messages' = Append(messages, s) /\ Turns(c, r)
  BY <1>1, <1>2, <1>3 DEF Commit, Turns
<1>5. messages' \in Seq(Sent) /\ Len(messages') = n /\ n <= MaxMessages
  BY <1>1, <1>2, <1>4, ChatAssumption DEF ChatType
<1>6. \A e \in Callers : req'[e] = IF e = c THEN r ELSE req[e]
  BY <1>1, <1>4 DEF Turns, ChatType
<1>7. HubInv' /\ ChatType' /\ greeted' = greeted
  BY <1>1, <1>4, <1>5 DEF ChatType, Turns, Commit, hubVars, HubInv, HubType, HubWithinLimits, SameUser, Peers, In
<1>8. ASSUME NEW e \in Callers PROVE Fits(e)'
  <2>1. CASE e = c
    BY <1>1, <1>3, <1>6, <1>7, <2>1 DEF Fits
  <2>2. CASE e # c
    BY <1>1, <1>6, <1>7, <2>2 DEF Fits, AllFit
  <2> QED
    BY <2>1, <2>2
<1>9. ASSUME NEW d \in Devices, Listens(d)', NEW k \in (cursor'[d] + 1)..Len(messages') PROVE Owed(d, k)'
  <2>1. Listens(d) /\ cursor'[d] = cursor[d] /\ cursor[d] \in Nat
    BY <1>1, <1>9 DEF Commit, hubVars, Listens, ChatType
  <2>2. CASE k = n
    <3>1. Carries(c, d, k)'
      BY <1>3, <1>6, <2>2 DEF Carries
    <3> QED
      BY <3>1, OwedIsNext
  <2>3. CASE k # n
    <3>1. k \in (cursor[d] + 1)..Len(messages)
      BY <1>1, <1>2, <1>5, <1>9, <2>1, <2>3 DEF ChatType
    <3>2. Owed(d, k)
      BY <1>1, <2>1, <3>1, MissedIsOwed
    <3>3. ASSUME NEW e \in Callers, Carries(e, d, k) PROVE Carries(e, d, k)'
      BY <1>1, <1>6, <3>3 DEF Carries
    <3> QED
      BY <3>2, <3>3, OwedIs, OwedIsNext DEF Commit, hubVars
  <2> QED
    BY <2>2, <2>3
<1>10. NothingMissed'
  BY <1>9 DEF NothingMissed, Listens, Owed
<1> QED
  BY <1>7, <1>8, <1>10 DEF ChatInv, AllFit

\* The step Collect keeps the invariant: its targets are the greeted devices.
LEMMA CollectFits ==
  ASSUME ChatInv, NEW c \in Callers, Collect(c)
  PROVE  ChatInv'
<1>1. req[c].step = "notify" /\ req[c] \in Notices /\ Fits(c) /\ HubInv
  BY Steps DEF ChatInv, ChatType, Collect, AllFit
<1>2. PICK f \in Int, ts \in SUBSET Devices : f = req[c].frame /\ ts = Targets(req[c].to)
  BY <1>1 DEF Notices, Targets, Peers, In
<1>3. PICK r \in Requests : r.step = "offering" /\ r.frame = f /\ r.targets = ts /\ r = [step |-> "offering", frame |-> f, targets |-> ts]
  BY DEF Requests, Offerings
<1>4. Turns(c, r)
  BY <1>2, <1>3 DEF Collect, Turns
<1>5. ts \subseteq greeted /\ (c \in Devices => c \in greeted)
  BY <1>1, <1>2 DEF Targets, Fits
<1>6. ASSUME NEW d \in Devices, Listens(d), NEW n \in Nat \ {0}, Carries(c, d, n) PROVE Owed(d, n)'
  <2>1. f = n /\ req[c].to = Users
    BY <1>1, <1>2, <1>6 DEF Carries, Fits, Other
  <2>2. d \in ts
    BY <1>2, <1>6, <2>1 DEF Targets, Listens, Peers, In, Owner, Users
  <2>3. Carries(c, d, n)'
    BY <1>3, <1>4, <2>1, <2>2 DEF Carries, Turns, ChatInv, ChatType
  <2> QED
    BY <2>3, OwedIsNext
<1> QED
  BY <1>3, <1>4, <1>5, <1>6, TurnFits DEF Collect, KeepChat

\* The step NotifyFails keeps the invariant: the message stays unannounced.
LEMMA NotifyFailsFits ==
  ASSUME ChatInv, NEW c \in Callers, NotifyFails(c)
  PROVE  ChatInv'
<1>1. PICK r \in Requests : r = Answer("done") /\ r.step = "answer" /\ r.outcome = "done"
  BY NewRequests
<1>2. Turns(c, r) /\ (c \in Devices => c \in greeted)
  BY <1>1 DEF NotifyFails, Turns, ChatInv, AllFit, Fits
<1>3. ASSUME NEW d \in Devices, NEW n \in Nat \ {0}, Carries(c, d, n) PROVE Owed(d, n)'
  BY <1>3, OwedIsNext DEF Carries, NotifyFails, Other
<1> QED
  BY <1>1, <1>2, <1>3, TurnFits DEF NotifyFails

\* What is offered to e joins its queue, or ends its connection.
LEMMA OfferFits ==
  ASSUME ChatInv, NEW c \in Callers, NEW r \in Requests, Turns(c, r),
         NEW e \in Devices, e \in greeted, NEW f \in Int, Offer(e, f), KeepChat,
         r.step \notin {"locked", "answer", "notify"},
         r.step = "offering" => r.targets \subseteq greeted,
         c \in Devices /\ r.step # "idle" => c \in greeted,
         \A d \in Devices, n \in Nat \ {0} : Carries(c, d, n) => Carries(c, d, n)' \/ (d = e /\ n = f)
  PROVE  ChatInv'
<1>1. ChatType /\ AllFit /\ HubInv /\ NothingMissed /\ HubType
  BY DEF ChatInv, HubInv
<1>2. HubInv'
  BY <1>1, OfferWithin
<1>3. ChatType'
  BY <1>1 DEF ChatType, Turns, KeepChat
<1>4. AllFit'
  BY <1>1, FitsStill DEF KeepChat, Offer
<1>5. ASSUME NEW d \in Devices, Listens(d)' PROVE Keeps(d)
  <2>1. phase[d] = "open" /\ d \in greeted /\ d \notin syncing
    BY <1>1, <1>5 DEF Listens, Offer, HubType, KeepChat
  <2>2. \A i \in DOMAIN queue[d] : i \in DOMAIN queue'[d] /\ queue'[d][i] = queue[d][i]
    <3>1. PICK q \in Seq(Int) : q = queue[d]
      BY <1>1 DEF HubType
    <3>2. \A i \in DOMAIN q : i \in DOMAIN Append(q, f) /\ Append(q, f)[i] = q[i]
      BY <3>1
    <3>3. queue'[d] = q \/ queue'[d] = Append(q, f)
      BY <1>1, <3>1 DEF Offer, HubType
    <3> QED
      BY <3>1, <3>2, <3>3
  <2>3. Listens(d)
    BY <1>5, <2>1, <2>2 DEF Listens
  <2>4. ASSUME NEW n \in Nat \ {0}, Carries(c, d, n) PROVE Owed(d, n)'
    <3>1. CASE d = e /\ n = f
      <4>1. phase'[d] = "open" => Len(queue[d]) < QueueSize
        BY <1>1, <2>1, <3>1, RealtimeAssumption DEF Offer, HubType
      <4>2. queue'[d] = Append(queue[d], n) /\ queue[d] \in Seq(Int)
        BY <1>1, <1>5, <2>1, <3>1, <4>1 DEF Offer, Listens, HubType
      <4>3. Len(queue[d]) + 1 \in DOMAIN queue'[d] /\ queue'[d][Len(queue[d]) + 1] = n
        BY <4>2
      <4> QED
        BY <4>3, OwedIsNext
    <3>2. CASE Carries(c, d, n)'
      BY <3>2, OwedIsNext
    <3> QED
      BY <2>4, <3>1, <3>2
  <2> QED
    BY <1>1, <2>2, <2>3, <2>4, KeepsIfCarried DEF KeepChat
<1>6. NothingMissed'
  BY <1>1, <1>5, MissedStill DEF KeepChat
<1> QED
  BY <1>2, <1>3, <1>4, <1>6 DEF ChatInv

\* The step OfferNext keeps the invariant.
LEMMA OfferNextFits ==
  ASSUME ChatInv, NEW c \in Callers, OfferNext(c)
  PROVE  ChatInv'
<1>1. req[c].step = "offering" /\ req[c] \in Offerings /\ Fits(c)
  BY Steps DEF ChatInv, ChatType, OfferNext, AllFit
<1>2. CASE req[c].targets = {}
  <2>1. PICK r \in Requests : r = Answer("done") /\ r.step = "answer" /\ r.outcome = "done"
    BY NewRequests
  <2>2. Turns(c, r) /\ (c \in Devices => c \in greeted) /\ UNCHANGED hubVars
    BY <1>1, <1>2, <2>1 DEF OfferNext, Turns, Fits
  <2>3. \A d \in Devices, n \in Nat : ~ Carries(c, d, n)
    BY <1>1, <1>2 DEF Carries
  <2> QED
    BY <2>1, <2>2, <2>3, TurnFits DEF OfferNext, KeepChat
<1>3. ASSUME NEW e \in req[c].targets, Offer(e, req[c].frame), req' = [req EXCEPT ![c].targets = @ \ {e}]
      PROVE  ChatInv'
  <2>1. PICK f \in Int, ts \in SUBSET Devices :
            /\ f = req[c].frame /\ ts = req[c].targets \ {e} /\ e \in Devices /\ e \in greeted
            /\ ts \subseteq greeted /\ (c \in Devices => c \in greeted)
    BY <1>1, <1>3 DEF Offerings, Fits
  <2>2. PICK r \in Requests : r = [req[c] EXCEPT !.targets = ts] /\ r.step = "offering" /\ r.frame = f /\ r.targets = ts
    <3>1. [req[c] EXCEPT !.targets = ts] \in Offerings
      BY <1>1, <2>1 DEF Offerings
    <3>2. PICK r \in Requests : r = [req[c] EXCEPT !.targets = ts]
      BY <3>1 DEF Requests
    <3>3. r.step = "offering" /\ r.frame = f /\ r.targets = ts
      BY <1>1, <2>1, <3>2 DEF Offerings
    <3> QED
      BY <3>2, <3>3
  <2>3. Turns(c, r)
    BY <1>3, <2>1, <2>2 DEF Turns
  <2>4. ASSUME NEW d \in Devices, NEW n \in Nat \ {0}, Carries(c, d, n)
        PROVE  Carries(c, d, n)' \/ (d = e /\ n = f)
    BY <1>1, <2>1, <2>2, <2>3, <2>4 DEF Carries, Turns, ChatInv, ChatType
  <2>5. Offer(e, f) /\ KeepChat
    BY <1>3, <2>1 DEF OfferNext
  <2> QED
    BY <2>1, <2>2, <2>3, <2>4, <2>5, OfferFits
<1> QED
  BY <1>2, <1>3 DEF OfferNext

\* The step Reply keeps the invariant.
LEMMA ReplyFits ==
  ASSUME ChatInv, NEW c \in Callers, Reply(c)
  PROVE  ChatInv'
<1>1. PICK r \in Requests : r = NoRequest /\ r.step = "idle"
  BY NewRequests, Steps
<1>2. Turns(c, r) /\ KeepChat /\ (c \in Devices => c \in greeted)
  BY <1>1 DEF Reply, Turns, ChatInv, AllFit, Fits
<1>3. \A d \in Devices, n \in Nat : ~ Carries(c, d, n)
  BY DEF Carries, Reply
<1>4. CASE c \in Devices
  <2>1. PICK f \in Int : f = Other
    BY DEF Other
  <2>2. Offer(c, f)
    BY <1>4, <2>1 DEF Reply
  <2> QED
    BY <1>1, <1>2, <1>3, <1>4, <2>2, OfferFits
<1>5. CASE c \notin Devices
  BY <1>1, <1>2, <1>3, <1>5, TurnFits DEF Reply, KeepChat
<1> QED
  BY <1>4, <1>5

\* What callers do fits as long as they and the messages stay as they are.
LEMMA FitsUnchanged ==
  ASSUME AllFit, req' = req, messages' = messages, greeted \subseteq greeted'
  PROVE  AllFit'
<1>1. ASSUME NEW e \in Callers PROVE Fits(e)'
  <2>1. Insertable(e) /\ req[e].step = "locked" => Insertable(e)'
    BY DEF Insertable, Existing, Same, SelectInSeq
  <2> QED
    BY <2>1 DEF Fits, AllFit
<1> QED
  BY <1>1 DEF AllFit

\* What happens to a connection, but for what it is sent.
LEMMA ConnectionFits ==
  ASSUME ChatInv, HubInv', KeepChat, UNCHANGED req, greeted \subseteq greeted',
         \A d \in Devices : Listens(d)' => Listens(d) /\ queue'[d] = queue[d]
  PROVE  ChatInv'
<1>1. ChatType' /\ AllFit'
  BY FitsUnchanged DEF ChatInv, ChatType, KeepChat
<1>2. ASSUME NEW d \in Devices, Listens(d)' PROVE Keeps(d)
  BY <1>2 DEF Keeps, Owed, Coming, KeepChat
<1>3. NothingMissed'
  BY <1>2, MissedStill DEF ChatInv, KeepChat
<1> QED
  BY <1>1, <1>3 DEF ChatInv

\* The steps of the connections keep the invariant.
LEMMA HubFits ==
  ASSUME ChatInv, KeepChat, UNCHANGED req,
         \/ \E d \in Devices : Connect(d) \/ Upgrade(d) \/ Authenticate(d) \/ Stop(d)
         \/ Close \/ CloseReturns
  PROVE  ChatInv'
<1>1. HubInv /\ HubType
  BY DEF ChatInv, HubInv
<1>2. ASSUME NEW d \in Devices, Connect(d) PROVE ChatInv'
  <2>1. HubInv'
    BY <1>1, <1>2, ConnectWithin
  <2> QED
    BY <1>1, <1>2, <2>1, ConnectionFits DEF Connect, Listens, KeepChat, HubType
<1>3. ASSUME NEW d \in Devices, Upgrade(d) PROVE ChatInv'
  <2>1. HubInv'
    BY <1>1, <1>3, UpgradeWithin
  <2>2. d \notin greeted
    BY <1>1, <1>3 DEF Upgrade, HubType, Peers, In
  <2> QED
    BY <1>1, <1>3, <2>1, <2>2, ConnectionFits DEF Upgrade, Listens, KeepChat, HubType
<1>4. ASSUME NEW d \in Devices, Authenticate(d) PROVE ChatInv'
  <2>1. HubInv'
    BY <1>1, <1>4, AuthenticateWithin
  <2>2. ~ Listens(d)'
    <3>1. queue'[d] = <<AuthOK>>
      BY <1>1, <1>4 DEF Authenticate, HubType
    <3>2. 1 \in DOMAIN <<AuthOK>> /\ <<AuthOK>>[1] = AuthOK
      OBVIOUS
    <3> QED
      BY <3>1, <3>2 DEF Listens
  <2> QED
    BY <1>1, <1>4, <2>1, <2>2, ConnectionFits DEF Authenticate, Listens, KeepChat, HubType
<1>5. ASSUME NEW d \in Devices, Stop(d) PROVE ChatInv'
  <2>1. HubInv'
    BY <1>1, <1>5, StopWithin
  <2> QED
    BY <1>1, <1>5, <2>1, ConnectionFits DEF Stop, Listens, KeepChat, HubType
<1>6. CASE Close \/ CloseReturns
  <2>1. HubInv'
    BY <1>1, <1>6, CloseWithin
  <2> QED
    BY <1>1, <1>6, <2>1, ConnectionFits DEF Close, CloseReturns, Listens, KeepChat, HubType
<1> QED
  BY <1>2, <1>3, <1>4, <1>5, <1>6

\* A client that goes on listening took the next message, or one it had.
LEMMA ReceiveFits ==
  ASSUME ChatInv, NEW d \in Devices, Receive(d)
  PROVE  ChatInv'
<1>1. ChatType /\ AllFit /\ HubInv /\ NothingMissed /\ HubType /\ Send(d)
  BY DEF ChatInv, HubInv, Receive
<1>2. HubInv'
  BY <1>1, SendWithin
<1>3. PICK q \in Seq(Int) : q = queue[d] /\ q # <<>> /\ queue' = [queue EXCEPT ![d] = Tail(q)]
  BY <1>1 DEF Send, HubType
<1>4. PICK f \in Int : f = Head(q)
  BY <1>3
<1>5. /\ cursor' = IF f = cursor[d] + 1 THEN [cursor EXCEPT ![d] = f] ELSE cursor
      /\ syncing' = IF f = AuthOK \/ f \in (cursor[d] + 2)..MaxMessages THEN syncing \cup {d} ELSE syncing
      /\ UNCHANGED <<messages, read, req, unannounced, phase, greeted>>
  BY <1>3, <1>4 DEF Receive, Send
<1>6. ChatType'
  <2>1. cursor' \in [Devices -> Nat]
    BY <1>1, <1>5 DEF ChatType
  <2> QED
    BY <1>1, <1>5, <2>1 DEF ChatType
<1>7. AllFit'
  BY <1>1, <1>5, FitsUnchanged
<1>8. ASSUME NEW e \in Devices, Listens(e)', NEW n \in (cursor'[e] + 1)..Len(messages') PROVE Owed(e, n)'
  <2>1. CASE e # d
    <3>1. Listens(e) /\ cursor'[e] = cursor[e] /\ queue'[e] = queue[e]
      BY <1>1, <1>3, <1>5, <1>8, <2>1 DEF Listens, ChatType, HubType
    <3>2. n \in (cursor[e] + 1)..Len(messages)
      BY <1>5, <1>8, <3>1
    <3>3. Owed(e, n)
      BY <1>1, <3>1, <3>2, MissedIsOwed
    <3> QED
      BY <1>5, <3>1, <3>3 DEF Owed, Coming
  <2>2. CASE e = d
    <3>1. queue'[d] = Tail(q) /\ \A i \in DOMAIN q : i # 1 => i - 1 \in DOMAIN Tail(q) /\ Tail(q)[i - 1] = q[i]
      BY <1>1, <1>3 DEF HubType
    <3>2. f # AuthOK /\ f \notin (cursor[d] + 2)..MaxMessages /\ d \notin syncing
      BY <1>5, <1>8, <2>2 DEF Listens
    <3>3. ASSUME NEW i \in DOMAIN q PROVE q[i] # AuthOK
      <4>1. CASE i = 1
        BY <1>3, <1>4, <3>2, <4>1
      <4>2. CASE i # 1
        <5>1. \A j \in DOMAIN queue'[d] : queue'[d][j] # AuthOK
          BY <1>8, <2>2 DEF Listens
        <5> QED
          BY <3>1, <4>2, <5>1
      <4> QED
        BY <4>1, <4>2
    <3>4. Listens(d)
      BY <1>3, <1>5, <1>8, <2>2, <3>2, <3>3 DEF Listens
    <3>5. cursor[d] \in Nat /\ Len(messages) \in Nat /\ Len(messages) <= MaxMessages /\ n \in Int
      BY <1>1, <1>6, <1>8, <2>2 DEF ChatType
    <3>6. cursor'[d] = IF f = cursor[d] + 1 THEN f ELSE cursor[d]
      BY <1>1, <1>5 DEF ChatType
    <3>7. n \in (cursor[d] + 1)..Len(messages) /\ n # f
      BY <1>5, <1>8, <2>2, <3>2, <3>5, <3>6, ChatAssumption
    <3>8. Owed(d, n)
      BY <1>1, <3>4, <3>7, MissedIsOwed
    <3>9. ASSUME NEW i \in DOMAIN queue[d], queue[d][i] = n PROVE Owed(d, n)'
      <4>1. i # 1
        BY <1>3, <1>4, <3>7, <3>9
      <4> QED
        BY <1>3, <3>1, <3>9, <4>1, OwedIsNext
    <3>10. ASSUME NEW c \in Callers, Carries(c, d, n) PROVE Owed(d, n)'
      <4>1. Carries(c, d, n)'
        BY <1>5, <3>10 DEF Carries
      <4> QED
        BY <4>1, OwedIsNext
    <3> QED
      BY <1>5, <2>2, <3>8, <3>9, <3>10, OwedIs, OwedIsNext
  <2> QED
    BY <2>1, <2>2
<1>9. NothingMissed'
  BY <1>8 DEF NothingMissed, Listens, Owed
<1> QED
  BY <1>2, <1>6, <1>7, <1>9 DEF ChatInv

\* A page that is not full ends at the last message.
LEMMA PageLength ==
  ASSUME NEW s \in Seq(Sent), NEW n \in Nat
  PROVE  LET page == SubSeq(s, n + 1, Min({Len(s), n + PageSize}))
         IN  Len(page) \in Nat /\ (Len(page) # PageSize => n + Len(page) >= Len(s))
<1>1. PICK m \in Nat : m = Min({Len(s), n + PageSize}) /\ m = IF Len(s) <= n + PageSize THEN Len(s) ELSE n + PageSize
  BY ChatAssumption DEF Min
<1>2. Len(SubSeq(s, n + 1, m)) = IF n + 1 <= m THEN m - n ELSE 0
  BY <1>1
<1> QED
  BY <1>1, <1>2, ChatAssumption

\* The step Fetch keeps the invariant: what it returns need not be announced.
LEMMA FetchFits ==
  ASSUME ChatInv, NEW d \in Devices, Fetch(d)
  PROVE  ChatInv'
<1>1. ChatType /\ AllFit /\ HubInv /\ NothingMissed
  BY DEF ChatInv
<1>2. PICK k \in Nat : /\ k = Len(MessagesAfter(cursor[d]))
                       /\ k # PageSize => cursor[d] + k >= Len(messages)
  BY <1>1, PageLength DEF ChatType, MessagesAfter
<1>3. /\ cursor' = [cursor EXCEPT ![d] = @ + k]
      /\ syncing' = IF k = PageSize THEN syncing ELSE syncing \ {d}
      /\ d \in syncing
      /\ UNCHANGED <<hub, phase, greeted, queue, messages, read, req, unannounced>>
  BY <1>2 DEF Fetch, hubVars
<1>4. HubInv'
  BY <1>1, <1>3 DEF HubInv, HubType, HubWithinLimits, SameUser, Peers, In
<1>5. ChatType'
  BY <1>1, <1>3 DEF ChatType
<1>6. AllFit'
  BY <1>1, <1>3, FitsUnchanged
<1>7. ASSUME NEW e \in Devices, Listens(e)', NEW n \in (cursor'[e] + 1)..Len(messages') PROVE Owed(e, n)'
  <2>1. CASE e # d
    <3>1. Listens(e) /\ cursor'[e] = cursor[e]
      BY <1>1, <1>3, <1>7, <2>1 DEF Listens, ChatType
    <3>2. Owed(e, n)
      BY <1>1, <1>3, <1>7, <3>1, MissedIsOwed
    <3> QED
      BY <1>3, <3>2 DEF Owed, Coming
  <2>2. CASE e = d
    <3>1. k # PageSize
      BY <1>3, <1>7, <2>2 DEF Listens
    <3>2. cursor'[d] = cursor[d] + k /\ cursor[d] \in Nat /\ Len(messages) \in Nat
      BY <1>1, <1>3 DEF ChatType
    <3> QED
      BY <1>2, <1>3, <1>7, <2>2, <3>1, <3>2
  <2> QED
    BY <2>1, <2>2
<1>8. NothingMissed'
  BY <1>7 DEF NothingMissed, Listens, Owed
<1> QED
  BY <1>4, <1>5, <1>6, <1>8 DEF ChatInv

\* The step HandlerReturns keeps the invariant.
LEMMA HandlerReturnsFits ==
  ASSUME ChatInv, NEW d \in Devices, HandlerReturns(d)
  PROVE  ChatInv'
<1>1. ChatType /\ AllFit /\ HubInv /\ NothingMissed /\ HubType /\ Return(d) /\ req[d] = NoRequest
      /\ greeted' = greeted \ {d}
  BY DEF ChatInv, HubInv, HandlerReturns, Return
<1>2. HubInv'
  BY <1>1, ReturnWithin
<1>3. UNCHANGED <<messages, cursor, unannounced>>
  BY DEF HandlerReturns
<1>4. ASSUME NEW c \in Callers
      PROVE  /\ req[c].step # "offering" => req'[c] = req[c]
             /\ req[c].step = "offering" =>
                   /\ req'[c] \in Offerings /\ req'[c].step = "offering"
                   /\ req'[c].frame = req[c].frame /\ req'[c].targets = req[c].targets \ {d}
  <2>1. req'[c] = IF req[c].step = "offering" THEN [req[c] EXCEPT !.targets = @ \ {d}] ELSE req[c]
    BY DEF HandlerReturns
  <2>2. CASE req[c].step = "offering"
    <3>1. req[c] \in Offerings
      BY <1>1, <2>2, Steps DEF ChatType
    <3> QED
      BY <2>1, <2>2, <3>1 DEF Offerings
  <2> QED
    BY <2>1, <2>2
<1>5. ChatType'
  <2>1. ASSUME NEW c \in Callers PROVE req'[c] \in Requests
    BY <1>1, <1>4 DEF ChatType, Requests
  <2>2. req' = [c \in Callers |-> req'[c]]
    BY DEF HandlerReturns
  <2>3. req' \in [Callers -> Requests]
    BY <2>1, <2>2
  <2> QED
    BY <1>1, <1>3, <2>3 DEF ChatType, HandlerReturns
<1>6. ASSUME NEW c \in Callers PROVE Fits(c)'
  <2>1. req[d].step = "idle"
    BY <1>1 DEF NoRequest
  <2>2. Fits(c)
    BY <1>1 DEF AllFit
  <2>3. CASE req[c].step = "offering"
    BY <1>1, <1>4, <2>1, <2>2, <2>3 DEF Fits
  <2>4. CASE req[c].step # "offering"
    <3>1. Insertable(c) /\ req[c].step = "locked" => Insertable(c)'
      BY <1>3, <1>4, <2>4 DEF Insertable, Existing, Same, SelectInSeq
    <3>2. \A e \in Callers : req'[e].step = req[e].step
      BY <1>4
    <3> QED
      BY <1>1, <1>3, <1>4, <2>1, <2>2, <2>4, <3>1, <3>2 DEF Fits
  <2> QED
    BY <2>3, <2>4
<1>7. ASSUME NEW e \in Devices, Listens(e)' PROVE Keeps(e)
  <2>1. e # d
    BY <1>1, <1>7 DEF Listens, Return, HubType
  <2>2. Listens(e) /\ queue'[e] = queue[e]
    BY <1>1, <1>7, <2>1 DEF Listens, Return, HandlerReturns, HubType
  <2>3. ASSUME NEW n \in Nat \ {0}, NEW c \in Callers, Carries(c, e, n) PROVE Carries(c, e, n)'
    BY <1>4, <2>1, <2>3 DEF Carries
  <2> QED
    BY <1>3, <2>2, <2>3, OwedIs, OwedIsNext DEF Keeps
<1>8. NothingMissed'
  BY <1>1, <1>3, <1>7, MissedStill
<1> QED
  BY <1>2, <1>5, <1>6, <1>8 DEF ChatInv, AllFit

\* The step Crash keeps the invariant: nobody listens any more.
LEMMA CrashFits ==
  ASSUME ChatInv, Crash
  PROVE  ChatInv'
<1>1. HubInv'
  BY RestartWithin DEF Crash
<1>2. ChatType' /\ AllFit'
  BY NewRequests DEF Crash, ChatInv, ChatType, AllFit, Fits, NoRequest
<1>3. NothingMissed'
  BY DEF Crash, Restart, NothingMissed
<1> QED
  BY <1>1, <1>2, <1>3 DEF ChatInv

\* Every step keeps the invariant.
LEMMA ChatNextFits == ChatInv /\ [ChatNext]_chatVars => ChatInv'
<1> SUFFICES ASSUME ChatInv, [ChatNext]_chatVars PROVE ChatInv'
  OBVIOUS
<1>1. ASSUME NEW d \in Devices, Receive(d) \/ Fetch(d) \/ HandlerReturns(d) PROVE ChatInv'
  BY <1>1, ReceiveFits, FetchFits, HandlerReturnsFits
<1>2. ASSUME NEW c \in Callers, NEW u \in Users, NEW id \in ClientIds, NEW same \in BOOLEAN, SendMessage(c, u, id, same)
      PROVE  ChatInv'
  BY <1>2, SendFits
<1>3. ASSUME NEW c \in Callers, ServiceStep(c) PROVE ChatInv'
  BY <1>3, CommitFits, RollbackFits DEF ServiceStep
<1>4. ASSUME NEW c \in Callers, CallerStep(c) PROVE ChatInv'
  BY <1>4, CollectFits, NotifyFailsFits, OfferNextFits, ReplyFits DEF CallerStep
<1>5. CASE Crash
  BY <1>5, CrashFits
<1>6. CASE UNCHANGED chatVars
  <2>1. UNCHANGED <<hub, phase, greeted, queue, messages, read, req, unannounced, cursor, syncing>>
    BY <1>6 DEF chatVars, hubVars
  <2>2. HubInv' /\ ChatType' /\ NothingMissed'
    BY <2>1 DEF ChatInv, HubInv, HubType, HubWithinLimits, SameUser, Peers, In, ChatType, NothingMissed, Coming
  <2>3. AllFit'
    BY <2>1, FitsUnchanged DEF ChatInv
  <2> QED
    BY <2>2, <2>3 DEF ChatInv
<1> QED
  BY <1>1, <1>2, <1>3, <1>4, <1>5, <1>6, HubFits, AnnounceFits DEF ChatNext

\* Under the row lock of the conversation nothing else commits between the
\* lookup of a message with the same id and the insert (send.go): no
\* repetition meets the unique constraint and is refused.
THEOREM RepeatsAnswered == ChatSpec => []RepeatIsAnswered
<1>1. ChatInv => RepeatIsAnswered
  BY DEF ChatInv, AllFit, Fits, RepeatIsAnswered
<1> QED
  BY <1>1, InitFits, ChatNextFits, PTL DEF ChatSpec

\* What a listening client has not got is on its way, whatever the history,
\* the announcements and the hub do in between.
THEOREM ListenersMissNothing == ChatSpec => []NothingMissed
<1>1. ChatInv => NothingMissed
  BY DEF ChatInv
<1> QED
  BY <1>1, InitFits, ChatNextFits, PTL DEF ChatSpec

\* The limits hold for the hub as the chat uses it: it only ever offers frames
\* to connections that have been greeted.
THEOREM ChatLimitsHold == ChatSpec => []HubWithinLimits
<1>1. ChatInv => HubWithinLimits
  BY DEF ChatInv, HubInv
<1> QED
  BY <1>1, InitFits, ChatNextFits, PTL DEF ChatSpec

=============================================================================
