---------------------------- MODULE PipelineProofs ----------------------------
(***************************************************************************)
(* The safety of the event pipeline for every number of events, relays,    *)
(* crashes and failed calls, and every size of the batches; and that it    *)
(* implements EventDelivery, but for the liveness.                         *)
(***************************************************************************)
EXTENDS EventPipeline, DomainEvents, ArithmeticProofs

---------------------------------------------------------------------------
(* The inductive invariant *)

\* The topic is a sequence, and every relay has its batch and its flag.
Shapes ==
    /\ log \in Seq(Range(log))
    /\ DOMAIN row = EventIds
    /\ batch \in [Relays -> Range(batch)] /\ sent \in [Relays -> BOOLEAN]

\* A relay remembers a write only while the row it wrote heads its batch.
SentIsOnTopic ==
    \A r \in Relays : sent[r] => batch[r] # <<>> /\ Head(batch[r]) \in Range(log)

\* A message that needs a notification or a dead letter has it.
Handled(e) ==
    /\ Kind[e] = "notify" => e \in notified
    /\ Kind[e] = "invalid" => e \in dead

\* The consumer works on the message after the committed offset, and its stage
\* says what has been done for it.
Position ==
    /\ committed \in 0..Len(log)
    /\ current # 0 => current = committed + 1 /\ current <= Len(log)
    /\ current # 0 /\ stage \in {"push", "commit"} => Handled(log[current])
    /\ stage \in {"handle", "push", "commit"}

\* What is pushed is stored, and waits for its first push when it is about to be.
Pushing ==
    /\ pushes \in [EventIds -> Nat]
    /\ \A e \in EventIds : pushes[e] <= 1 /\ (pushes[e] # 0 => e \in notified)
    /\ current # 0 /\ stage = "push" /\ log[current] \in EventIds =>
          log[current] \in notified /\ pushes[log[current]] = 0

---------------------------------------------------------------------------
(* What a write does to the topic *)

\* An appended message is the last one of the topic; the others stay where they were.
LEMMA Appended ==
    ASSUME NEW x, log \in Seq(Range(log)), log' = Append(log, x)
    PROVE  /\ log' \in Seq(Range(log'))
           /\ Range(log') = Range(log) \cup {x}
           /\ Len(log') = Len(log) + 1
           /\ \A i \in 1..Len(log) : log'[i] = log[i]
<1> DEFINE S == Range(log) \cup {x}
<1>1. log \in Seq(S)
  BY DEF S
<1> HIDE DEF S
<1>2. /\ log' \in Seq(S) /\ Len(log') = Len(log) + 1 /\ log'[Len(log) + 1] = x
      /\ \A i \in 1..Len(log) : log'[i] = log[i]
  BY <1>1 DEF S
<1>3. Len(log) \in Nat /\ DOMAIN log = 1..Len(log) /\ DOMAIN log' = 1..(Len(log) + 1)
  BY <1>1, <1>2
<1>4. Range(log') = S
  BY <1>2, <1>3 DEF Range, S
<1> QED
  BY <1>2, <1>4 DEF S

\* The topic only grows.
Grown ==
    /\ log' \in Seq(Range(log')) /\ Range(log) \subseteq Range(log')
    /\ Len(log) \in Nat /\ Len(log') \in Nat /\ Len(log) <= Len(log')
    /\ \A i \in 1..Len(log) : log'[i] = log[i]

\* The topic only grows.
LEMMA Grows ==
    ASSUME Shapes, log' = log \/ \E x : log' = Append(log, x)
    PROVE  Grown
<1>1. Len(log) \in Nat
  BY DEF Shapes
<1>2. CASE log' = log
  BY <1>1, <1>2 DEF Grown, Shapes
<1>3. CASE \E x : log' = Append(log, x)
  BY <1>1, <1>3, Appended DEF Grown, Shapes
<1> QED
  BY <1>2, <1>3

---------------------------------------------------------------------------
(* The relays *)

RelayInv == Shapes /\ SentIsOnTopic /\ PublishedIsOnTopic

\* Rows and clocks: a transaction's insert, and the passing of time.
LEMMA RowStep ==
    ASSUME RelayInv, NEW e \in EventIds, Raise(e) \/ RowAges(e)
    PROVE  RelayInv' /\ UNCHANGED topicVars
<1>1. UNCHANGED <<batch, sent, topicVars>> /\ (UNCHANGED row \/ row' = [row EXCEPT ![e] = "pending"])
  BY DEF Raise, RowAges
<1> QED
  BY <1>1 DEF RelayInv, Shapes, SentIsOnTopic, PublishedIsOnTopic, topicVars

\* A claim hands rows to a relay that holds none; it marks none published.
LEMMA ClaimStep ==
    ASSUME RelayInv, NEW r \in Relays, Claim(r)
    PROVE  RelayInv' /\ UNCHANGED topicVars
<1> DEFINE taken == Oldest(Claimable)
<1>1. /\ batch[r] = <<>> /\ batch' = [batch EXCEPT ![r] = taken] /\ UNCHANGED <<sent, topicVars>>
      /\ row' = [e \in EventIds |-> IF e \in Range(taken) THEN "publishing"
                                    ELSE IF e \in Abandoned THEN "pending" ELSE row[e]]
  BY DEF Claim
<1> HIDE DEF taken
<1>2. ~sent[r]
  BY <1>1 DEF RelayInv, SentIsOnTopic, Shapes
<1>3. \A q \in Relays : sent'[q] => batch'[q] = batch[q] /\ sent[q]
  BY <1>1, <1>2 DEF RelayInv, Shapes
<1>4. Shapes'
  <2>1. batch' \in [Relays -> Range(batch')]
    BY <1>1 DEF RelayInv, Shapes, Range
  <2> QED
    BY <1>1, <2>1 DEF RelayInv, Shapes, topicVars
<1>5. SentIsOnTopic'
  BY <1>1, <1>3 DEF RelayInv, SentIsOnTopic, topicVars
<1>6. PublishedIsOnTopic'
  BY <1>1 DEF RelayInv, PublishedIsOnTopic, topicVars
<1> QED
  BY <1>1, <1>4, <1>5, <1>6 DEF RelayInv

\* A write puts the head of the batch on the topic.
LEMMA PublishStep ==
    ASSUME RelayInv, NEW r \in Relays, Publish(r)
    PROVE  RelayInv' /\ Grown
<1>1. /\ batch[r] # <<>> /\ log' = Append(log, Head(batch[r]))
      /\ sent' = [sent EXCEPT ![r] = TRUE] /\ UNCHANGED <<row, batch>>
  BY DEF Publish, Write
<1>2. Grown
  BY <1>1, Grows DEF RelayInv
<1>3. Range(log') = Range(log) \cup {Head(batch[r])}
  BY <1>1, Appended DEF RelayInv, Shapes
<1>4. Shapes'
  BY <1>1, <1>2 DEF RelayInv, Shapes, Grown
<1>5. SentIsOnTopic'
  <2> SUFFICES ASSUME NEW q \in Relays, sent'[q]
               PROVE  batch[q] # <<>> /\ Head(batch[q]) \in Range(log')
    BY <1>1 DEF SentIsOnTopic
  <2>1. CASE q = r
    BY <1>1, <1>3, <2>1
  <2>2. CASE q # r
    BY <1>1, <1>3, <2>2 DEF RelayInv, Shapes, SentIsOnTopic
  <2> QED
    BY <2>1, <2>2
<1>6. PublishedIsOnTopic'
  BY <1>1, <1>3 DEF RelayInv, PublishedIsOnTopic
<1> QED
  BY <1>2, <1>4, <1>5, <1>6 DEF RelayInv

\* The relay marks what it remembers to have written; were it to mark a row it
\* only claimed, a crash between the two would lose the event.
LEMMA MarkStep ==
    ASSUME RelayInv, NEW r \in Relays, MarkPublished(r)
    PROVE  RelayInv' /\ UNCHANGED topicVars
<1>1. /\ sent[r] /\ row' = [row EXCEPT ![Head(batch[r])] = "published"]
      /\ batch' = [batch EXCEPT ![r] = Tail(@)] /\ sent' = [sent EXCEPT ![r] = FALSE]
      /\ UNCHANGED topicVars
  BY DEF MarkPublished
<1>2. Head(batch[r]) \in Range(log)
  BY <1>1 DEF RelayInv, SentIsOnTopic
<1>3. Shapes'
  <2>1. batch' \in [Relays -> Range(batch')]
    BY <1>1 DEF RelayInv, Shapes, Range
  <2> QED
    BY <1>1, <2>1 DEF RelayInv, Shapes, topicVars
<1>4. SentIsOnTopic'
  <2>1. \A q \in Relays : sent'[q] => sent[q] /\ batch'[q] = batch[q]
    BY <1>1 DEF RelayInv, Shapes
  <2> QED
    BY <1>1, <2>1 DEF RelayInv, SentIsOnTopic, topicVars
<1>5. PublishedIsOnTopic'
  BY <1>1, <1>2 DEF RelayInv, Shapes, PublishedIsOnTopic, topicVars
<1> QED
  BY <1>1, <1>3, <1>4, <1>5 DEF RelayInv

\* A relay that fails forgets its batch; whatever of it reached the topic stays.
LEMMA FailStep ==
    ASSUME RelayInv, NEW r \in Relays, PublishFails(r) \/ RelayCrash(r)
    PROVE  RelayInv' /\ Grown
<1>1. /\ batch' = [batch EXCEPT ![r] = <<>>]
      /\ (UNCHANGED sent /\ ~sent[r]) \/ sent' = [sent EXCEPT ![r] = FALSE]
      /\ log' = log \/ log' = Append(log, Head(batch[r]))
      /\ UNCHANGED row \/ row' = [row EXCEPT ![Head(batch[r])] = "pending"]
  BY DEF PublishFails, RelayCrash
<1>2. Grown
  BY <1>1, Grows DEF RelayInv
<1>3. Shapes'
  <2>1. batch' \in [Relays -> Range(batch')]
    BY <1>1 DEF RelayInv, Shapes, Range
  <2> QED
    BY <1>1, <1>2, <2>1 DEF RelayInv, Shapes, Grown
<1>4. SentIsOnTopic'
  <2>1. \A q \in Relays : sent'[q] => sent[q] /\ batch'[q] = batch[q]
    BY <1>1 DEF RelayInv, Shapes
  <2> QED
    BY <1>2, <2>1 DEF RelayInv, SentIsOnTopic, Grown
<1>5. PublishedIsOnTopic'
  BY <1>1, <1>2 DEF RelayInv, Shapes, PublishedIsOnTopic, Grown
<1> QED
  BY <1>2, <1>3, <1>4, <1>5 DEF RelayInv

\* Every step of producers, clock and relays preserves RelayInv, and the topic only grows.
LEMMA RelayingStep ==
    ASSUME RelayInv, Relaying
    PROVE  RelayInv' /\ Grown
<1>1. UNCHANGED topicVars => Grown
  BY Grows DEF RelayInv, topicVars
<1> QED
  BY <1>1, RowStep, ClaimStep, PublishStep, MarkStep, FailStep DEF Relaying, RelayStep

---------------------------------------------------------------------------
(* The consumer *)

ConsumerInv == Position /\ CommittedIsHandled /\ Pushing

\* A topic that grows behind the consumer's position changes nothing for it.
LEMMA ConsumerUndisturbed ==
    ASSUME ConsumerInv, Grown, UNCHANGED consumerVars
    PROVE  ConsumerInv'
<1>1. Position'
  BY DEF ConsumerInv, Position, Handled, Grown, consumerVars
<1>2. CommittedIsHandled'
  BY DEF ConsumerInv, Position, CommittedIsHandled, Grown, consumerVars
<1>3. Pushing'
  BY DEF ConsumerInv, Position, Pushing, Grown, consumerVars
<1> QED
  BY <1>1, <1>2, <1>3 DEF ConsumerInv

\* The consumer takes the message after the committed offset.
LEMMA FetchStep ==
    ASSUME ConsumerInv, Shapes, Fetch
    PROVE  ConsumerInv' /\ UNCHANGED topicVars
<1>1. Len(log) \in Nat /\ committed \in 0..Len(log) /\ committed < Len(log)
  BY DEF Shapes, ConsumerInv, Position, Fetch, More
<1>2. Position'
  BY <1>1 DEF ConsumerInv, Position, Fetch, topicVars
<1>3. CommittedIsHandled' /\ Pushing'
  BY DEF ConsumerInv, CommittedIsHandled, Pushing, Fetch, topicVars
<1> QED
  BY <1>2, <1>3 DEF ConsumerInv, Fetch

\* The consumer stores or buries the message, and pushes only what it stored just now.
LEMMA HandleStep ==
    ASSUME ConsumerInv, Shapes, Handle
    PROVE  ConsumerInv' /\ UNCHANGED topicVars
<1> DEFINE e == log[current]
<1>1. /\ current # 0 /\ stage = "handle" /\ UNCHANGED <<committed, current, pushes, topicVars>>
      /\ notified \subseteq notified' /\ dead \subseteq dead'
  BY DEF Handle, Store
<1>2. \/ /\ Kind[e] = "notify" /\ e \in notified' /\ UNCHANGED dead
         /\ stage' = IF e \in notified THEN "commit" ELSE "push"
      \/ /\ Kind[e] # "notify" /\ stage' = "commit" /\ UNCHANGED notified
         /\ Kind[e] = "invalid" => e \in dead'
  BY DEF Handle, Store
<1>3. Position'
  <2>1. Kind[e] = "notify" => e \in notified'
    BY <1>2
  <2>2. Kind[e] = "invalid" => e \in dead'
    BY <1>2
  <2> QED
    BY <1>1, <1>2, <2>1, <2>2 DEF ConsumerInv, Position, Handled, topicVars
<1>4. CommittedIsHandled'
  BY <1>1 DEF ConsumerInv, CommittedIsHandled, topicVars
<1>5. Pushing'
  <2>1. \A x \in EventIds : pushes[x] <= 1 /\ (pushes[x] # 0 => x \in notified')
    BY <1>1 DEF ConsumerInv, Pushing
  <2>2. stage' = "push" => e \in notified' /\ e \notin notified
    BY <1>2
  <2>3. stage' = "push" /\ e \in EventIds => e \in notified' /\ pushes[e] = 0
    BY <2>2 DEF ConsumerInv, Pushing
  <2> QED
    BY <1>1, <2>1, <2>3 DEF ConsumerInv, Pushing, topicVars
<1> QED
  BY <1>1, <1>3, <1>4, <1>5 DEF ConsumerInv

\* A push is the first one of its event.
LEMMA PushStep ==
    ASSUME ConsumerInv, Shapes, Push
    PROVE  ConsumerInv' /\ UNCHANGED topicVars
<1>1. /\ current # 0 /\ stage = "push" /\ stage' = "commit"
      /\ pushes' = pushes \/ pushes' = [pushes EXCEPT ![log[current]] = @ + 1]
      /\ UNCHANGED <<committed, current, notified, dead, topicVars>>
  BY DEF Push
<1>2. Position'
  BY <1>1 DEF ConsumerInv, Position, Handled, topicVars
<1>3. CommittedIsHandled'
  BY <1>1 DEF ConsumerInv, CommittedIsHandled, topicVars
<1>4. Pushing'
  <2>1. /\ pushes' \in [EventIds -> Nat]
        /\ \A e \in EventIds : pushes'[e] <= 1 /\ (pushes'[e] # 0 => e \in notified)
    BY <1>1 DEF ConsumerInv, Pushing
  <2> QED
    BY <1>1, <2>1 DEF Pushing
<1> QED
  BY <1>1, <1>2, <1>3, <1>4 DEF ConsumerInv

\* The commit follows the handling of exactly the message it covers.
LEMMA CommitStep ==
    ASSUME ConsumerInv, Shapes, Commit
    PROVE  ConsumerInv' /\ UNCHANGED topicVars
<1>1. /\ current # 0 /\ stage = "commit" /\ committed' = current /\ current' = 0
      /\ UNCHANGED <<stage, notified, pushes, dead, topicVars>>
  BY DEF Commit
<1>2. /\ Len(log) \in Nat /\ committed \in 0..Len(log)
      /\ current = committed + 1 /\ current <= Len(log) /\ Handled(log[current])
  BY <1>1 DEF Shapes, ConsumerInv, Position
<1>3. Position'
  BY <1>1, <1>2 DEF ConsumerInv, Position, topicVars
<1>4. CommittedIsHandled'
  <2> SUFFICES ASSUME NEW i \in 1..current
               PROVE  /\ Kind[log[i]] = "notify" => log[i] \in notified
                      /\ Kind[log[i]] = "invalid" => log[i] \in dead
    BY <1>1 DEF CommittedIsHandled, topicVars
  <2>1. CASE i = current
    BY <1>2, <2>1 DEF Handled
  <2>2. CASE i # current
    BY <1>2, <2>2 DEF ConsumerInv, CommittedIsHandled
  <2> QED
    BY <2>1, <2>2
<1>5. Pushing'
  BY <1>1 DEF ConsumerInv, Pushing
<1> QED
  BY <1>1, <1>3, <1>4, <1>5 DEF ConsumerInv

\* A crash forgets the message at work; the next start fetches it again.
LEMMA CrashStep ==
    ASSUME ConsumerInv, Shapes, ConsumerCrash
    PROVE  ConsumerInv' /\ UNCHANGED log
<1>1. Position'
  BY DEF ConsumerInv, Position, ConsumerCrash
<1>2. CommittedIsHandled' /\ Pushing'
  BY DEF ConsumerInv, CommittedIsHandled, Pushing, ConsumerCrash
<1> QED
  BY <1>1, <1>2 DEF ConsumerInv, ConsumerCrash

---------------------------------------------------------------------------
(* The whole *)

\* The empty pipeline satisfies both invariants.
LEMMA PipelineInit == Init => RelayInv /\ ConsumerInv
<1> SUFFICES ASSUME Init PROVE RelayInv /\ ConsumerInv
  OBVIOUS
<1>1. log = <<>> /\ Len(log) = 0
  BY DEF Init, TopicInit
<1>2. Shapes
  <2>1. batch \in [Relays -> Range(batch)]
    BY DEF Init, RelayInit, Range
  <2>2. sent \in [Relays -> BOOLEAN] /\ DOMAIN row = EventIds
    BY DEF Init, RelayInit
  <2> QED
    BY <1>1, <2>1, <2>2 DEF Shapes
<1>3. SentIsOnTopic /\ PublishedIsOnTopic
  BY DEF Init, RelayInit, SentIsOnTopic, PublishedIsOnTopic
<1>4. Position /\ CommittedIsHandled /\ Pushing
  BY <1>1 DEF Init, ConsumerInit, Position, CommittedIsHandled, Pushing
<1> QED
  BY <1>2, <1>3, <1>4 DEF RelayInv, ConsumerInv

\* Every step of the pipeline preserves both.
LEMMA PipelineStep == RelayInv /\ ConsumerInv /\ [Next]_vars => RelayInv' /\ ConsumerInv'
<1> SUFFICES ASSUME RelayInv, ConsumerInv, [Next]_vars PROVE RelayInv' /\ ConsumerInv'
  OBVIOUS
<1>1. ASSUME UNCHANGED <<log, relayVars>> PROVE RelayInv'
  BY <1>1 DEF RelayInv, Shapes, SentIsOnTopic, PublishedIsOnTopic, relayVars
<1>2. CASE UNCHANGED vars
  <2>1. Grown
    BY <1>2, Grows DEF RelayInv, vars, topicVars
  <2> QED
    BY <1>1, <1>2, <2>1, ConsumerUndisturbed DEF vars, topicVars
<1>3. CASE Relaying /\ UNCHANGED consumerVars
  BY <1>3, RelayingStep, ConsumerUndisturbed
<1>4. CASE (ConsumerStep \/ ConsumerCrash) /\ UNCHANGED relayVars
  <2>1. ConsumerInv' /\ UNCHANGED log
    BY <1>4, FetchStep, HandleStep, PushStep, CommitStep, CrashStep
       DEF ConsumerStep, RelayInv, topicVars
  <2> QED
    BY <1>1, <1>4, <2>1
<1> QED
  BY <1>2, <1>3, <1>4 DEF Next

\* Both hold in every behaviour of the pipeline.
LEMMA PipelineInductive == Spec => [](RelayInv /\ ConsumerInv)
<1> QED
  BY PipelineInit, PipelineStep, PTL DEF Spec

\* A row is marked published only when it is on the topic, however relays crash,
\* fail and overtake each other.
THEOREM NothingDropped == Spec => []PublishedIsOnTopic
<1>1. RelayInv => PublishedIsOnTopic
  BY DEF RelayInv
<1> QED
  BY <1>1, PipelineInductive, PTL

\* The consumer moves past a message only when it is done with it.
THEOREM NothingSkipped == Spec => []CommittedIsHandled
<1>1. ConsumerInv => CommittedIsHandled
  BY DEF ConsumerInv
<1> QED
  BY <1>1, PipelineInductive, PTL

\* However often an event is delivered, the customer's connections see it at most
\* once, and not before it is stored.
THEOREM NothingPushedTwice == Spec => []PushedAtMostOnce
<1>1. ConsumerInv => PushedAtMostOnce
  BY DEF ConsumerInv, Pushing, PushedAtMostOnce
<1> QED
  BY <1>1, PipelineInductive, PTL

---------------------------------------------------------------------------
(* What handlers raise is understood *)

\* Whatever the handlers write to the outbox, the notification service makes a
\* notification of it exactly if it is for a customer, and passes the rest over:
\* nothing a handler of this system raises ends among the dead letters.
THEOREM RaisedAreUnderstood ==
    /\ \A e \in ToCustomers : recipient(e) = "notify"
    /\ \A e \in ToOthers : recipient(e) = "skip"
<1>1. ASSUME NEW e \in ToCustomers PROVE recipient(e) = "notify"
  <2>1. Understood(e) /\ e.type \in {"order_created", "payment_succeeded", "order_status_changed"}
    <3>1. CASE e \in Checkouts
      <4>1. PICK p \in [order : Uuids, user : Uuids, total : Nat, discount : Nat, currency : {"VND"}] :
              e = Envelope("order_created", "order", p.order, p)
        BY <3>1 DEF Checkouts
      <4> QED BY <4>1, DomainAssumption DEF Envelope, Understood, Header, OrderCreated
    <3>2. CASE e \in Cancellations
      <4>1. PICK p \in [order : Uuids, user : Uuids, status : {"cancelled"}] :
              e = Envelope("order_status_changed", "order", p.order, p)
        BY <3>2 DEF Cancellations
      <4> QED BY <4>1, DomainAssumption DEF Envelope, Understood, Header, OrderStatusChanged
    <3>3. CASE e \in Fulfilments
      <4>1. PICK c \in Uuids,
                   p \in [order : Uuids, user : Uuids, status : {"confirmed", "shipping", "delivered"}] :
              e = Envelope("order_status_changed", "seller_order", c, p)
        BY <3>3 DEF Fulfilments
      <4> QED BY <4>1, DomainAssumption DEF Envelope, Understood, Header, OrderStatusChanged
    <3>4. CASE e \in Transfers
      <4>1. PICK id \in Uuids, p \in PaidBy("sepay") :
              e = Envelope("payment_succeeded", "payment", id, p)
        BY <3>4 DEF Transfers
      <4> QED BY <4>1, DomainAssumption DEF Envelope, Understood, Header, PaymentSucceeded, PaidBy
    <3>5. CASE e \in Settlements
      <4>1. PICK p \in PaidBy("cod") :
              e = Envelope("payment_succeeded", "order", p.order, p)
        BY <3>5 DEF Settlements
      <4> QED BY <4>1, DomainAssumption DEF Envelope, Understood, Header, PaymentSucceeded, PaidBy
    <3> QED BY <1>1, <3>1, <3>2, <3>3, <3>4, <3>5 DEF ToCustomers
  <2> QED BY <2>1 DEF recipient
<1>2. ASSUME NEW e \in ToOthers PROVE recipient(e) = "skip"
  <2>1. Understood(e) /\ e.type \notin {"order_created", "payment_succeeded", "order_status_changed"}
    <3>1. CASE e \in Reviewed
      <4>1. PICK r \in Uuids, s \in {"requires_review", "unmatched"} :
              e = Envelope("payment_reconciliation_required", "payment_webhook", r, [status |-> s])
        BY <3>1 DEF Reviewed
      <4> QED BY <4>1, DomainAssumption DEF Envelope, Understood, Header
    <3>2. CASE e \in Parcels
      <4>1. PICK s \in Uuids, c \in Uuids :
              e = Envelope("shipment_status_changed", "shipment", s, [order |-> c])
        BY <3>2 DEF Parcels
      <4> QED BY <4>1, DomainAssumption DEF Envelope, Understood, Header
    <3>3. CASE e \in Products
      <4>1. PICK p \in Uuids :
              e = Envelope("product_search_updated", "product", p, [none |-> Nil])
        BY <3>3 DEF Products
      <4> QED BY <4>1, DomainAssumption DEF Envelope, Understood, Header
    <3>4. CASE e \in Inventory
      <4>1. PICK v \in Uuids, d \in Int :
              e = Envelope("inventory_changed", "variant", v, [delta |-> d])
        BY <3>4 DEF Inventory
      <4> QED BY <4>1, DomainAssumption DEF Envelope, Understood, Header
    <3>5. CASE e \in Reviews
      <4>1. PICK p \in Uuids :
              e = Envelope("review_search_updated", "product", p, [product |-> p])
        BY <3>5 DEF Reviews
      <4> QED BY <4>1, DomainAssumption DEF Envelope, Understood, Header
    <3>6. CASE e \in ShopStatuses
      <4>1. PICK s \in Uuids, t \in {"approved", "rejected", "suspended"} :
              e = Envelope("seller_status_changed", "seller", s, [status |-> t])
        BY <3>6 DEF ShopStatuses
      <4> QED BY <4>1, DomainAssumption DEF Envelope, Understood, Header
    <3>7. CASE e \in ShopChanges
      <4>1. PICK s \in Uuids, t \in {"seller_search_updated", "seller_updated", "seller_member_updated"} :
              e = Envelope(t, "seller", s, [none |-> Nil])
        BY <3>7 DEF ShopChanges
      <4> QED BY <4>1, DomainAssumption DEF Envelope, Understood, Header
    <3> QED BY <1>2, <3>1, <3>2, <3>3, <3>4, <3>5, <3>6, <3>7 DEF ToOthers
  <2> QED BY <2>1 DEF recipient
<1> QED BY <1>1, <1>2

---------------------------------------------------------------------------
(* What producers rely on *)

\* The events of the transactions committed so far.
Raised == {e \in EventIds : row[e] # "none"}

\* Relays carry, and the topic has, only what a transaction raised.
OnlyRaised ==
    /\ IsFiniteSet(Raised)
    /\ log \in Seq(Raised)
    /\ \A r \in Relays : batch[r] \in Seq(Raised)

\* A claim takes some of what may be claimed.
LEMMA OldestIsRight ==
    ASSUME NEW S \in SUBSET Nat, IsFiniteSet(S)
    PROVE  Oldest(S) \in Seq(S)
<1> DEFINE n == Cardinality(S)
           k == Min({BatchSize, n})
           ordered == Ascending(S)
<1>1. n \in Nat /\ BatchSize \in Nat
  BY FS_CardinalityType, RelayAssumption
<1>2. k \in Nat /\ k <= n
  <2> HIDE DEF n
  <2>1. \E x \in {BatchSize, n} : \A y \in {BatchSize, n} : x <= y
    BY <1>1
  <2>2. k \in {BatchSize, n} /\ \A y \in {BatchSize, n} : k <= y
    BY <2>1 DEF Min
  <2> QED
    BY <1>1, <2>2
<1>3. ordered \in Seq(S) /\ Len(ordered) = n
  BY AscendingIsRight
<1>4. Oldest(S) = SubSeq(ordered, 1, k)
  BY DEF Oldest
<1> HIDE DEF n, k, ordered
<1> QED
  BY <1>1, <1>2, <1>3, <1>4

\* What was raised stays raised.
LEMMA StillRaised ==
    ASSUME NEW S, NEW T, S \subseteq T, NEW s \in Seq(S)
    PROVE  s \in Seq(T)
<1>1. s = [i \in 1..Len(s) |-> s[i]] /\ Len(s) \in Nat /\ \A i \in 1..Len(s) : s[i] \in T
  OBVIOUS
<1> QED
  BY <1>1

\* A transaction's insert is one event more; nothing else raises one.
LEMMA RaiseRaises ==
    ASSUME RelayInv, OnlyRaised, NEW e \in EventIds, Raise(e)
    PROVE  OnlyRaised' /\ e \notin Raised /\ Raised' = Raised \cup {e}
<1>1. /\ row[e] = "none" /\ row' = [row EXCEPT ![e] = "pending"] /\ UNCHANGED <<batch, log>>
      /\ DOMAIN row = EventIds
  BY DEF Raise, RelayInv, Shapes, topicVars
<1>2. e \notin Raised /\ Raised' = Raised \cup {e}
  BY <1>1 DEF Raised
<1>3. IsFiniteSet(Raised')
  BY <1>2, FS_AddElement DEF OnlyRaised
<1>4. log' \in Seq(Raised') /\ \A r \in Relays : batch'[r] \in Seq(Raised')
  <2>1. Raised \subseteq Raised'
    BY <1>2
  <2>2. log \in Seq(Raised') /\ \A r \in Relays : batch[r] \in Seq(Raised')
    BY <2>1, StillRaised DEF OnlyRaised
  <2> QED
    BY <1>1, <2>2
<1> QED
  BY <1>2, <1>3, <1>4 DEF OnlyRaised

\* A claim.
LEMMA ClaimRaisesNone ==
    ASSUME RelayInv, OnlyRaised, NEW r \in Relays, Claim(r)
    PROVE  OnlyRaised' /\ UNCHANGED Raised
<1> DEFINE taken == Oldest(Claimable)
<1>1. taken \in Seq(Claimable)
  <2>1. Claimable \subseteq Raised
    BY DEF Claimable, Abandoned, Raised
  <2>2. IsFiniteSet(Claimable)
    BY <2>1, FS_Subset DEF OnlyRaised
  <2>3. Claimable \in SUBSET Nat
    BY TopicAssumption DEF Claimable, Abandoned
  <2> QED
    BY <2>2, <2>3, OldestIsRight
<1>2. /\ batch' = [batch EXCEPT ![r] = taken] /\ UNCHANGED log
      /\ row' = [e \in EventIds |-> IF e \in Range(taken) THEN "publishing"
                                    ELSE IF e \in Abandoned THEN "pending" ELSE row[e]]
  BY DEF Claim, topicVars
<1> HIDE DEF taken
<1>3. Range(taken) \subseteq Claimable
  BY <1>1 DEF Range
<1>4. Claimable \subseteq Raised /\ Abandoned \subseteq Raised
  BY DEF Claimable, Abandoned, Raised
<1>5. Raised' = Raised
  <2>1. \A e \in EventIds : row'[e] # "none" <=> row[e] # "none"
    BY <1>2, <1>3, <1>4 DEF Raised
  <2> QED
    BY <2>1 DEF Raised
<1>6. taken \in Seq(Raised)
  BY <1>1, <1>4, StillRaised
<1>7. \A q \in Relays : batch'[q] \in Seq(Raised)
  BY <1>2, <1>6 DEF OnlyRaised, RelayInv, Shapes
<1> QED
  BY <1>2, <1>5, <1>7 DEF OnlyRaised

\* What a relay does with its batch.
LEMMA BatchRaisesNone ==
    ASSUME RelayInv, OnlyRaised, NEW r \in Relays,
           Publish(r) \/ MarkPublished(r) \/ PublishFails(r) \/ RelayCrash(r)
    PROVE  OnlyRaised' /\ UNCHANGED Raised
<1> DEFINE head == Head(batch[r])
<1>1. batch[r] \in Seq(Raised) /\ batch[r] # <<>>
  BY DEF OnlyRaised, RelayInv, SentIsOnTopic, Publish, MarkPublished, PublishFails, RelayCrash
<1>2. head \in Raised /\ Tail(batch[r]) \in Seq(Raised)
  BY <1>1
<1>3. UNCHANGED log \/ log' = Append(log, head)
  BY DEF Publish, Write, MarkPublished, PublishFails, RelayCrash, topicVars
<1>4. UNCHANGED row \/ \E status \in {"pending", "published"} : row' = [row EXCEPT ![head] = status]
  BY DEF Publish, MarkPublished, PublishFails, RelayCrash
<1>5. \/ UNCHANGED batch
      \/ batch' = [batch EXCEPT ![r] = <<>>]
      \/ batch' = [batch EXCEPT ![r] = Tail(batch[r])]
  BY DEF Publish, MarkPublished, PublishFails, RelayCrash
<1> HIDE DEF head
<1>6. Raised' = Raised
  <2>1. \A e \in EventIds : row'[e] # "none" <=> row[e] # "none"
    BY <1>2, <1>4 DEF Raised, RelayInv, Shapes
  <2> QED
    BY <2>1 DEF Raised
<1>7. log' \in Seq(Raised)
  BY <1>2, <1>3 DEF OnlyRaised
<1>8. \A q \in Relays : batch'[q] \in Seq(Raised)
  <2> DEFINE rest == Tail(batch[r])
  <2>1. rest \in Seq(Raised) /\ <<>> \in Seq(Raised)
    BY <1>2
  <2>2. \A q \in Relays : batch[q] \in Seq(Raised)
    BY DEF OnlyRaised
  <2>3. \/ UNCHANGED batch
        \/ batch' = [batch EXCEPT ![r] = <<>>]
        \/ batch' = [batch EXCEPT ![r] = rest]
    BY <1>5
  <2> HIDE DEF rest
  <2> QED
    BY <2>1, <2>2, <2>3 DEF RelayInv, Shapes
<1> QED
  BY <1>6, <1>7, <1>8 DEF OnlyRaised

\* A step that leaves rows, batches and topic alone.
LEMMA OthersRaiseNone ==
    ASSUME OnlyRaised, UNCHANGED <<row, batch, log>>
    PROVE  OnlyRaised' /\ UNCHANGED Raised
BY DEF OnlyRaised, Raised

\* The consumer's step on a message notifies or buries an event that was raised,
\* if it has not been before.
LEMMA HandleDelivers ==
    ASSUME ConsumerInv, OnlyRaised, Handle, UNCHANGED row
    PROVE  [Delivery!Next]_Delivery!vars
<1> DEFINE e == log[current]
<1>1. e \in Raised /\ e \in EventIds
  <2>1. current \in 1..Len(log)
    BY DEF Handle, ConsumerInv, Position, OnlyRaised
  <2>2. e \in Raised
    BY <2>1 DEF OnlyRaised
  <2> QED
    BY <2>2 DEF Raised
<1>2. UNCHANGED Raised
  BY DEF Raised
<1>3. \/ Kind[e] = "notify" /\ notified' = notified \cup {e} /\ UNCHANGED dead
      \/ /\ Kind[e] # "notify" /\ UNCHANGED notified
         /\ dead' = IF Kind[e] = "invalid" THEN dead \cup {e} ELSE dead
  BY DEF Handle, Store
<1> HIDE DEF e
<1>4. CASE Kind[e] = "notify" /\ notified' = notified \cup {e} /\ UNCHANGED dead /\ e \notin notified
  <2>1. Delivery!Notify(e)
    BY <1>1, <1>2, <1>4 DEF Delivery!Notify, Raised
  <2> QED
    BY <1>1, <2>1 DEF Delivery!Next
<1>5. CASE Kind[e] = "invalid" /\ dead' = dead \cup {e} /\ UNCHANGED notified /\ e \notin dead
  <2>1. Delivery!Bury(e)
    BY <1>1, <1>2, <1>5 DEF Delivery!Bury, Raised
  <2> QED
    BY <1>1, <2>1 DEF Delivery!Next
<1>6. CASE notified' = notified /\ dead' = dead
  BY <1>2, <1>6 DEF Delivery!vars, Raised
<1> QED
  BY <1>3, <1>4, <1>5, <1>6

\* Nothing is raised, notified or buried.
LEMMA NothingDelivered ==
    ASSUME UNCHANGED <<Raised, notified, dead>>
    PROVE  [Delivery!Next]_Delivery!vars
BY DEF Delivery!vars, Raised

\* Each step of the pipeline is one of what it promises, or none.
LEMMA StepDelivers ==
    ASSUME RelayInv, ConsumerInv, OnlyRaised, [Next]_vars
    PROVE  OnlyRaised' /\ [Delivery!Next]_Delivery!vars
<1>1. CASE UNCHANGED vars
  BY <1>1, OthersRaiseNone, NothingDelivered DEF vars, relayVars, consumerVars, topicVars
<1>2. CASE Relaying /\ UNCHANGED consumerVars
  <2>1. UNCHANGED <<notified, dead>>
    BY <1>2 DEF consumerVars
  <2>2. ASSUME NEW e \in EventIds, Raise(e)
        PROVE  OnlyRaised' /\ [Delivery!Next]_Delivery!vars
    <3>1. OnlyRaised' /\ e \notin Raised /\ Raised' = Raised \cup {e}
      BY <2>2, RaiseRaises
    <3>2. Delivery!Raise(e)
      BY <2>1, <3>1 DEF Delivery!Raise, Raised
    <3> QED
      BY <3>1, <3>2 DEF Delivery!Next
  <2>3. ASSUME NEW e \in EventIds, RowAges(e)
        PROVE  OnlyRaised' /\ UNCHANGED Raised
    BY <2>3, OthersRaiseNone DEF RowAges, topicVars
  <2>4. ASSUME NEW r \in Relays, RelayStep(r) \/ PublishFails(r) \/ RelayCrash(r)
        PROVE  OnlyRaised' /\ UNCHANGED Raised
    BY <2>4, ClaimRaisesNone, BatchRaisesNone DEF RelayStep
  <2> QED
    BY <1>2, <2>1, <2>2, <2>3, <2>4, NothingDelivered DEF Relaying
<1>3. CASE (ConsumerStep \/ ConsumerCrash) /\ UNCHANGED relayVars
  <2>1. UNCHANGED <<row, batch, log>>
    BY <1>3 DEF relayVars, ConsumerStep, ConsumerCrash, Fetch, Handle, Push, Commit, topicVars
  <2>2. OnlyRaised' /\ UNCHANGED Raised
    BY <2>1, OthersRaiseNone
  <2>3. CASE Handle
    BY <2>1, <2>2, <2>3, HandleDelivers
  <2>4. CASE Fetch \/ Push \/ Commit \/ ConsumerCrash
    <3>1. UNCHANGED <<notified, dead>>
      BY <2>4 DEF ConsumerCrash, Fetch, Push, Commit
    <3> QED
      BY <2>2, <3>1, NothingDelivered
  <2> QED
    BY <1>3, <2>3, <2>4 DEF ConsumerStep
<1> QED
  BY <1>1, <1>2, <1>3 DEF Next

\* The pipeline implements what producers rely on, but for the liveness: an event
\* is notified or buried only after a transaction raised it, and only once.
THEOREM ImplementsDelivery == Spec => Delivery!Init /\ [][Delivery!Next]_Delivery!vars
<1>1. Init => OnlyRaised
  <2> SUFFICES ASSUME Init PROVE OnlyRaised
    OBVIOUS
  <2>1. /\ row = [e \in EventIds |-> "none"] /\ batch = [r \in Relays |-> <<>>] /\ log = <<>>
    BY DEF Init, RelayInit, TopicInit
  <2>2. Raised = {}
    BY <2>1 DEF Raised
  <2>3. IsFiniteSet(Raised)
    BY <2>2, FS_EmptySet
  <2> QED
    BY <2>1, <2>3 DEF OnlyRaised
<1>2. Init => Delivery!Init
  BY DEF Init, RelayInit, ConsumerInit, Delivery!Init
<1>3. RelayInv /\ ConsumerInv /\ OnlyRaised /\ [Next]_vars => OnlyRaised' /\ [Delivery!Next]_Delivery!vars
  BY StepDelivers
<1> QED
  BY <1>1, <1>2, <1>3, PipelineInductive, PTL DEF Spec

=============================================================================
