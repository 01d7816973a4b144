------------------------- MODULE SearchIndexProofs --------------------------
(***************************************************************************)
(* The search index, for any number of products, transactions, repeated    *)
(* deliveries and rebuilds, with one indexer. In the inductive invariant   *)
(* each product whose document in the index is not right is on its way: in *)
(* a message not yet taken, in the hands of the indexer, or, for the index *)
(* of a rebuild, on a page not yet read or in a row to be replayed; and a  *)
(* document that was read before a change is not the last to be written.   *)
(***************************************************************************)
EXTENDS SearchIndex, FiniteSetTheorems, TLAPS

-----------------------------------------------------------------------------
(* The catalogue *)

Ids    == Products \cup {Shop}
Events == [id : Ids, epoch : {0, 1}]
Rows   == [status : {"absent", "draft", "published", "archived"}, categorised : BOOLEAN, rev : Nat]

\* A transaction's writes are about the shop, or about a product it may save.
Writes(t) ==
    txn[t].phase = "written" =>
        /\ txn[t].event \in Events
        /\ txn[t].kind = "save" /\ txn[t].event.id # Shop =>
              txn[t].new \in [status : {"draft", "published", "archived"}, categories : CategoryInputs]
        /\ txn[t].kind # "save" => product[txn[t].event.id] # Absent /\ txn[t].event.id # Shop

Checks(t) ==
    txn[t].phase \in {"read", "checked"} =>
        /\ txn[t].id \in Products
        /\ txn[t].status \in {"draft", "published", "archived"}
        /\ txn[t].categories \in CategoryInputs

CatalogType ==
    /\ product \in [Products -> Rows]
    /\ \A p \in Products : product[p] = Absent \/ product[p].status # "absent"
    /\ DOMAIN txn = Txns
    /\ \A t \in Txns : Writes(t) /\ Checks(t)
    /\ outbox \in Seq(Events)
    /\ epoch \in {0, 1}

\* Initially nothing is in the catalogue.
LEMMA CatalogStarts == CatalogInit => CatalogType
BY CatalogAssumption DEF CatalogInit, CatalogType, Rows, Absent, Idle, Writes, Checks

\* What a step of the catalogue does not do to the products and the outbox.
CatalogKept == product' = product /\ approved' = approved /\ outbox' = outbox /\ epoch' = epoch

Turns(t, r) == txn' = [txn EXCEPT ![t] = r]

\* A transaction that turns to a well formed step keeps the types.
LEMMA TurnTyped ==
  ASSUME CatalogType, NEW t \in Txns, NEW r, Turns(t, r), CatalogKept,
         r.phase = "written" =>
            /\ r.event \in Events
            /\ r.kind = "save" /\ r.event.id # Shop =>
                 r.new \in [status : {"draft", "published", "archived"}, categories : CategoryInputs]
            /\ r.kind # "save" => product[r.event.id] # Absent /\ r.event.id # Shop,
         r.phase \in {"read", "checked"} =>
            /\ r.id \in Products
            /\ r.status \in {"draft", "published", "archived"}
            /\ r.categories \in CategoryInputs
  PROVE  CatalogType'
<1>1. \A u \in Txns : txn'[u] = IF u = t THEN r ELSE txn[u]
  BY DEF Turns, CatalogType
<1>2. ASSUME NEW u \in Txns PROVE Writes(u)' /\ Checks(u)'
  <2>1. CASE u = t
    BY <1>1, <2>1 DEF Writes, Checks, CatalogKept
  <2>2. CASE u # t
    BY <1>1, <2>2 DEF Writes, Checks, CatalogKept, CatalogType
  <2> QED
    BY <2>1, <2>2
<1>3. DOMAIN txn' = Txns
  BY DEF Turns, CatalogType
<1> QED
  BY <1>2, <1>3 DEF CatalogType, CatalogKept

\* What a commit does to the documents: a document that changes is one its
\* event is about, and no product goes away.
Changes(e) ==
    /\ outbox' = Append(outbox, e) /\ epoch' = epoch
    /\ \A p \in Products : product[p] # Absent => product'[p] # Absent
    /\ \A p \in Products : Document(p)' # Document(p) => p \in Affected(e)

\* The step Commit changes the document its event is about, or those of the
\* shop.
LEMMA CommitChanges ==
  ASSUME CatalogType, NEW t \in Txns, Commit(t)
  PROVE  CatalogType' /\ \E e \in Events : Changes(e)
<1>1. PICK e \in Events : e = txn[t].event
  BY DEF CatalogType, Writes, Commit
<1>2. /\ txn[t].kind = "save" /\ e.id # Shop =>
            txn[t].new \in [status : {"draft", "published", "archived"}, categories : CategoryInputs]
      /\ txn[t].kind # "save" => product[e.id] # Absent /\ e.id # Shop
      /\ e.id \in Ids /\ e.epoch \in {0, 1}
  BY <1>1 DEF CatalogType, Writes, Commit, Events
<1>3. /\ outbox' = Append(outbox, e) /\ epoch' = epoch
      /\ approved' = IF e.id = Shop THEN txn[t].new ELSE approved
      /\ Turns(t, Idle)
  BY <1>1 DEF Commit, Turns
<1>4. \A p \in Products : p # Shop /\ product[p] \in Rows /\ (product[p] = Absent \/ product[p].status # "absent")
  BY CatalogAssumption DEF CatalogType, Shop
<1>5. ASSUME NEW p \in Products
      PROVE  /\ product'[p] \in Rows
             /\ product'[p] = product[p] \/ product'[p].status # "absent"
             /\ product'[p] # product[p] => p \in Affected(e)
  <2>1. product'[p] = 
          IF p = e.id /\ txn[t].kind = "save" THEN SaveRow(product[p], txn[t].new)
          ELSE IF p \in Affected(e) /\ txn[t].kind # "stock" THEN [product[p] EXCEPT !.rev = @ + 1]
          ELSE product[p]
    BY <1>1 DEF Commit
  <2>2. CASE p = e.id /\ txn[t].kind = "save"
    <3>1. product'[p] = SaveRow(product[p], txn[t].new)
      BY <2>1, <2>2
    <3>2. p \in Affected(e)
      BY <1>4, <2>2 DEF Affected
    <3>3. SaveRow(product[p], txn[t].new) \in Rows /\ SaveRow(product[p], txn[t].new).status # "absent"
      <4>1. PICK row \in Rows, new \in [status : {"draft", "published", "archived"}, categories : CategoryInputs] :
                row = product[p] /\ new = txn[t].new
        BY <1>2, <1>4, <2>2
      <4>2. PICK c : c = (IF new.categories = "omitted" THEN row.categorised ELSE new.categories = "some")
        OBVIOUS
      <4>3. c \in BOOLEAN
        <5>1. row.categorised \in BOOLEAN /\ (new.categories = "some") \in BOOLEAN
          BY DEF Rows
        <5> QED
          BY <4>2, <5>1, Zenon
      <4>4. SaveRow(row, new) = [status |-> new.status, rev |-> row.rev + 1, categorised |-> c]
        BY <4>2 DEF SaveRow
      <4> QED
        BY <4>1, <4>3, <4>4 DEF Rows
    <3> QED
      BY <3>1, <3>2, <3>3
  <2>3. CASE ~(p = e.id /\ txn[t].kind = "save") /\ p \in Affected(e) /\ txn[t].kind # "stock"
    <3>1. product'[p] = [product[p] EXCEPT !.rev = @ + 1]
      BY <2>1, <2>3
    <3>2. product[p] # Absent
      BY <1>2, <2>3 DEF Affected
    <3> QED
      BY <1>4, <2>3, <3>1, <3>2 DEF Rows
  <2>4. CASE ~(p = e.id /\ txn[t].kind = "save") /\ ~(p \in Affected(e) /\ txn[t].kind # "stock")
    <3>1. product'[p] = product[p]
      BY <2>1, <2>4
    <3> QED
      BY <1>4, <3>1
  <2> QED
    BY <2>2, <2>3, <2>4
<1>6. product' \in [Products -> Rows]
  BY <1>5 DEF Commit
<1>7. \A p \in Products : product'[p] = Absent \/ product'[p].status # "absent"
  BY <1>4, <1>5
<1>8. \A p \in Products : product[p] # Absent => product'[p] # Absent
  BY <1>4, <1>5 DEF Absent
<1>9. ASSUME NEW p \in Products, Document(p)' # Document(p) PROVE p \in Affected(e)
  <2>1. CASE product'[p] # product[p]
    BY <1>5, <2>1
  <2>2. CASE product'[p] = product[p]
    <3>1. approved' # approved
      BY <1>9, <2>2 DEF Document, Listed
    <3>2. e.id = Shop
      BY <1>3, <3>1
    <3>3. product[p] # Absent
      BY <1>9, <2>2 DEF Document, Listed, Absent
    <3> QED
      BY <3>2, <3>3 DEF Affected
  <2> QED
    BY <2>1, <2>2
<1>10. CatalogType'
  <2>1. \A u \in Txns : txn'[u] = IF u = t THEN Idle ELSE txn[u]
    BY <1>3 DEF Turns, CatalogType
  <2>2. ASSUME NEW u \in Txns PROVE Writes(u)' /\ Checks(u)'
    <3>1. CASE u = t
      BY <2>1, <3>1 DEF Writes, Checks, Idle
    <3>2. CASE u # t
      <4>1. Writes(u) /\ Checks(u) /\ txn'[u] = txn[u]
        BY <2>1, <3>2 DEF CatalogType
      <4>2. Checks(u)'
        BY <4>1 DEF Checks
      <4>3. ASSUME txn[u].phase = "written", txn[u].kind # "save" PROVE product'[txn[u].event.id] # Absent
        <5>1. txn[u].event.id \in Products /\ product[txn[u].event.id] # Absent
          BY <4>1, <4>3 DEF Writes, Events, Ids
        <5> QED
          BY <1>8, <5>1
      <4> QED
        BY <4>1, <4>2, <4>3 DEF Writes
    <3> QED
      BY <3>1, <3>2
  <2>3. DOMAIN txn' = Txns /\ outbox' \in Seq(Events) /\ epoch' \in {0, 1}
    BY <1>3 DEF Turns, CatalogType
  <2> QED
    BY <1>6, <1>7, <2>2, <2>3 DEF CatalogType
<1> QED
  BY <1>3, <1>8, <1>9, <1>10 DEF Changes

\* Every other step of the catalogue changes no document.
LEMMA CatalogSteps ==
  ASSUME CatalogType, CatalogNext
  PROVE  CatalogType' /\ (CatalogKept \/ \E e \in Events : Changes(e))
<1>1. ASSUME NEW t \in Txns, NEW p \in Products, NEW s \in Statuses, NEW c \in CategoryInputs, SaveRead(t, p, s, c)
      PROVE  CatalogType' /\ CatalogKept
  <2>0. PICK r : r = [phase |-> IF NeedsCategories(product[p], s, c) THEN "read" ELSE "checked",
                      id |-> p, status |-> s, categories |-> c, new |-> product[p] = Absent]
    OBVIOUS
  <2>1. r.phase \in {"read", "checked"} /\ r.id = p /\ r.status = s /\ r.categories = c
    BY <2>0
  <2>2. Turns(t, r) /\ CatalogKept
    BY <1>1, <2>0 DEF SaveRead, Turns, CatalogKept, Keep
  <2> QED
    BY <2>1, <2>2, TurnTyped, CatalogAssumption
<1>7. ASSUME NEW t \in Txns, SaveCount(t) PROVE CatalogType' /\ CatalogKept
  <2>1. CatalogKept
    BY <1>7 DEF SaveCount, Keep, CatalogKept
  <2>2. CASE Turns(t, Idle)
    <3>1. PICK r : r = Idle
      OBVIOUS
    <3> QED
      BY <2>1, <2>2, <3>1, TurnTyped DEF Idle
  <2>3. CASE Turns(t, Counted(t))
    <3>1. PICK id \in Products, s \in {"draft", "published", "archived"}, c \in CategoryInputs :
              id = txn[t].id /\ s = txn[t].status /\ c = txn[t].categories
      BY <1>7 DEF SaveCount, CatalogType, Checks
    <3>2. PICK r : r = Counted(t)
      OBVIOUS
    <3>3. r.phase = "checked" /\ r.id = id /\ r.status = s /\ r.categories = c
      BY <3>1, <3>2 DEF Counted
    <3> QED
      BY <2>1, <2>3, <3>2, <3>3, TurnTyped
  <2> QED
    BY <1>7, <2>2, <2>3 DEF SaveCount, Turns, Counted
<1>2. ASSUME NEW t \in Txns, SaveWrite(t) PROVE CatalogType' /\ CatalogKept
  <2>1. CatalogKept
    BY <1>2 DEF SaveWrite, Keep, CatalogKept
  <2>2. CASE Turns(t, Idle)
    <3>1. PICK r : r = Idle
      OBVIOUS
    <3> QED
      BY <2>1, <2>2, <3>1, TurnTyped DEF Idle
  <2>3. CASE Write(t, "save", txn[t].id, [status |-> txn[t].status, categories |-> txn[t].categories])
    <3>1. PICK id \in Products, s \in {"draft", "published", "archived"}, c \in CategoryInputs :
              id = txn[t].id /\ s = txn[t].status /\ c = txn[t].categories
      BY <1>2 DEF SaveWrite, CatalogType, Checks
    <3>2. PICK new : new = [status |-> s, categories |-> c]
      OBVIOUS
    <3>3. PICK e \in Events : e = Event(id)
      BY DEF Events, Event, Ids, CatalogType
    <3>4. PICK r : r = [phase |-> "written", kind |-> "save", event |-> e, new |-> new]
      OBVIOUS
    <3>7. r.phase = "written" /\ r.kind = "save" /\ r.event = e /\ r.new = new
      BY <3>4
    <3>5. Turns(t, r)
      BY <2>3, <3>1, <3>2, <3>3, <3>4 DEF Write, Turns
    <3>6. new \in [status : {"draft", "published", "archived"}, categories : CategoryInputs]
      BY <3>2
    <3> QED
      BY <2>1, <3>5, <3>6, <3>7, TurnTyped
  <2> QED
    BY <1>2, <2>2, <2>3 DEF SaveWrite, Turns
<1>3. ASSUME NEW t \in Txns, NEW p \in Products, NEW kind \in {"contents", "stock"}, Touch(t, kind, p)
      PROVE  CatalogType' /\ CatalogKept
  <2>1. PICK e \in Events : e = Event(p)
    BY DEF Events, Event, Ids, CatalogType
  <2>2. PICK r : r = [phase |-> "written", kind |-> kind, event |-> e, new |-> <<>>]
    OBVIOUS
  <2>5. e.id = p /\ r.phase = "written" /\ r.kind = kind /\ r.event = e
    BY <2>1, <2>2 DEF Event
  <2>3. Turns(t, r) /\ CatalogKept /\ product[p] # Absent
    BY <1>3, <2>1, <2>2 DEF Touch, Write, Turns, CatalogKept, Keep
  <2>4. p # Shop
    BY CatalogAssumption DEF Shop
  <2> QED
    BY <2>3, <2>4, <2>5, TurnTyped
<1>4. ASSUME NEW t \in Txns, NEW a \in BOOLEAN, ChangeShop(t, a) PROVE CatalogType' /\ CatalogKept
  <2>1. PICK e \in Events : e = Event(Shop)
    BY DEF Events, Event, Ids, CatalogType
  <2>2. PICK r : r = [phase |-> "written", kind |-> "save", event |-> e, new |-> a]
    OBVIOUS
  <2>4. e.id = Shop /\ r.phase = "written" /\ r.kind = "save" /\ r.event = e
    BY <2>1, <2>2 DEF Event
  <2>3. Turns(t, r) /\ CatalogKept
    BY <1>4, <2>1, <2>2 DEF ChangeShop, Write, Turns, CatalogKept, Keep
  <2> QED
    BY <2>3, <2>4, TurnTyped
<1>5. ASSUME NEW t \in Txns, Rollback(t) PROVE CatalogType' /\ CatalogKept
  <2>1. PICK r : r = Idle
    OBVIOUS
  <2>2. Turns(t, r) /\ CatalogKept
    BY <1>5, <2>1 DEF Rollback, Turns, CatalogKept, Keep
  <2> QED
    BY <2>1, <2>2, TurnTyped DEF Idle
<1>6. ASSUME NEW t \in Txns, Commit(t) PROVE CatalogType' /\ \E e \in Events : Changes(e)
  BY <1>6, CommitChanges
<1> QED
  BY <1>1, <1>2, <1>3, <1>4, <1>5, <1>6, <1>7
     DEF CatalogNext, AddVariant, UpdateVariant, CreateReview, HideReview, DeliverOrder, AdjustStock

---------------------------------------------------------------------------
(* The index. *)

Works  == [event : Nat, todo : SUBSET Products, step : {"next", "write"}, product : Ids, doc : Nat]
Phases == {"before", "scan", "switched", "replay", "finished", "failed"}

IndexType ==
    /\ index \in [{"old", "new"} -> [Products -> Nat]]
    /\ alias \in {"old", "new"}
    /\ done \subseteq DOMAIN outbox
    /\ worker \in [Processes -> Works]
    /\ rebuild \in [phase : Phases, cursor : Nat]
    /\ raced \subseteq Products

\* A message some consumer has still to take, about p.
Unfetched(p) ==
    \E e \in DOMAIN outbox \ done : p \in Affected(outbox[e]) /\ \A c \in Consumers : worker[c].event # e

\* A message taken that is about p, p not yet written.
InHand(p) == \E c \in Consumers : worker[c].event # 0 /\ p \in worker[c].todo

\* A row about p that the replay reads.
Replayed(p) == \E e \in DOMAIN outbox : outbox[e].epoch >= 1 /\ p \in Affected(outbox[e])

ToReplay(p) ==
    \/ rebuild.phase = "switched" /\ Replayed(p)
    \/ rebuild.phase = "replay" /\ p \in worker[Rebuild].todo

\* What a consumer has in hand is about the message it has taken.
Holds(c) ==
    /\ worker[c].event # 0 =>
          worker[c].event \in DOMAIN outbox \ done /\ worker[c].todo \subseteq Affected(outbox[worker[c].event])
    /\ worker[c].event = 0 => worker[c].todo = {}
    /\ worker[c].step = "write" => worker[c].product \in worker[c].todo

Rebuilding ==
    /\ worker[Rebuild].step = "write" => worker[Rebuild].product \in worker[Rebuild].todo
    /\ rebuild.phase \notin {"scan", "replay"} => worker[Rebuild].todo = {}
    /\ rebuild.phase \in {"before", "scan"} => alias = "old"
    /\ rebuild.phase \in {"switched", "replay", "finished"} => alias = "new"
    /\ rebuild.phase = "failed" /\ alias = "new" => raced = Products
    /\ rebuild.phase = "before" => epoch = 0 /\ \A p \in Products : index["new"][p] = 0
    /\ rebuild.phase # "before" => epoch = 1

\* A document that was read and is not what the product is any more will be
\* read again, or its change is one a rebuild cannot see.
Drafted(c) ==
    worker[c].step = "write" =>
        \/ worker[c].doc = Document(worker[c].product)
        \/ worker[c].product \in raced
        \/ Unfetched(worker[c].product)

DraftedByRebuild ==
    worker[Rebuild].step = "write" =>
        \/ worker[Rebuild].doc = Document(worker[Rebuild].product)
        \/ worker[Rebuild].product \in raced
        \/ rebuild.phase = "scan" /\ Replayed(worker[Rebuild].product)

\* What searches see of a product is right, or it will be written.
Shown(p) ==
    \/ index[alias][p] = Document(p) \/ p \in raced
    \/ Unfetched(p) \/ InHand(p) \/ ToReplay(p)

\* So it is in the index being filled.
Scanned(p) ==
    \/ index["new"][p] = Document(p) \/ p \in raced
    \/ Replayed(p) \/ p \in worker[Rebuild].todo
    \/ p > rebuild.cursor /\ product[p] # Absent

SearchInv ==
    /\ CatalogType /\ IndexType /\ Rebuilding /\ DraftedByRebuild
    /\ \A c \in Consumers : Holds(c) /\ Drafted(c)
    /\ \A p \in Products : Shown(p)
    /\ rebuild.phase = "scan" => \A p \in Products : Scanned(p)

\* Initially there is nothing to index.
LEMMA SearchStarts == Init => SearchInv
<1> SUFFICES ASSUME Init PROVE SearchInv
  OBVIOUS
<1>1. CatalogType
  BY CatalogStarts DEF Init
<1>2. \A p \in Products : Document(p) \in Nat /\ (product[p] = Absent => Document(p) = 0)
  BY DEF Init, CatalogInit, Document, Listed, Absent
<1>3. \A p \in Products : index["old"][p] = Document(p) /\ index["new"][p] = 0
  BY DEF Init
<1>4. worker \in [Processes -> Works]
  BY DEF Init, Works, Resting, Ids, Shop
<1>5. IndexType
  BY <1>2, <1>4 DEF Init, IndexType, Phases
<1>6. \A w \in Processes : worker[w].event = 0 /\ worker[w].todo = {} /\ worker[w].step = "next"
  BY DEF Init, Resting
<1>7. Rebuilding /\ DraftedByRebuild
  BY <1>3, <1>6 DEF Init, CatalogInit, Rebuilding, DraftedByRebuild, Processes
<1>8. \A c \in Consumers : Holds(c) /\ Drafted(c)
  BY <1>6 DEF Holds, Drafted, Processes
<1>9. \A p \in Products : Shown(p)
  BY <1>3 DEF Shown, Init
<1> QED
  BY <1>1, <1>5, <1>7, <1>8, <1>9 DEF SearchInv, Init

\* A step of a process leaves the products and the rows as they are.
LEMMA NothingChanges ==
  ASSUME UNCHANGED catalogVars
  PROVE  /\ \A p \in Products : Document(p)' = Document(p)
         /\ \A e : Affected(e)' = Affected(e)
         /\ \A p \in Products : Replayed(p)' <=> Replayed(p)
         /\ CatalogType => CatalogType'
<1>1. product' = product /\ approved' = approved /\ outbox' = outbox /\ epoch' = epoch /\ txn' = txn
  BY DEF catalogVars
<1>2. \A e : Affected(e)' = Affected(e)
  BY <1>1 DEF Affected
<1>3. \A p \in Products : Document(p)' = Document(p)
  BY <1>1 DEF Document, Listed
<1>4. \A p \in Products : Replayed(p)' <=> Replayed(p)
  BY <1>1, <1>2 DEF Replayed
<1>5. CatalogType => CatalogType'
  BY <1>1 DEF CatalogType, Writes, Checks
<1> QED
  BY <1>2, <1>3, <1>4, <1>5

\* The process w does something else now; r is what it does.
Works1(w, r) ==
    /\ r \in Works
    /\ worker'[w] = r
    /\ \A v \in Processes : v # w => worker'[v] = worker[v]
    /\ worker' \in [Processes -> Works]

\* A worker that turns to a well formed step keeps the types.
LEMMA WorkerTurn ==
  ASSUME IndexType, NEW w \in Processes, NEW r \in Works, worker' = [worker EXCEPT ![w] = r]
  PROVE  Works1(w, r)
BY DEF IndexType, Works1

\* The step ReadDocument keeps the invariant.
LEMMA ReadKeeps ==
  ASSUME SearchInv, UNCHANGED catalogVars, NEW w \in Processes, NEW p \in Products, ReadDocument(w, p)
  PROVE  SearchInv'
<1>1. /\ CatalogType /\ IndexType /\ Rebuilding /\ DraftedByRebuild
      /\ \A c \in Consumers : Holds(c) /\ Drafted(c)
      /\ \A q \in Products : Shown(q)
      /\ rebuild.phase = "scan" => \A q \in Products : Scanned(q)
  BY DEF SearchInv
<1>2. /\ \A q \in Products : Document(q)' = Document(q)
      /\ \A e : Affected(e)' = Affected(e)
      /\ \A q \in Products : Replayed(q)' <=> Replayed(q)
      /\ CatalogType'
  BY <1>1, NothingChanges
<1>3. UNCHANGED <<index, alias, done, rebuild, raced, product, outbox, epoch>>
  BY DEF ReadDocument, catalogVars
<1>4. /\ worker' \in [Processes -> Works]
      /\ \A v \in Processes : v # w => worker'[v] = worker[v]
      /\ \A v \in Processes : worker'[v].event = worker[v].event /\ worker'[v].todo = worker[v].todo
      /\ worker'[w].step = "write" /\ worker'[w].product = p /\ worker'[w].doc = Document(p) /\ p \in worker[w].todo
  <2>1. Document(p) \in Nat /\ p \in Ids
    BY <1>1 DEF CatalogType, Rows, Document, Ids
  <2>2. worker[w] \in Works
    BY <1>1 DEF IndexType
  <2>3. PICK r \in Works : r = [worker[w] EXCEPT !.step = "write", !.product = p, !.doc = Document(p)]
    BY <2>1, <2>2 DEF Works
  <2>4. /\ r.event = worker[w].event /\ r.todo = worker[w].todo
        /\ r.step = "write" /\ r.product = p /\ r.doc = Document(p)
    BY <2>2, <2>3 DEF Works
  <2>5. worker' = [worker EXCEPT ![w] = r]
    BY <1>1, <2>3 DEF ReadDocument, IndexType
  <2> QED
    BY <1>1, <2>4, <2>5, WorkerTurn DEF Works1, ReadDocument
<1>5. \A q \in Products : (Unfetched(q)' <=> Unfetched(q)) /\ (InHand(q)' <=> InHand(q)) /\ (ToReplay(q)' <=> ToReplay(q))
  BY <1>2, <1>3, <1>4 DEF Unfetched, InHand, ToReplay, Processes
<1>6. IndexType'
  BY <1>1, <1>3, <1>4 DEF IndexType
<1>7. Rebuilding'
  BY <1>1, <1>3, <1>4 DEF Rebuilding, Processes
<1>8. DraftedByRebuild'
  BY <1>1, <1>2, <1>3, <1>4, <1>6, SearchAssumption DEF DraftedByRebuild, Processes, Rebuilding, IndexType, Works, Ids
<1>9. ASSUME NEW c \in Consumers PROVE Holds(c)' /\ Drafted(c)'
  <2>1. Holds(c)'
    BY <1>1, <1>2, <1>3, <1>4 DEF Holds, Processes
  <2>2. CASE c = w
    BY <1>2, <1>4, <2>1, <2>2 DEF Drafted
  <2>3. CASE c # w
    <3>1. worker'[c] = worker[c] /\ (worker[c].step = "write" => worker[c].product \in Products)
      BY <1>1, <1>4, <2>3 DEF Processes, Holds, IndexType, Works
    <3> QED
      BY <1>1, <1>2, <1>3, <1>5, <2>1, <3>1 DEF Drafted
  <2> QED
    BY <2>1, <2>2, <2>3
<1>10. \A q \in Products : Shown(q)'
  BY <1>1, <1>2, <1>3, <1>5 DEF Shown
<1>11. rebuild'.phase = "scan" => \A q \in Products : Scanned(q)'
  BY <1>1, <1>2, <1>3, <1>4 DEF Scanned, Processes
<1> QED
  BY <1>2, <1>6, <1>7, <1>8, <1>9, <1>10, <1>11 DEF SearchInv

\* What the step of a process leaves alone of the products and the rows.
LEMMA Unmoved ==
  ASSUME SearchInv, UNCHANGED catalogVars
  PROVE  /\ CatalogType /\ IndexType /\ Rebuilding /\ DraftedByRebuild
         /\ \A c \in Consumers : Holds(c) /\ Drafted(c)
         /\ \A q \in Products : Shown(q)
         /\ rebuild.phase = "scan" => \A q \in Products : Scanned(q)
         /\ \A q \in Products : Document(q)' = Document(q)
         /\ \A e : Affected(e)' = Affected(e)
         /\ \A q \in Products : Replayed(q)' <=> Replayed(q)
         /\ CatalogType'
         /\ UNCHANGED <<product, outbox, epoch>>
BY NothingChanges DEF SearchInv, catalogVars

\* The step WriteDocument keeps the invariant: an older document is written by
\* nobody else.
LEMMA WriteKeeps ==
  ASSUME SearchInv, UNCHANGED catalogVars, NEW w \in Processes, WriteDocument(w)
  PROVE  SearchInv'
<1>1. /\ CatalogType /\ IndexType /\ Rebuilding /\ DraftedByRebuild
      /\ \A c \in Consumers : Holds(c) /\ Drafted(c)
      /\ \A q \in Products : Shown(q)
      /\ rebuild.phase = "scan" => \A q \in Products : Scanned(q)
      /\ \A q \in Products : Document(q)' = Document(q)
      /\ \A e : Affected(e)' = Affected(e)
      /\ \A q \in Products : Replayed(q)' <=> Replayed(q)
      /\ CatalogType' /\ UNCHANGED <<product, outbox, epoch>>
  BY Unmoved
<1>2. UNCHANGED <<alias, done, rebuild, raced>> /\ worker[w].step = "write"
  BY DEF WriteDocument
<1>3. PICK p \in Products, doc \in Nat, event \in Nat, todo \in SUBSET Products :
          /\ p = worker[w].product /\ doc = worker[w].doc /\ p \in worker[w].todo
          /\ event = worker[w].event /\ todo = worker[w].todo \ {p}
  <2>1. worker[w] \in Works /\ worker[w].product \in worker[w].todo
    BY <1>1, <1>2 DEF IndexType, Rebuilding, Holds, Processes
  <2> QED
    BY <2>1 DEF Works
<1>4. /\ worker' \in [Processes -> Works]
      /\ \A v \in Processes : v # w => worker'[v] = worker[v]
      /\ worker'[w].event = event /\ worker'[w].todo = todo /\ worker'[w].step = "next"
  <2>1. PICK r \in Works : r = [Resting EXCEPT !.event = event, !.todo = todo]
    BY DEF Resting, Works, Ids, Shop
  <2>2. r.event = event /\ r.todo = todo /\ r.step = "next"
    BY <2>1 DEF Resting
  <2>3. worker' = [worker EXCEPT ![w] = r]
    BY <1>3, <2>1 DEF WriteDocument
  <2> QED
    BY <1>1, <2>2, <2>3, WorkerTurn DEF Works1
<1>5. PICK i \in {"old", "new"} : i = Target(w)
  BY <1>1 DEF Target, IndexType
<1>6. /\ index' \in [{"old", "new"} -> [Products -> Nat]]
      /\ \A j \in {"old", "new"}, q \in Products :
            index'[j][q] = IF j = i /\ q = p THEN doc ELSE index[j][q]
  <2>1. index' = [index EXCEPT ![i][p] = doc]
    BY <1>3, <1>5 DEF WriteDocument
  <2> QED
    BY <1>1, <2>1 DEF IndexType
<1>7. \A q \in Products : Unfetched(q)' <=> Unfetched(q)
  <2>1. \A v \in Processes : worker'[v].event = worker[v].event
    BY <1>3, <1>4
  <2> QED
    BY <1>1, <1>2, <2>1 DEF Unfetched, Processes
<1>8. \A v \in Processes, q \in Products : q # p \/ v # w => (q \in worker'[v].todo <=> q \in worker[v].todo)
  BY <1>3, <1>4
<1>9. \A q \in Products : q # p => (InHand(q)' <=> InHand(q)) /\ (ToReplay(q)' <=> ToReplay(q))
  BY <1>1, <1>2, <1>3, <1>4, <1>8 DEF InHand, ToReplay, Processes
<1>10. IndexType'
  BY <1>1, <1>2, <1>4, <1>6 DEF IndexType
<1>11. rebuild.phase = "before" => i = "old"
  BY <1>1, <1>5 DEF Target, Rebuilding
<1>12. Rebuilding'
  <2>1. worker'[Rebuild].step = "write" => worker'[Rebuild].product \in worker'[Rebuild].todo
    BY <1>1, <1>4 DEF Rebuilding, Processes
  <2>2. rebuild.phase \notin {"scan", "replay"} => worker'[Rebuild].todo = {}
    BY <1>1, <1>3, <1>4 DEF Rebuilding, Processes
  <2>3. rebuild.phase = "before" => \A q \in Products : index'["new"][q] = 0
    BY <1>1, <1>6, <1>11 DEF Rebuilding
  <2> QED
    BY <1>1, <1>2, <2>1, <2>2, <2>3 DEF Rebuilding
<1>13. DraftedByRebuild'
  <2>1. CASE w = Rebuild
    BY <1>4, <2>1 DEF DraftedByRebuild
  <2>2. CASE w # Rebuild
    <3>1. worker'[Rebuild] = worker[Rebuild] /\ (worker[Rebuild].step = "write" => worker[Rebuild].product \in Products)
      BY <1>1, <1>4, <2>2 DEF Processes, Rebuilding, IndexType, Works
    <3> QED
      BY <1>1, <1>2, <3>1 DEF DraftedByRebuild
  <2> QED
    BY <2>1, <2>2
<1>14. ASSUME NEW c \in Consumers PROVE Holds(c)' /\ Drafted(c)'
  <2>1. CASE c = w
    BY <1>1, <1>2, <1>3, <1>4, <2>1 DEF Holds, Drafted
  <2>2. CASE c # w
    <3>1. worker'[c] = worker[c] /\ (worker[c].step = "write" => worker[c].product \in Products)
      BY <1>1, <1>4, <2>2 DEF Processes, Holds, IndexType, Works
    <3> QED
      BY <1>1, <1>2, <1>7, <3>1 DEF Holds, Drafted
  <2> QED
    BY <2>1, <2>2
<1>15. ASSUME NEW q \in Products PROVE Shown(q)'
  <2>1. CASE q # p
    BY <1>1, <1>2, <1>6, <1>7, <1>9, <2>1 DEF Shown, IndexType
  <2>2. CASE q = p /\ i = alias
    <3>1. index'[alias'][p] = doc
      BY <1>2, <1>5, <1>6, <2>2
    <3>2. doc = Document(p) \/ p \in raced \/ Unfetched(p)
      <4>1. CASE w \in Consumers
        BY <1>1, <1>2, <1>3, <4>1 DEF Drafted
      <4>2. CASE w = Rebuild
        <5>1. rebuild.phase # "scan"
          BY <1>1, <1>5, <2>2, <4>2 DEF Target, Rebuilding
        <5> QED
          BY <1>1, <1>2, <1>3, <4>2, <5>1 DEF DraftedByRebuild
      <4> QED
        BY <4>1, <4>2 DEF Processes
    <3> QED
      BY <1>1, <1>2, <1>7, <2>2, <3>1, <3>2 DEF Shown
  <2>3. CASE q = p /\ i # alias
    <3>1. w = Rebuild /\ rebuild.phase = "scan"
      BY <1>5, <2>3 DEF Target
    <3>2. InHand(p)' <=> InHand(p)
      BY <1>4, <3>1, SearchAssumption DEF InHand, Processes
    <3>3. ~ ToReplay(p)
      BY <3>1 DEF ToReplay
    <3> QED
      BY <1>1, <1>2, <1>6, <1>7, <2>3, <3>2, <3>3 DEF Shown, IndexType
  <2> QED
    BY <2>1, <2>2, <2>3
<1>16. ASSUME rebuild.phase = "scan", NEW q \in Products PROVE Scanned(q)'
  <2>1. CASE q # p \/ w # Rebuild
    <3>1. index'["new"][q] = index["new"][q]
      BY <1>1, <1>5, <1>6, <1>16, <2>1 DEF Target, Rebuilding
    <3>2. q \in worker'[Rebuild].todo <=> q \in worker[Rebuild].todo
      BY <1>8, <2>1 DEF Processes
    <3> QED
      BY <1>1, <1>2, <1>16, <3>1, <3>2 DEF Scanned
  <2>2. CASE q = p /\ w = Rebuild
    <3>1. index'["new"][p] = doc
      BY <1>5, <1>6, <1>16, <2>2 DEF Target
    <3> QED
      BY <1>1, <1>2, <1>3, <2>2, <3>1 DEF Scanned, DraftedByRebuild
  <2> QED
    BY <2>1, <2>2
<1> QED
  BY <1>1, <1>2, <1>10, <1>12, <1>13, <1>14, <1>15, <1>16 DEF SearchInv

\* A step that writes no document and that the rebuild takes no part in.
LEMMA ConsumerKeeps ==
  ASSUME SearchInv, UNCHANGED catalogVars, UNCHANGED <<index, alias, rebuild, raced>>,
         NEW c \in Consumers, NEW r \in Works, worker' = [worker EXCEPT ![c] = r],
         r.step = "next", done' \subseteq DOMAIN outbox,
         \A d \in Consumers : d # c => Holds(d)',
         Holds(c)',
         \A q \in Products : Unfetched(q) \/ InHand(q) => Unfetched(q)' \/ InHand(q)',
         \A q \in Products, d \in Consumers : d # c /\ Unfetched(q) => Unfetched(q)'
  PROVE  SearchInv'
<1>1. /\ CatalogType /\ IndexType /\ Rebuilding /\ DraftedByRebuild
      /\ \A d \in Consumers : Holds(d) /\ Drafted(d)
      /\ \A q \in Products : Shown(q)
      /\ rebuild.phase = "scan" => \A q \in Products : Scanned(q)
      /\ \A q \in Products : Document(q)' = Document(q)
      /\ \A e : Affected(e)' = Affected(e)
      /\ \A q \in Products : Replayed(q)' <=> Replayed(q)
      /\ CatalogType' /\ UNCHANGED <<product, outbox, epoch>>
  BY Unmoved
<1>2. c \in Processes /\ c # Rebuild
  BY SearchAssumption DEF Processes
<1>3. /\ worker' \in [Processes -> Works] /\ worker'[c] = r
      /\ \A v \in Processes : v # c => worker'[v] = worker[v]
  BY <1>1, <1>2, WorkerTurn DEF Works1
<1>4. worker'[Rebuild] = worker[Rebuild]
  BY <1>2, <1>3 DEF Processes
<1>5. IndexType'
  BY <1>1, <1>3 DEF IndexType
<1>6. Rebuilding'
  BY <1>1, <1>4 DEF Rebuilding
<1>7. DraftedByRebuild'
  <2>1. worker[Rebuild].step = "write" => worker[Rebuild].product \in Products
    BY <1>1 DEF Processes, Rebuilding, IndexType, Works
  <2> QED
    BY <1>1, <1>4, <2>1 DEF DraftedByRebuild
<1>8. ASSUME NEW d \in Consumers PROVE Drafted(d)'
  <2>1. CASE d = c
    BY <1>3, <2>1 DEF Drafted
  <2>2. CASE d # c
    <3>1. worker'[d] = worker[d] /\ (worker[d].step = "write" => worker[d].product \in Products)
      BY <1>1, <1>3, <2>2 DEF Processes, Holds, IndexType, Works
    <3> QED
      BY <1>1, <2>2, <3>1 DEF Drafted
  <2> QED
    BY <2>1, <2>2
<1>9. \A q \in Products : ToReplay(q)' <=> ToReplay(q)
  BY <1>1, <1>4 DEF ToReplay
<1>10. \A q \in Products : Shown(q)'
  BY <1>1, <1>9 DEF Shown
<1>11. rebuild.phase = "scan" => \A q \in Products : Scanned(q)'
  BY <1>1, <1>4 DEF Scanned
<1> QED
  BY <1>1, <1>5, <1>6, <1>7, <1>8, <1>10, <1>11 DEF SearchInv

\* The only indexer takes a message: what was to be fetched is in hand, and no
\* other process is about to write an older document.
LEMMA FetchKeeps ==
  ASSUME SearchInv, OneIndexer, UNCHANGED catalogVars, NEW c \in Consumers, NEW e \in DOMAIN outbox, Fetch(c, e)
  PROVE  SearchInv'
<1>1. /\ CatalogType /\ IndexType /\ Holds(c)
      /\ \A f : Affected(f)' = Affected(f)
      /\ UNCHANGED <<product, outbox, epoch>>
  BY Unmoved
<1>2. c \in Processes /\ \A d \in Consumers : d = c
  BY DEF Processes, OneIndexer
<1>3. PICK r \in Works : r = [worker[c] EXCEPT !.event = e, !.todo = Affected(outbox[e])]
  <2>1. e \in Nat /\ Affected(outbox[e]) \in SUBSET Products
    <3>1. outbox[e] \in Events
      BY <1>1 DEF CatalogType
    <3> QED
      BY <1>1, <3>1 DEF Affected, CatalogType, Events, Ids
  <2> QED
    BY <1>1, <1>2, <2>1 DEF IndexType, Works
<1>4. r.event = e /\ r.todo = Affected(outbox[e]) /\ r.step = "next"
  <2>1. worker[c] \in Works /\ worker[c].step = "next"
    <3>1. worker[c] \in Works
      BY <1>1, <1>2 DEF IndexType
    <3> QED
      BY <1>1, <3>1 DEF Fetch, Holds, Works
  <2> QED
    BY <1>3, <2>1 DEF Works
<1>5. worker' = [worker EXCEPT ![c] = r]
  BY <1>1, <1>3 DEF Fetch, IndexType
<1>6. worker'[c] = r
  BY <1>1, <1>2, <1>5 DEF IndexType
<1>7. e \in DOMAIN outbox \ done /\ worker[c].event = 0 /\ worker[c].todo = {} /\ e # 0
      /\ UNCHANGED <<index, alias, rebuild, raced, done>> /\ done \subseteq DOMAIN outbox
  BY <1>1 DEF Fetch, Holds, IndexType, CatalogType
<1>8. Holds(c)'
  BY <1>1, <1>4, <1>6, <1>7 DEF Holds
<1>9. ASSUME NEW q \in Products, Unfetched(q) \/ InHand(q) PROVE Unfetched(q)' \/ InHand(q)'
  <2>1. ~ InHand(q)
    BY <1>2, <1>7 DEF InHand
  <2>2. PICK f \in DOMAIN outbox \ done : q \in Affected(outbox[f])
    BY <1>9, <2>1 DEF Unfetched
  <2>3. CASE f = e
    BY <1>2, <1>4, <1>6, <1>7, <2>2, <2>3 DEF InHand
  <2>4. CASE f # e
    BY <1>1, <1>2, <1>4, <1>6, <1>7, <2>2, <2>4 DEF Unfetched
  <2> QED
    BY <2>3, <2>4
<1> QED
  BY <1>1, <1>2, <1>4, <1>5, <1>7, <1>8, <1>9, ConsumerKeeps

\* The message is done with, or given up: nothing of it was left, or it is to
\* be fetched again.
LEMMA RestKeeps ==
  ASSUME SearchInv, OneIndexer, UNCHANGED catalogVars, NEW c \in Consumers, CommitMessage(c) \/ ConsumerFails(c)
  PROVE  SearchInv'
<1>1. /\ CatalogType /\ IndexType /\ Holds(c)
      /\ \A f : Affected(f)' = Affected(f)
      /\ UNCHANGED <<product, outbox, epoch>>
  BY Unmoved
<1>2. c \in Processes /\ \A d \in Consumers : d = c
  BY DEF Processes, OneIndexer
<1>3. PICK r \in Works : r = Resting /\ r.event = 0 /\ r.todo = {} /\ r.step = "next"
  <2>1. Resting \in Works /\ Resting.event = 0 /\ Resting.todo = {} /\ Resting.step = "next"
    BY DEF Resting, Works, Ids, Shop
  <2> QED
    BY <2>1
<1>4. worker' = [worker EXCEPT ![c] = r] /\ worker'[c] = r
  BY <1>1, <1>2, <1>3 DEF CommitMessage, ConsumerFails, IndexType
<1>5. UNCHANGED <<index, alias, rebuild, raced>>
  BY DEF CommitMessage, ConsumerFails
<1>6. worker[c].event \in DOMAIN outbox \ done /\ worker[c].event # 0 /\ done' \subseteq DOMAIN outbox
      /\ done' \subseteq done \cup {worker[c].event}
  BY <1>1 DEF CommitMessage, ConsumerFails, Holds, IndexType
<1>7. Holds(c)'
  BY <1>3, <1>4 DEF Holds
<1>8. ASSUME NEW q \in Products, Unfetched(q) PROVE Unfetched(q)'
  <2>1. PICK f \in DOMAIN outbox \ done : q \in Affected(outbox[f]) /\ f # worker[c].event
    BY <1>8 DEF Unfetched
  <2>2. f \in DOMAIN outbox' \ done' /\ f # 0
    BY <1>1, <1>6, <2>1 DEF CatalogType
  <2> QED
    BY <1>1, <1>2, <1>3, <1>4, <2>1, <2>2 DEF Unfetched
<1>9. ASSUME NEW q \in Products, InHand(q) PROVE Unfetched(q)'
  <2>1. q \in worker[c].todo
    BY <1>2, <1>9 DEF InHand
  <2>2. ConsumerFails(c) /\ done' = done
    BY <2>1 DEF CommitMessage, ConsumerFails
  <2>3. q \in Affected(outbox[worker[c].event]) /\ worker[c].event \in DOMAIN outbox' \ done'
    BY <1>1, <1>6, <2>1, <2>2 DEF Holds
  <2> QED
    BY <1>1, <1>2, <1>3, <1>4, <1>6, <2>3 DEF Unfetched
<1> QED
  BY <1>2, <1>3, <1>4, <1>5, <1>6, <1>7, <1>8, <1>9, ConsumerKeeps

\* A row that is published again keeps the invariant.
LEMMA PublishKeeps ==
  ASSUME SearchInv, UNCHANGED catalogVars, NEW e \in DOMAIN outbox, PublishedAgain(e)
  PROVE  SearchInv'
<1>1. /\ CatalogType /\ IndexType /\ Rebuilding /\ DraftedByRebuild
      /\ \A d \in Consumers : Holds(d) /\ Drafted(d)
      /\ \A q \in Products : Shown(q)
      /\ rebuild.phase = "scan" => \A q \in Products : Scanned(q)
      /\ \A q \in Products : Document(q)' = Document(q)
      /\ \A f : Affected(f)' = Affected(f)
      /\ \A q \in Products : Replayed(q)' <=> Replayed(q)
      /\ CatalogType' /\ UNCHANGED <<product, outbox, epoch>>
  BY Unmoved
<1>2. UNCHANGED <<index, alias, worker, rebuild, raced>> /\ done' = done \ {e}
  BY DEF PublishedAgain
<1>3. \A q \in Products : Unfetched(q) => Unfetched(q)'
  BY <1>1, <1>2 DEF Unfetched
<1>4. \A q \in Products : (InHand(q)' <=> InHand(q)) /\ (ToReplay(q)' <=> ToReplay(q))
  BY <1>1, <1>2 DEF InHand, ToReplay
<1>5. IndexType' /\ Rebuilding'
  BY <1>1, <1>2 DEF IndexType, Rebuilding
<1>6. ASSUME NEW d \in Consumers PROVE Holds(d)' /\ Drafted(d)'
  <2>1. worker[d].step = "write" => worker[d].product \in Products
    BY <1>1 DEF Processes, Holds, IndexType, Works
  <2> QED
    BY <1>1, <1>2, <1>3, <2>1 DEF Holds, Drafted
<1>7. DraftedByRebuild'
  <2>1. worker[Rebuild].step = "write" => worker[Rebuild].product \in Products
    BY <1>1 DEF Processes, Rebuilding, IndexType, Works
  <2> QED
    BY <1>1, <1>2, <2>1 DEF DraftedByRebuild
<1>8. \A q \in Products : Shown(q)'
  BY <1>1, <1>2, <1>3, <1>4 DEF Shown
<1>9. rebuild.phase = "scan" => \A q \in Products : Scanned(q)'
  BY <1>1, <1>2 DEF Scanned
<1> QED
  BY <1>1, <1>2, <1>5, <1>6, <1>7, <1>8, <1>9 DEF SearchInv

---------------------------------------------------------------------------
(* The rebuild. *)

\* A step of the rebuild writes no document and leaves the consumers alone.
LEMMA RebuildKeeps ==
  ASSUME SearchInv, UNCHANGED <<product, approved, txn, outbox, index, done>>, epoch' \in {0, 1},
         IndexType', Rebuilding', worker'[Rebuild].step = "next",
         \A c \in Consumers : worker'[c] = worker[c],
         raced \subseteq raced',
         \A q \in Products : Shown(q)',
         rebuild'.phase = "scan" => \A q \in Products : Scanned(q)'
  PROVE  SearchInv'
<1>1. /\ CatalogType /\ IndexType
      /\ \A d \in Consumers : Holds(d) /\ Drafted(d)
  BY DEF SearchInv
<1>2. CatalogType'
  BY <1>1 DEF CatalogType, Writes, Checks
<1>3. \A q \in Products : Document(q)' = Document(q)
  BY DEF Document, Listed
<1>4. \A f : Affected(f)' = Affected(f)
  BY DEF Affected
<1>5. \A q \in Products : Unfetched(q)' <=> Unfetched(q)
  BY <1>4 DEF Unfetched
<1>6. ASSUME NEW d \in Consumers PROVE Holds(d)' /\ Drafted(d)'
  <2>1. worker[d].step = "write" => worker[d].product \in Products
    BY <1>1 DEF Processes, Holds, IndexType, Works
  <2> QED
    BY <1>1, <1>3, <1>4, <1>5, <2>1 DEF Holds, Drafted
<1>7. DraftedByRebuild'
  BY DEF DraftedByRebuild
<1> QED
  BY <1>2, <1>6, <1>7 DEF SearchInv

\* The step StartRebuild keeps the invariant.
LEMMA StartKeeps ==
  ASSUME SearchInv, StartRebuild
  PROVE  SearchInv'
<1>1. /\ CatalogType /\ IndexType /\ Rebuilding /\ rebuild.phase = "before"
      /\ \A q \in Products : Shown(q)
  BY DEF SearchInv, StartRebuild
<1>2. UNCHANGED <<product, approved, txn, outbox, index, alias, done, worker, raced>> /\ epoch' = 1
  BY DEF StartRebuild
<1>3. PICK r \in [phase : Phases, cursor : Nat] : r = [phase |-> "scan", cursor |-> 0]
  BY DEF Phases
<1>4. rebuild' = r /\ r.phase = "scan" /\ r.cursor = 0
  BY <1>3 DEF StartRebuild
<1>5. IndexType'
  BY <1>1, <1>2, <1>4 DEF IndexType
<1>6. Rebuilding'
  BY <1>1, <1>2, <1>4 DEF Rebuilding
<1>7. \A q \in Products : Document(q)' = Document(q)
  BY <1>2 DEF Document, Listed
<1>8. \A f : Affected(f)' = Affected(f)
  BY <1>2 DEF Affected
<1>9. \A q \in Products : Shown(q)'
  BY <1>1, <1>2, <1>7, <1>8 DEF Shown, Unfetched, InHand, ToReplay
<1>10. ASSUME NEW q \in Products PROVE Scanned(q)'
  <2>1. CASE product[q] = Absent
    <3>1. Document(q) = 0 /\ index["new"][q] = 0
      BY <1>1, <2>1 DEF Rebuilding, Document, Listed, Absent
    <3> QED
      BY <1>2, <1>7, <3>1 DEF Scanned
  <2>2. CASE product[q] # Absent
    <3>1. q > 0
      BY CatalogAssumption
    <3> QED
      BY <1>2, <1>4, <2>2, <3>1 DEF Scanned
  <2> QED
    BY <2>1, <2>2
<1>11. worker'[Rebuild].step = "next"
  BY <1>1, <1>2 DEF Rebuilding, IndexType, Works, Processes
<1> QED
  BY <1>2, <1>5, <1>6, <1>9, <1>10, <1>11, RebuildKeeps

\* With no page left, every document of the new index is right, or its change
\* is one the replay reads.
LEMMA SwitchKeeps ==
  ASSUME SearchInv, UNCHANGED catalogVars, NextPage, Unread = {}
  PROVE  SearchInv'
<1>1. /\ CatalogType /\ IndexType /\ Rebuilding /\ DraftedByRebuild
      /\ \A d \in Consumers : Holds(d) /\ Drafted(d)
      /\ \A q \in Products : Shown(q)
      /\ rebuild.phase = "scan" => \A q \in Products : Scanned(q)
      /\ \A q \in Products : Document(q)' = Document(q)
      /\ \A f : Affected(f)' = Affected(f)
      /\ \A q \in Products : Replayed(q)' <=> Replayed(q)
      /\ CatalogType' /\ UNCHANGED <<product, outbox, epoch>>
  BY Unmoved
<1>2. /\ rebuild.phase = "scan" /\ RebuildRests /\ alias' = "new" /\ alias = "old"
      /\ rebuild' = [rebuild EXCEPT !.phase = "switched"]
      /\ UNCHANGED <<worker, index, done, raced>>
  BY <1>1 DEF NextPage, Rebuilding
<1>3. rebuild' \in [phase : Phases, cursor : Nat] /\ rebuild'.phase = "switched"
  BY <1>1, <1>2 DEF IndexType, Phases
<1>4. IndexType'
  BY <1>1, <1>2, <1>3 DEF IndexType
<1>5. Rebuilding'
  BY <1>1, <1>2, <1>3 DEF Rebuilding, RebuildRests
<1>6. ASSUME NEW q \in Products PROVE Shown(q)'
  <2>1. (Unfetched(q)' <=> Unfetched(q)) /\ (InHand(q)' <=> InHand(q)) /\ (ToReplay(q)' <=> Replayed(q))
    BY <1>1, <1>2, <1>3 DEF Unfetched, InHand, ToReplay
  <2>2. index["new"][q] = Document(q) \/ q \in raced \/ Replayed(q)
    BY <1>1, <1>2 DEF Scanned, RebuildRests, Unread
  <2> QED
    BY <1>1, <1>2, <2>1, <2>2 DEF Shown
<1> QED
  BY <1>1, <1>2, <1>3, <1>4, <1>5, <1>6, RebuildKeeps DEF RebuildRests, catalogVars, CatalogType

\* A page holds every product up to its last that is still to be read.
LEMMA PageIsNext ==
  ASSUME CatalogType, IndexType, NEW m \in Page, NEW q \in Unread, q <= m
  PROVE  q \in Page
<1> DEFINE Before(n) == {r \in Unread : r < n}
<1>1. m \in Nat /\ q \in Nat /\ m \in Unread /\ Unread \subseteq Nat
  BY CatalogAssumption DEF Page, Unread
<1>2. Before(m) \subseteq 0..m /\ IsFiniteSet(0..m)
  <2>1. ASSUME NEW r \in Unread, r < m PROVE r \in 0..m
    BY <1>1, <2>1
  <2>2. IsFiniteSet(0..m)
    BY <1>1, FS_Interval
  <2> QED
    BY <2>1, <2>2, Zenon
<1>3. IsFiniteSet(Before(m))
  BY <1>2, FS_Subset
<1>4. Before(q) \subseteq Before(m)
  <2>1. ASSUME NEW r \in Unread, r < q PROVE r < m
    BY <1>1, <2>1
  <2> QED
    BY <2>1, Zenon
<1>5. Cardinality(Before(q)) <= Cardinality(Before(m)) /\ Cardinality(Before(m)) \in Nat /\ Cardinality(Before(q)) \in Nat
  BY <1>3, <1>4, FS_Subset, FS_CardinalityType
<1>6. Cardinality(Before(m)) < PageSize
  BY DEF Page
<1> QED
  BY <1>5, <1>6, SearchAssumption DEF Page

\* The step NextPage keeps the invariant.
LEMMA PageKeeps ==
  ASSUME SearchInv, UNCHANGED catalogVars, NextPage, Unread # {}
  PROVE  SearchInv'
<1>1. /\ CatalogType /\ IndexType /\ Rebuilding /\ DraftedByRebuild
      /\ \A d \in Consumers : Holds(d) /\ Drafted(d)
      /\ \A q \in Products : Shown(q)
      /\ rebuild.phase = "scan" => \A q \in Products : Scanned(q)
      /\ \A q \in Products : Document(q)' = Document(q)
      /\ \A f : Affected(f)' = Affected(f)
      /\ \A q \in Products : Replayed(q)' <=> Replayed(q)
      /\ CatalogType' /\ UNCHANGED <<product, outbox, epoch>>
  BY Unmoved
<1>2. PICK m \in Page : /\ \A q \in Page : q <= m
                        /\ rebuild' = [rebuild EXCEPT !.cursor = m]
  BY DEF NextPage
<1>3. /\ rebuild.phase = "scan" /\ RebuildRests
      /\ worker' = [worker EXCEPT ![Rebuild].todo = Page]
      /\ UNCHANGED <<alias, index, done, raced>>
  BY DEF NextPage
<1>4. m \in Products /\ m \in Nat /\ Page \in SUBSET Products
  BY CatalogAssumption DEF Page, Unread
<1>5. rebuild' \in [phase : Phases, cursor : Nat] /\ rebuild'.phase = "scan" /\ rebuild'.cursor = m
  BY <1>1, <1>2, <1>3, <1>4 DEF IndexType
<1>6. Rebuild \in Processes
  BY DEF Processes
<1>7. /\ worker' \in [Processes -> Works]
      /\ \A v \in Processes : v # Rebuild => worker'[v] = worker[v]
      /\ worker'[Rebuild].todo = Page /\ worker'[Rebuild].step = "next"
  <2>1. PICK r \in Works : r = [worker[Rebuild] EXCEPT !.todo = Page]
    BY <1>1, <1>4, <1>6 DEF IndexType, Works
  <2>2. r.todo = Page /\ r.step = "next"
    BY <1>1, <1>3, <1>6, <2>1 DEF IndexType, Works, RebuildRests
  <2>3. worker' = [worker EXCEPT ![Rebuild] = r]
    BY <1>1, <1>3, <1>6, <2>1 DEF IndexType
  <2> QED
    BY <1>1, <1>6, <2>2, <2>3, WorkerTurn DEF Works1
<1>8. IndexType'
  BY <1>1, <1>3, <1>5, <1>7 DEF IndexType
<1>9. Rebuilding'
  BY <1>1, <1>3, <1>5, <1>7 DEF Rebuilding
<1>10. \A c \in Consumers : worker'[c] = worker[c]
  BY <1>7, SearchAssumption DEF Processes
<1>11. ASSUME NEW q \in Products PROVE Shown(q)'
  <2>1. (Unfetched(q)' <=> Unfetched(q)) /\ (InHand(q)' <=> InHand(q)) /\ ~ ToReplay(q)
    BY <1>1, <1>3, <1>10 DEF Unfetched, InHand, ToReplay
  <2> QED
    BY <1>1, <1>3, <2>1 DEF Shown
<1>12. ASSUME NEW q \in Products PROVE Scanned(q)'
  <2>1. CASE q > rebuild.cursor /\ product[q] # Absent /\ q <= m
    <3>1. q \in Page
      BY <1>1, <2>1, PageIsNext DEF Unread
    <3> QED
      BY <1>7, <3>1 DEF Scanned
  <2>2. CASE q > m /\ product[q] # Absent
    BY <1>1, <1>5, <2>2 DEF Scanned
  <2>3. CASE index["new"][q] = Document(q) \/ q \in raced \/ Replayed(q)
    BY <1>1, <1>3, <2>3 DEF Scanned
  <2>4. q \notin worker[Rebuild].todo /\ q \in Nat
    BY <1>3, CatalogAssumption DEF RebuildRests
  <2> QED
    BY <1>1, <1>3, <1>4, <2>1, <2>2, <2>3, <2>4 DEF Scanned
<1> QED
  BY <1>1, <1>3, <1>7, <1>8, <1>9, <1>10, <1>11, <1>12, RebuildKeeps DEF catalogVars, CatalogType

\* The step Replay keeps the invariant.
LEMMA ReplayKeeps ==
  ASSUME SearchInv, UNCHANGED catalogVars, Replay
  PROVE  SearchInv'
<1>1. /\ CatalogType /\ IndexType /\ Rebuilding /\ DraftedByRebuild
      /\ \A d \in Consumers : Holds(d) /\ Drafted(d)
      /\ \A q \in Products : Shown(q)
      /\ \A q \in Products : Document(q)' = Document(q)
      /\ \A f : Affected(f)' = Affected(f)
      /\ CatalogType' /\ UNCHANGED <<product, outbox, epoch>>
  BY Unmoved
<1>2. PICK todo : todo = UNION {Affected(e) : e \in {f \in Range(outbox) : f.epoch >= 1}}
  OBVIOUS
<1>3. /\ rebuild.phase = "switched" /\ worker' = [worker EXCEPT ![Rebuild].todo = todo]
      /\ rebuild' = [rebuild EXCEPT !.phase = "replay"]
      /\ UNCHANGED <<index, alias, done, raced>>
  BY <1>2 DEF Replay
<1>4. todo \subseteq Products
  <2>1. ASSUME NEW f \in Range(outbox) PROVE Affected(f) \subseteq Products
    <3>1. f \in Events
      BY <1>1, <2>1 DEF CatalogType, Range
    <3> QED
      BY <3>1 DEF Affected, Events, Ids
  <2> QED
    BY <1>2, <2>1
<1>5. \A q \in Products : Replayed(q) => q \in todo
  <2>1. ASSUME NEW q \in Products, NEW e \in DOMAIN outbox, outbox[e].epoch >= 1, q \in Affected(outbox[e])
        PROVE  q \in todo
    <3>1. outbox[e] \in Range(outbox)
      BY DEF Range
    <3> QED
      BY <1>2, <2>1, <3>1
  <2> QED
    BY <2>1 DEF Replayed
<1>6. rebuild' \in [phase : Phases, cursor : Nat] /\ rebuild'.phase = "replay"
  BY <1>1, <1>3 DEF IndexType, Phases
<1>7. Rebuild \in Processes /\ worker[Rebuild] \in Works /\ worker[Rebuild].step = "next"
  BY <1>1, <1>3 DEF Processes, Rebuilding, IndexType, Works
<1>8. /\ worker' \in [Processes -> Works]
      /\ \A v \in Processes : v # Rebuild => worker'[v] = worker[v]
      /\ worker'[Rebuild].todo = todo /\ worker'[Rebuild].step = "next"
  <2>1. PICK r \in Works : r = [worker[Rebuild] EXCEPT !.todo = todo]
    BY <1>4, <1>7 DEF Works
  <2>2. r.todo = todo /\ r.step = "next"
    BY <1>7, <2>1 DEF Works
  <2>3. worker' = [worker EXCEPT ![Rebuild] = r]
    BY <1>1, <1>3, <1>7, <2>1 DEF IndexType
  <2> QED
    BY <1>1, <1>7, <2>2, <2>3, WorkerTurn DEF Works1
<1>9. IndexType' /\ Rebuilding'
  BY <1>1, <1>3, <1>6, <1>8 DEF IndexType, Rebuilding
<1>10. \A c \in Consumers : worker'[c] = worker[c]
  BY <1>8, SearchAssumption DEF Processes
<1>11. ASSUME NEW q \in Products PROVE Shown(q)'
  <2>1. (Unfetched(q)' <=> Unfetched(q)) /\ (InHand(q)' <=> InHand(q))
    BY <1>1, <1>3, <1>10 DEF Unfetched, InHand
  <2>2. ToReplay(q) => ToReplay(q)'
    BY <1>3, <1>5, <1>6, <1>8 DEF ToReplay
  <2> QED
    BY <1>1, <1>3, <2>1, <2>2 DEF Shown
<1> QED
  BY <1>1, <1>3, <1>6, <1>8, <1>9, <1>10, <1>11, RebuildKeeps DEF catalogVars, CatalogType

\* The step FinishRebuild keeps the invariant.
LEMMA FinishKeeps ==
  ASSUME SearchInv, UNCHANGED catalogVars, FinishRebuild
  PROVE  SearchInv'
<1>1. /\ CatalogType /\ IndexType /\ Rebuilding
      /\ \A q \in Products : Shown(q)
      /\ \A q \in Products : Document(q)' = Document(q)
      /\ \A f : Affected(f)' = Affected(f)
      /\ UNCHANGED <<product, outbox, epoch>>
  BY Unmoved
<1>2. /\ rebuild.phase = "replay" /\ worker[Rebuild].step = "next" /\ worker[Rebuild].todo = {}
      /\ UNCHANGED <<index, alias, done, worker, raced>>
      /\ rebuild' = [rebuild EXCEPT !.phase = "finished"]
  BY DEF FinishRebuild, RebuildRests
<1>3. rebuild' \in [phase : Phases, cursor : Nat] /\ rebuild'.phase = "finished"
  BY <1>1, <1>2 DEF IndexType, Phases
<1>4. IndexType' /\ Rebuilding'
  BY <1>1, <1>2, <1>3 DEF IndexType, Rebuilding
<1>5. \A q \in Products : Shown(q)'
  BY <1>1, <1>2 DEF Shown, Unfetched, InHand, ToReplay
<1> QED
  BY <1>1, <1>2, <1>3, <1>4, <1>5, RebuildKeeps DEF catalogVars, CatalogType

\* The step RebuildFails keeps the invariant: the old index was written to all
\* along.
LEMMA FailKeeps ==
  ASSUME SearchInv, UNCHANGED catalogVars, RebuildFails
  PROVE  SearchInv'
<1>1. /\ CatalogType /\ IndexType /\ Rebuilding
      /\ \A q \in Products : Shown(q)
      /\ \A q \in Products : Document(q)' = Document(q)
      /\ \A f : Affected(f)' = Affected(f)
      /\ UNCHANGED <<product, outbox, epoch>>
  BY Unmoved
<1>2. /\ rebuild.phase \in {"scan", "switched", "replay"}
      /\ rebuild' = [rebuild EXCEPT !.phase = "failed"]
      /\ raced' = IF alias = "new" THEN Products ELSE raced
      /\ UNCHANGED <<index, alias, done>>
  BY DEF RebuildFails
<1>3. rebuild' \in [phase : Phases, cursor : Nat] /\ rebuild'.phase = "failed"
  BY <1>1, <1>2 DEF IndexType, Phases
<1>4. PICK r \in Works : r = Resting /\ r.event = 0 /\ r.todo = {} /\ r.step = "next"
  <2>1. Resting \in Works /\ Resting.event = 0 /\ Resting.todo = {} /\ Resting.step = "next"
    BY DEF Resting, Works, Ids, Shop
  <2> QED
    BY <2>1
<1>5. Works1(Rebuild, r)
  BY <1>1, <1>4, WorkerTurn DEF RebuildFails, Processes
<1>6. IndexType' /\ Rebuilding'
  BY <1>1, <1>2, <1>3, <1>4, <1>5 DEF IndexType, Rebuilding, Works1
<1>7. \A c \in Consumers : worker'[c] = worker[c]
  BY <1>5, SearchAssumption DEF Processes, Works1
<1>8. ASSUME NEW q \in Products PROVE Shown(q)'
  <2>1. CASE alias = "new"
    BY <1>2, <2>1 DEF Shown
  <2>2. CASE alias # "new"
    <3>1. (Unfetched(q)' <=> Unfetched(q)) /\ (InHand(q)' <=> InHand(q)) /\ ~ ToReplay(q)
      BY <1>1, <1>2, <1>7, <2>2 DEF Unfetched, InHand, ToReplay, Rebuilding
    <3> QED
      BY <1>1, <1>2, <2>2, <3>1 DEF Shown
  <2> QED
    BY <2>1, <2>2
<1>9. raced \subseteq raced' /\ worker'[Rebuild].step = "next"
  BY <1>1, <1>2, <1>4, <1>5 DEF IndexType, Works1
<1> QED
  BY <1>1, <1>2, <1>3, <1>6, <1>7, <1>8, <1>9, RebuildKeeps DEF catalogVars, CatalogType

---------------------------------------------------------------------------
(* The products change. *)

\* A change of the catalogue keeps the invariant: its row is still to be read.
LEMMA CatalogKeeps ==
  ASSUME SearchInv, CatalogStep
  PROVE  SearchInv'
<1>1. /\ CatalogType /\ IndexType /\ Rebuilding /\ DraftedByRebuild
      /\ \A d \in Consumers : Holds(d) /\ Drafted(d)
      /\ \A q \in Products : Shown(q)
      /\ rebuild.phase = "scan" => \A q \in Products : Scanned(q)
  BY DEF SearchInv
<1>2. UNCHANGED <<index, alias, done, worker, rebuild, faults>>
  BY DEF CatalogStep
<1>3. CatalogType' /\ (CatalogKept \/ \E e \in Events : Changes(e))
  BY <1>1, CatalogSteps DEF CatalogStep
<1>4. CASE CatalogKept
  <2>1. raced' = raced /\ \A q \in Products : Document(q)' = Document(q)
    BY <1>4 DEF CatalogStep, CatalogKept, Document, Listed
  <2>2. \A f : Affected(f)' = Affected(f)
    BY <1>4 DEF CatalogKept, Affected
  <2>3. IndexType' /\ Rebuilding'
    BY <1>1, <1>2, <1>4, <2>1 DEF IndexType, Rebuilding, CatalogKept
  <2>4. \A q \in Products : (Unfetched(q)' <=> Unfetched(q)) /\ (Replayed(q)' <=> Replayed(q))
    BY <1>2, <1>4, <2>2 DEF Unfetched, Replayed, CatalogKept
  <2>5. \A q \in Products : (InHand(q)' <=> InHand(q)) /\ (ToReplay(q)' <=> ToReplay(q))
    BY <1>2, <2>4 DEF InHand, ToReplay
  <2>6. ASSUME NEW d \in Consumers PROVE Holds(d)' /\ Drafted(d)'
    <3>1. worker[d].step = "write" => worker[d].product \in Products
      BY <1>1 DEF Processes, Holds, IndexType, Works
    <3> QED
      BY <1>1, <1>2, <1>4, <2>1, <2>2, <2>4, <3>1 DEF Holds, Drafted, CatalogKept
  <2>7. DraftedByRebuild'
    <3>1. worker[Rebuild].step = "write" => worker[Rebuild].product \in Products
      BY <1>1 DEF Processes, Rebuilding, IndexType, Works
    <3> QED
      BY <1>1, <1>2, <2>1, <2>4, <3>1 DEF DraftedByRebuild
  <2>8. \A q \in Products : Shown(q)'
    BY <1>1, <1>2, <2>1, <2>4, <2>5 DEF Shown
  <2>9. rebuild.phase = "scan" => \A q \in Products : Scanned(q)'
    BY <1>1, <1>2, <1>4, <2>1, <2>4 DEF Scanned, CatalogKept
  <2> QED
    BY <1>2, <1>3, <2>3, <2>6, <2>7, <2>8, <2>9 DEF SearchInv
<1>5. ASSUME NEW e \in Events, Changes(e) PROVE SearchInv'
  <2>1. /\ outbox' = Append(outbox, e) /\ epoch' = epoch /\ outbox \in Seq(Events)
        /\ \A p \in Products : product[p] # Absent => product'[p] # Absent
        /\ \A p \in Products : Document(p)' # Document(p) => p \in Affected(e)
    BY <1>1, <1>5 DEF Changes, CatalogType
  <2>2. PICK n \in Nat : n = Len(outbox) + 1
    BY <2>1
  <2>3. /\ DOMAIN outbox' = DOMAIN outbox \cup {n} /\ n \notin DOMAIN outbox /\ n # 0
        /\ outbox'[n] = e /\ \A i \in DOMAIN outbox : outbox'[i] = outbox[i]
    BY <2>1, <2>2
  <2>4. \A f : Affected(f) \subseteq Affected(f)'
    BY <2>1 DEF Affected
  <2>5. raced' = raced \cup Missed(e)
    <3>1. outbox' # outbox /\ Last(outbox') = e
      BY <2>1, <2>2, <2>3 DEF Last
    <3> QED
      BY <3>1 DEF CatalogStep
  <2>6. \A p \in Affected(e) : Unfetched(p)'
    <3>1. n \in DOMAIN outbox' \ done'
      BY <1>1, <1>2, <2>3 DEF IndexType
    <3>2. \A c \in Consumers : worker'[c].event # n
      BY <1>1, <1>2, <2>3 DEF Holds
    <3> QED
      BY <2>3, <2>4, <3>1, <3>2 DEF Unfetched
  <2>7. \A p \in Products : Unfetched(p) => Unfetched(p)'
    BY <1>2, <2>3, <2>4 DEF Unfetched
  <2>8. \A p \in Products : Replayed(p) => Replayed(p)'
    BY <2>3, <2>4 DEF Replayed
  <2>9. e.epoch >= 1 => \A p \in Affected(e) : Replayed(p)'
    BY <2>3, <2>4 DEF Replayed
  <2>10. e.epoch \in {0, 1} /\ Missed(e) \subseteq Products
    BY DEF Events, Missed, Affected, Ids
  <2>11. \A p \in Products : (InHand(p) => InHand(p)') /\ (ToReplay(p) => ToReplay(p)')
    BY <1>2, <2>8 DEF InHand, ToReplay
  <2>12. IndexType'
    BY <1>1, <1>2, <2>3, <2>5, <2>10 DEF IndexType
  <2>13. Rebuilding'
    BY <1>1, <1>2, <2>1, <2>5, <2>10 DEF Rebuilding, IndexType
  <2>14. ASSUME NEW d \in Consumers PROVE Holds(d)' /\ Drafted(d)'
    <3>1. worker[d].step = "write" => worker[d].product \in Products
      BY <1>1 DEF Processes, Holds, IndexType, Works
    <3>2. Holds(d)'
      BY <1>1, <1>2, <2>3, <2>4 DEF Holds
    <3>3. Drafted(d)'
      BY <1>1, <1>2, <2>1, <2>5, <2>6, <2>7, <3>1 DEF Drafted
    <3> QED
      BY <3>2, <3>3
  <2>15. DraftedByRebuild'
    <3>1. worker[Rebuild].step = "write" => worker[Rebuild].product \in Products /\ worker[Rebuild].product \in worker[Rebuild].todo
      BY <1>1 DEF Processes, Rebuilding, IndexType, Works
    <3>2. ASSUME NEW p \in Products, worker[Rebuild].step = "write", worker[Rebuild].product = p,
                 worker[Rebuild].doc # Document(p)'
          PROVE  p \in raced' \/ (rebuild.phase = "scan" /\ Replayed(p)')
      <4>2. CASE Document(p)' = Document(p)
        BY <1>1, <2>5, <2>8, <3>2, <4>2 DEF DraftedByRebuild
      <4>3. CASE Document(p)' # Document(p)
        <5>1. p \in Affected(e)
          BY <2>1, <4>3
        <5>2. rebuild.phase \in {"scan", "replay"}
          BY <1>1, <3>1, <3>2 DEF Rebuilding
        <5>3. rebuild.phase = "replay" => p \in Missed(e)
          BY <3>2, <5>1 DEF Missed
        <5>4. rebuild.phase = "scan" /\ e.epoch = 0 => p \in Missed(e)
          BY <5>1 DEF Missed
        <5> QED
          BY <2>5, <2>9, <2>10, <5>1, <5>2, <5>3, <5>4
      <4> QED
        BY <4>2, <4>3
    <3>3. worker'[Rebuild] = worker[Rebuild] /\ rebuild' = rebuild
      BY <1>2
    <3> QED
      BY <3>1, <3>2, <3>3 DEF DraftedByRebuild
  <2>16. ASSUME NEW p \in Products PROVE Shown(p)'
    BY <1>1, <1>2, <2>1, <2>5, <2>6, <2>7, <2>11 DEF Shown
  <2>17. ASSUME rebuild.phase = "scan", NEW p \in Products PROVE Scanned(p)'
    <3>1. CASE Document(p)' = Document(p)
      BY <1>1, <1>2, <2>1, <2>5, <2>8, <2>17, <3>1 DEF Scanned
    <3>2. CASE Document(p)' # Document(p)
      <4>1. p \in Affected(e)
        BY <2>1, <3>2
      <4>2. e.epoch = 0 => p \in Missed(e)
        BY <2>17, <4>1 DEF Missed
      <4> QED
        BY <2>5, <2>9, <2>10, <4>1, <4>2 DEF Scanned
    <3> QED
      BY <3>1, <3>2
  <2> QED
    BY <1>2, <1>3, <2>12, <2>13, <2>14, <2>15, <2>16, <2>17 DEF SearchInv
<1> QED
  BY <1>3, <1>4, <1>5

\* Every step keeps the invariant.
LEMMA SearchNextKeeps == OneIndexer /\ SearchInv /\ [Next]_vars => SearchInv'
<1> SUFFICES ASSUME OneIndexer, SearchInv, [Next]_vars PROVE SearchInv'
  OBVIOUS
<1>1. ASSUME NEW w \in Processes, UNCHANGED catalogVars, IndexStep(w) PROVE SearchInv'
  BY <1>1, ReadKeeps, WriteKeeps DEF IndexStep
<1>2. ASSUME NEW c \in Consumers, UNCHANGED catalogVars, ConsumerStep(c) \/ ConsumerFails(c) PROVE SearchInv'
  BY <1>1, <1>2, FetchKeeps, RestKeeps DEF ConsumerStep, Processes
<1>3. ASSUME NEW e \in DOMAIN outbox, UNCHANGED catalogVars, PublishedAgain(e) PROVE SearchInv'
  BY <1>3, PublishKeeps
<1>4. CASE UNCHANGED catalogVars /\ (RebuildStep \/ RebuildFails)
  BY <1>1, <1>4, SwitchKeeps, PageKeeps, ReplayKeeps, FinishKeeps, FailKeeps DEF RebuildStep, Processes
<1>5. CASE UNCHANGED vars
  <2>1. UNCHANGED catalogVars /\ UNCHANGED <<index, alias, done, worker, rebuild, raced>>
    BY <1>5 DEF vars, searchVars
  <2>2. /\ CatalogType /\ IndexType /\ Rebuilding /\ DraftedByRebuild
        /\ \A d \in Consumers : Holds(d) /\ Drafted(d)
        /\ \A q \in Products : Shown(q)
        /\ rebuild.phase = "scan" => \A q \in Products : Scanned(q)
    BY DEF SearchInv
  <2>3. product' = product /\ approved' = approved /\ outbox' = outbox /\ epoch' = epoch /\ txn' = txn
    BY <2>1 DEF catalogVars
  <2>4. CatalogType' /\ IndexType' /\ Rebuilding' /\ \A d \in Consumers : Holds(d)'
    BY <2>1, <2>2, <2>3 DEF CatalogType, Writes, Checks, IndexType, Rebuilding, Holds, Affected
  <2>5. ASSUME NEW d \in Consumers PROVE Drafted(d)'
    <3>1. worker[d].step = "write" => worker[d].product \in Products
      BY <2>2 DEF Processes, Holds, IndexType, Works
    <3>2. Drafted(d)
      BY <2>2
    <3> QED
      BY <2>1, <2>3, <3>1, <3>2 DEF Drafted, Unfetched, Affected, Document, Listed
  <2>8. DraftedByRebuild'
    <3>1. worker[Rebuild].step = "write" => worker[Rebuild].product \in Products
      BY <2>2 DEF Processes, Rebuilding, IndexType, Works
    <3> QED
      BY <2>1, <2>2, <2>3, <3>1 DEF DraftedByRebuild, Replayed, Affected, Document, Listed
  <2>6. \A q \in Products : Shown(q)'
    BY <2>1, <2>2, <2>3 DEF Shown, Replayed, Unfetched, InHand, ToReplay, Affected, Document, Listed
  <2>7. rebuild.phase = "scan" => \A q \in Products : Scanned(q)'
    BY <2>1, <2>2, <2>3 DEF Scanned, Replayed, Affected, Document, Listed
  <2> QED
    BY <2>1, <2>4, <2>5, <2>6, <2>7, <2>8 DEF SearchInv
<1> QED
  BY <1>2, <1>3, <1>4, <1>5, CatalogKeeps, StartKeeps DEF Next

\* With the one indexer that docker-compose.yml runs, and whatever is changed,
\* delivered again, given up or rebuilt meanwhile: once every message is
\* committed, searches see each product as it is (consumer.go, main.go of
\* search-reindex), but for the changes that the replay of a rebuild cannot see.
THEOREM IndexIsRight ==
  ASSUME OneIndexer
  PROVE  Spec => []OnlyTheRebuildLeavesStale
<1>1. SearchInv => OnlyTheRebuildLeavesStale
  <2> SUFFICES ASSUME SearchInv, Settled, NEW p \in Stale PROVE p \in raced
    BY DEF OnlyTheRebuildLeavesStale
  <2>1. Shown(p) /\ p \in Products /\ index[alias][p] # Document(p)
    BY DEF SearchInv, Stale
  <2>2. ~ Unfetched(p)
    BY DEF Unfetched, Settled
  <2>3. ~ InHand(p)
    BY DEF InHand, Settled, SearchInv, Holds
  <2>4. ~ ToReplay(p)
    BY DEF ToReplay, Settled
  <2> QED
    BY <2>1, <2>2, <2>3, <2>4 DEF Shown
<1> QED
  BY <1>1, SearchStarts, SearchNextKeeps, PTL DEF Spec

=============================================================================
