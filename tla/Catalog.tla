------------------------------ MODULE Catalog ------------------------------
(***************************************************************************)
(* The products of one shop and the transactions that change what a search *)
(* document shows of them: name, variants, categories, reviews, sales and  *)
(* the shop's approval. rev stands for all of a product's contents.        *)
(*                                                                         *)
(* A transaction is up to four steps: what it reads to decide on (read,    *)
(* check), its writes with the outbox row among them (write), its commit,  *)
(* which makes them visible. The row's created_at is that of the write: an open        *)
(* transaction may have an old one. epoch is the clock as far as it        *)
(* matters, moved by the rebuild of the index.                             *)
(***************************************************************************)
EXTENDS Integers, FiniteSets, Sequences, SequencesExt

CONSTANTS
    Products,     \* ids of products, the order in which a rebuild reads them
    Existing,     \* those published from the start
    Txns,         \* transactions open at the same time
    Statuses,     \* the statuses a seller gives a product
    CategoryInputs, \* categoryIds of a request: left out, an empty list, one to three
    MaxEvents     \* bound on the transactions that commit

ASSUME CatalogAssumption ==
    /\ Products \subseteq Nat \ {0} /\ Existing \subseteq Products /\ MaxEvents \in Nat
    /\ Statuses \subseteq {"draft", "published", "archived"}
    /\ CategoryInputs \subseteq {"omitted", "none", "some"}

VARIABLES product, approved, txn, outbox, epoch

catalogVars == <<product, approved, txn, outbox, epoch>>

Shop     == 0
Absent   == [status |-> "absent", categorised |-> FALSE, rev |-> 0]

Idle == [phase |-> "idle"]

\* A row of the outbox: the product, or the shop, it is about. Its event type
\* decides nothing more for the index.
Event(id) == [id |-> id, epoch |-> epoch]

\* What a search document of p has to say; 0 for a product that has none.
Listed(p) == product[p].status = "published" /\ approved
Document(p) == IF Listed(p) THEN product[p].rev ELSE 0

CatalogInit ==
    /\ product = [p \in Products |->
           IF p \in Existing THEN [status |-> "published", categorised |-> TRUE, rev |-> 1] ELSE Absent]
    /\ approved = TRUE
    /\ txn = [t \in Txns |-> Idle]
    /\ outbox = <<>>
    /\ epoch = 0

---------------------------------------------------------------------------

Open(t) == txn[t].phase # "idle"

\* Every open transaction commits within the bound.
Begin(t) ==
    /\ ~Open(t)
    /\ Len(outbox) + Cardinality({u \in Txns : Open(u)}) < MaxEvents

\* No other transaction holds what t is about to write: a row lock.
Unlocked(t, row) ==
    \A u \in Txns \ {t} :
        txn[u].phase = "written" /\ txn[u].kind = "save" => txn[u].event.id # row

\* The statements of t, ending with outbox.Enqueue.
Write(t, kind, id, new) ==
    txn' = [txn EXCEPT ![t] = [phase |-> "written", kind |-> kind, event |-> Event(id), new |-> new]]

Keep == UNCHANGED <<product, approved, outbox, epoch>>

\* What Service.Save asks of the request and, but for the categories it has, of
\* the product.
ValidSave(new, status, categories) ==
    /\ ~(status = "published" /\ categories = "none")
    /\ ~(new /\ status = "published" /\ categories # "some")

NeedsCategories(row, status, categories) ==
    categories = "omitted" /\ status = "published" /\ row.status # "published"

\* Save up to its transaction: the product is read, without a lock.
SaveRead(t, p, status, categories) ==
    /\ Begin(t)
    /\ ValidSave(product[p] = Absent, status, categories)
    /\ txn' = [txn EXCEPT ![t] =
           [phase |-> IF NeedsCategories(product[p], status, categories) THEN "read" ELSE "checked",
            id |-> p, status |-> status, categories |-> categories, new |-> product[p] = Absent]]
    /\ Keep

Counted(t) == [phase |-> "checked", id |-> txn[t].id, status |-> txn[t].status,
               categories |-> txn[t].categories, new |-> txn[t].new]

\* The first statement of the transaction, where the product read was not published:
\* its categories are counted. Without any it is not published.
SaveCount(t) ==
    /\ txn[t].phase = "read"
    /\ txn' = [txn EXCEPT ![t] = IF product[txn[t].id].categorised THEN Counted(t) ELSE Idle]
    /\ Keep

\* The rest of Save: the row, its categories, the event.
SaveWrite(t) ==
    /\ txn[t].phase = "checked"
    /\ Unlocked(t, txn[t].id)
    /\ IF txn[t].new /\ product[txn[t].id] # Absent
       THEN txn' = [txn EXCEPT ![t] = Idle]        \* the same slug twice
       ELSE Write(t, "save", txn[t].id, [status |-> txn[t].status, categories |-> txn[t].categories])
    /\ Keep

\* The other transactions that change a document, or announce that it may have.
Touch(t, kind, p) ==
    /\ Begin(t)
    /\ product[p] # Absent
    /\ Write(t, kind, p, <<>>)
    /\ Keep

AddVariant(t, p)    == Touch(t, "contents", p)
UpdateVariant(t, p) == Touch(t, "contents", p)
CreateReview(t, p)  == Touch(t, "contents", p)
HideReview(t, p)    == Touch(t, "contents", p)
DeliverOrder(t, p)  == Touch(t, "contents", p)
AdjustStock(t, p)   == Touch(t, "stock", p)

\* The shop's status, or its name: all of its products change at once.
ChangeShop(t, status) ==
    /\ Begin(t)
    /\ Unlocked(t, Shop)
    /\ Write(t, "save", Shop, status)
    /\ Keep

\* The products a row or a message of the outbox is about.
Affected(e) == IF e.id = Shop THEN {p \in Products : product[p] # Absent} ELSE {e.id}

SaveRow(row, new) ==
    [status |-> new.status, rev |-> row.rev + 1,
     categorised |-> IF new.categories = "omitted" THEN row.categorised ELSE new.categories = "some"]

Commit(t) ==
    /\ txn[t].phase = "written"
    /\ LET e == txn[t].event IN
       /\ outbox' = Append(outbox, e)
       /\ approved' = IF e.id = Shop THEN txn[t].new ELSE approved
       /\ product' = [p \in Products |->
              IF p = e.id /\ txn[t].kind = "save" THEN SaveRow(product[p], txn[t].new)
              ELSE IF p \in Affected(e) /\ txn[t].kind # "stock" THEN [product[p] EXCEPT !.rev = @ + 1]
              ELSE product[p]]
    /\ txn' = [txn EXCEPT ![t] = Idle]
    /\ UNCHANGED epoch

Rollback(t) == Open(t) /\ txn' = [txn EXCEPT ![t] = Idle] /\ Keep

CatalogNext ==
    \E t \in Txns :
        \/ \E p \in Products, s \in Statuses, c \in CategoryInputs : SaveRead(t, p, s, c)
        \/ SaveCount(t) \/ SaveWrite(t)
        \/ \E p \in Products : AddVariant(t, p) \/ UpdateVariant(t, p) \/ CreateReview(t, p)
                               \/ HideReview(t, p) \/ DeliverOrder(t, p) \/ AdjustStock(t, p)
        \/ \E a \in BOOLEAN : ChangeShop(t, a)
        \/ Commit(t)
        \/ Rollback(t)

CatalogSpec == CatalogInit /\ [][CatalogNext]_catalogVars

\* RECOMMENDATIONS.md: a newly published product needs one to three existing
\* categories. Save asks for them only if the product it read was not published,
\* and the product may have become a draft without any since.
PublishedHasCategory ==
    \A p \in Products : product[p].status = "published" => product[p].categorised

=============================================================================
