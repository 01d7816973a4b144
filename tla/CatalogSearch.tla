--------------------------- MODULE CatalogSearch ---------------------------
(***************************************************************************)
(* The two answers to a search: from the search index, and from PostgreSQL *)
(* where the index is not used, too deep, or disagrees. rows is the        *)
(* products table in the order of ids; documents is what is indexed of it, *)
(* current after AddProduct and not after the others. The text of a query  *)
(* is left out: each side matches text in a way of its own.                *)
(***************************************************************************)
EXTENDS Integers, FiniteSets, FiniteSetsExt, Sequences, SequencesExt, Sorting

CONSTANTS
    Rows,         \* products: shop, status, created, variants, category, sales, rating
    Shops, Categories, Prices,
    Filters,      \* what is asked for: seller, category, least and greatest price
    Unset,        \* a filter that is not set
    Millisecond,  \* in the units PostgreSQL keeps creation times in (1000)
    MaxRows,
    Limit,        \* page size
    MaxWindow     \* how deep the index is asked (10000)

Variants == [price : Prices, deleted : BOOLEAN]
Products ==
    [shop : Shops, status : {"draft", "published", "archived"}, created : Nat, category : Categories,
     variants : SUBSET Variants, sales : Nat, rating : Nat]

ASSUME CatalogSearchAssumption ==
    /\ Rows \subseteq Products /\ Unset \notin Products
    /\ Filters \subseteq {f \in [seller : Shops \cup {Unset}, category : Categories \cup {Unset},
                               min : Prices \cup {Unset}, max : Prices \cup {Unset}] :
                          f.min # Unset /\ f.max # Unset => f.min <= f.max}
    /\ Prices \subseteq Nat /\ IsFiniteSet(Prices) /\ Prices # {}
    /\ Unset \notin Nat \cup Shops \cup Categories
    /\ Millisecond \in Nat \ {0} /\ Limit \in Nat \ {0}
    /\ MaxRows \in Nat /\ MaxWindow \in Nat

VARIABLES rows, approved, documents

vars == <<rows, approved, documents>>

Sorts == {"newest", "price_asc", "price_desc", "best_selling", "rating"}

Live(row) == {v.price : v \in {u \in row.variants : ~u.deleted}}
Within(price, f) == (f.min = Unset \/ price >= f.min) /\ (f.max = Unset \/ price <= f.max)
Listed(row) == row.status = "published" /\ row.shop \in approved
AllListed == {i \in DOMAIN rows : Listed(rows[i])}

\* A product without a price comes last, whichever way prices are sorted.
Key(row, sort) ==
    LET prices == Live(row) IN
    CASE sort = "price_asc"  -> IF prices = {} THEN Max(Prices) + 1 ELSE Min(prices)
      [] sort = "price_desc" -> IF prices = {} THEN 1 ELSE -Min(prices)
      [] sort = "best_selling" -> -row.sales
      [] sort = "rating"     -> -row.rating
      [] OTHER               -> 0

\* By the key, the newest first of those that tie, then by id.
Precedes(table, sort, i, j) ==
    LET a == Key(table[i], sort)
        b == Key(table[j], sort)
    IN  \/ a < b
        \/ a = b /\ table[i].created > table[j].created
        \/ a = b /\ table[i].created = table[j].created /\ i < j

Ordered(table, ids, sort) ==
    InOrder(ids, {pair \in ids \X ids : Precedes(table, sort, pair[1], pair[2])})

PageOf(ids, page) == SubSeq(ids, (page - 1) * Limit + 1, Min({page * Limit, Len(ids)}))

---------------------------------------------------------------------------
(* PostgreSQL.                                                             *)

Candidates(f, sort) ==
    Ordered(rows, {i \in DOMAIN rows :
        /\ rows[i].status = "published"
        /\ f.seller \in {Unset, rows[i].shop}
        /\ f.category \in {Unset, rows[i].category}
        /\ f.min # Unset \/ f.max # Unset => \E p \in Live(rows[i]) : Within(p, f)}, sort)

\* One candidate more; those of approved shops count.
Counted(before, i, page) ==
    LET seen == before.seen + 1 IN
    IF rows[i].shop \notin approved \/ Len(before.page) = Limit THEN before
    ELSE [seen |-> seen,
          page |-> IF seen > (page - 1) * Limit THEN Append(before.page, i) ELSE before.page]

\* The candidates one after the other.
Scan(candidates, page) ==
    LET found[k \in 0..Len(candidates)] ==
            IF k = 0 THEN [seen |-> 0, page |-> <<>>]
            ELSE Counted(found[k - 1], candidates[k], page)
    IN  found[Len(candidates)].page

PostgresPage(f, sort, page) ==
    IF f.seller = Unset THEN Scan(Candidates(f, sort), page)
    ELSE IF f.seller \in approved THEN PageOf(Candidates(f, sort), page) ELSE <<>>

---------------------------------------------------------------------------
(* The index.                                                              *)

\* Mutant: a document with the deleted variants.
DocumentOfAll(row) == [row EXCEPT !.created = @ \div Millisecond]

\* SearchDocument: what is indexed of a listed product. The time of its creation is
\* written down to the millisecond.
DocumentOf(row) ==
    [row EXCEPT !.variants = {v \in @ : ~v.deleted}, !.created = @ \div Millisecond]

Indexed(f, sort) ==
    Ordered(documents, {i \in DOMAIN documents :
        /\ documents[i] # Unset
        /\ documents[i].status = "published"
        /\ f.seller # Unset => documents[i].shop = f.seller
        /\ f.category # Unset => documents[i].category = f.category
        /\ f.min # Unset \/ f.max # Unset => \E v \in documents[i].variants : Within(v.price, f)}, sort)

\* The ids of products still published, of any shop.
HydratedPublished(ids) == Only(ids, {i \in DOMAIN rows : rows[i].status = "published"})

\* hydrateSearchIDs: the ids still listed, in the order of the index.
Hydrated(ids) == Only(ids, AllListed)

IndexPage(f, sort, page) ==
    IF page * Limit > MaxWindow THEN PostgresPage(f, sort, page)
    ELSE LET ids == PageOf(Indexed(f, sort), page)
         IN  IF Len(Hydrated(ids)) = Len(ids) THEN Hydrated(ids) ELSE PostgresPage(f, sort, page)

---------------------------------------------------------------------------

Init == rows = <<>> /\ approved = Shops /\ documents = <<>>

Reindexed(table) == [i \in DOMAIN table |-> IF Listed(table[i]) THEN DocumentOf(table[i]) ELSE Unset]

AddProduct(row) ==
    /\ Len(rows) < MaxRows
    /\ rows' = Append(rows, row)
    /\ documents' = Reindexed(rows')
    /\ UNCHANGED approved

\* Changes the index has not heard of yet.
Archive(i) ==
    /\ rows[i].status = "published"
    /\ rows' = [rows EXCEPT ![i].status = "archived"]
    /\ UNCHANGED <<approved, documents>>

Suspend(shop) ==
    /\ shop \in approved
    /\ approved' = approved \ {shop}
    /\ UNCHANGED <<rows, documents>>

Next ==
    \/ \E row \in Rows : AddProduct(row)
    \/ \E i \in DOMAIN rows : Archive(i)
    \/ \E shop \in Shops : Suspend(shop)

Spec == Init /\ [][Next]_vars

---------------------------------------------------------------------------

LastPage == MaxRows \div Limit + 1
Pages == 1..LastPage

\* PostgreSQL's pages one after the other.
AllPages(f, sort) ==
    LET upTo[page \in 0..LastPage] ==
            IF page = 0 THEN <<>> ELSE upTo[page - 1] \o PostgresPage(f, sort, page)
    IN  upTo[LastPage]

\* Products the index cannot tell apart: it orders them by id, PostgreSQL by the
\* rest of their creation times.
Tied(i, j, sort) ==
    /\ Key(rows[i], sort) = Key(rows[j], sort)
    /\ rows[i].created \div Millisecond = rows[j].created \div Millisecond

\* For every filter, order and page the index, when it is current, and PostgreSQL
\* show as many products, and each is in its place or changed it with one it ties
\* with: of the same key and created in the same millisecond. Where no two such
\* were created at different times the pages are the same.
SameAnswer ==
    documents = Reindexed(rows) =>
        \A f \in Filters, sort \in Sorts, page \in Pages :
            LET found == IndexPage(f, sort, page)
                right == PostgresPage(f, sort, page)
            IN  /\ Len(found) = Len(right)
                /\ \A k \in 1..Len(right) : Tied(found[k], right[k], sort)
                /\ (\A i, j \in AllListed : Tied(i, j, sort) => rows[i].created = rows[j].created)
                       => found = right

\* However stale the index, every product shown is listed: an archived one or
\* one of a suspended shop is not; and PostgreSQL's pages, one after the other,
\* show every candidate that is listed, once and in order.
PagesExact ==
    \A f \in Filters, sort \in Sorts :
        /\ \A page \in Pages : Range(IndexPage(f, sort, page)) \subseteq AllListed
        /\ AllPages(f, sort) = Only(Candidates(f, sort), AllListed)

=============================================================================
