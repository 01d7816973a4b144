----------------------------- MODULE Recommend -----------------------------
(***************************************************************************)
(* The recommendations for a user's home page and beside a product. The    *)
(* candidates come from the search index, which lags behind, or from a     *)
(* fallback, through two layers of caches, which lag behind it; Redis, the *)
(* index, PostgreSQL and the Seller service may each fail at every call.   *)
(* What is shown at last is read from PostgreSQL and the Seller service.   *)
(*                                                                         *)
(* Products are numbered by their rank. Scores, texts and prices are left  *)
(* out, and of a list of candidates the order: it is ranked anew. There    *)
(* is one user, who asks again and again.                                  *)
(***************************************************************************)
EXTENDS Integers, FiniteSets, FiniteSetsExt, Sequences, SequencesExt, Sorting

CONSTANTS
    Products, ShopOf, CategoriesOf, \* the products, and of each its shop and categories
    Limits,                         \* numbers of products asked for
    MaxCached, MaxChanges

NoProduct == 0 \* uuid.Nil

ASSUME RecommendAssumption ==
    /\ IsFiniteSet(Products) /\ Products \subseteq Nat \ {NoProduct} /\ Limits \subseteq Nat \ {0}
    /\ MaxCached \in Nat /\ MaxChanges \in Nat

VARIABLES
    published, stocked, \* products
    approved,           \* shops
    indexed,            \* products the search index has as published
    cached,             \* the lists that Redis has, by key
    request,             \* what is asked, where it is, what it has
    seen,               \* ghost: the products for sale and the shops approved since it began
    changes

marketVars == <<published, stocked, approved, indexed, seen, changes>>
recommendVars == <<marketVars, cached, request>>

Shops == {ShopOf[p] : p \in Products}
Categories == UNION {CategoriesOf[p] : p \in Products}

\* A list of candidates: its products, and its length, which counts repetitions.
List(products) == [products |-> products, size |-> Cardinality(products)]
Both(a, b) == [products |-> a.products \cup b.products, size |-> a.size + b.size]

Popular == <<"popular">>
Category(c) == <<"category", c>>
ResultFor(p) == <<"result", p>> \* of the one user there is

ForSale == published \cap stocked

RecommendInit ==
    /\ published = Products /\ stocked = Products /\ approved = Shops /\ indexed = Products
    /\ cached = <<>>
    /\ request = [step |-> "none"]
    /\ seen = [products |-> {}, shops |-> {}]
    /\ changes = 0

---------------------------------------------------------------------------

NoRequest == request.step \in {"none", "answered", "missing"}
Stage(step) == request.step = step
GoesTo(step) == request' = [request EXCEPT !.step = step]
Shows(shown) ==
    request' = [request EXCEPT !.step = "answered", !.list = List({}), !.todo = {}, !.cards = {}, !.shown = shown]

Asks(about, limit, interests, step) ==
    /\ NoRequest
    /\ request' = [step |-> step, about |-> about, limit |-> limit, todo |-> interests,
                   list |-> List({}), cards |-> {}, shown |-> <<>>]
    /\ seen' = [products |-> ForSale, shops |-> approved]
    /\ UNCHANGED <<published, stocked, approved, indexed, changes, cached>>

\* What the user looked at lately, the strongest first; nothing, when Redis fails.
LoadInterests == SUBSET Categories

Home(limit) ==
    \E interests \in LoadInterests :
        Cardinality(interests) <= 3 /\ Asks(NoProduct, limit, interests, "result")

Similar(p, limit) == Asks(p, limit, CategoriesOf[p], "product")

\* Whatever fails, the answer is an empty list; a product that is not shown is not found.
Product ==
    /\ Stage("product")
    /\ GoesTo(IF request.about \in published THEN "shop" ELSE "missing") \/ Shows(<<>>)
    /\ UNCHANGED <<marketVars, cached>>

Shop ==
    /\ Stage("shop")
    /\ GoesTo(IF ShopOf[request.about] \in approved THEN "result" ELSE "missing") \/ Shows(<<>>)
    /\ UNCHANGED <<marketVars, cached>>

---------------------------------------------------------------------------
(* Gathering candidates. A cache that fails is one that has nothing.       *)

Adds(list, todo, step) ==
    request' = [request EXCEPT !.list = Both(@, list), !.todo = todo, !.step = step]

\* Redis may fail to take it.
cacheCandidates(key, list) ==
    \/ LET keys == DOMAIN cached \cup {key} IN
       /\ Cardinality(keys) <= MaxCached
       /\ cached' = [k \in keys |-> IF k = key THEN list ELSE cached[k]]
    \/ UNCHANGED cached

\* The candidates of an earlier request, whatever its limit was.
CachedResult ==
    LET key == ResultFor(request.about) IN
    /\ Stage("result")
    /\ \/ key \in DOMAIN cached /\ Adds(cached[key], {}, "cards")
       \/ GoesTo("categories")
    /\ UNCHANGED <<marketVars, cached>>

cachedCandidates(key, todo, step) ==
    key \in DOMAIN cached /\ Adds(cached[key], todo, step) /\ UNCHANGED cached

SearchDocuments(key, products, todo, step) ==
    Adds(List(products), todo, step) /\ cacheCandidates(key, List(products))

\* One interest after the other; one that fails is the last.
categoryCandidates(c) ==
    LET todo == request.todo \ {c}
        found == {p \in indexed : c \in CategoriesOf[p]}
    IN
    /\ Stage("categories") /\ c \in request.todo
    /\ \/ cachedCandidates(Category(c), todo, "categories")
       \/ SearchDocuments(Category(c), found, todo, "categories")
       \/ Adds(List({}), {}, "categories") /\ UNCHANGED cached
    /\ UNCHANGED marketVars

\* The product's text is looked for in all that is indexed.
similarCandidates ==
    /\ Stage("categories") /\ request.todo = {}
    /\ \/ \E found \in SUBSET indexed :
             request.about # NoProduct /\ Adds(List(found), {}, "popular")
       \/ GoesTo("popular")
    /\ UNCHANGED <<marketVars, cached>>

\* Only when the list is short; PostgreSQL stands in for the index.
popularCandidates ==
    /\ Stage("popular")
    /\ IF request.list.size >= 2 * request.limit THEN GoesTo("caching") /\ UNCHANGED cached
       ELSE \/ cachedCandidates(Popular, {}, "caching")
            \/ SearchDocuments(Popular, indexed, {}, "caching")
            \/ SearchDocuments(Popular, ForSale, {}, "caching")
            \/ GoesTo("caching") /\ UNCHANGED cached
    /\ UNCHANGED marketVars

\* From here on repetitions do not matter.
CacheResult ==
    LET list == List(request.list.products) IN
    /\ Stage("caching") /\ request' = [request EXCEPT !.list = list, !.step = "cards"]
    /\ IF list.size > 0 THEN cacheCandidates(ResultFor(request.about), list) ELSE UNCHANGED cached
    /\ UNCHANGED marketVars

---------------------------------------------------------------------------
(* What is shown *)

\* Each candidate once, the best first (and of more than a hundred, the best).
Ranked == Ascending(request.list.products \ {request.about})

\* One statement; when it fails, or has nothing, the answer is empty.
Cards ==
    LET cards == ToSet(Ranked) \cap ForSale IN
    /\ Stage("cards")
    /\ \/ cards # {} /\ request' = [request EXCEPT !.cards = cards, !.step = "shops"]
       \/ Shows(<<>>)
    /\ UNCHANGED <<marketVars, cached>>

\* One of the cards more, while there is room, and two of its shop at most.
Taken(cards, shown, p) ==
    IF /\ p \in cards /\ Len(shown) < request.limit
       /\ Cardinality({q \in ToSet(shown) : ShopOf[q] = ShopOf[p]}) < 2
    THEN Append(shown, p) ELSE shown

\* In the order of their rank.
Picked(cards) ==
    LET after[i \in 0..Len(Ranked)] ==
            IF i = 0 THEN <<>> ELSE Taken(cards, after[i - 1], Ranked[i])
    IN  after[Len(Ranked)]

\* What the Seller service knows of the shops (a hundred at most).
BatchSellerInfo(shops) == [s \in shops |-> IF s \in approved THEN "approved" ELSE "suspended"]

\* Mutant: the cards are shown without asking for the shops.
hydrateUnasked == request.cards

\* The shops are asked for after the cards, each once, all in one call.
hydrate ==
    LET shops == {ShopOf[p] : p \in request.cards}
    IN  {p \in request.cards : BatchSellerInfo(shops)[ShopOf[p]] = "approved"}

Approves ==
    /\ Stage("shops")
    /\ Shows(Picked(hydrate)) \/ Shows(<<>>)
    /\ UNCHANGED <<marketVars, cached>>

---------------------------------------------------------------------------
(* Meanwhile *)

Changes(products, stock, shops) ==
    /\ changes < MaxChanges /\ changes' = changes + 1
    /\ published' = products /\ stocked' = stock /\ approved' = shops
    /\ seen' = IF NoRequest THEN seen
               ELSE [products |-> seen.products \cup (products \cap stock),
                     shops |-> seen.shops \cup shops]
    /\ UNCHANGED <<indexed, cached, request>>

Toggled(set, x) == IF x \in set THEN set \ {x} ELSE set \cup {x}

MarketChanges ==
    \/ \E p \in Products : \/ Changes(Toggled(published, p), stocked, approved)
                           \/ Changes(published, Toggled(stocked, p), approved)
    \/ \E s \in Shops : Changes(published, stocked, Toggled(approved, s))

\* The index catches up.
Indexed ==
    /\ indexed # published /\ indexed' = published
    /\ UNCHANGED <<published, stocked, approved, seen, changes, cached, request>>

Expires ==
    /\ \E key \in DOMAIN cached : cached' = [k \in DOMAIN cached \ {key} |-> cached[k]]
    /\ UNCHANGED <<marketVars, request>>

RecommendNext ==
    \/ MarketChanges \/ Indexed \/ Expires
    \/ \E limit \in Limits : Home(limit) \/ \E p \in Products : Similar(p, limit)
    \/ Product \/ Shop \/ CachedResult
    \/ \E c \in Categories : categoryCandidates(c)
    \/ similarCandidates \/ popularCandidates \/ CacheResult \/ Cards \/ Approves

RecommendSpec == RecommendInit /\ [][RecommendNext]_recommendVars

---------------------------------------------------------------------------

\* However stale the caches and the index are and whatever fails, each product
\* shown was for sale and its shop approved while the request ran; it is shown
\* once and not beside itself, with at most one other of its shop.
ShownIsForSale ==
    Stage("answered") =>
        LET shown == request.shown IN
        /\ ToSet(shown) \subseteq seen.products
        /\ {ShopOf[p] : p \in ToSet(shown)} \subseteq seen.shops
        /\ Cardinality(ToSet(shown)) = Len(shown) /\ Len(shown) <= request.limit
        /\ request.about \notin ToSet(shown)
        /\ \A s \in Shops : Cardinality({p \in ToSet(shown) : ShopOf[p] = s}) <= 2

=============================================================================
