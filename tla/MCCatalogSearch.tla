--------------------------- MODULE MCCatalogSearch ---------------------------
(***************************************************************************)
(* Products that tie in every order, two of them created in the same       *)
(* millisecond but not at once, one whose cheapest variant is deleted, one *)
(* without variants, a draft; two shops, two categories.                   *)
(***************************************************************************)
EXTENDS CatalogSearch

Variant(price, deleted) == [price |-> price, deleted |-> deleted]

Row(shop, created, category, variants, sales, rating) ==
    [shop |-> shop, status |-> "published", created |-> created, category |-> category,
     variants |-> variants, sales |-> sales, rating |-> rating]

Cheaper == {Variant(10, TRUE), Variant(20, FALSE)}
Spread  == {Variant(10, FALSE), Variant(30, FALSE)}

MCRows ==
    {Row("s1", created, "c1", {}, 1, 4) : created \in {2, 3}}
    \cup {Row(shop, 1, "c2", Spread, 0, 5) : shop \in Shops}
    \cup {Row("s1", 1, "c1", Cheaper, 1, 4), Row("s2", 2, "c2", Cheaper, 2, 0),
          [Row("s2", 1, "c1", Spread, 2, 5) EXCEPT !.status = "draft"]}

MCFilters ==
    {[seller |-> s, category |-> Unset, min |-> Unset, max |-> Unset] : s \in Shops \cup {Unset}}
    \cup {[seller |-> Unset, category |-> "c2", min |-> m, max |-> Unset] : m \in {Unset, 20}}
    \cup {[seller |-> s, category |-> Unset, min |-> 20, max |-> 20] : s \in {"s1", Unset}}
    \cup {[seller |-> Unset, category |-> Unset, min |-> Unset, max |-> 10]}

=============================================================================
