------------------------------ MODULE MCQuote ------------------------------
(***************************************************************************)
(* Percentages and values that do not divide the amounts, free lines, a    *)
(* platform offer and a shop's.                                            *)
(***************************************************************************)
EXTENDS Quote

MCOffers ==
    [type : {"percent"}, value : {1, 33, 100}, maxDiscount : {5, 1000}, minOrder : {0, 100},
     usageLimit : {0}, seller : {AnySeller, "shopA"}]
    \cup
    [type : {"fixed"}, value : {1, 7, 150}, maxDiscount : {0}, minOrder : {0},
     usageLimit : {0}, seller : {AnySeller, "shopA"}]

=============================================================================
