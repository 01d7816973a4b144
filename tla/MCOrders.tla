------------------------------ MODULE MCOrders ------------------------------
(***************************************************************************)
(* Small instances of Orders for TLC: variants 1 and 2 at 3 and 4 units of *)
(* money, of two shops, or variant 1 alone.                                *)
(***************************************************************************)
EXTENDS Orders

CONSTANT Stock       \* the initial stock of every variant

MCTwoVariants  == {1, 2}
MCOneVariant   == {1}
MCTwoShops     == {"shopA", "shopB"}
MCOneShop      == {"shopA"}
MCSellerOf     == [v \in Variants |-> IF v = 1 THEN "shopA" ELSE "shopB"]
MCPrice        == [v \in Variants |-> IF v = 1 THEN 3 ELSE 4]
MCCommission   == [s \in Sellers |-> 1500]
MCInitialStock == [v \in Variants |-> Stock]
MCDeltas       == {-1, 1}
MCNoDeltas     == {}

\* One use of a coupon worth 3: its shares of 3 and 4 are not whole numbers.
MCOffer == [c \in Coupons |->
    [type |-> "fixed", value |-> 3, maxDiscount |-> 0, minOrder |-> 0,
     usageLimit |-> 1, seller |-> AnySeller]]

\* The shop's own coupon, which makes its part free.
MCShopOffer == [c \in Coupons |-> [MCOffer[c] EXCEPT !.seller = "shopA"]]

\* Online requests, of the whole cart or of the first variant, with and without
\* a coupon. Nobody pays in the instance that uses them.
MCOnlineRequests == {r \in Requests : r.method = "sepay" /\ r.selection \in {{}, {1}}}

\* Requests of the whole cart, cash or online.
MCPlainRequests == {r \in Requests : r.selection = {}}

\* Order ids, drivers, transfer ids and users are never compared but for equality.
Interchangeable ==
    Permutations(Orders) \cup Permutations(Drivers) \cup Permutations(Transfers)
        \cup Permutations(Users) \cup Permutations(Keys)

=============================================================================
