----------------------------- MODULE MCRowLocks -----------------------------
(***************************************************************************)
(* A small instance of RowLocks: two variants, of two products and shops,  *)
(* and orders that hold both.                                              *)
(***************************************************************************)
EXTENDS RowLocks, TLC

MCTwoVariants == {1, 2}
MCTwoProducts == [v \in Variants |-> IF v = 1 THEN "lamp" ELSE "desk"]
MCTwoShops    == [v \in Variants |-> IF v = 1 THEN "shopA" ELSE "shopB"]
MCItemsOf     == [o \in Orders |-> Variants]

Sessions == Permutations(Txns)

=============================================================================
