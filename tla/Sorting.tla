------------------------------ MODULE Sorting -------------------------------
(***************************************************************************)
(* Rows in an order, as an ORDER BY returns them. The order is given as    *)
(* the set of its pairs. SequencesExt has SetToSortSeq and SelectSeq; here *)
(* both are without recursion, so that they can be proved about.           *)
(***************************************************************************)
EXTENDS Integers, FiniteSets, Sequences

\* How many of the items come before v.
NumberBefore(items, order, v) == Cardinality({w \in items : <<w, v>> \in order})

\* The i-th item is the one with i - 1 before it.
InOrder(items, order) ==
    [i \in 1..Cardinality(items) |-> CHOOSE v \in items : NumberBefore(items, order, v) = i - 1]

LessThan(items) == {pair \in items \X items : pair[1] < pair[2]}

Ascending(items) == InOrder(items, LessThan(items))

\* Those of a sequence that are in the set, in the order of the sequence.
Only(s, set) ==
    LET kept == Ascending({k \in DOMAIN s : s[k] \in set})
    IN  [i \in DOMAIN kept |-> s[kept[i]]]

=============================================================================
