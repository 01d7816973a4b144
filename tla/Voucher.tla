------------------------------ MODULE Voucher ------------------------------
(***************************************************************************)
(* The arithmetic of a coupon: what discount an offer grants on a list of  *)
(* checkout lines, and how that discount is split over the lines so that   *)
(* no unit of money is lost to rounding (internal/modules/voucher).        *)
(*                                                                         *)
(* An offer is the coupon row joined with its single rule:                 *)
(*   [type, value, maxDiscount, minOrder, usageLimit, seller]              *)
(* where "seller" is AnySeller for a platform coupon. A line is            *)
(*   [seller, amount].                                                     *)
(***************************************************************************)
EXTENDS Integers, Sequences, SequencesExt

CONSTANT AnySeller      \* the rule's NULL seller_id: every line is eligible

OfferFields == {"type", "value", "maxDiscount", "minOrder", "usageLimit", "seller"}

\* Whether the rule covers the line's seller.
Covers(offer, line) == offer.seller = AnySeller \/ offer.seller = line.seller

\* A coupon as the CHECK constraints of its table admit it.
IsOffer(offer) ==
    /\ DOMAIN offer = OfferFields
    /\ offer.type \in {"fixed", "percent"}
    /\ offer.value \in Nat \ {0} /\ offer.maxDiscount \in Nat
    /\ offer.type = "percent" => offer.value <= 100
    /\ offer.minOrder \in Nat /\ offer.usageLimit \in Nat

\* The sum of the values of a function with a finite domain.
Total(f) == MapThenSumSet(LAMBDA i : f[i], DOMAIN f)

\* What of a line the rule applies to.
Part(offer, line) == IF Covers(offer, line) THEN line.amount ELSE 0

\* The amount the rule applies to.
Eligible(offer, lines) == Total([i \in DOMAIN lines |-> Part(offer, lines[i])])

\* The window, activity and quota checks are the caller's (they read mutable
\* state); this is the part of Calculate's refusals that depends on the lines.
Applicable(offer, lines) ==
    /\ Eligible(offer, lines) > 0
    /\ Eligible(offer, lines) >= offer.minOrder

\* Mutant: the percentage of the hundreds alone.
DiscountOfHundreds(offer, lines) ==
    LET eligible == Eligible(offer, lines)
        offered  == IF offer.type = "percent"
                    THEN Min({(eligible \div 100) * offer.value, offer.maxDiscount})
                    ELSE offer.value
    IN  Min({offered, eligible})

\* The discount, computed without the product eligible * value, which could
\* leave 64 bits.
Discount(offer, lines) ==
    LET eligible == Eligible(offer, lines)
        percent  == (eligible \div 100) * offer.value
                      + ((eligible % 100) * offer.value) \div 100
        offered  == IF offer.type = "percent"
                    THEN Min({percent, offer.maxDiscount})
                    ELSE offer.value
    IN  Min({offered, eligible})

\* Mutant: every share computed from the whole, so that the parts rounded off
\* are nobody's.
AllocateLineOfWhole(offer, acc, line) ==
    [acc EXCEPT !.shares = Append(@, IF line.amount = 0 \/ ~Covers(offer, line) THEN 0
                                     ELSE (acc.remaining * line.amount) \div acc.base)]

\* One turn of the allocation loop: the line's share of what is still to be
\* allocated, in proportion to its part of what is still unallocated.
AllocateLine(offer, acc, line) ==
    IF line.amount = 0 \/ ~Covers(offer, line)
    THEN [acc EXCEPT !.shares = Append(@, 0)]
    ELSE LET share == (acc.remaining * line.amount) \div acc.base
         IN  [remaining |-> acc.remaining - share,
              base      |-> acc.base - line.amount,
              shares    |-> Append(acc.shares, share)]

LineDiscounts(offer, lines) ==
    LET after[i \in 0..Len(lines)] ==
            IF i = 0 THEN [remaining |-> Discount(offer, lines),
                           base      |-> Eligible(offer, lines),
                           shares    |-> <<>>]
                     ELSE AllocateLine(offer, after[i - 1], lines[i])
    IN  after[Len(lines)].shares

\* The platform's share of a seller's total; the rate is in hundredths of a
\* percent. Written, as in the code, without the product total * rate.
Commission(total, rate) ==
    (total \div 10000) * rate + ((total % 10000) * rate) \div 10000

=============================================================================
