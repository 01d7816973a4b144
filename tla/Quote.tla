------------------------------- MODULE Quote -------------------------------
(***************************************************************************)
(* The quote of a coupon for any list of checkout lines: the offers and    *)
(* lines of small bounds, against what a quote has to be in exact          *)
(* arithmetic. Lines are added one by one; every prefix is a quote.        *)
(***************************************************************************)
EXTENDS Voucher

CONSTANTS Sellers, LineAmounts, Offers, MaxLines

ASSUME QuoteAssumption ==
    /\ LineAmounts \subseteq Nat /\ MaxLines \in Nat
    /\ \A o \in Offers : IsOffer(o)

VARIABLES offer, lines

vars == <<offer, lines>>

Init == offer \in Offers /\ lines = <<>>

\* The cart lines, as Preview and checkout read them.
AddLine(line) ==
    /\ Len(lines) < MaxLines
    /\ lines' = Append(lines, line)
    /\ UNCHANGED offer

Next == \E s \in Sellers, a \in LineAmounts : AddLine([seller |-> s, amount |-> a])

Spec == Init /\ [][Next]_vars

---------------------------------------------------------------------------

Shares   == LineDiscounts(offer, lines)
Granted  == Discount(offer, lines)

\* The discount is the exact percentage, rounded down, or the fixed value, never
\* more than the cap and never more than what it is granted on.
DiscountExact ==
    Applicable(offer, lines) =>
        LET eligible == Eligible(offer, lines)
            exact == IF offer.type = "percent"
                     THEN Min({(eligible * offer.value) \div 100, offer.maxDiscount})
                     ELSE offer.value
        IN  Granted = Min({exact, eligible})

\* Rounding loses nothing and wrongs nobody: the lines' shares add up to the
\* discount, none is on a line of another shop, each is less than one unit below
\* its exact proportion and above it by at most what those before it were short of.
SharesFair ==
    Applicable(offer, lines) =>
        /\ Total(Shares) = Granted
        /\ \A i \in DOMAIN lines :
            LET eligible == Eligible(offer, lines)
                exact == Granted * Part(offer, lines[i])
                given == Shares[i] * eligible
            IN  /\ Shares[i] \in 0..Part(offer, lines[i])
                /\ exact - eligible < given /\ given <= exact + (i - 1) * eligible

=============================================================================
