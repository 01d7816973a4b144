---------------------------- MODULE PaymentFlow ----------------------------
(***************************************************************************)
(* Bank transfers reported by the provider's webhook. The provider retries *)
(* until it is answered, so a transfer may be delivered any number of      *)
(* times and at any time: before or after the order is cancelled, with any *)
(* amount, code and account. Only the first delivery of a transfer id      *)
(* writes; a later one finds the receipt and returns.                      *)
(***************************************************************************)
EXTENDS Marketplace

CONSTANT Amounts      \* the amounts a transfer may have

\* account is "ours" when bank and account number are those of the payment.
Webhooks == [id : Transfers, order : Orders \cup {NoOrder}, amount : Amounts,
             direction : {"in", "out"}, account : {"ours", "other"}]

\* The rows of payment_webhook_receipts.
Receipts == [order : Orders \cup {NoOrder}, amount : Amounts, direction : {"in", "out"},
             account : {"ours", "other"}, status : ReceiptStatuses]

ASSUME ReceiptAssumption == NoReceipt \notin Receipts

\* The payment a transfer code names: only online payments have a code.
Matches(w) == w.order \in Placed /\ placed[w.order].method = "sepay"

\* Mutant: the payment's status is not looked at.
CanApplyAgain(w, o) ==
    /\ w.direction = "in" /\ w.account = "ours"
    /\ w.amount > 0 /\ w.amount = placed[o].amount
    /\ placed[o].method = "sepay" /\ orderStatus[o] = "pending"

CanApply(w, o) ==
    /\ w.direction = "in" /\ w.account = "ours"
    /\ w.amount > 0 /\ w.amount = placed[o].amount
    /\ placed[o].method = "sepay"
    /\ payStatus[o] = "pending"
    /\ orderStatus[o] = "pending"

\* Mutant: a transfer nobody can match is ignored.
ReceiptStatusLenient(w) ==
    IF w.direction = "out" \/ ~Matches(w) THEN "ignored"
    ELSE IF CanApply(w, w.order) THEN "applied" ELSE "requires_review"

ReceiptStatus(w) ==
    CASE w.direction = "out"     -> "ignored"
      [] w.direction = "in" /\ ~Matches(w) -> "unmatched"
      [] w.direction = "in" /\ Matches(w)  ->
            IF CanApply(w, w.order) THEN "applied" ELSE "requires_review"

MarkPaid(o) == payStatus' = [payStatus EXCEPT ![o] = "paid"]

Receive(w) ==
    LET status == ReceiptStatus(w) IN
    /\ receipts[w.id] = NoReceipt
    /\ receipts' = [receipts EXCEPT ![w.id] =
                       [order |-> w.order, amount |-> w.amount, direction |-> w.direction,
                        account |-> w.account, status |-> status]]
    /\ \/ /\ status = "applied"
          /\ MarkPaid(w.order)
          /\ Enqueue({<<"payment_succeeded", w.order>>})
       \/ /\ status \in {"requires_review", "unmatched"}
          /\ Enqueue({<<"payment_reconciliation_required", w.id>>})
          /\ UNCHANGED payStatus
       \/ /\ status = "ignored"
          /\ UNCHANGED <<payStatus, outbox>>
    /\ UNCHANGED <<catalogVars, couponVars, orderVars, fleetVars>>

=============================================================================
