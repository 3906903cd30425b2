------------------------------- MODULE Refunds -------------------------------
(***************************************************************************)
(* Refunds of one gateway payment, paymentService.processRefund and        *)
(* gatewayRefundService: the row is committed as pending, the gateway is   *)
(* asked outside any transaction, and the call's own answer, the gateway's *)
(* webhooks and the sweep all settle it.  A refund made in the gateway's   *)
(* dashboard is reported by webhook alone.  storeCreditService.refundToCredit *)
(* gives the same money back as credit, in a row of no payment.            *)
(***************************************************************************)
EXTENDS Integers, FiniteSets, FiniteSetsExt

CONSTANTS
    RefundRows,     \* bound: refunds rows, numbered in the order of createdAt
    References,     \* bound: refunds at the gateway
    PaidAmount,     \* the payment's amount, and the order's amountPaid
    Deliveries,     \* bound: refund callbacks handled at one time
    NoRef, NoRow

ASSUME RefundAssumption ==
    /\ RefundRows \in SUBSET Nat /\ IsFiniteSet(RefundRows)
    /\ IsFiniteSet(References) /\ NoRef \notin References
    /\ PaidAmount \in Nat /\ NoRow \notin RefundRows

VARIABLES
    refund,         \* the refunds rows
    amountRefunded, \* the order's
    ask,            \* the gateway call of each row
    made,           \* refunds as the gateway knows them
    handling,       \* callbacks between the search for a row and its settling
    reported,       \* <<reference, status>>: callbacks processed
    mistaken        \* references that were given to another refund's row

refundVars == <<refund, amountRefunded, ask, made, handling, reported, mistaken>>

NoRefund == [status |-> "none", amount |-> 0, ref |-> NoRef, source |-> "merchant"]
NotMade  == [status |-> "none", amount |-> 0, row |-> NoRow]
NotAsked == [at |-> "none", ref |-> NoRef, status |-> "none"]
Nothing  == [ref |-> NoRef, status |-> "none", row |-> NoRow]

RowsIn(s)      == {r \in RefundRows : refund[r].status \in s}
AmountOf(rows) == MapThenSumSet(LAMBDA r : refund[r].amount, rows)
MadeIn(s)      == {g \in References : made[g].status \in s}
AmountMade(gs) == MapThenSumSet(LAMBDA g : made[g].amount, gs)
FirstOf(rows)  == IF rows = {} THEN NoRow ELSE CHOOSE r \in rows : \A q \in rows : r <= q

RefundInit ==
    /\ refund = [r \in RefundRows |-> NoRefund]
    /\ amountRefunded = 0
    /\ ask = [r \in RefundRows |-> NotAsked]
    /\ made = [g \in References |-> NotMade]
    /\ handling = [k \in Deliveries |-> Nothing]
    /\ reported = {} /\ mistaken = {}

-----------------------------------------------------------------------------
(* processRefund.                                                           *)

\* amountPaid - amountRefunded - pending; never more than is left on the payment.
Eligible == PaidAmount - amountRefunded - AmountOf(RowsIn({"pending"}))

RequestRefund(r, amount) ==
    /\ r = FirstOf(RowsIn({"none"}))
    /\ amount <= Eligible
    /\ refund' = [refund EXCEPT ![r] = [@ EXCEPT !.status = "pending", !.amount = amount]]
    /\ ask' = [ask EXCEPT ![r].at = "sent"]
    /\ UNCHANGED <<amountRefunded, made, handling, reported, mistaken>>

\* refundToCredit, under the order's lock: processed at once, and what is still
\* pending at the gateway is not subtracted.
RefundToCredit(r, amount) ==
    /\ r = FirstOf(RowsIn({"none"}))
    /\ amount <= PaidAmount - amountRefunded
    /\ refund' = [refund EXCEPT ![r] = [status |-> "processed", amount |-> amount,
                                        ref |-> NoRef, source |-> "credit"]]
    /\ amountRefunded' = amountRefunded + amount
    /\ UNCHANGED <<ask, made, handling, reported, mistaken>>

\* The gateway carries it out, at once or later; or refuses.
GatewayTakes(r, g, status) ==
    /\ ask[r].at = "sent" /\ made[g].status = "none"
    /\ refund[r].amount + AmountMade(MadeIn({"pending", "processed"})) <= PaidAmount
    /\ made' = [made EXCEPT ![g] = [status |-> status, amount |-> refund[r].amount, row |-> r]]
    /\ ask' = [ask EXCEPT ![r] = [at |-> "answered", ref |-> g, status |-> status]]
    /\ UNCHANGED <<refund, amountRefunded, handling, reported, mistaken>>

GatewayRejects(r) ==
    /\ ask[r].at = "sent"
    /\ ask' = [ask EXCEPT ![r] = [at |-> "answered", ref |-> NoRef, status |-> "failed"]]
    /\ UNCHANGED <<refund, amountRefunded, made, handling, reported, mistaken>>

\* No definite answer, or the process stops: the row stays pending, and
\* whether the gateway took it is not known.
CallLost(r) ==
    /\ ask[r].at \in {"sent", "answered"}
    /\ ask' = [ask EXCEPT ![r] = [NotAsked EXCEPT !.at = "over"]]
    /\ UNCHANGED <<refund, amountRefunded, made, handling, reported, mistaken>>

-----------------------------------------------------------------------------
(* settleRefund, and the unique index of a payment's references.           *)

RefFree(r, g) == g = NoRef \/ \A q \in RefundRows \ {r} : refund[q].ref # g

\* Mistaken form: a refund that was settled is settled again.
Settles_Again(r, status) == status = "processed"

\* Whether this report takes the row out of 'pending'.
Settles(r, status) == refund[r].status = "pending" /\ status # "pending"

\* A row that is not pending is left as it is; the first reference stays.
SettleRefund(r, g, status) ==
    /\ refund' = IF Settles(r, status) \/ refund[r].status = "pending"
                 THEN [refund EXCEPT ![r].ref = IF @ = NoRef THEN g ELSE @,
                                     ![r].status = IF Settles(r, status) THEN status ELSE @]
                 ELSE refund
    /\ amountRefunded' = IF Settles(r, status) /\ status = "processed"
                         THEN amountRefunded + refund[r].amount ELSE amountRefunded

\* Whether settling would break the index: the transaction fails instead.
Clashes(r, g) == refund[r].status = "pending" /\ refund[r].ref = NoRef /\ ~RefFree(r, g)

CallAnswered(r) ==
    /\ ask[r].at = "answered"
    /\ IF Clashes(r, ask[r].ref)
       THEN UNCHANGED <<refund, amountRefunded>>
       ELSE SettleRefund(r, ask[r].ref, ask[r].status)
    /\ ask' = [ask EXCEPT ![r] = [NotAsked EXCEPT !.at = "over"]]
    /\ UNCHANGED <<made, handling, reported, mistaken>>

-----------------------------------------------------------------------------
(* The gateway: its dashboard, its callbacks, and the sweep's question.    *)

DashboardRefund(g, amount) ==
    /\ made[g].status = "none"
    /\ amount + AmountMade(MadeIn({"pending", "processed"})) <= PaidAmount
    /\ made' = [made EXCEPT ![g] = [status |-> "processed", amount |-> amount, row |-> NoRow]]
    /\ UNCHANGED <<refund, amountRefunded, ask, handling, reported, mistaken>>

GatewayFinishes(g, status) ==
    /\ made[g].status = "pending" /\ status \in {"processed", "failed"}
    /\ made' = [made EXCEPT ![g].status = status]
    /\ UNCHANGED <<refund, amountRefunded, ask, handling, reported, mistaken>>

\* recordRefundTransaction: by reference, else the oldest pending row without
\* one for the same amount, else none.  Read before any lock.
RowFor(g) ==
    LET byRef    == {r \in RefundRows : refund[r].ref = g}
        byAmount == {r \in RowsIn({"pending"}) :
                       refund[r].ref = NoRef /\ refund[r].amount = made[g].amount}
    IN  IF byRef # {} THEN FirstOf(byRef) ELSE FirstOf(byAmount)

Report(k, g) ==
    /\ handling[k] = Nothing
    /\ made[g].status # "none" /\ <<g, made[g].status>> \notin reported
    /\ handling' = [handling EXCEPT ![k] = [ref |-> g, status |-> made[g].status, row |-> RowFor(g)]]
    /\ mistaken' = IF RowFor(g) \notin {NoRow, made[g].row} THEN mistaken \cup {g} ELSE mistaken
    /\ UNCHANGED <<refund, amountRefunded, ask, made, reported>>

Handled(k) ==
    /\ handling' = [handling EXCEPT ![k] = Nothing]
    /\ reported' = reported \cup {<<handling[k].ref, handling[k].status>>}
    /\ UNCHANGED <<ask, made, mistaken>>

\* A clash leaves the event for the sweep, which searches again.
SettleReported(k) ==
    LET h == handling[k] IN
    /\ h.row # NoRow
    /\ IF Clashes(h.row, h.ref)
       THEN /\ handling' = [handling EXCEPT ![k] = Nothing]
            /\ UNCHANGED <<refund, amountRefunded, ask, made, reported, mistaken>>
       ELSE SettleRefund(h.row, h.ref, h.status) /\ Handled(k)

AlreadyThere(g) == \E r \in RefundRows : refund[r].ref = g

\* Made in the dashboard: a row of its own, once it is finished.
RecordReported(k) ==
    LET h == handling[k]
        r == FirstOf(RowsIn({"none"})) IN
    /\ h.ref # NoRef /\ h.row = NoRow
    /\ IF h.status # "processed" \/ AlreadyThere(h.ref)
       THEN UNCHANGED <<refund, amountRefunded>>
       ELSE /\ r # NoRow
            /\ refund' = [refund EXCEPT ![r] = [status |-> "processed", ref |-> h.ref,
                                 amount |-> made[h.ref].amount, source |-> "gateway"]]
            /\ amountRefunded' = amountRefunded + made[h.ref].amount
    /\ Handled(k)

\* settlePendingRefunds: only a row with a reference can be asked about.
SweepRefund(r) ==
    LET g == refund[r].ref IN
    /\ refund[r].status = "pending" /\ g # NoRef
    /\ made[g].status \in {"processed", "failed"}
    /\ SettleRefund(r, g, made[g].status)
    /\ UNCHANGED <<ask, made, handling, reported, mistaken>>

-----------------------------------------------------------------------------

RefundNext ==
    \/ \E r \in RefundRows :
         \/ \E amount \in 1..PaidAmount : RequestRefund(r, amount) \/ RefundToCredit(r, amount)
         \/ \E g \in References, s \in {"pending", "processed"} : GatewayTakes(r, g, s)
         \/ GatewayRejects(r) \/ CallLost(r) \/ CallAnswered(r) \/ SweepRefund(r)
    \/ \E g \in References :
         \/ \E amount \in 1..PaidAmount : DashboardRefund(g, amount)
         \/ \E s \in {"processed", "failed"} : GatewayFinishes(g, s)
         \/ \E k \in Deliveries : Report(k, g)
    \/ \E k \in Deliveries : SettleReported(k) \/ RecordReported(k)

RefundSpec == RefundInit /\ [][RefundNext]_refundVars

RefundTypes ==
    /\ refund \in [RefundRows -> [status : {"none", "pending", "processed", "failed"},
         amount : 0..PaidAmount, ref : References \cup {NoRef}, source : {"merchant", "gateway", "credit"}]]
    /\ amountRefunded \in 0..Cardinality(RefundRows) * PaidAmount
    /\ ask \in [RefundRows -> [at : {"none", "sent", "answered", "over"},
         ref : References \cup {NoRef}, status : {"none", "pending", "processed", "failed"}]]
    /\ made \in [References -> [status : {"none", "pending", "processed", "failed"},
         amount : 0..PaidAmount, row : RefundRows \cup {NoRow}]]
    /\ handling \in [Deliveries -> [ref : References \cup {NoRef}, row : RefundRows \cup {NoRow},
         status : {"none", "pending", "processed", "failed"}]]
    /\ mistaken \subseteq References

RowsOf(source) == {r \in RowsIn({"pending", "processed"}) : refund[r].source = source}

\* What the gateway was asked for, settled or not, never exceeds what was paid:
\* a refund whose outcome is unknown is not available for another.
NeverAskedTwice == AmountOf(RowsOf("merchant")) <= PaidAmount

\* One row for each gateway refund; and as long as no callback was given by its
\* amount to another refund's row, no row of the payment says processed that
\* the gateway did not carry out.
RefundsHappened ==
    /\ \A r, q \in RefundRows : refund[r].ref = refund[q].ref /\ refund[r].ref # NoRef => r = q
    /\ mistaken = {} =>
         \A r \in RowsIn({"processed"}) \ RowsOf("credit") : made[refund[r].ref].status = "processed"

\* src/src/modules/payments/gatewayRefundService.js:22: "so the order's totals,
\* credit note and financial state follow the money exactly as for a refund
\* made here".  Once every refund the gateway carried out has been reported and
\* nothing is being handled, the order's total is what went back; unless two
\* refunds of one amount were taken for each other.
TotalsFollowMoney ==
    /\ mistaken = {}
    /\ \A g \in MadeIn({"processed"}) : <<g, "processed">> \in reported
    /\ MadeIn({"pending"}) = {}
    /\ \A k \in Deliveries : handling[k] = Nothing
    /\ \A r \in RefundRows : ask[r].at \in {"none", "over"}
    => amountRefunded = AmountMade(MadeIn({"processed"})) + AmountOf(RowsOf("credit"))

\* The order's amountRefunded is the sum of its processed refunds: the call's
\* answer, the webhooks and the sweep count each row once.  And the rows are
\* what happened at the gateway, as the three above say.
RefundsAddUp ==
    /\ amountRefunded = AmountOf(RowsIn({"processed"}))
    /\ NeverAskedTwice
    /\ RefundsHappened
    /\ TotalsFollowMoney

\* src/src/modules/payments/paymentService.js:156: "What can be refunded is what
\* was actually received and not yet given back - amountPaid - amountRefunded -
\* the refunds still pending": the merchant's refunds of an order, to the card
\* and as credit, settled or on their way, never exceed what was paid.
NeverRefundedTwice == AmountOf(RowsOf("merchant") \cup RowsOf("credit")) <= PaidAmount
=============================================================================
