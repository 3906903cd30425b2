-------------------------------- MODULE Tender --------------------------------
(***************************************************************************)
(* What a shopper holds at the store and spends on a cash-on-delivery      *)
(* order: giftCardService, storeCreditService and loyaltyService.  The     *)
(* checkout takes each tender in a transaction of its own after the order  *)
(* was placed; the merchant refunds; the outbox's jobs of order.cancelled  *)
(* and order.rejected give back what is left; order.delivered earns points *)
(* and order.returned takes them back.  A job may run late, and again.     *)
(* One point is worth one unit of money.                                   *)
(***************************************************************************)
EXTENDS Integers, Sequences, FiniteSets, FiniteSetsExt

CONSTANTS
    Checkout,       \* the tenders the shopper uses, the last taken first
    OrderTotal,
    StartBalance,   \* of each tender
    MaxEndings,     \* bound: cancellations and rejections
    MaxReturns,     \* bound: parcels returned
    ReturnJobs      \* bound: loyalty_returned jobs at one time

ASSUME TenderAssumption ==
    /\ Checkout \in Seq({"gift_card", "store_credit", "loyalty"})
    /\ \A i, k \in DOMAIN Checkout : Checkout[i] = Checkout[k] => i = k
    /\ {"store_credit", "loyalty"} \subseteq {Checkout[i] : i \in DOMAIN Checkout}
    /\ OrderTotal \in Nat /\ StartBalance \in Nat
    /\ MaxEndings \in Nat /\ MaxReturns \in Nat /\ IsFiniteSet(ReturnJobs)

VARIABLES
    sale,       \* the order: its stage, its parcel, amountPaid and amountRefunded
    checkout,   \* how many tenders the checkout request has still to take
    spent,      \* the amount of each tender's payment
    givenBack,  \* processed refunds of that payment
    holding,    \* the card's balance, the customer's credit and points
    cancelJobs, \* tenders whose job of an ending is not done
    points,     \* this order's 'earn' row, and how many 'reverse' rows
    earnJob,    \* loyalty_earn is not done
    returnJob,  \* each loyalty_returned job
    endings, returns,
    late        \* ghost: spent on an ended order; points earned after a return
                \* was handled; points taken back by two jobs at once

tenderVars == <<sale, checkout, spent, givenBack, holding, cancelJobs, points,
                earnJob, returnJob, endings, returns, late>>

Tenders == {Checkout[i] : i \in DOMAIN Checkout}

TenderInit ==
    /\ sale = [stage |-> "none", parcel |-> "none", paid |-> 0, refunded |-> 0]
    /\ checkout = 0
    /\ spent = [t \in Tenders |-> 0] /\ givenBack = [t \in Tenders |-> 0]
    /\ holding = [t \in Tenders |-> StartBalance]
    /\ cancelJobs = {}
    /\ points = [earned |-> 0, reversed |-> 0]
    /\ earnJob = FALSE /\ returnJob = [j \in ReturnJobs |-> "none"]
    /\ endings = 0 /\ returns = 0 /\ late = {}

Min2(a, b) == IF a <= b THEN a ELSE b
NoLess(a)  == IF a >= 0 THEN a ELSE 0
JobsSame   == UNCHANGED <<cancelJobs, points, earnJob, returnJob, endings, returns>>

-----------------------------------------------------------------------------
(* The checkout.                                                           *)

PlaceSale ==
    /\ sale.stage = "none"
    /\ sale' = [sale EXCEPT !.stage = "standing"]
    /\ checkout' = Len(Checkout)
    /\ UNCHANGED <<spent, givenBack, holding, late>> /\ JobsSame

\* redeemOnOrder, spendOnOrder: at most what is still due.
CanTake(t) == Min2(holding[t], NoLess(OrderTotal - sale.paid))

\* The order is locked, and not asked whether it still stands.
SpendNext ==
    LET t == Checkout[checkout] IN
    /\ checkout > 0
    /\ checkout' = checkout - 1
    /\ spent' = [spent EXCEPT ![t] = CanTake(t)]
    /\ holding' = [holding EXCEPT ![t] = @ - CanTake(t)]
    /\ sale' = [sale EXCEPT !.paid = @ + CanTake(t)]
    /\ late' = IF sale.stage = "ended" /\ CanTake(t) > 0 THEN late \cup {t} ELSE late
    /\ UNCHANGED givenBack /\ JobsSame

\* A spend that fails is not tried again; nor is what a stopped process left.
SpendFails ==
    /\ checkout > 0 /\ checkout' = checkout - 1
    /\ UNCHANGED <<sale, spent, givenBack, holding, late>> /\ JobsSame

-----------------------------------------------------------------------------
(* The order.                                                              *)

\* Cancelled or rejected, before it was shipped.
EndSale ==
    /\ sale.stage = "standing" /\ sale.parcel = "none" /\ endings < MaxEndings
    /\ sale' = [sale EXCEPT !.stage = "ended"]
    /\ endings' = endings + 1
    /\ cancelJobs' = Tenders
    /\ UNCHANGED <<checkout, spent, givenBack, holding, points, earnJob, returnJob, returns, late>>

ReopenSale ==
    /\ sale.stage = "ended"
    /\ sale' = [sale EXCEPT !.stage = "standing"]
    /\ UNCHANGED <<checkout, spent, givenBack, holding, late>> /\ JobsSame

\* Delivered, for the first time or after it was sent again.
DeliverParcel ==
    /\ sale.stage = "standing" /\ sale.parcel \in {"none", "returned"}
    /\ sale.parcel = "returned" => returns < MaxReturns
    /\ sale' = [sale EXCEPT !.parcel = "delivered"]
    /\ earnJob' = TRUE
    /\ UNCHANGED <<checkout, spent, givenBack, holding, cancelJobs, points, returnJob, endings, returns, late>>

ReturnParcel(j) ==
    /\ sale.parcel = "delivered" /\ returns < MaxReturns /\ returnJob[j] = "none"
    /\ sale' = [sale EXCEPT !.parcel = "returned"]
    /\ returns' = returns + 1
    /\ returnJob' = [returnJob EXCEPT ![j] = "queued"]
    /\ UNCHANGED <<checkout, spent, givenBack, holding, cancelJobs, points, earnJob, endings, late>>

\* settlementService.confirm: what the courier collected, up to what is owed.
CollectCash ==
    /\ sale.stage = "standing" /\ sale.parcel = "delivered" /\ sale.refunded = 0
    /\ sale.paid < OrderTotal
    /\ sale' = [sale EXCEPT !.paid = OrderTotal]
    /\ UNCHANGED <<checkout, spent, givenBack, holding, late>> /\ JobsSame

-----------------------------------------------------------------------------
(* Refunds.                                                                *)

\* Mistaken form: what went back already is not subtracted.
LeftOn_Whole(t) == spent[t]

\* refundableOnPayment: the payment less its refunds.
LeftOn(t) == spent[t] - givenBack[t]

\* A processed refund of a tender's payment, and its hook in the same transaction.
GiveBack(t, amount) ==
    /\ givenBack' = [givenBack EXCEPT ![t] = @ + amount]
    /\ holding' = [holding EXCEPT ![t] = @ + amount]
    /\ sale' = [sale EXCEPT !.refunded = @ + amount]

\* processRefund of a tender's payment named by the merchant: refundOffline's
\* own limit is the order's total.
RefundTender(t, amount) ==
    /\ amount <= LeftOn(t) /\ amount <= OrderTotal - sale.refunded
    /\ GiveBack(t, amount)
    /\ UNCHANGED <<checkout, spent, late>> /\ JobsSame

\* refundOffline of no tender's payment: the merchant hands over money.
RefundCash(amount) ==
    /\ sale.stage # "none" /\ amount <= OrderTotal - sale.refunded
    /\ sale' = [sale EXCEPT !.refunded = @ + amount]
    /\ UNCHANGED <<checkout, spent, givenBack, holding, late>> /\ JobsSame

\* refundToCredit.
RefundAsCredit(amount) ==
    /\ amount <= sale.paid - sale.refunded
    /\ sale' = [sale EXCEPT !.refunded = @ + amount]
    /\ holding' = [holding EXCEPT !["store_credit"] = @ + amount]
    /\ UNCHANGED <<checkout, spent, givenBack, late>> /\ JobsSame

-----------------------------------------------------------------------------
(* The jobs.  A job done may run again: `again` keeps it.                  *)

\* Never more than the order still has to refund.
Room == NoLess(sale.paid - sale.refunded)

\* A reopen that beat the job keeps it.
GivesBack(t) == sale.stage = "ended" /\ Min2(LeftOn(t), Room) > 0

\* refundCancelledOrder, onOrderCancelled, under the order's lock.  An order
\* that could be cancelled was not delivered, and earned no points.
OnCancelled(t, again) ==
    /\ t \in cancelJobs
    /\ IF GivesBack(t) THEN GiveBack(t, Min2(LeftOn(t), Room))
                       ELSE UNCHANGED <<sale, givenBack, holding>>
    /\ cancelJobs' = IF again THEN cancelJobs ELSE cancelJobs \ {t}
    /\ UNCHANGED <<checkout, spent, points, earnJob, returnJob, endings, returns, late>>

\* Once per order, whatever became of it since but a cancellation.
Earns == sale.stage # "ended" /\ points.earned = 0

\* On goods paid with money: the total less refunds and what points paid.
PointsFor == NoLess(OrderTotal - sale.refunded - spent["loyalty"])

EarnForOrder(again) ==
    /\ earnJob /\ earnJob' = again
    /\ IF Earns
       THEN /\ points' = [points EXCEPT !.earned = @ + PointsFor]
            /\ holding' = [holding EXCEPT !["loyalty"] = @ + PointsFor]
            /\ late' = IF returns > 0 /\ PointsFor > 0 THEN late \cup {"earned"} ELSE late
       ELSE UNCHANGED <<points, holding, late>>
    /\ UNCHANGED <<sale, checkout, spent, givenBack, cancelJobs, returnJob, endings, returns>>

\* Mistaken form: points that were spent meanwhile are let go.
Reverses_IfHeld == points.earned > 0 /\ points.reversed = 0 /\ holding["loyalty"] >= points.earned

Reverses == points.earned > 0 /\ points.reversed = 0

\* reverseEarned reads the ledger with no lock on the order ...
ReadEarned(j) ==
    /\ returnJob[j] = "queued"
    /\ returnJob' = [returnJob EXCEPT ![j] = IF Reverses THEN "reversing" ELSE "done"]
    /\ late' = IF Reverses /\ \E i \in ReturnJobs : returnJob[i] = "reversing"
               THEN late \cup {"reversed"} ELSE late
    /\ UNCHANGED <<sale, checkout, spent, givenBack, holding, cancelJobs, points, earnJob, endings, returns>>

\* ... and then moves the balance, never below zero.
WriteReversal(j, again) ==
    /\ returnJob[j] = "reversing"
    /\ returnJob' = [returnJob EXCEPT ![j] = IF again THEN "queued" ELSE "done"]
    /\ points' = [points EXCEPT !.reversed = @ + 1]
    /\ holding' = [holding EXCEPT !["loyalty"] = NoLess(@ - points.earned)]
    /\ UNCHANGED <<sale, checkout, spent, givenBack, cancelJobs, earnJob, endings, returns, late>>

TenderNext ==
    \/ PlaceSale \/ SpendNext \/ SpendFails
    \/ EndSale \/ ReopenSale \/ DeliverParcel \/ CollectCash
    \/ \E amount \in 1..OrderTotal :
         RefundCash(amount) \/ RefundAsCredit(amount) \/ \E t \in Tenders : RefundTender(t, amount)
    \/ \E again \in BOOLEAN :
         EarnForOrder(again) \/ \E t \in Tenders : OnCancelled(t, again)
    \/ \E j \in ReturnJobs :
         ReturnParcel(j) \/ ReadEarned(j) \/ \E again \in BOOLEAN : WriteReversal(j, again)

TenderSpec == TenderInit /\ [][TenderNext]_tenderVars

-----------------------------------------------------------------------------

\* An order that ended, however often it was reopened before, gives back what
\* the tenders paid once the jobs are done: all of it, or as much as the
\* merchant had not refunded otherwise.  An order whose checkout took a tender
\* after the ending is the exception: no job follows that.
EndedGivesBack ==
    sale.stage = "ended" /\ late \cap Tenders = {} =>
      \A t \in Tenders \ cancelJobs : LeftOn(t) = 0 \/ Room = 0

\* A tender gets back no more than it paid, however the merchant's refunds, a
\* refund to credit and the jobs of a cancellation that run late or twice
\* follow one another; all the refunds together stay within the total; and
\* what an ended order still owes is given back.
TenderBackOnce ==
    /\ \A t \in Tenders : givenBack[t] <= spent[t]
    /\ sale.refunded <= OrderTotal
    /\ EndedGivesBack

\* loyaltyService.js:19: points are earned "once per order.  A return or a
\* cancellation after that takes them back": once the jobs are done an order
\* that was returned has its points taken back, unless its order.delivered job
\* came after its order.returned job.
ReturnedEarnsNothing ==
    (sale.parcel = "returned" /\ \A j \in ReturnJobs : returnJob[j] \in {"none", "done"})
      /\ "earned" \notin late
    => points.earned = 0 \/ points.reversed > 0

\* Points go back and go back once: two jobs that overlap are the one way to
\* take the points of an order twice.
PointsTakenBack ==
    /\ ReturnedEarnsNothing
    /\ "reversed" \notin late => points.reversed <= 1
=============================================================================
