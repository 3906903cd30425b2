---------------------------- MODULE Subscriptions ----------------------------
(***************************************************************************)
(* A paid store's subscription, its charges (billing_invoices) and the     *)
(* merchant's plan switches (plan_switches), modules/billing.  Each action *)
(* is one transaction: it locks the charge, the subscription or both.      *)
(* Left out: drafts, trials, free and pay-per-order plans, special terms,  *)
(* manual pricing, referral codes, amounts.  Money that buys nothing goes  *)
(* to the balance (Wallet) and changes nothing here.                       *)
(***************************************************************************)
EXTENDS Integers, FiniteSets, FiniteSetsExt

CONSTANTS
    Offered,        \* plans and cycles on offer, a plan named by its monthly price
    Charges,        \* bound: charge rows, by createdAt
    YearLength,     \* months of a yearly period
    MaxMonth,       \* bound: months that pass
    LastMonth,      \* bound: how far ahead the console sets a period
    MaxActs         \* bound: steps of the console and events about the status

ASSUME SubscriptionsAssumption ==
    /\ Offered \subseteq [plan : Nat \ {0}, cycle : {"monthly", "yearly"}] /\ IsFiniteSet(Offered)
    /\ Charges \subseteq Nat /\ IsFiniteSet(Charges)
    /\ YearLength \in Nat \ {0} /\ MaxMonth \in Nat /\ LastMonth \in Nat /\ MaxActs \in Nat

VARIABLES
    month,          \* now
    subscription,   \* the subscriptions row
    charges,        \* billing_invoices, each with the plan_switches row it pays for
    planned,        \* the switch scheduled for the end of the period
    proofs,         \* charges a transfer's proof waits for
    acts            \* steps of MaxActs taken

subscriptionVars == <<month, subscription, charges, planned, proofs, acts>>

Plans         == {to.plan : to \in Offered}
Length(cycle) == IF cycle = "yearly" THEN YearLength ELSE 1

NoPlan  == 0
NoTerms == [plan |-> NoPlan, cycle |-> "monthly"]

\* A renewal has no target plan and no switch.
NoCharge ==
    [status |-> "none", to |-> NoTerms, from |-> NoTerms, switch |-> "none",
     start |-> 0, end |-> 0, by |-> "none", before |-> {}, reversed |-> FALSE]

NoSwitch == [to |-> NoTerms, from |-> NoTerms, at |-> 0]

\* A store whose trial has just ended.
SubscriptionInit ==
    /\ month = 0
    /\ subscription \in [terms : Offered, status : {"past_due"},
                         start : {0}, end : {0}]
    /\ charges = [c \in Charges |-> NoCharge]
    /\ planned = NoSwitch
    /\ proofs = {} /\ acts = 0

In(status)      == {c \in Charges : charges[c].status = status}
IsMove(c)       == charges[c].to # NoTerms
WaitingSwitches == {c \in Charges : charges[c].switch = "pending"}
Waits           == planned # NoSwitch
ClosedSubscription == subscription.status = "cancelled"

\* chargeStillApplies
SwitchFits(c) == ~ClosedSubscription /\ subscription.terms = charges[c].from

LateFits(c) ==
    /\ SwitchFits(c) /\ ~Waits
    /\ In("pending") \subseteq {c} /\ WaitingSwitches \subseteq {c}

\* scheduleStillApplies
PlannedFits == ~ClosedSubscription /\ subscription.terms = planned.from

PaidEnd   == Max({0} \union {charges[c].end : c \in In("paid")})
NextStart == Max({PaidEnd, month})

\* The terms nextChargeTerms prices the period from `start` on.
TermsFrom(start) ==
    IF Waits /\ start >= planned.at /\ PlannedFits THEN planned.to ELSE subscription.terms

\* billedOnSchedule
Billed == Waits /\ \E c \in In("paid") : ~IsMove(c) /\ charges[c].start >= planned.at

Unused(c) == charges[c].status = "none" /\ \A b \in Charges : b < c => charges[b].status # "none"

\* Mistaken form: a void charge leaves its switch waiting.
Void_Switchless(row) == [row EXCEPT !.status = "void"]

\* voidMoveCharge, voidRenewalCharge, voidPendingCharge; closeForVoidedCharge.
Void(row) ==
    [row EXCEPT !.status = "void", !.switch = IF @ = "pending" THEN "closed" ELSE @]

WithVoid(cs) == [c \in Charges |-> IF c \in cs THEN Void(charges[c]) ELSE charges[c]]

-----------------------------------------------------------------------------
(* Charges                                                                 *)

\* createCharge: the store pays, sends a proof, or a switch took effect.
CreateCharge(c) ==
    /\ Unused(c) /\ In("pending") = {}
    /\ charges' = [charges EXCEPT ![c].status = "pending", ![c].start = NextStart,
                       ![c].end = NextStart + Length(TermsFrom(NextStart).cycle)]
    /\ UNCHANGED <<month, subscription, planned, proofs, acts>>

\* cancelCharge, adminVoidCharge; of a switch also expireUnpaid, failSwitchCharge.
VoidCharge(c) ==
    /\ c \in In("pending") \ proofs
    /\ charges' = WithVoid({c})
    /\ UNCHANGED <<month, subscription, planned, proofs, acts>>

\* markChargeFailed of a renewal.
MarkChargeFailed(c) ==
    /\ c \in In("pending") /\ ~IsMove(c)
    /\ charges' = [charges EXCEPT ![c].status = "failed"]
    /\ subscription' = [subscription EXCEPT !.status = IF ClosedSubscription THEN @ ELSE "past_due"]
    /\ UNCHANGED <<month, planned, proofs, acts>>

\* Only a payment recorded by hand is ever undone.
Paid(row, by) ==
    [row EXCEPT !.status = "paid", !.by = by, !.before = IF by = "hand" THEN {subscription} ELSE {}]

\* settlePaid of a renewal: the period is never moved back.
PayRenewal(c, by) ==
    /\ ~IsMove(c) /\ charges[c].status \in {"pending", "failed"}
    /\ charges' = [charges EXCEPT ![c] = Paid(@, by)]
    /\ subscription' =
         IF charges[c].end > subscription.end
         THEN [subscription EXCEPT !.status = "active", !.start = charges[c].start, !.end = charges[c].end]
         ELSE [subscription EXCEPT !.status = "active"]
    /\ UNCHANGED <<month, planned, acts>>

SettlesMove(c) ==
    \/ charges[c].status = "pending" /\ SwitchFits(c)
    \/ charges[c].status = "void" /\ LateFits(c)

\* settlePaid of a switch's charge, also one paid late: switchPlanForMove, markApplied.
PaySwitch(c, by) ==
    /\ IsMove(c) /\ SettlesMove(c)
    /\ LET end == month + Length(charges[c].to.cycle) IN
         /\ charges' = [charges EXCEPT ![c] = [Paid(@, by) EXCEPT !.start = month, !.end = end, !.switch = "applied"]]
         /\ subscription' = [terms |-> charges[c].to, status |-> "active", start |-> month, end |-> end]
    /\ UNCHANGED <<month, planned, acts>>

\* settlePaid of a switch the store no longer fits: the money is credited.
CreditSwitch(c) ==
    /\ IsMove(c) /\ c \in In("pending") /\ ~SwitchFits(c)
    /\ charges' = WithVoid({c})
    /\ UNCHANGED <<month, subscription, planned, acts>>

\* settleLateMovePayment that finds the charge void: credited, nothing else.
CreditLate(c) ==
    /\ c \in In("void") /\ (IsMove(c) => ~LateFits(c))
    /\ UNCHANGED <<month, subscription, charges, planned, acts>>

SettlePaid(c, by) == PayRenewal(c, by) \/ PaySwitch(c, by) \/ CreditSwitch(c) \/ CreditLate(c)

\* markChargePaid, settleConfirmed, recordManualPayment.
PayCharge(c) == UNCHANGED proofs /\ \E by \in {"gateway", "hand"} : SettlePaid(c, by)

SendProof(c) ==
    /\ c \in In("pending") \ proofs
    /\ proofs' = proofs \union {c}
    /\ UNCHANGED <<month, subscription, charges, planned, acts>>

ApproveProof(c) == c \in proofs /\ proofs' = proofs \ {c} /\ SettlePaid(c, "hand")

\* What is left of a switch's charge is voided by failSwitchCharge, after it.
RejectProof(c) ==
    /\ c \in proofs /\ proofs' = proofs \ {c}
    /\ UNCHANGED <<month, subscription, charges, planned, acts>>

\* The store still is on the plan this payment moved it to, on whatever cycle.
UndoesMove(c) == IsMove(c) /\ subscription.terms.plan = charges[c].to.plan

MadeActive(c) ==
    /\ ~IsMove(c) /\ subscription.status = "active"
    /\ \A row \in charges[c].before : row.status # "active"

\* reverseManualPayment, with reopenAfterReversal.
ReversePayment(c) ==
    /\ c \in In("paid") /\ charges[c].by = "hand" /\ In("pending") = {}
    /\ charges' = [charges EXCEPT ![c] =
         [@ EXCEPT !.status = "pending", !.by = "none", !.before = {}, !.reversed = TRUE,
                   !.switch = IF UndoesMove(c) THEN "pending" ELSE charges[c].switch]]
    /\ \/ UndoesMove(c) /\ subscription' \in charges[c].before /\ planned' = NoSwitch
       \/ /\ ~UndoesMove(c) /\ UNCHANGED planned
          /\ subscription' = [subscription EXCEPT !.status = IF MadeActive(c) THEN "past_due" ELSE @]
    /\ UNCHANGED <<month, proofs, acts>>

-----------------------------------------------------------------------------
(* The merchant's switches                                                 *)

\* decide, with the timings it offers: what going to `to` can be.
Kinds(to) ==
    IF to = subscription.terms THEN {}
    ELSE IF subscription.end <= month THEN {"immediate"}
    ELSE IF to.plan > subscription.terms.plan THEN {"upgrade", "scheduled"}
    ELSE {"scheduled"}

\* The same request again changes nothing.
Same(kind, to) ==
    \/ kind = "scheduled" /\ Waits /\ planned.to = to
    \/ kind = "upgrade" /\ \E c \in WaitingSwitches : charges[c].to = to

\* start(): what waits is replaced, any charge still pending with it.
MayAsk(kind, to) ==
    /\ ~ClosedSubscription /\ kind \in Kinds(to) /\ ~Same(kind, to)
    /\ In("pending") \intersect proofs = {} /\ ~Billed

AskUpgrade(to, c) ==
    /\ MayAsk("upgrade", to) /\ Unused(c)
    /\ charges' = [WithVoid(In("pending")) EXCEPT ![c] =
         [NoCharge EXCEPT !.status = "pending", !.switch = "pending", !.to = to,
                          !.from = subscription.terms, !.start = month, !.end = month + Length(to.cycle)]]
    /\ planned' = NoSwitch
    /\ UNCHANGED <<month, subscription, proofs, acts>>

Schedule(to) ==
    /\ MayAsk("scheduled", to)
    /\ charges' = WithVoid(In("pending"))
    /\ planned' = [to |-> to, from |-> subscription.terms, at |-> subscription.end]
    /\ UNCHANGED <<month, subscription, proofs, acts>>

SwitchNow(to) ==
    /\ MayAsk("immediate", to)
    /\ charges' = WithVoid(In("pending"))
    /\ planned' = NoSwitch
    /\ subscription' = [subscription EXCEPT !.terms = to]
    /\ UNCHANGED <<month, proofs, acts>>

\* The renewal a scheduled switch priced.
PricedByIt == {c \in In("pending") : Waits /\ ~IsMove(c) /\ charges[c].start >= planned.at}

\* closeOpen: cancel, or start() towards the plan the store is on.
CancelSwitch ==
    /\ Waits \/ WaitingSwitches # {}
    /\ ~Billed
    /\ (PricedByIt \union WaitingSwitches) \intersect proofs = {}
    /\ charges' = WithVoid(PricedByIt \union WaitingSwitches)
    /\ planned' = NoSwitch
    /\ UNCHANGED <<month, subscription, proofs, acts>>

\* cancelPlanMove: no switch waits, yet a switch's charge is pending (a payment
\* was reversed); whatever proof waits for it.
CancelMove(c) ==
    /\ ~Waits /\ WaitingSwitches = {}
    /\ c \in In("pending") /\ IsMove(c)
    /\ charges' = WithVoid({c})
    /\ UNCHANGED <<month, subscription, planned, proofs, acts>>

\* applyDue; the renewal of an upgrade is written after it (CreateCharge).
ApplyDue ==
    /\ Waits /\ planned.at <= month
    /\ subscription' = [subscription EXCEPT !.terms = IF PlannedFits THEN planned.to ELSE @]
    /\ planned' = NoSwitch
    /\ UNCHANGED <<month, charges, proofs, acts>>

-----------------------------------------------------------------------------
(* The console, the gateway's events and time                              *)

ConsoleActs == acts < MaxActs /\ acts' = acts + 1

\* dropOpen: a proof that waits does not keep the charge.
DropOpen == charges' = WithVoid(WaitingSwitches) /\ planned' = NoSwitch

\* activate
Activate(terms, end) ==
    /\ end > month
    /\ subscription' = [terms |-> terms, status |-> "active", start |-> month, end |-> end]
    /\ DropOpen /\ ConsoleActs /\ UNCHANGED <<month, proofs>>

\* changePlan of the console: the period is kept, a renewal waiting is left alone.
ChangePlan(plan) ==
    /\ subscription.terms.plan # plan
    /\ subscription' = [subscription EXCEPT !.terms.plan = plan]
    /\ DropOpen /\ ConsoleActs /\ UNCHANGED <<month, proofs>>

\* endNow
EndNow ==
    /\ subscription.end > month
    /\ subscription' = [subscription EXCEPT !.end = month]
    /\ DropOpen /\ ConsoleActs /\ UNCHANGED <<month, proofs>>

\* extend: a switch that waits is kept.
Extend ==
    /\ Max({subscription.end, month}) < LastMonth
    /\ subscription' = [subscription EXCEPT !.status = "active",
                            !.start = IF subscription.end < month THEN month ELSE @,
                            !.end = Max({@, month}) + 1]
    /\ ConsoleActs /\ UNCHANGED <<month, charges, planned, proofs>>

\* setBillingCycle: of the merchant only while no switch waits.
SetBillingCycle(cycle) ==
    /\ subscription.terms.cycle # cycle /\ In("pending") = {}
    /\ subscription' = [subscription EXCEPT !.terms.cycle = cycle]
    /\ DropOpen /\ ConsoleActs /\ UNCHANGED <<month, proofs>>

\* applyWebhookEvent
StatusEvent(status) ==
    /\ subscription.status # status
    /\ subscription' = [subscription EXCEPT !.status = status]
    /\ ConsoleActs /\ UNCHANGED <<month, charges, planned, proofs>>

\* expireStaleTrials
Lapse ==
    /\ subscription.end < month /\ subscription.status = "active"
    /\ subscription' = [subscription EXCEPT !.status = "past_due"]
    /\ UNCHANGED <<month, charges, planned, proofs, acts>>

MonthPasses ==
    /\ month < MaxMonth /\ month' = month + 1
    /\ UNCHANGED <<subscription, charges, planned, proofs, acts>>

SubscriptionNext ==
    \/ \E c \in Charges :
         \/ CreateCharge(c) \/ VoidCharge(c) \/ MarkChargeFailed(c) \/ PayCharge(c)
         \/ SendProof(c) \/ ApproveProof(c) \/ RejectProof(c) \/ ReversePayment(c)
         \/ CancelMove(c)
    \/ \E to \in Offered :
         \/ Schedule(to) \/ SwitchNow(to)
         \/ \E c \in Charges : AskUpgrade(to, c)
         \/ \E end \in 0..LastMonth : Activate(to, end)
    \/ CancelSwitch \/ ApplyDue \/ EndNow \/ Extend \/ Lapse \/ MonthPasses
    \/ \E plan \in Plans : ChangePlan(plan)
    \/ \E cycle \in {"monthly", "yearly"} : SetBillingCycle(cycle)
    \/ \E status \in {"active", "past_due", "cancelled"} : StatusEvent(status)

SubscriptionSpec == SubscriptionInit /\ [][SubscriptionNext]_subscriptionVars

-----------------------------------------------------------------------------

SubscriptionTypes ==
    /\ subscription.terms.plan \in Plans
    /\ subscription.status \in {"active", "past_due", "cancelled"}
    /\ \A c \in Charges :
         /\ charges[c].status \in {"none", "pending", "paid", "failed", "void"}
         /\ charges[c].switch \in {"none", "pending", "applied", "closed"}
         /\ charges[c].status # "none" => charges[c].start < charges[c].end
    /\ proofs \subseteq {c \in Charges : charges[c].status # "none"}

\* planSwitchService.js:54 "One switch waits at a time": whatever the merchant, the
\* console, the gateway and the hourly job do in between, the switch that waits
\* fits the store it would change.  A waiting switch's charge is asked for, and
\* the terms it was priced from are the store's; a paid one was applied.  The
\* exception is a scheduled switch after a payment by hand was reversed: paying
\* that charge again can move the store from under it (ApplyDue then drops it).
SwitchesFit ==
    /\ Cardinality(In("pending")) <= 1
    /\ Cardinality(WaitingSwitches) <= 1 /\ (Waits => WaitingSwitches = {})
    /\ \A c \in WaitingSwitches : c \in In("pending") /\ charges[c].from = subscription.terms
    /\ \A c \in In("paid") : IsMove(c) => charges[c].switch = "applied"
    /\ Waits => \/ planned.from = subscription.terms
                \/ \E c \in Charges : IsMove(c) /\ charges[c].reversed
=============================================================================
