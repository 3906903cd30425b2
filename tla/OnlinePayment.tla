---------------------------- MODULE OnlinePayment ----------------------------
(***************************************************************************)
(* The online payment of one order, src/src/modules/payments: several      *)
(* attempts, what the gateway knows of each, the inbox its callbacks and   *)
(* our inquiries go through, the order's expiry, a retry, a switch to cash *)
(* on delivery, the merchant's cancellation and the sweep.  A request asks *)
(* the gateway first, outside any transaction, and decides after.          *)
(***************************************************************************)
EXTENDS Naturals, FiniteSets

CONSTANTS
    Attempts,       \* bound: payments rows of the order, numbered from 1
    MaxPerOrder,    \* env.payments.maxAttemptsPerOrder
    ByInquiry,      \* attempts with a gateway whose webhook only names the payment
    Callers,        \* bound: requests and sweeps at one time
    MaxFaults       \* bound: processing errors, unanswered inquiries, crashes;
                    \* below paymentEventService.MAX_ATTEMPTS, so no event runs out of tries

ASSUME PaymentAssumption ==
    /\ Attempts \in SUBSET (Nat \ {0}) /\ IsFiniteSet(Attempts)
    /\ ByInquiry \subseteq Attempts
    /\ MaxPerOrder \in Nat /\ MaxFaults \in Nat

VARIABLES
    order,          \* the orders row, and whether its ledger holds its stock
    status,         \* of each payments row; "ended" is cancelled or expired
    old,            \* ended rows older than LATE_ASK_FOR_MS
    linked,         \* rows with the gateway's order id
    starting,       \* startAttempt calls that have not written their row yet
    asking,         \* rows whose createPayment call is not answered yet
    gateway,        \* what became of each attempt at the gateway
    declined,       \* attempts whose card was refused there at least once
    stored,         \* payment_events rows of payments; a declined one changes
                    \* nothing that outlives it, so it has no row here
    processed,      \* the ones with processed_at
    call,           \* what each caller is doing
    faults

paymentVars == <<order, status, old, linked, starting, asking, gateway, declined,
          stored, processed, call, faults>>

inboxVars == <<stored, processed>>
startVars == <<linked, starting, asking>>
outsideVars == <<gateway, declined, old>>

Flags   == {"duplicate", "after_expiry", "after_cancel", "after_cod_switch"}
NoEvent == [attempt |-> 0, source |-> "none"]
Events  == [attempt : Attempts, source : {"webhook", "inquiry"}]

\* heard: attempts an expiry's inquiries found paid.  owed: attempts that were
\* open and paid when it began to ask.  Both are read by properties only.
Idle == [kind |-> "idle", todo |-> {}, unknown |-> FALSE, heard |-> {},
         owed |-> {}, event |-> NoEvent, applied |-> FALSE]

Open     == {a \in Attempts : status[a] = "initialized"}
Askable  == Open \cap linked
Written  == {a \in Attempts : status[a] # "none"}
Ended    == {a \in Attempts : status[a] = "ended"}
Captured == {a \in Attempts : status[a] = "captured"}
Late     == Ended \cap linked \cap ByInquiry
IsPaid   == order.paid > 0

\* shopperStatusOf and assertAwaiting
Awaiting == ~IsPaid /\ order.cancelled = "no" /\ order.method = "online"
            /\ order.due # "over"

\* expireOrder's conditions, before the gateway is asked and under the lock
StillOverdue ==
    /\ order.cancelled = "no" /\ ~IsPaid
    /\ order.method = "online" /\ order.due = "over"

PaymentInit ==
    /\ order = [method |-> "online", due |-> "running", cancelled |-> "no",
                completed |-> FALSE, held |-> TRUE, paid |-> 0, flags |-> {}]
    /\ status = [a \in Attempts |-> "none"]
    /\ linked = {} /\ starting = 1 /\ asking = {}
    /\ gateway = [a \in Attempts |-> "none"] /\ declined = {} /\ old = {}
    /\ stored = {} /\ processed = {}
    /\ call = [k \in Callers |-> Idle]
    /\ faults = 0

(***************************************************************************)
(* The gateway, the shopper and the clock.                                 *)
(***************************************************************************)

\* A declined card may be followed by another on the same gateway page.  A
\* gateway of ByInquiry reports none: an unpaid payment is pending there.
Pay(a) ==
    /\ gateway[a] = "open"
    /\ gateway' = [gateway EXCEPT ![a] = "paid"]
    /\ UNCHANGED <<order, status, startVars, declined, old, inboxVars, call, faults>>

Decline(a) ==
    /\ gateway[a] = "open" /\ a \notin declined \cup ByInquiry
    /\ declined' = declined \cup {a}
    /\ UNCHANGED <<order, status, startVars, gateway, old, inboxVars, call, faults>>

\* Only an ended attempt that the sweep asks about has an age that matters.
DayPasses(a) ==
    /\ a \in Late \ old
    /\ old' = old \cup {a}
    /\ UNCHANGED <<order, status, startVars, gateway, declined, inboxVars, call, faults>>

TimeRunsOut ==
    /\ order.due = "running"
    /\ order' = [order EXCEPT !.due = "over"]
    /\ UNCHANGED <<status, startVars, outsideVars, inboxVars, call, faults>>

(***************************************************************************)
(* startAttempt: the row, committed; the gateway; the row again.           *)
(***************************************************************************)

WriteAttempt(a) ==
    /\ starting > 0
    /\ a \notin Written /\ \A b \in Attempts \ Written : a <= b
    /\ status' = [status EXCEPT ![a] = "initialized"]
    /\ starting' = starting - 1 /\ asking' = asking \cup {a}
    /\ UNCHANGED <<order, linked, outsideVars, inboxVars, call, faults>>

GatewayStarts(a) ==
    /\ a \in asking
    /\ asking' = asking \ {a} /\ linked' = linked \cup {a}
    /\ gateway' = [gateway EXCEPT ![a] = "open"]
    /\ UNCHANGED <<order, status, starting, declined, old, inboxVars, call, faults>>

\* Refused or unanswered: 'failed', whatever became of the row meanwhile.
GatewayRefuses(a) ==
    /\ a \in asking
    /\ asking' = asking \ {a}
    /\ status' = [status EXCEPT ![a] = "failed"]
    /\ UNCHANGED <<order, linked, starting, outsideVars, inboxVars, call, faults>>

StartCutOff ==
    /\ faults < MaxFaults /\ faults' = faults + 1
    /\ \/ starting > 0 /\ starting' = starting - 1 /\ UNCHANGED asking
       \/ asking # {} /\ asking' = {} /\ UNCHANGED starting
    /\ UNCHANGED <<order, status, linked, outsideVars, inboxVars, call>>

(***************************************************************************)
(* The inbox: insertEvent, processEvent, reprocessPending.                 *)
(***************************************************************************)

Busy(k) == call[k].kind # "idle"
Free(k) == Busy(k) /\ call[k].event = NoEvent      \* between two events

\* ingest: stored under its key once; claimed unless it was processed.
TakeEvent(k, e, doing) ==
    /\ stored' = stored \cup {e}
    /\ call' = [call EXCEPT ![k] =
         IF e \in processed THEN doing ELSE [doing EXCEPT !.event = e]]
    /\ UNCHANGED processed

\* acceptWebhook, or the shopper's signed redirect.
Deliver(k, e) ==
    /\ ~Busy(k) /\ e \in Events \ processed
    /\ e.source = "webhook" /\ e.attempt \notin ByInquiry
    /\ gateway[e.attempt] = "paid"
    /\ TakeEvent(k, e, [Idle EXCEPT !.kind = "ask"])
    /\ UNCHANGED <<order, status, startVars, outsideVars, faults>>

Reprocess(k, e) ==
    /\ ~Busy(k) /\ e \in stored \ processed
    /\ TakeEvent(k, e, [Idle EXCEPT !.kind = "ask"])
    /\ UNCHANGED <<order, status, startVars, outsideVars, faults>>

\* recordPaymentTransaction, declined: only a row still open.  However old the
\* report is: the card may have been accepted since.
RecordDeclined(a) ==
    /\ a \in declined \cap Open
    /\ status' = [status EXCEPT ![a] = "failed"]
    /\ UNCHANGED <<order, startVars, outsideVars, inboxVars, call, faults>>

\* What becomes of the order a payment lands on.  The blocklist matches or
\* not; the units of an expired order are to be had again or not.
Fates ==
    (IF ~order.completed /\ order.cancelled \in {"no", "payment_expired"}
     THEN {"blocked"} ELSE {})
    \cup (CASE order.cancelled = "no"              -> {"standing"}
            [] order.cancelled = "payment_expired" -> {"reopened", "stays"}
            [] OTHER                               -> {"stays"})

\* How the money is marked for the merchant: a second payment, one after a
\* switch to cash, one on an order that ended.
FlagsAfter(fate) ==
    order.flags
    \cup (IF IsPaid THEN {"duplicate"} ELSE {})
    \cup (IF fate = "standing" /\ order.method = "cod" THEN {"after_cod_switch"} ELSE {})
    \cup (IF fate \in {"blocked", "stays"}
          THEN {IF order.cancelled = "payment_expired" THEN "after_expiry" ELSE "after_cancel"}
          ELSE {})

\* Mistaken form: a reopened order keeps its expiry running.
DueAfter_Kept(fate) == IF fate = "standing" THEN "none" ELSE order.due

DueAfter(fate) ==
    IF order.cancelled = "no" \/ fate = "reopened" THEN "none" ELSE order.due

\* Mistaken form: the row's status is not asked under its lock.
AlreadyRecorded_Never(a) == FALSE

AlreadyRecorded(a) == status[a] = "captured"

RecordPaid(a) ==
    IF AlreadyRecorded(a) THEN UNCHANGED <<order, status>>
    ELSE \E fate \in Fates :
        /\ order' = [order EXCEPT
             !.paid = @ + 1,
             !.flags = FlagsAfter(fate),
             !.due = DueAfter(fate),
             !.completed = @ \/ fate \in {"standing", "reopened"},
             !.held = IF fate = "reopened" THEN TRUE ELSE @ /\ fate # "blocked",
             !.cancelled = CASE fate = "blocked"  -> "customer_blocked"
                             [] fate = "reopened" -> "no"
                             [] OTHER             -> @]
        /\ status' = [b \in Attempts |->
             IF b = a THEN "captured"
             ELSE IF fate = "blocked" /\ order.cancelled = "no" /\ b \in Open
                  THEN "ended" ELSE status[b]]

\* One transaction; an attempt is found by the gateway's order id.
Apply(k) ==
    LET e == call[k].event IN
    /\ e # NoEvent /\ ~call[k].applied
    /\ RecordPaid(e.attempt)
    /\ call' = [call EXCEPT ![k].applied = TRUE]
    /\ UNCHANGED <<startVars, outsideVars, inboxVars, faults>>

\* Mistaken form: the row is marked processed whatever came of it.
ApplyFails_Marked(k) ==
    /\ call[k].event # NoEvent /\ ~call[k].applied
    /\ faults < MaxFaults /\ faults' = faults + 1
    /\ processed' = processed \cup {call[k].event}
    /\ call' = [call EXCEPT ![k].event = NoEvent]
    /\ UNCHANGED <<order, status, startVars, outsideVars, stored>>

\* It throws: the row stays unprocessed and the caller goes on.
ApplyFails(k) ==
    /\ call[k].event # NoEvent /\ ~call[k].applied
    /\ faults < MaxFaults /\ faults' = faults + 1
    /\ call' = [call EXCEPT ![k].event = NoEvent]
    /\ UNCHANGED <<order, status, startVars, outsideVars, inboxVars>>

MarkProcessed(k) ==
    /\ call[k].applied
    /\ processed' = processed \cup {call[k].event}
    /\ call' = [call EXCEPT ![k].event = NoEvent, ![k].applied = FALSE]
    /\ UNCHANGED <<order, status, startVars, outsideVars, stored, faults>>

(***************************************************************************)
(* Inquiries: inquireOpenAttempts, inquireLateAttempts, confirmByInquiry.  *)
(***************************************************************************)

AskAbout(k, kind, asked) ==
    /\ ~Busy(k)
    /\ call' = [call EXCEPT ![k] = [Idle EXCEPT
         !.kind = kind, !.todo = asked,
         !.owed = {a \in Askable : kind = "expire" /\ gateway[a] = "paid"}]]
    /\ UNCHANGED <<order, status, startVars, outsideVars, inboxVars, faults>>

\* Mistaken form: the order is expired on our own rows alone.
AskedFirst_Nobody == {}

AskedFirst == Askable

BeginExpiry(k) == StillOverdue /\ AskAbout(k, "expire", AskedFirst)

\* A retry or a switch: decided after the answers.
AskFirst(k) == AskAbout(k, "request", Askable)

\* inquireStaleAttempts, and the shopper's status page.
AskOpen(k) ==
    order.cancelled = "no" /\ Askable # {} /\ AskAbout(k, "ask", Askable)

\* inquireLateAttempts.
AskLate(k, a) == a \in Late \ old /\ AskAbout(k, "ask", {a})

\* The merchant's button: the order's attempts, whatever their age.
Sync(k) == Askable \cup Late # {} /\ AskAbout(k, "ask", Askable \cup Late)

\* confirmByInquiry: a webhook that names the payment, answered 200 whether the
\* gateway could be asked or not, so it need not come again.  "The sweep will ask
\* again" (paymentEventService.js:158): not about an attempt OutOfReach.
Notify(k, a) ==
    /\ a \in (linked \cap ByInquiry) \ Captured /\ gateway[a] = "paid"
    /\ AskAbout(k, "ask", {a})

\* One attempt at a time, the oldest first.
NextToAsk(k, a) ==
    Free(k) /\ a \in call[k].todo /\ \A b \in call[k].todo : a <= b
Asked(k, a) == [call[k] EXCEPT !.todo = @ \ {a}]

InquiryFinds(k, a) ==
    /\ NextToAsk(k, a) /\ gateway[a] = "paid"
    /\ TakeEvent(k, [attempt |-> a, source |-> "inquiry"],
             [Asked(k, a) EXCEPT !.heard =
                IF call[k].kind = "expire" THEN @ \cup {a} ELSE @])
    /\ UNCHANGED <<order, status, startVars, outsideVars, faults>>

InquiryFindsNoPayment(k, a) ==
    /\ NextToAsk(k, a) /\ gateway[a] = "open"
    /\ call' = [call EXCEPT ![k] = Asked(k, a)]
    /\ status' = IF a \in declined \cap Open THEN [status EXCEPT ![a] = "failed"] ELSE status
    /\ UNCHANGED <<order, startVars, outsideVars, inboxVars, faults>>

InquiryUnanswered(k, a) ==
    /\ NextToAsk(k, a)
    /\ faults < MaxFaults /\ faults' = faults + 1
    /\ call' = [call EXCEPT ![k] = [Asked(k, a) EXCEPT !.unknown = TRUE]]
    /\ UNCHANGED <<order, status, startVars, outsideVars, inboxVars>>

(***************************************************************************)
(* What follows the inquiry, under the order's row lock.                   *)
(***************************************************************************)

Decides(k, kind) == Free(k) /\ call[k].kind = kind /\ call[k].todo = {}
Closed == [a \in Attempts |-> IF a \in Open THEN "ended" ELSE status[a]]
Done(k)    == call' = [call EXCEPT ![k] = Idle]

\* Mistaken form: an attempt the gateway still has open holds the order.
MayExpire_NothingOpen(k) == Askable = {}

MayExpire(k) == ~call[k].unknown

ExpireOrder(k) ==
    /\ Decides(k, "expire") /\ MayExpire(k) /\ StillOverdue
    /\ order' = [order EXCEPT !.cancelled = "payment_expired", !.held = FALSE]
    /\ status' = Closed
    /\ Done(k)
    /\ UNCHANGED <<startVars, outsideVars, inboxVars, faults>>

\* The rows are counted under the lock; the new one is written after it.
Retry(k) ==
    /\ Decides(k, "request") /\ Awaiting
    /\ Cardinality(Written) < MaxPerOrder
    /\ Cardinality(Written) + starting < Cardinality(Attempts)    \* bound
    /\ order' = [order EXCEPT !.due = "running"]
    /\ status' = Closed
    /\ starting' = starting + 1
    /\ Done(k)
    /\ UNCHANGED <<linked, asking, outsideVars, inboxVars, faults>>

MaySwitch == Awaiting

SwitchToCod(k) ==
    /\ Decides(k, "request") /\ MaySwitch
    /\ order' = [order EXCEPT !.method = "cod", !.due = "none", !.completed = TRUE]
    /\ status' = Closed
    /\ Done(k)
    /\ UNCHANGED <<startVars, outsideVars, inboxVars, faults>>

\* Refused (a retry or a switch may be, by the store's methods and rules), or
\* nothing left to do.
Leave(k) ==
    /\ Decides(k, call[k].kind)
    /\ call[k].kind = "expire" => ~MayExpire(k) \/ ~StillOverdue
    /\ Done(k)
    /\ UNCHANGED <<order, status, startVars, outsideVars, inboxVars, faults>>

\* The process stops.  Anywhere else it leaves what a failed event, or a call
\* never begun, leaves.
CallCutOff(k) ==
    /\ call[k].applied /\ faults < MaxFaults /\ faults' = faults + 1
    /\ Done(k)
    /\ UNCHANGED <<order, status, startVars, outsideVars, inboxVars>>

\* orderService.cancelOrder
CancelOrder ==
    /\ order.cancelled = "no"
    /\ order' = [order EXCEPT !.cancelled = "merchant", !.held = FALSE]
    /\ status' = Closed
    /\ UNCHANGED <<startVars, outsideVars, inboxVars, call, faults>>

-----------------------------------------------------------------------------

\* One step of the work a caller has begun.
Proceed(k) ==
    \/ Apply(k) \/ MarkProcessed(k) \/ Leave(k)
    \/ ExpireOrder(k) \/ Retry(k) \/ SwitchToCod(k)
    \/ \E a \in Attempts : InquiryFinds(k, a) \/ InquiryFindsNoPayment(k, a)

Fail(k) ==
    ApplyFails(k) \/ CallCutOff(k) \/ \E a \in Attempts : InquiryUnanswered(k, a)

\* What brings news of an attempt: its events, or an inquiry of its own.
News(k, a) ==
    \/ \E e \in Events : e.attempt = a /\ (Deliver(k, e) \/ Reprocess(k, e))
    \/ AskLate(k, a)

Take(k) ==
    \/ BeginExpiry(k) \/ AskFirst(k) \/ AskOpen(k) \/ Sync(k)
    \/ \E a \in Attempts : News(k, a) \/ Notify(k, a)

PaymentNext ==
    \/ \E k \in Callers : Take(k) \/ Proceed(k) \/ Fail(k)
    \/ \E a \in Attempts : Pay(a) \/ Decline(a) \/ RecordDeclined(a) \/ WriteAttempt(a)
                           \/ GatewayStarts(a) \/ GatewayRefuses(a) \/ DayPasses(a)
    \/ TimeRunsOut \/ StartCutOff \/ CancelOrder

PaymentSpec == PaymentInit /\ [][PaymentNext]_paymentVars

\* The gateway repeats a webhook until it is answered; the sweep comes back to
\* every unprocessed event, open attempt, late attempt and overdue order.
\* Strong, because a slot of the model (Callers) may be taken by other work in
\* between.  Nothing brings a button, a shopper or an answered webhook back.
PaymentFairness ==
    /\ \A k \in Callers : WF_paymentVars(Proceed(k))
    /\ \A a \in Attempts : SF_paymentVars(\E k \in Callers : News(k, a))
    /\ SF_paymentVars(\E k \in Callers : AskOpen(k))
    /\ SF_paymentVars(\E k \in Callers : BeginExpiry(k))

-----------------------------------------------------------------------------

OrderRows == [method : {"online", "cod"}, due : {"none", "running", "over"},
              cancelled : {"no", "payment_expired", "customer_blocked", "merchant"},
              completed : BOOLEAN, held : BOOLEAN, paid : Nat, flags : SUBSET Flags]

Inquiring == [kind : {"idle", "ask", "expire", "request"}, todo : SUBSET Attempts,
          unknown : BOOLEAN, heard : SUBSET Attempts, owed : SUBSET Attempts,
          event : Events \cup {NoEvent}, applied : BOOLEAN]

PaymentTypes ==
    /\ order \in OrderRows
    /\ status \in [Attempts -> {"none", "initialized", "failed", "ended", "captured"}]
    /\ old \subseteq Attempts
    /\ linked \subseteq Attempts /\ starting \in Nat /\ asking \subseteq Attempts
    /\ gateway \in [Attempts -> {"none", "open", "paid"}] /\ declined \subseteq linked
    /\ stored \subseteq Events /\ processed \subseteq stored
    /\ call \in [Callers -> Inquiring]
    /\ faults \in 0..MaxFaults

\* amountPaid is what the captured attempts brought, each counted once however
\* many webhooks, redirects, inquiries and retries of the inbox reported it.
MoneyCounted == order.paid = Cardinality(Captured)

\* Money on an order that expired or was blocked is marked for the merchant to
\* refund, and so is every payment after the first.
LateMoneyMarked ==
    /\ order.cancelled \in {"payment_expired", "customer_blocked"} /\ IsPaid
         => order.flags \cap {"after_expiry", "after_cancel"} # {}
    /\ order.paid > 1 => "duplicate" \in order.flags

\* An order collected in cash that was also paid online says so: the switch and
\* the payment may land in any order.
CashNotTakenTwice ==
    order.method = "cod" /\ order.cancelled = "no" /\ IsPaid
        => "after_cod_switch" \in order.flags

\* Money the gateway took is on the order once, and where the order is not the
\* plain sale it was paid for, marked: counted, late, after the switch.
MoneyAccounted == MoneyCounted /\ LateMoneyMarked /\ CashNotTakenTwice

\* An order that stands and was paid is a sale, is not waiting for an expiry
\* any more, and has its stock; one that ended has none.
PaidStandsAsSale ==
    /\ order.cancelled = "no" /\ IsPaid => order.completed /\ order.due = "none"
    /\ order.held <=> order.cancelled = "no"

\* With every event processed, an order is never expired over a payment that
\* was there, on an open attempt, when the expiry began to ask.
ExpiryAsksFirst ==
    [][\A k \in Callers :
         ExpireOrder(k) /\ faults = 0 => call[k].owed = {}]_paymentVars

\* An attempt of a ByInquiry gateway nobody asks about any more, but the
\* merchant: its row was written after its order had ended, or it ended more
\* than a day ago.
OutOfReach(a) ==
    /\ a \in ByInquiry
    /\ (a \in Open /\ order.cancelled # "no") \/ a \in Ended \cap old

\* Money the gateway took is recorded, unless its attempt ran out of reach.
PaidIsRecorded ==
    \A a \in Attempts :
        gateway[a] = "paid" ~> status[a] = "captured" \/ OutOfReach(a)

\* An order nobody pays gives its stock back.
Unpaid == order.cancelled = "no" /\ order.method = "online" /\ ~IsPaid

OverdueEnds == (Unpaid /\ order.due = "over") ~> ~(Unpaid /\ order.due = "over")

\* src/src/modules/payments/onlinePaymentService.js:506 says that "nothing
\* expires while any answer is missing" and "an order must never be cancelled
\* while its payment might have gone through": an expiry whose own inquiry heard
\* of a payment does not cancel the order.
HeardIsHeeded ==
    [][\A k \in Callers : ExpireOrder(k) => call[k].heard = {}]_paymentVars
=============================================================================
