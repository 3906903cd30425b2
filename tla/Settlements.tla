----------------------------- MODULE Settlements -----------------------------
(***************************************************************************)
(* Settlements of the cash couriers collected (modules/settlements): a     *)
(* draft with a line per delivered order, edited, removed or confirmed.    *)
(* An edit and a removal read the settlement before the transaction that   *)
(* writes; only confirm locks it.  Left out: fees, periods, the lists.     *)
(***************************************************************************)
EXTENDS Integers, FiniteSets, FiniteSetsExt

CONSTANTS
    CodOrders,      \* COD orders, delivered at the start
    Sheets,         \* bound: rows of cod_settlements, numbered as they are created
    Edits,          \* bound: requests that create, edit or remove one, numbered as they come
    Total,          \* an order's totalAmount
    Parts,          \* bound: amounts a line may carry
    MaxOutside,     \* bound: what happens to the orders meanwhile
    NoSheet

ASSUME SettlementsAssumption ==
    /\ IsFiniteSet(CodOrders) /\ IsFiniteSet(Sheets) /\ IsFiniteSet(Edits)
    /\ Sheets \subseteq Nat /\ Edits \subseteq Nat
    /\ Total \in Nat \ {0} /\ Parts \subseteq Nat /\ IsFiniteSet(Parts) /\ MaxOutside \in Nat
    /\ NoSheet \notin Sheets

VARIABLES
    cod,            \* the orders: paid, financial (state), at (where the parcel is)
    sheet,          \* cod_settlements: status and collected, the header's total
    line,           \* cod_settlement_lines, unique by order; `by` is the row's identity
    received,       \* payments with the reference settlement:<id>, by settlement and order
    calls,          \* what each request has read so far
    outside         \* steps of MaxOutside taken

settlementVars == <<cod, sheet, line, received, calls, outside>>

NoLine == [of |-> NoSheet, collected |-> 0, by |-> NoSheet]
Unread == [step |-> "new", on |-> NoSheet, built |-> <<>>, old |-> {}]

SettlementInit ==
    /\ cod \in [CodOrders -> {[paid |-> 0, financial |-> "pending", at |-> "delivered"],
                              [paid |-> 1, financial |-> "partially_paid", at |-> "delivered"]}]
    /\ sheet = [s \in Sheets |-> [status |-> "none", collected |-> 0]]
    /\ line = [o \in CodOrders |-> NoLine]
    /\ received = [s \in Sheets |-> [o \in CodOrders |-> 0]]
    /\ calls = [c \in Edits |-> Unread] /\ outside = 0

Due(o)    == Max({0, Total - cod[o].paid})
Owing(o)  == cod[o].at # "cancelled" /\ cod[o].financial \in {"pending", "partially_paid"}
LinesOf(s) == {o \in CodOrders : line[o].of = s}

\* setFinancialState of an order that now has `paid`.
WithPaid(row, paid) ==
    [row EXCEPT !.paid = paid, !.financial = IF paid >= Total THEN "paid" ELSE "partially_paid"]

\* listUnsettled
UnsettledOrders == {o \in CodOrders : Owing(o) /\ cod[o].at = "delivered" /\ line[o] = NoLine}

\* buildLines: some of these orders, each with a part of what it owes.
Built(from) == UNION {[os -> Parts] : os \in (SUBSET from) \ {{}}}
MayBuild(built) == \A o \in DOMAIN built : built[o] <= Due(o)

SumOf(built) == MapThenSumSet(LAMBDA o : built[o], DOMAIN built)

\* A row per built line; `by` stands for its id.
WithLines(rows, s, c, built) ==
    [o \in CodOrders |-> IF o \in DOMAIN built THEN [of |-> s, collected |-> built[o], by |-> c] ELSE rows[o]]

-----------------------------------------------------------------------------
(* create and update, remove, confirm                                       *)

Comes(c) == calls[c] = Unread /\ \A d \in Edits : d < c => calls[d] # Unread

\* A request reads what it decides on: create and importStatement the lines,
\* update and remove the draft.
BeginCreate(c) ==
    /\ Comes(c)
    /\ \E built \in Built(UnsettledOrders) :
         MayBuild(built) /\ calls' = [calls EXCEPT ![c].step = "create", ![c].built = built]
    /\ UNCHANGED <<cod, sheet, line, received, outside>>

BeginUpdate(c, s) ==
    /\ Comes(c) /\ sheet[s].status = "draft"
    /\ calls' = [calls EXCEPT ![c].step = "update", ![c].on = s]
    /\ UNCHANGED <<cod, sheet, line, received, outside>>

BeginRemove(c, s) ==
    /\ Comes(c) /\ sheet[s].status = "draft"
    /\ calls' = [calls EXCEPT ![c].step = "remove", ![c].on = s]
    /\ UNCHANGED <<cod, sheet, line, received, outside>>

\* The lines of an update may keep the orders the settlement has.
BuildLines(c) ==
    /\ calls[c].step = "update"
    /\ \E built \in Built(UnsettledOrders \union LinesOf(calls[c].on)) :
         MayBuild(built) /\ calls' = [calls EXCEPT ![c].step = "built", ![c].built = built]
    /\ UNCHANGED <<cod, sheet, line, received, outside>>

\* The DELETE sees the rows committed when it starts, and waits for them.
DeleteLines(c) ==
    /\ calls[c].step = "built"
    /\ calls' = [calls EXCEPT ![c].step = "deleted",
                              ![c].old = {<<o, line[o].by>> : o \in LinesOf(calls[c].on)}]
    /\ UNCHANGED <<cod, sheet, line, received, outside>>

Answered(c) == calls' = [calls EXCEPT ![c] = [Unread EXCEPT !.step = "answered"]]

NextSheet(s) == sheet[s].status = "none" /\ \A t \in Sheets : t < s => sheet[t].status # "none"

\* The unique index of an order's line refuses a request whose order another has.
CommitCreate(c, s) ==
    /\ calls[c].step = "create" /\ NextSheet(s)
    /\ \A o \in DOMAIN calls[c].built : line[o] = NoLine
    /\ sheet' = [sheet EXCEPT ![s] = [status |-> "draft", collected |-> SumOf(calls[c].built)]]
    /\ line' = WithLines(line, s, c, calls[c].built)
    /\ Answered(c) /\ UNCHANGED <<cod, received, outside>>

\* totals, of the lines this request writes.
Rewritten(row, built) == [row EXCEPT !.collected = SumOf(built)]

Remaining(c) ==
    [o \in CodOrders |-> IF <<o, line[o].by>> \in calls[c].old THEN NoLine ELSE line[o]]

CommitUpdate(c) ==
    LET s == calls[c].on
        built == calls[c].built IN
    /\ calls[c].step = "deleted" /\ sheet[s].status # "removed"
    /\ \A o \in DOMAIN built : Remaining(c)[o] = NoLine
    /\ line' = WithLines(Remaining(c), s, c, built)
    /\ sheet' = [sheet EXCEPT ![s] = Rewritten(@, built)]
    /\ Answered(c) /\ UNCHANGED <<cod, received, outside>>

CommitRemove(c) ==
    LET s == calls[c].on IN
    /\ calls[c].step = "remove"
    /\ sheet' = [sheet EXCEPT ![s] = [status |-> "removed", collected |-> 0]]
    /\ line' = [o \in CodOrders |-> IF line[o].of = s THEN NoLine ELSE line[o]]
    /\ Answered(c) /\ UNCHANGED <<cod, received, outside>>

\* A request that is refused, or whose process stops: nothing it did stays.
Refused(c) ==
    /\ calls[c].step \notin {"new", "answered"}
    /\ Answered(c) /\ UNCHANGED <<cod, sheet, line, received, outside>>

\* Mistaken form: the draft's amount, whatever was paid since.
Applied_Drafted(o) == line[o].collected

\* What confirm adds to an order: at most what it still owes.
Applied(o) == IF Owing(o) THEN Min({line[o].collected, Due(o)}) ELSE 0

ConfirmSettlement(s) ==
    /\ sheet[s].status = "draft" /\ LinesOf(s) # {}
    /\ cod' = [o \in CodOrders |->
         IF o \in LinesOf(s) /\ Applied(o) > 0 THEN WithPaid(cod[o], cod[o].paid + Applied(o)) ELSE cod[o]]
    /\ received' = [received EXCEPT ![s] = [o \in CodOrders |-> IF o \in LinesOf(s) THEN Applied(o) ELSE 0]]
    /\ sheet' = [sheet EXCEPT ![s].status = "confirmed"]
    /\ UNCHANGED <<line, calls, outside>>

-----------------------------------------------------------------------------
(* What the rest of the program does to an order meanwhile                  *)

Outside == outside < MaxOutside /\ outside' = outside + 1

\* capturePayment of its cash on delivery (markCodCollected): whatever the
\* order's state, up to what it is short of.
CapturePayment(o) ==
    /\ cod' = [cod EXCEPT ![o] = WithPaid(@, Max({cod[o].paid, Total}))]
    /\ Outside /\ UNCHANGED <<sheet, line, received, calls>>

\* refundOffline, of a part or all of the total: both states end what it owes.
RefundOffline(o) ==
    /\ cod' = [cod EXCEPT ![o].financial = "refunded"]
    /\ Outside /\ UNCHANGED <<sheet, line, received, calls>>

\* The parcel comes back, goes out again, or the order is cancelled after that.
ParcelMoves(o) ==
    /\ \/ cod[o].at = "delivered" /\ cod' = [cod EXCEPT ![o].at = "back"]
       \/ cod[o].at = "back" /\ \E at \in {"delivered", "cancelled"} : cod' = [cod EXCEPT ![o].at = at]
    /\ Outside /\ UNCHANGED <<sheet, line, received, calls>>

SettlementNext ==
    \/ \E c \in Edits :
         \/ BeginCreate(c) \/ BuildLines(c) \/ DeleteLines(c)
         \/ CommitUpdate(c) \/ CommitRemove(c) \/ Refused(c)
         \/ \E s \in Sheets : BeginUpdate(c, s) \/ BeginRemove(c, s) \/ CommitCreate(c, s)
    \/ \E s \in Sheets : ConfirmSettlement(s)
    \/ \E o \in CodOrders : CapturePayment(o) \/ RefundOffline(o) \/ ParcelMoves(o)

SettlementSpec == SettlementInit /\ [][SettlementNext]_settlementVars

-----------------------------------------------------------------------------

OneEdit(s) == \A o, p \in LinesOf(s) : line[o].by = line[p].by

\* settlements.test.js:87 "adds only what each order still owes, never the cash
\* twice", under any order of drafts, edits, removals, confirmations, captures and
\* refunds: settlements together record no more than an order was paid, an order
\* is paid its total at most, and is `paid` only then; the header of a settlement
\* is the sum of its lines.  The exception is a settlement two edits wrote at
\* once: neither deletes the other's lines, and the header is the later one's.
SettlementsAddUp ==
    /\ \A o \in CodOrders :
         /\ MapThenSumSet(LAMBDA s : received[s][o], Sheets) <= cod[o].paid
         /\ cod[o].paid <= Total
         /\ cod[o].financial = "paid" => cod[o].paid = Total
    /\ \A s \in Sheets : OneEdit(s) =>
         sheet[s].collected = MapThenSumSet(LAMBDA o : line[o].collected, LinesOf(s))

\* settlementService.js:233 "Records the cash as captured COD payments on each
\* order and locks the settlement": an order that a settlement paid stays a line
\* of it, and the settlement stays.  An edit or a removal that read the draft
\* before the confirmation changes it after.
ConfirmedIsLocked ==
    \A s \in Sheets, o \in CodOrders :
        received[s][o] > 0 => sheet[s].status = "confirmed" /\ line[o].of = s
=============================================================================
