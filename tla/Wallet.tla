------------------------------- MODULE Wallet -------------------------------
(***************************************************************************)
(* The prepaid balance of a store on the pay-per-order plan: walletService *)
(* and confirmFeeService, called where an order is placed, confirmed,      *)
(* rejected, corrected, cancelled, expired, paid late or reopened.         *)
(*                                                                         *)
(* Each caller holds the order's row and takes the wallet's row last, so a *)
(* change of an order and its ledger entry are one step.  settleDue reads  *)
(* its list before it locks anything.                                      *)
(***************************************************************************)
EXTENDS Integers, Sequences, FiniteSets, FiniteSetsExt

CONSTANTS
    FeeOrders,      \* bound: orders of the store
    PlanFees,       \* bound: amounts the plan's fee may take
    DebtLimit,      \* how far below zero the balance may go
    FreeOrders,     \* the plan's free orders
    TopUps,         \* bound: payment proofs, each worth TopUpAmount
    TopUpAmount,
    MaxEntries      \* bound: ledger rows of one order

ASSUME WalletAssumption ==
    /\ IsFiniteSet(FeeOrders) /\ IsFiniteSet(TopUps)
    /\ PlanFees \in SUBSET (Nat \ {0}) /\ PlanFees # {} /\ IsFiniteSet(PlanFees)
    /\ DebtLimit \in Nat /\ FreeOrders \in Nat
    /\ TopUpAmount \in Nat \ {0} /\ MaxEntries \in Nat

VARIABLES
    feeOrder,       \* the orders, as the fee sees them
    ledger,         \* wallet_ledger_entries of each order, oldest first
    balance,        \* workspace_wallets.cash_balance
    freeUsed,       \* workspace_wallets.free_orders_used
    credited,       \* proofs with a topup entry
    planFee,        \* the plan's fee now
    lockOn,         \* ORDERS_LOCK_ENABLED
    dueList         \* the orders settleDue has still to visit

walletVars == <<feeOrder, ledger, balance, freeUsed, credited, planFee, lockOn, dueList>>

Ended == {"rejected", "cancelled", "expired"}
Fees  == {"order_fee", "order_fee_recharge"}
NotPlaced == [stage |-> "none", online |-> FALSE, paid |-> FALSE, shipped |-> FALSE,
              contactLock |-> "none", reopened |-> FALSE]

WalletInit ==
    /\ feeOrder = [o \in FeeOrders |-> NotPlaced]
    /\ ledger = [o \in FeeOrders |-> <<>>]
    /\ balance = 0 /\ freeUsed = 0 /\ credited = {}
    /\ planFee = Min(PlanFees) /\ lockOn = FALSE
    /\ dueList = {}

-----------------------------------------------------------------------------
(* Reading the ledger.                                                     *)

\* Where they stand in the order's ledger.
EntriesOf(o, types) == {i \in DOMAIN ledger[o] : ledger[o][i].type \in types}

Outstanding(o) ==
    Cardinality(EntriesOf(o, Fees)) - Cardinality(EntriesOf(o, {"order_fee_reversal"}))

\* orderFeeState: charged now, the entry that charged it, and its confirmation fee.
Charged(o)    == Outstanding(o) > 0
LastCharge(o) == ledger[o][Max(EntriesOf(o, Fees))]
HasConfirmFee(o) == EntriesOf(o, {"order_confirm_fee"}) # {}

FreeLeft == Max({0, FreeOrders - freeUsed})

Entry(type, cash, free) == [type |-> type, cash |-> cash, free |-> free]

\* writeEntry: the row and the cached columns.
WriteEntry(o, e) ==
    /\ Len(ledger[o]) < MaxEntries
    /\ ledger' = [ledger EXCEPT ![o] = Append(@, e)]
    /\ balance' = balance + e.cash
    /\ freeUsed' = freeUsed - e.free

NoEntry == UNCHANGED <<ledger, balance, freeUsed>>

\* A free order first, else the plan's fee in cash.
FeeEntry(type) == IF FreeLeft > 0 THEN Entry(type, 0, -1) ELSE Entry(type, -planFee, 0)

\* chargeOrderFee: refused below the limit, and the order with it.
CanCharge == FreeLeft > 0 \/ balance - planFee >= -DebtLimit

ChargeOrderFee(o) ==
    IF lockOn \/ Charged(o) THEN NoEntry
    ELSE CanCharge /\ WriteEntry(o, FeeEntry("order_fee"))

\* The order as it stood before the change; a paid order has reached its
\* confirmed stage.
KeepsFee(o) ==
    lockOn /\ (feeOrder[o].contactLock = "unlocked" \/ feeOrder[o].stage = "confirmed")

\* As it was charged: its cash, or its free order.
GivenBack(o) == Entry("order_fee_reversal", -LastCharge(o).cash, -LastCharge(o).free)

ReverseOrderFee(o) ==
    IF KeepsFee(o) \/ feeOrder[o].shipped \/ ~Charged(o) THEN NoEntry
    ELSE WriteEntry(o, GivenBack(o))

Recharges(o) ==
    ~lockOn /\ ~feeOrder[o].shipped /\ ~Charged(o) /\ EntriesOf(o, Fees) # {}

\* Past the limit: the order exists already.
RechargeOrderFee(o) ==
    IF Recharges(o)
    THEN WriteEntry(o, Entry("order_fee_recharge", LastCharge(o).cash, LastCharge(o).free))
    ELSE NoEntry

\* takeFee never pays below zero.
CanPay == FreeLeft > 0 \/ balance >= planFee

\* Mistaken form: only the confirmation's own fee is looked for.
FeeSettled_PlacingForgotten(o) == HasConfirmFee(o)

FeeSettled(o) == Charged(o) \/ HasConfirmFee(o)

TakeFee(o) == IF FeeSettled(o) THEN NoEntry ELSE WriteEntry(o, FeeEntry("order_confirm_fee"))

\* settleOnConfirmation, strict: 402 ORDER_LOCKED, and nothing is written.
SettleOnConfirmation(o) ==
    IF ~lockOn \/ feeOrder[o].contactLock = "unlocked" THEN NoEntry
    ELSE (FeeSettled(o) \/ CanPay) /\ TakeFee(o)

Settled == UNCHANGED <<credited, planFee, lockOn, dueList>>

-----------------------------------------------------------------------------
(* Where an order changes.                                                 *)

Place(o, online) ==
    /\ feeOrder[o].stage = "none"
    /\ feeOrder' = [feeOrder EXCEPT ![o].stage = "pending", ![o].online = online]
    /\ ChargeOrderFee(o)
    /\ Settled

\* recordOutcome, confirmFromOrder.
Confirm(o) ==
    /\ feeOrder[o].stage = "pending" /\ ~feeOrder[o].online
    /\ feeOrder' = [feeOrder EXCEPT ![o].stage = "confirmed", ![o].contactLock = "unlocked"]
    /\ SettleOnConfirmation(o)
    /\ Settled

\* recordOutcome of a waiting order, correctOutcome of a confirmed one.
Reject(o) ==
    /\ feeOrder[o].stage \in {"pending", "confirmed"}
    /\ ~feeOrder[o].online /\ ~feeOrder[o].shipped
    /\ feeOrder' = [feeOrder EXCEPT ![o].stage = "rejected", ![o].reopened = FALSE]
    /\ ReverseOrderFee(o)
    /\ Settled

\* correctOutcome of a rejection: the confirmation's fee, or the old one again.
Correct(o) ==
    /\ feeOrder[o].stage = "rejected"
    /\ feeOrder' = [feeOrder EXCEPT ![o].stage = "confirmed", ![o].contactLock = "unlocked"]
    /\ IF lockOn THEN SettleOnConfirmation(o) ELSE RechargeOrderFee(o)
    /\ Settled

Cancel(o) ==
    /\ feeOrder[o].stage \in {"pending", "confirmed", "rejected"} /\ ~feeOrder[o].shipped
    /\ feeOrder' = [feeOrder EXCEPT ![o].stage = "cancelled", ![o].reopened = FALSE]
    /\ ReverseOrderFee(o)
    /\ Settled

Expire(o) ==
    /\ feeOrder[o].stage = "pending" /\ feeOrder[o].online
    /\ feeOrder' = [feeOrder EXCEPT ![o].stage = "expired", ![o].reopened = FALSE]
    /\ ReverseOrderFee(o)
    /\ Settled

\* The payment of an order paid online lands: it becomes a sale, in time or
\* after it expired.  markOnPayment takes no fee in the payment's transaction.
PaidOnline(o, stage) ==
    /\ feeOrder[o].online /\ ~feeOrder[o].paid
    /\ feeOrder' = [feeOrder EXCEPT ![o].stage = stage, ![o].paid = TRUE,
            ![o].contactLock = IF lockOn /\ @ # "unlocked" THEN "due" ELSE "unlocked"]
    /\ Settled

PaymentLands(o) ==
    /\ feeOrder[o].stage \in {"pending", "expired"}
    /\ PaidOnline(o, "confirmed")
    /\ IF feeOrder[o].stage = "expired" THEN RechargeOrderFee(o) ELSE NoEntry

\* The customer is on the platform's blocklist: the order is cancelled instead.
PaymentBlocked(o) ==
    /\ feeOrder[o].stage \in {"pending", "expired"}
    /\ PaidOnline(o, "cancelled")
    /\ ReverseOrderFee(o)

\* Cancelled by the merchant, or expired and its units sold: it stays so.
PaymentStays(o) ==
    /\ feeOrder[o].stage \in {"expired", "cancelled"}
    /\ PaidOnline(o, feeOrder[o].stage)
    /\ NoEntry

\* orderStageChange.reopen charges nothing.  A paid order stays confirmed.
ReopenFee(o) ==
    /\ feeOrder[o].stage \in Ended
    /\ feeOrder' = [feeOrder EXCEPT ![o].reopened = TRUE,
            ![o].stage = IF feeOrder[o].paid THEN "confirmed" ELSE "pending"]
    /\ NoEntry
    /\ Settled

Ship(o) ==
    /\ feeOrder[o].stage = "confirmed"
    /\ feeOrder' = [feeOrder EXCEPT ![o].shipped = TRUE]
    /\ NoEntry
    /\ Settled

-----------------------------------------------------------------------------
(* Top-ups, the plan, the switch, and the fees due.                        *)

\* creditTopup: approved twice, credited once.
TopUp(p) ==
    /\ p \notin credited
    /\ balance' = balance + TopUpAmount
    /\ credited' = credited \cup {p}
    /\ UNCHANGED <<feeOrder, ledger, freeUsed, planFee, lockOn, dueList>>

ChangeFee(f) ==
    /\ planFee' = f
    /\ UNCHANGED <<feeOrder, ledger, balance, freeUsed, credited, lockOn, dueList>>

\* A deployment switches it on; it is not switched off again.
SwitchLockOn ==
    /\ lockOn' = TRUE
    /\ UNCHANGED <<feeOrder, ledger, balance, freeUsed, credited, planFee, dueList>>

\* settleDue, run after a payment or a top-up and when the merchant asks.
SettleDue ==
    /\ lockOn /\ dueList = {}
    /\ dueList' = {o \in FeeOrders : feeOrder[o].contactLock = "due" /\ feeOrder[o].stage \notin Ended}
    /\ UNCHANGED <<feeOrder, ledger, balance, freeUsed, credited, planFee, lockOn>>

\* Under the order's lock only its contact_lock is read again.
SettleOneDue(o) ==
    /\ o \in dueList
    /\ feeOrder[o].contactLock = "due" => FeeSettled(o) \/ CanPay
    /\ IF feeOrder[o].contactLock = "due"
       THEN TakeFee(o) /\ feeOrder' = [feeOrder EXCEPT ![o].contactLock = "unlocked"]
       ELSE NoEntry /\ UNCHANGED feeOrder
    /\ dueList' = dueList \ {o}
    /\ UNCHANGED <<credited, planFee, lockOn>>

\* Stops at the first it cannot pay, and when the process does.
StopSettling ==
    /\ dueList' = {}
    /\ UNCHANGED <<feeOrder, ledger, balance, freeUsed, credited, planFee, lockOn>>

WalletNext ==
    \/ \E o \in FeeOrders :
         \/ \E online \in BOOLEAN : Place(o, online)
         \/ Confirm(o) \/ Reject(o) \/ Correct(o) \/ Cancel(o) \/ Expire(o)
         \/ PaymentLands(o) \/ PaymentBlocked(o) \/ PaymentStays(o)
         \/ ReopenFee(o) \/ Ship(o) \/ SettleOneDue(o)
    \/ \E p \in TopUps : TopUp(p)
    \/ \E f \in PlanFees : ChangeFee(f)
    \/ SwitchLockOn \/ SettleDue \/ StopSettling

WalletSpec == WalletInit /\ [][WalletNext]_walletVars

-----------------------------------------------------------------------------

EntryTypes == [type : Fees \cup {"order_fee_reversal", "order_confirm_fee"},
               cash : Int, free : {-1, 0, 1}]

WalletTypes ==
    /\ \A o \in FeeOrders :
         /\ feeOrder[o].stage \in {"none", "pending", "confirmed"} \cup Ended
         /\ feeOrder[o].contactLock \in {"none", "unlocked", "due"}
         /\ Len(ledger[o]) <= MaxEntries
         /\ \A i \in DOMAIN ledger[o] : ledger[o][i] \in EntryTypes
    /\ balance \in Int /\ freeUsed \in Nat
    /\ credited \subseteq TopUps /\ planFee \in PlanFees
    /\ lockOn \in BOOLEAN /\ dueList \subseteq FeeOrders

\* What an order's rows come to.
CashOf(o) == MapThenSumSet(LAMBDA i : ledger[o][i].cash, DOMAIN ledger[o])
FreeOf(o) == MapThenSumSet(LAMBDA i : ledger[o][i].free, DOMAIN ledger[o])

\* However often an order is charged, given back and charged again, it has at
\* most one fee on it: the one taken at placing or the one taken at confirming.
OneFeePerOrder ==
    \A o \in FeeOrders : Outstanding(o) + (IF HasConfirmFee(o) THEN 1 ELSE 0) \in {0, 1}

\* An order that was rejected,
\* cancelled or expired before any parcel left has everything given back, at
\* the amount it was taken, unless it was confirmed with the switch on.
EndedPaysNothing ==
    \A o \in FeeOrders :
      feeOrder[o].stage \in Ended /\ ~(lockOn /\ feeOrder[o].contactLock # "none")
      => CashOf(o) = 0 /\ FreeOf(o) = 0

\* While the fee is taken at placing, an order that stands has its fee on it,
\* also after a rejection was corrected or a payment came late; only one
\* reopened from the order page stands without.
StandingPays ==
    \A o \in FeeOrders :
      ~lockOn /\ feeOrder[o].stage \in {"pending", "confirmed"} /\ ~feeOrder[o].reopened
      => Charged(o)

\* Only a fee charged again takes the balance past the limit, and by no more
\* than those fees; the confirmation's never does.
DebtBounded ==
    LET recharged == {o \in FeeOrders : Charged(o) /\ LastCharge(o).type = "order_fee_recharge"}
    IN  balance - MapThenSumSet(LAMBDA o : LastCharge(o).cash, recharged) >= -DebtLimit

\* walletService.js:18: "the cached balance on workspace_wallets, in one
\* transaction" with its row: it is what the rows and the approved top-ups come
\* to, and free_orders_used is what the orders hold of the free ones.
CachesAddUp ==
    /\ balance = MapThenSumSet(LAMBDA o : CashOf(o), FeeOrders) + TopUpAmount * Cardinality(credited)
    /\ freeUsed = -MapThenSumSet(LAMBDA o : FreeOf(o), FeeOrders)

\* The fee follows the order (walletService.js:29) through any sequence of
\* changes: one fee while it stands, everything back once it ended, no debt
\* beyond the limit but for a fee charged again, and the caches say so.
FeeFollowsOrder == OneFeePerOrder /\ EndedPaysNothing /\ StandingPays /\ DebtBounded /\ CachesAddUp
=============================================================================
