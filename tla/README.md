# Zimos, modelled and proved

A TLA+ development kept beside the Zimos backend (`src/src`): models of its core
logic, the TLC runs that check them on small instances, and proofs checked by
TLAPS for every size. Paths below are relative to `src/src`; a line number is
written `file.js:123`.

1. [The system](#1-the-system)
2. [The modules and the code](#2-the-modules-and-the-code)
3. [The runs](#3-the-runs)
4. [Fairness](#4-fairness)
5. [The proofs](#5-the-proofs)
6. [Where the code and its comments differ](#6-where-the-code-and-its-comments-differ)
7. [What is left out, and the plan](#7-what-is-left-out-and-the-plan)

## 1. The system

Zimos is a multi-tenant shop backend for merchants who mostly sell cash on
delivery: Express routes over Sequelize and PostgreSQL, with background work in a
job queue kept in the same database. Several API processes and several workers run
at once. Nothing but the database coordinates them: row locks (`SELECT ... FOR
UPDATE`, `SKIP LOCKED`), unique indexes, conditional updates, and advisory locks.

A change of an order runs in one transaction that locks the order's row, and writes an
event in that transaction. The outbox moves committed events into the queue, the
queue runs each consumer (webhooks, emails, store credit, automations...), and the
consumers call back into the same services. Outside systems (couriers, payment
gateways, shoppers and agents with a page open) act at any time, on what they
saw some time ago.

| Component | State it keeps | Operations | Interacts through | What makes it correct |
| --- | --- | --- | --- | --- |
| Job queue, `core/queue` | `queue_jobs`; each worker's runs and timers | add under a dedupe key, claim, run, heartbeat, record the outcome, sweep stale locks, report, retry by hand, prune, stop, restart | `queue.add` from every module; handlers | a row is written by the run that holds it; a courier booking (`once`) is not repeated; bounded attempts and slots; every job ends |
| Event outbox, `core/outbox` | `domain_events` | record, dispatch, deliver to consumers, deliver in the process, prune | the change's transaction; the queue | only committed changes are delivered, none is lost without a trace |
| Stock, `modules/inventory`, `orders/returnedStock` | units on hand and reserved, stock movements | reserve, release, restock a returned parcel, retake, count by hand | called inside an order's transaction | no overselling; an order's holds follow its state; counter and ledger agree |
| Orders, `modules/orders` | three state columns, lines, shipments | place, edit, change stage, cancel, reopen, patch a shipment | agents, merchants, carriers, payments | the listed moves only; one parcel at a time |
| COD confirmation, `modules/cod` | confirmation tasks and their locks | open, claim, release, outcome, correct, close | orders, customers' counters | a waiting COD order is called exactly once at a time; rejections are counted once |
| Shipping, `modules/shipping` | shipments, carrier references | book, apply a carrier's report, track by hand, cancel | webhooks and sync jobs | a report moves a shipment only forward; the order follows |
| Online payments, `modules/payments` | payment attempts, inbox of gateway events, refunds | attempt, capture, expire, retry, switch to COD, sweep, refund in two steps | gateway callbacks and inquiries, shoppers, timers | money is counted once and marked where it is late; an expiry asks first; a refund happens once |
| Wallet, `modules/billing` | ledger rows, balance, free orders | charge a fee at placing or confirming, reverse it, charge it again, settle what is due, top up | called inside an order's transaction | one fee while an order stands, none once it ended; the debt limit |
| Subscriptions, `modules/billing` | a store's plan and period, its charges, its plan switches | bill, pay by gateway, by hand or by a transfer's proof, fail, void, pay late, reverse, switch now, for a charge or at the period's end | the merchant, the console, the gateway's events, an hourly job | one charge pending; one switch waits, and it fits the store it would change |
| Store credit, gift cards, points | balances with a ledger | spend, refund, give back, earn, take back | placement, refunds, the outbox's jobs | nothing given back twice, nothing kept of an ended order |
| Webhooks, `modules/webhooks` | deliveries with leases, the endpoint's health | fan out, attempt, redeliver, switch off, resume | two loops, buttons, HTTP | nothing unheard is dropped; the loops send one delivery once at a time; every row ends |
| Idempotency keys, `core/middleware` | a row per key | begin, replay, store the answer | every write request | one execution per key |
| Returns, `modules/returns` | return requests of an order's lines | ask, open, approve with an exchange, reject, restock | shoppers, the merchant, stock | shelf and exchanges follow the requests; a shopper asks once |
| Sessions, `modules/auth` | refresh tokens | sign in, rotate, revoke | requests | not modelled |
| Settlements, `modules/settlements` | drafts and confirmed settlements, a line per order | create, import, edit, remove, confirm | the orders' payments | cash is counted once; a confirmed settlement stays as it was |
| Carts, discounts, referrals, automations, notifications, ... | see `components` in `PROJECT.json` | | | |

The behaviours that are hard to test, each with the line where it bites, are listed
under `hazards` in `PROJECT.json`. They fall into these kinds:

- *Two runs of one job.* A worker that stalls past the lock's age keeps running
  while another claims its row. The fence is `HELD` (`postgresDriver.js:142`).
- *Delivery cut off half way.* A dispatcher or a dispatch job that stops between
  two consumers, an event row that could not be written, a prune in between.
- *Long mixtures of legal calls.* An order rejected, corrected, cancelled, paid
  late, reopened, returned, restocked and sent again: each handler reserves or
  releases units, opens or closes calls, and counts or uncounts a rejection.
- *Decisions on rows read before the lock.* `updateShipment` reads its shipment and
  `changeStage` its stage before the transaction that writes.
- *Competition.* Two orders, edits and late payments for the last unit on the shelf.
- *Answers that come late, twice or never.* A gateway is asked outside any
  transaction; its webhook, the shopper's redirect, our inquiry and the sweep report
  one payment in any order, beside an expiry, a retry and a switch to cash.
- *Locks taken in two orders.* The call queue locks a task and then its order, the
  order page the order and then its tasks.
- *Ledgers decided from their own rows.* A fee, points or credit is taken back by a
  handler that counts what was written before, late or beside another.

## 2. The modules and the code

```
CallDesk   <-- implemented by --  ConfirmationQueue  (last section of ConfirmationQueueProofs)
TaskQueue  <-- implemented by --  JobQueue           (last section of JobQueueProofs)
    ^                                ^   ^
    | EXTENDS                        |   +-- JobQueueProofs
  Outbox <-- MCOutbox            MCJobQueue

OrderLifecycle     <-- MCOrders, OrderLifecycleProofs
OnlinePayment      <-- MCOnlinePayment, OnlinePaymentProofs
Subscriptions      <-- MCSubscriptions

MCOrders    = OrderLifecycle + Tender + MCSubscriptions
MCPayments  = MCOnlinePayment + Settlements
MCServices  = MCOutbox + Refunds + Wallet + WebhookDelivery + ConfirmationQueue
              + IdempotencyKeys + Returns
MCLoops     = WebhookDelivery + ConfirmationQueue + Schedules, with their fairness

ConfirmationQueueProofs
LedgerProofs  = Tender + Returns + Refunds + Settlements
ServiceProofs = Outbox + IdempotencyKeys + WebhookDelivery + Subscriptions + Wallet
CompositionProofs = MCServices + the three modules above
Sums          what a sum over a finite set is; used by the proofs about accounts
```

`MCServices` and `MCLoops` put modules that share no rows beside one another: a
variable `service` is chosen at the start, and only the steps of that part are taken
(`Runs`). The state spaces add up instead of multiplying, and each part is explored
as it would be alone. `MCPayments` does the same, and `part` in `MCOrders`. `LedgerProofs` and
`ServiceProofs` put modules side by side only to prove about each: every theorem is about
the specification of one of them. `CompositionProofs` is about `MCServices` itself.

| Module | Models | State | Actions |
| --- | --- | --- | --- |
| `JobQueue` | `postgresDriver.js` over the `queue_jobs` table, `index.js`, `queues.js` | a row's `status`, `attempts`, `lockedBy`, and two flags for its times, `due` and `fresh`; a worker's `alive`, `poll`, `toReport` and `runs` | one per SQL statement or await: `Add`, `StartPoll`, `SkipSweep`, `Sweep`, `Report`, `Claim`, `Heartbeat`, `HandlerEnds`, `Finish`, `FinishLost`, `RetryJob`, `Prune`, `Stop`, `Exit`, `Crash`, `Restart`, and the passing of time, `Elapse`, `Lapse` |
| `TaskQueue` | what the queue promises the rest of the program: added, executed at least once, completed by a success or given up | where a job stands, the executions in progress | `AddTask`, `Start`, `Return`, `Complete`, `Drop`, `GiveUp`, `Revive`, `Forget` |
| `Outbox` | `outbox.js`, over `TaskQueue` rather than over the rows of the queue | the transaction and row of each event, deliveries in the process, what a handler has done so far, who handled what | `Record`, `Commit`, `Rollback`, `DeliverInline`, `InlineCutOff`, `DispatchPending`, `AddConsumer`, `Consume`, `HandlerReturns`, `PruneEvent`, and the queue's steps |
| `OrderLifecycle` | orders, calls, shipments, payment and stock of one store (`modules/orders`, `cod`, `shipping`, `payments`, `inventory`) | the order's columns, its shipments and tasks, the units it was placed with and those it holds, the counters of each variant, the customer's rejections, a request that has read and not yet written | `TaskStep`, `StageStep`, `ShipmentStep`, `PaymentStep`, `PlaceOrder`, `EditItems`, `SetStock`: one action per handler, listed by `map` |
| `OnlinePayment` | the attempts of one order (`onlinePaymentService`, `paymentEventService`, `paymentSweepService`) | the order's columns, each `payments` row and whether it is too old to be asked about, starts and gateway calls under way, what the gateway knows, the inbox, what each request or sweep is doing | `Pay`, `Decline`, `DayPasses`, `WriteAttempt`, `GatewayStarts`, `Deliver`, `Reprocess`, `Apply`, `MarkProcessed`, who asks the gateway (`BeginExpiry`, `AskFirst`, `AskOpen`, `AskLate`, `Sync`, `Notify`), `InquiryFinds`, ..., `ExpireOrder`, `Retry`, `SwitchToCod`, `CancelOrder`, and the ends of processes |
| `Refunds` | `paymentService.processRefund`, `gatewayRefundService`, `storeCreditService.refundToCredit` | the refunds rows and the order's total, each call to the gateway, the gateway's refunds, callbacks between their search and their write | `RequestRefund`, `GatewayTakes`, `GatewayRejects`, `CallLost`, `SettleRefund`, `DashboardRefund`, `Report`, `SettleReported`, `RecordReported`, `SweepRefund`, `RefundToCredit` |
| `ConfirmationQueue` | `confirmationService` and the order page's `followUp` and `backToQueue` (`orderStageChange`), with their row locks | tasks and their holders, each order's answer, each open transaction with the rows it has locked | `BeginRequest`, `TakeLock` (one row), `SweepLapsed`, `BreakDeadlock`, one `Commit...` per handler, `RequestLost`, `LockLapses` |
| `CallDesk` | what the call queue promises the orders and the agents, each request one instant | each order's answer, its call and who holds it | `ClaimCall`, `ReleaseCall`, `RecordAnswer`, `CorrectAnswer`, `ConfirmOrder`, `FollowUp`, `Requeue`, `CancelOrder`, ... |
| `Wallet` | `walletService`, `confirmFeeService` | the orders as the fee sees them, the ledger of each, balance, free orders, the switch, a settlement's list | one per caller: `Place`, `Confirm`, `Reject`, `Correct`, `Cancel`, `Expire`, `PaidOnline`, `ReopenFee`, `Ship`, `TopUp`, `SettleDue`, `SettleOneDue`, ... |
| `Tender` | `giftCardService`, `storeCreditService`, `loyaltyService` on one order | what was spent, given back and is held, the order's totals, points, the outbox's jobs | `PlaceSale`, `SpendNext`, `EndSale`, `ReopenSale`, `RefundTender`, `OnCancelled`, `EarnForOrder`, `ReadEarned`, `WriteReversal`, ... |
| `WebhookDelivery` | `webhookDispatcher`, `webhookHealth` | rows with their lease, the endpoint, each attempt | `QueueDelivery`, `ClaimHook`, `Press`, `Send`, `Answer`, `RecordOutcome`, `NoteHealth`, `SenderStops`, `DisableFailing`, ... |
| `Schedules` | `postgresDriver.scheduleTick`, `runSchedule` | the schedule's turn, each process, the handlers inside the turn and past it | `TurnComes`, `StartWorker`, `Tick`, `TurnEnds`, `StopWorker`, `ExitWorker` |
| `IdempotencyKeys` | `middleware/idempotency.js` | the key's row, each request, what was committed, answers not stored yet | `SendPost`, `InsertKey`, `HandlerCommits`, `HandlerThrows`, `HandlerAnswers`, `StoreAnswer`, `EndPoll`, `SendAgain`, `ProcessStops` |
| `Subscriptions` | `subscriptionChargeService`, `planSwitchService` with its rules and settlement, `manualSubscriptionService`, `paymentProofService`, the status events and the period's lapse in `billingService` | the month, the subscription, each charge with the switch it pays for, the switch planned for the period's end, the proofs that wait | one per transaction: `CreateCharge`, `VoidCharge`, `MarkChargeFailed`, `PayCharge` (by kind of charge: `PayRenewal`, `PaySwitch`, `CreditSwitch`, `CreditLate`), `SendProof`, `ApproveProof`, `RejectProof`, `ReversePayment`, `AskUpgrade`, `Schedule`, `SwitchNow`, `CancelSwitch`, `CancelMove`, `ApplyDue`, and the console's `Activate`, `ChangePlan`, `EndNow`, `Extend`, `SetBillingCycle` |
| `Settlements` | `settlementService`, and what captures and refunds do to its orders | the orders' money, each settlement's status and header, the lines (unique by order, told apart by who wrote them), what was received for a settlement, what each request has read | `BeginCreate`, `BeginUpdate`, `BeginRemove`, `BuildLines`, `DeleteLines`, `CommitCreate`, `CommitUpdate`, `CommitRemove`, `Refused`, `ConfirmSettlement`, `CapturePayment`, `RefundOffline`, `ParcelMoves` |
| `Returns` | `modules/returns` for one line | the rows, a shopper's request between its two counts, units put back and held for exchanges | `AskReturn`, `RequestReturn`, `CreateReturn`, `Approve`, `RejectReturn`, `RestockReturn` |

How the abstraction was drawn:

- A handler that locks the order first and runs in one transaction is one action,
  its trailing calls (release, close the tasks, cancel the shipments, count the
  rejection) included. A handler that reads before it locks is two actions, with
  what it read kept in `pending`.
- Time is a flag per deadline (`due`, `fresh`, `expires`), never a number. A sweep
  may find any non-empty set of stale rows, since rows locked elsewhere are skipped;
  a claim takes any set of due rows that fits its slots.
- An outcome of finish that cannot be written (`FinishLost`), a poll that fails, an
  `onInterrupted` that throws and an event insert that fails inside its savepoint
  are actions or choices of their own.
- Parcel statuses on the road are one value; unreachable and postponed calls are
  one; prices, messages and who holds a call's lock are left out.
- In `Outbox`, retention (3 and 30 days in the queue, 30 in the outbox) outlasts the
  jobs of the event still in line: nothing about an event is pruned meanwhile.
- `OnlinePayment`: cancelled and expired rows are one status, *ended*; a *failed* row
  is another, because the sweep asks about the former and never about the latter
  (`paymentSweepService.js:100`). A declined card has no inbox row: its report changes
  nothing that outlives it. The gateway whose webhook is confirmed by an inquiry
  (`ByInquiry`: Fawaterak) reports no declined card at all, an unpaid payment is pending
  there (`fawaterak.js:481`), so a row of it fails only when it could not be started. The
  day after which `inquireLateAttempts` no longer asks counts from the row, and matters
  of an ended one: `DayPasses`. A request that asks several attempts does so one await at a time, and a callback may
  land between any two. A process that stops is an action where it leaves something
  a failed event would not. Faults stay below the inbox's `MAX_ATTEMPTS` (10), so no
  event is given up.
- `ConfirmationQueue` is where row locks are kept: each `SELECT ... FOR UPDATE` is a
  step, and what the code checks after it (`Admits`) ends the request. In the other
  modules a handler takes its locks in one step, as it takes no second row another
  handler takes first.
- `Wallet` and `Tender` hold one action per caller, because a ledger row is written in
  the caller's transaction; what runs in a transaction of its own (`settleDue`, each
  tender of a checkout, each job of the outbox, a reversal after its read) is a step
  of its own, and jobs may run late or again.
- `Settlements`: the DELETE of an edit sees the lines committed when it starts, so the
  step that takes them (`DeleteLines`) is before the step that commits. Confirming locks
  the settlement and then each order, and waits for an edit that has written: one action.
- `Subscriptions` counts time in months, since a switch is decided by comparing the ends
  of periods; a plan is named by its monthly price, which is what makes a switch an
  upgrade. A charge's amount is left out: what a payment buys depends on the charge's
  terms, and the rest is credited.
- A *ghost* (`lastClaim`, `heard`, `owed`, `mistaken`, `late`) records history for a
  property; no guard reads it.
- Every operator named `X_Something` with the comment *Mistaken form* stands beside
  the definition `X` it is a mistake of; nothing in a model uses it.

## 3. The runs

| Run | Instance | Shows |
| --- | --- | --- |
| `queue_shared` | 2 jobs (one `once` with two tries, one resumable with an extra attempt), one key, 2 workers of 2 slots, 1 crash or stop | runs, attempts, slots and keys under every order of claims, sweeps, lost outcomes and prunes |
| `queue_retried` | 1 resumable job, 2 workers of 1 slot, 1 crash or stop, 1 retry by hand | the queue implements `TaskQueue`; every job ends |
| `outbox_delivery` | 1 event, 2 consumers, 2 executions per job, 2 at once, one job retried by hand | deliveries follow commits, nothing is lost in silence, every event settles |
| `orders` | four parts: 1 order, 2 variants (one may be oversold), 1 shipment, 2 call tasks; 2 orders, 1 variant with at most 1 unit, 2 call tasks each; what a shopper spends on one order, credit and points, 2 endings, 2 returns; the store's subscription: 2 plans, the cheaper by the year, 2 charges, 1 month that passes, 1 step of the console or a status event | `HoldsFollowOrder`; `CallsFollowOrder`: an undecided COD order has one open call, any other none; restocked units; counter against ledger, overselling, rejections; `TenderBackOnce`, `PointsTakenBack`; `SwitchesFit`: one charge pending, and the switch that waits fits the store |
| `payments` | online: 2 attempts, one with a gateway that must be asked, 2 callers, 1 fault; in cash: 2 orders, 2 settlements, 3 requests, 2 things that happen to the orders meanwhile | money counted once and marked; a paid order is a sale; an expiry asks first; `SettlementsAddUp`: cash counted once, no order overpaid, headers are the sums of their lines |
| `payments_end` | the online payment, 1 caller, fair | payments are recorded unless their attempt ran out of the sweep's reach, overdue orders end |
| `services` | seven parts, each alone; the values are in `Services.cfg` | the accounts and exclusions of each part, below |
| `loops` | 1 delivery, a loop and a button; 1 order, 2 tasks, 2 transactions; 2 workers; fair | deliveries end, requests are answered though locks form a circle, schedules go on |
| `orders_sent_again`, `payments_heard`, `refunds_twice`, `settlements_changed` | the smallest that shows it | section 6 (violations) |

The parts of `services`:

| Part | Instance | Properties |
| --- | --- | --- |
| outbox | 1 event, 1 consumer, 2 job rows for it, one job retried by hand | `OneJobPerConsumer`: dispatching again gives a consumer one job |
| refunds | 2 refunds, a payment of 2, 2 callbacks at a time | `RefundsAddUp`: the order's total is what the gateway carried out, each refund counted once |
| wallet | 2 orders, 2 fees, a debt limit of 1, 1 free order, 1 top-up | `FeeFollowsOrder`: one fee while an order stands, none once it ended, within the debt limit, and the cached balance and free orders are what the rows come to |
| webhooks | 1 delivery of 2 tries, 2 loops and a button, 1 crash | `UnheardIsScheduled`, `LoopsSendOnce` |
| calls | 1 order, 2 tasks, 2 agents, 2 transactions at a time | `OneOpenTask`, `HolderRecords`, `AssigningNeverDeadlocks`; `ImplementsCallDesk`: the queue implements `CallDesk` |
| keys | 3 requests, 2 bodies, 1 end of a process | `CommittedOnce` |
| returns | a line of 2 units, 2 returns, 2 shopper requests | `ReturnsAddUp` |

The bounds, and why they are enough:

- *Two workers.* Each race of the queue is between the run that lost a row and the
  one that took it, or between a sweep and a run. Two slots let one worker be both.
- *Attempts.* A `once` job has a second try, so that a recorded failure and a stale
  lock differ; a resumable one has one attempt beyond its tries, so that the sweep's
  limit and the failure's limit differ.
- *One crash or stop, one retry by hand.* Two of either repeat the same shapes;
  stalls (`Lapse`), lost outcomes and failed polls are not bounded. The proofs
  carry no bound: `MaxStops` and `MaxRetried` are any numbers.
- *Two consumers* make a dispatch stop between them; *two copies* of a consumer's
  row make the second add of a key after a prune possible.
- *One unit on hand, one unit per line*: competition for the last unit. Two
  variants, one oversellable, make a release or a reservation partial.
- *Two tasks* are a call and the next one.
- *One of most things.* What the safety properties say of one or two orders, agents,
  charges or rows is proved for all numbers of them (section 5); the runs show that the
  cases happen and that the mutants are caught.
- *Two attempts of a payment*: the first is retried or overtaken, the second is the
  duplicate. One of the two gateways only names the payment, so it is always asked.
  *One fault* of each kind in one place: an event that fails is tried again, and what
  two failures in a row do is what one does later.
- *Three requests under a key*: the winner, one that waits, one that comes after.
- *Two charges*: one that waits and one that replaces it, is paid late or is reversed.
  A year is as long as a month: `SwitchesFit` compares only the ends of periods of
  different starts.
- *Three requests on settlements*: one creates, two overlap, or one removes what another
  settles again. *An order of 2* is settled in a part or whole.
- *A payment of 2* can be refunded whole, in halves, and in a half beside a whole.

Every property has a mutant in `PROJECT.json`, a plausible mistake in a definition
the property rests on, which its run refutes. Deadlock is checked in the runs of the
queue and of the orders (where the tenders and the charges may stop). The other instances stop for
good: once an event is handled and pruned, a payment settled, a key answered, a bound
used up.

## 4. Fairness

`JobQueue!FairSpec` assumes of the code only its timers: the poll and the heartbeat
run on intervals (`postgresDriver.js:312`), time passes, the platform restarts a
process that ended, and a handler returns. Claims and sweeps are strongly fair per
job: rows are claimed in `run_at` order, so a ready row is not passed over for ever,
and polls do not fail every time (a database that is down for ever ends nothing).
Adding, retrying, failing, crashing, stopping and losing an outcome have no
fairness. A stale lock is assumed to lapse only once no run renews it.

`Outbox!FairSpec` assumes the dispatcher's timer, and of each job that it ends,
which is what `EveryJobEnds` shows of the queue. It does not assume that handlers
succeed: a consumer may fail every time, and then its job is on the failed list,
which is the other way `EveryEventSettles` allows.

`PaymentFairness`: a request or sweep that has begun goes on (weak); the gateway
repeats an unanswered webhook and the sweep (`paymentSweepService.js`) comes back to
unprocessed events, to the open attempts of an order that stands, to the late ones of
the last day and to overdue orders, each strongly fair, because the few callers of the
instance may be busy with other work in between. Nothing else brings an inquiry about: a
webhook that only names the payment is answered 200 whatever its inquiry came to
(`Notify`, not fair), and the merchant's `Sync`, the status page, a retry and a switch
are up to people. Nobody is assumed to pay, and neither the fault nor the day that
passes is fair.

`HookFairness`: the loops go on, an attempt under way ends, waits and leases pass.
`CallFairness`: a transaction that can go on does, and a row is given to those who wait
for it in turn, which is how PostgreSQL queues them; no request is assumed to begin, and
no agent to record. `ScheduleFairness`: time passes, handlers return, a process that
ended is started again, and some process lives until its next tick. In `MCLoops` the
parts that were not chosen have nothing fair enabled in their first state.

## 5. The proofs

Checked by TLAPS for every set of jobs, workers, keys, orders, variants, attempts,
events, consumers, callers, agents, requests, refunds, settlements, charges and ledger
entries and every value of the bounds, from the assumptions the modules state
(`JobQueueAssumption`, `OutboxAssumption`, `OrdersAssumption`, `VariantsAssumption`,
`BoundsAssumption`, `PaymentAssumption`, `CallAssumption`, `KeyAssumption`,
`TenderAssumption`, `ReturnsAssumption`, `RefundAssumption`, `SettlementsAssumption`,
`HookAssumption`, `SubscriptionsAssumption`, `WalletAssumption`). They say that sets of rows are finite, that ids and amounts are
numbers, that a row that is none is no row, and that there is a task row for each order
and no task is an order. TLC evaluates them in its runs.

Every safety property and every refinement a run checks is stated by a theorem.

**`JobQueueProofs`**, layer upon layer, each invariant using the ones before it:

- `TypeCorrect`: types, and that a row is locked exactly while it is active.
- `LimitsAreKept`, from `AttemptsInv` and `SlotsInv`. The bound on attempts is not
  inductive: an added row comes in line with the attempts it had, so the
  strengthening says that a row not yet added has none. A recorded failure writes
  only a row that `HELD` singles out, whose attempts are then the run's, which is
  below the limit. `SlotsInv` adds that the runs are finitely many, without which
  cardinalities mean nothing.
- `HolderClaimedLast`, from `RunsInv`: while nobody retried the job by hand, its
  attempts equal its claims and a run's attempt is its claim's number, so the three
  columns `HELD` compares single out the last claim. The same invariant shows
  where the argument stops: `RetryJob` breaks the equality (section 6).
- `OnceNeverTwice` and `OnceNeverAfterCutOff`, from `OnceInv`: a `once` row in line
  has no run left anywhere and as many claims as recorded failures. The sweep never
  puts it back, so only `Finish` does, and `Finish` ends the row's only run.
- `OnlySuccessCompletes`: a row is completed only by the outcome of a run that
  returned normally and that the fence let write it. No run repeats it.

Its last section refines: `QueueImplementsTaskQueue`. Pending and active rows are
queued tasks, runs are executions numbered by their claim. Each action maps to one
step of `TaskQueue` or to none; `RunsInv` gives that two runs of one job are two
executions.

**`ServiceProofs`, the outbox**: `OutboxInv` is inductive (`OutboxInvariant`) and implies
`OnlyCommittedDelivered`, `NoSilentLoss` and `OneJobPerConsumer` (`CommittedDelivered`,
`NothingLost`, `GivenOnce`) over any behaviour `TaskQueue` allows. What it adds:

- `Commits`, an event has rows in the queue exactly from its dispatch on, and an event
  recorded in an open or committed change has a row;
- `Work`, what a handler has done so far is done for good (the consumer's work, or a row
  added for it, which may be forgotten but never absent again), so what a completed or
  forgotten job leaves behind survives it; only a job retried by hand may find its event
  pruned and return with nothing done, and that job is on the failed list of the past
  (`Retries`);
- `OneGiven`, once retention has forgotten a row about an event, no dispatch job of it is
  in line or running, unless one was retried by hand. This is why the dedupe key, which
  holds only while its row is in the table, is enough.

Steps that only end something share `EndingKeeps`, those that only add rows share
`AddingKeeps`.

**`OrderLifecycleProofs`**: `OrderInv` is inductive (`OrdersInvariant`) and implies
`HoldsFollowOrder`, `RestockedAllOrNone` and `CallsFollowOrder` (`UnitsFollowOrder`,
`RestockedTakenOnce`, `EveryOrderIsCalledOnce`). It adds what those three need of each
other:

- `FreshOK`, an order not placed is blank, so that placing it starts from nothing;
- `CardOK`, a card order has no calls, only an order awaiting a card payment expires,
  and a follow-up in flight is a COD order's: this is why the late payment that
  reopens an order never has to open a call, and why a stage move decided on an
  old read still finds a COD order;
- `HoldOK`, a restocked order is no longer unfulfilled, so it cannot be edited:
  otherwise an edit could give it part of its units;
- `CallOK`, an order has an open call *exactly* while it is an undecided COD order.

`NothingOversold` proves the action property: only `Reserve` raises a reserved
counter, in placements, edits, corrections, reopenings, late payments and re-sendings.

Two theorems relate a counter to all orders at once, and are about sums and
cardinalities:

- `CountersAgree`. Each piece of a handler moves a counter by what it moves of the
  order's ledger of holds, and both stop at zero (`CountersFollow`). That the counter's
  stop never hides a unit needs that no order owes any: by `OrderInv` an order holds
  nothing or what it was placed with, so a counter is at least what one order holds.
- `RejectionsAreCounted`. Every step counts the rejection it makes and uncounts only the
  one it takes back (`CountMoves`); those that stand then stay within the count
  (`CountStep`), since no step touches two orders.

**`OnlinePaymentProofs`**: `PayInv` is inductive and implies `MoneyAccounted` and
`PaidStandsAsSale` (`MoneyIsAccounted`, `PaidIsASale`). What it adds:

- `GatewayInv`, every event stored or being processed is of an attempt the gateway
  was paid for, and a row whose gateway call is unanswered was not paid: so the
  refusal that closes such a row takes no captured one back;
- an order that expired was waiting for an online payment, so the late payment that
  reopens it is never one that follows a switch to cash.

A payment recorded for the first time is one captured row more (`OneMoreCaptured`),
and one recorded again changes nothing: the status of the row is what counts, however
many events report it. The changes of the order that bring no money in share
`OrderMoves`.

`ExpiryHeedsPayments` proves the action property from `HeedInv`: as long as nothing
failed, a payment an expiry owes an answer about is still on its list, is the event it
has in hand, or is recorded. What is paid or captured stays so and a fault is not taken
back (`Stands`), so the steps of all other callers leave this true (`HeedsStands`). When
the list and the hand are empty every such payment is recorded, and a recorded payment
left the order no reason to expire.

**`ConfirmationQueueProofs`**:

- `OutcomeByItsHolder`. `CallInv` says that a row is locked by one transaction, that
  whoever records an outcome with the task's row locked is its agent, and that a task's
  agent is who claimed it last. A commit changes the holder only of rows its transaction
  has locked, or of a row that was never a task (`CommitKeeps`).
- `OrderHasItsTask`, from `QueueInv`, which says of every transaction that what it found
  when it locked a row is still so (`Found`): the lock is what makes a decision taken two
  steps ago safe to commit. A correction puts a call back in line only with its order
  locked, and with the order decided there is no other (`TaskOf`). A follow-up or a
  requeue may find the order confirmed since its stage was read: it then opens a task
  where there is none, and a confirmed order has none.
- `AssignmentsMakeNoCircle`. An assignment holds the lowest ids of its batch and waits
  for the next. In a circle of assignments take the one that waits for the highest row
  (`HasGreatest`): the row is held by another of the circle, which waits for a higher.
- `QueueImplementsCallDesk`. A transaction maps to one step of the desk, the one where it
  commits, and its other steps to none. What it goes by then was read steps ago, of rows
  it has locked since: `DeskInv` says for each kind of request that it is still so
  (`Checked`), because a commit writes only rows its own transaction holds
  (`OthersChecked`). A claim that sweeps lapsed locks is one step of the desk that returns
  several calls to the line. The order's call is its open task, of which `QueueInv` gives
  that there is one at most; without that the mapping would have a choice. `CallTyped`
  adds that a task has a holder exactly while it is in progress.

**`Sums`**: what `MapThenSumSet` gives over a finite set behaves as a sum: one member
more, one value changed, two disjoint parts, a part of natural numbers. The library's
induction over finite sets takes an operator as a parameter, which no backend here can
instantiate; the proofs go over the subsets of the set instead, of which a wrong one would
include a least (`SubsetsInduction`, by well-founded induction on a set of subsets).
`HasGreatest` and `HasLeast` give a finite set of numbers its ends.

**`LedgerProofs`**, one invariant for each account:

- `TendersGivenBack` and `PointsFollowReturns`, from `TenderInv`. `EndedGivesBack` is an
  implication with the jobs' end before it, so the invariant says which tenders the
  checkout has not come to (`NotTakenYet`): a sale that ends in between has nothing of
  theirs to give back. `ReversedInTurn` says that of jobs that do not overlap the one that
  has read finds no points taken back yet.
- `ReturnsAreCounted`, from `ReturnInv`: a row enters the sum of what was put back, or of
  what is held, in the step that changes its status, and never again.
- `RefundTyped`: the refunded total stays within what the rows could take, as a sum of
  amounts none of which passes what was paid (`SumAtMost`).
- `RefundsAreCounted`, from `RefundInv`: what an answer or a callback says of a refund was
  true when it was said and may only have been settled since (`SaysOf`); while no callback
  was given to another refund's row, a row carries the reference of its own refund and its
  outcome (`RowsAreTheirs`). Then the processed rows and the refunds the gateway carried
  out are in one-to-one correspondence, which is what `TotalsFollowMoney` sums
  (`SumMapped`).
- `CashIsRecordedOnce`, from `SettlementInv`: no request writes a line twice, so a line an
  edit has read under an author is of the settlement it was read of, or gone
  (`EditStands`); a header is the sum of its lines while one edit at a time wrote them.

**`ServiceProofs`, the other services**:

- `KeyCommitsOnce`: the request that inserted the key is the only one that commits, and
  an answer that was stored, or is on its way to be, is of the body that was committed.
  A failure that could not be written leaves the row processing, as a lost answer does.
- `UnheardStayScheduled` and `LoopsSendInTurn`, from `HookInv`. A row nobody pressed the
  button for is in the hands of one attempt, which holds its lease and knows the row as it
  is (`Alone`); one that was pressed has two at most (`Few`), and neither can write that it
  ended over a row that did not (`Kept`): an attempt that leaves the row unscheduled found
  it exhausted. `HookTyped`, from `Tried`: a row that is due, or will be, has tries left, and
  whoever works one that is no longer scheduled (its button was pressed) is the last to
  do so; so the count passes `MAX_ATTEMPTS` by one at most, whichever attempt writes last.
- `SwitchesFitTheStore` and `SubscriptionTyped`, from `SwitchInv`. A switch waits only
  beside its pending charge, for terms the store is on and with nothing scheduled; a paid
  one was applied, and the row it would go back to has the terms it was priced from
  (`ChargeStands`), so reversing it returns the store to them. Only a charge that was
  reversed waits without its switch: the exception the property names.
- `FeesFollowOrders`, from `WalletInv`. Each ledger stands by itself (`LedgerStands`): it
  is charged once or not, comes to its last charge or to nothing, and the fee of a
  confirmation excludes the charge of a placement. What the order's stage and the switch
  say of it is a second part (`OrderPays`), and the debt is a sum over the orders of what
  was charged again, which no step lets the balance fall behind. That the caches add up is
  a third part (`CachesStand`): every step writes one row, credits one top-up or writes
  nothing (`OneEntryOrNone`), and a row moves its order's sum and the caches by as much
  (`EntryAddsUp`). `WalletTyped` follows: an order holds a free one or none, so
  `free_orders_used` is a natural number.

**`CompositionProofs`**: `PartsStand`, a behaviour of `MCServices` is a behaviour of each
of its parts, since no step of one moves a row of another. So what is proved of the parts
is proved of what the run `services` checks, property by property: `ServicesTyped` and
`ServicesStand`.

*Only model-checked:*

- liveness (`EveryJobEnds`, `EveryEventSettles`, `PaidIsRecorded`, `OverdueEnds`,
  `HooksEnd`, `EveryRequestEnds`, `TurnsAreRun`), which rests on fairness and `ENABLED`,
  out of this prover's reach.

Two definitions were rewritten so that they could be proved about, with the same meaning:
`Wallet` reads a ledger by the positions of its entries rather than by filtered
sequences, and `Subscriptions.ReversePayment` and `OrderLifecycle.CaptureBlocked` name the
fields they change one by one.

## 6. Where the code and its comments differ

Four have a run that finds the comment's claim violated; `findings` in
`PROJECT.json` quotes the comment.

- **`orders_sent_again`.** The shipment patch (`orderService.js:1573`) decides whether the
  order takes its restocked units back from a shipment read without a lock: an order
  may be sent holding nothing, though `returnedStock.js:32` says the units are reserved
  again.
- **`payments_heard`.** An expiry counts an inquiry that threw as unknown, but not one
  that found the payment and whose event could not be processed
  (`onlinePaymentService.js:520`): the order is cancelled though line 506 says that it
  must never be while its payment might have gone through. The event is processed
  later; the order is then reopened, or marked when its units are gone.
- **`refunds_twice`.** A refund to store credit counts what was refunded and not what is
  pending at the gateway (`storeCreditService.js:68`), so the same money goes back twice;
  `paymentService.js:156` subtracts both.
- **`settlements_changed`.** `remove` and `update` read the settlement without a lock and
  before the transaction that writes (`settlementService.js:205`, `:225`): one confirmed
  in between is removed or rewritten all the same, while its payments stay on the orders,
  though line 233 says that confirming locks it.

Known without a run, each visible in a model:

- A manual retry sets `attempts = 0` (`postgresDriver.js:412`); a first run that still
  executes on the same process then carries the number the next claim gets, and the
  fence (`postgresDriver.js:142`) lets both write. `HolderIsLatestClaim` states what
  holds before a retry.
- `onInterrupted` is called after the update that failed the jobs
  (`postgresDriver.js:243`); a worker that ends in between reports nothing and no later
  sweep will.
- The shipment patch sets a cancelled shipment going again beside the order's new one
  (`orderService.js:1592`): it does not ask `assertNoActiveShipment`
  (`carrierShipmentService.js:196`).
- Reopening uncounts a rejection only when the order was not cancelled besides
  (`orderStageChange.js:110`).
- A follow-up decided on a stage read before the transaction (`orderStageChange.js:211`)
  takes an order confirmed in between back to the call queue (`FollowUp` and `Requeue` of
  `CallDesk` say so, since `assertOrderOpen` refuses only a cancelled or rejected order).
- A repeatable job runs "on one worker at a time" (`queue/index.js:64`). `runSchedule`
  moves `next_run_at` when it claims the turn (`postgresDriver.js:273`), and only its own
  process remembers that the handler still runs: one that outlasts its turn runs beside
  the next turn's, on another worker (`outlasted` in `Schedules`). Of schedules only
  `TurnsAreRun` is checked.
- When the inquiry after a webhook finds the gateway unreachable, "the sweep will ask
  again" (`paymentEventService.js:158`), and the webhook is answered 200. The sweep does
  not ask about a row written after its order was cancelled, which stays *initialized*
  (`inquireStaleAttempts` wants an order that stands, `paymentSweepService.js:48`), nor
  about an ended row more than a day old (`:115`): such a payment is recorded only if
  somebody presses Sync. `PaidIsRecorded` excepts both (`OutOfReach`).
- `settleDue` lists the due orders before any lock; one cancelled or rejected since is
  asked only for its `contact_lock` and pays (`confirmFeeService.js:155`, where line 154
  says such an order is left as it is). `EndedPaysNothing` excepts it.
- A dedupe key is free again once its row is pruned (3 days after completion), so a
  dispatch job retried by hand after that delivers to a consumer a second time.
  `OneJobPerConsumer` states what does hold.
- An answer that was not stored leaves its idempotency key *processing*: the change was
  made once, and every repetition is refused with 409.
- Two `order.returned` jobs that overlap take an order's points back twice, and a late
  `order.delivered` job after the return earns them for good; `PointsTakenBack` excepts
  both. Two refunds of one amount may be taken for each other when the gateway's
  dashboard made one of them; `RefundsAddUp` excepts their rows' outcomes.
- Two edits of a draft at once leave the lines of both under the header of the later one
  (`settlementService.js:214`): neither DELETE sees the other's new lines.
  `SettlementsAddUp` excepts it.
- The next charge is counted from the latest day any paid charge reaches
  (`subscriptionChargeService.js:138`), a period an upgrade replaced included, so a store
  that paid a year, upgrades and pays a month is billed next from the end of that year,
  though `planSwitchRules.js:15` says that the days left of the old period are not
  carried over.
- Reversing a payment recorded by hand leaves its switch's charge pending beside whatever
  is scheduled later; paid again, it may move the store from under the scheduled switch,
  which `applyDue` then drops. `SwitchesFit` excepts it.

## 7. What is left out, and the plan

Inside the modelled parts:

- *Queue*: the control connection's fail-over, statistics.
- *Stock and orders*: `OrderLifecycle` reads the stage of an order and its newest shipment
  in one step (`orderStageChange.js:211` and `:146` are two), recomputes an edit's lines
  from the order rather than from the offers (`orderItemsEdit.js:87`), and keeps one
  payment attempt, so a retry after a payment in another currency is left out. Low-stock
  alerts, deleted variants and offers changed between
  placement and edit; digital, pre-order and bank-transfer orders; prices, notes, bulk
  and export endpoints.
- *Calls*: postponement times (an order postponed from its page is one followed up), the
  assignee (it only narrows who may claim), the wait for
  a funnel's offer, a manager's override, lists and counts.
- *Shipping*: the carriers' protocols, and a booking that stays at the carrier when its
  transaction rolls back.
- *Payments*: amounts and currencies that differ from the order's, test mode, the
  gateways' protocols, manual transfers. The units a late payment finds are a choice in
  `OnlinePayment` and counted in `OrderLifecycle`.
- *Wallet*: the console's corrections and grants, follow-on orders, the plan change of a
  lapsed store, the switch turned off again.
- *Gift cards, credit, points*: the points `onOrderCancelled` takes back
  (`loyaltyService.js:203`) and the earning of an ended order, since an order is cancelled
  or rejected only while nothing of it was shipped (`assertNotShipped`) and earns points
  once it was delivered; issuing, corrections by hand, expiring points, rounding,
  locked cards and frozen programmes.
- *Webhooks*: the staleness of `order.accepted`, orders locked by billing, a secret that
  cannot be read, send-test, retention.
- *Subscriptions*: a failed charge and a status event read the subscription without a
  lock before they write its status (`subscriptionChargeService.js:972`,
  `billingService.js:174`), which is one step here; drafts, trials, free and pay-per-order plans, special terms and manual
  pricing, amounts and online checkouts; referral codes and commissions (two charges paid
  together are both counted as the first, `subscriptionChargeService.js:356`).
- *Settlements*: fees and periods, the parsing of a courier's statement, the lists.

Not modelled, with the reason in `PROJECT.json`. Most of the repository by lines is
rendering, catalogue pages, analytics and reports (reads), configuration, the clients
of outside services and the validation of requests: code without state of its own that
a model checker could order differently. The map therefore covers a small share of all
lines and most of those that write rows under competition. Left to model, in this order:

1. *Sessions*: rotation of refresh tokens by two tabs (`authService.js:515`), reuse,
   revocation, verification codes.
2. *Discounts*: usage limits under competition, as pure operators and a counter.
