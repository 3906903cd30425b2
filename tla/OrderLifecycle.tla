--------------------------- MODULE OrderLifecycle ---------------------------
(***************************************************************************)
(* One store's orders from placement to the parcel's return: the order's   *)
(* three state columns, its confirmation calls, its shipments, its online  *)
(* payment and the stock it holds.                                         *)
(*                                                                         *)
(* Every handler that changes an order locks the order's row first and     *)
(* runs in one transaction, so it is one action.  Two handlers decide on a *)
(* row they read before the lock: the shipment patch reads the shipment    *)
(* without locking it (orderService.updateShipment), the stage change      *)
(* reads the stage before it opens a transaction (orderStageChange).  The  *)
(* read is an action of its own, kept in `pending' until the write.        *)
(*                                                                         *)
(* Abstracted: a status that says the parcel is on the road (picked_up,    *)
(* in_transit, out_for_delivery) is "moving"; unreachable and postponed    *)
(* are "follow_up"; a call lock is the task's status only (who holds it    *)
(* and until when are not kept); an order has one payment attempt; prices, *)
(* fees and messages are left out.  All orders belong to one customer.     *)
(* ORDER_STATUS_GUARDS has its default, off.                               *)
(***************************************************************************)
EXTENDS Integers, Sequences, FiniteSets, FiniteSetsExt

CONSTANTS
  Orders,          \* order identifiers
  Variants,        \* product variants
  Oversell,        \* variants with allowOverselling
  MaxUnits,        \* units of one variant in one order
  MaxOnHand,       \* bound: stockOnHand of one variant
  MaxShipments,    \* bound: shipments of one order
  MaxTasks         \* bound: confirmation tasks of one order

ASSUME OrdersAssumption == IsFiniteSet(Orders)
ASSUME VariantsAssumption == Oversell \subseteq Variants
ASSUME BoundsAssumption ==
  /\ MaxUnits \in Nat \ {0}
  /\ MaxOnHand \in Nat
  /\ MaxShipments \in Nat
  /\ MaxTasks \in Nat

VARIABLES
  order,           \* orders: the columns the handlers read
  shipments,       \* an order's shipments, oldest first
  tasks,           \* the statuses of its confirmation_tasks, oldest first
  lines,           \* units it was placed with (orderStock's `reserved')
  held,            \* units it holds (orderStock's `held')
  restocked,       \* orders with an 'order_returned' stock movement
  onHand,          \* product_variants.stock_on_hand
  reservedStock,   \* product_variants.reserved_stock
  rejections,      \* customers.total_rejected_orders
  pending          \* what a request in flight read of the order, if any

stock == <<lines, held, reservedStock>>
vars == <<order, shipments, tasks, lines, held, restocked,
          onHand, reservedStock, rejections, pending>>

Confirmations == {"pending", "follow_up", "confirmed", "rejected"}
Fulfillments == {"unfulfilled", "partially_fulfilled", "fulfilled", "returned"}
Cancellations == {"no", "merchant", "expired", "blocked"}
Statuses == {"created", "moving", "delivered", "failed", "returned", "cancelled"}

\* carrierShipmentService FINISHED_STATUSES and TERMINAL_STATUSES;
\* shipmentLifecycle SHIPMENT_IN_MOTION.
Finished == {"cancelled", "returned"}
Terminal == {"delivered", "returned", "cancelled"}
InMotion == {"moving", "delivered", "returned"}

Units == [Variants -> 0..MaxUnits]
OrderUnits == {units \in Units : \E v \in Variants : units[v] > 0}
Shipment == [status : Statuses, booked : BOOLEAN, deliveredAt : BOOLEAN]

None == [kind |-> "none"]
Reads ==
  {None}
    \cup [kind : {"patch"}, ship : 1..MaxShipments, seen : Statuses]
    \cup [kind : {"needs_follow_up", "pending_confirmation", "returned"}]

OrderRow ==
  [placed : BOOLEAN, method : {"cod", "card"}, confirmation : Confirmations,
   paid : BOOLEAN, fulfillment : Fulfillments, cancelled : Cancellations,
   expires : {"none", "later", "past"}, attempt : {"none", "started", "captured"}]

TypeOK ==
  /\ order \in [Orders -> OrderRow]
  /\ shipments \in [Orders -> Seq(Shipment)]
  /\ \A o \in Orders : Len(shipments[o]) <= MaxShipments
  /\ tasks \in [Orders -> Seq({"queued", "in_progress", "done"})]
  /\ lines \in [Orders -> Units]
  /\ held \in [Orders -> [Variants -> Int]]
  /\ restocked \subseteq Orders
  /\ onHand \in [Variants -> 0..MaxOnHand]
  /\ reservedStock \in [Variants -> Nat]
  /\ rejections \in Nat
  /\ pending \in [Orders -> Reads]
  /\ \A o \in Orders :
       pending[o].kind = "patch" => pending[o].ship \in DOMAIN shipments[o]

-----------------------------------------------------------------------------
(* Stock: inventoryService and orderStock.                                 *)

Positive(n) == IF n > 0 THEN n ELSE 0

\* Mistaken form: compares with the units on hand, the reserved ones included.
CanReserve_OnHand(need) ==
  \A v \in Variants : need[v] > 0 => v \in Oversell \/ onHand[v] >= need[v]

\* inventoryService.reserve refuses a variant that has not enough available.
CanReserve(need) ==
  \A v \in Variants :
    need[v] > 0 => v \in Oversell \/ onHand[v] - reservedStock[v] >= need[v]

\* Mistaken form: what the order was placed with, whatever it still holds.
Due_HeldForgotten(o) == lines[o]

\* orderStock.dueToReserve: what it was placed with, less what it still holds.
Due(o) == [v \in Variants |-> Positive(lines[o][v] - Positive(held[o][v]))]

\* Reservations for the order: both sides of every stock movement.
Reserve(o, need) ==
  /\ CanReserve(need)
  /\ reservedStock' = [v \in Variants |-> reservedStock[v] + need[v]]
  /\ held' = [held EXCEPT ![o] = [v \in Variants |-> @[v] + need[v]]]

\* Mistaken form: gives back what the order was placed with, not what it holds.
ReleaseHeld_AsPlaced(o) ==
  /\ reservedStock' = [v \in Variants |-> Positive(reservedStock[v] - lines[o][v])]
  /\ held' = [held EXCEPT ![o] = [v \in Variants |-> @[v] - lines[o][v]]]
  /\ UNCHANGED lines

\* Mistaken form: the counter by what it was placed with, the movement by its hold.
ReleaseHeld_CounterAsPlaced(o) ==
  /\ reservedStock' = [v \in Variants |-> Positive(reservedStock[v] - lines[o][v])]
  /\ held' = [held EXCEPT ![o] = [v \in Variants |-> @[v] - Positive(@[v])]]
  /\ UNCHANGED lines

\* orderStock.releaseOrderStock: every positive hold, the counter never
\* below zero (inventoryService.release).
ReleaseHeld(o) ==
  /\ reservedStock' =
       [v \in Variants |-> Positive(reservedStock[v] - Positive(held[o][v]))]
  /\ held' = [held EXCEPT ![o] = [v \in Variants |-> @[v] - Positive(@[v])]]
  /\ UNCHANGED lines

ReserveOrderStock(o) == Reserve(o, Due(o)) /\ UNCHANGED lines

\* returnedStock.retakeForReship: only for an order whose parcel was restocked.
RetakeForReship(o) ==
  IF o \in restocked THEN ReserveOrderStock(o) ELSE UNCHANGED stock

-----------------------------------------------------------------------------
(* Guards the handlers share.                                              *)

\* confirmationService.assertOrderOpen
Open(o) ==
  /\ order[o].placed
  /\ order[o].cancelled = "no"
  /\ order[o].confirmation # "rejected"

\* shipmentLifecycle.assertNotShipped
NotShipped(o) ==
  /\ order[o].fulfillment = "unfulfilled"
  /\ \A i \in DOMAIN shipments[o] : shipments[o][i].status \notin InMotion

\* carrierShipmentService.liveCarrierBooking, assertNoCarrierBooking
LiveBooking(s) == s.booked /\ s.status \in {"created", "failed"}
NoCarrierBooking(o) ==
  \A i \in DOMAIN shipments[o] : ~LiveBooking(shipments[o][i])

\* carrierShipmentService.assertConfirmedOrPaid
ConfirmedOrPaid(o) ==
  /\ Open(o)
  /\ order[o].method = "cod" => order[o].confirmation = "confirmed"
  /\ order[o].method = "card" => order[o].paid

\* carrierShipmentService.assertNoActiveShipment
NoActiveShipment(o) ==
  \A i \in DOMAIN shipments[o] : shipments[o][i].status \in Finished

\* onlinePaymentService.assertAwaiting
AwaitingPayment(o) ==
  /\ order[o].placed
  /\ ~order[o].paid
  /\ order[o].cancelled = "no"
  /\ order[o].method = "card"
  /\ order[o].expires # "past"

\* The newest shipment that was not cancelled (orderStage.latestShipmentJoin).
Live(o) == {i \in DOMAIN shipments[o] : shipments[o][i].status # "cancelled"}
LatestStatus(o) ==
  IF Live(o) = {} THEN "none"
  ELSE shipments[o][CHOOSE i \in Live(o) : \A j \in Live(o) : j <= i].status

\* orderStage.STAGE_SQL: the first case that applies.
Stage(o) ==
  LET latest == LatestStatus(o)
      bare == latest = "none"
  IN IF ~Open(o) THEN "cancelled"
     ELSE IF latest = "moving" THEN "shipped"
     ELSE IF latest = "failed" THEN "delivery_failed"
     ELSE IF latest \in {"returned", "delivered"} THEN latest
     ELSE IF bare /\ order[o].fulfillment = "returned" THEN "returned"
     ELSE IF bare /\ order[o].fulfillment = "fulfilled" THEN "delivered"
     ELSE IF order[o].method = "card" /\ ~order[o].paid THEN "awaiting_payment"
     ELSE IF order[o].confirmation = "follow_up" THEN "needs_follow_up"
     ELSE IF order[o].confirmation = "pending" /\ order[o].method = "cod"
     THEN "pending_confirmation"
     ELSE "ready_to_ship"

-----------------------------------------------------------------------------
(* Confirmation tasks.                                                     *)

OpenTasks(o) == {i \in DOMAIN tasks[o] : tasks[o][i] # "done"}

\* Mistaken form: always a fresh task.
WithOpenTask_Fresh(o, status) == Append(tasks[o], status)

\* The order's tasks once its open task has the status: the newest open one,
\* or a fresh one if it has none (confirmationService.openTaskForOrder).
WithOpenTask(o, status) ==
  IF OpenTasks(o) = {} THEN Append(tasks[o], status)
  ELSE [tasks[o] EXCEPT
          ![CHOOSE i \in OpenTasks(o) : \A j \in OpenTasks(o) : j <= i] = status]

TaskRoom(o) == OpenTasks(o) # {} \/ Len(tasks[o]) < MaxTasks

\* confirmationService.applyOutcome: what an outcome changes besides the task.
Outcomes == {"confirmed", "rejected", "follow_up"}
Decided(outcome) == outcome \in {"confirmed", "rejected"}

AfterOutcome(outcome) == IF Decided(outcome) THEN "done" ELSE "queued"

ApplyOutcome(o, outcome) ==
  /\ order' = [order EXCEPT ![o].confirmation = outcome]
  /\ IF outcome = "rejected"
     THEN ReleaseHeld(o) /\ rejections' = rejections + 1
     ELSE UNCHANGED <<stock, rejections>>

-----------------------------------------------------------------------------
Init ==
  /\ order = [o \in Orders |->
       [placed |-> FALSE, method |-> "cod", confirmation |-> "pending",
        paid |-> FALSE, fulfillment |-> "unfulfilled", cancelled |-> "no",
        expires |-> "none", attempt |-> "none"]]
  /\ shipments = [o \in Orders |-> <<>>]
  /\ tasks = [o \in Orders |-> <<>>]
  /\ lines = [o \in Orders |-> [v \in Variants |-> 0]]
  /\ held = [o \in Orders |-> [v \in Variants |-> 0]]
  /\ restocked = {}
  /\ onHand = [v \in Variants |-> MaxOnHand]
  /\ reservedStock = [v \in Variants |-> 0]
  /\ rejections = 0
  /\ pending = [o \in Orders |-> None]

\* orderService.createOrder: the stock of every line, the row, and for a COD
\* order its confirmation task.
PlaceOrder(o, method, units) ==
  /\ ~order[o].placed
  /\ Reserve(o, units)
  /\ lines' = [lines EXCEPT ![o] = units]
  /\ order' = [order EXCEPT ![o].placed = TRUE, ![o].method = method,
                            ![o].expires = IF method = "card" THEN "later" ELSE "none"]
  /\ method = "cod" => MaxTasks > 0
  /\ tasks' = [tasks EXCEPT ![o] = IF method = "cod" THEN <<"queued">> ELSE <<>>]
  /\ UNCHANGED <<shipments, restocked, onHand, rejections, pending>>

\* orderItemsEdit.apply; an upsell joined to the order (addLineToOpenOrder)
\* is the case that only adds.
EditItems(o, units) ==
  /\ Open(o)
  /\ NotShipped(o)
  /\ NoCarrierBooking(o)
  /\ ~order[o].paid
  /\ units # lines[o]
  /\ CanReserve([v \in Variants |-> units[v] - lines[o][v]])
  /\ reservedStock' =
       [v \in Variants |-> Positive(reservedStock[v] + units[v] - lines[o][v])]
  /\ held' = [held EXCEPT ![o] = [v \in Variants |-> @[v] + units[v] - lines[o][v]]]
  /\ lines' = [lines EXCEPT ![o] = units]
  /\ UNCHANGED <<order, shipments, tasks, restocked, onHand, rejections, pending>>

-----------------------------------------------------------------------------
(* The call queue: confirmationService.                                    *)

ClaimTask(o, i) ==
  /\ tasks[o][i] = "queued"
  /\ tasks' = [tasks EXCEPT ![o][i] = "in_progress"]
  /\ UNCHANGED <<order, shipments, stock, restocked, onHand, rejections, pending>>

\* releaseTask by its holder or a manager, or releaseExpiredLocks.
ReleaseTask(o, i) ==
  /\ tasks[o][i] = "in_progress"
  /\ tasks' = [tasks EXCEPT ![o][i] = "queued"]
  /\ UNCHANGED <<order, shipments, stock, restocked, onHand, rejections, pending>>

\* recordOutcome: the agent who claimed the task.  Whether the parcel has
\* left is not asked.
RecordOutcome(o, i, outcome) ==
  /\ tasks[o][i] = "in_progress"
  /\ Open(o)
  /\ ApplyOutcome(o, outcome)
  /\ tasks' = [tasks EXCEPT ![o][i] = AfterOutcome(outcome)]
  /\ UNCHANGED <<shipments, restocked, onHand, pending>>

ConfirmFromOrder(o) ==
  /\ Open(o)
  /\ order[o].method = "cod"
  /\ order[o].confirmation # "confirmed"
  /\ TaskRoom(o)
  /\ ApplyOutcome(o, "confirmed")
  /\ tasks' = [tasks EXCEPT ![o] = WithOpenTask(o, "done")]
  /\ UNCHANGED <<shipments, restocked, onHand, pending>>

\* A shipment that cancelling the order, or rejecting it, cancels with it
\* (cancelCarrierShipmentsForOrder, then every one still 'created').
CancelsWithOrder(s) == LiveBooking(s) \/ s.status = "created"
CancelUncollected(o) ==
  shipments' = [shipments EXCEPT ![o] =
    [i \in DOMAIN @ |->
       IF CancelsWithOrder(@[i]) THEN [@[i] EXCEPT !.status = "cancelled"] ELSE @[i]]]

\* correctOutcome: only between confirmed and rejected, while nothing shipped.
CorrectToRejected(o) ==
  /\ \E i \in DOMAIN tasks[o] : tasks[o][i] = "done"
  /\ order[o].cancelled = "no"
  /\ order[o].confirmation = "confirmed"
  /\ NotShipped(o)
  /\ CancelUncollected(o)
  /\ ReleaseHeld(o)
  /\ rejections' = rejections + 1
  /\ order' = [order EXCEPT ![o].confirmation = "rejected"]
  /\ UNCHANGED <<tasks, restocked, onHand, pending>>

CorrectToConfirmed(o) ==
  /\ \E i \in DOMAIN tasks[o] : tasks[o][i] = "done"
  /\ order[o].cancelled = "no"
  /\ order[o].confirmation = "rejected"
  /\ NotShipped(o)
  /\ ReserveOrderStock(o)
  /\ rejections' = Positive(rejections - 1)
  /\ order' = [order EXCEPT ![o].confirmation = "confirmed"]
  /\ UNCHANGED <<shipments, tasks, restocked, onHand, pending>>

-----------------------------------------------------------------------------
(* orderStageChange and orderService.cancelOrder.                          *)

\* changeStage reads the stage, and which moves it allows, before the
\* handler's transaction.  Kept for the moves whose handler does not ask
\* again: followUp, backToQueue and the bare setFulfillmentState.
ReadStage(o) ==
  /\ order[o].placed
  /\ pending[o] = None
  /\ \E to \in {"needs_follow_up", "pending_confirmation", "returned"} :
       /\ CASE to = "needs_follow_up" -> Stage(o) = "pending_confirmation"
            [] to = "pending_confirmation" -> Stage(o) = "needs_follow_up"
            [] to = "returned" -> Stage(o) = "delivered" /\ Live(o) = {}
       /\ pending' = [pending EXCEPT ![o] = [kind |-> to]]
  /\ UNCHANGED <<order, shipments, tasks, stock, restocked, onHand, rejections>>

FollowUp(o) ==
  /\ pending[o].kind = "needs_follow_up"
  /\ Open(o)
  /\ TaskRoom(o)
  /\ ApplyOutcome(o, "follow_up")
  /\ tasks' = [tasks EXCEPT ![o] = WithOpenTask(o, AfterOutcome("follow_up"))]
  /\ pending' = [pending EXCEPT ![o] = None]
  /\ UNCHANGED <<shipments, restocked, onHand>>

\* The open task keeps its status; a fresh one is queued.
BackToQueue(o) ==
  /\ pending[o].kind = "pending_confirmation"
  /\ Open(o)
  /\ TaskRoom(o)
  /\ tasks' = [tasks EXCEPT ![o] =
                 IF OpenTasks(o) = {} THEN Append(@, "queued") ELSE @]
  /\ order' = [order EXCEPT ![o].confirmation = "pending"]
  /\ pending' = [pending EXCEPT ![o] = None]
  /\ UNCHANGED <<shipments, stock, restocked, onHand, rejections>>

MarkReturned(o) ==
  /\ pending[o].kind = "returned"
  /\ order' = [order EXCEPT ![o].fulfillment = "returned"]
  /\ pending' = [pending EXCEPT ![o] = None]
  /\ UNCHANGED <<shipments, tasks, stock, restocked, onHand, rejections>>

CancelOrder(o) ==
  /\ order[o].placed
  /\ order[o].cancelled = "no"
  /\ NotShipped(o)
  /\ ReleaseHeld(o)
  /\ CancelUncollected(o)
  /\ tasks' = [tasks EXCEPT ![o] = [i \in DOMAIN @ |-> "done"]]
  /\ order' = [order EXCEPT ![o].cancelled = "merchant",
                            ![o].confirmation = "rejected"]
  /\ UNCHANGED <<restocked, onHand, rejections, pending>>

\* Mistaken form: reopening uncounts a rejection whoever cancelled the order.
Uncounted_Always(o) == rejections - 1

\* Uncounts a rejection only when the order was not cancelled besides.
Uncounted(o) ==
  IF order[o].cancelled = "no" THEN Positive(rejections - 1) ELSE rejections

Reopen(o) ==
  /\ order[o].placed
  /\ ~Open(o)
  /\ ReserveOrderStock(o)
  /\ rejections' = Uncounted(o)
  /\ order' = [order EXCEPT ![o].cancelled = "no", ![o].confirmation = "pending"]
  /\ order[o].method = "cod" => TaskRoom(o)
  /\ tasks' = [tasks EXCEPT ![o] =
                 IF order[o].method = "cod" /\ OpenTasks(o) = {}
                 THEN Append(@, "queued") ELSE @]
  /\ UNCHANGED <<shipments, restocked, onHand, pending>>

-----------------------------------------------------------------------------
(* Shipments: createShipment and moveShipment (a manual one),              *)
(* createCarrierShipment (a booked one), updateShipment, applyCarrierStatus *)
(* and manualTracking.apply.                                               *)

CreateShipment(o, booked) ==
  /\ ConfirmedOrPaid(o)
  /\ NoActiveShipment(o)
  /\ Len(shipments[o]) < MaxShipments
  /\ RetakeForReship(o)
  /\ shipments' = [shipments EXCEPT ![o] =
       Append(@, [status |-> "created", booked |-> booked, deliveredAt |-> FALSE])]
  /\ UNCHANGED <<order, tasks, restocked, onHand, rejections, pending>>

\* shipmentLifecycle.SHIPMENT_FULFILLMENT
FulfillmentAfter(status, before) ==
  CASE status = "moving" -> "partially_fulfilled"
    [] status = "delivered" -> "fulfilled"
    [] status = "returned" -> "returned"
    [] OTHER -> before

\* shipmentLifecycle.transitionShipment, for a shipment whose status was read
\* as `seen': the status is written only if it differs from what was read.
Transition(o, i, seen, to) ==
  /\ shipments' = [shipments EXCEPT
       ![o][i].status = IF to = seen THEN @ ELSE to,
       ![o][i].deliveredAt = @ \/ to = "delivered"]
  /\ order' = [order EXCEPT
       ![o].fulfillment = FulfillmentAfter(to, @)]

ReadShipment(o, i) ==
  /\ pending[o] = None
  /\ pending' = [pending EXCEPT ![o] =
       [kind |-> "patch", ship |-> i, seen |-> shipments[o][i].status]]
  /\ UNCHANGED <<order, shipments, tasks, stock, restocked, onHand, rejections>>

\* A finished shipment set going again takes the order's units back first.
\* Neither the order's state nor its other shipments are asked.
Restarts(seen, to) == seen \in Finished /\ to \notin Finished

PatchShipment(o, to) ==
  LET read == pending[o] IN
  /\ read.kind = "patch"
  /\ IF Restarts(read.seen, to) THEN RetakeForReship(o) ELSE UNCHANGED stock
  /\ Transition(o, read.ship, read.seen, to)
  /\ pending' = [pending EXCEPT ![o] = None]
  /\ UNCHANGED <<tasks, restocked, onHand, rejections>>

\* The request is refused (the order is no longer open, the courier refuses
\* the cancel, the units are sold) or its process ends: nothing is written.
DropRequest(o) ==
  /\ pending[o] # None
  /\ pending' = [pending EXCEPT ![o] = None]
  /\ UNCHANGED <<order, shipments, tasks, stock, restocked, onHand, rejections>>

\* carrierShipmentService.decide; a tracked manual waybill never goes back
\* (manualTracking.step).
CarrierMoves(s, to) ==
  /\ to # s.status
  /\ s.status \in Terminal => s.status = "delivered" /\ to = "returned"
  /\ ~s.booked => to \notin {"created", "cancelled"}

CarrierReport(o, i, to) ==
  /\ CarrierMoves(shipments[o][i], to)
  /\ Transition(o, i, shipments[o][i].status, to)
  /\ UNCHANGED <<tasks, stock, restocked, onHand, rejections, pending>>

\* returnedStock.restock.  An order once in stage "delivered" has the stamp.
RestockReturned(o) ==
  /\ order[o].fulfillment = "returned"
  /\ \A i \in DOMAIN shipments[o] :
       shipments[o][i].status \in Finished /\ ~shipments[o][i].deliveredAt
  /\ \E v \in Variants : held[o][v] > 0
  /\ ReleaseHeld(o)
  /\ restocked' = restocked \cup {o}
  /\ UNCHANGED <<order, shipments, tasks, onHand, rejections, pending>>

-----------------------------------------------------------------------------
(* The online payment: onlinePaymentService.                               *)

\* startAttempt after the checkout (nothing is asked again), and retry.
StartAttempt(o) ==
  /\ order[o].placed
  /\ order[o].method = "card"
  /\ order[o].attempt = "none"
  /\ order' = [order EXCEPT ![o].attempt = "started"]
  /\ UNCHANGED <<shipments, tasks, stock, restocked, onHand, rejections, pending>>

RetryPayment(o) ==
  /\ AwaitingPayment(o)
  /\ order[o].attempt # "captured"
  /\ order' = [order EXCEPT ![o].attempt = "started", ![o].expires = "later"]
  /\ UNCHANGED <<shipments, tasks, stock, restocked, onHand, rejections, pending>>

TimeRunsOut(o) ==
  /\ order[o].expires = "later"
  /\ order' = [order EXCEPT ![o].expires = "past"]
  /\ UNCHANGED <<shipments, tasks, stock, restocked, onHand, rejections, pending>>

ExpireOrder(o) ==
  /\ order[o].method = "card"
  /\ ~order[o].paid
  /\ order[o].cancelled = "no"
  /\ order[o].expires = "past"
  /\ ReleaseHeld(o)
  /\ order' = [order EXCEPT ![o].cancelled = "expired"]
  /\ UNCHANGED <<shipments, tasks, restocked, onHand, rejections, pending>>

SwitchToCod(o) ==
  /\ AwaitingPayment(o)
  /\ Len(tasks[o]) < MaxTasks
  /\ order' = [order EXCEPT ![o].method = "cod", ![o].expires = "none"]
  /\ tasks' = [tasks EXCEPT ![o] = Append(@, "queued")]
  /\ UNCHANGED <<shipments, stock, restocked, onHand, rejections, pending>>

\* recordPaymentTransaction of a captured payment.  `counts': it is in the
\* order's currency, so it pays the order.
Captured(o, counts) ==
  [order[o] EXCEPT !.attempt = "captured", !.paid = @ \/ counts]

CapturableAttempt(o) == order[o].placed /\ order[o].attempt = "started"
BecomesSale(o) ==
  order[o].method = "card" /\ order[o].cancelled \in {"no", "expired"}

\* The customer is on the platform blocklist: recorded, and the order ends.
CaptureBlocked(o, counts) ==
  /\ CapturableAttempt(o)
  /\ BecomesSale(o)
  /\ IF order[o].cancelled = "no" THEN ReleaseHeld(o) ELSE UNCHANGED stock
  /\ order' = [order EXCEPT ![o] = [Captured(o, counts) EXCEPT
       !.cancelled = "blocked",
       !.expires = IF order[o].cancelled = "no" THEN "none" ELSE order[o].expires]]
  /\ UNCHANGED <<shipments, tasks, restocked, onHand, rejections, pending>>

\* An expired order comes back if its stock does, all of it or none.
CaptureReopens(o, counts) ==
  /\ CapturableAttempt(o)
  /\ order[o].cancelled = "expired"
  /\ ReserveOrderStock(o)
  /\ order' = [order EXCEPT ![o] = [Captured(o, counts) EXCEPT
       !.cancelled = "no", !.expires = "none"]]
  /\ UNCHANGED <<shipments, tasks, restocked, onHand, rejections, pending>>

\* Any other cancelled order stays cancelled, for the merchant to refund.
CaptureFlagged(o, counts) ==
  /\ CapturableAttempt(o)
  /\ order[o].cancelled # "no"
  /\ order[o].cancelled = "expired" => ~CanReserve(Due(o))
  /\ order' = [order EXCEPT ![o] = Captured(o, counts)]
  /\ UNCHANGED <<shipments, tasks, stock, restocked, onHand, rejections, pending>>

CaptureStanding(o, counts) ==
  /\ CapturableAttempt(o)
  /\ order[o].cancelled = "no"
  /\ order' = [order EXCEPT ![o] = [Captured(o, counts) EXCEPT !.expires = "none"]]
  /\ UNCHANGED <<shipments, tasks, stock, restocked, onHand, rejections, pending>>

-----------------------------------------------------------------------------
\* inventoryService.restock and adjustStock: any count, never below zero.
SetStock(v, count) ==
  /\ count # onHand[v]
  /\ onHand' = [onHand EXCEPT ![v] = count]
  /\ UNCHANGED <<order, shipments, tasks, stock, restocked, rejections, pending>>

TaskStep(o) ==
  \/ \E i \in DOMAIN tasks[o] :
       \/ ClaimTask(o, i)
       \/ ReleaseTask(o, i)
       \/ \E outcome \in Outcomes : RecordOutcome(o, i, outcome)
  \/ ConfirmFromOrder(o)
  \/ CorrectToRejected(o)
  \/ CorrectToConfirmed(o)

StageStep(o) ==
  \/ ReadStage(o)
  \/ FollowUp(o)
  \/ BackToQueue(o)
  \/ MarkReturned(o)
  \/ CancelOrder(o)
  \/ Reopen(o)

ShipmentStep(o) ==
  \/ \E booked \in BOOLEAN : CreateShipment(o, booked)
  \/ \E i \in DOMAIN shipments[o] :
       \/ ReadShipment(o, i)
       \/ \E to \in Statuses : CarrierReport(o, i, to)
  \/ \E to \in Statuses : PatchShipment(o, to)
  \/ DropRequest(o)
  \/ RestockReturned(o)

PaymentStep(o) ==
  \/ StartAttempt(o)
  \/ RetryPayment(o)
  \/ TimeRunsOut(o)
  \/ ExpireOrder(o)
  \/ SwitchToCod(o)
  \/ \E counts \in BOOLEAN :
       \/ CaptureBlocked(o, counts)
       \/ CaptureReopens(o, counts)
       \/ CaptureFlagged(o, counts)
       \/ CaptureStanding(o, counts)

OrderStep(o) ==
  \/ \E units \in OrderUnits :
       \/ \E method \in {"cod", "card"} : PlaceOrder(o, method, units)
       \/ EditItems(o, units)
  \/ TaskStep(o)
  \/ StageStep(o)
  \/ ShipmentStep(o)
  \/ PaymentStep(o)

Next ==
  \/ \E o \in Orders : OrderStep(o)
  \/ \E v \in Variants, count \in 0..MaxOnHand : SetStock(v, count)

Spec == Init /\ [][Next]_vars

-----------------------------------------------------------------------------
(* Properties.                                                             *)

\* Whatever way an order ends or comes back (a call's rejection, a correction,
\* a cancellation, an expiry, a blocked customer, a late payment, a reopening),
\* and however often, it holds exactly the units it was placed with while it is
\* open and none otherwise.
NoUnits == [v \in Variants |-> 0]
HoldsFollowOrder ==
  \A o \in Orders \ restocked :
    held[o] = IF Open(o) THEN lines[o] ELSE NoUnits

\* Once its returned parcel was put back on the shelf, an order holds every unit
\* it was placed with or none, however often it is booked, cancelled and booked
\* again: nothing is taken twice for the same order.
RestockedAllOrNone ==
  \A o \in restocked : held[o] \in {NoUnits, lines[o]}

\* No step reserves units the store does not have, however many orders and
\* handlers take from the same variant.
NeverOversold ==
  [][\A v \in Variants \ Oversell :
       reservedStock'[v] > reservedStock[v] => reservedStock'[v] <= onHand[v]]_vars

\* The variant's reserved counter, kept by increments and decrements that stop
\* at zero, is the sum of what the orders hold by their stock movements.
StockAgrees ==
  \A v \in Variants :
    reservedStock[v] = MapThenSumSet(LAMBDA o : held[o][v], Orders)

\* An order has at most one open confirmation task, and only while it waits for
\* a decision: a call never works an order decided, cancelled or not COD.
Undecided(o) == Open(o) /\ order[o].confirmation \in {"pending", "follow_up"}
OneCallAtATime ==
  \A o \in Orders :
    /\ \A i, j \in OpenTasks(o) : i = j
    /\ OpenTasks(o) # {} => Undecided(o) /\ order[o].method = "cod"

\* A COD order that waits for a decision is in the call queue: however it came
\* there (checkout, a switch from card, a reopening, a follow-up), someone will
\* be shown it.
NoOrderForgotten ==
  \A o \in Orders :
    Undecided(o) /\ order[o].method = "cod" => OpenTasks(o) # {}

\* Both: the call queue is what the orders say it is.
CallsFollowOrder == OneCallAtATime /\ NoOrderForgotten

\* Every order that stands rejected on a call is still counted against its
\* customer: no correction and no reopening uncounts a rejection of another.
RejectedOnCall == {o \in Orders : order[o].confirmation = "rejected" /\ order[o].cancelled = "no"}
RejectionsCounted == Cardinality(RejectedOnCall) <= rejections

-----------------------------------------------------------------------------
(* What a comment of the source says, which the code does not do.          *)

\* returnedStock.js:32: an order whose returned parcel was restocked reserves
\* its units again when it is sent again.
SentAgainHoldsUnits ==
  \A o \in Orders :
    Open(o) /\ (\E i \in DOMAIN shipments[o] : shipments[o][i].status = "moving")
      => held[o] = lines[o]
=============================================================================
