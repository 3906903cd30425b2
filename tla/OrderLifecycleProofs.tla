------------------------ MODULE OrderLifecycleProofs ------------------------
(***************************************************************************)
(* Theorems about OrderLifecycle, for any orders, variants, bounds and     *)
(* choice of variants that oversell.                                       *)
(***************************************************************************)
EXTENDS OrderLifecycle, Sums, TLAPS

-----------------------------------------------------------------------------
(* The stock counters.                                                     *)

\* What TypeOK says of one order's units of one variant.
LEMMA StockValues ==
    ASSUME TypeOK, NEW o \in Orders, NEW v \in Variants
    PROVE  /\ lines[o][v] \in Nat
           /\ held[o][v] \in Int
           /\ reservedStock[v] \in Nat
<1>1. lines[o] \in [Variants -> 0..MaxUnits] /\ held[o] \in [Variants -> Int]
  BY DEF TypeOK, Units
<1>2. QED
  BY <1>1, BoundsAssumption DEF TypeOK

\* What an order is due is never negative.
LEMMA DueIsNat ==
    ASSUME TypeOK, NEW o \in Orders
    PROVE  Due(o) \in [Variants -> Nat]
<1>1. ASSUME NEW v \in Variants
      PROVE  Positive(lines[o][v] - Positive(held[o][v])) \in Nat
  BY StockValues DEF Positive
<1>2. QED
  BY <1>1 DEF Due

\* The three stock variables keep their types, and only the order's own units
\* change: what every action on one order does to the stock.
StockOnlyOf(o) ==
  /\ lines' = lines
  /\ held' \in [Orders -> [Variants -> Int]]
  /\ \A p \in Orders \ {o} : held'[p] = held[p]
  /\ reservedStock' \in [Variants -> Nat]

\* A step that leaves the stock alone.
LEMMA StockUntouched ==
    ASSUME TypeOK, NEW o \in Orders, UNCHANGED stock
    PROVE  StockOnlyOf(o) /\ held' = held
  BY DEF TypeOK, stock, StockOnlyOf

\* What a reservation adds to the order's units.
LEMMA ReserveTakes ==
    ASSUME TypeOK, NEW o \in Orders, NEW need \in [Variants -> Nat], Reserve(o, need)
    PROVE  /\ held' \in [Orders -> [Variants -> Int]]
           /\ \A p \in Orders \ {o} : held'[p] = held[p]
           /\ held'[o] = [v \in Variants |-> held[o][v] + need[v]]
           /\ reservedStock' \in [Variants -> Nat]
<1>1. \A v \in Variants : held[o][v] + need[v] \in Int /\ reservedStock[v] + need[v] \in Nat
  BY StockValues
<1>2. [v \in Variants |-> held[o][v] + need[v]] \in [Variants -> Int]
  BY <1>1
<1>3. held' = [held EXCEPT ![o] = [v \in Variants |-> held[o][v] + need[v]]]
  BY DEF Reserve, TypeOK
<1>4. reservedStock' \in [Variants -> Nat]
  BY <1>1 DEF Reserve
<1>5. QED
  BY <1>2, <1>3, <1>4 DEF TypeOK

\* An order that holds all of its units or none holds all of them once what it
\* is due is reserved ...
LEMMA ReservingRestoresAll ==
    ASSUME TypeOK, NEW o \in Orders, ReserveOrderStock(o)
    PROVE  /\ StockOnlyOf(o)
           /\ held[o] \in {NoUnits, lines[o]} => held'[o] = lines[o]
<1>1. Reserve(o, Due(o)) /\ lines' = lines
  BY DEF ReserveOrderStock
<1>2. /\ held' \in [Orders -> [Variants -> Int]]
      /\ \A p \in Orders \ {o} : held'[p] = held[p]
      /\ held'[o] = [v \in Variants |-> held[o][v] + Due(o)[v]]
      /\ reservedStock' \in [Variants -> Nat]
  BY <1>1, DueIsNat, ReserveTakes
<1>3. ASSUME held[o] \in {NoUnits, lines[o]} PROVE held'[o] = lines[o]
  <2>1. ASSUME NEW v \in Variants PROVE held[o][v] + Due(o)[v] = lines[o][v]
    BY <1>3, StockValues DEF NoUnits, Due, Positive
  <2>2. lines[o] \in [Variants -> 0..MaxUnits]
    BY DEF TypeOK, Units
  <2>3. QED
    BY <1>2, <2>1, <2>2
<1>4. QED
  BY <1>1, <1>2, <1>3 DEF StockOnlyOf

\* ... and none of them once its holds are given back.
LEMMA ReleasingLeavesNone ==
    ASSUME TypeOK, NEW o \in Orders, ReleaseHeld(o)
    PROVE  /\ StockOnlyOf(o)
           /\ held[o] \in {NoUnits, lines[o]} => held'[o] = NoUnits
<1> DEFINE left == [v \in Variants |-> held[o][v] - Positive(held[o][v])]
<1>1. \A v \in Variants :
        /\ left[v] \in Int
        /\ Positive(reservedStock[v] - Positive(held[o][v])) \in Nat
  BY StockValues DEF Positive
<1>2. held' = [held EXCEPT ![o] = left] /\ lines' = lines
  BY DEF ReleaseHeld, TypeOK
<1>3. reservedStock' \in [Variants -> Nat]
  BY <1>1 DEF ReleaseHeld
<1>4. StockOnlyOf(o) /\ held'[o] = left
  BY <1>1, <1>2, <1>3 DEF TypeOK, StockOnlyOf
<1>5. ASSUME held[o] \in {NoUnits, lines[o]} PROVE left = NoUnits
  <2>1. ASSUME NEW v \in Variants PROVE left[v] = 0
    BY <1>5, StockValues DEF NoUnits, Positive
  <2>2. QED
    BY <2>1 DEF NoUnits
<1>6. QED
  BY <1>4, <1>5

\* Taking the units back for a parcel sent again keeps an order all or none.
LEMMA RetakingKeeps ==
    ASSUME TypeOK, NEW o \in Orders, RetakeForReship(o)
    PROVE  /\ StockOnlyOf(o)
           /\ o \notin restocked => held' = held
           /\ held[o] \in {NoUnits, lines[o]} => held'[o] \in {NoUnits, lines[o]}
<1>1. CASE o \in restocked
  BY <1>1, ReservingRestoresAll DEF RetakeForReship
<1>2. CASE o \notin restocked
  BY <1>2, StockUntouched DEF RetakeForReship
<1>3. QED
  BY <1>1, <1>2
-----------------------------------------------------------------------------
(* Tasks and shipments.                                                    *)

\* Rewriting one element of a sequence keeps its type and its length.
LEMMA SeqElementChanged ==
    ASSUME NEW S, NEW s \in Seq(S), NEW i, NEW x \in S
    PROVE  /\ [s EXCEPT ![i] = x] \in Seq(S)
           /\ Len([s EXCEPT ![i] = x]) = Len(s)
<1> DEFINE t == [s EXCEPT ![i] = x]
<1>1. DOMAIN t = 1..Len(s) /\ Len(s) \in Nat
  OBVIOUS
<1>2. \A k \in 1..Len(s) : t[k] \in S
  OBVIOUS
<1>3. t \in [1..Len(s) -> S]
  BY <1>1, <1>2
<1>4. QED
  BY <1>1, <1>3

\* So does replacing every element.
LEMMA SeqElementsReplaced ==
    ASSUME NEW S, NEW T, NEW s \in Seq(T), NEW f \in [DOMAIN s -> S]
    PROVE  f \in Seq(S) /\ Len(f) = Len(s) /\ DOMAIN f = DOMAIN s
<1>1. DOMAIN s = 1..Len(s) /\ Len(s) \in Nat
  OBVIOUS
<1>2. QED
  BY <1>1

TaskStatuses == {"queued", "in_progress", "done"}

\* The statuses of one order's tasks, and of the sequences made from them.
LEMMA TasksOf ==
    ASSUME TypeOK, NEW o \in Orders
    PROVE  /\ tasks[o] \in Seq(TaskStatuses)
           /\ \A i \in DOMAIN tasks[o] : tasks[o][i] \in TaskStatuses
           /\ \A s \in TaskStatuses : Append(tasks[o], s) \in Seq(TaskStatuses)
           /\ \A i, s : s \in TaskStatuses => [tasks[o] EXCEPT ![i] = s] \in Seq(TaskStatuses)
<1>1. tasks[o] \in Seq(TaskStatuses)
  BY DEF TypeOK, TaskStatuses
<1>2. QED
  BY <1>1, SeqElementChanged

\* The open task, or the fresh one, has the status asked for.
LEMMA OpenTaskTyped ==
    ASSUME TypeOK, NEW o \in Orders, NEW s \in TaskStatuses
    PROVE  WithOpenTask(o, s) \in Seq(TaskStatuses)
  BY TasksOf DEF WithOpenTask

\* Only the order's own shipments change, and none disappears: what every
\* action on one order does to the shipments, short of adding one.
ShipmentsOnlyOf(o) ==
  /\ shipments' \in [Orders -> Seq(Shipment)]
  /\ \A p \in Orders : Len(shipments'[p]) = Len(shipments[p])
  /\ \A p \in Orders \ {o} : shipments'[p] = shipments[p]

\* Cancelling the uncollected shipments changes no other order's, and drops none.
LEMMA CancellingShipments ==
    ASSUME TypeOK, NEW o \in Orders, CancelUncollected(o)
    PROVE  ShipmentsOnlyOf(o)
<1> DEFINE s == shipments[o]
           f == [i \in DOMAIN s |->
                  IF CancelsWithOrder(s[i]) THEN [s[i] EXCEPT !.status = "cancelled"] ELSE s[i]]
<1>1. s \in Seq(Shipment)
  BY DEF TypeOK
<1>2. \A i \in DOMAIN s : s[i] \in Shipment
  BY <1>1
<1>3. f \in [DOMAIN s -> Shipment]
  BY <1>2 DEF Shipment, Statuses
<1>4. f \in Seq(Shipment) /\ Len(f) = Len(s)
  BY <1>1, <1>3, SeqElementsReplaced
<1>5. shipments' = [shipments EXCEPT ![o] = f]
  BY DEF CancelUncollected, TypeOK
<1>6. QED
  BY <1>4, <1>5 DEF TypeOK, ShipmentsOnlyOf

\* A shipment with its status and delivery stamp rewritten is a shipment.
LEMMA ShipmentChanged ==
    ASSUME NEW s \in Shipment, NEW status \in Statuses, NEW delivered \in BOOLEAN
    PROVE  [s EXCEPT !.status = status, !.deliveredAt = delivered] \in Shipment
  BY DEF Shipment

\* A transition changes one shipment and the order's fulfillment column, which
\* leaves "unfulfilled" for good.
LEMMA TransitionChanges ==
    ASSUME TypeOK, NEW o \in Orders, NEW i \in DOMAIN shipments[o], NEW seen,
           NEW to \in Statuses, Transition(o, i, seen, to)
    PROVE  /\ ShipmentsOnlyOf(o)
           /\ \E f \in Fulfillments :
                /\ order' = [order EXCEPT ![o].fulfillment = f]
                /\ order[o].fulfillment # "unfulfilled" => f # "unfulfilled"
<1> DEFINE s == shipments[o]
           x == [s[i] EXCEPT !.status = IF to = seen THEN @ ELSE to,
                             !.deliveredAt = @ \/ to = "delivered"]
           f == FulfillmentAfter(to, order[o].fulfillment)
<1>1. s \in Seq(Shipment) /\ s[i] \in Shipment
  BY DEF TypeOK
<1>2. x \in Shipment
  <2>1. (IF to = seen THEN s[i].status ELSE to) \in Statuses
    BY <1>1 DEF Shipment
  <2>2. (s[i].deliveredAt \/ to = "delivered") \in BOOLEAN
    OBVIOUS
  <2>3. QED
    BY <1>1, <2>1, <2>2, ShipmentChanged, Zenon
<1>3. shipments' = [shipments EXCEPT ![o] = [s EXCEPT ![i] = x]]
  BY <1>1, Zenon DEF Transition, TypeOK
<1>4. [s EXCEPT ![i] = x] \in Seq(Shipment) /\ Len([s EXCEPT ![i] = x]) = Len(s)
  BY <1>1, <1>2, SeqElementChanged
<1>5. ShipmentsOnlyOf(o)
  BY <1>3, <1>4 DEF TypeOK, ShipmentsOnlyOf
<1>6. order[o].fulfillment \in Fulfillments
  BY DEF TypeOK, OrderRow
<1>7. f \in Fulfillments /\ (order[o].fulfillment # "unfulfilled" => f # "unfulfilled")
  BY <1>6 DEF FulfillmentAfter, Fulfillments
<1>8. order' = [order EXCEPT ![o].fulfillment = f]
  BY DEF Transition, TypeOK
<1>9. QED
  BY <1>5, <1>7, <1>8
-----------------------------------------------------------------------------
(* A step on one order keeps the types and leaves every other order alone. *)

SameAt(p) ==
  /\ order'[p] = order[p]
  /\ shipments'[p] = shipments[p]
  /\ tasks'[p] = tasks[p]
  /\ lines'[p] = lines[p]
  /\ held'[p] = held[p]
  /\ pending'[p] = pending[p]
  /\ p \in restocked' <=> p \in restocked

OrderOnlyOf(o) ==
  /\ order' \in [Orders -> OrderRow]
  /\ \A p \in Orders \ {o} : order'[p] = order[p]

TasksOnlyOf(o) ==
  /\ tasks' \in [Orders -> Seq(TaskStatuses)]
  /\ \A p \in Orders \ {o} : tasks'[p] = tasks[p]

PendingOnlyOf(o) ==
  /\ pending' \in [Orders -> Reads]
  /\ \A p \in Orders \ {o} : pending'[p] = pending[p]
  /\ pending'[o].kind = "patch" => pending'[o].ship \in DOMAIN shipments[o]

Local(o) ==
  /\ TypeOK'
  /\ \A p \in Orders \ {o} : SameAt(p)

\* A step is local when each of its parts is.
LEMMA LocalFromParts ==
    ASSUME TypeOK, NEW o \in Orders, OrderOnlyOf(o), ShipmentsOnlyOf(o),
           TasksOnlyOf(o), StockOnlyOf(o), PendingOnlyOf(o),
           restocked' \in {restocked, restocked \cup {o}},
           onHand' = onHand, rejections' \in Nat
    PROVE  Local(o)
<1>1. \A p \in Orders : SameAt(p) \/ p = o
  BY DEF OrderOnlyOf, ShipmentsOnlyOf, TasksOnlyOf, StockOnlyOf, PendingOnlyOf, SameAt
<1>2. \A p \in Orders :
        /\ Len(shipments'[p]) <= MaxShipments
        /\ DOMAIN shipments'[p] = DOMAIN shipments[p]
  BY DEF TypeOK, ShipmentsOnlyOf
<1>3. \A p \in Orders :
        pending'[p].kind = "patch" => pending'[p].ship \in DOMAIN shipments'[p]
  BY <1>2 DEF TypeOK, PendingOnlyOf
<1>4. TypeOK'
  BY <1>2, <1>3 DEF TypeOK, OrderOnlyOf, ShipmentsOnlyOf, TasksOnlyOf, StockOnlyOf,
                    PendingOnlyOf, TaskStatuses
<1>5. QED
  BY <1>1, <1>4 DEF Local

\* A part that a step leaves alone is local.
LEMMA Untouched ==
    ASSUME TypeOK, NEW o \in Orders
    PROVE  /\ UNCHANGED order => OrderOnlyOf(o)
           /\ UNCHANGED shipments => ShipmentsOnlyOf(o)
           /\ UNCHANGED tasks => TasksOnlyOf(o)
           /\ UNCHANGED stock => StockOnlyOf(o)
           /\ UNCHANGED pending => PendingOnlyOf(o)
           /\ UNCHANGED rejections => rejections' \in Nat
  BY StockUntouched DEF TypeOK, OrderOnlyOf, ShipmentsOnlyOf, TasksOnlyOf, PendingOnlyOf,
                        TaskStatuses

\* What an action writes to the order's row.
LEMMA RowWritten ==
    ASSUME TypeOK, NEW o \in Orders, NEW r \in OrderRow,
           order' = [order EXCEPT ![o] = r]
    PROVE  OrderOnlyOf(o) /\ order'[o] = r
  BY DEF TypeOK, OrderOnlyOf

\* A write of the confirmation column alone.
LEMMA ConfirmationWritten ==
    ASSUME TypeOK, NEW o \in Orders, NEW c \in Confirmations,
           order' = [order EXCEPT ![o].confirmation = c]
    PROVE  OrderOnlyOf(o) /\ order'[o] = [order[o] EXCEPT !.confirmation = c]
<1>1. order[o] \in OrderRow
  BY DEF TypeOK
<1>2. [order[o] EXCEPT !.confirmation = c] \in OrderRow
  BY <1>1 DEF OrderRow
<1>3. QED
  BY <1>2, RowWritten

\* A write of the fulfillment column alone.
LEMMA FulfillmentWritten ==
    ASSUME TypeOK, NEW o \in Orders, NEW f \in Fulfillments,
           order' = [order EXCEPT ![o].fulfillment = f]
    PROVE  OrderOnlyOf(o) /\ order'[o] = [order[o] EXCEPT !.fulfillment = f]
<1>1. order[o] \in OrderRow
  BY DEF TypeOK
<1>2. [order[o] EXCEPT !.fulfillment = f] \in OrderRow
  BY <1>1 DEF OrderRow
<1>3. QED
  BY <1>2, RowWritten

\* A write of the cancellation and of the confirmation column.
LEMMA StateWritten ==
    ASSUME TypeOK, NEW o \in Orders, NEW c \in Cancellations, NEW k \in Confirmations,
           order' = [order EXCEPT ![o].cancelled = c, ![o].confirmation = k]
    PROVE  /\ OrderOnlyOf(o)
           /\ order'[o] = [order[o] EXCEPT !.cancelled = c, !.confirmation = k]
<1>1. order[o] \in OrderRow
  BY DEF TypeOK
<1>2. [order[o] EXCEPT !.cancelled = c, !.confirmation = k] \in OrderRow
  BY <1>1 DEF OrderRow
<1>3. order' = [order EXCEPT ![o] = [order[o] EXCEPT !.cancelled = c, !.confirmation = k]]
  BY DEF TypeOK
<1>4. QED
  BY <1>2, <1>3, RowWritten

\* The steps of the call queue are local.
LEMMA TaskStepLocal ==
    ASSUME TypeOK, NEW o \in Orders, TaskStep(o)
    PROVE  Local(o)
<1>1. ASSUME NEW i \in DOMAIN tasks[o], ClaimTask(o, i)
      PROVE  Local(o)
  <2>1. TasksOnlyOf(o)
    BY <1>1, TasksOf DEF ClaimTask, TypeOK, TasksOnlyOf, TaskStatuses
  <2>2. QED
    BY <1>1, <2>1, Untouched, LocalFromParts DEF ClaimTask
<1>2. ASSUME NEW i \in DOMAIN tasks[o], ReleaseTask(o, i)
      PROVE  Local(o)
  <2>1. TasksOnlyOf(o)
    BY <1>2, TasksOf DEF ReleaseTask, TypeOK, TasksOnlyOf, TaskStatuses
  <2>2. QED
    BY <1>2, <2>1, Untouched, LocalFromParts DEF ReleaseTask
<1>3. ASSUME NEW i \in DOMAIN tasks[o], NEW outcome \in Outcomes, RecordOutcome(o, i, outcome)
      PROVE  Local(o)
  <2>1. TasksOnlyOf(o)
    BY <1>3, TasksOf DEF RecordOutcome, AfterOutcome, TypeOK, TasksOnlyOf, TaskStatuses
  <2>2. OrderOnlyOf(o)
    BY <1>3, ConfirmationWritten DEF RecordOutcome, ApplyOutcome, Outcomes, Confirmations
  <2>3. StockOnlyOf(o) /\ rejections' \in Nat
    BY <1>3, Untouched, ReleasingLeavesNone DEF RecordOutcome, ApplyOutcome, TypeOK
  <2>4. QED
    BY <1>3, <2>1, <2>2, <2>3, Untouched, LocalFromParts DEF RecordOutcome
<1>4. ASSUME ConfirmFromOrder(o) PROVE Local(o)
  <2>1. TasksOnlyOf(o)
    BY <1>4, OpenTaskTyped DEF ConfirmFromOrder, TypeOK, TasksOnlyOf, TaskStatuses
  <2>2. OrderOnlyOf(o)
    BY <1>4, ConfirmationWritten DEF ConfirmFromOrder, ApplyOutcome, Confirmations
  <2>3. QED
    BY <1>4, <2>1, <2>2, Untouched, LocalFromParts DEF ConfirmFromOrder, ApplyOutcome
<1>5. ASSUME CorrectToRejected(o) PROVE Local(o)
  <2>1. OrderOnlyOf(o)
    BY <1>5, ConfirmationWritten DEF CorrectToRejected, Confirmations
  <2>2. StockOnlyOf(o) /\ ShipmentsOnlyOf(o) /\ rejections' \in Nat
    BY <1>5, ReleasingLeavesNone, CancellingShipments DEF CorrectToRejected, TypeOK
  <2>3. QED
    BY <1>5, <2>1, <2>2, Untouched, LocalFromParts DEF CorrectToRejected
<1>6. ASSUME CorrectToConfirmed(o) PROVE Local(o)
  <2>1. OrderOnlyOf(o)
    BY <1>6, ConfirmationWritten DEF CorrectToConfirmed, Confirmations
  <2>2. StockOnlyOf(o) /\ rejections' \in Nat
    BY <1>6, ReservingRestoresAll DEF CorrectToConfirmed, TypeOK, Positive
  <2>3. QED
    BY <1>6, <2>1, <2>2, Untouched, LocalFromParts DEF CorrectToConfirmed
<1>7. QED
  BY <1>1, <1>2, <1>3, <1>4, <1>5, <1>6 DEF TaskStep
\* What an action keeps of the request in flight.
LEMMA PendingWritten ==
    ASSUME TypeOK, NEW o \in Orders, NEW r \in Reads,
           r.kind = "patch" => r.ship \in DOMAIN shipments[o],
           pending' = [pending EXCEPT ![o] = r]
    PROVE  PendingOnlyOf(o) /\ pending'[o] = r
  BY DEF TypeOK, PendingOnlyOf

\* The request in flight ends.
LEMMA PendingCleared ==
    ASSUME TypeOK, NEW o \in Orders, pending' = [pending EXCEPT ![o] = None]
    PROVE  PendingOnlyOf(o) /\ pending'[o] = None
<1>1. None \in Reads /\ None.kind # "patch"
  BY DEF Reads, None
<1>2. QED
  BY <1>1, PendingWritten

\* The stage moves and the cancellation are local.
LEMMA StageStepLocal ==
    ASSUME TypeOK, NEW o \in Orders, StageStep(o)
    PROVE  Local(o)
<1>1. ASSUME ReadStage(o) PROVE Local(o)
  <2>1. PICK to \in {"needs_follow_up", "pending_confirmation", "returned"} :
          pending' = [pending EXCEPT ![o] = [kind |-> to]]
    BY <1>1 DEF ReadStage
  <2>2. [kind |-> to] \in Reads /\ [kind |-> to].kind # "patch"
    BY DEF Reads
  <2>3. PendingOnlyOf(o)
    BY <2>1, <2>2, PendingWritten
  <2>4. QED
    BY <1>1, <2>3, Untouched, LocalFromParts DEF ReadStage
<1>2. ASSUME FollowUp(o) PROVE Local(o)
  <2>1. TasksOnlyOf(o)
    BY <1>2, OpenTaskTyped
    DEF FollowUp, AfterOutcome, TypeOK, TasksOnlyOf, TaskStatuses
  <2>2. OrderOnlyOf(o) /\ UNCHANGED <<stock, rejections>>
    BY <1>2, ConfirmationWritten DEF FollowUp, ApplyOutcome, Confirmations
  <2>3. QED
    BY <1>2, <2>1, <2>2, Untouched, PendingCleared, LocalFromParts DEF FollowUp
<1>3. ASSUME BackToQueue(o) PROVE Local(o)
  <2>1. TasksOnlyOf(o)
    BY <1>3, TasksOf DEF BackToQueue, TypeOK, TasksOnlyOf, TaskStatuses
  <2>2. OrderOnlyOf(o)
    BY <1>3, ConfirmationWritten DEF BackToQueue, Confirmations
  <2>3. QED
    BY <1>3, <2>1, <2>2, Untouched, PendingCleared, LocalFromParts DEF BackToQueue
<1>4. ASSUME MarkReturned(o) PROVE Local(o)
  <2>1. OrderOnlyOf(o)
    BY <1>4, FulfillmentWritten DEF MarkReturned, Fulfillments
  <2>2. QED
    BY <1>4, <2>1, Untouched, PendingCleared, LocalFromParts DEF MarkReturned
<1>5. ASSUME CancelOrder(o) PROVE Local(o)
  <2>1. OrderOnlyOf(o)
    BY <1>5, StateWritten DEF CancelOrder, Cancellations, Confirmations
  <2>2. TasksOnlyOf(o)
    <3>1. [i \in DOMAIN tasks[o] |-> "done"] \in Seq(TaskStatuses)
      BY TasksOf, SeqElementsReplaced DEF TaskStatuses
    <3>2. QED
      BY <1>5, <3>1 DEF CancelOrder, TypeOK, TasksOnlyOf, TaskStatuses
  <2>3. QED
    BY <1>5, <2>1, <2>2, Untouched, ReleasingLeavesNone, CancellingShipments, LocalFromParts
    DEF CancelOrder
<1>6. ASSUME Reopen(o) PROVE Local(o)
  <2>1. OrderOnlyOf(o)
    BY <1>6, StateWritten DEF Reopen, Cancellations, Confirmations
  <2>2. TasksOnlyOf(o)
    BY <1>6, TasksOf DEF Reopen, TypeOK, TasksOnlyOf, TaskStatuses
  <2>3. rejections' \in Nat
    BY <1>6 DEF Reopen, TypeOK, Uncounted, Positive
  <2>4. QED
    BY <1>6, <2>1, <2>2, <2>3, Untouched, ReservingRestoresAll, LocalFromParts DEF Reopen
<1>7. QED
  BY <1>1, <1>2, <1>3, <1>4, <1>5, <1>6 DEF StageStep

\* The steps of the shipments are local.
LEMMA ShipmentStepLocal ==
    ASSUME TypeOK, NEW o \in Orders, ShipmentStep(o)
    PROVE  Local(o)
<1>1. ASSUME NEW booked \in BOOLEAN, CreateShipment(o, booked) PROVE Local(o)
  <2> DEFINE s == [status |-> "created", booked |-> booked, deliveredAt |-> FALSE]
  <2>1. s \in Shipment
    BY DEF Shipment, Statuses
  <2>2. shipments[o] \in Seq(Shipment) /\ Len(shipments[o]) < MaxShipments
    BY <1>1 DEF CreateShipment, TypeOK
  <2>3. /\ Append(shipments[o], s) \in Seq(Shipment)
        /\ Len(Append(shipments[o], s)) <= MaxShipments
        /\ DOMAIN shipments[o] \subseteq DOMAIN Append(shipments[o], s)
    BY <2>1, <2>2, BoundsAssumption
  <2>4. shipments' = [shipments EXCEPT ![o] = Append(shipments[o], s)]
    BY <1>1 DEF CreateShipment, TypeOK
  <2>5. /\ shipments' \in [Orders -> Seq(Shipment)]
        /\ \A p \in Orders : Len(shipments'[p]) <= MaxShipments
        /\ \A p \in Orders : DOMAIN shipments[p] \subseteq DOMAIN shipments'[p]
        /\ \A p \in Orders \ {o} : shipments'[p] = shipments[p]
    BY <2>3, <2>4 DEF TypeOK
  <2>6. StockOnlyOf(o) /\ UNCHANGED <<order, tasks, restocked, onHand, rejections, pending>>
    BY <1>1, RetakingKeeps DEF CreateShipment
  <2>7. \A p \in Orders :
          pending'[p].kind = "patch" => pending'[p].ship \in DOMAIN shipments'[p]
    BY <2>5, <2>6 DEF TypeOK
  <2>8. TypeOK'
    BY <2>5, <2>6, <2>7 DEF TypeOK, StockOnlyOf
  <2>9. QED
    BY <2>5, <2>6, <2>8 DEF Local, SameAt, StockOnlyOf
<1>2. ASSUME NEW i \in DOMAIN shipments[o], ReadShipment(o, i) PROVE Local(o)
  <2> DEFINE r == [kind |-> "patch", ship |-> i, seen |-> shipments[o][i].status]
  <2>1. i \in 1..MaxShipments /\ shipments[o][i].status \in Statuses
    <3>1. shipments[o] \in Seq(Shipment) /\ Len(shipments[o]) <= MaxShipments
      BY DEF TypeOK
    <3>2. i \in 1..MaxShipments /\ shipments[o][i] \in Shipment
      BY <3>1, BoundsAssumption
    <3>3. QED
      BY <3>2 DEF Shipment
  <2>2. r \in Reads
    BY <2>1 DEF Reads
  <2>3. PendingOnlyOf(o)
    BY <1>2, <2>2, PendingWritten DEF ReadShipment
  <2>4. QED
    BY <1>2, <2>3, Untouched, LocalFromParts DEF ReadShipment
<1>3. ASSUME NEW i \in DOMAIN shipments[o], NEW to \in Statuses, CarrierReport(o, i, to)
      PROVE  Local(o)
  <2>1. ShipmentsOnlyOf(o) /\ \E f \in Fulfillments : order' = [order EXCEPT ![o].fulfillment = f]
    BY <1>3, TransitionChanges DEF CarrierReport
  <2>2. OrderOnlyOf(o)
    BY <2>1, FulfillmentWritten
  <2>3. QED
    BY <1>3, <2>1, <2>2, Untouched, LocalFromParts DEF CarrierReport
<1>4. ASSUME NEW to \in Statuses, PatchShipment(o, to) PROVE Local(o)
  <2>1. pending[o].ship \in DOMAIN shipments[o]
    BY <1>4 DEF PatchShipment, TypeOK
  <2>2. ShipmentsOnlyOf(o) /\ \E f \in Fulfillments : order' = [order EXCEPT ![o].fulfillment = f]
    BY <1>4, <2>1, TransitionChanges DEF PatchShipment
  <2>3. OrderOnlyOf(o)
    BY <2>2, FulfillmentWritten
  <2>4. StockOnlyOf(o)
    BY <1>4, RetakingKeeps, StockUntouched DEF PatchShipment
  <2>5. QED
    BY <1>4, <2>2, <2>3, <2>4, Untouched, PendingCleared, LocalFromParts DEF PatchShipment
<1>5. ASSUME DropRequest(o) PROVE Local(o)
  BY <1>5, Untouched, PendingCleared, LocalFromParts DEF DropRequest
<1>6. ASSUME RestockReturned(o) PROVE Local(o)
  BY <1>6, Untouched, ReleasingLeavesNone, LocalFromParts DEF RestockReturned
<1>7. QED
  BY <1>1, <1>2, <1>3, <1>4, <1>5, <1>6 DEF ShipmentStep
\* The row after a captured payment, with its cancellation and expiry rewritten.
LEMMA CapturedTyped ==
    ASSUME TypeOK, NEW o \in Orders, NEW counts \in BOOLEAN
    PROVE  /\ Captured(o, counts) \in OrderRow
           /\ \A e \in {"none", "later", "past"} :
                [Captured(o, counts) EXCEPT !.expires = e] \in OrderRow
           /\ \A c \in Cancellations, e \in {"none", "later", "past"} :
                [Captured(o, counts) EXCEPT !.cancelled = c, !.expires = e] \in OrderRow
<1> DEFINE paid == order[o].paid \/ counts
<1>1. order[o] \in OrderRow
  BY DEF TypeOK
<1>2. paid \in BOOLEAN
  OBVIOUS
<1>3. \A b \in BOOLEAN : [order[o] EXCEPT !.attempt = "captured", !.paid = b] \in OrderRow
  BY <1>1 DEF OrderRow
<1>4. Captured(o, counts) \in OrderRow
  BY <1>2, <1>3, Zenon DEF Captured
<1>5. QED
  BY <1>4 DEF OrderRow

\* Recording a captured payment is local.
LEMMA CaptureLocal ==
    ASSUME TypeOK, NEW o \in Orders, NEW counts \in BOOLEAN,
           \/ CaptureBlocked(o, counts)
           \/ CaptureReopens(o, counts)
           \/ CaptureFlagged(o, counts)
           \/ CaptureStanding(o, counts)
    PROVE  Local(o)
<1>1. CASE CaptureBlocked(o, counts)
  <2> DEFINE e == IF order[o].cancelled = "no" THEN "none" ELSE order[o].expires
  <2>1. e \in {"none", "later", "past"}
    <3>1. \A r \in OrderRow : r.expires \in {"none", "later", "past"}
      BY DEF OrderRow
    <3>2. order[o] \in OrderRow
      BY DEF TypeOK
    <3>3. QED
      BY <3>1, <3>2
  <2>2. [Captured(o, counts) EXCEPT !.cancelled = "blocked", !.expires = e] \in OrderRow
    BY <2>1, CapturedTyped DEF Cancellations
  <2>3. order' = [order EXCEPT ![o] = [Captured(o, counts) EXCEPT !.cancelled = "blocked",
                                                                 !.expires = e]]
    BY <1>1 DEF CaptureBlocked
  <2>4. OrderOnlyOf(o)
    BY <2>2, <2>3, RowWritten
  <2>5. StockOnlyOf(o)
    BY <1>1, StockUntouched, ReleasingLeavesNone DEF CaptureBlocked
  <2>6. QED
    BY <1>1, <2>4, <2>5, Untouched, LocalFromParts DEF CaptureBlocked
<1>2. CASE CaptureReopens(o, counts)
  <2>1. OrderOnlyOf(o)
    BY <1>2, CapturedTyped, RowWritten DEF CaptureReopens, Cancellations
  <2>2. QED
    BY <1>2, <2>1, Untouched, ReservingRestoresAll, LocalFromParts DEF CaptureReopens
<1>3. CASE CaptureFlagged(o, counts)
  <2>1. OrderOnlyOf(o)
    BY <1>3, CapturedTyped, RowWritten DEF CaptureFlagged
  <2>2. QED
    BY <1>3, <2>1, Untouched, LocalFromParts DEF CaptureFlagged
<1>4. CASE CaptureStanding(o, counts)
  <2>1. OrderOnlyOf(o)
    BY <1>4, CapturedTyped, RowWritten DEF CaptureStanding
  <2>2. QED
    BY <1>4, <2>1, Untouched, LocalFromParts DEF CaptureStanding
<1>5. QED
  BY <1>1, <1>2, <1>3, <1>4

\* The steps of the payment are local.
LEMMA PaymentStepLocal ==
    ASSUME TypeOK, NEW o \in Orders, PaymentStep(o)
    PROVE  Local(o)
<1>1. order[o] \in OrderRow
  BY DEF TypeOK
<1>2. ASSUME StartAttempt(o) PROVE Local(o)
  <2>1. [order[o] EXCEPT !.attempt = "started"] \in OrderRow
    BY <1>1 DEF OrderRow
  <2>2. OrderOnlyOf(o)
    BY <1>2, <2>1, RowWritten DEF StartAttempt
  <2>3. QED
    BY <1>2, <2>2, Untouched, LocalFromParts DEF StartAttempt
<1>3. ASSUME RetryPayment(o) PROVE Local(o)
  <2> DEFINE r == [order[o] EXCEPT !.attempt = "started", !.expires = "later"]
  <2>1. r \in OrderRow
    BY <1>1 DEF OrderRow
  <2>2. order' = [order EXCEPT ![o] = r]
    BY <1>3 DEF RetryPayment, TypeOK
  <2>3. OrderOnlyOf(o)
    BY <2>1, <2>2, RowWritten
  <2>4. QED
    BY <1>3, <2>3, Untouched, LocalFromParts DEF RetryPayment
<1>4. ASSUME TimeRunsOut(o) PROVE Local(o)
  <2>1. [order[o] EXCEPT !.expires = "past"] \in OrderRow
    BY <1>1 DEF OrderRow
  <2>2. OrderOnlyOf(o)
    BY <1>4, <2>1, RowWritten DEF TimeRunsOut
  <2>3. QED
    BY <1>4, <2>2, Untouched, LocalFromParts DEF TimeRunsOut
<1>5. ASSUME ExpireOrder(o) PROVE Local(o)
  <2>1. [order[o] EXCEPT !.cancelled = "expired"] \in OrderRow
    BY <1>1 DEF OrderRow, Cancellations
  <2>2. OrderOnlyOf(o)
    BY <1>5, <2>1, RowWritten DEF ExpireOrder
  <2>3. QED
    BY <1>5, <2>2, Untouched, ReleasingLeavesNone, LocalFromParts DEF ExpireOrder
<1>6. ASSUME SwitchToCod(o) PROVE Local(o)
  <2> DEFINE r == [order[o] EXCEPT !.method = "cod", !.expires = "none"]
  <2>1. r \in OrderRow
    BY <1>1 DEF OrderRow
  <2>2. order' = [order EXCEPT ![o] = r]
    BY <1>6 DEF SwitchToCod, TypeOK
  <2>3. OrderOnlyOf(o)
    BY <2>1, <2>2, RowWritten
  <2>4. TasksOnlyOf(o)
    BY <1>6, TasksOf DEF SwitchToCod, TypeOK, TasksOnlyOf, TaskStatuses
  <2>5. QED
    BY <1>6, <2>3, <2>4, Untouched, LocalFromParts DEF SwitchToCod
<1>7. QED
  BY <1>2, <1>3, <1>4, <1>5, <1>6, CaptureLocal DEF PaymentStep

\* Placing an order and editing its items are local.
LEMMA ItemsStepLocal ==
    ASSUME TypeOK, NEW o \in Orders, NEW units \in OrderUnits,
           \/ \E method \in {"cod", "card"} : PlaceOrder(o, method, units)
           \/ EditItems(o, units)
    PROVE  Local(o)
<1>1. /\ units \in Units
      /\ units \in [Variants -> Nat]
      /\ \A v \in Variants : units[v] \in Nat
  BY BoundsAssumption DEF OrderUnits, Units
<1>2. ASSUME NEW method \in {"cod", "card"}, PlaceOrder(o, method, units) PROVE Local(o)
  <2> DEFINE expires == IF method = "card" THEN "later" ELSE "none"
             r == [order[o] EXCEPT !.placed = TRUE, !.method = method, !.expires = expires]
  <2>1. r \in OrderRow
    <3>1. order[o] \in OrderRow /\ expires \in {"none", "later", "past"}
      BY DEF TypeOK
    <3>2. QED
      BY <3>1 DEF OrderRow
  <2>2. order' = [order EXCEPT ![o] = r]
    BY <1>2 DEF PlaceOrder, TypeOK
  <2>3. OrderOnlyOf(o)
    BY <2>1, <2>2, RowWritten
  <2>4. TasksOnlyOf(o)
    <3>1. <<"queued">> \in Seq(TaskStatuses) /\ <<>> \in Seq(TaskStatuses)
      BY DEF TaskStatuses
    <3>2. QED
      BY <1>2, <3>1 DEF PlaceOrder, TypeOK, TasksOnlyOf, TaskStatuses
  <2>5. /\ held' \in [Orders -> [Variants -> Int]]
        /\ \A p \in Orders \ {o} : held'[p] = held[p]
        /\ reservedStock' \in [Variants -> Nat]
    BY <1>1, <1>2, ReserveTakes DEF PlaceOrder
  <2>6. lines' \in [Orders -> Units] /\ \A p \in Orders \ {o} : lines'[p] = lines[p]
    BY <1>1, <1>2 DEF PlaceOrder, TypeOK
  <2>7. UNCHANGED <<shipments, restocked, onHand, rejections, pending>>
    BY <1>2 DEF PlaceOrder
  <2>8. TypeOK'
    BY <2>3, <2>4, <2>5, <2>6, <2>7 DEF TypeOK, OrderOnlyOf, TasksOnlyOf, TaskStatuses
  <2>9. QED
    BY <2>3, <2>4, <2>5, <2>6, <2>7, <2>8 DEF Local, SameAt, OrderOnlyOf, TasksOnlyOf
<1>3. ASSUME EditItems(o, units) PROVE Local(o)
  <2> DEFINE h == [v \in Variants |-> held[o][v] + units[v] - lines[o][v]]
  <2>1. \A v \in Variants :
          /\ h[v] \in Int
          /\ Positive(reservedStock[v] + units[v] - lines[o][v]) \in Nat
    BY <1>1, StockValues DEF Positive
  <2>2. held' = [held EXCEPT ![o] = h] /\ lines' = [lines EXCEPT ![o] = units]
    BY <1>3 DEF EditItems, TypeOK
  <2>3. reservedStock' \in [Variants -> Nat]
    BY <1>3, <2>1 DEF EditItems
  <2>4. /\ held' \in [Orders -> [Variants -> Int]]
        /\ \A p \in Orders \ {o} : held'[p] = held[p]
    BY <2>1, <2>2 DEF TypeOK
  <2>5. lines' \in [Orders -> Units] /\ \A p \in Orders \ {o} : lines'[p] = lines[p]
    BY <1>1, <2>2 DEF TypeOK
  <2>6. UNCHANGED <<order, shipments, tasks, restocked, onHand, rejections, pending>>
    BY <1>3 DEF EditItems
  <2>7. TypeOK'
    BY <2>3, <2>4, <2>5, <2>6 DEF TypeOK
  <2>8. QED
    BY <2>4, <2>5, <2>6, <2>7 DEF Local, SameAt
<1>4. QED
  BY <1>2, <1>3

\* So every step on an order is.
LEMMA OrderStepLocal ==
    ASSUME TypeOK, NEW o \in Orders, OrderStep(o)
    PROVE  Local(o)
  BY ItemsStepLocal, TaskStepLocal, StageStepLocal, ShipmentStepLocal, PaymentStepLocal
  DEF OrderStep

\* TypeOK holds at first ...
LEMMA TypeInit == Init => TypeOK
<1>1. \A v \in Variants : MaxOnHand \in 0..MaxOnHand /\ 0 \in 0..MaxUnits
  BY BoundsAssumption
<1>2. None \in Reads /\ None.kind # "patch"
  BY DEF Reads, None
<1>3. QED
  BY <1>1, <1>2, BoundsAssumption
  DEF Init, TypeOK, OrderRow, Confirmations, Fulfillments, Cancellations, Units

\* ... and every step keeps it.
LEMMA TypeStep == TypeOK /\ [Next]_vars => TypeOK'
<1> SUFFICES ASSUME TypeOK, [Next]_vars PROVE TypeOK'
  OBVIOUS
<1>1. ASSUME NEW o \in Orders, OrderStep(o) PROVE TypeOK'
  BY <1>1, OrderStepLocal DEF Local
<1>2. ASSUME NEW v \in Variants, NEW count \in 0..MaxOnHand, SetStock(v, count)
      PROVE  TypeOK'
  BY <1>2 DEF SetStock, TypeOK, stock
<1>3. CASE UNCHANGED vars
  BY <1>3 DEF TypeOK, vars
<1>4. QED
  BY <1>1, <1>2, <1>3 DEF Next

\* Whatever the handlers do, in any order, every column keeps its values: the
\* counters never go below zero, no order has more parcels than the bound, and
\* a patch in flight names a shipment that exists.
THEOREM TypeCorrect == Spec => []TypeOK
  BY TypeInit, TypeStep, PTL DEF Spec
-----------------------------------------------------------------------------
(* The invariant: what every order satisfies between two steps.            *)

\* An order that is not placed yet is untouched.
FreshOK(o) ==
  ~order[o].placed =>
    /\ order[o].method = "cod"
    /\ order[o].confirmation = "pending"
    /\ order[o].cancelled = "no"
    /\ order[o].fulfillment = "unfulfilled"
    /\ order[o].expires = "none"
    /\ tasks[o] = <<>>
    /\ shipments[o] = <<>>
    /\ o \notin restocked
    /\ pending[o] = None

\* A card order was never in the call queue, so no call decided it; only an
\* order that waits for a card payment expires; and a stage move of the call
\* queue in flight is a COD order's.
CardOK(o) ==
  /\ order[o].method = "card" =>
       /\ tasks[o] = <<>>
       /\ \/ order[o].confirmation = "pending"
          \/ order[o].confirmation = "rejected" /\ order[o].cancelled = "merchant"
  /\ order[o].cancelled = "expired" => order[o].method = "card"
  /\ pending[o].kind \in {"needs_follow_up", "pending_confirmation"} =>
       order[o].method = "cod"

\* The order's units: HoldsFollowOrder and RestockedAllOrNone for one order,
\* and why the second never applies to an order that can still be edited.
HoldOK(o) ==
  IF o \in restocked
  THEN order[o].fulfillment # "unfulfilled" /\ held[o] \in {NoUnits, lines[o]}
  ELSE held[o] = IF Open(o) THEN lines[o] ELSE NoUnits

\* OneCallAtATime and NoOrderForgotten for one order.
CallOK(o) ==
  /\ \A i, j \in OpenTasks(o) : i = j
  /\ OpenTasks(o) # {} <=> Undecided(o) /\ order[o].method = "cod"

OrderOK(o) == FreshOK(o) /\ CardOK(o) /\ HoldOK(o) /\ CallOK(o)

OrderInv == TypeOK /\ \A o \in Orders : OrderOK(o)
-----------------------------------------------------------------------------
(* The open tasks of a sequence of task statuses.                          *)

OpenIn(t) == {i \in DOMAIN t : t[i] # "done"}

\* A fresh task is the only open one, or none is.
LEMMA OpenInAppend ==
    ASSUME NEW t \in Seq(TaskStatuses), NEW s \in TaskStatuses, OpenIn(t) = {}
    PROVE  OpenIn(Append(t, s)) = IF s = "done" THEN {} ELSE {Len(t) + 1}
<1> DEFINE u == Append(t, s)
<1>1. DOMAIN u = 1..(Len(t) + 1) /\ Len(t) \in Nat /\ DOMAIN t = 1..Len(t)
  OBVIOUS
<1>2. u[Len(t) + 1] = s /\ \A i \in 1..Len(t) : u[i] = t[i]
  OBVIOUS
<1>3. \A i \in 1..Len(t) : u[i] = "done"
  BY <1>1, <1>2 DEF OpenIn
<1>4. QED
  BY <1>1, <1>2, <1>3 DEF OpenIn

\* Rewriting the only open task leaves it the only one, or none.
LEMMA OpenInChanged ==
    ASSUME NEW t \in Seq(TaskStatuses), NEW s \in TaskStatuses, NEW i \in OpenIn(t),
           \A j, k \in OpenIn(t) : j = k
    PROVE  OpenIn([t EXCEPT ![i] = s]) = IF s = "done" THEN {} ELSE {i}
  BY DEF OpenIn

\* Setting the open task leaves at most that one open, and none when it is done.
LEMMA OpenAfterSet ==
    ASSUME TypeOK, NEW o \in Orders, CallOK(o), NEW s \in TaskStatuses
    PROVE  /\ s = "done" => OpenIn(WithOpenTask(o, s)) = {}
           /\ s # "done" => \E i : OpenIn(WithOpenTask(o, s)) = {i}
<1>1. tasks[o] \in Seq(TaskStatuses) /\ OpenTasks(o) = OpenIn(tasks[o])
  BY TasksOf DEF OpenTasks, OpenIn
<1>2. CASE OpenTasks(o) = {}
  <2>1. WithOpenTask(o, s) = Append(tasks[o], s)
    BY <1>2 DEF WithOpenTask
  <2>2. QED
    BY <1>1, <1>2, <2>1, OpenInAppend
<1>3. CASE OpenTasks(o) # {}
  <2> DEFINE k == CHOOSE i \in OpenTasks(o) : \A j \in OpenTasks(o) : j <= i
  <2>1. PICK i \in OpenTasks(o) : OpenTasks(o) = {i}
    BY <1>3 DEF CallOK
  <2>2. i \in Int
    BY <1>1, <2>1 DEF OpenIn
  <2>3. \A j \in OpenTasks(o) : j <= i
    BY <2>1, <2>2
  <2>4. k \in OpenTasks(o)
    BY <2>1, <2>3
  <2>5. WithOpenTask(o, s) = [tasks[o] EXCEPT ![k] = s]
    BY <1>3 DEF WithOpenTask
  <2>6. k \in OpenIn(tasks[o]) /\ \A a, b \in OpenIn(tasks[o]) : a = b
    BY <1>1, <2>1, <2>4
  <2> HIDE DEF k
  <2>7. OpenIn([tasks[o] EXCEPT ![k] = s]) = IF s = "done" THEN {} ELSE {k}
    BY <1>1, <2>6, OpenInChanged
  <2>8. QED
    BY <2>5, <2>7
<1>4. QED
  BY <1>2, <1>3

\* CallOK after a step, from what the step leaves open.
LEMMA CallFrom ==
    ASSUME TypeOK, TypeOK', NEW o \in Orders,
           \/ OpenIn(tasks'[o]) = {} /\ ~(Undecided(o)' /\ order'[o].method = "cod")
           \/ /\ \E i : OpenIn(tasks'[o]) = {i}
              /\ Undecided(o)'
              /\ order'[o].method = "cod"
    PROVE  CallOK(o)'
  BY DEF CallOK, OpenTasks, OpenIn

-----------------------------------------------------------------------------
(* The steps that leave the order's state columns and its calls alone.     *)

\* A step that leaves the columns of OrderOK, the tasks and the lines alone.
LEMMA QuietKeeps ==
    ASSUME TypeOK, NEW o \in Orders, OrderOK(o), Local(o),
           order[o].placed,
           order'[o].placed = order[o].placed,
           order'[o].method = order[o].method,
           order'[o].confirmation = order[o].confirmation,
           order'[o].cancelled = order[o].cancelled,
           order[o].fulfillment # "unfulfilled" => order'[o].fulfillment # "unfulfilled",
           tasks'[o] = tasks[o], lines' = lines, restocked' = restocked,
           o \notin restocked => held' = held,
           held'[o] \in {held[o], NoUnits, lines[o]},
           \/ pending'[o] = pending[o]
           \/ pending'[o].kind \notin {"needs_follow_up", "pending_confirmation"}
    PROVE  OrderOK(o)'
<1>1. Open(o)' = Open(o)
  BY DEF Open
<1>2. FreshOK(o)' /\ CardOK(o)'
  BY DEF OrderOK, FreshOK, CardOK
<1>3. HoldOK(o)'
  BY <1>1 DEF OrderOK, HoldOK, NoUnits
<1>4. CallOK(o)'
  BY <1>1 DEF OrderOK, CallOK, OpenTasks, Undecided
<1>5. QED
  BY <1>2, <1>3, <1>4 DEF OrderOK

\* A step on another order changes nothing of this one.
LEMMA OthersKeep ==
    ASSUME NEW p \in Orders, OrderOK(p), SameAt(p)
    PROVE  OrderOK(p)'
<1>1. Open(p)' = Open(p) /\ OpenTasks(p)' = OpenTasks(p)
  BY DEF SameAt, Open, OpenTasks
<1>2. FreshOK(p)' /\ CardOK(p)'
  BY DEF OrderOK, FreshOK, CardOK, SameAt
<1>3. HoldOK(p)'
  BY <1>1 DEF OrderOK, HoldOK, NoUnits, SameAt
<1>4. CallOK(p)'
  BY <1>1 DEF OrderOK, CallOK, Undecided, SameAt
<1>5. QED
  BY <1>2, <1>3, <1>4 DEF OrderOK
-----------------------------------------------------------------------------
(* Every step keeps the invariant of the order it is about.                *)

\* The quiet steps of the shipments and of the payment.
LEMMA QuietShipmentSteps ==
    ASSUME TypeOK, NEW o \in Orders, OrderOK(o), Local(o),
           \/ \E booked \in BOOLEAN : CreateShipment(o, booked)
           \/ \E i \in DOMAIN shipments[o] : ReadShipment(o, i)
           \/ \E i \in DOMAIN shipments[o], to \in Statuses : CarrierReport(o, i, to)
           \/ \E to \in Statuses : PatchShipment(o, to)
           \/ DropRequest(o)
           \/ MarkReturned(o)
    PROVE  OrderOK(o)'
<1>1. held[o] \in {NoUnits, lines[o]}
  BY DEF OrderOK, HoldOK
<1>2. order[o].placed \/ (shipments[o] = <<>> /\ pending[o] = None)
  BY DEF OrderOK, FreshOK
<1>3. DOMAIN shipments[o] # {} \/ pending[o] # None => order[o].placed
  BY <1>2
<1>4. ASSUME NEW booked \in BOOLEAN, CreateShipment(o, booked) PROVE OrderOK(o)'
  <2>1. order[o].placed
    BY <1>4 DEF CreateShipment, ConfirmedOrPaid, Open
  <2>2. /\ StockOnlyOf(o)
        /\ o \notin restocked => held' = held
        /\ held'[o] \in {NoUnits, lines[o]}
    BY <1>1, <1>4, RetakingKeeps DEF CreateShipment
  <2>3. UNCHANGED <<order, tasks, restocked, pending>>
    BY <1>4 DEF CreateShipment
  <2>4. QED
    BY <2>1, <2>2, <2>3, QuietKeeps DEF StockOnlyOf
<1>5. ASSUME NEW i \in DOMAIN shipments[o], ReadShipment(o, i) PROVE OrderOK(o)'
  <2>1. pending'[o].kind = "patch"
    BY <1>5 DEF ReadShipment, TypeOK
  <2>2. UNCHANGED <<order, tasks, lines, held, restocked>>
    BY <1>5 DEF ReadShipment, stock
  <2>3. QED
    BY <1>3, <2>1, <2>2, QuietKeeps
<1>6. ASSUME NEW i \in DOMAIN shipments[o], NEW to \in Statuses, CarrierReport(o, i, to)
      PROVE  OrderOK(o)'
  <2>1. PICK f \in Fulfillments :
          /\ order' = [order EXCEPT ![o].fulfillment = f]
          /\ order[o].fulfillment # "unfulfilled" => f # "unfulfilled"
    BY <1>6, TransitionChanges DEF CarrierReport
  <2>2. order'[o] = [order[o] EXCEPT !.fulfillment = f] /\ order[o] \in OrderRow
    BY <2>1, FulfillmentWritten DEF TypeOK
  <2>3. UNCHANGED <<tasks, lines, held, restocked, pending>>
    BY <1>6 DEF CarrierReport, stock
  <2>4. QED
    BY <1>3, <2>1, <2>2, <2>3, QuietKeeps DEF OrderRow
<1>7. ASSUME NEW to \in Statuses, PatchShipment(o, to) PROVE OrderOK(o)'
  <2>1. pending[o].ship \in DOMAIN shipments[o]
    BY <1>7 DEF PatchShipment, TypeOK
  <2>2. PICK f \in Fulfillments :
          /\ order' = [order EXCEPT ![o].fulfillment = f]
          /\ order[o].fulfillment # "unfulfilled" => f # "unfulfilled"
    BY <1>7, <2>1, TransitionChanges DEF PatchShipment
  <2>3. order'[o] = [order[o] EXCEPT !.fulfillment = f] /\ order[o] \in OrderRow
    BY <2>2, FulfillmentWritten DEF TypeOK
  <2>4. /\ StockOnlyOf(o)
        /\ o \notin restocked => held' = held
        /\ held'[o] \in {NoUnits, lines[o]}
    BY <1>1, <1>7, RetakingKeeps, StockUntouched DEF PatchShipment
  <2>5. UNCHANGED <<tasks, restocked>> /\ pending'[o].kind = "none"
    BY <1>7 DEF PatchShipment, None, TypeOK
  <2>6. QED
    BY <1>3, <2>1, <2>2, <2>3, <2>4, <2>5, QuietKeeps DEF OrderRow, StockOnlyOf
<1>8. ASSUME DropRequest(o) PROVE OrderOK(o)'
  <2>1. pending'[o].kind = "none" /\ UNCHANGED <<order, tasks, lines, held, restocked>>
    BY <1>8 DEF DropRequest, None, TypeOK, stock
  <2>2. QED
    BY <1>3, <1>8, <2>1, QuietKeeps DEF DropRequest
<1>9. ASSUME MarkReturned(o) PROVE OrderOK(o)'
  <2>1. pending'[o].kind = "none" /\ UNCHANGED <<tasks, lines, held, restocked>>
    BY <1>9 DEF MarkReturned, None, TypeOK, stock
  <2>2. pending[o] # None
    BY <1>9 DEF MarkReturned, None
  <2>3. order'[o] = [order[o] EXCEPT !.fulfillment = "returned"] /\ order[o] \in OrderRow
    BY <1>9, FulfillmentWritten DEF MarkReturned, Fulfillments, TypeOK
  <2>4. QED
    BY <1>3, <2>1, <2>2, <2>3, QuietKeeps DEF OrderRow
<1>10. QED
  BY <1>4, <1>5, <1>6, <1>7, <1>8, <1>9
\* A placed order's invariant after a step, from its parts.
LEMMA PlacedFrom ==
    ASSUME NEW o \in Orders, order'[o].placed, CardOK(o)', HoldOK(o)', CallOK(o)'
    PROVE  OrderOK(o)'
  BY DEF OrderOK, FreshOK

\* An order with a task is a placed COD order.
LEMMA TaskIsCod ==
    ASSUME TypeOK, NEW o \in Orders, OrderOK(o), tasks[o] # <<>>
    PROVE  order[o].placed /\ order[o].method = "cod"
<1>1. order[o].method \in {"cod", "card"}
  BY DEF TypeOK, OrderRow
<1>2. QED
  BY <1>1 DEF OrderOK, FreshOK, CardOK

\* Claiming, releasing and deciding a task keep the order's invariant.
LEMMA CallStepsKeep ==
    ASSUME TypeOK, NEW o \in Orders, OrderOK(o), Local(o),
           NEW i \in DOMAIN tasks[o],
           \/ ClaimTask(o, i)
           \/ ReleaseTask(o, i)
           \/ \E outcome \in Outcomes : RecordOutcome(o, i, outcome)
    PROVE  OrderOK(o)'
<1>1. tasks[o] \in Seq(TaskStatuses) /\ OpenTasks(o) = OpenIn(tasks[o])
  BY TasksOf DEF OpenTasks, OpenIn
<1>2. tasks[o] # <<>>
  BY <1>1
<1>3. order[o].placed /\ order[o].method = "cod" /\ order[o] \in OrderRow
  BY <1>2, TaskIsCod DEF TypeOK
<1>4. TypeOK'
  BY DEF Local
<1>5. i \in OpenIn(tasks[o]) /\ \A j, k \in OpenIn(tasks[o]) : j = k
  BY <1>1 DEF ClaimTask, ReleaseTask, RecordOutcome, OpenIn, OrderOK, CallOK
<1>6. Undecided(o)
  BY <1>1, <1>5 DEF OrderOK, CallOK
<1>7. \A s \in TaskStatuses :
        OpenIn([tasks[o] EXCEPT ![i] = s]) = IF s = "done" THEN {} ELSE {i}
  BY <1>1, <1>5, OpenInChanged
<1>8. CASE ClaimTask(o, i) \/ ReleaseTask(o, i)
  <2>1. PICK s \in {"queued", "in_progress"} : tasks' = [tasks EXCEPT ![o][i] = s]
    BY <1>8 DEF ClaimTask, ReleaseTask
  <2>2. UNCHANGED <<order, lines, held, restocked, pending>>
    BY <1>8 DEF ClaimTask, ReleaseTask, stock
  <2>3. tasks'[o] = [tasks[o] EXCEPT ![i] = s]
    BY <2>1 DEF TypeOK
  <2>4. OpenIn(tasks'[o]) = {i}
    BY <1>7, <2>3 DEF TaskStatuses
  <2>5. CallOK(o)'
    BY <1>3, <1>4, <1>6, <2>2, <2>4, CallFrom DEF Undecided, Open
  <2>6. CardOK(o)' /\ HoldOK(o)'
    BY <1>3, <2>2 DEF OrderOK, CardOK, HoldOK, Open, NoUnits
  <2>7. QED
    BY <1>3, <2>2, <2>5, <2>6, PlacedFrom
<1>9. ASSUME NEW outcome \in Outcomes, RecordOutcome(o, i, outcome) PROVE OrderOK(o)'
  <2>1. order'[o] = [order[o] EXCEPT !.confirmation = outcome]
    BY <1>9 DEF RecordOutcome, ApplyOutcome, TypeOK
  <2>2. tasks'[o] = [tasks[o] EXCEPT ![i] = AfterOutcome(outcome)]
    BY <1>9 DEF RecordOutcome, TypeOK
  <2>3. OpenIn(tasks'[o]) = IF outcome = "follow_up" THEN {i} ELSE {}
    BY <1>7, <2>2 DEF AfterOutcome, Decided, TaskStatuses, Outcomes
  <2>4. Open(o)' <=> outcome # "rejected"
    BY <1>3, <1>6, <2>1 DEF Undecided, Open, OrderRow
  <2>5. CallOK(o)'
    BY <1>3, <1>4, <2>1, <2>3, <2>4, CallFrom DEF Undecided, OrderRow, Outcomes
  <2>6. HoldOK(o)'
    <3>1. held[o] \in {NoUnits, lines[o]} /\ Open(o) /\ UNCHANGED restocked
      BY <1>6, <1>9 DEF OrderOK, HoldOK, Undecided, RecordOutcome
    <3>2. CASE outcome = "rejected"
      BY <1>3, <1>9, <2>1, <2>4, <3>1, <3>2, ReleasingLeavesNone
      DEF RecordOutcome, ApplyOutcome, OrderOK, HoldOK, StockOnlyOf, NoUnits, OrderRow
    <3>3. CASE outcome # "rejected"
      BY <1>3, <1>9, <2>1, <2>4, <3>1, <3>3
      DEF RecordOutcome, ApplyOutcome, OrderOK, HoldOK, stock, NoUnits, OrderRow
    <3>4. QED
      BY <3>2, <3>3
  <2>7. CardOK(o)'
    BY <1>3, <1>6, <1>9, <2>1 DEF CardOK, OrderRow, Undecided, Open, RecordOutcome
  <2>8. QED
    BY <1>3, <2>1, <2>5, <2>6, <2>7, PlacedFrom DEF OrderRow
<1>10. QED
  BY <1>8, <1>9
\* The decisions made from the order: each closes or opens its task as CallOK asks.
LEMMA DecidingStepsKeep ==
    ASSUME TypeOK, NEW o \in Orders, OrderOK(o), Local(o),
           \/ ConfirmFromOrder(o)
           \/ CorrectToRejected(o)
           \/ CorrectToConfirmed(o)
           \/ CancelOrder(o)
           \/ Reopen(o)
    PROVE  OrderOK(o)'
<1>1. tasks[o] \in Seq(TaskStatuses) /\ OpenTasks(o) = OpenIn(tasks[o])
  BY TasksOf DEF OpenTasks, OpenIn
<1>2. TypeOK' /\ order[o] \in OrderRow
  BY DEF Local, TypeOK
<1>3. held[o] \in {NoUnits, lines[o]}
  BY DEF OrderOK, HoldOK
<1>4. CallOK(o) /\ CardOK(o) /\ HoldOK(o)
  BY DEF OrderOK
<1>5. CASE ConfirmFromOrder(o)
  <2>1. /\ Open(o) /\ order[o].method = "cod"
        /\ order' = [order EXCEPT ![o].confirmation = "confirmed"]
        /\ UNCHANGED <<lines, held, restocked, pending>>
    BY <1>5 DEF ConfirmFromOrder, ApplyOutcome, stock
  <2>2. order'[o] = [order[o] EXCEPT !.confirmation = "confirmed"]
    BY <2>1 DEF TypeOK
  <2>3. tasks'[o] = WithOpenTask(o, "done")
    BY <1>5 DEF ConfirmFromOrder, TypeOK
  <2>4. OpenIn(tasks'[o]) = {}
    BY <1>4, <2>3, OpenAfterSet DEF TaskStatuses
  <2>5. CallOK(o)'
    BY <1>2, <2>2, <2>4, CallFrom DEF Undecided, OrderRow
  <2>6. CardOK(o)' /\ HoldOK(o)'
    BY <1>2, <1>4, <2>1, <2>2 DEF CardOK, HoldOK, Open, NoUnits, OrderRow
  <2>7. QED
    BY <1>2, <2>1, <2>2, <2>5, <2>6, PlacedFrom DEF Open, OrderRow
<1>6. CASE CorrectToRejected(o)
  <2>1. order[o].placed /\ order[o].method = "cod" /\ order[o].cancelled = "no"
    BY <1>1, <1>6, TaskIsCod DEF CorrectToRejected
  <2>2. order'[o] = [order[o] EXCEPT !.confirmation = "rejected"]
    BY <1>6 DEF CorrectToRejected, TypeOK
  <2>3. UNCHANGED <<tasks, restocked, pending>>
    BY <1>6 DEF CorrectToRejected
  <2>4. ~Undecided(o) /\ ~Undecided(o)'
    BY <1>2, <1>6, <2>2 DEF CorrectToRejected, Undecided, OrderRow
  <2>5. OpenIn(tasks'[o]) = {}
    BY <1>1, <1>4, <2>3, <2>4 DEF CallOK
  <2>6. CallOK(o)'
    BY <1>2, <2>4, <2>5, CallFrom
  <2>7. held'[o] = NoUnits /\ lines' = lines
    BY <1>3, <1>6, ReleasingLeavesNone DEF CorrectToRejected, StockOnlyOf
  <2>8. CardOK(o)' /\ HoldOK(o)'
    BY <1>2, <1>4, <2>1, <2>2, <2>3, <2>7 DEF CardOK, HoldOK, Open, NoUnits, OrderRow
  <2>9. QED
    BY <1>2, <2>1, <2>2, <2>6, <2>8, PlacedFrom DEF OrderRow
<1>7. CASE CorrectToConfirmed(o)
  <2>1. order[o].placed /\ order[o].method = "cod" /\ order[o].cancelled = "no"
    BY <1>1, <1>7, TaskIsCod DEF CorrectToConfirmed
  <2>2. order'[o] = [order[o] EXCEPT !.confirmation = "confirmed"]
    BY <1>7 DEF CorrectToConfirmed, TypeOK
  <2>3. UNCHANGED <<tasks, restocked, pending>>
    BY <1>7 DEF CorrectToConfirmed
  <2>4. ~Undecided(o) /\ ~Undecided(o)'
    BY <1>2, <1>7, <2>2 DEF CorrectToConfirmed, Undecided, OrderRow
  <2>5. OpenIn(tasks'[o]) = {}
    BY <1>1, <1>4, <2>3, <2>4 DEF CallOK
  <2>6. CallOK(o)'
    BY <1>2, <2>4, <2>5, CallFrom
  <2>7. held'[o] = lines[o] /\ lines' = lines
    BY <1>3, <1>7, ReservingRestoresAll DEF CorrectToConfirmed, StockOnlyOf
  <2>8. CardOK(o)' /\ HoldOK(o)'
    BY <1>2, <1>4, <2>1, <2>2, <2>3, <2>7 DEF CardOK, HoldOK, Open, NoUnits, OrderRow
  <2>9. QED
    BY <1>2, <2>1, <2>2, <2>6, <2>8, PlacedFrom DEF OrderRow
<1>8. CASE CancelOrder(o)
  <2>1. order[o].placed /\ UNCHANGED <<restocked, pending>>
    BY <1>8 DEF CancelOrder
  <2>2. order'[o] = [order[o] EXCEPT !.cancelled = "merchant", !.confirmation = "rejected"]
    BY <1>8, StateWritten DEF CancelOrder, Cancellations, Confirmations
  <2>3. tasks'[o] = [i \in DOMAIN tasks[o] |-> "done"]
    BY <1>8 DEF CancelOrder, TypeOK
  <2>4. CallOK(o)'
    BY <1>2, <2>2, <2>3, CallFrom DEF OpenIn, Undecided, Open, OrderRow
  <2>5. held'[o] = NoUnits /\ lines' = lines
    BY <1>3, <1>8, ReleasingLeavesNone DEF CancelOrder, StockOnlyOf
  <2>6. tasks[o] = <<>> => tasks'[o] = <<>>
    BY <1>1, <2>3
  <2>7. CardOK(o)' /\ HoldOK(o)'
    BY <1>2, <1>4, <2>1, <2>2, <2>5, <2>6 DEF CardOK, HoldOK, Open, NoUnits, OrderRow
  <2>8. QED
    BY <1>2, <2>1, <2>2, <2>4, <2>7, PlacedFrom DEF OrderRow
<1>9. CASE Reopen(o)
  <2>1. order[o].placed /\ ~Open(o) /\ UNCHANGED <<restocked, pending>>
    BY <1>9 DEF Reopen
  <2>2. order'[o] = [order[o] EXCEPT !.cancelled = "no", !.confirmation = "pending"]
    BY <1>9, StateWritten DEF Reopen, Cancellations, Confirmations
  <2>3. OpenTasks(o) = {}
    BY <1>4, <2>1 DEF CallOK, Undecided
  <2>4. tasks'[o] = IF order[o].method = "cod" THEN Append(tasks[o], "queued") ELSE tasks[o]
    BY <1>9, <2>3 DEF Reopen, TypeOK
  <2>5. Undecided(o)' /\ order'[o].method = order[o].method
    BY <1>2, <2>1, <2>2 DEF Undecided, Open, OrderRow
  <2>6. CallOK(o)'
    <3>1. CASE order[o].method = "cod"
      <4>1. OpenIn(tasks'[o]) = {Len(tasks[o]) + 1}
        BY <1>1, <2>3, <2>4, <3>1, OpenInAppend DEF TaskStatuses
      <4>2. QED
        BY <1>2, <2>5, <3>1, <4>1, CallFrom
    <3>2. CASE order[o].method # "cod"
      BY <1>1, <1>2, <2>3, <2>4, <2>5, <3>2, CallFrom
    <3>3. QED
      BY <3>1, <3>2
  <2>7. held'[o] = lines[o] /\ lines' = lines
    BY <1>3, <1>9, ReservingRestoresAll DEF Reopen, StockOnlyOf
  <2>8. HoldOK(o)'
    BY <1>2, <1>4, <2>1, <2>2, <2>5, <2>7 DEF HoldOK, Undecided, OrderRow
  <2>9. CardOK(o)'
    BY <1>2, <1>4, <2>1, <2>2, <2>4 DEF CardOK, OrderRow
  <2>10. QED
    BY <1>2, <2>1, <2>2, <2>6, <2>8, <2>9, PlacedFrom DEF OrderRow
<1>10. QED
  BY <1>5, <1>6, <1>7, <1>8, <1>9
\* A stage of the call queue is a COD order's: a card order that is paid was
\* never sent for follow-up.
LEMMA CallStageIsCod ==
    ASSUME TypeOK, NEW o \in Orders, OrderOK(o),
           Stage(o) \in {"pending_confirmation", "needs_follow_up"}
    PROVE  order[o].method = "cod"
<1>1. order[o].method \in {"cod", "card"}
  BY DEF TypeOK, OrderRow
<1>2. LatestStatus(o) \notin {"returned", "delivered"}
  BY DEF Stage
<1>3. order[o].method = "card" => order[o].confirmation # "follow_up"
  BY DEF OrderOK, CardOK
<1>4. QED
  BY <1>1, <1>2, <1>3 DEF Stage

\* So do the stage moves and the restocking of a returned parcel ...
LEMMA StageMovesKeep ==
    ASSUME TypeOK, NEW o \in Orders, OrderOK(o), Local(o),
           ReadStage(o) \/ FollowUp(o) \/ BackToQueue(o) \/ RestockReturned(o)
    PROVE  OrderOK(o)'
<1>1. tasks[o] \in Seq(TaskStatuses) /\ OpenTasks(o) = OpenIn(tasks[o])
  BY TasksOf DEF OpenTasks, OpenIn
<1>2. TypeOK' /\ order[o] \in OrderRow
  BY DEF Local, TypeOK
<1>3. held[o] \in {NoUnits, lines[o]}
  BY DEF OrderOK, HoldOK
<1>4. CallOK(o) /\ CardOK(o) /\ HoldOK(o)
  BY DEF OrderOK
<1>5. CASE ReadStage(o)
  <2>1. PICK to \in {"needs_follow_up", "pending_confirmation", "returned"} :
          /\ CASE to = "needs_follow_up" -> Stage(o) = "pending_confirmation"
               [] to = "pending_confirmation" -> Stage(o) = "needs_follow_up"
               [] to = "returned" -> Stage(o) = "delivered" /\ Live(o) = {}
          /\ pending' = [pending EXCEPT ![o] = [kind |-> to]]
    BY <1>5 DEF ReadStage
  <2>2. to \in {"needs_follow_up", "pending_confirmation"} => order[o].method = "cod"
    BY <2>1, CallStageIsCod
  <2>3. order[o].placed /\ UNCHANGED <<order, tasks, lines, held, restocked>>
    BY <1>5 DEF ReadStage, stock
  <2>4. pending'[o].kind = to
    BY <2>1 DEF TypeOK
  <2>5. CardOK(o)'
    BY <1>4, <2>2, <2>3, <2>4 DEF CardOK
  <2>6. HoldOK(o)' /\ CallOK(o)'
    BY <1>4, <2>3 DEF HoldOK, CallOK, Open, Undecided, OpenTasks, NoUnits
  <2>7. QED
    BY <2>3, <2>5, <2>6, PlacedFrom
<1>6. CASE FollowUp(o)
  <2>1. /\ Open(o) /\ order[o].method = "cod"
        /\ order' = [order EXCEPT ![o].confirmation = "follow_up"]
        /\ UNCHANGED <<lines, held, restocked>>
    BY <1>4, <1>6 DEF FollowUp, ApplyOutcome, stock, CardOK
  <2>2. order'[o] = [order[o] EXCEPT !.confirmation = "follow_up"]
    BY <2>1 DEF TypeOK
  <2>3. tasks'[o] = WithOpenTask(o, "queued") /\ pending'[o].kind = "none"
    BY <1>6 DEF FollowUp, AfterOutcome, Decided, None, TypeOK
  <2>4. \E i : OpenIn(tasks'[o]) = {i}
    BY <1>4, <2>3, OpenAfterSet DEF TaskStatuses
  <2>5. CallOK(o)'
    <3>1. Undecided(o)' /\ order'[o].method = "cod"
      BY <1>2, <2>1, <2>2 DEF Undecided, Open, OrderRow
    <3>2. QED
      BY <1>2, <2>4, <3>1, CallFrom
  <2>6. CardOK(o)' /\ HoldOK(o)'
    BY <1>2, <1>4, <2>1, <2>2, <2>3 DEF CardOK, HoldOK, Open, NoUnits, OrderRow
  <2>7. QED
    BY <1>2, <2>1, <2>2, <2>5, <2>6, PlacedFrom DEF Open, OrderRow
<1>7. CASE BackToQueue(o)
  <2>1. /\ Open(o) /\ order[o].method = "cod"
        /\ order' = [order EXCEPT ![o].confirmation = "pending"]
        /\ UNCHANGED <<lines, held, restocked>>
    BY <1>4, <1>7 DEF BackToQueue, stock, CardOK
  <2>2. order'[o] = [order[o] EXCEPT !.confirmation = "pending"]
    BY <2>1 DEF TypeOK
  <2>3. /\ tasks'[o] = IF OpenTasks(o) = {} THEN Append(tasks[o], "queued") ELSE tasks[o]
        /\ pending'[o].kind = "none"
    BY <1>7 DEF BackToQueue, None, TypeOK
  <2>4. \E i : OpenIn(tasks'[o]) = {i}
    <3>1. CASE OpenTasks(o) = {}
      BY <1>1, <2>3, <3>1, OpenInAppend DEF TaskStatuses
    <3>2. CASE OpenTasks(o) # {}
      BY <1>1, <1>4, <2>3, <3>2 DEF CallOK
    <3>3. QED
      BY <3>1, <3>2
  <2>5. CallOK(o)'
    <3>1. Undecided(o)' /\ order'[o].method = "cod"
      BY <1>2, <2>1, <2>2 DEF Undecided, Open, OrderRow
    <3>2. QED
      BY <1>2, <2>4, <3>1, CallFrom
  <2>6. CardOK(o)' /\ HoldOK(o)'
    BY <1>2, <1>4, <2>1, <2>2, <2>3 DEF CardOK, HoldOK, Open, NoUnits, OrderRow
  <2>7. QED
    BY <1>2, <2>1, <2>2, <2>5, <2>6, PlacedFrom DEF Open, OrderRow
<1>8. CASE RestockReturned(o)
  <2>1. order[o].fulfillment = "returned" /\ restocked' = restocked \cup {o}
    BY <1>8 DEF RestockReturned
  <2>2. order[o].placed /\ UNCHANGED <<order, tasks, pending>>
    BY <1>8, <2>1 DEF RestockReturned, OrderOK, FreshOK
  <2>3. held'[o] = NoUnits
    BY <1>3, <1>8, ReleasingLeavesNone DEF RestockReturned
  <2>4. HoldOK(o)'
    BY <2>1, <2>2, <2>3 DEF HoldOK, NoUnits
  <2>5. CardOK(o)' /\ CallOK(o)'
    BY <1>4, <2>2 DEF CardOK, CallOK, Open, Undecided, OpenTasks
  <2>6. QED
    BY <2>2, <2>4, <2>5, PlacedFrom
<1>9. QED
  BY <1>5, <1>6, <1>7, <1>8
\* ... the deadline, the switch to COD and every outcome of a payment ...
LEMMA PaymentStepsKeep ==
    ASSUME TypeOK, NEW o \in Orders, OrderOK(o), Local(o), PaymentStep(o)
    PROVE  OrderOK(o)'
<1>1. TypeOK' /\ order[o] \in OrderRow
  BY DEF Local, TypeOK
<1>2. tasks[o] \in Seq(TaskStatuses) /\ OpenTasks(o) = OpenIn(tasks[o])
  BY TasksOf DEF OpenTasks, OpenIn
<1>3. held[o] \in {NoUnits, lines[o]}
  BY DEF OrderOK, HoldOK
<1>4. CallOK(o) /\ CardOK(o) /\ HoldOK(o)
  BY DEF OrderOK
<1>5. order[o].method = "card" => OpenIn(tasks[o]) = {}
  BY <1>4 DEF CardOK, OpenIn
<1>6. ~order[o].placed => order[o].method = "cod"
  BY DEF OrderOK, FreshOK
<1>7. ASSUME StartAttempt(o) \/ RetryPayment(o) \/ TimeRunsOut(o) PROVE OrderOK(o)'
  <2>1. \/ order'[o] = [order[o] EXCEPT !.attempt = "started"]
        \/ order'[o] = [order[o] EXCEPT !.attempt = "started", !.expires = "later"]
        \/ order'[o] = [order[o] EXCEPT !.expires = "past"]
    BY <1>7 DEF StartAttempt, RetryPayment, TimeRunsOut, TypeOK
  <2>2. /\ order'[o].placed = order[o].placed
        /\ order'[o].method = order[o].method
        /\ order'[o].confirmation = order[o].confirmation
        /\ order'[o].cancelled = order[o].cancelled
        /\ order'[o].fulfillment = order[o].fulfillment
    BY <1>1, <2>1 DEF OrderRow
  <2>3. UNCHANGED <<tasks, lines, held, restocked, pending>>
    BY <1>7 DEF StartAttempt, RetryPayment, TimeRunsOut, stock
  <2>4. order[o].placed
    BY <1>7 DEF StartAttempt, RetryPayment, TimeRunsOut, AwaitingPayment, OrderOK, FreshOK
  <2>5. QED
    BY <2>2, <2>3, <2>4, QuietKeeps
<1>8. ASSUME ExpireOrder(o) PROVE OrderOK(o)'
  <2>1. order[o].method = "card" /\ order[o].placed
    BY <1>6, <1>8 DEF ExpireOrder
  <2>2. order'[o] = [order[o] EXCEPT !.cancelled = "expired"]
    BY <1>8 DEF ExpireOrder, TypeOK
  <2>3. order[o].cancelled = "no" /\ UNCHANGED <<tasks, restocked, pending>>
    BY <1>8 DEF ExpireOrder
  <2>4. held'[o] = NoUnits /\ lines' = lines
    BY <1>3, <1>8, ReleasingLeavesNone DEF ExpireOrder, StockOnlyOf
  <2>5. CallOK(o)'
    BY <1>1, <1>5, <2>1, <2>2, <2>3, CallFrom DEF Undecided, Open, OrderRow
  <2>6. CardOK(o)' /\ HoldOK(o)'
    BY <1>1, <1>4, <2>1, <2>2, <2>3, <2>4 DEF CardOK, HoldOK, Open, NoUnits, OrderRow
  <2>7. QED
    BY <1>1, <2>1, <2>2, <2>5, <2>6, PlacedFrom DEF OrderRow
<1>9. ASSUME SwitchToCod(o) PROVE OrderOK(o)'
  <2>1. order[o].method = "card" /\ order[o].placed /\ order[o].cancelled = "no"
    BY <1>9 DEF SwitchToCod, AwaitingPayment
  <2>2. order'[o] = [order[o] EXCEPT !.method = "cod", !.expires = "none"]
    BY <1>9 DEF SwitchToCod, TypeOK
  <2>3. UNCHANGED <<lines, held, restocked, pending>>
    BY <1>9 DEF SwitchToCod, stock
  <2>4. OpenIn(tasks'[o]) = {Len(tasks[o]) + 1}
    BY <1>2, <1>5, <1>9, <2>1, OpenInAppend DEF SwitchToCod, TypeOK, TaskStatuses
  <2>5. order[o].confirmation = "pending"
    BY <1>4, <2>1 DEF CardOK
  <2>6. CallOK(o)'
    BY <1>1, <2>1, <2>2, <2>4, <2>5, CallFrom DEF Undecided, Open, OrderRow
  <2>7. CardOK(o)' /\ HoldOK(o)'
    BY <1>1, <1>4, <2>1, <2>2, <2>3, <2>5 DEF CardOK, HoldOK, Open, NoUnits, OrderRow
  <2>8. QED
    BY <1>1, <2>1, <2>2, <2>6, <2>7, PlacedFrom DEF OrderRow
<1>10. ASSUME NEW counts \in BOOLEAN
       PROVE  /\ Captured(o, counts) \in OrderRow
              /\ Captured(o, counts).placed = order[o].placed
              /\ Captured(o, counts).method = order[o].method
              /\ Captured(o, counts).confirmation = order[o].confirmation
              /\ Captured(o, counts).cancelled = order[o].cancelled
              /\ Captured(o, counts).fulfillment = order[o].fulfillment
  <2> DEFINE r(b) == [order[o] EXCEPT !.attempt = "captured", !.paid = b]
  <2>1. \A b \in BOOLEAN :
          /\ r(b).placed = order[o].placed
          /\ r(b).method = order[o].method
          /\ r(b).confirmation = order[o].confirmation
          /\ r(b).cancelled = order[o].cancelled
          /\ r(b).fulfillment = order[o].fulfillment
    BY <1>1 DEF OrderRow
  <2>2. Captured(o, counts) = r(order[o].paid \/ counts)
    BY Zenon DEF Captured
  <2>3. (order[o].paid \/ counts) \in BOOLEAN
    OBVIOUS
  <2> HIDE DEF r
  <2>4. QED
    BY <2>1, <2>2, <2>3, CapturedTyped, Zenon
<1>11. ASSUME NEW counts \in BOOLEAN,
              CaptureFlagged(o, counts) \/ CaptureStanding(o, counts)
       PROVE  OrderOK(o)'
  <2>1. /\ order'[o].placed = order[o].placed
        /\ order'[o].method = order[o].method
        /\ order'[o].confirmation = order[o].confirmation
        /\ order'[o].cancelled = order[o].cancelled
        /\ order'[o].fulfillment = order[o].fulfillment
    BY <1>10, <1>11 DEF CaptureFlagged, CaptureStanding, OrderRow, TypeOK
  <2>2. order[o].placed /\ UNCHANGED <<tasks, lines, held, restocked, pending>>
    BY <1>11 DEF CaptureFlagged, CaptureStanding, CapturableAttempt, stock
  <2>3. QED
    BY <2>1, <2>2, QuietKeeps
<1>12. ASSUME NEW counts \in BOOLEAN, CaptureBlocked(o, counts) PROVE OrderOK(o)'
  <2>1. /\ order[o].placed /\ order[o].method = "card"
        /\ order[o].cancelled \in {"no", "expired"}
        /\ UNCHANGED <<tasks, restocked, pending>>
    BY <1>12 DEF CaptureBlocked, CapturableAttempt, BecomesSale
  <2>2. /\ order'[o].placed /\ order'[o].method = "card"
        /\ order'[o].confirmation = order[o].confirmation
        /\ order'[o].cancelled = "blocked"
        /\ order'[o].fulfillment = order[o].fulfillment
    BY <1>10, <1>12, <2>1 DEF CaptureBlocked, OrderRow, TypeOK
  <2>3. held'[o] \in {NoUnits, held[o]} /\ lines' = lines
        /\ (order[o].cancelled = "no" => held'[o] = NoUnits)
    BY <1>3, <1>12, ReleasingLeavesNone, StockUntouched DEF CaptureBlocked, StockOnlyOf
  <2>4. CallOK(o)'
    BY <1>1, <1>5, <2>1, <2>2, CallFrom DEF Undecided, Open
  <2>5. CardOK(o)'
    BY <1>4, <2>1, <2>2 DEF CardOK
  <2>6. HoldOK(o)'
    BY <1>3, <1>4, <2>1, <2>2, <2>3 DEF HoldOK, Open, NoUnits
  <2>7. QED
    BY <2>2, <2>4, <2>5, <2>6, PlacedFrom
<1>13. ASSUME NEW counts \in BOOLEAN, CaptureReopens(o, counts) PROVE OrderOK(o)'
  <2>1. /\ order[o].placed /\ order[o].cancelled = "expired"
        /\ UNCHANGED <<tasks, restocked, pending>>
    BY <1>13 DEF CaptureReopens, CapturableAttempt
  <2>2. order[o].method = "card" /\ order[o].confirmation = "pending"
    BY <1>4, <2>1 DEF CardOK
  <2>3. /\ order'[o].placed /\ order'[o].method = "card"
        /\ order'[o].confirmation = "pending"
        /\ order'[o].cancelled = "no"
        /\ order'[o].fulfillment = order[o].fulfillment
    BY <1>10, <1>13, <2>1, <2>2 DEF CaptureReopens, OrderRow, TypeOK
  <2>4. held'[o] = lines[o] /\ lines' = lines
    BY <1>3, <1>13, ReservingRestoresAll DEF CaptureReopens, StockOnlyOf
  <2>5. CallOK(o)'
    BY <1>1, <1>5, <2>1, <2>2, <2>3, CallFrom
  <2>6. CardOK(o)' /\ HoldOK(o)'
    BY <1>4, <2>1, <2>2, <2>3, <2>4 DEF CardOK, HoldOK, Open, NoUnits
  <2>7. QED
    BY <2>3, <2>5, <2>6, PlacedFrom
<1>14. QED
  BY <1>7, <1>8, <1>9, <1>11, <1>12, <1>13 DEF PaymentStep
\* ... placing the order and editing its items ...
LEMMA ItemsStepsKeep ==
    ASSUME TypeOK, NEW o \in Orders, OrderOK(o), Local(o), NEW units \in OrderUnits,
           \/ \E method \in {"cod", "card"} : PlaceOrder(o, method, units)
           \/ EditItems(o, units)
    PROVE  OrderOK(o)'
<1>1. TypeOK' /\ order[o] \in OrderRow
  BY DEF Local, TypeOK
<1>2. CallOK(o) /\ CardOK(o) /\ HoldOK(o)
  BY DEF OrderOK
<1>3. units \in [Variants -> Nat] /\ \A v \in Variants : units[v] \in Nat
  BY BoundsAssumption DEF OrderUnits, Units
<1>4. ASSUME NEW method \in {"cod", "card"}, PlaceOrder(o, method, units) PROVE OrderOK(o)'
  <2>1. /\ ~order[o].placed
        /\ o \notin restocked
        /\ pending[o] = None
        /\ order[o].confirmation = "pending"
        /\ order[o].cancelled = "no"
        /\ UNCHANGED <<restocked, pending>>
    BY <1>4 DEF PlaceOrder, OrderOK, FreshOK
  <2>2. /\ order'[o].placed
        /\ order'[o].method = method
        /\ order'[o].confirmation = "pending"
        /\ order'[o].cancelled = "no"
    BY <1>1, <1>4, <2>1 DEF PlaceOrder, OrderRow, TypeOK
  <2>3. Undecided(o)'
    BY <2>2 DEF Undecided, Open
  <2>4. tasks'[o] = IF method = "cod" THEN <<"queued">> ELSE <<>>
    BY <1>4 DEF PlaceOrder, TypeOK
  <2>5. CallOK(o)'
    <3>1. CASE method = "cod"
      <4>1. OpenIn(tasks'[o]) = {1}
        BY <2>4, <3>1 DEF OpenIn
      <4>2. QED
        BY <1>1, <2>2, <2>3, <3>1, <4>1, CallFrom
    <3>2. CASE method # "cod"
      <4>1. OpenIn(tasks'[o]) = {}
        BY <2>4, <3>2 DEF OpenIn
      <4>2. QED
        BY <1>1, <2>2, <3>2, <4>1, CallFrom
    <3>3. QED
      BY <3>1, <3>2
  <2>6. HoldOK(o)'
    <3>1. held[o] = NoUnits
      BY <1>2, <2>1 DEF HoldOK, Open
    <3>2. held'[o] = [v \in Variants |-> held[o][v] + units[v]]
      BY <1>3, <1>4, ReserveTakes DEF PlaceOrder
    <3>3. \A v \in Variants : held[o][v] + units[v] = units[v]
      BY <1>3, <3>1 DEF NoUnits
    <3>4. held'[o] = units /\ lines'[o] = units
      BY <1>3, <1>4, <3>2, <3>3 DEF PlaceOrder, TypeOK
    <3>5. QED
      BY <2>1, <2>3, <3>4 DEF HoldOK, Undecided
  <2>7. CardOK(o)'
    BY <2>1, <2>2, <2>4 DEF CardOK, None
  <2>8. QED
    BY <2>2, <2>5, <2>6, <2>7, PlacedFrom
<1>5. ASSUME EditItems(o, units) PROVE OrderOK(o)'
  <2>1. /\ Open(o) /\ order[o].placed
        /\ order[o].fulfillment = "unfulfilled"
        /\ UNCHANGED <<order, tasks, restocked, pending>>
    BY <1>5 DEF EditItems, NotShipped, Open
  <2>2. o \notin restocked /\ held[o] = lines[o]
    BY <1>2, <2>1 DEF HoldOK
  <2>3. held'[o] = [v \in Variants |-> held[o][v] + units[v] - lines[o][v]]
    BY <1>5 DEF EditItems, TypeOK
  <2>4. \A v \in Variants : held[o][v] + units[v] - lines[o][v] = units[v]
    BY <1>3, <2>2, StockValues
  <2>5. held'[o] = units /\ lines'[o] = units
    BY <1>3, <1>5, <2>3, <2>4 DEF EditItems, TypeOK
  <2>6. HoldOK(o)'
    BY <2>1, <2>2, <2>5 DEF HoldOK, Open
  <2>7. CardOK(o)' /\ CallOK(o)'
    BY <1>2, <2>1 DEF CardOK, CallOK, Open, Undecided, OpenTasks
  <2>8. QED
    BY <2>1, <2>6, <2>7, PlacedFrom
<1>6. QED
  BY <1>4, <1>5

\* ... so every step on the order does.
LEMMA OrderStepKeeps ==
    ASSUME TypeOK, NEW o \in Orders, OrderOK(o), Local(o), OrderStep(o)
    PROVE  OrderOK(o)'
<1>1. CASE TaskStep(o)
  BY <1>1, CallStepsKeep, DecidingStepsKeep DEF TaskStep
<1>2. CASE StageStep(o)
  BY <1>2, StageMovesKeep, DecidingStepsKeep, QuietShipmentSteps DEF StageStep
<1>3. CASE ShipmentStep(o)
  BY <1>3, StageMovesKeep, QuietShipmentSteps DEF ShipmentStep
<1>4. CASE PaymentStep(o)
  BY <1>4, PaymentStepsKeep
<1>5. ASSUME NEW units \in OrderUnits,
             \/ \E method \in {"cod", "card"} : PlaceOrder(o, method, units)
             \/ EditItems(o, units)
      PROVE  OrderOK(o)'
  BY <1>5, ItemsStepsKeep
<1>6. QED
  BY <1>1, <1>2, <1>3, <1>4, <1>5 DEF OrderStep

-----------------------------------------------------------------------------
(* The theorems.                                                           *)

\* The invariant holds at first ...
LEMMA OrderInvInit == Init => OrderInv
<1> SUFFICES ASSUME Init PROVE OrderInv
  OBVIOUS
<1>1. ASSUME NEW o \in Orders PROVE OrderOK(o)
  <2>1. FreshOK(o) /\ CardOK(o)
    BY DEF Init, FreshOK, CardOK, None
  <2>2. HoldOK(o)
    BY DEF Init, HoldOK, NoUnits, Open
  <2>3. CallOK(o)
    BY DEF Init, CallOK, OpenTasks, Undecided, Open
  <2>4. QED
    BY <2>1, <2>2, <2>3 DEF OrderOK
<1>2. QED
  BY <1>1, TypeInit DEF OrderInv

\* ... and every step keeps it, for every order.
LEMMA OrderInvStep == OrderInv /\ [Next]_vars => OrderInv'
<1> SUFFICES ASSUME OrderInv, [Next]_vars PROVE \A p \in Orders : OrderOK(p)'
  BY TypeStep DEF OrderInv
<1> USE DEF OrderInv
<1>1. ASSUME NEW o \in Orders, OrderStep(o), NEW p \in Orders PROVE OrderOK(p)'
  <2>1. Local(o)
    BY <1>1, OrderStepLocal
  <2>2. CASE p = o
    BY <1>1, <2>1, <2>2, OrderStepKeeps
  <2>3. CASE p # o
    BY <2>1, <2>3, OthersKeep DEF Local
  <2>4. QED
    BY <2>2, <2>3
<1>2. ASSUME NEW v \in Variants, NEW count \in 0..MaxOnHand, SetStock(v, count),
             NEW p \in Orders
      PROVE  OrderOK(p)'
  <2>1. SameAt(p)
    BY <1>2 DEF SetStock, SameAt, stock
  <2>2. QED
    BY <2>1, OthersKeep
<1>3. ASSUME UNCHANGED vars, NEW p \in Orders PROVE OrderOK(p)'
  <2>1. SameAt(p)
    BY <1>3 DEF vars, SameAt
  <2>2. QED
    BY <2>1, OthersKeep
<1>4. QED
  BY <1>1, <1>2, <1>3 DEF Next

\* Between any two steps every order satisfies FreshOK, CardOK, HoldOK and CallOK:
\* the strengthening that makes the next four properties inductive.
THEOREM OrdersInvariant == Spec => []OrderInv
  BY OrderInvInit, OrderInvStep, PTL DEF Spec

\* An order holds exactly the units it was placed with while it is open and
\* none otherwise, whichever of a call, a person, a deadline or a payment ends
\* it or brings it back, in any order and any number of times.
THEOREM UnitsFollowOrder == Spec => []HoldsFollowOrder
<1>1. OrderInv => HoldsFollowOrder
  BY DEF OrderInv, OrderOK, HoldOK, HoldsFollowOrder
<1>2. QED
  BY <1>1, OrdersInvariant, PTL

\* After its returned parcel was put back on the shelf, an order still holds
\* all of its units or none: a new parcel takes them once.
THEOREM RestockedTakenOnce == Spec => []RestockedAllOrNone
<1>1. OrderInv => RestockedAllOrNone
  BY DEF OrderInv, OrderOK, HoldOK, RestockedAllOrNone, TypeOK
<1>2. QED
  BY <1>1, OrdersInvariant, PTL

\* A COD order has one open confirmation task while it waits for a decision;
\* one decided, cancelled or not paid on delivery has none.
THEOREM EveryOrderIsCalledOnce == Spec => []CallsFollowOrder
<1>1. OrderInv => OneCallAtATime
  BY DEF OrderInv, OrderOK, CallOK, OneCallAtATime
<1>2. OrderInv => NoOrderForgotten
  BY DEF OrderInv, OrderOK, CallOK, NoOrderForgotten
<1>3. OrderInv => CallsFollowOrder
  BY <1>1, <1>2 DEF CallsFollowOrder
<1>4. QED
  BY <1>3, OrdersInvariant, PTL
-----------------------------------------------------------------------------
(* What a step may reserve.                                                *)

WithinStock ==
  \A v \in Variants \ Oversell :
    reservedStock'[v] > reservedStock[v] => reservedStock'[v] <= onHand[v]

\* The counters of one variant are numbers.
LEMMA StockNumbers ==
    ASSUME TypeOK, NEW v \in Variants
    PROVE  reservedStock[v] \in Nat /\ onHand[v] \in Nat
<1>1. onHand[v] \in 0..MaxOnHand
  BY DEF TypeOK
<1>2. QED
  BY <1>1, BoundsAssumption DEF TypeOK

\* A reservation takes no more than what is available.
LEMMA ReservesWithinStock ==
    ASSUME TypeOK, NEW o \in Orders, NEW need \in [Variants -> Nat], Reserve(o, need)
    PROVE  WithinStock
<1> SUFFICES ASSUME NEW v \in Variants, v \notin Oversell, reservedStock'[v] > reservedStock[v]
             PROVE  reservedStock'[v] <= onHand[v]
  BY DEF WithinStock
<1>1. reservedStock'[v] = reservedStock[v] + need[v] /\ need[v] \in Nat
  BY DEF Reserve
<1>2. need[v] > 0 => onHand[v] - reservedStock[v] >= need[v]
  BY DEF Reserve, CanReserve
<1>3. QED
  BY <1>1, <1>2, StockNumbers

\* So does taking back an order's units ...
LEMMA OrderStockWithinStock ==
    ASSUME TypeOK, NEW o \in Orders, ReserveOrderStock(o) \/ RetakeForReship(o)
    PROVE  WithinStock
<1>1. ASSUME ReserveOrderStock(o) PROVE WithinStock
  BY <1>1, DueIsNat, ReservesWithinStock DEF ReserveOrderStock
<1>2. ASSUME UNCHANGED reservedStock PROVE WithinStock
  BY <1>2, StockNumbers DEF WithinStock
<1>3. QED
  BY <1>1, <1>2 DEF RetakeForReship, stock

\* ... giving them back takes nothing ...
LEMMA ReleasesWithinStock ==
    ASSUME TypeOK, NEW o \in Orders, ReleaseHeld(o)
    PROVE  WithinStock
<1> SUFFICES ASSUME NEW v \in Variants PROVE ~(reservedStock'[v] > reservedStock[v])
  BY DEF WithinStock
<1>1. reservedStock'[v] = Positive(reservedStock[v] - Positive(held[o][v]))
  BY DEF ReleaseHeld
<1>2. QED
  BY <1>1, StockValues DEF Positive

\* ... and an edit takes no more than it adds.
LEMMA EditWithinStock ==
    ASSUME TypeOK, NEW o \in Orders, NEW units \in OrderUnits, EditItems(o, units)
    PROVE  WithinStock
<1> SUFFICES ASSUME NEW v \in Variants, v \notin Oversell, reservedStock'[v] > reservedStock[v]
             PROVE  reservedStock'[v] <= onHand[v]
  BY DEF WithinStock
<1>1. units[v] \in Nat /\ lines[o][v] \in Nat
  BY BoundsAssumption, StockValues DEF OrderUnits, Units
<1>2. reservedStock'[v] = Positive(reservedStock[v] + units[v] - lines[o][v])
  BY DEF EditItems
<1>3. units[v] - lines[o][v] > 0 => onHand[v] - reservedStock[v] >= units[v] - lines[o][v]
  BY DEF EditItems, CanReserve
<1>4. QED
  BY <1>1, <1>2, <1>3, StockNumbers DEF Positive

\* No step of any handler takes the reserved units of a variant that does not
\* oversell above the units on hand.
THEOREM NothingOversold == Spec => NeverOversold
<1>1. ASSUME TypeOK, Next, NEW v \in Variants \ Oversell,
             reservedStock'[v] > reservedStock[v]
      PROVE  reservedStock'[v] <= onHand[v]
  <2>1. ASSUME UNCHANGED reservedStock PROVE WithinStock
    BY <1>1, <2>1, StockNumbers DEF WithinStock
  <2>2. ASSUME NEW o \in Orders, TaskStep(o) PROVE WithinStock
    BY <1>1, <2>1, <2>2, OrderStockWithinStock, ReleasesWithinStock
    DEF TaskStep, ClaimTask, ReleaseTask, RecordOutcome, ConfirmFromOrder,
        CorrectToRejected, CorrectToConfirmed, ApplyOutcome, stock
  <2>3. ASSUME NEW o \in Orders, StageStep(o) PROVE WithinStock
    BY <1>1, <2>1, <2>3, OrderStockWithinStock, ReleasesWithinStock
    DEF StageStep, ReadStage, FollowUp, BackToQueue, MarkReturned, CancelOrder, Reopen,
        ApplyOutcome, stock
  <2>4. ASSUME NEW o \in Orders, ShipmentStep(o) PROVE WithinStock
    BY <1>1, <2>1, <2>4, OrderStockWithinStock, ReleasesWithinStock
    DEF ShipmentStep, CreateShipment, ReadShipment, PatchShipment, DropRequest,
        CarrierReport, RestockReturned, stock
  <2>5. ASSUME NEW o \in Orders, PaymentStep(o) PROVE WithinStock
    BY <1>1, <2>1, <2>5, OrderStockWithinStock, ReleasesWithinStock
    DEF PaymentStep, StartAttempt, RetryPayment, TimeRunsOut, ExpireOrder, SwitchToCod,
        CaptureBlocked, CaptureReopens, CaptureFlagged, CaptureStanding, stock
  <2>6. ASSUME NEW o \in Orders, NEW units \in OrderUnits,
               \/ \E method \in {"cod", "card"} : PlaceOrder(o, method, units)
               \/ EditItems(o, units)
        PROVE  WithinStock
    <3>1. units \in [Variants -> Nat]
      BY BoundsAssumption DEF OrderUnits, Units
    <3>2. QED
      BY <1>1, <2>6, <3>1, ReservesWithinStock, EditWithinStock DEF PlaceOrder
  <2>7. ASSUME NEW u \in Variants, NEW count \in 0..MaxOnHand, SetStock(u, count)
        PROVE  WithinStock
    BY <2>1, <2>7 DEF SetStock, stock
  <2>8. WithinStock
    BY <1>1, <2>2, <2>3, <2>4, <2>5, <2>6, <2>7 DEF Next, OrderStep
  <2>9. QED
    BY <1>1, <2>8 DEF WithinStock
<1>2. TypeOK /\ [Next]_vars =>
        [\A v \in Variants \ Oversell :
           reservedStock'[v] > reservedStock[v] => reservedStock'[v] <= onHand[v]]_vars
  BY <1>1
<1>3. QED
  BY <1>2, TypeCorrect, PTL DEF Spec, NeverOversold
-----------------------------------------------------------------------------
(* The reserved counter of a variant is what the orders hold of it.         *)

\* What each order holds of a variant.
HeldOf(v) == [o \in Orders |-> held[o][v]]

CountersAddUp == \A v \in Variants : reservedStock[v] = SumOver(HeldOf(v), Orders)

\* A step on one order: its units move and the counters move with them, stopping
\* at zero.
CountersFollow(o) ==
  \A v \in Variants :
    reservedStock'[v] = Positive(reservedStock[v] + held'[o][v] - held[o][v])

\* Counters and units that stay where they are.
LEMMA UntouchedCounts ==
    ASSUME TypeOK, NEW o \in Orders, UNCHANGED <<held, reservedStock>>
    PROVE  CountersFollow(o)
  BY StockValues DEF CountersFollow, Positive

\* A reservation.
LEMMA ReserveCounts ==
    ASSUME TypeOK, NEW o \in Orders, NEW need \in [Variants -> Nat], Reserve(o, need)
    PROVE  CountersFollow(o)
<1> SUFFICES ASSUME NEW v \in Variants
             PROVE  reservedStock'[v] = Positive(reservedStock[v] + held'[o][v] - held[o][v])
  BY DEF CountersFollow
<1>1. held'[o] = [u \in Variants |-> held[o][u] + need[u]]
  BY ReserveTakes
<1>2. reservedStock'[v] = reservedStock[v] + need[v]
  BY DEF Reserve
<1>3. need[v] \in Nat
  OBVIOUS
<1>4. QED
  BY <1>1, <1>2, <1>3, StockValues DEF Positive

\* A release: what it takes off the counter is what the order gives back.
LEMMA ReleaseCounts ==
    ASSUME TypeOK, NEW o \in Orders, ReleaseHeld(o)
    PROVE  CountersFollow(o)
<1> SUFFICES ASSUME NEW v \in Variants
             PROVE  reservedStock'[v] = Positive(reservedStock[v] + held'[o][v] - held[o][v])
  BY DEF CountersFollow
<1>1. held'[o][v] = held[o][v] - Positive(held[o][v])
  BY DEF ReleaseHeld, TypeOK
<1>2. reservedStock'[v] = Positive(reservedStock[v] - Positive(held[o][v]))
  BY DEF ReleaseHeld
<1>3. reservedStock[v] + held'[o][v] - held[o][v] = reservedStock[v] - Positive(held[o][v])
  BY <1>1, StockValues DEF Positive
<1>4. QED
  BY <1>2, <1>3

\* Taking back an order's units.
LEMMA TakingBackCounts ==
    ASSUME TypeOK, NEW o \in Orders, ReserveOrderStock(o) \/ RetakeForReship(o)
    PROVE  CountersFollow(o)
  BY DueIsNat, ReserveCounts, UntouchedCounts DEF ReserveOrderStock, RetakeForReship, stock

\* An edit of the order's lines.
LEMMA EditCounts ==
    ASSUME TypeOK, NEW o \in Orders, NEW units \in OrderUnits, EditItems(o, units)
    PROVE  CountersFollow(o)
<1> SUFFICES ASSUME NEW v \in Variants
             PROVE  reservedStock'[v] = Positive(reservedStock[v] + held'[o][v] - held[o][v])
  BY DEF CountersFollow
<1>1. units[v] \in Nat
  BY BoundsAssumption DEF OrderUnits, Units
<1>2. held'[o][v] = held[o][v] + units[v] - lines[o][v]
  BY DEF EditItems, TypeOK
<1>3. reservedStock'[v] = Positive(reservedStock[v] + units[v] - lines[o][v])
  BY DEF EditItems
<1>4. reservedStock[v] + held'[o][v] - held[o][v] = reservedStock[v] + units[v] - lines[o][v]
  BY <1>1, <1>2, StockValues
<1>5. QED
  BY <1>3, <1>4

\* Whatever is done to an order, counters and units move together.
LEMMA OrderStepCounts ==
    ASSUME TypeOK, NEW o \in Orders, OrderStep(o)
    PROVE  CountersFollow(o)
<1>1. ASSUME UNCHANGED <<held, reservedStock>> PROVE CountersFollow(o)
  BY <1>1, UntouchedCounts
<1>2. CASE TaskStep(o)
  BY <1>1, <1>2, TakingBackCounts, ReleaseCounts
  DEF TaskStep, ClaimTask, ReleaseTask, RecordOutcome, ConfirmFromOrder,
      CorrectToRejected, CorrectToConfirmed, ApplyOutcome, stock
<1>3. CASE StageStep(o)
  BY <1>1, <1>3, TakingBackCounts, ReleaseCounts
  DEF StageStep, ReadStage, FollowUp, BackToQueue, MarkReturned, CancelOrder, Reopen,
      ApplyOutcome, stock
<1>4. CASE ShipmentStep(o)
  BY <1>1, <1>4, TakingBackCounts, ReleaseCounts
  DEF ShipmentStep, CreateShipment, ReadShipment, PatchShipment, DropRequest,
      CarrierReport, RestockReturned, stock
<1>5. CASE PaymentStep(o)
  BY <1>1, <1>5, TakingBackCounts, ReleaseCounts
  DEF PaymentStep, StartAttempt, RetryPayment, TimeRunsOut, ExpireOrder, SwitchToCod,
      CaptureBlocked, CaptureReopens, CaptureFlagged, CaptureStanding, stock
<1>6. ASSUME NEW units \in OrderUnits,
             \/ \E method \in {"cod", "card"} : PlaceOrder(o, method, units)
             \/ EditItems(o, units)
      PROVE  CountersFollow(o)
  <2>1. units \in [Variants -> Nat]
    BY BoundsAssumption DEF OrderUnits, Units
  <2>2. QED
    BY <1>6, <2>1, ReserveCounts, EditCounts DEF PlaceOrder
<1>7. QED
  BY <1>2, <1>3, <1>4, <1>5, <1>6 DEF OrderStep

\* No order ever owes units.
UnitsAreNat == \A o \in Orders, v \in Variants : held[o][v] \in Nat

LEMMA HeldIsNat == OrderInv => UnitsAreNat
<1> SUFFICES ASSUME OrderInv, NEW o \in Orders, NEW v \in Variants PROVE held[o][v] \in Nat
  BY DEF UnitsAreNat
<1>1. held[o] \in {NoUnits, lines[o]}
  BY DEF OrderInv, OrderOK, HoldOK
<1>2. QED
  BY <1>1, StockValues DEF OrderInv, NoUnits

\* So a counter that follows one order's units never stops at zero, and stays
\* what the orders hold.
LEMMA CountersStep ==
    ASSUME UnitsAreNat, UnitsAreNat', CountersAddUp, NEW o \in Orders, CountersFollow(o),
           \A p \in Orders \ {o} : held'[p] = held[p]
    PROVE  CountersAddUp'
<1> SUFFICES ASSUME NEW v \in Variants
             PROVE  reservedStock'[v] = SumOver(HeldOf(v)', Orders)
  BY DEF CountersAddUp
<1>1. \A p \in Orders : HeldOf(v)[p] = held[p][v] /\ HeldOf(v)'[p] = held'[p][v]
  BY DEF HeldOf
<1>2. \A p \in Orders : HeldOf(v)[p] \in Nat /\ HeldOf(v)'[p] \in Nat
  BY <1>1 DEF UnitsAreNat
<1>3. \A p \in Orders \ {o} : HeldOf(v)'[p] = HeldOf(v)[p]
  BY <1>1
<1>4. SumOver(HeldOf(v)', Orders) = SumOver(HeldOf(v), Orders) - HeldOf(v)[o] + HeldOf(v)'[o]
  BY <1>2, <1>3, OrdersAssumption, SumChanges
<1>5. SumOver(HeldOf(v)', Orders) \in Nat /\ SumOver(HeldOf(v), Orders) \in Nat
  BY <1>2, OrdersAssumption, SumNat
<1>6. reservedStock[v] = SumOver(HeldOf(v), Orders)
  BY DEF CountersAddUp
<1>7. held'[o][v] \in Nat /\ held[o][v] \in Nat
  BY <1>1, <1>2
<1>8. SumOver(HeldOf(v)', Orders) = reservedStock[v] + held'[o][v] - held[o][v]
  BY <1>1, <1>4, <1>5, <1>6, <1>7
<1>9. reservedStock'[v] = Positive(reservedStock[v] + held'[o][v] - held[o][v])
  BY DEF CountersFollow
<1>10. QED
  BY <1>5, <1>8, <1>9 DEF Positive

\* The counters start at nothing held ...
LEMMA CountersInit == Init => CountersAddUp
<1> SUFFICES ASSUME Init, NEW v \in Variants PROVE reservedStock[v] = SumOver(HeldOf(v), Orders)
  BY DEF CountersAddUp
<1>1. \A o \in Orders : HeldOf(v)[o] = 0
  BY DEF Init, HeldOf
<1>2. SumOver(HeldOf(v), Orders) = SumOver(HeldOf(v), {})
  BY <1>1, OrdersAssumption, FS_EmptySet, SumOfPart
<1>3. QED
  BY <1>2, SumEmpty DEF Init

\* ... and every step keeps them.
LEMMA CountersKept == OrderInv /\ OrderInv' /\ CountersAddUp /\ [Next]_vars => CountersAddUp'
<1> SUFFICES ASSUME OrderInv, OrderInv', CountersAddUp, [Next]_vars PROVE CountersAddUp'
  OBVIOUS
<1>1. ASSUME NEW o \in Orders, OrderStep(o) PROVE CountersAddUp'
  <2>1. Local(o) /\ CountersFollow(o)
    BY <1>1, OrderStepLocal, OrderStepCounts DEF OrderInv
  <2>2. \A p \in Orders \ {o} : held'[p] = held[p]
    BY <2>1 DEF Local, SameAt
  <2>3. UnitsAreNat /\ UnitsAreNat'
    BY HeldIsNat, PTL
  <2>4. QED
    BY <2>1, <2>2, <2>3, CountersStep
<1>2. ASSUME UNCHANGED <<held, reservedStock>> PROVE CountersAddUp'
  BY <1>2 DEF CountersAddUp, HeldOf
<1>3. QED
  BY <1>1, <1>2 DEF Next, SetStock, vars, stock

\* The sum of the property, as a sum of a function.
LEMMA HeldAdds ==
    ASSUME NEW v
    PROVE  MapThenSumSet(LAMBDA o : held[o][v], Orders) = SumOver(HeldOf(v), Orders)
<1> DEFINE Sums(h) == h = [s \in SUBSET Orders |-> IF s = {} THEN 0
                             ELSE held[PickOf(s)][v] + h[s \ {PickOf(s)}]]
           h == CHOOSE h : Sums(h)
<1>1. \A s \in SUBSET Orders : s # {} => PickOf(s) \in s
  BY DEF PickOf
<1>2. PICK g : Adds(g, HeldOf(v), Orders)
  BY OrdersAssumption, AddsExists
<1>3. Sums(g)
  BY <1>1, <1>2 DEF Adds, HeldOf
<1>4. Sums(h)
  BY <1>3
<1>5. Adds(h, HeldOf(v), Orders)
  BY <1>1, <1>4 DEF Adds, HeldOf
<1>6. MapThenSumSet(LAMBDA o : held[o][v], Orders) = h[Orders]
  BY DEF MapThenSumSet, MapThenFoldSet, PickOf
<1>7. QED
  BY <1>5, <1>6, OrdersAssumption, SumAdds

\* Whichever handlers reserve, release, take back or edit, in any order and
\* number, a variant's reserved counter is the sum of what the store's orders
\* hold of it: the stop at zero never hides a unit.
THEOREM CountersAgree == Spec => []StockAgrees
<1>1. Spec => [](OrderInv /\ CountersAddUp)
  BY OrderInvInit, OrderInvStep, CountersInit, CountersKept, PTL DEF Spec
<1>2. CountersAddUp => StockAgrees
  BY HeldAdds DEF CountersAddUp, StockAgrees
<1>3. QED
  BY <1>1, <1>2, PTL

-----------------------------------------------------------------------------
(* The customer's rejections.                                              *)

\* A step on one order counts the rejection it makes, and uncounts only the one
\* it takes back.
RejectedAt(o) == order[o].confirmation = "rejected" /\ order[o].cancelled = "no"
CountMoves(o) ==
  /\ rejections' \in Nat
  /\ RejectedAt(o)' => rejections' > rejections \/ (RejectedAt(o) /\ rejections' >= rejections)
  /\ rejections' >= rejections \/ (RejectedAt(o) /\ ~RejectedAt(o)' /\ rejections' + 1 >= rejections)

LEMMA OneLess ==
  ASSUME NEW q \in Nat, NEW old \in Nat, NEW new \in Nat, q + 1 <= old, new + 1 >= old
  PROVE  q <= new
  OBVIOUS

LEMMA OneMore ==
  ASSUME NEW q \in Nat, NEW old \in Nat, NEW new \in Nat, q <= old, new > old
  PROVE  q + 1 <= new
  OBVIOUS

LEMMA NoLess ==
  ASSUME NEW q \in Nat, NEW old \in Nat, NEW new \in Nat, q <= old, new >= old
  PROVE  q <= new
  OBVIOUS

LEMMA AlmostAsMany ==
  ASSUME NEW old \in Nat, NEW new \in Nat, new >= old
  PROVE  new + 1 >= old
  OBVIOUS

\* Such a step keeps every standing rejection counted.
LEMMA CountStep ==
    ASSUME TypeOK, RejectionsCounted, NEW o \in Orders, CountMoves(o),
           \A p \in Orders \ {o} : order'[p] = order[p]
    PROVE  RejectionsCounted'
<1> DEFINE R == RejectedOnCall
           Q == {p \in Orders : order'[p].confirmation = "rejected" /\ order'[p].cancelled = "no"}
<1>1. RejectedOnCall' = Q
  BY DEF RejectedOnCall
<1>2. R \subseteq Orders /\ Q \subseteq Orders
  BY DEF RejectedOnCall
<1>3. IsFiniteSet(R) /\ IsFiniteSet(Q)
  BY <1>2, OrdersAssumption, FS_Subset
<1>4. Cardinality(R) \in Nat /\ Cardinality(Q) \in Nat /\ Cardinality(R) <= rejections
  BY <1>3, FS_CardinalityType DEF RejectionsCounted
<1>5. (o \in R <=> RejectedAt(o)) /\ (o \in Q <=> RejectedAt(o)')
  BY DEF RejectedOnCall, RejectedAt
<1>6. Q \ {o} = R \ {o}
  BY DEF RejectedOnCall
<1>7. rejections \in Nat /\ rejections' \in Nat
  BY DEF TypeOK, CountMoves
<1>8. Cardinality(Q) <= rejections'
  <2> HIDE DEF R, Q
  <2>1. IsFiniteSet(R \ {o})
    BY <1>3, FS_RemoveElement
  <2>2. Cardinality(R \ {o}) = IF o \in R THEN Cardinality(R) - 1 ELSE Cardinality(R)
    BY <1>3, FS_RemoveElement
  <2>3. Cardinality(Q \ {o}) = IF o \in Q THEN Cardinality(Q) - 1 ELSE Cardinality(Q)
    BY <1>3, FS_RemoveElement
  <2>4. Cardinality(Q) = Cardinality(R \ {o}) + (IF o \in Q THEN 1 ELSE 0)
    BY <1>4, <1>6, <2>3
  <2>5. Cardinality(R \ {o}) = Cardinality(R) - (IF o \in R THEN 1 ELSE 0)
    BY <1>4, <2>2
  <2>6. CASE o \in Q
    <3>1. rejections' > rejections \/ (o \in R /\ rejections' >= rejections)
      BY <1>5, <2>6 DEF CountMoves
    <3>2. Cardinality(Q) = Cardinality(R \ {o}) + 1
      BY <2>4, <2>6
    <3>3. CASE o \in R
      <4>1. rejections' >= rejections
        <5>1. CASE rejections' > rejections
          BY <1>7, <5>1
        <5>2. QED
          BY <3>1, <5>1
      <4>2. Cardinality(Q) = Cardinality(R)
        BY <1>4, <2>5, <3>2, <3>3
      <4>3. QED
        BY <1>4, <1>7, <4>1, <4>2, NoLess
    <3>4. CASE o \notin R
      <4>1. rejections' > rejections
        BY <3>1, <3>4
      <4>2. Cardinality(Q) = Cardinality(R) + 1
        BY <1>4, <2>5, <3>2, <3>4
      <4>3. Cardinality(R) + 1 <= rejections'
        BY <1>4, <1>7, <4>1, OneMore
      <4>4. QED
        BY <4>2, <4>3
    <3>5. QED
      BY <3>3, <3>4
  <2>7. CASE o \notin Q
    <3>1. rejections' >= rejections \/ (o \in R /\ rejections' + 1 >= rejections)
      BY <1>5 DEF CountMoves
    <3>2. Cardinality(Q) = Cardinality(R) - (IF o \in R THEN 1 ELSE 0)
      BY <1>4, <2>4, <2>5, <2>7
    <3>3. CASE o \in R
      <4>1. rejections' + 1 >= rejections
        <5>1. CASE rejections' >= rejections
          BY <1>7, <5>1, AlmostAsMany
        <5>2. QED
          BY <3>1, <5>1
      <4>2. Cardinality(Q) = Cardinality(R) - 1
        BY <3>2, <3>3
      <4>3. Cardinality(Q) + 1 <= rejections
        BY <1>4, <4>2
      <4>4. rejections \in Nat /\ rejections' \in Nat /\ Cardinality(Q) \in Nat
        BY <1>4, <1>7
      <4>5. QED
        BY <4>1, <4>3, <4>4, OneLess
    <3>4. CASE o \notin R
      <4>1. rejections' >= rejections
        BY <3>1, <3>4
      <4>2. Cardinality(Q) = Cardinality(R)
        BY <1>4, <3>2, <3>4
      <4>3. QED
        BY <1>4, <1>7, <4>1, <4>2, NoLess
    <3>5. QED
      BY <3>3, <3>4
  <2>8. QED
    BY <2>6, <2>7
<1>9. QED
  BY <1>1, <1>8 DEF RejectionsCounted

\* A step that rejects nobody and uncounts nothing.
LEMMA CountQuiet ==
    ASSUME TypeOK, NEW o \in Orders, rejections' = rejections, RejectedAt(o)' => RejectedAt(o)
    PROVE  CountMoves(o)
  BY DEF TypeOK, CountMoves

\* A step that writes neither of the two columns.
LEMMA CountUntouched ==
    ASSUME TypeOK, NEW o \in Orders, rejections' = rejections,
           order'[o].confirmation = order[o].confirmation,
           order'[o].cancelled = order[o].cancelled
    PROVE  CountMoves(o)
  BY CountQuiet DEF RejectedAt

\* The outcome of a call: a rejection of an open order is counted.
LEMMA OutcomeCounts ==
    ASSUME TypeOK, NEW o \in Orders, NEW outcome \in Outcomes, Open(o), ApplyOutcome(o, outcome)
    PROVE  CountMoves(o)
<1>1. order'[o].confirmation = outcome /\ rejections \in Nat
  BY DEF ApplyOutcome, TypeOK, OrderRow
<1>2. CASE outcome = "rejected"
  BY <1>1, <1>2 DEF ApplyOutcome, CountMoves
<1>3. CASE outcome # "rejected"
  BY <1>1, <1>3, CountQuiet DEF ApplyOutcome, RejectedAt
<1>4. QED
  BY <1>2, <1>3

\* The steps of the call queue: a correction uncounts the rejection it takes back.
LEMMA TaskStepCounts ==
    ASSUME TypeOK, NEW o \in Orders, TaskStep(o)
    PROVE  CountMoves(o)
<1>0. order[o] \in OrderRow /\ rejections \in Nat
  BY DEF TypeOK
<1>1. ASSUME UNCHANGED <<order, rejections>> PROVE CountMoves(o)
  BY <1>1, CountUntouched
<1>2. ASSUME NEW outcome \in Outcomes, Open(o), ApplyOutcome(o, outcome) PROVE CountMoves(o)
  BY <1>2, OutcomeCounts
<1>3. ASSUME CorrectToRejected(o) PROVE CountMoves(o)
  BY <1>0, <1>3 DEF CorrectToRejected, CountMoves
<1>4. ASSUME CorrectToConfirmed(o) PROVE CountMoves(o)
  <2>1. order'[o].confirmation = "confirmed" /\ RejectedAt(o)
    BY <1>4 DEF CorrectToConfirmed, RejectedAt, TypeOK, OrderRow
  <2>2. rejections' = Positive(rejections - 1)
    BY <1>4 DEF CorrectToConfirmed
  <2>3. QED
    BY <1>0, <2>1, <2>2 DEF CountMoves, RejectedAt, Positive
<1>5. QED
  BY <1>1, <1>2, <1>3, <1>4
  DEF TaskStep, ClaimTask, ReleaseTask, RecordOutcome, ConfirmFromOrder, Outcomes

\* The moves between stages: reopening uncounts a rejection that stood.
LEMMA StageStepCounts ==
    ASSUME TypeOK, NEW o \in Orders, StageStep(o)
    PROVE  CountMoves(o)
<1>0. order[o] \in OrderRow /\ rejections \in Nat
  BY DEF TypeOK
<1>1. ASSUME ReadStage(o) PROVE CountMoves(o)
  BY <1>1, CountUntouched DEF ReadStage
<1>2. ASSUME FollowUp(o) PROVE CountMoves(o)
  BY <1>2, OutcomeCounts DEF FollowUp, Outcomes
<1>3. ASSUME BackToQueue(o) PROVE CountMoves(o)
  <2>1. order'[o].confirmation = "pending" /\ rejections' = rejections
    BY <1>3 DEF BackToQueue, TypeOK, OrderRow
  <2>2. QED
    BY <2>1, CountQuiet DEF RejectedAt
<1>4. ASSUME MarkReturned(o) PROVE CountMoves(o)
  <2>1. /\ order'[o].confirmation = order[o].confirmation
        /\ order'[o].cancelled = order[o].cancelled /\ rejections' = rejections
    BY <1>4 DEF MarkReturned, TypeOK, OrderRow
  <2>2. QED
    BY <2>1, CountUntouched
<1>5. ASSUME CancelOrder(o) PROVE CountMoves(o)
  <2>1. order'[o].cancelled = "merchant" /\ rejections' = rejections
    BY <1>5 DEF CancelOrder, TypeOK, OrderRow
  <2>2. QED
    BY <2>1, CountQuiet DEF RejectedAt
<1>6. ASSUME Reopen(o) PROVE CountMoves(o)
  <2>1. /\ order'[o].cancelled = "no" /\ order'[o].confirmation = "pending"
        /\ rejections' = Uncounted(o)
    BY <1>6 DEF Reopen, TypeOK, OrderRow
  <2>2. order[o].cancelled = "no" => RejectedAt(o)
    BY <1>6 DEF Reopen, Open, RejectedAt
  <2>3. QED
    BY <1>0, <2>1, <2>2 DEF CountMoves, RejectedAt, Uncounted, Positive
<1>7. QED
  BY <1>1, <1>2, <1>3, <1>4, <1>5, <1>6 DEF StageStep

\* A parcel's steps write the fulfillment column only.
LEMMA ShipmentStepCounts ==
    ASSUME TypeOK, NEW o \in Orders, ShipmentStep(o)
    PROVE  CountMoves(o)
<1>1. ASSUME UNCHANGED <<order, rejections>> PROVE CountMoves(o)
  BY <1>1, CountUntouched
<1>2. ASSUME NEW i, NEW seen, NEW to, Transition(o, i, seen, to), UNCHANGED rejections
      PROVE  CountMoves(o)
  <2>1. /\ order'[o].confirmation = order[o].confirmation
        /\ order'[o].cancelled = order[o].cancelled
    BY <1>2 DEF Transition, TypeOK, OrderRow
  <2>2. QED
    BY <1>2, <2>1, CountUntouched
<1>3. QED
  BY <1>1, <1>2
  DEF ShipmentStep, CreateShipment, ReadShipment, PatchShipment, DropRequest, CarrierReport,
      RestockReturned

\* The payment's steps: an expired order that comes back was not rejected.
LEMMA PaymentStepCounts ==
    ASSUME TypeOK, NEW o \in Orders, CardOK(o), PaymentStep(o)
    PROVE  CountMoves(o)
<1>1. order[o] \in OrderRow
  BY DEF TypeOK
<1>2. ASSUME StartAttempt(o) \/ RetryPayment(o) \/ TimeRunsOut(o) \/ SwitchToCod(o)
      PROVE  CountMoves(o)
  <2>1. /\ order'[o].confirmation = order[o].confirmation
        /\ order'[o].cancelled = order[o].cancelled
    BY <1>1, <1>2 DEF StartAttempt, RetryPayment, TimeRunsOut, SwitchToCod, TypeOK, OrderRow
  <2>2. rejections' = rejections
    BY <1>2 DEF StartAttempt, RetryPayment, TimeRunsOut, SwitchToCod
  <2>3. QED
    BY <2>1, <2>2, CountUntouched
<1>3. ASSUME ExpireOrder(o) PROVE CountMoves(o)
  <2>1. order'[o].cancelled = "expired" /\ rejections' = rejections
    BY <1>1, <1>3 DEF ExpireOrder, TypeOK, OrderRow
  <2>2. QED
    BY <2>1, CountQuiet DEF RejectedAt
<1>4. ASSUME NEW counts \in BOOLEAN
      PROVE  /\ Captured(o, counts) \in OrderRow
             /\ Captured(o, counts).confirmation = order[o].confirmation
             /\ Captured(o, counts).cancelled = order[o].cancelled
  <2>1. Captured(o, counts) \in OrderRow
    BY CapturedTyped
  <2>2. QED
    BY <1>1, <2>1 DEF Captured, OrderRow
<1>5. ASSUME NEW counts \in BOOLEAN, CaptureBlocked(o, counts) PROVE CountMoves(o)
  <2>1. order'[o].cancelled = "blocked" /\ rejections' = rejections
    BY <1>4, <1>5 DEF CaptureBlocked, TypeOK, OrderRow
  <2>2. QED
    BY <2>1, CountQuiet DEF RejectedAt
<1>6. ASSUME NEW counts \in BOOLEAN, CaptureReopens(o, counts) PROVE CountMoves(o)
  <2>1. /\ order'[o].confirmation = order[o].confirmation /\ rejections' = rejections
        /\ order[o].cancelled = "expired"
    BY <1>4, <1>6 DEF CaptureReopens, TypeOK, OrderRow
  <2>2. order[o].confirmation = "pending"
    BY <2>1 DEF CardOK
  <2>3. QED
    BY <2>1, <2>2, CountQuiet DEF RejectedAt
<1>7. ASSUME NEW counts \in BOOLEAN, CaptureFlagged(o, counts) \/ CaptureStanding(o, counts)
      PROVE  CountMoves(o)
  <2>1. /\ order'[o].confirmation = order[o].confirmation /\ rejections' = rejections
        /\ order'[o].cancelled = order[o].cancelled
    BY <1>4, <1>7 DEF CaptureFlagged, CaptureStanding, TypeOK, OrderRow
  <2>2. QED
    BY <2>1, CountUntouched
<1>8. QED
  BY <1>2, <1>3, <1>5, <1>6, <1>7 DEF PaymentStep

\* Every step on an order.
LEMMA AnyStepCounts ==
    ASSUME TypeOK, NEW o \in Orders, CardOK(o), OrderStep(o)
    PROVE  CountMoves(o)
<1>1. ASSUME NEW units, NEW method, PlaceOrder(o, method, units) PROVE CountMoves(o)
  <2>1. /\ order'[o].confirmation = order[o].confirmation
        /\ order'[o].cancelled = order[o].cancelled /\ rejections' = rejections
    BY <1>1 DEF PlaceOrder, TypeOK, OrderRow
  <2>2. QED
    BY <2>1, CountUntouched
<1>2. ASSUME NEW units, EditItems(o, units) PROVE CountMoves(o)
  BY <1>2, CountUntouched DEF EditItems
<1>3. QED
  BY <1>1, <1>2, TaskStepCounts, StageStepCounts, ShipmentStepCounts, PaymentStepCounts
  DEF OrderStep

\* No rejection is counted at first, and every step keeps the count.
LEMMA CountInit == Init => RejectionsCounted
<1> SUFFICES ASSUME Init PROVE RejectionsCounted
  OBVIOUS
<1>1. RejectedOnCall = {}
  BY DEF Init, RejectedOnCall
<1>2. QED
  BY <1>1, FS_EmptySet DEF Init, RejectionsCounted

LEMMA CountKept == OrderInv /\ RejectionsCounted /\ [Next]_vars => RejectionsCounted'
<1> SUFFICES ASSUME OrderInv, RejectionsCounted, [Next]_vars PROVE RejectionsCounted'
  OBVIOUS
<1>1. ASSUME NEW o \in Orders, OrderStep(o) PROVE RejectionsCounted'
  <2>1. TypeOK /\ CardOK(o)
    BY DEF OrderInv, OrderOK
  <2>2. CountMoves(o) /\ Local(o)
    BY <1>1, <2>1, AnyStepCounts, OrderStepLocal
  <2>3. \A p \in Orders \ {o} : order'[p] = order[p]
    BY <2>2 DEF Local, SameAt
  <2>4. QED
    BY <2>1, <2>2, <2>3, CountStep
<1>2. ASSUME UNCHANGED <<order, rejections>> PROVE RejectionsCounted'
  BY <1>2 DEF RejectionsCounted, RejectedOnCall
<1>3. QED
  BY <1>1, <1>2 DEF Next, SetStock, vars

\* Every order that stands rejected is counted against its customer, whatever
\* corrections, cancellations and reopenings of this and other orders uncount.
THEOREM RejectionsAreCounted == Spec => []RejectionsCounted
  BY OrderInvInit, OrderInvStep, CountInit, CountKept, PTL DEF Spec
=============================================================================
