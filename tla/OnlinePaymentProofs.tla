------------------------- MODULE OnlinePaymentProofs -------------------------
(***************************************************************************)
(* Money the gateway took is on the order once and marked where it is      *)
(* late, and no expiry passes over it, for any number of attempts, callers *)
(* and faults.                                                             *)
(***************************************************************************)
EXTENDS OnlinePayment, FiniteSetTheorems, TLAPS

PayTypes ==
    /\ order \in OrderRows
    /\ status \in [Attempts -> {"none", "initialized", "failed", "ended", "captured"}]
    /\ asking \subseteq Attempts
    /\ gateway \in [Attempts -> {"none", "open", "paid"}]
    /\ stored \subseteq Events
    /\ call \in [Callers -> Inquiring]

\* An event is a payment the gateway took; a row the gateway has not answered
\* for yet was not paid, so its failure closes no captured row.
GatewayInv ==
    /\ \A a \in Attempts : status[a] = "none" => gateway[a] = "none" /\ a \notin asking
    /\ \A a \in asking : gateway[a] = "none"
    /\ \A a \in Attempts : status[a] = "captured" => gateway[a] = "paid"
    /\ \A k \in Callers : call[k].event # NoEvent => gateway[call[k].event.attempt] = "paid"
    /\ \A e \in stored : gateway[e.attempt] = "paid"

\* Only an order still waiting for its payment expires.
MoneyInv ==
    /\ MoneyAccounted /\ PaidStandsAsSale
    /\ order.cancelled = "payment_expired" => order.method = "online"

PayInv == PayTypes /\ GatewayInv /\ MoneyInv

-----------------------------------------------------------------------------

\* Holds initially.
LEMMA PayInit == PaymentInit => PayInv
<1> SUFFICES ASSUME PaymentInit PROVE PayInv
  OBVIOUS
<1>1. PayTypes
  BY DEF PaymentInit, PayTypes, OrderRows, Inquiring, Idle, Flags
<1>2. GatewayInv
  BY DEF PaymentInit, GatewayInv, Idle
<1>3. Captured = {}
  BY DEF PaymentInit, Captured
<1>4. MoneyInv
  BY <1>3, FS_EmptySet DEF PaymentInit, MoneyInv, MoneyAccounted, MoneyCounted, LateMoneyMarked,
     CashNotTakenTwice, PaidStandsAsSale, IsPaid
<1>5. QED
  BY <1>1, <1>2, <1>4 DEF PayInv

\* The order and its rows are not touched.
LEMMA MoneyKept ==
  ASSUME PayInv, UNCHANGED <<order, status>>
  PROVE  MoneyInv'
  BY DEF PayInv, MoneyInv, MoneyAccounted, MoneyCounted, LateMoneyMarked, CashNotTakenTwice,
     PaidStandsAsSale, IsPaid, Captured

\* What a caller does next, and what it knows, changes in one place.
LEMMA CallMoves ==
  ASSUME PayInv, NEW k \in Callers, NEW c \in Inquiring, call' = [call EXCEPT ![k] = c],
         c.event # NoEvent => gateway[c.event.attempt] = "paid",
         UNCHANGED <<asking, gateway>>, stored' \subseteq Events,
         \A e \in stored' : gateway[e.attempt] = "paid",
         status' \in [Attempts -> {"none", "initialized", "failed", "ended", "captured"}],
         \A a \in Attempts : status'[a] = "none" => status[a] = "none",
         \A a \in Attempts : status'[a] = "captured" => status[a] = "captured"
  PROVE  GatewayInv' /\ call' \in [Callers -> Inquiring]
<1>1. call' \in [Callers -> Inquiring] /\ \A q \in Callers : call'[q] = IF q = k THEN c ELSE call[q]
  BY DEF PayInv, PayTypes
<1>2. \A q \in Callers : call'[q].event # NoEvent => gateway[call'[q].event.attempt] = "paid"
  BY <1>1 DEF PayInv, GatewayInv
<1>3. \A a \in Attempts : (status'[a] = "none" => gateway[a] = "none" /\ a \notin asking)
                         /\ (status'[a] = "captured" => gateway[a] = "paid")
  BY DEF PayInv, GatewayInv
<1>4. QED
  BY <1>1, <1>2, <1>3 DEF PayInv, GatewayInv

\* A row of the call table is one of Inquiring.
LEMMA CallRow ==
  ASSUME PayInv, NEW k \in Callers
  PROVE  /\ call[k] \in Inquiring
         /\ call[k].event # NoEvent => call[k].event \in Events /\ call[k].event.attempt \in Attempts
<1>1. call[k] \in Inquiring
  BY DEF PayInv, PayTypes
<1>2. QED
  BY <1>1 DEF Inquiring, Events

\* Closing rows captures none and takes none back.
LEMMA CapturedKept ==
  ASSUME PayInv, status' \in [Attempts -> {"none", "initialized", "failed", "ended", "captured"}],
         \A a \in Attempts : status'[a] = "captured" <=> status[a] = "captured"
  PROVE  Captured' = Captured
  BY DEF Captured

\* Rows are opened and closed, the order stays as it is.
LEMMA RowsMove ==
  ASSUME PayInv, UNCHANGED order,
         status' \in [Attempts -> {"none", "initialized", "failed", "ended", "captured"}],
         \A a \in Attempts : status'[a] = "captured" <=> status[a] = "captured"
  PROVE  MoneyInv'
<1>1. Captured' = Captured
  BY CapturedKept
<1>2. QED
  BY <1>1 DEF PayInv, MoneyInv, MoneyAccounted, MoneyCounted, LateMoneyMarked, CashNotTakenTwice,
     PaidStandsAsSale, IsPaid

\* The order changes and no money comes in.
LEMMA OrderMoves ==
  ASSUME PayInv, order' \in OrderRows, order'.paid = order.paid, order'.flags = order.flags,
         status' \in [Attempts -> {"none", "initialized", "failed", "ended", "captured"}],
         \A a \in Attempts : status'[a] = "captured" <=> status[a] = "captured",
         order'.cancelled \in {"payment_expired", "customer_blocked"} =>
           order.paid = 0 \/ order'.cancelled = order.cancelled,
         order'.method = "cod" /\ order'.cancelled = "no" =>
           order.paid = 0 \/ (order.method = "cod" /\ order.cancelled = "no"),
         order'.cancelled = "no" /\ order.paid > 0 =>
           /\ order.cancelled = "no"
           /\ order'.completed = order.completed /\ order'.due = order.due,
         order'.held <=> order'.cancelled = "no",
         order'.cancelled = "payment_expired" => order'.method = "online"
  PROVE  MoneyInv'
<1>1. Captured' = Captured
  BY CapturedKept
<1>2. order.paid \in Nat
  BY DEF PayInv, PayTypes, OrderRows
<1>3. MoneyCounted'
  BY <1>1 DEF PayInv, MoneyInv, MoneyAccounted, MoneyCounted
<1>4. LateMoneyMarked'
  BY <1>2 DEF PayInv, MoneyInv, MoneyAccounted, LateMoneyMarked, IsPaid
<1>5. CashNotTakenTwice'
  BY <1>2 DEF PayInv, MoneyInv, MoneyAccounted, CashNotTakenTwice, IsPaid
<1>6. PaidStandsAsSale'
  BY <1>2 DEF PayInv, MoneyInv, PaidStandsAsSale, IsPaid
<1>7. QED
  BY <1>3, <1>4, <1>5, <1>6 DEF MoneyInv, MoneyAccounted

-----------------------------------------------------------------------------

\* A payment recorded for the first time is one captured row more.
LEMMA OneMoreCaptured ==
  ASSUME PayInv, NEW a \in Attempts, status[a] # "captured",
         status' \in [Attempts -> {"none", "initialized", "failed", "ended", "captured"}],
         \A b \in Attempts : status'[b] = "captured" <=> b = a \/ status[b] = "captured"
  PROVE  Cardinality(Captured)' = Cardinality(Captured) + 1 /\ Cardinality(Captured) \in Nat
<1>1. Captured' = Captured \cup {a} /\ a \notin Captured /\ Captured \subseteq Attempts
  BY DEF Captured
<1>2. IsFiniteSet(Captured)
  BY <1>1, PaymentAssumption, FS_Subset
<1>3. Cardinality(Captured) \in Nat
  BY <1>2, FS_CardinalityType
<1>4. Cardinality(Captured \cup {a}) = Cardinality(Captured) + 1
  BY <1>1, <1>2, FS_AddElement
<1>5. QED
  BY <1>1, <1>3, <1>4

\* Whatever becomes of the order a payment lands on, its money is counted and,
\* where it is late or one too many, marked.
LEMMA PaymentRecorded ==
  ASSUME PayInv, NEW a \in Attempts, gateway[a] = "paid", RecordPaid(a)
  PROVE  /\ order' \in OrderRows /\ MoneyInv'
         /\ status' \in [Attempts -> {"none", "initialized", "failed", "ended", "captured"}]
         /\ \A b \in Attempts : status'[b] = "none" => status[b] = "none"
         /\ \A b \in Attempts \ {a} : status'[b] = "captured" => status[b] = "captured"
<1>1. CASE AlreadyRecorded(a)
  <2>1. UNCHANGED <<order, status>>
    BY <1>1 DEF RecordPaid
  <2>2. QED
    BY <2>1, MoneyKept DEF PayInv, PayTypes
<1>2. CASE ~AlreadyRecorded(a)
  <2>1. PICK fate \in Fates :
          /\ order' = [order EXCEPT
               !.paid = @ + 1,
               !.flags = FlagsAfter(fate),
               !.due = DueAfter(fate),
               !.completed = @ \/ fate \in {"standing", "reopened"},
               !.held = IF fate = "reopened" THEN TRUE ELSE @ /\ fate # "blocked",
               !.cancelled = CASE fate = "blocked"  -> "customer_blocked"
                               [] fate = "reopened" -> "no"
                               [] OTHER             -> @]
          /\ status' = [b \in Attempts |->
               IF b = a THEN "captured"
               ELSE IF fate = "blocked" /\ order.cancelled = "no" /\ b \in Open
                    THEN "ended" ELSE status[b]]
    BY <1>2 DEF RecordPaid
  <2>2. /\ order \in OrderRows /\ order.paid \in Nat
        /\ status \in [Attempts -> {"none", "initialized", "failed", "ended", "captured"}]
    BY DEF PayInv, PayTypes, OrderRows
  <2>3. /\ fate \in {"blocked", "standing", "reopened", "stays"}
        /\ fate = "standing" => order.cancelled = "no"
        /\ fate = "reopened" => order.cancelled = "payment_expired"
        /\ fate = "stays" => order.cancelled # "no"
    BY <2>1 DEF Fates
  <2>4. /\ status' \in [Attempts -> {"none", "initialized", "failed", "ended", "captured"}]
        /\ \A b \in Attempts : status'[b] = "captured" <=> b = a \/ status[b] = "captured"
        /\ \A b \in Attempts : status'[b] = "none" => status[b] = "none"
    BY <2>1, <2>2 DEF Open
  <2>5. FlagsAfter(fate) \subseteq Flags
    BY <2>2 DEF FlagsAfter, Flags, OrderRows
  <2>6. DueAfter(fate) \in {"none", "running", "over"}
    BY <2>2 DEF DueAfter, OrderRows
  <2> DEFINE ends == CASE fate = "blocked"  -> "customer_blocked"
                       [] fate = "reopened" -> "no"
                       [] OTHER             -> order.cancelled
  <2>7. /\ ends \in {"no", "payment_expired", "customer_blocked", "merchant"}
        /\ fate = "blocked" => ends = "customer_blocked"
        /\ fate = "reopened" => ends = "no"
        /\ fate \in {"standing", "stays"} => ends = order.cancelled
    BY <2>2, <2>3 DEF OrderRows
  <2> DEFINE stands == order.completed \/ fate \in {"standing", "reopened"}
             holds  == IF fate = "reopened" THEN TRUE ELSE order.held /\ fate # "blocked"
  <2>8. /\ order' \in OrderRows
        /\ order'.paid = order.paid + 1 /\ order'.flags = FlagsAfter(fate)
        /\ order'.method = order.method /\ order'.due = DueAfter(fate)
        /\ order'.completed = stands /\ order'.held = holds /\ order'.cancelled = ends
    <3>1. stands \in BOOLEAN /\ holds \in BOOLEAN
      BY <2>2 DEF OrderRows
    <3>2. order' = [order EXCEPT !.paid = order.paid + 1, !.flags = FlagsAfter(fate),
                                 !.due = DueAfter(fate), !.completed = stands,
                                 !.held = holds, !.cancelled = ends]
      BY <2>1
    <3> HIDE DEF ends, stands, holds
    <3>3. order'.paid = order.paid + 1 /\ order'.flags = FlagsAfter(fate)
      BY <3>2, <2>2 DEF OrderRows
    <3>4. order'.method = order.method /\ order'.due = DueAfter(fate)
      BY <3>2, <2>2 DEF OrderRows
    <3>5. order'.completed = stands
      BY <3>2, <2>2 DEF OrderRows
    <3>6. order'.held = holds
      BY <3>2, <2>2 DEF OrderRows
    <3>7. order'.cancelled = ends
      BY <3>2, <2>2 DEF OrderRows
    <3>8. order' = [method |-> order.method, due |-> DueAfter(fate), cancelled |-> ends,
                    completed |-> stands, held |-> holds, paid |-> order.paid + 1,
                    flags |-> FlagsAfter(fate)]
      BY <3>2, <2>2 DEF OrderRows
    <3>9. order.method \in {"online", "cod"} /\ order.paid + 1 \in Nat
      BY <2>2 DEF OrderRows
    <3>10. order' \in OrderRows
      BY <3>1, <3>8, <3>9, <2>5, <2>6, <2>7 DEF OrderRows
    <3>11. QED
      BY <3>3, <3>4, <3>5, <3>6, <3>7, <3>10
  <2> HIDE DEF ends
  <2>9. MoneyCounted'
    BY <1>2, <2>4, <2>8, OneMoreCaptured
      DEF PayInv, MoneyInv, MoneyAccounted, MoneyCounted, AlreadyRecorded
  <2>10. LateMoneyMarked'
    <3>1. ends \in {"payment_expired", "customer_blocked"} => fate \in {"blocked", "stays"}
      BY <2>3, <2>7
    <3>2. fate \in {"blocked", "stays"} => FlagsAfter(fate) \cap {"after_expiry", "after_cancel"} # {}
      BY DEF FlagsAfter
    <3>3. order.paid > 0 => "duplicate" \in FlagsAfter(fate)
      BY DEF FlagsAfter, IsPaid
    <3>4. QED
      BY <2>2, <2>8, <3>1, <3>2, <3>3 DEF LateMoneyMarked
  <2>11. CashNotTakenTwice'
    <3>1. order.method = "cod" /\ ends = "no" => fate = "standing"
      BY <2>3, <2>7 DEF PayInv, MoneyInv
    <3>2. order.method = "cod" /\ fate = "standing" => "after_cod_switch" \in FlagsAfter(fate)
      BY DEF FlagsAfter
    <3>3. QED
      BY <2>8, <3>1, <3>2 DEF CashNotTakenTwice
  <2>12. PaidStandsAsSale'
    <3>1. ends = "no" => fate \in {"standing", "reopened"}
      BY <2>3, <2>7
    <3>2. fate \in {"standing", "reopened"} => DueAfter(fate) = "none"
      BY <2>3 DEF DueAfter
    <3>3. order.held <=> order.cancelled = "no"
      BY DEF PayInv, MoneyInv, PaidStandsAsSale
    <3>4. QED
      BY <2>3, <2>7, <2>8, <3>1, <3>2, <3>3 DEF PaidStandsAsSale
  <2>13. order'.cancelled = "payment_expired" => order'.method = "online"
    BY <2>3, <2>7, <2>8 DEF PayInv, MoneyInv
  <2>14. QED
    BY <2>4, <2>8, <2>9, <2>10, <2>11, <2>12, <2>13 DEF MoneyInv, MoneyAccounted
<1>3. QED
  BY <1>1, <1>2

-----------------------------------------------------------------------------

\* Nobody learns of an event, and no gateway call is begun.
LEMMA GatewayKept ==
  ASSUME PayInv, UNCHANGED <<gateway, stored, call>>, asking' \subseteq asking,
         status' \in [Attempts -> {"none", "initialized", "failed", "ended", "captured"}],
         \A a \in Attempts : status'[a] = "none" => status[a] = "none",
         \A a \in Attempts : status'[a] = "captured" => status[a] = "captured"
  PROVE  GatewayInv'
  BY DEF PayInv, PayTypes, GatewayInv

\* Rows closed with their order keep what was captured.
LEMMA RowsClosed ==
  ASSUME PayInv, status' = Closed
  PROVE  /\ status' \in [Attempts -> {"none", "initialized", "failed", "ended", "captured"}]
         /\ \A a \in Attempts : status'[a] = "captured" <=> status[a] = "captured"
         /\ \A a \in Attempts : status'[a] = "none" => status[a] = "none"
  BY DEF PayInv, PayTypes, Closed, Open

\* The event of a caller at work is a payment; NoEvent is none.
LEMMA EventIsPaid ==
  ASSUME PayInv, NEW k \in Callers
  PROVE  /\ call[k] \in Inquiring
         /\ call[k].event # NoEvent =>
              call[k].event.attempt \in Attempts /\ gateway[call[k].event.attempt] = "paid"
  BY CallRow DEF PayInv, GatewayInv

\* A caller with nothing to do knows of no event.
LEMMA IdleRow == Idle \in Inquiring /\ Idle.event = NoEvent
  BY DEF Idle, Inquiring

\* A caller goes on, or ends, without a new event; what it did to the order
\* and the rows is accounted for.
LEMMA CallGoesOn ==
  ASSUME PayInv, NEW k \in Callers, NEW c \in Inquiring, call' = [call EXCEPT ![k] = c],
         c.event = NoEvent \/ c.event = call[k].event,
         UNCHANGED <<asking, gateway, stored>>, order' \in OrderRows, MoneyInv',
         status' \in [Attempts -> {"none", "initialized", "failed", "ended", "captured"}],
         \A a \in Attempts : status'[a] = "none" => status[a] = "none",
         \A a \in Attempts : status'[a] = "captured" => gateway[a] = "paid"
  PROVE  PayInv'
<1>1. c.event # NoEvent => gateway[c.event.attempt] = "paid"
  BY EventIsPaid
<1>2. call' \in [Callers -> Inquiring] /\ \A q \in Callers : call'[q] = IF q = k THEN c ELSE call[q]
  BY DEF PayInv, PayTypes
<1>3. \A q \in Callers : call'[q].event # NoEvent => gateway[call'[q].event.attempt] = "paid"
  BY <1>1, <1>2 DEF PayInv, GatewayInv
<1>4. GatewayInv'
  BY <1>3 DEF PayInv, GatewayInv
<1>5. PayTypes'
  BY <1>2 DEF PayInv, PayTypes
<1>6. QED
  BY <1>4, <1>5 DEF PayInv

\* A payment reported to the inbox changes no row.
LEMMA ClaimKeeps ==
  ASSUME PayInv, NEW k \in Callers, NEW e \in Events, NEW doing \in Inquiring,
         gateway[e.attempt] = "paid", doing.event = NoEvent, TakeEvent(k, e, doing),
         UNCHANGED <<order, status, asking, gateway>>
  PROVE  PayInv'
<1> DEFINE c == IF e \in processed THEN doing ELSE [doing EXCEPT !.event = e]
<1>1. c \in Inquiring /\ (c.event # NoEvent => c.event = e)
  BY DEF Inquiring
<1>2. call' = [call EXCEPT ![k] = c] /\ stored' = stored \cup {e}
  BY DEF TakeEvent
<1> HIDE DEF c
<1>3. stored' \subseteq Events /\ \A f \in stored' : gateway[f.attempt] = "paid"
  BY <1>2 DEF PayInv, PayTypes, GatewayInv
<1>4. GatewayInv' /\ call' \in [Callers -> Inquiring]
  BY <1>1, <1>2, <1>3, CallMoves DEF PayInv, PayTypes
<1>5. PayTypes'
  BY <1>3, <1>4 DEF PayInv, PayTypes
<1>6. QED
  BY <1>4, <1>5, MoneyKept DEF PayInv

\* A caller's own record moves on and nothing else of the order's.
LEMMA CallOnly ==
  ASSUME PayInv, NEW k \in Callers, NEW c \in Inquiring, call' = [call EXCEPT ![k] = c],
         c.event = NoEvent \/ c.event = call[k].event,
         UNCHANGED <<order, status, asking, gateway, stored>>
  PROVE  PayInv'
  BY MoneyKept, CallGoesOn DEF PayInv, PayTypes, GatewayInv

\* An order that ends, or is changed, with its open rows closed.
LEMMA CallEndsRows ==
  ASSUME PayInv, NEW k \in Callers, Done(k), UNCHANGED <<asking, gateway, stored>>,
         status' = Closed, order' \in OrderRows, MoneyInv'
  PROVE  PayInv'
<1>1. \A a \in Attempts : status'[a] = "captured" => gateway[a] = "paid"
  BY RowsClosed DEF PayInv, GatewayInv
<1>2. QED
  BY <1>1, RowsClosed, IdleRow, CallGoesOn DEF Done

-----------------------------------------------------------------------------

\* What the order's row holds before it is changed.
LEMMA OrderFacts ==
  ASSUME PayInv
  PROVE  /\ order \in OrderRows /\ order.paid \in Nat
         /\ order.cancelled = "no" /\ order.paid > 0 => order.due = "none"
         /\ order.held <=> order.cancelled = "no"
         /\ order.cancelled = "payment_expired" => order.method = "online"
  BY DEF PayInv, PayTypes, MoneyInv, PaidStandsAsSale, IsPaid, OrderRows

\* An expired order was unpaid.
LEMMA ExpiryKeeps ==
  ASSUME PayInv, NEW k \in Callers, ExpireOrder(k)
  PROVE  PayInv'
<1>1. order' = [order EXCEPT !.cancelled = "payment_expired", !.held = FALSE]
  BY DEF ExpireOrder
<1>2. order.method = "online" /\ order.paid = 0
  BY OrderFacts DEF ExpireOrder, StillOverdue, IsPaid
<1>3. /\ order' \in OrderRows /\ order'.paid = order.paid /\ order'.flags = order.flags
      /\ order'.cancelled = "payment_expired" /\ order'.held = FALSE
      /\ order'.method = order.method
  BY <1>1, OrderFacts DEF OrderRows
<1>4. MoneyInv'
  BY <1>2, <1>3, RowsClosed, OrderMoves DEF ExpireOrder
<1>5. QED
  BY <1>3, <1>4, CallEndsRows DEF ExpireOrder, outsideVars, inboxVars, startVars

\* So was one that is tried again.
LEMMA RetryKeeps ==
  ASSUME PayInv, NEW k \in Callers, Retry(k)
  PROVE  PayInv'
<1>1. order' = [order EXCEPT !.due = "running"]
  BY DEF Retry
<1>2. order.cancelled = "no" /\ order.method = "online" /\ order.paid = 0
  BY OrderFacts DEF Retry, Awaiting, IsPaid
<1>3. /\ order' \in OrderRows /\ order'.paid = order.paid /\ order'.flags = order.flags
      /\ order'.cancelled = order.cancelled /\ order'.held = order.held
      /\ order'.method = order.method
  BY <1>1, OrderFacts DEF OrderRows
<1>4. order'.held <=> order'.cancelled = "no"
  BY <1>3, OrderFacts
<1>5. MoneyInv'
  BY <1>2, <1>3, <1>4, RowsClosed, OrderMoves DEF Retry
<1>6. QED
  BY <1>3, <1>5, CallEndsRows DEF Retry, outsideVars, inboxVars

\* And one that changes to cash on delivery.
LEMMA SwitchKeeps ==
  ASSUME PayInv, NEW k \in Callers, SwitchToCod(k)
  PROVE  PayInv'
<1>1. order' = [order EXCEPT !.method = "cod", !.due = "none", !.completed = TRUE]
  BY DEF SwitchToCod
<1>2. order.cancelled = "no" /\ order.paid = 0
  BY OrderFacts DEF SwitchToCod, MaySwitch, Awaiting, IsPaid
<1>3. /\ order' \in OrderRows /\ order'.paid = order.paid /\ order'.flags = order.flags
      /\ order'.cancelled = order.cancelled /\ order'.held = order.held
  BY <1>1, OrderFacts DEF OrderRows
<1>4. order'.held <=> order'.cancelled = "no"
  BY <1>3, OrderFacts
<1>5. MoneyInv'
  BY <1>2, <1>3, <1>4, RowsClosed, OrderMoves DEF SwitchToCod
<1>6. QED
  BY <1>3, <1>5, CallEndsRows DEF SwitchToCod, outsideVars, inboxVars, startVars

\* The merchant's cancellation: paid or not, the order is his to settle.
LEMMA CancelKeeps ==
  ASSUME PayInv, CancelOrder
  PROVE  PayInv'
<1>1. order' = [order EXCEPT !.cancelled = "merchant", !.held = FALSE]
  BY DEF CancelOrder
<1>2. /\ order' \in OrderRows /\ order'.paid = order.paid /\ order'.flags = order.flags
      /\ order'.cancelled = "merchant" /\ order'.held = FALSE
  BY <1>1, OrderFacts DEF OrderRows
<1>3. MoneyInv'
  BY <1>2, RowsClosed, OrderMoves DEF CancelOrder
<1>4. GatewayInv'
  BY RowsClosed, GatewayKept DEF CancelOrder, outsideVars, inboxVars, startVars
<1>5. PayTypes'
  BY <1>2, RowsClosed DEF PayInv, PayTypes, CancelOrder, outsideVars, inboxVars, startVars
<1>6. QED
  BY <1>3, <1>4, <1>5 DEF PayInv

\* The time to pay runs out for an order that is not paid, or has ended.
LEMMA TimeKeeps ==
  ASSUME PayInv, TimeRunsOut
  PROVE  PayInv'
<1>1. order' = [order EXCEPT !.due = "over"] /\ order.due = "running"
  BY DEF TimeRunsOut
<1>2. /\ order' \in OrderRows /\ order'.paid = order.paid /\ order'.flags = order.flags
      /\ order'.cancelled = order.cancelled /\ order'.held = order.held
      /\ order'.method = order.method
  BY <1>1, OrderFacts DEF OrderRows
<1>3. order'.held <=> order'.cancelled = "no"
  BY <1>2, OrderFacts
<1>4. order.cancelled = "no" => order.paid = 0
  BY <1>1, OrderFacts
<1>5. order.method = "cod" /\ order.cancelled = "no" => order.paid = 0
  BY <1>4
<1>6. /\ status' \in [Attempts -> {"none", "initialized", "failed", "ended", "captured"}]
      /\ status' = status
  BY DEF PayInv, PayTypes, TimeRunsOut
<1>7. MoneyInv'
  BY <1>2, <1>3, <1>4, <1>6, OrderFacts, OrderMoves
<1>8. GatewayInv'
  BY <1>6, GatewayKept DEF TimeRunsOut, outsideVars, inboxVars, startVars
<1>9. PayTypes'
  BY <1>2, <1>6 DEF PayInv, PayTypes, TimeRunsOut, outsideVars, inboxVars, startVars
<1>10. QED
  BY <1>7, <1>8, <1>9 DEF PayInv

\* The payment of a caller's event lands on the order.
LEMMA ApplyKeeps ==
  ASSUME PayInv, NEW k \in Callers, Apply(k)
  PROVE  PayInv'
<1> DEFINE a == call[k].event.attempt
           c == [call[k] EXCEPT !.applied = TRUE]
<1>1. a \in Attempts /\ gateway[a] = "paid" /\ RecordPaid(a)
  BY EventIsPaid DEF Apply
<1>2. call' = [call EXCEPT ![k] = c] /\ c \in Inquiring /\ c.event = call[k].event
  BY EventIsPaid DEF Apply, Inquiring
<1> HIDE DEF a, c
<1>3. /\ order' \in OrderRows /\ MoneyInv'
      /\ status' \in [Attempts -> {"none", "initialized", "failed", "ended", "captured"}]
      /\ \A b \in Attempts : status'[b] = "none" => status[b] = "none"
      /\ \A b \in Attempts \ {a} : status'[b] = "captured" => status[b] = "captured"
  BY <1>1, PaymentRecorded
<1>4. \A b \in Attempts : status'[b] = "captured" => gateway[b] = "paid"
  BY <1>1, <1>3 DEF PayInv, GatewayInv
<1>5. UNCHANGED <<asking, gateway, stored>>
  BY DEF Apply, outsideVars, inboxVars, startVars
<1>6. QED
  BY <1>2, <1>3, <1>4, <1>5, CallGoesOn

-----------------------------------------------------------------------------

\* Steps of the gateway, and of the requests that start an attempt with it.
LEMMA AttemptKeeps ==
  ASSUME PayInv, NEW a \in Attempts,
         \/ Pay(a) \/ Decline(a) \/ RecordDeclined(a)
         \/ WriteAttempt(a) \/ GatewayStarts(a) \/ GatewayRefuses(a) \/ DayPasses(a)
  PROVE  PayInv'
<1> USE DEF startVars, outsideVars, inboxVars
<1>1. CASE Pay(a)
  <2>1. PayTypes' /\ GatewayInv'
    BY <1>1 DEF Pay, PayInv, PayTypes, GatewayInv
  <2>2. QED
    BY <1>1, <2>1, MoneyKept DEF Pay, PayInv
<1>2. CASE Decline(a)
  <2>1. PayTypes' /\ GatewayInv'
    BY <1>2 DEF Decline, PayInv, PayTypes, GatewayInv
  <2>2. QED
    BY <1>2, <2>1, MoneyKept DEF Decline, PayInv
<1>3. CASE RecordDeclined(a)
  <2>1. /\ status' \in [Attempts -> {"none", "initialized", "failed", "ended", "captured"}]
        /\ \A b \in Attempts : status'[b] = "captured" <=> status[b] = "captured"
        /\ \A b \in Attempts : status'[b] = "none" => status[b] = "none"
    BY <1>3 DEF RecordDeclined, Open, PayInv, PayTypes
  <2>2. PayTypes'
    BY <1>3, <2>1 DEF RecordDeclined, PayInv, PayTypes
  <2>3. GatewayInv'
    BY <1>3, <2>1, GatewayKept DEF RecordDeclined
  <2>4. QED
    BY <1>3, <2>1, <2>2, <2>3, RowsMove DEF RecordDeclined, PayInv
<1>4. CASE WriteAttempt(a)
  <2>1. status[a] = "none"
    BY <1>4 DEF WriteAttempt, Written
  <2>2. /\ status' \in [Attempts -> {"none", "initialized", "failed", "ended", "captured"}]
        /\ status'[a] = "initialized"
        /\ \A b \in Attempts \ {a} : status'[b] = status[b]
    BY <1>4 DEF WriteAttempt, PayInv, PayTypes
  <2>3. PayTypes'
    BY <1>4, <2>2 DEF WriteAttempt, PayInv, PayTypes
  <2>4. GatewayInv'
    BY <1>4, <2>1, <2>2 DEF WriteAttempt, PayInv, GatewayInv
  <2>5. QED
    BY <1>4, <2>1, <2>2, <2>3, <2>4, RowsMove DEF WriteAttempt, PayInv
<1>5. CASE GatewayStarts(a)
  <2>1. PayTypes'
    BY <1>5 DEF GatewayStarts, PayInv, PayTypes
  <2>2. /\ gateway[a] = "none" /\ gateway'[a] = "open" /\ status[a] # "none"
        /\ \A b \in Attempts \ {a} : gateway'[b] = gateway[b]
    BY <1>5 DEF GatewayStarts, PayInv, PayTypes, GatewayInv
  <2>3. /\ \A k \in Callers : call[k].event # NoEvent => call[k].event.attempt \in Attempts \ {a}
        /\ \A e \in stored : e.attempt \in Attempts \ {a}
    BY <2>2, EventIsPaid DEF PayInv, PayTypes, GatewayInv, Events
  <2>4. GatewayInv'
    BY <1>5, <2>2, <2>3 DEF GatewayStarts, PayInv, GatewayInv
  <2>5. QED
    BY <1>5, <2>1, <2>4, MoneyKept DEF GatewayStarts, PayInv
<1>6. CASE GatewayRefuses(a)
  <2>1. status[a] # "captured" /\ status[a] # "none"
    BY <1>6 DEF GatewayRefuses, PayInv, PayTypes, GatewayInv
  <2>2. /\ status' \in [Attempts -> {"none", "initialized", "failed", "ended", "captured"}]
        /\ \A b \in Attempts : status'[b] = "captured" <=> status[b] = "captured"
        /\ \A b \in Attempts : status'[b] = "none" => status[b] = "none"
    BY <1>6, <2>1 DEF GatewayRefuses, PayInv, PayTypes
  <2>3. PayTypes'
    BY <1>6, <2>2 DEF GatewayRefuses, PayInv, PayTypes
  <2>4. GatewayInv'
    BY <1>6, <2>2, GatewayKept DEF GatewayRefuses
  <2>5. QED
    BY <1>6, <2>2, <2>3, <2>4, RowsMove DEF GatewayRefuses, PayInv
<1>7. CASE DayPasses(a)
  <2>1. PayTypes' /\ GatewayInv'
    BY <1>7 DEF DayPasses, PayInv, PayTypes, GatewayInv
  <2>2. QED
    BY <1>7, <2>1, MoneyKept DEF DayPasses, PayInv
<1>8. QED
  BY <1>1, <1>2, <1>3, <1>4, <1>5, <1>6, <1>7

\* A start that is cut off leaves its row unlinked.
LEMMA StartCutOffKeeps ==
  ASSUME PayInv, StartCutOff
  PROVE  PayInv'
<1>1. asking' \subseteq asking /\ UNCHANGED <<order, status, gateway, stored, call>>
  BY DEF StartCutOff, outsideVars, inboxVars
<1>2. PayTypes'
  BY <1>1 DEF PayInv, PayTypes
<1>3. GatewayInv'
  BY <1>1 DEF PayInv, GatewayInv
<1>4. QED
  BY <1>1, <1>2, <1>3, MoneyKept DEF PayInv

\* An inquiry that begins is one of the gateway's rows; an expiry asks after
\* every row still open.
LEMMA TakesUp ==
  ASSUME NEW k \in Callers, Take(k)
  PROVE  \/ \E kind \in {"ask", "expire", "request"}, asked \in SUBSET Attempts :
               AskAbout(k, kind, asked) /\ (kind = "expire" => asked = Askable)
         \/ \E e \in Events : Deliver(k, e) \/ Reprocess(k, e)
<1>1. Askable \in SUBSET Attempts /\ Late \in SUBSET Attempts
  BY DEF Askable, Open, Late, Ended
<1>2. CASE BeginExpiry(k)
  BY <1>1, <1>2 DEF BeginExpiry, AskedFirst
<1>3. CASE AskFirst(k)
  BY <1>1, <1>3 DEF AskFirst
<1>4. CASE AskOpen(k)
  BY <1>1, <1>4 DEF AskOpen
<1>5. CASE Sync(k)
  <2>1. Askable \cup Late \in SUBSET Attempts /\ AskAbout(k, "ask", Askable \cup Late)
    BY <1>1, <1>5 DEF Sync
  <2>2. QED
    BY <2>1
<1>6. ASSUME NEW a \in Attempts, News(k, a) \/ Notify(k, a)
      PROVE  \/ \E kind \in {"ask"}, asked \in SUBSET Attempts : AskAbout(k, kind, asked)
             \/ \E e \in Events : Deliver(k, e) \/ Reprocess(k, e)
  <2>1. {a} \in SUBSET Attempts
    OBVIOUS
  <2>2. QED
    BY <1>6, <2>1 DEF News, Notify, AskLate
<1>7. QED
  BY <1>2, <1>3, <1>4, <1>5, <1>6 DEF Take

\* Work that begins: a report of a payment, or an inquiry.
LEMMA TakeKeeps ==
  ASSUME PayInv, NEW k \in Callers, Take(k)
  PROVE  PayInv'
<1> USE DEF startVars, outsideVars, inboxVars
<1>1. ASSUME NEW kind \in {"ask", "expire", "request"}, NEW asked \in SUBSET Attempts,
             AskAbout(k, kind, asked)
      PROVE  PayInv'
  <2> DEFINE c == [Idle EXCEPT !.kind = kind, !.todo = asked,
                     !.owed = {a \in Askable : kind = "expire" /\ gateway[a] = "paid"}]
  <2>1. Askable \subseteq Attempts
    BY DEF Askable, Open
  <2>2. c \in Inquiring /\ c.event = NoEvent
    BY <2>1 DEF Inquiring, Idle
  <2>3. call' = [call EXCEPT ![k] = c]
    BY <1>1 DEF AskAbout
  <2> HIDE DEF c
  <2>4. QED
    BY <1>1, <2>2, <2>3, CallOnly DEF AskAbout
<1>2. ASSUME NEW e \in Events, Deliver(k, e) PROVE PayInv'
  <2> DEFINE c == [Idle EXCEPT !.kind = "ask"]
  <2>1. c \in Inquiring /\ c.event = NoEvent
    BY DEF Inquiring, Idle
  <2>2. QED
    BY <1>2, <2>1, ClaimKeeps DEF Deliver
<1>3. ASSUME NEW e \in Events, Reprocess(k, e) PROVE PayInv'
  <2> DEFINE c == [Idle EXCEPT !.kind = "ask"]
  <2>1. c \in Inquiring /\ c.event = NoEvent
    BY DEF Inquiring, Idle
  <2>2. gateway[e.attempt] = "paid"
    BY <1>3 DEF Reprocess, PayInv, GatewayInv
  <2>3. QED
    BY <1>3, <2>1, <2>2, ClaimKeeps DEF Reprocess
<1>4. QED
  BY <1>1, <1>2, <1>3, TakesUp

\* Work that goes on without a decision on the order.
LEMMA AskingKeeps ==
  ASSUME PayInv, NEW k \in Callers, NEW a \in Attempts,
         InquiryFinds(k, a) \/ InquiryFindsNoPayment(k, a) \/ InquiryUnanswered(k, a)
  PROVE  PayInv'
<1> USE DEF startVars, outsideVars, inboxVars
<1>1. Asked(k, a) \in Inquiring /\ Asked(k, a).event = NoEvent
  BY EventIsPaid DEF Asked, Inquiring, InquiryFinds, InquiryFindsNoPayment, InquiryUnanswered,
     NextToAsk, Free
<1>2. CASE InquiryFinds(k, a)
  <2> DEFINE e == [attempt |-> a, source |-> "inquiry"]
             c == [Asked(k, a) EXCEPT !.heard =
                     IF call[k].kind = "expire" THEN @ \cup {a} ELSE @]
  <2>1. e \in Events /\ e.attempt = a
    BY DEF Events
  <2>2. c \in Inquiring /\ c.event = NoEvent
    BY <1>1 DEF Inquiring
  <2>3. TakeEvent(k, e, c) /\ gateway[a] = "paid" /\ UNCHANGED <<order, status, asking, gateway>>
    BY <1>2 DEF InquiryFinds, NextToAsk
  <2> HIDE DEF e, c
  <2>4. QED
    BY <2>1, <2>2, <2>3, ClaimKeeps
<1>3. CASE InquiryFindsNoPayment(k, a)
  <2>1. /\ status' \in [Attempts -> {"none", "initialized", "failed", "ended", "captured"}]
        /\ \A b \in Attempts : status'[b] = "captured" <=> status[b] = "captured"
        /\ \A b \in Attempts : status'[b] = "none" => status[b] = "none"
    BY <1>3 DEF InquiryFindsNoPayment, Open, PayInv, PayTypes
  <2>2. \A b \in Attempts : status'[b] = "captured" => gateway[b] = "paid"
    BY <2>1 DEF PayInv, GatewayInv
  <2>3. /\ call' = [call EXCEPT ![k] = Asked(k, a)]
        /\ UNCHANGED <<order, asking, gateway, stored>>
    BY <1>3 DEF InquiryFindsNoPayment
  <2>4. order' \in OrderRows /\ MoneyInv'
    BY <2>1, <2>3, RowsMove DEF PayInv, PayTypes
  <2>5. QED
    BY <1>1, <2>1, <2>2, <2>3, <2>4, CallGoesOn
<1>4. CASE InquiryUnanswered(k, a)
  <2> DEFINE c == [Asked(k, a) EXCEPT !.unknown = TRUE]
  <2>1. c \in Inquiring /\ c.event = NoEvent
    BY <1>1 DEF Inquiring
  <2>2. call' = [call EXCEPT ![k] = c]
    BY <1>4 DEF InquiryUnanswered
  <2> HIDE DEF c
  <2>3. QED
    BY <1>4, <2>1, <2>2, CallOnly DEF InquiryUnanswered
<1>5. QED
  BY <1>2, <1>3, <1>4

\* An event is done with, or given up for now.
LEMMA EventEndsKeeps ==
  ASSUME PayInv, NEW k \in Callers,
         ApplyFails(k) \/ MarkProcessed(k) \/ Leave(k) \/ CallCutOff(k)
  PROVE  PayInv'
<1> USE DEF startVars, outsideVars, inboxVars
<1>1. CASE ApplyFails(k)
  <2> DEFINE c == [call[k] EXCEPT !.event = NoEvent]
  <2>1. c \in Inquiring /\ c.event = NoEvent
    BY EventIsPaid DEF Inquiring
  <2>2. call' = [call EXCEPT ![k] = c]
    BY <1>1 DEF ApplyFails
  <2> HIDE DEF c
  <2>3. QED
    BY <1>1, <2>1, <2>2, CallOnly DEF ApplyFails
<1>2. CASE MarkProcessed(k)
  <2> DEFINE c == [call[k] EXCEPT !.event = NoEvent, !.applied = FALSE]
  <2>1. c \in Inquiring /\ c.event = NoEvent
    BY EventIsPaid DEF Inquiring
  <2>2. call' = [call EXCEPT ![k] = c]
    BY <1>2 DEF MarkProcessed
  <2> HIDE DEF c
  <2>3. QED
    BY <1>2, <2>1, <2>2, CallOnly DEF MarkProcessed
<1>3. CASE Leave(k)
  BY <1>3, IdleRow, CallOnly DEF Leave, Done
<1>4. CASE CallCutOff(k)
  BY <1>4, IdleRow, CallOnly DEF CallCutOff, Done
<1>5. QED
  BY <1>1, <1>2, <1>3, <1>4

\* Every step keeps the invariant.
LEMMA PayStep == PayInv /\ [PaymentNext]_paymentVars => PayInv'
<1> SUFFICES ASSUME PayInv, [PaymentNext]_paymentVars PROVE PayInv'
  OBVIOUS
<1>1. ASSUME NEW k \in Callers, Take(k) \/ Proceed(k) \/ Fail(k) PROVE PayInv'
  BY <1>1, TakeKeeps, ApplyKeeps, EventEndsKeeps, ExpiryKeeps, RetryKeeps, SwitchKeeps, AskingKeeps
    DEF Proceed, Fail
<1>2. ASSUME NEW a \in Attempts,
             \/ Pay(a) \/ Decline(a) \/ RecordDeclined(a)
             \/ WriteAttempt(a) \/ GatewayStarts(a) \/ GatewayRefuses(a) \/ DayPasses(a)
      PROVE  PayInv'
  BY <1>2, AttemptKeeps
<1>3. CASE TimeRunsOut \/ StartCutOff \/ CancelOrder
  BY <1>3, TimeKeeps, StartCutOffKeeps, CancelKeeps
<1>4. CASE UNCHANGED paymentVars
  <2>1. UNCHANGED <<order, status, asking, gateway, stored, call>>
    BY <1>4 DEF paymentVars
  <2>2. PayTypes' /\ GatewayInv'
    BY <2>1 DEF PayInv, PayTypes, GatewayInv
  <2>3. QED
    BY <2>1, <2>2, MoneyKept DEF PayInv
<1>5. QED
  BY <1>1, <1>2, <1>3, <1>4 DEF PaymentNext

\* The invariant holds in every behaviour.
LEMMA PayInvHolds == PaymentSpec => []PayInv
  BY PayInit, PayStep, PTL DEF PaymentSpec

\* Whatever webhooks, redirects, inquiries, retries, expiries, switches and
\* crashes do, in any order and number, amountPaid is what the captured attempts
\* brought, and money on an order that ended or is collected in cash is marked.
THEOREM MoneyIsAccounted == PaymentSpec => []MoneyAccounted
<1>1. PayInv => MoneyAccounted
  BY DEF PayInv, MoneyInv
<1>2. QED
  BY <1>1, PayInvHolds, PTL

\* A paid order that stands is completed, waits for no expiry and holds its
\* stock; an order that ended holds none.
THEOREM PaidIsASale == PaymentSpec => []PaidStandsAsSale
<1>1. PayInv => PaidStandsAsSale
  BY DEF PayInv, MoneyInv
<1>2. QED
  BY <1>1, PayInvHolds, PTL

-----------------------------------------------------------------------------

(***************************************************************************)
(* An expiry hears of every payment there was when it began to ask.  Unless *)
(* something failed, a payment it owes an answer about is still to be asked *)
(* for, is the event it has in hand, or is recorded already.               *)
(***************************************************************************)

\* c: a caller's record; st, gw, f: status, gateway and faults.
Heeds(c, st, gw, f) ==
    /\ c.applied => c.event # NoEvent /\ st[c.event.attempt] = "captured"
    /\ c.kind = "expire" /\ f = 0 =>
         \A a \in c.owed :
            /\ gw[a] = "paid"
            /\ \/ a \in c.todo
               \/ c.event # NoEvent /\ c.event.attempt = a
               \/ st[a] = "captured"

HeedInv ==
    /\ faults \in Nat
    /\ \A e \in processed : e \in Events /\ status[e.attempt] = "captured"
    /\ \A k \in Callers : Heeds(call[k], status, gateway, faults)

\* Holds initially.
LEMMA HeedInit == PaymentInit => HeedInv
  BY DEF PaymentInit, HeedInv, Heeds, Idle

\* What is paid stays paid, what is recorded stays recorded, and a fault that
\* happened is not taken back.
Stands ==
    /\ \A a \in Attempts : status[a] = "captured" => status'[a] = "captured"
    /\ \A a \in Attempts : gateway[a] = "paid" => gateway'[a] = "paid"
    /\ faults' \in Nat /\ (faults' = 0 => faults = 0)

\* So what a caller that does nothing knows is as true as before.
LEMMA HeedsStands ==
  ASSUME PayInv, HeedInv, Stands, NEW k \in Callers
  PROVE  Heeds(call[k], status', gateway', faults')
<1>1. call[k] \in Inquiring /\ Heeds(call[k], status, gateway, faults)
  BY EventIsPaid DEF HeedInv
<1>2. call[k].event # NoEvent => call[k].event.attempt \in Attempts
  BY EventIsPaid
<1>3. call[k].owed \subseteq Attempts
  BY <1>1 DEF Inquiring
<1>4. QED
  BY <1>1, <1>2, <1>3 DEF Heeds, Stands

\* One caller goes on, the inbox as it was or with that caller's event done.
LEMMA HeedMoves ==
  ASSUME PayInv, HeedInv, Stands, NEW k \in Callers, NEW c \in Inquiring,
         call' = [call EXCEPT ![k] = c], Heeds(c, status', gateway', faults'),
         \A e \in processed' : e \in processed \/ (e \in Events /\ status'[e.attempt] = "captured")
  PROVE  HeedInv'
<1>1. \A q \in Callers : call'[q] = IF q = k THEN c ELSE call[q]
  BY DEF PayInv, PayTypes
<1>2. \A q \in Callers : Heeds(call'[q], status', gateway', faults')
  BY <1>1, HeedsStands
<1>3. \A e \in processed' : e \in Events /\ status'[e.attempt] = "captured"
  BY DEF HeedInv, Stands, Events
<1>4. QED
  BY <1>2, <1>3 DEF HeedInv, Stands

\* Nobody does anything: the gateway, the clock, the merchant.
LEMMA HeedRests ==
  ASSUME PayInv, HeedInv, Stands, UNCHANGED <<call, processed>>
  PROVE  HeedInv'
<1>1. \A q \in Callers : Heeds(call'[q], status', gateway', faults')
  BY HeedsStands
<1>2. \A e \in processed' : e \in Events /\ status'[e.attempt] = "captured"
  BY DEF HeedInv, Stands, Events
<1>3. QED
  BY <1>1, <1>2 DEF HeedInv, Stands

\* A caller that begins a new piece of work without an event owes nothing yet.
LEMMA HeedsNothing ==
  ASSUME NEW c, NEW st, NEW gw, NEW f, c.applied = FALSE, c.owed = {} \/ c.kind # "expire"
  PROVE  Heeds(c, st, gw, f)
  BY DEF Heeds

-----------------------------------------------------------------------------

\* Steps of the gateway, of the requests that start an attempt, of the clock and
\* of the merchant.
LEMMA AttemptHeeds ==
  ASSUME PayInv, HeedInv,
         \/ \E a \in Attempts : Pay(a) \/ Decline(a) \/ RecordDeclined(a) \/ WriteAttempt(a)
                                \/ GatewayStarts(a) \/ GatewayRefuses(a) \/ DayPasses(a)
         \/ TimeRunsOut \/ StartCutOff \/ CancelOrder
  PROVE  HeedInv'
<1> USE DEF startVars, outsideVars, inboxVars
<1>1. faults \in Nat
  BY DEF HeedInv
<1>2. ASSUME NEW a \in Attempts,
             \/ Pay(a) \/ Decline(a) \/ RecordDeclined(a) \/ WriteAttempt(a)
             \/ GatewayStarts(a) \/ GatewayRefuses(a) \/ DayPasses(a)
      PROVE  Stands /\ UNCHANGED <<call, processed>>
  <2>1. UNCHANGED <<call, processed, faults>>
    BY <1>2 DEF Pay, Decline, RecordDeclined, WriteAttempt, GatewayStarts, GatewayRefuses, DayPasses
  <2>2. \A b \in Attempts : status[b] = "captured" => status'[b] = "captured"
    <3>1. CASE Pay(a) \/ Decline(a) \/ GatewayStarts(a) \/ DayPasses(a)
      BY <3>1 DEF Pay, Decline, GatewayStarts, DayPasses
    <3>2. CASE RecordDeclined(a)
      BY <3>2 DEF RecordDeclined, Open, PayInv, PayTypes
    <3>3. CASE WriteAttempt(a)
      BY <3>3 DEF WriteAttempt, Written, PayInv, PayTypes
    <3>4. CASE GatewayRefuses(a)
      BY <3>4 DEF GatewayRefuses, PayInv, PayTypes, GatewayInv
    <3>5. QED
      BY <1>2, <3>1, <3>2, <3>3, <3>4
  <2>3. \A b \in Attempts : gateway[b] = "paid" => gateway'[b] = "paid"
    BY <1>2 DEF Pay, Decline, RecordDeclined, WriteAttempt, GatewayStarts, GatewayRefuses,
       DayPasses, PayInv, PayTypes, GatewayInv
  <2>4. QED
    BY <1>1, <2>1, <2>2, <2>3 DEF Stands
<1>3. ASSUME TimeRunsOut \/ StartCutOff \/ CancelOrder
      PROVE  Stands /\ UNCHANGED <<call, processed>>
  <2>1. UNCHANGED <<call, processed, gateway>>
    BY <1>3 DEF TimeRunsOut, StartCutOff, CancelOrder
  <2>2. \A b \in Attempts : status[b] = "captured" => status'[b] = "captured"
    BY <1>3, RowsClosed DEF TimeRunsOut, StartCutOff, CancelOrder
  <2>3. faults' \in Nat /\ (faults' = 0 => faults = 0)
    BY <1>1, <1>3 DEF TimeRunsOut, StartCutOff, CancelOrder
  <2>4. QED
    BY <2>1, <2>2, <2>3 DEF Stands
<1>4. QED
  BY <1>2, <1>3, HeedRests

\* Work that begins: what an expiry owes is what it is to ask for.
LEMMA TakeHeeds ==
  ASSUME PayInv, HeedInv, NEW k \in Callers, Take(k)
  PROVE  HeedInv'
<1> USE DEF startVars, outsideVars, inboxVars
<1>1. UNCHANGED <<status, gateway, faults, processed>>
  BY TakesUp DEF AskAbout, Deliver, Reprocess, TakeEvent
<1>2. Stands
  BY <1>1 DEF Stands, HeedInv
<1>3. ASSUME NEW kind \in {"ask", "expire", "request"}, NEW asked \in SUBSET Attempts,
             AskAbout(k, kind, asked), kind = "expire" => asked = Askable
      PROVE  HeedInv'
  <2> DEFINE c == [Idle EXCEPT !.kind = kind, !.todo = asked,
                     !.owed = {a \in Askable : kind = "expire" /\ gateway[a] = "paid"}]
  <2>1. Askable \subseteq Attempts
    BY DEF Askable, Open
  <2>2. c \in Inquiring
    BY <2>1 DEF Inquiring, Idle
  <2>3. call' = [call EXCEPT ![k] = c]
    BY <1>3 DEF AskAbout
  <2>4. Heeds(c, status, gateway, faults)
    BY <1>3 DEF Heeds, Idle
  <2> HIDE DEF c
  <2>5. Heeds(c, status', gateway', faults')
    BY <1>1, <2>4
  <2>6. QED
    BY <1>1, <1>2, <2>2, <2>3, <2>5, HeedMoves
<1>4. ASSUME NEW e \in Events, Deliver(k, e) \/ Reprocess(k, e) PROVE HeedInv'
  <2> DEFINE d == [Idle EXCEPT !.kind = "ask"]
             c == IF e \in processed THEN d ELSE [d EXCEPT !.event = e]
  <2>1. c \in Inquiring /\ c.kind = "ask" /\ c.applied = FALSE
    BY DEF Inquiring, Idle
  <2>2. call' = [call EXCEPT ![k] = c]
    BY <1>4 DEF Deliver, Reprocess, TakeEvent
  <2> HIDE DEF c, d
  <2>3. Heeds(c, status', gateway', faults')
    BY <2>1, HeedsNothing
  <2>4. QED
    BY <1>1, <1>2, <2>1, <2>2, <2>3, HeedMoves
<1>5. QED
  BY <1>3, <1>4, TakesUp

\* An answer that says paid becomes the event in hand, unless it is recorded; one
\* that says not paid is owed to nobody; one that does not come is a fault.
LEMMA AskingHeeds ==
  ASSUME PayInv, HeedInv, NEW k \in Callers, NEW a \in Attempts,
         InquiryFinds(k, a) \/ InquiryFindsNoPayment(k, a) \/ InquiryUnanswered(k, a)
  PROVE  HeedInv'
<1> USE DEF startVars, outsideVars, inboxVars
<1>1. /\ call[k] \in Inquiring /\ Heeds(call[k], status, gateway, faults)
      /\ call[k].event = NoEvent /\ faults \in Nat
  BY EventIsPaid DEF HeedInv, InquiryFinds, InquiryFindsNoPayment, InquiryUnanswered,
     NextToAsk, Free
<1>2. call[k].applied = FALSE
  BY <1>1 DEF Heeds, Inquiring
<1>3. Asked(k, a) \in Inquiring
  BY <1>1 DEF Asked, Inquiring
<1>4. /\ Asked(k, a).kind = call[k].kind /\ Asked(k, a).owed = call[k].owed
      /\ Asked(k, a).todo = call[k].todo \ {a} /\ Asked(k, a).event = NoEvent
      /\ Asked(k, a).applied = FALSE
  BY <1>1, <1>2 DEF Asked, Inquiring
<1>5. CASE InquiryFinds(k, a)
  <2> DEFINE e == [attempt |-> a, source |-> "inquiry"]
             d == [Asked(k, a) EXCEPT !.heard =
                     IF call[k].kind = "expire" THEN @ \cup {a} ELSE @]
             c == IF e \in processed THEN d ELSE [d EXCEPT !.event = e]
  <2>1. e \in Events /\ e.attempt = a /\ e # NoEvent
    BY PaymentAssumption DEF Events, NoEvent
  <2>2. d \in Inquiring /\ d.kind = call[k].kind /\ d.owed = call[k].owed
        /\ d.todo = call[k].todo \ {a} /\ d.event = NoEvent /\ d.applied = FALSE
    BY <1>3, <1>4 DEF Inquiring
  <2>3. call' = [call EXCEPT ![k] = c] /\ UNCHANGED <<status, gateway, faults, processed>>
    BY <1>5 DEF InquiryFinds, TakeEvent
  <2> HIDE DEF d, e
  <2>4. c \in Inquiring /\ c.kind = call[k].kind /\ c.owed = call[k].owed
        /\ c.todo = call[k].todo \ {a} /\ c.applied = FALSE
        /\ (c.event = e \/ e \in processed)
    BY <2>1, <2>2 DEF Inquiring
  <2> HIDE DEF c
  <2>5. c.event = e \/ status[a] = "captured"
    BY <2>1, <2>4 DEF HeedInv
  <2>6. Heeds(c, status, gateway, faults)
    BY <1>1, <2>1, <2>4, <2>5 DEF Heeds
  <2>7. Stands
    BY <2>3 DEF Stands, HeedInv
  <2>8. Heeds(c, status', gateway', faults')
    BY <2>3, <2>6
  <2>9. QED
    BY <2>3, <2>4, <2>7, <2>8, HeedMoves
<1>6. CASE InquiryFindsNoPayment(k, a)
  <2>1. /\ call' = [call EXCEPT ![k] = Asked(k, a)] /\ gateway[a] = "open"
        /\ UNCHANGED <<gateway, faults, processed>>
    BY <1>6 DEF InquiryFindsNoPayment
  <2>2. \A b \in Attempts : status[b] = "captured" => status'[b] = "captured"
    BY <1>6 DEF InquiryFindsNoPayment, Open, PayInv, PayTypes
  <2>3. Stands
    BY <1>1, <2>1, <2>2 DEF Stands
  <2>4. Heeds(Asked(k, a), status, gateway, faults)
    BY <1>1, <1>4, <2>1 DEF Heeds
  <2>5. call[k].owed \subseteq Attempts
    BY <1>1 DEF Inquiring
  <2>6. Heeds(Asked(k, a), status', gateway', faults')
    BY <1>4, <2>1, <2>2, <2>4, <2>5 DEF Heeds
  <2>7. QED
    BY <1>3, <2>1, <2>3, <2>6, HeedMoves
<1>7. CASE InquiryUnanswered(k, a)
  <2> DEFINE c == [Asked(k, a) EXCEPT !.unknown = TRUE]
  <2>1. c \in Inquiring /\ c.applied = FALSE
    BY <1>3, <1>4 DEF Inquiring
  <2>2. /\ call' = [call EXCEPT ![k] = c] /\ faults' = faults + 1
        /\ UNCHANGED <<status, gateway, processed>>
    BY <1>7 DEF InquiryUnanswered
  <2> HIDE DEF c
  <2>3. Stands /\ faults' # 0
    BY <1>1, <2>2 DEF Stands
  <2>4. Heeds(c, status', gateway', faults')
    BY <2>1, <2>3 DEF Heeds
  <2>5. QED
    BY <2>1, <2>2, <2>3, <2>4, HeedMoves
<1>8. QED
  BY <1>5, <1>6, <1>7

\* The event in hand is recorded, done with, or given up by a fault.
LEMMA EventHeeds ==
  ASSUME PayInv, HeedInv, NEW k \in Callers,
         Apply(k) \/ MarkProcessed(k) \/ ApplyFails(k) \/ CallCutOff(k)
  PROVE  HeedInv'
<1> USE DEF startVars, outsideVars, inboxVars
<1>1. call[k] \in Inquiring /\ Heeds(call[k], status, gateway, faults) /\ faults \in Nat
  BY EventIsPaid DEF HeedInv
<1>2. call[k].owed \subseteq Attempts
  BY <1>1 DEF Inquiring
<1>3. CASE Apply(k)
  <2> DEFINE a == call[k].event.attempt
             c == [call[k] EXCEPT !.applied = TRUE]
  <2>1. call[k].event # NoEvent /\ a \in Attempts /\ RecordPaid(a)
    BY <1>3, EventIsPaid DEF Apply
  <2>2. status'[a] = "captured" /\ \A b \in Attempts : status[b] = "captured" => status'[b] = "captured"
    <3>1. CASE AlreadyRecorded(a)
      BY <2>1, <3>1 DEF RecordPaid, AlreadyRecorded
    <3>2. CASE ~AlreadyRecorded(a)
      BY <2>1, <3>2 DEF RecordPaid, Open
    <3>3. QED
      BY <3>1, <3>2
  <2>3. /\ call' = [call EXCEPT ![k] = c] /\ UNCHANGED <<gateway, faults, processed>>
    BY <1>3 DEF Apply
  <2>4. c \in Inquiring /\ c.kind = call[k].kind /\ c.owed = call[k].owed
        /\ c.todo = call[k].todo /\ c.event = call[k].event
    BY <1>1 DEF Inquiring
  <2>5. Stands
    BY <1>1, <2>2, <2>3 DEF Stands
  <2> HIDE DEF c
  <2>6. Heeds(c, status', gateway', faults')
    BY <1>1, <1>2, <2>1, <2>2, <2>3, <2>4 DEF Heeds
  <2>7. QED
    BY <2>3, <2>4, <2>5, <2>6, HeedMoves
<1>4. CASE MarkProcessed(k)
  <2> DEFINE c == [call[k] EXCEPT !.event = NoEvent, !.applied = FALSE]
  <2>1. /\ call[k].event # NoEvent /\ call[k].event \in Events
        /\ status[call[k].event.attempt] = "captured"
    BY <1>1, <1>4, CallRow DEF MarkProcessed, Heeds
  <2>2. /\ call' = [call EXCEPT ![k] = c] /\ UNCHANGED <<status, gateway, faults>>
        /\ processed' = processed \cup {call[k].event}
    BY <1>4 DEF MarkProcessed
  <2>3. c \in Inquiring /\ c.kind = call[k].kind /\ c.owed = call[k].owed
        /\ c.todo = call[k].todo /\ c.applied = FALSE
    BY <1>1 DEF Inquiring
  <2>4. Stands
    BY <1>1, <2>2 DEF Stands
  <2> HIDE DEF c
  <2>5. Heeds(c, status, gateway, faults)
    BY <1>1, <2>1, <2>3 DEF Heeds
  <2>6. Heeds(c, status', gateway', faults')
    BY <2>2, <2>5
  <2>7. QED
    BY <2>1, <2>2, <2>3, <2>4, <2>6, HeedMoves
<1>5. CASE ApplyFails(k)
  <2> DEFINE c == [call[k] EXCEPT !.event = NoEvent]
  <2>1. /\ call' = [call EXCEPT ![k] = c] /\ faults' = faults + 1 /\ ~call[k].applied
        /\ UNCHANGED <<status, gateway, processed>>
    BY <1>5 DEF ApplyFails
  <2>2. c \in Inquiring /\ c.applied = FALSE
    BY <1>1, <2>1 DEF Inquiring
  <2> HIDE DEF c
  <2>3. Stands /\ faults' # 0
    BY <1>1, <2>1 DEF Stands
  <2>4. Heeds(c, status', gateway', faults')
    BY <2>2, <2>3 DEF Heeds
  <2>5. QED
    BY <2>1, <2>2, <2>3, <2>4, HeedMoves
<1>6. CASE CallCutOff(k)
  <2>1. /\ call' = [call EXCEPT ![k] = Idle] /\ faults' = faults + 1
        /\ UNCHANGED <<status, gateway, processed>>
    BY <1>6 DEF CallCutOff, Done
  <2>2. Stands
    BY <1>1, <2>1 DEF Stands
  <2>3. Heeds(Idle, status', gateway', faults')
    BY HeedsNothing DEF Idle
  <2>4. QED
    BY <2>1, <2>2, <2>3, IdleRow, HeedMoves
<1>7. QED
  BY <1>3, <1>4, <1>5, <1>6

\* What follows the inquiry ends the call.
LEMMA DecisionHeeds ==
  ASSUME PayInv, HeedInv, NEW k \in Callers,
         ExpireOrder(k) \/ Retry(k) \/ SwitchToCod(k) \/ Leave(k)
  PROVE  HeedInv'
<1>1. /\ call' = [call EXCEPT ![k] = Idle] /\ UNCHANGED <<gateway, faults, processed>>
      /\ (status' = Closed \/ status' = status)
  BY DEF ExpireOrder, Retry, SwitchToCod, Leave, Done, startVars, outsideVars, inboxVars
<1>2. Stands
  BY <1>1, RowsClosed DEF Stands, HeedInv
<1>3. Heeds(Idle, status', gateway', faults')
  BY HeedsNothing DEF Idle
<1>4. QED
  BY <1>1, <1>2, <1>3, IdleRow, HeedMoves

\* Every step keeps it.
LEMMA HeedStep == PayInv /\ HeedInv /\ [PaymentNext]_paymentVars => HeedInv'
<1> SUFFICES ASSUME PayInv, HeedInv, [PaymentNext]_paymentVars PROVE HeedInv'
  OBVIOUS
<1>1. ASSUME NEW k \in Callers, Take(k) \/ Proceed(k) \/ Fail(k) PROVE HeedInv'
  BY <1>1, TakeHeeds, AskingHeeds, EventHeeds, DecisionHeeds DEF Proceed, Fail
<1>2. CASE UNCHANGED paymentVars
  <2>1. UNCHANGED <<status, gateway, call, processed, faults>>
    BY <1>2 DEF paymentVars
  <2>2. QED
    BY <2>1 DEF HeedInv
<1>3. QED
  BY <1>1, <1>2, AttemptHeeds DEF PaymentNext

\* An order that is still unpaid has no recorded payment.
LEMMA UnpaidHasNone ==
  ASSUME PayInv, order.paid = 0, NEW a \in Attempts
  PROVE  status[a] # "captured"
<1>1. Captured \subseteq Attempts
  BY DEF Captured
<1>2. IsFiniteSet(Captured) /\ Cardinality(Captured) = 0
  BY <1>1, PaymentAssumption, FS_Subset DEF PayInv, MoneyInv, MoneyAccounted, MoneyCounted
<1>3. Captured = {}
  BY <1>2, FS_EmptySet
<1>4. QED
  BY <1>3 DEF Captured

\* Whoever expires an order, unless something failed, has asked the gateway after
\* every attempt that was open and paid when it began, and recorded what it heard.
LEMMA ExpiryOwesNothing ==
  ASSUME PayInv, HeedInv, NEW k \in Callers, ExpireOrder(k), faults = 0
  PROVE  call[k].owed = {}
<1>1. /\ call[k].kind = "expire" /\ call[k].todo = {} /\ call[k].event = NoEvent
      /\ ~IsPaid
  BY DEF ExpireOrder, Decides, Free, StillOverdue
<1>2. order.paid = 0
  BY <1>1, OrderFacts DEF IsPaid
<1>3. call[k].owed \subseteq Attempts /\ Heeds(call[k], status, gateway, faults)
  BY EventIsPaid DEF HeedInv, Inquiring
<1>4. \A a \in call[k].owed : status[a] = "captured"
  BY <1>1, <1>3 DEF Heeds
<1>5. QED
  BY <1>2, <1>3, <1>4, UnpaidHasNone

\* No interleaving of webhooks, inquiries, retries and the expiry itself cancels
\* an order over a payment that was there, on an open attempt, when the expiry
\* began to ask, as long as every event is processed and every inquiry answered.
THEOREM ExpiryHeedsPayments == PaymentSpec => ExpiryAsksFirst
<1>1. PayInv /\ HeedInv =>
        (\A k \in Callers : ExpireOrder(k) /\ faults = 0 => call[k].owed = {})
  BY ExpiryOwesNothing
<1>2. PayInv /\ HeedInv =>
        [\A k \in Callers : ExpireOrder(k) /\ faults = 0 => call[k].owed = {}]_paymentVars
  BY <1>1
<1>3. PaymentSpec => [](PayInv /\ HeedInv)
  BY PayInit, HeedInit, PayStep, HeedStep, PTL DEF PaymentSpec
<1>4. QED
  BY <1>2, <1>3, PTL DEF ExpiryAsksFirst
=============================================================================
