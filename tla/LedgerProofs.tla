----------------------------- MODULE LedgerProofs -----------------------------
(***************************************************************************)
(* Theorems about the parts that keep accounts beside an order's: what a   *)
(* shopper spends of a tender, returns, refunds at a gateway, settlements  *)
(* of collected cash.  For any rows, requests and amounts.                 *)
(***************************************************************************)
EXTENDS Tender, Returns, Refunds, Settlements, Sums, SequenceTheorems

-----------------------------------------------------------------------------
(* Tenders and points.                                                     *)

Sales == [stage : {"none", "standing", "ended"}, parcel : {"none", "delivered", "returned"},
          paid : 0..OrderTotal, refunded : 0..OrderTotal]

TenderTypes ==
    /\ sale \in Sales
    /\ checkout \in 0..Len(Checkout)
    /\ spent \in [Tenders -> Nat] /\ givenBack \in [Tenders -> Nat] /\ holding \in [Tenders -> Nat]
    /\ cancelJobs \subseteq Tenders
    /\ points \in [earned : Nat, reversed : Nat]
    /\ earnJob \in BOOLEAN
    /\ returnJob \in [ReturnJobs -> {"none", "queued", "reversing", "done"}]
    /\ endings \in Nat /\ returns \in Nat
    /\ late \subseteq Tenders \cup {"earned", "reversed"}

\* A tender the checkout has not come to yet was not spent.
NotTakenYet ==
    /\ \A i \in 1..checkout : spent[Checkout[i]] = 0
    /\ sale.stage = "none" => checkout = 0 /\ \A t \in Tenders : spent[t] = 0

\* Without two jobs between their read and their write, one job at most is
\* there, and then no points were taken back yet.
ReversedInTurn ==
    "reversed" \notin late =>
      /\ points.reversed <= 1
      /\ \A i, j \in ReturnJobs : returnJob[i] = "reversing" /\ returnJob[j] = "reversing" => i = j
      /\ (\E j \in ReturnJobs : returnJob[j] = "reversing") => points.reversed = 0

TenderInv ==
    /\ TenderTypes
    /\ \A t \in Tenders : givenBack[t] <= spent[t]
    /\ NotTakenYet
    /\ EndedGivesBack
    /\ sale.parcel = "returned" => returns > 0
    /\ ReturnedEarnsNothing
    /\ ReversedInTurn

\* Each tender is somewhere in the checkout, and in one place.
LEMMA TendersTaken ==
  ASSUME NEW i \in 1..Len(Checkout)
  PROVE  /\ Checkout[i] \in Tenders
         /\ \A k \in 1..Len(Checkout) : Checkout[k] = Checkout[i] => k = i
         /\ Len(Checkout) \in Nat
  BY TenderAssumption DEF Tenders

\* Holds initially.
LEMMA TenderInitInv == TenderInit => TenderInv
<1> SUFFICES ASSUME TenderInit PROVE TenderInv
  OBVIOUS
<1>1. Len(Checkout) \in Nat /\ OrderTotal \in Nat /\ StartBalance \in Nat
  BY TenderAssumption
<1>2. TenderTypes
  <2>1. spent \in [Tenders -> Nat] /\ givenBack \in [Tenders -> Nat] /\ holding \in [Tenders -> Nat]
    BY <1>1 DEF TenderInit
  <2>2. checkout \in 0..Len(Checkout) /\ 0 \in 0..OrderTotal
    BY <1>1 DEF TenderInit
  <2>3. QED
    BY <2>1, <2>2 DEF TenderInit, TenderTypes, Sales
<1>3. QED
  BY <1>2 DEF TenderInit, TenderInv, NotTakenYet, EndedGivesBack, ReturnedEarnsNothing, ReversedInTurn

\* What a tender can still pay is a part of what it holds, and of what is due.
LEMMA TakesWhatIsDue ==
  ASSUME TenderTypes, NEW t \in Tenders
  PROVE  /\ CanTake(t) \in Nat /\ CanTake(t) <= holding[t]
         /\ sale.paid + CanTake(t) \in 0..OrderTotal
<1>1. holding[t] \in Nat /\ sale.paid \in 0..OrderTotal /\ OrderTotal \in Nat
  BY TenderAssumption DEF TenderTypes, Sales
<1>2. /\ NoLess(OrderTotal - sale.paid) = OrderTotal - sale.paid
      /\ OrderTotal - sale.paid \in Nat
  BY <1>1 DEF NoLess
<1>3. /\ CanTake(t) \in Nat /\ CanTake(t) <= holding[t]
      /\ CanTake(t) <= OrderTotal - sale.paid
  BY <1>1, <1>2 DEF CanTake, Min2
<1>4. QED
  BY <1>1, <1>3

\* The next tender of the checkout is spent.
LEMMA SpendNextKeeps == TenderInv /\ SpendNext => TenderInv'
<1> SUFFICES ASSUME TenderInv, SpendNext PROVE TenderInv'
  OBVIOUS
<1> DEFINE t == Checkout[checkout]
<1>1. checkout \in 1..Len(Checkout) /\ TenderTypes
  BY DEF TenderInv, TenderTypes, Sales, SpendNext
<1>2. t \in Tenders /\ \A k \in 1..Len(Checkout) : Checkout[k] = t => k = checkout
  BY <1>1, TendersTaken
<1>3. spent[t] = 0 /\ givenBack[t] = 0
  BY <1>1, <1>2 DEF TenderInv, NotTakenYet, TenderTypes, Sales
<1>4. CanTake(t) \in Nat /\ CanTake(t) <= holding[t] /\ sale.paid + CanTake(t) \in 0..OrderTotal
  BY <1>1, <1>2, TakesWhatIsDue
<1> DEFINE a == CanTake(t)
<1>5. /\ checkout' = checkout - 1 /\ UNCHANGED <<givenBack, cancelJobs, points, earnJob, returnJob, endings, returns>>
      /\ spent' = [spent EXCEPT ![t] = a] /\ holding' = [holding EXCEPT ![t] = @ - a]
      /\ sale' = [sale EXCEPT !.paid = @ + a]
      /\ late' = IF sale.stage = "ended" /\ a > 0 THEN late \cup {t} ELSE late
  BY DEF SpendNext, JobsSame
<1> HIDE DEF a, t
<1>6. TenderTypes'
  <2>1. sale.paid + a \in 0..OrderTotal /\ a \in Nat /\ holding[t] - a \in Nat
    BY <1>1, <1>2, <1>4 DEF TenderTypes, Sales, a
  <2>2. sale' \in Sales
    BY <2>1, <1>1, <1>5 DEF TenderTypes, Sales
  <2>3. checkout' \in 0..Len(Checkout)
    BY <1>1, <1>2, <1>5, TendersTaken DEF TenderTypes, Sales
  <2>4. spent' \in [Tenders -> Nat] /\ holding' \in [Tenders -> Nat]
    BY <2>1, <1>1, <1>5 DEF TenderTypes, Sales
  <2>5. QED
    BY <2>2, <2>3, <2>4, <1>1, <1>2, <1>5 DEF TenderTypes, Sales
<1>7. (\A u \in Tenders : givenBack[u] <= spent[u])'
  BY <1>1, <1>2, <1>3, <1>4, <1>5 DEF TenderInv, TenderTypes, Sales, a
<1>8. NotTakenYet'
  <2>1. SUFFICES ASSUME NEW i \in 1..(checkout - 1) PROVE spent'[Checkout[i]] = 0
    BY <1>1, <1>5 DEF NotTakenYet, TenderInv, TenderTypes, Sales
  <2>2. i \in 1..checkout /\ i \in 1..Len(Checkout) /\ i # checkout
    BY <1>1, TendersTaken
  <2>3. spent[Checkout[i]] = 0 /\ Checkout[i] \in Tenders /\ Checkout[i] # t
    BY <2>2, <1>2, TendersTaken DEF TenderInv, NotTakenYet
  <2>4. QED
    BY <2>3, <1>1, <1>5 DEF TenderTypes, Sales
<1>9. EndedGivesBack'
  <2>1. CASE sale.stage = "ended" /\ a > 0
    BY <2>1, <1>2, <1>5 DEF EndedGivesBack
  <2>2. CASE ~(sale.stage = "ended" /\ a > 0)
    <3>1. SUFFICES ASSUME sale'.stage = "ended", late' \cap Tenders = {}, NEW u \in Tenders \ cancelJobs
                   PROVE  LeftOn(u)' = 0 \/ Room' = 0
      BY <1>5 DEF EndedGivesBack
    <3>2. a = 0 /\ sale.stage = "ended" /\ late' = late /\ sale.paid + a = sale.paid
      BY <3>1, <2>2, <1>1, <1>4, <1>5 DEF TenderTypes, Sales, a
    <3>3. LeftOn(u) = 0 \/ Room = 0
      BY <3>1, <3>2 DEF TenderInv, EndedGivesBack
    <3>4. spent' = spent /\ sale' = sale
      BY <3>2, <1>1, <1>2, <1>3, <1>5 DEF TenderTypes, Sales
    <3>5. QED
      BY <3>3, <3>4, <1>5 DEF LeftOn, Room
  <2>3. QED
    BY <2>1, <2>2
<1>10. t # "earned" /\ t # "reversed"
  BY <1>2, TenderAssumption DEF Tenders
<1>11. QED
  BY <1>1, <1>5, <1>6, <1>7, <1>8, <1>9, <1>10
     DEF TenderInv, TenderTypes, Sales, ReturnedEarnsNothing, ReversedInTurn

\* What was refunded does not come back, and leaves no more to refund.
LEMMA RoomShrinks ==
  ASSUME sale \in Sales, sale'.paid = sale.paid, sale'.refunded \in Nat, sale.refunded <= sale'.refunded,
         Room = 0
  PROVE  Room' = 0
<1>1. sale.paid \in Nat /\ sale.refunded \in Nat /\ sale.paid - sale.refunded <= 0
  BY TenderAssumption DEF Sales, Room, NoLess
<1>2. sale'.paid - sale'.refunded <= 0
  BY <1>1
<1>3. QED
  BY <1>1, <1>2 DEF Room, NoLess

\* What a refund of a tender's payment keeps, whoever makes it.
LEMMA GiveBackKeeps ==
  ASSUME TenderInv, NEW t \in Tenders, NEW amount \in Nat \ {0}, GiveBack(t, amount),
         amount <= LeftOn(t), amount <= OrderTotal - sale.refunded,
         UNCHANGED <<checkout, spent, points, earnJob, returnJob, endings, returns, late>>,
         cancelJobs' \subseteq cancelJobs
  PROVE  /\ TenderTypes'
         /\ (\A u \in Tenders : givenBack[u] <= spent[u])'
         /\ NotTakenYet' /\ ReversedInTurn' /\ ReturnedEarnsNothing'
         /\ sale'.parcel = "returned" => returns' > 0
         /\ \A u \in Tenders : LeftOn(u) = 0 \/ Room = 0 => LeftOn(u)' = 0 \/ Room' = 0
<1>1. TenderTypes
  BY DEF TenderInv
<1>2. /\ givenBack' = [givenBack EXCEPT ![t] = @ + amount]
      /\ holding' = [holding EXCEPT ![t] = @ + amount]
      /\ sale' = [sale EXCEPT !.refunded = @ + amount]
  BY DEF GiveBack
<1>3. sale.refunded + amount \in 0..OrderTotal
  BY <1>1, TenderAssumption DEF TenderTypes, Sales
<1>4. TenderTypes'
  <2>1. sale' \in Sales
    BY <1>1, <1>2, <1>3 DEF TenderTypes, Sales
  <2>2. givenBack' \in [Tenders -> Nat] /\ holding' \in [Tenders -> Nat]
    BY <1>1, <1>2 DEF TenderTypes
  <2>3. QED
    BY <1>1, <2>1, <2>2 DEF TenderTypes
<1>5. (\A u \in Tenders : givenBack[u] <= spent[u])'
  BY <1>1, <1>2 DEF TenderInv, TenderTypes, Sales, LeftOn
<1>6. NotTakenYet' /\ ReversedInTurn' /\ ReturnedEarnsNothing'
  BY <1>1, <1>2 DEF TenderInv, TenderTypes, Sales, NotTakenYet, ReversedInTurn, ReturnedEarnsNothing
<1>7. sale'.parcel = "returned" => returns' > 0
  BY <1>1, <1>2 DEF TenderInv, TenderTypes, Sales
<1>8. ASSUME NEW u \in Tenders, LeftOn(u) = 0 \/ Room = 0 PROVE LeftOn(u)' = 0 \/ Room' = 0
  <2>1. CASE Room = 0
    BY <2>1, <1>1, <1>2, <1>3, RoomShrinks DEF TenderTypes, Sales
  <2>2. CASE LeftOn(u) = 0
    <3>1. u # t
      BY <2>2
    <3>2. QED
      BY <3>1, <2>2, <1>1, <1>2 DEF LeftOn, TenderTypes
  <2>3. QED
    BY <1>8, <2>1, <2>2
<1>9. QED
  BY <1>4, <1>5, <1>6, <1>7, <1>8

\* The merchant's refunds.
LEMMA RefundsKeep ==
  ASSUME TenderInv, NEW amount \in 1..OrderTotal,
         RefundCash(amount) \/ RefundAsCredit(amount) \/ \E t \in Tenders : RefundTender(t, amount)
  PROVE  TenderInv'
<1>0. OrderTotal \in Nat /\ TenderTypes /\ "store_credit" \in Tenders
  BY TenderAssumption DEF TenderInv, Tenders
<1>1. ASSUME NEW t \in Tenders, RefundTender(t, amount) PROVE TenderInv'
  <2>1. /\ UNCHANGED <<checkout, spent, points, earnJob, returnJob, endings, returns, late, cancelJobs>>
        /\ amount <= LeftOn(t) /\ amount <= OrderTotal - sale.refunded /\ GiveBack(t, amount)
    BY <1>1 DEF RefundTender, JobsSame
  <2>2. amount \in Nat \ {0}
    BY <1>0
  <2>3. EndedGivesBack'
    <3>1. \A u \in Tenders : LeftOn(u) = 0 \/ Room = 0 => LeftOn(u)' = 0 \/ Room' = 0
      BY <2>1, <2>2, GiveBackKeeps
    <3>2. sale'.stage = sale.stage
      BY <2>1, <1>0 DEF GiveBack, TenderTypes, Sales
    <3>3. QED
      BY <2>1, <3>1, <3>2 DEF EndedGivesBack, TenderInv
  <2>4. QED
    BY <2>1, <2>2, <2>3, GiveBackKeeps DEF TenderInv
<1>2. CASE RefundCash(amount) \/ RefundAsCredit(amount)
  <2>1. /\ UNCHANGED <<checkout, spent, givenBack, points, earnJob, returnJob, endings, returns, late, cancelJobs>>
        /\ sale' = [sale EXCEPT !.refunded = @ + amount] /\ sale.refunded + amount \in 0..OrderTotal
    <3>1. amount \in Nat /\ sale.paid \in 0..OrderTotal /\ sale.refunded \in 0..OrderTotal
      BY <1>0 DEF TenderTypes, Sales
    <3>2. amount <= OrderTotal - sale.refunded
      BY <3>1, <1>0, <1>2 DEF RefundCash, RefundAsCredit
    <3>3. sale.refunded + amount \in 0..OrderTotal
      BY <3>1, <3>2, <1>0
    <3>4. QED
      BY <3>3, <1>2 DEF RefundCash, RefundAsCredit, JobsSame
  <2>2. holding' \in [Tenders -> Nat]
    <3>1. holding \in [Tenders -> Nat] /\ amount \in Nat
      BY <1>0 DEF TenderTypes
    <3>2. CASE RefundCash(amount)
      BY <3>1, <3>2 DEF RefundCash
    <3>3. CASE RefundAsCredit(amount)
      BY <3>1, <3>3, <1>0 DEF RefundAsCredit
    <3>4. QED
      BY <1>2, <3>2, <3>3
  <2>3. TenderTypes'
    BY <1>0, <2>1, <2>2 DEF TenderTypes, Sales
  <2>4. EndedGivesBack'
    <3>1. sale'.stage = sale.stage /\ (Room = 0 => Room' = 0)
      BY <1>0, <2>1, RoomShrinks DEF TenderTypes, Sales
    <3>2. \A u \in Tenders : LeftOn(u)' = LeftOn(u)
      BY <2>1 DEF LeftOn
    <3>3. QED
      BY <2>1, <3>1, <3>2 DEF TenderInv, EndedGivesBack
  <2>5. QED
    BY <1>0, <2>1, <2>3, <2>4
       DEF TenderInv, TenderTypes, Sales, NotTakenYet, ReversedInTurn, ReturnedEarnsNothing
<1>3. QED
  BY <1>1, <1>2

\* A job of an ending: after it the tender has it all back, or no room is left.
LEMMA OnCancelledKeeps ==
  ASSUME TenderInv, NEW t \in Tenders, NEW again \in BOOLEAN, OnCancelled(t, again)
  PROVE  TenderInv'
<1>0. OrderTotal \in Nat /\ TenderTypes
  BY TenderAssumption DEF TenderInv
<1>1. /\ cancelJobs' = IF again THEN cancelJobs ELSE cancelJobs \ {t}
      /\ UNCHANGED <<checkout, spent, points, earnJob, returnJob, endings, returns, late>>
  BY DEF OnCancelled
<1>2. LeftOn(t) \in Nat /\ Room \in 0..(OrderTotal - sale.refunded) /\ Room \in Nat
  BY <1>0 DEF TenderInv, TenderTypes, Sales, LeftOn, Room, NoLess
<1>3. CASE GivesBack(t)
  <2> DEFINE amount == Min2(LeftOn(t), Room)
  <2>1. /\ amount \in Nat \ {0} /\ amount <= LeftOn(t) /\ amount <= OrderTotal - sale.refunded
        /\ amount = LeftOn(t) \/ amount = Room
    BY <1>0, <1>2, <1>3 DEF GivesBack, Min2, TenderTypes, Sales
  <2>2. GiveBack(t, amount)
    BY <1>3 DEF OnCancelled
  <2> HIDE DEF amount
  <2>3. /\ TenderTypes' /\ (\A u \in Tenders : givenBack[u] <= spent[u])'
        /\ NotTakenYet' /\ ReversedInTurn' /\ ReturnedEarnsNothing'
        /\ sale'.parcel = "returned" => returns' > 0
        /\ \A u \in Tenders : LeftOn(u) = 0 \/ Room = 0 => LeftOn(u)' = 0 \/ Room' = 0
    BY <1>1, <2>1, <2>2, GiveBackKeeps
  <2>4. LeftOn(t)' = 0 \/ Room' = 0
    <3>1. CASE amount = LeftOn(t)
      BY <3>1, <1>0, <1>1, <2>2 DEF GiveBack, LeftOn, TenderTypes
    <3>2. CASE amount = Room
      <4>1. amount = sale.paid - sale.refunded /\ sale.paid \in Nat /\ sale.refunded \in Nat
        BY <3>2, <2>1, <1>0 DEF Room, NoLess, TenderTypes, Sales
      <4>2. sale'.paid = sale.paid /\ sale'.refunded = sale.refunded + amount
        BY <1>0, <2>2 DEF GiveBack, TenderTypes, Sales
      <4>3. sale'.paid - sale'.refunded = 0
        BY <4>1, <4>2, <2>1
      <4>4. QED
        BY <4>3 DEF Room, NoLess
    <3>3. QED
      BY <2>1, <3>1, <3>2
  <2>5. EndedGivesBack'
    <3>1. sale'.stage = sale.stage
      BY <2>2, <1>0 DEF GiveBack, TenderTypes, Sales
    <3>2. QED
      BY <1>1, <2>3, <2>4, <3>1 DEF EndedGivesBack, TenderInv
  <2>6. QED
    BY <2>3, <2>5 DEF TenderInv
<1>4. CASE ~GivesBack(t)
  <2>1. UNCHANGED <<sale, givenBack, holding>>
    BY <1>4 DEF OnCancelled
  <2>2. EndedGivesBack'
    <3>1. sale.stage = "ended" => LeftOn(t) = 0 \/ Room = 0
      BY <1>2, <1>4 DEF GivesBack, Min2
    <3>2. QED
      BY <1>1, <2>1, <3>1 DEF EndedGivesBack, TenderInv, LeftOn, Room
  <2>3. QED
    BY <1>0, <1>1, <2>1, <2>2
       DEF TenderInv, TenderTypes, Sales, NotTakenYet, ReversedInTurn, ReturnedEarnsNothing
<1>5. QED
  BY <1>3, <1>4

\* Points are earned.
LEMMA EarnKeeps ==
  ASSUME TenderInv, NEW again \in BOOLEAN, EarnForOrder(again)
  PROVE  TenderInv'
<1>0. OrderTotal \in Nat /\ TenderTypes /\ "loyalty" \in Tenders
  BY TenderAssumption DEF TenderInv, Tenders
<1>1. /\ earnJob' = again
      /\ UNCHANGED <<sale, checkout, spent, givenBack, cancelJobs, returnJob, endings, returns>>
  BY DEF EarnForOrder
<1>2. PointsFor \in Nat
  BY <1>0 DEF PointsFor, NoLess, TenderTypes, Sales
<1>3. /\ TenderTypes' /\ points'.reversed = points.reversed
      /\ "reversed" \in late => "reversed" \in late'
      /\ late' \cap Tenders = late \cap Tenders
  <2>1. \A t \in Tenders : t # "earned" /\ t # "reversed"
    BY TenderAssumption DEF Tenders
  <2>2. CASE Earns
    <3>1. points' = [points EXCEPT !.earned = @ + PointsFor]
          /\ holding' = [holding EXCEPT !["loyalty"] = @ + PointsFor]
          /\ (late' = late \/ late' = late \cup {"earned"})
      BY <2>2 DEF EarnForOrder
    <3>2. points' \in [earned : Nat, reversed : Nat] /\ holding' \in [Tenders -> Nat]
          /\ points'.reversed = points.reversed
      <4>1. points \in [earned : Nat, reversed : Nat] /\ holding \in [Tenders -> Nat]
        BY <1>0 DEF TenderTypes
      <4>2. QED
        BY <4>1, <3>1, <1>0, <1>2
    <3>3. QED
      BY <3>1, <3>2, <1>0, <1>1, <2>1 DEF TenderTypes
  <2>3. CASE ~Earns
    BY <2>3, <1>0, <1>1 DEF EarnForOrder, TenderTypes
  <2>4. QED
    BY <2>2, <2>3
<1>4. ReturnedEarnsNothing'
  <2>1. CASE points'.earned = points.earned /\ late' = late
    BY <1>0, <1>1, <1>3, <2>1 DEF TenderInv, ReturnedEarnsNothing
  <2>2. CASE Earns /\ ~(returns > 0 /\ PointsFor > 0)
    BY <1>0, <1>1, <1>2, <1>3, <2>2 DEF TenderInv, TenderTypes, Sales, ReturnedEarnsNothing, EarnForOrder, Earns
  <2>3. CASE Earns /\ returns > 0 /\ PointsFor > 0
    BY <2>3 DEF EarnForOrder, ReturnedEarnsNothing
  <2>4. QED
    BY <2>1, <2>2, <2>3 DEF EarnForOrder
<1>5. ReversedInTurn'
  BY <1>1, <1>3 DEF TenderInv, ReversedInTurn
<1>6. EndedGivesBack' /\ NotTakenYet'
  BY <1>1, <1>3 DEF TenderInv, EndedGivesBack, NotTakenYet, LeftOn, Room
<1>7. QED
  BY <1>0, <1>1, <1>3, <1>4, <1>5, <1>6 DEF TenderInv, TenderTypes, Sales

\* Points are taken back.
LEMMA ReversalsKeep ==
  ASSUME TenderInv, NEW j \in ReturnJobs, NEW again \in BOOLEAN,
         ReadEarned(j) \/ WriteReversal(j, again)
  PROVE  TenderInv'
<1>0. OrderTotal \in Nat /\ TenderTypes /\ "loyalty" \in Tenders
  BY TenderAssumption DEF TenderInv, Tenders
<1>1. UNCHANGED <<sale, checkout, spent, givenBack, cancelJobs, earnJob, endings, returns>>
  BY DEF ReadEarned, WriteReversal
<1>2. \A t \in Tenders : t # "earned" /\ t # "reversed"
  BY TenderAssumption DEF Tenders
<1>3. TenderTypes' /\ late' \cap Tenders = late \cap Tenders
  <2>1. CASE ReadEarned(j)
    BY <2>1, <1>0, <1>1, <1>2 DEF ReadEarned, TenderTypes
  <2>2. CASE WriteReversal(j, again)
    <3>1. NoLess(holding["loyalty"] - points.earned) \in Nat
      BY <1>0 DEF NoLess, TenderTypes
    <3>2. holding' \in [Tenders -> Nat]
      BY <3>1, <2>2, <1>0 DEF WriteReversal, TenderTypes
    <3>3. points' \in [earned : Nat, reversed : Nat]
      <4>1. points \in [earned : Nat, reversed : Nat] /\ points' = [points EXCEPT !.reversed = @ + 1]
        BY <2>2, <1>0 DEF WriteReversal, TenderTypes
      <4>2. QED
        BY <4>1
    <3>4. QED
      BY <2>2, <3>2, <3>3, <1>0, <1>1 DEF WriteReversal, TenderTypes
  <2>3. QED
    BY <2>1, <2>2
<1>4. EndedGivesBack' /\ NotTakenYet'
  BY <1>1, <1>3 DEF TenderInv, EndedGivesBack, NotTakenYet, LeftOn, Room
<1>5. CASE ReadEarned(j)
  <2>1. ReturnedEarnsNothing'
    BY <1>0, <1>1, <1>5 DEF ReadEarned, Reverses, TenderInv, TenderTypes, Sales, ReturnedEarnsNothing
  <2>2. ReversedInTurn'
    BY <1>0, <1>1, <1>5 DEF ReadEarned, Reverses, TenderInv, TenderTypes, Sales, ReversedInTurn
  <2>3. QED
    BY <1>0, <1>1, <1>3, <1>4, <2>1, <2>2 DEF TenderInv, TenderTypes, Sales
<1>6. CASE WriteReversal(j, again)
  <2>1. ReturnedEarnsNothing'
    BY <1>0, <1>1, <1>6 DEF WriteReversal, TenderInv, TenderTypes, Sales, ReturnedEarnsNothing
  <2>2. ReversedInTurn'
    BY <1>0, <1>1, <1>6 DEF WriteReversal, TenderInv, TenderTypes, Sales, ReversedInTurn
  <2>3. QED
    BY <1>0, <1>1, <1>3, <1>4, <2>1, <2>2 DEF TenderInv, TenderTypes, Sales
<1>7. QED
  BY <1>5, <1>6

\* Every step preserves it.
LEMMA TenderStep == TenderInv /\ [TenderNext]_tenderVars => TenderInv'
<1> SUFFICES ASSUME TenderInv, [TenderNext]_tenderVars PROVE TenderInv'
  OBVIOUS
<1>0. OrderTotal \in Nat /\ Len(Checkout) \in Nat /\ TenderTypes
  BY TenderAssumption DEF TenderInv
<1> USE DEF TenderInv, TenderTypes, Sales, NotTakenYet, EndedGivesBack, ReturnedEarnsNothing, ReversedInTurn
<1>1. CASE PlaceSale
  <2>1. sale' \in Sales /\ sale'.stage = "standing" /\ sale'.parcel = sale.parcel
    BY <1>0, <1>1 DEF PlaceSale
  <2>2. \A i \in 1..Len(Checkout) : spent[Checkout[i]] = 0
    BY <1>1, TendersTaken DEF PlaceSale
  <2>3. QED
    BY <1>0, <1>1, <2>1, <2>2 DEF PlaceSale, JobsSame
<1>2. CASE SpendFails
  <2>1. checkout' \in 0..Len(Checkout) /\ \A i \in 1..checkout' : i \in 1..checkout
    BY <1>0, <1>2 DEF SpendFails
  <2>2. NotTakenYet'
    BY <2>1, <1>0, <1>2 DEF SpendFails
  <2>3. QED
    BY <2>1, <2>2, <1>0, <1>2 DEF SpendFails, JobsSame, LeftOn, Room
<1>3. CASE EndSale
  <2>1. sale' \in Sales /\ sale'.stage = "ended" /\ sale'.parcel = "none"
    BY <1>0, <1>3 DEF EndSale
  <2>2. QED
    BY <1>0, <1>3, <2>1 DEF EndSale
<1>4. CASE ReopenSale
  BY <1>0, <1>4 DEF ReopenSale, JobsSame, LeftOn, Room
<1>5. CASE DeliverParcel
  BY <1>0, <1>5 DEF DeliverParcel, LeftOn, Room
<1>6. CASE CollectCash
  <2>1. sale' \in Sales /\ sale'.stage = "standing" /\ sale'.parcel = "delivered"
    <3>1. OrderTotal \in 0..OrderTotal
      BY <1>0
    <3>2. QED
      BY <3>1, <1>0, <1>6 DEF CollectCash
  <2>2. QED
    BY <1>0, <1>6, <2>1 DEF CollectCash, JobsSame
<1>7. ASSUME NEW j \in ReturnJobs, ReturnParcel(j) PROVE TenderInv'
  <2>1. sale' \in Sales /\ sale'.stage = sale.stage /\ Room' = Room
    BY <1>0, <1>7 DEF ReturnParcel, Room
  <2>2. returnJob'[j] = "queued" /\ returns' > 0
    BY <1>0, <1>7 DEF ReturnParcel
  <2>3. EndedGivesBack' /\ NotTakenYet' /\ ReturnedEarnsNothing'
    BY <1>0, <1>7, <2>1, <2>2 DEF ReturnParcel, LeftOn
  <2>4. returnJob' \in [ReturnJobs -> {"none", "queued", "reversing", "done"}]
    BY <1>0, <1>7 DEF ReturnParcel
  <2>5. TenderTypes'
    <3>1. returns' \in Nat
      BY <1>0, <1>7 DEF ReturnParcel
    <3> HIDE DEF Sales
    <3>2. QED
      BY <3>1, <1>0, <1>7, <2>1, <2>4 DEF ReturnParcel
  <2>6. \A i \in ReturnJobs : returnJob'[i] = "reversing" => returnJob[i] = "reversing"
    BY <1>0, <1>7 DEF ReturnParcel
  <2>7. ReversedInTurn'
    BY <1>7, <2>6 DEF ReturnParcel
  <2>8. QED
    BY <1>7, <2>2, <2>3, <2>5, <2>7 DEF ReturnParcel
<1>8. CASE UNCHANGED tenderVars
  BY <1>8 DEF tenderVars, LeftOn, Room
<1> HIDE DEF TenderInv
<1>9. QED
  BY <1>1, <1>2, <1>3, <1>4, <1>5, <1>6, <1>7, <1>8, SpendNextKeeps, RefundsKeep,
     OnCancelledKeeps, EarnKeeps, ReversalsKeep DEF TenderNext

\* A tender gets back no more than it paid, all refunds together stay within the
\* total, and an order that ended gives back what it holds (giftCardService,
\* storeCreditService, loyaltyService): in whatever order spends, refunds, endings,
\* reopenings and repeated jobs come.
THEOREM TendersGivenBack == TenderSpec => []TenderBackOnce
<1>1. TenderInv => TenderBackOnce
  BY TenderAssumption DEF TenderInv, TenderTypes, Sales, TenderBackOnce
<1>2. QED
  BY <1>1, TenderInitInv, TenderStep, PTL DEF TenderSpec

\* A returned order keeps no points, and they are taken back once, but for what
\* two overlapping jobs or a late delivery do (loyaltyService.reverseEarned).
THEOREM PointsFollowReturns == TenderSpec => []PointsTakenBack
<1>1. TenderInv => PointsTakenBack
  BY DEF TenderInv, PointsTakenBack, ReversedInTurn
<1>2. QED
  BY <1>1, TenderInitInv, TenderStep, PTL DEF TenderSpec

-----------------------------------------------------------------------------
(* Returns.                                                                *)

\* A shopper's request, once it has passed the first count, is of at least one unit.
AskRows == {NoAsk} \cup [units : 1..LineUnits, swap : BOOLEAN]

ReturnTypes ==
    /\ returned \in [ReturnRows -> [status : {"none", "requested", "approved", "received", "rejected"},
                                    units : 0..LineUnits, source : {"none", "shopper", "merchant"},
                                    swap : BOOLEAN, restocked : BOOLEAN]]
    /\ asks \in [Shoppers -> AskRows]
    /\ backOnShelf \in Nat /\ swapHeld \in Nat

\* The units of each row, the rows on the shelf, and those that hold a swap.
Units   == [r \in ReturnRows |-> returned[r].units]
Shelved == {r \in ReturnRows : returned[r].status = "received"}
Swapped == {r \in ReturnRows : returned[r].swap /\ returned[r].status \in {"approved", "received"}}

\* What is received was put on the shelf once, and nothing else was; and the sums.
ReturnInv ==
    /\ ReturnTypes
    /\ \A r \in ReturnRows : returned[r].restocked <=> returned[r].status = "received"
    /\ backOnShelf = SumOver(Units, Shelved)
    /\ swapHeld = SumOver(Units, Swapped) /\ swapHeld <= SwapUnits
    /\ SumOver(Units, RowsFrom("shopper")) <= LineUnits

\* The units of some rows add up as a sum does.
LEMMA UnitsAdd == \A T \in SUBSET ReturnRows : UnitsOf(T) = SumOver(Units, T)
<1> SUFFICES ASSUME NEW T \in SUBSET ReturnRows PROVE UnitsOf(T) = SumOver(Units, T)
  OBVIOUS
<1> DEFINE Sums(h) == h = [s \in SUBSET T |-> IF s = {} THEN 0
                             ELSE returned[PickOf(s)].units + h[s \ {PickOf(s)}]]
           h == CHOOSE h : Sums(h)
<1>0. IsFiniteSet(T)
  BY ReturnsAssumption, FS_Subset
<1>1. \A s \in SUBSET T : s # {} => PickOf(s) \in s
  BY DEF PickOf
<1>2. PICK g : Adds(g, Units, T)
  BY <1>0, AddsExists
<1>3. Sums(g)
  BY <1>1, <1>2 DEF Adds, Units
<1>4. Sums(h)
  BY <1>3
<1>5. Adds(h, Units, T)
  BY <1>1, <1>4 DEF Adds, Units
<1>6. UnitsOf(T) = h[T]
  BY DEF UnitsOf, MapThenSumSet, MapThenFoldSet, PickOf
<1>7. QED
  BY <1>0, <1>5, <1>6, SumAdds

\* One row changes, and joins or leaves some rows: their units change by it.
LEMMA UnitsMove ==
  ASSUME ReturnTypes, ReturnTypes', NEW x \in ReturnRows,
         \A r \in ReturnRows \ {x} : returned'[r] = returned[r],
         NEW T \in SUBSET ReturnRows, NEW U \in SUBSET ReturnRows, T \ {x} = U \ {x}
  PROVE  SumOver(Units', U) = SumOver(Units, T) - (IF x \in T THEN returned[x].units ELSE 0)
                                                + (IF x \in U THEN returned'[x].units ELSE 0)
<1>1. \A r \in ReturnRows : Units[r] = returned[r].units /\ Units'[r] = returned'[r].units
  BY DEF Units
<1>2. \A r \in ReturnRows : Units[r] \in Int /\ Units'[r] \in Int
  BY <1>1, ReturnsAssumption DEF ReturnTypes
<1>3. \A r \in ReturnRows \ {x} : Units'[r] = Units[r]
  BY <1>1
<1>4. IsFiniteSet(ReturnRows)
  BY ReturnsAssumption
<1>5. SumOver(Units', U) = SumOver(Units, T) - (IF x \in T THEN Units[x] ELSE 0)
                                             + (IF x \in U THEN Units'[x] ELSE 0)
  BY <1>2, <1>3, <1>4, SumMoves
<1>6. QED
  BY <1>1, <1>5

\* Holds initially.
LEMMA ReturnInitInv == ReturnInit => ReturnInv
<1> SUFFICES ASSUME ReturnInit PROVE ReturnInv
  OBVIOUS
<1>1. ReturnTypes
  BY ReturnsAssumption DEF ReturnInit, ReturnTypes, NoReturn, AskRows
<1>2. Shelved = {} /\ Swapped = {} /\ RowsFrom("shopper") = {}
  BY DEF ReturnInit, Shelved, Swapped, RowsFrom, Standing, NoReturn
<1>3. QED
  BY <1>1, <1>2, SumEmpty, ReturnsAssumption DEF ReturnInit, ReturnInv, NoReturn

\* What is left to return is what nobody asked for yet.
LEMMA LeftToReturn ==
  ASSUME ReturnTypes, NEW units \in Nat \ {0}, units <= Returnable
  PROVE  SumOver(Units, RowsFrom("shopper")) + units <= LineUnits
<1>1. IsFiniteSet(Standing) /\ Standing \subseteq ReturnRows /\ RowsFrom("shopper") \in SUBSET Standing
  BY ReturnsAssumption, FS_Subset DEF Standing, RowsFrom
<1>2. \A r \in ReturnRows : Units[r] \in Nat
  BY ReturnsAssumption DEF Units, ReturnTypes
<1>3. Asked = SumOver(Units, Standing)
  BY <1>1, UnitsAdd DEF Asked
<1>4. SumOver(Units, RowsFrom("shopper")) <= Asked
  BY <1>1, <1>2, <1>3, SumOfMore
<1>5. Asked \in Nat /\ SumOver(Units, RowsFrom("shopper")) \in Nat
  BY <1>1, <1>2, <1>3, SumNat, FS_Subset
<1>6. LineUnits - Asked \in Int /\ LineUnits \in Nat
  BY <1>5, ReturnsAssumption
<1>7. Returnable = IF LineUnits - Asked >= 0 THEN LineUnits - Asked ELSE 0
  BY <1>6 DEF Returnable, Max
<1>8. QED
  BY <1>4, <1>5, <1>6, <1>7

\* What a step that writes one row does to the three sums.
LEMMA SumsMove ==
  ASSUME ReturnTypes, ReturnTypes', NEW x \in ReturnRows,
         \A r \in ReturnRows \ {x} : returned'[r] = returned[r]
  PROVE  /\ SumOver(Units, Shelved)' = SumOver(Units, Shelved)
              - (IF x \in Shelved THEN returned[x].units ELSE 0)
              + (IF x \in Shelved' THEN returned'[x].units ELSE 0)
         /\ SumOver(Units, Swapped)' = SumOver(Units, Swapped)
              - (IF x \in Swapped THEN returned[x].units ELSE 0)
              + (IF x \in Swapped' THEN returned'[x].units ELSE 0)
         /\ SumOver(Units, RowsFrom("shopper"))' = SumOver(Units, RowsFrom("shopper"))
              - (IF x \in RowsFrom("shopper") THEN returned[x].units ELSE 0)
              + (IF x \in RowsFrom("shopper")' THEN returned'[x].units ELSE 0)
         /\ SumOver(Units, Shelved) \in Nat /\ SumOver(Units, Swapped) \in Nat
         /\ SumOver(Units, RowsFrom("shopper")) \in Nat
<1>1. Shelved \in SUBSET ReturnRows /\ Shelved' \in SUBSET ReturnRows /\ Shelved \ {x} = Shelved' \ {x}
  BY DEF Shelved
<1>2. Swapped \in SUBSET ReturnRows /\ Swapped' \in SUBSET ReturnRows /\ Swapped \ {x} = Swapped' \ {x}
  BY DEF Swapped
<1>3. /\ RowsFrom("shopper") \in SUBSET ReturnRows /\ RowsFrom("shopper")' \in SUBSET ReturnRows
      /\ RowsFrom("shopper") \ {x} = RowsFrom("shopper")' \ {x}
  BY DEF RowsFrom, Standing
<1>4. \A r \in ReturnRows : Units[r] \in Nat
  BY ReturnsAssumption DEF Units, ReturnTypes
<1>5. \A T \in SUBSET ReturnRows : SumOver(Units, T) \in Nat
  BY <1>4, SumNat, FS_Subset, ReturnsAssumption
<1>6. \A T, U \in SUBSET ReturnRows : T \ {x} = U \ {x} =>
        SumOver(Units', U) = SumOver(Units, T) - (IF x \in T THEN returned[x].units ELSE 0)
                                                + (IF x \in U THEN returned'[x].units ELSE 0)
  BY UnitsMove
<1>7. QED
  BY <1>1, <1>2, <1>3, <1>5, <1>6

\* A return is asked for or opened: it is one more of its source's, and of no other sum.
LEMMA OpenedKeeps ==
  ASSUME ReturnInv, NEW r \in ReturnRows, NEW units \in 1..LineUnits, NEW swap \in BOOLEAN,
         NEW source \in {"shopper", "merchant"}, Opened(r, units, source, swap),
         asks' \in [Shoppers -> AskRows], UNCHANGED <<backOnShelf, swapHeld>>,
         source = "shopper" => SumOver(Units, RowsFrom("shopper")) + units <= LineUnits
  PROVE  ReturnInv'
<1>1. /\ ReturnTypes /\ LineUnits \in Nat /\ returned[r].status = "none"
      /\ returned' = [returned EXCEPT ![r] = [status |-> "requested", units |-> units,
                       source |-> source, swap |-> swap, restocked |-> FALSE]]
  BY ReturnsAssumption DEF ReturnInv, Opened
<1>2. ReturnTypes'
  BY <1>1 DEF ReturnTypes
<1>3. \A q \in ReturnRows \ {r} : returned'[q] = returned[q]
  BY <1>1 DEF ReturnTypes
<1>4. returned'[r] = [status |-> "requested", units |-> units, source |-> source, swap |-> swap, restocked |-> FALSE]
  BY <1>1 DEF ReturnTypes
<1>5. r \notin Shelved /\ r \notin Shelved' /\ r \notin Swapped /\ r \notin Swapped'
  BY <1>1, <1>4 DEF Shelved, Swapped
<1>6. r \notin RowsFrom("shopper") /\ (r \in RowsFrom("shopper")' <=> source = "shopper")
  BY <1>1, <1>4 DEF RowsFrom, Standing
<1>7. /\ SumOver(Units, Shelved)' = SumOver(Units, Shelved)
      /\ SumOver(Units, Swapped)' = SumOver(Units, Swapped)
      /\ SumOver(Units, RowsFrom("shopper"))' = SumOver(Units, RowsFrom("shopper"))
                                                + (IF source = "shopper" THEN units ELSE 0)
  BY <1>1, <1>2, <1>3, <1>4, <1>5, <1>6, SumsMove
<1>8. \A q \in ReturnRows : returned'[q].restocked <=> returned'[q].status = "received"
  BY <1>3, <1>4 DEF ReturnInv
<1>9. SumOver(Units, RowsFrom("shopper"))' <= LineUnits
  BY <1>7, <1>1, <1>2, <1>3, SumsMove DEF ReturnInv
<1>10. QED
  BY <1>2, <1>7, <1>8, <1>9 DEF ReturnInv

\* An open return is approved: an exchange holds its units, of those there are.
LEMMA ApproveKeeps ==
  ASSUME ReturnInv, NEW r \in ReturnRows, Approve(r)
  PROVE  ReturnInv'
<1>0. ReturnTypes /\ SwapUnits \in Nat /\ returned[r].status = "requested"
  BY ReturnsAssumption DEF ReturnInv, Approve, AwaitsDecision
<1>1. \A q \in ReturnRows : returned'[q] = IF q = r THEN [returned[r] EXCEPT !.status = "approved"] ELSE returned[q]
  BY <1>0 DEF Approve, ReturnTypes
<1>2. /\ returned'[r].units = returned[r].units /\ returned'[r].source = returned[r].source
      /\ returned'[r].swap = returned[r].swap /\ returned'[r].restocked = returned[r].restocked
      /\ returned'[r].status = "approved" /\ returned[r].units \in Nat
  BY <1>0, <1>1, ReturnsAssumption DEF ReturnTypes
<1>3. ReturnTypes'
  <2>1. swapHeld' \in Nat
    BY <1>0, <1>2 DEF Approve, ReturnTypes
  <2>2. QED
    BY <1>0, <2>1 DEF Approve, ReturnTypes
<1>4. r \notin Shelved /\ r \notin Shelved' /\ r \notin Swapped /\ (r \in Swapped' <=> returned[r].swap)
  BY <1>0, <1>2 DEF Shelved, Swapped
<1>5. r \in RowsFrom("shopper") <=> r \in RowsFrom("shopper")'
  BY <1>0, <1>2 DEF RowsFrom, Standing
<1>6. /\ SumOver(Units, Shelved)' = SumOver(Units, Shelved)
      /\ SumOver(Units, Swapped)' = SumOver(Units, Swapped) + (IF returned[r].swap THEN returned[r].units ELSE 0)
      /\ SumOver(Units, RowsFrom("shopper"))' = SumOver(Units, RowsFrom("shopper"))
  BY <1>0, <1>1, <1>2, <1>3, <1>4, <1>5, SumsMove
<1>7. \A q \in ReturnRows : returned'[q].restocked <=> returned'[q].status = "received"
  BY <1>0, <1>1, <1>2 DEF ReturnInv
<1>8. swapHeld' = SumOver(Units, Swapped)' /\ swapHeld' <= SwapUnits
  BY <1>2, <1>6, <1>0 DEF Approve, ReturnInv, ReturnTypes
<1>9. QED
  BY <1>3, <1>6, <1>7, <1>8 DEF ReturnInv, Approve

\* An open return is rejected: it counts for nothing.
LEMMA RejectKeeps ==
  ASSUME ReturnInv, NEW r \in ReturnRows, RejectReturn(r)
  PROVE  ReturnInv'
<1>0. ReturnTypes /\ LineUnits \in Nat /\ returned[r].status = "requested"
  BY ReturnsAssumption DEF ReturnInv, RejectReturn, AwaitsDecision
<1>1. \A q \in ReturnRows : returned'[q] = IF q = r THEN [returned[r] EXCEPT !.status = "rejected"] ELSE returned[q]
  BY <1>0 DEF RejectReturn, ReturnTypes
<1>2. /\ returned'[r].restocked = returned[r].restocked
      /\ returned'[r].status = "rejected" /\ returned[r].units \in Nat
  BY <1>0, <1>1, ReturnsAssumption DEF ReturnTypes
<1>3. ReturnTypes'
  BY <1>0 DEF RejectReturn, ReturnTypes
<1>4. r \notin Shelved /\ r \notin Shelved' /\ r \notin Swapped /\ r \notin Swapped' /\ r \notin RowsFrom("shopper")'
  BY <1>0, <1>2 DEF Shelved, Swapped, RowsFrom, Standing
<1>5. /\ SumOver(Units, Shelved)' = SumOver(Units, Shelved)
      /\ SumOver(Units, Swapped)' = SumOver(Units, Swapped)
      /\ SumOver(Units, RowsFrom("shopper"))' <= SumOver(Units, RowsFrom("shopper"))
      /\ SumOver(Units, RowsFrom("shopper")) \in Nat /\ SumOver(Units, RowsFrom("shopper"))' \in Int
  BY <1>0, <1>1, <1>2, <1>3, <1>4, SumsMove
<1>6. \A q \in ReturnRows : returned'[q].restocked <=> returned'[q].status = "received"
  BY <1>0, <1>1, <1>2 DEF ReturnInv
<1>7. SumOver(Units, RowsFrom("shopper"))' <= LineUnits
  BY <1>0, <1>5 DEF ReturnInv
<1>8. QED
  BY <1>3, <1>5, <1>6, <1>7 DEF ReturnInv, RejectReturn

\* A return that came in is put on the shelf: it was not there before.
LEMMA RestockKeeps ==
  ASSUME ReturnInv, NEW r \in ReturnRows, RestockReturn(r)
  PROVE  ReturnInv'
<1>0. ReturnTypes /\ ~returned[r].restocked /\ returned[r].status = "approved"
  BY DEF ReturnInv, RestockReturn, MayRestock
<1>1. \A q \in ReturnRows : returned'[q] = IF q = r THEN [returned[r] EXCEPT !.status = "received", !.restocked = TRUE]
                                                      ELSE returned[q]
  BY <1>0 DEF RestockReturn, ReturnTypes
<1>2. /\ returned'[r].units = returned[r].units /\ returned'[r].source = returned[r].source
      /\ returned'[r].swap = returned[r].swap /\ returned'[r].restocked = TRUE
      /\ returned'[r].status = "received" /\ returned[r].units \in Nat
  <2>1. returned[r] \in [status : {"none", "requested", "approved", "received", "rejected"},
                         units : 0..LineUnits, source : {"none", "shopper", "merchant"},
                         swap : BOOLEAN, restocked : BOOLEAN]
    BY <1>0 DEF ReturnTypes
  <2>2. returned'[r] = [returned[r] EXCEPT !.status = "received", !.restocked = TRUE]
    BY <1>1
  <2>3. returned[r].units \in Nat
    BY <2>1, ReturnsAssumption
  <2>4. QED
    BY <2>1, <2>2, <2>3
<1>3. ReturnTypes'
  <2>1. backOnShelf' \in Nat
    BY <1>0, <1>2 DEF RestockReturn, ReturnTypes
  <2>2. QED
    BY <1>0, <2>1 DEF RestockReturn, ReturnTypes
<1>4. r \notin Shelved /\ r \in Shelved' /\ (r \in Swapped <=> r \in Swapped')
  BY <1>0, <1>2 DEF Shelved, Swapped
<1>5. r \in RowsFrom("shopper") <=> r \in RowsFrom("shopper")'
  BY <1>0, <1>2 DEF RowsFrom, Standing
<1>6. /\ SumOver(Units, Shelved)' = SumOver(Units, Shelved) + returned[r].units
      /\ SumOver(Units, Swapped)' = SumOver(Units, Swapped)
      /\ SumOver(Units, RowsFrom("shopper"))' = SumOver(Units, RowsFrom("shopper"))
  BY <1>0, <1>1, <1>2, <1>3, <1>4, <1>5, SumsMove
<1>7. \A q \in ReturnRows : returned'[q].restocked <=> returned'[q].status = "received"
  BY <1>0, <1>1, <1>2 DEF ReturnInv
<1>8. QED
  BY <1>3, <1>6, <1>7 DEF ReturnInv, RestockReturn

\* Every step preserves it.
LEMMA ReturnStep == ReturnInv /\ [ReturnNext]_returnVars => ReturnInv'
<1> SUFFICES ASSUME ReturnInv, [ReturnNext]_returnVars PROVE ReturnInv'
  OBVIOUS
<1>0. ReturnTypes /\ LineUnits \in Nat /\ SwapUnits \in Nat
  BY ReturnsAssumption DEF ReturnInv
<1>1. ASSUME asks' \in [Shoppers -> AskRows], UNCHANGED <<returned, backOnShelf, swapHeld>>
      PROVE  ReturnInv'
  BY <1>1 DEF ReturnInv, ReturnTypes, Units, Shelved, Swapped, RowsFrom, Standing
<1>2. ASSUME NEW s \in Shoppers, NEW units \in 1..LineUnits, NEW swap \in BOOLEAN, AskReturn(s, units, swap)
      PROVE  ReturnInv'
  <2>1. [units |-> units, swap |-> swap] \in AskRows
    BY DEF AskRows
  <2>2. asks' \in [Shoppers -> AskRows] /\ UNCHANGED <<returned, backOnShelf, swapHeld>>
    BY <1>0, <1>2, <2>1 DEF AskReturn, ReturnTypes
  <2>3. QED
    BY <1>1, <2>2
<1>3. ASSUME NEW s \in Shoppers, RequestRefused(s) PROVE ReturnInv'
  <2>1. NoAsk \in AskRows
    BY DEF AskRows
  <2>2. asks' \in [Shoppers -> AskRows] /\ UNCHANGED <<returned, backOnShelf, swapHeld>>
    BY <1>0, <1>3, <2>1 DEF RequestRefused, ReturnTypes
  <2>3. QED
    BY <1>1, <2>2
<1>4. ASSUME NEW r \in ReturnRows, NEW units \in 1..LineUnits, NEW swap \in BOOLEAN,
             CreateReturn(r, units, swap)
      PROVE  ReturnInv'
  BY <1>0, <1>4, OpenedKeeps DEF CreateReturn, ReturnTypes
<1>5. ASSUME NEW s \in Shoppers, NEW r \in ReturnRows, RequestReturn(s, r)
      PROVE  ReturnInv'
  <2>1. asks[s] \in AskRows /\ asks[s] # NoAsk
    BY <1>0, <1>5 DEF RequestReturn, ReturnTypes
  <2>2. asks[s].units \in 1..LineUnits /\ asks[s].swap \in BOOLEAN
    BY <2>1 DEF AskRows
  <2>3. /\ asks[s].units <= Returnable
        /\ Opened(r, asks[s].units, "shopper", asks[s].swap)
        /\ UNCHANGED <<backOnShelf, swapHeld>>
    BY <1>5 DEF RequestReturn, StillLeft
  <2>4. asks' \in [Shoppers -> AskRows]
    <3>1. NoAsk \in AskRows
      BY DEF AskRows
    <3>2. QED
      BY <1>0, <1>5, <3>1 DEF RequestReturn, ReturnTypes
  <2>5. SumOver(Units, RowsFrom("shopper")) + asks[s].units <= LineUnits
    <3>1. asks[s].units \in Nat \ {0}
      BY <1>0, <2>2
    <3>2. QED
      BY <1>0, <2>3, <3>1, LeftToReturn
  <2>6. QED
    BY <2>2, <2>3, <2>4, <2>5, OpenedKeeps
<1>6. ASSUME NEW r \in ReturnRows, Approve(r) PROVE ReturnInv'
  BY <1>6, ApproveKeeps
<1>7. ASSUME NEW r \in ReturnRows, RejectReturn(r) PROVE ReturnInv'
  BY <1>7, RejectKeeps
<1>8. ASSUME NEW r \in ReturnRows, RestockReturn(r) PROVE ReturnInv'
  BY <1>8, RestockKeeps
<1>9. CASE UNCHANGED returnVars
  BY <1>9 DEF returnVars, ReturnInv, ReturnTypes, Units, Shelved, Swapped, RowsFrom, Standing
<1>10. QED
  BY <1>2, <1>3, <1>4, <1>5, <1>6, <1>7, <1>8, <1>9 DEF ReturnNext

\* The shelf gains the units of each received return once, a replacement holds
\* those of each approved exchange once and only what there was, and what a shopper
\* asked for stays within the line (returnsService, shopperReturns).
THEOREM ReturnsAreCounted == ReturnSpec => []ReturnsAddUp
<1>1. ReturnInv => ReturnsAddUp
  <2> SUFFICES ASSUME ReturnInv PROVE ReturnsAddUp
    OBVIOUS
  <2>1. Shelved \in SUBSET ReturnRows /\ Swapped \in SUBSET ReturnRows /\ RowsFrom("shopper") \in SUBSET ReturnRows
    BY DEF Shelved, Swapped, RowsFrom, Standing
  <2>2. /\ UnitsOf(Shelved) = SumOver(Units, Shelved) /\ UnitsOf(Swapped) = SumOver(Units, Swapped)
        /\ UnitsOf(RowsFrom("shopper")) = SumOver(Units, RowsFrom("shopper"))
    BY <2>1, UnitsAdd
  <2>3. /\ backOnShelf = UnitsOf(Shelved) /\ swapHeld = UnitsOf(Swapped) /\ swapHeld <= SwapUnits
        /\ UnitsOf(RowsFrom("shopper")) <= LineUnits
    BY <2>2 DEF ReturnInv
  <2>4. QED
    BY <2>3 DEF ReturnsAddUp, ShopperAsksOnce, Shelved, Swapped
<1>2. QED
  BY <1>1, ReturnInitInv, ReturnStep, PTL DEF ReturnSpec

-----------------------------------------------------------------------------
(* Refunds at a gateway.                                                   *)

Outcomes == {"none", "pending", "processed", "failed"}

RefundRecords == [status : Outcomes, amount : 0..PaidAmount, ref : References \cup {NoRef},
                  source : {"merchant", "gateway", "credit"}]
Asks == [at : {"none", "sent", "answered", "over"}, ref : References \cup {NoRef}, status : Outcomes]

RefundShapes ==
    /\ refund \in [RefundRows -> RefundRecords]
    /\ ask \in [RefundRows -> Asks]
    /\ made \in [References -> [status : Outcomes, amount : 0..PaidAmount, row : RefundRows \cup {NoRow}]]
    /\ handling \in [Deliveries -> [ref : References \cup {NoRef}, row : RefundRows \cup {NoRow},
                                    status : Outcomes]]
    /\ mistaken \subseteq References

Merchants(r) == refund[r].source = "merchant" /\ refund[r].status # "none"

\* Who writes a row: the merchant's is asked of the gateway, the others are
\* processed from the first; a reference is one row's.
RowsStand ==
    /\ \A r \in RefundRows :
         /\ refund[r].status = "none" => refund[r] = NoRefund
         /\ ask[r].at # "none" <=> Merchants(r)
         /\ refund[r].source = "credit" => refund[r].status = "processed" /\ refund[r].ref = NoRef
         /\ refund[r].source = "gateway" => refund[r].status = "processed" /\ refund[r].ref # NoRef
    /\ \A r, q \in RefundRows : refund[r].ref = refund[q].ref /\ refund[r].ref # NoRef => r = q

\* What the gateway made: of one row, of its amount; or in the dashboard, finished.
MadeStands ==
    /\ \A g \in References :
         /\ made[g].status = "none" => made[g].row = NoRow
         /\ made[g].row = NoRow => made[g].status \in {"none", "processed"}
         /\ made[g].row # NoRow => /\ ask[made[g].row].at \in {"answered", "over"}
                                   /\ refund[made[g].row].amount = made[g].amount
    /\ \A g, h \in References : made[g].row = made[h].row /\ made[g].row # NoRow => g = h

\* An answer and a callback say what the gateway did, then or since.
SaysOf(g, status) ==
    /\ g \in References /\ made[g].status # "none"
    /\ status \in {"pending", "processed", "failed"}
    /\ status # "pending" => made[g].status = status

AnswersStand ==
    /\ \A r \in RefundRows : ask[r].at = "answered" =>
         IF ask[r].ref = NoRef THEN ask[r].status = "failed" /\ \A g \in References : made[g].row # r
                               ELSE SaysOf(ask[r].ref, ask[r].status) /\ made[ask[r].ref].row = r
    /\ \A k \in Deliveries : IF handling[k].ref = NoRef THEN handling[k] = Nothing
                             ELSE SaysOf(handling[k].ref, handling[k].status)

\* As long as no callback was given to another refund's row: a row has the
\* reference of its own refund, and its outcome once it is settled; and a refund
\* reported as processed has a row that says so.
RowsAreTheirs ==
    /\ \A r \in RefundRows : refund[r].ref # NoRef =>
         IF refund[r].source = "merchant" THEN made[refund[r].ref].row = r
         ELSE LET g == refund[r].ref IN
              /\ made[g].row = NoRow /\ made[g].status = "processed" /\ refund[r].amount = made[g].amount
              /\ <<g, "processed">> \in reported
    /\ \A r \in RefundRows : refund[r].status = "processed" /\ refund[r].source = "merchant" =>
         refund[r].ref # NoRef /\ made[refund[r].ref].status = "processed"
    /\ \A r \in RefundRows : ask[r].at = "sent" => refund[r].status = "pending"
    /\ \A g \in References : made[g].row # NoRow =>
         LET row == refund[made[g].row] IN
         \/ row.status = "pending" /\ row.ref \in {NoRef, g}
         \/ row.status = made[g].status /\ row.ref = g
    /\ \A k \in Deliveries : handling[k].ref # NoRef => handling[k].row = made[handling[k].ref].row
    /\ \A g \in References : <<g, "processed">> \in reported =>
         \E r \in RefundRows : refund[r].ref = g /\ refund[r].status = "processed"

Amounts == [r \in RefundRows |-> refund[r].amount]

\* The total is the sum of what is processed, and what was asked is no more
\* than what was paid.
TotalsStand ==
    /\ amountRefunded = SumOver(Amounts, RowsIn({"processed"}))
    /\ SumOver(Amounts, RowsOf("merchant")) <= PaidAmount

RefundInv ==
    /\ RefundShapes /\ RowsStand /\ MadeStands /\ AnswersStand
    /\ mistaken = {} => RowsAreTheirs
    /\ TotalsStand

\* The amounts of some rows, and of some refunds at the gateway, add up as a sum does.
LEMMA AmountsAdd == \A T \in SUBSET RefundRows : AmountOf(T) = SumOver(Amounts, T)
<1> SUFFICES ASSUME NEW T \in SUBSET RefundRows PROVE AmountOf(T) = SumOver(Amounts, T)
  OBVIOUS
<1> DEFINE Sums(h) == h = [s \in SUBSET T |-> IF s = {} THEN 0
                             ELSE refund[PickOf(s)].amount + h[s \ {PickOf(s)}]]
           h == CHOOSE h : Sums(h)
<1>0. IsFiniteSet(T)
  BY RefundAssumption, FS_Subset
<1>1. \A s \in SUBSET T : s # {} => PickOf(s) \in s
  BY DEF PickOf
<1>2. PICK g : Adds(g, Amounts, T)
  BY <1>0, AddsExists
<1>3. Sums(g)
  BY <1>1, <1>2 DEF Adds, Amounts
<1>4. Sums(h)
  BY <1>3
<1>5. Adds(h, Amounts, T)
  BY <1>1, <1>4 DEF Adds, Amounts
<1>6. AmountOf(T) = h[T]
  BY DEF AmountOf, MapThenSumSet, MapThenFoldSet, PickOf
<1>7. QED
  BY <1>0, <1>5, <1>6, SumAdds

AmountsMade == [g \in References |-> made[g].amount]

LEMMA MadeAdd == \A T \in SUBSET References : AmountMade(T) = SumOver(AmountsMade, T)
<1> SUFFICES ASSUME NEW T \in SUBSET References PROVE AmountMade(T) = SumOver(AmountsMade, T)
  OBVIOUS
<1> DEFINE Sums(h) == h = [s \in SUBSET T |-> IF s = {} THEN 0
                             ELSE made[PickOf(s)].amount + h[s \ {PickOf(s)}]]
           h == CHOOSE h : Sums(h)
<1>0. IsFiniteSet(T)
  BY RefundAssumption, FS_Subset
<1>1. \A s \in SUBSET T : s # {} => PickOf(s) \in s
  BY DEF PickOf
<1>2. PICK g : Adds(g, AmountsMade, T)
  BY <1>0, AddsExists
<1>3. Sums(g)
  BY <1>1, <1>2 DEF Adds, AmountsMade
<1>4. Sums(h)
  BY <1>3
<1>5. Adds(h, AmountsMade, T)
  BY <1>1, <1>4 DEF Adds, AmountsMade
<1>6. AmountMade(T) = h[T]
  BY DEF AmountMade, MapThenSumSet, MapThenFoldSet, PickOf
<1>7. QED
  BY <1>0, <1>5, <1>6, SumAdds

\* The first of some rows is one of them.
LEMMA FirstIsOne ==
  ASSUME NEW rows \in SUBSET RefundRows
  PROVE  FirstOf(rows) \in rows \/ (rows = {} /\ FirstOf(rows) = NoRow)
<1>1. CASE rows = {}
  BY <1>1 DEF FirstOf
<1>2. CASE rows # {}
  <2>1. rows \in SUBSET Nat /\ IsFiniteSet(rows)
    BY RefundAssumption, FS_Subset
  <2>2. \E r \in rows : \A q \in rows : r <= q
    BY <1>2, <2>1, HasLeast
  <2>3. QED
    BY <1>2, <2>2 DEF FirstOf
<1>3. QED
  BY <1>1, <1>2

\* One row changes, and joins or leaves some rows: their amounts change by it.
LEMMA AmountsMove ==
  ASSUME RefundShapes, RefundShapes', NEW x \in RefundRows,
         \A r \in RefundRows \ {x} : refund'[r] = refund[r],
         NEW T \in SUBSET RefundRows, NEW U \in SUBSET RefundRows, T \ {x} = U \ {x}
  PROVE  /\ SumOver(Amounts', U) = SumOver(Amounts, T) - (IF x \in T THEN refund[x].amount ELSE 0)
                                                       + (IF x \in U THEN refund'[x].amount ELSE 0)
         /\ SumOver(Amounts, T) \in Nat /\ SumOver(Amounts', U) \in Nat
<1>1. \A r \in RefundRows : Amounts[r] = refund[r].amount /\ Amounts'[r] = refund'[r].amount
  BY DEF Amounts
<1>2. \A r \in RefundRows : Amounts[r] \in Nat /\ Amounts'[r] \in Nat
  BY <1>1, RefundAssumption DEF RefundShapes, RefundRecords
<1>3. \A r \in RefundRows \ {x} : Amounts'[r] = Amounts[r]
  BY <1>1
<1>4. IsFiniteSet(RefundRows) /\ IsFiniteSet(T) /\ IsFiniteSet(U)
  BY RefundAssumption, FS_Subset
<1>5. (\A r \in RefundRows : Amounts[r] \in Int /\ Amounts'[r] \in Int) /\ IsFiniteSet(RefundRows)
  BY <1>2, <1>4
<1>6. SumOver(Amounts', U) = SumOver(Amounts, T) - (IF x \in T THEN Amounts[x] ELSE 0)
                                                 + (IF x \in U THEN Amounts'[x] ELSE 0)
  BY <1>3, <1>5, SumMoves
<1>7. SumOver(Amounts, T) \in Nat /\ SumOver(Amounts', U) \in Nat
  BY <1>2, <1>4, SumNat
<1>8. QED
  BY <1>1, <1>6, <1>7

\* A row that is written, but not by the merchant, moves the total only.
LEMMA TotalsMove ==
  ASSUME RefundShapes, RefundShapes', TotalsStand, NEW x \in RefundRows,
         \A r \in RefundRows \ {x} : refund'[r] = refund[r],
         amountRefunded' = amountRefunded
              - (IF x \in RowsIn({"processed"}) THEN refund[x].amount ELSE 0)
              + (IF x \in RowsIn({"processed"})' THEN refund'[x].amount ELSE 0),
         x \in RowsOf("merchant")' => x \in RowsOf("merchant") /\ refund'[x].amount = refund[x].amount
  PROVE  TotalsStand'
<1>1. /\ RowsIn({"processed"}) \in SUBSET RefundRows /\ RowsIn({"processed"})' \in SUBSET RefundRows
      /\ RowsIn({"processed"}) \ {x} = RowsIn({"processed"})' \ {x}
  BY DEF RowsIn
<1>2. /\ RowsOf("merchant") \in SUBSET RefundRows /\ RowsOf("merchant")' \in SUBSET RefundRows
      /\ RowsOf("merchant") \ {x} = RowsOf("merchant")' \ {x}
  BY DEF RowsOf, RowsIn
<1>3. amountRefunded' = SumOver(Amounts', RowsIn({"processed"})')
  BY <1>1, AmountsMove DEF TotalsStand
<1>4. refund[x].amount \in Nat /\ refund'[x].amount \in Nat /\ PaidAmount \in Nat
  BY RefundAssumption DEF RefundShapes, RefundRecords
<1>5. SumOver(Amounts', RowsOf("merchant")') <= SumOver(Amounts, RowsOf("merchant"))
  BY <1>2, <1>4, AmountsMove
<1>6. SumOver(Amounts', RowsOf("merchant")') \in Nat /\ SumOver(Amounts, RowsOf("merchant")) \in Nat
  BY <1>2, AmountsMove
<1>7. SumOver(Amounts', RowsOf("merchant")') <= PaidAmount
  BY <1>4, <1>5, <1>6 DEF TotalsStand
<1>8. QED
  BY <1>3, <1>7 DEF TotalsStand

\* Holds initially.
LEMMA RefundInitInv == RefundInit => RefundInv
<1> SUFFICES ASSUME RefundInit PROVE RefundInv
  OBVIOUS
<1>1. RefundShapes
  BY RefundAssumption DEF RefundInit, RefundShapes, RefundRecords, Asks, NoRefund, NotAsked, NotMade, Nothing, Outcomes
<1>2. RowsStand /\ MadeStands /\ AnswersStand /\ RowsAreTheirs
  BY RefundAssumption DEF RefundInit, RowsStand, MadeStands, AnswersStand, RowsAreTheirs, Merchants,
       NoRefund, NotAsked, NotMade, Nothing
<1>3. RowsIn({"processed"}) = {} /\ RowsOf("merchant") = {}
  BY DEF RefundInit, RowsIn, RowsOf, NoRefund
<1>4. TotalsStand
  BY <1>3, SumEmpty, RefundAssumption DEF TotalsStand, RefundInit
<1>5. QED
  BY <1>1, <1>2, <1>4 DEF RefundInv

\* The total is a number; what the merchant may ask for is not asked for yet.
LEMMA TotalIsNat ==
  ASSUME RefundShapes, TotalsStand
  PROVE  amountRefunded \in Nat
<1>1. \A r \in RefundRows : Amounts[r] \in Nat
  BY RefundAssumption DEF Amounts, RefundShapes, RefundRecords
<1>2. IsFiniteSet(RowsIn({"processed"})) /\ RowsIn({"processed"}) \subseteq RefundRows
  BY RefundAssumption, FS_Subset DEF RowsIn
<1>3. QED
  BY <1>1, <1>2, SumNat DEF TotalsStand

LEMMA EligibleIsLeft ==
  ASSUME RefundShapes, TotalsStand, NEW amount \in 1..PaidAmount, amount <= Eligible
  PROVE  SumOver(Amounts, RowsOf("merchant")) + amount <= PaidAmount
<1> DEFINE ended == RowsIn({"processed"})
           open  == RowsIn({"pending"})
<1>1. \A r \in RefundRows : Amounts[r] \in Nat
  BY RefundAssumption DEF Amounts, RefundShapes, RefundRecords
<1>2. /\ ended \in SUBSET RefundRows /\ open \in SUBSET RefundRows /\ IsFiniteSet(RefundRows)
      /\ ended \cap open = {} /\ RowsOf("merchant") \in SUBSET (ended \cup open)
  BY RefundAssumption DEF RowsIn, RowsOf
<1>3. IsFiniteSet(ended) /\ IsFiniteSet(open) /\ IsFiniteSet(ended \cup open) /\ IsFiniteSet(RowsOf("merchant"))
  BY <1>2, FS_Subset
<1>4. AmountOf(open) = SumOver(Amounts, open)
  BY <1>2, AmountsAdd
<1>5. Eligible = PaidAmount - amountRefunded - AmountOf(open)
  BY DEF Eligible
<1>6. amountRefunded = SumOver(Amounts, ended)
  BY DEF TotalsStand
<1> HIDE DEF ended, open
<1>7. SumOver(Amounts, ended) \in Nat /\ SumOver(Amounts, open) \in Nat /\ SumOver(Amounts, RowsOf("merchant")) \in Nat
  <2>1. (\A r \in ended : Amounts[r] \in Nat) /\ (\A r \in open : Amounts[r] \in Nat)
        /\ (\A r \in RowsOf("merchant") : Amounts[r] \in Nat)
    BY <1>1, <1>2
  <2>2. QED
    BY <1>3, <2>1, SumNat
<1>8. SumOver(Amounts, ended \cup open) = SumOver(Amounts, ended) + SumOver(Amounts, open)
  <2>1. \A r \in RefundRows : Amounts[r] \in Int
    BY <1>1
  <2>2. QED
    BY <1>2, <2>1, SumUnion
<1>9. SumOver(Amounts, RowsOf("merchant")) <= SumOver(Amounts, ended \cup open)
  <2>1. \A r \in ended \cup open : Amounts[r] \in Nat
    BY <1>1, <1>2
  <2>2. QED
    BY <1>2, <1>3, <2>1, SumOfMore
<1>10. PaidAmount \in Nat
  BY RefundAssumption
<1>11. QED
  BY <1>4, <1>5, <1>6, <1>7, <1>8, <1>9, <1>10

\* The merchant asks for a refund: a new row, of no more than is left.
LEMMA RequestKeeps ==
  ASSUME RefundInv, NEW r \in RefundRows, NEW amount \in 1..PaidAmount, RequestRefund(r, amount)
  PROVE  RefundInv'
<1>0. RefundShapes /\ RowsStand /\ MadeStands /\ AnswersStand /\ TotalsStand /\ PaidAmount \in Nat
  BY RefundAssumption DEF RefundInv
<1>1. refund[r] = NoRefund /\ refund[r].status = "none"
  <2>1. r \in RowsIn({"none"})
    BY FirstIsOne, RefundAssumption DEF RequestRefund, RowsIn
  <2>2. QED
    BY <1>0, <2>1 DEF RowsIn, RowsStand
<1>2. /\ refund' = [refund EXCEPT ![r] = [@ EXCEPT !.status = "pending", !.amount = amount]]
      /\ ask' = [ask EXCEPT ![r].at = "sent"]
      /\ UNCHANGED <<amountRefunded, made, handling, reported, mistaken>>
  BY DEF RequestRefund
<1>3. /\ refund'[r].status = "pending" /\ refund'[r].amount = amount
      /\ refund'[r].ref = NoRef /\ refund'[r].source = "merchant"
      /\ \A q \in RefundRows \ {r} : refund'[q] = refund[q] /\ ask'[q] = ask[q]
      /\ ask'[r].at = "sent"
  <2>1. /\ refund' = [refund EXCEPT ![r] = [refund[r] EXCEPT !.status = "pending", !.amount = amount]]
        /\ refund[r] \in RefundRecords
        /\ refund[r].ref = NoRef /\ refund[r].source = "merchant"
    BY <1>0, <1>1, <1>2 DEF RefundShapes, NoRefund
  <2>2. refund[r] = NoRefund /\ ask[r] \in Asks
    BY <1>0, <1>1 DEF RefundShapes
  <2>3. refund'[r] = [refund[r] EXCEPT !.status = "pending", !.amount = amount]
    BY <1>0, <2>1 DEF RefundShapes
  <2>4. ask'[r] = [ask[r] EXCEPT !.at = "sent"]
    BY <1>0, <1>2 DEF RefundShapes
  <2>5. refund'[r].status = "pending" /\ refund'[r].amount = amount /\ refund'[r].ref = NoRef
        /\ refund'[r].source = "merchant"
    BY <2>1, <2>3 DEF RefundRecords
  <2>6. ask'[r].at = "sent"
    BY <2>2, <2>4 DEF Asks
  <2>7. QED
    BY <1>0, <1>2, <2>5, <2>6 DEF RefundShapes
<1>4. RefundShapes'
  <2>1. refund[r] \in RefundRecords /\ ask[r] \in Asks /\ amount \in 0..PaidAmount
    BY <1>0 DEF RefundShapes
  <2>2. [refund[r] EXCEPT !.status = "pending", !.amount = amount] \in RefundRecords
    BY <2>1 DEF RefundRecords, Outcomes
  <2>3. [ask[r] EXCEPT !.at = "sent"] \in Asks
    BY <2>1 DEF Asks
  <2>4. refund' = [refund EXCEPT ![r] = [refund[r] EXCEPT !.status = "pending", !.amount = amount]]
        /\ ask' = [ask EXCEPT ![r] = [ask[r] EXCEPT !.at = "sent"]]
    BY <1>0, <1>2 DEF RefundShapes
  <2>5. refund' \in [RefundRows -> RefundRecords] /\ ask' \in [RefundRows -> Asks]
    BY <1>0, <2>2, <2>3, <2>4 DEF RefundShapes
  <2>6. QED
    BY <1>0, <1>2, <2>5 DEF RefundShapes
<1>5. ask[r].at = "none" /\ \A g \in References : made[g].row # r
  BY <1>0, <1>1, RefundAssumption DEF RowsStand, Merchants, MadeStands
<1>6. RowsStand'
  BY <1>0, <1>3 DEF RowsStand, Merchants
<1>7. MadeStands'
  BY <1>0, <1>2, <1>3, <1>5 DEF MadeStands, RefundShapes
<1>8. AnswersStand'
  <2>1. \A q \in RefundRows : ask'[q].at = "answered" => ask'[q] = ask[q]
    BY <1>3
  <2>2. QED
    BY <1>0, <1>2, <2>1 DEF AnswersStand, SaysOf
<1>9. ASSUME mistaken' = {} PROVE RowsAreTheirs'
  <2>1. RowsAreTheirs
    BY <1>2, <1>9 DEF RefundInv
  <2>2. \A g \in References : made[g].row # NoRow => made[g].row \in RefundRows \ {r}
    BY <1>0, <1>5 DEF RefundShapes
  <2>3. \A g \in References : <<g, "processed">> \in reported =>
          \E q \in RefundRows \ {r} : refund[q].ref = g /\ refund[q].status = "processed"
    BY <1>1, <2>1 DEF RowsAreTheirs
  <2>4. QED
    BY <1>2, <1>3, <2>1, <2>2, <2>3 DEF RowsAreTheirs
<1>10. TotalsStand'
  <2>1. /\ RowsIn({"processed"}) \in SUBSET RefundRows /\ RowsIn({"processed"})' = RowsIn({"processed"})
        /\ r \notin RowsIn({"processed"})
    BY <1>1, <1>3 DEF RowsIn
  <2>2. /\ RowsOf("merchant") \in SUBSET RefundRows /\ RowsOf("merchant")' = RowsOf("merchant") \cup {r}
        /\ r \notin RowsOf("merchant")
    BY <1>1, <1>3 DEF RowsOf, RowsIn
  <2>3. \A q \in RefundRows \ {r} : refund'[q] = refund[q]
    BY <1>3
  <2>4. SumOver(Amounts', RowsIn({"processed"})') = SumOver(Amounts, RowsIn({"processed"}))
    BY <1>0, <1>4, <2>1, <2>3, AmountsMove
  <2>5. SumOver(Amounts', RowsOf("merchant")') = SumOver(Amounts, RowsOf("merchant")) + amount
    <3>1. RowsOf("merchant")' \in SUBSET RefundRows /\ RowsOf("merchant") \ {r} = RowsOf("merchant")' \ {r}
          /\ r \in RowsOf("merchant")' /\ refund'[r].amount = amount
      BY <1>3, <2>2
    <3>2. SumOver(Amounts', RowsOf("merchant")') = SumOver(Amounts, RowsOf("merchant")) - 0 + amount
      BY <1>0, <1>4, <2>2, <2>3, <3>1, AmountsMove
    <3>3. SumOver(Amounts, RowsOf("merchant")) \in Nat
      BY <1>0, <1>4, <2>2, <2>3, <3>1, AmountsMove
    <3>4. QED
      BY <3>2, <3>3
  <2>6. SumOver(Amounts, RowsOf("merchant")) + amount <= PaidAmount
    BY <1>0, EligibleIsLeft DEF RequestRefund
  <2>7. QED
    BY <1>0, <1>2, <2>4, <2>5, <2>6 DEF TotalsStand
<1>11. QED
  BY <1>4, <1>6, <1>7, <1>8, <1>9, <1>10 DEF RefundInv

\* An amount is given back as credit.
LEMMA ToCreditKeeps ==
  ASSUME RefundInv, NEW r \in RefundRows, NEW amount \in 1..PaidAmount, RefundToCredit(r, amount)
  PROVE  RefundInv'
<1>0. RefundShapes /\ RowsStand /\ MadeStands /\ AnswersStand /\ TotalsStand /\ PaidAmount \in Nat
  BY RefundAssumption DEF RefundInv
<1>1. refund[r] = NoRefund /\ refund[r].status = "none"
  <2>1. r \in RowsIn({"none"})
    BY FirstIsOne, RefundAssumption DEF RefundToCredit, RowsIn
  <2>2. QED
    BY <1>0, <2>1 DEF RowsIn, RowsStand
<1>2. /\ refund' = [refund EXCEPT ![r] = [status |-> "processed", amount |-> amount, ref |-> NoRef, source |-> "credit"]]
      /\ amountRefunded' = amountRefunded + amount
      /\ UNCHANGED <<ask, made, handling, reported, mistaken>>
  BY DEF RefundToCredit
<1>3. /\ refund'[r] = [status |-> "processed", amount |-> amount, ref |-> NoRef, source |-> "credit"]
      /\ \A q \in RefundRows \ {r} : refund'[q] = refund[q]
  BY <1>0, <1>2 DEF RefundShapes
<1>4. RefundShapes'
  BY <1>0, <1>2 DEF RefundShapes, RefundRecords, Outcomes
<1>5. ask[r].at = "none" /\ \A g \in References : made[g].row # r
  BY <1>0, <1>1, RefundAssumption DEF RowsStand, Merchants, MadeStands
<1>6. RowsStand'
  BY <1>0, <1>2, <1>3, <1>5 DEF RowsStand, Merchants
<1>7. MadeStands' /\ AnswersStand'
  BY <1>0, <1>2, <1>3, <1>5 DEF MadeStands, AnswersStand, SaysOf, RefundShapes
<1>8. ASSUME mistaken' = {} PROVE RowsAreTheirs'
  <2>1. RowsAreTheirs
    BY <1>2, <1>8 DEF RefundInv
  <2>2. \A g \in References : made[g].row # NoRow => made[g].row \in RefundRows \ {r}
    BY <1>0, <1>5 DEF RefundShapes
  <2>3. \A g \in References : <<g, "processed">> \in reported =>
          \E q \in RefundRows \ {r} : refund[q].ref = g /\ refund[q].status = "processed"
    BY <1>1, <2>1 DEF RowsAreTheirs
  <2>4. QED
    BY <1>2, <1>3, <1>5, <2>1, <2>2, <2>3 DEF RowsAreTheirs
<1>9. TotalsStand'
  <2>1. r \notin RowsIn({"processed"}) /\ r \in RowsIn({"processed"})' /\ r \notin RowsOf("merchant")'
    BY <1>1, <1>3 DEF RowsIn, RowsOf
  <2>2. amountRefunded \in Nat
    BY <1>0, TotalIsNat
  <2>3. amountRefunded' = amountRefunded - 0 + refund'[r].amount
    BY <1>2, <1>3, <2>2
  <2>4. QED
    BY <1>0, <1>3, <1>4, <2>1, <2>3, TotalsMove
<1>10. QED
  BY <1>4, <1>6, <1>7, <1>8, <1>9 DEF RefundInv

\* The gateway carries a refund out, or takes it on.
LEMMA TakesKeeps ==
  ASSUME RefundInv, NEW r \in RefundRows, NEW g \in References, NEW status \in {"pending", "processed"},
         GatewayTakes(r, g, status)
  PROVE  RefundInv'
<1>0. RefundShapes /\ RowsStand /\ MadeStands /\ AnswersStand /\ TotalsStand
  BY DEF RefundInv
<1>1. /\ ask[r].at = "sent" /\ made[g].status = "none" /\ made[g].row = NoRow
      /\ \A h \in References : made[h].row # r
      /\ refund[r].amount \in 0..PaidAmount /\ refund[r].source = "merchant" /\ r # NoRow
  <2>1. ask[r].at = "sent" /\ made[g].status = "none"
    BY DEF GatewayTakes
  <2>2. made[g].row = NoRow /\ r # NoRow /\ \A h \in References : made[h].row # r
    BY <1>0, <2>1, RefundAssumption DEF MadeStands
  <2>3. refund[r].amount \in 0..PaidAmount
    BY <1>0 DEF RefundShapes, RefundRecords
  <2>4. refund[r].source = "merchant"
    BY <1>0, <2>1 DEF RowsStand, Merchants
  <2>5. QED
    BY <2>1, <2>2, <2>3, <2>4
<1>2. /\ made' = [made EXCEPT ![g] = [status |-> status, amount |-> refund[r].amount, row |-> r]]
      /\ ask' = [ask EXCEPT ![r] = [at |-> "answered", ref |-> g, status |-> status]]
      /\ UNCHANGED <<refund, amountRefunded, handling, reported, mistaken>>
  BY DEF GatewayTakes
<1>3. /\ made'[g] = [status |-> status, amount |-> refund[r].amount, row |-> r]
      /\ \A h \in References \ {g} : made'[h] = made[h]
      /\ ask'[r] = [at |-> "answered", ref |-> g, status |-> status]
      /\ \A q \in RefundRows \ {r} : ask'[q] = ask[q]
  BY <1>0, <1>2 DEF RefundShapes
<1>4. RefundShapes'
  BY <1>0, <1>1, <1>2 DEF RefundShapes, Asks, Outcomes
<1>5. RowsStand'
  BY <1>0, <1>1, <1>2, <1>3 DEF RowsStand, Merchants
<1>6. MadeStands'
  BY <1>0, <1>1, <1>2, <1>3 DEF MadeStands
<1>7. AnswersStand'
  <2>1. \A h \in References : made[h].status # "none" => made'[h] = made[h]
    BY <1>1, <1>3
  <2>2. g # NoRef
    BY RefundAssumption
  <2>3. ASSUME NEW q \in RefundRows, q # r, ask'[q].at = "answered", ask'[q].ref = NoRef
        PROVE  ask'[q].status = "failed" /\ \A h \in References : made'[h].row # q
    BY <1>0, <1>3, <2>3 DEF AnswersStand
  <2>4. ASSUME NEW q \in RefundRows, q # r, ask'[q].at = "answered", ask'[q].ref # NoRef
        PROVE  /\ ask'[q].ref \in References /\ made'[ask'[q].ref] = made[ask[q].ref]
               /\ ask'[q] = ask[q] /\ SaysOf(ask[q].ref, ask[q].status) /\ made[ask[q].ref].row = q
    BY <1>0, <1>3, <2>1, <2>4 DEF AnswersStand, SaysOf
  <2>5. \A q \in RefundRows : ask'[q].at = "answered" =>
          IF ask'[q].ref = NoRef THEN ask'[q].status = "failed" /\ \A h \in References : made'[h].row # q
          ELSE /\ ask'[q].ref \in References /\ made'[ask'[q].ref].status # "none"
               /\ ask'[q].status \in {"pending", "processed", "failed"}
               /\ ask'[q].status # "pending" => made'[ask'[q].ref].status = ask'[q].status
               /\ made'[ask'[q].ref].row = q
    <3>1. ASSUME NEW q \in RefundRows, q # r, ask'[q].at = "answered", ask'[q].ref # NoRef
          PROVE  /\ ask'[q].ref \in References /\ made'[ask'[q].ref].status # "none"
                 /\ ask'[q].status \in {"pending", "processed", "failed"}
                 /\ ask'[q].status # "pending" => made'[ask'[q].ref].status = ask'[q].status
                 /\ made'[ask'[q].ref].row = q
      BY <2>4, <3>1 DEF SaysOf
    <3>2. QED
      BY <1>3, <2>2, <2>3, <3>1
  <2>6. QED
    BY <1>0, <1>2, <2>1, <2>5 DEF AnswersStand, SaysOf
<1>8. ASSUME mistaken' = {} PROVE RowsAreTheirs'
  <2>1. RowsAreTheirs
    BY <1>2, <1>8 DEF RefundInv
  <2>2. \A q \in RefundRows : refund[q].ref # NoRef => refund[q].ref \in References \ {g}
    <3>1. \A q \in RefundRows : refund[q].ref # NoRef => refund[q].ref \in References
      BY <1>0 DEF RefundShapes, RefundRecords
    <3>2. ASSUME NEW q \in RefundRows, refund[q].ref = g PROVE FALSE
      <4>1. made[g].row = q \/ made[g].status = "processed"
        BY <2>1, <3>2, RefundAssumption DEF RowsAreTheirs
      <4>2. QED
        BY <1>1, <4>1, RefundAssumption
    <3>3. QED
      BY <3>1, <3>2
  <2>3. \A k \in Deliveries : handling[k].ref # NoRef => handling[k].ref \in References \ {g}
    BY <1>0, <1>1 DEF AnswersStand, SaysOf
  <2>4. refund[r].status = "pending" /\ refund[r].ref = NoRef
    BY <1>1, <2>1, <2>2 DEF RowsAreTheirs
  <2>5. QED
    BY <1>2, <1>3, <2>1, <2>2, <2>3, <2>4 DEF RowsAreTheirs
<1>9. TotalsStand'
  BY <1>0, <1>2 DEF TotalsStand, Amounts, RowsIn, RowsOf
<1>10. QED
  BY <1>4, <1>5, <1>6, <1>7, <1>8, <1>9 DEF RefundInv

\* The gateway refuses, or its answer is lost.
LEMMA NoAnswerKeeps ==
  ASSUME RefundInv, NEW r \in RefundRows, GatewayRejects(r) \/ CallLost(r)
  PROVE  RefundInv'
<1>0. RefundShapes /\ RowsStand /\ MadeStands /\ AnswersStand /\ TotalsStand
  BY DEF RefundInv
<1>1. /\ ask[r].at # "none" /\ ask'[r].at \in {"answered", "over"}
      /\ \A q \in RefundRows \ {r} : ask'[q] = ask[q]
      /\ ask' \in [RefundRows -> Asks]
      /\ UNCHANGED <<refund, amountRefunded, made, handling, reported, mistaken>>
  <2>1. CASE GatewayRejects(r)
    BY <1>0, <2>1 DEF GatewayRejects, RefundShapes, Asks, Outcomes
  <2>2. CASE CallLost(r)
    BY <1>0, <2>2 DEF CallLost, RefundShapes, Asks, Outcomes, NotAsked
  <2>3. QED
    BY <2>1, <2>2
<1>2. ask'[r].at = "answered" =>
        ask'[r].ref = NoRef /\ ask'[r].status = "failed" /\ \A g \in References : made[g].row # r
  <2>1. CASE GatewayRejects(r)
    BY <1>0, <2>1, RefundAssumption DEF GatewayRejects, RefundShapes, MadeStands
  <2>2. CASE CallLost(r)
    BY <1>0, <2>2 DEF CallLost, RefundShapes, NotAsked
  <2>3. QED
    BY <2>1, <2>2
<1>3. RefundShapes'
  BY <1>0, <1>1 DEF RefundShapes
<1>4. RowsStand'
  BY <1>0, <1>1 DEF RowsStand, Merchants
<1>5. MadeStands'
  BY <1>0, <1>1 DEF MadeStands, RefundShapes
<1>6. AnswersStand'
  BY <1>0, <1>1, <1>2 DEF AnswersStand, SaysOf
<1>7. mistaken' = {} => RowsAreTheirs'
  BY <1>1 DEF RefundInv, RowsAreTheirs
<1>8. TotalsStand'
  BY <1>0, <1>1 DEF TotalsStand, Amounts, RowsIn, RowsOf
<1>9. QED
  BY <1>3, <1>4, <1>5, <1>6, <1>7, <1>8 DEF RefundInv

\* A refund is made in the dashboard; one that was taken on is finished.
LEMMA GatewayKeeps ==
  ASSUME RefundInv, NEW g \in References,
         \/ \E amount \in 1..PaidAmount : DashboardRefund(g, amount)
         \/ \E status \in {"processed", "failed"} : GatewayFinishes(g, status)
  PROVE  RefundInv'
<1>0. RefundShapes /\ RowsStand /\ MadeStands /\ AnswersStand /\ TotalsStand /\ PaidAmount \in Nat
  BY RefundAssumption DEF RefundInv
<1>1. /\ \A h \in References \ {g} : made'[h] = made[h]
      /\ made'[g].status \in {"processed", "failed"} /\ made'[g].row = made[g].row
      /\ \/ made[g].status = "none" /\ made'[g].status = "processed"
         \/ made[g].status = "pending" /\ made'[g].amount = made[g].amount
      /\ UNCHANGED <<refund, amountRefunded, ask, handling, reported, mistaken>>
      /\ made' \in [References -> [status : Outcomes, amount : 0..PaidAmount, row : RefundRows \cup {NoRow}]]
  <2>1. CASE \E amount \in 1..PaidAmount : DashboardRefund(g, amount)
    BY <1>0, <2>1 DEF DashboardRefund, RefundShapes, MadeStands, Outcomes
  <2>2. CASE \E status \in {"processed", "failed"} : GatewayFinishes(g, status)
    <3>1. PICK status \in {"processed", "failed"} : GatewayFinishes(g, status)
      BY <2>2
    <3>2. made[g] \in [status : Outcomes, amount : 0..PaidAmount, row : RefundRows \cup {NoRow}]
      BY <1>0 DEF RefundShapes
    <3>3. made' = [made EXCEPT ![g] = [made[g] EXCEPT !.status = status]] /\ made[g].status = "pending"
      BY <1>0, <3>1 DEF GatewayFinishes, RefundShapes
    <3>4. QED
      BY <1>0, <3>1, <3>2, <3>3 DEF GatewayFinishes, RefundShapes, Outcomes
  <2>3. QED
    BY <2>1, <2>2
<1>2. RefundShapes' /\ RowsStand'
  BY <1>0, <1>1 DEF RefundShapes, RowsStand, Merchants
<1>3. MadeStands'
  BY <1>0, <1>1 DEF MadeStands
<1>4. AnswersStand'
  <2>1. \A h, s : SaysOf(h, s) => SaysOf(h, s)'
    BY <1>1 DEF SaysOf
  <2>2. \A h \in References : made'[h].row = made[h].row
    BY <1>1
  <2>3. \A h, s : SaysOf(h, s) => h \in References
    BY DEF SaysOf
  <2>4. QED
    BY <1>0, <1>1, <2>1, <2>2, <2>3 DEF AnswersStand
<1>5. ASSUME mistaken' = {} PROVE RowsAreTheirs'
  <2>1. RowsAreTheirs
    BY <1>1, <1>5 DEF RefundInv
  <2>2. \A r \in RefundRows : refund[r].ref # NoRef => refund[r].ref \in References
    BY <1>0 DEF RefundShapes, RefundRecords
  <2>3. \A k \in Deliveries : handling[k].ref # NoRef => handling[k].ref \in References
    BY <1>0 DEF RefundShapes
  <2>4. \A h \in References : made'[h].row = made[h].row
    BY <1>1
  <2>5. \A r \in RefundRows : refund[r].ref = g /\ refund[r].source # "merchant" =>
          made'[g] = made[g]
    <3>1. ASSUME NEW r \in RefundRows, refund[r].ref = g, refund[r].source # "merchant" PROVE FALSE
      <4>1. made[g].status = "processed"
        BY <2>1, <3>1, RefundAssumption DEF RowsAreTheirs
      <4>2. QED
        BY <1>1, <4>1
    <3>2. QED
      BY <3>1
  <2>6. made[g].row # NoRow => refund[made[g].row].status = "pending"
    BY <1>0, <1>1, <2>1 DEF RowsAreTheirs, MadeStands
  <2>7. QED
    BY <1>1, <2>1, <2>2, <2>3, <2>4, <2>5, <2>6, RefundAssumption DEF RowsAreTheirs
<1>6. TotalsStand'
  BY <1>0, <1>1 DEF TotalsStand, Amounts, RowsIn, RowsOf
<1>7. QED
  BY <1>2, <1>3, <1>4, <1>5, <1>6 DEF RefundInv

\* What settling does to the row: one that is not pending is left as it is.
LEMMA SettleRow ==
  ASSUME RefundShapes, RowsStand, TotalsStand, NEW r \in RefundRows, NEW g \in References \cup {NoRef},
         NEW status \in {"pending", "processed", "failed"}, SettleRefund(r, g, status)
  PROVE  /\ refund' \in [RefundRows -> RefundRecords]
         /\ \A q \in RefundRows \ {r} : refund'[q] = refund[q]
         /\ refund'[r].amount = refund[r].amount /\ refund'[r].source = refund[r].source
         /\ IF refund[r].status = "pending"
            THEN refund'[r].status = status /\ refund'[r].ref = IF refund[r].ref = NoRef THEN g ELSE refund[r].ref
            ELSE refund'[r] = refund[r]
         /\ amountRefunded' = amountRefunded - (IF r \in RowsIn({"processed"}) THEN refund[r].amount ELSE 0)
                                     + (IF r \in RowsIn({"processed"})' THEN refund'[r].amount ELSE 0)
<1>1. refund[r] \in RefundRecords /\ refund[r].amount \in Nat /\ amountRefunded \in Nat
  BY TotalIsNat, RefundAssumption DEF RefundShapes, RefundRecords
<1>2. CASE refund[r].status = "pending"
  <2> DEFINE ref == IF refund[r].ref = NoRef THEN g ELSE refund[r].ref
  <2>1. refund' = [refund EXCEPT ![r] = [refund[r] EXCEPT !.ref = ref, !.status = status]]
    BY <1>1, <1>2 DEF SettleRefund, Settles, RefundShapes
  <2>2. ref \in References \cup {NoRef} /\ status \in Outcomes
    BY <1>1 DEF RefundRecords, Outcomes
  <2> HIDE DEF ref
  <2>3. [refund[r] EXCEPT !.ref = ref, !.status = status] \in RefundRecords
    BY <1>1, <2>2 DEF RefundRecords
  <2>4. /\ refund' \in [RefundRows -> RefundRecords]
        /\ \A q \in RefundRows \ {r} : refund'[q] = refund[q]
        /\ refund'[r] = [refund[r] EXCEPT !.ref = ref, !.status = status]
    BY <2>1, <2>3 DEF RefundShapes
  <2>5. /\ refund'[r].amount = refund[r].amount /\ refund'[r].source = refund[r].source
        /\ refund'[r].status = status /\ refund'[r].ref = ref
    BY <1>1, <2>4 DEF RefundRecords
  <2>6. amountRefunded' = IF status = "processed" THEN amountRefunded + refund[r].amount ELSE amountRefunded
    BY <1>2 DEF SettleRefund, Settles
  <2>7. r \notin RowsIn({"processed"}) /\ (r \in RowsIn({"processed"})' <=> status = "processed")
    BY <1>2, <2>5 DEF RowsIn
  <2>8. amountRefunded' = amountRefunded - 0 + (IF status = "processed" THEN refund[r].amount ELSE 0)
    BY <1>1, <2>6
  <2>9. QED
    BY <1>2, <2>4, <2>5, <2>7, <2>8 DEF ref
<1>3. CASE refund[r].status # "pending"
  <2>1. refund' = refund /\ amountRefunded' = amountRefunded
    BY <1>3 DEF SettleRefund, Settles
  <2>2. RowsIn({"processed"})' = RowsIn({"processed"})
    BY <2>1 DEF RowsIn
  <2>3. \A n \in Nat : amountRefunded = amountRefunded - n + n
    BY <1>1
  <2>4. amountRefunded = amountRefunded - 0 + 0
    BY <1>1
  <2>5. QED
    BY <1>1, <1>3, <2>1, <2>2, <2>3, <2>4 DEF RefundShapes
<1>4. QED
  BY <1>2, <1>3

\* The rows stay what they are, and the total follows them.
LEMMA SettleKeepsRows ==
  ASSUME RefundInv, RefundShapes', NEW r \in RefundRows, NEW g \in References \cup {NoRef},
         NEW status \in {"pending", "processed", "failed"}, SettleRefund(r, g, status), ~Clashes(r, g),
         \A q \in RefundRows : ask'[q].at # "none" <=> ask[q].at # "none"
  PROVE  RowsStand' /\ TotalsStand'
<1>0. RefundShapes /\ RowsStand /\ TotalsStand
  BY DEF RefundInv
<1>1. /\ \A q \in RefundRows \ {r} : refund'[q] = refund[q]
      /\ refund'[r].amount = refund[r].amount /\ refund'[r].source = refund[r].source
      /\ IF refund[r].status = "pending"
         THEN refund'[r].status = status /\ refund'[r].ref = IF refund[r].ref = NoRef THEN g ELSE refund[r].ref
         ELSE refund'[r] = refund[r]
      /\ amountRefunded' = amountRefunded - (IF r \in RowsIn({"processed"}) THEN refund[r].amount ELSE 0)
                                  + (IF r \in RowsIn({"processed"})' THEN refund'[r].amount ELSE 0)
  BY <1>0, SettleRow
<1>2. refund[r].status = "pending" => refund[r].source = "merchant"
  BY <1>0 DEF RowsStand, RefundShapes, RefundRecords
<1>3. r \in RowsOf("merchant")' => r \in RowsOf("merchant") /\ refund'[r].amount = refund[r].amount
  BY <1>1 DEF RowsOf, RowsIn
<1>4. TotalsStand'
  BY <1>0, <1>1, <1>3, TotalsMove
<1>5. CASE refund[r].status = "pending"
  <2>1. refund[r].source = "merchant" /\ ask[r].at # "none" /\ refund'[r].source = "merchant"
        /\ refund'[r].status # "none"
    BY <1>0, <1>1, <1>2, <1>5 DEF RowsStand, Merchants
  <2>2. \A q \in RefundRows \ {r} : refund'[r].ref # NoRef => refund[q].ref # refund'[r].ref
    <3>1. CASE refund[r].ref = NoRef
      BY <1>1, <1>5, <3>1 DEF Clashes, RefFree
    <3>2. CASE refund[r].ref # NoRef
      BY <1>0, <1>1, <1>5, <3>2 DEF RowsStand
    <3>3. QED
      BY <3>1, <3>2
  <2>3. QED
    BY <1>0, <1>1, <1>4, <2>1, <2>2 DEF RowsStand, Merchants
<1>6. CASE refund[r].status # "pending"
  <2>1. \A q \in RefundRows : refund'[q] = refund[q]
    BY <1>1, <1>6
  <2>2. QED
    BY <1>0, <1>4, <2>1 DEF RowsStand, Merchants
<1>7. QED
  BY <1>5, <1>6

\* The row that is settled with its own refund's outcome is its refund's.
LEMMA SettleIsTheirs ==
  ASSUME RefundInv, RowsAreTheirs, NEW r \in RefundRows, NEW g \in References \cup {NoRef},
         NEW status \in {"pending", "processed", "failed"}, SettleRefund(r, g, status),
         IF g = NoRef THEN status = "failed" /\ \A h \in References : made[h].row # r
                      ELSE SaysOf(g, status) /\ made[g].row = r,
         made' = made, ask'[r].at # "sent",
         \A q \in RefundRows : ask'[q].at = "sent" => ask[q].at = "sent",
         \A k \in Deliveries : handling'[k].ref # NoRef => handling'[k] = handling[k],
         \A h : <<h, "processed">> \in reported => <<h, "processed">> \in reported',
         \A h : <<h, "processed">> \in reported' =>
                  <<h, "processed">> \in reported \/ (h = g /\ status = "processed")
  PROVE  RowsAreTheirs'
<1>0. RefundShapes /\ RowsStand /\ MadeStands /\ TotalsStand /\ r # NoRow
  BY RefundAssumption DEF RefundInv
<1>1. /\ \A q \in RefundRows \ {r} : refund'[q] = refund[q]
      /\ refund'[r].amount = refund[r].amount /\ refund'[r].source = refund[r].source
      /\ IF refund[r].status = "pending"
         THEN refund'[r].status = status /\ refund'[r].ref = IF refund[r].ref = NoRef THEN g ELSE refund[r].ref
         ELSE refund'[r] = refund[r]
  BY <1>0, SettleRow
<1>2. \A h \in References : made[h].row # NoRow => made[h].row \in RefundRows
  BY <1>0 DEF RefundShapes
<1>3. CASE refund[r].status = "pending"
  <2>1. refund[r].source = "merchant"
    BY <1>0, <1>3 DEF RowsStand, RefundShapes, RefundRecords
  <2>2. refund'[r].ref = g /\ refund'[r].status = status /\ refund'[r].source = "merchant"
    <3>1. CASE g = NoRef
      <4>1. refund[r].ref = NoRef
        <5>1. refund[r].ref # NoRef => refund[r].ref \in References /\ made[refund[r].ref].row = r
          BY <1>0, <2>1 DEF RowsAreTheirs, RefundShapes, RefundRecords
        <5>2. QED
          BY <3>1, <5>1
      <4>2. QED
        BY <1>1, <1>3, <2>1, <4>1
    <3>2. CASE g # NoRef
      <4>1. g \in References /\ made[g].row = r
        BY <3>2
      <4>2. refund[r].ref \in {NoRef, g}
        BY <1>0, <1>3, <4>1 DEF RowsAreTheirs
      <4>3. QED
        BY <1>1, <1>3, <2>1, <4>2
    <3>3. QED
      BY <3>1, <3>2
  <2>3. g # NoRef => g \in References /\ made[g].row = r /\ (status # "pending" => made[g].status = status)
    BY DEF SaysOf
  <2>4. \A q \in RefundRows : refund'[q].ref # NoRef =>
          IF refund'[q].source = "merchant" THEN made'[refund'[q].ref].row = q
          ELSE /\ made'[refund'[q].ref].row = NoRow /\ made'[refund'[q].ref].status = "processed"
               /\ refund'[q].amount = made'[refund'[q].ref].amount
               /\ <<refund'[q].ref, "processed">> \in reported'
    BY <1>1, <2>2, <2>3 DEF RowsAreTheirs
  <2>5. \A q \in RefundRows : refund'[q].status = "processed" /\ refund'[q].source = "merchant" =>
          refund'[q].ref # NoRef /\ made'[refund'[q].ref].status = "processed"
    BY <1>1, <2>2, <2>3 DEF RowsAreTheirs
  <2>6. \A q \in RefundRows : ask'[q].at = "sent" => refund'[q].status = "pending"
    BY <1>1 DEF RowsAreTheirs
  <2>7. \A h \in References : made'[h].row # NoRow =>
          \/ refund'[made'[h].row].status = "pending" /\ refund'[made'[h].row].ref \in {NoRef, h}
          \/ refund'[made'[h].row].status = made'[h].status /\ refund'[made'[h].row].ref = h
    <3>1. ASSUME NEW h \in References, made[h].row = r
          PROVE  \/ refund'[r].status = "pending" /\ refund'[r].ref \in {NoRef, h}
                 \/ refund'[r].status = made[h].status /\ refund'[r].ref = h
      <4>1. g # NoRef
        BY <3>1
      <4>2. h = g
        BY <1>0, <2>3, <3>1, <4>1 DEF MadeStands
      <4>3. QED
        BY <2>2, <2>3, <4>1, <4>2
    <3>2. ASSUME NEW h \in References, made[h].row # r, made[h].row # NoRow
          PROVE  \/ refund'[made[h].row].status = "pending" /\ refund'[made[h].row].ref \in {NoRef, h}
                 \/ refund'[made[h].row].status = made[h].status /\ refund'[made[h].row].ref = h
      BY <1>1, <1>2, <3>2 DEF RowsAreTheirs
    <3>3. QED
      BY <3>1, <3>2
  <2>8. \A h \in References : <<h, "processed">> \in reported' =>
          \E q \in RefundRows : refund'[q].ref = h /\ refund'[q].status = "processed"
    <3>1. ASSUME NEW h \in References, <<h, "processed">> \in reported
          PROVE  \E q \in RefundRows : refund'[q].ref = h /\ refund'[q].status = "processed"
      <4>1. PICK q \in RefundRows : refund[q].ref = h /\ refund[q].status = "processed"
        BY <3>1 DEF RowsAreTheirs
      <4>2. q # r
        BY <1>3, <4>1
      <4>3. QED
        BY <1>1, <4>1, <4>2
    <3>2. QED
      BY <2>2, <3>1
  <2>9. \A k \in Deliveries : handling'[k].ref # NoRef => handling'[k].row = made'[handling'[k].ref].row
    BY DEF RowsAreTheirs
  <2>10. QED
    BY <2>4, <2>5, <2>6, <2>7, <2>8, <2>9 DEF RowsAreTheirs
<1>4. CASE refund[r].status # "pending"
  <2>1. \A q \in RefundRows : refund'[q] = refund[q]
    BY <1>1, <1>4
  <2>2. ASSUME status = "processed", g # NoRef PROVE refund[r].ref = g /\ refund[r].status = "processed"
    <3>1. g \in References /\ made[g].row = r /\ made[g].status = "processed"
      BY <2>2 DEF SaysOf
    <3>2. QED
      BY <1>0, <1>4, <3>1 DEF RowsAreTheirs
  <2>3. \A h \in References : <<h, "processed">> \in reported' =>
          \E q \in RefundRows : refund[q].ref = h /\ refund[q].status = "processed"
    BY <2>2, RefundAssumption DEF RowsAreTheirs
  <2>4. QED
    BY <1>2, <2>1, <2>3 DEF RowsAreTheirs
<1>5. QED
  BY <1>3, <1>4

\* The call comes back with the gateway's answer.
LEMMA AnsweredKeeps ==
  ASSUME RefundInv, NEW r \in RefundRows, CallAnswered(r)
  PROVE  RefundInv'
<1>0. RefundShapes /\ RowsStand /\ MadeStands /\ AnswersStand /\ TotalsStand
  BY DEF RefundInv
<1>1. /\ ask[r].at = "answered" /\ ask'[r].at = "over" /\ ask' \in [RefundRows -> Asks]
      /\ \A q \in RefundRows \ {r} : ask'[q] = ask[q]
      /\ UNCHANGED <<made, handling, reported, mistaken>>
  BY <1>0 DEF CallAnswered, RefundShapes, Asks, Outcomes, NotAsked
<1>2. PICK g \in References \cup {NoRef}, status \in {"pending", "processed", "failed"} :
        /\ g = ask[r].ref /\ status = ask[r].status
        /\ IF g = NoRef THEN status = "failed" /\ \A h \in References : made[h].row # r
                        ELSE SaysOf(g, status) /\ made[g].row = r
  <2>1. ask[r].ref \in References \cup {NoRef}
    BY <1>0 DEF RefundShapes, Asks
  <2>2. ask[r].status \in {"pending", "processed", "failed"}
    BY <1>0, <1>1 DEF AnswersStand, SaysOf
  <2>3. QED
    BY <1>0, <1>1, <2>1, <2>2 DEF AnswersStand
<1>3. \/ Clashes(r, g) /\ UNCHANGED <<refund, amountRefunded>>
      \/ ~Clashes(r, g) /\ SettleRefund(r, g, status)
  BY <1>2 DEF CallAnswered
<1>4. refund' \in [RefundRows -> RefundRecords] /\ (\A q \in RefundRows : refund'[q].amount = refund[q].amount)
  BY <1>0, <1>3, SettleRow DEF RefundShapes
<1>5. RefundShapes'
  BY <1>0, <1>1, <1>4 DEF RefundShapes
<1>6. \A q \in RefundRows : ask'[q].at # "none" <=> ask[q].at # "none"
  BY <1>1
<1>7. RowsStand' /\ TotalsStand'
  <2>1. CASE UNCHANGED <<refund, amountRefunded>>
    BY <1>0, <1>6, <2>1 DEF RowsStand, Merchants, TotalsStand, Amounts, RowsIn, RowsOf
  <2>2. QED
    BY <1>3, <1>5, <1>6, <2>1, SettleKeepsRows
<1>8. MadeStands'
  BY <1>0, <1>1, <1>4 DEF MadeStands, RefundShapes
<1>9. AnswersStand'
  BY <1>0, <1>1 DEF AnswersStand, SaysOf
<1>10. ASSUME mistaken' = {} PROVE RowsAreTheirs'
  <2>1. RowsAreTheirs
    BY <1>1, <1>10 DEF RefundInv
  <2>2. CASE UNCHANGED <<refund, amountRefunded>>
    BY <1>1, <2>1, <2>2 DEF RowsAreTheirs
  <2>3. CASE ~Clashes(r, g) /\ SettleRefund(r, g, status)
    <3>1. ask'[r].at # "sent" /\ \A q \in RefundRows : ask'[q].at = "sent" => ask[q].at = "sent"
      BY <1>1
    <3>2. made' = made /\ handling' = handling /\ reported' = reported
      BY <1>1
    <3>3. QED
      BY <1>2, <2>1, <2>3, <3>1, <3>2, SettleIsTheirs
  <2>4. QED
    BY <1>3, <2>2, <2>3
<1>11. QED
  BY <1>5, <1>7, <1>8, <1>9, <1>10 DEF RefundInv

\* A callback that was found a row settles it.
LEMMA ReportedKeeps ==
  ASSUME RefundInv, NEW k \in Deliveries, SettleReported(k)
  PROVE  RefundInv'
<1>0. RefundShapes /\ RowsStand /\ MadeStands /\ AnswersStand /\ TotalsStand
  BY DEF RefundInv
<1>1. PICK r \in RefundRows, g \in References, status \in {"pending", "processed", "failed"} :
        handling[k].row = r /\ handling[k].ref = g /\ handling[k].status = status /\ SaysOf(g, status)
  <2>1. handling[k].row \in RefundRows
    BY <1>0 DEF SettleReported, RefundShapes
  <2>2. handling[k].ref # NoRef
    BY <1>0, <2>1, RefundAssumption DEF AnswersStand, Nothing
  <2>3. QED
    BY <1>0, <2>1, <2>2 DEF AnswersStand, SaysOf
<1>2. /\ handling' = [handling EXCEPT ![k] = Nothing]
      /\ UNCHANGED <<ask, made, mistaken>>
      /\ \/ UNCHANGED <<refund, amountRefunded, reported>>
         \/ ~Clashes(r, g) /\ SettleRefund(r, g, status) /\ reported' = reported \cup {<<g, status>>}
  BY <1>1 DEF SettleReported, Handled
<1>3. refund' \in [RefundRows -> RefundRecords] /\ (\A q \in RefundRows : refund'[q].amount = refund[q].amount)
  BY <1>0, <1>2, SettleRow DEF RefundShapes
<1>4. \A m \in Deliveries : handling'[m] = IF m = k THEN Nothing ELSE handling[m]
  BY <1>0, <1>2 DEF RefundShapes
<1>5. RefundShapes'
  BY <1>0, <1>2, <1>3 DEF RefundShapes, Nothing, Outcomes
<1>6. RowsStand' /\ TotalsStand'
  <2>1. CASE UNCHANGED <<refund, amountRefunded>>
    BY <1>0, <1>2, <2>1 DEF RowsStand, Merchants, TotalsStand, Amounts, RowsIn, RowsOf
  <2>2. CASE ~Clashes(r, g) /\ SettleRefund(r, g, status)
    <3>1. \A q \in RefundRows : ask'[q].at # "none" <=> ask[q].at # "none"
      BY <1>2
    <3>2. QED
      BY <1>5, <2>2, <3>1, SettleKeepsRows
  <2>3. QED
    BY <1>2, <2>1, <2>2
<1>7. MadeStands'
  BY <1>0, <1>2, <1>3 DEF MadeStands, RefundShapes
<1>8. AnswersStand'
  BY <1>0, <1>2, <1>4 DEF AnswersStand, SaysOf, Nothing
<1>9. ASSUME mistaken' = {} PROVE RowsAreTheirs'
  <2>1. RowsAreTheirs
    BY <1>2, <1>9 DEF RefundInv
  <2>2. \A m \in Deliveries : handling'[m].ref # NoRef => handling'[m] = handling[m]
    BY <1>4 DEF Nothing
  <2>3. CASE UNCHANGED <<refund, amountRefunded, reported>>
    BY <1>2, <2>1, <2>2, <2>3 DEF RowsAreTheirs
  <2>4. CASE ~Clashes(r, g) /\ SettleRefund(r, g, status) /\ reported' = reported \cup {<<g, status>>}
    <3>1. g # NoRef /\ made[g].row = r
      BY <1>1, <2>1, RefundAssumption DEF RowsAreTheirs
    <3>2. ask[r].at # "sent"
      BY <1>0, <3>1, RefundAssumption DEF MadeStands
    <3>3. made' = made /\ ask' = ask
      BY <1>2
    <3>4. /\ \A h : <<h, "processed">> \in reported => <<h, "processed">> \in reported'
          /\ \A h : <<h, "processed">> \in reported' =>
                      <<h, "processed">> \in reported \/ (h = g /\ status = "processed")
      BY <2>4
    <3>5. QED
      BY <1>1, <2>1, <2>2, <2>4, <3>1, <3>2, <3>3, <3>4, SettleIsTheirs
  <2>5. QED
    BY <1>2, <2>3, <2>4
<1>10. QED
  BY <1>5, <1>6, <1>7, <1>8, <1>9 DEF RefundInv

\* The sweep settles a row with what the gateway says of its reference.
LEMMA SweepKeeps ==
  ASSUME RefundInv, NEW r \in RefundRows, SweepRefund(r)
  PROVE  RefundInv'
<1>0. RefundShapes /\ RowsStand /\ MadeStands /\ AnswersStand /\ TotalsStand
  BY DEF RefundInv
<1>1. PICK g \in References, status \in {"processed", "failed"} :
        /\ refund[r].ref = g /\ made[g].status = status /\ SettleRefund(r, g, status)
        /\ refund[r].status = "pending"
  BY <1>0 DEF SweepRefund, RefundShapes, RefundRecords
<1>2. UNCHANGED <<ask, made, handling, reported, mistaken>> /\ ~Clashes(r, g)
  BY <1>1, RefundAssumption DEF SweepRefund, Clashes
<1>3. refund' \in [RefundRows -> RefundRecords] /\ (\A q \in RefundRows : refund'[q].amount = refund[q].amount)
  BY <1>0, <1>1, SettleRow DEF RefundShapes
<1>4. RefundShapes'
  BY <1>0, <1>2, <1>3 DEF RefundShapes
<1>5. RowsStand' /\ TotalsStand'
  <2>1. \A q \in RefundRows : ask'[q].at # "none" <=> ask[q].at # "none"
    BY <1>2
  <2>2. QED
    BY <1>1, <1>2, <1>4, <2>1, SettleKeepsRows
<1>6. MadeStands' /\ AnswersStand'
  BY <1>0, <1>2, <1>3 DEF MadeStands, AnswersStand, SaysOf, RefundShapes
<1>7. ASSUME mistaken' = {} PROVE RowsAreTheirs'
  <2>1. RowsAreTheirs
    BY <1>2, <1>7 DEF RefundInv
  <2>2. refund[r].source = "merchant"
    BY <1>0, <1>1 DEF RowsStand, RefundShapes, RefundRecords
  <2>3. g # NoRef /\ made[g].row = r /\ SaysOf(g, status)
    BY <1>1, <2>1, <2>2, RefundAssumption DEF RowsAreTheirs, SaysOf
  <2>4. ask'[r].at # "sent" /\ \A q \in RefundRows : ask'[q].at = "sent" => ask[q].at = "sent"
    BY <1>0, <1>2, <2>3, RefundAssumption DEF MadeStands
  <2>5. made' = made /\ handling' = handling /\ reported' = reported
    BY <1>2
  <2>6. QED
    BY <1>1, <2>1, <2>3, <2>4, <2>5, SettleIsTheirs
<1>8. QED
  BY <1>4, <1>5, <1>6, <1>7 DEF RefundInv

\* A callback is found its row; another refund's, and it is mistaken.
LEMMA ReportKeeps ==
  ASSUME RefundInv, NEW k \in Deliveries, NEW g \in References, Report(k, g)
  PROVE  RefundInv'
<1>0. RefundShapes /\ RowsStand /\ MadeStands /\ AnswersStand /\ TotalsStand /\ g # NoRef
  BY RefundAssumption DEF RefundInv
<1> DEFINE byRef    == {r \in RefundRows : refund[r].ref = g}
           byAmount == {r \in RowsIn({"pending"}) : refund[r].ref = NoRef /\ refund[r].amount = made[g].amount}
<1>1. /\ RowFor(g) = IF byRef # {} THEN FirstOf(byRef) ELSE FirstOf(byAmount)
      /\ byRef \in SUBSET RefundRows /\ byAmount \in SUBSET RefundRows
  BY DEF RowFor, RowsIn
<1>2. RowFor(g) \in RefundRows \cup {NoRow}
  BY <1>1, FirstIsOne
<1>3. /\ handling[k] = Nothing /\ made[g].status # "none" /\ <<g, made[g].status>> \notin reported
      /\ handling' = [handling EXCEPT ![k] = [ref |-> g, status |-> made[g].status, row |-> RowFor(g)]]
      /\ UNCHANGED <<refund, amountRefunded, ask, made, reported>>
      /\ mistaken' = IF RowFor(g) \notin {NoRow, made[g].row} THEN mistaken \cup {g} ELSE mistaken
  BY DEF Report
<1>4. made[g].status \in {"pending", "processed", "failed"}
  BY <1>0, <1>3 DEF RefundShapes, Outcomes
<1>5. \A m \in Deliveries : handling'[m] =
        IF m = k THEN [ref |-> g, status |-> made[g].status, row |-> RowFor(g)] ELSE handling[m]
  BY <1>0, <1>3 DEF RefundShapes
<1>6. RefundShapes'
  <2>1. [ref |-> g, status |-> made[g].status, row |-> RowFor(g)] \in
          [ref : References \cup {NoRef}, row : RefundRows \cup {NoRow}, status : Outcomes]
    BY <1>2, <1>4 DEF Outcomes
  <2>2. QED
    BY <1>0, <1>3, <2>1 DEF RefundShapes
<1>7. RowsStand' /\ MadeStands' /\ TotalsStand'
  BY <1>0, <1>3 DEF RowsStand, MadeStands, TotalsStand, Merchants, Amounts, RowsIn, RowsOf
<1>8. AnswersStand'
  BY <1>0, <1>3, <1>4, <1>5 DEF AnswersStand, SaysOf
<1>9. ASSUME mistaken' = {} PROVE RowsAreTheirs'
  <2>1. RowFor(g) \in {NoRow, made[g].row} /\ mistaken = {}
    BY <1>3, <1>9
  <2>2. RowsAreTheirs
    BY <2>1 DEF RefundInv
  <2>3. RowFor(g) = made[g].row
    <3>1. ASSUME made[g].row # NoRow PROVE RowFor(g) # NoRow
      <4>1. made[g].row \in RefundRows
        BY <1>0, <3>1 DEF RefundShapes
      <4>2. made[g].row \in byRef \/ made[g].row \in byAmount
        BY <1>0, <2>2, <3>1, <4>1 DEF RowsAreTheirs, MadeStands, RowsIn
      <4>3. QED
        BY <1>1, <4>2, FirstIsOne, RefundAssumption
    <3>2. QED
      BY <2>1, <3>1
  <2>4. \A m \in Deliveries : handling'[m].ref # NoRef => handling'[m].row = made[handling'[m].ref].row
    BY <1>5, <2>2, <2>3 DEF RowsAreTheirs
  <2>5. QED
    BY <1>3, <2>2, <2>4 DEF RowsAreTheirs
<1>10. QED
  BY <1>6, <1>7, <1>8, <1>9 DEF RefundInv

\* A callback without a row gets one of its own, if the refund was made.
LEMMA RecordKeeps ==
  ASSUME RefundInv, NEW k \in Deliveries, RecordReported(k)
  PROVE  RefundInv'
<1>0. RefundShapes /\ RowsStand /\ MadeStands /\ AnswersStand /\ TotalsStand
  BY DEF RefundInv
<1>1. PICK g \in References, status \in {"pending", "processed", "failed"} :
        handling[k].ref = g /\ handling[k].status = status /\ SaysOf(g, status) /\ g # NoRef
  BY <1>0 DEF RecordReported, AnswersStand, SaysOf
<1>2. /\ handling[k].row = NoRow
      /\ handling' = [handling EXCEPT ![k] = Nothing] /\ reported' = reported \cup {<<g, status>>}
      /\ UNCHANGED <<ask, made, mistaken>>
  BY <1>1 DEF RecordReported, Handled
<1>3. \A m \in Deliveries : handling'[m] = IF m = k THEN Nothing ELSE handling[m]
  BY <1>0, <1>2 DEF RefundShapes
<1>4. handling' \in [Deliveries -> [ref : References \cup {NoRef}, row : RefundRows \cup {NoRow}, status : Outcomes]]
  BY <1>0, <1>2 DEF RefundShapes, Nothing, Outcomes
<1>5. AnswersStand'
  BY <1>0, <1>2, <1>3 DEF AnswersStand, SaysOf, Nothing
<1>6. \A m \in Deliveries : handling'[m].ref # NoRef => handling'[m] = handling[m]
  BY <1>3 DEF Nothing
<1>7. CASE (status # "processed" \/ AlreadyThere(g)) /\ UNCHANGED <<refund, amountRefunded>>
  <2>1. RefundShapes' /\ RowsStand' /\ MadeStands' /\ TotalsStand'
    BY <1>0, <1>2, <1>4, <1>7 DEF RefundShapes, RowsStand, MadeStands, TotalsStand, Merchants, Amounts, RowsIn, RowsOf
  <2>2. ASSUME mistaken' = {} PROVE RowsAreTheirs'
    <3>1. RowsAreTheirs
      BY <1>2, <2>2 DEF RefundInv
    <3>2. ASSUME status = "processed" PROVE \E r \in RefundRows : refund[r].ref = g /\ refund[r].status = "processed"
      <4>1. PICK r \in RefundRows : refund[r].ref = g
        BY <1>7, <3>2 DEF AlreadyThere
      <4>2. made[g].row = NoRow
        BY <1>1, <1>2, <3>1 DEF RowsAreTheirs
      <4>3. ASSUME refund[r].source = "merchant" PROVE FALSE
        <5>1. made[refund[r].ref].row = r
          BY <1>1, <3>1, <4>1, <4>3 DEF RowsAreTheirs
        <5>2. QED
          BY <4>1, <4>2, <5>1, RefundAssumption
      <4>4. refund[r].status = "processed"
        BY <1>0, <4>3 DEF RowsStand, RefundShapes, RefundRecords
      <4>5. QED
        BY <4>1, <4>4
    <3>3. \A h \in References : <<h, "processed">> \in reported' =>
            \E r \in RefundRows : refund[r].ref = h /\ refund[r].status = "processed"
      BY <1>2, <3>1, <3>2 DEF RowsAreTheirs
    <3>4. QED
      BY <1>2, <1>6, <1>7, <3>1, <3>3 DEF RowsAreTheirs
  <2>3. QED
    BY <1>5, <2>1, <2>2 DEF RefundInv
<1>8. ASSUME status = "processed", ~AlreadyThere(g), NEW r \in RefundRows, refund[r] = NoRefund,
             refund' = [refund EXCEPT ![r] = [status |-> "processed", ref |-> g, amount |-> made[g].amount,
                                              source |-> "gateway"]],
             amountRefunded' = amountRefunded + made[g].amount
      PROVE  RefundInv'
  <2>1. /\ refund'[r].status = "processed" /\ refund'[r].ref = g /\ refund'[r].amount = made[g].amount
        /\ refund'[r].source = "gateway" /\ refund[r].status = "none" /\ refund[r].ref = NoRef
        /\ \A q \in RefundRows \ {r} : refund'[q] = refund[q]
    BY <1>0, <1>8 DEF RefundShapes, NoRefund
  <2>2. RefundShapes'
    <3>1. made[g].amount \in 0..PaidAmount
      BY <1>0 DEF RefundShapes
    <3>2. [status |-> "processed", ref |-> g, amount |-> made[g].amount, source |-> "gateway"] \in RefundRecords
      BY <3>1 DEF RefundRecords, Outcomes
    <3>3. QED
      BY <1>0, <1>2, <1>4, <1>8, <3>2 DEF RefundShapes
  <2>3. ask[r].at = "none" /\ \A h \in References : made[h].row # r
    BY <1>0, <2>1, RefundAssumption DEF RowsStand, Merchants, MadeStands
  <2>4. \A q \in RefundRows : refund[q].ref # g
    BY <1>8 DEF AlreadyThere
  <2>5. RowsStand'
    BY <1>0, <1>1, <1>2, <2>1, <2>3, <2>4 DEF RowsStand, Merchants
  <2>6. MadeStands'
    BY <1>0, <1>2, <2>1, <2>3 DEF MadeStands, RefundShapes
  <2>7. TotalsStand'
    <3>1. r \notin RowsIn({"processed"}) /\ r \in RowsIn({"processed"})' /\ r \notin RowsOf("merchant")'
      BY <2>1 DEF RowsIn, RowsOf
    <3>2. amountRefunded \in Nat /\ made[g].amount \in Nat
      BY <1>0, TotalIsNat, RefundAssumption DEF RefundShapes
    <3>3. amountRefunded' = amountRefunded - 0 + refund'[r].amount
      BY <1>8, <2>1, <3>2
    <3>4. QED
      BY <1>0, <2>1, <2>2, <3>1, <3>3, TotalsMove
  <2>8. ASSUME mistaken' = {} PROVE RowsAreTheirs'
    <3>1. RowsAreTheirs
      BY <1>2, <2>8 DEF RefundInv
    <3>2. made[g].row = NoRow /\ made[g].status = "processed"
      BY <1>1, <1>2, <1>8, <3>1 DEF RowsAreTheirs, SaysOf
    <3>3. \A h \in References : made[h].row # NoRow => made[h].row \in RefundRows \ {r}
      BY <1>0, <2>3 DEF RefundShapes
    <3>4. \A h \in References : <<h, "processed">> \in reported' =>
            \E q \in RefundRows : refund'[q].ref = h /\ refund'[q].status = "processed"
      <4>1. ASSUME NEW h \in References, <<h, "processed">> \in reported
            PROVE  \E q \in RefundRows : refund'[q].ref = h /\ refund'[q].status = "processed"
        <5>1. PICK q \in RefundRows : refund[q].ref = h /\ refund[q].status = "processed"
          BY <3>1, <4>1 DEF RowsAreTheirs
        <5>2. q # r
          BY <2>1, <5>1
        <5>3. QED
          BY <2>1, <5>1, <5>2
      <4>2. QED
        BY <1>2, <2>1, <4>1
    <3>5. \A q \in RefundRows : refund'[q].ref # NoRef =>
            IF refund'[q].source = "merchant" THEN made'[refund'[q].ref].row = q
            ELSE /\ made'[refund'[q].ref].row = NoRow /\ made'[refund'[q].ref].status = "processed"
                 /\ refund'[q].amount = made'[refund'[q].ref].amount
                 /\ <<refund'[q].ref, "processed">> \in reported'
      <4>1. ASSUME NEW q \in RefundRows \ {r}, refund[q].ref # NoRef
            PROVE  IF refund[q].source = "merchant" THEN made[refund[q].ref].row = q
                   ELSE /\ made[refund[q].ref].row = NoRow /\ made[refund[q].ref].status = "processed"
                        /\ refund[q].amount = made[refund[q].ref].amount
                        /\ <<refund[q].ref, "processed">> \in reported
        BY <3>1, <4>1 DEF RowsAreTheirs
      <4>2. made' = made /\ reported' = reported \cup {<<g, "processed">>}
        BY <1>2, <1>8
      <4>3. QED
        BY <2>1, <3>2, <4>1, <4>2
    <3>6. QED
      BY <1>2, <1>6, <2>1, <2>3, <3>1, <3>3, <3>4, <3>5 DEF RowsAreTheirs
  <2>9. QED
    BY <1>5, <2>2, <2>5, <2>6, <2>7, <2>8 DEF RefundInv
<1>9. CASE ~(status # "processed" \/ AlreadyThere(g))
  <2> DEFINE r == FirstOf(RowsIn({"none"}))
  <2>1. /\ r # NoRow
        /\ refund' = [refund EXCEPT ![r] = [status |-> "processed", ref |-> g, amount |-> made[g].amount,
                                            source |-> "gateway"]]
        /\ amountRefunded' = amountRefunded + made[g].amount
    BY <1>1, <1>9 DEF RecordReported
  <2>2. r \in RowsIn({"none"})
    BY <2>1, FirstIsOne DEF RowsIn
  <2>3. r \in RefundRows /\ refund[r] = NoRefund
    BY <1>0, <2>2 DEF RowsIn, RowsStand
  <2> HIDE DEF r
  <2>4. QED
    BY <1>8, <1>9, <2>1, <2>3
<1>10. CASE status # "processed" \/ AlreadyThere(g)
  <2>1. UNCHANGED <<refund, amountRefunded>>
    BY <1>1, <1>10 DEF RecordReported
  <2>2. QED
    BY <1>7, <1>10, <2>1
<1>11. QED
  BY <1>9, <1>10

\* Each step keeps the invariant.
LEMMA RefundStep == RefundInv /\ [RefundNext]_refundVars => RefundInv'
<1> SUFFICES ASSUME RefundInv, [RefundNext]_refundVars PROVE RefundInv'
  OBVIOUS
<1>1. CASE \E r \in RefundRows : \E amount \in 1..PaidAmount : RequestRefund(r, amount) \/ RefundToCredit(r, amount)
  BY <1>1, RequestKeeps, ToCreditKeeps
<1>2. CASE \E r \in RefundRows : \E g \in References, s \in {"pending", "processed"} : GatewayTakes(r, g, s)
  BY <1>2, TakesKeeps
<1>3. CASE \E r \in RefundRows : GatewayRejects(r) \/ CallLost(r) \/ CallAnswered(r) \/ SweepRefund(r)
  BY <1>3, NoAnswerKeeps, AnsweredKeeps, SweepKeeps
<1>4. CASE \E g \in References : \/ \E amount \in 1..PaidAmount : DashboardRefund(g, amount)
                                \/ \E s \in {"processed", "failed"} : GatewayFinishes(g, s)
  BY <1>4, GatewayKeeps
<1>5. CASE \E g \in References, k \in Deliveries : Report(k, g)
  BY <1>5, ReportKeeps
<1>6. CASE \E k \in Deliveries : SettleReported(k) \/ RecordReported(k)
  BY <1>6, ReportedKeeps, RecordKeeps
<1>7. CASE UNCHANGED refundVars
  BY <1>7 DEF refundVars, RefundInv, RefundShapes, RowsStand, Merchants, MadeStands, AnswersStand, SaysOf,
       RowsAreTheirs, TotalsStand, Amounts, RowsIn, RowsOf
<1>8. QED
  BY <1>1, <1>2, <1>3, <1>4, <1>5, <1>6, <1>7 DEF RefundNext

\* When all that the gateway carried out is reported, its refunds and the rows
\* that say processed are the same, one for one.
LEMMA RowsMeetRefunds ==
  ASSUME RefundInv, mistaken = {},
         \A g \in MadeIn({"processed"}) : <<g, "processed">> \in reported
  PROVE  amountRefunded = AmountMade(MadeIn({"processed"})) + AmountOf(RowsOf("credit"))
<1> DEFINE S == {r \in RowsIn({"processed"}) : refund[r].source # "credit"}
           C == RowsOf("credit")
           T == MadeIn({"processed"})
           f == [r \in RefundRows |-> refund[r].ref]
<1>0. RefundShapes /\ RowsStand /\ MadeStands /\ TotalsStand /\ RowsAreTheirs
  BY DEF RefundInv
<1>1. /\ S \in SUBSET RefundRows /\ C \in SUBSET RefundRows /\ S \cap C = {}
      /\ RowsIn({"processed"}) = S \cup C /\ IsFiniteSet(RefundRows)
  BY <1>0, RefundAssumption DEF RowsIn, RowsOf, RowsStand
<1>2. T \in SUBSET References /\ \A g \in T : made[g].status = "processed" /\ <<g, "processed">> \in reported
  BY DEF MadeIn
<1>3. ASSUME NEW r \in S PROVE /\ f[r] \in T /\ f[r] # NoRef /\ refund[r].amount = made[f[r]].amount
  <2>1. r \in RefundRows /\ refund[r].status = "processed" /\ refund[r].source # "credit" /\ f[r] = refund[r].ref
    BY <1>3 DEF RowsIn
  <2>2. refund[r].ref # NoRef /\ refund[r].ref \in References
    BY <1>0, <2>1 DEF RowsAreTheirs, RowsStand, RefundShapes, RefundRecords
  <2>3. made[refund[r].ref].status = "processed"
    BY <1>0, <2>1, <2>2 DEF RowsAreTheirs
  <2>4. refund[r].amount = made[refund[r].ref].amount
    <3>1. CASE refund[r].source = "merchant"
      <4>1. made[refund[r].ref].row = r /\ r # NoRow
        BY <1>0, <2>1, <2>2, <3>1, RefundAssumption DEF RowsAreTheirs
      <4>2. QED
        BY <1>0, <2>2, <4>1 DEF MadeStands
    <3>2. CASE refund[r].source # "merchant"
      BY <1>0, <2>1, <2>2, <3>2 DEF RowsAreTheirs
    <3>3. QED
      BY <3>1, <3>2
  <2>5. QED
    BY <2>1, <2>2, <2>3, <2>4 DEF MadeIn
<1>4. T = {f[r] : r \in S}
  <2>1. ASSUME NEW g \in T PROVE \E r \in S : f[r] = g
    <3>0. g \in References /\ <<g, "processed">> \in reported
      BY <1>2, <2>1 DEF MadeIn
    <3>1. PICK r \in RefundRows : refund[r].ref = g /\ refund[r].status = "processed"
      BY <1>0, <3>0 DEF RowsAreTheirs
    <3>2. refund[r].source # "credit"
      BY <1>0, <3>0, <3>1, RefundAssumption DEF RowsStand
    <3>3. QED
      BY <3>1, <3>2 DEF RowsIn
  <2> HIDE DEF S, T, f
  <2>2. QED
    BY <1>3, <2>1
<1>5. \A r, q \in S : f[r] = f[q] => r = q
  BY <1>0, <1>1, <1>3 DEF RowsStand
<1>6. \A r \in S : Amounts[r] \in Int /\ Amounts[r] = AmountsMade[f[r]]
  <2>1. ASSUME NEW r \in S PROVE Amounts[r] \in Int /\ Amounts[r] = AmountsMade[f[r]]
    <3>1. f[r] \in References /\ refund[r].amount = made[f[r]].amount
      BY <1>2, <1>3
    <3>2. r \in RefundRows
      BY <1>1
    <3>3. refund[r].amount \in Int
      BY <1>0, <3>2, RefundAssumption DEF RefundShapes, RefundRecords
    <3> HIDE DEF f, S
    <3>4. QED
      BY <3>1, <3>2, <3>3 DEF Amounts, AmountsMade
  <2>2. QED
    BY <2>1
<1>7. IsFiniteSet(S)
  BY <1>1, FS_Subset
<1>8. (\A r \in RefundRows : Amounts[r] \in Int)
  BY <1>0, RefundAssumption DEF Amounts, RefundShapes, RefundRecords
<1> HIDE DEF S, C, T, f
<1>9. SumOver(Amounts, S) = SumOver(AmountsMade, {f[r] : r \in S})
  BY <1>5, <1>6, <1>7, SumMapped
<1>10. SumOver(Amounts, S \cup C) = SumOver(Amounts, S) + SumOver(Amounts, C)
  BY <1>1, <1>8, SumUnion
<1>11. AmountMade(T) = SumOver(AmountsMade, T) /\ AmountOf(C) = SumOver(Amounts, C)
  BY <1>1, <1>2, AmountsAdd, MadeAdd
<1>12. amountRefunded = SumOver(Amounts, S \cup C)
  BY <1>0, <1>1 DEF TotalsStand
<1>13. amountRefunded = AmountMade(T) + AmountOf(C)
  BY <1>4, <1>9, <1>10, <1>11, <1>12
<1>14. QED
  BY <1>13 DEF T, C

\* The total is a number of the order's, at most what every row of it could come
\* to; a row, an ask and a callback are what gatewayRefundService writes.
THEOREM RefundTyped == RefundSpec => []RefundTypes
<1>1. ASSUME RefundInv PROVE RefundTypes
  <2>1. RefundShapes /\ amountRefunded = SumOver(Amounts, RowsIn({"processed"}))
    BY <1>1 DEF RefundInv, TotalsStand
  <2>2. RowsIn({"processed"}) \in SUBSET RefundRows /\ IsFiniteSet(RefundRows) /\ PaidAmount \in Nat
    BY RefundAssumption DEF RowsIn
  <2>3. \A r \in RefundRows : Amounts[r] \in Nat /\ Amounts[r] <= PaidAmount
    BY <2>1, <2>2 DEF Amounts, RefundShapes, RefundRecords
  <2>4. SumOver(Amounts, RowsIn({"processed"})) <= SumOver(Amounts, RefundRows)
    BY <2>2, <2>3, SumOfMore
  <2>5. SumOver(Amounts, RefundRows) <= Cardinality(RefundRows) * PaidAmount
    BY <2>2, <2>3, SumAtMost
  <2>6. SumOver(Amounts, RowsIn({"processed"})) \in Nat /\ SumOver(Amounts, RefundRows) \in Nat
    BY <2>2, <2>3, SumNat, FS_Subset
  <2>7. Cardinality(RefundRows) * PaidAmount \in Int
    BY <2>2, FS_CardinalityType
  <2>8. amountRefunded \in 0..Cardinality(RefundRows) * PaidAmount
    BY <2>1, <2>4, <2>5, <2>6, <2>7
  <2>9. QED
    BY <2>1, <2>8 DEF RefundTypes, RefundShapes, RefundRecords, Asks, Outcomes
<1>2. RefundInv => RefundTypes
  BY <1>1
<1>3. QED
  BY <1>2, RefundInitInv, RefundStep, PTL DEF RefundSpec

\* The order's total counts each refund once, whoever settles it, the gateway is asked
\* for no more than was paid, and the rows are what happened at the gateway, unless
\* two refunds were taken for each other (gatewayRefundService.settleRefund).
THEOREM RefundsAreCounted == RefundSpec => []RefundsAddUp
<1>1. ASSUME RefundInv PROVE RefundsAddUp
  <2>0. RefundShapes /\ RowsStand /\ TotalsStand
    BY <1>1 DEF RefundInv
  <2>1. amountRefunded = AmountOf(RowsIn({"processed"})) /\ NeverAskedTwice
    <3>1. RowsIn({"processed"}) \in SUBSET RefundRows /\ RowsOf("merchant") \in SUBSET RefundRows
      BY DEF RowsIn, RowsOf
    <3>2. QED
      BY <2>0, <3>1, AmountsAdd DEF TotalsStand, NeverAskedTwice
  <2>2. RefundsHappened
    <3>1. ASSUME mistaken = {}, NEW r \in RowsIn({"processed"}) \ RowsOf("credit")
          PROVE  made[refund[r].ref].status = "processed"
      <4>1. RowsAreTheirs
        BY <1>1, <3>1 DEF RefundInv
      <4>2. r \in RefundRows /\ refund[r].status = "processed" /\ refund[r].source # "credit"
        BY <3>1 DEF RowsIn, RowsOf
      <4>3. CASE refund[r].source = "merchant"
        BY <4>1, <4>2, <4>3 DEF RowsAreTheirs
      <4>4. CASE refund[r].source = "gateway"
        <5>1. refund[r].ref # NoRef
          BY <2>0, <4>2, <4>4 DEF RowsStand
        <5>2. QED
          BY <4>1, <4>2, <4>4, <5>1 DEF RowsAreTheirs
      <4>5. QED
        BY <2>0, <4>2, <4>3, <4>4 DEF RefundShapes, RefundRecords
    <3>2. QED
      BY <2>0, <3>1 DEF RefundsHappened, RowsStand
  <2>3. TotalsFollowMoney
    BY <1>1, RowsMeetRefunds DEF TotalsFollowMoney
  <2>4. QED
    BY <2>1, <2>2, <2>3 DEF RefundsAddUp
<1>2. RefundInv => RefundsAddUp
  BY <1>1
<1>3. QED
  BY <1>2, RefundInitInv, RefundStep, PTL DEF RefundSpec

-----------------------------------------------------------------------------
(* Settlements of collected cash.                                          *)

LinesBuilt == UNION {[os -> Parts] : os \in SUBSET CodOrders}
SomeBuilt  == LinesBuilt \cup {<<>>}

CodRows   == [paid : Nat, financial : {"pending", "partially_paid", "paid", "refunded"},
              at : {"delivered", "back", "cancelled"}]
SheetRows == [status : {"none", "draft", "confirmed", "removed"}, collected : Nat]
LineRows  == [of : Sheets \cup {NoSheet}, collected : Nat, by : Edits \cup {NoSheet}]
EditCalls == [step : {"new", "create", "update", "built", "deleted", "remove", "answered"},
              on : Sheets \cup {NoSheet}, built : SomeBuilt, old : SUBSET (CodOrders \X (Edits \cup {NoSheet}))]

SettlementShapes ==
    /\ cod \in [CodOrders -> CodRows] /\ sheet \in [Sheets -> SheetRows]
    /\ line \in [CodOrders -> LineRows] /\ received \in [Sheets -> [CodOrders -> Nat]]
    /\ calls \in [Edits -> EditCalls]

\* A line was written by a request that has answered, for a settlement there is.
LinesStand ==
    \A o \in CodOrders :
        IF line[o].of = NoSheet THEN line[o] = NoLine
        ELSE /\ line[o].by \in Edits /\ calls[line[o].by].step = "answered"
             /\ sheet[line[o].of].status # "none"

\* What a request has read still names its settlement; and a row it deletes is
\* of that settlement, for no request writes a row twice.
EditStands(c) ==
    /\ calls[c].step \in {"update", "built", "deleted", "remove"} =>
         calls[c].on \in Sheets /\ sheet[calls[c].on].status # "none"
    /\ calls[c].step \in {"create", "built", "deleted"} =>
         /\ DOMAIN calls[c].built \subseteq CodOrders /\ DOMAIN calls[c].built # {}
         /\ \A o \in DOMAIN calls[c].built : calls[c].built[o] \in Nat
    /\ calls[c].step = "deleted" =>
         \A o \in CodOrders, b \in Edits \cup {NoSheet} : <<o, b>> \in calls[c].old =>
           /\ b \in Edits /\ calls[b].step = "answered"
           /\ line[o].of # NoSheet /\ line[o].by = b => line[o].of = calls[c].on

ReceivedOf(o) == [s \in Sheets |-> received[s][o]]
Collected     == [o \in CodOrders |-> line[o].collected]

PaidOnce(o) ==
    /\ SumOver(ReceivedOf(o), Sheets) <= cod[o].paid /\ cod[o].paid <= Total
    /\ cod[o].financial = "paid" => cod[o].paid = Total

HeaderAddsUp(s) == OneEdit(s) => sheet[s].collected = SumOver(Collected, LinesOf(s))

SettlementInv ==
    /\ SettlementShapes /\ LinesStand
    /\ \A c \in Edits : EditStands(c)
    /\ \A o \in CodOrders : PaidOnce(o)
    /\ \A s \in Sheets : HeaderAddsUp(s)

\* What the lines of some orders collected, and what settlements recorded for an
\* order, add up as a sum does.
LEMMA CollectedAdd ==
  \A T \in SUBSET CodOrders : MapThenSumSet(LAMBDA o : line[o].collected, T) = SumOver(Collected, T)
<1> SUFFICES ASSUME NEW T \in SUBSET CodOrders
             PROVE  MapThenSumSet(LAMBDA o : line[o].collected, T) = SumOver(Collected, T)
  OBVIOUS
<1> DEFINE Sums(h) == h = [s \in SUBSET T |-> IF s = {} THEN 0
                             ELSE line[PickOf(s)].collected + h[s \ {PickOf(s)}]]
           h == CHOOSE h : Sums(h)
<1>0. IsFiniteSet(T)
  BY SettlementsAssumption, FS_Subset
<1>1. \A s \in SUBSET T : s # {} => PickOf(s) \in s
  BY DEF PickOf
<1>2. PICK g : Adds(g, Collected, T)
  BY <1>0, AddsExists
<1>3. Sums(g)
  BY <1>1, <1>2 DEF Adds, Collected
<1>4. Sums(h)
  BY <1>3
<1>5. Adds(h, Collected, T)
  BY <1>1, <1>4 DEF Adds, Collected
<1>6. MapThenSumSet(LAMBDA o : line[o].collected, T) = h[T]
  BY DEF MapThenSumSet, MapThenFoldSet, PickOf
<1>7. QED
  BY <1>0, <1>5, <1>6, SumAdds

LEMMA ReceivedAdd ==
  \A o \in CodOrders : MapThenSumSet(LAMBDA s : received[s][o], Sheets) = SumOver(ReceivedOf(o), Sheets)
<1> SUFFICES ASSUME NEW o \in CodOrders
             PROVE  MapThenSumSet(LAMBDA s : received[s][o], Sheets) = SumOver(ReceivedOf(o), Sheets)
  OBVIOUS
<1> DEFINE Sums(h) == h = [s \in SUBSET Sheets |-> IF s = {} THEN 0
                             ELSE received[PickOf(s)][o] + h[s \ {PickOf(s)}]]
           h == CHOOSE h : Sums(h)
<1>0. IsFiniteSet(Sheets)
  BY SettlementsAssumption
<1>1. \A s \in SUBSET Sheets : s # {} => PickOf(s) \in s
  BY DEF PickOf
<1>2. PICK g : Adds(g, ReceivedOf(o), Sheets)
  BY <1>0, AddsExists
<1>3. Sums(g)
  BY <1>1, <1>2 DEF Adds, ReceivedOf
<1>4. Sums(h)
  BY <1>3
<1>5. Adds(h, ReceivedOf(o), Sheets)
  BY <1>1, <1>4 DEF Adds, ReceivedOf
<1>6. MapThenSumSet(LAMBDA s : received[s][o], Sheets) = h[Sheets]
  BY DEF MapThenSumSet, MapThenFoldSet, PickOf
<1>7. QED
  BY <1>0, <1>5, <1>6, SumAdds

\* The lines that are built are of some orders, and have amounts.
LEMMA BuiltLines ==
  ASSUME NEW from \in SUBSET CodOrders, NEW built \in Built(from)
  PROVE  /\ built \in SomeBuilt /\ DOMAIN built \subseteq CodOrders /\ DOMAIN built # {}
         /\ \A o \in DOMAIN built : built[o] \in Nat
<1>1. PICK os \in SUBSET from : os # {} /\ built \in [os -> Parts]
  BY DEF Built
<1>2. QED
  BY <1>1, SettlementsAssumption DEF SomeBuilt, LinesBuilt

\* Holds initially.
LEMMA SettlementInitInv == SettlementInit => SettlementInv
<1> SUFFICES ASSUME SettlementInit PROVE SettlementInv
  OBVIOUS
<1>1. /\ cod \in [CodOrders -> CodRows] /\ sheet \in [Sheets -> SheetRows]
      /\ line \in [CodOrders -> LineRows] /\ received \in [Sheets -> [CodOrders -> Nat]]
  BY SettlementsAssumption DEF SettlementInit, CodRows, SheetRows, LineRows, NoLine
<1>2. calls \in [Edits -> EditCalls]
  <2>1. <<>> \in SomeBuilt
    BY DEF SomeBuilt
  <2>2. Unread \in EditCalls
    BY <2>1 DEF Unread, EditCalls
  <2>3. QED
    BY <2>2 DEF SettlementInit
<1>3. LinesStand /\ \A c \in Edits : EditStands(c)
  BY DEF SettlementInit, LinesStand, EditStands, NoLine, Unread
<1>4. \A o \in CodOrders : PaidOnce(o)
  <2>1. ASSUME NEW o \in CodOrders PROVE SumOver(ReceivedOf(o), Sheets) = 0
    <3>1. \A s \in Sheets : ReceivedOf(o)[s] = 0
      BY DEF ReceivedOf, SettlementInit
    <3>2. SumOver(ReceivedOf(o), Sheets) = SumOver(ReceivedOf(o), {})
      <4>1. /\ {} \in SUBSET Sheets /\ \A s \in Sheets \ {} : ReceivedOf(o)[s] = 0
            /\ \A s \in {} : ReceivedOf(o)[s] = ReceivedOf(o)[s] /\ ReceivedOf(o)[s] \in Int
        BY <3>1
      <4>2. IsFiniteSet(Sheets)
        BY SettlementsAssumption
      <4>3. QED
        BY <4>1, <4>2, SumOfPart
    <3>3. QED
      BY <3>2, SumEmpty
  <2>2. QED
    BY <2>1, SettlementsAssumption DEF PaidOnce, SettlementInit
<1>5. \A s \in Sheets : HeaderAddsUp(s)
  <2>1. \A s \in Sheets : LinesOf(s) = {}
    BY SettlementsAssumption DEF LinesOf, SettlementInit, NoLine
  <2>2. QED
    BY <2>1, SumEmpty DEF HeaderAddsUp, SettlementInit
<1>6. QED
  BY <1>1, <1>2, <1>3, <1>4, <1>5 DEF SettlementInv, SettlementShapes

\* A request reads on: what it has read stands.
LEMMA ReadsOn ==
  ASSUME SettlementInv, NEW c \in Edits, UNCHANGED <<cod, sheet, line, received>>,
         NEW call \in EditCalls, calls' = [calls EXCEPT ![c] = call],
         calls[c].step # "answered" \/ call.step = "answered",
         EditStands(c)'
  PROVE  SettlementInv'
<1>0. /\ SettlementShapes /\ LinesStand /\ \A d \in Edits : EditStands(d)
      /\ (\A o \in CodOrders : PaidOnce(o)) /\ \A s \in Sheets : HeaderAddsUp(s)
  BY DEF SettlementInv
<1>1. calls'[c] = call /\ \A d \in Edits \ {c} : calls'[d] = calls[d]
  BY <1>0 DEF SettlementShapes
<1>2. SettlementShapes'
  BY <1>0 DEF SettlementShapes
<1>3. \A d \in Edits : calls[d].step = "answered" => calls'[d].step = "answered"
  BY <1>1
<1>4. LinesStand'
  BY <1>0, <1>3 DEF LinesStand
<1>5. ASSUME NEW d \in Edits \ {c} PROVE EditStands(d)'
  BY <1>0, <1>1, <1>3 DEF EditStands
<1>6. (\A o \in CodOrders : PaidOnce(o)') /\ \A s \in Sheets : HeaderAddsUp(s)'
  BY <1>0 DEF PaidOnce, HeaderAddsUp, ReceivedOf, Collected, LinesOf, OneEdit
<1>7. QED
  BY <1>0, <1>2, <1>4, <1>5, <1>6 DEF SettlementInv

LEMMA BeginsKeep ==
  ASSUME SettlementInv, NEW c \in Edits,
         BeginCreate(c) \/ (\E s \in Sheets : BeginUpdate(c, s) \/ BeginRemove(c, s))
  PROVE  SettlementInv'
<1>0. calls \in [Edits -> EditCalls] /\ calls[c] \in EditCalls
  BY DEF SettlementInv, SettlementShapes
<1>1. calls[c].step = "new"
  BY DEF BeginCreate, BeginUpdate, BeginRemove, Comes, Unread
<1>2. CASE BeginCreate(c)
  <2>1. PICK built \in Built(UnsettledOrders) : calls' = [calls EXCEPT ![c].step = "create", ![c].built = built]
    BY <1>2 DEF BeginCreate
  <2>2. /\ built \in SomeBuilt /\ DOMAIN built \subseteq CodOrders /\ DOMAIN built # {}
        /\ \A o \in DOMAIN built : built[o] \in Nat
    BY BuiltLines DEF UnsettledOrders
  <2>3. calls' = [calls EXCEPT ![c] = [calls[c] EXCEPT !.step = "create", !.built = built]]
    BY <1>0, <2>1
  <2>4. PICK call \in EditCalls : call = [calls[c] EXCEPT !.step = "create", !.built = built]
    BY <1>0, <2>2 DEF EditCalls
  <2>5. call.step = "create" /\ call.built = built
    BY <1>0, <2>4 DEF EditCalls
  <2>6. calls' = [calls EXCEPT ![c] = call] /\ calls'[c] = call
    BY <1>0, <2>3, <2>4
  <2>7. EditStands(c)'
    BY <2>2, <2>5, <2>6 DEF EditStands
  <2>8. QED
    BY <1>1, <1>2, <2>6, <2>7, ReadsOn DEF BeginCreate
<1>3. ASSUME NEW s \in Sheets, NEW step \in {"update", "remove"}, sheet[s].status = "draft",
             calls' = [calls EXCEPT ![c].step = step, ![c].on = s], UNCHANGED <<cod, sheet, line, received>>
      PROVE  SettlementInv'
  <2>1. calls' = [calls EXCEPT ![c] = [calls[c] EXCEPT !.step = step, !.on = s]]
    BY <1>0, <1>3
  <2>2. PICK call \in EditCalls : call = [calls[c] EXCEPT !.step = step, !.on = s]
    BY <1>0 DEF EditCalls
  <2>3. call.step = step /\ call.on = s
    BY <1>0, <2>2 DEF EditCalls
  <2>4. calls' = [calls EXCEPT ![c] = call] /\ calls'[c] = call
    BY <1>0, <2>1, <2>2
  <2>5. EditStands(c)'
    BY <1>3, <2>3, <2>4 DEF EditStands
  <2>6. QED
    BY <1>1, <1>3, <2>4, <2>5, ReadsOn
<1>4. CASE \E s \in Sheets : BeginUpdate(c, s) \/ BeginRemove(c, s)
  BY <1>3, <1>4 DEF BeginUpdate, BeginRemove
<1>5. QED
  BY <1>2, <1>4

LEMMA BuildKeeps ==
  ASSUME SettlementInv, NEW c \in Edits, BuildLines(c)
  PROVE  SettlementInv'
<1>0. /\ calls \in [Edits -> EditCalls] /\ calls[c] \in EditCalls
      /\ calls[c].on \in Sheets /\ sheet[calls[c].on].status # "none"
  BY DEF SettlementInv, SettlementShapes, EditStands, BuildLines
<1>1. PICK built \in Built(UnsettledOrders \union LinesOf(calls[c].on)) :
        calls' = [calls EXCEPT ![c].step = "built", ![c].built = built]
  BY DEF BuildLines
<1>2. /\ built \in SomeBuilt /\ DOMAIN built \subseteq CodOrders /\ DOMAIN built # {}
      /\ \A o \in DOMAIN built : built[o] \in Nat
  <2>1. UnsettledOrders \union LinesOf(calls[c].on) \in SUBSET CodOrders
    BY DEF UnsettledOrders, LinesOf
  <2>2. QED
    BY <2>1, BuiltLines
<1>3. calls' = [calls EXCEPT ![c] = [calls[c] EXCEPT !.step = "built", !.built = built]]
  BY <1>0, <1>1
<1>4. PICK call \in EditCalls : call = [calls[c] EXCEPT !.step = "built", !.built = built]
  BY <1>0, <1>2 DEF EditCalls
<1>5. call.step = "built" /\ call.built = built /\ call.on = calls[c].on
  BY <1>0, <1>4 DEF EditCalls
<1>6. calls' = [calls EXCEPT ![c] = call] /\ calls'[c] = call
  BY <1>0, <1>3, <1>4
<1>7. EditStands(c)'
  BY <1>0, <1>2, <1>5, <1>6 DEF EditStands, BuildLines
<1>8. QED
  BY <1>6, <1>7, ReadsOn DEF BuildLines

LEMMA DeleteKeeps ==
  ASSUME SettlementInv, NEW c \in Edits, DeleteLines(c)
  PROVE  SettlementInv'
<1>0. /\ calls \in [Edits -> EditCalls] /\ calls[c] \in EditCalls /\ EditStands(c)
      /\ LinesStand /\ line \in [CodOrders -> LineRows]
  BY DEF SettlementInv, SettlementShapes
<1> DEFINE old == {<<o, line[o].by>> : o \in LinesOf(calls[c].on)}
<1>1. calls' = [calls EXCEPT ![c].step = "deleted", ![c].old = old] /\ calls[c].step = "built"
  BY DEF DeleteLines
<1>2. calls[c].on \in Sheets /\ calls[c].on # NoSheet
  BY <1>0, <1>1, SettlementsAssumption DEF EditStands
<1>3. old \subseteq CodOrders \X (Edits \cup {NoSheet})
  BY <1>0 DEF LinesOf, LineRows
<1>4. \A o \in CodOrders, b \in Edits \cup {NoSheet} : <<o, b>> \in old =>
        /\ b = line[o].by /\ b \in Edits /\ calls[b].step = "answered" /\ line[o].of = calls[c].on
  BY <1>0, <1>2 DEF LinesOf, LinesStand
<1> HIDE DEF old
<1>5. calls' = [calls EXCEPT ![c] = [calls[c] EXCEPT !.step = "deleted", !.old = old]]
  BY <1>0, <1>1
<1>6. PICK call \in EditCalls : call = [calls[c] EXCEPT !.step = "deleted", !.old = old]
  BY <1>0, <1>3 DEF EditCalls
<1>7. call.step = "deleted" /\ call.old = old /\ call.on = calls[c].on /\ call.built = calls[c].built
  BY <1>0, <1>6 DEF EditCalls
<1>8. calls' = [calls EXCEPT ![c] = call] /\ calls'[c] = call /\ \A d \in Edits \ {c} : calls'[d] = calls[d]
  BY <1>0, <1>5, <1>6
<1>9. EditStands(c)'
  <2>1. \A b \in Edits : calls[b].step = "answered" => calls'[b].step = "answered"
    BY <1>1, <1>8
  <2>2. UNCHANGED <<line, sheet>>
    BY DEF DeleteLines
  <2>3. QED
    BY <1>0, <1>1, <1>2, <1>4, <1>7, <1>8, <2>1, <2>2 DEF EditStands
<1>10. QED
  BY <1>1, <1>8, <1>9, ReadsOn DEF DeleteLines

LEMMA RefusedKeeps ==
  ASSUME SettlementInv, NEW c \in Edits, Refused(c)
  PROVE  SettlementInv'
<1>0. calls \in [Edits -> EditCalls]
  BY DEF SettlementInv, SettlementShapes
<1>1. PICK call \in EditCalls : call = [Unread EXCEPT !.step = "answered"]
  <2>1. <<>> \in SomeBuilt
    BY DEF SomeBuilt
  <2>2. QED
    BY <2>1 DEF Unread, EditCalls
<1>2. calls' = [calls EXCEPT ![c] = call] /\ calls'[c] = call /\ call.step = "answered"
  BY <1>0, <1>1 DEF Refused, Answered, Unread
<1>3. EditStands(c)'
  BY <1>2 DEF EditStands
<1>4. QED
  BY <1>2, <1>3, ReadsOn DEF Refused

\* A settlement whose lines stay keeps its sum; one that has the lines of one
\* request alone has the sum this wrote.
LEMMA HeaderStays ==
  ASSUME NEW s \in Sheets, LinesOf(s)' = LinesOf(s), \A o \in LinesOf(s) : line'[o] = line[o],
         sheet'[s].collected = sheet[s].collected, HeaderAddsUp(s)
  PROVE  HeaderAddsUp(s)'
<1>1. OneEdit(s)' => OneEdit(s)
  BY DEF OneEdit
<1>2. IsFiniteSet(LinesOf(s)) /\ LinesOf(s) \subseteq CodOrders
  BY SettlementsAssumption, FS_Subset DEF LinesOf
<1>3. \A o \in LinesOf(s) : Collected'[o] = Collected[o]
  BY <1>2 DEF Collected
<1>4. SumOver(Collected', LinesOf(s)) = SumOver(Collected, LinesOf(s))
  BY <1>2, <1>3, SumSame
<1>5. QED
  BY <1>1, <1>4 DEF HeaderAddsUp

LEMMA HeaderWritten ==
  ASSUME NEW s \in Sheets, NEW built, DOMAIN built \subseteq CodOrders, LinesOf(s)' = DOMAIN built,
         \A o \in DOMAIN built : line'[o].collected = built[o],
         sheet'[s].collected = SumOf(built)
  PROVE  HeaderAddsUp(s)'
<1>1. IsFiniteSet(DOMAIN built)
  BY SettlementsAssumption, FS_Subset
<1>2. \A o \in DOMAIN built : Collected'[o] = built[o]
  BY DEF Collected
<1>3. SumOver(Collected', DOMAIN built) = SumOver(built, DOMAIN built)
  BY <1>1, <1>2, SumSame
<1>4. SumOf(built) = SumOver(built, DOMAIN built)
  BY DEF SumOf, SumOver
<1>5. QED
  BY <1>3, <1>4 DEF HeaderAddsUp

\* A request that answers: what is left of it is its answer.
LEMMA AnsweredCalls ==
  ASSUME SettlementShapes, NEW c \in Edits, Answered(c)
  PROVE  /\ calls' \in [Edits -> EditCalls] /\ calls'[c].step = "answered"
         /\ \A d \in Edits \ {c} : calls'[d] = calls[d]
<1>1. <<>> \in SomeBuilt
  BY DEF SomeBuilt
<1>2. [Unread EXCEPT !.step = "answered"] \in EditCalls
  BY <1>1 DEF Unread, EditCalls
<1>3. [Unread EXCEPT !.step = "answered"].step = "answered"
  BY DEF Unread
<1>4. QED
  BY <1>2, <1>3 DEF Answered, SettlementShapes

\* The requests that have not answered stand as before, whatever this one wrote.
LEMMA OthersStand ==
  ASSUME SettlementInv, NEW c \in Edits, calls[c].step # "answered", Answered(c),
         \A s \in Sheets : sheet[s].status # "none" => sheet'[s].status # "none",
         \A o \in CodOrders : line'[o] = line[o] \/ line'[o].by = c \/ line'[o].of = NoSheet
  PROVE  \A d \in Edits : EditStands(d)'
<1>0. SettlementShapes /\ \A d \in Edits : EditStands(d)
  BY DEF SettlementInv
<1>1. calls'[c].step = "answered" /\ \A d \in Edits \ {c} : calls'[d] = calls[d]
  BY <1>0, AnsweredCalls
<1>2. EditStands(c)'
  BY <1>1 DEF EditStands
<1>3. ASSUME NEW d \in Edits \ {c} PROVE EditStands(d)'
  <2>1. \A b \in Edits : calls[b].step = "answered" => b # c /\ calls'[b].step = "answered"
    BY <1>1
  <2>2. calls'[d] = calls[d] /\ EditStands(d)
    BY <1>0, <1>1
  <2>3. QED
    BY <2>1, <2>2 DEF EditStands
<1>4. QED
  BY <1>2, <1>3

\* The sum a request writes is a number.
LEMMA SumOfBuilt ==
  ASSUME NEW built, DOMAIN built \subseteq CodOrders, \A o \in DOMAIN built : built[o] \in Nat
  PROVE  SumOf(built) \in Nat
<1>1. IsFiniteSet(DOMAIN built)
  BY SettlementsAssumption, FS_Subset
<1>2. SumOver(built, DOMAIN built) \in Nat
  BY <1>1, SumNat
<1>3. QED
  BY <1>2 DEF SumOf, SumOver

LEMMA CreateKeeps ==
  ASSUME SettlementInv, NEW c \in Edits, NEW s \in Sheets, CommitCreate(c, s)
  PROVE  SettlementInv'
<1>0. /\ SettlementShapes /\ LinesStand /\ EditStands(c) /\ s # NoSheet
      /\ (\A o \in CodOrders : PaidOnce(o)) /\ \A t \in Sheets : HeaderAddsUp(t)
  BY SettlementsAssumption DEF SettlementInv
<1> DEFINE built == calls[c].built
<1>1. /\ calls[c].step = "create" /\ sheet[s].status = "none" /\ \A o \in DOMAIN built : line[o] = NoLine
      /\ sheet' = [sheet EXCEPT ![s] = [status |-> "draft", collected |-> SumOf(built)]]
      /\ line' = WithLines(line, s, c, built)
      /\ Answered(c) /\ UNCHANGED <<cod, received>>
  BY DEF CommitCreate, NextSheet
<1>2. DOMAIN built \subseteq CodOrders /\ \A o \in DOMAIN built : built[o] \in Nat
  BY <1>0, <1>1 DEF EditStands
<1> HIDE DEF built
<1>3. SumOf(built) \in Nat
  BY <1>2, SumOfBuilt
<1>4. /\ \A o \in DOMAIN built : line'[o].of = s /\ line'[o].collected = built[o] /\ line'[o].by = c
      /\ \A o \in CodOrders \ DOMAIN built : line'[o] = line[o]
  BY <1>1, <1>2 DEF WithLines
<1>5. /\ sheet'[s] = [status |-> "draft", collected |-> SumOf(built)]
      /\ \A t \in Sheets \ {s} : sheet'[t] = sheet[t]
  BY <1>0, <1>1 DEF SettlementShapes
<1>6. /\ calls' \in [Edits -> EditCalls] /\ calls'[c].step = "answered"
      /\ \A d \in Edits \ {c} : calls'[d] = calls[d]
  BY <1>0, <1>1, AnsweredCalls
<1>7. SettlementShapes'
  <2>1. line' \in [CodOrders -> LineRows]
    BY <1>0, <1>1, <1>2 DEF SettlementShapes, LineRows, WithLines
  <2>2. sheet' \in [Sheets -> SheetRows]
    BY <1>0, <1>1, <1>3 DEF SettlementShapes, SheetRows
  <2>3. QED
    BY <1>0, <1>1, <1>6, <2>1, <2>2 DEF SettlementShapes
<1>8. LinesStand'
  <2>1. \A b \in Edits : calls[b].step = "answered" => calls'[b].step = "answered"
    BY <1>1, <1>6
  <2>2. \A t \in Sheets : sheet[t].status # "none" => sheet'[t].status # "none"
    BY <1>1, <1>5
  <2>3. \A o \in CodOrders : line[o].of \in Sheets \cup {NoSheet}
    BY <1>0 DEF SettlementShapes, LineRows
  <2>4. ASSUME NEW o \in CodOrders
        PROVE  IF line'[o].of = NoSheet THEN line'[o] = NoLine
               ELSE /\ line'[o].by \in Edits /\ calls'[line'[o].by].step = "answered"
                    /\ sheet'[line'[o].of].status # "none"
    <3>1. CASE o \in DOMAIN built
      BY <1>0, <1>4, <1>5, <1>6, <3>1
    <3>2. CASE o \notin DOMAIN built
      <4>1. line'[o] = line[o]
        BY <1>4, <3>2
      <4>2. QED
        BY <1>0, <2>1, <2>2, <2>3, <4>1 DEF LinesStand
    <3>3. QED
      BY <3>1, <3>2
  <2>5. QED
    BY <2>4 DEF LinesStand
<1>9. \A d \in Edits : EditStands(d)'
  BY <1>1, <1>4, <1>5, OthersStand
<1>10. \A o \in CodOrders : PaidOnce(o)'
  BY <1>0, <1>1 DEF PaidOnce, ReceivedOf
<1>11. ASSUME NEW t \in Sheets PROVE HeaderAddsUp(t)'
  <2>1. CASE t = s
    <3>1. \A o \in CodOrders : line[o].of # s
      BY <1>0, <1>1 DEF LinesStand, NoLine
    <3>2. LinesOf(s)' = DOMAIN built
      BY <1>2, <1>4, <3>1 DEF LinesOf
    <3>3. \A o \in DOMAIN built : line'[o].collected = built[o]
      BY <1>2, <1>4
    <3>4. QED
      BY <1>2, <1>5, <2>1, <3>2, <3>3, HeaderWritten
  <2>2. CASE t # s
    <3>1. t # NoSheet
      BY SettlementsAssumption
    <3>2. LinesOf(t)' = LinesOf(t) /\ \A o \in LinesOf(t) : line'[o] = line[o]
      BY <1>1, <1>4, <2>2, <3>1 DEF LinesOf, NoLine
    <3>3. QED
      BY <1>0, <1>5, <2>2, <3>2, HeaderStays
  <2>3. QED
    BY <2>1, <2>2
<1>12. QED
  BY <1>7, <1>8, <1>9, <1>10, <1>11 DEF SettlementInv

\* An edit writes its lines; if another's are left beside them, two edits wrote
\* the settlement.
LEMMA UpdateKeeps ==
  ASSUME SettlementInv, NEW c \in Edits, CommitUpdate(c)
  PROVE  SettlementInv'
<1>0. /\ SettlementShapes /\ LinesStand /\ EditStands(c)
      /\ (\A o \in CodOrders : PaidOnce(o)) /\ \A t \in Sheets : HeaderAddsUp(t)
  BY SettlementsAssumption DEF SettlementInv
<1>1. calls[c].step = "deleted" /\ calls[c].on \in Sheets /\ sheet[calls[c].on].status # "none"
  BY <1>0 DEF CommitUpdate, EditStands
<1>2a. PICK s \in Sheets : s = calls[c].on /\ sheet[s].status # "none"
  BY <1>1
<1>2. PICK built : s = calls[c].on /\ built = calls[c].built /\ sheet[s].status # "none"
  BY <1>2a
<1>3. /\ \A o \in DOMAIN built : Remaining(c)[o] = NoLine
      /\ line' = WithLines(Remaining(c), s, c, built)
      /\ sheet' = [sheet EXCEPT ![s] = Rewritten(sheet[s], built)]
      /\ Answered(c) /\ UNCHANGED <<cod, received>>
  BY <1>0, <1>2 DEF CommitUpdate, SettlementShapes
<1>4. DOMAIN built \subseteq CodOrders /\ DOMAIN built # {} /\ (\A o \in DOMAIN built : built[o] \in Nat)
  BY <1>0, <1>1, <1>2 DEF EditStands
<1>5. SumOf(built) \in Nat
  BY <1>4, SumOfBuilt
<1>6. /\ \A o \in CodOrders :
           Remaining(c)[o] = IF <<o, line[o].by>> \in calls[c].old THEN NoLine ELSE line[o]
      /\ \A o \in DOMAIN built : line'[o].of = s /\ line'[o].collected = built[o] /\ line'[o].by = c
      /\ \A o \in CodOrders \ DOMAIN built : line'[o] = Remaining(c)[o]
  BY <1>3, <1>4 DEF WithLines, Remaining
<1>6a. /\ NoLine.of = NoSheet
       /\ \A o \in CodOrders \ DOMAIN built : line'[o] = NoLine \/ line'[o] = line[o]
  BY <1>6 DEF NoLine
<1>7. /\ sheet[s] \in SheetRows /\ sheet' = [sheet EXCEPT ![s] = [sheet[s] EXCEPT !.collected = SumOf(built)]]
  BY <1>0, <1>3 DEF Rewritten, SettlementShapes
<1>8. /\ sheet'[s].status = sheet[s].status /\ sheet'[s].collected = SumOf(built)
      /\ \A t \in Sheets \ {s} : sheet'[t] = sheet[t]
  BY <1>0, <1>7 DEF SettlementShapes, SheetRows
<1>9. /\ calls' \in [Edits -> EditCalls] /\ calls'[c].step = "answered"
      /\ \A d \in Edits \ {c} : calls'[d] = calls[d]
  BY <1>0, <1>3, AnsweredCalls
<1>10. SettlementShapes'
  <2>1. ASSUME NEW o \in CodOrders PROVE line'[o] \in LineRows
    <3>1. line[o] \in LineRows /\ NoLine \in LineRows
      BY <1>0 DEF SettlementShapes, LineRows, NoLine
    <3>2. CASE o \in DOMAIN built
      <4>1. line'[o] = [of |-> s, collected |-> built[o], by |-> c] /\ built[o] \in Nat
        BY <1>3, <1>4, <3>2 DEF WithLines
      <4>2. QED
        BY <4>1 DEF LineRows
    <3>3. QED
      BY <1>6, <3>1, <3>2
  <2>2. line' \in [CodOrders -> LineRows]
    BY <1>3, <2>1 DEF WithLines
  <2>3. [sheet[s] EXCEPT !.collected = SumOf(built)] \in SheetRows
    BY <1>5, <1>7 DEF SheetRows
  <2>4. sheet' \in [Sheets -> SheetRows]
    BY <1>0, <1>7, <2>3 DEF SettlementShapes
  <2>5. QED
    BY <1>0, <1>3, <1>9, <2>2, <2>4 DEF SettlementShapes
<1>11. LinesStand'
  <2>1. \A b \in Edits : calls[b].step = "answered" => calls'[b].step = "answered"
    BY <1>1, <1>9
  <2>2. \A t \in Sheets : sheet[t].status # "none" => sheet'[t].status # "none"
    BY <1>8
  <2>3. \A o \in CodOrders : line[o].of \in Sheets \cup {NoSheet}
    BY <1>0 DEF SettlementShapes, LineRows
  <2>4. NoLine.of = NoSheet /\ s # NoSheet
    BY SettlementsAssumption DEF NoLine
  <2>5. ASSUME NEW o \in CodOrders
        PROVE  IF line'[o].of = NoSheet THEN line'[o] = NoLine
               ELSE /\ line'[o].by \in Edits /\ calls'[line'[o].by].step = "answered"
                    /\ sheet'[line'[o].of].status # "none"
    <3>1. CASE o \in DOMAIN built
      BY <1>2, <1>6, <1>8, <1>9, <2>4, <3>1
    <3>2. CASE line'[o] = NoLine
      BY <2>4, <3>2
    <3>3. CASE line'[o] = line[o]
      BY <1>0, <2>1, <2>2, <2>3, <3>3 DEF LinesStand
    <3>4. QED
      BY <1>6, <3>1, <3>2, <3>3
  <2>6. QED
    BY <2>5 DEF LinesStand
<1>12. \A d \in Edits : EditStands(d)'
  <2>1. \A o \in CodOrders : line'[o] = line[o] \/ line'[o].by = c \/ line'[o].of = NoSheet
    BY <1>6, <1>6a
  <2>2. QED
    BY <1>1, <1>3, <1>8, <2>1, OthersStand
<1>13. \A o \in CodOrders : PaidOnce(o)'
  BY <1>0, <1>3 DEF PaidOnce, ReceivedOf
<1>14. ASSUME NEW t \in Sheets, t # s PROVE HeaderAddsUp(t)'
  <2>1. ASSUME NEW o \in LinesOf(t) PROVE line'[o] = line[o]
    <3>1. o \in CodOrders /\ line[o].of = t /\ t # NoSheet /\ line[o].by \in Edits \cup {NoSheet}
      BY <1>0, SettlementsAssumption DEF LinesOf, SettlementShapes, LineRows
    <3>2. <<o, line[o].by>> \notin calls[c].old
      BY <1>0, <1>1, <1>2, <1>14, <3>1 DEF EditStands
    <3>3. Remaining(c)[o] = line[o] /\ line[o] # NoLine
      BY <1>6, <3>1, <3>2 DEF NoLine
    <3>4. QED
      BY <1>3, <1>6, <3>1, <3>3
  <2>2. ASSUME NEW o \in LinesOf(t)' PROVE o \in LinesOf(t)
    <3>1. o \in CodOrders /\ line'[o].of = t /\ t # NoSheet
      BY SettlementsAssumption DEF LinesOf
    <3>2. line'[o] = line[o]
      BY <1>6, <1>14, <1>6a, <3>1
    <3>3. QED
      BY <3>1, <3>2 DEF LinesOf
  <2>3. LinesOf(t)' = LinesOf(t)
    <3>1. \A o \in LinesOf(t) : o \in LinesOf(t)'
      BY <2>1 DEF LinesOf
    <3>2. QED
      BY <2>2, <3>1
  <2>4. QED
    BY <1>0, <1>8, <1>14, <2>1, <2>3, HeaderStays
<1>15. HeaderAddsUp(s)'
  <2>1. DOMAIN built \subseteq LinesOf(s)'
    BY <1>4, <1>6 DEF LinesOf
  <2>2. CASE LinesOf(s)' = DOMAIN built
    <3>1. \A o \in DOMAIN built : line'[o].collected = built[o]
      BY <1>4, <1>6
    <3>2. QED
      BY <1>4, <1>8, <2>2, <3>1, HeaderWritten
  <2>3. CASE LinesOf(s)' # DOMAIN built
    <3>1. PICK o \in LinesOf(s)' : o \notin DOMAIN built
      BY <2>1, <2>3
    <3>2. PICK p \in DOMAIN built : TRUE
      BY <1>4
    <3>3. o \in CodOrders /\ line'[o].of = s /\ s # NoSheet
      BY <3>1, SettlementsAssumption DEF LinesOf
    <3>4. line'[o] = line[o]
      BY <1>6, <1>6a, <3>1, <3>3
    <3>5. line'[o].by # c
      BY <1>0, <1>1, <3>3, <3>4 DEF LinesStand
    <3>6. line'[p].by = c /\ p \in LinesOf(s)'
      BY <1>4, <1>6, <2>1, <3>2
    <3>7. ~OneEdit(s)'
      BY <3>1, <3>5, <3>6 DEF OneEdit
    <3>8. QED
      BY <3>7 DEF HeaderAddsUp
  <2>4. QED
    BY <2>2, <2>3
<1>16. QED
  BY <1>10, <1>11, <1>12, <1>13, <1>14, <1>15 DEF SettlementInv

LEMMA RemoveKeeps ==
  ASSUME SettlementInv, NEW c \in Edits, CommitRemove(c)
  PROVE  SettlementInv'
<1>0. /\ SettlementShapes /\ LinesStand /\ EditStands(c)
      /\ (\A o \in CodOrders : PaidOnce(o)) /\ \A t \in Sheets : HeaderAddsUp(t)
  BY SettlementsAssumption DEF SettlementInv
<1>1. calls[c].step = "remove" /\ calls[c].on \in Sheets /\ sheet[calls[c].on].status # "none"
  BY <1>0 DEF CommitRemove, EditStands
<1>2. PICK s \in Sheets : s = calls[c].on /\ s # NoSheet
  BY <1>1, SettlementsAssumption
<1>3. /\ sheet' = [sheet EXCEPT ![s] = [status |-> "removed", collected |-> 0]]
      /\ line' = [o \in CodOrders |-> IF line[o].of = s THEN NoLine ELSE line[o]]
      /\ Answered(c) /\ UNCHANGED <<cod, received>>
  BY <1>2 DEF CommitRemove
<1>4. /\ sheet'[s] = [status |-> "removed", collected |-> 0] /\ \A t \in Sheets \ {s} : sheet'[t] = sheet[t]
  BY <1>0, <1>3 DEF SettlementShapes
<1>5. /\ calls' \in [Edits -> EditCalls] /\ calls'[c].step = "answered"
      /\ \A d \in Edits \ {c} : calls'[d] = calls[d]
  BY <1>0, <1>3, AnsweredCalls
<1>6. \A o \in CodOrders : line'[o] = IF line[o].of = s THEN NoLine ELSE line[o]
  BY <1>3
<1>7. SettlementShapes'
  <2>1. line' \in [CodOrders -> LineRows]
    BY <1>0, <1>3 DEF SettlementShapes, LineRows, NoLine
  <2>2. sheet' \in [Sheets -> SheetRows]
    BY <1>0, <1>3 DEF SettlementShapes, SheetRows
  <2>3. QED
    BY <1>0, <1>3, <1>5, <2>1, <2>2 DEF SettlementShapes
<1>8. LinesStand'
  <2>1. \A b \in Edits : calls[b].step = "answered" => calls'[b].step = "answered"
    BY <1>1, <1>5
  <2>2. \A t \in Sheets : sheet[t].status # "none" => sheet'[t].status # "none"
    BY <1>4
  <2>3. \A o \in CodOrders : line[o].of \in Sheets \cup {NoSheet}
    BY <1>0 DEF SettlementShapes, LineRows
  <2>4. QED
    BY <1>0, <1>6, <2>1, <2>2, <2>3 DEF LinesStand, NoLine
<1>9. \A d \in Edits : EditStands(d)'
  <2>1. \A o \in CodOrders : line'[o] = line[o] \/ line'[o].by = c \/ line'[o].of = NoSheet
    BY <1>6 DEF NoLine
  <2>2. QED
    BY <1>1, <1>3, <1>4, <2>1, OthersStand
<1>10. \A o \in CodOrders : PaidOnce(o)'
  BY <1>0, <1>3 DEF PaidOnce, ReceivedOf
<1>11. ASSUME NEW t \in Sheets PROVE HeaderAddsUp(t)'
  <2>0. t # NoSheet
    BY SettlementsAssumption
  <2>1. CASE t = s
    <3>1. LinesOf(t)' = {}
      BY <1>2, <1>6, <2>1 DEF LinesOf, NoLine
    <3>2. QED
      BY <1>4, <2>1, <3>1, SumEmpty DEF HeaderAddsUp
  <2>2. CASE t # s
    <3>1. LinesOf(t)' = LinesOf(t) /\ \A o \in LinesOf(t) : line'[o] = line[o]
      BY <1>6, <2>0, <2>2 DEF LinesOf, NoLine
    <3>2. QED
      BY <1>0, <1>4, <2>2, <3>1, HeaderStays
  <2>3. QED
    BY <2>1, <2>2
<1>12. QED
  BY <1>7, <1>8, <1>9, <1>10, <1>11 DEF SettlementInv

\* What an order still owes, and what confirming adds to it: no more.
LEMMA AppliedIsDue ==
  ASSUME SettlementShapes, NEW o \in CodOrders, cod[o].paid <= Total
  PROVE  Applied(o) \in Nat /\ cod[o].paid + Applied(o) <= Total
<1>1. cod[o].paid \in Nat /\ line[o].collected \in Nat /\ Total \in Nat
  BY SettlementsAssumption DEF SettlementShapes, CodRows, LineRows
<1>2. Due(o) = Total - cod[o].paid /\ Due(o) \in Nat
  <2>1. Total - cod[o].paid \in Int /\ Total - cod[o].paid >= 0
    BY <1>1
  <2>2. QED
    BY <2>1 DEF Due, Max
<1>3. Min({line[o].collected, Due(o)}) \in Nat /\ Min({line[o].collected, Due(o)}) <= Due(o)
  <2>1. \A m, n \in Nat : Min({m, n}) = IF m <= n THEN m ELSE n
    BY DEF Min
  <2>2. QED
    BY <1>1, <1>2, <2>1
<1>4. QED
  BY <1>1, <1>2, <1>3 DEF Applied

\* An order that is paid more, up to its total.
LEMMA PaidRow ==
  ASSUME NEW row \in CodRows, NEW paid \in Nat
  PROVE  /\ WithPaid(row, paid) \in CodRows /\ WithPaid(row, paid).paid = paid
         /\ WithPaid(row, paid).financial = IF paid >= Total THEN "paid" ELSE "partially_paid"
<1>1. PICK financial : financial = IF paid >= Total THEN "paid" ELSE "partially_paid"
  OBVIOUS
<1>2. WithPaid(row, paid) = [row EXCEPT !.paid = paid, !.financial = financial]
  BY <1>1 DEF WithPaid
<1>3. financial \in {"paid", "partially_paid"}
  BY <1>1
<1>4. QED
  BY <1>1, <1>2, <1>3 DEF CodRows

\* The other steps of the program leave the settlements and the requests alone.
LEMMA OrdersOnly ==
  ASSUME SettlementInv, SettlementShapes', UNCHANGED <<line, calls>>,
         \A s \in Sheets : sheet'[s].collected = sheet[s].collected /\
                           (sheet[s].status # "none" => sheet'[s].status # "none"),
         \A o \in CodOrders : PaidOnce(o)'
  PROVE  SettlementInv'
<1>0. /\ SettlementShapes /\ LinesStand /\ (\A d \in Edits : EditStands(d)) /\ \A s \in Sheets : HeaderAddsUp(s)
  BY DEF SettlementInv
<1>1. LinesStand'
  BY <1>0 DEF LinesStand, SettlementShapes, LineRows
<1>2. \A d \in Edits : EditStands(d)'
  BY <1>0 DEF EditStands
<1>3. \A s \in Sheets : HeaderAddsUp(s)'
  BY <1>0 DEF HeaderAddsUp, OneEdit, LinesOf, Collected
<1>4. QED
  BY <1>1, <1>2, <1>3 DEF SettlementInv

LEMMA ConfirmKeeps ==
  ASSUME SettlementInv, NEW s \in Sheets, ConfirmSettlement(s)
  PROVE  SettlementInv'
<1>0. SettlementShapes /\ \A o \in CodOrders : PaidOnce(o)
  BY DEF SettlementInv
<1>1. \A o \in CodOrders : Applied(o) \in Nat /\ cod[o].paid + Applied(o) <= Total
  BY <1>0, AppliedIsDue DEF PaidOnce
<1> DEFINE row == [o \in CodOrders |-> IF o \in LinesOf(s) THEN Applied(o) ELSE 0]
<1>2. received' = [received EXCEPT ![s] = row] /\ row \in [CodOrders -> Nat]
  BY <1>1 DEF ConfirmSettlement
<1>3. \A o \in CodOrders : cod'[o] \in CodRows /\ cod'[o].paid = cod[o].paid + row[o]
                           /\ (cod'[o].financial = "paid" => cod'[o].paid = Total)
  <2>1. ASSUME NEW o \in CodOrders
        PROVE  cod'[o] \in CodRows /\ cod'[o].paid = cod[o].paid + row[o]
               /\ (cod'[o].financial = "paid" => cod'[o].paid = Total)
    <3>0. cod[o] \in CodRows /\ cod[o].paid \in Nat /\ cod[o].paid + Applied(o) \in Nat /\ Total \in Nat
          /\ Applied(o) \in Nat /\ cod[o].paid + Applied(o) <= Total
      BY <1>0, <1>1, SettlementsAssumption DEF SettlementShapes, CodRows
    <3>1. CASE o \in LinesOf(s) /\ Applied(o) > 0
      <4>1. cod'[o] = WithPaid(cod[o], cod[o].paid + Applied(o)) /\ row[o] = Applied(o)
        BY <3>1 DEF ConfirmSettlement
      <4>2. cod'[o] \in CodRows /\ cod'[o].paid = cod[o].paid + Applied(o)
            /\ (cod'[o].financial = "paid" => cod[o].paid + Applied(o) >= Total)
        <5>1. PICK paid \in Nat : paid = cod[o].paid + Applied(o)
          BY <3>0
        <5>2. /\ WithPaid(cod[o], paid) \in CodRows /\ WithPaid(cod[o], paid).paid = paid
              /\ WithPaid(cod[o], paid).financial = IF paid >= Total THEN "paid" ELSE "partially_paid"
          BY <3>0, PaidRow
        <5>3. cod'[o] = WithPaid(cod[o], paid)
          BY <4>1, <5>1
        <5>4. QED
          BY <5>1, <5>2, <5>3
      <4>3. QED
        BY <3>0, <4>1, <4>2
    <3>2. CASE ~(o \in LinesOf(s) /\ Applied(o) > 0)
      <4>1. cod'[o] = cod[o]
        BY <3>2 DEF ConfirmSettlement
      <4>2. row[o] = 0
        BY <3>0, <3>2
      <4>3. QED
        BY <1>0, <3>0, <4>1, <4>2 DEF PaidOnce
    <3>3. QED
      BY <3>1, <3>2
  <2>2. QED
    BY <2>1
<1>4. \A o \in CodOrders : row[o] \in Nat /\ cod[o].paid + row[o] <= Total
  BY <1>0, <1>1, SettlementsAssumption DEF PaidOnce, SettlementShapes, CodRows
<1> HIDE DEF row
<1>5. SettlementShapes'
  <2>1. cod' \in [CodOrders -> CodRows]
    BY <1>3 DEF ConfirmSettlement
  <2>2. received' \in [Sheets -> [CodOrders -> Nat]]
    BY <1>0, <1>2 DEF SettlementShapes
  <2>3. sheet' \in [Sheets -> SheetRows]
    BY <1>0 DEF ConfirmSettlement, SettlementShapes, SheetRows
  <2>4. QED
    BY <1>0, <2>1, <2>2, <2>3 DEF ConfirmSettlement, SettlementShapes
<1>6. \A t \in Sheets : sheet'[t].collected = sheet[t].collected /\
                        (sheet[t].status # "none" => sheet'[t].status # "none")
  BY <1>0 DEF ConfirmSettlement, SettlementShapes, SheetRows
<1>7. ASSUME NEW o \in CodOrders PROVE PaidOnce(o)'
  <2>1. /\ \A t \in Sheets : ReceivedOf(o)[t] \in Int
        /\ ReceivedOf(o)'[s] = row[o] /\ ReceivedOf(o)[s] \in Nat /\ ReceivedOf(o)'[s] \in Int
        /\ \A t \in Sheets \ {s} : ReceivedOf(o)'[t] = ReceivedOf(o)[t]
    BY <1>0, <1>2, <1>4 DEF ReceivedOf, SettlementShapes
  <2>2. IsFiniteSet(Sheets)
    BY SettlementsAssumption
  <2>3. SumOver(ReceivedOf(o)', Sheets) = SumOver(ReceivedOf(o), Sheets) - ReceivedOf(o)[s] + ReceivedOf(o)'[s]
    BY <2>1, <2>2, SumChanges
  <2>4. SumOver(ReceivedOf(o), Sheets) \in Int
    BY <2>1, <2>2, SumInt
  <2>5. cod[o].paid \in Nat /\ row[o] \in Nat /\ cod'[o].paid = cod[o].paid + row[o]
    BY <1>0, <1>3, <1>4 DEF SettlementShapes, CodRows
  <2>6. SumOver(ReceivedOf(o)', Sheets) <= cod'[o].paid
    BY <1>0, <2>1, <2>3, <2>4, <2>5 DEF PaidOnce
  <2>7. QED
    BY <1>3, <1>4, <2>5, <2>6 DEF PaidOnce
<1>8. QED
  BY <1>5, <1>6, <1>7, OrdersOnly DEF ConfirmSettlement

\* The order is paid at its door, refunded, or its parcel moves.
LEMMA OutsideKeeps ==
  ASSUME SettlementInv, NEW o \in CodOrders, CapturePayment(o) \/ RefundOffline(o) \/ ParcelMoves(o)
  PROVE  SettlementInv'
<1>0. SettlementShapes /\ \A p \in CodOrders : PaidOnce(p)
  BY DEF SettlementInv
<1>1. cod[o] \in CodRows /\ cod[o].paid \in Nat /\ Total \in Nat /\ cod[o].paid <= Total
  BY <1>0, SettlementsAssumption DEF SettlementShapes, CodRows, PaidOnce
<1>2. UNCHANGED <<sheet, line, received, calls>>
  BY DEF CapturePayment, RefundOffline, ParcelMoves
<1>3. /\ cod' \in [CodOrders -> CodRows]
      /\ \A p \in CodOrders \ {o} : cod'[p] = cod[p]
      /\ cod'[o].paid \in {cod[o].paid, Total}
      /\ cod'[o].financial = "paid" => cod'[o].paid = Total
  <2>1. CASE CapturePayment(o)
    <3>1. Max({cod[o].paid, Total}) = Total
      BY <1>1 DEF Max
    <3>2. cod' = [cod EXCEPT ![o] = WithPaid(cod[o], Total)]
      BY <1>0, <2>1, <3>1 DEF CapturePayment, SettlementShapes
    <3>3. WithPaid(cod[o], Total) \in CodRows /\ WithPaid(cod[o], Total).paid = Total
      BY <1>1, PaidRow
    <3>4. QED
      BY <1>0, <3>2, <3>3 DEF SettlementShapes
  <2>2. CASE RefundOffline(o)
    BY <1>0, <1>1, <2>2 DEF RefundOffline, SettlementShapes, CodRows
  <2>3. ASSUME NEW at \in {"delivered", "back", "cancelled"}, cod' = [cod EXCEPT ![o].at = at]
        PROVE  /\ cod' \in [CodOrders -> CodRows]
               /\ \A p \in CodOrders \ {o} : cod'[p] = cod[p]
               /\ cod'[o].paid = cod[o].paid /\ cod'[o].financial = cod[o].financial
    BY <1>0, <1>1, <2>3 DEF SettlementShapes, CodRows, PaidOnce
  <2>4. CASE ParcelMoves(o)
    BY <1>0, <2>3, <2>4 DEF ParcelMoves, PaidOnce
  <2>5. QED
    BY <2>1, <2>2, <2>4
<1>4. SettlementShapes'
  BY <1>0, <1>2, <1>3 DEF SettlementShapes
<1>5. ASSUME NEW p \in CodOrders PROVE PaidOnce(p)'
  <2>1. ReceivedOf(p)' = ReceivedOf(p)
    BY <1>2 DEF ReceivedOf
  <2>2. CASE p # o
    BY <1>0, <1>3, <2>1, <2>2 DEF PaidOnce
  <2>3. CASE p = o
    <3>1. SumOver(ReceivedOf(p), Sheets) \in Int /\ SumOver(ReceivedOf(p), Sheets) <= cod[o].paid
      <4>1. \A s \in Sheets : ReceivedOf(p)[s] \in Int
        BY <1>0 DEF ReceivedOf, SettlementShapes
      <4>2. QED
        BY <1>0, <2>3, <4>1, SumInt, SettlementsAssumption DEF PaidOnce
    <3>2. QED
      BY <1>1, <1>3, <2>1, <2>3, <3>1 DEF PaidOnce
  <2>4. QED
    BY <2>2, <2>3
<1>6. QED
  BY <1>2, <1>4, <1>5, OrdersOnly

\* Each step keeps the invariant.
LEMMA SettlementStep == SettlementInv /\ [SettlementNext]_settlementVars => SettlementInv'
<1> SUFFICES ASSUME SettlementInv, [SettlementNext]_settlementVars PROVE SettlementInv'
  OBVIOUS
<1>1. ASSUME NEW c \in Edits,
             BeginCreate(c) \/ BuildLines(c) \/ DeleteLines(c) \/ CommitUpdate(c) \/ CommitRemove(c) \/ Refused(c)
      PROVE  SettlementInv'
  BY <1>1, BeginsKeep, BuildKeeps, DeleteKeeps, UpdateKeeps, RemoveKeeps, RefusedKeeps
<1>2. ASSUME NEW c \in Edits, NEW s \in Sheets, BeginUpdate(c, s) \/ BeginRemove(c, s) \/ CommitCreate(c, s)
      PROVE  SettlementInv'
  BY <1>2, BeginsKeep, CreateKeeps
<1>3. CASE \E s \in Sheets : ConfirmSettlement(s)
  BY <1>3, ConfirmKeeps
<1>4. CASE \E o \in CodOrders : CapturePayment(o) \/ RefundOffline(o) \/ ParcelMoves(o)
  BY <1>4, OutsideKeeps
<1>5. CASE UNCHANGED settlementVars
  <2>1. UNCHANGED <<cod, sheet, line, received, calls>>
    BY <1>5 DEF settlementVars
  <2>2. SettlementShapes' /\ \A o \in CodOrders : PaidOnce(o)'
    BY <2>1 DEF SettlementInv, SettlementShapes, PaidOnce, ReceivedOf
  <2>3. QED
    BY <2>1, <2>2, OrdersOnly
<1>6. QED
  BY <1>1, <1>2, <1>3, <1>4, <1>5 DEF SettlementNext

\* Settlements record no cash twice, under any order of drafts, edits, removals,
\* confirmations, captures and refunds; and a header is the sum of its lines, but
\* for two edits at once (settlementService.confirm and update).
THEOREM CashIsRecordedOnce == SettlementSpec => []SettlementsAddUp
<1>1. ASSUME SettlementInv PROVE SettlementsAddUp
  <2>1. ASSUME NEW o \in CodOrders
        PROVE  /\ MapThenSumSet(LAMBDA s : received[s][o], Sheets) <= cod[o].paid
               /\ cod[o].paid <= Total
               /\ cod[o].financial = "paid" => cod[o].paid = Total
    BY <1>1, ReceivedAdd DEF SettlementInv, PaidOnce
  <2>2. ASSUME NEW s \in Sheets, OneEdit(s)
        PROVE  sheet[s].collected = MapThenSumSet(LAMBDA o : line[o].collected, LinesOf(s))
    <3>1. LinesOf(s) \in SUBSET CodOrders
      BY DEF LinesOf
    <3>2. MapThenSumSet(LAMBDA o : line[o].collected, LinesOf(s)) = SumOver(Collected, LinesOf(s))
      BY <3>1, CollectedAdd
    <3>3. QED
      BY <1>1, <2>2, <3>2 DEF SettlementInv, HeaderAddsUp
  <2>3. QED
    BY <2>1, <2>2 DEF SettlementsAddUp
<1>2. SettlementInv => SettlementsAddUp
  BY <1>1
<1>3. QED
  BY <1>2, SettlementInitInv, SettlementStep, PTL DEF SettlementSpec
===============================================================================
