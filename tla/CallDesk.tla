------------------------------ MODULE CallDesk ------------------------------
(***************************************************************************)
(* What the call queue promises, as if each request of confirmationService *)
(* and of the order page were one instant: an order has one open call or   *)
(* none, a call is held by one agent, and only who holds it records what   *)
(* the customer answered.  The agents see no row locks, sweeps, refused or *)
(* lost requests.  ConfirmationQueue implements it.                        *)
(***************************************************************************)

CONSTANTS
    CallOrders,     \* cash-on-delivery orders
    Agents,
    NoAgent

VARIABLES
    answer,         \* what each order's customer answered, and cancelled_at
    call            \* each order's open call: who holds it, and if that lapsed

deskVars == <<answer, call>>

NoCall == [open |-> FALSE, by |-> NoAgent, lapsed |-> FALSE]
InLine == [open |-> TRUE, by |-> NoAgent, lapsed |-> FALSE]
HeldBy(a) == [open |-> TRUE, by |-> a, lapsed |-> FALSE]
OverdueOf(a) == [open |-> TRUE, by |-> a, lapsed |-> TRUE]

\* Nobody else works the order's call, or no longer in time.
NobodyElse(o, a) == call[o].by \in {NoAgent, a} \/ call[o].lapsed
FreeFor(o, a) == call[o].open /\ NobodyElse(o, a)

DeskInit ==
    /\ answer = [o \in CallOrders |-> [state |-> "pending", cancelled |-> FALSE]]
    /\ call = [o \in CallOrders |-> InLine]

\* An agent takes a call; some of those that lapsed go back in line.
ClaimCall(o, a) ==
    /\ UNCHANGED answer
    /\ FreeFor(o, a)
    /\ \E lapsed \in SUBSET {p \in CallOrders : call[p].lapsed} :
         call' = [p \in CallOrders |->
                    IF p = o THEN HeldBy(a) ELSE IF p \in lapsed THEN InLine ELSE call[p]]

ReleaseCall(o, a) ==
    /\ call[o].by = a
    /\ call' = [call EXCEPT ![o] = InLine]
    /\ UNCHANGED answer

\* The holder records the answer of an order that waits for one.
RecordAnswer(o, a, outcome) ==
    /\ ~answer[o].cancelled /\ answer[o].state \in {"pending", "unreachable"}
    /\ answer' = [answer EXCEPT ![o].state = outcome]
    /\ call[o].by = a
    /\ call' = [call EXCEPT ![o] = IF outcome = "unreachable" THEN InLine ELSE NoCall]

\* A wrong answer is corrected once the call has ended.
CorrectAnswer(o, outcome) ==
    /\ ~answer[o].cancelled /\ answer[o].state \in {"confirmed", "rejected"} \ {outcome}
    /\ answer' = [answer EXCEPT ![o].state = outcome]
    /\ ~call[o].open
    /\ UNCHANGED call

\* The order page confirms, unless somebody else is calling.
ConfirmOrder(o, a) ==
    /\ ~answer[o].cancelled /\ answer[o].state \in {"pending", "unreachable"}
    /\ answer' = [answer EXCEPT ![o].state = "confirmed"]
    /\ FreeFor(o, a)
    /\ call' = [call EXCEPT ![o] = NoCall]

\* The order page records that the customer was not reached, or takes the order
\* back to the queue.  It may find the order confirmed: the call is opened again.
FollowUp(o, a) ==
    /\ ~answer[o].cancelled /\ answer[o].state # "rejected"
    /\ answer' = [answer EXCEPT ![o].state = "unreachable"]
    /\ NobodyElse(o, a)
    /\ call' = [call EXCEPT ![o] = InLine]

Requeue(o, a) ==
    /\ ~answer[o].cancelled /\ answer[o].state # "rejected"
    /\ answer' = [answer EXCEPT ![o].state = "pending"]
    /\ NobodyElse(o, a)
    /\ call' = [call EXCEPT ![o] = IF call[o].open THEN call[o] ELSE InLine]

\* A cancellation ends the call, whoever holds it.
CancelOrder(o) ==
    /\ ~answer[o].cancelled
    /\ answer' = [answer EXCEPT ![o] = [state |-> "rejected", cancelled |-> TRUE]]
    /\ call' = [call EXCEPT ![o] = NoCall]

ReopenOrder(o) ==
    /\ answer[o].cancelled \/ answer[o].state = "rejected"
    /\ answer' = [answer EXCEPT ![o] = [state |-> "pending", cancelled |-> FALSE]]
    /\ ~call[o].open
    /\ call' = [call EXCEPT ![o] = InLine]

CallLapses(o) ==
    /\ call[o].by # NoAgent /\ ~call[o].lapsed
    /\ call' = [call EXCEPT ![o] = OverdueOf(call[o].by)]
    /\ UNCHANGED answer

DeskNext ==
    \E o \in CallOrders :
      \/ CancelOrder(o) \/ ReopenOrder(o) \/ CallLapses(o)
      \/ \E outcome \in {"confirmed", "rejected"} : CorrectAnswer(o, outcome)
      \/ \E a \in Agents :
           \/ ClaimCall(o, a) \/ ReleaseCall(o, a) \/ ConfirmOrder(o, a)
           \/ FollowUp(o, a) \/ Requeue(o, a)
           \/ \E outcome \in {"confirmed", "rejected", "unreachable"} : RecordAnswer(o, a, outcome)

DeskSpec == DeskInit /\ [][DeskNext]_deskVars
=============================================================================
