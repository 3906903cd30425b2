------------------------------- MODULE Returns -------------------------------
(***************************************************************************)
(* Returns of one line of a delivered order, modules/returns: a shopper    *)
(* asks (what is left is counted, and counted again under the order's      *)
(* lock), the merchant opens one, approves or rejects, and puts the units  *)
(* back on the shelf.  An approved exchange places its replacement order   *)
(* in the same transaction.                                                *)
(***************************************************************************)
EXTENDS Integers, FiniteSets, FiniteSetsExt

CONSTANTS
    ReturnRows,     \* bound: return_requests rows, by createdAt
    Shoppers,       \* bound: requests of the shopper at one time
    LineUnits,      \* units of the line
    SwapUnits       \* units on hand of the variant to swap to, not oversellable

ASSUME ReturnsAssumption ==
    /\ ReturnRows \in SUBSET Nat /\ IsFiniteSet(ReturnRows) /\ IsFiniteSet(Shoppers)
    /\ LineUnits \in Nat /\ SwapUnits \in Nat

VARIABLES
    returned,   \* the rows
    asks,       \* a shopper's request between its two counts
    backOnShelf,\* units put back in stock
    swapHeld    \* units the replacement orders hold

returnVars == <<returned, asks, backOnShelf, swapHeld>>

NoReturn == [status |-> "none", units |-> 0, source |-> "none", swap |-> FALSE, restocked |-> FALSE]
NoAsk    == [units |-> 0, swap |-> FALSE]

ReturnInit ==
    /\ returned = [r \in ReturnRows |-> NoReturn]
    /\ asks = [s \in Shoppers |-> NoAsk]
    /\ backOnShelf = 0 /\ swapHeld = 0

UnitsOf(rows) == MapThenSumSet(LAMBDA r : returned[r].units, rows)
Standing      == {r \in ReturnRows : returned[r].status \notin {"none", "rejected"}}

\* Whoever opened them.
Asked == UnitsOf(Standing)

Returnable == Max({0, LineUnits - Asked})

\* requestReturn: eligibility, before its transaction.
AskReturn(s, units, swap) ==
    /\ asks[s] = NoAsk /\ units <= Returnable
    /\ swap => swapHeld < SwapUnits
    /\ asks' = [asks EXCEPT ![s] = [units |-> units, swap |-> swap]]
    /\ UNCHANGED <<returned, backOnShelf, swapHeld>>

Opened(r, units, source, swap) ==
    /\ returned[r].status = "none" /\ \A q \in ReturnRows : q < r => returned[q].status # "none"
    /\ returned' = [returned EXCEPT ![r] = [status |-> "requested", units |-> units,
                       source |-> source, swap |-> swap, restocked |-> FALSE]]

\* Mistaken form: the pieces are counted once, before the lock.
StillLeft_AsRead(s) == TRUE

StillLeft(s) == asks[s].units <= Returnable

RequestReturn(s, r) ==
    /\ asks[s] # NoAsk /\ StillLeft(s)
    /\ Opened(r, asks[s].units, "shopper", asks[s].swap)
    /\ asks' = [asks EXCEPT ![s] = NoAsk]
    /\ UNCHANGED <<backOnShelf, swapHeld>>

\* Refused under the lock, or the request is lost.
RequestRefused(s) ==
    /\ asks[s] # NoAsk
    /\ asks' = [asks EXCEPT ![s] = NoAsk]
    /\ UNCHANGED <<returned, backOnShelf, swapHeld>>

\* createReturn: each of the merchant's by itself, at most the line's units.
CreateReturn(r, units, swap) ==
    /\ units <= LineUnits
    /\ Opened(r, units, "merchant", swap)
    /\ UNCHANGED <<asks, backOnShelf, swapHeld>>

AwaitsDecision(r) == returned[r].status = "requested"

\* moderateReturn; without stock for the replacement nothing is approved.
Approve(r) ==
    /\ AwaitsDecision(r)
    /\ returned[r].swap => swapHeld + returned[r].units <= SwapUnits
    /\ swapHeld' = swapHeld + (IF returned[r].swap THEN returned[r].units ELSE 0)
    /\ returned' = [returned EXCEPT ![r].status = "approved"]
    /\ UNCHANGED <<asks, backOnShelf>>

RejectReturn(r) ==
    /\ AwaitsDecision(r)
    /\ returned' = [returned EXCEPT ![r].status = "rejected"]
    /\ UNCHANGED <<asks, backOnShelf, swapHeld>>

MayRestock(r) == returned[r].status \in {"approved", "received"} /\ ~returned[r].restocked

RestockReturn(r) ==
    /\ MayRestock(r)
    /\ backOnShelf' = backOnShelf + returned[r].units
    /\ returned' = [returned EXCEPT ![r].status = "received", ![r].restocked = TRUE]
    /\ UNCHANGED <<asks, swapHeld>>

ReturnNext ==
    \/ \E units \in 1..LineUnits, swap \in BOOLEAN :
         \/ \E s \in Shoppers : AskReturn(s, units, swap)
         \/ \E r \in ReturnRows : CreateReturn(r, units, swap)
    \/ \E s \in Shoppers : RequestRefused(s) \/ \E r \in ReturnRows : RequestReturn(s, r)
    \/ \E r \in ReturnRows : Approve(r) \/ RejectReturn(r) \/ RestockReturn(r)

ReturnSpec == ReturnInit /\ [][ReturnNext]_returnVars

-----------------------------------------------------------------------------

RowsFrom(source) == {r \in Standing : returned[r].source = source}

\* shopperReturns.js:169: two requests at once "queue here", so "the same pieces
\* can't be asked back twice": of all that a shopper asked for, what was not
\* rejected stays within the line, however the requests and decisions interleave.
ShopperAsksOnce == UnitsOf(RowsFrom("shopper")) <= LineUnits

\* The shelf gains the units of each received return once, a replacement holds
\* the units of each approved exchange once and only what there was, and a
\* shopper's returns stay within what was bought.
ReturnsAddUp ==
    /\ backOnShelf = UnitsOf({r \in ReturnRows : returned[r].status = "received"})
    /\ swapHeld = UnitsOf({r \in ReturnRows : returned[r].swap /\ returned[r].status \in {"approved", "received"}})
    /\ swapHeld <= SwapUnits
    /\ ShopperAsksOnce
=============================================================================
