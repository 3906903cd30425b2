------------------------------- MODULE MCOrders -------------------------------
(* For TLC: a store's orders at two sizes, what a shopper spends on one, and  *)
(* the store's subscription.  They share no rows; each behaviour takes the     *)
(* steps of one, as in MCServices.                                             *)
EXTENDS OrderLifecycle, Tender, MCSubscriptions, TLC

CONSTANTS o1, o2

MCCheckout == <<"loyalty", "store_credit">>

VARIABLE part

MCInit ==
    /\ part \in {"one order", "two orders", "tenders", "subscription"}
    /\ Init /\ TenderInit /\ SubscriptionInit
    /\ subscription.terms.plan = 1

\* One order of both variants that may be shipped; or two that compete for the
\* variant that is not oversold, and are not.
OneOrder  == Cardinality({o \in Orders : order[o].placed}) <= 1
TwoOrders ==
    /\ \A o \in Orders : shipments[o] = <<>> /\ \A v \in Oversell : lines[o][v] = 0
    /\ \A v \in Oversell : onHand[v] = MaxOnHand

\* Tenders and charges come to an end.
Ends == part \in {"tenders", "subscription"} /\ UNCHANGED <<vars, tenderVars, subscriptionVars>>

MCNext ==
    /\ UNCHANGED part
    /\ \/ part = "tenders" /\ TenderNext /\ UNCHANGED <<vars, subscriptionVars>>
       \/ part = "subscription" /\ SubscriptionNext /\ UNCHANGED <<vars, tenderVars>>
       \/ Ends
       \/ /\ part \in {"one order", "two orders"} /\ Next
          /\ UNCHANGED <<tenderVars, subscriptionVars>>
          /\ part = "one order" => OneOrder'
          /\ part = "two orders" => TwoOrders'

MCSpec == MCInit /\ [][MCNext]_<<part, vars, tenderVars, subscriptionVars>>

\* Two orders; in the third part, two jobs.
MCSymmetry == Permutations({o1, o2})
=============================================================================
