------------------------------ MODULE MCPayments ------------------------------
(* For TLC: an order paid online, and two paid in cash to a courier.  They    *)
(* share no rows; each behaviour takes the steps of one, as in MCServices.    *)
EXTENDS MCOnlinePayment, Settlements

VARIABLE service

MCInit ==
    /\ service \in {"online", "cash"}
    /\ PaymentInit /\ SettlementInit
    /\ service = "online" => \A o \in CodOrders : cod[o].paid = 0

MCNext ==
    /\ UNCHANGED service
    /\ \/ service = "online" /\ PaymentNext /\ UNCHANGED settlementVars
       \/ service = "cash" /\ SettlementNext /\ UNCHANGED paymentVars

MCSpec == MCInit /\ [][MCNext]_<<service, paymentVars, settlementVars>>

\* Two callers; two orders: interchangeable.
MCSymmetry == Permutations({k1, k2})
=============================================================================
