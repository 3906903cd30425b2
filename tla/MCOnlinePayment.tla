--------------------------- MODULE MCOnlinePayment ---------------------------
(* OnlinePayment for TLC: numbered attempts, interchangeable callers.       *)
EXTENDS OnlinePayment, TLC

CONSTANTS k1, k2

MCFairSpec == PaymentSpec /\ PaymentFairness

Symmetry == Permutations(Callers)
=============================================================================
