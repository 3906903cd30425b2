--------------------------- MODULE MCSubscriptions ---------------------------
(* Subscriptions for TLC: a cheaper plan by the year, a dearer by the month.  *)
EXTENDS Subscriptions

MCOffered == {[plan |-> 1, cycle |-> "yearly"], [plan |-> 2, cycle |-> "monthly"]}
=============================================================================
