----------------------------- MODULE MCJobQueue -----------------------------
(* Instances of JobQueue for TLC. *)
EXTENDS JobQueue, TLC

CONSTANTS j1, j2, w1, w2, k1

\* Dedupe keys and tries of the rows a behaviour may insert.
MCNoKeys      == [j \in Jobs |-> NoKey]
MCOneKey      == [j \in Jobs |-> k1]
MCOneTry      == [j \in Jobs |-> 1]
\* Two tries for a row of a once handler, one for any other.
MCOnceTwice   == [j \in Jobs |-> IF j \in Once THEN 2 ELSE 1]

WorkerSymmetry == Permutations(Workers)
=============================================================================
