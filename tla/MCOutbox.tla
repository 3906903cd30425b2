------------------------------ MODULE MCOutbox ------------------------------
(* Instances of Outbox for TLC: rows of the queue are records of what they *)
(* are about, numbered where a key may be added again after a prune.       *)
EXTENDS Outbox

CONSTANTS e1, e2, c1, c2, Copies

MCJobs == [event : Events, handler : {Dispatch}, copy : {1}]
          \cup [event : Events, handler : Consumers, copy : 1..Copies]

MCSubject == [j \in MCJobs |-> <<j.event, j.handler>>]
=============================================================================
