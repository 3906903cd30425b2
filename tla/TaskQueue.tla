----------------------------- MODULE TaskQueue -----------------------------
(***************************************************************************)
(* What the job queue promises the modules that put work in it             *)
(* (src/src/core/queue/README.md): a job once added stays queued until an  *)
(* execution of it that returned normally completes it or it is given up   *)
(* as failed; an execution starts only while the job is queued; executions *)
(* may be cut off and several may overlap (at-least-once delivery); a      *)
(* failed job goes back in line only by hand; only finished rows are       *)
(* forgotten.  JobQueue implements it; Outbox is built on it.              *)
(***************************************************************************)
EXTENDS Naturals

CONSTANTS
    Jobs            \* rows of queue_jobs

VARIABLES
    state,          \* where each job stands
    execs,          \* executions of handlers in progress
    starts,         \* executions started of each job, numbering them
    revived         \* times each job was put back in line by hand

taskVars == <<state, execs, starts, revived>>

Phases == {"running", "ok", "error", "permanent"}
Exec   == [job : Jobs, id : Nat, phase : Phases]

Queued(j) == state[j] = "queued"

TaskInit ==
    /\ state   = [j \in Jobs |-> "absent"]
    /\ execs   = {}
    /\ starts  = [j \in Jobs |-> 0]
    /\ revived = [j \in Jobs |-> 0]

AddTask(j) ==
    /\ state[j] = "absent"
    /\ state' = [state EXCEPT ![j] = "queued"]
    /\ UNCHANGED <<execs, starts, revived>>

\* A worker claims the queued jobs of S and runs their handlers.
Start(S) ==
    /\ \A j \in S : Queued(j)
    /\ execs' = execs \cup {[job |-> j, id |-> starts[j] + 1, phase |-> "running"] : j \in S}
    /\ starts' = [j \in Jobs |-> IF j \in S THEN starts[j] + 1 ELSE starts[j]]
    /\ UNCHANGED <<state, revived>>

Return(x, phase) ==
    /\ x.phase = "running" /\ phase # "running"
    /\ execs' = (execs \ {x}) \cup {[x EXCEPT !.phase = phase]}
    /\ UNCHANGED <<state, starts, revived>>

Complete(x) ==
    /\ x.phase = "ok" /\ Queued(x.job)
    /\ state' = [state EXCEPT ![x.job] = "done"]
    /\ execs' = execs \ {x}
    /\ UNCHANGED <<starts, revived>>

\* Executions end and their jobs stay where they are: a failure to be retried,
\* an outcome that was not recorded, a worker that stopped.
Drop(X) ==
    /\ execs' = execs \ X
    /\ UNCHANGED <<state, starts, revived>>

\* Queued jobs are given up: the last failure of one execution, or a sweep.
GiveUp(S, X) ==
    /\ \A j \in S : Queued(j)
    /\ state' = [j \in Jobs |-> IF j \in S THEN "failed" ELSE state[j]]
    /\ execs' = execs \ X
    /\ UNCHANGED <<starts, revived>>

Revive(j) ==
    /\ state[j] = "failed"
    /\ state' = [state EXCEPT ![j] = "queued"]
    /\ revived' = [revived EXCEPT ![j] = @ + 1]
    /\ UNCHANGED <<execs, starts>>

Forget(j) ==
    /\ state[j] \in {"done", "failed"}
    /\ state' = [state EXCEPT ![j] = "forgotten"]
    /\ UNCHANGED <<execs, starts, revived>>

TaskNext ==
    \/ \E j \in Jobs : AddTask(j) \/ Revive(j) \/ Forget(j)
    \/ \E S \in SUBSET Jobs : Start(S)
    \/ \E x \in execs : Complete(x) \/ \E p \in Phases : Return(x, p)
    \/ \E X \in SUBSET execs : Drop(X) \/ \E S \in SUBSET Jobs : GiveUp(S, X)

TaskSpec == TaskInit /\ [][TaskNext]_taskVars
=============================================================================
