------------------------------ MODULE Schedules ------------------------------
(***************************************************************************)
(* One repeatable schedule of the queue: postgresDriver's scheduleTick and *)
(* runSchedule over its queue_schedules row, which every worker shares.    *)
(* Of next_run_at only whether it has passed is kept.                      *)
(***************************************************************************)
EXTENDS Naturals, FiniteSets

CONSTANTS Workers   \* processes that run the queue

ASSUME WorkersAssumption == IsFiniteSet(Workers)

VARIABLES
    turn,       \* of the row: "none", "ahead" or "passed" (next_run_at <= NOW())
    worker,     \* "undeployed", "up", "stopping" or "down"
    inTurn,     \* workers whose handler is in this turn
    outlasted,  \* workers whose handler is still in an earlier one
    marked      \* runningSchedules of each process

scheduleVars == <<turn, worker, inTurn, outlasted, marked>>

ScheduleInit ==
    /\ turn = "none"
    /\ worker = [w \in Workers |-> "undeployed"]
    /\ inTurn = {} /\ outlasted = {} /\ marked = {}

Running == inTurn \cup outlasted

\* The next turn comes, whether or not the last one has ended: another process
\* may claim it beside the one that still runs the last.
TurnComes ==
    /\ turn = "ahead" /\ turn' = "passed"
    /\ outlasted' = Running /\ inTurn' = {}
    /\ UNCHANGED <<worker, marked>>

\* Mistaken form: a start puts the next run one interval from now.
AfterStart_Anew == "ahead"

\* LEAST of the row's time, if there is one, and one interval from now.
AfterStart == IF turn = "none" THEN "ahead" ELSE turn

StartWorker(w) ==
    /\ worker[w] \in {"undeployed", "down"}
    /\ worker' = [worker EXCEPT ![w] = "up"]
    /\ turn' = AfterStart
    /\ UNCHANGED <<inTurn, outlasted, marked>>

\* scheduleTick, and the claim: one statement moves next_run_at.  A schedule
\* that this process still runs is passed over.
Tick(w) ==
    /\ worker[w] = "up" /\ w \notin marked
    /\ turn = "passed" /\ turn' = "ahead"
    /\ inTurn' = inTurn \cup {w}
    /\ marked' = marked \cup {w}
    /\ UNCHANGED <<worker, outlasted>>

\* It ended or threw; its outcome is written.
TurnEnds(w) ==
    /\ w \in Running
    /\ inTurn' = inTurn \ {w} /\ outlasted' = outlasted \ {w}
    /\ marked' = marked \ {w}
    /\ UNCHANGED <<turn, worker>>

\* stop: a handler may still end before the process does.
StopWorker(w) ==
    /\ worker[w] = "up"
    /\ worker' = [worker EXCEPT ![w] = "stopping"]
    /\ UNCHANGED <<turn, inTurn, outlasted, marked>>

\* The process ends, waited for or not, and its handler with it.
ExitWorker(w) ==
    /\ worker[w] \in {"up", "stopping"}
    /\ worker' = [worker EXCEPT ![w] = "down"]
    /\ inTurn' = inTurn \ {w} /\ outlasted' = outlasted \ {w}
    /\ marked' = marked \ {w}
    /\ UNCHANGED turn

ScheduleNext ==
    \/ TurnComes
    \/ \E w \in Workers :
         StartWorker(w) \/ Tick(w) \/ TurnEnds(w) \/ StopWorker(w) \/ ExitWorker(w)

ScheduleSpec == ScheduleInit /\ [][ScheduleNext]_scheduleVars

\* Time passes, the platform starts a process again that ended, handlers return,
\* and now and then a process lives until its next tick.
ScheduleFairness ==
    /\ WF_scheduleVars(TurnComes)
    /\ SF_scheduleVars(\E w \in Workers : Tick(w))
    /\ \A w \in Workers :
         /\ WF_scheduleVars(worker[w] = "down" /\ StartWorker(w))
         /\ WF_scheduleVars(worker[w] = "stopping" /\ ExitWorker(w))
         /\ WF_scheduleVars(TurnEnds(w))

-----------------------------------------------------------------------------

\* Once a worker was deployed the schedule runs for ever: a worker that is
\* started again and again does not put its turn off, and a turn cut off is
\* followed by the next.
TurnsAreRun == \A w \in Workers : [](worker[w] # "undeployed" => <>(inTurn # {}))
=============================================================================
