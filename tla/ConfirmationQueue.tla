-------------------------- MODULE ConfirmationQueue --------------------------
(***************************************************************************)
(* The call queue of cash-on-delivery orders, confirmationService, with    *)
(* the row locks its transactions take one after the other.  The queue     *)
(* locks the task and then its order; the order page (confirm, follow up,  *)
(* requeue, cancel, reopen) locks the order and then its open task; a      *)
(* claim locks every task whose agent lock has lapsed and then its own; an *)
(* assignment locks its batch in the order of ids.  A cycle of waiting     *)
(* transactions is broken by the database, which rolls one of them back.   *)
(***************************************************************************)
EXTENDS Integers, FiniteSets

CONSTANTS
    CallOrders,     \* bound: cash-on-delivery orders
    Tasks,          \* bound: confirmation_tasks rows, by id
    Agents,
    Requests,       \* bound: transactions open at one time
    NoAgent, NoOrder, NoTask

ASSUME CallAssumption ==
    /\ IsFiniteSet(CallOrders) /\ Tasks \in SUBSET Nat /\ IsFiniteSet(Tasks)
    /\ IsFiniteSet(Agents) /\ IsFiniteSet(Requests)
    /\ Cardinality(CallOrders) <= Cardinality(Tasks)
    /\ NoAgent \notin Agents /\ NoOrder \notin CallOrders /\ NoTask \notin Tasks
    /\ CallOrders \cap Tasks = {}

VARIABLES
    task,           \* the tasks
    confirmation,   \* confirmation_state of each order, and cancelled_at
    request,        \* the open transactions and the rows each has locked
    lastClaim       \* the agent whose claim of each task was the last

callVars == <<task, confirmation, request, lastClaim>>

NoneYet   == [status |-> "none", order |-> NoOrder, lockedBy |-> NoAgent, stale |-> FALSE]
NoRequest == [kind |-> "none", agent |-> NoAgent, order |-> NoOrder, task |-> NoTask,
              outcome |-> "none", batch |-> {}, held |-> {}, swept |-> FALSE]

OpenStatus == {"queued", "in_progress"}
OpenCalls(o) == {t \in Tasks : task[t].order = o /\ task[t].status \in OpenStatus}
Waiting(o)   == ~confirmation[o].cancelled /\ confirmation[o].state \in {"pending", "unreachable"}

\* Mistaken form: the rows are read without FOR UPDATE.
LockedByOthers_None(r) == {}

LockedByOthers(r) == UNION {request[q].held : q \in Requests \ {r}}

\* createOrder gives every order a task.
CallInit ==
    LET first == CHOOSE f \in [CallOrders -> Tasks] : \A o, p \in CallOrders : f[o] = f[p] => o = p IN
    /\ task = [t \in Tasks |-> IF \E o \in CallOrders : first[o] = t
                 THEN [NoneYet EXCEPT !.status = "queued", !.order = CHOOSE o \in CallOrders : first[o] = t]
                 ELSE NoneYet]
    /\ confirmation = [o \in CallOrders |-> [state |-> "pending", cancelled |-> FALSE]]
    /\ request = [r \in Requests |-> NoRequest]
    /\ lastClaim = [t \in Tasks |-> NoAgent]

-----------------------------------------------------------------------------
(* A request begins.                                                       *)

Begins(r, kind, agent, q) ==
    /\ request[r].kind = "none"
    /\ request' = [request EXCEPT ![r] = [q EXCEPT !.kind = kind, !.agent = agent]]
    /\ UNCHANGED <<task, confirmation, lastClaim>>

OnTask(t)  == [NoRequest EXCEPT !.task = t, !.order = task[t].order]
OnOrder(o) == [NoRequest EXCEPT !.order = o]

\* Requests of the order page that open a task where there is none.
OpensTask == {"reopen", "follow_up", "requeue"}

\* The bound on tasks leaves one for every such request under way.
SpareTask ==
    Cardinality({t \in Tasks : task[t].status = "none"}) >
      Cardinality({q \in Requests : request[q].kind \in OpensTask})

\* The stage changeStage reads before its transaction, and where it may lead.
FromStage(o, state) == ~confirmation[o].cancelled /\ confirmation[o].state = state

BeginRequest(r, a) ==
    \/ \E t \in Tasks : task[t].status # "none" /\
         \/ \E kind \in {"claim", "release"} : Begins(r, kind, a, OnTask(t))
         \/ \E outcome \in {"confirmed", "rejected", "unreachable"} :
              Begins(r, "record", a, [OnTask(t) EXCEPT !.outcome = outcome])
         \/ \E outcome \in {"confirmed", "rejected"} :
              Begins(r, "correct", a, [OnTask(t) EXCEPT !.outcome = outcome])
    \/ \E o \in CallOrders :
         \/ Begins(r, "confirm", a, OnOrder(o))
         \/ Begins(r, "cancel", NoAgent, OnOrder(o))
         \/ SpareTask /\
              \/ Begins(r, "reopen", NoAgent, OnOrder(o))
              \/ FromStage(o, "pending") /\ Begins(r, "follow_up", a, OnOrder(o))
              \/ FromStage(o, "unreachable") /\ Begins(r, "requeue", a, OnOrder(o))
    \/ \E batch \in SUBSET {t \in Tasks : task[t].status # "none"} :
         batch # {} /\ Begins(r, "assign", NoAgent, [NoRequest EXCEPT !.batch = batch])

-----------------------------------------------------------------------------
(* Locks.                                                                  *)

LeftOfBatch(r) == request[r].batch \ request[r].held

\* Mistaken form: a batch is locked in the order it was sent.
NextOfBatch_AsSent(r) ==
    {t \in LeftOfBatch(r) : \A u \in LeftOfBatch(r) :
        IF r = CHOOSE q \in Requests : TRUE THEN t <= u ELSE t >= u}

NextOfBatch(r) == {t \in LeftOfBatch(r) : \A u \in LeftOfBatch(r) : t <= u}

\* The row the transaction's next statement locks: a set of one, or none left.
Wants(r) ==
    LET q == request[r] IN
    CASE q.kind \in {"record", "correct"} ->
           IF q.task \notin q.held THEN {q.task} ELSE {q.order} \ q.held
      [] q.kind \in {"confirm", "cancel", "reopen", "follow_up", "requeue"} ->
           IF q.order \notin q.held THEN {q.order} ELSE OpenCalls(q.order) \ q.held
      [] q.kind = "assign" -> NextOfBatch(r)
      [] q.kind = "claim" -> IF q.swept THEN {q.task} \ q.held ELSE {}
      [] q.kind = "release" -> {q.task} \ q.held
      [] OTHER -> {}

\* assertOrderOpen
StillOpen(o) == ~confirmation[o].cancelled /\ confirmation[o].state # "rejected"

\* Mistaken form: whoever claimed the task since, the outcome is taken.
Admits_AnyAgent(r, row) ==
    LET q == request[r] IN
    CASE q.kind = "record" /\ row \in Tasks -> task[row].status = "in_progress"
      [] q.kind = "record" /\ row \notin Tasks -> StillOpen(row)
      [] q.kind = "correct" /\ row \in Tasks -> task[row].status = "done"
      [] q.kind = "correct" /\ row \notin Tasks ->
           ~confirmation[row].cancelled /\ confirmation[row].state \in {"confirmed", "rejected"} \ {q.outcome}
      [] OTHER -> TRUE

\* What is checked once the row is locked; if it fails the request ends.
Admits(r, row) ==
    LET q == request[r] IN
    CASE q.kind = "record" /\ row \in Tasks ->
           task[row].status # "done" /\ task[row].lockedBy = q.agent
      [] q.kind = "record" /\ row \notin Tasks -> StillOpen(row)
      [] q.kind = "correct" /\ row \in Tasks -> task[row].status = "done"
      [] q.kind = "correct" /\ row \notin Tasks ->
           ~confirmation[row].cancelled /\ confirmation[row].state \in {"confirmed", "rejected"} \ {q.outcome}
      [] q.kind \in {"confirm", "follow_up", "requeue"} /\ row \in Tasks ->
           task[row].lockedBy \in {NoAgent, q.agent} \/ task[row].stale
      [] q.kind = "confirm" /\ row \notin Tasks -> Waiting(row)
      [] q.kind \in {"follow_up", "requeue"} /\ row \notin Tasks -> StillOpen(row)
      [] q.kind = "cancel" /\ row \in CallOrders -> ~confirmation[row].cancelled
      [] q.kind = "reopen" /\ row \in CallOrders -> confirmation[row].cancelled \/ confirmation[row].state = "rejected"
      [] q.kind = "claim" ->
           /\ task[row].status \in OpenStatus
           /\ task[row].lockedBy \in {NoAgent, q.agent} \/ task[row].stale
      [] q.kind = "release" -> task[row].status = "in_progress" /\ task[row].lockedBy = q.agent
      [] OTHER -> TRUE

EndRequest(r) == request' = [request EXCEPT ![r] = NoRequest]

TakeLock(r) ==
    \E row \in Wants(r) :
      /\ row \notin LockedByOthers(r)
      /\ IF Admits(r, row) THEN request' = [request EXCEPT ![r].held = @ \cup {row}]
                           ELSE EndRequest(r)
      /\ UNCHANGED <<task, confirmation, lastClaim>>

\* releaseExpiredLocks inside a claim: SKIP LOCKED.
SweepLapsed(r) ==
    /\ request[r].kind = "claim" /\ ~request[r].swept
    /\ request' = [request EXCEPT ![r].swept = TRUE,
         ![r].held = {t \in Tasks \ LockedByOthers(r) : task[t].status = "in_progress" /\ task[t].stale}]
    /\ UNCHANGED <<task, confirmation, lastClaim>>

WaitsFor(r) == {q \in Requests \ {r} : Wants(r) \cap request[q].held # {}}

\* Each of these waits for another of them.
Circle(rs) == rs # {} /\ \A r \in rs : WaitsFor(r) \cap rs # {}

\* Mistaken form: no transaction is ever rolled back for another's sake.
Victim_None(r) == FALSE

Victim(r) == \E rs \in SUBSET Requests : r \in rs /\ Circle(rs)

BreakDeadlock(r) == Victim(r) /\ EndRequest(r) /\ UNCHANGED <<task, confirmation, lastClaim>>

-----------------------------------------------------------------------------
(* What each transaction commits, holding its rows.                        *)

\* Mistaken form: a task put back keeps its holder.
FreeTask_HolderKept(row) == [row EXCEPT !.status = "queued", !.stale = FALSE]

FreeTask(row) == [row EXCEPT !.status = "queued", !.lockedBy = NoAgent, !.stale = FALSE]
DoneTask(row) == [row EXCEPT !.status = "done", !.lockedBy = NoAgent, !.stale = FALSE]
After(row, outcome) == IF outcome = "unreachable" THEN FreeTask(row) ELSE DoneTask(row)

\* The row an insert takes: the first that was never one.
NewTask(t) == task[t].status = "none" /\ \A u \in Tasks : task[u].status = "none" => t <= u

MayCommit(r, kind) == request[r].kind = kind /\ Wants(r) = {} /\ (kind = "claim" => request[r].swept)

CommitClaim(r) ==
    LET q == request[r] IN
    /\ MayCommit(r, "claim")
    /\ task' = [t \in Tasks |->
         IF t = q.task THEN [task[t] EXCEPT !.status = "in_progress", !.lockedBy = q.agent, !.stale = FALSE]
         ELSE IF t \in q.held THEN FreeTask(task[t]) ELSE task[t]]
    /\ lastClaim' = [lastClaim EXCEPT ![q.task] = q.agent]
    /\ EndRequest(r) /\ UNCHANGED confirmation

CommitRelease(r) ==
    /\ MayCommit(r, "release")
    /\ task' = [task EXCEPT ![request[r].task] = FreeTask(@)]
    /\ EndRequest(r) /\ UNCHANGED <<confirmation, lastClaim>>

\* applyOutcome, and correctOutcome, which leaves the task done.
CommitOutcome(r) ==
    LET q == request[r] IN
    /\ MayCommit(r, "record") \/ MayCommit(r, "correct")
    /\ task' = [task EXCEPT ![q.task] = After(@, q.outcome)]
    /\ confirmation' = [confirmation EXCEPT ![q.order].state = q.outcome]
    /\ EndRequest(r) /\ UNCHANGED lastClaim

CommitConfirm(r) ==
    LET o == request[r].order IN
    /\ MayCommit(r, "confirm")
    /\ task' = [t \in Tasks |-> IF t \in OpenCalls(o) THEN DoneTask(task[t]) ELSE task[t]]
    /\ confirmation' = [confirmation EXCEPT ![o].state = "confirmed"]
    /\ EndRequest(r) /\ UNCHANGED lastClaim

\* Mistaken form: only a task nobody works is closed.
ClosedByCancel_Queued(o) == {t \in OpenCalls(o) : task[t].status = "queued"}

\* closeTasksForCancelledOrder.
ClosedByCancel(o) == OpenCalls(o)

CommitCancel(r) ==
    LET o == request[r].order IN
    /\ MayCommit(r, "cancel")
    /\ task' = [t \in Tasks |-> IF t \in ClosedByCancel(o) THEN DoneTask(task[t]) ELSE task[t]]
    /\ confirmation' = [confirmation EXCEPT ![o] = [state |-> "rejected", cancelled |-> TRUE]]
    /\ EndRequest(r) /\ UNCHANGED lastClaim

\* openTaskForOrder: the open task, or a fresh one.
OpenTask(o) ==
    IF OpenCalls(o) = {}
    THEN \E t \in Tasks :
           NewTask(t) /\ task' = [task EXCEPT ![t] = [NoneYet EXCEPT !.status = "queued", !.order = o]]
    ELSE UNCHANGED task

CommitReopen(r) ==
    LET o == request[r].order IN
    /\ MayCommit(r, "reopen")
    /\ confirmation' = [confirmation EXCEPT ![o] = [state |-> "pending", cancelled |-> FALSE]]
    /\ OpenTask(o)
    /\ EndRequest(r) /\ UNCHANGED lastClaim

\* An order confirmed since its stage was read is called again.
CommitFollowUp(r) ==
    LET o == request[r].order IN
    /\ MayCommit(r, "follow_up")
    /\ IF OpenCalls(o) = {} THEN OpenTask(o)
       ELSE task' = [t \in Tasks |-> IF t \in OpenCalls(o) THEN FreeTask(task[t]) ELSE task[t]]
    /\ confirmation' = [confirmation EXCEPT ![o].state = "unreachable"]
    /\ EndRequest(r) /\ UNCHANGED lastClaim

\* backToQueue: the task stays with whoever holds it.
CommitRequeue(r) ==
    LET o == request[r].order IN
    /\ MayCommit(r, "requeue")
    /\ OpenTask(o)
    /\ confirmation' = [confirmation EXCEPT ![o].state = "pending"]
    /\ EndRequest(r) /\ UNCHANGED lastClaim

\* The assignee only narrows who may claim, and is left out.
CommitAssign(r) == MayCommit(r, "assign") /\ EndRequest(r) /\ UNCHANGED <<task, confirmation, lastClaim>>

\* The request's connection is lost: it is rolled back.
RequestLost(r) ==
    /\ request[r].kind # "none"
    /\ EndRequest(r) /\ UNCHANGED <<task, confirmation, lastClaim>>

\* LOCK_MINUTES pass.
LockLapses(t) ==
    /\ task[t].status = "in_progress" /\ ~task[t].stale
    /\ \A r \in Requests : t \notin request[r].held
    /\ task' = [task EXCEPT ![t].stale = TRUE]
    /\ UNCHANGED <<confirmation, request, lastClaim>>

GoesOn(r) ==
    \/ TakeLock(r) \/ SweepLapsed(r) \/ BreakDeadlock(r)
    \/ CommitClaim(r) \/ CommitRelease(r) \/ CommitOutcome(r) \/ CommitConfirm(r)
    \/ CommitCancel(r) \/ CommitReopen(r) \/ CommitAssign(r)
    \/ CommitFollowUp(r) \/ CommitRequeue(r)

CallNext ==
    \/ \E r \in Requests : GoesOn(r) \/ RequestLost(r) \/ \E a \in Agents : BeginRequest(r, a)
    \/ \E t \in Tasks : LockLapses(t)

CallSpec == CallInit /\ [][CallNext]_callVars

\* The database runs every statement that can run, and grants a row to those
\* who wait for it in turn.
CallFairness == \A r \in Requests : SF_callVars(GoesOn(r))

-----------------------------------------------------------------------------

CallTypes ==
    /\ \A t \in Tasks :
         /\ task[t].status \in {"none", "done"} \cup OpenStatus
         /\ task[t].lockedBy \in Agents \cup {NoAgent}
         /\ task[t].status = "in_progress" <=> task[t].lockedBy # NoAgent
    /\ confirmation \in [CallOrders -> [state : {"pending", "unreachable", "confirmed", "rejected"}, cancelled : BOOLEAN]]
    /\ \A r, q \in Requests : r # q => request[r].held \cap request[q].held = {}

\* An order that waits to be confirmed has exactly one open task, so it is
\* called and by one agent; a confirmed, rejected or cancelled one has none,
\* so nobody calls for it.
OneOpenTask ==
    \A o \in CallOrders : Cardinality(OpenCalls(o)) = IF Waiting(o) THEN 1 ELSE 0

\* An agent whose lock lapsed and whose task was claimed by another does not
\* write over the other's call (TASK_NOT_LOCKED_BY_YOU).
HolderRecords ==
    \A r \in Requests :
      request[r].kind = "record" /\ request[r].task \in request[r].held
      => lastClaim[request[r].task] = request[r].agent

\* The call of an order, as its agents see it: its one open task.
CallRow(row) == [open |-> TRUE, by |-> row.lockedBy, lapsed |-> row.stale]
CallOf(o) ==
    LET open == OpenCalls(o)
    IN  IF open = {} THEN [open |-> FALSE, by |-> NoAgent, lapsed |-> FALSE]
        ELSE CallRow(task[CHOOSE t \in open : TRUE])

DeskCalls == [o \in CallOrders |-> CallOf(o)]

Desk == INSTANCE CallDesk WITH answer <- confirmation, call <- DeskCalls

\* However the row locks of claims, sweeps, releases, outcomes and the order
\* page's transactions interleave, each takes effect as if it were one instant.
ImplementsCallDesk == Desk!DeskSpec

\* confirmationService.js:672: "rows locked in id order, so two managers
\* assigning overlapping batches cannot deadlock".
AssigningNeverDeadlocks ==
    \A rs \in SUBSET Requests : Circle(rs) => \E r \in rs : request[r].kind # "assign"

\* Every request is answered: whatever cycle of row locks it meets.
EveryRequestEnds == \A r \in Requests : request[r].kind # "none" ~> request[r].kind = "none"
=============================================================================
