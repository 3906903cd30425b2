----------------------- MODULE ConfirmationQueueProofs -----------------------
(***************************************************************************)
(* The outcome of a call is recorded by the agent who holds its task, an   *)
(* order that waits has one open task, and assignments alone never wait in *)
(* a circle: for any number of orders, tasks, agents and transactions open *)
(* at one time.                                                            *)
(***************************************************************************)
EXTENDS ConfirmationQueue, Sums

CallKinds == {"none", "claim", "release", "record", "correct", "confirm", "cancel", "reopen",
              "follow_up", "requeue", "assign"}

TaskRows == [status : {"none", "done", "queued", "in_progress"}, order : CallOrders \cup {NoOrder},
             lockedBy : Agents \cup {NoAgent}, stale : BOOLEAN]

Lockable == Tasks \cup CallOrders \cup {NoTask, NoOrder}

RequestRows == [kind : CallKinds, agent : Agents \cup {NoAgent}, order : CallOrders \cup {NoOrder},
                task : Tasks \cup {NoTask}, outcome : {"none", "confirmed", "rejected", "unreachable"},
                batch : SUBSET Tasks, held : SUBSET Lockable, swept : BOOLEAN]

RowTypes == task \in [Tasks -> TaskRows] /\ request \in [Requests -> RequestRows]

\* A row is locked by one transaction at a time.
RowLocks == \A r, q \in Requests : r # q => request[r].held \cap request[q].held = {}

\* A task's agent is the last who claimed it, and an unused row has none.
ClaimsKnown ==
    \A t \in Tasks :
      /\ task[t].lockedBy # NoAgent => lastClaim[t] = task[t].lockedBy
      /\ task[t].status \in {"none", "queued", "done"} => task[t].lockedBy = NoAgent

\* Whoever records an outcome and has its task's row locked is its agent.
RecordsHold ==
    \A r \in Requests :
      request[r].kind = "record" =>
        /\ request[r].task \in Tasks /\ request[r].agent \in Agents
        /\ request[r].task \in request[r].held => task[request[r].task].lockedBy = request[r].agent

CallInv ==
    /\ RowTypes /\ RowLocks /\ ClaimsKnown /\ RecordsHold
    /\ lastClaim \in [Tasks -> Agents \cup {NoAgent}]

-----------------------------------------------------------------------------

\* Holds initially.
LEMMA CallInitInv == CallInit => CallInv
<1> SUFFICES ASSUME CallInit PROVE CallInv
  OBVIOUS
<1> DEFINE first == CHOOSE f \in [CallOrders -> Tasks] : \A o, p \in CallOrders : f[o] = f[p] => o = p
<1>1. task = [t \in Tasks |-> IF \E o \in CallOrders : first[o] = t
                THEN [NoneYet EXCEPT !.status = "queued", !.order = CHOOSE o \in CallOrders : first[o] = t]
                ELSE NoneYet]
  BY DEF CallInit
<1> HIDE DEF first
<1>2. ASSUME NEW t \in Tasks PROVE task[t] \in TaskRows /\ task[t].lockedBy = NoAgent
  <2>1. NoneYet \in TaskRows /\ NoneYet.lockedBy = NoAgent
    BY DEF NoneYet, TaskRows
  <2>2. ASSUME NEW o \in CallOrders, task[t] = [NoneYet EXCEPT !.status = "queued", !.order = o]
        PROVE  task[t] \in TaskRows /\ task[t].lockedBy = NoAgent
    BY <2>2 DEF NoneYet, TaskRows
  <2>3. QED
    BY <1>1, <2>1, <2>2
<1>3. request = [r \in Requests |-> NoRequest] /\ lastClaim = [t \in Tasks |-> NoAgent]
  BY DEF CallInit
<1>4. NoRequest \in RequestRows /\ NoRequest.kind = "none" /\ NoRequest.held = {}
  BY DEF NoRequest, RequestRows, CallKinds, Lockable
<1>5. RowTypes
  BY <1>1, <1>2, <1>3, <1>4 DEF RowTypes
<1>6. QED
  BY <1>2, <1>3, <1>4, <1>5 DEF CallInv, RowLocks, ClaimsKnown, RecordsHold

\* A transaction that ends unlocks its rows.
LEMMA Ends ==
  ASSUME CallInv, NEW r \in Requests, EndRequest(r)
  PROVE  /\ request' \in [Requests -> RequestRows]
         /\ request'[r].kind = "none" /\ request'[r].held = {}
         /\ \A q \in Requests \ {r} : request'[q] = request[q]
<1>1. NoRequest \in RequestRows /\ NoRequest.kind = "none" /\ NoRequest.held = {}
  BY DEF NoRequest, RequestRows, CallKinds, Lockable
<1>2. QED
  BY <1>1 DEF EndRequest, CallInv, RowTypes

\* Nothing is committed by one that is refused, lost or rolled back.
LEMMA EndsWithoutTrace ==
  ASSUME CallInv, NEW r \in Requests, EndRequest(r), UNCHANGED <<task, lastClaim>>
  PROVE  CallInv'
<1>1. RowTypes'
  BY Ends DEF CallInv, RowTypes
<1>2. RowLocks'
  BY Ends DEF CallInv, RowLocks
<1>3. ClaimsKnown'
  BY DEF CallInv, ClaimsKnown
<1>4. RecordsHold'
  BY Ends DEF CallInv, RecordsHold
<1>5. QED
  BY <1>1, <1>2, <1>3, <1>4 DEF CallInv

\* What a transaction commits on the rows it has locked disturbs no other.
LEMMA CommitKeeps ==
  ASSUME CallInv, NEW r \in Requests, EndRequest(r),
         task' \in [Tasks -> TaskRows], lastClaim' \in [Tasks -> Agents \cup {NoAgent}],
         \A t \in Tasks : t \notin request[r].held =>
           task'[t].lockedBy = task[t].lockedBy \/ task[t].lockedBy = NoAgent,
         ClaimsKnown'
  PROVE  CallInv'
<1>1. RowTypes'
  BY Ends DEF CallInv, RowTypes
<1>2. RowLocks'
  BY Ends DEF CallInv, RowLocks
<1>3. RecordsHold'
  <2> SUFFICES ASSUME NEW q \in Requests, request'[q].kind = "record"
               PROVE  /\ request'[q].task \in Tasks /\ request'[q].agent \in Agents
                      /\ request'[q].task \in request'[q].held =>
                           task'[request'[q].task].lockedBy = request'[q].agent
    BY DEF RecordsHold
  <2>1. q # r /\ request'[q] = request[q]
    BY Ends
  <2>2. /\ request[q].task \in Tasks /\ request[q].agent \in Agents
        /\ request[q].task \in request[q].held =>
             /\ task[request[q].task].lockedBy = request[q].agent
             /\ request[q].task \notin request[r].held
    BY <2>1 DEF CallInv, RecordsHold, RowLocks
  <2>3. QED
    BY <2>1, <2>2, CallAssumption
<1>4. QED
  BY <1>1, <1>2, <1>3 DEF CallInv

\* A task's row with a new status and holder.
LEMMA RowsOfTasks ==
  ASSUME CallInv, NEW t \in Tasks
  PROVE  /\ FreeTask(task[t]) \in TaskRows /\ FreeTask(task[t]).lockedBy = NoAgent
         /\ FreeTask(task[t]).status = "queued"
         /\ DoneTask(task[t]) \in TaskRows /\ DoneTask(task[t]).lockedBy = NoAgent
         /\ DoneTask(task[t]).status = "done"
  BY DEF CallInv, RowTypes, FreeTask, DoneTask, TaskRows

-----------------------------------------------------------------------------

\* A request begins without a row locked; a record names a task and its agent.
LEMMA CallBegins ==
  ASSUME CallInv, NEW r \in Requests, NEW q \in RequestRows, q.held = {},
         request' = [request EXCEPT ![r] = q], UNCHANGED <<task, lastClaim>>,
         q.kind = "record" => q.task \in Tasks /\ q.agent \in Agents
  PROVE  CallInv'
<1>1. /\ request' \in [Requests -> RequestRows] /\ request'[r] = q
      /\ \A p \in Requests \ {r} : request'[p] = request[p]
  BY DEF CallInv, RowTypes
<1>2. RowTypes' /\ ClaimsKnown'
  BY <1>1 DEF CallInv, RowTypes, ClaimsKnown
<1>3. RowLocks'
  BY <1>1 DEF CallInv, RowLocks
<1>4. RecordsHold'
  BY <1>1 DEF CallInv, RecordsHold
<1>5. QED
  BY <1>2, <1>3, <1>4 DEF CallInv

\* Every kind of request begins so.
LEMMA RequestsBegin ==
  ASSUME CallInv, NEW r \in Requests, NEW a \in Agents, BeginRequest(r, a)
  PROVE  CallInv'
<1>1. ASSUME NEW kind \in CallKinds, NEW g \in Agents \cup {NoAgent}, NEW q \in RequestRows,
             q.held = {}, Begins(r, kind, g, q),
             kind = "record" => q.task \in Tasks /\ g \in Agents
      PROVE  CallInv'
  <2> DEFINE c == [q EXCEPT !.kind = kind, !.agent = g]
  <2>1. c \in RequestRows /\ c.held = {} /\ c.kind = kind /\ c.agent = g /\ c.task = q.task
    BY <1>1 DEF RequestRows
  <2>2. request' = [request EXCEPT ![r] = c] /\ UNCHANGED <<task, lastClaim>>
    BY <1>1 DEF Begins
  <2> HIDE DEF c
  <2>3. QED
    BY <1>1, <2>1, <2>2, CallBegins
<1>2. NoRequest \in RequestRows /\ NoRequest.held = {}
  BY DEF NoRequest, RequestRows, CallKinds, Lockable
<1>3. ASSUME NEW t \in Tasks
      PROVE  OnTask(t) \in RequestRows /\ OnTask(t).held = {} /\ OnTask(t).task = t
  <2>1. task[t].order \in CallOrders \cup {NoOrder}
    BY DEF CallInv, RowTypes, TaskRows
  <2>2. QED
    BY <2>1 DEF OnTask, NoRequest, RequestRows, CallKinds, Lockable
<1>4. ASSUME NEW t \in Tasks, NEW outcome \in {"confirmed", "rejected", "unreachable"}
      PROVE  /\ [OnTask(t) EXCEPT !.outcome = outcome] \in RequestRows
             /\ [OnTask(t) EXCEPT !.outcome = outcome].held = {}
             /\ [OnTask(t) EXCEPT !.outcome = outcome].task = t
  BY <1>3 DEF RequestRows
<1>5. ASSUME NEW o \in CallOrders
      PROVE  OnOrder(o) \in RequestRows /\ OnOrder(o).held = {}
  BY DEF OnOrder, NoRequest, RequestRows, CallKinds, Lockable
<1>6. ASSUME NEW batch \in SUBSET Tasks
      PROVE  /\ [NoRequest EXCEPT !.batch = batch] \in RequestRows
             /\ [NoRequest EXCEPT !.batch = batch].held = {}
  BY DEF NoRequest, RequestRows, CallKinds, Lockable
<1>7. ASSUME NEW t \in Tasks, NEW kind \in {"claim", "release"}, Begins(r, kind, a, OnTask(t))
      PROVE  CallInv'
  BY <1>1, <1>3, <1>7 DEF CallKinds
<1>8. ASSUME NEW t \in Tasks, NEW outcome \in {"confirmed", "rejected", "unreachable"},
             NEW kind \in {"record", "correct"},
             Begins(r, kind, a, [OnTask(t) EXCEPT !.outcome = outcome])
      PROVE  CallInv'
  <2> DEFINE q == [OnTask(t) EXCEPT !.outcome = outcome]
  <2>1. q \in RequestRows /\ q.held = {} /\ q.task = t /\ Begins(r, kind, a, q)
    BY <1>4, <1>8
  <2> HIDE DEF q
  <2>2. kind \in CallKinds
    BY DEF CallKinds
  <2>3. QED
    BY <1>1, <2>1, <2>2
<1>9. ASSUME NEW o \in CallOrders, NEW kind \in {"confirm", "cancel", "reopen", "follow_up", "requeue"},
             NEW g \in Agents \cup {NoAgent}, Begins(r, kind, g, OnOrder(o))
      PROVE  CallInv'
  BY <1>1, <1>5, <1>9 DEF CallKinds
<1>10. ASSUME NEW batch \in SUBSET Tasks,
              Begins(r, "assign", NoAgent, [NoRequest EXCEPT !.batch = batch])
       PROVE  CallInv'
  BY <1>1, <1>6, <1>10 DEF CallKinds
<1>11. CASE \E t \in Tasks : task[t].status # "none" /\
              \/ \E kind \in {"claim", "release"} : Begins(r, kind, a, OnTask(t))
              \/ \E outcome \in {"confirmed", "rejected", "unreachable"} :
                   Begins(r, "record", a, [OnTask(t) EXCEPT !.outcome = outcome])
              \/ \E outcome \in {"confirmed", "rejected"} :
                   Begins(r, "correct", a, [OnTask(t) EXCEPT !.outcome = outcome])
  <2>1. PICK t \in Tasks :
              \/ \E kind \in {"claim", "release"} : Begins(r, kind, a, OnTask(t))
              \/ \E outcome \in {"confirmed", "rejected", "unreachable"} :
                   Begins(r, "record", a, [OnTask(t) EXCEPT !.outcome = outcome])
              \/ \E outcome \in {"confirmed", "rejected"} :
                   Begins(r, "correct", a, [OnTask(t) EXCEPT !.outcome = outcome])
    BY <1>11
  <2>2. QED
    BY <2>1, <1>7, <1>8
<1>12. ASSUME NEW o \in CallOrders, NEW kind \in {"confirm", "cancel", "reopen", "follow_up", "requeue"},
              Begins(r, kind, a, OnOrder(o)) \/ Begins(r, kind, NoAgent, OnOrder(o))
       PROVE  CallInv'
  BY <1>9, <1>12
<1>13. CASE \E batch \in SUBSET {t \in Tasks : task[t].status # "none"} :
              batch # {} /\ Begins(r, "assign", NoAgent, [NoRequest EXCEPT !.batch = batch])
  BY <1>10, <1>13
<1>14. QED
  BY <1>11, <1>12, <1>13 DEF BeginRequest

\* A row is locked when nobody else holds it; for a record, only by its agent.
LEMMA LocksKeep ==
  ASSUME CallInv, NEW r \in Requests, TakeLock(r)
  PROVE  CallInv'
<1>1. PICK row \in Wants(r) :
        /\ row \notin LockedByOthers(r)
        /\ IF Admits(r, row) THEN request' = [request EXCEPT ![r].held = @ \cup {row}]
                             ELSE EndRequest(r)
        /\ UNCHANGED <<task, confirmation, lastClaim>>
  BY DEF TakeLock
<1>2. CASE ~Admits(r, row)
  BY <1>1, <1>2, EndsWithoutTrace
<1>3. CASE Admits(r, row)
  <2>1. /\ request[r] \in RequestRows /\ request[r].kind \in CallKinds
        /\ request[r].order \in CallOrders \cup {NoOrder} /\ request[r].task \in Tasks \cup {NoTask}
        /\ request[r].batch \subseteq Tasks
    BY DEF CallInv, RowTypes, RequestRows
  <2>2. row \in Lockable
    BY <2>1 DEF Wants, NextOfBatch, LeftOfBatch, OpenCalls, Lockable, CallKinds
  <2> DEFINE c == [request[r] EXCEPT !.held = request[r].held \cup {row}]
  <2>3. /\ c \in RequestRows /\ c.held = request[r].held \cup {row}
        /\ c.kind = request[r].kind /\ c.task = request[r].task /\ c.agent = request[r].agent
    BY <2>1, <2>2 DEF RequestRows
  <2>4. request' = [request EXCEPT ![r] = c]
    BY <1>1, <1>3
  <2> HIDE DEF c
  <2>5. /\ request' \in [Requests -> RequestRows] /\ request'[r] = c
        /\ \A p \in Requests \ {r} : request'[p] = request[p]
    BY <2>3, <2>4 DEF CallInv, RowTypes
  <2>6. RowTypes' /\ ClaimsKnown'
    BY <1>1, <2>5 DEF CallInv, RowTypes, ClaimsKnown
  <2>7. \A q \in Requests \ {r} : row \notin request[q].held
    BY <1>1 DEF LockedByOthers
  <2>8. RowLocks'
    BY <2>3, <2>5, <2>7 DEF CallInv, RowLocks
  <2>9. ASSUME request[r].kind = "record", request[r].task \in c.held
        PROVE  task[request[r].task].lockedBy = request[r].agent
    <3>1. CASE request[r].task \in request[r].held
      BY <2>9, <3>1 DEF CallInv, RecordsHold
    <3>2. CASE request[r].task \notin request[r].held
      <4>1. row = request[r].task /\ row \in Tasks
        BY <2>3, <2>9, <3>2 DEF CallInv, RecordsHold
      <4>2. QED
        BY <1>3, <2>9, <4>1 DEF Admits
    <3>3. QED
      BY <3>1, <3>2
  <2>10. RecordsHold'
    BY <1>1, <2>3, <2>5, <2>9 DEF CallInv, RecordsHold
  <2>11. QED
    BY <1>1, <2>6, <2>8, <2>10 DEF CallInv
<1>4. QED
  BY <1>2, <1>3

\* A claim locks the lapsed tasks nobody else has locked.
LEMMA SweepFrees ==
  ASSUME CallInv, NEW r \in Requests, SweepLapsed(r)
  PROVE  CallInv'
<1> DEFINE lapsed == {t \in Tasks \ LockedByOthers(r) : task[t].status = "in_progress" /\ task[t].stale}
           c == [request[r] EXCEPT !.swept = TRUE, !.held = lapsed]
<1>1. request[r] \in RequestRows /\ request[r].kind = "claim"
  BY DEF SweepLapsed, CallInv, RowTypes
<1>2. lapsed \subseteq Tasks /\ \A q \in Requests \ {r} : lapsed \cap request[q].held = {}
  BY DEF LockedByOthers
<1>3. request' = [request EXCEPT ![r] = c] /\ UNCHANGED <<task, lastClaim>>
  BY DEF SweepLapsed
<1> HIDE DEF lapsed
<1>4. c \in RequestRows /\ c.held = lapsed /\ c.kind = "claim"
  BY <1>1, <1>2 DEF RequestRows, Lockable
<1> HIDE DEF c
<1>5. /\ request' \in [Requests -> RequestRows] /\ request'[r] = c
      /\ \A p \in Requests \ {r} : request'[p] = request[p]
  BY <1>3, <1>4 DEF CallInv, RowTypes
<1>6. RowTypes' /\ ClaimsKnown'
  BY <1>3, <1>5 DEF CallInv, RowTypes, ClaimsKnown
<1>7. RowLocks'
  BY <1>2, <1>4, <1>5 DEF CallInv, RowLocks
<1>8. RecordsHold'
  BY <1>3, <1>4, <1>5 DEF CallInv, RecordsHold
<1>9. QED
  BY <1>3, <1>6, <1>7, <1>8 DEF CallInv

-----------------------------------------------------------------------------

\* A claimed task's row.
LEMMA ClaimedRow ==
  ASSUME CallInv, NEW t \in Tasks, NEW a \in Agents \cup {NoAgent}
  PROVE  LET row == [task[t] EXCEPT !.status = "in_progress", !.lockedBy = a, !.stale = FALSE]
         IN  row \in TaskRows /\ row.lockedBy = a /\ row.status = "in_progress"
  BY DEF CallInv, RowTypes, TaskRows

\* The claim puts the lapsed tasks back and takes its own.
LEMMA ClaimTakes ==
  ASSUME CallInv, NEW r \in Requests, CommitClaim(r)
  PROVE  CallInv'
<1> DEFINE q == request[r]
           mine == [task[q.task] EXCEPT !.status = "in_progress", !.lockedBy = q.agent, !.stale = FALSE]
<1>1. /\ q.kind = "claim" /\ q.swept /\ Wants(r) = {}
      /\ q.agent \in Agents \cup {NoAgent} /\ q.task \in Tasks \cup {NoTask}
  BY DEF CommitClaim, MayCommit, CallInv, RowTypes, RequestRows
<1>2. q.task \in q.held
  BY <1>1 DEF Wants
<1>3. q.task \in Tasks => mine \in TaskRows /\ mine.lockedBy = q.agent /\ mine.status = "in_progress"
  BY <1>1, ClaimedRow
<1>4. /\ task' = [t \in Tasks |-> IF t = q.task THEN mine
                                ELSE IF t \in q.held THEN FreeTask(task[t]) ELSE task[t]]
      /\ lastClaim' = [lastClaim EXCEPT ![q.task] = q.agent] /\ EndRequest(r)
  BY DEF CommitClaim
<1> HIDE DEF q, mine
<1>5. task' \in [Tasks -> TaskRows]
  BY <1>3, <1>4, RowsOfTasks DEF CallInv, RowTypes
<1>6. lastClaim' \in [Tasks -> Agents \cup {NoAgent}]
  <2>1. lastClaim \in [Tasks -> Agents \cup {NoAgent}]
    BY DEF CallInv
  <2>2. QED
    BY <1>1, <1>4, <2>1
<1>7. ClaimsKnown'
  BY <1>3, <1>4, RowsOfTasks DEF CallInv, ClaimsKnown
<1>8. \A t \in Tasks : t \notin q.held => task'[t].lockedBy = task[t].lockedBy
  BY <1>2, <1>4
<1>9. QED
  BY <1>4, <1>5, <1>6, <1>7, <1>8, CommitKeeps DEF q

\* Every other commit frees or closes tasks, and leaves the rest as they are.
LEMMA TasksLeft ==
  ASSUME CallInv, NEW r \in Requests, EndRequest(r), UNCHANGED lastClaim, DOMAIN task' = Tasks,
         task' = [t \in Tasks |-> task'[t]],
         \A t \in Tasks :
           \/ task'[t] = task[t]
           \/ t \in request[r].held /\ task'[t] \in {FreeTask(task[t]), DoneTask(task[t])}
  PROVE  CallInv'
<1>1. task' \in [Tasks -> TaskRows]
  BY RowsOfTasks DEF CallInv, RowTypes
<1>2. ClaimsKnown'
  BY RowsOfTasks DEF CallInv, ClaimsKnown
<1>3. \A t \in Tasks : t \notin request[r].held => task'[t].lockedBy = task[t].lockedBy
  OBVIOUS
<1>4. QED
  BY <1>1, <1>2, <1>3, CommitKeeps DEF CallInv

\* A release, an outcome, a confirmation and a cancellation change the rows
\* their transaction has locked.
LEMMA FreesWhatItLocked ==
  ASSUME CallInv, NEW r \in Requests,
         \/ CommitRelease(r) \/ CommitOutcome(r) \/ CommitConfirm(r) \/ CommitCancel(r)
  PROVE  CallInv'
<1>1. CASE CommitRelease(r)
  <2>1. request[r].task \in request[r].held
    BY <1>1 DEF CommitRelease, MayCommit, Wants
  <2>2. task' = [task EXCEPT ![request[r].task] = FreeTask(@)] /\ EndRequest(r) /\ UNCHANGED lastClaim
    BY <1>1 DEF CommitRelease
  <2>3. task \in [Tasks -> TaskRows]
    BY DEF CallInv, RowTypes
  <2>4. DOMAIN task' = Tasks /\ task' = [t \in Tasks |-> task'[t]]
    BY <2>2, <2>3
  <2>5. \A t \in Tasks : task'[t] = IF t = request[r].task THEN FreeTask(task[t]) ELSE task[t]
    BY <2>2, <2>3
  <2>6. QED
    BY <2>1, <2>2, <2>4, <2>5, TasksLeft
<1>2. CASE CommitOutcome(r)
  <2>1. request[r].task \in request[r].held
    BY <1>2 DEF CommitOutcome, MayCommit, Wants
  <2>2. /\ task' = [task EXCEPT ![request[r].task] = After(@, request[r].outcome)]
        /\ EndRequest(r) /\ UNCHANGED lastClaim
    BY <1>2 DEF CommitOutcome
  <2>3. task \in [Tasks -> TaskRows]
    BY DEF CallInv, RowTypes
  <2>4. DOMAIN task' = Tasks /\ task' = [t \in Tasks |-> task'[t]]
    BY <2>2, <2>3
  <2>5. \A t \in Tasks : task'[t] =
          IF t = request[r].task THEN After(task[t], request[r].outcome) ELSE task[t]
    BY <2>2, <2>3
  <2>6. QED
    BY <2>1, <2>2, <2>4, <2>5, TasksLeft DEF After
<1>3. CASE CommitConfirm(r)
  <2>1. OpenCalls(request[r].order) \subseteq request[r].held
    BY <1>3 DEF CommitConfirm, MayCommit, Wants
  <2>2. /\ task' = [t \in Tasks |-> IF t \in OpenCalls(request[r].order)
                                  THEN DoneTask(task[t]) ELSE task[t]]
        /\ EndRequest(r) /\ UNCHANGED lastClaim
    BY <1>3 DEF CommitConfirm
  <2>3. QED
    BY <2>1, <2>2, TasksLeft
<1>4. CASE CommitCancel(r)
  <2>1. OpenCalls(request[r].order) \subseteq request[r].held
    BY <1>4 DEF CommitCancel, MayCommit, Wants
  <2>2. /\ task' = [t \in Tasks |-> IF t \in OpenCalls(request[r].order)
                                  THEN DoneTask(task[t]) ELSE task[t]]
        /\ EndRequest(r) /\ UNCHANGED lastClaim
    BY <1>4 DEF CommitCancel, ClosedByCancel
  <2>3. QED
    BY <2>1, <2>2, TasksLeft
<1>5. QED
  BY <1>1, <1>2, <1>3, <1>4

\* A new task is a row nobody has locked as his own.
LEMMA NewTaskKeeps ==
  ASSUME CallInv, NEW r \in Requests, EndRequest(r), UNCHANGED lastClaim,
         NEW o \in CallOrders \cup {NoOrder}, OpenTask(o)
  PROVE  CallInv'
<1> DEFINE fresh == [NoneYet EXCEPT !.status = "queued", !.order = o]
<1>1. fresh \in TaskRows /\ fresh.lockedBy = NoAgent /\ fresh.status = "queued"
  BY DEF NoneYet, TaskRows
<1>2. task \in [Tasks -> TaskRows]
  BY DEF CallInv, RowTypes
<1>3. task' = task \/ \E t \in Tasks : NewTask(t) /\ task' = [task EXCEPT ![t] = fresh]
  BY DEF OpenTask
<1> HIDE DEF fresh
<1>4. CASE task' = task
  BY <1>4, EndsWithoutTrace
<1>5. ASSUME NEW t \in Tasks, NewTask(t), task' = [task EXCEPT ![t] = fresh]
      PROVE  CallInv'
  <2>1. task[t].lockedBy = NoAgent
    BY <1>5 DEF NewTask, CallInv, ClaimsKnown
  <2>2. /\ task' \in [Tasks -> TaskRows] /\ task'[t] = fresh
        /\ \A u \in Tasks \ {t} : task'[u] = task[u]
    BY <1>1, <1>2, <1>5
  <2>3. ClaimsKnown'
    BY <1>1, <2>2 DEF CallInv, ClaimsKnown
  <2>4. \A u \in Tasks : task'[u].lockedBy = task[u].lockedBy \/ task[u].lockedBy = NoAgent
    BY <2>1, <2>2
  <2>5. lastClaim' \in [Tasks -> Agents \cup {NoAgent}]
    BY DEF CallInv
  <2>6. QED
    BY <2>2, <2>3, <2>4, <2>5, CommitKeeps
<1>6. QED
  BY <1>3, <1>4, <1>5

\* An order that is reopened, followed up or taken back to the queue gets a task
\* when it has none; a follow-up frees the one it has.
LEMMA ReopenKeeps ==
  ASSUME CallInv, NEW r \in Requests, CommitReopen(r) \/ CommitRequeue(r) \/ CommitFollowUp(r)
  PROVE  CallInv'
<1>1. EndRequest(r) /\ UNCHANGED lastClaim /\ request[r].order \in CallOrders \cup {NoOrder}
  BY DEF CommitReopen, CommitRequeue, CommitFollowUp, CallInv, RowTypes, RequestRows
<1>2. CASE OpenTask(request[r].order)
  BY <1>1, <1>2, NewTaskKeeps
<1>3. CASE CommitFollowUp(r) /\ OpenCalls(request[r].order) # {}
  <2>1. OpenCalls(request[r].order) \subseteq request[r].held
    BY <1>3 DEF CommitFollowUp, MayCommit, Wants
  <2>2. task' = [t \in Tasks |-> IF t \in OpenCalls(request[r].order) THEN FreeTask(task[t]) ELSE task[t]]
    BY <1>3 DEF CommitFollowUp
  <2>3. QED
    BY <1>1, <2>1, <2>2, TasksLeft
<1>4. QED
  BY <1>2, <1>3 DEF CommitReopen, CommitRequeue, CommitFollowUp

\* A lock that lapses changes no holder.
LEMMA LapseKeeps ==
  ASSUME CallInv, NEW t \in Tasks, LockLapses(t)
  PROVE  CallInv'
<1>1. task' = [task EXCEPT ![t].stale = TRUE] /\ UNCHANGED <<request, lastClaim>>
  BY DEF LockLapses
<1>2. task \in [Tasks -> TaskRows]
  BY DEF CallInv, RowTypes
<1>3. /\ task' \in [Tasks -> TaskRows]
      /\ \A u \in Tasks : task'[u].lockedBy = task[u].lockedBy /\ task'[u].status = task[u].status
  BY <1>1, <1>2 DEF TaskRows
<1>4. RowTypes' /\ RowLocks'
  BY <1>1, <1>3 DEF CallInv, RowTypes, RowLocks
<1>5. ClaimsKnown' /\ RecordsHold'
  BY <1>1, <1>3 DEF CallInv, ClaimsKnown, RecordsHold
<1>6. QED
  BY <1>1, <1>4, <1>5 DEF CallInv

-----------------------------------------------------------------------------

\* Every step keeps the invariant.
LEMMA CallStep == CallInv /\ [CallNext]_callVars => CallInv'
<1> SUFFICES ASSUME CallInv, [CallNext]_callVars PROVE CallInv'
  OBVIOUS
<1>1. ASSUME NEW r \in Requests, GoesOn(r) PROVE CallInv'
  <2>1. CASE TakeLock(r)
    BY <2>1, LocksKeep
  <2>2. CASE SweepLapsed(r)
    BY <2>2, SweepFrees
  <2>3. CASE BreakDeadlock(r)
    BY <2>3, EndsWithoutTrace DEF BreakDeadlock
  <2>4. CASE CommitClaim(r)
    BY <2>4, ClaimTakes
  <2>5. CASE CommitRelease(r) \/ CommitOutcome(r) \/ CommitConfirm(r) \/ CommitCancel(r)
    BY <2>5, FreesWhatItLocked
  <2>6. CASE CommitReopen(r) \/ CommitRequeue(r) \/ CommitFollowUp(r)
    BY <2>6, ReopenKeeps
  <2>7. CASE CommitAssign(r)
    BY <2>7, EndsWithoutTrace DEF CommitAssign
  <2>8. QED
    BY <1>1, <2>1, <2>2, <2>3, <2>4, <2>5, <2>6, <2>7 DEF GoesOn
<1>2. ASSUME NEW r \in Requests, RequestLost(r) PROVE CallInv'
  BY <1>2, EndsWithoutTrace DEF RequestLost
<1>3. ASSUME NEW r \in Requests, NEW a \in Agents, BeginRequest(r, a) PROVE CallInv'
  BY <1>3, RequestsBegin
<1>4. ASSUME NEW t \in Tasks, LockLapses(t) PROVE CallInv'
  BY <1>4, LapseKeeps
<1>5. CASE UNCHANGED callVars
  BY <1>5 DEF callVars, CallInv, RowTypes, RowLocks, ClaimsKnown, RecordsHold
<1>6. QED
  BY <1>1, <1>2, <1>3, <1>4, <1>5 DEF CallNext

\* However claims, lapses, releases, assignments and the order page's
\* transactions interleave, an outcome is recorded only by the agent whose
\* claim of the task was the last.
THEOREM OutcomeByItsHolder == CallSpec => []HolderRecords
<1>1. CallInv => HolderRecords
  <2> SUFFICES ASSUME CallInv, NEW r \in Requests, request[r].kind = "record",
                      request[r].task \in request[r].held
               PROVE  lastClaim[request[r].task] = request[r].agent
    BY DEF HolderRecords
  <2>1. /\ request[r].task \in Tasks /\ request[r].agent \in Agents
        /\ task[request[r].task].lockedBy = request[r].agent
    BY DEF CallInv, RecordsHold
  <2>2. QED
    BY <2>1, CallAssumption DEF CallInv, ClaimsKnown
<1>2. QED
  BY <1>1, CallInitInv, CallStep, PTL DEF CallSpec

-----------------------------------------------------------------------------
(* Each order that waits has one open task.                                *)

\* A task that is one has its order, and keeps it; an order's confirmation.
TasksOfOrders ==
    /\ confirmation \in [CallOrders -> [state : {"pending", "unreachable", "confirmed", "rejected"}, cancelled : BOOLEAN]]
    /\ \A t \in Tasks : task[t].status # "none" => task[t].order \in CallOrders

\* What a transaction found when it locked a row is still so: its task is its
\* order's, a claim's and a release's rows are open, what is corrected was decided.
\* An assignment has locked the lowest ids of its batch, and an order that is
\* followed up or taken back to the queue is open.
Found(r) ==
    LET q == request[r] IN
    /\ q.kind \in {"claim", "release", "record", "correct"} =>
         q.task \in Tasks /\ task[q.task].status # "none" /\ task[q.task].order = q.order
    /\ q.kind = "claim" => \A t \in q.held : t \in Tasks /\ task[t].status \in OpenStatus
    /\ q.kind = "release" /\ q.task \in q.held => task[q.task].status \in OpenStatus
    /\ q.kind \in {"record", "correct"} => q.outcome # "none"
    /\ q.kind = "correct" =>
         /\ q.outcome # "unreachable"
         /\ q.task \in q.held => task[q.task].status = "done"
         /\ q.order \in q.held => confirmation[q.order].state \in {"confirmed", "rejected"}
    /\ q.kind \in {"confirm", "cancel", "reopen", "follow_up", "requeue"} => q.order \in CallOrders
    /\ q.kind \in {"follow_up", "requeue"} /\ q.order \in q.held => StillOpen(q.order)
    /\ q.kind = "assign" => q.held \subseteq q.batch /\ \A t \in q.held, u \in q.batch \ q.held : t < u

\* An order that waits has its task, and another has none open.
TaskOf(o) == IF Waiting(o) THEN \E t \in Tasks : OpenCalls(o) = {t} ELSE OpenCalls(o) = {}

QueueInv ==
    /\ TasksOfOrders
    /\ \A r \in Requests : Found(r)
    /\ \A o \in CallOrders : TaskOf(o)

\* There is a row for each order's first task.
LEMMA FirstTasks == \E f \in [CallOrders -> Tasks] : \A o, p \in CallOrders : f[o] = f[p] => o = p
<1> DEFINE n == Cardinality(CallOrders)
           m == Cardinality(Tasks)
<1>1. n \in Nat /\ m \in Nat /\ n <= m
  BY CallAssumption, FS_CardinalityType
<1>2. PICK g \in Bijection(1..n, CallOrders) : TRUE
  BY CallAssumption, FS_CardinalityType DEF ExistsBijection
<1>3. PICK h \in Bijection(1..m, Tasks) : TRUE
  BY CallAssumption, FS_CardinalityType DEF ExistsBijection
<1>4. /\ g \in [1..n -> CallOrders] /\ \A o \in CallOrders : \E i \in 1..n : g[i] = o
  BY <1>2 DEF Bijection, Surjection
<1>5. h \in [1..m -> Tasks] /\ \A i, j \in 1..m : h[i] = h[j] => i = j
  BY <1>3 DEF Bijection, Injection, IsInjective
<1> HIDE DEF n, m
<1> DEFINE at == [o \in CallOrders |-> CHOOSE i \in 1..n : g[i] = o]
<1>6. \A o \in CallOrders : at[o] \in 1..m /\ g[at[o]] = o
  BY <1>1, <1>4
<1> HIDE DEF at
<1>7. [o \in CallOrders |-> h[at[o]]] \in [CallOrders -> Tasks]
  BY <1>5, <1>6
<1>8. \A o, p \in CallOrders : h[at[o]] = h[at[p]] => o = p
  BY <1>5, <1>6
<1>9. QED
  BY <1>7, <1>8

\* Holds initially.
LEMMA QueueInitInv == CallInit => QueueInv
<1> SUFFICES ASSUME CallInit PROVE QueueInv
  OBVIOUS
<1>1. PICK first \in [CallOrders -> Tasks] :
        /\ \A o, p \in CallOrders : first[o] = first[p] => o = p
        /\ task = [t \in Tasks |-> IF \E o \in CallOrders : first[o] = t
             THEN [NoneYet EXCEPT !.status = "queued", !.order = CHOOSE o \in CallOrders : first[o] = t]
             ELSE NoneYet]
  BY FirstTasks DEF CallInit
<1>2. ASSUME NEW o \in CallOrders
      PROVE  task[first[o]] = [NoneYet EXCEPT !.status = "queued", !.order = o]
  BY <1>1
<1>3. ASSUME NEW t \in Tasks, \A o \in CallOrders : first[o] # t PROVE task[t] = NoneYet
  BY <1>1, <1>3
<1>4. ASSUME NEW t \in Tasks
      PROVE  \/ /\ task[t].status = "none" /\ task[t].lockedBy = NoAgent
             \/ \E o \in CallOrders : /\ first[o] = t /\ task[t].status = "queued"
                                       /\ task[t].order = o /\ task[t].lockedBy = NoAgent
  <2>1. CASE \A o \in CallOrders : first[o] # t
    BY <1>3, <2>1 DEF NoneYet
  <2>2. ASSUME NEW o \in CallOrders, first[o] = t
        PROVE  task[t].status = "queued" /\ task[t].order = o /\ task[t].lockedBy = NoAgent
    BY <1>2, <2>2 DEF NoneYet
  <2>3. QED
    BY <2>1, <2>2
<1>5. /\ confirmation = [o \in CallOrders |-> [state |-> "pending", cancelled |-> FALSE]]
      /\ \A r \in Requests : request[r] = NoRequest
  BY DEF CallInit
<1>6. TasksOfOrders
  BY <1>4, <1>5 DEF TasksOfOrders
<1>7. \A r \in Requests : Found(r)
  BY <1>5 DEF Found, NoRequest
<1>8. ASSUME NEW o \in CallOrders PROVE OpenCalls(o) = {first[o]}
  <2>1. first[o] \in OpenCalls(o)
    BY <1>2 DEF OpenCalls, OpenStatus, NoneYet
  <2>2. ASSUME NEW t \in OpenCalls(o) PROVE t = first[o]
    BY <1>4, <2>2 DEF OpenCalls, OpenStatus
  <2>3. QED
    BY <2>1, <2>2
<1>9. \A o \in CallOrders : TaskOf(o)
  BY <1>5, <1>8 DEF TaskOf, Waiting
<1>10. QED
  BY <1>6, <1>7, <1>9 DEF QueueInv

\* What a transaction does to the rows it has locked is nothing to another.
LEMMA OthersFound ==
  ASSUME CallInv, QueueInv, NEW r \in Requests, NEW q \in Requests \ {r}, request'[q] = request[q],
         \A t \in Tasks \ request[r].held : task[t].status # "none" => task'[t].status = task[t].status,
         \A t \in Tasks : task[t].status # "none" =>
           task'[t].status # "none" /\ task'[t].order = task[t].order,
         \A o \in CallOrders \ request[r].held : confirmation'[o] = confirmation[o]
  PROVE  Found(q)'
<1>1. Found(q) /\ request[q].held \cap request[r].held = {}
  BY DEF QueueInv, CallInv, RowLocks
<1>2. CASE request[q].kind = "claim"
  BY <1>1, <1>2 DEF Found, OpenStatus
<1>3. CASE request[q].kind = "release"
  BY <1>1, <1>3 DEF Found, OpenStatus
<1>4. CASE request[q].kind = "record"
  BY <1>1, <1>4 DEF Found
<1>5. CASE request[q].kind = "correct"
  <2>1. request[q].task \in Tasks /\ task[request[q].task].order \in CallOrders
    BY <1>1, <1>5 DEF Found, QueueInv, TasksOfOrders
  <2>2. request[q].order \in CallOrders
    BY <1>1, <1>5, <2>1 DEF Found
  <2>3. QED
    BY <1>1, <1>5, <2>1, <2>2 DEF Found
<1>6. CASE request[q].kind \in {"follow_up", "requeue"}
  BY <1>1, <1>6 DEF Found, StillOpen
<1>7. CASE request[q].kind \notin {"claim", "release", "record", "correct", "follow_up", "requeue"}
  BY <1>1, <1>7 DEF Found
<1>8. QED
  BY <1>2, <1>3, <1>4, <1>5, <1>6, <1>7

\* A transaction that committed has found nothing more.
LEMMA EndedFound ==
  ASSUME CallInv, QueueInv, NEW r \in Requests, EndRequest(r),
         \A t \in Tasks \ request[r].held : task[t].status # "none" => task'[t].status = task[t].status,
         \A t \in Tasks : task[t].status # "none" =>
           task'[t].status # "none" /\ task'[t].order = task[t].order,
         \A o \in CallOrders \ request[r].held : confirmation'[o] = confirmation[o]
  PROVE  \A q \in Requests : Found(q)'
<1>1. request'[r].kind = "none" /\ \A q \in Requests \ {r} : request'[q] = request[q]
  BY Ends
<1>2. Found(r)'
  BY <1>1 DEF Found
<1>3. QED
  BY <1>1, <1>2, OthersFound

\* While no task opens or closes and no order is decided, every order has its task.
LEMMA TasksStay ==
  ASSUME QueueInv,
         \A t \in Tasks : /\ task[t].status # "none" <=> task'[t].status # "none"
                          /\ task'[t].order = task[t].order
                          /\ task[t].status \in OpenStatus <=> task'[t].status \in OpenStatus,
         UNCHANGED confirmation
  PROVE  \A o \in CallOrders : TaskOf(o)'
<1> SUFFICES ASSUME NEW o \in CallOrders PROVE TaskOf(o)'
  OBVIOUS
<1>1. OpenCalls(o)' = OpenCalls(o)
  BY DEF OpenCalls
<1>2. Waiting(o)' <=> Waiting(o)
  BY DEF Waiting
<1>3. QED
  BY <1>1, <1>2 DEF TaskOf, QueueInv

\* A request that writes no row.
LEMMA NoTaskWritten ==
  ASSUME CallInv, QueueInv, NEW r \in Requests, UNCHANGED <<task, confirmation>>,
         \A q \in Requests \ {r} : request'[q] = request[q], Found(r)'
  PROVE  QueueInv'
<1>1. TasksOfOrders'
  BY DEF QueueInv, TasksOfOrders
<1>2. \A q \in Requests \ {r} : Found(q)'
  BY OthersFound
<1>3. \A o \in CallOrders : TaskOf(o)'
  BY TasksStay
<1>4. QED
  BY <1>1, <1>2, <1>3 DEF QueueInv

\* One that ends without having committed.
LEMMA NothingCommitted ==
  ASSUME CallInv, QueueInv, NEW r \in Requests, EndRequest(r), UNCHANGED <<task, confirmation>>
  PROVE  QueueInv'
<1>1. request'[r].kind = "none" /\ \A q \in Requests \ {r} : request'[q] = request[q]
  BY Ends
<1>2. Found(r)'
  BY <1>1 DEF Found
<1>3. QED
  BY <1>1, <1>2, NoTaskWritten

\* A request begins with no row locked.
LEMMA BegunFound ==
  ASSUME CallInv, QueueInv, NEW r \in Requests, NEW a \in Agents, BeginRequest(r, a)
  PROVE  QueueInv'
<1>1. ASSUME NEW kind, NEW g, NEW q, Begins(r, kind, g, q)
      PROVE  /\ request'[r] = [q EXCEPT !.kind = kind, !.agent = g]
             /\ \A p \in Requests \ {r} : request'[p] = request[p]
             /\ UNCHANGED <<task, confirmation>>
  BY <1>1 DEF Begins, CallInv, RowTypes
<1>2. ASSUME NEW t \in Tasks, task[t].status # "none", NEW kind \in {"claim", "release"}, Begins(r, kind, a, OnTask(t))
      PROVE  QueueInv'
  <2>1. /\ request'[r].kind = kind /\ request'[r].task = t /\ request'[r].order = task[t].order
        /\ request'[r].held = {}
    <3>1. request'[r] = [OnTask(t) EXCEPT !.kind = kind, !.agent = a]
      BY <1>1, <1>2
    <3>2. QED
      BY <3>1 DEF OnTask, NoRequest
  <2>2. Found(r)'
    BY <1>1, <1>2, <2>1 DEF Found
  <2>3. QED
    BY <1>1, <1>2, <2>2, NoTaskWritten
<1>3. ASSUME NEW t \in Tasks, task[t].status # "none", NEW kind \in {"record", "correct"},
             NEW outcome \in {"confirmed", "rejected", "unreachable"}, kind = "correct" => outcome # "unreachable",
             Begins(r, kind, a, [OnTask(t) EXCEPT !.outcome = outcome])
      PROVE  QueueInv'
  <2>1. /\ request'[r].kind = kind /\ request'[r].task = t /\ request'[r].order = task[t].order
        /\ request'[r].held = {} /\ request'[r].outcome = outcome
    <3>1. request'[r] = [[OnTask(t) EXCEPT !.outcome = outcome] EXCEPT !.kind = kind, !.agent = a]
      BY <1>1, <1>3
    <3>2. QED
      BY <3>1 DEF OnTask, NoRequest
  <2>2. Found(r)'
    BY <1>1, <1>3, <2>1 DEF Found
  <2>3. QED
    BY <1>1, <1>3, <2>2, NoTaskWritten
<1>4. ASSUME NEW o \in CallOrders, NEW kind \in {"confirm", "cancel", "reopen", "follow_up", "requeue"}, NEW g,
             Begins(r, kind, g, OnOrder(o))
      PROVE  QueueInv'
  <2>1. request'[r].kind = kind /\ request'[r].order = o /\ request'[r].held = {}
    <3>1. request'[r] = [OnOrder(o) EXCEPT !.kind = kind, !.agent = g]
      BY <1>1, <1>4
    <3>2. QED
      BY <3>1 DEF OnOrder, NoRequest
  <2>2. Found(r)'
    BY <1>4, <2>1 DEF Found
  <2>3. QED
    BY <1>1, <1>4, <2>2, NoTaskWritten
<1>5. ASSUME NEW batch, Begins(r, "assign", NoAgent, [NoRequest EXCEPT !.batch = batch])
      PROVE  QueueInv'
  <2>1. request'[r].kind = "assign" /\ request'[r].held = {}
    <3>1. request'[r] = [[NoRequest EXCEPT !.batch = batch] EXCEPT !.kind = "assign", !.agent = NoAgent]
      BY <1>1, <1>5
    <3>2. QED
      BY <3>1 DEF NoRequest
  <2>2. Found(r)'
    BY <2>1 DEF Found
  <2>3. QED
    BY <1>1, <1>5, <2>2, NoTaskWritten
<1>6. CASE \E t \in Tasks : task[t].status # "none" /\
              \/ \E kind \in {"claim", "release"} : Begins(r, kind, a, OnTask(t))
              \/ \E outcome \in {"confirmed", "rejected", "unreachable"} :
                   Begins(r, "record", a, [OnTask(t) EXCEPT !.outcome = outcome])
              \/ \E outcome \in {"confirmed", "rejected"} :
                   Begins(r, "correct", a, [OnTask(t) EXCEPT !.outcome = outcome])
  <2>1. PICK t \in Tasks : task[t].status # "none" /\
              \/ \E kind \in {"claim", "release"} : Begins(r, kind, a, OnTask(t))
              \/ \E outcome \in {"confirmed", "rejected", "unreachable"} :
                   Begins(r, "record", a, [OnTask(t) EXCEPT !.outcome = outcome])
              \/ \E outcome \in {"confirmed", "rejected"} :
                   Begins(r, "correct", a, [OnTask(t) EXCEPT !.outcome = outcome])
    BY <1>6
  <2>2. QED
    BY <2>1, <1>2, <1>3
<1>7. QED
  BY <1>4, <1>5, <1>6 DEF BeginRequest

\* A row is locked: what is found then is so.
LEMMA LockedFound ==
  ASSUME CallInv, QueueInv, NEW r \in Requests, TakeLock(r)
  PROVE  QueueInv'
<1>1. PICK row \in Wants(r) :
        /\ IF Admits(r, row) THEN request' = [request EXCEPT ![r].held = @ \cup {row}]
                             ELSE EndRequest(r)
        /\ UNCHANGED <<task, confirmation>>
  BY DEF TakeLock
<1>2. CASE ~Admits(r, row)
  BY <1>1, <1>2, NothingCommitted
<1>3. CASE Admits(r, row)
  <2>1. PICK q \in RequestRows : q = request[r]
    BY DEF CallInv, RowTypes
  <2>2. /\ request'[r] = [q EXCEPT !.held = q.held \cup {row}]
        /\ \A p \in Requests \ {r} : request'[p] = request[p]
    BY <1>1, <1>3, <2>1 DEF CallInv, RowTypes
  <2>3. /\ request'[r].held = q.held \cup {row} /\ request'[r].kind = q.kind /\ request'[r].task = q.task
        /\ request'[r].order = q.order /\ request'[r].outcome = q.outcome /\ request'[r].batch = q.batch
    BY <2>1, <2>2 DEF RequestRows
  <2>4. q.kind \in {"claim", "release", "record", "correct"} => q.order \in CallOrders /\ q.task \in Tasks
    BY <2>1 DEF QueueInv, Found, TasksOfOrders
  <2>5. Found(r)
    BY DEF QueueInv
  <2>6. ASSUME q.kind = "claim" PROVE Found(r)'
    <3>1. row = q.task /\ task[row].status \in OpenStatus
      BY <2>1, <1>3, <2>6 DEF Wants, Admits
    <3>2. QED
      BY <2>1, <1>1, <2>3, <2>5, <2>6, <3>1 DEF Found
  <2>7. ASSUME q.kind = "release" PROVE Found(r)'
    <3>1. row = q.task /\ task[row].status \in OpenStatus
      BY <2>1, <1>3, <2>7 DEF Wants, Admits, OpenStatus
    <3>2. QED
      BY <2>1, <1>1, <2>3, <2>5, <2>7, <3>1 DEF Found
  <2>8. ASSUME q.kind = "record" PROVE Found(r)'
    BY <2>1, <1>1, <2>3, <2>5, <2>8 DEF Found
  <2>9. ASSUME q.kind = "correct" PROVE Found(r)'
    <3>1. CASE q.task \notin q.held
      <4>1. row = q.task /\ task[row].status = "done" /\ row # q.order
        BY <2>1, <1>3, <2>4, <2>9, <3>1, CallAssumption DEF Wants, Admits
      <4>2. QED
        BY <2>1, <1>1, <2>3, <2>5, <2>9, <4>1 DEF Found
    <3>2. CASE q.task \in q.held
      <4>1. row = q.order /\ row \notin Tasks
        BY <2>1, <2>4, <2>9, <3>2, CallAssumption DEF Wants
      <4>2. confirmation[row].state \in {"confirmed", "rejected"}
        BY <2>1, <1>3, <2>9, <4>1 DEF Admits
      <4>3. QED
        BY <2>1, <1>1, <2>3, <2>5, <2>9, <3>2, <4>1, <4>2 DEF Found
    <3>3. QED
      BY <3>1, <3>2
  <2>10. ASSUME q.kind = "assign" PROVE Found(r)'
    <3>1. row \in q.batch \ q.held /\ \A u \in q.batch \ q.held : row <= u
      BY <2>1, <2>10 DEF Wants, NextOfBatch, LeftOfBatch
    <3>2. q.batch \subseteq Nat
      BY <2>1, CallAssumption DEF RequestRows
    <3>3. \A u \in q.batch \ (q.held \cup {row}) : row < u
      BY <3>1, <3>2
    <3>4. QED
      BY <2>1, <2>3, <2>5, <2>10, <3>1, <3>3 DEF Found
  <2>11. ASSUME q.kind \notin {"claim", "release", "record", "correct", "assign", "follow_up", "requeue"}
         PROVE  Found(r)'
    BY <2>1, <2>3, <2>5, <2>11 DEF Found
  <2>12. ASSUME q.kind \in {"follow_up", "requeue"} PROVE Found(r)'
    <3>1. q.order \in CallOrders /\ (q.order \in q.held => StillOpen(q.order))
      BY <2>1, <2>5, <2>12 DEF Found
    <3>2. q.order \notin q.held => row = q.order /\ row \notin Tasks
      BY <2>1, <2>12, <3>1, CallAssumption DEF Wants
    <3>3. StillOpen(q.order)
      BY <2>1, <1>3, <2>12, <3>1, <3>2 DEF Admits
    <3>4. QED
      BY <1>1, <2>3, <2>12, <3>1, <3>3 DEF Found, StillOpen
  <2>13. Found(r)'
    BY <2>6, <2>7, <2>8, <2>9, <2>10, <2>11, <2>12
  <2>14. QED
    BY <1>1, <2>2, <2>13, NoTaskWritten
<1>4. QED
  BY <1>2, <1>3

\* A claim sweeps up lapsed tasks, which are open.
LEMMA SweptFound ==
  ASSUME CallInv, QueueInv, NEW r \in Requests, SweepLapsed(r)
  PROVE  QueueInv'
<1> DEFINE lapsed == {t \in Tasks \ LockedByOthers(r) : task[t].status = "in_progress" /\ task[t].stale}
<1>1. request[r] \in RequestRows /\ request[r].kind = "claim" /\ Found(r)
  BY DEF SweepLapsed, CallInv, RowTypes, QueueInv
<1>2. /\ request'[r] = [request[r] EXCEPT !.swept = TRUE, !.held = lapsed]
      /\ \A p \in Requests \ {r} : request'[p] = request[p]
      /\ UNCHANGED <<task, confirmation>>
  BY DEF SweepLapsed, CallInv, RowTypes
<1>3. \A t \in lapsed : t \in Tasks /\ task[t].status \in OpenStatus
  BY DEF OpenStatus
<1> HIDE DEF lapsed
<1>4. /\ request'[r].held = lapsed /\ request'[r].kind = "claim" /\ request'[r].task = request[r].task
      /\ request'[r].order = request[r].order
  BY <1>1, <1>2 DEF RequestRows
<1>5. Found(r)'
  BY <1>1, <1>2, <1>3, <1>4 DEF Found
<1>6. QED
  BY <1>2, <1>5, NoTaskWritten

\* A claim puts the lapsed tasks back and takes its own: open they were and are.
LEMMA ClaimedStays ==
  ASSUME CallInv, QueueInv, NEW r \in Requests, CommitClaim(r)
  PROVE  QueueInv'
<1>1. PICK q \in RequestRows : q = request[r] /\ q.kind = "claim" /\ q.task \in q.held
  BY DEF CommitClaim, MayCommit, Wants, CallInv, RowTypes
<1>2. \A t \in q.held : t \in Tasks /\ task[t].status \in OpenStatus
  BY <1>1 DEF QueueInv, Found
<1>3. /\ task' = [t \in Tasks |->
           IF t = q.task THEN [task[t] EXCEPT !.status = "in_progress", !.lockedBy = q.agent, !.stale = FALSE]
           ELSE IF t \in q.held THEN FreeTask(task[t]) ELSE task[t]]
      /\ EndRequest(r) /\ UNCHANGED confirmation
  BY <1>1 DEF CommitClaim
<1>4. ASSUME NEW t \in Tasks
      PROVE  /\ task'[t].order = task[t].order
             /\ t \in q.held => task'[t].status \in OpenStatus
             /\ t \notin q.held => task'[t] = task[t]
  <2>1. task[t] \in TaskRows
    BY DEF CallInv, RowTypes
  <2>2. /\ FreeTask(task[t]).order = task[t].order /\ FreeTask(task[t]).status = "queued"
        /\ LET row == [task[t] EXCEPT !.status = "in_progress", !.lockedBy = q.agent, !.stale = FALSE]
           IN  row.order = task[t].order /\ row.status = "in_progress"
    BY <2>1 DEF FreeTask, TaskRows
  <2>3. QED
    BY <1>1, <1>3, <2>2 DEF OpenStatus
<1>5. \A t \in Tasks : /\ task[t].status # "none" <=> task'[t].status # "none"
                       /\ task'[t].order = task[t].order
                       /\ task[t].status \in OpenStatus <=> task'[t].status \in OpenStatus
  BY <1>2, <1>4 DEF OpenStatus
<1>6. TasksOfOrders'
  BY <1>3, <1>5 DEF QueueInv, TasksOfOrders
<1>7. \A p \in Requests : Found(p)'
  BY <1>1, <1>3, <1>4, <1>5, EndedFound
<1>8. \A o \in CallOrders : TaskOf(o)'
  BY <1>3, <1>5, TasksStay
<1>9. QED
  BY <1>6, <1>7, <1>8 DEF QueueInv

\* A release puts an open task back.
LEMMA ReleasedStays ==
  ASSUME CallInv, QueueInv, NEW r \in Requests, CommitRelease(r)
  PROVE  QueueInv'
<1>1. PICK q \in RequestRows : q = request[r] /\ q.kind = "release" /\ q.task \in q.held
  BY DEF CommitRelease, MayCommit, Wants, CallInv, RowTypes
<1>2. q.task \in Tasks /\ task[q.task].status \in OpenStatus
  BY <1>1 DEF QueueInv, Found
<1>3. task' = [task EXCEPT ![q.task] = FreeTask(@)] /\ EndRequest(r) /\ UNCHANGED confirmation
  BY <1>1 DEF CommitRelease
<1>4. /\ \A t \in Tasks \ {q.task} : task'[t] = task[t]
      /\ task'[q.task].order = task[q.task].order /\ task'[q.task].status = "queued"
  <2>1. task[q.task] \in TaskRows /\ task \in [Tasks -> TaskRows]
    BY <1>2 DEF CallInv, RowTypes
  <2>2. FreeTask(task[q.task]).order = task[q.task].order /\ FreeTask(task[q.task]).status = "queued"
    BY <2>1 DEF FreeTask, TaskRows
  <2>3. QED
    BY <1>2, <1>3, <2>1, <2>2
<1>5. \A t \in Tasks : /\ task[t].status # "none" <=> task'[t].status # "none"
                       /\ task'[t].order = task[t].order
                       /\ task[t].status \in OpenStatus <=> task'[t].status \in OpenStatus
  BY <1>2, <1>4 DEF OpenStatus
<1>6. TasksOfOrders'
  BY <1>3, <1>5 DEF QueueInv, TasksOfOrders
<1>7. \A p \in Requests : Found(p)'
  BY <1>1, <1>3, <1>4, <1>5, EndedFound
<1>8. \A o \in CallOrders : TaskOf(o)'
  BY <1>3, <1>5, TasksStay
<1>9. QED
  BY <1>6, <1>7, <1>8 DEF QueueInv

\* A request that decides an order, and closes or leaves its tasks by it.
LEMMA DecidedStays ==
  ASSUME CallInv, QueueInv, NEW r \in Requests, EndRequest(r), NEW o \in CallOrders, o \in request[r].held,
         NEW state \in {"pending", "unreachable", "confirmed", "rejected"}, NEW cancelled \in BOOLEAN,
         confirmation' = [confirmation EXCEPT ![o] = [state |-> state, cancelled |-> cancelled]],
         \A t \in Tasks :
           /\ task[t].status # "none" => task'[t].status # "none" /\ task'[t].order = task[t].order
           /\ t \in request[r].held \/ task[t].status = "none" \/ task'[t].status = task[t].status
           /\ task[t].status = "none" => task'[t].status = "none" \/ task'[t].order = o
           /\ task[t].order # o /\ task'[t].order # o =>
                (task[t].status \in OpenStatus <=> task'[t].status \in OpenStatus),
         TaskOf(o)'
  PROVE  QueueInv'
<1>1. /\ confirmation' \in [CallOrders -> [state : {"pending", "unreachable", "confirmed", "rejected"}, cancelled : BOOLEAN]]
      /\ \A p \in CallOrders \ {o} : confirmation'[p] = confirmation[p]
  BY DEF QueueInv, TasksOfOrders
<1>2. TasksOfOrders'
  BY <1>1 DEF QueueInv, TasksOfOrders
<1>3. \A p \in Requests : Found(p)'
  BY <1>1, EndedFound
<1>4. ASSUME NEW p \in CallOrders \ {o} PROVE TaskOf(p)'
  <2>1. OpenCalls(p)' = OpenCalls(p)
    <3>1. ASSUME NEW t \in OpenCalls(p) PROVE t \in OpenCalls(p)'
      BY <3>1 DEF OpenCalls, OpenStatus
    <3>2. ASSUME NEW t \in OpenCalls(p)' PROVE t \in OpenCalls(p)
      <4>1. t \in Tasks /\ task'[t].order = p /\ task'[t].status \in OpenStatus
        BY <3>2 DEF OpenCalls
      <4>2. task[t].status # "none"
        BY <4>1, <1>4 DEF OpenStatus
      <4>3. QED
        BY <1>4, <4>1, <4>2 DEF OpenCalls
    <3>3. QED
      BY <3>1, <3>2
  <2>2. Waiting(p)' <=> Waiting(p)
    BY <1>1 DEF Waiting
  <2>3. QED
    BY <2>1, <2>2 DEF TaskOf, QueueInv
<1>5. QED
  BY <1>2, <1>3, <1>4 DEF QueueInv

\* An order's confirmation with a new state.
LEMMA NewState ==
  ASSUME QueueInv, NEW o \in CallOrders, NEW state,
         confirmation' = [confirmation EXCEPT ![o].state = state]
  PROVE  /\ confirmation[o].cancelled \in BOOLEAN
         /\ confirmation' = [confirmation EXCEPT ![o] = [state |-> state, cancelled |-> confirmation[o].cancelled]]
<1>1. confirmation \in [CallOrders -> [state : {"pending", "unreachable", "confirmed", "rejected"}, cancelled : BOOLEAN]]
  BY DEF QueueInv, TasksOfOrders
<1>2. [confirmation[o] EXCEPT !.state = state] = [state |-> state, cancelled |-> confirmation[o].cancelled]
  BY <1>1
<1>3. QED
  BY <1>1, <1>2

\* The tasks of an order are closed with it.
LEMMA ClosedStays ==
  ASSUME CallInv, QueueInv, NEW r \in Requests, EndRequest(r), NEW o \in CallOrders, o \in request[r].held,
         NEW state \in {"confirmed", "rejected"}, NEW cancelled \in BOOLEAN,
         confirmation' = [confirmation EXCEPT ![o] = [state |-> state, cancelled |-> cancelled]],
         OpenCalls(o) \subseteq request[r].held,
         task' = [t \in Tasks |-> IF t \in OpenCalls(o) THEN DoneTask(task[t]) ELSE task[t]]
  PROVE  QueueInv'
<1>1. ASSUME NEW t \in Tasks
      PROVE  /\ task'[t].order = task[t].order
             /\ IF t \in OpenCalls(o) THEN task'[t].status = "done" ELSE task'[t] = task[t]
  <2>1. task[t] \in TaskRows
    BY DEF CallInv, RowTypes
  <2>2. DoneTask(task[t]).order = task[t].order /\ DoneTask(task[t]).status = "done"
    BY <2>1 DEF DoneTask, TaskRows
  <2>3. QED
    BY <2>2
<1>2. \A t \in OpenCalls(o) : t \in Tasks /\ task[t].order = o /\ task[t].status \in OpenStatus
  BY DEF OpenCalls
<1>3. OpenCalls(o)' = {}
  BY <1>1 DEF OpenCalls, OpenStatus
<1>4. confirmation'[o].state = state
  BY DEF QueueInv, TasksOfOrders
<1>5. TaskOf(o)'
  BY <1>3, <1>4 DEF TaskOf, Waiting
<1>6. \A t \in Tasks :
        /\ task[t].status # "none" => task'[t].status # "none" /\ task'[t].order = task[t].order
        /\ t \in request[r].held \/ task[t].status = "none" \/ task'[t].status = task[t].status
        /\ task[t].status = "none" => task'[t].status = "none" \/ task'[t].order = o
        /\ task[t].order # o /\ task'[t].order # o =>
             (task[t].status \in OpenStatus <=> task'[t].status \in OpenStatus)
  BY <1>1, <1>2 DEF OpenStatus
<1>7. QED
  BY <1>5, <1>6, DecidedStays

\* The order page confirms or cancels.
LEMMA ClosingStays ==
  ASSUME CallInv, QueueInv, NEW r \in Requests, CommitConfirm(r) \/ CommitCancel(r)
  PROVE  QueueInv'
<1>1. PICK q \in RequestRows : q = request[r]
  BY DEF CallInv, RowTypes
<1>2. CASE CommitConfirm(r)
  <2>1. q.order \in CallOrders /\ q.order \in q.held /\ OpenCalls(q.order) \subseteq q.held
    BY <1>1, <1>2 DEF CommitConfirm, MayCommit, Wants, QueueInv, Found
  <2>2. /\ EndRequest(r) /\ confirmation' = [confirmation EXCEPT ![q.order].state = "confirmed"]
        /\ task' = [t \in Tasks |-> IF t \in OpenCalls(q.order) THEN DoneTask(task[t]) ELSE task[t]]
    BY <1>1, <1>2 DEF CommitConfirm
  <2>3. /\ confirmation[q.order].cancelled \in BOOLEAN
        /\ confirmation' = [confirmation EXCEPT ![q.order] =
                             [state |-> "confirmed", cancelled |-> confirmation[q.order].cancelled]]
    BY <2>1, <2>2, NewState
  <2>4. PICK cancelled \in BOOLEAN : cancelled = confirmation[q.order].cancelled
    BY <2>3
  <2>5. confirmation' = [confirmation EXCEPT ![q.order] = [state |-> "confirmed", cancelled |-> cancelled]]
    BY <2>3, <2>4
  <2>6. q.order \in request[r].held /\ OpenCalls(q.order) \subseteq request[r].held
    BY <1>1, <2>1
  <2>7. QED
    BY <2>1, <2>2, <2>5, <2>6, ClosedStays
<1>3. CASE CommitCancel(r)
  <2>1. q.order \in CallOrders /\ q.order \in q.held /\ OpenCalls(q.order) \subseteq q.held
    BY <1>1, <1>3 DEF CommitCancel, MayCommit, Wants, QueueInv, Found
  <2>2. /\ EndRequest(r)
        /\ confirmation' = [confirmation EXCEPT ![q.order] = [state |-> "rejected", cancelled |-> TRUE]]
        /\ task' = [t \in Tasks |-> IF t \in OpenCalls(q.order) THEN DoneTask(task[t]) ELSE task[t]]
    BY <1>1, <1>3 DEF CommitCancel, ClosedByCancel
  <2>3. QED
    BY <1>1, <2>1, <2>2, ClosedStays
<1>4. QED
  BY <1>2, <1>3

\* An outcome closes the task with its order, or leaves both open; a correction
\* finds both closed.
LEMMA OutcomeStays ==
  ASSUME CallInv, QueueInv, NEW r \in Requests, CommitOutcome(r)
  PROVE  QueueInv'
<1>1. PICK q \in RequestRows : q = request[r] /\ q.kind \in {"record", "correct"} /\ q.task \in q.held /\ q.order \in q.held
  BY DEF CommitOutcome, MayCommit, Wants, CallInv, RowTypes
<1>2. /\ q.task \in Tasks /\ task[q.task].order = q.order /\ q.order \in CallOrders
      /\ q.outcome \in {"confirmed", "rejected", "unreachable"}
  <2>1. q.task \in Tasks /\ task[q.task].status # "none" /\ task[q.task].order = q.order /\ q.outcome # "none"
    BY <1>1 DEF QueueInv, Found
  <2>2. QED
    BY <2>1 DEF QueueInv, TasksOfOrders, RequestRows
<1>3. /\ task' = [task EXCEPT ![q.task] = After(@, q.outcome)]
      /\ confirmation' = [confirmation EXCEPT ![q.order].state = q.outcome] /\ EndRequest(r)
  BY <1>1 DEF CommitOutcome
<1>4. /\ \A t \in Tasks \ {q.task} : task'[t] = task[t]
      /\ task'[q.task].order = q.order
      /\ task'[q.task].status = IF q.outcome = "unreachable" THEN "queued" ELSE "done"
  <2>1. task[q.task] \in TaskRows /\ task \in [Tasks -> TaskRows]
    BY <1>2 DEF CallInv, RowTypes
  <2>2. /\ FreeTask(task[q.task]).order = q.order /\ FreeTask(task[q.task]).status = "queued"
        /\ DoneTask(task[q.task]).order = q.order /\ DoneTask(task[q.task]).status = "done"
    BY <1>2, <2>1 DEF FreeTask, DoneTask, TaskRows
  <2>3. QED
    BY <1>2, <1>3, <2>1, <2>2 DEF After
<1>5. confirmation'[q.order].state = q.outcome /\ confirmation'[q.order].cancelled = confirmation[q.order].cancelled
  BY <1>2, <1>3 DEF QueueInv, TasksOfOrders
<1>6. TaskOf(q.order)'
  <2>1. CASE q.kind = "record"
    <3>1. task[q.task].lockedBy \in Agents
      BY <1>1, <2>1 DEF CallInv, RecordsHold
    <3>2. task[q.task].status = "in_progress"
      BY <1>2, <3>1, CallAssumption DEF CallInv, ClaimsKnown, RowTypes, TaskRows
    <3>3. q.task \in OpenCalls(q.order)
      BY <1>2, <3>2 DEF OpenCalls, OpenStatus
    <3>4. Waiting(q.order) /\ OpenCalls(q.order) = {q.task}
      BY <1>2, <3>3 DEF QueueInv, TaskOf
    <3>5. CASE q.outcome = "unreachable"
      <4>1. OpenCalls(q.order)' = OpenCalls(q.order)
        BY <1>2, <1>4, <3>3, <3>5 DEF OpenCalls, OpenStatus
      <4>2. Waiting(q.order)'
        BY <1>5, <3>4, <3>5 DEF Waiting
      <4>3. QED
        BY <1>2, <3>4, <4>1, <4>2 DEF TaskOf
    <3>6. CASE q.outcome # "unreachable"
      <4>1. OpenCalls(q.order)' = {}
        <5>1. ASSUME NEW t \in OpenCalls(q.order)' PROVE FALSE
          <6>1. t \in Tasks /\ task'[t].order = q.order /\ task'[t].status \in OpenStatus
            BY <5>1 DEF OpenCalls
          <6>2. t # q.task
            BY <1>4, <3>6, <6>1 DEF OpenStatus
          <6>3. t \in OpenCalls(q.order)
            BY <1>4, <6>1, <6>2 DEF OpenCalls
          <6>4. QED
            BY <3>4, <6>2, <6>3
        <5>2. QED
          BY <5>1
      <4>2. ~Waiting(q.order)'
        BY <1>2, <1>5, <3>6 DEF Waiting
      <4>3. QED
        BY <4>1, <4>2 DEF TaskOf
    <3>7. QED
      BY <3>5, <3>6
  <2>2. CASE q.kind = "correct"
    <3>1. /\ task[q.task].status = "done" /\ q.outcome # "unreachable"
          /\ confirmation[q.order].state \in {"confirmed", "rejected"}
      BY <1>1, <2>2 DEF QueueInv, Found
    <3>2. ~Waiting(q.order) /\ ~Waiting(q.order)'
      BY <1>2, <1>5, <3>1 DEF Waiting
    <3>3. OpenCalls(q.order)' = OpenCalls(q.order)
      BY <1>2, <1>4, <3>1 DEF OpenCalls, OpenStatus
    <3>4. QED
      BY <1>2, <3>2, <3>3 DEF QueueInv, TaskOf
  <2>3. QED
    BY <1>1, <2>1, <2>2
<1>7. \A t \in Tasks :
        /\ task[t].status # "none" => task'[t].status # "none" /\ task'[t].order = task[t].order
        /\ t \in request[r].held \/ task[t].status = "none" \/ task'[t].status = task[t].status
        /\ task[t].status = "none" => task'[t].status = "none" \/ task'[t].order = q.order
        /\ task[t].order # q.order /\ task'[t].order # q.order =>
             (task[t].status \in OpenStatus <=> task'[t].status \in OpenStatus)
  BY <1>1, <1>2, <1>4
<1>8. /\ confirmation[q.order].cancelled \in BOOLEAN
      /\ confirmation' = [confirmation EXCEPT ![q.order] =
                           [state |-> q.outcome, cancelled |-> confirmation[q.order].cancelled]]
  BY <1>2, <1>3, NewState
<1>9. PICK cancelled \in BOOLEAN : cancelled = confirmation[q.order].cancelled
  BY <1>8
<1>10. confirmation' = [confirmation EXCEPT ![q.order] = [state |-> q.outcome, cancelled |-> cancelled]]
  BY <1>8, <1>9
<1>11. /\ EndRequest(r) /\ q.order \in CallOrders /\ q.order \in request[r].held
       /\ q.outcome \in {"pending", "unreachable", "confirmed", "rejected"}
  BY <1>1, <1>2, <1>3
<1>12. QED
  BY <1>6, <1>7, <1>10, <1>11, DecidedStays

\* An order that waits again gets a task when it has none.
LEMMA NewTaskStays ==
  ASSUME CallInv, QueueInv, NEW r \in Requests, EndRequest(r), NEW o \in CallOrders, o \in request[r].held,
         NEW state \in {"pending", "unreachable"}, OpenTask(o),
         confirmation' = [confirmation EXCEPT ![o] = [state |-> state, cancelled |-> FALSE]]
  PROVE  QueueInv'
<1>1. Waiting(o)'
  BY DEF Waiting, QueueInv, TasksOfOrders
<1>2. CASE OpenCalls(o) # {}
  <2>1. UNCHANGED task
    BY <1>2 DEF OpenTask
  <2>2. TaskOf(o)'
    BY <1>1, <1>2, <2>1 DEF TaskOf, QueueInv, OpenCalls
  <2>3. \A t \in Tasks :
          /\ task[t].status # "none" => task'[t].status # "none" /\ task'[t].order = task[t].order
          /\ t \in request[r].held \/ task[t].status = "none" \/ task'[t].status = task[t].status
          /\ task[t].status = "none" => task'[t].status = "none" \/ task'[t].order = o
          /\ task[t].order # o /\ task'[t].order # o =>
               (task[t].status \in OpenStatus <=> task'[t].status \in OpenStatus)
    BY <2>1
  <2>4. QED
    BY <2>2, <2>3, DecidedStays
<1>3. CASE OpenCalls(o) = {}
  <2>1. PICK n \in Tasks : /\ task[n].status = "none"
                           /\ task' = [task EXCEPT ![n] = [NoneYet EXCEPT !.status = "queued", !.order = o]]
    BY <1>3 DEF OpenTask, NewTask
  <2>2. /\ \A t \in Tasks \ {n} : task'[t] = task[t]
        /\ task'[n].order = o /\ task'[n].status = "queued"
    BY <2>1 DEF NoneYet, CallInv, RowTypes
  <2>3. OpenCalls(o)' = {n}
    <3>1. n \in OpenCalls(o)'
      BY <2>2 DEF OpenCalls, OpenStatus
    <3>2. ASSUME NEW t \in OpenCalls(o)', t # n PROVE t \in OpenCalls(o)
      BY <2>2, <3>2 DEF OpenCalls
    <3>3. QED
      BY <1>3, <3>1, <3>2
  <2>4. TaskOf(o)'
    BY <1>1, <2>3 DEF TaskOf
  <2>5. \A t \in Tasks :
          /\ task[t].status # "none" => task'[t].status # "none" /\ task'[t].order = task[t].order
          /\ t \in request[r].held \/ task[t].status = "none" \/ task'[t].status = task[t].status
          /\ task[t].status = "none" => task'[t].status = "none" \/ task'[t].order = o
          /\ task[t].order # o /\ task'[t].order # o =>
               (task[t].status \in OpenStatus <=> task'[t].status \in OpenStatus)
    BY <2>1, <2>2
  <2>6. QED
    BY <2>4, <2>5, DecidedStays
<1>4. QED
  BY <1>2, <1>3

\* A follow-up frees the open task.
LEMMA FreedStays ==
  ASSUME CallInv, QueueInv, NEW r \in Requests, EndRequest(r), NEW o \in CallOrders, o \in request[r].held,
         NEW state \in {"pending", "unreachable"}, OpenCalls(o) # {},
         task' = [t \in Tasks |-> IF t \in OpenCalls(o) THEN FreeTask(task[t]) ELSE task[t]],
         confirmation' = [confirmation EXCEPT ![o] = [state |-> state, cancelled |-> FALSE]],
         OpenCalls(o) \subseteq request[r].held
  PROVE  QueueInv'
<1>1. Waiting(o)'
  BY DEF Waiting, QueueInv, TasksOfOrders
<1>2. ASSUME NEW t \in Tasks
      PROVE  /\ task'[t].order = task[t].order
             /\ IF t \in OpenCalls(o) THEN task'[t].status = "queued" ELSE task'[t] = task[t]
  <2>1. task[t] \in TaskRows
    BY DEF CallInv, RowTypes
  <2>2. FreeTask(task[t]).order = task[t].order /\ FreeTask(task[t]).status = "queued"
    BY <2>1 DEF FreeTask, TaskRows
  <2>3. QED
    BY <2>2
<1>3. \A t \in OpenCalls(o) : t \in Tasks /\ task[t].order = o /\ task[t].status \in OpenStatus
  BY DEF OpenCalls
<1>4. OpenCalls(o)' = OpenCalls(o)
  BY <1>2, <1>3 DEF OpenCalls, OpenStatus
<1>5. TaskOf(o)'
  BY <1>1, <1>4 DEF TaskOf, QueueInv
<1>6. \A t \in Tasks :
        /\ task[t].status # "none" => task'[t].status # "none" /\ task'[t].order = task[t].order
        /\ t \in request[r].held \/ task[t].status = "none" \/ task'[t].status = task[t].status
        /\ task[t].status = "none" => task'[t].status = "none" \/ task'[t].order = o
        /\ task[t].order # o /\ task'[t].order # o =>
             (task[t].status \in OpenStatus <=> task'[t].status \in OpenStatus)
  BY <1>2, <1>3 DEF OpenStatus
<1>7. QED
  BY <1>5, <1>6, DecidedStays

\* An order that is reopened, followed up or taken back to the queue waits, and
\* has its task.
LEMMA ReopenedStays ==
  ASSUME CallInv, QueueInv, NEW r \in Requests, CommitReopen(r) \/ CommitRequeue(r) \/ CommitFollowUp(r)
  PROVE  QueueInv'
<1>1. PICK q \in RequestRows :
        /\ q = request[r] /\ q.kind \in {"reopen", "requeue", "follow_up"}
        /\ q.order \in q.held /\ q.order \in CallOrders /\ OpenCalls(q.order) \subseteq q.held
  BY DEF CommitReopen, CommitRequeue, CommitFollowUp, MayCommit, Wants, CallInv, RowTypes, QueueInv, Found
<1>2. EndRequest(r) /\ q.order \in request[r].held
  BY <1>1 DEF CommitReopen, CommitRequeue, CommitFollowUp
<1>3. PICK state \in {"pending", "unreachable"} :
        confirmation' = [confirmation EXCEPT ![q.order] = [state |-> state, cancelled |-> FALSE]]
  <2>1. CASE CommitReopen(r)
    BY <1>1, <2>1 DEF CommitReopen
  <2>2. CASE CommitRequeue(r) \/ CommitFollowUp(r)
    <3>1. PICK state \in {"pending", "unreachable"} : confirmation' = [confirmation EXCEPT ![q.order].state = state]
      BY <1>1, <2>2 DEF CommitRequeue, CommitFollowUp
    <3>2. ~confirmation[q.order].cancelled
      BY <1>1, <2>2 DEF CommitRequeue, CommitFollowUp, MayCommit, QueueInv, Found, StillOpen
    <3>3. /\ confirmation[q.order].cancelled \in BOOLEAN
          /\ confirmation' = [confirmation EXCEPT ![q.order] =
                               [state |-> state, cancelled |-> confirmation[q.order].cancelled]]
      BY <1>1, <3>1, NewState
    <3>4. confirmation[q.order].cancelled = FALSE
      BY <3>2, <3>3
    <3>5. QED
      BY <3>3, <3>4
  <2>3. QED
    BY <2>1, <2>2
<1>4. CASE OpenTask(q.order)
  BY <1>1, <1>2, <1>3, <1>4, NewTaskStays
<1>5. CASE CommitFollowUp(r) /\ OpenCalls(q.order) # {}
  <2>1. task' = [t \in Tasks |-> IF t \in OpenCalls(q.order) THEN FreeTask(task[t]) ELSE task[t]]
    BY <1>1, <1>5 DEF CommitFollowUp
  <2>2. OpenCalls(q.order) \subseteq request[r].held
    BY <1>1
  <2>3. QED
    BY <1>1, <1>2, <1>3, <1>5, <2>1, <2>2, FreedStays
<1>6. QED
  BY <1>1, <1>4, <1>5 DEF CommitReopen, CommitRequeue, CommitFollowUp

\* A lock that lapses leaves the task open.
LEMMA LapsedStays ==
  ASSUME CallInv, QueueInv, NEW t \in Tasks, LockLapses(t)
  PROVE  QueueInv'
<1>1. task' = [task EXCEPT ![t].stale = TRUE] /\ UNCHANGED <<confirmation, request>>
  BY DEF LockLapses
<1>2. \A u \in Tasks : task'[u].order = task[u].order /\ task'[u].status = task[u].status
  <2>1. task \in [Tasks -> TaskRows]
    BY DEF CallInv, RowTypes
  <2>2. [task[t] EXCEPT !.stale = TRUE].order = task[t].order /\ [task[t] EXCEPT !.stale = TRUE].status = task[t].status
    BY <2>1 DEF TaskRows
  <2>3. QED
    BY <1>1, <2>1, <2>2
<1>3. TasksOfOrders'
  BY <1>1, <1>2 DEF QueueInv, TasksOfOrders
<1>4. ASSUME NEW r \in Requests PROVE Found(r)'
  BY <1>1, <1>2 DEF QueueInv, Found, StillOpen
<1>5. \A o \in CallOrders : TaskOf(o)'
  BY <1>1, <1>2, TasksStay
<1>6. QED
  BY <1>3, <1>4, <1>5 DEF QueueInv

\* Every step keeps it.
LEMMA QueueStep == CallInv /\ QueueInv /\ [CallNext]_callVars => QueueInv'
<1> SUFFICES ASSUME CallInv, QueueInv, [CallNext]_callVars PROVE QueueInv'
  OBVIOUS
<1>1. ASSUME NEW r \in Requests, GoesOn(r) PROVE QueueInv'
  <2>1. CASE TakeLock(r)
    BY <2>1, LockedFound
  <2>2. CASE SweepLapsed(r)
    BY <2>2, SweptFound
  <2>3. CASE BreakDeadlock(r)
    BY <2>3, NothingCommitted DEF BreakDeadlock
  <2>4. CASE CommitClaim(r)
    BY <2>4, ClaimedStays
  <2>5. CASE CommitRelease(r)
    BY <2>5, ReleasedStays
  <2>6. CASE CommitOutcome(r)
    BY <2>6, OutcomeStays
  <2>7. CASE CommitConfirm(r) \/ CommitCancel(r)
    BY <2>7, ClosingStays
  <2>8. CASE CommitReopen(r) \/ CommitRequeue(r) \/ CommitFollowUp(r)
    BY <2>8, ReopenedStays
  <2>9. CASE CommitAssign(r)
    BY <2>9, NothingCommitted DEF CommitAssign
  <2>10. QED
    BY <1>1, <2>1, <2>2, <2>3, <2>4, <2>5, <2>6, <2>7, <2>8, <2>9 DEF GoesOn
<1>2. ASSUME NEW r \in Requests, RequestLost(r) PROVE QueueInv'
  BY <1>2, NothingCommitted DEF RequestLost
<1>3. ASSUME NEW r \in Requests, NEW a \in Agents, BeginRequest(r, a) PROVE QueueInv'
  BY <1>3, BegunFound
<1>4. ASSUME NEW t \in Tasks, LockLapses(t) PROVE QueueInv'
  BY <1>4, LapsedStays
<1>5. CASE UNCHANGED callVars
  <2>1. UNCHANGED <<task, confirmation, request>>
    BY <1>5 DEF callVars
  <2>2. QED
    BY <2>1 DEF QueueInv, TasksOfOrders, Found, StillOpen, TaskOf, Waiting, OpenCalls
<1>6. QED
  BY <1>1, <1>2, <1>3, <1>4, <1>5 DEF CallNext

\* An order that waits to be confirmed has exactly one open task, and no other order
\* has one, however the queue's and the order page's transactions interleave.
THEOREM OrderHasItsTask == CallSpec => []OneOpenTask
<1>1. QueueInv => OneOpenTask
  <2> SUFFICES ASSUME QueueInv, NEW o \in CallOrders
               PROVE  Cardinality(OpenCalls(o)) = IF Waiting(o) THEN 1 ELSE 0
    BY DEF OneOpenTask
  <2>1. TaskOf(o)
    BY DEF QueueInv
  <2>2. CASE Waiting(o)
    <3>1. PICK t \in Tasks : OpenCalls(o) = {t}
      BY <2>1, <2>2 DEF TaskOf
    <3>2. QED
      BY <2>2, <3>1, FS_Singleton
  <2>3. CASE ~Waiting(o)
    BY <2>1, <2>3, FS_EmptySet DEF TaskOf
  <2>4. QED
    BY <2>2, <2>3
<1>2. QED
  BY <1>1, CallInitInv, CallStep, QueueInitInv, QueueStep, PTL DEF CallSpec

-----------------------------------------------------------------------------
(* Assignments alone never wait in a circle.                               *)

\* Row locks taken in the order of ids make no circle (confirmationService): the
\* transaction of the circle that waits for the highest row waits for one that waits
\* for a higher.
THEOREM AssignmentsMakeNoCircle == CallSpec => []AssigningNeverDeadlocks
<1>1. CallInv /\ QueueInv => AssigningNeverDeadlocks
  <2> SUFFICES ASSUME CallInv, QueueInv, NEW rs \in SUBSET Requests, Circle(rs),
                      \A r \in rs : request[r].kind = "assign"
               PROVE  FALSE
    BY DEF AssigningNeverDeadlocks
  <2> DEFINE awaited == {t \in Tasks : \E r \in rs : t \in Wants(r)}
  <2>1. ASSUME NEW r \in rs
        PROVE  /\ Wants(r) = NextOfBatch(r) /\ request[r].batch \subseteq Tasks
               /\ request[r].held \subseteq request[r].batch
               /\ \A t \in request[r].held, u \in request[r].batch \ request[r].held : t < u
    BY DEF Wants, CallInv, RowTypes, RequestRows, QueueInv, Found
  <2>2. ASSUME NEW r \in rs
        PROVE  \E q \in rs, t \in awaited : t \in Wants(r) /\ t \in request[q].held
    <3>1. PICK q \in rs : Wants(r) \cap request[q].held # {}
      BY DEF Circle, WaitsFor
    <3>2. QED
      BY <2>1, <3>1
  <2>3. awaited # {} /\ awaited \in SUBSET Nat /\ IsFiniteSet(awaited)
    <3>1. rs # {}
      BY DEF Circle
    <3>2. awaited \in SUBSET Tasks
      OBVIOUS
    <3>3. awaited # {}
      BY <2>2, <3>1
    <3>4. QED
      BY <3>2, <3>3, CallAssumption, FS_Subset
  <2>4. PICK m \in awaited : \A t \in awaited : t <= m
    <3> HIDE DEF awaited
    <3> QED BY <2>3, HasGreatest
  <2>5. PICK r \in rs : m \in Wants(r)
    OBVIOUS
  <2>6. PICK q \in rs, t \in awaited : t \in Wants(r) /\ t \in request[q].held
    BY <2>2
  <2>7. t = m
    BY <2>1, <2>3, <2>5, <2>6 DEF NextOfBatch
  <2>8. PICK u \in awaited : u \in Wants(q)
    BY <2>2
  <2>9. t < u
    BY <2>1, <2>6, <2>8 DEF NextOfBatch, LeftOfBatch
  <2>10. QED
    BY <2>3, <2>4, <2>7, <2>9
<1>2. QED
  BY <1>1, CallInitInv, CallStep, QueueInitInv, QueueStep, PTL DEF CallSpec

-----------------------------------------------------------------------------
(* The queue, row lock by row lock, is the desk CallDesk describes.        *)

\* A task has a holder while it is worked, and only such a lock may lapse.
Shaped(row) ==
    /\ row.status = "in_progress" <=> row.lockedBy # NoAgent
    /\ row.stale => row.status = "in_progress"

\* The agent may take the task, or close it from the order page.
Takeable(t, a) ==
    task[t].status \in OpenStatus /\ (task[t].lockedBy \in {NoAgent, a} \/ task[t].stale)

\* What a transaction checked of the rows it has locked, and goes by when it
\* commits, is still so.
Checked(r) ==
    LET q == request[r] IN
    /\ q.kind \in {"claim", "release", "record", "confirm", "follow_up", "requeue"} => q.agent \in Agents
    /\ q.kind = "claim" =>
         \A t \in q.held : IF t = q.task THEN Takeable(t, q.agent) ELSE task[t].stale
    /\ q.kind = "release" /\ q.task \in q.held => task[q.task].lockedBy = q.agent
    /\ q.kind = "correct" /\ q.order \in q.held =>
         ~confirmation[q.order].cancelled /\ confirmation[q.order].state # q.outcome
    /\ q.kind = "confirm" /\ q.order \in q.held => Waiting(q.order)
    /\ q.kind \in {"confirm", "follow_up", "requeue"} => \A t \in q.held \cap Tasks : Takeable(t, q.agent)
    /\ q.kind = "cancel" /\ q.order \in q.held => ~confirmation[q.order].cancelled
    /\ q.kind = "reopen" /\ q.order \in q.held =>
         confirmation[q.order].cancelled \/ confirmation[q.order].state = "rejected"

DeskInv ==
    /\ \A t \in Tasks : Shaped(task[t])
    /\ \A r \in Requests : Checked(r)

\* Holds initially.
LEMMA DeskInitInv == CallInit => DeskInv
<1> SUFFICES ASSUME CallInit PROVE DeskInv
  OBVIOUS
<1> DEFINE first == CHOOSE f \in [CallOrders -> Tasks] : \A o, p \in CallOrders : f[o] = f[p] => o = p
<1>1. task = [t \in Tasks |-> IF \E o \in CallOrders : first[o] = t
                THEN [NoneYet EXCEPT !.status = "queued", !.order = CHOOSE o \in CallOrders : first[o] = t]
                ELSE NoneYet]
  BY DEF CallInit
<1> HIDE DEF first
<1>2. ASSUME NEW t \in Tasks PROVE Shaped(task[t])
  <2>1. Shaped(NoneYet)
    BY DEF Shaped, NoneYet
  <2>2. ASSUME NEW o PROVE Shaped([NoneYet EXCEPT !.status = "queued", !.order = o])
    BY DEF Shaped, NoneYet
  <2>3. CASE \E o \in CallOrders : first[o] = t
    BY <1>1, <2>2, <2>3
  <2>4. CASE ~\E o \in CallOrders : first[o] = t
    BY <1>1, <2>1, <2>4
  <2>5. QED
    BY <2>3, <2>4
<1>3. ASSUME NEW r \in Requests PROVE Checked(r)
  BY DEF CallInit, Checked, NoRequest
<1>4. QED
  BY <1>2, <1>3 DEF DeskInv

\* What a transaction does to the rows it has locked is nothing to another.
LEMMA OthersChecked ==
  ASSUME CallInv, QueueInv, DeskInv, NEW r \in Requests, NEW q \in Requests \ {r},
         request'[q] = request[q],
         \A t \in Tasks \ request[r].held : task[t].status # "none" => task'[t] = task[t],
         \A o \in CallOrders \ request[r].held : confirmation'[o] = confirmation[o]
  PROVE  Checked(q)'
<1>1. /\ Checked(q) /\ Found(q) /\ request[q].held \cap request[r].held = {}
      /\ \A t \in Tasks : task[t].status # "none" => task[t].order \in CallOrders
  BY DEF DeskInv, QueueInv, TasksOfOrders, CallInv, RowLocks
<1>2. CASE request[q].kind = "claim"
  <2>1. \A t \in request[q].held : task'[t] = task[t]
    BY <1>1, <1>2 DEF Found, OpenStatus
  <2>2. QED
    BY <1>1, <1>2, <2>1 DEF Checked, Takeable
<1>3. CASE request[q].kind = "release"
  BY <1>1, <1>3 DEF Checked, Found
<1>4. CASE request[q].kind = "correct"
  <2>1. request[q].order \in CallOrders
    BY <1>1, <1>4 DEF Found
  <2>2. QED
    BY <1>1, <1>4, <2>1 DEF Checked
<1>5. CASE request[q].kind \in {"confirm", "follow_up", "requeue"}
  <2>1. request[q].order \in CallOrders
    BY <1>1, <1>5 DEF Found
  <2>2. \A t \in request[q].held \cap Tasks : task'[t] = task[t]
    BY <1>1, <1>5 DEF Checked, Takeable, OpenStatus
  <2>3. request[q].kind = "confirm" /\ request[q].order \in request[q].held => Waiting(request[q].order)'
    BY <1>1, <1>5, <2>1 DEF Checked, Waiting
  <2>4. \A t \in request[q].held \cap Tasks : Takeable(t, request[q].agent)'
    BY <1>1, <1>5, <2>2 DEF Checked, Takeable
  <2>5. QED
    BY <1>1, <1>5, <2>3, <2>4 DEF Checked
<1>6. CASE request[q].kind \in {"cancel", "reopen"}
  <2>1. request[q].order \in CallOrders
    BY <1>1, <1>6 DEF Found
  <2>2. QED
    BY <1>1, <1>6, <2>1 DEF Checked
<1>7. CASE request[q].kind \notin {"claim", "release", "correct", "confirm", "cancel", "reopen", "follow_up", "requeue"}
  BY <1>1, <1>7 DEF Checked
<1>8. QED
  BY <1>2, <1>3, <1>4, <1>5, <1>6, <1>7

\* A transaction that ends, having committed on its own rows or on a new one.
LEMMA EndedChecked ==
  ASSUME CallInv, QueueInv, DeskInv, NEW r \in Requests, EndRequest(r),
         \A t \in Tasks \ request[r].held : task[t].status # "none" => task'[t] = task[t],
         \A o \in CallOrders \ request[r].held : confirmation'[o] = confirmation[o],
         \A t \in Tasks : task'[t] # task[t] => Shaped(task'[t])
  PROVE  DeskInv'
<1>1. request'[r].kind = "none" /\ \A q \in Requests \ {r} : request'[q] = request[q]
  BY Ends
<1>2. Checked(r)'
  BY <1>1 DEF Checked
<1>3. \A q \in Requests \ {r} : Checked(q)'
  BY <1>1, OthersChecked
<1>4. \A t \in Tasks : Shaped(task[t])'
  BY DEF DeskInv
<1>5. QED
  BY <1>2, <1>3, <1>4 DEF DeskInv

\* A request that writes no row.
LEMMA NothingWrittenChecked ==
  ASSUME CallInv, QueueInv, DeskInv, NEW r \in Requests, UNCHANGED <<task, confirmation>>,
         \A q \in Requests \ {r} : request'[q] = request[q], Checked(r)'
  PROVE  DeskInv'
<1>1. \A q \in Requests \ {r} : Checked(q)'
  BY OthersChecked
<1>2. \A t \in Tasks : Shaped(task[t])'
  BY DEF DeskInv
<1>3. QED
  BY <1>1, <1>2 DEF DeskInv

\* One that ends without having committed.
LEMMA NothingCommittedChecked ==
  ASSUME CallInv, QueueInv, DeskInv, NEW r \in Requests, EndRequest(r), UNCHANGED <<task, confirmation>>
  PROVE  DeskInv'
  BY EndedChecked

\* A request begins with no row locked, and with its agent.
LEMMA BegunChecked ==
  ASSUME CallInv, QueueInv, DeskInv, NEW r \in Requests, NEW a \in Agents, BeginRequest(r, a)
  PROVE  DeskInv'
<1>1. ASSUME NEW kind, NEW g, NEW q, Begins(r, kind, g, q)
      PROVE  /\ request'[r] = [q EXCEPT !.kind = kind, !.agent = g]
             /\ \A p \in Requests \ {r} : request'[p] = request[p]
             /\ UNCHANGED <<task, confirmation>>
  BY <1>1 DEF Begins, CallInv, RowTypes
<1>2. ASSUME NEW kind, NEW g, NEW q, Begins(r, kind, g, q),
             request'[r].kind = kind /\ request'[r].agent = g /\ request'[r].held = {},
             kind \in {"claim", "release", "record", "confirm", "follow_up", "requeue"} => g \in Agents
      PROVE  DeskInv'
  <2>1. Checked(r)'
    BY <1>2 DEF Checked
  <2>2. QED
    BY <1>1, <1>2, <2>1, NothingWrittenChecked
<1>3. ASSUME NEW t, NEW kind \in {"claim", "release"}, Begins(r, kind, a, OnTask(t))
      PROVE  DeskInv'
  <2>1. request'[r] = [OnTask(t) EXCEPT !.kind = kind, !.agent = a]
    BY <1>1, <1>3
  <2>2. request'[r].kind = kind /\ request'[r].agent = a /\ request'[r].held = {}
    BY <2>1 DEF OnTask, NoRequest
  <2>3. QED
    BY <1>2, <1>3, <2>2
<1>4. ASSUME NEW t, NEW kind \in {"record", "correct"}, NEW outcome,
             Begins(r, kind, a, [OnTask(t) EXCEPT !.outcome = outcome])
      PROVE  DeskInv'
  <2>1. request'[r] = [[OnTask(t) EXCEPT !.outcome = outcome] EXCEPT !.kind = kind, !.agent = a]
    BY <1>1, <1>4
  <2>2. request'[r].kind = kind /\ request'[r].agent = a /\ request'[r].held = {}
    BY <2>1 DEF OnTask, NoRequest
  <2> DEFINE q == [OnTask(t) EXCEPT !.outcome = outcome]
  <2>3. Begins(r, kind, a, q)
    BY <1>4
  <2> HIDE DEF q
  <2>4. QED
    BY <1>2, <2>2, <2>3
<1>5. ASSUME NEW o, NEW kind \in {"confirm", "cancel", "reopen", "follow_up", "requeue"}, NEW g,
             kind \in {"confirm", "follow_up", "requeue"} => g \in Agents, Begins(r, kind, g, OnOrder(o))
      PROVE  DeskInv'
  <2>1. request'[r] = [OnOrder(o) EXCEPT !.kind = kind, !.agent = g]
    BY <1>1, <1>5
  <2>2. request'[r].kind = kind /\ request'[r].agent = g /\ request'[r].held = {}
    BY <2>1 DEF OnOrder, NoRequest
  <2>3. QED
    BY <1>2, <1>5, <2>2
<1>6. ASSUME NEW batch, Begins(r, "assign", NoAgent, [NoRequest EXCEPT !.batch = batch])
      PROVE  DeskInv'
  <2>1. request'[r] = [[NoRequest EXCEPT !.batch = batch] EXCEPT !.kind = "assign", !.agent = NoAgent]
    BY <1>1, <1>6
  <2>2. request'[r].kind = "assign" /\ request'[r].agent = NoAgent /\ request'[r].held = {}
    BY <2>1 DEF NoRequest
  <2> DEFINE q == [NoRequest EXCEPT !.batch = batch]
  <2>3. Begins(r, "assign", NoAgent, q)
    BY <1>6
  <2> HIDE DEF q
  <2>4. QED
    BY <1>2, <2>2, <2>3
<1>7. CASE \E t \in Tasks : task[t].status # "none" /\
              \/ \E kind \in {"claim", "release"} : Begins(r, kind, a, OnTask(t))
              \/ \E outcome \in {"confirmed", "rejected", "unreachable"} :
                   Begins(r, "record", a, [OnTask(t) EXCEPT !.outcome = outcome])
              \/ \E outcome \in {"confirmed", "rejected"} :
                   Begins(r, "correct", a, [OnTask(t) EXCEPT !.outcome = outcome])
  BY <1>3, <1>4, <1>7
<1>8. QED
  BY <1>5, <1>6, <1>7 DEF BeginRequest

\* A row is locked once what the transaction goes by has been checked of it.
LEMMA LockedChecked ==
  ASSUME CallInv, QueueInv, DeskInv, NEW r \in Requests, TakeLock(r)
  PROVE  DeskInv'
<1>1. PICK row \in Wants(r) :
        /\ IF Admits(r, row) THEN request' = [request EXCEPT ![r].held = @ \cup {row}]
                             ELSE EndRequest(r)
        /\ UNCHANGED <<task, confirmation>>
  BY DEF TakeLock
<1>2. CASE ~Admits(r, row)
  BY <1>1, <1>2, NothingCommittedChecked
<1>3. CASE Admits(r, row)
  <2>1. PICK q \in RequestRows : q = request[r]
    BY DEF CallInv, RowTypes
  <2>2. /\ request'[r] = [q EXCEPT !.held = q.held \cup {row}]
        /\ \A p \in Requests \ {r} : request'[p] = request[p]
    BY <1>1, <1>3, <2>1 DEF CallInv, RowTypes
  <2>3. /\ request'[r].held = q.held \cup {row} /\ request'[r].kind = q.kind /\ request'[r].task = q.task
        /\ request'[r].order = q.order /\ request'[r].outcome = q.outcome /\ request'[r].agent = q.agent
    BY <2>1, <2>2 DEF RequestRows
  <2>4. /\ q.kind \in {"claim", "release", "record", "correct"} => q.order \in CallOrders /\ q.task \in Tasks
        /\ q.kind \in {"confirm", "cancel", "reopen", "follow_up", "requeue"} => q.order \in CallOrders
    BY <2>1 DEF QueueInv, Found, TasksOfOrders
  <2>5. Checked(r)
    BY DEF DeskInv
  <2>6. ASSUME q.kind = "claim" PROVE Checked(r)'
    <3>1. row = q.task /\ row \notin q.held /\ Takeable(row, q.agent)
      BY <1>3, <2>1, <2>6 DEF Wants, Admits, Takeable
    <3>2. \A t \in q.held : task[t].stale
      BY <2>1, <2>5, <2>6, <3>1 DEF Checked
    <3>3. QED
      BY <1>1, <2>1, <2>3, <2>5, <2>6, <3>1, <3>2 DEF Checked, Takeable
  <2>7. ASSUME q.kind = "release" PROVE Checked(r)'
    <3>1. row = q.task /\ task[row].lockedBy = q.agent
      BY <1>3, <2>1, <2>7 DEF Wants, Admits
    <3>2. QED
      BY <1>1, <2>1, <2>3, <2>5, <2>7, <3>1 DEF Checked
  <2>8. ASSUME q.kind = "correct" PROVE Checked(r)'
    <3>1. CASE row = q.order
      <4>1. row \notin Tasks
        BY <2>4, <2>8, <3>1, CallAssumption
      <4>2. ~confirmation[row].cancelled /\ confirmation[row].state # q.outcome
        BY <1>3, <2>1, <2>8, <4>1 DEF Admits
      <4>3. QED
        BY <1>1, <2>3, <2>8, <3>1, <4>2 DEF Checked
    <3>2. CASE row # q.order
      BY <1>1, <2>1, <2>3, <2>5, <2>8, <3>2 DEF Checked
    <3>3. QED
      BY <3>1, <3>2
  <2>9. ASSUME q.kind = "confirm" PROVE Checked(r)'
    <3>1. CASE q.order \notin q.held
      <4>1. row = q.order /\ row \notin Tasks
        BY <2>1, <2>4, <2>9, <3>1, CallAssumption DEF Wants
      <4>2. Waiting(row)
        BY <1>3, <2>1, <2>9, <4>1 DEF Admits
      <4>3. (q.held \cup {row}) \cap Tasks = q.held \cap Tasks
        BY <4>1
      <4>4. QED
        BY <1>1, <2>1, <2>3, <2>5, <2>9, <4>1, <4>2, <4>3 DEF Checked, Waiting, Takeable
    <3>2. CASE q.order \in q.held
      <4>1. row \in Tasks /\ task[row].status \in OpenStatus
        BY <2>1, <2>9, <3>2 DEF Wants, OpenCalls
      <4>2. Takeable(row, q.agent)
        BY <1>3, <2>1, <2>9, <4>1 DEF Admits, Takeable
      <4>3. \A t \in (q.held \cup {row}) \cap Tasks : Takeable(t, q.agent)
        BY <2>1, <2>5, <2>9, <4>2 DEF Checked
      <4>4. Waiting(q.order) /\ q.agent \in Agents
        BY <2>1, <2>5, <2>9, <3>2 DEF Checked
      <4>5. QED
        BY <1>1, <2>1, <2>3, <2>9, <4>3, <4>4 DEF Checked, Waiting, Takeable
    <3>3. QED
      BY <3>1, <3>2
  <2>10. ASSUME q.kind = "cancel" PROVE Checked(r)'
    <3>1. CASE q.order \in q.held
      BY <1>1, <2>1, <2>3, <2>5, <2>10, <3>1 DEF Checked
    <3>2. CASE q.order \notin q.held
      <4>1. row = q.order /\ ~confirmation[row].cancelled
        BY <1>3, <2>1, <2>4, <2>10, <3>2 DEF Wants, Admits
      <4>2. QED
        BY <1>1, <2>3, <2>10, <4>1 DEF Checked
    <3>3. QED
      BY <3>1, <3>2
  <2>11. ASSUME q.kind = "reopen" PROVE Checked(r)'
    <3>1. CASE q.order \in q.held
      BY <1>1, <2>1, <2>3, <2>5, <2>11, <3>1 DEF Checked
    <3>2. CASE q.order \notin q.held
      <4>1. row = q.order /\ (confirmation[row].cancelled \/ confirmation[row].state = "rejected")
        BY <1>3, <2>1, <2>4, <2>11, <3>2 DEF Wants, Admits
      <4>2. QED
        BY <1>1, <2>3, <2>11, <4>1 DEF Checked
    <3>3. QED
      BY <3>1, <3>2
  <2>12. ASSUME q.kind \in {"follow_up", "requeue"} PROVE Checked(r)'
    <3>1. q.agent \in Agents /\ \A t \in q.held \cap Tasks : Takeable(t, q.agent)
      BY <2>1, <2>5, <2>12 DEF Checked
    <3>2. CASE row \in Tasks
      <4>1. task[row].status \in OpenStatus
        BY <2>1, <2>4, <2>12, <3>2, CallAssumption DEF Wants, OpenCalls
      <4>2. Takeable(row, q.agent)
        BY <1>3, <2>1, <2>12, <3>2, <4>1 DEF Admits, Takeable
      <4>3. \A t \in (q.held \cup {row}) \cap Tasks : Takeable(t, q.agent)
        BY <3>1, <4>2
      <4>4. QED
        BY <1>1, <2>3, <2>12, <3>1, <4>3 DEF Checked, Takeable
    <3>3. CASE row \notin Tasks
      <4>1. (q.held \cup {row}) \cap Tasks = q.held \cap Tasks
        BY <3>3
      <4>2. QED
        BY <1>1, <2>3, <2>12, <3>1, <4>1 DEF Checked, Takeable
    <3>4. QED
      BY <3>2, <3>3
  <2>13. ASSUME q.kind \notin {"claim", "release", "correct", "confirm", "cancel", "reopen", "follow_up", "requeue"}
         PROVE  Checked(r)'
    BY <2>1, <2>3, <2>5, <2>13 DEF Checked
  <2>14. Checked(r)'
    BY <2>6, <2>7, <2>8, <2>9, <2>10, <2>11, <2>12, <2>13
  <2>15. QED
    BY <1>1, <2>2, <2>14, NothingWrittenChecked
<1>4. QED
  BY <1>2, <1>3

\* A claim sweeps up tasks whose locks have lapsed.
LEMMA SweptChecked ==
  ASSUME CallInv, QueueInv, DeskInv, NEW r \in Requests, SweepLapsed(r)
  PROVE  DeskInv'
<1> DEFINE lapsed == {t \in Tasks \ LockedByOthers(r) : task[t].status = "in_progress" /\ task[t].stale}
<1>1. request[r] \in RequestRows /\ request[r].kind = "claim" /\ Checked(r)
  BY DEF SweepLapsed, CallInv, RowTypes, DeskInv
<1>2. /\ request'[r] = [request[r] EXCEPT !.swept = TRUE, !.held = lapsed]
      /\ \A p \in Requests \ {r} : request'[p] = request[p]
      /\ UNCHANGED <<task, confirmation>>
  BY DEF SweepLapsed, CallInv, RowTypes
<1>3. \A t \in lapsed : task[t].stale /\ task[t].status \in OpenStatus
  BY DEF OpenStatus
<1> HIDE DEF lapsed
<1>4. /\ request'[r].held = lapsed /\ request'[r].kind = "claim" /\ request'[r].task = request[r].task
      /\ request'[r].agent = request[r].agent
  BY <1>1, <1>2 DEF RequestRows
<1>5. Checked(r)'
  BY <1>1, <1>2, <1>3, <1>4 DEF Checked, Takeable
<1>6. QED
  BY <1>2, <1>5, NothingWrittenChecked

\* A task put back or closed has no holder.
LEMMA RowsShaped ==
  ASSUME NEW row \in TaskRows
  PROVE  /\ Shaped(FreeTask(row)) /\ CallRow(FreeTask(row)) = Desk!InLine
         /\ FreeTask(row).order = row.order /\ FreeTask(row).status = "queued"
         /\ Shaped(DoneTask(row))
         /\ DoneTask(row).order = row.order /\ DoneTask(row).status = "done"
<1>1. /\ Shaped(FreeTask(row)) /\ CallRow(FreeTask(row)) = Desk!InLine
      /\ FreeTask(row).order = row.order /\ FreeTask(row).status = "queued"
  BY DEF TaskRows, Shaped, FreeTask, CallRow, Desk!InLine
<1>2. /\ Shaped(DoneTask(row))
      /\ DoneTask(row).order = row.order /\ DoneTask(row).status = "done"
  BY DEF TaskRows, Shaped, DoneTask
<1>3. QED
  BY <1>1, <1>2

\* A claimed task has its agent.
LEMMA ClaimedShaped ==
  ASSUME NEW row \in TaskRows, NEW a \in Agents, NEW mine,
         mine = [row EXCEPT !.status = "in_progress", !.lockedBy = a, !.stale = FALSE]
  PROVE  /\ Shaped(mine) /\ CallRow(mine) = Desk!HeldBy(a)
         /\ mine.order = row.order /\ mine.status = "in_progress"
  BY CallAssumption DEF TaskRows, Shaped, CallRow, Desk!HeldBy

\* A task's row after its transaction.
LEMMA ClaimEffect ==
  ASSUME CallInv, QueueInv, DeskInv, NEW r \in Requests, CommitClaim(r)
  PROVE  LET q == request[r] IN
         /\ q.kind = "claim" /\ q.task \in Tasks /\ q.task \in q.held /\ q.agent \in Agents
         /\ q.order \in CallOrders /\ task[q.task].order = q.order
         /\ Takeable(q.task, q.agent)
         /\ \A t \in q.held : t \in Tasks /\ task[t].status \in OpenStatus /\ (t # q.task => task[t].stale)
         /\ \A t \in Tasks :
              /\ task'[t].order = task[t].order
              /\ t = q.task =>
                   Shaped(task'[t]) /\ task'[t].status = "in_progress" /\ CallRow(task'[t]) = Desk!HeldBy(q.agent)
              /\ t # q.task /\ t \in q.held =>
                   Shaped(task'[t]) /\ task'[t].status = "queued" /\ CallRow(task'[t]) = Desk!InLine
              /\ t \notin q.held => task'[t] = task[t]
         /\ EndRequest(r) /\ UNCHANGED confirmation
<1>1. PICK q \in RequestRows : q = request[r] /\ q.kind = "claim" /\ q.task \in q.held
  BY DEF CommitClaim, MayCommit, Wants, CallInv, RowTypes
<1>2. /\ q.task \in Tasks /\ task[q.task].status # "none" /\ task[q.task].order = q.order
      /\ \A t \in q.held : t \in Tasks /\ task[t].status \in OpenStatus
  BY <1>1 DEF QueueInv, Found
<1>3. q.order \in CallOrders
  BY <1>2 DEF QueueInv, TasksOfOrders
<1>4. /\ q.agent \in Agents
      /\ \A t \in q.held : IF t = q.task THEN Takeable(t, q.agent) ELSE task[t].stale
  BY <1>1 DEF DeskInv, Checked
<1>5. /\ task' = [t \in Tasks |->
           IF t = q.task THEN [task[t] EXCEPT !.status = "in_progress", !.lockedBy = q.agent, !.stale = FALSE]
           ELSE IF t \in q.held THEN FreeTask(task[t]) ELSE task[t]]
      /\ EndRequest(r) /\ UNCHANGED confirmation
  BY <1>1 DEF CommitClaim
<1>6. ASSUME NEW t \in Tasks
      PROVE  /\ task'[t].order = task[t].order
             /\ t = q.task =>
                  Shaped(task'[t]) /\ task'[t].status = "in_progress" /\ CallRow(task'[t]) = Desk!HeldBy(q.agent)
             /\ t # q.task /\ t \in q.held =>
                  Shaped(task'[t]) /\ task'[t].status = "queued" /\ CallRow(task'[t]) = Desk!InLine
             /\ t \notin q.held => task'[t] = task[t]
  <2>1. task[t] \in TaskRows
    BY DEF CallInv, RowTypes
  <2>2. CASE t = q.task
    <3>1. task'[t] = [task[t] EXCEPT !.status = "in_progress", !.lockedBy = q.agent, !.stale = FALSE]
      BY <1>5, <2>2
    <3>2. ASSUME NEW a \in Agents, NEW mine,
                 mine = [task[t] EXCEPT !.status = "in_progress", !.lockedBy = a, !.stale = FALSE]
          PROVE  /\ Shaped(mine) /\ CallRow(mine) = Desk!HeldBy(a)
                 /\ mine.order = task[t].order /\ mine.status = "in_progress"
      BY <2>1, <3>2, ClaimedShaped
    <3>3. t \in q.held
      BY <1>1, <2>2
    <3>4. QED
      BY <1>4, <2>2, <3>1, <3>2, <3>3
  <2>3. CASE t # q.task /\ t \in q.held
    <3>1. task'[t] = FreeTask(task[t])
      BY <1>5, <2>3
    <3>2. QED
      BY <2>1, <2>3, <3>1, RowsShaped
  <2>4. CASE t \notin q.held
    BY <1>1, <1>5, <2>4
  <2>5. QED
    BY <1>1, <2>2, <2>3, <2>4
<1>7. QED
  BY <1>1, <1>2, <1>3, <1>4, <1>5, <1>6

LEMMA ReleaseEffect ==
  ASSUME CallInv, QueueInv, DeskInv, NEW r \in Requests, CommitRelease(r)
  PROVE  LET q == request[r] IN
         /\ q.task \in Tasks /\ q.task \in q.held /\ q.agent \in Agents
         /\ q.order \in CallOrders /\ task[q.task].order = q.order
         /\ task[q.task].status \in OpenStatus /\ task[q.task].lockedBy = q.agent
         /\ task' = [task EXCEPT ![q.task] = FreeTask(task[q.task])]
         /\ EndRequest(r) /\ UNCHANGED confirmation
<1>1. PICK q \in RequestRows : q = request[r] /\ q.kind = "release" /\ q.task \in q.held
  BY DEF CommitRelease, MayCommit, Wants, CallInv, RowTypes
<1>2. q.task \in Tasks /\ task[q.task].order = q.order /\ task[q.task].status \in OpenStatus
  BY <1>1 DEF QueueInv, Found
<1>3. q.order \in CallOrders
  BY <1>2 DEF QueueInv, TasksOfOrders, OpenStatus
<1>4. q.agent \in Agents /\ task[q.task].lockedBy = q.agent
  BY <1>1 DEF DeskInv, Checked
<1>5. task' = [task EXCEPT ![q.task] = FreeTask(@)] /\ EndRequest(r) /\ UNCHANGED confirmation
  BY <1>1 DEF CommitRelease
<1>6. QED
  BY <1>1, <1>2, <1>3, <1>4, <1>5

LEMMA OutcomeEffect ==
  ASSUME CallInv, QueueInv, DeskInv, NEW r \in Requests, CommitOutcome(r)
  PROVE  LET q == request[r] IN
         /\ q.kind \in {"record", "correct"} /\ q.task \in Tasks /\ q.task \in q.held
         /\ q.order \in CallOrders /\ q.order \in q.held /\ task[q.task].order = q.order
         /\ q.outcome \in {"confirmed", "rejected", "unreachable"}
         /\ q.kind = "record" => /\ q.agent \in Agents /\ task[q.task].lockedBy = q.agent
                                  /\ task[q.task].status \in OpenStatus
         /\ q.kind = "correct" => /\ q.outcome # "unreachable" /\ task[q.task].status = "done"
                                   /\ ~confirmation[q.order].cancelled
                                   /\ confirmation[q.order].state \in {"confirmed", "rejected"} \ {q.outcome}
         /\ task' = [task EXCEPT ![q.task] = After(task[q.task], q.outcome)]
         /\ confirmation' = [confirmation EXCEPT ![q.order].state = q.outcome] /\ EndRequest(r)
<1>1. PICK q \in RequestRows : q = request[r] /\ q.kind \in {"record", "correct"} /\ q.task \in q.held /\ q.order \in q.held
  BY DEF CommitOutcome, MayCommit, Wants, CallInv, RowTypes
<1>2. /\ q.task \in Tasks /\ task[q.task].status # "none" /\ task[q.task].order = q.order /\ q.outcome # "none"
      /\ q.kind = "correct" => /\ q.outcome # "unreachable" /\ task[q.task].status = "done"
                                /\ confirmation[q.order].state \in {"confirmed", "rejected"}
  BY <1>1 DEF QueueInv, Found
<1>3. q.order \in CallOrders /\ q.outcome \in {"confirmed", "rejected", "unreachable"}
  BY <1>2 DEF QueueInv, TasksOfOrders, RequestRows
<1>4. q.kind = "record" => q.agent \in Agents /\ task[q.task].lockedBy = q.agent /\ task[q.task].status \in OpenStatus
  <2>1. q.kind = "record" => q.agent \in Agents /\ task[q.task].lockedBy = q.agent
    BY <1>1 DEF CallInv, RecordsHold
  <2>2. Shaped(task[q.task])
    BY <1>2 DEF DeskInv
  <2>3. QED
    BY <2>1, <2>2, CallAssumption DEF Shaped, OpenStatus
<1>5. q.kind = "correct" => ~confirmation[q.order].cancelled /\ confirmation[q.order].state # q.outcome
  BY <1>1 DEF DeskInv, Checked
<1>6. /\ task' = [task EXCEPT ![q.task] = After(@, q.outcome)]
      /\ confirmation' = [confirmation EXCEPT ![q.order].state = q.outcome] /\ EndRequest(r)
  BY <1>1 DEF CommitOutcome
<1>7. QED
  BY <1>1, <1>2, <1>3, <1>4, <1>5, <1>6

LEMMA ClosingEffect ==
  ASSUME CallInv, QueueInv, DeskInv, NEW r \in Requests, CommitConfirm(r) \/ CommitCancel(r)
  PROVE  LET q == request[r] IN
         /\ q.order \in CallOrders /\ q.order \in q.held /\ OpenCalls(q.order) \subseteq q.held
         /\ CommitConfirm(r) =>
              /\ q.agent \in Agents /\ Waiting(q.order)
              /\ \A t \in OpenCalls(q.order) : Takeable(t, q.agent)
              /\ confirmation' = [confirmation EXCEPT ![q.order].state = "confirmed"]
         /\ CommitCancel(r) =>
              /\ ~confirmation[q.order].cancelled
              /\ confirmation' = [confirmation EXCEPT ![q.order] = [state |-> "rejected", cancelled |-> TRUE]]
         /\ task' = [t \in Tasks |-> IF t \in OpenCalls(q.order) THEN DoneTask(task[t]) ELSE task[t]]
         /\ EndRequest(r)
<1>1. PICK q \in RequestRows : q = request[r]
  BY DEF CallInv, RowTypes
<1>2. Checked(r) /\ Found(r)
  BY DEF DeskInv, QueueInv
<1>3. CASE CommitConfirm(r)
  <2>1. /\ q.kind = "confirm" /\ q.order \in CallOrders /\ q.order \in q.held
        /\ OpenCalls(q.order) \subseteq q.held
    BY <1>1, <1>2, <1>3 DEF CommitConfirm, MayCommit, Wants, Found
  <2>2. q.agent \in Agents /\ Waiting(q.order) /\ \A t \in OpenCalls(q.order) : Takeable(t, q.agent)
    BY <1>1, <1>2, <2>1 DEF Checked, OpenCalls
  <2>3. /\ confirmation' = [confirmation EXCEPT ![q.order].state = "confirmed"]
        /\ task' = [t \in Tasks |-> IF t \in OpenCalls(q.order) THEN DoneTask(task[t]) ELSE task[t]]
        /\ EndRequest(r)
    BY <1>1, <1>3 DEF CommitConfirm
  <2>4. ~CommitCancel(r)
    BY <1>1, <2>1 DEF CommitCancel, MayCommit
  <2>5. QED
    BY <1>1, <2>1, <2>2, <2>3, <2>4
<1>4. CASE CommitCancel(r)
  <2>1. /\ q.kind = "cancel" /\ q.order \in CallOrders /\ q.order \in q.held
        /\ OpenCalls(q.order) \subseteq q.held
    BY <1>1, <1>2, <1>4 DEF CommitCancel, MayCommit, Wants, Found
  <2>2. ~confirmation[q.order].cancelled
    BY <1>1, <1>2, <2>1 DEF Checked
  <2>3. /\ confirmation' = [confirmation EXCEPT ![q.order] = [state |-> "rejected", cancelled |-> TRUE]]
        /\ task' = [t \in Tasks |-> IF t \in OpenCalls(q.order) THEN DoneTask(task[t]) ELSE task[t]]
        /\ EndRequest(r)
    BY <1>1, <1>4 DEF CommitCancel, ClosedByCancel
  <2>4. ~CommitConfirm(r)
    BY <1>1, <2>1 DEF CommitConfirm, MayCommit
  <2>5. QED
    BY <1>1, <2>1, <2>2, <2>3, <2>4
<1>5. QED
  BY <1>3, <1>4

\* A follow-up or a return to the queue finds the order open and nobody else on
\* its call.
LEMMA CallsAgainEffect ==
  ASSUME CallInv, QueueInv, DeskInv, NEW r \in Requests, CommitFollowUp(r) \/ CommitRequeue(r)
  PROVE  LET q == request[r] IN
         /\ q.order \in CallOrders /\ q.order \in q.held /\ OpenCalls(q.order) \subseteq q.held
         /\ q.agent \in Agents /\ StillOpen(q.order)
         /\ \A t \in OpenCalls(q.order) : Takeable(t, q.agent)
<1>1. PICK q \in RequestRows : q = request[r]
  BY DEF CallInv, RowTypes
<1>2. Checked(r) /\ Found(r)
  BY DEF DeskInv, QueueInv
<1>3. q.kind \in {"follow_up", "requeue"} /\ Wants(r) = {}
  BY <1>1 DEF CommitFollowUp, CommitRequeue, MayCommit
<1>4. q.order \in CallOrders /\ q.order \in q.held /\ OpenCalls(q.order) \subseteq q.held
  BY <1>1, <1>2, <1>3 DEF Wants, Found
<1>5. q.agent \in Agents /\ StillOpen(q.order) /\ \A t \in OpenCalls(q.order) : Takeable(t, q.agent)
  BY <1>1, <1>2, <1>3, <1>4 DEF Checked, Found, OpenCalls
<1>6. QED
  BY <1>1, <1>4, <1>5

\* Every commit keeps it.
LEMMA CommittedChecked ==
  ASSUME CallInv, QueueInv, DeskInv, NEW r \in Requests,
         \/ CommitClaim(r) \/ CommitRelease(r) \/ CommitOutcome(r) \/ CommitConfirm(r)
         \/ CommitCancel(r) \/ CommitReopen(r) \/ CommitFollowUp(r) \/ CommitRequeue(r)
  PROVE  DeskInv'
<1>1. PICK q \in RequestRows : q = request[r]
  BY DEF CallInv, RowTypes
<1>2. /\ task \in [Tasks -> TaskRows]
      /\ confirmation \in [CallOrders -> [state : {"pending", "unreachable", "confirmed", "rejected"}, cancelled : BOOLEAN]]
  BY DEF CallInv, RowTypes, QueueInv, TasksOfOrders
<1>3. CASE CommitClaim(r)
  <2>1. /\ EndRequest(r) /\ UNCHANGED confirmation
        /\ \A t \in Tasks \ request[r].held : task'[t] = task[t]
        /\ \A t \in Tasks : t \in request[r].held => Shaped(task'[t])
    BY <1>3, ClaimEffect
  <2>2. QED
    BY <2>1, EndedChecked
<1>4. CASE CommitRelease(r)
  <2>1. /\ q.task \in Tasks /\ q.task \in q.held /\ EndRequest(r) /\ UNCHANGED confirmation
        /\ task' = [task EXCEPT ![q.task] = FreeTask(task[q.task])]
    BY <1>1, <1>4, ReleaseEffect
  <2>2. Shaped(task'[q.task]) /\ \A t \in Tasks : t # q.task => task'[t] = task[t]
    BY <1>2, <2>1, RowsShaped
  <2>3. QED
    BY <1>1, <2>1, <2>2, EndedChecked
<1>5. CASE CommitOutcome(r)
  <2>1. /\ q.task \in Tasks /\ q.task \in q.held /\ q.order \in q.held /\ EndRequest(r)
        /\ confirmation' = [confirmation EXCEPT ![q.order].state = q.outcome]
        /\ task' = [task EXCEPT ![q.task] = After(task[q.task], q.outcome)]
    BY <1>1, <1>5, OutcomeEffect
  <2>2. Shaped(task'[q.task]) /\ \A t \in Tasks : t # q.task => task'[t] = task[t]
    BY <1>2, <2>1, RowsShaped DEF After
  <2>3. \A o \in CallOrders : o # q.order => confirmation'[o] = confirmation[o]
    BY <1>2, <2>1
  <2>4. QED
    BY <1>1, <2>1, <2>2, <2>3, EndedChecked
<1>6. CASE CommitConfirm(r) \/ CommitCancel(r)
  <2>1. /\ q.order \in q.held /\ OpenCalls(q.order) \subseteq q.held /\ EndRequest(r)
        /\ task' = [t \in Tasks |-> IF t \in OpenCalls(q.order) THEN DoneTask(task[t]) ELSE task[t]]
    BY <1>1, <1>6, ClosingEffect
  <2>2. \A t \in Tasks : IF t \in OpenCalls(q.order) THEN Shaped(task'[t]) ELSE task'[t] = task[t]
    BY <1>2, <2>1, RowsShaped
  <2>3. \A o \in CallOrders : o # q.order => confirmation'[o] = confirmation[o]
    BY <1>1, <1>2, <1>6, ClosingEffect
  <2>4. QED
    BY <1>1, <2>1, <2>2, <2>3, EndedChecked
<1>7. CASE OpenTask(q.order) /\ (CommitReopen(r) \/ CommitFollowUp(r) \/ CommitRequeue(r))
  <2>1. q.order \in q.held /\ EndRequest(r)
    BY <1>1, <1>7 DEF CommitReopen, CommitFollowUp, CommitRequeue, MayCommit, Wants
  <2>2. \/ UNCHANGED task
        \/ \E n \in Tasks : /\ task[n].status = "none"
                            /\ task' = [task EXCEPT ![n] = [NoneYet EXCEPT !.status = "queued", !.order = q.order]]
    BY <1>7 DEF OpenTask, NewTask
  <2>3. Shaped([NoneYet EXCEPT !.status = "queued", !.order = q.order])
    BY DEF Shaped, NoneYet
  <2>4. \A t \in Tasks : task'[t] = task[t] \/ (task[t].status = "none" /\ Shaped(task'[t]))
    BY <1>2, <2>2, <2>3
  <2>5. \A o \in CallOrders : o # q.order => confirmation'[o] = confirmation[o]
    BY <1>1, <1>2, <1>7 DEF CommitReopen, CommitFollowUp, CommitRequeue
  <2>6. QED
    BY <1>1, <2>1, <2>4, <2>5, EndedChecked
<1>8. CASE CommitFollowUp(r) /\ OpenCalls(q.order) # {}
  <2>1. q.order \in q.held /\ OpenCalls(q.order) \subseteq q.held
    BY <1>1, <1>8, CallsAgainEffect
  <2>2. /\ task' = [t \in Tasks |-> IF t \in OpenCalls(q.order) THEN FreeTask(task[t]) ELSE task[t]]
        /\ confirmation' = [confirmation EXCEPT ![q.order].state = "unreachable"] /\ EndRequest(r)
    BY <1>1, <1>8 DEF CommitFollowUp
  <2>3. \A t \in Tasks : IF t \in OpenCalls(q.order) THEN Shaped(task'[t]) ELSE task'[t] = task[t]
    BY <1>2, <2>2, RowsShaped
  <2>4. \A o \in CallOrders : o # q.order => confirmation'[o] = confirmation[o]
    BY <1>2, <2>2
  <2>5. QED
    BY <1>1, <2>1, <2>2, <2>3, <2>4, EndedChecked
<1>9. (CommitReopen(r) \/ CommitFollowUp(r) \/ CommitRequeue(r)) =>
        OpenTask(q.order) \/ (CommitFollowUp(r) /\ OpenCalls(q.order) # {})
  BY <1>1 DEF CommitReopen, CommitFollowUp, CommitRequeue
<1>10. QED
  BY <1>3, <1>4, <1>5, <1>6, <1>7, <1>8, <1>9

\* A lock lapses only on a row no transaction has locked.
LEMMA LapsedChecked ==
  ASSUME CallInv, QueueInv, DeskInv, NEW t \in Tasks, LockLapses(t)
  PROVE  DeskInv'
<1>1. /\ task' = [task EXCEPT ![t].stale = TRUE] /\ UNCHANGED <<confirmation, request>>
      /\ task[t].status = "in_progress" /\ \A r \in Requests : t \notin request[r].held
  BY DEF LockLapses
<1>2. task \in [Tasks -> TaskRows]
  BY DEF CallInv, RowTypes
<1>3. /\ \A u \in Tasks : u # t => task'[u] = task[u]
      /\ task'[t].status = task[t].status /\ task'[t].lockedBy = task[t].lockedBy
  BY <1>1, <1>2 DEF TaskRows
<1>4. \A u \in Tasks : Shaped(task[u])'
  BY <1>1, <1>3 DEF DeskInv, Shaped
<1>5. ASSUME NEW r \in Requests PROVE Checked(r)'
  <2>1. /\ Checked(r) /\ Found(r) /\ t \notin request[r].held
        /\ \A u \in request[r].held : u \in Tasks => task'[u] = task[u]
    BY <1>1, <1>3 DEF DeskInv, QueueInv
  <2>2. CASE request[r].kind = "claim"
    <3>1. \A u \in request[r].held : task'[u] = task[u]
      BY <2>1, <2>2 DEF Found
    <3>2. QED
      BY <1>1, <2>1, <2>2, <3>1 DEF Checked, Takeable
  <2>3. CASE request[r].kind = "release"
    BY <1>1, <2>1, <2>3 DEF Checked, Found
  <2>4. CASE request[r].kind \notin {"claim", "release"}
    BY <1>1, <2>1, <2>4 DEF Checked, Takeable, Waiting
  <2>5. QED
    BY <2>2, <2>3, <2>4
<1>6. QED
  BY <1>4, <1>5 DEF DeskInv

\* Every step keeps it.
LEMMA DeskInvStep == CallInv /\ QueueInv /\ DeskInv /\ [CallNext]_callVars => DeskInv'
<1> SUFFICES ASSUME CallInv, QueueInv, DeskInv, [CallNext]_callVars PROVE DeskInv'
  OBVIOUS
<1>1. ASSUME NEW r \in Requests, GoesOn(r) PROVE DeskInv'
  <2>1. CASE TakeLock(r)
    BY <2>1, LockedChecked
  <2>2. CASE SweepLapsed(r)
    BY <2>2, SweptChecked
  <2>3. CASE BreakDeadlock(r)
    BY <2>3, NothingCommittedChecked DEF BreakDeadlock
  <2>4. CASE CommitAssign(r)
    BY <2>4, NothingCommittedChecked DEF CommitAssign
  <2>5. QED
    BY <1>1, <2>1, <2>2, <2>3, <2>4, CommittedChecked DEF GoesOn
<1>2. ASSUME NEW r \in Requests, RequestLost(r) PROVE DeskInv'
  BY <1>2, NothingCommittedChecked DEF RequestLost
<1>3. ASSUME NEW r \in Requests, NEW a \in Agents, BeginRequest(r, a) PROVE DeskInv'
  BY <1>3, BegunChecked
<1>4. ASSUME NEW t \in Tasks, LockLapses(t) PROVE DeskInv'
  BY <1>4, LapsedChecked
<1>5. CASE UNCHANGED callVars
  <2>1. UNCHANGED <<task, confirmation, request>>
    BY <1>5 DEF callVars
  <2>2. QED
    BY <2>1 DEF DeskInv, Shaped, Checked, Takeable, Waiting
<1>6. QED
  BY <1>1, <1>2, <1>3, <1>4, <1>5 DEF CallNext

-----------------------------------------------------------------------------

\* Each order's call as its task has it.
CallsAre ==
    /\ DeskCalls = [o \in CallOrders |-> DeskCalls[o]]
    /\ \A o \in CallOrders : OpenCalls(o) = {} => DeskCalls[o] = Desk!NoCall
    /\ \A o \in CallOrders : \A t \in Tasks : OpenCalls(o) = {t} => DeskCalls[o] = CallRow(task[t])

LEMMA CallsKnown == CallsAre
<1>1. DeskCalls = [o \in CallOrders |-> DeskCalls[o]] /\ \A o \in CallOrders : DeskCalls[o] = CallOf(o)
  BY DEF DeskCalls
<1>2. ASSUME NEW o \in CallOrders, OpenCalls(o) = {} PROVE CallOf(o) = Desk!NoCall
  BY <1>2 DEF CallOf, Desk!NoCall
<1>3. ASSUME NEW o \in CallOrders, NEW t \in Tasks, OpenCalls(o) = {t} PROVE CallOf(o) = CallRow(task[t])
  <2>1. (CHOOSE u \in OpenCalls(o) : TRUE) = t /\ OpenCalls(o) # {}
    BY <1>3
  <2>2. QED
    BY <2>1 DEF CallOf
<1>4. QED
  BY <1>1, <1>2, <1>3 DEF CallsAre

LEMMA CallsKnownAfter == CallsAre'
  BY CallsKnown, PTL

\* A step that touches the tasks of one order leaves the calls of the others.
LEMMA OneCallChanges ==
  ASSUME QueueInv, QueueInv', NEW o \in CallOrders, NEW v, DeskCalls'[o] = v,
         \A t \in Tasks :
           \/ task'[t] = task[t]
           \/ task'[t].order = o /\ (task[t].order = o \/ task[t].status = "none")
  PROVE  DeskCalls' = [DeskCalls EXCEPT ![o] = v]
<1>1. ASSUME NEW p \in CallOrders, p # o PROVE DeskCalls'[p] = DeskCalls[p]
  <2>1. OpenCalls(p)' = OpenCalls(p)
    <3>1. ASSUME NEW t \in OpenCalls(p) PROVE t \in OpenCalls(p)'
      BY <1>1, <3>1 DEF OpenCalls, OpenStatus
    <3>2. ASSUME NEW t \in OpenCalls(p)' PROVE t \in OpenCalls(p)
      BY <1>1, <3>2 DEF OpenCalls, OpenStatus
    <3>3. QED
      BY <3>1, <3>2
  <2>2. \A t \in OpenCalls(p) : t \in Tasks /\ task'[t] = task[t]
    BY <1>1, <2>1 DEF OpenCalls, OpenStatus
  <2>3. CASE OpenCalls(p) = {}
    BY <2>1, <2>3, CallsKnown, CallsKnownAfter DEF CallsAre, Desk!NoCall
  <2>4. CASE OpenCalls(p) # {}
    <3>1. PICK t \in Tasks : OpenCalls(p) = {t}
      BY <2>4 DEF QueueInv, TaskOf
    <3>2. DeskCalls[p] = CallRow(task[t]) /\ DeskCalls'[p] = CallRow(task[t])'
      BY <2>1, <3>1, CallsKnown, CallsKnownAfter DEF CallsAre
    <3>3. QED
      BY <2>2, <3>1, <3>2 DEF CallRow
  <2>5. QED
    BY <2>3, <2>4
<1>2. DeskCalls = [p \in CallOrders |-> DeskCalls[p]] /\ DeskCalls' = [p \in CallOrders |-> DeskCalls'[p]]
  BY CallsKnown, CallsKnownAfter DEF CallsAre
<1>3. QED
  BY <1>1, <1>2

\* An order with an open task.
LEMMA OpenCallIs ==
  ASSUME QueueInv, NEW t \in Tasks, task[t].status \in OpenStatus, NEW o \in CallOrders, task[t].order = o
  PROVE  OpenCalls(o) = {t} /\ Waiting(o) /\ DeskCalls[o] = CallRow(task[t])
<1>1. t \in OpenCalls(o)
  BY DEF OpenCalls
<1>2. Waiting(o) /\ OpenCalls(o) = {t}
  BY <1>1 DEF QueueInv, TaskOf
<1>3. QED
  BY <1>2, CallsKnown DEF CallsAre

LEMMA OpenCallIsAfter ==
  ASSUME QueueInv', NEW t \in Tasks, (task[t].status \in OpenStatus)', NEW o \in CallOrders, (task[t].order = o)'
  PROVE  OpenCalls(o)' = {t} /\ Waiting(o)' /\ DeskCalls'[o] = CallRow(task[t])'
<1>1. t \in OpenCalls(o)'
  BY DEF OpenCalls
<1>2. Waiting(o)' /\ OpenCalls(o)' = {t}
  BY <1>1 DEF QueueInv, TaskOf
<1>3. QED
  BY <1>2, CallsKnownAfter DEF CallsAre

\* An order that no longer waits has no call.
LEMMA NoCallIs ==
  ASSUME QueueInv, NEW o \in CallOrders, ~Waiting(o)
  PROVE  OpenCalls(o) = {} /\ DeskCalls[o] = Desk!NoCall
  BY CallsKnown DEF CallsAre, QueueInv, TaskOf

LEMMA NoCallIsAfter ==
  ASSUME QueueInv', NEW o \in CallOrders, ~Waiting(o)'
  PROVE  DeskCalls'[o] = Desk!NoCall
  BY CallsKnownAfter DEF CallsAre, QueueInv, TaskOf, Desk!NoCall

-----------------------------------------------------------------------------

\* A claim's commit is one claim of the desk, with the lapsed calls it puts back.
LEMMA ClaimsCall ==
  ASSUME CallInv, QueueInv, QueueInv', DeskInv, NEW r \in Requests, CommitClaim(r)
  PROVE  Desk!DeskNext
<1>1. PICK q \in RequestRows : q = request[r]
  BY DEF CallInv, RowTypes
<1>2. /\ q.task \in Tasks /\ q.task \in q.held /\ q.agent \in Agents
      /\ q.order \in CallOrders /\ task[q.task].order = q.order /\ Takeable(q.task, q.agent)
      /\ \A t \in q.held : t \in Tasks /\ task[t].status \in OpenStatus /\ (t # q.task => task[t].stale)
      /\ \A t \in Tasks :
           /\ task'[t].order = task[t].order
           /\ t = q.task =>
                task'[t].status = "in_progress" /\ CallRow(task'[t]) = Desk!HeldBy(q.agent)
           /\ t # q.task /\ t \in q.held =>
                task'[t].status = "queued" /\ CallRow(task'[t]) = Desk!InLine
           /\ t \notin q.held => task'[t] = task[t]
      /\ UNCHANGED confirmation
  BY <1>1, ClaimEffect
<1> DEFINE back == {p \in CallOrders : p # q.order /\ \E t \in q.held : task[t].order = p}
<1>3. DeskCalls[q.order] = CallRow(task[q.task])
  BY <1>2, OpenCallIs DEF Takeable
<1>4. Desk!FreeFor(q.order, q.agent)
  BY <1>2, <1>3 DEF Desk!FreeFor, Desk!NobodyElse, CallRow, Takeable
<1>5. back \in SUBSET {p \in CallOrders : DeskCalls[p].lapsed}
  <2> SUFFICES ASSUME NEW p \in CallOrders, p # q.order, NEW t \in q.held, task[t].order = p
               PROVE  DeskCalls[p].lapsed
    OBVIOUS
  <2>1. DeskCalls[p] = CallRow(task[t]) /\ task[t].stale
    BY <1>2, OpenCallIs
  <2>2. QED
    BY <2>1 DEF CallRow
<1>6. ASSUME NEW p \in CallOrders
      PROVE  DeskCalls'[p] = IF p = q.order THEN Desk!HeldBy(q.agent)
                         ELSE IF p \in back THEN Desk!InLine ELSE DeskCalls[p]
  <2>1. CASE p = q.order
    <3>1. DeskCalls'[p] = CallRow(task'[q.task])
      BY <1>2, <2>1, OpenCallIsAfter DEF CallRow, OpenStatus
    <3>2. QED
      BY <1>2, <2>1, <3>1
  <2>2. CASE p # q.order /\ p \in back
    <3>1. PICK t \in q.held : task[t].order = p
      BY <2>2
    <3>2. t \in Tasks /\ t # q.task
      BY <1>2, <2>2, <3>1
    <3>3. DeskCalls'[p] = CallRow(task'[t])
      BY <1>2, <3>1, <3>2, OpenCallIsAfter DEF CallRow, OpenStatus
    <3>4. QED
      BY <1>2, <2>2, <3>2, <3>3
  <2>3. CASE p # q.order /\ p \notin back
    <3>1. \A t \in Tasks : task[t].order = p => task'[t] = task[t]
      BY <1>2, <2>3
    <3>2. OpenCalls(p)' = OpenCalls(p)
      BY <1>2, <3>1 DEF OpenCalls
    <3>3. CASE OpenCalls(p) = {}
      BY <2>3, <3>2, <3>3, CallsKnown, CallsKnownAfter DEF CallsAre, Desk!NoCall
    <3>4. CASE OpenCalls(p) # {}
      <4>1. PICK t \in Tasks : OpenCalls(p) = {t}
        BY <3>4 DEF QueueInv, TaskOf
      <4>2. DeskCalls[p] = CallRow(task[t]) /\ DeskCalls'[p] = CallRow(task[t])'
        BY <3>2, <4>1, CallsKnown, CallsKnownAfter DEF CallsAre
      <4>3. task'[t] = task[t]
        BY <3>1, <4>1 DEF OpenCalls
      <4>4. QED
        BY <2>3, <4>2, <4>3 DEF CallRow
    <3>5. QED
      BY <3>3, <3>4
  <2>4. QED
    BY <2>1, <2>2, <2>3
<1>7. DeskCalls' = [p \in CallOrders |-> IF p = q.order THEN Desk!HeldBy(q.agent)
                                   ELSE IF p \in back THEN Desk!InLine ELSE DeskCalls[p]]
  BY <1>6, CallsKnownAfter DEF CallsAre
<1> HIDE DEF back
<1>8. Desk!ClaimCall(q.order, q.agent)
  BY <1>2, <1>4, <1>5, <1>7 DEF Desk!ClaimCall
<1>9. QED
  BY <1>2, <1>8 DEF Desk!DeskNext

\* A release puts the call back in line.
LEMMA ReleasesCall ==
  ASSUME CallInv, QueueInv, QueueInv', DeskInv, NEW r \in Requests, CommitRelease(r)
  PROVE  Desk!DeskNext
<1>1. PICK q \in RequestRows : q = request[r]
  BY DEF CallInv, RowTypes
<1>2. /\ q.task \in Tasks /\ q.agent \in Agents
      /\ q.order \in CallOrders /\ task[q.task].order = q.order
      /\ task[q.task].status \in OpenStatus /\ task[q.task].lockedBy = q.agent
      /\ task' = [task EXCEPT ![q.task] = FreeTask(task[q.task])]
      /\ UNCHANGED confirmation
  BY <1>1, ReleaseEffect
<1>3. /\ task'[q.task].order = q.order /\ task'[q.task].status = "queued"
      /\ CallRow(task'[q.task]) = Desk!InLine
      /\ \A t \in Tasks : t # q.task => task'[t] = task[t]
  <2>1. task \in [Tasks -> TaskRows]
    BY DEF CallInv, RowTypes
  <2>2. QED
    BY <1>2, <2>1, RowsShaped
<1>4. DeskCalls[q.order].by = q.agent
  <2>1. DeskCalls[q.order] = CallRow(task[q.task])
    BY <1>2, OpenCallIs
  <2>2. QED
    BY <1>2, <2>1 DEF CallRow
<1>5. DeskCalls'[q.order] = CallRow(task'[q.task])
  BY <1>2, <1>3, OpenCallIsAfter DEF CallRow, OpenStatus
<1>6. DeskCalls' = [DeskCalls EXCEPT ![q.order] = Desk!InLine]
  BY <1>2, <1>3, <1>5, OneCallChanges
<1>7. Desk!ReleaseCall(q.order, q.agent)
  BY <1>2, <1>4, <1>6 DEF Desk!ReleaseCall
<1>8. QED
  BY <1>2, <1>7 DEF Desk!DeskNext

\* An outcome is what the holder of the call records; a correction finds it ended.
LEMMA OutcomesAnswer ==
  ASSUME CallInv, QueueInv, QueueInv', DeskInv, NEW r \in Requests, CommitOutcome(r)
  PROVE  Desk!DeskNext
<1>1. PICK q \in RequestRows : q = request[r]
  BY DEF CallInv, RowTypes
<1>2. /\ q.kind \in {"record", "correct"} /\ q.task \in Tasks
      /\ q.order \in CallOrders /\ task[q.task].order = q.order
      /\ q.outcome \in {"confirmed", "rejected", "unreachable"}
      /\ q.kind = "record" => /\ q.agent \in Agents /\ task[q.task].lockedBy = q.agent
                               /\ task[q.task].status \in OpenStatus
      /\ q.kind = "correct" => /\ q.outcome # "unreachable" /\ task[q.task].status = "done"
                                /\ ~confirmation[q.order].cancelled
                                /\ confirmation[q.order].state \in {"confirmed", "rejected"} \ {q.outcome}
      /\ task' = [task EXCEPT ![q.task] = After(task[q.task], q.outcome)]
      /\ confirmation' = [confirmation EXCEPT ![q.order].state = q.outcome]
  BY <1>1, OutcomeEffect
<1>3. /\ task'[q.task].order = q.order
      /\ q.outcome = "unreachable" => task'[q.task].status = "queued" /\ CallRow(task'[q.task]) = Desk!InLine
      /\ \A t \in Tasks : t # q.task => task'[t] = task[t]
  <2>1. task \in [Tasks -> TaskRows]
    BY DEF CallInv, RowTypes
  <2>2. task'[q.task] = After(task[q.task], q.outcome) /\ \A t \in Tasks : t # q.task => task'[t] = task[t]
    BY <1>2, <2>1
  <2>3. QED
    BY <1>2, <2>1, <2>2, RowsShaped DEF After
<1>4. Waiting(q.order)' <=> ~confirmation[q.order].cancelled /\ q.outcome = "unreachable"
  <2>1. confirmation'[q.order].state = q.outcome /\ confirmation'[q.order].cancelled = confirmation[q.order].cancelled
    BY <1>2 DEF QueueInv, TasksOfOrders
  <2>2. QED
    BY <1>2, <2>1 DEF Waiting
<1>5. CASE q.kind = "record"
  <2>1. DeskCalls[q.order] = CallRow(task[q.task]) /\ Waiting(q.order)
    BY <1>2, <1>5, OpenCallIs
  <2>2. DeskCalls[q.order].by = q.agent
    BY <1>2, <1>5, <2>1 DEF CallRow
  <2>3. DeskCalls'[q.order] = IF q.outcome = "unreachable" THEN Desk!InLine ELSE Desk!NoCall
    <3>1. CASE q.outcome = "unreachable"
      <4>1. DeskCalls'[q.order] = CallRow(task'[q.task])
        BY <1>2, <1>3, <3>1, OpenCallIsAfter DEF CallRow, OpenStatus
      <4>2. QED
        BY <1>3, <3>1, <4>1
    <3>2. CASE q.outcome # "unreachable"
      BY <1>2, <1>4, <3>2, NoCallIsAfter
    <3>3. QED
      BY <3>1, <3>2
  <2> DEFINE v == IF q.outcome = "unreachable" THEN Desk!InLine ELSE Desk!NoCall
  <2>4. DeskCalls'[q.order] = v /\ \A t \in Tasks : task'[t] = task[t] \/ (task'[t].order = q.order /\ task[t].order = q.order)
    BY <1>2, <1>3, <2>3
  <2> HIDE DEF v
  <2>5. DeskCalls' = [DeskCalls EXCEPT ![q.order] = v]
    BY <1>2, <2>4, OneCallChanges
  <2>6. ~confirmation[q.order].cancelled /\ confirmation[q.order].state \in {"pending", "unreachable"}
    BY <2>1 DEF Waiting
  <2>7. Desk!RecordAnswer(q.order, q.agent, q.outcome)
    BY <1>2, <2>2, <2>5, <2>6 DEF Desk!RecordAnswer, v
  <2>8. QED
    BY <1>2, <1>5, <2>7 DEF Desk!DeskNext
<1>6. CASE q.kind = "correct"
  <2>1. ~Waiting(q.order) /\ ~Waiting(q.order)'
    BY <1>2, <1>4, <1>6 DEF Waiting
  <2>2. DeskCalls[q.order] = Desk!NoCall /\ DeskCalls'[q.order] = Desk!NoCall
    BY <1>2, <2>1, NoCallIs, NoCallIsAfter
  <2>3. \A t \in Tasks : task'[t] = task[t] \/ (task'[t].order = q.order /\ task[t].order = q.order)
    BY <1>2, <1>3
  <2>4. DeskCalls' = [DeskCalls EXCEPT ![q.order] = Desk!NoCall]
    BY <1>2, <2>2, <2>3, OneCallChanges
  <2>5. DeskCalls' = DeskCalls
    BY <1>2, <2>2, <2>4, CallsKnown DEF CallsAre
  <2>6. ~DeskCalls[q.order].open
    BY <2>2 DEF Desk!NoCall
  <2>7. Desk!CorrectAnswer(q.order, q.outcome)
    BY <1>2, <1>6, <2>5, <2>6 DEF Desk!CorrectAnswer
  <2>8. QED
    BY <1>2, <1>6, <2>7 DEF Desk!DeskNext
<1>7. QED
  BY <1>2, <1>5, <1>6

\* The order page confirms what nobody else is calling, and cancels whoever calls.
LEMMA ClosingsEnd ==
  ASSUME CallInv, QueueInv, QueueInv', DeskInv, NEW r \in Requests, CommitConfirm(r) \/ CommitCancel(r)
  PROVE  Desk!DeskNext
<1>1. PICK q \in RequestRows : q = request[r]
  BY DEF CallInv, RowTypes
<1>2. /\ q.order \in CallOrders
      /\ CommitConfirm(r) =>
           /\ q.agent \in Agents /\ Waiting(q.order)
           /\ \A t \in OpenCalls(q.order) : Takeable(t, q.agent)
           /\ confirmation' = [confirmation EXCEPT ![q.order].state = "confirmed"]
      /\ CommitCancel(r) =>
           /\ ~confirmation[q.order].cancelled
           /\ confirmation' = [confirmation EXCEPT ![q.order] = [state |-> "rejected", cancelled |-> TRUE]]
      /\ task' = [t \in Tasks |-> IF t \in OpenCalls(q.order) THEN DoneTask(task[t]) ELSE task[t]]
  BY <1>1, ClosingEffect
<1>3. \A t \in Tasks : task'[t] = task[t] \/ (task'[t].order = q.order /\ task[t].order = q.order)
  <2>1. ASSUME NEW t \in Tasks, t \in OpenCalls(q.order)
        PROVE  task'[t].order = q.order /\ task[t].order = q.order
    <3>1. task'[t] = DoneTask(task[t]) /\ task[t].order = q.order /\ task[t] \in TaskRows
      BY <1>2, <2>1 DEF OpenCalls, CallInv, RowTypes
    <3>2. QED
      BY <3>1, RowsShaped
  <2>2. QED
    BY <1>2, <2>1
<1>4. ~Waiting(q.order)'
  <2>1. confirmation \in [CallOrders -> [state : {"pending", "unreachable", "confirmed", "rejected"}, cancelled : BOOLEAN]]
    BY DEF QueueInv, TasksOfOrders
  <2>2. confirmation'[q.order].state \in {"confirmed", "rejected"}
    BY <1>2, <2>1
  <2>3. QED
    BY <2>2 DEF Waiting
<1>5. DeskCalls' = [DeskCalls EXCEPT ![q.order] = Desk!NoCall]
  BY <1>2, <1>3, <1>4, NoCallIsAfter, OneCallChanges
<1>6. CASE CommitConfirm(r)
  <2>1. PICK t \in Tasks : OpenCalls(q.order) = {t}
    BY <1>2, <1>6 DEF QueueInv, TaskOf
  <2>2. DeskCalls[q.order] = CallRow(task[t]) /\ Takeable(t, q.agent)
    BY <1>2, <1>6, <2>1, CallsKnown DEF CallsAre
  <2>3. Desk!FreeFor(q.order, q.agent)
    BY <2>2 DEF Desk!FreeFor, Desk!NobodyElse, CallRow, Takeable
  <2>4. ~confirmation[q.order].cancelled /\ confirmation[q.order].state \in {"pending", "unreachable"}
    BY <1>2, <1>6 DEF Waiting
  <2>5. Desk!ConfirmOrder(q.order, q.agent)
    BY <1>2, <1>5, <1>6, <2>3, <2>4 DEF Desk!ConfirmOrder
  <2>6. QED
    BY <1>2, <1>6, <2>5 DEF Desk!DeskNext
<1>7. CASE CommitCancel(r)
  <2>1. Desk!CancelOrder(q.order)
    BY <1>2, <1>5, <1>7 DEF Desk!CancelOrder
  <2>2. QED
    BY <1>2, <2>1 DEF Desk!DeskNext
<1>8. QED
  BY <1>6, <1>7

\* A new task puts the order's call in line.
LEMMA NewTaskQueues ==
  ASSUME CallInv, QueueInv, QueueInv', NEW o \in CallOrders, OpenCalls(o) = {}, OpenTask(o)
  PROVE  DeskCalls' = [DeskCalls EXCEPT ![o] = Desk!InLine]
<1>1. PICK n \in Tasks : /\ task[n].status = "none"
                         /\ task' = [task EXCEPT ![n] = [NoneYet EXCEPT !.status = "queued", !.order = o]]
  BY DEF OpenTask, NewTask
<1>2. /\ \A t \in Tasks : t # n => task'[t] = task[t]
      /\ task'[n].order = o /\ task'[n].status = "queued" /\ CallRow(task'[n]) = Desk!InLine
  BY <1>1 DEF CallInv, RowTypes, NoneYet, CallRow, Desk!InLine
<1>3. DeskCalls'[o] = CallRow(task'[n])
  BY <1>2, OpenCallIsAfter DEF CallRow, OpenStatus
<1>4. QED
  BY <1>1, <1>2, <1>3, OneCallChanges

\* A reopened order had no call, and gets one.
LEMMA ReopeningsQueue ==
  ASSUME CallInv, QueueInv, QueueInv', DeskInv, NEW r \in Requests, CommitReopen(r)
  PROVE  Desk!DeskNext
<1>1. PICK q \in RequestRows : q = request[r] /\ q.kind = "reopen" /\ q.order \in q.held /\ q.order \in CallOrders
  BY DEF CommitReopen, MayCommit, Wants, CallInv, RowTypes, QueueInv, Found
<1>2. confirmation[q.order].cancelled \/ confirmation[q.order].state = "rejected"
  BY <1>1 DEF DeskInv, Checked
<1>3. OpenCalls(q.order) = {} /\ DeskCalls[q.order] = Desk!NoCall
  BY <1>1, <1>2, NoCallIs DEF Waiting
<1>4. /\ confirmation' = [confirmation EXCEPT ![q.order] = [state |-> "pending", cancelled |-> FALSE]]
      /\ OpenTask(q.order)
  BY <1>1 DEF CommitReopen
<1>5. DeskCalls' = [DeskCalls EXCEPT ![q.order] = Desk!InLine]
  BY <1>1, <1>3, <1>4, NewTaskQueues
<1>6. ~DeskCalls[q.order].open
  BY <1>3 DEF Desk!NoCall
<1>7. Desk!ReopenOrder(q.order)
  BY <1>1, <1>2, <1>4, <1>5, <1>6 DEF Desk!ReopenOrder
<1>8. QED
  BY <1>1, <1>7 DEF Desk!DeskNext

\* Nobody else is on the call of an order that is followed up or taken back.
LEMMA NobodyElseCalls ==
  ASSUME QueueInv, NEW o \in CallOrders, NEW a \in Agents, \A t \in OpenCalls(o) : Takeable(t, a)
  PROVE  /\ Desk!NobodyElse(o, a)
         /\ OpenCalls(o) = {} => ~DeskCalls[o].open
         /\ OpenCalls(o) # {} => DeskCalls[o].open
<1>1. CASE OpenCalls(o) = {}
  <2>1. DeskCalls[o] = Desk!NoCall
    BY <1>1, CallsKnown DEF CallsAre
  <2>2. QED
    BY <1>1, <2>1 DEF Desk!NobodyElse, Desk!NoCall
<1>2. CASE OpenCalls(o) # {}
  <2>1. PICK t \in Tasks : OpenCalls(o) = {t}
    BY <1>2 DEF QueueInv, TaskOf
  <2>2. DeskCalls[o] = CallRow(task[t]) /\ Takeable(t, a)
    BY <2>1, CallsKnown DEF CallsAre
  <2>3. QED
    BY <1>2, <2>2 DEF Desk!NobodyElse, CallRow, Takeable
<1>3. QED
  BY <1>1, <1>2

\* A follow-up puts the call in line, or opens it again.
LEMMA FollowUpsCall ==
  ASSUME CallInv, QueueInv, QueueInv', DeskInv, NEW r \in Requests, CommitFollowUp(r)
  PROVE  Desk!DeskNext
<1>1. PICK q \in RequestRows : q = request[r]
  BY DEF CallInv, RowTypes
<1>2. /\ q.order \in CallOrders /\ q.agent \in Agents /\ StillOpen(q.order)
      /\ \A t \in OpenCalls(q.order) : Takeable(t, q.agent)
  BY <1>1, CallsAgainEffect
<1>3. /\ confirmation' = [confirmation EXCEPT ![q.order].state = "unreachable"]
      /\ IF OpenCalls(q.order) = {} THEN OpenTask(q.order)
         ELSE task' = [t \in Tasks |-> IF t \in OpenCalls(q.order) THEN FreeTask(task[t]) ELSE task[t]]
  BY <1>1 DEF CommitFollowUp
<1>4. DeskCalls' = [DeskCalls EXCEPT ![q.order] = Desk!InLine]
  <2>1. CASE OpenCalls(q.order) = {}
    BY <1>2, <1>3, <2>1, NewTaskQueues
  <2>2. CASE OpenCalls(q.order) # {}
    <3>1. PICK t \in Tasks : OpenCalls(q.order) = {t}
      BY <1>2, <2>2 DEF QueueInv, TaskOf
    <3>2. task[t].order = q.order /\ task[t] \in TaskRows
      BY <3>1 DEF OpenCalls, CallInv, RowTypes
    <3>3. task'[t] = FreeTask(task[t]) /\ \A u \in Tasks : u # t => task'[u] = task[u]
      BY <1>3, <2>2, <3>1
    <3>4. /\ task'[t].order = q.order /\ task'[t].status = "queued"
          /\ task'[t].lockedBy = NoAgent /\ task'[t].stale = FALSE
      BY <3>2, <3>3 DEF FreeTask, TaskRows
    <3>5. DeskCalls'[q.order] = CallRow(task'[t])
      BY <1>2, <3>4, OpenCallIsAfter DEF CallRow, OpenStatus
    <3>6. CallRow(task'[t]) = Desk!InLine
      BY <3>4 DEF CallRow, Desk!InLine
    <3>7. QED
      BY <1>2, <3>2, <3>3, <3>4, <3>5, <3>6, OneCallChanges
  <2>3. QED
    BY <2>1, <2>2
<1>5. Desk!FollowUp(q.order, q.agent)
  BY <1>2, <1>3, <1>4, NobodyElseCalls DEF Desk!FollowUp, StillOpen
<1>6. QED
  BY <1>2, <1>5 DEF Desk!DeskNext

\* An order taken back to the queue keeps its call, or gets one.
LEMMA RequeuesCall ==
  ASSUME CallInv, QueueInv, QueueInv', DeskInv, NEW r \in Requests, CommitRequeue(r)
  PROVE  Desk!DeskNext
<1>1. PICK q \in RequestRows : q = request[r]
  BY DEF CallInv, RowTypes
<1>2. /\ q.order \in CallOrders /\ q.agent \in Agents /\ StillOpen(q.order)
      /\ \A t \in OpenCalls(q.order) : Takeable(t, q.agent)
  BY <1>1, CallsAgainEffect
<1>3. confirmation' = [confirmation EXCEPT ![q.order].state = "pending"] /\ OpenTask(q.order)
  BY <1>1 DEF CommitRequeue
<1>4. DeskCalls' = [DeskCalls EXCEPT ![q.order] = IF DeskCalls[q.order].open THEN DeskCalls[q.order] ELSE Desk!InLine]
  <2>1. CASE OpenCalls(q.order) = {}
    <3>1. ~DeskCalls[q.order].open
      BY <1>2, <2>1, NobodyElseCalls
    <3>2. QED
      BY <1>2, <1>3, <2>1, <3>1, NewTaskQueues
  <2>2. CASE OpenCalls(q.order) # {}
    <3>1. DeskCalls[q.order].open
      BY <1>2, <2>2, NobodyElseCalls
    <3>2. UNCHANGED task
      BY <1>3, <2>2 DEF OpenTask
    <3>3. UNCHANGED DeskCalls
      BY <3>2 DEF DeskCalls, CallOf, OpenCalls, CallRow
    <3>4. DeskCalls = [DeskCalls EXCEPT ![q.order] = DeskCalls[q.order]]
      BY CallsKnown DEF CallsAre
    <3>5. QED
      BY <3>1, <3>3, <3>4
  <2>3. QED
    BY <2>1, <2>2
<1>5. Desk!Requeue(q.order, q.agent)
  BY <1>2, <1>3, <1>4, NobodyElseCalls DEF Desk!Requeue, StillOpen
<1>6. QED
  BY <1>2, <1>5 DEF Desk!DeskNext

\* A lock lapses on the task of a call somebody holds.
LEMMA LapsesCall ==
  ASSUME CallInv, QueueInv, QueueInv', DeskInv, NEW t \in Tasks, LockLapses(t)
  PROVE  Desk!DeskNext
<1>1. PICK o \in CallOrders : o = task[t].order
  BY DEF LockLapses, QueueInv, TasksOfOrders
<1>2. /\ task[t].status = "in_progress" /\ ~task[t].stale
      /\ task' = [task EXCEPT ![t].stale = TRUE] /\ UNCHANGED confirmation
  BY DEF LockLapses
<1>3. task \in [Tasks -> TaskRows]
  BY DEF CallInv, RowTypes
<1>4. /\ \A u \in Tasks : u # t => task'[u] = task[u]
      /\ task'[t].status = "in_progress" /\ task'[t].order = o
      /\ task'[t].lockedBy = task[t].lockedBy /\ task'[t].stale = TRUE
  BY <1>1, <1>2, <1>3 DEF TaskRows
<1>5. DeskCalls[o] = CallRow(task[t]) /\ DeskCalls'[o] = CallRow(task'[t])
  BY <1>1, <1>2, <1>4, OpenCallIs, OpenCallIsAfter DEF CallRow, OpenStatus
<1>6. DeskCalls'[o] = Desk!OverdueOf(DeskCalls[o].by)
  <2>1. DeskCalls[o].by = task[t].lockedBy
    BY <1>5 DEF CallRow
  <2>2. DeskCalls'[o] = [open |-> TRUE, by |-> task'[t].lockedBy, lapsed |-> task'[t].stale]
    BY <1>5 DEF CallRow
  <2>3. DeskCalls'[o] = [open |-> TRUE, by |-> task[t].lockedBy, lapsed |-> TRUE]
    BY <2>2, <1>4, Zenon
  <2>4. QED
    BY <2>1, <2>3, Zenon DEF Desk!OverdueOf
<1>7. DeskCalls' = [DeskCalls EXCEPT ![o] = Desk!OverdueOf(DeskCalls[o].by)]
  BY <1>1, <1>4, <1>6, OneCallChanges
<1>8. Shaped(task[t])
  BY DEF DeskInv
<1>9. DeskCalls[o].by # NoAgent /\ ~DeskCalls[o].lapsed
  BY <1>2, <1>5, <1>8 DEF CallRow, Shaped
<1>10. Desk!CallLapses(o)
  BY <1>2, <1>7, <1>9 DEF Desk!CallLapses
<1>11. QED
  BY <1>10 DEF Desk!DeskNext

\* A step that writes no row is none of the desk's.
LEMMA DeskStutters ==
  ASSUME UNCHANGED <<task, confirmation>>
  PROVE  UNCHANGED Desk!deskVars
  BY DEF Desk!deskVars, DeskCalls, CallOf, OpenCalls, CallRow

\* The initial states map to the desk's initial state ...
LEMMA DeskInitial == CallInit => Desk!DeskInit
<1> SUFFICES ASSUME CallInit PROVE Desk!DeskInit
  OBVIOUS
<1>1. QueueInv /\ DeskInv
  BY QueueInitInv, DeskInitInv
<1>2. confirmation = [o \in CallOrders |-> [state |-> "pending", cancelled |-> FALSE]]
  BY DEF CallInit
<1>3. ASSUME NEW o \in CallOrders PROVE DeskCalls[o] = Desk!InLine
  <2>1. PICK t \in Tasks : OpenCalls(o) = {t}
    BY <1>1, <1>2 DEF QueueInv, TaskOf, Waiting
  <2>2. DeskCalls[o] = CallRow(task[t])
    BY <2>1, CallsKnown DEF CallsAre
  <2>3. task[t].lockedBy = NoAgent /\ task[t].stale = FALSE
    BY DEF CallInit, NoneYet
  <2>4. QED
    BY <2>2, <2>3 DEF CallRow, Desk!InLine
<1>4. DeskCalls = [o \in CallOrders |-> Desk!InLine]
  BY <1>3, CallsKnown DEF CallsAre
<1>5. QED
  BY <1>2, <1>4 DEF Desk!DeskInit

\* ... and every step to a step of it or to a stutter.
LEMMA DeskStep ==
  CallInv /\ QueueInv /\ QueueInv' /\ DeskInv /\ [CallNext]_callVars => [Desk!DeskNext]_(Desk!deskVars)
<1> SUFFICES ASSUME CallInv, QueueInv, QueueInv', DeskInv, [CallNext]_callVars
             PROVE  Desk!DeskNext \/ UNCHANGED Desk!deskVars
  OBVIOUS
<1>1. ASSUME NEW r \in Requests, GoesOn(r) PROVE Desk!DeskNext \/ UNCHANGED Desk!deskVars
  <2>1. CASE TakeLock(r) \/ SweepLapsed(r) \/ BreakDeadlock(r) \/ CommitAssign(r)
    BY <2>1, DeskStutters DEF TakeLock, SweepLapsed, BreakDeadlock, CommitAssign
  <2>2. CASE CommitClaim(r)
    BY <2>2, ClaimsCall
  <2>3. CASE CommitRelease(r)
    BY <2>3, ReleasesCall
  <2>4. CASE CommitOutcome(r)
    BY <2>4, OutcomesAnswer
  <2>5. CASE CommitConfirm(r) \/ CommitCancel(r)
    BY <2>5, ClosingsEnd
  <2>6. CASE CommitReopen(r)
    BY <2>6, ReopeningsQueue
  <2>7. CASE CommitFollowUp(r)
    BY <2>7, FollowUpsCall
  <2>8. CASE CommitRequeue(r)
    BY <2>8, RequeuesCall
  <2>9. QED
    BY <1>1, <2>1, <2>2, <2>3, <2>4, <2>5, <2>6, <2>7, <2>8 DEF GoesOn
<1>2. ASSUME NEW r \in Requests, RequestLost(r) PROVE UNCHANGED Desk!deskVars
  BY <1>2, DeskStutters DEF RequestLost
<1>3. ASSUME NEW r \in Requests, NEW a \in Agents, BeginRequest(r, a) PROVE UNCHANGED Desk!deskVars
  BY <1>3, DeskStutters DEF BeginRequest, Begins
<1>4. ASSUME NEW t \in Tasks, LockLapses(t) PROVE Desk!DeskNext
  BY <1>4, LapsesCall
<1>5. CASE UNCHANGED callVars
  BY <1>5, DeskStutters DEF callVars
<1>6. QED
  BY <1>1, <1>2, <1>3, <1>4, <1>5 DEF CallNext

\* However the row locks of claims, sweeps, releases, outcomes and the order
\* page's transactions interleave, each transaction takes effect as if it were
\* one instant of a desk where nobody locks anything.
THEOREM QueueImplementsCallDesk == CallSpec => ImplementsCallDesk
<1>1. CallInit => CallInv /\ QueueInv /\ DeskInv /\ Desk!DeskInit
  BY CallInitInv, QueueInitInv, DeskInitInv, DeskInitial
<1>2. CallInv /\ QueueInv /\ DeskInv /\ [CallNext]_callVars
        => CallInv' /\ QueueInv' /\ DeskInv' /\ [Desk!DeskNext]_(Desk!deskVars)
  BY CallStep, QueueStep, DeskInvStep, DeskStep
<1>3. QED
  BY <1>1, <1>2, PTL DEF CallSpec, ImplementsCallDesk, Desk!DeskSpec

\* A task has an agent exactly while it is in progress, whichever request wrote
\* it last, and two transactions hold no row together.
THEOREM CallTyped == CallSpec => []CallTypes
<1>1. CallInv /\ QueueInv /\ DeskInv => CallTypes
  <2> SUFFICES ASSUME CallInv, QueueInv, DeskInv PROVE CallTypes
    OBVIOUS
  <2>1. ASSUME NEW t \in Tasks
        PROVE  /\ task[t].status \in {"none", "done"} \cup OpenStatus
               /\ task[t].lockedBy \in Agents \cup {NoAgent}
    BY DEF CallInv, RowTypes, TaskRows, OpenStatus
  <2>2. ASSUME NEW t \in Tasks PROVE task[t].status = "in_progress" <=> task[t].lockedBy # NoAgent
    BY DEF DeskInv, Shaped
  <2>3. QED
    BY <2>1, <2>2 DEF CallTypes, CallInv, RowLocks, QueueInv, TasksOfOrders
<1>2. QED
  BY <1>1, CallInitInv, QueueInitInv, DeskInitInv, CallStep, QueueStep, DeskInvStep, PTL DEF CallSpec
=============================================================================
