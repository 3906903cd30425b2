------------------------------- MODULE Outbox -------------------------------
(***************************************************************************)
(* The event outbox of src/src/core/outbox/outbox.js over the job queue:   *)
(* an event is written in the transaction of the change it is about, the   *)
(* dispatcher moves committed events into the queue, the events/dispatch   *)
(* handler adds one job per consumer under a dedupe key, and each consumer *)
(* is retried on its own.  An event that could not be written is handed to *)
(* the consumers inside the process right after the commit.                *)
(***************************************************************************)
EXTENDS TaskQueue, FiniteSets

CONSTANTS
    Events,         \* domain events a behaviour may record
    Consumers,      \* consumersFor(event.type)
    Dispatch,       \* the events/dispatch handler
    Subject,        \* [Jobs -> Events \X (Consumers \cup {Dispatch})]: job and dedupe key
    MaxStarts,      \* bound: executions of one job
    MaxRunning,     \* bound: executions at one time
    MaxRevived      \* bound: jobs retried by hand, each once

ASSUME OutboxAssumption ==
    /\ Dispatch \notin Consumers
    /\ Subject \in [Jobs -> Events \X (Consumers \cup {Dispatch})]
    /\ \A e \in Events : \E j \in Jobs : Subject[j] = <<e, Dispatch>>
    /\ MaxStarts \in Nat /\ MaxRunning \in Nat /\ MaxRevived \in Nat

VARIABLES
    change,         \* the business transaction each event is recorded in
    row,            \* its domain_events row
    inline,         \* consumers an in-process delivery has still to call
    progress,       \* <<job, execution, consumer>>: what handlers have done so far
    handled,        \* consumers that did their work for an event
    gaveUp          \* jobs that ever ended as failed

outboxVars == <<change, row, inline, progress, handled, gaveUp>>
vars == <<taskVars, outboxVars>>

Rows(e, h)      == {j \in Jobs : Subject[j] = <<e, h>>}
About(e)        == {j \in Jobs : Subject[j][1] = e}
EventOf(x)      == Subject[x.job][1]
HandlerOf(x)    == Subject[x.job][2]
Done(x)         == {c \in Consumers : <<x.job, x.id, c>> \in progress}
InTable(j)      == state[j] \notin {"absent", "forgotten"}

\* Mistaken form: added without its key.
KeyTaken_Never(e, h) == FALSE

KeyTaken(e, h)  == \E j \in Rows(e, h) : InTable(j)

\* The rows still in line, or being executed, for an event.  Retention (3 and
\* 30 days) outlasts them: nothing about the event is pruned meanwhile.
Unsettled(e) ==
    \/ \E j \in About(e) : Queued(j)
    \/ \E x \in execs : EventOf(x) = e

Init ==
    /\ TaskInit
    /\ change   = [e \in Events |-> "none"]
    /\ row      = [e \in Events |-> "none"]
    /\ inline   = [e \in Events |-> {}]
    /\ progress = {}
    /\ handled  = {}
    /\ gaveUp   = {}

(***************************************************************************)
(* record(transaction, type, payload), and the end of its transaction.     *)
(***************************************************************************)

\* The insert runs in a savepoint: when it fails the transaction goes on.
Record(e) ==
    /\ change[e] = "none"
    /\ change' = [change EXCEPT ![e] = "open"]
    /\ \E r \in {"written", "unwritten"} : row' = [row EXCEPT ![e] = r]
    /\ UNCHANGED <<taskVars, inline, progress, handled, gaveUp>>

\* What the afterCommit hook of an unwritten event delivers in the process.
InlineAfter(e) == IF row[e] = "unwritten" THEN Consumers ELSE {}

Commit(e) ==
    /\ change[e] = "open"
    /\ change' = [change EXCEPT ![e] = "committed"]
    /\ inline' = [inline EXCEPT ![e] = InlineAfter(e)]
    /\ UNCHANGED <<taskVars, row, progress, handled, gaveUp>>

Rollback(e) ==
    /\ change[e] = "open"
    /\ change' = [change EXCEPT ![e] = "rolledback"]
    /\ row' = [row EXCEPT ![e] = "none"]
    /\ UNCHANGED <<taskVars, inline, progress, handled, gaveUp>>

\* deliverInline: a consumer that throws is logged and not called again.
DeliverInline(e, c) ==
    /\ c \in inline[e]
    /\ inline' = [inline EXCEPT ![e] = @ \ {c}]
    /\ \/ handled' = handled \cup {<<e, c>>}
       \/ UNCHANGED handled
    /\ UNCHANGED <<taskVars, change, row, progress, gaveUp>>

\* The process stops before its hook has finished.
InlineCutOff(e) ==
    /\ inline[e] # {}
    /\ inline' = [inline EXCEPT ![e] = {}]
    /\ UNCHANGED <<taskVars, change, row, progress, handled, gaveUp>>

(***************************************************************************)
(* dispatchPending(): one transaction queues a batch and marks it.  Rows   *)
(* of open transactions cannot be seen, rows another dispatcher has locked *)
(* are skipped.                                                            *)
(***************************************************************************)

\* Mistaken form: the event is written, and seen, outside its transaction.
Undispatched_AnyChange == {e \in Events : row[e] = "written"}

Undispatched == {e \in Events : change[e] = "committed" /\ row[e] = "written"}

DispatchPending(B) ==
    /\ B # {} /\ B \subseteq Undispatched
    /\ LET new == {CHOOSE j \in Rows(e, Dispatch) : ~InTable(j) : e \in B} IN
       state' = [j \in Jobs |-> IF j \in new THEN "queued" ELSE state[j]]
    /\ row' = [e \in Events |-> IF e \in B THEN "dispatched" ELSE row[e]]
    /\ UNCHANGED <<execs, starts, revived, change, inline, progress, handled, gaveUp>>

(***************************************************************************)
(* The events/dispatch handler: queue.add for each consumer, each its own  *)
(* statement, dropped when the key is taken.                               *)
(***************************************************************************)

AddConsumer(x, c) ==
    /\ HandlerOf(x) = Dispatch /\ x.phase = "running"
    /\ row[EventOf(x)] = "dispatched"
    /\ c \in Consumers \ Done(x)
    /\ IF KeyTaken(EventOf(x), c)
       THEN UNCHANGED state
       ELSE \E j \in Rows(EventOf(x), c) :
              /\ state[j] = "absent"
              /\ state' = [state EXCEPT ![j] = "queued"]
    /\ progress' = progress \cup {<<x.job, x.id, c>>}
    /\ UNCHANGED <<execs, starts, revived, change, row, inline, handled, gaveUp>>

\* consume:<name>: consumer.handle(event) does its work; it may still throw.
Consume(x) ==
    /\ HandlerOf(x) \in Consumers \ Done(x) /\ x.phase = "running"
    /\ row[EventOf(x)] = "dispatched"
    /\ handled' = handled \cup {<<EventOf(x), HandlerOf(x)>>}
    /\ progress' = progress \cup {<<x.job, x.id, HandlerOf(x)>>}
    /\ UNCHANGED <<taskVars, change, row, inline, gaveUp>>

\* Mistaken forms: the loop left after its first consumer; the work not awaited.
MayReturn_FirstConsumer(x) == row[EventOf(x)] = "pruned" \/ Done(x) # {}
MayReturn_NotAwaited(x)    == row[EventOf(x)] # "none"

\* A handler returns normally once its loop or its work is over, or at once
\* when loadEvent finds no row; it may throw at any point.
MayReturn(x) ==
    \/ row[EventOf(x)] = "pruned"
    \/ HandlerOf(x) = Dispatch /\ Done(x) = Consumers
    \/ HandlerOf(x) \in Done(x)

HandlerReturns(x, phase) ==
    /\ phase = "ok" => MayReturn(x)
    /\ Return(x, phase)
    /\ UNCHANGED outboxVars

(***************************************************************************)
(* The queue's own steps.                                                  *)
(***************************************************************************)

\* What happened to an execution is forgotten with it.
Settle ==
    /\ progress' = {p \in progress : \E x \in execs' : x.job = p[1] /\ x.id = p[2]}
    /\ gaveUp' = gaveUp \cup {j \in Jobs : state'[j] = "failed"}
    /\ UNCHANGED <<change, row, inline, handled>>

Execute(j) ==
    /\ starts[j] < MaxStarts /\ Cardinality(execs) < MaxRunning
    /\ Start({j})
    /\ UNCHANGED outboxVars

Finish(x)     == Complete(x) /\ Settle
CutOff(x)     == Drop({x}) /\ Settle

\* A job is given up by the failure of its last attempt, or swept from a
\* worker that stopped (no execution of it needs to be left).
Fail(j)       == GiveUp({j}, {}) /\ Settle
FailedRun(x)  == x.phase = "error" /\ GiveUp({x.job}, {x}) /\ Settle

RetryByHand(j) ==
    /\ revived[j] = 0 /\ Cardinality({i \in Jobs : revived[i] > 0}) < MaxRevived
    /\ Revive(j)
    /\ UNCHANGED outboxVars

PruneJob(j)   == ~Unsettled(Subject[j][1]) /\ Forget(j) /\ UNCHANGED outboxVars

\* outbox.prune: dispatched events older than the retention.
PruneEvent(e) ==
    /\ row[e] = "dispatched" /\ ~Unsettled(e)
    /\ row' = [row EXCEPT ![e] = "pruned"]
    /\ UNCHANGED <<taskVars, change, inline, progress, handled, gaveUp>>

-----------------------------------------------------------------------------
EventStep(e) ==
    \/ Record(e)
    \/ Commit(e)
    \/ Rollback(e)
    \/ \E c \in Consumers : DeliverInline(e, c)
    \/ InlineCutOff(e)
    \/ PruneEvent(e)

HandlerStep(x) ==
    \/ \E c \in Consumers : AddConsumer(x, c)
    \/ Consume(x)
    \/ \E p \in {"ok", "error"} : HandlerReturns(x, p)
    \/ Finish(x)
    \/ CutOff(x)
    \/ FailedRun(x)

JobStep(j) ==
    \/ Execute(j)
    \/ Fail(j)
    \/ RetryByHand(j)
    \/ PruneJob(j)

Next ==
    \/ \E e \in Events : EventStep(e)
    \/ \E B \in SUBSET Events : DispatchPending(B)
    \/ \E x \in execs : HandlerStep(x)
    \/ \E j \in Jobs : JobStep(j)

Spec == Init /\ [][Next]_vars

\* The dispatcher's timer fires; the queue ends every job it is given, which
\* is JobQueue's EveryJobEnds.  Nothing else is assumed to happen.
Fairness ==
    /\ \A e \in Events : WF_vars(\E B \in SUBSET Events : e \in B /\ DispatchPending(B))
    /\ \A j \in Jobs : WF_vars(Fail(j) \/ \E x \in execs : x.job = j /\ (Finish(x) \/ FailedRun(x)))

FairSpec == Spec /\ Fairness

-----------------------------------------------------------------------------
\* Types; a row is marked dispatched only for a committed change.
TypeOK ==
    /\ state    \in [Jobs -> {"absent", "queued", "done", "failed", "forgotten"}]
    /\ execs    \subseteq Exec
    /\ starts   \in [Jobs -> Nat]
    /\ revived  \in [Jobs -> Nat]
    /\ change   \in [Events -> {"none", "open", "committed", "rolledback"}]
    /\ row      \in [Events -> {"none", "written", "unwritten", "dispatched", "pruned"}]
    /\ inline   \in [Events -> SUBSET Consumers]
    /\ progress \subseteq Jobs \X Nat \X Consumers
    /\ handled  \subseteq Events \X Consumers
    /\ gaveUp   \subseteq Jobs
    /\ \A e \in Events : row[e] \in {"dispatched", "pruned"} => change[e] = "committed"

\* No consumer is handed a change that did not commit, nor has a job for it.
OnlyCommittedDelivered ==
    \A e \in Events : change[e] # "committed" =>
        /\ \A c \in Consumers : <<e, c>> \notin handled
        /\ \A j \in About(e) : state[j] = "absent"

\* Someone still owes the consumer this event: the dispatcher, the dispatch
\* job, or the consumer's own job.
Owed(e, c) ==
    \/ row[e] = "written"
    \/ \E j \in Rows(e, Dispatch) \cup Rows(e, c) : Queued(j)

\* A consumer's job counts as done only when the consumer did its work, unless
\* the job was put back in line by hand (its event may be pruned by then).
DoneMeansHandled ==
    \A e \in Events, c \in Consumers : \A j \in Rows(e, c) :
        state[j] = "done" /\ revived[j] = 0 => <<e, c>> \in handled

\* A written event is never lost without a trace: each consumer has handled
\* it, is still owed it, or a job for it ended on the failed list - whatever
\* dispatchers, workers and retries were cut off in between - and a job that
\* says it is done has done its work.
NoSilentLoss ==
    /\ \A e \in Events, c \in Consumers :
         change[e] = "committed" /\ row[e] # "unwritten" =>
            \/ <<e, c>> \in handled
            \/ Owed(e, c)
            \/ (Rows(e, Dispatch) \cup Rows(e, c)) \cap gaveUp # {}
    /\ DoneMeansHandled

\* The jobs a consumer was ever given for an event.
Given(e, c) == {j \in Rows(e, c) : state[j] # "absent"}

\* Dispatching an event again (a cut-off or failed dispatch job retried by its
\* policy) gives no consumer a second job; only a retry by hand, which may come
\* after the first job was pruned, can.
OneJobPerConsumer ==
    \A e \in Events, c \in Consumers :
        (\A j \in Rows(e, Dispatch) : revived[j] = 0) => Cardinality(Given(e, c)) <= 1

\* Every committed, written event eventually reaches each consumer or leaves a
\* failed job behind.
EveryEventSettles ==
    \A e \in Events, c \in Consumers :
        change[e] = "committed" /\ row[e] = "written" ~>
            \/ <<e, c>> \in handled
            \/ (Rows(e, Dispatch) \cup Rows(e, c)) \cap gaveUp # {}
=============================================================================
