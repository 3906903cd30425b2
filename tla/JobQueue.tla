------------------------------ MODULE JobQueue ------------------------------
(***************************************************************************)
(* The background job queue of src/src/core/queue (postgresDriver.js over  *)
(* the queue_jobs table, index.js, queues.js): rows claimed by any number  *)
(* of workers under a lock that a heartbeat keeps fresh, retried on        *)
(* failure, taken back from a worker that stopped, retried by hand and     *)
(* finally pruned.                                                         *)
(*                                                                         *)
(* Time is abstracted to two flags per row: `due` (run_at <= NOW()) and    *)
(* `fresh` (locked_at younger than QUEUE_STALE_LOCK_MS).  Each SQL         *)
(* statement is one atomic step; everything between two awaits of a worker *)
(* interleaves with every other worker.                                    *)
(***************************************************************************)
EXTENDS Integers, FiniteSets

CONSTANTS
    Jobs,           \* rows of queue_jobs: the uuids a behaviour may insert
    Workers,        \* WORKER_ID values (hostname:pid)
    Keys,           \* dedupe keys
    KeyOf,          \* [Jobs -> Keys \cup {NoKey}]: the key a row is added with
    NoKey,          \* dedupe_key IS NULL
    NoWorker,       \* locked_by IS NULL
    MaxAttempts,    \* [Jobs -> Nat]: policy.delays.length + 1 of the job's queue
    Once,           \* jobs registered with `once: true`
    Resumable,      \* jobs registered with `resumable: true`
    Resumes,        \* RESUMES: extra attempts of a resumable job
    Concurrency,    \* QUEUE_CONCURRENCY, runs per worker
    MaxRetried,     \* bound: manual retries of one job in a behaviour
    MaxStops        \* bound: crashes and shutdowns in a behaviour

ASSUME JobQueueAssumption ==
    /\ IsFiniteSet(Jobs)
    /\ NoWorker \notin Workers
    /\ NoKey \notin Keys
    /\ KeyOf \in [Jobs -> Keys \cup {NoKey}]
    /\ MaxAttempts \in [Jobs -> Nat \ {0}]
    /\ Once \subseteq Jobs
    /\ Resumable \subseteq Jobs
    /\ Once \cap Resumable = {}         \* index.js: resumable only when not once
    /\ Resumes \in Nat
    /\ Concurrency \in Nat \ {0}
    /\ MaxRetried \in Nat
    /\ MaxStops \in Nat

VARIABLES
    \* the queue_jobs table
    status, attempts, lockedBy, fresh, due,
    \* the worker processes
    alive,          \* "up", "stopping" (stop() was called) or "down"
    poll,           \* where the worker's poll() stands
    toReport,       \* swept jobs whose onInterrupted has not been called yet
    runs,           \* runJob() calls in progress, of every worker
    \* history, read by no guard but the bounds
    claims,         \* times the row was claimed
    failures,       \* retryable failures finish() recorded for it
    retried,        \* times an admin put it back in line
    stops           \* crashes and shutdowns so far

rows    == <<status, attempts, lockedBy, fresh, due>>
workers == <<alive, poll, toReport, runs>>
history == <<claims, failures, retried, stops>>
vars    == <<rows, workers, history>>

Statuses == {"absent", "pending", "active", "completed", "failed", "pruned"}
Outcomes == {"ok", "error", "permanent"}
Run      == [job : Jobs, worker : Workers, attempt : Nat, claim : Nat,
             phase : {"running"} \cup Outcomes]

RunsOf(w)  == {r \in runs : r.worker = w}
RunsFor(j) == {r \in runs : r.job = j}

\* Mistaken forms: HELD without the attempt number, or with nothing else.
Held_NoAttempt(r)   == status[r.job] = "active" /\ lockedBy[r.job] = r.worker
Held_AttemptOnly(r) == attempts[r.job] = r.attempt

\* The condition HELD of every statement a run writes its own row with.
Held(r) ==
    /\ status[r.job] = "active"
    /\ lockedBy[r.job] = r.worker
    /\ attempts[r.job] = r.attempt

Present(j) == status[j] \notin {"absent", "pruned"}

\* The unique index on dedupe_key where it is not null.
KeyFree(j) == \A k \in Jobs : Present(k) /\ KeyOf[k] = KeyOf[j] => KeyOf[j] = NoKey

\* The attempt a stale job is failed at instead of put back in line.
AttemptLimit(j) == MaxAttempts[j] + (IF j \in Resumable THEN Resumes ELSE 0)

\* Mistaken form: the `once` keys are not looked at.
FailsWhenStale_OnceForgotten(j) == attempts[j] >= AttemptLimit(j)

FailsWhenStale(j) == j \in Once \/ attempts[j] >= AttemptLimit(j)

\* locked_by = NULL of the rows of S.
Unlocked(S) == [j \in Jobs |-> IF j \in S THEN NoWorker ELSE lockedBy[j]]

\* Mistaken form: a run stops counting when its row is taken back.
FreeSlots_HeldOnly(w) == Concurrency - Cardinality({r \in RunsOf(w) : Held(r)})

\* concurrency - inFlight: a run counts until it ends, its row lost or not.
FreeSlots(w) == Concurrency - Cardinality(RunsOf(w))

\* Mistaken form: a job on its last attempt is not looked at.
Stale_LastAttemptLeft ==
    {j \in Jobs : status[j] = "active" /\ ~fresh[j] /\ attempts[j] < AttemptLimit(j)}

Stale == {j \in Jobs : status[j] = "active" /\ ~fresh[j]}
Ready == {j \in Jobs : status[j] = "pending" /\ due[j]}

-----------------------------------------------------------------------------
Init ==
    /\ status   = [j \in Jobs |-> "absent"]
    /\ attempts = [j \in Jobs |-> 0]
    /\ lockedBy = [j \in Jobs |-> NoWorker]
    /\ fresh    = [j \in Jobs |-> FALSE]
    /\ due      = [j \in Jobs |-> FALSE]
    /\ alive    = [w \in Workers |-> "up"]
    /\ poll     = [w \in Workers |-> "idle"]
    /\ toReport = [w \in Workers |-> {}]
    /\ runs     = {}
    /\ claims   = [j \in Jobs |-> 0]
    /\ failures = [j \in Jobs |-> 0]
    /\ retried  = [j \in Jobs |-> 0]
    /\ stops    = 0

(***************************************************************************)
(* Clients of the queue.                                                   *)
(***************************************************************************)

\* queue.add: an add whose dedupe key is already in the table does nothing.
Add(j) ==
    /\ status[j] = "absent"
    /\ KeyFree(j)
    /\ status' = [status EXCEPT ![j] = "pending"]
    /\ \E now \in BOOLEAN : due' = [due EXCEPT ![j] = now]
    /\ UNCHANGED <<attempts, lockedBy, fresh, workers, history>>

\* retryJob: a failed job is put back in line with a fresh set of attempts.
RetryJob(j) ==
    /\ status[j] = "failed"
    /\ retried[j] < MaxRetried
    /\ status'   = [status EXCEPT ![j] = "pending"]
    /\ attempts' = [attempts EXCEPT ![j] = 0]
    /\ due'      = [due EXCEPT ![j] = TRUE]
    /\ retried'  = [retried EXCEPT ![j] = @ + 1]
    /\ UNCHANGED <<lockedBy, fresh, workers, claims, failures, stops>>

\* prune: finished rows are deleted once their retention has passed.
Prune(j) ==
    /\ status[j] \in {"completed", "failed"}
    /\ status' = [status EXCEPT ![j] = "pruned"]
    /\ UNCHANGED <<attempts, lockedBy, fresh, due, workers, history>>

\* Time reaches the row's run_at.
Elapse(j) ==
    /\ status[j] = "pending" /\ ~due[j]
    /\ due' = [due EXCEPT ![j] = TRUE]
    /\ UNCHANGED <<status, attempts, lockedBy, fresh, workers, history>>

\* staleLockMs passes with no renewal, of a dead worker or of a live one whose
\* heartbeats wait for a connection.
Lapse(j) ==
    /\ status[j] = "active" /\ fresh[j]
    /\ fresh' = [fresh EXCEPT ![j] = FALSE]
    /\ UNCHANGED <<status, attempts, lockedBy, due, workers, history>>

(***************************************************************************)
(* poll(): releaseStale, its reports, then claim.                          *)
(***************************************************************************)

StartPoll(w) ==
    /\ alive[w] = "up" /\ poll[w] = "idle"
    /\ poll' = [poll EXCEPT ![w] = "sweep"]
    /\ UNCHANGED <<rows, alive, toReport, runs, history>>

\* The throttle of releaseStale, or a sweep that finds nothing.
SkipSweep(w) ==
    /\ poll[w] = "sweep"
    /\ poll' = [poll EXCEPT ![w] = "claim"]
    /\ UNCHANGED <<rows, alive, toReport, runs, history>>

\* releaseStale takes back the stale rows it can lock (SKIP LOCKED) in one
\* statement and keeps the failed ones to report.
Sweep(w, S) ==
    /\ poll[w] = "sweep"
    /\ S # {} /\ S \subseteq Stale
    /\ LET dead == {j \in S : FailsWhenStale(j)} IN
       /\ status' = [j \in Jobs |-> IF j \in dead THEN "failed"
                                    ELSE IF j \in S THEN "pending" ELSE status[j]]
       /\ toReport' = [toReport EXCEPT ![w] = dead]
       /\ poll' = [poll EXCEPT ![w] = IF dead = {} THEN "claim" ELSE "report"]
    /\ lockedBy' = Unlocked(S)
    /\ UNCHANGED <<attempts, fresh, due, alive, runs, history>>

\* onInterrupted(job), awaited one job at a time; its errors are swallowed.
Report(w, j) ==
    /\ poll[w] = "report" /\ j \in toReport[w]
    /\ toReport' = [toReport EXCEPT ![w] = @ \ {j}]
    /\ poll' = [poll EXCEPT ![w] = IF toReport[w] = {j} THEN "claim" ELSE "report"]
    /\ UNCHANGED <<rows, alive, runs, history>>

\* claim: up to concurrency - inFlight due rows, and runJob for each of them.
\* poll() looks at `stopped` only when it starts, so a worker that is being
\* stopped still makes the claim its poll was on the way to.
Claim(w, S) ==
    /\ poll[w] = "claim"
    /\ S \subseteq Ready
    /\ Cardinality(S) <= FreeSlots(w)
    /\ status'   = [j \in Jobs |-> IF j \in S THEN "active" ELSE status[j]]
    /\ attempts' = [j \in Jobs |-> IF j \in S THEN attempts[j] + 1 ELSE attempts[j]]
    /\ lockedBy' = [j \in Jobs |-> IF j \in S THEN w ELSE lockedBy[j]]
    /\ fresh'    = [j \in Jobs |-> IF j \in S THEN TRUE ELSE fresh[j]]
    /\ claims'   = [j \in Jobs |-> IF j \in S THEN claims[j] + 1 ELSE claims[j]]
    /\ runs' = runs \cup {[job |-> j, worker |-> w, attempt |-> attempts[j] + 1,
                           claim |-> claims[j] + 1, phase |-> "running"] : j \in S}
    /\ poll' = [poll EXCEPT ![w] = "idle"]
    /\ UNCHANGED <<due, alive, toReport, failures, retried, stops>>

\* A database error in releaseStale or claim ends the poll.
PollFails(w) ==
    /\ poll[w] \in {"sweep", "claim"}
    /\ poll' = [poll EXCEPT ![w] = "idle"]
    /\ UNCHANGED <<rows, alive, toReport, runs, history>>

(***************************************************************************)
(* runJob(): heartbeat, handler, finish.                                   *)
(***************************************************************************)

Heartbeat(r) ==
    /\ Held(r)
    /\ fresh' = [fresh EXCEPT ![r.job] = TRUE]
    /\ UNCHANGED <<status, attempts, lockedBy, due, workers, history>>

HandlerEnds(r, outcome) ==
    /\ r.phase = "running"
    /\ runs' = (runs \ {r}) \cup {[r EXCEPT !.phase = outcome]}
    /\ UNCHANGED <<rows, alive, poll, toReport, history>>

WillRetry(r) == r.phase = "error" /\ r.attempt < MaxAttempts[r.job]

\* The status finish() gives the row.
Recorded(r) ==
    CASE r.phase = "ok" -> "completed"
      [] WillRetry(r)   -> "pending"
      [] OTHER          -> "failed"

\* finish(job, err): one UPDATE, which writes nothing when the run no longer
\* holds the row.
Finish(r) ==
    /\ r.phase # "running"
    /\ runs' = runs \ {r}
    /\ IF Held(r)
       THEN /\ status' = [status EXCEPT ![r.job] = Recorded(r)]
            /\ due' = [due EXCEPT ![r.job] = @ /\ ~WillRetry(r)]
            /\ lockedBy' = Unlocked({r.job})
            /\ fresh' = [fresh EXCEPT ![r.job] = FALSE]
            /\ failures' = [failures EXCEPT ![r.job] = @ + (IF WillRetry(r) THEN 1 ELSE 0)]
       ELSE UNCHANGED <<status, due, lockedBy, fresh, failures>>
    /\ UNCHANGED <<attempts, alive, poll, toReport, claims, retried, stops>>

\* "could not record the outcome": the run is over, its row untouched.
FinishLost(r) ==
    /\ r.phase # "running"
    /\ runs' = runs \ {r}
    /\ UNCHANGED <<rows, alive, poll, toReport, history>>

(***************************************************************************)
(* The processes.                                                          *)
(***************************************************************************)

\* stop(): no new poll; runs go on until they end or the process exits.
Stop(w) ==
    /\ alive[w] = "up" /\ stops < MaxStops
    /\ alive' = [alive EXCEPT ![w] = "stopping"]
    /\ stops' = stops + 1
    /\ UNCHANGED <<rows, poll, toReport, runs, claims, failures, retried>>

Gone(w) ==
    /\ alive'    = [alive EXCEPT ![w] = "down"]
    /\ poll'     = [poll EXCEPT ![w] = "idle"]
    /\ toReport' = [toReport EXCEPT ![w] = {}]
    /\ runs'     = runs \ RunsOf(w)
    /\ UNCHANGED <<rows, claims, failures, retried>>

\* stop() waits at most timeoutMs for the runs, then the process exits.
Exit(w) ==
    /\ alive[w] = "stopping"
    /\ Gone(w)
    /\ UNCHANGED stops

Crash(w) ==
    /\ alive[w] = "up" /\ stops < MaxStops
    /\ Gone(w)
    /\ stops' = stops + 1

Restart(w) ==
    /\ alive[w] = "down"
    /\ alive' = [alive EXCEPT ![w] = "up"]
    /\ UNCHANGED <<rows, poll, toReport, runs, history>>

-----------------------------------------------------------------------------
JobStep(j) == Add(j) \/ RetryJob(j) \/ Prune(j) \/ Elapse(j) \/ Lapse(j)

PollStep(w) ==
    \/ StartPoll(w)
    \/ SkipSweep(w)
    \/ \E S \in SUBSET Jobs : Sweep(w, S)
    \/ \E j \in Jobs : Report(w, j)
    \/ \E S \in SUBSET Jobs : Claim(w, S)
    \/ PollFails(w)

RunStep(r) ==
    \/ Heartbeat(r)
    \/ \E outcome \in Outcomes : HandlerEnds(r, outcome)
    \/ Finish(r)
    \/ FinishLost(r)

ProcessStep(w) == Stop(w) \/ Exit(w) \/ Crash(w) \/ Restart(w)

Next ==
    \/ \E j \in Jobs : JobStep(j)
    \/ \E w \in Workers : PollStep(w)
    \/ \E r \in runs : RunStep(r)
    \/ \E w \in Workers : ProcessStep(w)

Spec == Init /\ [][Next]_vars

(***************************************************************************)
(* Fairness: timers fire; rows are claimed in run_at order, so a ready row *)
(* is not passed over for ever; polls fail only so many times in a row,    *)
(* and the sweep's throttle passes; the platform restarts a process that   *)
(* ended; a handler returns.  Clients, failures, crashes and shutdowns     *)
(* have none.                                                              *)
(***************************************************************************)
Fairness ==
    /\ \A j \in Jobs :
        /\ WF_vars(Elapse(j))
        /\ WF_vars(Lapse(j) /\ RunsFor(j) = {})
        /\ SF_vars(\E w \in Workers, S \in SUBSET Jobs : j \in S /\ Sweep(w, S))
        /\ SF_vars(\E w \in Workers, S \in SUBSET Jobs : j \in S /\ Claim(w, S))
        /\ WF_vars(\E r \in RunsFor(j), o \in Outcomes : HandlerEnds(r, o))
        /\ WF_vars(\E r \in RunsFor(j) : Finish(r))
    /\ \A w \in Workers :
        /\ WF_vars(StartPoll(w))
        /\ SF_vars(SkipSweep(w))
        /\ WF_vars(\E j \in Jobs : Report(w, j))
        /\ WF_vars(\E S \in SUBSET Jobs : Claim(w, S))
        /\ WF_vars(Exit(w))
        /\ WF_vars(Restart(w))

FairSpec == Spec /\ Fairness

-----------------------------------------------------------------------------
\* Types of every variable; a row is locked exactly while it is active, and a
\* worker has jobs to report exactly between its sweep and its claim.
TypeOK ==
    /\ status   \in [Jobs -> Statuses]
    /\ attempts \in [Jobs -> Nat]
    /\ lockedBy \in [Jobs -> Workers \cup {NoWorker}]
    /\ fresh    \in [Jobs -> BOOLEAN]
    /\ due      \in [Jobs -> BOOLEAN]
    /\ alive    \in [Workers -> {"up", "stopping", "down"}]
    /\ poll     \in [Workers -> {"idle", "sweep", "report", "claim"}]
    /\ toReport \in [Workers -> SUBSET Jobs]
    /\ runs     \subseteq Run
    /\ claims   \in [Jobs -> Nat]
    /\ failures \in [Jobs -> Nat]
    /\ retried  \in [Jobs -> Nat]
    /\ stops    \in Nat
    /\ \A j \in Jobs : status[j] = "active" <=> lockedBy[j] # NoWorker
    /\ \A w \in Workers : poll[w] = "report" <=> toReport[w] # {}

\* A job is never tried more often than its policy allows, whatever mix of
\* recorded failures, stale locks, crashes and manual retries it goes through
\* (finish's `retry` test and releaseStale's `fail` test, taken together).
AttemptsBounded ==
    \A j \in Jobs :
        /\ attempts[j] <= AttemptLimit(j)
        /\ status[j] = "pending" => attempts[j] < AttemptLimit(j)

\* A `once` job (a courier booking) never has two runs at a time, even while
\* a run whose lock went stale is still going on a live worker - as long as no
\* admin retried it by hand.
OnceRunsAlone ==
    \A j \in Once : retried[j] = 0 =>
        \A r, s \in RunsFor(j) : r = s

\* A `once` job is claimed again only after its previous run recorded a
\* failure of its own: a run cut off by a crash, a lost outcome or a stale
\* lock is never followed by another.
OnceNotRunAfterCutOff ==
    \A j \in Once : retried[j] = 0 => claims[j] <= failures[j] + 1

\* The row is written, and its lock renewed, only by the run that claimed it
\* last - for a job no admin put back in line (HELD's attempt number).
HolderIsLatestClaim ==
    \A r \in runs : retried[r.job] = 0 /\ Held(r) => r.claim = claims[r.job]

\* A worker never runs more jobs at a time than its concurrency, stale runs
\* that lost their row included (inFlight counts them until they end).
ConcurrencyRespected ==
    \A w \in Workers : Cardinality(RunsOf(w)) <= Concurrency

\* Two rows of the table never carry the same dedupe key.
KeysUnique ==
    \A j, k \in Jobs :
        Present(j) /\ Present(k) /\ KeyOf[j] = KeyOf[k] => j = k \/ KeyOf[j] = NoKey

\* The three limits a shared table must keep however its claims, sweeps, prunes
\* and retries interleave: tries of a job, slots of a worker, rows of a key.
LimitsKept == AttemptsBounded /\ ConcurrencyRespected /\ KeysUnique

\* A job is marked completed only by the step in which a run of it whose
\* handler returned normally records that; no sweep, retry or failure does.
CompletedOnlyBySuccess ==
    [][\A j \in Jobs : status[j] # "completed" /\ status'[j] = "completed" =>
          \E r \in runs \ runs' : r.job = j /\ r.phase = "ok"]_vars

\* Every job in line is eventually done or given up: none stays pending or
\* active for ever, through crashes, shutdowns, stale locks and lost outcomes.
EveryJobEnds ==
    \A j \in Jobs : status[j] = "pending" ~> status[j] \in {"completed", "failed"}

(***************************************************************************)
(* The promise the rest of the program builds on, and how this module      *)
(* keeps it: pending and active rows are queued tasks, runs are executions.*)
(***************************************************************************)
TaskStateOf(s) ==
    CASE s \in {"pending", "active"} -> "queued"
      [] s = "completed"            -> "done"
      [] s = "pruned"               -> "forgotten"
      [] OTHER                      -> s

TaskState == [j \in Jobs |-> TaskStateOf(status[j])]

ExecOf(r) == [job |-> r.job, id |-> r.claim, phase |-> r.phase]

Task == INSTANCE TaskQueue WITH
    state <- TaskState, execs <- {ExecOf(r) : r \in runs},
    starts <- claims, revived <- retried

\* The queue implements the task queue: every step of it is a step of
\* TaskQueue or changes nothing there.
ImplementsTaskQueue == Task!TaskSpec
=============================================================================
