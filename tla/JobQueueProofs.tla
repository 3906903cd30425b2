--------------------------- MODULE JobQueueProofs ---------------------------
(***************************************************************************)
(* Theorems about JobQueue, for any rows, workers, keys, retry policies,   *)
(* concurrency and bounds.                                                 *)
(***************************************************************************)
EXTENDS JobQueue, FiniteSetTheorems, TLAPS

-----------------------------------------------------------------------------
(***************************************************************************)
(* Type correctness, with the two consistency facts of TypeOK: a row is    *)
(* locked exactly while it is active, and a worker has reports to make     *)
(* exactly between its sweep and its claim.                                *)
(***************************************************************************)

\* A run keeps its type when its handler ends.
LEMMA RunEndsTyped ==
    ASSUME NEW r \in Run, NEW o \in Outcomes
    PROVE  [r EXCEPT !.phase = o] \in Run
  BY DEF Run, Outcomes

\* finish() leaves a row completed, pending or failed.
LEMMA RecordedTyped ==
    ASSUME NEW r \in Run
    PROVE  Recorded(r) \in {"completed", "pending", "failed"}
  BY DEF Recorded

\* TypeOK holds at first ...
LEMMA TypeInit == Init => TypeOK
  BY DEF Init, TypeOK, Statuses

\* ... and every step keeps it.
LEMMA TypeStep == TypeOK /\ [Next]_vars => TypeOK'
<1> SUFFICES ASSUME TypeOK, [Next]_vars PROVE TypeOK'
  OBVIOUS
<1> USE DEF TypeOK, Statuses, rows, workers, history
<1>1. ASSUME NEW j \in Jobs, JobStep(j) PROVE TypeOK'
  <2>1. CASE Add(j)
    BY <2>1 DEF Add
  <2>2. CASE RetryJob(j)
    BY <2>2 DEF RetryJob
  <2>3. CASE Prune(j)
    BY <2>3 DEF Prune
  <2>4. CASE Elapse(j)
    BY <2>4 DEF Elapse
  <2>5. CASE Lapse(j)
    BY <2>5 DEF Lapse
  <2>6. QED
    BY <1>1, <2>1, <2>2, <2>3, <2>4, <2>5 DEF JobStep
<1>2. ASSUME NEW w \in Workers, PollStep(w) PROVE TypeOK'
  <2>1. CASE StartPoll(w)
    BY <2>1 DEF StartPoll
  <2>2. CASE SkipSweep(w)
    BY <2>2 DEF SkipSweep
  <2>3. ASSUME NEW S \in SUBSET Jobs, Sweep(w, S) PROVE TypeOK'
    BY <2>3 DEF Sweep, Unlocked, Stale
  <2>4. ASSUME NEW j \in Jobs, Report(w, j) PROVE TypeOK'
    BY <2>4 DEF Report
  <2>5. ASSUME NEW S \in SUBSET Jobs, Claim(w, S) PROVE TypeOK'
    <3>1. runs' \subseteq Run
      BY <2>5 DEF Claim, Run
    <3>2. w # NoWorker
      BY JobQueueAssumption
    <3>3. \A j \in Jobs : status'[j] = "active" <=> lockedBy'[j] # NoWorker
      BY <2>5, <3>2 DEF Claim
    <3>4. \A v \in Workers : poll'[v] = "report" <=> toReport'[v] # {}
      BY <2>5 DEF Claim
    <3>5. attempts' \in [Jobs -> Nat] /\ claims' \in [Jobs -> Nat]
      BY <2>5 DEF Claim
    <3>6. status' \in [Jobs -> Statuses] /\ fresh' \in [Jobs -> BOOLEAN]
      BY <2>5 DEF Claim
    <3>7. lockedBy' \in [Jobs -> Workers \cup {NoWorker}]
      BY <2>5 DEF Claim
    <3>8. poll' \in [Workers -> {"idle", "sweep", "report", "claim"}]
      BY <2>5 DEF Claim
    <3>9. UNCHANGED <<due, alive, toReport, failures, retried, stops>>
      BY <2>5 DEF Claim
    <3>10. QED
      BY <3>1, <3>3, <3>4, <3>5, <3>6, <3>7, <3>8, <3>9
  <2>6. CASE PollFails(w)
    BY <2>6 DEF PollFails
  <2>7. QED
    BY <1>2, <2>1, <2>2, <2>3, <2>4, <2>5, <2>6 DEF PollStep
<1>3. ASSUME NEW r \in runs, RunStep(r) PROVE TypeOK'
  <2> r \in Run /\ r.job \in Jobs /\ r.worker \in Workers
    BY DEF Run
  <2>1. CASE Heartbeat(r)
    BY <2>1 DEF Heartbeat
  <2>2. ASSUME NEW o \in Outcomes, HandlerEnds(r, o) PROVE TypeOK'
    BY <2>2, RunEndsTyped DEF HandlerEnds
  <2>3. CASE Finish(r)
    <3>1. CASE Held(r)
      <4>1. status' = [status EXCEPT ![r.job] = Recorded(r)]
        BY <2>3, <3>1 DEF Finish
      <4>2. lockedBy' = Unlocked({r.job})
        BY <2>3, <3>1 DEF Finish
      <4>3. \A j \in Jobs : status'[j] = "active" <=> lockedBy'[j] # NoWorker
        BY <4>1, <4>2, RecordedTyped DEF Unlocked
      <4>4. due' \in [Jobs -> BOOLEAN]
        BY <2>3, <3>1 DEF Finish
      <4>5. failures' \in [Jobs -> Nat]
        BY <2>3, <3>1 DEF Finish
      <4>6. status' \in [Jobs -> Statuses] /\ lockedBy' \in [Jobs -> Workers \cup {NoWorker}]
        BY <4>1, <4>2, RecordedTyped DEF Unlocked
      <4>7. QED
        BY <2>3, <3>1, <4>3, <4>4, <4>5, <4>6 DEF Finish
    <3>2. CASE ~Held(r)
      BY <2>3, <3>2 DEF Finish
    <3>3. QED
      BY <3>1, <3>2
  <2>4. CASE FinishLost(r)
    BY <2>4 DEF FinishLost
  <2>5. QED
    BY <1>3, <2>1, <2>2, <2>3, <2>4 DEF RunStep
<1>4. ASSUME NEW w \in Workers, ProcessStep(w) PROVE TypeOK'
  <2>1. CASE Stop(w)
    BY <2>1 DEF Stop
  <2>2. CASE Exit(w)
    BY <2>2 DEF Exit, Gone
  <2>3. CASE Crash(w)
    BY <2>3 DEF Crash, Gone
  <2>4. CASE Restart(w)
    BY <2>4 DEF Restart
  <2>5. QED
    BY <1>4, <2>1, <2>2, <2>3, <2>4 DEF ProcessStep
<1>5. CASE UNCHANGED vars
  BY <1>5 DEF vars
<1>6. QED
  BY <1>1, <1>2, <1>3, <1>4, <1>5 DEF Next

\* In every behaviour of the queue its variables keep their types, a row is
\* locked exactly while it is active, and reports are pending exactly between a
\* worker's sweep and its claim (releaseStale, claim, finish, poll).
THEOREM TypeCorrect == Spec => []TypeOK
  BY TypeInit, TypeStep, PTL DEF Spec

-----------------------------------------------------------------------------
(***************************************************************************)
(* The bound on attempts.  releaseStale's test keeps a row in line below   *)
(* its limit, finish's `retry` keeps it below max_attempts, and retryJob   *)
(* starts over; a new row has none.                                        *)
(***************************************************************************)
AttemptsInv ==
    /\ AttemptsBounded
    /\ \A j \in Jobs : status[j] = "absent" => attempts[j] = 0

\* A job has at least one attempt.
LEMMA LimitTyped ==
    ASSUME NEW j \in Jobs
    PROVE  AttemptLimit(j) \in Nat \ {0} /\ MaxAttempts[j] \in Nat /\ MaxAttempts[j] <= AttemptLimit(j)
  BY JobQueueAssumption DEF AttemptLimit

\* AttemptsInv holds at first ...
LEMMA AttemptsInit == Init => AttemptsInv
  BY LimitTyped DEF Init, AttemptsInv, AttemptsBounded

\* ... and every step keeps it.
LEMMA AttemptsStep == TypeOK /\ AttemptsInv /\ [Next]_vars => AttemptsInv'
<1> SUFFICES ASSUME TypeOK, AttemptsInv, [Next]_vars,
                    NEW k \in Jobs
             PROVE  /\ attempts'[k] <= AttemptLimit(k)
                    /\ status'[k] = "pending" => attempts'[k] < AttemptLimit(k)
                    /\ status'[k] = "absent" => attempts'[k] = 0
  BY DEF AttemptsInv, AttemptsBounded, AttemptLimit
<1> DEFINE Goal == /\ attempts'[k] <= AttemptLimit(k)
                   /\ status'[k] = "pending" => attempts'[k] < AttemptLimit(k)
                   /\ status'[k] = "absent" => attempts'[k] = 0
<1>a. /\ attempts[k] <= AttemptLimit(k) /\ attempts[k] \in Nat
      /\ status[k] = "pending" => attempts[k] < AttemptLimit(k)
      /\ status[k] = "absent" => attempts[k] = 0
      /\ AttemptLimit(k) \in Nat \ {0}
  BY LimitTyped DEF AttemptsInv, AttemptsBounded, TypeOK
\* Most steps leave the row, or both columns of it, alone.
<1>b. ASSUME UNCHANGED <<status, attempts>> PROVE Goal
  BY <1>a, <1>b
<1>1. ASSUME NEW j \in Jobs, JobStep(j) PROVE Goal
  <2>1. CASE Add(j)
    BY <2>1, <1>a DEF Add, TypeOK
  <2>2. CASE RetryJob(j)
    BY <2>2, <1>a DEF RetryJob, TypeOK
  <2>3. CASE Prune(j)
    BY <2>3, <1>a DEF Prune, TypeOK
  <2>4. CASE Elapse(j) \/ Lapse(j)
    BY <2>4, <1>b DEF Elapse, Lapse
  <2>5. QED
    BY <1>1, <2>1, <2>2, <2>3, <2>4 DEF JobStep
<1>2. ASSUME NEW w \in Workers, PollStep(w) PROVE Goal
  <2>1. CASE StartPoll(w) \/ SkipSweep(w) \/ PollFails(w)
    BY <2>1, <1>b DEF StartPoll, SkipSweep, PollFails, rows
  <2>2. ASSUME NEW S \in SUBSET Jobs, Sweep(w, S) PROVE Goal
    BY <2>2, <1>a DEF Sweep, FailsWhenStale, Stale, TypeOK
  <2>3. ASSUME NEW j \in Jobs, Report(w, j) PROVE Goal
    BY <2>3, <1>b DEF Report, rows
  <2>4. ASSUME NEW S \in SUBSET Jobs, Claim(w, S) PROVE Goal
    BY <2>4, <1>a DEF Claim, Ready
  <2>5. QED
    BY <1>2, <2>1, <2>2, <2>3, <2>4 DEF PollStep
<1>3. ASSUME NEW r \in runs, RunStep(r) PROVE Goal
  <2> r \in Run /\ r.job \in Jobs /\ r.attempt \in Nat
    BY DEF Run, TypeOK
  <2>1. CASE Finish(r)
    <3>1. CASE Held(r)
      <4>1. attempts' = attempts /\ status' = [status EXCEPT ![r.job] = Recorded(r)]
        BY <2>1, <3>1 DEF Finish
      <4>2. CASE k = r.job
        <5>1. status'[k] = Recorded(r) /\ attempts[k] = r.attempt
          BY <4>1, <4>2, <3>1 DEF Held, TypeOK
        <5>2. Recorded(r) = "pending" => r.attempt < MaxAttempts[k]
          BY <4>2 DEF Recorded, WillRetry
        <5>3. QED
          BY <1>a, <4>1, <5>1, <5>2, RecordedTyped, LimitTyped
      <4>3. CASE k # r.job
        BY <4>1, <4>3, <1>a DEF TypeOK
      <4>4. QED
        BY <4>2, <4>3
    <3>2. CASE ~Held(r)
      BY <2>1, <3>2, <1>b DEF Finish
    <3>3. QED
      BY <3>1, <3>2
  <2>2. ASSUME NEW o \in Outcomes, HandlerEnds(r, o) PROVE Goal
    BY <2>2, <1>b DEF HandlerEnds, rows
  <2>3. CASE Heartbeat(r) \/ FinishLost(r)
    BY <2>3, <1>b DEF Heartbeat, FinishLost, rows
  <2>4. QED
    BY <1>3, <2>1, <2>2, <2>3 DEF RunStep
<1>4. ASSUME NEW w \in Workers, ProcessStep(w) PROVE Goal
  BY <1>4, <1>b DEF ProcessStep, Stop, Exit, Crash, Restart, Gone, rows
<1>5. CASE UNCHANGED vars
  BY <1>5, <1>b DEF vars, rows
<1>6. QED
  BY <1>1, <1>2, <1>3, <1>4, <1>5 DEF Next

\* No job is tried more often than its policy allows, whatever mix of failures,
\* stale locks, crashes and manual retries it goes through.
THEOREM AttemptsAreBounded == Spec => []AttemptsBounded
<1>1. Spec => []TypeOK
  BY TypeCorrect
<1>2. AttemptsInv => AttemptsBounded
  BY DEF AttemptsInv
<1>3. QED
  BY <1>1, <1>2, AttemptsInit, AttemptsStep, PTL DEF Spec
-----------------------------------------------------------------------------
(***************************************************************************)
(* Which run holds a row.  While no admin retried a job its attempts count *)
(* its claims, and the attempt a run carries is the number of its claim:   *)
(* HELD then singles out the run of the last claim.                        *)
(***************************************************************************)
RunsInv ==
    /\ \A j \in Jobs : retried[j] = 0 => attempts[j] = claims[j]
    /\ \A r \in runs :
        /\ r.claim <= claims[r.job]
        /\ retried[r.job] = 0 => r.attempt = r.claim
    /\ \A r, s \in runs : r.job = s.job /\ r.claim = s.claim => r = s

\* RunsInv holds at first ...
LEMMA RunsInit == Init => RunsInv
  BY DEF Init, RunsInv

\* Ending a handler changes nothing of a run but its phase.
LEMMA RunEndsSame ==
    ASSUME NEW r \in Run, NEW o \in Outcomes,
           NEW e, e = [r EXCEPT !.phase = o]
    PROVE  e.job = r.job /\ e.worker = r.worker /\ e.attempt = r.attempt
           /\ e.claim = r.claim /\ e.phase = o
  BY DEF Run

\* ... and every step keeps it.
LEMMA RunsStep == TypeOK /\ RunsInv /\ [Next]_vars => RunsInv'
<1> SUFFICES ASSUME TypeOK, RunsInv, [Next]_vars PROVE RunsInv'
  OBVIOUS
<1>a. ASSUME UNCHANGED <<attempts, claims, retried>>, runs' \subseteq runs PROVE RunsInv'
  BY <1>a DEF RunsInv
<1>b. \A r \in runs : r \in Run /\ r.job \in Jobs /\ r.claim \in Nat /\ r.attempt \in Nat
  BY DEF TypeOK, Run
<1>1. ASSUME NEW j \in Jobs, JobStep(j) PROVE RunsInv'
  <2>1. CASE RetryJob(j)
    BY <2>1, <1>b DEF RetryJob, RunsInv, TypeOK, workers
  <2>2. CASE Add(j) \/ Prune(j) \/ Elapse(j) \/ Lapse(j)
    BY <2>2, <1>a DEF Add, Prune, Elapse, Lapse, workers, history
  <2>3. QED
    BY <1>1, <2>1, <2>2 DEF JobStep
<1>2. ASSUME NEW w \in Workers, PollStep(w) PROVE RunsInv'
  <2>1. ASSUME NEW S \in SUBSET Jobs, Claim(w, S) PROVE RunsInv'
    <3> DEFINE new == {[job |-> j, worker |-> w, attempt |-> attempts[j] + 1,
                        claim |-> claims[j] + 1, phase |-> "running"] : j \in S}
    <3>1. runs' = runs \cup new /\ retried' = retried
      BY <2>1 DEF Claim
    <3>2. \A j \in Jobs : /\ claims'[j] = IF j \in S THEN claims[j] + 1 ELSE claims[j]
                          /\ attempts'[j] = IF j \in S THEN attempts[j] + 1 ELSE attempts[j]
      BY <2>1 DEF Claim
    <3>3. \A j \in Jobs : claims[j] \in Nat /\ attempts[j] \in Nat
      BY DEF TypeOK
    <3>4. \A j \in Jobs : retried'[j] = 0 => attempts'[j] = claims'[j]
      BY <3>1, <3>2, <3>3 DEF RunsInv
    <3>5. \A n \in new : /\ n.job \in S /\ n.claim = claims[n.job] + 1
                         /\ n.attempt = attempts[n.job] + 1
                         /\ n = [job |-> n.job, worker |-> w, attempt |-> attempts[n.job] + 1,
                                 claim |-> claims[n.job] + 1, phase |-> "running"]
      OBVIOUS
    <3>6. \A r \in runs' : r.claim <= claims'[r.job] /\ (retried'[r.job] = 0 => r.attempt = r.claim)
      <4>1. \A r \in runs : r.claim <= claims'[r.job] /\ (retried'[r.job] = 0 => r.attempt = r.claim)
        BY <3>1, <3>2, <3>3, <1>b DEF RunsInv
      <4>2. \A n \in new : n.claim <= claims'[n.job] /\ (retried'[n.job] = 0 => n.attempt = n.claim)
        BY <3>1, <3>2, <3>3, <3>5 DEF RunsInv
      <4>3. QED
        BY <3>1, <4>1, <4>2
    <3>7. \A r, s \in runs' : r.job = s.job /\ r.claim = s.claim => r = s
      <4>1. \A r \in runs, n \in new : ~(r.job = n.job /\ r.claim = n.claim)
        BY <3>3, <3>5, <1>b DEF RunsInv
      <4>2. \A m, n \in new : m.job = n.job => m = n
        BY <3>5
      <4>3. QED
        BY <3>1, <4>1, <4>2 DEF RunsInv
    <3>8. QED
      BY <3>4, <3>6, <3>7 DEF RunsInv
  <2>2. ASSUME NEW S \in SUBSET Jobs, Sweep(w, S) PROVE RunsInv'
    BY <2>2, <1>a DEF Sweep, history
  <2>3. ASSUME NEW j \in Jobs, Report(w, j) PROVE RunsInv'
    BY <2>3, <1>a DEF Report, rows, history
  <2>4. CASE StartPoll(w) \/ SkipSweep(w) \/ PollFails(w)
    BY <2>4, <1>a DEF StartPoll, SkipSweep, PollFails, rows, history
  <2>5. QED
    BY <1>2, <2>1, <2>2, <2>3, <2>4 DEF PollStep
<1>3. ASSUME NEW r \in runs, RunStep(r) PROVE RunsInv'
  <2>1. ASSUME NEW o \in Outcomes, HandlerEnds(r, o) PROVE RunsInv'
    <3> DEFINE e == [r EXCEPT !.phase = o]
    <3>1. runs' = (runs \ {r}) \cup {e} /\ UNCHANGED <<attempts, claims, retried>>
      BY <2>1 DEF HandlerEnds, rows, history
    <3>2. e.job = r.job /\ e.claim = r.claim /\ e.attempt = r.attempt
      BY <1>b, RunEndsSame
    <3> HIDE DEF e
    <3>3. QED
      BY <3>1, <3>2 DEF RunsInv
  <2>2. CASE Finish(r)
    BY <2>2, <1>a DEF Finish
  <2>3. CASE Heartbeat(r) \/ FinishLost(r)
    BY <2>3, <1>a DEF Heartbeat, FinishLost, rows, history, workers
  <2>4. QED
    BY <1>3, <2>1, <2>2, <2>3 DEF RunStep
<1>4. ASSUME NEW w \in Workers, ProcessStep(w) PROVE RunsInv'
  BY <1>4, <1>a DEF ProcessStep, Stop, Exit, Crash, Restart, Gone, rows, history
<1>5. CASE UNCHANGED vars
  BY <1>5, <1>a DEF vars, rows, workers, history
<1>6. QED
  BY <1>1, <1>2, <1>3, <1>4, <1>5 DEF Next

\* The numbering of claims, as an invariant of the queue (HELD, claim).
THEOREM RunsNumbered == Spec => []RunsInv
  BY TypeCorrect, RunsInit, RunsStep, PTL DEF Spec

\* A row is written, and its lock renewed, only by the run that claimed it last,
\* for every job no admin put back in line: what the attempt number in HELD is
\* for, with any number of workers and claims by the same process.
THEOREM HolderClaimedLast == Spec => []HolderIsLatestClaim
<1>1. TypeOK /\ RunsInv => HolderIsLatestClaim
  <2> SUFFICES ASSUME TypeOK, RunsInv, NEW r \in runs, retried[r.job] = 0, Held(r)
               PROVE  r.claim = claims[r.job]
    BY DEF HolderIsLatestClaim
  <2> r.job \in Jobs
    BY DEF TypeOK, Run
  <2> QED
    BY DEF RunsInv, Held
<1>2. QED
  BY <1>1, TypeCorrect, RunsNumbered, PTL
-----------------------------------------------------------------------------
(***************************************************************************)
(* `once` jobs.  While no admin retried one, a row of it in line has no    *)
(* run left anywhere and as many claims as failures finish() recorded, and *)
(* an active one has exactly one claim more: releaseStale never puts it    *)
(* back in line, so only finish() does, and finish() ends its only run.    *)
(***************************************************************************)
OnceInv ==
    \A j \in Once : retried[j] = 0 =>
        /\ claims[j] <= failures[j] + 1
        /\ \A r, s \in runs : r.job = j /\ s.job = j => r = s
        /\ status[j] \in {"absent", "pending"} =>
              claims[j] = failures[j] /\ \A r \in runs : r.job # j
        /\ status[j] = "active" => claims[j] = failures[j] + 1

\* OnceInv holds at first ...
LEMMA OnceInit == Init => OnceInv
  BY JobQueueAssumption DEF Init, OnceInv

\* ... and every step keeps it.
LEMMA OnceStep == TypeOK /\ OnceInv /\ [Next]_vars => OnceInv'
<1> SUFFICES ASSUME TypeOK, OnceInv, [Next]_vars,
                    NEW k \in Once, retried'[k] = 0
             PROVE  /\ claims'[k] <= failures'[k] + 1
                    /\ \A r, s \in runs' : r.job = k /\ s.job = k => r = s
                    /\ status'[k] \in {"absent", "pending"} =>
                          claims'[k] = failures'[k] /\ \A r \in runs' : r.job # k
                    /\ status'[k] = "active" => claims'[k] = failures'[k] + 1
  BY DEF OnceInv
<1> DEFINE Goal == /\ claims'[k] <= failures'[k] + 1
                   /\ \A r, s \in runs' : r.job = k /\ s.job = k => r = s
                   /\ status'[k] \in {"absent", "pending"} =>
                         claims'[k] = failures'[k] /\ \A r \in runs' : r.job # k
                   /\ status'[k] = "active" => claims'[k] = failures'[k] + 1
<1> k \in Jobs
  BY JobQueueAssumption
<1>t. /\ claims[k] \in Nat /\ failures[k] \in Nat /\ retried[k] \in Nat
      /\ \A r \in runs : r \in Run /\ r.job \in Jobs
  BY DEF TypeOK, Run
<1>a. ASSUME retried[k] = 0
      PROVE  /\ claims[k] <= failures[k] + 1
             /\ \A r, s \in runs : r.job = k /\ s.job = k => r = s
             /\ status[k] \in {"absent", "pending"} =>
                   claims[k] = failures[k] /\ \A r \in runs : r.job # k
             /\ status[k] = "active" => claims[k] = failures[k] + 1
  BY <1>a DEF OnceInv
\* Steps that leave the counters alone, start no run, and put no row in line
\* or under a lock that was not.
<1>b. ASSUME UNCHANGED <<claims, failures, retried>>, runs' \subseteq runs,
             status'[k] \in {"absent", "pending", "active"} => status'[k] = status[k]
      PROVE  Goal
  BY <1>a, <1>b
<1>1. ASSUME NEW j \in Jobs, JobStep(j) PROVE Goal
  <2>1. CASE Add(j)
    BY <2>1, <1>a DEF Add, workers, history, TypeOK
  <2>2. CASE RetryJob(j)
    <3>1. j # k
      BY <2>2, <1>t DEF RetryJob, TypeOK
    <3>2. QED
      BY <2>2, <3>1, <1>a DEF RetryJob, workers, TypeOK
  <2>3. CASE Prune(j)
    BY <2>3, <1>b DEF Prune, workers, history, TypeOK
  <2>4. CASE Elapse(j) \/ Lapse(j)
    BY <2>4, <1>b DEF Elapse, Lapse, workers, history
  <2>5. QED
    BY <1>1, <2>1, <2>2, <2>3, <2>4 DEF JobStep
<1>2. ASSUME NEW w \in Workers, PollStep(w) PROVE Goal
  <2>1. ASSUME NEW S \in SUBSET Jobs, Sweep(w, S) PROVE Goal
    <3>1. status'[k] \in {"absent", "pending", "active"} => status'[k] = status[k]
      BY <2>1 DEF Sweep, FailsWhenStale
    <3>2. QED
      BY <2>1, <3>1, <1>b DEF Sweep, history
  <2>2. ASSUME NEW S \in SUBSET Jobs, Claim(w, S) PROVE Goal
    <3> DEFINE new == {[job |-> j, worker |-> w, attempt |-> attempts[j] + 1,
                        claim |-> claims[j] + 1, phase |-> "running"] : j \in S}
    <3>1. runs' = runs \cup new /\ UNCHANGED <<retried, failures>>
      BY <2>2 DEF Claim
    <3>2. CASE k \in S
      <4>1. status[k] = "pending" /\ status'[k] = "active" /\ claims'[k] = claims[k] + 1
        BY <2>2, <3>2 DEF Claim, Ready
      <4>2. \A r, s \in new : r.job = k /\ s.job = k => r = s
        OBVIOUS
      <4>3. \A r \in runs : r.job # k
        BY <4>1, <3>1, <1>a
      <4>4. \A r, s \in runs' : r.job = k /\ s.job = k => r = s
        BY <3>1, <4>2, <4>3
      <4>5. claims'[k] = failures'[k] + 1
        BY <3>1, <4>1, <1>a
      <4>6. QED
        BY <4>1, <4>4, <4>5, <1>t, <3>1
    <3>3. CASE k \notin S
      <4>1. status'[k] = status[k] /\ claims'[k] = claims[k]
        BY <2>2, <3>3 DEF Claim
      <4>2. \A r \in new : r.job # k
        BY <3>3
      <4>3. QED
        BY <3>1, <4>1, <4>2, <1>a
    <3>4. QED
      BY <3>2, <3>3
  <2>3. ASSUME NEW j \in Jobs, Report(w, j) PROVE Goal
    BY <2>3, <1>b DEF Report, rows, history
  <2>4. CASE StartPoll(w) \/ SkipSweep(w) \/ PollFails(w)
    BY <2>4, <1>b DEF StartPoll, SkipSweep, PollFails, rows, history
  <2>5. QED
    BY <1>2, <2>1, <2>2, <2>3, <2>4 DEF PollStep
<1>3. ASSUME NEW r \in runs, RunStep(r) PROVE Goal
  <2>1. ASSUME NEW o \in Outcomes, HandlerEnds(r, o) PROVE Goal
    <3> DEFINE e == [r EXCEPT !.phase = o]
    <3>1. runs' = (runs \ {r}) \cup {e} /\ UNCHANGED <<status, claims, failures, retried>>
      BY <2>1 DEF HandlerEnds, rows, history
    <3>2. e.job = r.job
      BY <1>t, RunEndsSame
    <3> HIDE DEF e
    <3>3. QED
      BY <3>1, <3>2, <1>a
  <2>2. CASE Finish(r)
    <3>1. CASE Held(r) /\ r.job = k
      <4>1. status[k] = "active" /\ runs' = runs \ {r} /\ UNCHANGED <<claims, retried>>
        BY <2>2, <3>1 DEF Finish, Held
      <4>2. \A s \in runs' : s.job # k
        BY <3>1, <4>1, <1>a
      <4>3. status'[k] = Recorded(r)
        BY <2>2, <3>1, <1>t DEF Finish, TypeOK
      <4>4. failures'[k] = failures[k] + (IF WillRetry(r) THEN 1 ELSE 0)
        BY <2>2, <3>1, <1>t DEF Finish, TypeOK
      <4>5. Recorded(r) = "pending" => WillRetry(r)
        BY DEF Recorded
      <4>6. QED
        BY <4>1, <4>2, <4>3, <4>4, <4>5, <1>a, <1>t, RecordedTyped
    <3>2. CASE Held(r) /\ r.job # k
      <4>1. status'[k] = status[k] /\ failures'[k] = failures[k]
        BY <2>2, <3>2 DEF Finish, TypeOK
      <4>2. runs' \subseteq runs /\ UNCHANGED <<claims, retried>>
        BY <2>2 DEF Finish
      <4>3. QED
        BY <4>1, <4>2, <1>a
    <3>3. CASE ~Held(r)
      BY <2>2, <3>3, <1>b DEF Finish
    <3>4. QED
      BY <3>1, <3>2, <3>3
  <2>3. CASE Heartbeat(r) \/ FinishLost(r)
    BY <2>3, <1>b DEF Heartbeat, FinishLost, rows, history, workers
  <2>4. QED
    BY <1>3, <2>1, <2>2, <2>3 DEF RunStep
<1>4. ASSUME NEW w \in Workers, ProcessStep(w) PROVE Goal
  BY <1>4, <1>b DEF ProcessStep, Stop, Exit, Crash, Restart, Gone, rows, history
<1>5. CASE UNCHANGED vars
  BY <1>5, <1>b DEF vars, rows, workers, history
<1>6. QED
  BY <1>1, <1>2, <1>3, <1>4, <1>5 DEF Next

\* The bookkeeping of `once` jobs, as an invariant of the queue.
THEOREM OnceBookkeeping == Spec => []OnceInv
  BY TypeCorrect, OnceInit, OnceStep, PTL DEF Spec

\* A `once` job (a courier booking) never has two runs at a time, whatever
\* crashes, stale locks and lost outcomes happen, unless an admin retries it.
THEOREM OnceNeverTwice == Spec => []OnceRunsAlone
<1>1. OnceInv => OnceRunsAlone
  BY DEF OnceInv, OnceRunsAlone, RunsFor
<1>2. QED
  BY <1>1, OnceBookkeeping, PTL

\* A `once` job is claimed again only after a run of it recorded a failure: one
\* cut off by a crash, a stale lock or a lost outcome is never followed by
\* another.
THEOREM OnceNeverAfterCutOff == Spec => []OnceNotRunAfterCutOff
<1>1. OnceInv => OnceNotRunAfterCutOff
  BY DEF OnceInv, OnceNotRunAfterCutOff
<1>2. QED
  BY <1>1, OnceBookkeeping, PTL
-----------------------------------------------------------------------------
(***************************************************************************)
(* Dedupe keys.  Only add() brings a row into the table, and only while no *)
(* row there carries its key.                                              *)
(***************************************************************************)
LEMMA KeysStep == TypeOK /\ KeysUnique /\ [Next]_vars => KeysUnique'
<1> SUFFICES ASSUME TypeOK, KeysUnique, [Next]_vars PROVE KeysUnique'
  OBVIOUS
\* Whatever is in the table after the step was there before.
<1>a. ASSUME \A k \in Jobs : status'[k] \in {"absent", "pruned"} \/ Present(k)
      PROVE  KeysUnique'
  BY <1>a DEF KeysUnique, Present
<1>b. ASSUME UNCHANGED status PROVE KeysUnique'
  BY <1>b DEF KeysUnique, Present
<1>1. ASSUME NEW j \in Jobs, JobStep(j) PROVE KeysUnique'
  <2>1. CASE Add(j)
    <3>1. \A k \in Jobs : k # j => status'[k] = status[k]
      BY <2>1 DEF Add, TypeOK
    <3>2. \A k \in Jobs : Present(k) /\ KeyOf[k] = KeyOf[j] => KeyOf[j] = NoKey
      BY <2>1 DEF Add, KeyFree
    <3>3. QED
      BY <3>1, <3>2 DEF KeysUnique, Present
  <2>2. CASE RetryJob(j) \/ Prune(j)
    BY <2>2, <1>a DEF RetryJob, Prune, Present, TypeOK
  <2>3. CASE Elapse(j) \/ Lapse(j)
    BY <2>3, <1>b DEF Elapse, Lapse
  <2>4. QED
    BY <1>1, <2>1, <2>2, <2>3 DEF JobStep
<1>2. ASSUME NEW w \in Workers, PollStep(w) PROVE KeysUnique'
  <2>1. ASSUME NEW S \in SUBSET Jobs, Sweep(w, S) PROVE KeysUnique'
    BY <2>1, <1>a DEF Sweep, Stale, Present
  <2>2. ASSUME NEW S \in SUBSET Jobs, Claim(w, S) PROVE KeysUnique'
    BY <2>2, <1>a DEF Claim, Ready, Present
  <2>3. ASSUME NEW j \in Jobs, Report(w, j) PROVE KeysUnique'
    BY <2>3, <1>b DEF Report, rows
  <2>4. CASE StartPoll(w) \/ SkipSweep(w) \/ PollFails(w)
    BY <2>4, <1>b DEF StartPoll, SkipSweep, PollFails, rows
  <2>5. QED
    BY <1>2, <2>1, <2>2, <2>3, <2>4 DEF PollStep
<1>3. ASSUME NEW r \in runs, RunStep(r) PROVE KeysUnique'
  <2>1. CASE Finish(r) /\ Held(r)
    BY <2>1, <1>a DEF Finish, Held, Present, TypeOK
  <2>2. CASE Finish(r) /\ ~Held(r)
    BY <2>2, <1>b DEF Finish
  <2>3. ASSUME NEW o \in Outcomes, HandlerEnds(r, o) PROVE KeysUnique'
    BY <2>3, <1>b DEF HandlerEnds, rows
  <2>4. CASE Heartbeat(r) \/ FinishLost(r)
    BY <2>4, <1>b DEF Heartbeat, FinishLost, rows
  <2>5. QED
    BY <1>3, <2>1, <2>2, <2>3, <2>4 DEF RunStep
<1>4. ASSUME NEW w \in Workers, ProcessStep(w) PROVE KeysUnique'
  BY <1>4, <1>b DEF ProcessStep, Stop, Exit, Crash, Restart, Gone, rows
<1>5. CASE UNCHANGED vars
  BY <1>5, <1>b DEF vars, rows
<1>6. QED
  BY <1>1, <1>2, <1>3, <1>4, <1>5 DEF Next

\* Two rows of the table never carry the same dedupe key, for any number of
\* adders, retries and prunes.
THEOREM KeysAreUnique == Spec => []KeysUnique
<1>1. Init => KeysUnique
  BY DEF Init, KeysUnique, Present
<1>2. QED
  BY <1>1, KeysStep, TypeCorrect, PTL DEF Spec

-----------------------------------------------------------------------------
(***************************************************************************)
(* What completes a job.                                                   *)
(***************************************************************************)
LEMMA CompletedStep ==
    ASSUME TypeOK, [Next]_vars, NEW k \in Jobs,
           status[k] # "completed", status'[k] = "completed"
    PROVE  \E r \in runs \ runs' : r.job = k /\ r.phase = "ok"
<1>1. ASSUME NEW j \in Jobs, JobStep(j) PROVE FALSE
  BY <1>1 DEF JobStep, Add, RetryJob, Prune, Elapse, Lapse, TypeOK
<1>2. ASSUME NEW w \in Workers, PollStep(w) PROVE FALSE
  BY <1>2 DEF PollStep, StartPoll, SkipSweep, Sweep, Report, Claim, PollFails, rows
<1>3. ASSUME NEW r \in runs, RunStep(r) PROVE \E s \in runs \ runs' : s.job = k /\ s.phase = "ok"
  <2>1. CASE Finish(r)
    <3>1. Held(r) /\ status' = [status EXCEPT ![r.job] = Recorded(r)]
      BY <2>1 DEF Finish
    <3>2. r.job = k /\ Recorded(r) = "completed"
      BY <3>1 DEF TypeOK
    <3>3. r.phase = "ok"
      BY <3>2 DEF Recorded
    <3>4. r \notin runs'
      BY <2>1 DEF Finish
    <3>5. QED
      BY <3>2, <3>3, <3>4
  <2>2. CASE \E o \in Outcomes : HandlerEnds(r, o)
    BY <2>2 DEF HandlerEnds, rows
  <2>3. CASE Heartbeat(r) \/ FinishLost(r)
    BY <2>3 DEF Heartbeat, FinishLost, rows
  <2>4. QED
    BY <1>3, <2>1, <2>2, <2>3 DEF RunStep
<1>4. ASSUME NEW w \in Workers, ProcessStep(w) PROVE FALSE
  BY <1>4 DEF ProcessStep, Stop, Exit, Crash, Restart, Gone, rows
<1>5. CASE UNCHANGED vars
  BY <1>5 DEF vars, rows
<1>6. QED
  BY <1>1, <1>2, <1>3, <1>4, <1>5 DEF Next

\* A job is marked completed only by a run of it whose handler returned
\* normally; no sweep, retry or failure can do it.
THEOREM OnlySuccessCompletes == Spec => CompletedOnlyBySuccess
<1>1. TypeOK /\ [Next]_vars =>
        [\A j \in Jobs : status[j] # "completed" /\ status'[j] = "completed" =>
            \E r \in runs \ runs' : r.job = j /\ r.phase = "ok"]_vars
  BY CompletedStep
<1>2. QED
  BY <1>1, TypeCorrect, PTL DEF Spec, CompletedOnlyBySuccess

-----------------------------------------------------------------------------
(***************************************************************************)
(* Concurrency.  A claim takes at most the free slots of its worker, and a *)
(* run keeps its slot until it ends, its row lost or not.                  *)
(***************************************************************************)
SlotsInv == IsFiniteSet(runs) /\ ConcurrencyRespected

\* The runs of a worker are finitely many.
LEMMA RunsOfFinite ==
    ASSUME IsFiniteSet(runs), NEW w
    PROVE  IsFiniteSet(RunsOf(w)) /\ Cardinality(RunsOf(w)) \in Nat
  BY FS_Subset, FS_CardinalityType DEF RunsOf

\* Every step keeps SlotsInv.
LEMMA SlotsStep == TypeOK /\ SlotsInv /\ [Next]_vars => SlotsInv'
<1> SUFFICES ASSUME TypeOK, SlotsInv, [Next]_vars PROVE SlotsInv'
  OBVIOUS
<1>t. \A v \in Workers : /\ IsFiniteSet(RunsOf(v)) /\ Cardinality(RunsOf(v)) \in Nat
                         /\ Cardinality(RunsOf(v)) <= Concurrency
  BY RunsOfFinite DEF SlotsInv, ConcurrencyRespected
<1>a. ASSUME runs' \subseteq runs PROVE SlotsInv'
  <2>1. IsFiniteSet(runs')
    BY <1>a, FS_Subset DEF SlotsInv
  <2>2. ASSUME NEW v \in Workers PROVE Cardinality(RunsOf(v)') <= Concurrency
    <3>1. RunsOf(v)' \subseteq RunsOf(v)
      BY <1>a DEF RunsOf
    <3>2. /\ Cardinality(RunsOf(v)') <= Cardinality(RunsOf(v))
          /\ Cardinality(RunsOf(v)') \in Nat
      BY <3>1, <1>t, FS_Subset, FS_CardinalityType
    <3>3. QED
      BY <3>2, <1>t, JobQueueAssumption
  <2>3. QED
    BY <2>1, <2>2 DEF SlotsInv, ConcurrencyRespected
<1>1. ASSUME NEW j \in Jobs, JobStep(j) PROVE SlotsInv'
  BY <1>1, <1>a DEF JobStep, Add, RetryJob, Prune, Elapse, Lapse, workers
<1>2. ASSUME NEW w \in Workers, PollStep(w) PROVE SlotsInv'
  <2>1. ASSUME NEW S \in SUBSET Jobs, Claim(w, S) PROVE SlotsInv'
    <3> DEFINE started(j) == [job |-> j, worker |-> w, attempt |-> attempts[j] + 1,
                              claim |-> claims[j] + 1, phase |-> "running"]
               new == {started(j) : j \in S}
    <3>1. runs' = runs \cup new /\ Cardinality(S) <= FreeSlots(w)
      BY <2>1 DEF Claim
    <3>2. IsFiniteSet(S) /\ Cardinality(S) \in Nat
      BY JobQueueAssumption, FS_Subset, FS_CardinalityType
    <3>3. IsFiniteSet(new) /\ Cardinality(new) <= Cardinality(S) /\ Cardinality(new) \in Nat
      <4> DEFINE f == [j \in S |-> started(j)]
      <4>1. f \in Surjection(S, new)
        BY DEF Surjection
      <4>2. QED
        BY <3>2, <4>1, FS_Surjection, FS_CardinalityType
    <3>4. IsFiniteSet(runs')
      BY <3>1, <3>3, FS_Union DEF SlotsInv
    <3>5. ASSUME NEW v \in Workers PROVE Cardinality(RunsOf(v)') <= Concurrency
      <4>1. CASE v = w
        <5>1. RunsOf(w)' = RunsOf(w) \cup new
          BY <3>1 DEF RunsOf
        <5>2. Cardinality(RunsOf(w)') <= Cardinality(RunsOf(w)) + Cardinality(new)
          <6> DEFINE both == RunsOf(w) \cap new
          <6>1. IsFiniteSet(both) /\ Cardinality(both) \in Nat
            BY <1>t, FS_Subset, FS_CardinalityType
          <6>2. Cardinality(RunsOf(w) \cup new) = Cardinality(RunsOf(w)) + Cardinality(new) - Cardinality(both)
            BY <3>3, <1>t, FS_Union
          <6> HIDE DEF both, new
          <6>3. QED
            BY <5>1, <6>1, <6>2, <3>3, <1>t
        <5>3. QED
          <6>1. IsFiniteSet(RunsOf(w)') /\ Cardinality(RunsOf(w)') \in Nat
            BY <5>1, <3>3, <1>t, FS_Union, FS_CardinalityType
          <6>2. QED
            BY <4>1, <5>2, <6>1, <3>1, <3>2, <3>3, <1>t, JobQueueAssumption DEF FreeSlots
      <4>2. CASE v # w
        <5>1. RunsOf(v)' = RunsOf(v)
          BY <3>1, <4>2 DEF RunsOf
        <5>2. QED
          BY <5>1, <1>t
      <4>3. QED
        BY <4>1, <4>2
    <3>6. QED
      BY <3>4, <3>5 DEF SlotsInv, ConcurrencyRespected
  <2>2. ASSUME NEW S \in SUBSET Jobs, Sweep(w, S) PROVE SlotsInv'
    BY <2>2, <1>a DEF Sweep
  <2>3. ASSUME NEW j \in Jobs, Report(w, j) PROVE SlotsInv'
    BY <2>3, <1>a DEF Report
  <2>4. CASE StartPoll(w) \/ SkipSweep(w) \/ PollFails(w)
    BY <2>4, <1>a DEF StartPoll, SkipSweep, PollFails
  <2>5. QED
    BY <1>2, <2>1, <2>2, <2>3, <2>4 DEF PollStep
<1>3. ASSUME NEW r \in runs, RunStep(r) PROVE SlotsInv'
  <2>1. ASSUME NEW o \in Outcomes, HandlerEnds(r, o) PROVE SlotsInv'
    <3> DEFINE e == [r EXCEPT !.phase = o]
    <3>1. runs' = (runs \ {r}) \cup {e}
      BY <2>1 DEF HandlerEnds
    <3>2. e.worker = r.worker
      BY RunEndsSame DEF TypeOK
    <3> HIDE DEF e
    <3>3. IsFiniteSet(runs')
      BY <3>1, FS_RemoveElement, FS_AddElement DEF SlotsInv
    <3>4. ASSUME NEW v \in Workers PROVE Cardinality(RunsOf(v)') <= Concurrency
      <4>1. CASE v = r.worker
        <5>1. r \in RunsOf(v) /\ RunsOf(v)' = (RunsOf(v) \ {r}) \cup {e}
          BY <3>1, <3>2, <4>1 DEF RunsOf
        <5>2. /\ IsFiniteSet(RunsOf(v) \ {r})
              /\ Cardinality(RunsOf(v) \ {r}) = Cardinality(RunsOf(v)) - 1
          BY <5>1, <1>t, FS_RemoveElement
        <5>3. Cardinality(RunsOf(v)') <= Cardinality(RunsOf(v) \ {r}) + 1
          <6> DEFINE rest == RunsOf(v) \ {r}
          <6>1. Cardinality(rest \cup {e}) = IF e \in rest THEN Cardinality(rest) ELSE Cardinality(rest) + 1
            BY <5>2, FS_AddElement
          <6>2. Cardinality(rest) \in Nat
            BY <5>2, FS_CardinalityType
          <6>3. QED
            BY <5>1, <6>1, <6>2
        <5>4. IsFiniteSet(RunsOf(v)') /\ Cardinality(RunsOf(v)') \in Nat
          BY <5>1, <5>2, FS_AddElement, FS_CardinalityType
        <5>5. QED
          BY <5>2, <5>3, <5>4, <1>t, JobQueueAssumption
      <4>2. CASE v # r.worker
        <5>1. RunsOf(v)' = RunsOf(v)
          BY <3>1, <3>2, <4>2 DEF RunsOf
        <5>2. QED
          BY <5>1, <1>t
      <4>3. QED
        BY <4>1, <4>2
    <3>5. QED
      BY <3>3, <3>4 DEF SlotsInv, ConcurrencyRespected
  <2>2. CASE Finish(r) \/ Heartbeat(r) \/ FinishLost(r)
    BY <2>2, <1>a DEF Finish, Heartbeat, FinishLost, workers
  <2>3. QED
    BY <1>3, <2>1, <2>2 DEF RunStep
<1>4. ASSUME NEW w \in Workers, ProcessStep(w) PROVE SlotsInv'
  BY <1>4, <1>a DEF ProcessStep, Stop, Exit, Crash, Restart, Gone
<1>5. CASE UNCHANGED vars
  BY <1>5, <1>a DEF vars, workers
<1>6. QED
  BY <1>1, <1>2, <1>3, <1>4, <1>5 DEF Next

\* A worker never runs more jobs at a time than QUEUE_CONCURRENCY, the runs
\* whose rows were taken back from it included.
THEOREM SlotsRespected == Spec => []ConcurrencyRespected
<1>1. Init => SlotsInv
  <2> SUFFICES ASSUME Init PROVE SlotsInv
    OBVIOUS
  <2>1. runs = {}
    BY DEF Init
  <2>2. \A w \in Workers : RunsOf(w) = {}
    BY <2>1 DEF RunsOf
  <2>3. QED
    BY <2>1, <2>2, FS_EmptySet, JobQueueAssumption DEF SlotsInv, ConcurrencyRespected
<1>2. SlotsInv => ConcurrencyRespected
  BY DEF SlotsInv
<1>3. QED
  BY <1>1, <1>2, SlotsStep, TypeCorrect, PTL DEF Spec

-----------------------------------------------------------------------------
\* The tries of a job, the slots of a worker and the rows of a key stay within
\* their limits for any number of workers and jobs.
THEOREM LimitsAreKept == Spec => []LimitsKept
<1>1. AttemptsBounded /\ ConcurrencyRespected /\ KeysUnique => LimitsKept
  BY DEF LimitsKept
<1>2. QED
  BY <1>1, AttemptsAreBounded, SlotsRespected, KeysAreUnique, PTL

-----------------------------------------------------------------------------
(***************************************************************************)
(* The refinement.  The queue implements TaskQueue, the promise the rest   *)
(* of the program builds on: its runs stand for the executions, named by   *)
(* their job and the number of their claim, which RunsInv makes unique.    *)
(***************************************************************************)


\* The executions the runs of R stand for.
Execs(R) == {ExecOf(r) : r \in R}

\* The fields of the execution a run stands for.
LEMMA ExecFields ==
    ASSUME NEW r
    PROVE  ExecOf(r).job = r.job /\ ExecOf(r).id = r.claim /\ ExecOf(r).phase = r.phase
  BY DEF ExecOf

\* Ending some runs ends exactly their executions.
LEMMA ExecsEnd ==
    ASSUME RunsInv, NEW R \in SUBSET runs
    PROVE  Execs(runs \ R) = Execs(runs) \ Execs(R)
<1>1. \A r, s \in runs : ExecOf(r) = ExecOf(s) => r = s
  <2> SUFFICES ASSUME NEW r \in runs, NEW s \in runs, ExecOf(r) = ExecOf(s) PROVE r = s
    OBVIOUS
  <2>1. r.job = s.job /\ r.claim = s.claim
    BY ExecFields
  <2>2. QED
    BY <2>1 DEF RunsInv
<1>2. QED
  BY <1>1 DEF Execs

\* Adding a run adds its execution.
LEMMA ExecsGrow ==
    ASSUME NEW A, NEW B
    PROVE  Execs(A \cup B) = Execs(A) \cup Execs(B)
  BY DEF Execs

\* A step that gives one row a status gives its task the state that stands for.
LEMMA TaskStateBecomes ==
    ASSUME TypeOK, NEW j \in Jobs, NEW s, status' = [status EXCEPT ![j] = s]
    PROVE  TaskState' = [TaskState EXCEPT ![j] = TaskStateOf(s)]
  BY DEF TypeOK, TaskState

\* A step that changes no status class, claim, retry or run changes no promise.
LEMMA TaskStutter ==
    ASSUME UNCHANGED <<status, runs, claims, retried>>
    PROVE  UNCHANGED Task!taskVars
  BY DEF Task!taskVars, TaskState, ExecOf

\* The initial states map to an initial state of TaskQueue ...
LEMMA TaskInitial == Init => Task!TaskInit
  BY DEF Init, Task!TaskInit, TaskState, TaskStateOf

\* ... and every step to a step of it or to a stutter.
LEMMA TaskStep == TypeOK /\ TypeOK' /\ RunsInv /\ [Next]_vars => [Task!TaskNext]_(Task!taskVars)
<1> SUFFICES ASSUME TypeOK, TypeOK', RunsInv, [Next]_vars
             PROVE  Task!TaskNext \/ UNCHANGED Task!taskVars
  OBVIOUS
<1> DEFINE Goal == Task!TaskNext \/ UNCHANGED Task!taskVars
<1>s. ASSUME UNCHANGED <<status, runs, claims, retried>> PROVE Goal
  BY <1>s, TaskStutter
\* The runs of R end and nothing else changes: their executions are dropped.
<1>d. ASSUME NEW R \in SUBSET runs, runs' = runs \ R, UNCHANGED <<status, claims, retried>>
      PROVE  Goal
  <2>1. Execs(runs)' = Execs(runs) \ Execs(R)
    BY <1>d, ExecsEnd DEF Execs
  <2>2. Execs(R) \in SUBSET Execs(runs) /\ UNCHANGED TaskState
    BY <1>d DEF Execs, TaskState
  <2>3. Task!Drop(Execs(R))
    BY <1>d, <2>1, <2>2 DEF Task!Drop, Execs
  <2>4. QED
    BY <2>2, <2>3 DEF Task!TaskNext, Execs
<1>1. ASSUME NEW j \in Jobs, JobStep(j) PROVE Goal
  <2>1. CASE Add(j)
    <3>1. status' = [status EXCEPT ![j] = "pending"] /\ status[j] = "absent"
      BY <2>1 DEF Add
    <3>2. TaskState[j] = "absent" /\ TaskState' = [TaskState EXCEPT ![j] = "queued"]
      BY <3>1, TaskStateBecomes DEF TaskState, TaskStateOf
    <3>3. Task!AddTask(j)
      BY <2>1, <3>2 DEF Add, Task!AddTask, workers, history
    <3>4. QED
      BY <3>3 DEF Task!TaskNext
  <2>2. CASE RetryJob(j)
    <3>1. status' = [status EXCEPT ![j] = "pending"] /\ status[j] = "failed"
      BY <2>2 DEF RetryJob
    <3>2. TaskState[j] = "failed" /\ TaskState' = [TaskState EXCEPT ![j] = "queued"]
      BY <3>1, TaskStateBecomes DEF TaskState, TaskStateOf
    <3>3. Task!Revive(j)
      BY <2>2, <3>2 DEF RetryJob, Task!Revive, workers
    <3>4. QED
      BY <3>3 DEF Task!TaskNext
  <2>3. CASE Prune(j)
    <3>1. status' = [status EXCEPT ![j] = "pruned"] /\ status[j] \in {"completed", "failed"}
      BY <2>3 DEF Prune
    <3>2. TaskState[j] \in {"done", "failed"} /\ TaskState' = [TaskState EXCEPT ![j] = "forgotten"]
      BY <3>1, TaskStateBecomes DEF TaskState, TaskStateOf
    <3>3. Task!Forget(j)
      BY <2>3, <3>2 DEF Prune, Task!Forget, workers, history
    <3>4. QED
      BY <3>3 DEF Task!TaskNext
  <2>4. CASE Elapse(j) \/ Lapse(j)
    BY <2>4, <1>s DEF Elapse, Lapse, workers, history
  <2>5. QED
    BY <1>1, <2>1, <2>2, <2>3, <2>4 DEF JobStep
<1>2. ASSUME NEW w \in Workers, PollStep(w) PROVE Goal
  <2>1. ASSUME NEW S \in SUBSET Jobs, Sweep(w, S) PROVE Goal
    <3> DEFINE dead == {j \in S : FailsWhenStale(j)}
    <3>1. /\ status' = [j \in Jobs |-> IF j \in dead THEN "failed"
                                       ELSE IF j \in S THEN "pending" ELSE status[j]]
          /\ \A j \in S : status[j] = "active"
          /\ UNCHANGED <<runs, claims, retried>>
      BY <2>1 DEF Sweep, Stale, history
    <3> dead \in SUBSET S
      OBVIOUS
    <3> HIDE DEF dead
    <3>2. \A j \in dead : TaskState[j] = "queued"
      BY <3>1 DEF TaskState, TaskStateOf
    <3>3. TaskState' = [j \in Jobs |-> IF j \in dead THEN "failed" ELSE TaskState[j]]
      BY <3>1 DEF TaskState, TaskStateOf
    <3>4. Task!GiveUp(dead, {})
      BY <3>1, <3>2, <3>3 DEF Task!GiveUp, Task!Queued
    <3>5. QED
      BY <3>4 DEF Task!TaskNext
  <2>2. ASSUME NEW S \in SUBSET Jobs, Claim(w, S) PROVE Goal
    <3> DEFINE new == {[job |-> j, worker |-> w, attempt |-> attempts[j] + 1,
                        claim |-> claims[j] + 1, phase |-> "running"] : j \in S}
    <3>1. /\ status' = [j \in Jobs |-> IF j \in S THEN "active" ELSE status[j]]
          /\ \A j \in S : status[j] = "pending"
          /\ UNCHANGED retried
          /\ claims' = [j \in Jobs |-> IF j \in S THEN claims[j] + 1 ELSE claims[j]]
          /\ runs' = runs \cup new
      BY <2>2 DEF Claim, Ready
    <3>2. (\A j \in S : TaskState[j] = "queued") /\ UNCHANGED TaskState
      BY <3>1 DEF TaskState, TaskStateOf
    <3>3. Execs(new) = {[job |-> j, id |-> claims[j] + 1, phase |-> "running"] : j \in S}
      <4>1. \A j \in S : ExecOf([job |-> j, worker |-> w, attempt |-> attempts[j] + 1,
                                  claim |-> claims[j] + 1, phase |-> "running"])
                        = [job |-> j, id |-> claims[j] + 1, phase |-> "running"]
        BY DEF ExecOf
      <4>2. QED
        BY <4>1 DEF Execs
    <3>4. Execs(runs)' = Execs(runs) \cup Execs(new)
      BY <3>1, ExecsGrow DEF Execs
    <3>5. Task!Start(S)
      BY <3>1, <3>2, <3>3, <3>4 DEF Task!Start, Task!Queued, Execs
    <3>6. QED
      BY <3>5 DEF Task!TaskNext
  <2>3. ASSUME NEW j \in Jobs, Report(w, j) PROVE Goal
    BY <2>3, <1>s DEF Report, rows, history
  <2>4. CASE StartPoll(w) \/ SkipSweep(w) \/ PollFails(w)
    BY <2>4, <1>s DEF StartPoll, SkipSweep, PollFails, rows, history
  <2>5. QED
    BY <1>2, <2>1, <2>2, <2>3, <2>4 DEF PollStep
<1>3. ASSUME NEW r \in runs, RunStep(r) PROVE Goal
  <2> DEFINE x == ExecOf(r)
  <2>x. /\ x \in Execs(runs) /\ Execs({r}) = {x} /\ r \in Run
        /\ x.job = r.job /\ x.phase = r.phase /\ r.job \in Jobs
    BY ExecFields DEF Execs, TypeOK, Run
  <2>1. ASSUME NEW o \in Outcomes, HandlerEnds(r, o) PROVE Goal
    <3> DEFINE e == [r EXCEPT !.phase = o]
    <3>1. runs' = (runs \ {r}) \cup {e} /\ UNCHANGED <<status, claims, retried>>
      BY <2>1 DEF HandlerEnds, rows, history
    <3>2. ExecOf(e) = [x EXCEPT !.phase = o]
      BY <2>x, RunEndsSame DEF ExecOf
    <3>3. Execs(runs)' = (Execs(runs) \ {x}) \cup {[x EXCEPT !.phase = o]}
      <4>1. Execs({e}) = {[x EXCEPT !.phase = o]}
        BY <3>2 DEF Execs
      <4>2. Execs(runs') = Execs(runs \ {r}) \cup Execs({e})
        BY <3>1, ExecsGrow
      <4>3. Execs(runs \ {r}) = Execs(runs) \ {x}
        BY <2>x, ExecsEnd
      <4>4. QED
        BY <4>1, <4>2, <4>3 DEF Execs
    <3>4. x.phase = "running" /\ o # "running" /\ o \in Task!Phases
      BY <2>1, <2>x DEF HandlerEnds, Outcomes, Task!Phases
    <3>5. UNCHANGED TaskState
      BY <3>1 DEF TaskState
    <3>6. Task!Return(x, o)
      BY <3>1, <3>3, <3>4, <3>5 DEF Task!Return, Execs
    <3>7. QED
      BY <2>x, <3>4, <3>6 DEF Task!TaskNext, Execs
  <2>2. CASE Finish(r) /\ Held(r)
    <3>1. /\ status' = [status EXCEPT ![r.job] = Recorded(r)]
          /\ status[r.job] = "active" /\ runs' = runs \ {r}
          /\ UNCHANGED <<claims, retried>>
      BY <2>2 DEF Finish, Held
    <3>2. Execs(runs)' = Execs(runs) \ {x}
      BY <3>1, <2>x, ExecsEnd DEF Execs
    <3>3. TaskState[r.job] = "queued"
      BY <3>1, <2>x DEF TaskState, TaskStateOf
    <3>4. CASE Recorded(r) = "completed"
      <4>1. r.phase = "ok"
        BY <3>4 DEF Recorded
      <4>2. TaskState' = [TaskState EXCEPT ![r.job] = "done"]
        BY <3>1, <3>4, <2>x, TaskStateBecomes DEF TaskState, TaskStateOf, TypeOK
      <4>3. Task!Complete(x)
        BY <2>x, <3>1, <3>2, <3>3, <4>1, <4>2 DEF Task!Complete, Task!Queued, Execs
      <4>4. QED
        BY <2>x, <4>3 DEF Task!TaskNext, Execs
    <3>5. CASE Recorded(r) = "pending"
      <4>1. UNCHANGED TaskState
        BY <3>1, <3>5, <2>x, TaskStateBecomes DEF TaskState, TaskStateOf, TypeOK
      <4>2. Task!Drop({x})
        BY <3>1, <3>2, <4>1 DEF Task!Drop, Execs
      <4>3. QED
        BY <2>x, <4>2 DEF Task!TaskNext, Execs
    <3>6. CASE Recorded(r) = "failed"
      <4>1. TaskState' = [j \in Jobs |-> IF j \in {r.job} THEN "failed" ELSE TaskState[j]]
        BY <3>1, <3>6, <2>x, TaskStateBecomes DEF TaskState, TaskStateOf, TypeOK
      <4>2. Task!GiveUp({r.job}, {x})
        BY <3>1, <3>2, <3>3, <4>1 DEF Task!GiveUp, Task!Queued, Execs
      <4>3. QED
        BY <2>x, <4>2 DEF Task!TaskNext, Execs
    <3>7. QED
      BY <2>x, <3>4, <3>5, <3>6, RecordedTyped
  <2>3. CASE Finish(r) /\ ~Held(r)
    BY <2>3, <1>d DEF Finish
  <2>4. CASE FinishLost(r)
    BY <2>4, <1>d DEF FinishLost, rows, history
  <2>5. CASE Heartbeat(r)
    BY <2>5, <1>s DEF Heartbeat, workers, history
  <2>6. QED
    BY <1>3, <2>1, <2>2, <2>3, <2>4, <2>5 DEF RunStep
<1>4. ASSUME NEW w \in Workers, ProcessStep(w) PROVE Goal
  <2>1. CASE Stop(w) \/ Restart(w)
    BY <2>1, <1>s DEF Stop, Restart, rows, history
  <2>2. CASE Exit(w) \/ Crash(w)
    <3>1. runs' = runs \ RunsOf(w) /\ UNCHANGED <<status, claims, retried>>
      BY <2>2 DEF Exit, Crash, Gone, rows
    <3>2. RunsOf(w) \in SUBSET runs
      BY DEF RunsOf
    <3>3. QED
      BY <3>1, <3>2, <1>d
  <2>3. QED
    BY <1>4, <2>1, <2>2 DEF ProcessStep
<1>5. CASE UNCHANGED vars
  BY <1>5, <1>s DEF vars, rows, workers, history
<1>6. QED
  BY <1>1, <1>2, <1>3, <1>4, <1>5 DEF Next

\* The queue keeps its promise: a job once added stays queued until a run of it
\* that returned normally completes it or it is given up, runs start only for
\* queued jobs, and only a retry by hand brings a failed one back.
THEOREM QueueImplementsTaskQueue == Spec => ImplementsTaskQueue
  BY TypeCorrect, RunsNumbered, TaskInitial, TaskStep, PTL
     DEF Spec, ImplementsTaskQueue, Task!TaskSpec
=============================================================================
