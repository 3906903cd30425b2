----------------------------- MODULE ServiceProofs -----------------------------
(***************************************************************************)
(* Theorems about the services beside an order, for any number of events,  *)
(* requests, attempts, charges and ledger rows: the jobs behind a          *)
(* committed event, the change behind an Idempotency-Key, the delivery of  *)
(* a webhook, a store's subscription, the fees its orders pay from its     *)
(* wallet.                                                                 *)
(***************************************************************************)
EXTENDS Outbox, IdempotencyKeys, WebhookDelivery, Subscriptions, Wallet, Sums,
        SequenceTheorems

-----------------------------------------------------------------------------
(* What the outbox delivers, over any behaviour the queue's promise allows. *)

OutTypes ==
    /\ state    \in [Jobs -> {"absent", "queued", "done", "failed", "forgotten"}]
    /\ execs    \subseteq Exec
    /\ starts   \in [Jobs -> Nat]
    /\ revived  \in [Jobs -> Nat]
    /\ change   \in [Events -> {"none", "open", "committed", "rolledback"}]
    /\ row      \in [Events -> {"none", "written", "unwritten", "dispatched", "pruned"}]
    /\ inline   \in [Events -> SUBSET Consumers]
    /\ progress \subseteq Jobs \X Nat \X Consumers
    /\ handled  \subseteq Events \X Consumers
    /\ gaveUp   \subseteq Jobs

HandedOver(e) == row[e] \in {"dispatched", "pruned"}

\* What is delivered, or about to be, was committed first.
Commits ==
    /\ \A e \in Events : HandedOver(e) \/ inline[e] # {} => change[e] = "committed"
    /\ \A e \in Events : change[e] \in {"open", "committed"} => row[e] # "none"
    /\ \A e \in Events, c \in Consumers : <<e, c>> \in handled => change[e] = "committed"
    /\ \A e \in Events : ~HandedOver(e) => \A j \in About(e) : state[j] = "absent"
    /\ \A e \in Events : HandedOver(e) => \E j \in Rows(e, Dispatch) : state[j] # "absent"
    /\ \A x \in execs : state[x.job] # "absent"

\* Every retry by hand follows a failure, and what is done of a pruned event is
\* done for a retry.
Retries ==
    /\ \A j \in Jobs : state[j] = "failed" \/ revived[j] > 0 => j \in gaveUp
    /\ \A e \in Events : row[e] = "pruned" =>
         /\ \A j \in About(e) : Queued(j) => revived[j] > 0
         /\ \A x \in execs : EventOf(x) = e => revived[x.job] > 0

\* Added is for ever: a row may be forgotten, never absent again.
Added(e, c) == \E j \in Rows(e, c) : state[j] # "absent"

\* What a job that ended well leaves behind it.
Fruit(j) ==
    /\ Subject[j][2] \in Consumers => Subject[j] \in handled
    /\ Subject[j][2] = Dispatch => \A c \in Consumers : Added(Subject[j][1], c)

\* Why nothing is lost: what a handler has done so far, what it has done when it
\* returned, and what is done when its job is.
Work ==
    /\ \A p \in progress :
         /\ Subject[p[1]][2] \in Consumers /\ p[3] = Subject[p[1]][2] => Subject[p[1]] \in handled
         /\ Subject[p[1]][2] = Dispatch => Added(Subject[p[1]][1], p[3])
    /\ \A x \in execs : x.phase = "ok" => Fruit(x.job) \/ revived[x.job] > 0
    /\ \A j \in Jobs : state[j] = "done" => Fruit(j) \/ revived[j] > 0
    /\ \A j \in Jobs : state[j] = "forgotten" => Fruit(j) \/ j \in gaveUp

NotRetried(e) == \A d \in Rows(e, Dispatch) : revived[d] = 0

\* Once a row about an event is forgotten nothing dispatches it, but a retry.
OneGiven ==
    \A e \in Events : NotRetried(e) =>
      /\ (\E j \in About(e) : state[j] = "forgotten") =>
           /\ \A d \in Rows(e, Dispatch) : ~Queued(d)
           /\ \A x \in execs : x.job \notin Rows(e, Dispatch)
      /\ \A c \in Consumers : \A j, k \in Rows(e, c) :
           state[j] # "absent" /\ state[k] # "absent" => j = k

OutboxInv == OutTypes /\ Commits /\ Retries /\ Work /\ OneGiven

-----------------------------------------------------------------------------

\* Holds initially.
LEMMA OutboxInit == Init => OutboxInv
<1> SUFFICES ASSUME Init PROVE OutboxInv
  OBVIOUS
<1> USE DEF Init, TaskInit
<1>1. OutTypes
  BY DEF OutTypes
<1>2. Commits
  BY DEF Commits, HandedOver, About
<1>3. Retries
  BY DEF Retries, About, Queued
<1>4. Work
  BY DEF Work
<1>5. OneGiven
  BY DEF OneGiven, Rows, About
<1>6. QED
  BY <1>1, <1>2, <1>3, <1>4, <1>5 DEF OutboxInv

\* The subjects of the rows.
LEMMA Subjects ==
  /\ \A j \in Jobs : /\ Subject[j][1] \in Events /\ Subject[j][2] \in Consumers \cup {Dispatch}
                     /\ Subject[j] = <<Subject[j][1], Subject[j][2]>>
  /\ Dispatch \notin Consumers
  BY OutboxAssumption

\* The change and its row move; nothing is delivered yet.
LEMMA ChangeKeeps ==
  ASSUME OutboxInv, NEW e \in Events, Record(e) \/ Commit(e) \/ Rollback(e)
  PROVE  OutboxInv'
<1> USE DEF taskVars
<1>1. /\ state' = state /\ execs' = execs /\ starts' = starts /\ revived' = revived
      /\ progress' = progress /\ handled' = handled /\ gaveUp' = gaveUp
  BY DEF Record, Commit, Rollback
<1>2. /\ ~HandedOver(e) /\ change[e] # "committed" /\ ~HandedOver(e)'
      /\ \A f \in Events \ {e} : change'[f] = change[f] /\ row'[f] = row[f] /\ inline'[f] = inline[f]
      /\ inline'[e] # {} => change'[e] = "committed"
      /\ change'[e] \in {"open", "committed"} => row'[e] # "none"
  <2>1. change[e] \in {"none", "open"}
    BY DEF Record, Commit, Rollback
  <2>2. ~HandedOver(e) /\ inline[e] = {}
    BY <2>1 DEF OutboxInv, Commits
  <2>3. CASE Record(e)
    <3>1. PICK r \in {"written", "unwritten"} : row' = [row EXCEPT ![e] = r]
      BY <2>3 DEF Record
    <3>2. inline' = inline /\ change' = [change EXCEPT ![e] = "open"]
      BY <2>3 DEF Record
    <3>3. ~HandedOver(e)'
      BY <3>1 DEF OutboxInv, OutTypes, HandedOver
    <3>4. \A f \in Events \ {e} : change'[f] = change[f] /\ row'[f] = row[f]
      BY <3>1, <3>2 DEF OutboxInv, OutTypes
    <3>5. change'[e] = "open"
      BY <3>2 DEF OutboxInv, OutTypes
    <3>6. row'[e] # "none"
      BY <3>1 DEF OutboxInv, OutTypes
    <3>7. QED
      BY <2>1, <2>2, <3>2, <3>3, <3>4, <3>5, <3>6
  <2>4. CASE Commit(e)
    BY <2>1, <2>2, <2>4 DEF Commit, OutboxInv, OutTypes, Commits, HandedOver
  <2>5. CASE Rollback(e)
    BY <2>1, <2>2, <2>5 DEF Rollback, OutboxInv, OutTypes, HandedOver
  <2>6. QED
    BY <2>3, <2>4, <2>5
<1>3. OutTypes'
  <2>1. InlineAfter(e) \in SUBSET Consumers
    BY DEF InlineAfter
  <2>2. QED
    BY <2>1 DEF Record, Commit, Rollback, OutboxInv, OutTypes
<1>4. Commits'
  <2>1. ASSUME NEW f \in Events
        PROVE  /\ f # e => (HandedOver(f)' <=> HandedOver(f)) /\ change'[f] = change[f]
               /\ f # e => row'[f] = row[f] /\ inline'[f] = inline[f]
    BY <1>2 DEF HandedOver
  <2>2. QED
    BY <1>1, <1>2, <2>1 DEF OutboxInv, Commits
<1>5. Retries'
  BY <1>1, <1>2 DEF OutboxInv, Retries, Queued, HandedOver, About, EventOf
<1>6. Work' /\ OneGiven'
  BY <1>1 DEF OutboxInv, Work, OneGiven, Fruit, Added , NotRetried, Queued, Rows, About
<1>7. QED
  BY <1>3, <1>4, <1>5, <1>6 DEF OutboxInv

\* An unwritten event is delivered in the process, or not.
LEMMA InlineKeeps ==
  ASSUME OutboxInv, NEW e \in Events,
         InlineCutOff(e) \/ \E c \in Consumers : DeliverInline(e, c)
  PROVE  OutboxInv'
<1> USE DEF taskVars
<1>1. /\ state' = state /\ execs' = execs /\ starts' = starts /\ revived' = revived
      /\ progress' = progress /\ change' = change /\ row' = row /\ gaveUp' = gaveUp
  BY DEF InlineCutOff, DeliverInline
<1>2. /\ change[e] = "committed" /\ handled \subseteq handled'
      /\ inline' \in [Events -> SUBSET Consumers] /\ handled' \subseteq Events \X Consumers
      /\ \A f \in Events : inline'[f] # {} => inline[f] # {}
      /\ \A f \in Events, c \in Consumers : <<f, c>> \in handled' => <<f, c>> \in handled \/ f = e
  BY DEF InlineCutOff, DeliverInline, OutboxInv, OutTypes, Commits
<1>3. OutTypes'
  BY <1>1, <1>2 DEF OutboxInv, OutTypes
<1>4. Commits'
  <2>1. \A f \in Events : HandedOver(f)' <=> HandedOver(f)
    BY <1>1 DEF HandedOver
  <2>2. QED
    BY <1>1, <1>2, <2>1 DEF OutboxInv, Commits
<1>5. Retries' /\ OneGiven'
  BY <1>1 DEF OutboxInv, Retries, OneGiven, Queued, NotRetried, Rows, About, EventOf
<1>6. Work'
  BY <1>1, <1>2 DEF OutboxInv, Work, Fruit, Added, Rows
<1>7. QED
  BY <1>3, <1>4, <1>5, <1>6 DEF OutboxInv

\* Retention prunes an event nothing is queued or running for.
LEMMA PruneEventKeeps ==
  ASSUME OutboxInv, NEW e \in Events, PruneEvent(e)
  PROVE  OutboxInv'
<1>1. /\ state' = state /\ execs' = execs /\ starts' = starts /\ revived' = revived
      /\ change' = change /\ inline' = inline
      /\ progress' = progress /\ handled' = handled /\ gaveUp' = gaveUp
      /\ row' = [row EXCEPT ![e] = "pruned"] /\ row[e] = "dispatched" /\ ~Unsettled(e)
  BY DEF PruneEvent, taskVars
<1>2. OutTypes'
  BY <1>1 DEF OutboxInv, OutTypes
<1>3. \A f \in Events : /\ HandedOver(f)' <=> HandedOver(f)
                        /\ f # e => row'[f] = row[f]
                        /\ row'[f] = "none" => row[f] = "none"
  BY <1>1 DEF HandedOver, OutboxInv, OutTypes
<1>4. Commits'
  BY <1>1, <1>3 DEF OutboxInv, Commits
<1>5. Retries'
  <2>1. \A f \in Events : row'[f] = "pruned" => row[f] = "pruned" \/ f = e
    BY <1>3
  <2>2. /\ \A j \in About(e) : ~Queued(j)
        /\ \A x \in execs : EventOf(x) # e
    BY <1>1 DEF Unsettled
  <2>3. QED
    BY <1>1, <2>1, <2>2 DEF OutboxInv, Retries, Queued, EventOf
<1>6. Work'
  BY <1>1 DEF OutboxInv, Work, Fruit, Added, Rows
<1>7. OneGiven'
  BY <1>1 DEF OutboxInv, OneGiven, NotRetried, Queued
<1>8. QED
  BY <1>2, <1>4, <1>5, <1>6, <1>7 DEF OutboxInv

\* What is done stays done while no row becomes absent again.
LEMMA FruitKeeps ==
  ASSUME \A j \in Jobs : state[j] # "absent" => state'[j] # "absent",
         handled \subseteq handled'
  PROVE  /\ \A e, c : Added(e, c) => Added(e, c)'
         /\ \A j \in Jobs : Fruit(j) => Fruit(j)'
<1>1. \A e, c : Added(e, c) => Added(e, c)'
  BY DEF Added, Rows
<1>2. QED
  BY <1>1 DEF Fruit

\* A worker runs a queued job.
LEMMA ExecuteKeeps ==
  ASSUME OutboxInv, NEW j \in Jobs, Execute(j)
  PROVE  OutboxInv'
<1> DEFINE y == [job |-> j, id |-> starts[j] + 1, phase |-> "running"]
<1>1. /\ state' = state /\ revived' = revived /\ row' = row
      /\ change' = change /\ inline' = inline
      /\ progress' = progress /\ handled' = handled /\ gaveUp' = gaveUp
      /\ Queued(j) /\ execs' = execs \cup {y}
      /\ starts' = [i \in Jobs |-> IF i \in {j} THEN starts[i] + 1 ELSE starts[i]]
  BY DEF Execute, Start, outboxVars
<1>2. y.job = j /\ y.phase = "running"
  OBVIOUS
<1> HIDE DEF y
<1>3. OutTypes'
  <2>1. y \in Exec /\ starts' \in [Jobs -> Nat]
    BY <1>1 DEF y, Exec, Phases, OutboxInv, OutTypes
  <2>2. QED
    BY <1>1, <2>1 DEF OutboxInv, OutTypes
<1>4. Commits'
  <2>1. \A f \in Events : HandedOver(f)' <=> HandedOver(f)
    BY <1>1 DEF HandedOver
  <2>2. QED
    BY <1>1, <1>2, <2>1 DEF OutboxInv, Commits, Queued
<1>5. Retries'
  <2>1. ASSUME NEW e \in Events, row[e] = "pruned", EventOf(y) = e
        PROVE  revived[j] > 0
    BY <1>1, <1>2, <2>1 DEF OutboxInv, Retries, EventOf, About
  <2>2. QED
    BY <1>1, <1>2, <2>1 DEF OutboxInv, Retries, Queued, EventOf
<1>6. Work'
  BY <1>1, <1>2 DEF OutboxInv, Work, Fruit, Added, Rows
<1>7. OneGiven'
  BY <1>1, <1>2 DEF OutboxInv, OneGiven, NotRetried, Queued
<1>8. QED
  BY <1>3, <1>4, <1>5, <1>6, <1>7 DEF OutboxInv

\* A handler returns, or throws.
LEMMA ReturnKeeps ==
  ASSUME OutboxInv, NEW x \in execs, NEW p \in {"ok", "error"}, HandlerReturns(x, p)
  PROVE  OutboxInv'
<1> DEFINE y == [x EXCEPT !.phase = p]
<1>1. /\ state' = state /\ revived' = revived /\ row' = row /\ starts' = starts
      /\ change' = change /\ inline' = inline
      /\ progress' = progress /\ handled' = handled /\ gaveUp' = gaveUp
      /\ execs' = (execs \ {x}) \cup {y} /\ (p = "ok" => MayReturn(x))
  BY DEF HandlerReturns, Return, outboxVars
<1>2. x \in Exec
  BY DEF OutboxInv, OutTypes
<1>3. y.job = x.job /\ y.phase = p /\ y \in Exec
  BY <1>2 DEF Exec, Phases
<1> HIDE DEF y
<1>4. x.job \in Jobs /\ x.id \in Nat
  BY <1>2 DEF Exec
<1>5. OutTypes'
  BY <1>1, <1>3 DEF OutboxInv, OutTypes
<1>6. Commits'
  <2>1. \A f \in Events : HandedOver(f)' <=> HandedOver(f)
    BY <1>1 DEF HandedOver
  <2>2. QED
    BY <1>1, <1>3, <2>1 DEF OutboxInv, Commits
<1>7. Retries'
  BY <1>1, <1>3 DEF OutboxInv, Retries, Queued, EventOf
<1>8. p = "ok" => Fruit(x.job) \/ revived[x.job] > 0
  <2>1. CASE row[EventOf(x)] = "pruned"
    BY <2>1, <1>4, Subjects DEF OutboxInv, Retries, EventOf
  <2>2. CASE HandlerOf(x) = Dispatch /\ Done(x) = Consumers
    <3>1. \A c \in Consumers : <<x.job, x.id, c>> \in progress
      BY <2>2 DEF Done
    <3>2. \A c \in Consumers : Added(Subject[x.job][1], c)
      <4> TAKE c \in Consumers
      <4> DEFINE q == <<x.job, x.id, c>>
      <4>1. q \in progress /\ q[1] = x.job /\ q[3] = c
        BY <3>1
      <4> HIDE DEF q
      <4>2. QED
        BY <2>2, <4>1 DEF HandlerOf, OutboxInv, Work
    <3>3. QED
      BY <2>2, <3>2, Subjects DEF Fruit, HandlerOf
  <2>3. CASE HandlerOf(x) \in Done(x)
    <3> DEFINE q == <<x.job, x.id, HandlerOf(x)>>
    <3>1. q \in progress /\ q[1] = x.job /\ q[3] = Subject[x.job][2] /\ Subject[x.job][2] \in Consumers
      BY <2>3 DEF Done, HandlerOf
    <3> HIDE DEF q
    <3>2. Subject[x.job] \in handled
      BY <3>1 DEF OutboxInv, Work
    <3>3. QED
      BY <3>1, <3>2, Subjects DEF Fruit
  <2>4. QED
    BY <1>1, <2>1, <2>2, <2>3 DEF MayReturn
<1>9. Work'
  <2>1. \A j \in Jobs : Fruit(j)' <=> Fruit(j)
    BY <1>1 DEF Fruit, Added, Rows
  <2>2. \A e, c : Added(e, c)' <=> Added(e, c)
    BY <1>1 DEF Added, Rows
  <2>3. execs \subseteq Exec
    BY DEF OutboxInv, OutTypes
  <2>4. \A z \in execs : z.job \in Jobs
    BY <2>3 DEF Exec
  <2>5. QED
    BY <1>1, <1>3, <1>4, <1>8, <2>1, <2>2, <2>4 DEF OutboxInv, Work
<1>10. OneGiven'
  BY <1>1, <1>3 DEF OutboxInv, OneGiven, NotRetried, Queued
<1>11. QED
  BY <1>5, <1>6, <1>7, <1>9, <1>10 DEF OutboxInv

\* What Settle does to the record of the executions and of what was given up.
LEMMA SettleKeeps ==
  ASSUME OutTypes, Settle
  PROVE  /\ progress' \subseteq progress /\ gaveUp \subseteq gaveUp' /\ gaveUp' \subseteq Jobs
         /\ \A j \in Jobs : state'[j] = "failed" => j \in gaveUp'
         /\ row' = row /\ change' = change /\ inline' = inline /\ handled' = handled
         /\ \A e \in Events : HandedOver(e)' <=> HandedOver(e)
  BY DEF OutTypes, Settle, HandedOver

\* Executions and jobs that only end: finished, failed, cut off, forgotten.
LEMMA EndingKeeps ==
  ASSUME OutboxInv, OutTypes', execs' \subseteq execs, progress' \subseteq progress,
         gaveUp \subseteq gaveUp', revived' = revived,
         row' = row, change' = change, inline' = inline, handled' = handled,
         \A j \in Jobs : \/ state'[j] = state[j]
                         \/ state[j] = "queued" /\ state'[j] = "failed" /\ j \in gaveUp'
                         \/ /\ state[j] = "queued" /\ state'[j] = "done"
                            /\ Fruit(j) \/ revived[j] > 0
                         \/ /\ state[j] \in {"done", "failed"} /\ state'[j] = "forgotten"
                            /\ ~Unsettled(Subject[j][1])
  PROVE  OutboxInv'
<1>1. \A j \in Jobs : (state'[j] = "absent" <=> state[j] = "absent") /\ (Queued(j)' => Queued(j))
  BY DEF Queued
<1>2. execs \subseteq Exec
  BY DEF OutboxInv, OutTypes
<1>3. \A x \in execs : x.job \in Jobs
  BY <1>2 DEF Exec
<1>4. Commits'
  <2>1. \A e \in Events : HandedOver(e)' <=> HandedOver(e)
    BY DEF HandedOver
  <2>2. \A e \in Events : /\ \A j \in About(e) : j \in Jobs
                          /\ \A j \in Rows(e, Dispatch) : j \in Jobs
    BY DEF About, Rows
  <2>3. QED
    BY <1>1, <1>3, <2>1, <2>2 DEF OutboxInv, Commits
<1>5. Retries'
  <2>1. \A e \in Events : \A j \in About(e) : j \in Jobs
    BY DEF About
  <2>2. ASSUME NEW j \in Jobs, state'[j] = "failed" \/ revived'[j] > 0
        PROVE  j \in gaveUp'
    BY <2>2 DEF OutboxInv, Retries
  <2>3. ASSUME NEW e \in Events, row'[e] = "pruned"
        PROVE  /\ \A j \in About(e) : Queued(j)' => revived'[j] > 0
               /\ \A x \in execs' : EventOf(x) = e => revived'[x.job] > 0
    BY <1>1, <2>1, <2>3 DEF OutboxInv, Retries
  <2>4. QED
    BY <2>2, <2>3 DEF Retries, Queued, EventOf
<1>6. Work'
  <2>1. /\ \A e, c : Added(e, c) => Added(e, c)'
        /\ \A j \in Jobs : Fruit(j) => Fruit(j)'
    BY <1>1, FruitKeeps
  <2>2. \A p \in progress' :
         /\ Subject[p[1]][2] \in Consumers /\ p[3] = Subject[p[1]][2] => Subject[p[1]] \in handled'
         /\ Subject[p[1]][2] = Dispatch => Added(Subject[p[1]][1], p[3])'
    BY <2>1 DEF OutboxInv, Work
  <2>3. \A x \in execs' : x.phase = "ok" => Fruit(x.job)' \/ revived'[x.job] > 0
    BY <1>3, <2>1 DEF OutboxInv, Work
  <2>4. \A j \in Jobs : state'[j] = "done" => Fruit(j)' \/ revived'[j] > 0
    BY <2>1 DEF OutboxInv, Work
  <2>5. \A j \in Jobs : state'[j] = "forgotten" => Fruit(j)' \/ j \in gaveUp'
    BY <2>1 DEF OutboxInv, Work, Retries
  <2>6. QED
    BY <2>2, <2>3, <2>4, <2>5 DEF Work
<1>7. OneGiven'
  <2> SUFFICES ASSUME NEW e \in Events, NotRetried(e)
               PROVE  /\ (\E j \in About(e) : state'[j] = "forgotten") =>
                           /\ \A d \in Rows(e, Dispatch) : ~Queued(d)'
                           /\ \A x \in execs' : x.job \notin Rows(e, Dispatch)
                      /\ \A c \in Consumers : \A j, k \in Rows(e, c) :
                           state'[j] # "absent" /\ state'[k] # "absent" => j = k
    BY DEF OneGiven, NotRetried, Queued
  <2>1. \A c \in Consumers : \A j, k \in Rows(e, c) :
          state'[j] # "absent" /\ state'[k] # "absent" => j = k
    BY <1>1 DEF OutboxInv, OneGiven, Rows
  <2>2. ASSUME NEW j \in About(e), state'[j] = "forgotten"
        PROVE  /\ \A d \in Rows(e, Dispatch) : ~Queued(d)'
               /\ \A x \in execs' : x.job \notin Rows(e, Dispatch)
    <3>1. j \in Jobs /\ Subject[j][1] = e
      BY DEF About
    <3>2. CASE state[j] = "forgotten"
      <4>1. /\ \A d \in Rows(e, Dispatch) : ~Queued(d)
            /\ \A x \in execs : x.job \notin Rows(e, Dispatch)
        BY <3>2 DEF OutboxInv, OneGiven
      <4>2. QED
        BY <1>1, <4>1 DEF Rows
    <3>3. CASE ~Unsettled(e)
      <4>1. \A d \in Rows(e, Dispatch) : d \in About(e) /\ d \in Jobs
        BY DEF Rows, About
      <4>2. \A x \in execs : x.job \notin Rows(e, Dispatch)
        BY <3>3 DEF Unsettled, EventOf, Rows
      <4>3. QED
        BY <1>1, <3>3, <4>1, <4>2 DEF Unsettled
    <3>4. QED
      BY <2>2, <3>1, <3>2, <3>3
  <2>3. QED
    BY <2>1, <2>2
<1>8. QED
  BY <1>4, <1>5, <1>6, <1>7 DEF OutboxInv

\* A job is completed, or an execution is cut off.
LEMMA RunEndsKeeps ==
  ASSUME OutboxInv, NEW x \in execs, Finish(x) \/ CutOff(x)
  PROVE  OutboxInv'
<1>1. execs' \subseteq execs /\ revived' = revived /\ starts' = starts /\ Settle
  BY DEF Finish, CutOff, Complete, Drop
<1>2. x.job \in Jobs
  BY DEF OutboxInv, OutTypes, Exec
<1>3. /\ state' \in [Jobs -> {"absent", "queued", "done", "failed", "forgotten"}]
      /\ \A j \in Jobs : \/ state'[j] = state[j]
                         \/ /\ state[j] = "queued" /\ state'[j] = "done"
                            /\ Fruit(j) \/ revived[j] > 0
  <2>1. CASE CutOff(x)
    BY <2>1 DEF CutOff, Drop, OutboxInv, OutTypes
  <2>2. CASE Finish(x)
    <3>1. x.phase = "ok" /\ state[x.job] = "queued" /\ state' = [state EXCEPT ![x.job] = "done"]
      BY <2>2 DEF Finish, Complete, Queued
    <3>2. Fruit(x.job) \/ revived[x.job] > 0
      BY <3>1 DEF OutboxInv, Work
    <3>3. QED
      BY <1>2, <3>1, <3>2 DEF OutboxInv, OutTypes
  <2>3. QED
    BY <2>1, <2>2
<1>4. /\ progress' \subseteq progress /\ gaveUp \subseteq gaveUp' /\ gaveUp' \subseteq Jobs
      /\ row' = row /\ change' = change /\ inline' = inline /\ handled' = handled
  BY <1>1, SettleKeeps DEF OutboxInv
<1>5. OutTypes'
  BY <1>1, <1>3, <1>4 DEF OutboxInv, OutTypes
<1>6. QED
  BY <1>1, <1>3, <1>4, <1>5, EndingKeeps

\* A job is given up.
LEMMA GiveUpKeeps ==
  ASSUME OutboxInv, NEW j \in Jobs, NEW X \in SUBSET execs, GiveUp({j}, X), Settle
  PROVE  OutboxInv'
<1>1. /\ execs' \subseteq execs /\ revived' = revived /\ starts' = starts /\ Queued(j)
      /\ state' = [i \in Jobs |-> IF i \in {j} THEN "failed" ELSE state[i]]
  BY DEF GiveUp
<1>2. /\ progress' \subseteq progress /\ gaveUp \subseteq gaveUp' /\ gaveUp' \subseteq Jobs
      /\ \A i \in Jobs : state'[i] = "failed" => i \in gaveUp'
      /\ row' = row /\ change' = change /\ inline' = inline /\ handled' = handled
  BY SettleKeeps DEF OutboxInv
<1>3. OutTypes'
  BY <1>1, <1>2 DEF OutboxInv, OutTypes
<1>4. \A i \in Jobs : \/ state'[i] = state[i]
                      \/ state[i] = "queued" /\ state'[i] = "failed" /\ i \in gaveUp'
  BY <1>1, <1>2 DEF Queued
<1>5. QED
  BY <1>1, <1>2, <1>3, <1>4, EndingKeeps

\* Retention forgets a finished job of a settled event.
LEMMA PruneJobKeeps ==
  ASSUME OutboxInv, NEW j \in Jobs, PruneJob(j)
  PROVE  OutboxInv'
<1>1. /\ execs' = execs /\ revived' = revived /\ starts' = starts
      /\ progress' = progress /\ gaveUp' = gaveUp
      /\ row' = row /\ change' = change /\ inline' = inline /\ handled' = handled
      /\ state[j] \in {"done", "failed"} /\ ~Unsettled(Subject[j][1])
      /\ state' = [state EXCEPT ![j] = "forgotten"]
  BY DEF PruneJob, Forget, outboxVars
<1>2. OutTypes'
  BY <1>1 DEF OutboxInv, OutTypes
<1>3. \A i \in Jobs : \/ state'[i] = state[i]
                      \/ /\ state[i] \in {"done", "failed"} /\ state'[i] = "forgotten"
                         /\ ~Unsettled(Subject[i][1])
  BY <1>1 DEF OutboxInv, OutTypes
<1>4. QED
  BY <1>1, <1>2, <1>3, EndingKeeps

\* A consumer does its work.
LEMMA ConsumeKeeps ==
  ASSUME OutboxInv, NEW x \in execs, Consume(x)
  PROVE  OutboxInv'
<1> DEFINE e == EventOf(x)
           c == HandlerOf(x)
           q == <<x.job, x.id, c>>
<1>1. /\ state' = state /\ execs' = execs /\ starts' = starts /\ revived' = revived
      /\ change' = change /\ row' = row /\ inline' = inline /\ gaveUp' = gaveUp
      /\ c \in Consumers /\ row[e] = "dispatched"
      /\ handled' = handled \cup {<<e, c>>} /\ progress' = progress \cup {q}
  BY DEF Consume, taskVars
<1>2. x.job \in Jobs /\ x.id \in Nat /\ Subject[x.job] = <<e, c>> /\ e \in Events /\ c # Dispatch
  BY <1>1, Subjects DEF OutboxInv, OutTypes, Exec, EventOf, HandlerOf
<1>3. change[e] = "committed"
  BY <1>1, <1>2 DEF OutboxInv, Commits, HandedOver
<1>4. q \in Jobs \X Nat \X Consumers /\ q[1] = x.job
  BY <1>1, <1>2
<1> HIDE DEF e, c, q
<1>5. OutTypes'
  BY <1>1, <1>2, <1>4 DEF OutboxInv, OutTypes
<1>6. Commits'
  <2>1. \A f \in Events : HandedOver(f)' <=> HandedOver(f)
    BY <1>1 DEF HandedOver
  <2>2. \A f \in Events, d \in Consumers : <<f, d>> \in handled' => <<f, d>> \in handled \/ f = e
    BY <1>1
  <2>3. QED
    BY <1>1, <1>3, <2>1, <2>2 DEF OutboxInv, Commits
<1>7. Retries' /\ OneGiven'
  BY <1>1 DEF OutboxInv, Retries, OneGiven, Queued, NotRetried, EventOf
<1>8. Work'
  <2>1. /\ \A f, d : Added(f, d) => Added(f, d)'
        /\ \A j \in Jobs : Fruit(j) => Fruit(j)'
    BY <1>1, FruitKeeps
  <2>2. \A p \in progress' :
         /\ Subject[p[1]][2] \in Consumers /\ p[3] = Subject[p[1]][2] => Subject[p[1]] \in handled'
         /\ Subject[p[1]][2] = Dispatch => Added(Subject[p[1]][1], p[3])'
    <3> TAKE p \in progress'
    <3>1. CASE p = q
      BY <1>1, <1>2, <1>4, <3>1
    <3>2. CASE p \in progress
      BY <1>1, <2>1, <3>2 DEF OutboxInv, Work
    <3>3. QED
      BY <1>1, <3>1, <3>2
  <2>3. \A z \in execs : z.job \in Jobs
    BY DEF OutboxInv, OutTypes, Exec
  <2>4. QED
    BY <1>1, <2>1, <2>2, <2>3 DEF OutboxInv, Work
<1>9. QED
  BY <1>5, <1>6, <1>7, <1>8 DEF OutboxInv

\* A failed job goes back in line by hand.
LEMMA RetryKeeps ==
  ASSUME OutboxInv, NEW j \in Jobs, RetryByHand(j)
  PROVE  OutboxInv'
<1>1. /\ execs' = execs /\ starts' = starts /\ progress' = progress /\ gaveUp' = gaveUp
      /\ row' = row /\ change' = change /\ inline' = inline /\ handled' = handled
      /\ state[j] = "failed" /\ state' = [state EXCEPT ![j] = "queued"]
      /\ revived' = [revived EXCEPT ![j] = @ + 1]
  BY DEF RetryByHand, Revive, outboxVars
<1>2. OutTypes'
  BY <1>1 DEF OutboxInv, OutTypes
<1>3. /\ \A i \in Jobs : revived[i] > 0 => revived'[i] > 0
      /\ \A i \in Jobs : i # j => state'[i] = state[i]
      /\ state'[j] = "queued" /\ revived'[j] > 0 /\ j \in gaveUp
      /\ \A i \in Jobs : revived'[i] > 0 => revived[i] > 0 \/ i = j
      /\ \A i \in Jobs : revived'[i] = 0 => revived[i] = 0 /\ i # j
  BY <1>1 DEF OutboxInv, OutTypes, Retries
<1>4. \A z \in execs : z.job \in Jobs
  BY DEF OutboxInv, OutTypes, Exec
<1>5. \A e \in Events : About(e) \subseteq Jobs /\ Rows(e, Dispatch) \subseteq About(e)
  BY DEF About, Rows
<1>6. \A i \in Jobs : state'[i] = "absent" <=> state[i] = "absent"
  BY <1>1, <1>3
<1>7. Commits'
  <2>1. \A f \in Events : HandedOver(f)' <=> HandedOver(f)
    BY <1>1 DEF HandedOver
  <2>2. QED
    BY <1>1, <1>4, <1>5, <1>6, <2>1 DEF OutboxInv, Commits
<1>8. Retries'
  BY <1>1, <1>3, <1>4, <1>5 DEF OutboxInv, Retries, Queued, EventOf
<1>9. Work'
  <2>1. /\ \A f, d : Added(f, d) => Added(f, d)'
        /\ \A i \in Jobs : Fruit(i) => Fruit(i)'
    BY <1>1, <1>6, FruitKeeps
  <2>2. \A i \in Jobs : state'[i] \in {"done", "forgotten"} => state'[i] = state[i]
    BY <1>1, <1>3
  <2>3. QED
    BY <1>1, <1>3, <1>4, <2>1, <2>2 DEF OutboxInv, Work
<1>10. OneGiven'
  <2> SUFFICES ASSUME NEW e \in Events, NotRetried(e)'
               PROVE  /\ (\E i \in About(e) : state'[i] = "forgotten") =>
                           /\ \A d \in Rows(e, Dispatch) : ~Queued(d)'
                           /\ \A x \in execs' : x.job \notin Rows(e, Dispatch)
                      /\ \A c \in Consumers : \A i, k \in Rows(e, c) :
                           state'[i] # "absent" /\ state'[k] # "absent" => i = k
    BY DEF OneGiven, NotRetried, Queued
  <2>1. NotRetried(e) /\ j \notin Rows(e, Dispatch)
    BY <1>3, <1>5 DEF NotRetried
  <2>2. /\ \A d \in Rows(e, Dispatch) : Queued(d)' <=> Queued(d)
        /\ \A i \in Jobs : state'[i] = "forgotten" => state[i] = "forgotten"
    BY <1>3, <1>5, <2>1 DEF Queued
  <2>3. \A c \in Consumers : Rows(e, c) \subseteq Jobs
    BY DEF Rows
  <2>4. QED
    BY <1>1, <1>5, <1>6, <2>1, <2>2, <2>3 DEF OutboxInv, OneGiven
<1>11. QED
  BY <1>2, <1>7, <1>8, <1>9, <1>10 DEF OutboxInv

\* Rows only enter the queue: for an event that is dispatched, one of its own
\* handler or one of a consumer that had none.
LEMMA AddingKeeps ==
  ASSUME OutboxInv, OutTypes', execs' = execs, revived' = revived, change' = change,
         inline' = inline, handled' = handled, gaveUp' = gaveUp,
         \A j \in Jobs : \/ state'[j] = state[j]
                         \/ state[j] = "absent" /\ state'[j] = "queued" /\ HandedOver(Subject[j][1])',
         \A e \in Events : HandedOver(e) => row'[e] = row[e],
         \A e \in Events : row'[e] # row[e] =>
            /\ row'[e] = "dispatched" /\ change[e] = "committed"
            /\ \E d \in Rows(e, Dispatch) : state'[d] # "absent",
         \A j \in Jobs : state'[j] # state[j] =>
            /\ row'[Subject[j][1]] = "dispatched"
            /\ \A k \in Jobs : state[k] # "forgotten" \/ Subject[k][1] # Subject[j][1]
                               \/ ~NotRetried(Subject[j][1])
            /\ Subject[j][2] \in Consumers /\ NotRetried(Subject[j][1]) =>
                 \A k \in Jobs : Subject[k] = Subject[j] /\ k # j => state'[k] = "absent",
         \A p \in progress' \ progress :
            Subject[p[1]][2] = Dispatch /\ Added(Subject[p[1]][1], p[3])'
  PROVE  OutboxInv'
<1>1. \A z \in execs : z.job \in Jobs
  BY DEF OutboxInv, OutTypes, Exec
<1>2. \A e \in Events : About(e) \subseteq Jobs /\ Rows(e, Dispatch) \subseteq About(e)
  BY DEF About, Rows
<1>3. \A j \in Jobs : /\ state[j] # "absent" => state'[j] = state[j]
                      /\ state'[j] # state[j] => state[j] = "absent" /\ state'[j] = "queued"
  OBVIOUS
<1>4. \A e \in Events : (HandedOver(e) => HandedOver(e)') /\ (row'[e] = "pruned" => row[e] = "pruned")
  BY DEF HandedOver
<1>5. Commits'
  <2>1. \A e \in Events : HandedOver(e)' \/ inline'[e] # {} => change'[e] = "committed"
    BY DEF HandedOver, OutboxInv, Commits
  <2>2. \A e \in Events : change'[e] \in {"open", "committed"} => row'[e] # "none"
    BY DEF OutboxInv, Commits
  <2>3. \A e \in Events : ~HandedOver(e)' => \A j \in About(e) : state'[j] = "absent"
    BY <1>2, <1>3, <1>4 DEF About, OutboxInv, Commits
  <2>4. \A e \in Events : HandedOver(e)' => \E j \in Rows(e, Dispatch) : state'[j] # "absent"
    BY <1>2, <1>3 DEF HandedOver, OutboxInv, Commits
  <2>5. \A x \in execs : state'[x.job] # "absent"
    BY <1>1, <1>3 DEF OutboxInv, Commits
  <2>6. QED
    BY <2>1, <2>2, <2>3, <2>4, <2>5 DEF OutboxInv, Commits
<1>6. Retries'
  <2>1. \A j \in Jobs : state'[j] = "failed" \/ revived'[j] > 0 => j \in gaveUp'
    BY <1>3 DEF OutboxInv, Retries
  <2>2. ASSUME NEW e \in Events, row'[e] = "pruned"
        PROVE  /\ \A j \in About(e) : Queued(j)' => revived'[j] > 0
               /\ \A x \in execs' : EventOf(x) = e => revived'[x.job] > 0
    <3>1. \A j \in About(e) : state'[j] = state[j]
      BY <2>2 DEF About
    <3>2. QED
      BY <1>4, <2>2, <3>1 DEF OutboxInv, Retries, Queued
  <2>3. QED
    BY <2>1, <2>2 DEF Retries, Queued, EventOf
<1>7. Work'
  <2>1. /\ \A f, d : Added(f, d) => Added(f, d)'
        /\ \A i \in Jobs : Fruit(i) => Fruit(i)'
    BY <1>3, FruitKeeps
  <2>2. \A i \in Jobs : state'[i] \in {"done", "forgotten"} => state'[i] = state[i]
    BY <1>3
  <2>3. \A p \in progress' :
         /\ Subject[p[1]][2] \in Consumers /\ p[3] = Subject[p[1]][2] => Subject[p[1]] \in handled'
         /\ Subject[p[1]][2] = Dispatch => Added(Subject[p[1]][1], p[3])'
    <3> TAKE p \in progress'
    <3>1. CASE p \in progress
      BY <2>1, <3>1 DEF OutboxInv, Work
    <3>2. CASE p \notin progress
      BY <3>2, Subjects
    <3>3. QED
      BY <3>1, <3>2
  <2>4. QED
    BY <1>1, <2>1, <2>2, <2>3 DEF OutboxInv, Work
<1>8. OneGiven'
  <2> SUFFICES ASSUME NEW e \in Events, NotRetried(e)
               PROVE  /\ (\E i \in About(e) : state'[i] = "forgotten") =>
                           /\ \A d \in Rows(e, Dispatch) : ~Queued(d)'
                           /\ \A x \in execs' : x.job \notin Rows(e, Dispatch)
                      /\ \A c \in Consumers : \A i, k \in Rows(e, c) :
                           state'[i] # "absent" /\ state'[k] # "absent" => i = k
    BY DEF OneGiven, NotRetried, Queued
  <2>1. ASSUME NEW i \in About(e), state'[i] = "forgotten"
        PROVE  /\ \A d \in Rows(e, Dispatch) : ~Queued(d)'
               /\ \A x \in execs' : x.job \notin Rows(e, Dispatch)
    <3>1. i \in Jobs /\ Subject[i][1] = e /\ state[i] = "forgotten"
      BY <1>3, <2>1 DEF About
    <3>2. \A d \in Rows(e, Dispatch) : d \in Jobs /\ Subject[d][1] = e
      BY DEF Rows
    <3>3. \A d \in Rows(e, Dispatch) : state'[d] = state[d]
      BY <3>1, <3>2
    <3>4. QED
      BY <3>1, <3>3 DEF OutboxInv, OneGiven, Queued
  <2>2. ASSUME NEW c \in Consumers, NEW i \in Rows(e, c), NEW k \in Rows(e, c),
               state'[i] # "absent", state'[k] # "absent"
        PROVE  i = k
    <3>1. /\ i \in Jobs /\ k \in Jobs /\ Subject[i] = Subject[k]
          /\ Subject[i][1] = e /\ Subject[i][2] = c
      BY DEF Rows
    <3>2. CASE state'[i] # state[i] \/ state'[k] # state[k]
      BY <2>2, <3>1, <3>2
    <3>3. CASE state'[i] = state[i] /\ state'[k] = state[k]
      BY <2>2, <3>3 DEF OutboxInv, OneGiven
    <3>4. QED
      BY <3>2, <3>3
  <2>3. QED
    BY <2>1, <2>2
<1>9. QED
  BY <1>5, <1>6, <1>7, <1>8 DEF OutboxInv

\* The events/dispatch handler adds a consumer's job, unless its key is taken.
LEMMA AddConsumerKeeps ==
  ASSUME OutboxInv, NEW x \in execs, NEW c \in Consumers, AddConsumer(x, c)
  PROVE  OutboxInv'
<1> DEFINE e == EventOf(x)
           q == <<x.job, x.id, c>>
<1>1. /\ execs' = execs /\ starts' = starts /\ revived' = revived
      /\ change' = change /\ row' = row /\ inline' = inline
      /\ handled' = handled /\ gaveUp' = gaveUp
      /\ HandlerOf(x) = Dispatch /\ row[e] = "dispatched"
      /\ progress' = progress \cup {q}
  BY DEF AddConsumer
<1>2. x.job \in Jobs /\ x.id \in Nat /\ Subject[x.job] = <<e, Dispatch>> /\ e \in Events
  BY <1>1, Subjects DEF OutboxInv, OutTypes, Exec, EventOf, HandlerOf
<1>3. q \in Jobs \X Nat \X Consumers /\ q[1] = x.job /\ q[3] = c
  BY <1>2
<1>4. \/ KeyTaken(e, c) /\ state' = state
      \/ \E j \in Rows(e, c) : /\ ~KeyTaken(e, c) /\ state[j] = "absent"
                               /\ state' = [state EXCEPT ![j] = "queued"]
  BY DEF AddConsumer
<1> HIDE DEF e, q
<1>5. OutTypes'
  <2>1. state' \in [Jobs -> {"absent", "queued", "done", "failed", "forgotten"}]
    BY <1>4 DEF Rows, OutboxInv, OutTypes
  <2>2. QED
    BY <1>1, <1>3, <2>1 DEF OutboxInv, OutTypes
<1>6. Added(e, c)'
  <2>1. CASE KeyTaken(e, c) /\ state' = state
    BY <2>1 DEF KeyTaken, InTable, Added, Rows
  <2>2. CASE \E j \in Rows(e, c) : state' = [state EXCEPT ![j] = "queued"]
    <3>1. PICK j \in Rows(e, c) : state' = [state EXCEPT ![j] = "queued"]
      BY <2>2
    <3>2. j \in Jobs
      BY DEF Rows
    <3>3. state'[j] # "absent"
      BY <3>1, <3>2 DEF OutboxInv, OutTypes
    <3>4. QED
      BY <3>3 DEF Added, Rows
  <2>3. QED
    BY <1>4, <2>1, <2>2
<1>7. \A j \in Jobs : state'[j] # state[j] =>
        /\ state[j] = "absent" /\ state'[j] = "queued" /\ Subject[j] = <<e, c>>
        /\ ~KeyTaken(e, c)
        /\ \A k \in Jobs : k # j => state'[k] = state[k]
  BY <1>4 DEF Rows, OutboxInv, OutTypes
<1>8. NotRetried(e) => \A k \in Jobs : state[k] # "forgotten" \/ Subject[k][1] # e
  <2>1. x.job \in Rows(e, Dispatch)
    BY <1>2 DEF Rows
  <2>2. QED
    BY <1>2, <2>1 DEF OutboxInv, OneGiven, About
<1>9. ASSUME NEW j \in Jobs, state'[j] # state[j]
      PROVE  /\ row'[Subject[j][1]] = "dispatched" /\ HandedOver(Subject[j][1])'
             /\ \A k \in Jobs : state[k] # "forgotten" \/ Subject[k][1] # Subject[j][1]
                                \/ ~NotRetried(Subject[j][1])
             /\ NotRetried(Subject[j][1]) =>
                  \A k \in Jobs : Subject[k] = Subject[j] /\ k # j => state'[k] = "absent"
  <2>1. Subject[j] = <<e, c>> /\ Subject[j][1] = e /\ ~KeyTaken(e, c)
    BY <1>7, <1>9
  <2>2. ASSUME NotRetried(e), NEW k \in Jobs, Subject[k] = Subject[j], k # j
        PROVE  state'[k] = "absent"
    <3>1. ~InTable(k) /\ Subject[k][1] = e
      BY <2>1, <2>2 DEF KeyTaken, Rows
    <3>2. state[k] # "forgotten"
      BY <1>8, <2>2, <3>1
    <3>3. QED
      BY <1>7, <1>9, <2>2, <3>1, <3>2 DEF InTable
  <2>3. QED
    BY <1>1, <1>8, <2>1, <2>2 DEF HandedOver
<1>10. \A p \in progress' \ progress :
         Subject[p[1]][2] = Dispatch /\ Added(Subject[p[1]][1], p[3])'
  BY <1>1, <1>2, <1>3, <1>6
<1>11. \A j \in Jobs : \/ state'[j] = state[j]
                       \/ state[j] = "absent" /\ state'[j] = "queued" /\ HandedOver(Subject[j][1])'
  BY <1>7, <1>9
<1>12. QED
  BY <1>1, <1>5, <1>9, <1>10, <1>11, AddingKeeps

\* The dispatcher queues a batch of committed events.
LEMMA DispatchKeeps ==
  ASSUME OutboxInv, NEW B \in SUBSET Events, DispatchPending(B)
  PROVE  OutboxInv'
<1> DEFINE first(e) == CHOOSE j \in Rows(e, Dispatch) : ~InTable(j)
           new == {first(e) : e \in B}
<1>1. /\ execs' = execs /\ starts' = starts /\ revived' = revived /\ change' = change
      /\ inline' = inline /\ progress' = progress /\ handled' = handled /\ gaveUp' = gaveUp
      /\ \A e \in B : change[e] = "committed" /\ row[e] = "written"
      /\ row' = [e \in Events |-> IF e \in B THEN "dispatched" ELSE row[e]]
      /\ state' = [j \in Jobs |-> IF j \in new THEN "queued" ELSE state[j]]
  BY DEF DispatchPending, Undispatched
<1>2. \A e \in B : ~HandedOver(e) /\ HandedOver(e)'
  BY <1>1 DEF HandedOver
<1>3. \A e \in B, j \in Jobs : Subject[j][1] = e => state[j] = "absent"
  BY <1>2 DEF OutboxInv, Commits, About
<1>4. ASSUME NEW e \in B
      PROVE  first(e) \in Rows(e, Dispatch)
  <2>1. PICK j \in Jobs : Subject[j] = <<e, Dispatch>>
    BY OutboxAssumption
  <2>2. j \in Rows(e, Dispatch) /\ state[j] = "absent"
    BY <1>3, <2>1 DEF Rows
  <2>3. ~InTable(j)
    BY <2>2 DEF InTable
  <2>4. QED
    BY <2>2, <2>3
<1> HIDE DEF first
<1>5. ASSUME NEW j \in Jobs, j \in new
      PROVE  \E e \in B : Subject[j] = <<e, Dispatch>> /\ Subject[j][1] = e /\ Subject[j][2] = Dispatch
  BY <1>4, <1>5 DEF Rows
<1>6. \A e \in B : \E d \in Rows(e, Dispatch) : state'[d] # "absent"
  <2> TAKE e \in B
  <2>1. first(e) \in new /\ first(e) \in Jobs
    BY <1>4 DEF Rows
  <2>2. QED
    BY <1>1, <1>4, <2>1
<1> HIDE DEF new
<1>7. OutTypes'
  BY <1>1 DEF OutboxInv, OutTypes
<1>8. ASSUME NEW j \in Jobs, state'[j] # state[j]
      PROVE  /\ state[j] = "absent" /\ state'[j] = "queued" /\ HandedOver(Subject[j][1])'
             /\ row'[Subject[j][1]] = "dispatched" /\ Subject[j][2] = Dispatch
             /\ \A k \in Jobs : state[k] # "forgotten" \/ Subject[k][1] # Subject[j][1]
  <2>1. j \in new /\ state'[j] = "queued"
    BY <1>1, <1>8
  <2>2. QED
    BY <1>1, <1>2, <1>3, <1>5, <2>1
<1>9. \A e \in Events : /\ HandedOver(e) => row'[e] = row[e]
                        /\ row'[e] # row[e] => e \in B /\ row'[e] = "dispatched"
  BY <1>1, <1>2
<1>10. QED
  BY <1>1, <1>6, <1>7, <1>8, <1>9, Subjects, AddingKeeps

\* Every step keeps the invariant.
LEMMA OutboxStep == OutboxInv /\ [Next]_vars => OutboxInv'
<1> SUFFICES ASSUME OutboxInv, [Next]_vars PROVE OutboxInv'
  OBVIOUS
<1>1. ASSUME NEW e \in Events, EventStep(e) PROVE OutboxInv'
  BY <1>1, ChangeKeeps, InlineKeeps, PruneEventKeeps DEF EventStep
<1>2. ASSUME NEW B \in SUBSET Events, DispatchPending(B) PROVE OutboxInv'
  BY <1>2, DispatchKeeps
<1>3. ASSUME NEW x \in execs, HandlerStep(x) PROVE OutboxInv'
  <2>1. CASE \E c \in Consumers : AddConsumer(x, c)
    BY <2>1, AddConsumerKeeps
  <2>2. CASE Consume(x)
    BY <2>2, ConsumeKeeps
  <2>3. CASE \E p \in {"ok", "error"} : HandlerReturns(x, p)
    BY <2>3, ReturnKeeps
  <2>4. CASE Finish(x) \/ CutOff(x)
    BY <2>4, RunEndsKeeps
  <2>5. CASE FailedRun(x)
    <3>1. x.job \in Jobs
      BY DEF OutboxInv, OutTypes, Exec
    <3>2. QED
      BY <2>5, <3>1, GiveUpKeeps DEF FailedRun
  <2>6. QED
    BY <1>3, <2>1, <2>2, <2>3, <2>4, <2>5 DEF HandlerStep
<1>4. ASSUME NEW j \in Jobs, JobStep(j) PROVE OutboxInv'
  <2>1. CASE Fail(j)
    <3>1. {} \in SUBSET execs
      OBVIOUS
    <3>2. QED
      BY <2>1, <3>1, GiveUpKeeps DEF Fail
  <2>2. QED
    BY <1>4, <2>1, ExecuteKeeps, RetryKeeps, PruneJobKeeps DEF JobStep
<1>5. CASE UNCHANGED vars
  <2>1. /\ state' = state /\ execs' = execs /\ starts' = starts /\ revived' = revived
        /\ change' = change /\ row' = row /\ inline' = inline
        /\ progress' = progress /\ handled' = handled /\ gaveUp' = gaveUp
    BY <1>5 DEF vars, taskVars, outboxVars
  <2>2. OutTypes'
    BY <2>1 DEF OutboxInv, OutTypes
  <2>3. QED
    BY <2>1, <2>2, EndingKeeps
<1>6. QED
  BY <1>1, <1>2, <1>3, <1>4, <1>5 DEF Next

\* The inductive invariant holds of every behaviour.
THEOREM OutboxInvariant == Spec => []OutboxInv
<1>1. QED
  BY OutboxInit, OutboxStep, PTL DEF Spec

-----------------------------------------------------------------------------

\* Types, and a row marked dispatched is one of a committed change.
THEOREM OutboxTyped == Spec => []TypeOK
<1>1. OutboxInv => TypeOK
  BY DEF OutboxInv, OutTypes, Commits, HandedOver, TypeOK
<1>2. QED
  BY <1>1, OutboxInvariant, PTL

\* outbox.record is part of the transaction: no consumer is handed a change
\* that did not commit, nor has a job for it, by the outbox or in the process.
THEOREM CommittedDelivered == Spec => []OnlyCommittedDelivered
<1>1. OutboxInv => OnlyCommittedDelivered
  BY DEF OutboxInv, Commits, OnlyCommittedDelivered
<1>2. QED
  BY <1>1, OutboxInvariant, PTL

\* consume:<name>: a job counted as done did its consumer's work.
LEMMA DoneIsHandled == OutboxInv => DoneMeansHandled
<1> SUFFICES ASSUME OutboxInv, NEW e \in Events, NEW c \in Consumers, NEW j \in Rows(e, c),
                    state[j] = "done", revived[j] = 0
             PROVE  <<e, c>> \in handled
  BY DEF DoneMeansHandled
<1>1. j \in Jobs /\ Subject[j] = <<e, c>> /\ Subject[j][2] = c
  BY DEF Rows
<1>2. Fruit(j)
  BY <1>1 DEF OutboxInv, Work, OutTypes
<1>3. QED
  BY <1>1, <1>2 DEF Fruit

\* The outbox loses nothing silently: of a committed, written event each consumer
\* has handled it, is owed it still, or left a job on the failed list.
THEOREM NothingLost == Spec => []NoSilentLoss
<1>1. ASSUME OutboxInv, NEW e \in Events, NEW c \in Consumers,
             change[e] = "committed", row[e] # "unwritten"
      PROVE  \/ <<e, c>> \in handled
             \/ Owed(e, c)
             \/ (Rows(e, Dispatch) \cup Rows(e, c)) \cap gaveUp # {}
  <2>1. row[e] = "written" \/ HandedOver(e)
    BY <1>1 DEF OutboxInv, OutTypes, Commits, HandedOver
  <2>2. CASE row[e] = "written"
    BY <2>2 DEF Owed
  <2>3. CASE HandedOver(e)
    <3>1. PICK d \in Rows(e, Dispatch) : state[d] # "absent"
      BY <2>3, <1>1 DEF OutboxInv, Commits
    <3>2. d \in Jobs /\ Subject[d][1] = e /\ Subject[d][2] = Dispatch
      BY DEF Rows
    <3>3. Queued(d) \/ d \in gaveUp \/ Fruit(d)
      BY <1>1, <3>1, <3>2 DEF OutboxInv, OutTypes, Retries, Work, Queued
    <3>4. CASE Fruit(d)
      <4>1. PICK k \in Rows(e, c) : state[k] # "absent"
        BY <3>2, <3>4 DEF Fruit, Added
      <4>2. k \in Jobs /\ Subject[k] = <<e, c>> /\ Subject[k][2] = c
        BY DEF Rows
      <4>3. Queued(k) \/ k \in gaveUp \/ Fruit(k)
        BY <1>1, <4>1, <4>2 DEF OutboxInv, OutTypes, Retries, Work, Queued
      <4>4. CASE Fruit(k)
        BY <4>2, <4>4 DEF Fruit
      <4>5. QED
        BY <4>1, <4>3, <4>4 DEF Owed
    <3>5. QED
      BY <3>1, <3>3, <3>4 DEF Owed
  <2>4. QED
    BY <2>1, <2>2, <2>3
<1>2. OutboxInv => NoSilentLoss
  BY <1>1, DoneIsHandled DEF NoSilentLoss
<1>3. QED
  BY <1>2, OutboxInvariant, PTL

\* The dedupe key at work: dispatching an event again gives no consumer a second
\* job, however executions overlap, unless the dispatch was retried by hand.
THEOREM GivenOnce == Spec => []OneJobPerConsumer
<1>1. ASSUME OutboxInv, NEW e \in Events, NEW c \in Consumers,
             \A j \in Rows(e, Dispatch) : revived[j] = 0
      PROVE  Cardinality(Given(e, c)) <= 1
  <2>1. \A j, k \in Given(e, c) : j = k
    <3>1. NotRetried(e)
      BY <1>1 DEF NotRetried
    <3>2. QED
      BY <1>1, <3>1 DEF OutboxInv, OneGiven, Given
  <2>2. CASE Given(e, c) = {}
    BY <2>2, FS_EmptySet
  <2>3. CASE \E j : Given(e, c) = {j}
    BY <2>3, FS_Singleton
  <2>4. QED
    BY <2>1, <2>2, <2>3
<1>2. OutboxInv => OneJobPerConsumer
  BY <1>1 DEF OneJobPerConsumer
<1>3. QED
  BY <1>2, OutboxInvariant, PTL

-----------------------------------------------------------------------------
(* The change behind an Idempotency-Key is committed once.                 *)

Texts == Bodies \cup {NoBody}

KeyTypes ==
    /\ keyRow \in [status : {"none", "processing", "completed", "failed"}, body : Texts, answer : Texts]
    /\ post \in [Posts -> [at : {"unsent", "arrived", "handling", "committed", "polling", "answered",
                                 "conflict", "error", "cut off"},
                           body : Texts, answer : Texts]]
    /\ stores \subseteq Posts

\* The request that took the key, until its handler ended.
Winner(p) == post[p].at \in {"handling", "committed"}

\* Why: only the winner's handler commits, it commits under the body the row
\* was taken with, and what is stored or replayed is that body's answer.
KeyRow ==
    /\ keyRow.status = "none" => committed = <<>> /\ stores = {} /\ \A p \in Posts : ~Winner(p)
    /\ keyRow.status = "completed" => committed = <<keyRow.body>> /\ keyRow.answer = keyRow.body

Handlers ==
    /\ \A p, q \in Posts : Winner(p) /\ Winner(q) => p = q
    /\ \A p \in Posts : Winner(p) => keyRow.body = post[p].body
    /\ \A p \in Posts : post[p].at = "handling" => committed = <<>>
    /\ \A p \in Posts : post[p].at = "committed" => committed = <<post[p].body>>

Answers ==
    /\ \A p \in Posts : post[p].at = "answered" => committed = <<post[p].body>>
    /\ \A p \in stores : post[p].at = "answered" /\ post[p].answer = post[p].body /\ keyRow.body = post[p].body

KeyInv ==
    /\ KeyTypes
    /\ committed = <<>> \/ \E b \in Texts : committed = <<b>>
    /\ KeyRow /\ Handlers /\ Answers

\* Holds initially.
LEMMA KeyInitInv == KeyInit => KeyInv
  BY DEF KeyInit, KeyInv, KeyTypes, KeyRow, Handlers, Answers, Winner, NoRow0, Unsent, Texts

\* Tuples of one member.
LEMMA Tuples ==
  /\ \A x : <<>> # <<x>>
  /\ \A x, y : <<x>> = <<y>> => x = y
  /\ \A x : Append(<<>>, x) = <<x>>
<1>1. \A x : <<>> # <<x>>
  OBVIOUS
<1>2. \A x, y : <<x>> = <<y>> => x = y
  OBVIOUS
<1>3. \A x : Append(<<>>, x) = <<x>>
  OBVIOUS
<1>4. QED
  BY <1>1, <1>2, <1>3

\* Only request p changes, to `at`.
Only(p, at) == post'[p].at = at /\ \A q \in Posts \ {p} : post'[q] = post[q]

\* A step of one request that keeps the rest: it may end or wait, and be told
\* of what was committed.
LEMMA OthersKeep ==
  ASSUME KeyInv, KeyTypes', NEW p \in Posts, NEW at, Only(p, at),
         UNCHANGED <<keyRow, committed, stores>>, p \notin stores,
         at \notin {"handling", "committed"},
         at = "answered" => committed = <<post'[p].body>>
  PROVE  KeyInv'
<1>1. KeyRow'
  BY DEF KeyInv, KeyRow, Winner, Only
<1>2. Handlers'
  BY DEF KeyInv, Handlers, Winner, Only
<1>3. Answers'
  BY DEF KeyInv, KeyTypes, Answers, Only
<1>4. QED
  BY <1>1, <1>2, <1>3 DEF KeyInv

\* Every step preserves it.
LEMMA KeyStep == KeyInv /\ [KeyNext]_keyVars => KeyInv'
<1> SUFFICES ASSUME KeyInv, [KeyNext]_keyVars PROVE KeyInv'
  OBVIOUS
<1>1. ASSUME NEW p \in Posts, NEW b \in Bodies, SendPost(p, b) PROVE KeyInv'
  <2>1. KeyTypes' /\ Only(p, "arrived") /\ post[p].at = "unsent"
    BY <1>1 DEF SendPost, Unsent, KeyInv, KeyTypes, Texts, Only
  <2>2. p \notin stores
    BY <2>1 DEF KeyInv, Answers
  <2>3. QED
    BY <1>1, <2>1, <2>2, OthersKeep DEF SendPost
<1>2. ASSUME NEW p \in Posts, InsertKey(p) PROVE KeyInv'
  <2>1. post[p].at = "arrived" /\ p \notin stores
    BY <1>2 DEF InsertKey, KeyInv, Answers
  <2>2. CASE Wins
    <3>1. /\ KeyTypes' /\ Only(p, "handling") /\ post'[p].body = post[p].body
          /\ keyRow'.status = "processing" /\ keyRow'.body = post[p].body
          /\ UNCHANGED <<committed, stores>>
      <4>1. /\ keyRow' = [status |-> "processing", body |-> post[p].body, answer |-> NoBody]
            /\ post' = [post EXCEPT ![p].at = "handling"]
            /\ UNCHANGED <<committed, stores>>
        BY <1>2, <2>2 DEF InsertKey, Moves
      <4>2. QED
        BY <4>1 DEF KeyInv, KeyTypes, Texts, Only
    <3>2. committed = <<>> /\ stores = {} /\ \A q \in Posts : ~Winner(q)
      BY <2>2 DEF Wins, KeyInv, KeyRow
    <3>3. KeyRow' /\ Answers'
      BY <3>1, <3>2, Tuples DEF KeyInv, KeyRow, Answers, Only
    <3>4. Handlers'
      BY <3>1, <3>2 DEF Handlers, Winner, Only
    <3>5. QED
      BY <3>1, <3>3, <3>4 DEF KeyInv
  <2>3. CASE ~Wins
    <3>1. KeyTypes' /\ Only(p, "polling") /\ UNCHANGED <<keyRow, committed, stores>>
      <4>1. post' = [post EXCEPT ![p].at = "polling"] /\ UNCHANGED <<keyRow, committed, stores>>
        BY <1>2, <2>3 DEF InsertKey, Moves
      <4>2. QED
        BY <4>1 DEF KeyInv, KeyTypes, Texts, Only
    <3>2. QED
      BY <2>1, <3>1, OthersKeep
  <2>4. QED
    BY <2>2, <2>3
<1>3. ASSUME NEW p \in Posts, HandlerCommits(p) PROVE KeyInv'
  <2>1. /\ KeyTypes' /\ Only(p, "committed") /\ post'[p].body = post[p].body
        /\ UNCHANGED <<keyRow, stores>> /\ post[p].at = "handling"
    BY <1>3 DEF HandlerCommits, Moves, KeyInv, KeyTypes, Texts, Only
  <2>2. committed = <<>> /\ committed' = <<post[p].body>>
    BY <1>3, <2>1, Tuples DEF HandlerCommits, KeyInv, Handlers
  <2>3. /\ \A q \in Posts : post[q].at # "answered"
        /\ keyRow.status \notin {"none", "completed"}
    BY <2>1, <2>2, Tuples DEF KeyInv, KeyRow, Answers, Winner
  <2>4. KeyRow' /\ Answers'
    BY <2>1, <2>2, <2>3 DEF KeyInv, KeyTypes, KeyRow, Answers, Only
  <2>5. Handlers'
    BY <2>1, <2>2 DEF KeyInv, Handlers, Winner, Only
  <2>6. QED
    BY <2>1, <2>2, <2>4, <2>5 DEF KeyInv, KeyTypes
<1>4. ASSUME NEW p \in Posts, HandlerThrows(p) PROVE KeyInv'
  <2>1. /\ KeyTypes' /\ Only(p, "error") /\ UNCHANGED <<committed, stores>> /\ Winner(p)
    BY <1>4 DEF HandlerThrows, Moves, KeyInv, KeyTypes, Texts, Only, Winner
  <2>2. p \notin stores /\ stores \subseteq Posts
    BY <2>1 DEF KeyInv, KeyTypes, Answers, Winner
  <2>3. CASE keyRow' = [keyRow EXCEPT !.status = "failed"]
    <3>1. keyRow'.status = "failed" /\ keyRow'.body = keyRow.body
      BY <2>3 DEF KeyInv, KeyTypes
    <3>2. KeyRow' /\ Handlers'
      BY <2>1, <3>1 DEF KeyInv, KeyRow, Handlers, Winner, Only
    <3>3. \A q \in Posts : post'[q].at = "answered" => post'[q] = post[q]
      BY <2>1 DEF Only
    <3>4. Answers'
      BY <2>1, <2>2, <3>1, <3>3 DEF KeyInv, Answers, Only
    <3>5. QED
      BY <2>1, <3>2, <3>4 DEF KeyInv
  <2>4. CASE UNCHANGED keyRow
    BY <2>1, <2>2, <2>4, OthersKeep
  <2>5. QED
    BY <1>4, <2>3, <2>4 DEF HandlerThrows
<1>5. ASSUME NEW p \in Posts, HandlerAnswers(p) PROVE KeyInv'
  <2>1. /\ KeyTypes' /\ Only(p, "answered")
        /\ post'[p].body = post[p].body /\ post'[p].answer = post[p].body
        /\ UNCHANGED <<keyRow, committed>> /\ stores' = stores \cup {p}
        /\ post[p].at = "committed"
    BY <1>5 DEF HandlerAnswers, KeyInv, KeyTypes, Texts, Only
  <2>2. committed = <<post[p].body>> /\ keyRow.body = post[p].body /\ keyRow.status # "none"
    BY <2>1 DEF KeyInv, KeyRow, Handlers, Winner
  <2>3. KeyRow' /\ Handlers'
    BY <2>1, <2>2 DEF KeyInv, KeyRow, Handlers, Winner, Only
  <2>4. Answers'
    <3>1. \A q \in Posts : post'[q].at = "answered" => committed' = <<post'[q].body>>
      BY <2>1, <2>2 DEF KeyInv, Answers, Only
    <3>2. p \notin stores /\ stores \subseteq Posts
      BY <2>1 DEF KeyInv, KeyTypes, Answers
    <3>3. \A q \in stores' : /\ post'[q].at = "answered" /\ post'[q].answer = post'[q].body
                             /\ keyRow'.body = post'[q].body
      BY <2>1, <2>2, <3>2 DEF KeyInv, Answers, Only
    <3>4. QED
      BY <3>1, <3>3 DEF Answers
  <2>5. QED
    BY <2>1, <2>3, <2>4 DEF KeyInv
<1>6. ASSUME NEW p \in Posts, StoreAnswer(p) PROVE KeyInv'
  <2>1. /\ KeyTypes' /\ UNCHANGED <<post, committed>> /\ stores' = stores \ {p} /\ p \in stores
        /\ keyRow'.status = "completed" /\ keyRow'.body = keyRow.body /\ keyRow'.answer = post[p].answer
    BY <1>6 DEF StoreAnswer, KeyInv, KeyTypes, Texts
  <2>2. /\ committed = <<keyRow.body>> /\ post[p].answer = keyRow.body
    BY <2>1 DEF KeyInv, KeyTypes, Answers
  <2>3. KeyRow' /\ Handlers' /\ Answers'
    BY <2>1, <2>2 DEF KeyInv, KeyRow, Handlers, Answers, Winner
  <2>4. QED
    BY <2>1, <2>3 DEF KeyInv
<1>7. ASSUME NEW p \in Posts, StoreFails(p) PROVE KeyInv'
  BY <1>7 DEF StoreFails, KeyInv, KeyTypes, KeyRow, Handlers, Answers, Winner
<1>8. ASSUME NEW p \in Posts, EndPoll(p) PROVE KeyInv'
  <2> DEFINE end == IF Replays(p) THEN "answered" ELSE "conflict"
             told == IF Replays(p) THEN keyRow.answer ELSE NoBody
  <2>1. /\ KeyTypes' /\ Only(p, end) /\ post'[p].body = post[p].body
        /\ UNCHANGED <<keyRow, committed, stores>> /\ post[p].at = "polling"
    <3>1. /\ post' = [post EXCEPT ![p].at = end, ![p].answer = told]
          /\ UNCHANGED <<keyRow, committed, stores>> /\ post[p].at = "polling"
      BY <1>8 DEF EndPoll
    <3>2. end \in {"answered", "conflict"} /\ told \in Texts
      BY DEF KeyInv, KeyTypes, Texts
    <3> HIDE DEF end, told
    <3>3. QED
      BY <3>1, <3>2 DEF KeyInv, KeyTypes, Texts, Only
  <2>2. p \notin stores /\ (Replays(p) => committed = <<post[p].body>>)
    BY <2>1 DEF KeyInv, KeyRow, Answers, Replays
  <2>3. QED
    BY <2>1, <2>2, OthersKeep
<1>9. ASSUME NEW p \in Posts, NEW q \in Posts, SendAgain(p, q) PROVE KeyInv'
  <2>1. /\ KeyTypes' /\ Only(q, "arrived") /\ post[q].at = "unsent"
        /\ UNCHANGED <<keyRow, committed, stores>>
    BY <1>9 DEF SendAgain, Unsent, KeyInv, KeyTypes, Texts, Only
  <2>2. q \notin stores
    BY <2>1 DEF KeyInv, Answers
  <2>3. QED
    BY <2>1, <2>2, OthersKeep
<1>10. CASE ProcessStops
  <2>1. /\ KeyTypes' /\ stores' = {} /\ UNCHANGED <<keyRow, committed>>
        /\ \A q \in Posts : ~Winner(q)' /\ (post'[q].at = "answered" => post'[q] = post[q])
    BY <1>10 DEF ProcessStops, KeyInv, KeyTypes, Texts, Winner
  <2>2. KeyRow' /\ Handlers'
    BY <2>1 DEF KeyInv, KeyRow, Handlers, Winner
  <2>3. Answers'
    BY <2>1 DEF KeyInv, Answers
  <2>4. QED
    BY <2>1, <2>2, <2>3 DEF KeyInv
<1>11. CASE UNCHANGED keyVars
  BY <1>11 DEF keyVars, KeyInv, KeyTypes, KeyRow, Handlers, Answers, Winner
<1>12. QED
  BY <1>1, <1>2, <1>3, <1>4, <1>5, <1>6, <1>7, <1>8, <1>9, <1>10, <1>11 DEF KeyNext

\* A request repeated under one key has its change committed once, and who is
\* told that it was done sent the body it was done for.
THEOREM KeyCommitsOnce == KeySpec => []CommittedOnce
<1>1. KeyInv => CommittedOnce
  <2>1. KeyInv => Len(committed) <= 1
    <3>1. CASE committed = <<>>
      <4>1. Len(committed) = 0
        BY <3>1
      <4>2. QED
        BY <4>1
    <3>2. ASSUME NEW b \in Texts, committed = <<b>> PROVE Len(committed) <= 1
      <4>1. Len(committed) = 1
        BY <3>2
      <4>2. QED
        BY <4>1
    <3>3. QED
      BY <3>1, <3>2 DEF KeyInv
  <2>2. QED
    BY <2>1 DEF KeyInv, Answers, CommittedOnce
<1>2. QED
  BY <1>1, KeyInitInv, KeyStep, PTL DEF KeySpec

-----------------------------------------------------------------------------
(* Webhook deliveries are sent until they are heard, and by one at a time. *)

\* What a row, an attempt and the rest may be.
Statuses == {"none", "pending", "failed", "delivered", "exhausted"}
Dues     == {"now", "leased", "later", "none"}
HookRows == [status : Statuses, due : Dues, tries : Nat]
Attempts == [at : {"idle", "claimed", "sending", "answered", "recorded"}, hook : Hooks \cup {NoHook},
             status : Statuses, due : Dues, tries : Nat, failing : {"no", "new", "long"}, ok : BOOLEAN]

HookShapes ==
    /\ hook \in [Hooks -> HookRows] /\ sender \in [Senders -> Attempts]
    /\ endpoint \in [active : BOOLEAN, failing : {"no", "new", "long"}]
    /\ sends \in [Hooks -> Nat] /\ sendCrashes \in Nat

\* An attempt is at a row there is, counts from no more than was sent, and has
\* heard what its row has.
Attempted(s) ==
    LET d == sender[s].hook IN
    /\ sender[s].at = "idle" => ~sender[s].ok
    /\ sender[s].at # "idle" => d \in Hooks /\ hook[d].status # "none"
    /\ sender[s].at \in {"sending", "answered"} => sender[s].tries < sends[d]
    /\ sender[s].ok => d \in heard

\* An attempt has its row in hand, and has sent the request.
Busy == {"claimed", "sending", "answered"}
Sent == {"sending", "answered"}

\* No more tries are counted than were sent; at most two attempts have the row in
\* hand, and only one while it is due or waits to be.
Few(d) ==
    /\ hook[d].tries <= sends[d]
    /\ \A s, t, u \in On(d, Busy) : s = t \/ t = u \/ s = u
    /\ hook[d].due \in {"now", "later"} => \A s, t \in On(d, Busy) : s = t

\* A row that is due, or will be, has tries left; whoever works an unscheduled one is
\* the last, for its button was pressed, and adds one try at most to MAX_ATTEMPTS.
Tried(d) ==
    /\ hook[d].tries <= MaxTries + 1
    /\ hook[d].due # "none" \/ hook[d].status = "none" => hook[d].tries < MaxTries
    /\ On(d, Busy) # {} => hook[d].tries <= MaxTries
    /\ \A s, t \in On(d, Busy) : s # t => hook[d].due = "leased"
    /\ \A s \in On(d, Sent) :
         IF sender[s].due = "none" THEN sender[s].tries <= MaxTries /\ hook[d].due = "none" /\ On(d, Busy) = {s}
         ELSE sender[s].tries < MaxTries

\* A row unheard and not stopped is scheduled until it is exhausted; and then it is
\* in the hands of one attempt at most, which found it as it is.
Kept(d) ==
    /\ \/ hook[d].status = "none"
       \/ hook[d].status \in {"pending", "failed"} /\ hook[d].due # "none"
       \/ hook[d].status = "exhausted" /\ sends[d] >= MaxTries
    /\ \A s \in On(d, Sent) :
         /\ sender[s].due = "none" => sender[s].status = "exhausted"
         /\ sender[s].status = "exhausted" => sender[s].due = "none" /\ hook[d].status = "exhausted"
    /\ hook[d].status = "exhausted" /\ On(d, Busy) # {} =>
         hook[d].due = "none" /\ d \in pressed /\ \A s, t \in On(d, Busy) : s = t

\* A row no button was pressed for is in the hands of one attempt, which holds its
\* lease and knows the row as it is; so its outcome is the row's.
Alone(d) ==
    /\ \A s, t \in On(d, Busy) : s = t
    /\ On(d, Busy) # {} => hook[d].due = "leased" /\ hook[d].status \in {"pending", "failed"}
    /\ \A s \in On(d, Sent) :
         sender[s].status = hook[d].status /\ sender[s].due = "leased" /\ sender[s].tries = hook[d].tries
    /\ hook[d].status \in {"none", "pending", "failed"} => hook[d].tries < MaxTries
    /\ hook[d].tries <= MaxTries
    /\ sends[d] <= hook[d].tries + sendCrashes + (IF On(d, Sent) = {} THEN 0 ELSE 1)
    /\ hook[d].status \in {"pending", "failed"} => hook[d].due # "none" \/ d \in stopped
    /\ hook[d].status = "delivered" => d \in heard
    /\ hook[d].status = "exhausted" => sends[d] >= MaxTries /\ hook[d].due = "none"

\* Together they are inductive: a row that a button was pressed for has two attempts at
\* most, one that none was pressed for has one, and nobody's outcome hides an unheard row.
HookInv ==
    /\ HookShapes
    /\ \A s \in Senders : Attempted(s)
    /\ \A d \in Hooks : /\ Few(d) /\ Tried(d)
                        /\ d \in heard \cup stopped \/ Kept(d)
                        /\ d \in pressed \/ Alone(d)

\* Holds initially.
LEMMA HookInitInv == HookInit => HookInv
<1> SUFFICES ASSUME HookInit PROVE HookInv
  OBVIOUS
<1>1. /\ \A d \in Hooks : hook[d] = [status |-> "none", due |-> "none", tries |-> 0] /\ sends[d] = 0
      /\ \A s \in Senders : sender[s] = NotSending
      /\ MaxTries \in Nat \ {0} /\ sendCrashes = 0
  BY HookAssumption DEF HookInit
<1>2. HookShapes
  BY HookAssumption DEF HookInit, HookShapes, HookRows, Attempts, NotSending, Statuses, Dues
<1>3. \A d : On(d, Busy) = {} /\ On(d, Sent) = {}
  BY <1>1 DEF On, Busy, Sent, NotSending
<1>4. QED
  BY <1>1, <1>2, <1>3 DEF HookInv, Attempted, Few, Tried, Kept, Alone, NotSending

\* A row's wait or lease ends.
LEMMA DueKeeps ==
  ASSUME HookInv, NEW d \in Hooks, WaitOver(d) \/ LeaseOver(d)
  PROVE  HookInv'
<1>1. /\ HookShapes /\ \A s \in Senders : Attempted(s)
      /\ \A e \in Hooks : Few(e) /\ Tried(e) /\ (e \in heard \cup stopped \/ Kept(e)) /\ (e \in pressed \/ Alone(e))
  BY DEF HookInv
<1>2. /\ hook[d].due = "later" \/ (hook[d].due = "leased" /\ On(d, Busy) = {})
      /\ \A e \in Hooks : hook'[e] = IF e = d THEN [hook[d] EXCEPT !.due = "now"] ELSE hook[e]
      /\ UNCHANGED <<endpoint, sender, sends, heard, stopped, pressed, sendCrashes>>
  <2>1. hook' = [hook EXCEPT ![d].due = "now"] /\ UNCHANGED <<endpoint, sender, sends, heard, stopped, pressed, sendCrashes>>
    BY DEF WaitOver, LeaseOver
  <2>2. hook[d].due = "later" \/ (hook[d].due = "leased" /\ On(d, Busy) = {})
    BY DEF WaitOver, LeaseOver, Busy
  <2>3. QED
    BY <1>1, <2>1, <2>2 DEF HookShapes
<1>3. HookShapes'
  BY <1>1, <1>2 DEF HookShapes, HookRows, Dues, WaitOver, LeaseOver
<1>4. \A e \in Hooks : /\ hook'[e].status = hook[e].status /\ hook'[e].tries = hook[e].tries
                       /\ e # d => hook'[e].due = hook[e].due
                       /\ hook'[d].due = "now"
  BY <1>1, <1>2 DEF HookShapes, HookRows
<1>5. \A e, at : On(e, at)' = On(e, at)
  BY <1>2 DEF On
<1>6. \A s \in Senders : Attempted(s)'
  BY <1>1, <1>2, <1>4 DEF Attempted
<1>tries. ASSUME NEW e \in Hooks PROVE Tried(e)'
  <2>1. CASE e # d
    BY <2>1, <1>1, <1>2, <1>4, <1>5 DEF Tried
  <2>2. CASE e = d
    BY <2>2, <1>1, <1>2, <1>4, <1>5 DEF Tried, On, Busy, Sent
  <2>3. QED
    BY <2>1, <2>2
<1>7. ASSUME NEW e \in Hooks PROVE Few(e)'
  BY <1>1, <1>2, <1>4, <1>5 DEF Few
<1>8. ASSUME NEW e \in Hooks, Kept(e) PROVE Kept(e)'
  <2>1. CASE e # d
    BY <2>1, <1>1, <1>2, <1>4, <1>5, <1>8 DEF Kept
  <2>2. CASE e = d
    BY <2>2, <1>1, <1>2, <1>4, <1>5, <1>8 DEF Kept, On, Busy, Sent
  <2>3. QED
    BY <2>1, <2>2
<1>9. ASSUME NEW e \in Hooks, Alone(e) PROVE Alone(e)'
  <2>1. CASE e # d
    BY <2>1, <1>1, <1>2, <1>4, <1>5, <1>9 DEF Alone
  <2>2. CASE e = d
    BY <2>2, <1>1, <1>2, <1>4, <1>5, <1>9 DEF Alone
  <2>3. QED
    BY <2>1, <2>2
<1>10. QED
  BY <1>1, <1>2, <1>3, <1>6, <1>7, <1>8, <1>9, <1>tries DEF HookInv


\* An event is queued for the endpoint.
LEMMA QueueKeeps ==
  ASSUME HookInv, NEW d \in Hooks, QueueDelivery(d)
  PROVE  HookInv'
<1>1. /\ HookShapes /\ \A s \in Senders : Attempted(s)
      /\ \A e \in Hooks : Few(e) /\ Tried(e) /\ (e \in heard \cup stopped \/ Kept(e)) /\ (e \in pressed \/ Alone(e))
  BY DEF HookInv
<1>2. /\ \A e \in Hooks : hook'[e] = IF e = d THEN [hook[d] EXCEPT !.status = "pending", !.due = "now"] ELSE hook[e]
      /\ UNCHANGED <<endpoint, sender, sends, heard, stopped, pressed, sendCrashes>>
      /\ hook[d].status = "none"
  BY <1>1 DEF QueueDelivery, HookShapes
<1>3. HookShapes'
  BY <1>1 DEF HookShapes, HookRows, Statuses, Dues, QueueDelivery
<1>4. \A e \in Hooks : /\ hook'[e].tries = hook[e].tries
                       /\ e # d => hook'[e] = hook[e]
                       /\ hook'[d].due = "now" /\ hook'[d].status = "pending"
  <2>1. hook[d] \in HookRows
    BY <1>1 DEF HookShapes
  <2>2. hook'[d] = [hook[d] EXCEPT !.status = "pending", !.due = "now"] /\ \A e \in Hooks \ {d} : hook'[e] = hook[e]
    BY <1>2
  <2>3. QED
    BY <2>1, <2>2 DEF HookRows
<1>5. /\ \A e, at : On(e, at)' = On(e, at)
      /\ On(d, Busy) = {} /\ On(d, Sent) = {}
  BY <1>1, <1>2 DEF On, Busy, Sent, Attempted
<1>6. \A s \in Senders : Attempted(s)'
  BY <1>1, <1>2, <1>4 DEF Attempted
<1>tries. ASSUME NEW e \in Hooks PROVE Tried(e)'
  <2>1. CASE e # d
    BY <2>1, <1>1, <1>2, <1>4, <1>5 DEF Tried
  <2>2. CASE e = d
    <3>1. hook[d].tries \in Nat /\ hook[d].tries < MaxTries
      BY <1>1, <1>2 DEF Tried, HookShapes, HookRows
    <3>2. QED
      BY <2>2, <3>1, <1>1, <1>2, <1>4, <1>5, HookAssumption DEF Tried
  <2>3. QED
    BY <2>1, <2>2
<1>7. ASSUME NEW e \in Hooks PROVE Few(e)'
  BY <1>1, <1>2, <1>4, <1>5 DEF Few
<1>8. ASSUME NEW e \in Hooks, Kept(e) PROVE Kept(e)'
  BY <1>1, <1>2, <1>4, <1>5, <1>8 DEF Kept
<1>9. ASSUME NEW e \in Hooks, Alone(e) PROVE Alone(e)'
  BY <1>1, <1>2, <1>4, <1>5, <1>9 DEF Alone
<1>10. QED
  BY <1>1, <1>2, <1>3, <1>6, <1>7, <1>8, <1>9, <1>tries DEF HookInv

\* A loop claims a row that is due: at most one attempt had it.
LEMMA ClaimKeeps ==
  ASSUME HookInv, NEW s \in Senders, NEW d \in Hooks, ClaimHook(s, d)
  PROVE  HookInv'
<1>1. /\ HookShapes /\ \A t \in Senders : Attempted(t)
      /\ \A e \in Hooks : Few(e) /\ Tried(e) /\ (e \in heard \cup stopped \/ Kept(e)) /\ (e \in pressed \/ Alone(e))
  BY DEF HookInv
<1>2. /\ hook[d].status \in {"pending", "failed"} /\ hook[d].due = "now" /\ sender[s].at = "idle"
      /\ \A e \in Hooks : hook'[e] = IF e = d THEN [hook[d] EXCEPT !.due = "leased"] ELSE hook[e]
      /\ \A t \in Senders : sender'[t] = IF t = s THEN [NotSending EXCEPT !.at = "claimed", !.hook = d] ELSE sender[t]
      /\ UNCHANGED <<endpoint, sends, heard, stopped, pressed, sendCrashes>>
  <2>1. /\ hook' = [hook EXCEPT ![d] = [@ EXCEPT !.due = "leased"]]
        /\ sender' = [sender EXCEPT ![s] = [NotSending EXCEPT !.at = "claimed", !.hook = d]]
        /\ UNCHANGED <<endpoint, sends, heard, stopped, pressed, sendCrashes>>
        /\ hook[d].status \in {"pending", "failed"} /\ hook[d].due = "now" /\ sender[s].at = "idle"
    BY DEF ClaimHook, Leased, Claimable
  <2>2. QED
    BY <1>1, <2>1 DEF HookShapes
<1>3. HookShapes'
  <2>1. [NotSending EXCEPT !.at = "claimed", !.hook = d] \in Attempts
    BY DEF NotSending, Attempts, Statuses, Dues
  <2>2. [hook[d] EXCEPT !.due = "leased"] \in HookRows
    BY <1>1 DEF HookShapes, HookRows, Dues
  <2>3. QED
    BY <1>1, <1>2, <2>1, <2>2 DEF HookShapes, ClaimHook, Leased
<1>4. \A e \in Hooks : /\ hook'[e].tries = hook[e].tries /\ hook'[e].status = hook[e].status
                       /\ e # d => hook'[e] = hook[e]
                       /\ hook'[d].due = "leased"
  BY <1>1, <1>2 DEF HookShapes, HookRows
<1>5. /\ sender'[s].at = "claimed" /\ sender'[s].hook = d /\ ~sender'[s].ok
      /\ \A t \in Senders \ {s} : sender'[t] = sender[t]
  BY <1>2 DEF NotSending
<1>6. /\ \A e \in Hooks : On(e, Sent)' = On(e, Sent)
      /\ \A e \in Hooks \ {d} : On(e, Busy)' = On(e, Busy)
      /\ On(d, Busy)' = On(d, Busy) \cup {s}
      /\ \A t, u \in On(d, Busy) : t = u
  <2>1. \A e \in Hooks : On(e, Sent)' = On(e, Sent)
    BY <1>2, <1>5 DEF On, Sent
  <2>2. \A e \in Hooks \ {d} : On(e, Busy)' = On(e, Busy)
    BY <1>2, <1>5 DEF On, Busy
  <2>3. On(d, Busy)' = On(d, Busy) \cup {s}
    BY <1>2, <1>5 DEF On, Busy
  <2>4. QED
    BY <1>1, <1>2, <2>1, <2>2, <2>3 DEF Few
<1>7. s \notin On(d, Busy) /\ \A e \in Hooks : \A t \in On(e, Sent) : t # s /\ sender'[t] = sender[t]
  BY <1>2, <1>5 DEF On, Busy, Sent
<1>8. \A t \in Senders : Attempted(t)'
  BY <1>1, <1>2, <1>4, <1>5 DEF Attempted
<1>tries. ASSUME NEW e \in Hooks PROVE Tried(e)'
  <2>1. CASE e # d
    BY <2>1, <1>1, <1>2, <1>4, <1>6, <1>7 DEF Tried
  <2>2. CASE e = d
    <3>1. hook[d].tries < MaxTries /\ hook[d].tries \in Nat /\ MaxTries \in Nat
      BY <1>1, <1>2, HookAssumption DEF Tried, HookShapes, HookRows
    <3>2. \A t \in On(d, Sent) : sender[t].due # "none" /\ sender[t].tries < MaxTries
      BY <1>1, <1>2 DEF Tried
    <3>3. QED
      BY <2>2, <3>1, <3>2, <1>4, <1>6, <1>7 DEF Tried
  <2>3. QED
    BY <2>1, <2>2
<1>9. ASSUME NEW e \in Hooks PROVE Few(e)'
  BY <1>1, <1>2, <1>4, <1>6 DEF Few
<1>10. ASSUME NEW e \in Hooks, Kept(e) PROVE Kept(e)'
  BY <1>1, <1>2, <1>4, <1>6, <1>7, <1>10 DEF Kept
<1>11. ASSUME NEW e \in Hooks, Alone(e) PROVE Alone(e)'
  BY <1>1, <1>2, <1>4, <1>6, <1>7, <1>11 DEF Alone
<1>12. QED
  BY <1>1, <1>2, <1>3, <1>8, <1>9, <1>10, <1>11, <1>tries DEF HookInv

\* A button is pressed for a row: two attempts may have it from now on.
LEMMA PressKeeps ==
  ASSUME HookInv, NEW s \in Senders, NEW d \in Hooks, Press(s, d)
  PROVE  HookInv'
<1>1. /\ HookShapes /\ \A t \in Senders : Attempted(t)
      /\ \A e \in Hooks : Few(e) /\ Tried(e) /\ (e \in heard \cup stopped \/ Kept(e)) /\ (e \in pressed \/ Alone(e))
  BY DEF HookInv
<1>2. /\ hook[d].status # "none" /\ sender[s].at = "idle" /\ Alone(d)
      /\ \A t \in Senders : sender'[t] = IF t = s THEN [NotSending EXCEPT !.at = "claimed", !.hook = d] ELSE sender[t]
      /\ pressed' = pressed \cup {d}
      /\ UNCHANGED <<hook, endpoint, sends, heard, stopped, sendCrashes>>
  BY <1>1 DEF Press, HookShapes
<1>3. HookShapes'
  <2>1. [NotSending EXCEPT !.at = "claimed", !.hook = d] \in Attempts
    BY DEF NotSending, Attempts, Statuses, Dues
  <2>2. QED
    BY <1>1, <1>2, <2>1 DEF HookShapes, Press
<1>4. /\ sender'[s].at = "claimed" /\ sender'[s].hook = d /\ ~sender'[s].ok
      /\ \A t \in Senders \ {s} : sender'[t] = sender[t]
  BY <1>2 DEF NotSending
<1>5. /\ \A e \in Hooks : On(e, Sent)' = On(e, Sent)
      /\ \A e \in Hooks \ {d} : On(e, Busy)' = On(e, Busy)
      /\ On(d, Busy)' = On(d, Busy) \cup {s}
  <2>1. \A e \in Hooks : On(e, Sent)' = On(e, Sent)
    BY <1>2, <1>4 DEF On, Sent
  <2>2. \A e \in Hooks \ {d} : On(e, Busy)' = On(e, Busy)
    BY <1>2, <1>4 DEF On, Busy
  <2>3. On(d, Busy)' = On(d, Busy) \cup {s}
    BY <1>2, <1>4 DEF On, Busy
  <2>4. QED
    BY <2>1, <2>2, <2>3
<1>6. \A e \in Hooks : \A t \in On(e, Sent) : t # s /\ sender'[t] = sender[t]
  BY <1>2, <1>4 DEF On, Sent
<1>7. /\ \A t, u \in On(d, Busy) : t = u
      /\ On(d, Busy) # {} => hook[d].due = "leased" /\ hook[d].status \in {"pending", "failed"}
      /\ hook[d].status = "exhausted" => hook[d].due = "none"
  BY <1>2 DEF Alone
<1>8. \A t \in Senders : Attempted(t)'
  BY <1>1, <1>2, <1>4 DEF Attempted
<1>tries. ASSUME NEW e \in Hooks PROVE Tried(e)'
  <2>1. CASE e # d
    BY <2>1, <1>1, <1>2, <1>5, <1>6 DEF Tried
  <2>2. CASE e = d
    <3>1. hook[d].tries <= MaxTries
      BY <1>2 DEF Alone
    <3>2. \A t \in On(d, Sent) : sender[t].due = "leased"
      BY <1>2 DEF Alone
    <3>3. \A t, u \in On(d, Busy) \cup {s} : t # u => hook[d].due = "leased"
      BY <1>7
    <3>4. QED
      BY <2>2, <3>1, <3>2, <3>3, <1>1, <1>2, <1>5, <1>6 DEF Tried
  <2>3. QED
    BY <2>1, <2>2
<1>9. ASSUME NEW e \in Hooks PROVE Few(e)'
  BY <1>1, <1>2, <1>5, <1>7 DEF Few
<1>10. ASSUME NEW e \in Hooks, Kept(e) PROVE Kept(e)'
  BY <1>1, <1>2, <1>5, <1>6, <1>7, <1>10 DEF Kept
<1>11. ASSUME NEW e \in Hooks \ {d}, Alone(e) PROVE Alone(e)'
  BY <1>1, <1>2, <1>5, <1>6, <1>11 DEF Alone
<1>12. QED
  BY <1>1, <1>2, <1>3, <1>8, <1>9, <1>10, <1>11, <1>tries DEF HookInv

\* An attempt is over, cut off or done.
LEMMA EndKeeps ==
  ASSUME HookInv, NEW s \in Senders, sender' = [sender EXCEPT ![s] = NotSending],
         UNCHANGED <<hook, sends, heard, stopped, pressed>>,
         endpoint' \in [active : BOOLEAN, failing : {"no", "new", "long"}],
         \/ sender[s].at = "recorded" /\ sendCrashes' = sendCrashes
         \/ sendCrashes' = sendCrashes + 1
  PROVE  HookInv'
<1>1. /\ HookShapes /\ \A t \in Senders : Attempted(t)
      /\ \A e \in Hooks : Few(e) /\ Tried(e) /\ (e \in heard \cup stopped \/ Kept(e)) /\ (e \in pressed \/ Alone(e))
  BY DEF HookInv
<1>2. /\ sender'[s].at = "idle" /\ ~sender'[s].ok
      /\ \A t \in Senders \ {s} : sender'[t] = sender[t]
  BY <1>1 DEF HookShapes, NotSending
<1>3. HookShapes'
  <2>1. NotSending \in Attempts
    BY DEF NotSending, Attempts, Statuses, Dues
  <2>2. QED
    BY <1>1, <2>1 DEF HookShapes
<1>4. /\ \A e \in Hooks : On(e, Busy)' = On(e, Busy) \ {s} /\ On(e, Sent)' = On(e, Sent) \ {s}
      /\ \A e \in Hooks : On(e, Sent) \subseteq On(e, Busy)
  <2>1. ASSUME NEW e \in Hooks PROVE On(e, Busy)' = On(e, Busy) \ {s}
    BY <1>2 DEF On, Busy
  <2>2. ASSUME NEW e \in Hooks PROVE On(e, Sent)' = On(e, Sent) \ {s}
    BY <1>2 DEF On, Sent
  <2>3. QED
    BY <2>1, <2>2 DEF On, Busy, Sent
<1>5. \A e \in Hooks : \A t \in On(e, Sent) \ {s} : sender'[t] = sender[t]
  BY <1>2 DEF On
<1>6. \A t \in Senders : Attempted(t)'
  BY <1>1, <1>2 DEF Attempted
<1>tries. ASSUME NEW e \in Hooks PROVE Tried(e)'
  BY <1>1, <1>4, <1>5 DEF Tried
<1>7. ASSUME NEW e \in Hooks PROVE Few(e)'
  BY <1>1, <1>4 DEF Few
<1>8. ASSUME NEW e \in Hooks, Kept(e) PROVE Kept(e)'
  BY <1>1, <1>4, <1>5, <1>8 DEF Kept
<1>9. ASSUME NEW e \in Hooks, Alone(e) PROVE Alone(e)'
  <2>1. sends[e] <= hook[e].tries + sendCrashes' + (IF On(e, Sent)' = {} THEN 0 ELSE 1)
    <3>1. sendCrashes \in Nat /\ sends[e] \in Nat /\ hook[e].tries \in Nat
      BY <1>1 DEF HookShapes, HookRows
    <3>2. CASE sendCrashes' = sendCrashes + 1
      BY <1>9, <3>1, <3>2 DEF Alone
    <3>3. CASE sender[s].at = "recorded" /\ sendCrashes' = sendCrashes
      <4>1. On(e, Sent)' = On(e, Sent)
        BY <1>4, <3>3 DEF On, Sent
      <4>2. QED
        BY <1>9, <3>3, <4>1 DEF Alone
    <3>4. QED
      BY <3>2, <3>3
  <2>2. QED
    BY <1>1, <1>4, <1>5, <1>9, <2>1 DEF Alone
<1>10. QED
  BY <1>1, <1>3, <1>6, <1>7, <1>8, <1>9, <1>tries DEF HookInv

\* A row is found at a paused endpoint.
LEMMA PausedKeeps ==
  ASSUME HookInv, NEW s \in Senders, FindPaused(s)
  PROVE  HookInv'
<1>1. /\ HookShapes /\ \A t \in Senders : Attempted(t)
      /\ \A e \in Hooks : Few(e) /\ Tried(e) /\ (e \in heard \cup stopped \/ Kept(e)) /\ (e \in pressed \/ Alone(e))
  BY DEF HookInv
<1>2. PICK d \in Hooks : d = sender[s].hook /\ sender[s].at = "claimed"
  BY <1>1 DEF FindPaused, Attempted
<1>3. /\ \A e \in Hooks : hook'[e] = IF e = d THEN [hook[d] EXCEPT !.status = "failed", !.due = "none"] ELSE hook[e]
      /\ sender' = [sender EXCEPT ![s] = NotSending]
      /\ stopped' = stopped \cup {d}
      /\ UNCHANGED <<endpoint, sends, heard, pressed, sendCrashes>>
  BY <1>1, <1>2 DEF FindPaused, HookShapes
<1>4. /\ sender'[s].at = "idle" /\ ~sender'[s].ok
      /\ \A t \in Senders \ {s} : sender'[t] = sender[t]
  BY <1>1, <1>3 DEF HookShapes, NotSending
<1>5. HookShapes'
  <2>1. NotSending \in Attempts
    BY DEF NotSending, Attempts, Statuses, Dues
  <2>2. [hook[d] EXCEPT !.status = "failed", !.due = "none"] \in HookRows
    BY <1>1, <1>2 DEF HookShapes, HookRows, Statuses, Dues
  <2>3. QED
    BY <1>1, <1>2, <2>1, <2>2 DEF HookShapes, FindPaused
<1>6. \A e \in Hooks : /\ hook'[e].tries = hook[e].tries
                       /\ e # d => hook'[e] = hook[e]
                       /\ hook'[d].due = "none" /\ hook'[d].status = "failed"
  <2>1. hook[d] \in HookRows
    BY <1>1, <1>2 DEF HookShapes
  <2>2. hook'[d] = [hook[d] EXCEPT !.status = "failed", !.due = "none"] /\ \A e \in Hooks \ {d} : hook'[e] = hook[e]
    BY <1>2, <1>3
  <2>3. QED
    BY <2>1, <2>2 DEF HookRows
<1>7. /\ \A e \in Hooks : On(e, Busy)' = On(e, Busy) \ {s} /\ On(e, Sent)' = On(e, Sent)
      /\ \A e \in Hooks : e # d => s \notin On(e, Busy)
      /\ s \in On(d, Busy)
  <2>1. ASSUME NEW e \in Hooks PROVE On(e, Busy)' = On(e, Busy) \ {s}
    BY <1>4 DEF On, Busy
  <2>2. ASSUME NEW e \in Hooks PROVE On(e, Sent)' = On(e, Sent)
    BY <1>2, <1>4 DEF On, Sent
  <2>3. QED
    BY <1>2, <2>1, <2>2 DEF On, Busy
<1>8. \A e \in Hooks : \A t \in On(e, Sent) : t # s /\ sender'[t] = sender[t]
  BY <1>2, <1>4 DEF On, Sent
<1>9. \A t \in Senders : Attempted(t)'
  BY <1>1, <1>2, <1>3, <1>4, <1>6 DEF Attempted
<1>tries. ASSUME NEW e \in Hooks PROVE Tried(e)'
  <2>1. CASE e # d
    BY <2>1, <1>1, <1>3, <1>6, <1>7, <1>8 DEF Tried
  <2>2. CASE e = d
    <3>1. \A t, u \in On(d, Busy) \ {s} : t = u
      BY <1>1, <1>2, <1>7 DEF Few
    <3>2. \A t \in On(d, Sent) : sender[t].due = "none" => On(d, Busy) = {t}
      BY <1>1, <1>2 DEF Tried
    <3>3. \A t \in On(d, Sent) : sender[t].due # "none" /\ sender[t].tries < MaxTries
      BY <1>1, <1>2, <1>7, <1>8, <3>2 DEF Tried
    <3>4. QED
      BY <2>2, <3>1, <3>3, <1>1, <1>2, <1>6, <1>7, <1>8 DEF Tried
  <2>3. QED
    BY <2>1, <2>2
<1>10. ASSUME NEW e \in Hooks PROVE Few(e)'
  BY <1>1, <1>3, <1>6, <1>7 DEF Few
<1>11. ASSUME NEW e \in Hooks \ {d}, Kept(e) PROVE Kept(e)'
  BY <1>1, <1>3, <1>6, <1>7, <1>8, <1>11 DEF Kept
<1>12. ASSUME NEW e \in Hooks, Alone(e) PROVE Alone(e)'
  <2>1. CASE e # d
    BY <2>1, <1>1, <1>3, <1>6, <1>7, <1>8, <1>12 DEF Alone
  <2>2. CASE e = d
    <3>1. On(d, Busy)' = {} /\ On(d, Sent)' = {} /\ On(d, Sent) = {}
      <4>1. \A t, u \in On(d, Busy) : t = u
        BY <2>2, <1>12 DEF Alone
      <4>2. On(d, Busy) = {s}
        BY <4>1, <1>7
      <4>3. On(d, Sent) \subseteq On(d, Busy)
        BY DEF On, Sent, Busy
      <4>4. d \in Hooks
        BY <1>2
      <4>5. QED
        BY <4>2, <4>3, <4>4, <1>7, <1>8
    <3>2. hook[d].tries < MaxTries
      BY <2>2, <1>7, <1>12 DEF Alone
    <3>3. QED
      BY <2>2, <3>1, <3>2, <1>1, <1>3, <1>6, <1>12 DEF Alone
  <2>3. QED
    BY <2>1, <2>2
<1>13. QED
  BY <1>1, <1>2, <1>3, <1>5, <1>9, <1>10, <1>11, <1>12, <1>tries DEF HookInv

\* A request leaves: the attempt knows the row as it is.
LEMMA SendKeeps ==
  ASSUME HookInv, NEW s \in Senders, Send(s)
  PROVE  HookInv'
<1>1. /\ HookShapes /\ \A t \in Senders : Attempted(t)
      /\ \A e \in Hooks : Few(e) /\ Tried(e) /\ (e \in heard \cup stopped \/ Kept(e)) /\ (e \in pressed \/ Alone(e))
  BY DEF HookInv
<1>2. PICK d \in Hooks : d = sender[s].hook /\ sender[s].at = "claimed" /\ hook[d].status # "none"
  BY <1>1 DEF Send, Attempted
<1>3. /\ sender' = [sender EXCEPT ![s] = [at |-> "sending", hook |-> d, status |-> hook[d].status,
                     due |-> hook[d].due, tries |-> hook[d].tries, failing |-> endpoint.failing, ok |-> FALSE]]
      /\ sends' = [sends EXCEPT ![d] = @ + 1]
      /\ UNCHANGED <<hook, endpoint, heard, stopped, pressed, sendCrashes>>
  BY <1>2 DEF Send
<1>4. /\ sender'[s] = [at |-> "sending", hook |-> d, status |-> hook[d].status,
                     due |-> hook[d].due, tries |-> hook[d].tries, failing |-> endpoint.failing, ok |-> FALSE]
      /\ \A t \in Senders \ {s} : sender'[t] = sender[t]
      /\ \A e \in Hooks : sends[e] \in Nat /\ hook[e].tries \in Nat /\ sendCrashes \in Nat
      /\ \A e \in Hooks : sends'[e] = IF e = d THEN sends[d] + 1 ELSE sends[e]
  BY <1>1, <1>2, <1>3 DEF HookShapes, HookRows
<1>5. HookShapes'
  <2>1. hook[d] \in HookRows /\ endpoint.failing \in {"no", "new", "long"}
    BY <1>1, <1>2 DEF HookShapes
  <2>2. sender'[s] \in Attempts
    BY <1>4, <2>1 DEF Attempts, HookRows
  <2>3. QED
    BY <1>1, <1>2, <1>3, <1>4, <2>2 DEF HookShapes
<1>6. /\ \A e \in Hooks : On(e, Busy)' = On(e, Busy)
      /\ \A e \in Hooks \ {d} : On(e, Sent)' = On(e, Sent)
      /\ On(d, Sent)' = On(d, Sent) \cup {s} /\ s \in On(d, Busy) /\ On(d, Sent) \subseteq On(d, Busy)
  <2>1. ASSUME NEW e \in Hooks PROVE On(e, Busy)' = On(e, Busy)
    BY <1>2, <1>4 DEF On, Busy
  <2>2. ASSUME NEW e \in Hooks \ {d} PROVE On(e, Sent)' = On(e, Sent)
    BY <1>2, <1>4 DEF On, Sent
  <2>3. On(d, Sent)' = On(d, Sent) \cup {s}
    BY <1>2, <1>4 DEF On, Sent
  <2>4. QED
    BY <1>2, <2>1, <2>2, <2>3 DEF On, Busy, Sent
<1>7. \A e \in Hooks : \A t \in On(e, Sent) : t # s /\ sender'[t] = sender[t]
  BY <1>2, <1>4 DEF On, Sent
<1>8. \A t \in Senders : Attempted(t)'
  <2>1. Attempted(s)'
    <3>1. hook[d].tries <= sends[d]
      BY <1>1, <1>2 DEF Few
    <3>2. QED
      BY <1>2, <1>3, <1>4, <3>1 DEF Attempted
  <2>2. ASSUME NEW t \in Senders \ {s} PROVE Attempted(t)'
    <3>1. sender'[t] = sender[t] /\ Attempted(t)
      BY <1>1, <1>4
    <3>2. sender[t].tries \in Nat
      BY <1>1 DEF HookShapes, Attempts
    <3>3. QED
      BY <1>3, <1>4, <3>1, <3>2 DEF Attempted
  <2>3. QED
    BY <2>1, <2>2
<1>tries. ASSUME NEW e \in Hooks PROVE Tried(e)'
  <2>1. CASE e # d
    BY <2>1, <1>1, <1>3, <1>4, <1>6, <1>7 DEF Tried
  <2>2. CASE e = d
    <3>1. sender'[s].due = hook[d].due /\ sender'[s].tries = hook[d].tries /\ hook[d].tries <= MaxTries
      BY <1>1, <1>2, <1>4, <1>6 DEF Tried
    <3>2. CASE hook[d].due = "none"
      <4>1. On(d, Busy) = {s}
        BY <1>1, <1>2, <1>6, <3>2 DEF Tried
      <4>2. On(d, Sent)' = {s}
        BY <4>1, <1>6
      <4>3. QED
        BY <2>2, <3>1, <3>2, <4>1, <4>2, <1>1, <1>2, <1>3, <1>6 DEF Tried
    <3>3. CASE hook[d].due # "none"
      BY <2>2, <3>1, <3>3, <1>1, <1>2, <1>3, <1>6, <1>7 DEF Tried
    <3>4. QED
      BY <3>2, <3>3
  <2>3. QED
    BY <2>1, <2>2
<1>9. ASSUME NEW e \in Hooks PROVE Few(e)'
  BY <1>1, <1>2, <1>3, <1>4, <1>6 DEF Few
<1>10. ASSUME NEW e \in Hooks, Kept(e) PROVE Kept(e)'
  <2>0. MaxTries \in Nat
    BY HookAssumption
  <2>1. CASE e # d
    BY <2>0, <2>1, <1>3, <1>4, <1>6, <1>7, <1>10 DEF Kept
  <2>2. CASE e = d
    <3>1. /\ sender'[s].due = "none" => sender'[s].status = "exhausted"
          /\ sender'[s].status = "exhausted" => sender'[s].due = "none" /\ hook[d].status = "exhausted"
      BY <2>2, <1>2, <1>4, <1>6, <1>10 DEF Kept
    <3>2. QED
      BY <2>0, <2>2, <3>1, <1>2, <1>3, <1>4, <1>6, <1>7, <1>10 DEF Kept
  <2>3. QED
    BY <2>1, <2>2
<1>11. ASSUME NEW e \in Hooks, Alone(e) PROVE Alone(e)'
  <2>0. MaxTries \in Nat
    BY HookAssumption
  <2>1. CASE e # d
    BY <2>0, <2>1, <1>3, <1>4, <1>6, <1>7, <1>11 DEF Alone
  <2>2. CASE e = d
    <3>1. On(d, Busy) = {s} /\ On(d, Sent) = {} /\ On(d, Sent)' = {s}
      <4>1. \A t, u \in On(d, Busy) : t = u
        BY <2>2, <1>11 DEF Alone
      <4>2. QED
        BY <1>2, <1>6, <1>7, <4>1
    <3>2. hook[d].due = "leased" /\ hook[d].status \in {"pending", "failed"}
      BY <2>2, <3>1, <1>11 DEF Alone
    <3>3. sends[d] <= hook[d].tries + sendCrashes
      BY <2>2, <3>1, <1>2, <1>4, <1>11 DEF Alone
    <3>4. QED
      BY <2>0, <2>2, <3>1, <3>2, <3>3, <1>2, <1>3, <1>4, <1>6, <1>11 DEF Alone
  <2>3. QED
    BY <2>1, <2>2
<1>12. QED
  BY <1>1, <1>2, <1>3, <1>5, <1>8, <1>9, <1>10, <1>11, <1>tries DEF HookInv

\* It is answered, or is not.
LEMMA AnswerKeeps ==
  ASSUME HookInv, NEW s \in Senders, NEW ok \in BOOLEAN, Answer(s, ok)
  PROVE  HookInv'
<1>1. /\ HookShapes /\ \A t \in Senders : Attempted(t)
      /\ \A e \in Hooks : Few(e) /\ Tried(e) /\ (e \in heard \cup stopped \/ Kept(e)) /\ (e \in pressed \/ Alone(e))
  BY DEF HookInv
<1>2. /\ sender[s].at = "sending"
      /\ \A t \in Senders : sender'[t] = IF t = s THEN [sender[s] EXCEPT !.at = "answered", !.ok = ok] ELSE sender[t]
      /\ heard' = IF ok THEN heard \cup {sender[s].hook} ELSE heard
      /\ UNCHANGED <<hook, endpoint, sends, stopped, pressed, sendCrashes>>
  BY <1>1 DEF Answer, HookShapes
<1>3. /\ sender'[s].at = "answered" /\ sender'[s].ok = ok /\ sender'[s].hook = sender[s].hook
      /\ sender'[s].status = sender[s].status /\ sender'[s].due = sender[s].due /\ sender'[s].tries = sender[s].tries
      /\ sender'[s] \in Attempts
  <2>1. sender[s] \in Attempts
    BY <1>1 DEF HookShapes
  <2>2. sender'[s] = [sender[s] EXCEPT !.at = "answered", !.ok = ok]
    BY <1>2
  <2>3. QED
    BY <2>1, <2>2 DEF Attempts
<1>4. HookShapes'
  BY <1>1, <1>2, <1>3 DEF HookShapes, Answer
<1>5. \A e \in Hooks : On(e, Busy)' = On(e, Busy) /\ On(e, Sent)' = On(e, Sent)
  <2>1. ASSUME NEW e \in Hooks PROVE On(e, Busy)' = On(e, Busy)
    BY <1>2, <1>3 DEF On, Busy
  <2>2. ASSUME NEW e \in Hooks PROVE On(e, Sent)' = On(e, Sent)
    BY <1>2, <1>3 DEF On, Sent
  <2>3. QED
    BY <2>1, <2>2
<1>6. \A t \in Senders : sender'[t].status = sender[t].status /\ sender'[t].due = sender[t].due
                         /\ sender'[t].tries = sender[t].tries
  BY <1>2, <1>3
<1>7. \A t \in Senders : Attempted(t)'
  <2>1. Attempted(s)'
    BY <1>1, <1>2, <1>3 DEF Attempted
  <2>2. ASSUME NEW t \in Senders \ {s} PROVE Attempted(t)'
    BY <1>1, <1>2 DEF Attempted
  <2>3. QED
    BY <2>1, <2>2
<1>8. \A e : \A t \in On(e, Sent) : t \in Senders
  BY DEF On
<1>tries. ASSUME NEW e \in Hooks PROVE Tried(e)'
  BY <1>1, <1>2, <1>5, <1>6, <1>8 DEF Tried
<1>9. ASSUME NEW e \in Hooks PROVE Few(e)'
  BY <1>1, <1>2, <1>5 DEF Few
<1>10. ASSUME NEW e \in Hooks, Kept(e) PROVE Kept(e)'
  BY <1>2, <1>5, <1>6, <1>8, <1>10 DEF Kept
<1>11. ASSUME NEW e \in Hooks, Alone(e) PROVE Alone(e)'
  BY <1>2, <1>5, <1>6, <1>8, <1>11 DEF Alone
<1>12. QED
  BY <1>1, <1>2, <1>4, <1>7, <1>9, <1>10, <1>11, <1>tries DEF HookInv

\* The outcome is written over the row, counted from the row as it was loaded.
LEMMA StoredKeeps ==
  ASSUME HookInv, NEW s \in Senders, RecordOutcome(s)
  PROVE  HookInv'
<1>0. MaxTries \in Nat
  BY HookAssumption
<1>1. /\ HookShapes /\ \A t \in Senders : Attempted(t)
      /\ \A e \in Hooks : Few(e) /\ Tried(e) /\ (e \in heard \cup stopped \/ Kept(e)) /\ (e \in pressed \/ Alone(e))
  BY DEF HookInv
<1>2. PICK d \in Hooks : /\ d = sender[s].hook /\ sender[s].at = "answered" /\ hook[d].status # "none"
                         /\ sender[s].tries < sends[d] /\ (sender[s].ok => d \in heard)
  BY <1>1 DEF RecordOutcome, Attempted
<1>3. PICK o \in HookRows : o = Outcome(s)
  <2>1. sender[s] \in Attempts
    BY <1>1 DEF HookShapes
  <2>2. sender[s].tries + 1 \in Nat
    BY <2>1 DEF Attempts
  <2>3. Outcome(s) \in HookRows
    BY <2>2 DEF Outcome, HookRows, Statuses, Dues
  <2>4. QED
    BY <2>3
<1>4. /\ o.tries = sender[s].tries + 1 /\ o.tries <= sends[d]
      /\ \/ d \in heard /\ o.status = "delivered" /\ o.due = "none"
         \/ o.status = "exhausted" /\ o.due = "none" /\ o.tries >= MaxTries
         \/ o.status = "failed" /\ o.due = "later" /\ o.tries < MaxTries
  <2>1. sender[s].tries \in Nat /\ sends[d] \in Nat
    BY <1>1 DEF HookShapes, Attempts
  <2>2. QED
    BY <1>0, <1>2, <1>3, <2>1 DEF Outcome
<1>5. /\ hook'[d].status = IF o.status = sender[s].status THEN hook[d].status ELSE o.status
      /\ hook'[d].due = IF o.due = "none" /\ sender[s].due = "none" THEN hook[d].due ELSE o.due
      /\ hook'[d].tries = o.tries
      /\ \A e \in Hooks \ {d} : hook'[e] = hook[e]
      /\ hook' \in [Hooks -> HookRows]
  <2>1. hook' = [hook EXCEPT
         ![d].status = IF o.status = sender[s].status THEN @ ELSE o.status,
         ![d].due    = IF o.due = "none" /\ sender[s].due = "none" THEN @ ELSE o.due,
         ![d].tries  = o.tries]
    BY <1>2, <1>3 DEF RecordOutcome
  <2>2. hook \in [Hooks -> HookRows] /\ hook[d] \in HookRows
    BY <1>1 DEF HookShapes
  <2>3. hook'[d] = [hook[d] EXCEPT
         !.status = IF o.status = sender[s].status THEN @ ELSE o.status,
         !.due    = IF o.due = "none" /\ sender[s].due = "none" THEN @ ELSE o.due,
         !.tries  = o.tries]
    BY <2>1, <2>2
  <2>4. /\ hook'[d].status = IF o.status = sender[s].status THEN hook[d].status ELSE o.status
        /\ hook'[d].due = IF o.due = "none" /\ sender[s].due = "none" THEN hook[d].due ELSE o.due
        /\ hook'[d].tries = o.tries
        /\ hook'[d] \in HookRows
    BY <2>2, <2>3 DEF HookRows
  <2>5. QED
    BY <2>1, <2>2, <2>4
<1>6. /\ sender' = [sender EXCEPT ![s].at = "recorded"]
      /\ UNCHANGED <<endpoint, sends, heard, stopped, pressed, sendCrashes>>
  BY DEF RecordOutcome
<1>7. /\ sender'[s].at = "recorded" /\ sender'[s].hook = d /\ sender'[s].ok = sender[s].ok /\ sender'[s] \in Attempts
      /\ \A t \in Senders \ {s} : sender'[t] = sender[t]
  <2>1. sender[s] \in Attempts /\ sender \in [Senders -> Attempts]
    BY <1>1 DEF HookShapes
  <2>2. sender'[s] = [sender[s] EXCEPT !.at = "recorded"] /\ \A t \in Senders \ {s} : sender'[t] = sender[t]
    BY <1>6, <2>1
  <2>3. QED
    BY <1>2, <2>1, <2>2 DEF Attempts
<1>8. HookShapes'
  BY <1>1, <1>5, <1>6, <1>7 DEF HookShapes
<1>9. /\ \A e \in Hooks \ {d} : On(e, Busy)' = On(e, Busy) /\ On(e, Sent)' = On(e, Sent)
      /\ On(d, Busy)' = On(d, Busy) \ {s} /\ On(d, Sent)' = On(d, Sent) \ {s}
      /\ s \in On(d, Busy) /\ s \in On(d, Sent) /\ On(d, Sent) \subseteq On(d, Busy)
  <2>1. ASSUME NEW e \in Hooks \ {d} PROVE On(e, Busy)' = On(e, Busy)
    BY <1>2, <1>7 DEF On, Busy
  <2>2. ASSUME NEW e \in Hooks \ {d} PROVE On(e, Sent)' = On(e, Sent)
    BY <1>2, <1>7 DEF On, Sent
  <2>3. On(d, Busy)' = On(d, Busy) \ {s}
    BY <1>2, <1>7 DEF On, Busy
  <2>4. On(d, Sent)' = On(d, Sent) \ {s}
    BY <1>2, <1>7 DEF On, Sent
  <2>5. QED
    BY <1>2, <2>1, <2>2, <2>3, <2>4 DEF On, Busy, Sent
<1>10. \A e \in Hooks : \A t \in On(e, Sent) \ {s} : sender'[t] = sender[t]
  BY <1>7 DEF On
<1>11. s \notin UNION {On(e, Busy) : e \in Hooks \ {d}}
  BY <1>2 DEF On
<1>12. \A t \in Senders : Attempted(t)'
  <2>1. Attempted(s)'
    BY <1>2, <1>4, <1>5, <1>6, <1>7, <1>1 DEF Attempted
  <2>2. ASSUME NEW t \in Senders \ {s} PROVE Attempted(t)'
    <3>1. sender'[t] = sender[t] /\ Attempted(t) /\ hook'[d].status # "none"
      BY <1>1, <1>2, <1>4, <1>5, <1>7
    <3>2. QED
      BY <3>1, <1>5, <1>6 DEF Attempted
  <2>3. QED
    BY <2>1, <2>2
<1>tries. ASSUME NEW e \in Hooks PROVE Tried(e)'
  <2>1. CASE e # d
    BY <2>1, <1>1, <1>5, <1>6, <1>9, <1>10, <1>11 DEF Tried
  <2>2. CASE e = d
    <3>1. \A t, u \in On(d, Busy) \ {s} : t = u
      BY <1>1, <1>9 DEF Few
    <3>2. \A t \in On(d, Sent) \ {s} : sender[t].due # "none" /\ sender[t].tries < MaxTries
      BY <1>1, <1>9 DEF Tried
    <3>3. o.tries = sender[s].tries + 1 /\ sender[s].tries \in Nat
      BY <1>1, <1>4 DEF HookShapes, Attempts
    <3>4. CASE sender[s].due = "none"
      <4>1. On(d, Busy) = {s} /\ hook[d].due = "none" /\ sender[s].tries <= MaxTries
        BY <1>1, <1>9, <3>4 DEF Tried
      <4>2. hook'[d].due # "none" => o.tries < MaxTries
        BY <4>1, <1>4, <1>5
      <4>3. QED
        BY <2>2, <3>3, <4>1, <4>2, <1>0, <1>2, <1>4, <1>5, <1>9 DEF Tried
    <3>5. CASE sender[s].due # "none"
      <4>1. sender[s].tries < MaxTries
        BY <1>1, <1>9, <3>5 DEF Tried
      <4>2. hook'[d].due # "none" => o.tries < MaxTries
        BY <3>5, <1>4, <1>5
      <4>3. QED
        BY <2>2, <3>1, <3>2, <3>3, <4>1, <4>2, <1>0, <1>2, <1>4, <1>5, <1>9, <1>10 DEF Tried
    <3>6. QED
      BY <3>4, <3>5
  <2>3. QED
    BY <2>1, <2>2
<1>13. ASSUME NEW e \in Hooks PROVE Few(e)'
  <2>1. CASE e # d
    BY <2>1, <1>1, <1>5, <1>6, <1>9 DEF Few
  <2>2. CASE e = d
    <3>1. \A t, u \in On(d, Busy) \ {s} : t = u
      BY <1>1, <1>9 DEF Few
    <3>2. QED
      BY <2>2, <3>1, <1>4, <1>5, <1>6, <1>9 DEF Few
  <2>3. QED
    BY <2>1, <2>2
<1>14. ASSUME NEW e \in Hooks, e \notin heard, Kept(e), Few(e) PROVE Kept(e)'
  <2>1. CASE e # d
    BY <2>1, <1>5, <1>6, <1>9, <1>10, <1>11, <1>14 DEF Kept
  <2>2. CASE e = d
    <3>0. sends[d] \in Nat /\ o.tries \in Nat /\ (sender[s].status = "exhausted" => On(d, Busy) = {s})
      <4>1. sender[s].status = "exhausted" => \A t, u \in On(d, Busy) : t = u
        BY <2>2, <1>9, <1>14 DEF Kept
      <4>2. QED
        BY <4>1, <1>1, <1>3, <1>9 DEF HookShapes, HookRows
    <3>1. \A t, u \in On(d, Busy) \ {s} : t = u
      BY <2>2, <1>9, <1>14 DEF Few
    <3>2. CASE o.status = "failed"
      <4>1. hook'[d].due = "later"
        BY <3>2, <1>4, <1>5
      <4>2. \/ hook'[d].status = "failed" /\ sender[s].status # "failed"
            \/ hook'[d].status = hook[d].status /\ sender[s].status = "failed"
        BY <3>2, <1>5
      <4>3. hook[d].status = "exhausted" => On(d, Busy) = {s} /\ sends[d] >= MaxTries
        BY <2>2, <1>9, <1>14 DEF Kept
      <4>4. \A t \in On(d, Sent) \ {s} : sender[t].status # "exhausted" /\ sender[t].due # "none"
        BY <2>2, <3>0, <4>3, <1>9, <1>14 DEF Kept
      <4>5. \/ hook'[d].status \in {"pending", "failed"}
            \/ hook'[d].status = "exhausted" /\ sends[d] >= MaxTries /\ On(d, Busy) = {s}
        BY <2>2, <4>2, <4>3, <1>2, <1>14 DEF Kept
      <4>6. QED
        BY <2>2, <4>1, <4>4, <4>5, <1>6, <1>9, <1>10 DEF Kept
    <3>3. CASE o.status = "exhausted"
      <4>1. sends[d] >= MaxTries
        BY <3>0, <3>3, <1>0, <1>4
      <4>2. hook'[d].status = "exhausted"
        BY <2>2, <3>3, <1>5, <1>9, <1>14 DEF Kept
      <4>3. hook'[d].due = "none" \/ On(d, Busy) = {s}
        BY <2>2, <3>0, <3>3, <1>4, <1>5, <1>9, <1>14 DEF Kept
      <4>4. \A t \in On(d, Sent) \ {s} : (sender[t].due = "none" <=> sender[t].status = "exhausted")
        BY <2>2, <1>14 DEF Kept
      <4>5. On(d, Busy) \ {s} # {} => d \in pressed
        BY <2>2, <1>1, <1>9 DEF Alone
      <4>6. QED
        BY <2>2, <3>1, <4>1, <4>2, <4>3, <4>4, <4>5, <1>6, <1>9, <1>10 DEF Kept
    <3>4. QED
      BY <2>2, <3>2, <3>3, <1>4, <1>14
  <2>3. QED
    BY <2>1, <2>2
<1>15. ASSUME NEW e \in Hooks, Alone(e) PROVE Alone(e)'
  <2>1. CASE e # d
    BY <2>1, <1>5, <1>6, <1>9, <1>10, <1>11, <1>15 DEF Alone
  <2>2. CASE e = d
    <3>1. On(d, Busy)' = {} /\ On(d, Sent)' = {}
      BY <2>2, <1>9, <1>15 DEF Alone
    <3>2. sender[s].status = hook[d].status /\ sender[s].due = "leased" /\ sender[s].tries = hook[d].tries
          /\ hook[d].tries < MaxTries
      BY <2>2, <1>9, <1>15 DEF Alone
    <3>3. /\ hook'[d].status = o.status /\ hook'[d].due = o.due
          /\ hook'[d].tries = hook[d].tries + 1 /\ o.tries = hook[d].tries + 1
      BY <3>2, <1>4, <1>5
    <3>4. sends[d] <= hook[d].tries + sendCrashes + 1
      BY <2>2, <1>9, <1>15 DEF Alone
    <3>5. hook[d].tries \in Nat /\ sends[d] \in Nat /\ sendCrashes \in Nat
      BY <1>1 DEF HookShapes, HookRows
    <3>6. sends[d] <= hook'[d].tries + sendCrashes /\ hook'[d].tries <= MaxTries
      BY <1>0, <3>2, <3>3, <3>4, <3>5
    <3>7. QED
      <4>1. /\ o.status \in {"none", "pending", "failed"} => hook'[d].tries < MaxTries
            /\ o.status \in {"pending", "failed"} => o.due # "none"
            /\ o.status = "delivered" => d \in heard
            /\ o.status = "exhausted" => sends[d] >= MaxTries /\ o.due = "none"
        BY <3>3, <3>5, <1>0, <1>4
      <4>2. QED
        BY <2>2, <3>1, <3>3, <3>5, <3>6, <4>1, <1>6 DEF Alone
  <2>3. QED
    BY <2>1, <2>2
<1>16. QED
  BY <1>1, <1>6, <1>8, <1>12, <1>13, <1>14, <1>15, <1>tries DEF HookInv

\* Every step preserves it.
LEMMA HookStep == HookInv /\ [HookNext]_hookVars => HookInv'
<1> SUFFICES ASSUME HookInv, [HookNext]_hookVars PROVE HookInv'
  OBVIOUS
<1>1. ASSUME NEW d \in Hooks, QueueDelivery(d) \/ WaitOver(d) \/ LeaseOver(d) PROVE HookInv'
  BY <1>1, QueueKeeps, DueKeeps
<1>2. ASSUME NEW s \in Senders, NEW d \in Hooks, ClaimHook(s, d) \/ Press(s, d) PROVE HookInv'
  BY <1>2, ClaimKeeps, PressKeeps
<1>3. ASSUME NEW s \in Senders, NoteHealth(s) PROVE HookInv'
  <2>1. NowFailing(s) \in {"no", "new", "long"} /\ endpoint \in [active : BOOLEAN, failing : {"no", "new", "long"}]
    BY DEF NowFailing, HookInv, HookShapes
  <2>2. endpoint' \in [active : BOOLEAN, failing : {"no", "new", "long"}]
    BY <1>3, <2>1 DEF NoteHealth
  <2>3. QED
    BY <1>3, <2>2, EndKeeps DEF NoteHealth
<1>4. ASSUME NEW s \in Senders, SenderStops(s) PROVE HookInv'
  BY <1>4, EndKeeps DEF SenderStops, HookInv, HookShapes
<1>5. ASSUME NEW s \in Senders, Attempt(s) PROVE HookInv'
  BY <1>3, <1>5, PausedKeeps, SendKeeps, AnswerKeeps, StoredKeeps DEF Attempt
<1>6. ASSUME endpoint' \in [active : BOOLEAN, failing : {"no", "new", "long"}],
             UNCHANGED <<hook, sender, sends, heard, stopped, pressed, sendCrashes>>
      PROVE  HookInv'
  BY <1>6 DEF HookInv, HookShapes, Attempted, Few, Tried, Kept, Alone, On
<1>7. CASE ThreeDaysPass \/ DisableFailing \/ PauseOrResume
  <2>1. endpoint' \in [active : BOOLEAN, failing : {"no", "new", "long"}]
    <3>1. endpoint \in [active : BOOLEAN, failing : {"no", "new", "long"}]
      BY DEF HookInv, HookShapes
    <3>2. CASE ThreeDaysPass
      BY <3>1, <3>2 DEF ThreeDaysPass
    <3>3. ASSUME NEW active \in BOOLEAN, SetActive(active)
          PROVE  endpoint' \in [active : BOOLEAN, failing : {"no", "new", "long"}]
      BY <3>1, <3>3 DEF SetActive
    <3>4. (~endpoint.active) \in BOOLEAN
      OBVIOUS
    <3>5. QED
      BY <1>7, <3>2, <3>3, <3>4 DEF DisableFailing, PauseOrResume
  <2>2. QED
    BY <1>6, <1>7, <2>1 DEF ThreeDaysPass, DisableFailing, PauseOrResume, SetActive
<1>8. CASE UNCHANGED hookVars
  BY <1>6, <1>8 DEF hookVars, HookInv, HookShapes
<1>9. QED
  BY <1>1, <1>2, <1>4, <1>5, <1>7, <1>8 DEF HookNext

\* A delivery nobody answered stays scheduled until it was sent MAX_ATTEMPTS times or
\* found at a paused endpoint (webhookDispatcher), whichever attempts write over it.
THEOREM UnheardStayScheduled == HookSpec => []UnheardIsScheduled
<1>1. HookInv => UnheardIsScheduled
  BY DEF HookInv, Kept, UnheardIsScheduled
<1>2. QED
  BY <1>1, HookInitInv, HookStep, PTL DEF HookSpec

\* What the model remembers of a row beside it.
HookSets == heard \subseteq Hooks /\ stopped \subseteq Hooks /\ pressed \subseteq Hooks

\* Whatever attempts write over each other, a row's attempts go one past MAX_ATTEMPTS
\* at most, and an attempt and the endpoint stay what webhookDispatcher makes of them.
THEOREM HookTyped == HookSpec => []HookTypes
<1>1. HookInv /\ HookSets => HookTypes
  <2> SUFFICES ASSUME HookInv, HookSets
               PROVE  HookTypes
    OBVIOUS
  <2>1. HookShapes /\ \A d \in Hooks : Tried(d)
    BY DEF HookInv
  <2>2. ASSUME NEW d \in Hooks
        PROVE  hook[d] \in [status : Statuses, due : Dues, tries : 0..MaxTries + 1]
    <3>1. hook[d] \in HookRows
      BY <2>1 DEF HookShapes
    <3>2. hook[d].tries \in 0..MaxTries + 1
      BY <2>1, <3>1, HookAssumption DEF Tried, HookRows
    <3>3. QED
      BY <3>1, <3>2 DEF HookRows
  <2>3. hook \in [Hooks -> [status : Statuses, due : Dues, tries : 0..MaxTries + 1]]
    BY <2>1, <2>2 DEF HookShapes
  <2>4. QED
    BY <2>1, <2>3 DEF HookSets, HookTypes, HookShapes, Attempts, Statuses, Dues
<1>2. HookInit => HookSets
  BY DEF HookInit, HookSets
<1>3. HookInv /\ HookSets /\ [HookNext]_hookVars
        => HookSets'
  <2> SUFFICES ASSUME HookInv, HookSets, [HookNext]_hookVars
               PROVE  HookSets'
    OBVIOUS
  <2>1. \A s \in Senders : sender[s].at # "idle" => sender[s].hook \in Hooks
    BY DEF HookInv, Attempted
  <2>2. ASSUME NEW s \in Senders, Attempt(s) \/ SenderStops(s)
        PROVE  HookSets'
    BY <2>1, <2>2 DEF Attempt, FindPaused, Send, Answer, RecordOutcome, NoteHealth, SenderStops, HookSets
  <2>3. QED
    BY <2>2 DEF HookNext, hookVars, QueueDelivery, WaitOver, LeaseOver, ClaimHook, Press,
                ThreeDaysPass, DisableFailing, PauseOrResume, SetActive, HookSets
<1>4. QED
  BY <1>1, <1>2, <1>3, HookInitInv, HookStep, PTL DEF HookSpec

\* Without a button, a delivery is in the hands of one attempt at a time, is not sent
\* again once it ended, and is sent MAX_ATTEMPTS times at most but for the crashes.
THEOREM LoopsSendInTurn == HookSpec => []LoopsSendOnce
<1>1. HookInv => LoopsSendOnce
  <2> SUFFICES ASSUME HookInv, NEW d \in Hooks \ pressed
               PROVE  /\ Cardinality(On(d, {"claimed", "sending", "answered"})) <= 1
                      /\ hook[d].status \in {"delivered", "exhausted"} => On(d, {"claimed", "sending"}) = {}
                      /\ sends[d] <= MaxTries + sendCrashes
    BY DEF LoopsSendOnce, RequestsCounted
  <2>1. Alone(d) /\ HookShapes
    BY DEF HookInv
  <2>2. Cardinality(On(d, Busy)) <= 1
    <3>1. On(d, Busy) = {} \/ \E s : On(d, Busy) = {s}
      BY <2>1 DEF Alone
    <3>2. QED
      <4>1. CASE On(d, Busy) = {}
        BY <4>1, FS_EmptySet
      <4>2. ASSUME NEW s, On(d, Busy) = {s} PROVE Cardinality(On(d, Busy)) <= 1
        BY <4>2, FS_Singleton
      <4>3. QED
        BY <3>1, <4>1, <4>2
  <2>3. On(d, {"claimed", "sending"}) \subseteq On(d, Busy)
    BY DEF On, Busy
  <2>4. On(d, Sent) \subseteq On(d, Busy)
    BY DEF On, Busy, Sent
  <2>5. sends[d] <= MaxTries + sendCrashes
    <3>1. sends[d] \in Nat /\ hook[d].tries \in Nat /\ sendCrashes \in Nat /\ MaxTries \in Nat
      BY <2>1, HookAssumption DEF HookShapes, HookRows
    <3>2. CASE On(d, Sent) = {}
      BY <2>1, <3>1, <3>2 DEF Alone
    <3>3. CASE On(d, Sent) # {}
      <4>1. hook[d].tries < MaxTries
        BY <2>1, <2>4, <3>3 DEF Alone
      <4>2. sends[d] <= hook[d].tries + sendCrashes + 1
        BY <2>1, <3>3 DEF Alone
      <4>3. QED
        BY <3>1, <4>1, <4>2
    <3>4. QED
      BY <3>2, <3>3
  <2>6. QED
    BY <2>1, <2>2, <2>3, <2>5 DEF Alone, Busy
<1>2. QED
  BY <1>1, HookInitInv, HookStep, PTL DEF HookSpec

-----------------------------------------------------------------------------
(***************************************************************************)
(* A store's subscription: the switch that waits fits the store.           *)
(***************************************************************************)

Cycles   == {"monthly", "yearly"}
TermRows == [plan : Plans, cycle : Cycles]

SubscriptionRows ==
    [terms : TermRows, status : {"active", "past_due", "cancelled"}, start : Nat, end : Nat]

ChargeRows ==
    [status : {"none", "pending", "paid", "failed", "void"},
     to : Offered \cup {NoTerms}, from : TermRows \cup {NoTerms},
     switch : {"none", "pending", "applied", "closed"}, start : Nat, end : Nat,
     by : {"none", "gateway", "hand"}, before : SUBSET SubscriptionRows, reversed : BOOLEAN]

SwitchRows == [to : Offered, from : TermRows, at : Nat] \cup {NoSwitch}

SubscriptionShapes ==
    /\ month \in Nat /\ subscription \in SubscriptionRows
    /\ charges \in [Charges -> ChargeRows] /\ planned \in SwitchRows
    /\ proofs \subseteq {c \in Charges : charges[c].status # "none"}

\* What a charge says of the store: its switch waits only beside it, for terms
\* the store is on, and with none scheduled; one that was paid was applied, from
\* the terms it would go back to; one that waits without it was paid once.
ChargeStands(r, terms, scheduled) ==
    /\ r.status = "none" => r.to = NoTerms /\ r.switch = "none"
    /\ r.status # "none" => r.start < r.end
    /\ r.switch = "pending" =>
         r.status = "pending" /\ r.to # NoTerms /\ r.from = terms /\ scheduled = NoSwitch
    /\ r.status = "paid" /\ r.to # NoTerms =>
         r.switch = "applied" /\ \A sub \in r.before : sub.terms = r.from
    /\ r.status = "pending" /\ r.to # NoTerms => r.switch = "pending" \/ r.reversed

ChargesStand == \A c \in Charges : ChargeStands(charges[c], subscription.terms, planned)

OnePending == \A b, c \in Charges : charges[b].status = "pending" /\ charges[c].status = "pending" => b = c

ScheduleStands ==
    planned = NoSwitch \/ planned.from = subscription.terms
    \/ \E c \in Charges : charges[c].to # NoTerms /\ charges[c].reversed

SwitchInv == SubscriptionShapes /\ ChargesStand /\ OnePending /\ ScheduleStands


\* The invariant, put together.
LEMMA SwitchFrom ==
  ASSUME SubscriptionShapes', ChargesStand', OnePending', ScheduleStands'
  PROVE  SwitchInv'
  BY DEF SwitchInv

\* What the rows hold.
LEMMA ChargeTyped ==
  ASSUME SwitchInv, NEW c \in Charges
  PROVE  /\ charges[c] \in ChargeRows
         /\ ChargeStands(charges[c], subscription.terms, planned)
         /\ charges[c].to \in Offered \cup {NoTerms} /\ charges[c].before \subseteq SubscriptionRows
         /\ charges[c].start \in Nat /\ charges[c].end \in Nat
  BY DEF SwitchInv, SubscriptionShapes, ChargesStand, ChargeRows

\* The terms of a plan and a cycle, which are not the absence of a plan.
LEMMA OfferedTerms ==
  /\ Offered \subseteq TermRows /\ NoTerms \notin TermRows
  /\ \A t \in TermRows : t.plan \in Plans /\ t.cycle \in Cycles
  /\ \A cycle \in Cycles : Length(cycle) \in Nat \ {0}
<1>1. \A t \in Offered : t.plan \in Plans /\ t.cycle \in Cycles /\ t.plan \in Nat \ {0}
                         /\ t = [plan |-> t.plan, cycle |-> t.cycle]
  BY SubscriptionsAssumption DEF Plans, Cycles
<1>2. Offered \subseteq TermRows
  BY <1>1 DEF TermRows
<1>3. NoPlan \notin Plans
  BY <1>1 DEF Plans, NoPlan
<1>4. QED
  BY <1>2, <1>3, SubscriptionsAssumption DEF TermRows, NoTerms, Cycles, Length

\* The next period starts at a month.
LEMMA NextStartTyped ==
  ASSUME SwitchInv
  PROVE  NextStart \in Nat /\ \A start \in Nat : TermsFrom(start).cycle \in Cycles
<1> DEFINE ends == {charges[c].end : c \in In("paid")}
<1>1. In("paid") \subseteq Charges
  BY DEF In
<1>2. IsFiniteSet(In("paid"))
  BY <1>1, SubscriptionsAssumption, FS_Subset
<1>3. IsFiniteSet(ends)
  <2> DEFINE endOf == [c \in In("paid") |-> charges[c].end]
  <2>1. endOf \in Surjection(In("paid"), ends)
    BY DEF Surjection
  <2>2. QED
    BY <1>2, <2>1, FS_Surjection
<1>4. ends \subseteq Nat
  BY <1>1, ChargeTyped
<1>5. IsFiniteSet({0} \union ends) /\ {0} \union ends \in SUBSET Nat
  BY <1>3, <1>4, FS_AddElement
<1>6. PaidEnd \in Nat
  <2>1. \E m \in {0} \union ends : \A x \in {0} \union ends : x <= m
    BY <1>5, HasGreatest
  <2>2. \E m \in {0} \union ends : \A x \in {0} \union ends : m >= x
    BY <1>5, <2>1
  <2>3. PaidEnd \in {0} \union ends
    BY <2>2 DEF PaidEnd, Max
  <2>4. QED
    BY <1>5, <2>3
<1>7. month \in Nat
  BY DEF SwitchInv, SubscriptionShapes
<1>8. NextStart \in Nat
  <2>1. \E m \in {PaidEnd, month} : \A x \in {PaidEnd, month} : m >= x
    BY <1>6, <1>7
  <2>2. NextStart \in {PaidEnd, month}
    BY <2>1 DEF NextStart, Max
  <2>3. QED
    BY <1>6, <1>7, <2>2
<1>9. subscription.terms \in TermRows /\ planned.to \in Offered \cup {NoTerms}
  BY DEF SwitchInv, SubscriptionShapes, SubscriptionRows, SwitchRows, NoSwitch
<1>10. \A start \in Nat : TermsFrom(start).cycle \in Cycles
  BY <1>9, OfferedTerms DEF TermsFrom, NoTerms, Cycles
<1>11. QED
  BY <1>8, <1>10

\* Beside a plan that waits no switch's charge does.
LEMMA WaitingIsPending ==
  ASSUME SwitchInv, NEW c \in Charges
  PROVE  /\ c \in WaitingSwitches => c \in In("pending") /\ IsMove(c) /\ ~Waits
                                     /\ charges[c].from = subscription.terms
         /\ c \in In("pending") /\ IsMove(c) /\ ~charges[c].reversed => c \in WaitingSwitches
  BY ChargeTyped DEF WaitingSwitches, In, IsMove, Waits, ChargeStands

-----------------------------------------------------------------------------

\* A row that is void, or whose switch does not wait, stands whatever becomes of
\* the store and of what is scheduled.
LEMMA VoidStands ==
  ASSUME NEW r \in ChargeRows, NEW t, NEW p, ChargeStands(r, t, p), r.status # "none"
  PROVE  /\ Void(r) \in ChargeRows
         /\ \A t2, p2 : ChargeStands(Void(r), t2, p2)
         /\ Void(r).status = "void" /\ Void(r).reversed = r.reversed /\ Void(r).to = r.to
<1> DEFINE s == IF r.switch = "pending" THEN "closed" ELSE r.switch
<1>1. s \in {"none", "applied", "closed"}
  BY DEF ChargeRows
<1>2. Void(r) = [r EXCEPT !.status = "void", !.switch = s]
  BY DEF Void
<1> HIDE DEF s
<1>3. /\ Void(r) \in ChargeRows /\ Void(r).status = "void" /\ Void(r).switch = s
      /\ Void(r).reversed = r.reversed /\ Void(r).to = r.to
      /\ Void(r).start = r.start /\ Void(r).end = r.end
  BY <1>1, <1>2 DEF ChargeRows
<1>4. QED
  BY <1>1, <1>3 DEF ChargeStands

LEMMA SettledStands ==
  ASSUME NEW r, NEW t, NEW p, ChargeStands(r, t, p), r.switch # "pending"
  PROVE  \A t2, p2 : ChargeStands(r, t2, p2)
  BY DEF ChargeStands

\* With some charges made void, every switch that waited among them.
LEMMA WithVoidStands ==
  ASSUME SwitchInv, NEW cs \in SUBSET In("pending")
  PROVE  /\ WithVoid(cs) \in [Charges -> ChargeRows]
         /\ WaitingSwitches \subseteq cs =>
              \A c \in Charges : \A t, p : ChargeStands(WithVoid(cs)[c], t, p)
         /\ \A c \in Charges : ChargeStands(WithVoid(cs)[c], subscription.terms, planned)
         /\ \A c \in Charges : WithVoid(cs)[c].status = "pending" <=> c \in In("pending") \ cs
         /\ \A c \in Charges : /\ WithVoid(cs)[c].to = charges[c].to
                               /\ WithVoid(cs)[c].reversed = charges[c].reversed
         /\ \A c \in Charges : WithVoid(cs)[c].status = "none" <=> charges[c].status = "none"
<1>1. \A c \in Charges : WithVoid(cs)[c] = IF c \in cs THEN Void(charges[c]) ELSE charges[c]
  BY DEF WithVoid
<1>2. \A c \in cs : c \in Charges /\ charges[c].status = "pending"
  BY DEF In
<1>3. \A c \in cs : /\ Void(charges[c]) \in ChargeRows
                    /\ \A t, p : ChargeStands(Void(charges[c]), t, p)
                    /\ Void(charges[c]).status = "void"
                    /\ Void(charges[c]).reversed = charges[c].reversed
                    /\ Void(charges[c]).to = charges[c].to
  BY <1>2, ChargeTyped, VoidStands
<1>4. \A c \in Charges : charges[c] \in ChargeRows /\ ChargeStands(charges[c], subscription.terms, planned)
  BY ChargeTyped
<1>5. WithVoid(cs) \in [Charges -> ChargeRows]
  <2>1. \A c \in Charges : (IF c \in cs THEN Void(charges[c]) ELSE charges[c]) \in ChargeRows
    BY <1>3, <1>4
  <2>2. QED
    BY <2>1 DEF WithVoid
<1>6. ASSUME WaitingSwitches \subseteq cs, NEW c \in Charges, NEW t, NEW p
      PROVE  ChargeStands(WithVoid(cs)[c], t, p)
  <2>1. CASE c \in cs
    BY <1>1, <1>3, <2>1
  <2>2. CASE c \notin cs
    <3>1. charges[c].switch # "pending"
      BY <1>6, <2>2 DEF WaitingSwitches
    <3>2. QED
      BY <1>1, <1>4, <2>2, <3>1, SettledStands
  <2>3. QED
    BY <2>1, <2>2
<1>7. \A c \in Charges : ChargeStands(WithVoid(cs)[c], subscription.terms, planned)
  BY <1>1, <1>3, <1>4
<1>8. \A c \in Charges : WithVoid(cs)[c].status = "pending" <=> c \in In("pending") \ cs
  BY <1>1, <1>2, <1>3 DEF In
<1>9. \A c \in Charges : /\ WithVoid(cs)[c].to = charges[c].to
                         /\ WithVoid(cs)[c].reversed = charges[c].reversed
  BY <1>1, <1>3
<1>10. \A c \in Charges : WithVoid(cs)[c].status = "none" <=> charges[c].status = "none"
  BY <1>1, <1>2, <1>3
<1>11. QED
  BY <1>5, <1>6, <1>7, <1>8, <1>9, <1>10

\* Charges are made void and the rest of the step drops the switch that waits, or
\* leaves the terms and the schedule as they are.
LEMMA VoidingKeeps ==
  ASSUME SwitchInv, NEW cs \in SUBSET In("pending"), charges' = WithVoid(cs),
         subscription' \in SubscriptionRows, planned' \in SwitchRows, UNCHANGED month,
         proofs' \subseteq proofs,
         \/ WaitingSwitches \subseteq cs
         \/ subscription'.terms = subscription.terms /\ planned' = planned,
         \/ planned' = NoSwitch \/ planned'.from = subscription'.terms
         \/ subscription'.terms = subscription.terms /\ planned' = planned
  PROVE  SwitchInv'
<1>1. SubscriptionShapes'
  <2>1. \A c \in Charges : charges'[c].status = "none" <=> charges[c].status = "none"
    BY WithVoidStands
  <2>2. charges' \in [Charges -> ChargeRows]
    BY WithVoidStands
  <2>3. QED
    BY <2>1, <2>2 DEF SwitchInv, SubscriptionShapes
<1>2. ChargesStand'
  BY WithVoidStands DEF ChargesStand
<1>3. OnePending'
  <2>1. \A c \in Charges : charges'[c].status = "pending" => charges[c].status = "pending"
    BY WithVoidStands DEF In
  <2>2. QED
    BY <2>1 DEF SwitchInv, OnePending
<1>4. ScheduleStands'
  <2>1. \A c \in Charges : charges'[c].to = charges[c].to /\ charges'[c].reversed = charges[c].reversed
    BY WithVoidStands
  <2>2. QED
    BY <2>1 DEF SwitchInv, ScheduleStands
<1>5. QED
  BY <1>1, <1>2, <1>3, <1>4, SwitchFrom

\* No charge changes, nor the terms, nor what is scheduled.
LEMMA StoreOnly ==
  ASSUME SwitchInv, UNCHANGED <<charges, planned>>, subscription' \in SubscriptionRows,
         subscription'.terms = subscription.terms, month' \in Nat,
         \A c \in proofs' : c \in proofs \/ (c \in Charges /\ charges[c].status # "none")
  PROVE  SwitchInv'
<1>1. SubscriptionShapes' /\ ChargesStand'
  BY DEF SwitchInv, SubscriptionShapes, ChargesStand
<1>2. OnePending' /\ ScheduleStands'
  BY DEF SwitchInv, OnePending, ScheduleStands
<1>3. QED
  BY <1>1, <1>2, SwitchFrom

\* One charge is written; the terms and the schedule stay.
LEMMA OneCharge ==
  ASSUME SwitchInv, NEW c \in Charges, NEW r \in ChargeRows, charges' = [charges EXCEPT ![c] = r],
         subscription' \in SubscriptionRows, subscription'.terms = subscription.terms,
         UNCHANGED <<month, planned>>, proofs' \subseteq proofs,
         ChargeStands(r, subscription.terms, planned), r.status # "none",
         r.status = "pending" => \A b \in Charges \ {c} : charges[b].status # "pending",
         r.to = charges[c].to, charges[c].reversed => r.reversed
  PROVE  SwitchInv'
<1>1. \A b \in Charges : charges'[b] = IF b = c THEN r ELSE charges[b]
  BY DEF SwitchInv, SubscriptionShapes
<1>2. SubscriptionShapes'
  BY <1>1 DEF SwitchInv, SubscriptionShapes
<1>3. ChargesStand'
  BY <1>1 DEF SwitchInv, ChargesStand
<1>4. OnePending'
  BY <1>1 DEF SwitchInv, OnePending
<1>5. ScheduleStands'
  BY <1>1 DEF SwitchInv, ScheduleStands
<1>6. QED
  BY <1>2, <1>3, <1>4, <1>5, SwitchFrom

-----------------------------------------------------------------------------

\* The rows of the subscription and of a schedule.
LEMMA StoreTyped ==
  ASSUME SwitchInv
  PROVE  /\ month \in Nat /\ subscription \in SubscriptionRows /\ planned \in SwitchRows
         /\ NoSwitch \in SwitchRows
         /\ subscription.terms \in TermRows /\ subscription.end \in Nat /\ subscription.start \in Nat
  BY DEF SwitchInv, SubscriptionShapes, SubscriptionRows, SwitchRows, NoSwitch

\* The status of the subscription is written, and nothing else of it.
LEMMA StatusWritten ==
  ASSUME SwitchInv, NEW s \in {"active", "past_due", "cancelled"},
         subscription' = [subscription EXCEPT !.status = s]
  PROVE  subscription' \in SubscriptionRows /\ subscription'.terms = subscription.terms
  BY StoreTyped DEF SubscriptionRows

\* A charge without a switch, for the next period.
LEMMA CreateChargeKeeps ==
  ASSUME SwitchInv, NEW c \in Charges, CreateCharge(c)
  PROVE  SwitchInv'
<1> DEFINE start == NextStart
           end == NextStart + Length(TermsFrom(NextStart).cycle)
<1>1. start \in Nat /\ end \in Nat /\ start < end
  BY NextStartTyped, OfferedTerms
<1> DEFINE r == [charges[c] EXCEPT !.status = "pending", !.start = start, !.end = end]
<1>2. charges[c] \in ChargeRows /\ charges[c].to = NoTerms /\ charges[c].switch = "none"
  BY ChargeTyped DEF CreateCharge, Unused, ChargeStands
<1>3. charges' = [charges EXCEPT ![c] = r]
  BY DEF CreateCharge, SwitchInv, SubscriptionShapes
<1> HIDE DEF start, end
<1>4. /\ r \in ChargeRows /\ r.status = "pending" /\ r.start = start /\ r.end = end
      /\ r.to = NoTerms /\ r.switch = "none" /\ r.reversed = charges[c].reversed
  BY <1>1, <1>2 DEF ChargeRows
<1> HIDE DEF r
<1>5. ChargeStands(r, subscription.terms, planned)
  BY <1>1, <1>4 DEF ChargeStands
<1>6. \A b \in Charges : charges[b].status # "pending"
  BY DEF CreateCharge, In
<1>7. UNCHANGED <<month, subscription, planned, proofs>> /\ subscription \in SubscriptionRows
  BY StoreTyped DEF CreateCharge
<1>8. QED
  BY <1>2, <1>3, <1>4, <1>5, <1>6, <1>7, OneCharge

\* A charge cancelled, or a switch's given up.
LEMMA VoidingSteps ==
  ASSUME SwitchInv, NEW c \in Charges, VoidCharge(c) \/ CancelMove(c) \/ CreditSwitch(c),
         proofs' \subseteq proofs
  PROVE  SwitchInv'
<1>1. c \in In("pending")
  BY DEF VoidCharge, CancelMove, CreditSwitch
<1>2. {c} \in SUBSET In("pending") /\ charges' = WithVoid({c})
  BY <1>1 DEF VoidCharge, CancelMove, CreditSwitch
<1>3. UNCHANGED <<month, subscription, planned>>
  BY DEF VoidCharge, CancelMove, CreditSwitch
<1>4. QED
  BY <1>2, <1>3, StoreTyped, VoidingKeeps

\* A renewal that fails, or is paid: the terms stay.
LEMMA RenewalKeeps ==
  ASSUME SwitchInv, NEW c \in Charges, proofs' \subseteq proofs,
         \/ MarkChargeFailed(c)
         \/ \E by \in {"gateway", "hand"} : PayRenewal(c, by)
  PROVE  SwitchInv'
<1>1. /\ charges[c] \in ChargeRows /\ ChargeStands(charges[c], subscription.terms, planned)
      /\ charges[c].to = NoTerms /\ charges[c].status \in {"pending", "failed"}
  BY ChargeTyped DEF MarkChargeFailed, PayRenewal, IsMove, In
<1>2. charges[c].switch # "pending" /\ charges[c].start < charges[c].end
  BY <1>1 DEF ChargeStands
<1>3. subscription' \in SubscriptionRows /\ subscription'.terms = subscription.terms
  BY <1>1, StoreTyped DEF MarkChargeFailed, PayRenewal, SubscriptionRows, ChargeRows
<1>4. UNCHANGED <<month, planned>>
  BY DEF MarkChargeFailed, PayRenewal
<1>5. CASE MarkChargeFailed(c)
  <2> DEFINE r == [charges[c] EXCEPT !.status = "failed"]
  <2>1. charges' = [charges EXCEPT ![c] = r]
    BY <1>5 DEF MarkChargeFailed, SwitchInv, SubscriptionShapes
  <2>2. /\ r \in ChargeRows /\ r.status = "failed" /\ r.to = NoTerms /\ r.switch = charges[c].switch
        /\ r.start = charges[c].start /\ r.end = charges[c].end /\ r.reversed = charges[c].reversed
    BY <1>1 DEF ChargeRows
  <2> HIDE DEF r
  <2>3. ChargeStands(r, subscription.terms, planned)
    BY <1>2, <2>2 DEF ChargeStands
  <2>4. QED
    BY <1>1, <1>3, <1>4, <2>1, <2>2, <2>3, OneCharge
<1>6. ASSUME NEW by \in {"gateway", "hand"}, PayRenewal(c, by) PROVE SwitchInv'
  <2> DEFINE r == Paid(charges[c], by)
  <2>1. charges' = [charges EXCEPT ![c] = r]
    BY <1>6 DEF PayRenewal, SwitchInv, SubscriptionShapes
  <2>2. /\ r \in ChargeRows /\ r.status = "paid" /\ r.to = NoTerms /\ r.switch = charges[c].switch
        /\ r.start = charges[c].start /\ r.end = charges[c].end /\ r.reversed = charges[c].reversed
    <3> DEFINE was == IF by = "hand" THEN {subscription} ELSE {}
    <3>1. was \in SUBSET SubscriptionRows
      BY StoreTyped
    <3>2. r = [charges[c] EXCEPT !.status = "paid", !.by = by, !.before = was]
      BY DEF Paid
    <3> HIDE DEF was, r
    <3>3. QED
      BY <1>1, <3>1, <3>2 DEF ChargeRows
  <2> HIDE DEF r
  <2>3. ChargeStands(r, subscription.terms, planned)
    BY <1>2, <2>2 DEF ChargeStands
  <2>4. QED
    BY <1>1, <1>3, <1>4, <2>1, <2>2, <2>3, OneCharge
<1>7. QED
  BY <1>5, <1>6

\* A switch's charge is paid: the terms become its own, and no other switch waits
\* for the old ones.
LEMMA PaySwitchKeeps ==
  ASSUME SwitchInv, NEW c \in Charges, NEW by \in {"gateway", "hand"}, PaySwitch(c, by),
         proofs' \subseteq proofs
  PROVE  SwitchInv'
<1> DEFINE end == month + Length(charges[c].to.cycle)
           p == Paid(charges[c], by)
           r == [p EXCEPT !.start = month, !.end = end, !.switch = "applied"]
<1>1. /\ charges[c] \in ChargeRows /\ charges[c].to \in Offered
      /\ charges[c].status \in {"pending", "void"}
      /\ ChargeStands(charges[c], subscription.terms, planned)
  BY ChargeTyped DEF PaySwitch, SettlesMove, IsMove
<1>2. month \in Nat /\ end \in Nat /\ month < end /\ charges[c].to \in TermRows
  BY <1>1, StoreTyped, OfferedTerms
<1>3. subscription.terms = charges[c].from
  BY DEF PaySwitch, SettlesMove, SwitchFits, LateFits
<1>4. /\ p \in ChargeRows /\ p.status = "paid" /\ p.to = charges[c].to
      /\ p.from = charges[c].from /\ p.reversed = charges[c].reversed
      /\ \A sub \in p.before : sub = subscription
  <2> DEFINE was == IF by = "hand" THEN {subscription} ELSE {}
  <2>1. was \in SUBSET SubscriptionRows /\ \A sub \in was : sub = subscription
    BY StoreTyped
  <2>2. p = [charges[c] EXCEPT !.status = "paid", !.by = by, !.before = was]
    BY DEF Paid
  <2> HIDE DEF was, p
  <2>3. QED
    BY <1>1, <2>1, <2>2 DEF ChargeRows
<1> HIDE DEF p, end
<1>5. /\ r \in ChargeRows /\ r.status = "paid" /\ r.to = charges[c].to /\ r.switch = "applied"
      /\ r.from = charges[c].from /\ r.reversed = charges[c].reversed
      /\ r.before = p.before /\ r.start = month /\ r.end = end
  BY <1>2, <1>4 DEF ChargeRows
<1>6. charges' = [charges EXCEPT ![c] = r] /\ planned' = planned /\ month' = month
  BY DEF PaySwitch, p, end
<1>7. /\ subscription' = [terms |-> charges[c].to, status |-> "active", start |-> month, end |-> end]
  BY DEF PaySwitch, end
<1> HIDE DEF r
<1>8. \A b \in Charges : charges'[b] = IF b = c THEN r ELSE charges[b]
  BY <1>6 DEF SwitchInv, SubscriptionShapes
<1>9. subscription' \in SubscriptionRows /\ subscription'.terms = charges[c].to
  BY <1>2, <1>7 DEF SubscriptionRows
<1>10. \A b \in Charges \ {c} : charges[b].switch # "pending"
  <2>1. SUFFICES ASSUME NEW b \in Charges \ {c}, charges[b].switch = "pending" PROVE FALSE
    OBVIOUS
  <2>2. b \in WaitingSwitches /\ b \in In("pending") /\ ~Waits
    BY <2>1, WaitingIsPending DEF WaitingSwitches
  <2>3. charges[c].status # "pending"
    BY <2>1, <2>2 DEF In, SwitchInv, OnePending
  <2>4. LateFits(c)
    BY <2>3 DEF PaySwitch, SettlesMove
  <2>5. QED
    BY <2>1, <2>2, <2>4 DEF LateFits
<1>11. ChargeStands(r, charges[c].to, planned)
  BY <1>2, <1>3, <1>4, <1>5 DEF ChargeStands
<1>12. ChargesStand'
  <2>1. \A b \in Charges \ {c} : ChargeStands(charges[b], charges[c].to, planned)
    BY <1>10, ChargeTyped, SettledStands
  <2>2. QED
    BY <1>6, <1>8, <1>9, <1>11, <2>1 DEF ChargesStand
<1>13. OnePending'
  BY <1>5, <1>8 DEF SwitchInv, OnePending
<1>14. ScheduleStands'
  <2>1. CASE charges[c].status = "void"
    BY <1>6, <2>1 DEF PaySwitch, SettlesMove, LateFits, Waits, ScheduleStands
  <2>2. CASE charges[c].status = "pending"
    <3>1. charges[c].to # NoTerms
      BY DEF PaySwitch, IsMove
    <3>2. CASE charges[c].switch = "pending"
      BY <1>1, <1>6, <3>2 DEF ChargeStands, ScheduleStands
    <3>3. CASE charges[c].switch # "pending"
      <4>1. charges[c].reversed
        BY <1>1, <2>2, <3>1, <3>3 DEF ChargeStands
      <4>2. QED
        BY <1>5, <1>8, <3>1, <4>1 DEF ScheduleStands
    <3>4. QED
      BY <3>2, <3>3
  <2>3. QED
    BY <1>1, <2>1, <2>2
<1>15. SubscriptionShapes'
  BY <1>1, <1>2, <1>5, <1>6, <1>8, <1>9 DEF SwitchInv, SubscriptionShapes
<1>16. QED
  BY <1>12, <1>13, <1>14, <1>15, SwitchFrom

\* Paying a charge, whoever says it is paid.
LEMMA SettlingKeeps ==
  ASSUME SwitchInv, NEW c \in Charges, NEW by \in {"gateway", "hand"}, SettlePaid(c, by),
         proofs' \subseteq proofs
  PROVE  SwitchInv'
<1>1. CASE CreditLate(c)
  BY <1>1, StoreOnly, StoreTyped DEF CreditLate
<1>2. QED
  BY <1>1, RenewalKeeps, PaySwitchKeeps, VoidingSteps DEF SettlePaid

\* A payment recorded by hand is taken back: its switch waits again only when the
\* store goes back to the terms it was priced from.
LEMMA ReversalKeeps ==
  ASSUME SwitchInv, NEW c \in Charges, ReversePayment(c)
  PROVE  SwitchInv'
<1> DEFINE s == IF UndoesMove(c) THEN "pending" ELSE charges[c].switch
           r == [charges[c] EXCEPT !.status = "pending", !.by = "none", !.before = {},
                                   !.reversed = TRUE, !.switch = s]
<1>1. /\ charges[c] \in ChargeRows /\ charges[c].status = "paid"
      /\ ChargeStands(charges[c], subscription.terms, planned)
      /\ \A b \in Charges : charges[b].status # "pending"
  BY ChargeTyped DEF ReversePayment, In
<1>2. s \in {"none", "pending", "applied", "closed"}
  BY <1>1 DEF ChargeRows
<1>3. charges' = [charges EXCEPT ![c] = r]
  BY DEF ReversePayment
<1> HIDE DEF s
<1>4. /\ r \in ChargeRows /\ r.status = "pending" /\ r.to = charges[c].to /\ r.from = charges[c].from
      /\ r.switch = s /\ r.reversed = TRUE /\ r.start = charges[c].start /\ r.end = charges[c].end
  BY <1>1, <1>2 DEF ChargeRows
<1> HIDE DEF r
<1>5. \A b \in Charges : charges'[b] = IF b = c THEN r ELSE charges[b]
  BY <1>3 DEF SwitchInv, SubscriptionShapes
<1>6. \A b \in Charges : charges[b].switch # "pending"
  BY <1>1, ChargeTyped DEF ChargeStands
<1>7. month' = month /\ proofs' = proofs
  BY DEF ReversePayment
<1>8. OnePending'
  BY <1>1, <1>5 DEF OnePending
<1>9. CASE UndoesMove(c)
  <2>1. subscription' \in charges[c].before /\ planned' = NoSwitch
    BY <1>9 DEF ReversePayment
  <2>2. r.to # NoTerms
    BY <1>4, <1>9 DEF UndoesMove, IsMove
  <2>3. subscription' \in SubscriptionRows /\ subscription'.terms = r.from
    BY <1>1, <1>4, <2>1, <2>2 DEF ChargeStands, ChargeRows
  <2>4. ChargeStands(r, subscription'.terms, planned')
    BY <1>1, <1>4, <2>1, <2>2, <2>3 DEF ChargeStands
  <2>5. ChargesStand'
    <3>1. \A b \in Charges : ChargeStands(charges[b], subscription'.terms, planned')
      BY <1>6, ChargeTyped, SettledStands
    <3>2. QED
      BY <1>5, <2>4, <3>1 DEF ChargesStand
  <2>6. ScheduleStands'
    BY <2>1 DEF ScheduleStands
  <2>7. SubscriptionShapes'
    <3>1. charges' \in [Charges -> ChargeRows]
      BY <1>3, <1>4 DEF SwitchInv, SubscriptionShapes
    <3>2. \A b \in Charges : charges[b].status # "none" => charges'[b].status # "none"
      BY <1>4, <1>5
    <3>3. QED
      BY <1>7, <2>1, <2>3, <3>1, <3>2, StoreTyped DEF SwitchInv, SubscriptionShapes
  <2>8. QED
    BY <1>8, <2>5, <2>6, <2>7, SwitchFrom
<1>10. CASE ~UndoesMove(c)
  <2>1. subscription' \in SubscriptionRows /\ subscription'.terms = subscription.terms
    BY <1>10, StoreTyped DEF ReversePayment, SubscriptionRows
  <2>2. planned' = planned
    BY <1>10 DEF ReversePayment
  <2>3. r.switch # "pending"
    BY <1>4, <1>6, <1>10 DEF s
  <2>4. ChargeStands(r, subscription.terms, planned)
    BY <1>1, <1>4, <2>3 DEF ChargeStands
  <2>5. QED
    BY <1>1, <1>3, <1>4, <1>7, <2>1, <2>2, <2>4, OneCharge
<1>11. QED
  BY <1>9, <1>10

\* A proof sent, or refused.
LEMMA ProofKeeps ==
  ASSUME SwitchInv, NEW c \in Charges, SendProof(c) \/ RejectProof(c)
  PROVE  SwitchInv'
  BY StoreOnly, StoreTyped DEF SendProof, RejectProof, In

\* Every step of a charge.
LEMMA ChargeSteps ==
  ASSUME SwitchInv, NEW c \in Charges,
         \/ CreateCharge(c) \/ VoidCharge(c) \/ MarkChargeFailed(c) \/ PayCharge(c)
         \/ SendProof(c) \/ ApproveProof(c) \/ RejectProof(c) \/ ReversePayment(c)
         \/ CancelMove(c)
  PROVE  SwitchInv'
<1>1. CASE VoidCharge(c) \/ CancelMove(c)
  BY <1>1, VoidingSteps DEF VoidCharge, CancelMove
<1>2. CASE MarkChargeFailed(c)
  BY <1>2, RenewalKeeps DEF MarkChargeFailed
<1>3. CASE PayCharge(c)
  BY <1>3, SettlingKeeps DEF PayCharge
<1>4. CASE ApproveProof(c)
  BY <1>4, SettlingKeeps DEF ApproveProof
<1>5. QED
  BY <1>1, <1>2, <1>3, <1>4, CreateChargeKeeps, ProofKeeps, ReversalKeeps

-----------------------------------------------------------------------------

\* What waits is pending, so an open charge given up takes it along.
LEMMA WaitingAmongPending ==
  ASSUME SwitchInv
  PROVE  WaitingSwitches \subseteq In("pending")
<1>1. WaitingSwitches \subseteq Charges
  BY DEF WaitingSwitches
<1>2. QED
  BY <1>1, WaitingIsPending

\* A switch the merchant asks for replaces what waits.
LEMMA AskUpgradeKeeps ==
  ASSUME SwitchInv, NEW to \in Offered, NEW c \in Charges, AskUpgrade(to, c)
  PROVE  SwitchInv'
<1> DEFINE end == month + Length(to.cycle)
           r == [NoCharge EXCEPT !.status = "pending", !.switch = "pending", !.to = to,
                                 !.from = subscription.terms, !.start = month, !.end = end]
           v == WithVoid(In("pending"))
<1>1. month \in Nat /\ end \in Nat /\ month < end /\ to \in TermRows /\ to # NoTerms
  BY StoreTyped, OfferedTerms
<1>2. subscription.terms \in TermRows
  BY StoreTyped
<1> HIDE DEF end
<1>3. /\ r \in ChargeRows /\ r.status = "pending" /\ r.switch = "pending" /\ r.to = to
      /\ r.from = subscription.terms /\ r.start = month /\ r.end = end
  BY <1>1, <1>2 DEF ChargeRows, NoCharge
<1>4. charges' = [v EXCEPT ![c] = r] /\ planned' = NoSwitch
      /\ UNCHANGED <<month, subscription, proofs>>
  BY DEF AskUpgrade, end
<1> HIDE DEF r
<1>5. /\ v \in [Charges -> ChargeRows]
      /\ \A b \in Charges : \A t, p : ChargeStands(v[b], t, p)
      /\ \A b \in Charges : v[b].status # "pending"
      /\ \A b \in Charges : v[b].status = "none" <=> charges[b].status = "none"
  <2>1. In("pending") \in SUBSET In("pending")
    OBVIOUS
  <2>2. \A b \in Charges : v[b].status = "pending" <=> b \in In("pending") \ In("pending")
    BY <2>1, WithVoidStands
  <2>3. QED
    BY <2>1, <2>2, WithVoidStands, WaitingAmongPending
<1> HIDE DEF v
<1>6. \A b \in Charges : charges'[b] = IF b = c THEN r ELSE v[b]
  BY <1>4, <1>5
<1>7. ChargeStands(r, subscription.terms, NoSwitch)
  BY <1>1, <1>3 DEF ChargeStands
<1>8. ChargesStand'
  BY <1>4, <1>5, <1>6, <1>7 DEF ChargesStand
<1>9. OnePending'
  BY <1>5, <1>6 DEF OnePending
<1>10. ScheduleStands'
  BY <1>4 DEF ScheduleStands
<1>11. SubscriptionShapes'
  <2>1. charges' \in [Charges -> ChargeRows]
    BY <1>3, <1>4, <1>5
  <2>2. \A b \in Charges : charges[b].status # "none" => charges'[b].status # "none"
    BY <1>3, <1>5, <1>6
  <2>3. QED
    BY <1>4, <2>1, <2>2, StoreTyped DEF SwitchInv, SubscriptionShapes
<1>12. QED
  BY <1>8, <1>9, <1>10, <1>11, SwitchFrom

LEMMA AskingSwitches ==
  ASSUME SwitchInv,
         \/ \E to \in Offered : Schedule(to) \/ SwitchNow(to)
         \/ CancelSwitch
  PROVE  SwitchInv'
<1>1. ASSUME NEW to \in Offered, Schedule(to) PROVE SwitchInv'
  <2>1. planned' = [to |-> to, from |-> subscription.terms, at |-> subscription.end]
    BY <1>1 DEF Schedule
  <2>2. planned' \in SwitchRows /\ planned'.from = subscription.terms
    BY <2>1, StoreTyped DEF SwitchRows
  <2>3. UNCHANGED <<month, subscription, proofs>> /\ charges' = WithVoid(In("pending"))
    BY <1>1 DEF Schedule
  <2>4. QED
    BY <2>2, <2>3, StoreTyped, WaitingAmongPending, VoidingKeeps
<1>2. ASSUME NEW to \in Offered, SwitchNow(to) PROVE SwitchInv'
  <2>1. subscription' \in SubscriptionRows
    BY <1>2, StoreTyped, OfferedTerms DEF SwitchNow, SubscriptionRows
  <2>2. UNCHANGED <<month, proofs>> /\ charges' = WithVoid(In("pending")) /\ planned' = NoSwitch
    BY <1>2 DEF SwitchNow
  <2>3. QED
    BY <2>1, <2>2, StoreTyped, WaitingAmongPending, VoidingKeeps
<1>3. CASE CancelSwitch
  <2> DEFINE cs == PricedByIt \union WaitingSwitches
  <2>1. cs \in SUBSET In("pending") /\ WaitingSwitches \subseteq cs
    BY WaitingAmongPending DEF PricedByIt
  <2>2. /\ UNCHANGED <<month, subscription, proofs>> /\ charges' = WithVoid(cs)
        /\ planned' = NoSwitch
    BY <1>3 DEF CancelSwitch
  <2> HIDE DEF cs
  <2>3. QED
    BY <2>1, <2>2, StoreTyped, VoidingKeeps
<1>4. QED
  BY <1>1, <1>2, <1>3

\* The console drops what waits before it changes the store.
LEMMA ConsoleKeeps ==
  ASSUME SwitchInv, DropOpen, subscription' \in SubscriptionRows, UNCHANGED <<month, proofs>>
  PROVE  SwitchInv'
  BY StoreTyped, WaitingAmongPending, VoidingKeeps DEF DropOpen

LEMMA ConsoleSteps ==
  ASSUME SwitchInv,
         \/ \E to \in Offered, end \in 0..LastMonth : Activate(to, end)
         \/ \E plan \in Plans : ChangePlan(plan)
         \/ \E cycle \in {"monthly", "yearly"} : SetBillingCycle(cycle)
         \/ EndNow
  PROVE  SwitchInv'
<1>1. LastMonth \in Nat
  BY SubscriptionsAssumption
<1>2. subscription.terms \in TermRows /\ subscription \in SubscriptionRows /\ month \in Nat
  BY StoreTyped
<1>3. subscription' \in SubscriptionRows
  <2>1. ASSUME NEW to \in Offered, NEW end \in 0..LastMonth, Activate(to, end)
        PROVE  subscription' \in SubscriptionRows
    BY <1>1, <1>2, <2>1, OfferedTerms DEF Activate, SubscriptionRows
  <2>2. ASSUME NEW plan \in Plans, ChangePlan(plan) PROVE subscription' \in SubscriptionRows
    <3>1. [subscription.terms EXCEPT !.plan = plan] \in TermRows
      BY <1>2 DEF TermRows
    <3>2. subscription' = [subscription EXCEPT !.terms = [subscription.terms EXCEPT !.plan = plan]]
      BY <1>2, <2>2 DEF ChangePlan, SubscriptionRows
    <3>3. QED
      BY <1>2, <3>1, <3>2 DEF SubscriptionRows
  <2>3. ASSUME NEW cycle \in {"monthly", "yearly"}, SetBillingCycle(cycle)
        PROVE  subscription' \in SubscriptionRows
    <3>1. [subscription.terms EXCEPT !.cycle = cycle] \in TermRows
      BY <1>2 DEF TermRows, Cycles
    <3>2. subscription' = [subscription EXCEPT !.terms = [subscription.terms EXCEPT !.cycle = cycle]]
      BY <1>2, <2>3 DEF SetBillingCycle, SubscriptionRows
    <3>3. QED
      BY <1>2, <3>1, <3>2 DEF SubscriptionRows
  <2>4. ASSUME EndNow PROVE subscription' \in SubscriptionRows
    BY <1>2, <2>4 DEF EndNow, SubscriptionRows
  <2>5. QED
    BY <2>1, <2>2, <2>3, <2>4
<1>4. DropOpen /\ UNCHANGED <<month, proofs>>
  BY DEF Activate, ChangePlan, SetBillingCycle, EndNow
<1>5. QED
  BY <1>3, <1>4, ConsoleKeeps

\* Time, the gateway's word on the status, an extension: the terms stay.
LEMMA OtherSteps ==
  ASSUME SwitchInv,
         \/ Extend \/ Lapse \/ MonthPasses
         \/ \E status \in {"active", "past_due", "cancelled"} : StatusEvent(status)
  PROVE  SwitchInv'
<1>1. /\ subscription.terms \in TermRows /\ subscription \in SubscriptionRows /\ month \in Nat
      /\ subscription.end \in Nat
  BY StoreTyped
<1>2. UNCHANGED <<charges, planned, proofs>> /\ month' \in Nat
  BY <1>1 DEF Extend, Lapse, MonthPasses, StatusEvent
<1>3. subscription' \in SubscriptionRows /\ subscription'.terms = subscription.terms
  <2>1. CASE Extend
    <3>1. Max({subscription.end, month}) \in Nat
      <4>1. \E m \in {subscription.end, month} : \A x \in {subscription.end, month} : m >= x
        BY <1>1
      <4>2. Max({subscription.end, month}) \in {subscription.end, month}
        BY <4>1 DEF Max
      <4>3. QED
        BY <1>1, <4>2
    <3> DEFINE e == Max({subscription.end, month}) + 1
               s == IF subscription.end < month THEN month ELSE subscription.start
    <3>2. e \in Nat /\ s \in Nat
      BY <1>1, <3>1, StoreTyped
    <3>3. subscription' = [subscription EXCEPT !.status = "active", !.start = s, !.end = e]
      BY <2>1 DEF Extend
    <3> HIDE DEF e, s
    <3>4. QED
      BY <1>1, <3>2, <3>3 DEF SubscriptionRows
  <2>2. CASE Lapse
    BY <2>2, StatusWritten DEF Lapse
  <2>3. CASE MonthPasses
    BY <1>1, <2>3 DEF MonthPasses
  <2>4. ASSUME NEW status \in {"active", "past_due", "cancelled"}, StatusEvent(status)
        PROVE  subscription' \in SubscriptionRows /\ subscription'.terms = subscription.terms
    BY <2>4, StatusWritten DEF StatusEvent
  <2>5. QED
    BY <2>1, <2>2, <2>3, <2>4
<1>4. QED
  BY <1>2, <1>3, StoreOnly

\* The scheduled switch takes effect, or is dropped.
LEMMA ApplyDueKeeps ==
  ASSUME SwitchInv, ApplyDue
  PROVE  SwitchInv'
<1>1. Waits /\ planned' = NoSwitch /\ UNCHANGED <<month, charges, proofs>>
  BY DEF ApplyDue
<1>2. \A c \in Charges : charges[c].switch # "pending"
  BY <1>1, WaitingIsPending DEF WaitingSwitches
<1>3. ChargesStand'
  BY <1>1, <1>2, ChargeTyped, SettledStands DEF ChargesStand
<1>4. subscription' \in SubscriptionRows
  <2>1. planned.to \in TermRows
    BY <1>1, StoreTyped, OfferedTerms DEF SwitchRows, Waits
  <2>2. subscription' = [subscription EXCEPT !.terms = IF PlannedFits THEN planned.to ELSE subscription.terms]
    BY StoreTyped DEF ApplyDue, SubscriptionRows
  <2>3. QED
    BY <2>1, <2>2, StoreTyped DEF SubscriptionRows
<1>5. SubscriptionShapes'
  BY <1>1, <1>4, StoreTyped DEF SwitchInv, SubscriptionShapes
<1>6. OnePending' /\ ScheduleStands'
  BY <1>1 DEF SwitchInv, OnePending, ScheduleStands
<1>7. QED
  BY <1>3, <1>5, <1>6, SwitchFrom

-----------------------------------------------------------------------------

LEMMA SwitchStep ==
  ASSUME SwitchInv, [SubscriptionNext]_subscriptionVars
  PROVE  SwitchInv'
<1>1. CASE UNCHANGED subscriptionVars
  BY <1>1 DEF subscriptionVars, SwitchInv, SubscriptionShapes, ChargesStand, OnePending, ScheduleStands
<1>2. ASSUME NEW to \in Offered, NEW c \in Charges, AskUpgrade(to, c) PROVE SwitchInv'
  BY <1>2, AskUpgradeKeeps
<1>3. QED
  BY <1>1, <1>2, ChargeSteps, AskingSwitches, ConsoleSteps, OtherSteps, ApplyDueKeeps
  DEF SubscriptionNext

LEMMA SwitchInvFits ==
  ASSUME SwitchInv
  PROVE  SwitchesFit
<1>1. Cardinality(In("pending")) <= 1
  <2>1. CASE In("pending") = {}
    BY <2>1, FS_EmptySet
  <2>2. ASSUME NEW c \in In("pending") PROVE In("pending") = {c}
    BY <2>2 DEF In, SwitchInv, OnePending
  <2>3. QED
    BY <2>1, <2>2, FS_Singleton
<1>2. WaitingSwitches \subseteq In("pending")
  BY WaitingAmongPending
<1>3. Cardinality(WaitingSwitches) <= 1
  <2>1. IsFiniteSet(In("pending"))
    BY SubscriptionsAssumption, FS_Subset DEF In
  <2>2. /\ Cardinality(WaitingSwitches) <= Cardinality(In("pending"))
        /\ Cardinality(WaitingSwitches) \in Nat /\ Cardinality(In("pending")) \in Nat
    BY <1>2, <2>1, FS_Subset, FS_CardinalityType
  <2>3. QED
    BY <1>1, <2>2
<1>4. \A c \in WaitingSwitches : c \in In("pending") /\ charges[c].from = subscription.terms
  BY WaitingIsPending DEF WaitingSwitches
<1>5. Waits => WaitingSwitches = {}
  BY WaitingIsPending DEF WaitingSwitches
<1>6. \A c \in In("paid") : IsMove(c) => charges[c].switch = "applied"
  BY ChargeTyped DEF In, IsMove, ChargeStands
<1>7. Waits => planned.from = subscription.terms \/ \E c \in Charges : IsMove(c) /\ charges[c].reversed
  BY DEF SwitchInv, ScheduleStands, Waits, IsMove
<1>8. QED
  BY <1>1, <1>3, <1>4, <1>5, <1>6, <1>7 DEF SwitchesFit

LEMMA SwitchStart ==
  ASSUME SubscriptionInit
  PROVE  SwitchInv
<1>1. \A c \in Charges : charges[c] = NoCharge
  BY DEF SubscriptionInit
<1>2. NoCharge \in ChargeRows
  BY DEF NoCharge, ChargeRows
<1>3. subscription \in SubscriptionRows
  BY OfferedTerms DEF SubscriptionInit, SubscriptionRows
<1>4. charges \in [Charges -> ChargeRows]
  BY <1>2 DEF SubscriptionInit
<1>5. SubscriptionShapes
  BY <1>3, <1>4 DEF SubscriptionInit, SubscriptionShapes, SwitchRows
<1>6. ChargesStand /\ OnePending /\ ScheduleStands
  BY <1>1 DEF SubscriptionInit, ChargesStand, OnePending, ScheduleStands, ChargeStands, NoCharge
<1>7. QED
  BY <1>5, <1>6 DEF SwitchInv

\* However charges are made, paid, voided and reversed, months pass and the console
\* steps in, one charge is pending and one switch waits, for the terms the store is
\* on (planSwitchService, subscriptionChargeService).
THEOREM SwitchesFitTheStore == SubscriptionSpec => []SwitchesFit
<1>1. SubscriptionInit => SwitchInv
  BY SwitchStart
<1>2. SwitchInv /\ [SubscriptionNext]_subscriptionVars => SwitchInv'
  BY SwitchStep
<1>3. SwitchInv => SwitchesFit
  BY SwitchInvFits
<1>4. QED
  BY <1>1, <1>2, <1>3, PTL DEF SubscriptionSpec

\* No payment, switch or lapse leaves the subscription, a charge or the scheduled
\* switch outside its columns' values; a switch is only ever of terms on offer.
THEOREM SubscriptionTyped == SubscriptionSpec => []SubscriptionTypes
<1>1. SubscriptionInit => SwitchInv
  BY SwitchStart
<1>2. SwitchInv /\ [SubscriptionNext]_subscriptionVars => SwitchInv'
  BY SwitchStep
<1>3. SwitchInv => SubscriptionTypes
  <2>1. ASSUME SwitchInv PROVE subscription.terms.plan \in Plans /\ subscription \in SubscriptionRows
    BY <2>1, StoreTyped, OfferedTerms
  <2>2. ASSUME SwitchInv, NEW c \in Charges
        PROVE  /\ charges[c].status \in {"none", "pending", "paid", "failed", "void"}
               /\ charges[c].switch \in {"none", "pending", "applied", "closed"}
               /\ charges[c].status # "none" => charges[c].start < charges[c].end
    BY <2>2, ChargeTyped DEF ChargeRows, ChargeStands
  <2>3. QED
    BY <2>1, <2>2 DEF SubscriptionTypes, SubscriptionRows, SwitchInv, SubscriptionShapes
<1>4. QED
  BY <1>1, <1>2, <1>3, PTL DEF SubscriptionSpec

-----------------------------------------------------------------------------
(***************************************************************************)
(* The merchant's wallet: the fee follows the order.                       *)
(***************************************************************************)

\* What a ledger holds: where entries of some types stand, how often it is charged
\* and not given back, its last charge, and what its rows come to.
EntriesIn(l, types) == {i \in DOMAIN l : l[i].type \in types}
ChargesIn(l)   == Cardinality(EntriesIn(l, Fees)) - Cardinality(EntriesIn(l, {"order_fee_reversal"}))
ChargeIn(l)    == l[Max(EntriesIn(l, Fees))]
ConfirmedIn(l) == EntriesIn(l, {"order_confirm_fee"}) # {}
CashIn(l)      == SumOver([i \in DOMAIN l |-> l[i].cash], DOMAIN l)
FreeIn(l)      == SumOver([i \in DOMAIN l |-> l[i].free], DOMAIN l)

\* What a fee charged again takes the balance below the limit by.
OwedIn(l) == IF ChargesIn(l) > 0 /\ ChargeIn(l).type = "order_fee_recharge" THEN ChargeIn(l).cash ELSE 0
RechargeOwed      == [o \in FeeOrders |-> OwedIn(ledger[o])]

\* A ledger comes to its one charge, or to nothing, unless its fee is the confirmation's.
LedgerStands(l) ==
    /\ l \in Seq(EntryTypes)
    /\ \A i \in EntriesIn(l, Fees) : l[i].cash <= 0 /\ l[i].free <= 0
    /\ ChargesIn(l) \in {0, 1}
    /\ ConfirmedIn(l) => ChargesIn(l) = 0 /\ FreeIn(l) <= 0
    /\ ChargesIn(l) = 1 => CashIn(l) = ChargeIn(l).cash /\ FreeIn(l) = ChargeIn(l).free
    /\ ChargesIn(l) = 0 /\ ~ConfirmedIn(l) => CashIn(l) = 0 /\ FreeIn(l) = 0

\* What an order's stage and the switch say of its ledger.
OrderPays(f, l, on) ==
    /\ f.stage = "none" => l = <<>> /\ f.contactLock = "none"
    /\ f.shipped => f.stage = "confirmed"
    /\ f.stage = "confirmed" \/ f.paid => f.contactLock # "none"
    /\ f.contactLock = "due" => on
    /\ ConfirmedIn(l) => on /\ f.contactLock = "unlocked"
    /\ ~on /\ f.stage # "none" => EntriesIn(l, Fees) # {}
    /\ f.stage \in Ended /\ ~(on /\ f.contactLock # "none") => ChargesIn(l) = 0
    /\ ~on /\ f.stage \in {"pending", "confirmed"} /\ ~f.reopened => ChargesIn(l) = 1

FeeRows ==
    [stage : {"none", "pending", "confirmed"} \cup Ended, online : BOOLEAN, paid : BOOLEAN,
     shipped : BOOLEAN, contactLock : {"none", "unlocked", "due"}, reopened : BOOLEAN]

WalletInv ==
    /\ feeOrder \in [FeeOrders -> FeeRows] /\ DOMAIN ledger = FeeOrders
    /\ ledger = [o \in FeeOrders |-> ledger[o]]
    /\ balance \in Int /\ planFee \in PlanFees /\ lockOn \in BOOLEAN /\ dueList \subseteq FeeOrders
    /\ \A o \in FeeOrders : LedgerStands(ledger[o]) /\ OrderPays(feeOrder[o], ledger[o], lockOn)
    /\ balance - SumOver(RechargeOwed, FeeOrders) >= -DebtLimit

\* The model's readings of an order's ledger, and its rows added up.
LEMMA CashAdds == \A l : MapThenSumSet(LAMBDA i : l[i].cash, DOMAIN l) = CashIn(l) \/ ~IsFiniteSet(DOMAIN l)
<1> SUFFICES ASSUME NEW l, IsFiniteSet(DOMAIN l)
             PROVE  MapThenSumSet(LAMBDA i : l[i].cash, DOMAIN l) = CashIn(l)
  OBVIOUS
<1> DEFINE T == DOMAIN l
           w == [i \in T |-> l[i].cash]
           Sums(h) == h = [s \in SUBSET T |-> IF s = {} THEN 0
                             ELSE l[PickOf(s)].cash + h[s \ {PickOf(s)}]]
           h == CHOOSE h : Sums(h)
<1>1. \A s \in SUBSET T : s # {} => PickOf(s) \in s
  BY DEF PickOf
<1>2. PICK g : Adds(g, w, T)
  BY AddsExists
<1>3. Sums(g)
  BY <1>1, <1>2 DEF Adds
<1>4. Sums(h)
  BY <1>3
<1>5. Adds(h, w, T)
  BY <1>1, <1>4 DEF Adds
<1>6. MapThenSumSet(LAMBDA i : l[i].cash, DOMAIN l) = h[T]
  BY DEF MapThenSumSet, MapThenFoldSet, PickOf
<1>7. QED
  BY <1>5, <1>6, SumAdds DEF CashIn

LEMMA FreeAdds == \A l : MapThenSumSet(LAMBDA i : l[i].free, DOMAIN l) = FreeIn(l) \/ ~IsFiniteSet(DOMAIN l)
<1> SUFFICES ASSUME NEW l, IsFiniteSet(DOMAIN l)
             PROVE  MapThenSumSet(LAMBDA i : l[i].free, DOMAIN l) = FreeIn(l)
  OBVIOUS
<1> DEFINE T == DOMAIN l
           w == [i \in T |-> l[i].free]
           Sums(h) == h = [s \in SUBSET T |-> IF s = {} THEN 0
                             ELSE l[PickOf(s)].free + h[s \ {PickOf(s)}]]
           h == CHOOSE h : Sums(h)
<1>1. \A s \in SUBSET T : s # {} => PickOf(s) \in s
  BY DEF PickOf
<1>2. PICK g : Adds(g, w, T)
  BY AddsExists
<1>3. Sums(g)
  BY <1>1, <1>2 DEF Adds
<1>4. Sums(h)
  BY <1>3
<1>5. Adds(h, w, T)
  BY <1>1, <1>4 DEF Adds
<1>6. MapThenSumSet(LAMBDA i : l[i].free, DOMAIN l) = h[T]
  BY DEF MapThenSumSet, MapThenFoldSet, PickOf
<1>7. QED
  BY <1>5, <1>6, SumAdds DEF FreeIn

LEMMA LedgerRead ==
  ASSUME NEW o \in FeeOrders, ledger[o] \in Seq(EntryTypes)
  PROVE  /\ Charged(o) <=> ChargesIn(ledger[o]) > 0
         /\ Outstanding(o) = ChargesIn(ledger[o])
         /\ HasConfirmFee(o) <=> ConfirmedIn(ledger[o])
         /\ LastCharge(o) = ChargeIn(ledger[o])
         /\ CashOf(o) = CashIn(ledger[o]) /\ FreeOf(o) = FreeIn(ledger[o])
         /\ EntriesOf(o, Fees) = EntriesIn(ledger[o], Fees)
<1>1. IsFiniteSet(DOMAIN ledger[o])
  BY FS_Interval
<1>2. CashOf(o) = CashIn(ledger[o]) /\ FreeOf(o) = FreeIn(ledger[o])
  BY <1>1, CashAdds, FreeAdds DEF CashOf, FreeOf
<1>3. \A types : EntriesOf(o, types) = EntriesIn(ledger[o], types)
  BY DEF EntriesOf, EntriesIn
<1>4. QED
  BY <1>2, <1>3
  DEF Charged, Outstanding, ChargesIn, HasConfirmFee, ConfirmedIn, LastCharge, ChargeIn

\* The place of a row, and its parts.
LEMMA RowParts ==
  ASSUME NEW l \in Seq(EntryTypes)
  PROVE  /\ Len(l) \in Nat /\ DOMAIN l = 1..Len(l) /\ IsFiniteSet(DOMAIN l)
         /\ \A i \in DOMAIN l : l[i] \in EntryTypes /\ l[i].cash \in Int /\ l[i].free \in Int
         /\ \A types : EntriesIn(l, types) \subseteq DOMAIN l /\ IsFiniteSet(EntriesIn(l, types))
                       /\ Cardinality(EntriesIn(l, types)) \in Nat
<1>1. Len(l) \in Nat /\ DOMAIN l = 1..Len(l) /\ IsFiniteSet(DOMAIN l)
  BY FS_Interval
<1>2. \A i \in DOMAIN l : l[i] \in EntryTypes /\ l[i].cash \in Int /\ l[i].free \in Int
  <2>1. \A e \in EntryTypes : e.cash \in Int /\ e.free \in Int
    BY DEF EntryTypes
  <2>2. QED
    BY <2>1
<1>3. \A types : EntriesIn(l, types) \subseteq DOMAIN l
  BY DEF EntriesIn
<1>4. \A types : IsFiniteSet(EntriesIn(l, types)) /\ Cardinality(EntriesIn(l, types)) \in Nat
  BY <1>1, <1>3, FS_Subset, FS_CardinalityType
<1>5. QED
  BY <1>1, <1>2, <1>3, <1>4

\* One more row.
LEMMA RowAdded ==
  ASSUME NEW l \in Seq(EntryTypes), NEW e \in EntryTypes
  PROVE  /\ Append(l, e) \in Seq(EntryTypes)
         /\ DOMAIN Append(l, e) = DOMAIN l \cup {Len(l) + 1} /\ Len(l) + 1 \notin DOMAIN l
         /\ Append(l, e)[Len(l) + 1] = e
         /\ \A i \in DOMAIN l : Append(l, e)[i] = l[i]
         /\ \A types : EntriesIn(Append(l, e), types) =
              IF e.type \in types THEN EntriesIn(l, types) \cup {Len(l) + 1} ELSE EntriesIn(l, types)
<1> DEFINE m == Append(l, e)
<1>1. m \in Seq(EntryTypes) /\ Len(m) = Len(l) + 1 /\ Len(l) \in Nat
  OBVIOUS
<1>2. DOMAIN m = 1..(Len(l) + 1) /\ DOMAIN l = 1..Len(l)
  BY <1>1
<1>3. m[Len(l) + 1] = e /\ \A i \in DOMAIN l : m[i] = l[i]
  BY <1>2
<1> HIDE DEF m
<1>4. DOMAIN m = DOMAIN l \cup {Len(l) + 1} /\ Len(l) + 1 \notin DOMAIN l
  BY <1>1, <1>2
<1>5. \A types : EntriesIn(m, types) =
              IF e.type \in types THEN EntriesIn(l, types) \cup {Len(l) + 1} ELSE EntriesIn(l, types)
  BY <1>3, <1>4 DEF EntriesIn
<1>6. QED
  BY <1>1, <1>3, <1>4, <1>5 DEF m

\* What the rows come to then.
LEMMA SumsGrow ==
  ASSUME NEW l \in Seq(EntryTypes), NEW e \in EntryTypes
  PROVE  /\ CashIn(Append(l, e)) = CashIn(l) + e.cash /\ CashIn(l) \in Int
         /\ FreeIn(Append(l, e)) = FreeIn(l) + e.free /\ FreeIn(l) \in Int
<1> DEFINE m == Append(l, e)
           n == Len(l) + 1
           D == DOMAIN l
           mc == [i \in DOMAIN m |-> m[i].cash]
           lc == [i \in D |-> l[i].cash]
           mf == [i \in DOMAIN m |-> m[i].free]
           lf == [i \in D |-> l[i].free]
<1>1. m \in Seq(EntryTypes) /\ DOMAIN m = D \cup {n} /\ n \notin D /\ m[n] = e /\ \A i \in D : m[i] = l[i]
  BY RowAdded
<1>2. IsFiniteSet(DOMAIN m) /\ IsFiniteSet(D)
  BY <1>1, RowParts
<1>3. /\ \A i \in DOMAIN m : mc[i] \in Int /\ mf[i] \in Int
      /\ \A i \in D : lc[i] \in Int /\ lf[i] \in Int
  BY <1>1, RowParts
<1>4. mc[n] = e.cash /\ mf[n] = e.free /\ n \in DOMAIN m /\ DOMAIN m \ {n} = D
  BY <1>1
<1>5. \A i \in D : mc[i] = lc[i] /\ mf[i] = lf[i]
  BY <1>1
<1>6. CashIn(m) = SumOver(mc, DOMAIN m) /\ FreeIn(m) = SumOver(mf, DOMAIN m)
      /\ CashIn(l) = SumOver(lc, D) /\ FreeIn(l) = SumOver(lf, D)
  BY DEF CashIn, FreeIn
<1> DEFINE M == DOMAIN m
<1> HIDE DEF M, mc, lc, mf, lf, m, n, D
<1>7. SumOver(mc, M) = SumOver(mc, D) + e.cash
  <2>1. IsFiniteSet(M) /\ (\A i \in M : mc[i] \in Int) /\ n \in M /\ M \ {n} = D
    BY <1>2, <1>3, <1>4 DEF M
  <2>2. SumOver(mc, M) = SumOver(mc, M \ {n}) + mc[n]
    BY <2>1, SumPlus
  <2>3. QED
    BY <1>4, <2>1, <2>2
<1>8. SumOver(mf, M) = SumOver(mf, D) + e.free
  <2>1. IsFiniteSet(M) /\ (\A i \in M : mf[i] \in Int) /\ n \in M /\ M \ {n} = D
    BY <1>2, <1>3, <1>4 DEF M
  <2>2. SumOver(mf, M) = SumOver(mf, M \ {n}) + mf[n]
    BY <2>1, SumPlus
  <2>3. QED
    BY <1>4, <2>1, <2>2
<1>9. SumOver(mc, D) = SumOver(lc, D) /\ SumOver(mf, D) = SumOver(lf, D)
  BY <1>2, <1>5, SumSame
<1>10. SumOver(lc, D) \in Int /\ SumOver(lf, D) \in Int
  BY <1>2, <1>3, SumInt
<1>11. QED
  BY <1>6, <1>7, <1>8, <1>9, <1>10 DEF m, M

\* How often it is charged, and by which entry.
LEMMA ChargesGrow ==
  ASSUME NEW l \in Seq(EntryTypes), NEW e \in EntryTypes
  PROVE  LET m == Append(l, e) IN
         /\ ChargesIn(l) \in Int
         /\ e.type \in Fees => ChargesIn(m) = ChargesIn(l) + 1 /\ ChargeIn(m) = e
                               /\ (ConfirmedIn(m) <=> ConfirmedIn(l))
         /\ e.type = "order_fee_reversal" =>
              ChargesIn(m) = ChargesIn(l) - 1 /\ EntriesIn(m, Fees) = EntriesIn(l, Fees)
              /\ (ConfirmedIn(m) <=> ConfirmedIn(l))
         /\ e.type = "order_confirm_fee" =>
              ChargesIn(m) = ChargesIn(l) /\ EntriesIn(m, Fees) = EntriesIn(l, Fees) /\ ConfirmedIn(m)
<1> DEFINE m == Append(l, e)
           n == Len(l) + 1
           back == {"order_fee_reversal"}
           fee == {"order_confirm_fee"}
<1>1. m \in Seq(EntryTypes) /\ DOMAIN m = DOMAIN l \cup {n} /\ n \notin DOMAIN l /\ m[n] = e
      /\ \A types : EntriesIn(m, types) =
              IF e.type \in types THEN EntriesIn(l, types) \cup {n} ELSE EntriesIn(l, types)
  BY RowAdded
<1>2. \A types : /\ EntriesIn(l, types) \subseteq DOMAIN l /\ IsFiniteSet(EntriesIn(l, types))
                 /\ Cardinality(EntriesIn(l, types)) \in Nat
  BY RowParts
<1>3. \A types : e.type \in types => Cardinality(EntriesIn(m, types)) = Cardinality(EntriesIn(l, types)) + 1
  BY <1>1, <1>2, FS_AddElement
<1>4. \A types : e.type \notin types => EntriesIn(m, types) = EntriesIn(l, types)
  BY <1>1
<1>5. ChargesIn(l) \in Int
  BY <1>2 DEF ChargesIn
<1>6. CASE e.type \in Fees
  <2>1. e.type \notin back /\ e.type \notin fee
    BY <1>6 DEF Fees
  <2>2. ChargesIn(m) = ChargesIn(l) + 1
    <3>1. Cardinality(EntriesIn(m, Fees)) = Cardinality(EntriesIn(l, Fees)) + 1
      BY <1>3, <1>6
    <3>2. EntriesIn(m, back) = EntriesIn(l, back)
      BY <1>4, <2>1
    <3>3. Cardinality(EntriesIn(l, Fees)) \in Nat /\ Cardinality(EntriesIn(l, back)) \in Nat
      BY <1>2
    <3>4. QED
      BY <3>1, <3>2, <3>3 DEF ChargesIn
  <2>3. ChargeIn(m) = e
    <3>1. n \in EntriesIn(m, Fees) /\ EntriesIn(m, Fees) \subseteq DOMAIN l \cup {n}
      BY <1>1, <1>2, <1>6
    <3>2. DOMAIN l = 1..Len(l) /\ Len(l) \in Nat
      BY RowParts
    <3>3. \A x \in EntriesIn(m, Fees) : x \in Int /\ n >= x
      BY <3>1, <3>2
    <3>4. \A k \in EntriesIn(m, Fees) : (\A x \in EntriesIn(m, Fees) : k >= x) => k = n
      BY <3>1, <3>3
    <3>5. Max(EntriesIn(m, Fees)) = n
      BY <3>1, <3>3, <3>4 DEF Max
    <3>6. QED
      BY <1>1, <3>5 DEF ChargeIn
  <2>4. EntriesIn(m, fee) = EntriesIn(l, fee)
    BY <1>4, <2>1
  <2>5. QED
    BY <1>5, <1>6, <2>2, <2>3, <2>4 DEF ConfirmedIn, Fees
<1>7. CASE e.type = "order_fee_reversal"
  <2>1. e.type \notin Fees /\ e.type \notin fee /\ e.type \in back
    BY <1>7 DEF Fees
  <2>2. EntriesIn(m, Fees) = EntriesIn(l, Fees) /\ EntriesIn(m, fee) = EntriesIn(l, fee)
    BY <1>4, <2>1
  <2>3. Cardinality(EntriesIn(m, back)) = Cardinality(EntriesIn(l, back)) + 1
    BY <1>3, <2>1
  <2>4. Cardinality(EntriesIn(l, Fees)) \in Nat /\ Cardinality(EntriesIn(l, back)) \in Nat
    BY <1>2
  <2>5. ChargesIn(m) = ChargesIn(l) - 1
    BY <2>2, <2>3, <2>4 DEF ChargesIn
  <2>6. QED
    BY <1>5, <1>7, <2>1, <2>2, <2>5 DEF ConfirmedIn
<1>8. CASE e.type = "order_confirm_fee"
  <2>1. e.type \notin Fees /\ e.type \in fee /\ e.type \notin back
    BY <1>8 DEF Fees
  <2>2. EntriesIn(m, Fees) = EntriesIn(l, Fees) /\ EntriesIn(m, back) = EntriesIn(l, back)
    BY <1>4, <2>1
  <2>3. n \in EntriesIn(m, fee)
    BY <1>1, <2>1
  <2>4. ChargesIn(m) = ChargesIn(l) /\ ConfirmedIn(m)
    BY <2>2, <2>3 DEF ChargesIn, ConfirmedIn
  <2>5. QED
    BY <1>5, <1>8, <2>1, <2>2, <2>4
<1>9. QED
  BY <1>5, <1>6, <1>7, <1>8

\* The entry that charged an order stays its charge while others are written.
LEMMA ChargeStays ==
  ASSUME NEW l \in Seq(EntryTypes), NEW e \in EntryTypes, e.type \notin Fees, EntriesIn(l, Fees) # {}
  PROVE  ChargeIn(Append(l, e)) = ChargeIn(l) /\ ChargeIn(l) \in EntryTypes
         /\ \E i \in EntriesIn(l, Fees) : ChargeIn(l) = l[i]
<1>1. EntriesIn(Append(l, e), Fees) = EntriesIn(l, Fees) /\ \A i \in DOMAIN l : Append(l, e)[i] = l[i]
  BY RowAdded
<1>2. EntriesIn(l, Fees) \in SUBSET Nat /\ IsFiniteSet(EntriesIn(l, Fees))
      /\ \A i \in DOMAIN l : l[i] \in EntryTypes
  BY RowParts
<1>3. PICK k \in EntriesIn(l, Fees) : \A x \in EntriesIn(l, Fees) : x <= k
  BY <1>2, HasGreatest
<1>4. \A x \in EntriesIn(l, Fees) : k >= x
  BY <1>2, <1>3
<1>5. Max(EntriesIn(l, Fees)) \in EntriesIn(l, Fees)
  BY <1>4 DEF Max
<1>6. EntriesIn(l, Fees) \subseteq DOMAIN l
  BY DEF EntriesIn
<1>7. QED
  BY <1>1, <1>2, <1>5, <1>6 DEF ChargeIn

\* A ledger that stands: its charge, where it has one, takes and gives nothing.
LEMMA ChargeTaken ==
  ASSUME NEW l, LedgerStands(l)
  PROVE  /\ l \in Seq(EntryTypes) /\ CashIn(l) \in Int /\ FreeIn(l) \in Int /\ ChargesIn(l) \in {0, 1}
         /\ ChargesIn(l) = 1 => EntriesIn(l, Fees) # {}
         /\ EntriesIn(l, Fees) # {} => /\ ChargeIn(l) \in EntryTypes /\ ChargeIn(l).type \in Fees
                                      /\ ChargeIn(l).cash \in Int /\ ChargeIn(l).cash <= 0
                                      /\ ChargeIn(l).free \in {-1, 0}
         /\ OwedIn(l) \in Int /\ OwedIn(l) <= 0
<1>1. l \in Seq(EntryTypes) /\ ChargesIn(l) \in {0, 1}
  BY DEF LedgerStands
<1>2. PICK e \in EntryTypes : e.type \notin Fees
  <2>1. [type |-> "order_confirm_fee", cash |-> 0, free |-> 0] \in EntryTypes
    BY DEF EntryTypes
  <2>2. QED
    BY <2>1 DEF Fees
<1>3. CashIn(l) \in Int /\ FreeIn(l) \in Int
  BY <1>1, <1>2, SumsGrow
<1>4. ChargesIn(l) = 1 => EntriesIn(l, Fees) # {}
  <2>1. Cardinality(EntriesIn(l, {"order_fee_reversal"})) \in Nat /\ Cardinality({}) = 0
    BY <1>1, RowParts, FS_EmptySet
  <2>2. QED
    BY <2>1 DEF ChargesIn
<1>5. ASSUME EntriesIn(l, Fees) # {}
      PROVE  /\ ChargeIn(l) \in EntryTypes /\ ChargeIn(l).type \in Fees
             /\ ChargeIn(l).cash \in Int /\ ChargeIn(l).cash <= 0
             /\ ChargeIn(l).free \in {-1, 0}
  <2>1. ChargeIn(l) \in EntryTypes /\ \E i \in EntriesIn(l, Fees) : ChargeIn(l) = l[i]
    BY <1>1, <1>2, <1>5, ChargeStays
  <2>2. PICK i \in EntriesIn(l, Fees) : ChargeIn(l) = l[i]
    BY <2>1
  <2>3. l[i].cash <= 0 /\ l[i].free <= 0 /\ l[i].type \in Fees
    BY DEF LedgerStands, EntriesIn
  <2>4. ChargeIn(l).cash \in Int /\ ChargeIn(l).free \in {-1, 0, 1}
    BY <2>1 DEF EntryTypes
  <2>5. QED
    BY <2>1, <2>2, <2>3, <2>4
<1>6. OwedIn(l) \in Int /\ OwedIn(l) <= 0
  BY <1>1, <1>4, <1>5 DEF OwedIn
<1>7. QED
  BY <1>1, <1>3, <1>4, <1>5, <1>6

\* A ledger without a fee is charged.
LEMMA LedgerCharged ==
  ASSUME NEW l, LedgerStands(l), ChargesIn(l) = 0, ~ConfirmedIn(l),
         NEW e \in EntryTypes, e.type \in Fees, e.cash <= 0, e.free <= 0
  PROVE  /\ LedgerStands(Append(l, e)) /\ ChargesIn(Append(l, e)) = 1 /\ ~ConfirmedIn(Append(l, e))
         /\ EntriesIn(Append(l, e), Fees) # {} /\ ChargeIn(Append(l, e)) = e /\ OwedIn(l) = 0
<1> DEFINE m == Append(l, e)
<1>1. l \in Seq(EntryTypes) /\ CashIn(l) = 0 /\ FreeIn(l) = 0
  BY DEF LedgerStands
<1>2. m \in Seq(EntryTypes) /\ EntriesIn(m, Fees) = EntriesIn(l, Fees) \cup {Len(l) + 1}
      /\ m[Len(l) + 1] = e /\ \A i \in DOMAIN l : m[i] = l[i]
  BY <1>1, RowAdded
<1>3. ChargesIn(m) = 1 /\ ChargeIn(m) = e /\ ~ConfirmedIn(m)
  BY <1>1, ChargesGrow
<1>4. CashIn(m) = e.cash /\ FreeIn(m) = e.free
  <2>1. e.cash \in Int /\ e.free \in Int
    BY DEF EntryTypes
  <2>2. QED
    BY <1>1, <2>1, SumsGrow
<1> HIDE DEF m
<1>5. \A i \in EntriesIn(m, Fees) : m[i].cash <= 0 /\ m[i].free <= 0
  <2>1. EntriesIn(l, Fees) \subseteq DOMAIN l
    BY <1>1, RowParts
  <2>2. QED
    BY <1>2, <2>1 DEF LedgerStands
<1>6. LedgerStands(m)
  BY <1>2, <1>3, <1>4, <1>5 DEF LedgerStands
<1>7. QED
  BY <1>2, <1>3, <1>6 DEF m, OwedIn

\* The fee of a charged ledger is given back.
LEMMA LedgerGivenBack ==
  ASSUME NEW l, LedgerStands(l), ChargesIn(l) = 1,
         NEW e, e = Entry("order_fee_reversal", -ChargeIn(l).cash, -ChargeIn(l).free)
  PROVE  /\ LedgerStands(Append(l, e)) /\ ChargesIn(Append(l, e)) = 0 /\ ~ConfirmedIn(Append(l, e))
         /\ EntriesIn(Append(l, e), Fees) = EntriesIn(l, Fees)
         /\ e.cash = -ChargeIn(l).cash /\ OwedIn(Append(l, e)) = 0
<1> DEFINE m == Append(l, e)
           c == ChargeIn(l)
<1>1. /\ l \in Seq(EntryTypes) /\ CashIn(l) = c.cash /\ FreeIn(l) = c.free /\ ~ConfirmedIn(l)
      /\ c.cash \in Int /\ c.free \in {-1, 0}
  BY ChargeTaken DEF LedgerStands
<1> HIDE DEF c
<1>2. e \in EntryTypes /\ e.type = "order_fee_reversal" /\ e.cash = -c.cash /\ e.free = -c.free
  BY <1>1 DEF Entry, EntryTypes, c
<1>3. m \in Seq(EntryTypes) /\ \A i \in DOMAIN l : m[i] = l[i]
  BY <1>1, <1>2, RowAdded
<1>4. ChargesIn(m) = 0 /\ ~ConfirmedIn(m) /\ EntriesIn(m, Fees) = EntriesIn(l, Fees)
  BY <1>1, <1>2, ChargesGrow
<1>5. CashIn(m) = 0 /\ FreeIn(m) = 0
  BY <1>1, <1>2, SumsGrow
<1> HIDE DEF m
<1>6. \A i \in EntriesIn(m, Fees) : m[i].cash <= 0 /\ m[i].free <= 0
  <2>1. EntriesIn(l, Fees) \subseteq DOMAIN l
    BY <1>1, RowParts
  <2>2. QED
    BY <1>3, <1>4, <2>1 DEF LedgerStands
<1>7. LedgerStands(m)
  BY <1>3, <1>4, <1>5, <1>6 DEF LedgerStands
<1>8. QED
  BY <1>2, <1>4, <1>7 DEF m, OwedIn, c

\* The confirmation's fee is taken of a ledger without one.
LEMMA LedgerConfirmed ==
  ASSUME NEW l, LedgerStands(l), ChargesIn(l) = 0, ~ConfirmedIn(l),
         NEW e \in EntryTypes, e.type = "order_confirm_fee", e.free <= 0
  PROVE  /\ LedgerStands(Append(l, e)) /\ ChargesIn(Append(l, e)) = 0 /\ ConfirmedIn(Append(l, e))
         /\ EntriesIn(Append(l, e), Fees) = EntriesIn(l, Fees) /\ OwedIn(Append(l, e)) = 0
<1> DEFINE m == Append(l, e)
<1>1. l \in Seq(EntryTypes) /\ FreeIn(l) = 0
  BY DEF LedgerStands
<1>2. m \in Seq(EntryTypes) /\ \A i \in DOMAIN l : m[i] = l[i]
  BY <1>1, RowAdded
<1>3. ChargesIn(m) = 0 /\ ConfirmedIn(m) /\ EntriesIn(m, Fees) = EntriesIn(l, Fees)
  BY <1>1, ChargesGrow
<1>4. FreeIn(m) <= 0
  <2>1. FreeIn(m) = FreeIn(l) + e.free
    BY <1>1, SumsGrow
  <2>2. e.free \in Int
    BY DEF EntryTypes
  <2>3. QED
    BY <1>1, <2>1, <2>2
<1> HIDE DEF m
<1>5. \A i \in EntriesIn(m, Fees) : m[i].cash <= 0 /\ m[i].free <= 0
  <2>1. EntriesIn(l, Fees) \subseteq DOMAIN l
    BY <1>1, RowParts
  <2>2. QED
    BY <1>2, <1>3, <2>1 DEF LedgerStands
<1>6. LedgerStands(m)
  BY <1>2, <1>3, <1>4, <1>5 DEF LedgerStands
<1>7. QED
  BY <1>3, <1>6 DEF m, OwedIn

-----------------------------------------------------------------------------

\* What a step writes of an order's ledger: l it becomes, and the balance moves so
\* that what is owed beyond the limit's reach does not grow, or stays within it.
Writes(o, l) ==
    /\ ledger' = [ledger EXCEPT ![o] = l]
    /\ LedgerStands(l) /\ balance' \in Int
    /\ balance' - OwedIn(l) >= balance - OwedIn(ledger[o]) \/ balance' >= -DebtLimit

\* Of an order's ledger, its fee and the entry to come.
LEMMA OrdersLedger ==
  ASSUME WalletInv, NEW o \in FeeOrders
  PROVE  /\ LedgerStands(ledger[o]) /\ OrderPays(feeOrder[o], ledger[o], lockOn)
         /\ feeOrder[o] \in FeeRows /\ balance \in Int /\ planFee \in Nat \ {0} /\ DebtLimit \in Nat
         /\ Charged(o) <=> ChargesIn(ledger[o]) = 1
         /\ ~Charged(o) <=> ChargesIn(ledger[o]) = 0
         /\ HasConfirmFee(o) <=> ConfirmedIn(ledger[o])
         /\ LastCharge(o) = ChargeIn(ledger[o])
         /\ EntriesOf(o, Fees) = EntriesIn(ledger[o], Fees)
         /\ DOMAIN ledger = FeeOrders /\ lockOn \in BOOLEAN
<1>1. LedgerStands(ledger[o]) /\ ledger[o] \in Seq(EntryTypes) /\ ChargesIn(ledger[o]) \in {0, 1}
  BY DEF WalletInv, LedgerStands
<1>2. /\ Charged(o) <=> ChargesIn(ledger[o]) = 1
      /\ ~Charged(o) <=> ChargesIn(ledger[o]) = 0
  BY <1>1, LedgerRead
<1>3. planFee \in Nat \ {0} /\ DebtLimit \in Nat
  BY WalletAssumption DEF WalletInv
<1>4. QED
  BY <1>1, <1>2, <1>3, LedgerRead DEF WalletInv

\* Nothing written.
LEMMA NoFeeWritten ==
  ASSUME WalletInv, NEW o \in FeeOrders, NoEntry
  PROVE  Writes(o, ledger[o])
<1>1. ledger' = ledger /\ balance' = balance
  BY DEF NoEntry
<1>2. [ledger EXCEPT ![o] = ledger[o]] = ledger
  BY DEF WalletInv
<1>3. OwedIn(ledger[o]) \in Int /\ balance \in Int /\ LedgerStands(ledger[o])
  BY OrdersLedger, ChargeTaken
<1>4. QED
  BY <1>1, <1>2, <1>3 DEF Writes

\* The entry of a fee, of a free order or in cash.
LEMMA FeeEntryTyped ==
  ASSUME WalletInv, NEW type \in Fees \cup {"order_confirm_fee"}
  PROVE  /\ FeeEntry(type) \in EntryTypes /\ FeeEntry(type).type = type
         /\ FeeEntry(type).cash = (IF FreeLeft > 0 THEN 0 ELSE -planFee)
         /\ FeeEntry(type).cash <= 0 /\ FeeEntry(type).free <= 0
<1>1. planFee \in Nat \ {0}
  BY WalletAssumption DEF WalletInv
<1>2. QED
  BY <1>1 DEF FeeEntry, Entry, EntryTypes

\* Charged at placing, while the switch is off.
LEMMA PlacingWrites ==
  ASSUME WalletInv, NEW o \in FeeOrders, ChargeOrderFee(o), feeOrder[o].stage = "none"
  PROVE  \E l : /\ Writes(o, l) /\ ~ConfirmedIn(l)
                /\ ~lockOn => ChargesIn(l) = 1 /\ EntriesIn(l, Fees) # {}
<1> DEFINE l == ledger[o]
           e == FeeEntry("order_fee")
<1>1. l = <<>> /\ LedgerStands(l)
  BY OrdersLedger DEF OrderPays
<1>2. ~ConfirmedIn(l) /\ ChargesIn(l) = 0
  <2>1. EntriesIn(l, {"order_confirm_fee"}) = {} /\ EntriesIn(l, Fees) = {}
        /\ EntriesIn(l, {"order_fee_reversal"}) = {}
    BY <1>1 DEF EntriesIn
  <2>2. QED
    BY <2>1, FS_EmptySet DEF ConfirmedIn, ChargesIn
<1>3. CASE lockOn
  BY <1>2, <1>3, NoFeeWritten DEF ChargeOrderFee
<1>4. CASE ~lockOn
  <2>1. ~Charged(o)
    BY <1>2, OrdersLedger
  <2>2. CanCharge /\ WriteEntry(o, e)
    BY <1>4, <2>1 DEF ChargeOrderFee
  <2>3. /\ e \in EntryTypes /\ e.type = "order_fee" /\ e.cash <= 0 /\ e.free <= 0
        /\ e.cash = (IF FreeLeft > 0 THEN 0 ELSE -planFee)
    BY FeeEntryTyped DEF Fees
  <2> HIDE DEF e, l
  <2>4. /\ LedgerStands(Append(l, e)) /\ ChargesIn(Append(l, e)) = 1 /\ ~ConfirmedIn(Append(l, e))
        /\ EntriesIn(Append(l, e), Fees) # {} /\ ChargeIn(Append(l, e)) = e /\ OwedIn(l) = 0
    BY <1>1, <1>2, <2>3, LedgerCharged DEF Fees
  <2>5. ledger' = [ledger EXCEPT ![o] = Append(l, e)] /\ balance' = balance + e.cash
    BY <2>2 DEF WriteEntry, l
  <2>6. OwedIn(Append(l, e)) = 0
    BY <2>3, <2>4 DEF OwedIn
  <2>7. balance \in Int /\ planFee \in Nat /\ DebtLimit \in Nat
    BY OrdersLedger
  <2>8. /\ balance' \in Int
        /\ balance' - OwedIn(Append(l, e)) >= balance - OwedIn(l) \/ balance' >= -DebtLimit
    <3>1. CASE FreeLeft > 0
      BY <2>3, <2>4, <2>5, <2>6, <2>7, <3>1
    <3>2. CASE ~(FreeLeft > 0)
      <4>1. balance - planFee >= -DebtLimit
        BY <2>2, <3>2 DEF CanCharge
      <4>2. QED
        BY <2>3, <2>5, <2>7, <3>2, <4>1
    <3>3. QED
      BY <3>1, <3>2
  <2>9. Writes(o, Append(l, e))
    BY <2>4, <2>5, <2>8 DEF Writes, l
  <2>10. QED
    BY <2>4, <2>9
<1>5. QED
  BY <1>3, <1>4, OrdersLedger

\* Given back, unless the order keeps its fee or has none.
LEMMA ReversalWrites ==
  ASSUME WalletInv, NEW o \in FeeOrders, ReverseOrderFee(o)
  PROVE  \E l : /\ Writes(o, l) /\ (ConfirmedIn(l) => ConfirmedIn(ledger[o]))
                /\ EntriesIn(l, Fees) = EntriesIn(ledger[o], Fees)
                /\ ~KeepsFee(o) /\ ~feeOrder[o].shipped => ChargesIn(l) = 0
                /\ ChargesIn(ledger[o]) = 0 => ChargesIn(l) = 0
<1> DEFINE l == ledger[o]
           e == GivenBack(o)
<1>1. CASE KeepsFee(o) \/ feeOrder[o].shipped \/ ~Charged(o)
  <2>1. Writes(o, l)
    BY <1>1, NoFeeWritten DEF ReverseOrderFee
  <2>2. ~KeepsFee(o) /\ ~feeOrder[o].shipped => ChargesIn(l) = 0
    BY <1>1, OrdersLedger
  <2>3. QED
    BY <2>1, <2>2
<1>2. CASE ~(KeepsFee(o) \/ feeOrder[o].shipped \/ ~Charged(o))
  <2>1. WriteEntry(o, e)
    BY <1>2 DEF ReverseOrderFee
  <2>2. LedgerStands(l) /\ ChargesIn(l) = 1
    BY <1>2, OrdersLedger
  <2>3. e = Entry("order_fee_reversal", -ChargeIn(l).cash, -ChargeIn(l).free)
    BY OrdersLedger DEF GivenBack
  <2>4. ledger' = [ledger EXCEPT ![o] = Append(l, e)] /\ balance' = balance + e.cash
    BY <2>1 DEF WriteEntry
  <2> HIDE DEF e, l
  <2>5. /\ LedgerStands(Append(l, e)) /\ ChargesIn(Append(l, e)) = 0 /\ ~ConfirmedIn(Append(l, e))
        /\ EntriesIn(Append(l, e), Fees) = EntriesIn(l, Fees)
        /\ e.cash = -ChargeIn(l).cash /\ OwedIn(Append(l, e)) = 0
    BY <2>2, <2>3, LedgerGivenBack
  <2>6. ChargeIn(l).cash \in Int /\ ChargeIn(l).cash <= 0 /\ OwedIn(l) \in {0, ChargeIn(l).cash}
    BY <2>2, ChargeTaken DEF OwedIn
  <2>7. balance \in Int
    BY OrdersLedger
  <2>8. balance' \in Int /\ balance' - OwedIn(Append(l, e)) >= balance - OwedIn(l)
    BY <2>4, <2>5, <2>6, <2>7
  <2>9. Writes(o, Append(l, e))
    BY <2>4, <2>5, <2>8 DEF Writes, l
  <2>10. QED
    BY <2>5, <2>9 DEF l
<1>3. QED
  BY <1>1, <1>2

\* Charged again, as it was, while the switch is off.
LEMMA RechargeWrites ==
  ASSUME WalletInv, NEW o \in FeeOrders, RechargeOrderFee(o), feeOrder[o].stage # "none",
         ~feeOrder[o].shipped
  PROVE  \E l : /\ Writes(o, l) /\ (ConfirmedIn(l) => ConfirmedIn(ledger[o]))
                /\ ~lockOn => ChargesIn(l) = 1 /\ EntriesIn(l, Fees) # {}
<1> DEFINE l == ledger[o]
           c == ChargeIn(l)
           e == Entry("order_fee_recharge", c.cash, c.free)
<1>1. LedgerStands(l) /\ OrderPays(feeOrder[o], l, lockOn)
  BY OrdersLedger
<1>2. CASE ~Recharges(o)
  <2>1. Writes(o, l)
    BY <1>2, NoFeeWritten DEF RechargeOrderFee
  <2>2. ~lockOn => ChargesIn(l) = 1 /\ EntriesIn(l, Fees) # {}
    BY <1>1, <1>2, OrdersLedger DEF Recharges, OrderPays
  <2>3. QED
    BY <2>1, <2>2
<1>3. CASE Recharges(o)
  <2>1. WriteEntry(o, e)
    BY <1>3, OrdersLedger DEF RechargeOrderFee
  <2>2. ~lockOn /\ ChargesIn(l) = 0 /\ EntriesIn(l, Fees) # {} /\ ~ConfirmedIn(l)
    BY <1>1, <1>3, OrdersLedger DEF Recharges, OrderPays
  <2>3. ledger' = [ledger EXCEPT ![o] = Append(l, e)] /\ balance' = balance + e.cash
    BY <2>1 DEF WriteEntry
  <2>4. c.cash \in Int /\ c.cash <= 0 /\ c.free \in {-1, 0}
    BY <1>1, <2>2, ChargeTaken
  <2> HIDE DEF c, l
  <2>5. /\ e \in EntryTypes /\ e.type = "order_fee_recharge" /\ e.type \in Fees
        /\ e.cash = c.cash /\ e.cash <= 0 /\ e.free <= 0
    BY <2>4 DEF Entry, EntryTypes, Fees
  <2> HIDE DEF e
  <2>6. /\ LedgerStands(Append(l, e)) /\ ChargesIn(Append(l, e)) = 1 /\ ~ConfirmedIn(Append(l, e))
        /\ EntriesIn(Append(l, e), Fees) # {} /\ ChargeIn(Append(l, e)) = e /\ OwedIn(l) = 0
    BY <1>1, <2>2, <2>5, LedgerCharged
  <2>7. OwedIn(Append(l, e)) = e.cash
    BY <2>5, <2>6 DEF OwedIn
  <2>8. balance' \in Int /\ balance' - OwedIn(Append(l, e)) >= balance - OwedIn(l)
    <3>1. balance \in Int
      BY OrdersLedger
    <3>2. QED
      BY <2>3, <2>4, <2>5, <2>6, <2>7, <3>1
  <2>9. Writes(o, Append(l, e))
    BY <2>3, <2>6, <2>8 DEF Writes, l
  <2>10. QED
    BY <2>6, <2>9
<1>4. QED
  BY <1>2, <1>3

\* The confirmation's fee, where it can be paid.
LEMMA TakeFeeWrites ==
  ASSUME WalletInv, NEW o \in FeeOrders, TakeFee(o), FeeSettled(o) \/ CanPay
  PROVE  \E l : /\ Writes(o, l) /\ ChargesIn(l) = ChargesIn(ledger[o])
                /\ EntriesIn(l, Fees) = EntriesIn(ledger[o], Fees)
<1> DEFINE l == ledger[o]
           e == FeeEntry("order_confirm_fee")
<1>1. CASE FeeSettled(o)
  BY <1>1, NoFeeWritten DEF TakeFee
<1>2. CASE ~FeeSettled(o)
  <2>1. WriteEntry(o, e) /\ CanPay
    BY <1>2 DEF TakeFee
  <2>2. LedgerStands(l) /\ ChargesIn(l) = 0 /\ ~ConfirmedIn(l)
    BY <1>2, OrdersLedger DEF FeeSettled
  <2>3. /\ e \in EntryTypes /\ e.type = "order_confirm_fee"
        /\ e.cash = (IF FreeLeft > 0 THEN 0 ELSE -planFee) /\ e.free <= 0
    BY FeeEntryTyped
  <2>4. ledger' = [ledger EXCEPT ![o] = Append(l, e)] /\ balance' = balance + e.cash
    BY <2>1 DEF WriteEntry
  <2> HIDE DEF e, l
  <2>5. /\ LedgerStands(Append(l, e)) /\ ChargesIn(Append(l, e)) = 0 /\ OwedIn(Append(l, e)) = 0
        /\ EntriesIn(Append(l, e), Fees) = EntriesIn(l, Fees)
    BY <2>2, <2>3, LedgerConfirmed
  <2>6. balance \in Int /\ planFee \in Nat /\ DebtLimit \in Nat /\ OwedIn(l) = 0
    BY <2>2, OrdersLedger DEF OwedIn
  <2>7. /\ balance' \in Int
        /\ balance' - OwedIn(Append(l, e)) >= balance - OwedIn(l) \/ balance' >= -DebtLimit
    <3>1. CASE FreeLeft > 0
      BY <2>3, <2>4, <2>5, <2>6, <3>1
    <3>2. CASE ~(FreeLeft > 0)
      BY <2>1, <2>3, <2>4, <2>6, <3>2 DEF CanPay
    <3>3. QED
      BY <3>1, <3>2
  <2>8. Writes(o, Append(l, e))
    BY <2>4, <2>5, <2>7 DEF Writes, l
  <2>9. QED
    BY <2>2, <2>5, <2>8 DEF l
<1>3. QED
  BY <1>1, <1>2

LEMMA ConfirmationWrites ==
  ASSUME WalletInv, NEW o \in FeeOrders, SettleOnConfirmation(o)
  PROVE  \E l : /\ Writes(o, l) /\ ChargesIn(l) = ChargesIn(ledger[o])
                /\ EntriesIn(l, Fees) = EntriesIn(ledger[o], Fees)
                /\ ConfirmedIn(l) => ConfirmedIn(ledger[o]) \/ lockOn
<1>1. CASE ~lockOn \/ feeOrder[o].contactLock = "unlocked"
  BY <1>1, NoFeeWritten DEF SettleOnConfirmation
<1>2. CASE ~(~lockOn \/ feeOrder[o].contactLock = "unlocked")
  BY <1>2, TakeFeeWrites DEF SettleOnConfirmation
<1>3. QED
  BY <1>1, <1>2

-----------------------------------------------------------------------------

\* Among the orders, what is owed moves with one ledger, and is never above nothing.
LEMMA OwedMoves ==
  ASSUME WalletInv, NEW o \in FeeOrders, NEW l, LedgerStands(l), ledger' = [ledger EXCEPT ![o] = l]
  PROVE  /\ SumOver(RechargeOwed, FeeOrders) \in Int
         /\ SumOver(RechargeOwed', FeeOrders) = SumOver(RechargeOwed, FeeOrders) - OwedIn(ledger[o]) + OwedIn(l)
         /\ SumOver(RechargeOwed', FeeOrders) <= 0 /\ SumOver(RechargeOwed', FeeOrders) \in Int
<1>1. IsFiniteSet(FeeOrders)
  BY WalletAssumption
<1> DEFINE v == [p \in FeeOrders |-> OwedIn(ledger'[p])]
           z == [p \in FeeOrders |-> 0]
<1>2. RechargeOwed' = v
  BY DEF RechargeOwed
<1>3. \A p \in FeeOrders : ledger'[p] = IF p = o THEN l ELSE ledger[p]
  BY DEF WalletInv
<1>4. \A p \in FeeOrders : RechargeOwed[p] = OwedIn(ledger[p]) /\ OwedIn(ledger[p]) \in Int /\ OwedIn(ledger[p]) <= 0
  BY OrdersLedger, ChargeTaken DEF RechargeOwed
<1>5. OwedIn(l) \in Int /\ OwedIn(l) <= 0
  BY ChargeTaken
<1>6. \A p \in FeeOrders : v[p] = IF p = o THEN OwedIn(l) ELSE RechargeOwed[p]
  BY <1>3, <1>4
<1> HIDE DEF v
<1>7. /\ \A p \in FeeOrders : RechargeOwed[p] \in Int /\ v[p] \in Int /\ v[p] <= 0
      /\ \A p \in FeeOrders \ {o} : v[p] = RechargeOwed[p]
      /\ v[o] = OwedIn(l) /\ RechargeOwed[o] = OwedIn(ledger[o])
  BY <1>4, <1>5, <1>6
<1>8. SumOver(v, FeeOrders) = SumOver(RechargeOwed, FeeOrders) - RechargeOwed[o] + v[o]
  BY <1>1, <1>7, SumChanges
<1>9. SumOver(RechargeOwed, FeeOrders) \in Int /\ SumOver(v, FeeOrders) \in Int
  BY <1>1, <1>7, SumInt
<1>10. SumOver(v, FeeOrders) <= 0
  <2>1. \A p \in FeeOrders : z[p] = 0 /\ z[p] \in Int /\ v[p] \in Int /\ v[p] <= z[p]
    BY <1>7
  <2>2. SumOver(v, FeeOrders) <= SumOver(z, FeeOrders)
    BY <1>1, <2>1, SumNoMore
  <2>3. SumOver(z, FeeOrders) = 0
    <3>1. {} \in SUBSET FeeOrders /\ \A p \in FeeOrders \ {} : z[p] = 0
      BY <2>1
    <3>2. SumOver(z, FeeOrders) = SumOver(z, {})
      BY <1>1, <3>1, SumOfPart
    <3>3. QED
      BY <3>2, SumEmpty
  <2>4. QED
    BY <2>2, <2>3
<1>11. QED
  BY <1>2, <1>7, <1>8, <1>9, <1>10

\* One order's row and ledger are written, and both stand by the switch.
LEMMA OrderWritten ==
  ASSUME WalletInv, NEW o \in FeeOrders, NEW f \in FeeRows, NEW l,
         feeOrder' = [feeOrder EXCEPT ![o] = f], Writes(o, l), OrderPays(f, l, lockOn),
         UNCHANGED <<planFee, lockOn>>, dueList' \subseteq FeeOrders
  PROVE  WalletInv'
<1>1. /\ ledger' = [ledger EXCEPT ![o] = l] /\ LedgerStands(l) /\ balance' \in Int
      /\ balance' - OwedIn(l) >= balance - OwedIn(ledger[o]) \/ balance' >= -DebtLimit
  BY DEF Writes
<1>2. feeOrder' \in [FeeOrders -> FeeRows] /\ \A p \in FeeOrders : feeOrder'[p] = IF p = o THEN f ELSE feeOrder[p]
  BY DEF WalletInv
<1>3. DOMAIN ledger' = FeeOrders /\ ledger' = [p \in FeeOrders |-> ledger'[p]]
      /\ \A p \in FeeOrders : ledger'[p] = IF p = o THEN l ELSE ledger[p]
  BY <1>1 DEF WalletInv
<1>4. \A p \in FeeOrders : LedgerStands(ledger'[p]) /\ OrderPays(feeOrder'[p], ledger'[p], lockOn')
  BY <1>1, <1>2, <1>3 DEF WalletInv
<1>5. balance' - SumOver(RechargeOwed', FeeOrders) >= -DebtLimit
  <2>1. /\ SumOver(RechargeOwed, FeeOrders) \in Int
        /\ SumOver(RechargeOwed', FeeOrders) = SumOver(RechargeOwed, FeeOrders) - OwedIn(ledger[o]) + OwedIn(l)
        /\ SumOver(RechargeOwed', FeeOrders) <= 0 /\ SumOver(RechargeOwed', FeeOrders) \in Int
    BY <1>1, OwedMoves
  <2>2. OwedIn(l) \in Int /\ OwedIn(ledger[o]) \in Int /\ balance \in Int /\ DebtLimit \in Nat
    BY <1>1, OrdersLedger, ChargeTaken
  <2>3. balance - SumOver(RechargeOwed, FeeOrders) >= -DebtLimit
    BY DEF WalletInv
  <2>4. CASE balance' - OwedIn(l) >= balance - OwedIn(ledger[o])
    BY <1>1, <2>1, <2>2, <2>3, <2>4
  <2>5. CASE balance' >= -DebtLimit
    BY <1>1, <2>1, <2>2, <2>5
  <2>6. QED
    BY <1>1, <2>4, <2>5
<1>6. planFee' \in PlanFees /\ lockOn' \in BOOLEAN
  BY DEF WalletInv
<1>7. QED
  BY <1>1, <1>2, <1>3, <1>4, <1>5, <1>6 DEF WalletInv

-----------------------------------------------------------------------------

\* Placed: charged, unless the fee is the confirmation's.
LEMMA PlaceKeeps ==
  ASSUME WalletInv, NEW o \in FeeOrders, NEW online \in BOOLEAN, Place(o, online)
  PROVE  WalletInv'
<1> DEFINE f == [feeOrder[o] EXCEPT !.stage = "pending", !.online = online]
<1>1. /\ feeOrder[o] \in FeeRows /\ OrderPays(feeOrder[o], ledger[o], lockOn)
      /\ feeOrder[o].stage = "none"
  BY OrdersLedger DEF Place
<1>2. feeOrder' = [feeOrder EXCEPT ![o] = f]
  BY DEF Place, WalletInv
<1>3. /\ f \in FeeRows /\ f.stage = "pending" /\ f.shipped = feeOrder[o].shipped
      /\ f.contactLock = feeOrder[o].contactLock /\ f.paid = feeOrder[o].paid
  BY <1>1 DEF FeeRows
<1> HIDE DEF f
<1>4. ChargeOrderFee(o) /\ UNCHANGED <<planFee, lockOn, dueList>>
  BY DEF Place, Settled
<1>5. PICK l : /\ Writes(o, l) /\ ~ConfirmedIn(l)
               /\ ~lockOn => ChargesIn(l) = 1 /\ EntriesIn(l, Fees) # {}
  BY <1>1, <1>4, PlacingWrites
<1>6. OrderPays(f, l, lockOn)
  BY <1>1, <1>3, <1>5 DEF OrderPays, Ended
<1>7. dueList' \subseteq FeeOrders
  BY <1>4 DEF WalletInv
<1>8. QED
  BY <1>2, <1>3, <1>4, <1>5, <1>6, <1>7, OrderWritten

\* Confirmed on the phone, also after a rejection.
LEMMA ConfirmsFee ==
  ASSUME WalletInv, NEW o \in FeeOrders, Confirm(o) \/ Correct(o)
  PROVE  WalletInv'
<1> DEFINE f == [feeOrder[o] EXCEPT !.stage = "confirmed", !.contactLock = "unlocked"]
<1>1. /\ feeOrder[o] \in FeeRows /\ OrderPays(feeOrder[o], ledger[o], lockOn)
      /\ LedgerStands(ledger[o]) /\ lockOn \in BOOLEAN
  BY OrdersLedger
<1>2. feeOrder' = [feeOrder EXCEPT ![o] = f]
  BY DEF Confirm, Correct, WalletInv
<1>3. /\ f \in FeeRows /\ f.stage = "confirmed" /\ f.shipped = feeOrder[o].shipped
      /\ f.contactLock = "unlocked" /\ f.paid = feeOrder[o].paid /\ f.reopened = feeOrder[o].reopened
  BY <1>1 DEF FeeRows
<1> HIDE DEF f
<1>4. UNCHANGED <<planFee, lockOn, dueList>> /\ dueList' \subseteq FeeOrders
  BY DEF Confirm, Correct, Settled, WalletInv
<1>5. CASE Confirm(o) \/ lockOn
  <2>1. SettleOnConfirmation(o) /\ (feeOrder[o].stage = "pending" \/ lockOn)
        /\ feeOrder[o].stage # "none"
    BY <1>5 DEF Confirm, Correct
  <2>2. PICK l : /\ Writes(o, l) /\ ChargesIn(l) = ChargesIn(ledger[o])
                 /\ EntriesIn(l, Fees) = EntriesIn(ledger[o], Fees)
                 /\ ConfirmedIn(l) => ConfirmedIn(ledger[o]) \/ lockOn
    BY <2>1, ConfirmationWrites
  <2>3. OrderPays(f, l, lockOn)
    BY <1>1, <1>3, <2>1, <2>2 DEF OrderPays, Ended
  <2>4. QED
    BY <1>2, <1>3, <1>4, <2>2, <2>3, OrderWritten
<1>6. CASE ~Confirm(o) /\ ~lockOn
  <2>1. RechargeOrderFee(o) /\ feeOrder[o].stage = "rejected"
    BY <1>6 DEF Correct
  <2>2. PICK l : /\ Writes(o, l) /\ (ConfirmedIn(l) => ConfirmedIn(ledger[o]))
                 /\ ~lockOn => ChargesIn(l) = 1 /\ EntriesIn(l, Fees) # {}
    BY <1>1, <2>1, RechargeWrites DEF OrderPays
  <2>3. OrderPays(f, l, lockOn)
    BY <1>1, <1>3, <1>6, <2>2 DEF OrderPays, Ended
  <2>4. QED
    BY <1>2, <1>3, <1>4, <2>2, <2>3, OrderWritten
<1>7. QED
  BY <1>5, <1>6

\* Ended: rejected, cancelled, expired, or blocked as its payment lands.
LEMMA EndedKeeps ==
  ASSUME WalletInv, NEW o \in FeeOrders, NEW f \in FeeRows,
         feeOrder' = [feeOrder EXCEPT ![o] = f], ReverseOrderFee(o), Settled,
         f.stage \in Ended, feeOrder[o].stage # "none", ~feeOrder[o].shipped, ~f.shipped,
         \/ f.contactLock = feeOrder[o].contactLock /\ f.paid = feeOrder[o].paid
         \/ /\ f.contactLock = IF lockOn /\ feeOrder[o].contactLock # "unlocked" THEN "due" ELSE "unlocked"
            /\ f.paid
  PROVE  WalletInv'
<1>1. OrderPays(feeOrder[o], ledger[o], lockOn) /\ lockOn \in BOOLEAN
  BY OrdersLedger
<1>2. PICK l : /\ Writes(o, l) /\ (ConfirmedIn(l) => ConfirmedIn(ledger[o]))
               /\ EntriesIn(l, Fees) = EntriesIn(ledger[o], Fees)
               /\ ~KeepsFee(o) /\ ~feeOrder[o].shipped => ChargesIn(l) = 0
  BY ReversalWrites
<1>3. UNCHANGED <<planFee, lockOn, dueList>> /\ dueList' \subseteq FeeOrders
  BY DEF Settled, WalletInv
<1>4. ~(lockOn /\ f.contactLock # "none") => ChargesIn(l) = 0
  BY <1>1, <1>2 DEF KeepsFee, OrderPays
<1>5. OrderPays(f, l, lockOn)
  <2>1. f.stage # "none" /\ f.stage # "confirmed" /\ f.stage # "pending"
    BY DEF Ended
  <2>2. f.paid => f.contactLock # "none"
    BY <1>1 DEF OrderPays
  <2>3. f.contactLock = "due" => lockOn
    BY <1>1 DEF OrderPays
  <2>4. ConfirmedIn(l) => lockOn /\ f.contactLock = "unlocked"
    BY <1>1, <1>2 DEF OrderPays
  <2>5. ~lockOn => EntriesIn(l, Fees) # {}
    BY <1>1, <1>2 DEF OrderPays
  <2>6. QED
    BY <1>4, <2>1, <2>2, <2>3, <2>4, <2>5 DEF OrderPays
<1>6. QED
  BY <1>2, <1>3, <1>5, OrderWritten

LEMMA EndingSteps ==
  ASSUME WalletInv, NEW o \in FeeOrders, Reject(o) \/ Cancel(o) \/ Expire(o) \/ PaymentBlocked(o)
  PROVE  WalletInv'
<1>1. /\ feeOrder[o] \in FeeRows /\ OrderPays(feeOrder[o], ledger[o], lockOn)
      /\ feeOrder = [p \in FeeOrders |-> feeOrder[p]]
  BY OrdersLedger DEF WalletInv
<1>2. feeOrder[o].stage # "none" /\ ~feeOrder[o].shipped /\ ReverseOrderFee(o) /\ Settled
  BY <1>1 DEF Reject, Cancel, Expire, PaymentBlocked, PaidOnline, OrderPays, Ended
<1>3. ASSUME NEW stage \in Ended,
             feeOrder' = [feeOrder EXCEPT ![o].stage = stage, ![o].reopened = FALSE]
      PROVE  WalletInv'
  <2> DEFINE f == [feeOrder[o] EXCEPT !.stage = stage, !.reopened = FALSE]
  <2>1. feeOrder' = [feeOrder EXCEPT ![o] = f]
    BY <1>1, <1>3
  <2>2. /\ f \in FeeRows /\ f.stage = stage /\ f.shipped = feeOrder[o].shipped
        /\ f.contactLock = feeOrder[o].contactLock /\ f.paid = feeOrder[o].paid
    BY <1>1 DEF FeeRows
  <2> HIDE DEF f
  <2>3. QED
    BY <1>2, <2>1, <2>2, EndedKeeps
<1>4. CASE PaymentBlocked(o)
  <2> DEFINE lock == IF lockOn /\ feeOrder[o].contactLock # "unlocked" THEN "due" ELSE "unlocked"
             f == [feeOrder[o] EXCEPT !.stage = "cancelled", !.paid = TRUE, !.contactLock = lock]
  <2>1. feeOrder' = [feeOrder EXCEPT ![o] = f]
    BY <1>1, <1>4 DEF PaymentBlocked, PaidOnline
  <2>2. /\ f \in FeeRows /\ f.stage = "cancelled" /\ f.shipped = feeOrder[o].shipped
        /\ f.contactLock = lock /\ f.paid
    BY <1>1 DEF FeeRows, Ended
  <2> HIDE DEF f
  <2>3. QED
    BY <1>2, <2>1, <2>2, EndedKeeps DEF Ended
<1>5. CASE Reject(o) \/ Cancel(o) \/ Expire(o)
  BY <1>3, <1>5 DEF Reject, Cancel, Expire, Ended
<1>6. QED
  BY <1>4, <1>5

\* The payment of an order paid online: a sale, or it stays ended.
LEMMA PaidKeeps ==
  ASSUME WalletInv, NEW o \in FeeOrders, PaymentLands(o) \/ PaymentStays(o)
  PROVE  WalletInv'
<1>1. /\ feeOrder[o] \in FeeRows /\ OrderPays(feeOrder[o], ledger[o], lockOn)
      /\ lockOn \in BOOLEAN /\ feeOrder = [p \in FeeOrders |-> feeOrder[p]]
  BY OrdersLedger DEF WalletInv
<1> DEFINE lock == IF lockOn /\ feeOrder[o].contactLock # "unlocked" THEN "due" ELSE "unlocked"
           f(stage) == [feeOrder[o] EXCEPT !.stage = stage, !.paid = TRUE, !.contactLock = lock]
<1>2. ASSUME NEW stage \in Ended \cup {"confirmed"}, PaidOnline(o, stage)
      PROVE  /\ feeOrder' = [feeOrder EXCEPT ![o] = f(stage)]
             /\ UNCHANGED <<planFee, lockOn, dueList>> /\ dueList' \subseteq FeeOrders
             /\ f(stage) \in FeeRows /\ f(stage).stage = stage /\ f(stage).shipped = feeOrder[o].shipped
             /\ f(stage).contactLock = lock /\ f(stage).paid /\ f(stage).reopened = feeOrder[o].reopened
  BY <1>1, <1>2 DEF PaidOnline, Settled, FeeRows, WalletInv
<1> HIDE DEF f
<1>3. CASE PaymentStays(o)
  <2>1. PaidOnline(o, feeOrder[o].stage) /\ feeOrder[o].stage \in Ended /\ NoEntry
    BY <1>3 DEF PaymentStays, Ended
  <2>2. Writes(o, ledger[o])
    BY <2>1, NoFeeWritten
  <2>3. OrderPays(f(feeOrder[o].stage), ledger[o], lockOn)
    BY <1>1, <1>2, <2>1 DEF OrderPays, Ended
  <2>4. QED
    BY <1>2, <2>1, <2>2, <2>3, OrderWritten
<1>4. CASE PaymentLands(o)
  <2>1. PaidOnline(o, "confirmed") /\ feeOrder[o].stage \in {"pending", "expired"}
    BY <1>4 DEF PaymentLands
  <2>2. \E l : /\ Writes(o, l) /\ (ConfirmedIn(l) => ConfirmedIn(ledger[o]))
               /\ ~lockOn => EntriesIn(l, Fees) # {}
               /\ ~lockOn /\ ~feeOrder[o].reopened => ChargesIn(l) = 1
    <3>1. CASE feeOrder[o].stage = "expired"
      <4>1. RechargeOrderFee(o) /\ ~feeOrder[o].shipped
        BY <1>1, <1>4, <3>1 DEF PaymentLands, OrderPays
      <4>2. QED
        BY <3>1, <4>1, RechargeWrites
    <3>2. CASE feeOrder[o].stage = "pending"
      <4>1. Writes(o, ledger[o])
        BY <1>4, <3>2, NoFeeWritten DEF PaymentLands
      <4>2. QED
        BY <1>1, <3>2, <4>1 DEF OrderPays
    <3>3. QED
      BY <2>1, <3>1, <3>2
  <2>3. PICK l : /\ Writes(o, l) /\ (ConfirmedIn(l) => ConfirmedIn(ledger[o]))
                 /\ ~lockOn => EntriesIn(l, Fees) # {}
                 /\ ~lockOn /\ ~feeOrder[o].reopened => ChargesIn(l) = 1
    BY <2>2
  <2>4. OrderPays(f("confirmed"), l, lockOn)
    BY <1>1, <1>2, <2>1, <2>3 DEF OrderPays, Ended
  <2>5. QED
    BY <1>2, <2>1, <2>3, <2>4, OrderWritten
<1>5. QED
  BY <1>3, <1>4

\* Reopened, or shipped: nothing is charged.
LEMMA UnchargedKeeps ==
  ASSUME WalletInv, NEW o \in FeeOrders, ReopenFee(o) \/ Ship(o)
  PROVE  WalletInv'
<1>1. /\ feeOrder[o] \in FeeRows /\ OrderPays(feeOrder[o], ledger[o], lockOn)
      /\ lockOn \in BOOLEAN /\ feeOrder = [p \in FeeOrders |-> feeOrder[p]]
  BY OrdersLedger DEF WalletInv
<1>2. Writes(o, ledger[o]) /\ UNCHANGED <<planFee, lockOn, dueList>> /\ dueList' \subseteq FeeOrders
  BY NoFeeWritten DEF ReopenFee, Ship, Settled, WalletInv
<1>3. CASE ReopenFee(o)
  <2> DEFINE stage == IF feeOrder[o].paid THEN "confirmed" ELSE "pending"
             f == [feeOrder[o] EXCEPT !.reopened = TRUE, !.stage = stage]
  <2>1. feeOrder' = [feeOrder EXCEPT ![o] = f]
    BY <1>1, <1>3 DEF ReopenFee
  <2>2. /\ f \in FeeRows /\ f.stage = stage /\ f.shipped = feeOrder[o].shipped /\ f.reopened = TRUE
        /\ f.contactLock = feeOrder[o].contactLock /\ f.paid = feeOrder[o].paid
    BY <1>1 DEF FeeRows
  <2> HIDE DEF f
  <2>3. feeOrder[o].stage \in Ended
    BY <1>3 DEF ReopenFee
  <2>4. OrderPays(f, ledger[o], lockOn)
    BY <1>1, <2>2, <2>3 DEF OrderPays, Ended
  <2>5. QED
    BY <1>2, <2>1, <2>2, <2>4, OrderWritten
<1>4. CASE Ship(o)
  <2> DEFINE f == [feeOrder[o] EXCEPT !.shipped = TRUE]
  <2>1. feeOrder' = [feeOrder EXCEPT ![o] = f] /\ feeOrder[o].stage = "confirmed"
    BY <1>1, <1>4 DEF Ship
  <2>2. /\ f \in FeeRows /\ f.stage = feeOrder[o].stage /\ f.reopened = feeOrder[o].reopened
        /\ f.contactLock = feeOrder[o].contactLock /\ f.paid = feeOrder[o].paid
    BY <1>1 DEF FeeRows
  <2> HIDE DEF f
  <2>3. OrderPays(f, ledger[o], lockOn)
    BY <1>1, <2>1, <2>2 DEF OrderPays
  <2>4. QED
    BY <1>2, <2>1, <2>2, <2>3, OrderWritten
<1>5. QED
  BY <1>3, <1>4

\* A fee that was due is taken, and the order unlocked.
LEMMA SettleOneDueKeeps ==
  ASSUME WalletInv, NEW o \in FeeOrders, SettleOneDue(o)
  PROVE  WalletInv'
<1>1. /\ feeOrder[o] \in FeeRows /\ OrderPays(feeOrder[o], ledger[o], lockOn)
      /\ lockOn \in BOOLEAN /\ feeOrder = [p \in FeeOrders |-> feeOrder[p]]
  BY OrdersLedger DEF WalletInv
<1>2. UNCHANGED <<planFee, lockOn>> /\ dueList' \subseteq FeeOrders
  BY DEF SettleOneDue, WalletInv
<1>3. CASE feeOrder[o].contactLock = "due"
  <2> DEFINE f == [feeOrder[o] EXCEPT !.contactLock = "unlocked"]
  <2>1. feeOrder' = [feeOrder EXCEPT ![o] = f]
    BY <1>1, <1>3 DEF SettleOneDue
  <2>2. /\ f \in FeeRows /\ f.stage = feeOrder[o].stage /\ f.reopened = feeOrder[o].reopened
        /\ f.contactLock = "unlocked" /\ f.paid = feeOrder[o].paid /\ f.shipped = feeOrder[o].shipped
    BY <1>1 DEF FeeRows
  <2> HIDE DEF f
  <2>3. PICK l : /\ Writes(o, l) /\ ChargesIn(l) = ChargesIn(ledger[o])
                 /\ EntriesIn(l, Fees) = EntriesIn(ledger[o], Fees)
    BY <1>3, TakeFeeWrites DEF SettleOneDue
  <2>4. lockOn /\ feeOrder[o].stage # "none"
    BY <1>1, <1>3 DEF OrderPays
  <2>5. OrderPays(f, l, lockOn)
    BY <1>1, <2>2, <2>3, <2>4 DEF OrderPays
  <2>6. QED
    BY <1>2, <2>1, <2>2, <2>3, <2>5, OrderWritten
<1>4. CASE feeOrder[o].contactLock # "due"
  <2>1. feeOrder' = [feeOrder EXCEPT ![o] = feeOrder[o]] /\ NoEntry
    BY <1>1, <1>4 DEF SettleOneDue
  <2>2. QED
    BY <1>1, <1>2, <2>1, NoFeeWritten, OrderWritten
<1>5. QED
  BY <1>3, <1>4

\* Top-ups, the plan's fee, the switch, the list of what is due.
LEMMA BesideKeeps ==
  ASSUME WalletInv,
         \/ \E p \in TopUps : TopUp(p)
         \/ \E f \in PlanFees : ChangeFee(f)
         \/ SwitchLockOn \/ SettleDue \/ StopSettling
  PROVE  WalletInv'
<1>1. UNCHANGED <<feeOrder, ledger>>
  BY DEF TopUp, ChangeFee, SwitchLockOn, SettleDue, StopSettling
<1>2. planFee' \in PlanFees /\ dueList' \subseteq FeeOrders
      /\ lockOn' \in BOOLEAN /\ (lockOn' = lockOn \/ lockOn')
  BY DEF TopUp, ChangeFee, SwitchLockOn, SettleDue, StopSettling, WalletInv
<1>3. balance' \in Int /\ balance' >= balance
  BY WalletAssumption DEF TopUp, ChangeFee, SwitchLockOn, SettleDue, StopSettling, WalletInv
<1>4. \A o \in FeeOrders : LedgerStands(ledger[o]) /\ OrderPays(feeOrder[o], ledger[o], lockOn')
  <2>1. \A o \in FeeOrders : LedgerStands(ledger[o]) /\ OrderPays(feeOrder[o], ledger[o], lockOn)
        /\ lockOn \in BOOLEAN
    BY OrdersLedger
  <2>2. QED
    BY <1>2, <2>1 DEF OrderPays
<1>5. balance' - SumOver(RechargeOwed', FeeOrders) >= -DebtLimit
  <2>1. RechargeOwed' = RechargeOwed
    BY <1>1 DEF RechargeOwed
  <2>2. SumOver(RechargeOwed, FeeOrders) \in Int
    <3>1. IsFiniteSet(FeeOrders) /\ \A o \in FeeOrders : RechargeOwed[o] \in Int
      BY WalletAssumption, OrdersLedger, ChargeTaken DEF RechargeOwed
    <3>2. QED
      BY <3>1, SumInt
  <2>3. balance \in Int /\ DebtLimit \in Nat /\ balance - SumOver(RechargeOwed, FeeOrders) >= -DebtLimit
    BY WalletAssumption DEF WalletInv
  <2>4. QED
    BY <1>3, <2>1, <2>2, <2>3
<1>6. QED
  BY <1>1, <1>2, <1>3, <1>4, <1>5 DEF WalletInv

LEMMA WalletStep == WalletInv /\ [WalletNext]_walletVars => WalletInv'
<1> SUFFICES ASSUME WalletInv, [WalletNext]_walletVars PROVE WalletInv'
  OBVIOUS
<1>1. CASE UNCHANGED walletVars
  BY <1>1 DEF walletVars, WalletInv, RechargeOwed
<1>2. ASSUME NEW o \in FeeOrders,
             \/ \E online \in BOOLEAN : Place(o, online)
             \/ Confirm(o) \/ Reject(o) \/ Correct(o) \/ Cancel(o) \/ Expire(o)
             \/ PaymentLands(o) \/ PaymentBlocked(o) \/ PaymentStays(o)
             \/ ReopenFee(o) \/ Ship(o) \/ SettleOneDue(o)
      PROVE  WalletInv'
  BY <1>2, PlaceKeeps, ConfirmsFee, EndingSteps, PaidKeeps, UnchargedKeeps, SettleOneDueKeeps
<1>3. CASE \/ \E p \in TopUps : TopUp(p)
           \/ \E f \in PlanFees : ChangeFee(f)
           \/ SwitchLockOn \/ SettleDue \/ StopSettling
  BY <1>3, BesideKeeps
<1>4. QED
  BY <1>1, <1>2, <1>3 DEF WalletNext

\* No order, no entry.
LEMMA WalletStart == WalletInit => WalletInv
<1> SUFFICES ASSUME WalletInit PROVE WalletInv
  OBVIOUS
<1>1. planFee \in PlanFees /\ DebtLimit \in Nat /\ IsFiniteSet(FeeOrders)
  <2>1. \E m \in PlanFees : \A x \in PlanFees : m <= x
    BY WalletAssumption, HasLeast
  <2>2. Min(PlanFees) \in PlanFees
    BY <2>1 DEF Min
  <2>3. QED
    BY <2>2, WalletAssumption DEF WalletInit
<1>2. LedgerStands(<<>>) /\ ~ConfirmedIn(<<>>) /\ ChargesIn(<<>>) = 0
  <2>1. \A types : EntriesIn(<<>>, types) = {}
    BY DEF EntriesIn
  <2>2. ChargesIn(<<>>) = 0 /\ ~ConfirmedIn(<<>>)
    <3>1. Cardinality({}) = 0
      BY FS_EmptySet
    <3>2. ChargesIn(<<>>) = Cardinality({}) - Cardinality({})
      BY <2>1 DEF ChargesIn
    <3>3. QED
      BY <2>1, <3>1, <3>2 DEF ConfirmedIn
  <2>3. CashIn(<<>>) = 0 /\ FreeIn(<<>>) = 0
    BY SumEmpty DEF CashIn, FreeIn
  <2>4. QED
    BY <2>1, <2>2, <2>3 DEF LedgerStands
<1>3. NotPlaced \in FeeRows /\ OrderPays(NotPlaced, <<>>, FALSE)
  BY <1>2 DEF NotPlaced, FeeRows, OrderPays, Ended
<1>4. balance - SumOver(RechargeOwed, FeeOrders) >= -DebtLimit
  <2>1. \A o \in FeeOrders \ {} : RechargeOwed[o] = 0
    BY <1>2 DEF RechargeOwed, OwedIn, WalletInit
  <2>2. SumOver(RechargeOwed, FeeOrders) = SumOver(RechargeOwed, {})
    BY <1>1, <2>1, SumOfPart
  <2>3. QED
    BY <1>1, <2>2, SumEmpty DEF WalletInit
<1>5. \A o \in FeeOrders : LedgerStands(ledger[o]) /\ OrderPays(feeOrder[o], ledger[o], lockOn)
  BY <1>2, <1>3 DEF WalletInit
<1>6. feeOrder \in [FeeOrders -> FeeRows]
  BY <1>3 DEF WalletInit
<1>7. ledger \in [FeeOrders -> {<<>>}] /\ DOMAIN ledger = FeeOrders
  BY DEF WalletInit
<1>8. ledger = [o \in FeeOrders |-> ledger[o]]
  BY <1>7
<1>9. balance \in Int /\ lockOn \in BOOLEAN /\ dueList \subseteq FeeOrders
  <2>1. balance = 0 /\ lockOn = FALSE /\ dueList = {}
    BY DEF WalletInit
  <2>2. balance \in Int /\ dueList \subseteq FeeOrders
    BY <2>1
  <2>3. lockOn \in BOOLEAN
    BY <2>1
  <2>4. QED
    BY <2>2, <2>3
<1>10. QED
  BY <1>1, <1>4, <1>5, <1>6, <1>7, <1>8, <1>9 DEF WalletInv

\* What the invariant says of the limit.
LEMMA OwedIsBounded == WalletInv => DebtBounded
<1> SUFFICES ASSUME WalletInv PROVE DebtBounded
  OBVIOUS
<1> DEFINE T == {o \in FeeOrders : Charged(o) /\ LastCharge(o).type = "order_fee_recharge"}
           Cash == [o \in FeeOrders |-> LastCharge(o).cash]
           Sums(h) == h = [s \in SUBSET T |-> IF s = {} THEN 0
                             ELSE LastCharge(PickOf(s)).cash + h[s \ {PickOf(s)}]]
           h == CHOOSE h : Sums(h)
<1>1. IsFiniteSet(FeeOrders) /\ IsFiniteSet(T)
  BY WalletAssumption, FS_Subset
<1>2. \A s \in SUBSET T : s # {} => PickOf(s) \in s
  BY DEF PickOf
<1>3. PICK g : Adds(g, Cash, T)
  BY <1>1, AddsExists
<1>4. Sums(g)
  BY <1>2, <1>3 DEF Adds
<1>5. Sums(h)
  BY <1>4
<1>6. Adds(h, Cash, T)
  BY <1>2, <1>5 DEF Adds
<1>7. MapThenSumSet(LAMBDA o : LastCharge(o).cash, T) = h[T]
  BY DEF MapThenSumSet, MapThenFoldSet, PickOf
<1>8. MapThenSumSet(LAMBDA o : LastCharge(o).cash, T) = SumOver(Cash, T)
  BY <1>1, <1>6, <1>7, SumAdds
<1>9. SumOver(RechargeOwed, FeeOrders) = SumOver(Cash, T)
  <2>1. ASSUME NEW o \in FeeOrders
        PROVE  /\ o \in T => RechargeOwed[o] = Cash[o] /\ Cash[o] \in Int
               /\ o \notin T => RechargeOwed[o] = 0
    <3>1. RechargeOwed[o] = OwedIn(ledger[o]) /\ Cash[o] = LastCharge(o).cash /\ OwedIn(ledger[o]) \in Int
      BY OrdersLedger, ChargeTaken DEF RechargeOwed
    <3>2. /\ Charged(o) <=> ChargesIn(ledger[o]) = 1
          /\ ChargesIn(ledger[o]) \in {0, 1} /\ LastCharge(o) = ChargeIn(ledger[o])
      BY OrdersLedger, ChargeTaken
    <3>3. QED
      BY <3>1, <3>2 DEF OwedIn
  <2>2. T \in SUBSET FeeOrders /\ (\A o \in T : RechargeOwed[o] = Cash[o] /\ Cash[o] \in Int)
        /\ \A o \in FeeOrders \ T : RechargeOwed[o] = 0
    BY <2>1
  <2> HIDE DEF T, Cash
  <2>3. QED
    BY <1>1, <2>2, SumOfPart
<1>10. QED
  BY <1>8, <1>9 DEF DebtBounded, WalletInv

-----------------------------------------------------------------------------
(* The caches on workspace_wallets.                                        *)

\* What each order's rows come to, and that the caches add up to it.
CashTaken == [o \in FeeOrders |-> CashIn(ledger[o])]
FreeTaken == [o \in FeeOrders |-> FreeIn(ledger[o])]

CachesStand ==
    /\ credited \subseteq TopUps
    /\ balance = SumOver(CashTaken, FeeOrders) + TopUpAmount * Cardinality(credited)
    /\ freeUsed = -SumOver(FreeTaken, FeeOrders)
    /\ \A o \in FeeOrders : Len(ledger[o]) <= MaxEntries

\* A step writes no entry, or credits a top-up, or writes one entry of one order.
LEMMA OneEntryOrNone ==
  ASSUME WalletInv, [WalletNext]_walletVars
  PROVE  \/ UNCHANGED <<ledger, balance, freeUsed, credited>>
         \/ \E p \in TopUps : TopUp(p)
         \/ \E o \in FeeOrders : \E e : WriteEntry(o, e) /\ UNCHANGED credited
<1>1. ASSUME NEW o \in FeeOrders, NEW e, WriteEntry(o, e), UNCHANGED credited
      PROVE  \E q \in FeeOrders : \E d : WriteEntry(q, d) /\ UNCHANGED credited
  BY <1>1
<1>2. ASSUME NEW o \in FeeOrders,
             \/ \E online \in BOOLEAN : Place(o, online)
             \/ Confirm(o) \/ Reject(o) \/ Correct(o) \/ Cancel(o) \/ Expire(o)
             \/ PaymentLands(o) \/ PaymentBlocked(o) \/ PaymentStays(o)
             \/ ReopenFee(o) \/ Ship(o) \/ SettleOneDue(o)
      PROVE  UNCHANGED credited /\ (NoEntry \/ \E e : WriteEntry(o, e))
  BY <1>2 DEF Place, Confirm, Reject, Correct, Cancel, Expire, PaymentLands, PaymentBlocked, PaymentStays,
       PaidOnline, ReopenFee, Ship, SettleOneDue, Settled, ChargeOrderFee, ReverseOrderFee,
       RechargeOrderFee, SettleOnConfirmation, TakeFee
<1>3. CASE \E f \in PlanFees : ChangeFee(f)
  BY <1>3 DEF ChangeFee
<1>4. CASE SwitchLockOn \/ SettleDue \/ StopSettling
  BY <1>4 DEF SwitchLockOn, SettleDue, StopSettling
<1>5. CASE UNCHANGED walletVars
  BY <1>5 DEF walletVars
<1>6. QED
  BY <1>1, <1>2, <1>3, <1>4, <1>5 DEF WalletNext, NoEntry

\* What the orders' rows come to, all together.
LEMMA TakenTyped ==
  ASSUME WalletInv
  PROVE  /\ \A o \in FeeOrders : CashTaken[o] \in Int /\ FreeTaken[o] \in Int /\ FreeTaken[o] <= 0
         /\ SumOver(CashTaken, FeeOrders) \in Int /\ SumOver(FreeTaken, FeeOrders) \in Int
         /\ SumOver(FreeTaken, FeeOrders) <= 0 /\ IsFiniteSet(FeeOrders)
<1>1. ASSUME NEW o \in FeeOrders
      PROVE  CashTaken[o] \in Int /\ FreeTaken[o] \in Int /\ FreeTaken[o] <= 0
  <2>1. LedgerStands(ledger[o])
    BY OrdersLedger
  <2>2. CashIn(ledger[o]) \in Int /\ FreeIn(ledger[o]) \in Int /\ ChargesIn(ledger[o]) \in {0, 1}
        /\ (ChargesIn(ledger[o]) = 1 => ChargeIn(ledger[o]).free \in {-1, 0})
    BY <2>1, ChargeTaken
  <2>3. FreeIn(ledger[o]) <= 0
    BY <2>1, <2>2 DEF LedgerStands
  <2>4. QED
    BY <2>2, <2>3 DEF CashTaken, FreeTaken
<1>2. IsFiniteSet(FeeOrders)
  BY WalletAssumption
<1>3. SumOver(CashTaken, FeeOrders) \in Int /\ SumOver(FreeTaken, FeeOrders) \in Int
  BY <1>1, <1>2, SumInt
<1>4. SumOver(FreeTaken, FeeOrders) <= 0
  <2> DEFINE z == [o \in FeeOrders |-> 0]
  <2>1. \A o \in FeeOrders : z[o] = 0 /\ z[o] \in Int /\ FreeTaken[o] \in Int /\ FreeTaken[o] <= z[o]
    BY <1>1
  <2> HIDE DEF z
  <2>2. SumOver(FreeTaken, FeeOrders) <= SumOver(z, FeeOrders)
    BY <1>2, <2>1, SumNoMore
  <2>3. SumOver(z, FeeOrders) = SumOver(z, {})
    BY <1>2, <2>1, SumOfPart
  <2>4. QED
    BY <2>2, <2>3, SumEmpty
<1>5. QED
  BY <1>1, <1>2, <1>3, <1>4

\* Holds initially.
LEMMA CachesInit == WalletInit => CachesStand
<1> SUFFICES ASSUME WalletInit PROVE CachesStand
  OBVIOUS
<1>1. IsFiniteSet(FeeOrders) /\ TopUpAmount \in Nat /\ MaxEntries \in Nat
  BY WalletAssumption
<1>2. CashIn(<<>>) = 0 /\ FreeIn(<<>>) = 0
  BY SumEmpty DEF CashIn, FreeIn
<1>3. \A o \in FeeOrders \ {} : CashTaken[o] = 0 /\ FreeTaken[o] = 0
  BY <1>2 DEF CashTaken, FreeTaken, WalletInit
<1>4. SumOver(CashTaken, FeeOrders) = SumOver(CashTaken, {}) /\ SumOver(FreeTaken, FeeOrders) = SumOver(FreeTaken, {})
  BY <1>1, <1>3, SumOfPart
<1>5. SumOver(CashTaken, FeeOrders) = 0 /\ SumOver(FreeTaken, FeeOrders) = 0
  BY <1>4, SumEmpty
<1>6. balance = 0 /\ freeUsed = 0 /\ credited = {} /\ Cardinality({}) = 0
  BY FS_EmptySet DEF WalletInit
<1>7. TopUpAmount * 0 = 0
  BY <1>1
<1>8. \A o \in FeeOrders : Len(ledger[o]) <= MaxEntries
  BY <1>1 DEF WalletInit
<1>9. freeUsed = -SumOver(FreeTaken, FeeOrders)
  <2>1. \A n \in Int : 0 - n = -n
    OBVIOUS
  <2>2. SumOver(FreeTaken, FeeOrders) \in Int
    BY <1>5
  <2>3. 0 - SumOver(FreeTaken, FeeOrders) = -SumOver(FreeTaken, FeeOrders)
    BY <2>1, <2>2
  <2>4. freeUsed = 0 - SumOver(FreeTaken, FeeOrders)
    BY <1>5, <1>6
  <2>5. QED
    BY <2>3, <2>4, Zenon
<1>10. balance = SumOver(CashTaken, FeeOrders) + TopUpAmount * Cardinality(credited)
  BY <1>5, <1>6, <1>7
<1>11. QED
  BY <1>6, <1>8, <1>9, <1>10 DEF CachesStand

\* An entry moves its order's sum and the caches by as much.
LEMMA EntryAddsUp ==
  ASSUME WalletInv, WalletInv', CachesStand, NEW o \in FeeOrders, NEW e, WriteEntry(o, e), UNCHANGED credited
  PROVE  CachesStand'
<1> DEFINE l == ledger[o]
           m == Append(l, e)
<1>1. /\ Len(l) < MaxEntries /\ ledger' = [ledger EXCEPT ![o] = m]
      /\ balance' = balance + e.cash /\ freeUsed' = freeUsed - e.free
  BY DEF WriteEntry
<1>2. /\ ledger'[o] = m /\ \A p \in FeeOrders \ {o} : ledger'[p] = ledger[p]
  BY <1>1 DEF WalletInv
<1>3. l \in Seq(EntryTypes) /\ m \in Seq(EntryTypes) /\ MaxEntries \in Nat
  BY <1>2, WalletAssumption DEF WalletInv, LedgerStands
<1>4. e \in EntryTypes /\ Len(m) = Len(l) + 1 /\ Len(l) \in Nat
  <2>1. Len(l) \in Nat /\ Len(m) = Len(l) + 1 /\ m[Len(l) + 1] = e
    BY <1>3
  <2>2. Len(m) \in 1..Len(m)
    BY <2>1
  <2>3. m[Len(m)] \in EntryTypes
    BY <1>3, <2>2
  <2>4. QED
    BY <2>1, <2>3
<1>5. e.cash \in Int /\ e.free \in Int
  BY <1>4 DEF EntryTypes
<1>6. CashIn(m) = CashIn(l) + e.cash /\ FreeIn(m) = FreeIn(l) + e.free
      /\ CashIn(l) \in Int /\ FreeIn(l) \in Int
  BY <1>3, <1>4, SumsGrow
<1> HIDE DEF m, l
<1> DEFINE vc == [p \in FeeOrders |-> CashIn(ledger'[p])]
           vf == [p \in FeeOrders |-> FreeIn(ledger'[p])]
<1>7. CashTaken' = vc /\ FreeTaken' = vf
  BY DEF CashTaken, FreeTaken
<1>8. /\ CashTaken[o] = CashIn(l) /\ vc[o] = CashIn(m) /\ FreeTaken[o] = FreeIn(l) /\ vf[o] = FreeIn(m)
      /\ \A p \in FeeOrders \ {o} : vc[p] = CashTaken[p] /\ vf[p] = FreeTaken[p]
  BY <1>2 DEF CashTaken, FreeTaken, l
<1> HIDE DEF vc, vf
<1>9. /\ \A p \in FeeOrders : CashTaken[p] \in Int /\ FreeTaken[p] \in Int
      /\ SumOver(CashTaken, FeeOrders) \in Int /\ SumOver(FreeTaken, FeeOrders) \in Int
      /\ IsFiniteSet(FeeOrders)
  BY TakenTyped
<1>10. vc[o] \in Int /\ vf[o] \in Int
  BY <1>5, <1>6, <1>8
<1>11. /\ SumOver(vc, FeeOrders) = SumOver(CashTaken, FeeOrders) - CashTaken[o] + vc[o]
       /\ SumOver(vf, FeeOrders) = SumOver(FreeTaken, FeeOrders) - FreeTaken[o] + vf[o]
  <2>1. \A p \in FeeOrders \ {o} : vc[p] = CashTaken[p]
    BY <1>8
  <2>2. \A p \in FeeOrders \ {o} : vf[p] = FreeTaken[p]
    BY <1>8
  <2>3. \A p \in FeeOrders : CashTaken[p] \in Int
    BY <1>9
  <2>4. \A p \in FeeOrders : FreeTaken[p] \in Int
    BY <1>9
  <2>5. IsFiniteSet(FeeOrders)
    BY <1>9
  <2>6. vc[o] \in Int /\ vf[o] \in Int
    BY <1>10
  <2>7. SumOver(vc, FeeOrders) = SumOver(CashTaken, FeeOrders) - CashTaken[o] + vc[o]
    <3>1. PICK v : v = vc
      OBVIOUS
    <3>2. PICK w : w = CashTaken
      OBVIOUS
    <3>3. (\A p \in FeeOrders : w[p] \in Int) /\ v[o] \in Int /\ \A p \in FeeOrders \ {o} : v[p] = w[p]
      BY <2>1, <2>3, <2>6, <3>1, <3>2
    <3>4. SumOver(v, FeeOrders) = SumOver(w, FeeOrders) - w[o] + v[o]
      BY <2>5, <3>3, SumChanges
    <3>5. QED
      BY <3>1, <3>2, <3>4
  <2>8. SumOver(vf, FeeOrders) = SumOver(FreeTaken, FeeOrders) - FreeTaken[o] + vf[o]
    BY <2>2, <2>4, <2>5, <2>6, SumChanges
  <2>9. QED
    BY <2>7, <2>8
<1>12. /\ SumOver(vc, FeeOrders) = SumOver(CashTaken, FeeOrders) + e.cash
       /\ SumOver(vf, FeeOrders) = SumOver(FreeTaken, FeeOrders) + e.free
  BY <1>5, <1>6, <1>8, <1>9, <1>11
<1>13. TopUpAmount * Cardinality(credited) \in Int /\ credited' = credited
  BY WalletAssumption, FS_Subset, FS_CardinalityType DEF CachesStand
<1>14. balance' = SumOver(CashTaken', FeeOrders) + TopUpAmount * Cardinality(credited')
  BY <1>1, <1>5, <1>7, <1>9, <1>12, <1>13 DEF CachesStand
<1>15. freeUsed' = -SumOver(FreeTaken', FeeOrders)
  BY <1>1, <1>5, <1>7, <1>9, <1>12 DEF CachesStand
<1>16. \A p \in FeeOrders : Len(ledger'[p]) <= MaxEntries
  BY <1>1, <1>2, <1>3, <1>4 DEF CachesStand, l
<1>17. QED
  BY <1>13, <1>14, <1>15, <1>16 DEF CachesStand

\* Every step preserves it.
LEMMA CachesStep == WalletInv /\ WalletInv' /\ CachesStand /\ [WalletNext]_walletVars => CachesStand'
<1> SUFFICES ASSUME WalletInv, WalletInv', CachesStand, [WalletNext]_walletVars PROVE CachesStand'
  OBVIOUS
<1>1. CASE UNCHANGED <<ledger, balance, freeUsed, credited>>
  BY <1>1 DEF CachesStand, CashTaken, FreeTaken
<1>2. ASSUME NEW p \in TopUps, TopUp(p) PROVE CachesStand'
  <2>1. /\ p \notin credited /\ balance' = balance + TopUpAmount /\ credited' = credited \cup {p}
        /\ UNCHANGED <<ledger, freeUsed>>
    BY <1>2 DEF TopUp
  <2>2. IsFiniteSet(credited) /\ TopUpAmount \in Nat
    BY WalletAssumption, FS_Subset DEF CachesStand
  <2>3. Cardinality(credited') = Cardinality(credited) + 1 /\ Cardinality(credited) \in Nat
    BY <2>1, <2>2, FS_AddElement, FS_CardinalityType
  <2>4. \A c \in Nat : TopUpAmount * (c + 1) = TopUpAmount * c + TopUpAmount /\ TopUpAmount * c \in Int
    BY <2>2
  <2>5. TopUpAmount * Cardinality(credited') = TopUpAmount * Cardinality(credited) + TopUpAmount
        /\ TopUpAmount * Cardinality(credited) \in Int
    BY <2>3, <2>4
  <2>6. CashTaken' = CashTaken /\ FreeTaken' = FreeTaken /\ SumOver(CashTaken, FeeOrders) \in Int
    BY <2>1, TakenTyped DEF CashTaken, FreeTaken
  <2>7. balance' = SumOver(CashTaken', FeeOrders) + TopUpAmount * Cardinality(credited')
    BY <2>1, <2>2, <2>5, <2>6 DEF CachesStand
  <2>8. QED
    BY <1>2, <2>1, <2>6, <2>7 DEF CachesStand
<1>3. QED
  BY <1>1, <1>2, EntryAddsUp, OneEntryOrNone

\* The model's sums over the orders.
LEMMA OrdersCash == WalletInv => MapThenSumSet(LAMBDA o : CashOf(o), FeeOrders) = SumOver(CashTaken, FeeOrders)
<1> SUFFICES ASSUME WalletInv
             PROVE  MapThenSumSet(LAMBDA o : CashOf(o), FeeOrders) = SumOver(CashTaken, FeeOrders)
  OBVIOUS
<1> DEFINE T == FeeOrders
           Sums(h) == h = [s \in SUBSET T |-> IF s = {} THEN 0
                             ELSE CashOf(PickOf(s)) + h[s \ {PickOf(s)}]]
           h == CHOOSE h : Sums(h)
<1>1. \A s \in SUBSET T : s # {} => PickOf(s) \in s
  BY DEF PickOf
<1>2. IsFiniteSet(T) /\ \A o \in T : CashTaken[o] = CashOf(o)
  BY WalletAssumption, OrdersLedger, LedgerRead DEF CashTaken, LedgerStands
<1>3. PICK g : Adds(g, CashTaken, T)
  BY <1>2, AddsExists
<1>4. Sums(g)
  BY <1>1, <1>2, <1>3 DEF Adds
<1>5. Sums(h)
  BY <1>4
<1>6. MapThenSumSet(LAMBDA o : CashOf(o), FeeOrders) = h[T]
  BY DEF MapThenSumSet, MapThenFoldSet, PickOf
<1>7. Adds(h, CashTaken, T)
  <2>1. ASSUME NEW k, Sums(k) PROVE Adds(k, CashTaken, T)
    BY <1>1, <1>2, <2>1 DEF Adds
  <2> HIDE DEF h, Sums
  <2>2. QED
    BY <1>5, <2>1
<1>8. QED
  BY <1>2, <1>6, <1>7, SumAdds

LEMMA OrdersFree == WalletInv => MapThenSumSet(LAMBDA o : FreeOf(o), FeeOrders) = SumOver(FreeTaken, FeeOrders)
<1> SUFFICES ASSUME WalletInv
             PROVE  MapThenSumSet(LAMBDA o : FreeOf(o), FeeOrders) = SumOver(FreeTaken, FeeOrders)
  OBVIOUS
<1> DEFINE T == FeeOrders
           Sums(h) == h = [s \in SUBSET T |-> IF s = {} THEN 0
                             ELSE FreeOf(PickOf(s)) + h[s \ {PickOf(s)}]]
           h == CHOOSE h : Sums(h)
<1>1. \A s \in SUBSET T : s # {} => PickOf(s) \in s
  BY DEF PickOf
<1>2. IsFiniteSet(T) /\ \A o \in T : FreeTaken[o] = FreeOf(o)
  BY WalletAssumption, OrdersLedger, LedgerRead DEF FreeTaken, LedgerStands
<1>3. PICK g : Adds(g, FreeTaken, T)
  BY <1>2, AddsExists
<1>4. Sums(g)
  BY <1>1, <1>2, <1>3 DEF Adds
<1>5. Sums(h)
  BY <1>4
<1>6. MapThenSumSet(LAMBDA o : FreeOf(o), FeeOrders) = h[T]
  BY DEF MapThenSumSet, MapThenFoldSet, PickOf
<1>7. Adds(h, FreeTaken, T)
  <2>1. ASSUME NEW k, Sums(k) PROVE Adds(k, FreeTaken, T)
    BY <1>1, <1>2, <2>1 DEF Adds
  <2> HIDE DEF h, Sums
  <2>2. QED
    BY <1>5, <2>1
<1>8. QED
  BY <1>2, <1>6, <1>7, SumAdds

LEMMA CachesRead == WalletInv /\ CachesStand => CachesAddUp
<1> SUFFICES ASSUME WalletInv, CachesStand PROVE CachesAddUp
  OBVIOUS
<1>1. QED
  BY OrdersCash, OrdersFree DEF CachesAddUp, CachesStand

\* However an order is charged, given back and charged again: one fee on it, none
\* of it left once it ended, and no debt beyond the limit but of a fee charged again.
THEOREM FeesFollowOrders == WalletSpec => []FeeFollowsOrder
<1>1. WalletInv /\ CachesStand => FeeFollowsOrder
  <2> SUFFICES ASSUME WalletInv, CachesStand PROVE FeeFollowsOrder
    OBVIOUS
  <2>1. ASSUME NEW o \in FeeOrders
        PROVE  /\ Outstanding(o) = ChargesIn(ledger[o]) /\ CashOf(o) = CashIn(ledger[o])
               /\ FreeOf(o) = FreeIn(ledger[o])
    BY OrdersLedger, LedgerRead DEF LedgerStands
  <2>2. OneFeePerOrder
    BY <2>1, OrdersLedger DEF OneFeePerOrder, LedgerStands
  <2>3. EndedPaysNothing
    BY <2>1, OrdersLedger DEF EndedPaysNothing, LedgerStands, OrderPays
  <2>4. StandingPays
    BY OrdersLedger DEF StandingPays, OrderPays
  <2>5. QED
    BY <2>2, <2>3, <2>4, OwedIsBounded, CachesRead DEF FeeFollowsOrder
<1>2. QED
  BY <1>1, WalletStart, WalletStep, CachesInit, CachesStep, PTL DEF WalletSpec

\* An order's rows keep their kinds and stay within their bound, and
\* free_orders_used never goes below zero, however often a free order is given
\* back (walletService.writeEntry).
THEOREM WalletTyped == WalletSpec => []WalletTypes
<1>1. WalletInv /\ CachesStand => WalletTypes
  <2> SUFFICES ASSUME WalletInv, CachesStand PROVE WalletTypes
    OBVIOUS
  <2>1. ASSUME NEW o \in FeeOrders
        PROVE  /\ feeOrder[o].stage \in {"none", "pending", "confirmed"} \cup Ended
               /\ feeOrder[o].contactLock \in {"none", "unlocked", "due"}
    BY DEF WalletInv, FeeRows
  <2>2. ASSUME NEW o \in FeeOrders
        PROVE  \A i \in DOMAIN ledger[o] : ledger[o][i] \in EntryTypes
    BY OrdersLedger DEF LedgerStands
  <2>3. freeUsed \in Nat
    BY TakenTyped DEF CachesStand
  <2>4. QED
    BY <2>1, <2>2, <2>3 DEF WalletTypes, WalletInv, CachesStand
<1>2. QED
  BY <1>1, WalletStart, WalletStep, CachesInit, CachesStep, PTL DEF WalletSpec
=============================================================================
