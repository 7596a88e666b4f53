--------------------------- MODULE AnalysisJobQueue ---------------------------
(***************************************************************************)
(* The runtime that executes analysis jobs: the analysis_jobs table, the   *)
(* polling workers that acquire its rows, the executor transaction that    *)
(* turns a job into a stored result, and the Telegram delivery the         *)
(* executor makes before it commits.                                       *)
(*                                                                         *)
(* Every database transaction runs at READ COMMITTED: `row' is the         *)
(* committed version of each job, `draft' the version its one uncommitted  *)
(* writer has flushed (equal to `row' when nobody holds the row lock), and *)
(* a plain SELECT reads `row'.                                             *)
(*                                                                         *)
(* Time is a countdown: `lease' is what is left of locked_at + stale       *)
(* timeout, `avail' is available_after minus the current time.             *)
(***************************************************************************)
EXTENDS Integers, FiniteSets

CONSTANTS
  Jobs,            \* ids of analysis_jobs rows
  MemoryJobs,      \* the jobs with a dream_id: memory enrichment, no report
  Workers,         \* runtime workers (one per process, or several in one)
  NoWorker,        \* locked_by = NULL
  MaxAttempts,     \* max_attempts of every job
  BatchSize,       \* ANALYSIS_WORKER_BATCH_SIZE
  MaxConcurrency,  \* ANALYSIS_WORKER_CONCURRENCY
  StaleTimeout,    \* ANALYSIS_JOB_STALE_TIMEOUT_SECONDS, in ticks
  RetryDelay,      \* RETRY_DELAY_SECONDS, in ticks
  AgeCap,          \* bound: a queued job's age beyond this is not told apart
  FaultKinds,      \* the faults that may happen
  MaxFaults,       \* bound: how many of them happen in one behaviour
  MaxOverruns      \* bound: how often the lease of a live execution runs out

Faults == {"crash", "db", "redis", "poll", "expiry", "stop"}

ASSUME JobsAssumption == MemoryJobs \subseteq Jobs /\ IsFiniteSet(Jobs)
ASSUME WorkersAssumption == NoWorker \notin Workers
ASSUME LimitsAssumption ==
  /\ MaxAttempts \in Nat \ {0}
  /\ BatchSize \in Nat \ {0}
  /\ MaxConcurrency \in Nat \ {0}
ASSUME TimeAssumption ==
  /\ StaleTimeout \in Nat \ {0}
  /\ RetryDelay \in Nat
  /\ AgeCap \in Nat
ASSUME FaultsAssumption ==
  /\ FaultKinds \subseteq Faults
  /\ MaxFaults \in Nat
  /\ MaxOverruns \in Nat

VARIABLES
  row,        \* committed analysis_jobs rows
  draft,      \* the uncommitted version of each row
  results,    \* committed result rows bound to each job
  pc,         \* where each worker is with each job of its batch
  snap,       \* the detached AnalysisJob a worker executes: its `attempts'
  stored,     \* the transaction has flushed a result row of the job
  phase,      \* what the loop of each worker is doing
  stopping,   \* AnalysisRuntimeWorker._stopping
  key,        \* Redis holds delivery:key:<job>
  sent,       \* Telegram messages sent for each job
  expired,    \* jobs whose delivery key has passed its 24 hours
  faults, overruns

table == <<row, draft, results>>
hand == <<snap, stored>>
loop == <<pc, hand, phase, stopping>>
delivery == <<key, sent, expired>>
budget == <<faults, overruns>>
vars == <<table, loop, delivery, budget>>

Statuses == {"absent", "queued", "running", "completed", "failed"}

RowType == [status : Statuses, attempts : Nat, avail : Int,
            lockedBy : Workers \cup {NoWorker}, lease : Nat]

(* Steps of one execution, in the order of the code.                       *)
(*   picked, recovered  acquisition flushed, not committed                 *)
(*   waiting            acquired, a later chunk of the batch               *)
(*   run                the pipeline (LLM call, parsing, thread) is running*)
(*   saved              the result row is flushed                          *)
(*   retry, fail        the pipeline has raised                            *)
(*   complete, requeue, markfail   the job was read as RUNNING             *)
(*   deliver, send      COMPLETED is flushed, delivery is under way        *)
(*   commit             the executor has returned                          *)
(*   done               the transaction has ended, the batch has not       *)
Claiming == {"picked", "recovered"}
Settling == {"deliver", "send", "commit"}
Locking == Claiming \cup Settling
Unlocked == {"run", "saved", "retry", "fail", "complete", "requeue", "markfail"}
InTx == Unlocked \cup Settling
Steps == {"none", "waiting", "done"} \cup Claiming \cup InTx

Phases == {"down", "idle", "acquiring", "batch", "dead"}

-----------------------------------------------------------------------------
(* Rows and the locks on them *)

HoldsRow(w, j) == pc[w][j] \in Locking

RowFree(j) == \A w \in Workers : ~HoldsRow(w, j)

(* From the flush of the result to the end of the transaction the result   *)
(* rows of the job (is_latest index, dream_memories key) are locked.       *)
HoldsResult(w, j) == stored[w][j]

Requeued(r, delay) == [r EXCEPT !.status = "queued", !.avail = delay,
                                !.lockedBy = NoWorker, !.lease = 0]

Acquired(r, w) == [r EXCEPT !.status = "running", !.attempts = @ + 1,
                            !.lockedBy = w, !.lease = StaleTimeout]

(* Mutation: a failure is written with a status nothing else knows. *)
ClosedWithError(r, status) ==
  [r EXCEPT !.status = IF status = "failed" THEN "error" ELSE status,
            !.lockedBy = NoWorker, !.lease = 0]

Closed(r, status) == [r EXCEPT !.status = status, !.lockedBy = NoWorker,
                               !.lease = 0]

Aged(r) == [r EXCEPT
  !.avail = IF r.status = "queued" /\ @ > -AgeCap THEN @ - 1 ELSE @,
  !.lease = IF @ > 0 THEN @ - 1 ELSE 0]

(* The versions left when worker w rolls back its changes to jobs S. *)
RolledBack(w, S) ==
  [j \in Jobs |-> IF j \in S /\ HoldsRow(w, j) THEN row[j] ELSE draft[j]]

Move(w, j, step) == pc' = [pc EXCEPT ![w][j] = step]

(* The transaction of the execution is over, committed or rolled back. *)
Leave(w, j) == /\ Move(w, j, "done")
               /\ stored' = [stored EXCEPT ![w][j] = FALSE]

Idle == [j \in Jobs |-> "none"]

Fault(kind) ==
  /\ kind \in FaultKinds
  /\ faults < MaxFaults
  /\ faults' = faults + 1
  /\ UNCHANGED overruns

-----------------------------------------------------------------------------
(* Enqueueing and acquisition *)

CreateJob(j) ==
  /\ row[j].status = "absent"
  /\ LET queued == Requeued(row[j], 0) IN
     /\ row' = [row EXCEPT ![j] = queued]
     /\ draft' = [draft EXCEPT ![j] = queued]
  /\ UNCHANGED <<results, loop, delivery, budget>>

(* Mutations of the stale recovery: it takes failed jobs up again, it is   *)
(* not there.                                                              *)
StaleOrFailed == {j \in Jobs : /\ row[j].status \in {"running", "failed"}
                               /\ row[j].lease = 0
                               /\ RowFree(j)}

StaleNever == {}

Stale == {j \in Jobs : /\ row[j].status = "running"
                       /\ row[j].lease = 0
                       /\ RowFree(j)}

(* What the acquiring transaction sees: the table with the stale rows back *)
(* in the queue.                                                           *)
AfterRecovery ==
  [j \in Jobs |-> IF j \in Stale THEN Requeued(row[j], 0) ELSE row[j]]

(* Mutation: the rows are selected without FOR UPDATE SKIP LOCKED. *)
DueUnlocked == {j \in Jobs : /\ AfterRecovery[j].status = "queued"
                             /\ AfterRecovery[j].avail <= 0}

Due == {j \in Jobs : /\ AfterRecovery[j].status = "queued"
                     /\ AfterRecovery[j].avail <= 0
                     /\ RowFree(j)}

(* LIMIT over ORDER BY available_after; ties are broken arbitrarily. *)
Picks == {S \in SUBSET Due :
            /\ Cardinality(S) <= BatchSize
            /\ S = Due \/ Cardinality(S) = BatchSize
            /\ \A x \in S, y \in Due \ S :
                 AfterRecovery[x].avail <= AfterRecovery[y].avail}

(* run_once up to the commit of the acquiring transaction: recovery of the *)
(* stale rows, then FOR UPDATE SKIP LOCKED over the due ones.  A poll that *)
(* finds nothing changes nothing.                                          *)
Poll(w) ==
  /\ phase[w] = "idle"
  /\ ~stopping[w]
  /\ Due \cup Stale # {}
  /\ \E S \in Picks :
       /\ draft' = [j \in Jobs |-> IF j \in S THEN Acquired(AfterRecovery[j], w)
                                   ELSE IF j \in Stale THEN AfterRecovery[j]
                                   ELSE draft[j]]
       /\ pc' = [pc EXCEPT ![w] = [j \in Jobs |->
                   IF j \in S THEN "picked"
                   ELSE IF j \in Stale THEN "recovered" ELSE "none"]]
  /\ phase' = [phase EXCEPT ![w] = "acquiring"]
  /\ UNCHANGED <<row, results, hand, stopping, delivery, budget>>

CommitAcquire(w) ==
  /\ phase[w] = "acquiring"
  /\ row' = [j \in Jobs |-> IF HoldsRow(w, j) THEN draft[j] ELSE row[j]]
  /\ pc' = [pc EXCEPT ![w] = [j \in Jobs |->
              IF pc[w][j] = "picked" THEN "waiting" ELSE "none"]]
  /\ snap' = [snap EXCEPT ![w] = [j \in Jobs |->
                IF pc[w][j] = "picked" THEN draft[j].attempts ELSE 0]]
  /\ phase' = [phase EXCEPT ![w] =
                 IF \E j \in Jobs : pc[w][j] = "picked" THEN "batch" ELSE "idle"]
  /\ UNCHANGED <<draft, results, stored, stopping, delivery, budget>>

(* A database error while acquiring leaves run_forever: the loop is gone,  *)
(* the process lives on.                                                   *)
PollFails(w) ==
  /\ phase[w] = "acquiring"
  /\ Fault("poll")
  /\ draft' = RolledBack(w, Jobs)
  /\ pc' = [pc EXCEPT ![w] = Idle]
  /\ phase' = [phase EXCEPT ![w] = "dead"]
  /\ UNCHANGED <<row, results, hand, stopping, delivery>>

(* gather over the next max_concurrency jobs, once the last ones are done. *)
StartChunk(w) ==
  /\ phase[w] = "batch"
  /\ \A j \in Jobs : pc[w][j] \notin InTx
  /\ LET waiting == {j \in Jobs : pc[w][j] = "waiting"} IN
     \E C \in SUBSET waiting :
       /\ C # {}
       /\ Cardinality(C) <= MaxConcurrency
       /\ C = waiting \/ Cardinality(C) = MaxConcurrency
       /\ pc' = [pc EXCEPT ![w] = [j \in Jobs |->
                   IF j \in C THEN "run" ELSE pc[w][j]]]
  /\ UNCHANGED <<table, hand, phase, stopping, delivery, budget>>

(* Mutation: a worker that is stopping abandons the rest of its batch. *)
EndBatchAtStop(w) ==
  /\ phase[w] = "batch"
  /\ \A j \in Jobs : pc[w][j] \in {"none", "done"} \/ (stopping[w] /\ pc[w][j] = "waiting")
  /\ pc' = [pc EXCEPT ![w] = Idle]
  /\ snap' = [snap EXCEPT ![w] = [j \in Jobs |-> 0]]
  /\ phase' = [phase EXCEPT ![w] = "idle"]
  /\ UNCHANGED <<table, stored, stopping, delivery, budget>>

EndBatch(w) ==
  /\ phase[w] = "batch"
  /\ \A j \in Jobs : pc[w][j] \in {"none", "done"}
  /\ pc' = [pc EXCEPT ![w] = Idle]
  /\ snap' = [snap EXCEPT ![w] = [j \in Jobs |-> 0]]
  /\ phase' = [phase EXCEPT ![w] = "idle"]
  /\ UNCHANGED <<table, stored, stopping, delivery, budget>>

-----------------------------------------------------------------------------
(* One execution: the pipeline and what its end does to the job *)

(* Mutations: the result is committed on its own; it is not added at all. *)
PersistCommits(w, j) ==
  /\ pc[w][j] = "run"
  /\ \A v \in Workers : ~HoldsResult(v, j)
  /\ Move(w, j, "saved")
  /\ stored' = [stored EXCEPT ![w][j] = TRUE]
  /\ results' = [results EXCEPT ![j] = @ + 1]
  /\ UNCHANGED <<row, draft, snap, phase, stopping, delivery, budget>>

(* The pipeline succeeds and its result is flushed, after any other        *)
(* uncommitted result of the same job.                                     *)
Persist(w, j) ==
  /\ pc[w][j] = "run"
  /\ \A v \in Workers : ~HoldsResult(v, j)
  /\ Move(w, j, "saved")
  /\ stored' = [stored EXCEPT ![w][j] = TRUE]
  /\ UNCHANGED <<table, snap, phase, stopping, delivery, budget>>

(* RetryableAnalysisError, or NonRetryableAnalysisError and anything else. *)
PipelineRaises(w, j) ==
  /\ pc[w][j] = "run"
  /\ \E how \in {"retry", "fail"} : Move(w, j, how)
  /\ UNCHANGED <<table, hand, phase, stopping, delivery, budget>>

(* Mutation: a retryable error is retried whatever max_attempts says. *)
ReadJobRetries(w, j) ==
  /\ pc[w][j] \in {"saved", "retry", "fail"}
  /\ IF row[j].status # "running" THEN Leave(w, j)
     ELSE /\ Move(w, j, CASE pc[w][j] = "saved" -> "complete"
                          [] pc[w][j] = "retry" -> "requeue"
                          [] OTHER -> "markfail")
          /\ UNCHANGED stored
  /\ UNCHANGED <<table, snap, phase, stopping, delivery, budget>>

(* The SELECT of mark_completed, mark_failed or requeue.  It reads the     *)
(* committed status and takes no lock; whoever finds a job that is not     *)
(* RUNNING raises InvalidJobTransitionError and the transaction is undone. *)
ReadJob(w, j) ==
  /\ pc[w][j] \in {"saved", "retry", "fail"}
  /\ IF row[j].status # "running" THEN Leave(w, j)
     ELSE /\ Move(w, j, CASE pc[w][j] = "saved" -> "complete"
                          [] pc[w][j] = "retry" /\ snap[w][j] < MaxAttempts -> "requeue"
                          [] OTHER -> "markfail")
          /\ UNCHANGED stored
  /\ UNCHANGED <<table, snap, phase, stopping, delivery, budget>>

(* Mutations of the end of an execution: memory jobs are delivered too,    *)
(* delivery is forgotten, failed jobs are delivered too, a terminal        *)
(* failure is marked completed.                                            *)
Flush(w, j, deliver, failure) ==
  /\ pc[w][j] \in {"complete", "requeue", "markfail"}
  /\ RowFree(j)
  /\ draft' = [draft EXCEPT ![j] =
       CASE pc[w][j] = "complete" -> Closed(row[j], "completed")
         [] pc[w][j] = "requeue" -> Requeued(row[j], RetryDelay)
         [] OTHER -> Closed(row[j], failure)]
  /\ Move(w, j, IF deliver THEN "deliver" ELSE "commit")
  /\ UNCHANGED <<row, results, hand, phase, stopping, delivery, budget>>

FlushJobForgetsDelivery(w, j) == Flush(w, j, FALSE, "failed")

FlushJobDeliversFailures(w, j) == Flush(w, j, pc[w][j] # "requeue", "failed")

FlushJobCompletesFailures(w, j) == Flush(w, j, pc[w][j] = "complete", "completed")

(* The UPDATE that ends the job: it waits for the row lock and overwrites  *)
(* what it then finds.                                                     *)
FlushJob(w, j) ==
  /\ pc[w][j] \in {"complete", "requeue", "markfail"}
  /\ RowFree(j)
  /\ draft' = [draft EXCEPT ![j] =
       CASE pc[w][j] = "complete" -> Closed(row[j], "completed")
         [] pc[w][j] = "requeue" -> Requeued(row[j], RetryDelay)
         [] OTHER -> Closed(row[j], "failed")]
  /\ Move(w, j, IF pc[w][j] = "complete" /\ j \notin MemoryJobs
                THEN "deliver" ELSE "commit")
  /\ UNCHANGED <<row, results, hand, phase, stopping, delivery, budget>>

(* Memory rows are upserted by dream_id, analyses are inserted. *)
CommitJob(w, j) ==
  /\ pc[w][j] = "commit"
  /\ row' = [row EXCEPT ![j] = draft[j]]
  /\ results' = [results EXCEPT ![j] =
       IF ~stored[w][j] THEN @ ELSE IF j \in MemoryJobs THEN 1 ELSE @ + 1]
  /\ Leave(w, j)
  /\ UNCHANGED <<draft, snap, phase, stopping, delivery, budget>>

(* A database error anywhere in the transaction, commit included, dooms it.*)
AbortJob(w, j) ==
  /\ pc[w][j] \in InTx
  /\ Fault("db")
  /\ draft' = RolledBack(w, {j})
  /\ Leave(w, j)
  /\ UNCHANGED <<row, results, snap, phase, stopping, delivery>>

-----------------------------------------------------------------------------
(* Delivery, between the flush of COMPLETED and the commit *)

(* Mutation: SET without NX, everybody believes to have created the key. *)
TakeDeliveryKeyAgain(w, j) ==
  /\ pc[w][j] = "deliver"
  /\ Move(w, j, "send")
  /\ key' = [key EXCEPT ![j] = TRUE]
  /\ UNCHANGED <<table, hand, phase, stopping, sent, expired, budget>>

(* SET NX: only the caller that creates the key goes on to send. *)
TakeDeliveryKey(w, j) ==
  /\ pc[w][j] = "deliver"
  /\ Move(w, j, IF key[j] THEN "commit" ELSE "send")
  /\ key' = [key EXCEPT ![j] = TRUE]
  /\ UNCHANGED <<table, hand, phase, stopping, sent, expired, budget>>

(* The Redis call raises, with or without effect: nothing catches it and   *)
(* the transaction of the execution is rolled back.                        *)
RedisFails(w, j) ==
  /\ pc[w][j] = "deliver"
  /\ Fault("redis")
  /\ \E taken \in {key[j], TRUE} : key' = [key EXCEPT ![j] = taken]
  /\ draft' = RolledBack(w, {j})
  /\ Leave(w, j)
  /\ UNCHANGED <<row, results, snap, phase, stopping, sent, expired>>

(* send_analysis; an exception of it is logged and forgotten. *)
Send(w, j) ==
  /\ pc[w][j] = "send"
  /\ \E n \in {0, 1} : sent' = [sent EXCEPT ![j] = @ + n]
  /\ Move(w, j, "commit")
  /\ UNCHANGED <<table, hand, phase, stopping, key, expired, budget>>

(* The key outlives every delivery that is under way. *)
KeyExpires(j) ==
  /\ key[j]
  /\ j \notin expired
  /\ \A w \in Workers : pc[w][j] \notin {"send", "commit"}
  /\ Fault("expiry")
  /\ key' = [key EXCEPT ![j] = FALSE]
  /\ expired' = expired \cup {j}
  /\ UNCHANGED <<table, loop, sent>>

-----------------------------------------------------------------------------
(* Processes and time *)

StartWorker(w) ==
  /\ phase[w] = "down"
  /\ phase' = [phase EXCEPT ![w] = "idle"]
  /\ UNCHANGED <<table, pc, hand, stopping, delivery, budget>>

Stop(w) ==
  /\ phase[w] # "down"
  /\ ~stopping[w]
  /\ Fault("stop")
  /\ stopping' = [stopping EXCEPT ![w] = TRUE]
  /\ UNCHANGED <<table, pc, hand, phase, delivery>>

(* Mutations: the loop works off the queue before it ends; a restarted     *)
(* loop still believes it is stopping.                                     *)
ExitWhenDrained(w) ==
  /\ phase[w] \in {"idle", "dead"}
  /\ stopping[w]
  /\ Due = {}
  /\ phase' = [phase EXCEPT ![w] = "down"]
  /\ stopping' = [stopping EXCEPT ![w] = FALSE]
  /\ UNCHANGED <<table, pc, hand, delivery, budget>>

ExitStaysStopped(w) ==
  /\ phase[w] \in {"idle", "dead"}
  /\ stopping[w]
  /\ phase' = [phase EXCEPT ![w] = "down"]
  /\ UNCHANGED <<table, pc, hand, stopping, delivery, budget>>

(* Shutdown awaits the loop, which ends after the current run_once. *)
Exit(w) ==
  /\ phase[w] \in {"idle", "dead"}
  /\ stopping[w]
  /\ phase' = [phase EXCEPT ![w] = "down"]
  /\ stopping' = [stopping EXCEPT ![w] = FALSE]
  /\ UNCHANGED <<table, pc, hand, delivery, budget>>

(* A crash closes the process's connections: its transactions roll back    *)
(* and their locks go; what Redis and Telegram were told stays.            *)
Crash(w) ==
  /\ phase[w] # "down"
  /\ Fault("crash")
  /\ draft' = RolledBack(w, Jobs)
  /\ pc' = [pc EXCEPT ![w] = Idle]
  /\ snap' = [snap EXCEPT ![w] = [j \in Jobs |-> 0]]
  /\ stored' = [stored EXCEPT ![w] = [j \in Jobs |-> FALSE]]
  /\ phase' = [phase EXCEPT ![w] = "down"]
  /\ stopping' = [stopping EXCEPT ![w] = FALSE]
  /\ UNCHANGED <<row, results, delivery>>

(* The lease of a job that worker w has in hand is about to run out. *)
LeaseEnding(w, j) ==
  \/ pc[w][j] = "picked" /\ draft[j].lease = 1
  \/ /\ pc[w][j] \in {"waiting"} \cup Unlocked
     /\ row[j].lockedBy = w
     /\ row[j].lease = 1

Overrun == \E w \in Workers, j \in Jobs : LeaseEnding(w, j)

Tick ==
  /\ IF Overrun
     THEN overruns < MaxOverruns /\ overruns' = overruns + 1
     ELSE UNCHANGED overruns
  /\ row' = [j \in Jobs |-> Aged(row[j])]
  /\ draft' = [j \in Jobs |-> Aged(draft[j])]
  /\ UNCHANGED <<results, loop, delivery, faults>>

-----------------------------------------------------------------------------

Init ==
  /\ row = [j \in Jobs |-> [status |-> "absent", attempts |-> 0, avail |-> 0,
                            lockedBy |-> NoWorker, lease |-> 0]]
  /\ draft = row
  /\ results = [j \in Jobs |-> 0]
  /\ pc = [w \in Workers |-> Idle]
  /\ snap = [w \in Workers |-> [j \in Jobs |-> 0]]
  /\ stored = [w \in Workers |-> [j \in Jobs |-> FALSE]]
  /\ phase = [w \in Workers |-> "down"]
  /\ stopping = [w \in Workers |-> FALSE]
  /\ key = [j \in Jobs |-> FALSE]
  /\ sent = [j \in Jobs |-> 0]
  /\ expired = {}
  /\ faults = 0
  /\ overruns = 0

Execution(w, j) ==
  \/ Persist(w, j) \/ PipelineRaises(w, j) \/ ReadJob(w, j) \/ FlushJob(w, j)
  \/ CommitJob(w, j) \/ TakeDeliveryKey(w, j) \/ Send(w, j)

Loop(w) ==
  \/ StartWorker(w) \/ Exit(w) \/ Poll(w) \/ CommitAcquire(w)
  \/ StartChunk(w) \/ EndBatch(w)

Breaks(w) ==
  \/ Crash(w) \/ Stop(w) \/ PollFails(w)
  \/ \E j \in Jobs : AbortJob(w, j) \/ RedisFails(w, j)

Next ==
  \/ Tick
  \/ \E j \in Jobs : CreateJob(j) \/ KeyExpires(j)
  \/ \E w \in Workers : Loop(w) \/ Breaks(w) \/ \E j \in Jobs : Execution(w, j)

Spec == Init /\ [][Next]_vars

(* A process that is down is started again, a loop that is alive polls,    *)
(* the statements of a transaction go on, every external call has a        *)
(* timeout, time passes.  Nothing brings a dead loop back: its process     *)
(* runs on, and no action of Loop but the Exit of a stop is enabled.       *)
Fairness ==
  /\ WF_vars(Tick)
  /\ \A w \in Workers : /\ WF_vars(Loop(w))
                        /\ \A j \in Jobs : WF_vars(Execution(w, j))

FairSpec == Spec /\ Fairness

-----------------------------------------------------------------------------
(* Properties *)

TypeOK ==
  /\ row \in [Jobs -> RowType]
  /\ draft \in [Jobs -> RowType]
  /\ results \in [Jobs -> Nat]
  /\ pc \in [Workers -> [Jobs -> Steps]]
  /\ snap \in [Workers -> [Jobs -> Nat]]
  /\ stored \in [Workers -> [Jobs -> BOOLEAN]]
  /\ phase \in [Workers -> Phases]
  /\ stopping \in [Workers -> BOOLEAN]
  /\ key \in [Jobs -> BOOLEAN]
  /\ sent \in [Jobs -> Nat]
  /\ expired \in SUBSET Jobs
  /\ faults \in Nat
  /\ overruns \in Nat

(* "each job has at most one active execution context at a time"           *)
(* (async-runtime-layer.md:41).  Two workers are never inside the executor *)
(* transaction of the same job: nothing in execute_analysis_job checks     *)
(* locked_by, so this rests on the lease alone.                            *)
SingleActiveExecution ==
  \A j \in Jobs, v, w \in Workers :
    pc[v][j] \in InTx /\ pc[w][j] \in InTx => v = w

(* Two executions that overlap never work on the same attempt number: the  *)
(* snapshot a worker decides retries with is its own acquisition's.        *)
OneExecutionPerAttempt ==
  \A j \in Jobs, v, w \in Workers :
    v # w /\ snap[v][j] # 0 => snap[v][j] # snap[w][j]

(* attempts exceeds max_attempts only by the acquisitions that stale       *)
(* recovery adds, and each of those needs a fault or an expired lease: the *)
(* executor's requeue alone never oversteps the limit.                     *)
AttemptsBounded ==
  \A j \in Jobs : row[j].attempts <= MaxAttempts + faults + overruns

(* A completed job has a result and nothing but a completed one has: the   *)
(* result row and the COMPLETED status commit together or not at all, and  *)
(* "successful path yields at most one bound analysis per job"             *)
(* (async-runtime-layer.md:60).                                            *)
ResultIffCompleted ==
  \A j \in Jobs : results[j] = IF row[j].status = "completed" THEN 1 ELSE 0

(* Whatever else goes wrong, a completed job is not without its result.    *)
CompletedHasResult ==
  \A j \in Jobs : row[j].status = "completed" => results[j] >= 1

(* "successful path yields at most one bound analysis per job"             *)
(* (async-runtime-layer.md:60), whatever goes wrong: nothing in the table  *)
(* of analyses says so.  Violated when the requeue of a slow execution     *)
(* overwrites the COMPLETED of its successor (requeue).                    *)
AtMostOneResult == \A j \in Jobs : results[j] <= 1

(* At most one Telegram message per job for the life of its Redis key, and *)
(* none while the key has never been taken, however many executions of the *)
(* job overlap, crash or are repeated.                                     *)
AtMostOnceDelivery ==
  \A j \in Jobs :
    /\ sent[j] <= IF j \in expired THEN 2 ELSE 1
    /\ sent[j] > 0 => key[j] \/ j \in expired

(* A job cannot become visible as completed before its delivery has been   *)
(* decided: the key of a completed analysis has been taken.  Memory jobs   *)
(* never touch Redis or Telegram.                                          *)
DeliveryDecided ==
  \A j \in Jobs :
    IF j \in MemoryJobs THEN ~key[j] /\ sent[j] = 0
    ELSE row[j].status = "completed" => key[j] \/ j \in expired

(* The user is told of an analysis before it is committed; that it is then *)
(* missing from the database takes a fault: executions that overrun their  *)
(* lease and overlap do not lose it.                                       *)
MessageHasResult ==
  \A j \in Jobs :
    sent[j] > 0 /\ results[j] = 0 =>
      faults > 0 \/ \E w \in Workers : pc[w][j] = "commit"

(* A worker that is between two batches, or has shut down, leaves no job   *)
(* RUNNING behind unless something broke: stop() lets the batch finish.    *)
NothingLeftRunning ==
  \A w \in Workers, j \in Jobs :
    phase[w] \in {"idle", "down"} => row[j].lockedBy # w

(* "delivery failure does not affect job state" (async-runtime-layer.md:   *)
(* 130), "failures do not affect job completion" (_deliver_completed_      *)
(* analysis): an execution that has reached delivery goes on to commit.    *)
DeliveryKeepsCompletion ==
  [][\A w \in Workers, j \in Jobs :
       pc[w][j] \in {"deliver", "send"} => pc'[w][j] \in {pc[w][j], "send", "commit"}]_vars

Lifecycle == INSTANCE JobLifecycle
  WITH status <- [j \in Jobs |-> row[j].status]

(* The detailed runtime implements the promise about each job. *)
ImplementsLifecycle == Lifecycle!Spec

(* Every job that is enqueued ends, if only finitely much goes wrong:      *)
(* retries run out, and a job whose worker vanished is recovered.  The one *)
(* exception is that every loop has died while polling and stays dead: in  *)
(* the deployment, with its single loop, one error of the acquiring        *)
(* transaction is enough, and every job then waits for the next restart of *)
(* the process.                                                            *)
EveryJobSettles ==
  \/ <>[](\A w \in Workers : phase[w] = "dead")
  \/ \A j \in Jobs : row[j].status \in {"queued", "running"}
                      ~> row[j].status \in {"completed", "failed"}

(* A worker told to stop comes down: the loop never waits for jobs it      *)
(* cannot finish.                                                          *)
ShutdownCompletes == \A w \in Workers : stopping[w] ~> phase[w] = "down"

-----------------------------------------------------------------------------
(* Inductive invariants *)

DeliveryCap(j) == IF j \in expired THEN 2 ELSE 1

(* Row locks exclude each other, so at most one execution of a job is      *)
(* between taking its key and sending; each life of the key pays for one   *)
(* message.  Holds with any number of overlapping executions.              *)
DeliveryInv ==
  /\ \A j \in Jobs, v, w \in Workers : HoldsRow(v, j) /\ HoldsRow(w, j) => v = w
  /\ \A j \in Jobs :
       /\ sent[j] <= DeliveryCap(j)
       /\ ~key[j] => sent[j] < DeliveryCap(j)
       /\ \A w \in Workers : pc[w][j] = "send" => key[j] /\ sent[j] < DeliveryCap(j)

(* Where a worker's loop stands and where its jobs stand.                  *)
PhaseInv ==
  \A w \in Workers, j \in Jobs :
    /\ phase[w] \in {"down", "idle", "dead"} => pc[w][j] = "none"
    /\ phase[w] = "acquiring" => pc[w][j] \in Claiming \cup {"none"}
    /\ phase[w] = "batch" => pc[w][j] \notin Claiming

(* Why a completed job has its result: a transaction that ends in          *)
(* COMPLETED has flushed a result row, and acquisitions, which may be      *)
(* overtaken by an execution they did not know of, never write an end.     *)
BringsResult(w, j) ==
  /\ stored[w][j] <=>
       \/ pc[w][j] \in {"saved", "complete", "deliver", "send"}
       \/ pc[w][j] = "commit" /\ draft[j].status = "completed"
  /\ pc[w][j] \in Claiming => draft[j].status \in {"queued", "running"}
  /\ pc[w][j] \in {"deliver", "send"} => draft[j].status = "completed"
  /\ HoldsRow(w, j) => draft[j].status # "absent"
  /\ pc[w][j] # "none" => row[j].status # "absent"

(* Holds with any number of overlapping executions. *)
CompletionInv ==
  /\ PhaseInv
  /\ \A w \in Workers, j \in Jobs : BringsResult(w, j)
  /\ CompletedHasResult

Engaged(w, j) == pc[w][j] \notin {"none", "done"}

Owns(w, j) == pc[w][j] \in {"waiting"} \cup InTx

Exclusive ==
  \A j \in Jobs, v, w \in Workers : Engaged(v, j) /\ Engaged(w, j) => v = w

(* A worker that has a job in hand is named in its row, works on the       *)
(* current attempt and, until it holds the row lock, has time left.        *)
OwnedRow(w, j) ==
  Owns(w, j) =>
    /\ row[j].status = "running"
    /\ row[j].lockedBy = w
    /\ row[j].attempts = snap[w][j]
    /\ pc[w][j] \in {"waiting"} \cup Unlocked => row[j].lease > 0
    /\ pc[w][j] = "requeue" => snap[w][j] < MaxAttempts
    /\ pc[w][j] \in Settling => draft[j].status \in {"completed", "failed", "queued"}

ClaimedRow(w, j) ==
  /\ pc[w][j] = "picked" =>
       /\ row[j].status \in {"queued", "running"}
       /\ draft[j].status = "running"
       /\ draft[j].lockedBy = w
       /\ draft[j].lease > 0
  /\ pc[w][j] = "recovered" =>
       /\ row[j].status = "running"
       /\ draft[j].status = "queued"

(* What holds when no live execution outlasts its lease (MaxOverruns = 0). *)
PunctualInv ==
  /\ Exclusive
  /\ \A w \in Workers, j \in Jobs : OwnedRow(w, j) /\ ClaimedRow(w, j)
  /\ ResultIffCompleted

(* An execution that can end in COMPLETED has had its delivery decided     *)
(* before it reaches the commit, and memory jobs never reach delivery.     *)
DecidedInv ==
  /\ DeliveryDecided
  /\ \A w \in Workers, j \in Jobs :
       /\ j \in MemoryJobs => pc[w][j] \notin {"deliver", "send"}
       /\ pc[w][j] = "send" => key[j]
       /\ pc[w][j] = "commit" /\ draft[j].status = "completed" /\ j \notin MemoryJobs
            => key[j]

(* The execution that sent the message brings its result along.            *)
MessageInv ==
  \A j \in Jobs :
    sent[j] > 0 /\ results[j] = 0 =>
      faults > 0 \/ \E w \in Workers : pc[w][j] = "commit" /\ stored[w][j]

(* Attempts only grow, and who acquires a job counts beyond every snapshot *)
(* that is still in somebody's hand.                                       *)
SnapshotInv ==
  /\ OneExecutionPerAttempt
  /\ \A j \in Jobs : row[j].attempts <= draft[j].attempts
  /\ \A w \in Workers, j \in Jobs :
       /\ snap[w][j] <= row[j].attempts
       /\ pc[w][j] = "picked" => row[j].attempts < draft[j].attempts

(* What holds when, besides, no transaction fails and no process dies: the *)
(* worker a row names has the job in hand, and gives it up by clearing the *)
(* name.                                                                   *)
NamedInv ==
  \A w \in Workers, j \in Jobs :
    /\ row[j].lockedBy = w => Owns(w, j)
    /\ pc[w][j] \in Settling \cup {"recovered"} => draft[j].lockedBy = NoWorker
=============================================================================
