------------------------ MODULE AnalysisJobQueueProofs ------------------------
(***************************************************************************)
(* Proofs about AnalysisJobQueue for every number of jobs, workers and     *)
(* faults.  Typing, delivery, completed jobs, attempt numbers and their    *)
(* bound are proved without any assumption on timing.  One execution at a  *)
(* time, one result per job and what workers leave behind need             *)
(* MaxOverruns = 0, which says that no worker keeps a job longer than the  *)
(* stale timeout.                                                          *)
(***************************************************************************)
EXTENDS AnalysisJobQueue, FiniteSetTheorems, TLAPS

-----------------------------------------------------------------------------
(* Typing *)

(* The updates of a row that the job service makes, and the passing of     *)
(* time, yield rows.                                                       *)
LEMMA RequeuedTyped ==
  ASSUME NEW r \in RowType, NEW d \in Int PROVE Requeued(r, d) \in RowType
BY DEF RowType, Requeued, Statuses

LEMMA AcquiredTyped ==
  ASSUME NEW r \in RowType, NEW w \in Workers PROVE Acquired(r, w) \in RowType
<1> DEFINE a == r.attempts + 1
<1>1. a \in Nat /\ StaleTimeout \in Nat
  BY TimeAssumption DEF RowType
<1>2. Acquired(r, w) = [r EXCEPT !.status = "running", !.attempts = a,
                                 !.lockedBy = w, !.lease = StaleTimeout]
  BY DEF Acquired
<1> HIDE DEF a
<1> QED
  BY <1>1, <1>2 DEF RowType, Statuses

LEMMA ClosedTyped ==
  ASSUME NEW r \in RowType, NEW s \in Statuses PROVE Closed(r, s) \in RowType
BY DEF RowType, Closed, Statuses

LEMMA AgedTyped == ASSUME NEW r \in RowType PROVE Aged(r) \in RowType
<1> DEFINE a == IF r.status = "queued" /\ r.avail > -AgeCap THEN r.avail - 1 ELSE r.avail
           l == IF r.lease > 0 THEN r.lease - 1 ELSE 0
<1>1. a \in Int /\ l \in Nat
  BY TimeAssumption DEF RowType
<1>2. Aged(r) = [r EXCEPT !.avail = a, !.lease = l]
  BY DEF Aged
<1> HIDE DEF a, l
<1> QED
  BY <1>1, <1>2 DEF RowType

LEMMA RowsTyped ==
  ASSUME TypeOK, NEW j \in Jobs PROVE row[j] \in RowType /\ draft[j] \in RowType
BY DEF TypeOK

(* Rolling back one worker leaves a version of every row. *)
LEMMA RollbackTyped ==
  ASSUME TypeOK, NEW w \in Workers, NEW S
  PROVE  RolledBack(w, S) \in [Jobs -> RowType]
BY DEF TypeOK, RolledBack

(* The table as an acquiring transaction sees it is a table. *)
LEMMA RecoveryTyped ==
  ASSUME TypeOK
  PROVE  AfterRecovery \in [Jobs -> RowType]
<1>1. \A j \in Jobs : row[j] \in RowType /\ Requeued(row[j], 0) \in RowType
  BY RowsTyped, RequeuedTyped
<1> QED
  BY <1>1 DEF AfterRecovery

(* Moving one job of one worker keeps the step of every job defined. *)
LEMMA MoveTyped ==
  ASSUME TypeOK, NEW w \in Workers, NEW j \in Jobs, NEW s \in Steps, Move(w, j, s)
  PROVE  pc' \in [Workers -> [Jobs -> Steps]]
BY DEF TypeOK, Move

(* So does ending its transaction, which forgets the flushed result. *)
LEMMA LeaveTyped ==
  ASSUME TypeOK, NEW w \in Workers, NEW j \in Jobs, Leave(w, j)
  PROVE  /\ pc' \in [Workers -> [Jobs -> Steps]]
         /\ stored' \in [Workers -> [Jobs -> BOOLEAN]]
BY MoveTyped DEF Leave, TypeOK, Steps

LEMMA StepSets ==
  /\ {"none", "waiting", "done"} \subseteq Steps
  /\ Claiming \subseteq Steps
  /\ InTx \subseteq Steps
BY DEF Steps

LEMMA FaultTyped == ASSUME TypeOK, NEW k, Fault(k) PROVE faults' \in Nat /\ overruns' \in Nat
BY DEF TypeOK, Fault

LEMMA TypeInit == Init => TypeOK
BY DEF Init, TypeOK, RowType, Statuses, Idle, Steps, Phases

(* The type invariant survives every step. *)
LEMMA TypeStep == TypeOK /\ [Next]_vars => TypeOK'
<1> SUFFICES ASSUME TypeOK, [Next]_vars PROVE TypeOK'
  OBVIOUS
<1> USE DEF vars, table, hand, loop, delivery, budget
<1>1. CASE Tick
  <2>1. \A j \in Jobs : Aged(row[j]) \in RowType /\ Aged(draft[j]) \in RowType
    BY RowsTyped, AgedTyped
  <2>2. row' \in [Jobs -> RowType] /\ draft' \in [Jobs -> RowType]
    BY <1>1, <2>1 DEF Tick
  <2> QED
    BY <1>1, <2>2 DEF Tick, TypeOK
<1>2. ASSUME NEW j \in Jobs, CreateJob(j) PROVE TypeOK'
  <2>1. Requeued(row[j], 0) \in RowType
    BY RowsTyped, RequeuedTyped
  <2> QED
    BY <1>2, <2>1 DEF CreateJob, TypeOK
<1>3. ASSUME NEW j \in Jobs, KeyExpires(j) PROVE TypeOK'
  BY <1>3, FaultTyped DEF KeyExpires, TypeOK
<1>4. ASSUME NEW w \in Workers, Loop(w) PROVE TypeOK'
  <2>1. CASE StartWorker(w)
    BY <2>1 DEF StartWorker, TypeOK, Phases
  <2>2. CASE Exit(w)
    BY <2>2 DEF Exit, TypeOK, Phases
  <2>3. CASE Poll(w)
    <3>1. PICK S \in Picks :
            /\ draft' = [j \in Jobs |-> IF j \in S THEN Acquired(AfterRecovery[j], w)
                                        ELSE IF j \in Stale THEN AfterRecovery[j]
                                        ELSE draft[j]]
            /\ pc' = [pc EXCEPT ![w] = [j \in Jobs |->
                        IF j \in S THEN "picked"
                        ELSE IF j \in Stale THEN "recovered" ELSE "none"]]
      BY <2>3 DEF Poll
    <3>2. draft' \in [Jobs -> RowType]
      BY <3>1, AcquiredTyped, RecoveryTyped DEF TypeOK
    <3>3. pc' \in [Workers -> [Jobs -> Steps]]
      BY <3>1 DEF TypeOK, Steps, Claiming
    <3> QED
      BY <2>3, <3>2, <3>3 DEF Poll, TypeOK, Phases
  <2>4. CASE CommitAcquire(w)
    <3>1. row' \in [Jobs -> RowType]
      BY <2>4 DEF CommitAcquire, TypeOK
    <3>2. pc' \in [Workers -> [Jobs -> Steps]]
      BY <2>4 DEF CommitAcquire, TypeOK, Steps
    <3>3. snap' \in [Workers -> [Jobs -> Nat]]
      BY <2>4 DEF CommitAcquire, TypeOK, RowType
    <3>4. phase' \in [Workers -> Phases]
      BY <2>4 DEF CommitAcquire, TypeOK, Phases
    <3> QED
      BY <2>4, <3>1, <3>2, <3>3, <3>4 DEF CommitAcquire, TypeOK
  <2>5. CASE StartChunk(w)
    BY <2>5 DEF StartChunk, TypeOK, Steps, InTx, Unlocked
  <2>6. CASE EndBatch(w)
    BY <2>6 DEF EndBatch, TypeOK, Steps, Phases, Idle
  <2> QED
    BY <1>4, <2>1, <2>2, <2>3, <2>4, <2>5, <2>6 DEF Loop
<1>5. ASSUME NEW w \in Workers, Breaks(w) PROVE TypeOK'
  <2>1. CASE Crash(w)
    BY <2>1, FaultTyped, RollbackTyped DEF Crash, TypeOK, Steps, Phases, Idle
  <2>2. CASE Stop(w)
    BY <2>2, FaultTyped DEF Stop, TypeOK
  <2>3. CASE PollFails(w)
    BY <2>3, FaultTyped, RollbackTyped DEF PollFails, TypeOK, Steps, Phases, Idle
  <2>4. ASSUME NEW j \in Jobs, AbortJob(w, j) PROVE TypeOK'
    BY <2>4, FaultTyped, RollbackTyped, LeaveTyped DEF AbortJob, TypeOK
  <2>5. ASSUME NEW j \in Jobs, RedisFails(w, j) PROVE TypeOK'
    <3>1. key' \in [Jobs -> BOOLEAN]
      BY <2>5 DEF RedisFails, TypeOK
    <3> QED
      BY <2>5, <3>1, FaultTyped, RollbackTyped, LeaveTyped DEF RedisFails, TypeOK
  <2> QED
    BY <1>5, <2>1, <2>2, <2>3, <2>4, <2>5 DEF Breaks
<1>6. ASSUME NEW w \in Workers, NEW j \in Jobs, Execution(w, j) PROVE TypeOK'
  <2> USE StepSets, MoveTyped DEF InTx, Unlocked, Settling
  <2>1. CASE Persist(w, j)
    BY <2>1 DEF Persist, TypeOK
  <2>2. CASE PipelineRaises(w, j)
    BY <2>2 DEF PipelineRaises, TypeOK
  <2>3. CASE ReadJob(w, j)
    <3>1. CASE Leave(w, j)
      BY <2>3, <3>1, LeaveTyped DEF ReadJob, TypeOK
    <3>2. CASE ~Leave(w, j)
      BY <2>3, <3>2 DEF ReadJob, TypeOK
    <3> QED
      BY <3>1, <3>2
  <2>4. CASE FlushJob(w, j)
    <3>1. /\ Closed(row[j], "completed") \in RowType
          /\ Closed(row[j], "failed") \in RowType
          /\ Requeued(row[j], RetryDelay) \in RowType
      BY RowsTyped, ClosedTyped, RequeuedTyped, TimeAssumption DEF Statuses
    <3>2. draft' \in [Jobs -> RowType]
      BY <2>4, <3>1 DEF FlushJob, TypeOK
    <3> QED
      BY <2>4, <3>2 DEF FlushJob, TypeOK
  <2>5. CASE CommitJob(w, j)
    BY <2>5, LeaveTyped DEF CommitJob, TypeOK
  <2>6. CASE TakeDeliveryKey(w, j)
    BY <2>6 DEF TakeDeliveryKey, TypeOK
  <2>7. CASE Send(w, j)
    BY <2>7 DEF Send, TypeOK
  <2> QED
    BY <1>6, <2>1, <2>2, <2>3, <2>4, <2>5, <2>6, <2>7 DEF Execution
<1>7. CASE UNCHANGED vars
  BY <1>7 DEF TypeOK
<1> QED
  BY <1>1, <1>2, <1>3, <1>4, <1>5, <1>6, <1>7 DEF Next

(* Every reachable state of the runtime is well typed: the job table, the  *)
(* loop of each worker and the delivery keys keep their shape through      *)
(* every interleaving, crash and rollback.                                 *)
THEOREM TypeCorrect == Spec => []TypeOK
BY TypeInit, TypeStep, PTL DEF Spec

-----------------------------------------------------------------------------
(* Delivery *)

(* What moving one job does to the steps of all. *)
LEMMA MoveEffect ==
  ASSUME TypeOK, NEW w \in Workers, NEW j \in Jobs, NEW s, Move(w, j, s)
  PROVE  \A v \in Workers, i \in Jobs :
           pc'[v][i] = IF v = w /\ i = j THEN s ELSE pc[v][i]
BY DEF TypeOK, Move

(* A step that leaves Redis and Telegram alone, takes only row locks that  *)
(* are free and brings nobody to "send", preserves the invariant.          *)
LEMMA DeliveryFrame ==
  ASSUME TypeOK, DeliveryInv, UNCHANGED delivery, NEW w \in Workers,
         \A v \in Workers, j \in Jobs :
           /\ pc'[v][j] = "send" => pc[v][j] = "send"
           /\ pc'[v][j] \in Locking => HoldsRow(v, j) \/ (v = w /\ RowFree(j))
  PROVE  DeliveryInv'
<1>1. ASSUME NEW j \in Jobs, NEW u \in Workers, NEW v \in Workers,
             HoldsRow(u, j)', HoldsRow(v, j)'
      PROVE  u = v
  BY <1>1 DEF DeliveryInv, HoldsRow, RowFree
<1>2. ASSUME NEW j \in Jobs PROVE DeliveryCap(j)' = DeliveryCap(j)
  BY DEF DeliveryCap, delivery
<1> QED
  BY <1>1, <1>2 DEF DeliveryInv, delivery

LEMMA DeliveryInit == Init => DeliveryInv
BY DEF Init, DeliveryInv, DeliveryCap, HoldsRow, Idle, Locking, Claiming, Settling

(* Between taking the key and sending, the row lock keeps everybody else   *)
(* away, so a key that is created is spent on at most one message.         *)
LEMMA DeliveryStep == TypeOK /\ DeliveryInv /\ [Next]_vars => DeliveryInv'
<1> SUFFICES ASSUME TypeOK, DeliveryInv, [Next]_vars PROVE DeliveryInv'
  OBVIOUS
<1> USE DEF vars, table, hand, loop, delivery, budget, Leave, Locking, Claiming, Settling
<1>1. CASE Tick
  BY <1>1 DEF Tick, DeliveryInv, DeliveryCap, HoldsRow
<1>2. ASSUME NEW j \in Jobs, CreateJob(j) PROVE DeliveryInv'
  BY <1>2 DEF CreateJob, DeliveryInv, DeliveryCap, HoldsRow
<1>3. ASSUME NEW j \in Jobs, KeyExpires(j) PROVE DeliveryInv'
  <2>1. /\ key' = [key EXCEPT ![j] = FALSE] /\ expired' = expired \cup {j}
        /\ j \notin expired /\ UNCHANGED <<pc, sent>>
        /\ \A v \in Workers : pc[v][j] # "send"
    BY <1>3 DEF KeyExpires
  <2>2. sent[j] <= 1 /\ sent[j] \in Nat
    BY <2>1 DEF DeliveryInv, DeliveryCap, TypeOK
  <2>3. ASSUME NEW i \in Jobs
        PROVE  /\ sent'[i] <= DeliveryCap(i)'
               /\ ~key'[i] => sent'[i] < DeliveryCap(i)'
               /\ \A v \in Workers : pc'[v][i] = "send" => key'[i] /\ sent'[i] < DeliveryCap(i)'
    <3>1. CASE i = j
      BY <2>1, <2>2, <3>1 DEF DeliveryCap
    <3>2. CASE i # j
      BY <2>1, <3>2 DEF DeliveryInv, DeliveryCap, TypeOK
    <3> QED
      BY <3>1, <3>2
  <2> QED
    BY <2>1, <2>3 DEF DeliveryInv, HoldsRow
<1>4. ASSUME NEW w \in Workers, Loop(w) PROVE DeliveryInv'
  <2>1. CASE StartWorker(w)
    BY <2>1 DEF StartWorker, DeliveryInv, DeliveryCap, HoldsRow
  <2>2. CASE Exit(w)
    BY <2>2 DEF Exit, DeliveryInv, DeliveryCap, HoldsRow
  <2>3. CASE Poll(w)
    <3>1. PICK S \in Picks :
            pc' = [pc EXCEPT ![w] = [j \in Jobs |->
                     IF j \in S THEN "picked"
                     ELSE IF j \in Stale THEN "recovered" ELSE "none"]]
      BY <2>3 DEF Poll
    <3>2. \A j \in Jobs : j \in S \cup Stale => RowFree(j)
      BY DEF Picks, Due, Stale
    <3>3. ASSUME NEW v \in Workers, NEW j \in Jobs
          PROVE  /\ pc'[v][j] = "send" => pc[v][j] = "send"
                 /\ pc'[v][j] \in Locking => HoldsRow(v, j) \/ (v = w /\ RowFree(j))
      BY <3>1, <3>2 DEF TypeOK, HoldsRow
    <3> QED
      BY <2>3, <3>3, DeliveryFrame DEF Poll
  <2>4. CASE CommitAcquire(w)
    <3>1. ASSUME NEW v \in Workers, NEW j \in Jobs
          PROVE  /\ pc'[v][j] = "send" => pc[v][j] = "send"
                 /\ pc'[v][j] \in Locking => HoldsRow(v, j)
      BY <2>4 DEF CommitAcquire, TypeOK, HoldsRow
    <3> QED
      BY <2>4, <3>1, DeliveryFrame DEF CommitAcquire
  <2>5. CASE StartChunk(w)
    <3>1. ASSUME NEW v \in Workers, NEW j \in Jobs
          PROVE  /\ pc'[v][j] = "send" => pc[v][j] = "send"
                 /\ pc'[v][j] \in Locking => HoldsRow(v, j)
      BY <2>5 DEF StartChunk, TypeOK, HoldsRow
    <3> QED
      BY <2>5, <3>1, DeliveryFrame DEF StartChunk
  <2>6. CASE EndBatch(w)
    <3>1. ASSUME NEW v \in Workers, NEW j \in Jobs
          PROVE  /\ pc'[v][j] = "send" => pc[v][j] = "send"
                 /\ pc'[v][j] \in Locking => HoldsRow(v, j)
      BY <2>6 DEF EndBatch, TypeOK, HoldsRow, Idle
    <3> QED
      BY <2>6, <3>1, DeliveryFrame DEF EndBatch
  <2> QED
    BY <1>4, <2>1, <2>2, <2>3, <2>4, <2>5, <2>6 DEF Loop
<1>5. ASSUME NEW w \in Workers, Breaks(w) PROVE DeliveryInv'
  <2>1. CASE Crash(w)
    <3>1. ASSUME NEW v \in Workers, NEW j \in Jobs
          PROVE  /\ pc'[v][j] = "send" => pc[v][j] = "send"
                 /\ pc'[v][j] \in Locking => HoldsRow(v, j)
      BY <2>1 DEF Crash, TypeOK, HoldsRow, Idle
    <3> QED
      BY <2>1, <3>1, DeliveryFrame DEF Crash
  <2>2. CASE Stop(w)
    BY <2>2 DEF Stop, DeliveryInv, DeliveryCap, HoldsRow
  <2>3. CASE PollFails(w)
    <3>1. ASSUME NEW v \in Workers, NEW j \in Jobs
          PROVE  /\ pc'[v][j] = "send" => pc[v][j] = "send"
                 /\ pc'[v][j] \in Locking => HoldsRow(v, j)
      BY <2>3 DEF PollFails, TypeOK, HoldsRow, Idle
    <3> QED
      BY <2>3, <3>1, DeliveryFrame DEF PollFails
  <2>4. ASSUME NEW j \in Jobs, AbortJob(w, j) PROVE DeliveryInv'
    <3>1. ASSUME NEW v \in Workers, NEW i \in Jobs
          PROVE  /\ pc'[v][i] = "send" => pc[v][i] = "send"
                 /\ pc'[v][i] \in Locking => HoldsRow(v, i)
      BY <2>4, MoveEffect DEF AbortJob, HoldsRow
    <3> QED
      BY <2>4, <3>1, DeliveryFrame DEF AbortJob
  <2>5. ASSUME NEW j \in Jobs, RedisFails(w, j) PROVE DeliveryInv'
    <3>1. PICK taken \in {key[j], TRUE} : key' = [key EXCEPT ![j] = taken]
      BY <2>5 DEF RedisFails
    <3>2. UNCHANGED <<sent, expired>> /\ Move(w, j, "done")
      BY <2>5 DEF RedisFails
    <3>3. ASSUME NEW v \in Workers, NEW i \in Jobs
          PROVE  /\ pc'[v][i] = "send" => pc[v][i] = "send"
                 /\ pc'[v][i] \in Locking => HoldsRow(v, i)
      BY <3>2, MoveEffect DEF HoldsRow
    <3>4. ASSUME NEW i \in Jobs PROVE key[i] => key'[i]
      BY <3>1 DEF TypeOK
    <3>5. ASSUME NEW i \in Jobs PROVE DeliveryCap(i)' = DeliveryCap(i)
      BY <3>2 DEF DeliveryCap
    <3> QED
      BY <3>2, <3>3, <3>4, <3>5 DEF DeliveryInv, HoldsRow
  <2> QED
    BY <1>5, <2>1, <2>2, <2>3, <2>4, <2>5 DEF Breaks
<1>6. ASSUME NEW w \in Workers, NEW j \in Jobs, Execution(w, j) PROVE DeliveryInv'
  <2>1. CASE Persist(w, j)
    <3>1. ASSUME NEW v \in Workers, NEW i \in Jobs
          PROVE  /\ pc'[v][i] = "send" => pc[v][i] = "send"
                 /\ pc'[v][i] \in Locking => HoldsRow(v, i)
      BY <2>1, MoveEffect DEF Persist, HoldsRow
    <3> QED
      BY <2>1, <3>1, DeliveryFrame DEF Persist
  <2>2. CASE PipelineRaises(w, j)
    <3>1. ASSUME NEW v \in Workers, NEW i \in Jobs
          PROVE  /\ pc'[v][i] = "send" => pc[v][i] = "send"
                 /\ pc'[v][i] \in Locking => HoldsRow(v, i)
      BY <2>2, MoveEffect DEF PipelineRaises, HoldsRow
    <3> QED
      BY <2>2, <3>1, DeliveryFrame DEF PipelineRaises
  <2>3. CASE ReadJob(w, j)
    <3>1. PICK s : Move(w, j, s) /\ s \in {"done", "complete", "requeue", "markfail"}
      BY <2>3 DEF ReadJob
    <3>2. ASSUME NEW v \in Workers, NEW i \in Jobs
          PROVE  /\ pc'[v][i] = "send" => pc[v][i] = "send"
                 /\ pc'[v][i] \in Locking => HoldsRow(v, i)
      BY <3>1, MoveEffect DEF HoldsRow
    <3> QED
      BY <2>3, <3>2, DeliveryFrame DEF ReadJob
  <2>4. CASE FlushJob(w, j)
    <3>1. PICK s : Move(w, j, s) /\ s \in {"deliver", "commit"}
      BY <2>4 DEF FlushJob
    <3>2. ASSUME NEW v \in Workers, NEW i \in Jobs
          PROVE  /\ pc'[v][i] = "send" => pc[v][i] = "send"
                 /\ pc'[v][i] \in Locking => HoldsRow(v, i) \/ (v = w /\ RowFree(i))
      BY <2>4, <3>1, MoveEffect DEF FlushJob, HoldsRow
    <3> QED
      BY <2>4, <3>2, DeliveryFrame DEF FlushJob
  <2>5. CASE CommitJob(w, j)
    <3>1. ASSUME NEW v \in Workers, NEW i \in Jobs
          PROVE  /\ pc'[v][i] = "send" => pc[v][i] = "send"
                 /\ pc'[v][i] \in Locking => HoldsRow(v, i)
      BY <2>5, MoveEffect DEF CommitJob, HoldsRow
    <3> QED
      BY <2>5, <3>1, DeliveryFrame DEF CommitJob
  <2>6. CASE TakeDeliveryKey(w, j)
    <3>1. /\ pc[w][j] = "deliver" /\ key' = [key EXCEPT ![j] = TRUE]
          /\ Move(w, j, IF key[j] THEN "commit" ELSE "send")
          /\ UNCHANGED <<sent, expired>>
      BY <2>6 DEF TakeDeliveryKey
    <3>2. ASSUME NEW v \in Workers, NEW i \in Jobs
          PROVE  /\ pc'[v][i] \in Locking => HoldsRow(v, i)
                 /\ pc'[v][i] = "send" => pc[v][i] = "send" \/ (i = j /\ ~key[j])
      BY <3>1, MoveEffect DEF HoldsRow
    <3>3. ASSUME NEW i \in Jobs
          PROVE  DeliveryCap(i)' = DeliveryCap(i) /\ (key[i] \/ i = j => key'[i])
                 /\ (key'[i] => key[i] \/ i = j)
      BY <3>1 DEF DeliveryCap, TypeOK
    <3> QED
      BY <3>1, <3>2, <3>3 DEF DeliveryInv, HoldsRow
  <2>7. CASE Send(w, j)
    <3>1. PICK n \in {0, 1} : sent' = [sent EXCEPT ![j] = @ + n]
      BY <2>7 DEF Send
    <3>2. pc[w][j] = "send" /\ Move(w, j, "commit") /\ UNCHANGED <<key, expired>>
      BY <2>7 DEF Send
    <3>3. ASSUME NEW v \in Workers, NEW i \in Jobs
          PROVE  /\ pc'[v][i] \in Locking => HoldsRow(v, i)
                 /\ pc'[v][i] = "send" => pc[v][i] = "send" /\ i # j
      BY <3>2, MoveEffect DEF DeliveryInv, HoldsRow
    <3>4. ASSUME NEW i \in Jobs
          PROVE  /\ DeliveryCap(i)' = DeliveryCap(i)
                 /\ i # j => sent'[i] = sent[i]
                 /\ sent'[j] <= DeliveryCap(j) /\ key[j]
      BY <3>1, <3>2 DEF DeliveryCap, DeliveryInv, TypeOK
    <3> QED
      BY <3>2, <3>3, <3>4 DEF DeliveryInv, HoldsRow
  <2> QED
    BY <1>6, <2>1, <2>2, <2>3, <2>4, <2>5, <2>6, <2>7 DEF Execution
<1>7. CASE UNCHANGED vars
  BY <1>7 DEF DeliveryInv, DeliveryCap, HoldsRow
<1> QED
  BY <1>1, <1>2, <1>3, <1>4, <1>5, <1>6, <1>7 DEF Next

(* However many executions of a job overlap, crash or are repeated, its    *)
(* user gets at most one message for each life of the delivery key that    *)
(* acquire_delivery_lock creates, and none without the key.                *)
THEOREM DeliveryAtMostOnce == Spec => []AtMostOnceDelivery
<1>1. TypeOK /\ DeliveryInv => AtMostOnceDelivery
  BY DEF TypeOK, DeliveryInv, AtMostOnceDelivery, DeliveryCap
<1> QED
  BY <1>1, TypeInit, TypeStep, DeliveryInit, DeliveryStep, PTL DEF Spec

-----------------------------------------------------------------------------
(* Completed jobs and their results *)

LEMMA CompletionInit == Init => CompletionInv
BY DEF Init, CompletionInv, PhaseInv, BringsResult, CompletedHasResult, HoldsRow,
       Idle, Locking, Claiming, Settling

(* A step of an execution moves one job of a worker in its batch. *)
LEMMA ExecutionMoves ==
  ASSUME NEW w \in Workers, NEW j \in Jobs,
         Execution(w, j) \/ AbortJob(w, j) \/ RedisFails(w, j)
  PROVE  /\ pc[w][j] \in InTx
         /\ \E s \in InTx \cup {"done"} : Move(w, j, s)
         /\ UNCHANGED phase
<1> USE DEF InTx, Unlocked, Settling, hand, loop, Leave
<1>1. CASE Execution(w, j)
  BY <1>1 DEF Execution, Persist, PipelineRaises, ReadJob, FlushJob, CommitJob,
              TakeDeliveryKey, Send
<1>2. CASE AbortJob(w, j) \/ RedisFails(w, j)
  BY <1>2 DEF AbortJob, RedisFails
<1> QED
  BY <1>1, <1>2

(* The loop and the steps of its jobs go together. *)
LEMMA PhaseStep == TypeOK /\ PhaseInv /\ [Next]_vars => PhaseInv'
<1> SUFFICES ASSUME TypeOK, PhaseInv, [Next]_vars PROVE PhaseInv'
  OBVIOUS
<1> USE DEF vars, table, hand, loop, delivery, budget
<1>1. CASE UNCHANGED <<pc, phase>>
  BY <1>1 DEF PhaseInv
<1>2. ASSUME NEW w \in Workers, NEW j \in Jobs,
             Execution(w, j) \/ AbortJob(w, j) \/ RedisFails(w, j)
      PROVE  PhaseInv'
  <2>1. PICK s \in InTx \cup {"done"} : Move(w, j, s)
    BY <1>2, ExecutionMoves
  <2>2. pc[w][j] \in InTx /\ UNCHANGED phase
    BY <1>2, ExecutionMoves
  <2>3. pc[w][j] \notin Claiming \cup {"none"} /\ s \notin Claiming
    BY <2>2 DEF InTx, Unlocked, Settling, Claiming
  <2>4. phase[w] = "batch"
    BY <2>3 DEF PhaseInv, TypeOK, Phases
  <2>5. \A v \in Workers, i \in Jobs :
          pc'[v][i] = IF v = w /\ i = j THEN s ELSE pc[v][i]
    BY <2>1, MoveEffect
  <2> QED
    BY <2>2, <2>3, <2>4, <2>5 DEF PhaseInv
<1>3. ASSUME NEW w \in Workers, Loop(w) \/ Crash(w) \/ PollFails(w)
      PROVE  PhaseInv'
  <2>1. \A v \in Workers : v # w => pc'[v] = pc[v] /\ phase'[v] = phase[v]
    BY <1>3 DEF Loop, StartWorker, Exit, Poll, CommitAcquire, StartChunk, EndBatch,
                Crash, PollFails, TypeOK
  <2>2. ASSUME NEW j \in Jobs
        PROVE  /\ phase'[w] \in {"down", "idle", "dead"} => pc'[w][j] = "none"
               /\ phase'[w] = "acquiring" => pc'[w][j] \in Claiming \cup {"none"}
               /\ phase'[w] = "batch" => pc'[w][j] \notin Claiming
    <3> USE DEF Claiming
    <3>1. CASE StartWorker(w) \/ Exit(w)
      BY <3>1 DEF StartWorker, Exit, PhaseInv, TypeOK
    <3>2. CASE Poll(w)
      BY <3>2 DEF Poll, TypeOK
    <3>3. CASE CommitAcquire(w)
      BY <3>3 DEF CommitAcquire, TypeOK
    <3>4. CASE StartChunk(w)
      BY <3>4 DEF StartChunk, PhaseInv, TypeOK
    <3>5. CASE EndBatch(w)
      BY <3>5 DEF EndBatch, TypeOK, Idle
    <3>6. CASE Crash(w) \/ PollFails(w)
      BY <3>6 DEF Crash, PollFails, TypeOK, Idle
    <3> QED
      BY <1>3, <3>1, <3>2, <3>3, <3>4, <3>5, <3>6 DEF Loop
  <2> QED
    BY <2>1, <2>2 DEF PhaseInv
<1>4. Tick \/ (\E j \in Jobs : CreateJob(j) \/ KeyExpires(j))
        \/ (\E w \in Workers : Stop(w)) \/ UNCHANGED vars => UNCHANGED <<pc, phase>>
  BY DEF Tick, CreateJob, KeyExpires, Stop
<1> QED
  BY <1>1, <1>2, <1>3, <1>4 DEF Next, Breaks

(* What a step that only moves a job inside its execution must respect.    *)
LEMMA CompletionMove ==
  ASSUME TypeOK, DeliveryInv, CompletionInv, NEW w \in Workers, NEW j \in Jobs,
         NEW s \in InTx \cup {"done"}, Move(w, j, s), pc[w][j] \in InTx,
         PhaseInv', UNCHANGED <<row, results>>,
         \A v \in Workers, i \in Jobs : v # w \/ i # j => stored'[v][i] = stored[v][i],
         \A i \in Jobs : i # j => draft'[i] = draft[i],
         \A v \in Workers : v # w /\ HoldsRow(v, j) => draft'[j] = draft[j],
         stored'[w][j] <=>
           \/ s \in {"saved", "complete", "deliver", "send"}
           \/ s = "commit" /\ draft'[j].status = "completed",
         s \in {"deliver", "send"} => draft'[j].status = "completed",
         s = "commit" => draft'[j].status # "absent"
  PROVE  CompletionInv'
<1>1. \A v \in Workers, i \in Jobs :
        pc'[v][i] = IF v = w /\ i = j THEN s ELSE pc[v][i]
  BY MoveEffect
<1>2. s \notin Claiming \cup {"none"} /\ pc[w][j] # "none"
  BY DEF InTx, Unlocked, Settling, Claiming
<1>3. ASSUME NEW v \in Workers, NEW i \in Jobs PROVE BringsResult(v, i)'
  <2>1. BringsResult(v, i)
    BY DEF CompletionInv
  <2>2. CASE v = w /\ i = j
    BY <1>1, <1>2, <2>1, <2>2 DEF BringsResult, HoldsRow, Locking, Settling
  <2>3. CASE v = w /\ i # j
    BY <1>1, <2>1, <2>3 DEF BringsResult, HoldsRow
  <2>4. CASE v # w
    <3>1. HoldsRow(v, i) => draft'[i] = draft[i]
      BY <2>4
    <3> QED
      BY <1>1, <2>1, <2>4, <3>1 DEF BringsResult, HoldsRow, Locking, Settling
  <2> QED
    BY <2>2, <2>3, <2>4
<1>4. CompletedHasResult'
  BY DEF CompletionInv, CompletedHasResult
<1> QED
  BY <1>3, <1>4 DEF CompletionInv

(* The steps of one execution, failed ones included. *)
LEMMA CompletionExecution ==
  ASSUME TypeOK, DeliveryInv, CompletionInv, PhaseInv', NEW w \in Workers, NEW j \in Jobs,
         Execution(w, j) \/ AbortJob(w, j) \/ RedisFails(w, j)
  PROVE  CompletionInv'
<1> USE DEF table, hand, loop
<1>1. BringsResult(w, j)
  BY DEF CompletionInv
<1>2. pc[w][j] \in InTx
  BY ExecutionMoves
<1>3. CASE Persist(w, j)
  BY <1>2, <1>3, CompletionMove DEF Persist, TypeOK, InTx, Unlocked, Settling
<1>4. CASE PipelineRaises(w, j)
  <2>1. PICK s \in {"retry", "fail"} : Move(w, j, s)
    BY <1>4 DEF PipelineRaises
  <2>2. ~stored[w][j]
    BY <1>1, <1>4 DEF PipelineRaises, BringsResult
  <2> QED
    BY <1>2, <1>4, <2>1, <2>2, CompletionMove DEF PipelineRaises, InTx, Unlocked, Settling
<1>5. CASE ReadJob(w, j)
  <2>1. CASE Leave(w, j)
    BY <1>2, <1>5, <2>1, CompletionMove DEF ReadJob, Leave, TypeOK, InTx, Unlocked, Settling
  <2>2. CASE ~Leave(w, j)
    <3>1. PICK s \in {"complete", "requeue", "markfail"} :
            Move(w, j, s) /\ (s = "complete" <=> pc[w][j] = "saved")
      BY <1>5, <2>2 DEF ReadJob
    <3>2. stored[w][j] <=> pc[w][j] = "saved"
      BY <1>1, <1>5 DEF ReadJob, BringsResult
    <3>3. UNCHANGED <<row, draft, results, stored>>
      BY <1>5, <2>2 DEF ReadJob
    <3>4. s \in InTx /\ s \notin Settling
      BY DEF InTx, Unlocked, Settling
    <3> QED
      BY <1>2, <3>1, <3>2, <3>3, <3>4, CompletionMove DEF Settling
  <2> QED
    BY <2>1, <2>2
<1>6. CASE FlushJob(w, j)
  <2>1. PICK s \in {"deliver", "commit"} :
          Move(w, j, s) /\ (s = "deliver" => pc[w][j] = "complete")
    BY <1>6 DEF FlushJob
  <2>2. /\ pc[w][j] \in {"complete", "requeue", "markfail"}
        /\ \A v \in Workers : ~HoldsRow(v, j)
        /\ UNCHANGED <<row, results, stored>>
    BY <1>6 DEF FlushJob, RowFree
  <2>3. row[j] \in RowType
    BY RowsTyped
  <2>4. /\ draft'[j].status = CASE pc[w][j] = "complete" -> "completed"
                                [] pc[w][j] = "requeue" -> "queued"
                                [] OTHER -> "failed"
        /\ \A i \in Jobs : i # j => draft'[i] = draft[i]
    BY <1>6, <2>2, <2>3 DEF FlushJob, TypeOK, RowType, Closed, Requeued
  <2>5. stored[w][j] <=> pc[w][j] = "complete"
    BY <1>1, <2>2 DEF BringsResult
  <2>6. s \in InTx /\ s \notin {"saved", "complete", "send"}
    BY DEF InTx, Settling
  <2> QED
    BY <1>2, <2>1, <2>2, <2>4, <2>5, <2>6, CompletionMove
<1>7. CASE TakeDeliveryKey(w, j) \/ Send(w, j)
  <2>1. PICK s \in {"send", "commit"} : Move(w, j, s)
    BY <1>7 DEF TakeDeliveryKey, Send
  <2>2. pc[w][j] \in {"deliver", "send"} /\ UNCHANGED <<row, draft, results, stored>>
    BY <1>7 DEF TakeDeliveryKey, Send
  <2>3. draft[j].status = "completed" /\ stored[w][j]
    BY <1>1, <2>2 DEF BringsResult
  <2> QED
    BY <1>1, <1>2, <2>1, <2>2, <2>3, CompletionMove DEF BringsResult, InTx, Settling
<1>8. CASE AbortJob(w, j) \/ RedisFails(w, j)
  <2>1. Leave(w, j) /\ UNCHANGED <<row, results>> /\ draft' = RolledBack(w, {j})
    BY <1>8 DEF AbortJob, RedisFails
  <2>2. \A i \in Jobs : draft'[i] = IF i = j /\ HoldsRow(w, i) THEN row[i] ELSE draft[i]
    BY <2>1 DEF RolledBack
  <2>3. \A v \in Workers : v # w /\ HoldsRow(v, j) => draft'[j] = draft[j]
    BY <2>2 DEF DeliveryInv
  <2>4. /\ ~stored'[w][j]
        /\ \A v \in Workers, i \in Jobs : v # w \/ i # j => stored'[v][i] = stored[v][i]
    BY <2>1 DEF Leave, TypeOK
  <2>5. Move(w, j, "done")
    BY <2>1 DEF Leave
  <2> QED
    BY <1>2, <2>1, <2>2, <2>3, <2>4, <2>5, CompletionMove
<1>9. CASE CommitJob(w, j)
  <2>1. /\ \A i \in Jobs : row'[i] = IF i = j THEN draft[j] ELSE row[i]
        /\ UNCHANGED draft
        /\ \A v \in Workers, i \in Jobs :
             stored'[v][i] = IF v = w /\ i = j THEN FALSE ELSE stored[v][i]
    BY <1>9 DEF CommitJob, Leave, TypeOK
  <2>2. \A v \in Workers, i \in Jobs :
          pc'[v][i] = IF v = w /\ i = j THEN "done" ELSE pc[v][i]
    BY <1>9, MoveEffect DEF CommitJob, Leave
  <2>3. pc[w][j] = "commit" /\ draft[j].status # "absent"
    BY <1>1, <1>9 DEF CommitJob, BringsResult, HoldsRow, Locking, Settling
  <2>4. ASSUME NEW v \in Workers, NEW i \in Jobs PROVE BringsResult(v, i)'
    <3>1. BringsResult(v, i)
      BY DEF CompletionInv
    <3> QED
      BY <2>1, <2>2, <2>3, <3>1 DEF BringsResult, HoldsRow, Locking, Claiming, Settling
  <2>5. ASSUME NEW i \in Jobs, row'[i].status = "completed" PROVE results'[i] >= 1
    <3>1. results \in [Jobs -> Nat] /\ (row[i].status = "completed" => results[i] >= 1)
      BY DEF TypeOK, CompletionInv, CompletedHasResult
    <3>2. i = j => stored[w][j]
      BY <1>1, <2>1, <2>3, <2>5 DEF BringsResult
    <3> QED
      BY <1>9, <2>1, <2>5, <3>1, <3>2 DEF CommitJob
  <2> QED
    BY <2>4, <2>5 DEF CompletionInv, CompletedHasResult
<1> QED
  BY <1>3, <1>4, <1>5, <1>6, <1>7, <1>8, <1>9 DEF Execution

(* The steps of the polling loop, and the faults that end it. *)
LEMMA CompletionLoop ==
  ASSUME TypeOK, DeliveryInv, CompletionInv, PhaseInv', NEW w \in Workers,
         Loop(w) \/ Crash(w) \/ PollFails(w)
  PROVE  CompletionInv'
<1> USE DEF table, hand, loop, Claiming, Settling, Locking
<1>1. \A v \in Workers, j \in Jobs : BringsResult(v, j)
  BY DEF CompletionInv
<1>2. CASE StartWorker(w) \/ Exit(w)
  BY <1>1, <1>2 DEF StartWorker, Exit, CompletionInv, BringsResult, CompletedHasResult, HoldsRow
<1>3. CASE Poll(w)
  <2>1. PICK S \in Picks :
          /\ draft' = [j \in Jobs |-> IF j \in S THEN Acquired(AfterRecovery[j], w)
                                      ELSE IF j \in Stale THEN AfterRecovery[j]
                                      ELSE draft[j]]
          /\ pc' = [pc EXCEPT ![w] = [j \in Jobs |->
                      IF j \in S THEN "picked"
                      ELSE IF j \in Stale THEN "recovered" ELSE "none"]]
    BY <1>3 DEF Poll
  <2>2. UNCHANGED <<row, results, stored>> /\ \A j \in Jobs : pc[w][j] = "none"
    BY <1>3 DEF Poll, CompletionInv, PhaseInv
  <2>3. \A v \in Workers, j \in Jobs :
          pc'[v][j] = IF v # w THEN pc[v][j]
                      ELSE IF j \in S THEN "picked"
                      ELSE IF j \in Stale THEN "recovered" ELSE "none"
    BY <2>1 DEF TypeOK
  <2>4. ASSUME NEW j \in Jobs, j \in S \cup Stale
        PROVE  /\ \A v \in Workers : ~HoldsRow(v, j)
               /\ row[j].status \in {"queued", "running"}
               /\ draft'[j].status = IF j \in S THEN "running" ELSE "queued"
    <3>1. RowFree(j) /\ (j \in S => AfterRecovery[j].status = "queued")
      BY <2>4 DEF Picks, Due, Stale
    <3>2. AfterRecovery[j] \in RowType /\ row[j] \in RowType
      BY RecoveryTyped, RowsTyped
    <3>3. AfterRecovery[j] = IF j \in Stale THEN Requeued(row[j], 0) ELSE row[j]
      BY DEF AfterRecovery
    <3>4. row[j].status \in {"queued", "running"}
      BY <2>4, <3>1, <3>3 DEF Stale
    <3> QED
      BY <2>1, <2>4, <3>1, <3>2, <3>3, <3>4 DEF RowFree, Acquired, Requeued, RowType
  <2>5. ASSUME NEW v \in Workers, NEW j \in Jobs PROVE BringsResult(v, j)'
    <3>1. BringsResult(v, j)
      BY <1>1
    <3>2. CASE v = w
      BY <2>2, <2>3, <2>4, <3>1, <3>2 DEF BringsResult, HoldsRow
    <3>3. CASE v # w
      <4>1. pc'[v][j] = pc[v][j] /\ (HoldsRow(v, j) => draft'[j] = draft[j])
        BY <2>1, <2>3, <2>4, <3>3
      <4> QED
        BY <2>2, <3>1, <4>1 DEF BringsResult, HoldsRow
    <3> QED
      BY <3>2, <3>3
  <2> QED
    BY <2>2, <2>5 DEF CompletionInv, CompletedHasResult
<1>4. CASE CommitAcquire(w)
  <2>1. /\ UNCHANGED <<draft, results, stored>>
        /\ \A j \in Jobs : row'[j] = IF HoldsRow(w, j) THEN draft[j] ELSE row[j]
        /\ \A v \in Workers, j \in Jobs :
             pc'[v][j] = IF v # w THEN pc[v][j]
                         ELSE IF pc[w][j] = "picked" THEN "waiting" ELSE "none"
    BY <1>4 DEF CommitAcquire, TypeOK
  <2>2. \A j \in Jobs : pc[w][j] \in {"picked", "recovered", "none"}
    BY <1>4 DEF CommitAcquire, CompletionInv, PhaseInv
  <2>3. ASSUME NEW v \in Workers, NEW j \in Jobs PROVE BringsResult(v, j)'
    BY <1>1, <2>1, <2>2 DEF BringsResult, HoldsRow
  <2>4. ASSUME NEW j \in Jobs, row'[j].status = "completed" PROVE row[j].status = "completed"
    BY <1>1, <2>1, <2>2, <2>4 DEF BringsResult, HoldsRow
  <2> QED
    BY <2>1, <2>3, <2>4 DEF CompletionInv, CompletedHasResult
<1>5. CASE StartChunk(w) \/ EndBatch(w)
  <2>1. UNCHANGED <<row, draft, results, stored>>
    BY <1>5 DEF StartChunk, EndBatch
  <2>2. ASSUME NEW v \in Workers, NEW j \in Jobs
        PROVE  \/ pc'[v][j] = pc[v][j]
               \/ pc[v][j] = "waiting" /\ pc'[v][j] = "run"
               \/ pc[v][j] = "done" /\ pc'[v][j] = "none"
    BY <1>5 DEF StartChunk, EndBatch, TypeOK, Idle
  <2>3. ASSUME NEW v \in Workers, NEW j \in Jobs PROVE BringsResult(v, j)'
    <3>1. BringsResult(v, j)
      BY <1>1
    <3> QED
      BY <2>1, <2>2, <3>1 DEF BringsResult, HoldsRow
  <2> QED
    BY <2>1, <2>3 DEF CompletionInv, CompletedHasResult
<1>6. CASE Crash(w) \/ PollFails(w)
  <2>1. /\ UNCHANGED <<row, results>> /\ draft' = RolledBack(w, Jobs)
        /\ \A v \in Workers, j \in Jobs : pc'[v][j] = IF v = w THEN "none" ELSE pc[v][j]
        /\ \A v \in Workers, j \in Jobs : v # w => stored'[v][j] = stored[v][j]
    BY <1>6 DEF Crash, PollFails, TypeOK, Idle
  <2>2. \A j \in Jobs : draft'[j] = IF HoldsRow(w, j) THEN row[j] ELSE draft[j]
    BY <2>1 DEF RolledBack
  <2>3. ASSUME NEW j \in Jobs PROVE ~stored'[w][j]
    <3>1. CASE Crash(w)
      BY <3>1 DEF Crash, TypeOK
    <3>2. CASE PollFails(w)
      BY <1>1, <3>2 DEF PollFails, CompletionInv, PhaseInv, BringsResult
    <3> QED
      BY <1>6, <3>1, <3>2
  <2>4. ASSUME NEW v \in Workers, NEW j \in Jobs PROVE BringsResult(v, j)'
    <3>1. BringsResult(v, j)
      BY <1>1
    <3>2. CASE v = w
      BY <2>1, <2>3, <3>2 DEF BringsResult, HoldsRow
    <3>3. CASE v # w
      <4>1. HoldsRow(v, j) => draft'[j] = draft[j]
        BY <2>2, <3>3 DEF DeliveryInv
      <4> QED
        BY <2>1, <3>1, <3>3, <4>1 DEF BringsResult, HoldsRow
    <3> QED
      BY <3>2, <3>3
  <2> QED
    BY <2>1, <2>4 DEF CompletionInv, CompletedHasResult
<1> QED
  BY <1>2, <1>3, <1>4, <1>5, <1>6 DEF Loop

(* Nothing else touches a result or an ending transaction. *)
LEMMA CompletionStep ==
  TypeOK /\ DeliveryInv /\ CompletionInv /\ [Next]_vars => CompletionInv'
<1> SUFFICES ASSUME TypeOK, DeliveryInv, CompletionInv, [Next]_vars PROVE CompletionInv'
  OBVIOUS
<1>1. PhaseInv'
  BY PhaseStep DEF CompletionInv
<1>2. CASE Tick
  <2>1. ASSUME NEW j \in Jobs
        PROVE  row'[j].status = row[j].status /\ draft'[j].status = draft[j].status
    BY <1>2, RowsTyped DEF Tick, Aged, RowType
  <2>2. UNCHANGED <<results, pc, stored>>
    BY <1>2 DEF Tick, loop, hand
  <2> QED
    BY <1>1, <2>1, <2>2 DEF CompletionInv, BringsResult, HoldsRow, CompletedHasResult
<1>3. ASSUME NEW j \in Jobs, CreateJob(j) PROVE CompletionInv'
  <2>1. /\ UNCHANGED <<results, pc, stored>> /\ row[j].status = "absent"
        /\ \A i \in Jobs : i # j => row'[i] = row[i] /\ draft'[i] = draft[i]
        /\ row'[j].status = "queued"
    BY <1>3, RowsTyped DEF CreateJob, Requeued, RowType, TypeOK, loop, hand
  <2>2. ASSUME NEW v \in Workers, NEW i \in Jobs PROVE BringsResult(v, i)'
    <3>1. BringsResult(v, i)
      BY DEF CompletionInv
    <3> QED
      BY <2>1, <3>1 DEF BringsResult, HoldsRow, Claiming, Locking, Settling
  <2> QED
    BY <1>1, <2>1, <2>2 DEF CompletionInv, CompletedHasResult
<1>4. CASE \/ \E j \in Jobs : KeyExpires(j)
           \/ \E w \in Workers : Stop(w)
           \/ UNCHANGED vars
  <2>1. UNCHANGED <<row, draft, results, pc, stored>>
    BY <1>4 DEF KeyExpires, Stop, vars, table, loop, hand
  <2> QED
    BY <1>1, <2>1 DEF CompletionInv, BringsResult, HoldsRow, CompletedHasResult
<1>5. ASSUME NEW w \in Workers, Loop(w) \/ Crash(w) \/ PollFails(w) PROVE CompletionInv'
  BY <1>1, <1>5, CompletionLoop
<1>6. ASSUME NEW w \in Workers, NEW j \in Jobs,
             Execution(w, j) \/ AbortJob(w, j) \/ RedisFails(w, j)
      PROVE  CompletionInv'
  BY <1>1, <1>6, CompletionExecution
<1> QED
  BY <1>2, <1>3, <1>4, <1>5, <1>6 DEF Next, Breaks

(* What the commit of an execution brings to the database. *)
LEMMA CommitEffect ==
  ASSUME TypeOK, CompletionInv, NEW w \in Workers, NEW j \in Jobs, CommitJob(w, j),
         NEW i \in Jobs
  PROVE  /\ row'[i] = IF i = j THEN draft[j] ELSE row[i]
         /\ results'[i] = IF i = j /\ draft[j].status = "completed"
                          THEN (IF j \in MemoryJobs THEN 1 ELSE results[i] + 1)
                          ELSE results[i]
<1>1. stored[w][j] <=> draft[j].status = "completed"
  BY DEF CommitJob, CompletionInv, BringsResult
<1> QED
  BY <1>1 DEF CommitJob, TypeOK

LEMMA Completion == Spec => []CompletionInv
<1>1. Spec => []DeliveryInv
  BY TypeInit, TypeStep, DeliveryInit, DeliveryStep, PTL DEF Spec
<1> QED
  BY <1>1, TypeCorrect, CompletionInit, CompletionStep, PTL DEF Spec

(* Executions may overlap, crash or be undone in any order: a job that     *)
(* mark_completed has completed is never without a stored result.          *)
THEOREM CompletedJobsHaveResults == Spec => []CompletedHasResult
<1>1. CompletionInv => CompletedHasResult
  BY DEF CompletionInv
<1> QED
  BY <1>1, Completion, PTL

-----------------------------------------------------------------------------
(* Executions that finish within their lease *)

LEMMA PunctualInit == Init => PunctualInv
<1> SUFFICES ASSUME Init PROVE PunctualInv
  OBVIOUS
<1>1. \A w \in Workers, j \in Jobs : pc[w][j] = "none" /\ phase[w] = "down"
  BY DEF Init, Idle
<1>2. \A j \in Jobs : row[j].status = "absent" /\ row[j].attempts = 0 /\ draft[j] = row[j]
  BY DEF Init
<1>4. Exclusive
  BY <1>1 DEF Exclusive, Engaged
<1>5. \A w \in Workers, j \in Jobs : OwnedRow(w, j) /\ ClaimedRow(w, j)
  BY <1>1 DEF OwnedRow, ClaimedRow, Owns, InTx, Unlocked, Settling
<1>6. ResultIffCompleted
  BY <1>2 DEF Init, ResultIffCompleted
<1> QED
  BY <1>4, <1>5, <1>6 DEF PunctualInv

(* One execution moves on inside its transaction; only the uncommitted     *)
(* version of its own job may change, once it holds the row.               *)
LEMMA PunctualMove ==
  ASSUME TypeOK, PunctualInv, NEW w \in Workers, NEW j \in Jobs, NEW s \in InTx,
         pc[w][j] \in InTx, Move(w, j, s),
         UNCHANGED <<row, results, snap, phase, faults>>,
         s \in Unlocked => pc[w][j] \in Unlocked,
         s = "requeue" => snap[w][j] < MaxAttempts,
         s \in Settling => draft'[j].status \in {"completed", "failed", "queued"},
         \A i \in Jobs : i # j => draft'[i] = draft[i]
  PROVE  PunctualInv'
<1> USE MoveEffect
<1>2. Exclusive'
  BY DEF PunctualInv, Exclusive, Engaged, InTx, Unlocked, Settling
<1>3. \A v \in Workers, i \in Jobs : OwnedRow(v, i)'
  <2> SUFFICES ASSUME NEW v \in Workers, NEW i \in Jobs PROVE OwnedRow(v, i)'
    OBVIOUS
  <2>1. CASE v = w /\ i = j
    BY <2>1 DEF PunctualInv, OwnedRow, Owns, InTx, Unlocked, Settling
  <2>2. CASE i # j
    BY <2>2 DEF PunctualInv, OwnedRow, Owns
  <2>3. CASE v # w /\ i = j
    BY <2>3 DEF PunctualInv, OwnedRow, Owns, Exclusive, Engaged, InTx, Unlocked, Settling
  <2> QED
    BY <2>1, <2>2, <2>3
<1>4. \A v \in Workers, i \in Jobs : ClaimedRow(v, i)'
  <2> SUFFICES ASSUME NEW v \in Workers, NEW i \in Jobs PROVE ClaimedRow(v, i)'
    OBVIOUS
  <2>1. CASE v = w /\ i = j
    BY <2>1 DEF ClaimedRow, InTx, Unlocked, Settling
  <2>2. CASE i # j
    BY <2>2 DEF PunctualInv, ClaimedRow
  <2>3. CASE v # w /\ i = j
    BY <2>3 DEF PunctualInv, ClaimedRow, Exclusive, Engaged, InTx, Unlocked, Settling
  <2> QED
    BY <2>1, <2>2, <2>3
<1>6. ResultIffCompleted'
  BY DEF PunctualInv, ResultIffCompleted
<1> QED
  BY <1>2, <1>3, <1>4, <1>6 DEF PunctualInv

(* A fault: worker w may lose jobs, and their changes are rolled back.     *)
LEMMA PunctualFault ==
  ASSUME TypeOK, PunctualInv, NEW w \in Workers,
         UNCHANGED <<row, results>>, faults' = faults + 1,
         \A v \in Workers, i \in Jobs :
           /\ pc'[v][i] = pc[v][i] \/ (v = w /\ pc'[v][i] \in {"none", "done"})
           /\ pc'[v][i] = pc[v][i] /\ Owns(v, i) => snap'[v][i] = snap[v][i],
         \A i \in Jobs :
           \/ draft'[i] = draft[i]
           \/ draft'[i] = row[i] /\ HoldsRow(w, i) /\ pc'[w][i] \in {"none", "done"}
  PROVE  PunctualInv'
<1>1. Exclusive'
  BY DEF PunctualInv, Exclusive, Engaged
<1>2. ASSUME NEW v \in Workers, NEW i \in Jobs PROVE OwnedRow(v, i)' /\ ClaimedRow(v, i)'
  <2>1. CASE pc'[v][i] \in {"none", "done"}
    BY <2>1 DEF OwnedRow, ClaimedRow, Owns, InTx, Unlocked, Settling
  <2>2. CASE pc'[v][i] \notin {"none", "done"}
    <3>1. pc'[v][i] = pc[v][i]
      BY <2>2
    <3>2. draft'[i] = draft[i]
      BY <2>2, <3>1 DEF PunctualInv, Exclusive, Engaged, HoldsRow, Locking, Claiming, Settling
    <3> QED
      BY <3>1, <3>2 DEF PunctualInv, OwnedRow, ClaimedRow, Owns
  <2> QED
    BY <2>1, <2>2
<1>4. ResultIffCompleted'
  BY DEF PunctualInv, ResultIffCompleted
<1> QED
  BY <1>1, <1>2, <1>4 DEF PunctualInv

(* Steps of the loop that leave every row and every job in hand alone. *)
LEMMA PunctualPhase ==
  ASSUME PunctualInv, UNCHANGED <<row, draft, results, pc, snap, faults>>
  PROVE  PunctualInv'
BY DEF PunctualInv, Exclusive, Engaged, OwnedRow, ClaimedRow, Owns,
       ResultIffCompleted

(* The steps of one execution. *)
LEMMA PunctualExecution ==
  ASSUME TypeOK, CompletionInv, PunctualInv, NEW w \in Workers, NEW j \in Jobs, Execution(w, j)
  PROVE  PunctualInv'
<1> USE DEF table, hand, loop, delivery, budget, Leave
<1>2. ASSUME pc[w][j] \in InTx
      PROVE  /\ row[j].status = "running" /\ row[j].attempts = snap[w][j]
             /\ pc[w][j] = "requeue" => snap[w][j] < MaxAttempts
             /\ pc[w][j] \in Settling => draft[j].status \in {"completed", "failed", "queued"}
  BY <1>2 DEF PunctualInv, OwnedRow, Owns
<1>3. CASE Persist(w, j)
  BY <1>3, PunctualMove DEF Persist, InTx, Unlocked, Settling
<1>4. CASE PipelineRaises(w, j)
  BY <1>4, PunctualMove DEF PipelineRaises, InTx, Unlocked, Settling
<1>5. CASE ReadJob(w, j)
  <2>1. row[j].status = "running"
    BY <1>2, <1>5 DEF ReadJob, InTx, Unlocked
  <2>2. PICK s : /\ Move(w, j, s) /\ s \in {"complete", "requeue", "markfail"}
                 /\ s = "requeue" => snap[w][j] < MaxAttempts
    BY <1>5, <2>1 DEF ReadJob
  <2> QED
    BY <1>5, <2>2, PunctualMove DEF ReadJob, InTx, Unlocked, Settling
<1>6. CASE FlushJob(w, j)
  <2>1. pc[w][j] \in {"complete", "requeue", "markfail"}
    BY <1>6 DEF FlushJob
  <2>2. PICK s \in {"deliver", "commit"} : Move(w, j, s)
    BY <1>6 DEF FlushJob
  <2>3. row[j] \in RowType
    BY RowsTyped
  <2>4. /\ draft'[j].status \in {"completed", "failed", "queued"}
        /\ \A i \in Jobs : i # j => draft'[i] = draft[i]
    BY <1>6, <2>1, <2>3 DEF FlushJob, TypeOK, RowType, Closed, Requeued
  <2>7. UNCHANGED <<row, results, snap, phase, faults>>
    BY <1>6 DEF FlushJob
  <2>8. s \in InTx /\ s \notin Unlocked /\ s # "requeue" /\ pc[w][j] \in InTx
    BY <2>1 DEF InTx, Unlocked, Settling
  <2> QED
    BY <2>2, <2>4, <2>7, <2>8, PunctualMove
<1>7. CASE TakeDeliveryKey(w, j)
  <2>1. PICK s \in {"send", "commit"} : Move(w, j, s)
    BY <1>7 DEF TakeDeliveryKey
  <2>2. pc[w][j] \in Settling /\ pc[w][j] \in InTx
    BY <1>7 DEF TakeDeliveryKey, InTx, Settling
  <2> QED
    BY <1>2, <1>7, <2>1, <2>2, PunctualMove DEF TakeDeliveryKey, InTx, Unlocked, Settling
<1>8. CASE Send(w, j)
  <2>1. pc[w][j] \in Settling /\ pc[w][j] \in InTx
    BY <1>8 DEF Send, InTx, Settling
  <2> QED
    BY <1>2, <1>8, <2>1, PunctualMove DEF Send, InTx, Unlocked, Settling
<1>9. CASE CommitJob(w, j)
  <2>1. /\ pc[w][j] = "commit" /\ Move(w, j, "done")
        /\ row' = [row EXCEPT ![j] = draft[j]]
        /\ UNCHANGED <<draft, snap, phase, faults>>
    BY <1>9 DEF CommitJob
  <2>2. /\ row[j].status = "running"
        /\ draft[j].status \in {"completed", "failed", "queued"}
    BY <1>2, <2>1 DEF InTx, Settling
  <2>3. \A i \in Jobs : row'[i] = IF i = j THEN draft[j] ELSE row[i]
    BY <2>1 DEF TypeOK
  <2>4. \A v \in Workers, i \in Jobs :
          pc'[v][i] = IF v = w /\ i = j THEN "done" ELSE pc[v][i]
    BY <2>1, MoveEffect
  <2>5. \A v \in Workers : v # w => pc[v][j] \in {"none", "done"}
    BY <2>1 DEF PunctualInv, Exclusive, Engaged
  <2>7. Exclusive'
    BY <2>4 DEF PunctualInv, Exclusive, Engaged
  <2>8. ASSUME NEW v \in Workers, NEW i \in Jobs PROVE OwnedRow(v, i)' /\ ClaimedRow(v, i)'
    <3>1. CASE i = j
      BY <2>4, <2>5, <3>1 DEF OwnedRow, ClaimedRow, Owns, InTx, Unlocked, Settling
    <3>2. CASE i # j
      BY <2>1, <2>3, <2>4, <3>2 DEF PunctualInv, OwnedRow, ClaimedRow, Owns
    <3> QED
      BY <3>1, <3>2
  <2>10. ResultIffCompleted'
    <3> SUFFICES ASSUME NEW i \in Jobs
                 PROVE  results'[i] = IF row'[i].status = "completed" THEN 1 ELSE 0
      BY DEF ResultIffCompleted
    <3>1. results[i] = IF row[i].status = "completed" THEN 1 ELSE 0
      BY DEF PunctualInv, ResultIffCompleted
    <3>2. results'[i] = IF i = j /\ draft[j].status = "completed"
                        THEN (IF j \in MemoryJobs THEN 1 ELSE results[i] + 1)
                        ELSE results[i]
      BY <1>9, CommitEffect
    <3> QED
      BY <2>2, <2>3, <3>1, <3>2
  <2> QED
    BY <2>7, <2>8, <2>10 DEF PunctualInv
<1> QED
  BY <1>3, <1>4, <1>5, <1>6, <1>7, <1>8, <1>9 DEF Execution

(* What an acquiring transaction may take: nobody else has it in hand.     *)
LEMMA Acquirable ==
  ASSUME TypeOK, PunctualInv, NEW j \in Jobs, j \in Due \cup Stale
  PROVE  /\ \A v \in Workers : ~Engaged(v, j)
         /\ row[j].status \in {"queued", "running"}
         /\ AfterRecovery[j].status = "queued"
         /\ AfterRecovery[j].attempts = row[j].attempts
         /\ j \in Stale => row[j].status = "running"
<1>1. row[j] \in RowType
  BY RowsTyped
<1>2. CASE j \in Stale
  <2>1. row[j].status = "running" /\ row[j].lease = 0 /\ RowFree(j)
    BY <1>2 DEF Stale
  <2>2. ASSUME NEW v \in Workers PROVE ~Engaged(v, j)
    <3>1. OwnedRow(v, j) /\ pc[v][j] \in Steps /\ pc[v][j] \notin Locking
      BY <2>1 DEF PunctualInv, RowFree, HoldsRow, TypeOK
    <3> QED
      BY <2>1, <3>1 DEF OwnedRow, Owns, Engaged, Locking, InTx, Steps
  <2>3. AfterRecovery[j] = Requeued(row[j], 0)
    BY <1>2 DEF AfterRecovery
  <2> QED
    BY <1>1, <2>1, <2>2, <2>3 DEF Requeued, RowType
<1>3. CASE j \in Due /\ j \notin Stale
  <2>1. row[j].status = "queued" /\ RowFree(j) /\ AfterRecovery[j] = row[j]
    BY <1>3 DEF Due, AfterRecovery
  <2>2. ASSUME NEW v \in Workers PROVE ~Engaged(v, j)
    <3>1. OwnedRow(v, j) /\ pc[v][j] \in Steps /\ pc[v][j] \notin Locking
      BY <2>1 DEF PunctualInv, RowFree, HoldsRow, TypeOK
    <3> QED
      BY <2>1, <3>1 DEF OwnedRow, Owns, Engaged, Locking, InTx, Steps
  <2> QED
    BY <1>3, <2>1, <2>2
<1> QED
  BY <1>2, <1>3

(* Acquisition hands a job to one worker, with a fresh lease. *)
LEMMA PunctualPoll ==
  ASSUME TypeOK, PhaseInv, PunctualInv, NEW w \in Workers, Poll(w)
  PROVE  PunctualInv'
<1> USE DEF table, hand, loop, delivery, budget, Leave
<1>1. PICK S \in Picks :
        /\ draft' = [j \in Jobs |-> IF j \in S THEN Acquired(AfterRecovery[j], w)
                                    ELSE IF j \in Stale THEN AfterRecovery[j]
                                    ELSE draft[j]]
        /\ pc' = [pc EXCEPT ![w] = [j \in Jobs |->
                    IF j \in S THEN "picked"
                    ELSE IF j \in Stale THEN "recovered" ELSE "none"]]
  BY DEF Poll
<1>2. UNCHANGED <<row, results, snap, faults>> /\ phase' = [phase EXCEPT ![w] = "acquiring"]
  BY DEF Poll
<1>3. S \subseteq Due
  BY DEF Picks
<1>4. \A v \in Workers, j \in Jobs :
        pc'[v][j] = IF v # w THEN pc[v][j]
                    ELSE IF j \in S THEN "picked"
                    ELSE IF j \in Stale THEN "recovered" ELSE "none"
  BY <1>1 DEF TypeOK
<1>5. \A j \in Jobs : pc[w][j] = "none"
  BY DEF Poll, PhaseInv
<1>6. \A j \in S \cup Stale : \A v \in Workers : ~Engaged(v, j)
  BY <1>3, Acquirable DEF Due, Stale
<1>8. Exclusive'
  BY <1>4, <1>6 DEF PunctualInv, Exclusive, Engaged
<1>9. ASSUME NEW j \in Jobs, j \in S
      PROVE  /\ draft'[j].status = "running" /\ draft'[j].lockedBy = w
             /\ draft'[j].lease > 0 /\ draft'[j].attempts = row[j].attempts + 1
  <2>1. AfterRecovery[j] \in RowType /\ AfterRecovery[j].attempts = row[j].attempts
    BY <1>3, <1>9, Acquirable, RecoveryTyped
  <2>2. draft'[j] = Acquired(AfterRecovery[j], w)
    BY <1>1, <1>9
  <2>3. StaleTimeout > 0
    BY TimeAssumption
  <2> QED
    BY <2>1, <2>2, <2>3 DEF Acquired, RowType
<1>10. ASSUME NEW v \in Workers, NEW j \in Jobs PROVE OwnedRow(v, j)' /\ ClaimedRow(v, j)'
  <2>1. CASE v = w
    <3>1. ~Owns(v, j)'
      BY <1>4, <2>1 DEF Owns, InTx, Unlocked, Settling
    <3>2. CASE j \in S
      <4>1. row[j].status \in {"queued", "running"}
        BY <1>3, <3>2, Acquirable
      <4> QED
        BY <1>2, <1>4, <1>9, <2>1, <3>1, <3>2, <4>1 DEF OwnedRow, ClaimedRow
    <3>3. CASE j \notin S
      BY <1>1, <1>2, <1>4, <2>1, <3>1, <3>3, Acquirable DEF OwnedRow, ClaimedRow
    <3> QED
      BY <3>2, <3>3
  <2>2. CASE v # w
    <3>1. pc'[v][j] = pc[v][j]
      BY <1>4, <2>2
    <3>2. CASE j \in S \cup Stale
      BY <1>6, <3>1, <3>2 DEF OwnedRow, ClaimedRow, Owns, Engaged, InTx, Unlocked, Settling
    <3>3. CASE j \notin S \cup Stale
      BY <1>1, <1>2, <3>1, <3>3 DEF PunctualInv, OwnedRow, ClaimedRow, Owns
    <3> QED
      BY <3>2, <3>3
  <2> QED
    BY <2>1, <2>2
<1>12. ResultIffCompleted'
  BY <1>2 DEF PunctualInv, ResultIffCompleted
<1> QED
  BY <1>8, <1>10, <1>12 DEF PunctualInv

(* When the acquisition commits, the worker owns what it has picked. *)
LEMMA PunctualCommitAcquire ==
  ASSUME TypeOK, PhaseInv, PunctualInv, NEW w \in Workers, CommitAcquire(w)
  PROVE  PunctualInv'
<1> USE DEF table, hand, loop, delivery, budget, Leave
<1>1. /\ UNCHANGED <<draft, results, faults>>
      /\ \A j \in Jobs : row'[j] = IF HoldsRow(w, j) THEN draft[j] ELSE row[j]
      /\ \A v \in Workers, j \in Jobs :
           pc'[v][j] = IF v # w THEN pc[v][j]
                       ELSE IF pc[w][j] = "picked" THEN "waiting" ELSE "none"
      /\ \A v \in Workers, j \in Jobs :
           snap'[v][j] = IF v # w THEN snap[v][j]
                         ELSE IF pc[w][j] = "picked" THEN draft[j].attempts ELSE 0
  BY DEF CommitAcquire, TypeOK
<1>2. /\ phase[w] = "acquiring"
      /\ \A v \in Workers : v # w => phase'[v] = phase[v]
      /\ \/ phase'[w] = "batch"
         \/ phase'[w] = "idle" /\ \A j \in Jobs : pc[w][j] # "picked"
  BY DEF CommitAcquire, TypeOK
<1>3. \A j \in Jobs : pc[w][j] \in {"picked", "recovered", "none"}
  BY <1>2 DEF PhaseInv, Claiming
<1>4. \A j \in Jobs : HoldsRow(w, j) <=> pc[w][j] # "none"
  BY <1>3 DEF HoldsRow, Locking, Claiming, Settling
<1>5. ASSUME NEW j \in Jobs, pc[w][j] # "none"
      PROVE  \A v \in Workers : v # w => pc[v][j] \in {"none", "done"}
  BY <1>3, <1>5 DEF PunctualInv, Exclusive, Engaged
<1>7. Exclusive'
  BY <1>1, <1>3 DEF PunctualInv, Exclusive, Engaged
<1>8. ASSUME NEW v \in Workers, NEW j \in Jobs PROVE OwnedRow(v, j)' /\ ClaimedRow(v, j)'
  <2>1. CASE v = w
    BY <1>1, <1>3, <1>4, <2>1
    DEF PunctualInv, OwnedRow, ClaimedRow, Owns, InTx, Unlocked, Settling
  <2>2. CASE v # w /\ pc[w][j] # "none"
    BY <1>1, <1>5, <2>2 DEF OwnedRow, ClaimedRow, Owns, InTx, Unlocked, Settling
  <2>3. CASE v # w /\ pc[w][j] = "none"
    BY <1>1, <1>4, <2>3 DEF PunctualInv, OwnedRow, ClaimedRow, Owns
  <2> QED
    BY <2>1, <2>2, <2>3
<1>10. ResultIffCompleted'
  <2> SUFFICES ASSUME NEW j \in Jobs
               PROVE  results[j] = IF row'[j].status = "completed" THEN 1 ELSE 0
    BY <1>1 DEF ResultIffCompleted
  <2>1. results[j] = IF row[j].status = "completed" THEN 1 ELSE 0
    BY DEF PunctualInv, ResultIffCompleted
  <2>2. CASE pc[w][j] = "none"
    BY <1>1, <1>4, <2>1, <2>2
  <2>3. CASE pc[w][j] # "none"
    BY <1>1, <1>3, <1>4, <2>1, <2>3 DEF PunctualInv, ClaimedRow
  <2> QED
    BY <2>2, <2>3
<1> QED
  BY <1>7, <1>8, <1>10 DEF PunctualInv

(* The steps of the polling loop. *)
LEMMA PunctualLoop ==
  ASSUME TypeOK, PhaseInv, PunctualInv, NEW w \in Workers, Loop(w)
  PROVE  PunctualInv'
<1> USE DEF table, hand, loop, delivery, budget, Leave
<1>1. CASE StartWorker(w)
  BY <1>1, PunctualPhase DEF StartWorker
<1>2. CASE Exit(w)
  BY <1>2, PunctualPhase DEF Exit
<1>3. CASE Poll(w)
  BY <1>3, PunctualPoll
<1>4. CASE CommitAcquire(w)
  BY <1>4, PunctualCommitAcquire
<1>5. CASE StartChunk(w) \/ EndBatch(w)
  <2>1. UNCHANGED <<row, draft, results, faults>>
    BY <1>5 DEF StartChunk, EndBatch
  <2>2. ASSUME NEW v \in Workers, NEW j \in Jobs
        PROVE  \/ pc'[v][j] = pc[v][j]
               \/ pc[v][j] = "waiting" /\ pc'[v][j] = "run"
               \/ pc[v][j] = "done" /\ pc'[v][j] = "none"
    <3>1. CASE StartChunk(w)
      BY <3>1 DEF StartChunk, TypeOK
    <3>2. CASE EndBatch(w)
      BY <3>2 DEF EndBatch, TypeOK, Idle
    <3> QED
      BY <1>5, <3>1, <3>2
  <2>3. ASSUME NEW v \in Workers, NEW j \in Jobs
        PROVE  snap'[v][j] = snap[v][j] \/ pc'[v][j] = "none"
    <3>1. CASE StartChunk(w)
      BY <3>1 DEF StartChunk
    <3>2. CASE EndBatch(w)
      BY <3>2 DEF EndBatch, TypeOK, Idle
    <3> QED
      BY <1>5, <3>1, <3>2
  <2>5. Exclusive'
    BY <2>2 DEF PunctualInv, Exclusive, Engaged
  <2>6. ASSUME NEW v \in Workers, NEW j \in Jobs PROVE OwnedRow(v, j)' /\ ClaimedRow(v, j)'
    BY <2>1, <2>2, <2>3 DEF PunctualInv, OwnedRow, ClaimedRow, Owns, InTx, Unlocked, Settling
  <2>9. ResultIffCompleted'
    BY <2>1 DEF PunctualInv, ResultIffCompleted
  <2> QED
    BY <2>5, <2>6, <2>9 DEF PunctualInv
<1> QED
  BY <1>1, <1>2, <1>3, <1>4, <1>5 DEF Loop

(* Crashes, shutdowns and failed calls. *)
LEMMA PunctualBreaks ==
  ASSUME TypeOK, PunctualInv, NEW w \in Workers, Breaks(w)
  PROVE  PunctualInv'
<1> USE DEF table, hand, loop, delivery, budget, Leave
<1>1. CASE Crash(w)
  <2>1. /\ UNCHANGED <<row, results>> /\ faults' = faults + 1
        /\ \A v \in Workers, i \in Jobs :
             /\ pc'[v][i] = IF v = w THEN "none" ELSE pc[v][i]
             /\ v # w => snap'[v][i] = snap[v][i]
        /\ \A i \in Jobs : draft'[i] = IF HoldsRow(w, i) THEN row[i] ELSE draft[i]
        /\ \A v \in Workers : phase'[v] = IF v = w THEN "down" ELSE phase[v]
    BY <1>1 DEF Crash, Fault, RolledBack, TypeOK, Idle
  <2> QED
    BY <2>1, PunctualFault DEF Owns, InTx, Unlocked, Settling
<1>2. CASE Stop(w)
  <2>1. /\ UNCHANGED <<row, draft, results, pc, snap, phase>>
        /\ faults' = faults + 1
    BY <1>2 DEF Stop, Fault
  <2> QED
    BY <2>1, PunctualFault
<1>3. CASE PollFails(w)
  <2>1. /\ UNCHANGED <<row, results, snap>> /\ faults' = faults + 1
        /\ \A v \in Workers, i \in Jobs : pc'[v][i] = IF v = w THEN "none" ELSE pc[v][i]
        /\ \A i \in Jobs : draft'[i] = IF HoldsRow(w, i) THEN row[i] ELSE draft[i]
        /\ \A v \in Workers : phase'[v] = IF v = w THEN "dead" ELSE phase[v]
    BY <1>3 DEF PollFails, Fault, RolledBack, TypeOK, Idle
  <2> QED
    BY <2>1, PunctualFault
<1>4. ASSUME NEW j \in Jobs, AbortJob(w, j) \/ RedisFails(w, j) PROVE PunctualInv'
  <2>1. /\ UNCHANGED <<row, results, snap, phase>> /\ faults' = faults + 1
        /\ pc[w][j] \in InTx /\ Move(w, j, "done")
        /\ \A i \in Jobs : draft'[i] = IF i = j /\ HoldsRow(w, i) THEN row[i] ELSE draft[i]
    BY <1>4 DEF AbortJob, RedisFails, Fault, RolledBack, TypeOK, InTx, Settling
  <2>2. \A v \in Workers, i \in Jobs :
          pc'[v][i] = IF v = w /\ i = j THEN "done" ELSE pc[v][i]
    BY <2>1, MoveEffect
  <2> QED
    BY <2>1, <2>2, PunctualFault
<1> QED
  BY <1>1, <1>2, <1>3, <1>4 DEF Breaks

(* Time: a lease that a worker still needs does not run out. *)
LEMMA PunctualTick ==
  ASSUME TypeOK, PunctualInv, Tick, MaxOverruns = 0
  PROVE  PunctualInv'
<1> USE DEF hand, loop, delivery
<1>1. \A v \in Workers, i \in Jobs : ~LeaseEnding(v, i)
  BY DEF Tick, Overrun, TypeOK
<1>2. /\ UNCHANGED <<results, pc, snap, phase, faults>>
      /\ \A i \in Jobs : row'[i] = Aged(row[i]) /\ draft'[i] = Aged(draft[i])
  BY DEF Tick
<1>3. ASSUME NEW r \in RowType
      PROVE  /\ Aged(r).status = r.status /\ Aged(r).attempts = r.attempts
             /\ Aged(r).lockedBy = r.lockedBy
             /\ r.lease > 0 /\ r.lease # 1 => Aged(r).lease > 0
  BY DEF Aged, RowType
<1>4. ASSUME NEW i \in Jobs
      PROVE  /\ row'[i].status = row[i].status /\ row'[i].attempts = row[i].attempts
             /\ row'[i].lockedBy = row[i].lockedBy
             /\ draft'[i].status = draft[i].status /\ draft'[i].attempts = draft[i].attempts
             /\ draft'[i].lockedBy = draft[i].lockedBy
             /\ row[i].lease > 0 /\ row[i].lease # 1 => row'[i].lease > 0
             /\ draft[i].lease > 0 /\ draft[i].lease # 1 => draft'[i].lease > 0
  BY <1>2, <1>3, RowsTyped
<1>5. Exclusive'
  BY <1>2 DEF PunctualInv, Exclusive, Engaged
<1>6. ASSUME NEW v \in Workers, NEW i \in Jobs PROVE OwnedRow(v, i)' /\ ClaimedRow(v, i)'
  <2>1. OwnedRow(v, i) /\ ClaimedRow(v, i) /\ ~LeaseEnding(v, i)
    BY <1>1 DEF PunctualInv
  <2>2. OwnedRow(v, i)'
    BY <1>2, <1>4, <2>1 DEF OwnedRow, Owns, LeaseEnding, InTx
  <2>3. ClaimedRow(v, i)'
    BY <1>2, <1>4, <2>1 DEF ClaimedRow, LeaseEnding
  <2> QED
    BY <2>2, <2>3
<1>8. ResultIffCompleted'
  BY <1>2, <1>4 DEF PunctualInv, ResultIffCompleted
<1> QED
  BY <1>5, <1>6, <1>8 DEF PunctualInv

(* A new row is queued, with no attempt made. *)
LEMMA PunctualCreate ==
  ASSUME TypeOK, PunctualInv, NEW j \in Jobs, CreateJob(j)
  PROVE  PunctualInv'
<1> USE DEF hand, loop, delivery, budget
<1>1. /\ row[j].status = "absent" /\ UNCHANGED <<results, pc, snap, phase, faults>>
      /\ \A i \in Jobs : /\ row'[i] = IF i = j THEN Requeued(row[j], 0) ELSE row[i]
                         /\ draft'[i] = IF i = j THEN Requeued(row[j], 0) ELSE draft[i]
  BY DEF CreateJob, TypeOK
<1>2. /\ Requeued(row[j], 0).status = "queued"
      /\ Requeued(row[j], 0).attempts = row[j].attempts
  BY RowsTyped DEF Requeued, RowType
<1>3. ASSUME NEW v \in Workers PROVE ~Owns(v, j) /\ pc[v][j] \notin Claiming
  BY <1>1 DEF PunctualInv, OwnedRow, ClaimedRow, Claiming
<1>4. Exclusive'
  BY <1>1 DEF PunctualInv, Exclusive, Engaged
<1>5. ASSUME NEW v \in Workers, NEW i \in Jobs PROVE OwnedRow(v, i)' /\ ClaimedRow(v, i)'
  <2>1. CASE i = j
    BY <1>1, <1>3, <2>1 DEF OwnedRow, ClaimedRow, Owns, Claiming
  <2>2. CASE i # j
    BY <1>1, <2>2 DEF PunctualInv, OwnedRow, ClaimedRow, Owns
  <2> QED
    BY <2>1, <2>2
<1>7. ResultIffCompleted'
  BY <1>1, <1>2 DEF PunctualInv, ResultIffCompleted
<1> QED
  BY <1>4, <1>5, <1>7 DEF PunctualInv

LEMMA PunctualStep ==
  TypeOK /\ CompletionInv /\ PunctualInv /\ MaxOverruns = 0 /\ [Next]_vars => PunctualInv'
<1> SUFFICES ASSUME TypeOK, CompletionInv, PunctualInv, MaxOverruns = 0, [Next]_vars
             PROVE  PunctualInv'
  OBVIOUS
<1>1. CASE Tick
  BY <1>1, PunctualTick
<1>2. ASSUME NEW j \in Jobs, CreateJob(j) PROVE PunctualInv'
  BY <1>2, PunctualCreate
<1>3. ASSUME NEW j \in Jobs, KeyExpires(j) PROVE PunctualInv'
  <2>1. /\ UNCHANGED <<row, draft, results, pc, snap, phase>>
        /\ faults' = faults + 1
    BY <1>3 DEF KeyExpires, Fault, table, hand, loop
  <2>2. Exclusive' /\ ResultIffCompleted'
    BY <2>1 DEF PunctualInv, Exclusive, Engaged, ResultIffCompleted
  <2>3. ASSUME NEW v \in Workers, NEW i \in Jobs PROVE OwnedRow(v, i)' /\ ClaimedRow(v, i)'
    BY <2>1 DEF PunctualInv, OwnedRow, ClaimedRow, Owns
  <2> QED
    BY <2>2, <2>3 DEF PunctualInv
<1>4. ASSUME NEW w \in Workers, Loop(w) PROVE PunctualInv'
  BY <1>4, PunctualLoop DEF CompletionInv
<1>5. ASSUME NEW w \in Workers, Breaks(w) PROVE PunctualInv'
  BY <1>5, PunctualBreaks
<1>6. ASSUME NEW w \in Workers, NEW j \in Jobs, Execution(w, j) PROVE PunctualInv'
  BY <1>6, PunctualExecution
<1>7. CASE UNCHANGED vars
  BY <1>7 DEF vars, table, hand, loop, delivery, budget, PunctualInv, Exclusive,
              Engaged, OwnedRow, ClaimedRow, Owns,
              ResultIffCompleted
<1> QED
  BY <1>1, <1>2, <1>3, <1>4, <1>5, <1>6, <1>7 DEF Next

(* The inductive invariant of executions that finish within their lease.   *)
(* Without the lease, locked_by and the attempt of a row say nothing about *)
(* who executes it.                                                        *)
THEOREM Punctual ==
  ASSUME MaxOverruns = 0
  PROVE  Spec => []PunctualInv
<1>1. TypeOK /\ CompletionInv /\ PunctualInv /\ [Next]_vars => PunctualInv'
  BY PunctualStep
<1>2. Spec => []CompletionInv
  BY Completion
<1> QED
  BY <1>1, <1>2, TypeCorrect, PunctualInit, PTL DEF Spec

(* "each job has at most one active execution context at a time" is true   *)
(* of acquire_available_jobs and the executor as long as no execution is   *)
(* slower than the stale timeout, whatever crashes or is restarted.        *)
THEOREM OneExecutionAtATime ==
  ASSUME MaxOverruns = 0
  PROVE  Spec => []SingleActiveExecution
<1>1. PunctualInv => SingleActiveExecution
  BY DEF PunctualInv, Exclusive, Engaged, SingleActiveExecution, InTx, Unlocked, Settling
<1> QED
  BY <1>1, Punctual, PTL

(* A job is completed exactly when one result is stored for it: the result *)
(* and the status of mark_completed commit together, and a failed, retried *)
(* or recovered attempt leaves nothing behind.                             *)
THEOREM OneResultPerCompletedJob ==
  ASSUME MaxOverruns = 0
  PROVE  Spec => []ResultIffCompleted
<1>1. PunctualInv => ResultIffCompleted
  BY DEF PunctualInv
<1> QED
  BY <1>1, Punctual, PTL

-----------------------------------------------------------------------------
(* The runtime implements the promise about each job *)

(* A step that changes neither the status nor the results of any job.      *)
LEMMA LifecycleStutter ==
  ASSUME UNCHANGED results,
         \A j \in Jobs : row'[j].status = row[j].status
  PROVE  UNCHANGED Lifecycle!vars
BY DEF Lifecycle!vars

(* A step in which every job stays or moves along an edge of the promise.  *)
LEMMA LifecycleMoves ==
  ASSUME TypeOK',
         \A j \in Jobs :
           \/ row'[j].status = row[j].status /\ results'[j] = results[j]
           \/ /\ <<row[j].status, row'[j].status>> \in Lifecycle!Edges
              /\ results'[j] = results[j] + (IF row'[j].status = "completed" THEN 1 ELSE 0)
  PROVE  Lifecycle!Next
<1>1. \A j \in Jobs : Lifecycle!Advance(j)
  BY DEF Lifecycle!Advance
<1>2. \A j \in Jobs : row'[j].status \in Statuses
  BY DEF TypeOK, RowType
<1> QED
  BY <1>1, <1>2 DEF Lifecycle!Next, Lifecycle!Terminal, Statuses, TypeOK

(* Commits of acquisitions and executions follow the edges, and no other   *)
(* step of the runtime is visible.                                         *)
LEMMA LifecycleStep ==
  TypeOK /\ CompletionInv /\ PunctualInv /\ TypeOK' /\ [Next]_vars
    => [Lifecycle!Next]_(Lifecycle!vars)
<1> SUFFICES ASSUME TypeOK, CompletionInv, PunctualInv, TypeOK', [Next]_vars
             PROVE  Lifecycle!Next \/ UNCHANGED Lifecycle!vars
  OBVIOUS
<1> USE DEF table, hand, loop, delivery, budget, Leave
<1>1. CASE Tick
  <2>1. ASSUME NEW j \in Jobs PROVE row'[j].status = row[j].status
    BY <1>1, RowsTyped DEF Tick, Aged, RowType
  <2> QED
    BY <1>1, <2>1, LifecycleStutter DEF Tick
<1>2. ASSUME NEW j \in Jobs, CreateJob(j) PROVE Lifecycle!Next
  <2>1. ASSUME NEW i \in Jobs
        PROVE  /\ row'[i].status = IF i = j THEN "queued" ELSE row[i].status
               /\ row[j].status = "absent"
    BY <1>2, RowsTyped DEF CreateJob, Requeued, RowType, TypeOK
  <2>2. <<"absent", "queued">> \in Lifecycle!Edges
    BY DEF Lifecycle!Edges
  <2>3. UNCHANGED results /\ \A i \in Jobs : results[i] \in Nat
    BY <1>2 DEF CreateJob, TypeOK
  <2> QED
    BY <2>1, <2>2, <2>3, LifecycleMoves
<1>3. ASSUME NEW w \in Workers, CommitAcquire(w) PROVE Lifecycle!Next
  <2>1. ASSUME NEW j \in Jobs
        PROVE  /\ row'[j] = IF HoldsRow(w, j) THEN draft[j] ELSE row[j]
               /\ HoldsRow(w, j) => pc[w][j] \in Claiming
    BY <1>3 DEF CommitAcquire, CompletionInv, PhaseInv, HoldsRow, Locking, Claiming, Settling
  <2>2. ASSUME NEW j \in Jobs, pc[w][j] \in Claiming
        PROVE  \/ draft[j].status = row[j].status
               \/ <<row[j].status, draft[j].status>> \in Lifecycle!Edges
                  /\ draft[j].status # "completed"
    BY <2>2 DEF PunctualInv, ClaimedRow, Claiming, Lifecycle!Edges
  <2>3. UNCHANGED results /\ \A j \in Jobs : results[j] \in Nat
    BY <1>3 DEF CommitAcquire, TypeOK
  <2> QED
    BY <2>1, <2>2, <2>3, LifecycleMoves
<1>4. ASSUME NEW w \in Workers, NEW j \in Jobs, CommitJob(w, j) PROVE Lifecycle!Next
  <2>1. /\ row[j].status = "running"
        /\ draft[j].status \in {"completed", "failed", "queued"}
    BY <1>4 DEF CommitJob, PunctualInv, OwnedRow, Owns, InTx, Settling
  <2>2. results[j] = 0
    BY <2>1 DEF PunctualInv, ResultIffCompleted
  <2>3. ASSUME NEW i \in Jobs
        PROVE  /\ row'[i] = IF i = j THEN draft[j] ELSE row[i]
               /\ results'[i] = IF i = j /\ draft[j].status = "completed" THEN 1 ELSE results[i]
    BY <1>4, <2>2, CommitEffect
  <2>4. <<row[j].status, draft[j].status>> \in Lifecycle!Edges
    BY <2>1 DEF Lifecycle!Edges
  <2> QED
    BY <2>2, <2>3, <2>4, LifecycleMoves
<1>5. CASE UNCHANGED <<row, results>>
  BY <1>5, LifecycleStutter
<1>6. ASSUME NEW j \in Jobs, KeyExpires(j) PROVE UNCHANGED <<row, results>>
  BY <1>6 DEF KeyExpires
<1>7. ASSUME NEW w \in Workers, Loop(w)
      PROVE  CommitAcquire(w) \/ UNCHANGED <<row, results>>
  BY <1>7 DEF Loop, StartWorker, Exit, Poll, StartChunk, EndBatch
<1>8. ASSUME NEW w \in Workers, Breaks(w) PROVE UNCHANGED <<row, results>>
  BY <1>8 DEF Breaks, Crash, Stop, PollFails, AbortJob, RedisFails
<1>9. ASSUME NEW w \in Workers, NEW j \in Jobs, Execution(w, j)
      PROVE  CommitJob(w, j) \/ UNCHANGED <<row, results>>
  BY <1>9 DEF Execution, Persist, PipelineRaises, ReadJob, FlushJob, TakeDeliveryKey, Send
<1>10. CASE UNCHANGED vars
  BY <1>5, <1>10 DEF vars
<1> QED
  BY <1>1, <1>2, <1>3, <1>4, <1>5, <1>6, <1>7, <1>8, <1>9, <1>10 DEF Next

(* Seen from the database, the punctual runtime is the life of a job that  *)
(* JobLifecycle promises: completed jobs stay completed, failed ones       *)
(* failed, and each completion brings one result.                          *)
THEOREM RuntimeImplementsLifecycle ==
  ASSUME MaxOverruns = 0
  PROVE  Spec => ImplementsLifecycle
<1>1. Init => Lifecycle!Init
  BY DEF Init, Lifecycle!Init
<1> QED
  BY <1>1, LifecycleStep, TypeCorrect, Completion, Punctual, PTL
  DEF Spec, ImplementsLifecycle, Lifecycle!Spec

-----------------------------------------------------------------------------
(* Decided deliveries, delivered results, attempt numbers                  *)

(* The polling loop, and the faults that end it, leave every execution     *)
(* that is about to end alone, or end it with a fault.                     *)
LEMMA LoopEffect ==
  ASSUME TypeOK, DeliveryInv, CompletionInv, NEW w \in Workers,
         Loop(w) \/ Crash(w) \/ PollFails(w)
  PROVE  /\ UNCHANGED <<results, delivery>>
         /\ \A j \in Jobs : row'[j].status = "completed" => row[j].status = "completed"
         /\ \A v \in Workers, j \in Jobs :
              pc'[v][j] \in Settling =>
                pc'[v][j] = pc[v][j] /\ draft'[j] = draft[j] /\ stored'[v][j] = stored[v][j]
         /\ \A v \in Workers, j \in Jobs :
              pc[v][j] \in Settling =>
                \/ pc'[v][j] = pc[v][j] /\ stored'[v][j] = stored[v][j]
                \/ faults' = faults + 1
<1> USE DEF table, hand, loop, delivery, Settling
<1>1. \A v \in Workers, j \in Jobs : BringsResult(v, j)
  BY DEF CompletionInv
<1>2. CASE StartWorker(w) \/ Exit(w)
  BY <1>2 DEF StartWorker, Exit
<1>3. CASE Poll(w)
  <2>1. PICK S \in Picks :
          /\ draft' = [j \in Jobs |-> IF j \in S THEN Acquired(AfterRecovery[j], w)
                                      ELSE IF j \in Stale THEN AfterRecovery[j]
                                      ELSE draft[j]]
          /\ pc' = [pc EXCEPT ![w] = [j \in Jobs |->
                      IF j \in S THEN "picked"
                      ELSE IF j \in Stale THEN "recovered" ELSE "none"]]
    BY <1>3 DEF Poll
  <2>2. \A j \in Jobs : pc[w][j] = "none"
    BY <1>3 DEF Poll, CompletionInv, PhaseInv
  <2>3. \A j \in S \cup Stale, v \in Workers : ~HoldsRow(v, j)
    BY DEF Picks, Due, Stale, RowFree
  <2>4. ASSUME NEW v \in Workers, NEW j \in Jobs
        PROVE  /\ pc'[v][j] \in Settling => pc'[v][j] = pc[v][j] /\ draft'[j] = draft[j]
               /\ pc[v][j] \in Settling => pc'[v][j] = pc[v][j]
    BY <2>1, <2>2, <2>3 DEF TypeOK, HoldsRow, Locking
  <2> QED
    BY <1>3, <2>4 DEF Poll
<1>4. CASE CommitAcquire(w)
  <2>1. /\ UNCHANGED <<draft, results, stored, delivery>>
        /\ \A j \in Jobs : row'[j] = IF HoldsRow(w, j) THEN draft[j] ELSE row[j]
        /\ \A v \in Workers, j \in Jobs :
             pc'[v][j] = IF v # w THEN pc[v][j]
                         ELSE IF pc[w][j] = "picked" THEN "waiting" ELSE "none"
    BY <1>4 DEF CommitAcquire, TypeOK
  <2>2. \A j \in Jobs : pc[w][j] \in {"picked", "recovered", "none"}
    BY <1>4 DEF CommitAcquire, CompletionInv, PhaseInv, Claiming
  <2>3. ASSUME NEW j \in Jobs, row'[j].status = "completed" PROVE row[j].status = "completed"
    BY <1>1, <2>1, <2>2, <2>3 DEF BringsResult, HoldsRow, Locking, Claiming
  <2> QED
    BY <2>1, <2>2, <2>3
<1>5. CASE StartChunk(w) \/ EndBatch(w)
  <2>1. ASSUME NEW v \in Workers, NEW j \in Jobs
        PROVE  \/ pc'[v][j] = pc[v][j]
               \/ pc[v][j] = "waiting" /\ pc'[v][j] = "run"
               \/ pc[v][j] = "done" /\ pc'[v][j] = "none"
    BY <1>5 DEF StartChunk, EndBatch, TypeOK, Idle
  <2> QED
    BY <1>5, <2>1 DEF StartChunk, EndBatch
<1>6. CASE Crash(w) \/ PollFails(w)
  <2>1. /\ UNCHANGED <<row, results, delivery>> /\ draft' = RolledBack(w, Jobs)
        /\ \A v \in Workers, j \in Jobs : pc'[v][j] = IF v = w THEN "none" ELSE pc[v][j]
        /\ \A v \in Workers, j \in Jobs : v # w => stored'[v][j] = stored[v][j]
        /\ faults' = faults + 1
    BY <1>6 DEF Crash, PollFails, TypeOK, Idle, Fault
  <2>2. \A j \in Jobs : draft'[j] = IF HoldsRow(w, j) THEN row[j] ELSE draft[j]
    BY <2>1 DEF RolledBack
  <2>3. ASSUME NEW v \in Workers, NEW j \in Jobs, pc'[v][j] \in Settling
        PROVE  pc'[v][j] = pc[v][j] /\ draft'[j] = draft[j] /\ stored'[v][j] = stored[v][j]
    BY <2>1, <2>2, <2>3 DEF DeliveryInv, HoldsRow, Locking
  <2> QED
    BY <2>1, <2>3
<1> QED
  BY <1>2, <1>3, <1>4, <1>5, <1>6 DEF Loop

LEMMA DecidedInit == Init => DecidedInv
BY DEF Init, DecidedInv, DeliveryDecided, Idle

(* What a step of an execution outside its delivery must respect.          *)
LEMMA DecidedMove ==
  ASSUME TypeOK, DecidedInv, NEW w \in Workers, NEW j \in Jobs, NEW s, Move(w, j, s),
         s \notin {"deliver", "send"} \/ j \notin MemoryJobs,
         s # "send",
         s = "commit" => draft'[j].status # "completed" \/ j \in MemoryJobs,
         UNCHANGED <<row, delivery>>,
         \A i \in Jobs : i # j => draft'[i] = draft[i],
         \A v \in Workers : v # w /\ HoldsRow(v, j) => draft'[j] = draft[j]
  PROVE  DecidedInv'
<1>1. \A v \in Workers, i \in Jobs :
        pc'[v][i] = IF v = w /\ i = j THEN s ELSE pc[v][i]
  BY MoveEffect
<1>2. ASSUME NEW v \in Workers, NEW i \in Jobs, pc'[v][i] = "commit", draft'[i].status = "completed",
             i \notin MemoryJobs
      PROVE  key[i]
  <2>1. v # w \/ i # j
    BY <1>1, <1>2
  <2>2. pc[v][i] = "commit"
    BY <1>1, <1>2, <2>1
  <2>3. draft'[i] = draft[i]
    BY <2>1, <2>2 DEF HoldsRow, Locking, Settling
  <2> QED
    BY <1>2, <2>2, <2>3 DEF DecidedInv
<1>3. DeliveryDecided'
  BY DEF DecidedInv, DeliveryDecided, delivery
<1> QED
  BY <1>1, <1>2, <1>3 DEF DecidedInv, delivery

(* Nobody reaches the commit of a completed analysis around the key.       *)
LEMMA DecidedExecution ==
  ASSUME TypeOK, DeliveryInv, CompletionInv, DecidedInv, NEW w \in Workers, NEW j \in Jobs,
         Execution(w, j) \/ AbortJob(w, j) \/ RedisFails(w, j)
  PROVE  DecidedInv'
<1> USE DEF table, hand, loop, delivery
<1>1. BringsResult(w, j)
  BY DEF CompletionInv
<1>2. CASE Persist(w, j)
  BY <1>2, DecidedMove DEF Persist
<1>3. CASE PipelineRaises(w, j)
  <2>1. PICK s \in {"retry", "fail"} : Move(w, j, s)
    BY <1>3 DEF PipelineRaises
  <2> QED
    BY <1>3, <2>1, DecidedMove DEF PipelineRaises
<1>4. CASE ReadJob(w, j)
  <2>1. PICK s \in {"done", "complete", "requeue", "markfail"} : Move(w, j, s)
    BY <1>4 DEF ReadJob, Leave
  <2> QED
    BY <1>4, <2>1, DecidedMove DEF ReadJob
<1>5. CASE FlushJob(w, j)
  <2>1. /\ \A v \in Workers : ~HoldsRow(v, j)
        /\ \A i \in Jobs : i # j => draft'[i] = draft[i]
        /\ UNCHANGED <<row, delivery>>
    BY <1>5 DEF FlushJob, RowFree, TypeOK
  <2>2. CASE pc[w][j] = "complete" /\ j \notin MemoryJobs
    <3>1. Move(w, j, "deliver")
      BY <1>5, <2>2 DEF FlushJob
    <3> QED
      BY <2>1, <2>2, <3>1, DecidedMove
  <2>3. CASE ~(pc[w][j] = "complete" /\ j \notin MemoryJobs)
    <3>1. Move(w, j, "commit") /\ row[j] \in RowType
      BY <1>5, <2>3, RowsTyped DEF FlushJob
    <3>2. draft'[j].status # "completed" \/ j \in MemoryJobs
      BY <1>5, <2>3, <3>1 DEF FlushJob, TypeOK, RowType, Closed, Requeued
    <3> QED
      BY <2>1, <3>1, <3>2, DecidedMove
  <2> QED
    BY <2>2, <2>3
<1>6. CASE CommitJob(w, j)
  <2>1. /\ pc[w][j] = "commit" /\ Move(w, j, "done") /\ UNCHANGED <<draft, delivery>>
        /\ \A i \in Jobs : row'[i] = IF i = j THEN draft[j] ELSE row[i]
    BY <1>6 DEF CommitJob, Leave, TypeOK
  <2>2. \A v \in Workers, i \in Jobs :
          pc'[v][i] = IF v = w /\ i = j THEN "done" ELSE pc[v][i]
    BY <2>1, MoveEffect
  <2>3. DeliveryDecided'
    BY <2>1 DEF DecidedInv, DeliveryDecided
  <2> QED
    BY <2>1, <2>2, <2>3 DEF DecidedInv
<1>7. CASE TakeDeliveryKey(w, j)
  <2>1. /\ pc[w][j] = "deliver" /\ UNCHANGED <<row, draft, sent, expired>>
        /\ Move(w, j, IF key[j] THEN "commit" ELSE "send")
        /\ \A i \in Jobs : key'[i] = IF i = j THEN TRUE ELSE key[i]
    BY <1>7 DEF TakeDeliveryKey, TypeOK
  <2>2. j \notin MemoryJobs
    BY <2>1 DEF DecidedInv
  <2>3. \A v \in Workers, i \in Jobs :
          pc'[v][i] = IF v = w /\ i = j THEN IF key[j] THEN "commit" ELSE "send" ELSE pc[v][i]
    BY <2>1, MoveEffect
  <2>4. DeliveryDecided'
    BY <2>1, <2>2 DEF DecidedInv, DeliveryDecided
  <2>5. \A v \in Workers, i \in Jobs :
          /\ i # j => pc'[v][i] = pc[v][i] /\ key'[i] = key[i]
          /\ pc'[v][i] \in {"deliver", "send"} => pc[v][i] \in {"deliver", "send"}
          /\ key'[j]
    BY <2>1, <2>3
  <2>6. ASSUME NEW v \in Workers, NEW i \in Jobs
        PROVE  /\ i \in MemoryJobs => pc'[v][i] \notin {"deliver", "send"}
               /\ pc'[v][i] = "send" => key'[i]
               /\ pc'[v][i] = "commit" /\ draft'[i].status = "completed" /\ i \notin MemoryJobs
                    => key'[i]
    <3>1. CASE i = j
      BY <2>2, <2>5, <3>1
    <3>2. CASE i # j
      BY <2>1, <2>5, <3>2 DEF DecidedInv
    <3> QED
      BY <3>1, <3>2
  <2> QED
    BY <2>4, <2>6 DEF DecidedInv
<1>8. CASE Send(w, j)
  <2>1. /\ pc[w][j] = "send" /\ UNCHANGED <<row, draft, key, expired>>
        /\ Move(w, j, "commit")
        /\ \A i \in Jobs : i # j => sent'[i] = sent[i]
    BY <1>8 DEF Send, TypeOK
  <2>2. j \notin MemoryJobs /\ key[j]
    BY <2>1 DEF DecidedInv
  <2>3. \A v \in Workers, i \in Jobs :
          pc'[v][i] = IF v = w /\ i = j THEN "commit" ELSE pc[v][i]
    BY <2>1, MoveEffect
  <2>4. DeliveryDecided'
    BY <2>1, <2>2 DEF DecidedInv, DeliveryDecided
  <2> QED
    BY <2>1, <2>2, <2>3, <2>4 DEF DecidedInv
<1>9. ASSUME AbortJob(w, j) \/ RedisFails(w, j) PROVE DecidedInv'
  <2>1. Move(w, j, "done") /\ UNCHANGED <<row, sent, expired>> /\ draft' = RolledBack(w, {j})
    BY <1>9 DEF AbortJob, RedisFails, Leave
  <2>2. \A i \in Jobs : draft'[i] = IF i = j /\ HoldsRow(w, i) THEN row[i] ELSE draft[i]
    BY <2>1 DEF RolledBack
  <2>3. \A v \in Workers : v # w /\ HoldsRow(v, j) => draft'[j] = draft[j]
    BY <2>2 DEF DeliveryInv
  <2>4. CASE AbortJob(w, j)
    BY <2>1, <2>2, <2>3, <2>4, DecidedMove DEF AbortJob
  <2>5. CASE RedisFails(w, j)
    <3>1. pc[w][j] = "deliver" /\ j \notin MemoryJobs
      BY <2>5 DEF RedisFails, DecidedInv
    <3>2. \A i \in Jobs : (key[i] => key'[i]) /\ (i # j => key'[i] = key[i])
      BY <2>5 DEF RedisFails, TypeOK
    <3>3. \A v \in Workers, i \in Jobs :
            pc'[v][i] = IF v = w /\ i = j THEN "done" ELSE pc[v][i]
      BY <2>1, MoveEffect
    <3>4. DeliveryDecided'
      BY <2>1, <3>1, <3>2 DEF DecidedInv, DeliveryDecided
    <3>5. ASSUME NEW v \in Workers, NEW i \in Jobs, pc'[v][i] = "commit",
                 draft'[i].status = "completed", i \notin MemoryJobs
          PROVE  key'[i]
      <4>1. pc[v][i] = "commit" /\ (v # w \/ i # j)
        BY <3>3, <3>5
      <4>2. draft'[i] = draft[i]
        BY <2>2, <2>3, <4>1 DEF HoldsRow, Locking, Settling
      <4> QED
        BY <3>2, <3>5, <4>1, <4>2 DEF DecidedInv
    <3> QED
      BY <3>2, <3>3, <3>4, <3>5 DEF DecidedInv
  <2> QED
    BY <1>9, <2>4, <2>5
<1> QED
  BY <1>2, <1>3, <1>4, <1>5, <1>6, <1>7, <1>8, <1>9 DEF Execution

LEMMA DecidedStep ==
  TypeOK /\ DeliveryInv /\ CompletionInv /\ DecidedInv /\ [Next]_vars => DecidedInv'
<1> SUFFICES ASSUME TypeOK, DeliveryInv, CompletionInv, DecidedInv, [Next]_vars
             PROVE  DecidedInv'
  OBVIOUS
<1> USE DEF vars, table, hand, loop, delivery, budget
<1>1. CASE Tick
  <2>1. /\ \A j \in Jobs : row'[j] = Aged(row[j]) /\ draft'[j] = Aged(draft[j])
        /\ UNCHANGED <<pc, key, sent, expired>>
    BY <1>1 DEF Tick
  <2>2. \A j \in Jobs : row'[j].status = row[j].status /\ draft'[j].status = draft[j].status
    BY <2>1, RowsTyped DEF Aged, RowType
  <2> QED
    BY <2>1, <2>2 DEF DecidedInv, DeliveryDecided
<1>2. ASSUME NEW j \in Jobs, CreateJob(j) PROVE DecidedInv'
  <2>1. /\ UNCHANGED <<pc, key, sent, expired>> /\ row[j].status = "absent"
        /\ \A i \in Jobs : i # j => row'[i] = row[i] /\ draft'[i] = draft[i]
        /\ row'[j] = Requeued(row[j], 0)
    BY <1>2 DEF CreateJob, TypeOK
  <2>2. row'[j].status = "queued"
    BY <2>1, RowsTyped DEF Requeued, RowType
  <2>3. \A v \in Workers : pc[v][j] = "none"
    BY <2>1 DEF CompletionInv, BringsResult
  <2> QED
    BY <2>1, <2>2, <2>3 DEF DecidedInv, DeliveryDecided
<1>3. ASSUME NEW j \in Jobs, KeyExpires(j) PROVE DecidedInv'
  <2>1. /\ UNCHANGED <<pc, row, draft, sent>> /\ expired' = expired \cup {j} /\ key[j]
        /\ \A i \in Jobs : key'[i] = IF i = j THEN FALSE ELSE key[i]
        /\ \A v \in Workers : pc[v][j] \notin {"send", "commit"}
    BY <1>3 DEF KeyExpires, TypeOK
  <2> QED
    BY <2>1 DEF DecidedInv, DeliveryDecided
<1>4. ASSUME NEW w \in Workers, Loop(w) \/ Crash(w) \/ PollFails(w) PROVE DecidedInv'
  <2>1. UNCHANGED delivery
    BY <1>4, LoopEffect
  <2>2. \A j \in Jobs : row'[j].status = "completed" => row[j].status = "completed"
    BY <1>4, LoopEffect
  <2>3. \A v \in Workers, j \in Jobs :
          pc'[v][j] \in Settling => pc'[v][j] = pc[v][j] /\ draft'[j] = draft[j]
    BY <1>4, LoopEffect
  <2>4. DeliveryDecided'
    BY <2>1, <2>2 DEF DecidedInv, DeliveryDecided
  <2> QED
    BY <2>1, <2>3, <2>4 DEF DecidedInv, Settling
<1>5. ASSUME NEW w \in Workers, Stop(w) PROVE DecidedInv'
  BY <1>5 DEF Stop, DecidedInv, DeliveryDecided
<1>6. ASSUME NEW w \in Workers, NEW j \in Jobs,
             Execution(w, j) \/ AbortJob(w, j) \/ RedisFails(w, j)
      PROVE  DecidedInv'
  BY <1>6, DecidedExecution
<1>7. CASE UNCHANGED vars
  BY <1>7 DEF DecidedInv, DeliveryDecided
<1> QED
  BY <1>1, <1>2, <1>3, <1>4, <1>5, <1>6, <1>7 DEF Next, Breaks

(* A job is never visible as completed before its delivery has been        *)
(* decided: execute_analysis_job awaits _deliver_completed_analysis inside *)
(* the transaction, and a memory job touches neither Redis nor Telegram.   *)
THEOREM CompletedIsDecided == Spec => []DeliveryDecided
<1>1. DecidedInv => DeliveryDecided
  BY DEF DecidedInv
<1> QED
  BY <1>1, TypeInit, TypeStep, DeliveryInit, DeliveryStep, Completion, DecidedInit, DecidedStep,
     PTL DEF Spec

LEMMA MessageInit == Init => MessageInv
BY DEF Init, MessageInv

(* Whoever is about to commit with a result commits it, or a fault is to   *)
(* blame.                                                                  *)
LEMMA MessageStep ==
  TypeOK /\ DeliveryInv /\ CompletionInv /\ MessageInv /\ [Next]_vars => MessageInv'
<1> SUFFICES ASSUME TypeOK, DeliveryInv, CompletionInv, MessageInv, [Next]_vars,
                    NEW j \in Jobs, sent'[j] > 0, results'[j] = 0, ~(faults' > 0)
             PROVE  \E v \in Workers : pc'[v][j] = "commit" /\ stored'[v][j]
  BY DEF MessageInv
<1> USE DEF vars, table, hand, loop, delivery, budget
<1>0. /\ faults \in Nat /\ sent[j] \in Nat /\ results[j] \in Nat
      /\ faults' # faults + 1
  BY DEF TypeOK, Fault
<1>1. ASSUME UNCHANGED <<pc, stored, sent, results, faults>>
      PROVE  \E v \in Workers : pc'[v][j] = "commit" /\ stored'[v][j]
  BY <1>1 DEF MessageInv
<1>2. Tick \/ (\E i \in Jobs : CreateJob(i)) \/ UNCHANGED vars
        => UNCHANGED <<pc, stored, sent, results, faults>>
  BY DEF Tick, CreateJob
<1>3. /\ \A i \in Jobs : ~KeyExpires(i)
      /\ \A w \in Workers : ~Stop(w) /\ ~Crash(w) /\ ~PollFails(w)
      /\ \A w \in Workers, i \in Jobs : ~AbortJob(w, i) /\ ~RedisFails(w, i)
  BY <1>0 DEF KeyExpires, Stop, Crash, PollFails, AbortJob, RedisFails, Fault
<1>4. ASSUME NEW w \in Workers, Loop(w)
      PROVE  \E v \in Workers : pc'[v][j] = "commit" /\ stored'[v][j]
  <2>1. UNCHANGED <<results, sent>>
    BY <1>4, LoopEffect
  <2>2. \A v \in Workers :
          pc[v][j] \in Settling => pc'[v][j] = pc[v][j] /\ stored'[v][j] = stored[v][j]
    BY <1>0, <1>4, LoopEffect
  <2>3. faults' = faults
    BY <1>4 DEF Loop, StartWorker, Exit, Poll, CommitAcquire, StartChunk, EndBatch
  <2>4. PICK v \in Workers : pc[v][j] = "commit" /\ stored[v][j]
    BY <2>1, <2>3 DEF MessageInv
  <2> QED
    BY <2>2, <2>4 DEF Settling
<1>5. ASSUME NEW w \in Workers, NEW i \in Jobs, Execution(w, i)
      PROVE  \E v \in Workers : pc'[v][j] = "commit" /\ stored'[v][j]
  <2>1. faults' = faults
    BY <1>5 DEF Execution, Persist, PipelineRaises, ReadJob, FlushJob, CommitJob,
                TakeDeliveryKey, Send
  <2>2. CASE Send(w, i) /\ i = j
    <3>1. pc[w][j] = "send" /\ Move(w, j, "commit") /\ UNCHANGED stored
      BY <2>2 DEF Send
    <3>2. stored[w][j]
      BY <3>1 DEF CompletionInv, BringsResult
    <3>3. pc'[w][j] = "commit"
      BY <3>1, MoveEffect
    <3> QED
      BY <3>1, <3>2, <3>3
  <2>3. CASE ~(Send(w, i) /\ i = j)
    <3>1. sent'[j] = sent[j]
      BY <1>5, <2>3 DEF Execution, Persist, PipelineRaises, ReadJob, FlushJob, CommitJob,
                        TakeDeliveryKey, Send, TypeOK
    <3>2. results[j] = 0 /\ ~(CommitJob(w, i) /\ i = j /\ stored[w][j])
      BY <1>0, <1>5 DEF Execution, Persist, PipelineRaises, ReadJob, FlushJob, CommitJob,
                        TakeDeliveryKey, Send, TypeOK
    <3>3. PICK v \in Workers : pc[v][j] = "commit" /\ stored[v][j]
      BY <2>1, <3>1, <3>2 DEF MessageInv
    <3>4. v # w \/ i # j
      BY <1>5, <3>2, <3>3 DEF Execution, Persist, PipelineRaises, ReadJob, FlushJob, CommitJob,
                              TakeDeliveryKey, Send
    <3>5. PICK s : Move(w, i, s)
      BY <1>5, ExecutionMoves
    <3>6. pc'[v][j] = pc[v][j]
      BY <3>4, <3>5, MoveEffect
    <3>7. stored'[v][j] = stored[v][j]
      BY <1>5, <3>4 DEF Execution, Persist, PipelineRaises, ReadJob, FlushJob, CommitJob,
                        TakeDeliveryKey, Send, Leave, TypeOK
    <3> QED
      BY <3>3, <3>6, <3>7
  <2> QED
    BY <2>2, <2>3
<1> QED
  BY <1>1, <1>2, <1>3, <1>4, <1>5 DEF Next, Breaks

(* send_analysis goes out before the commit, but the result of a job whose *)
(* user has been told of it is missing only while its execution commits,   *)
(* or after a fault: executions that overlap do not lose it.               *)
THEOREM MessagesHaveResults == Spec => []MessageHasResult
<1>1. MessageInv => MessageHasResult
  BY DEF MessageInv, MessageHasResult
<1> QED
  BY <1>1, TypeInit, TypeStep, DeliveryInit, DeliveryStep, Completion, MessageInit, MessageStep,
     PTL DEF Spec

-----------------------------------------------------------------------------
(* Attempt numbers *)

LEMMA AttemptsKept ==
  ASSUME NEW r \in RowType, NEW s, NEW d, NEW w
  PROVE  /\ Requeued(r, d).attempts = r.attempts
         /\ Closed(r, s).attempts = r.attempts
         /\ Aged(r).attempts = r.attempts
         /\ Acquired(r, w).attempts = r.attempts + 1
BY DEF RowType, Requeued, Closed, Aged, Acquired

LEMMA SnapshotInit == Init => SnapshotInv
BY DEF Init, SnapshotInv, OneExecutionPerAttempt, Idle

(* A step that takes no snapshot and lowers no attempt number.             *)
LEMMA SnapshotFrame ==
  ASSUME TypeOK, TypeOK', SnapshotInv,
         \A w \in Workers, j \in Jobs : snap'[w][j] = 0 \/ snap'[w][j] = snap[w][j],
         \A j \in Jobs : row[j].attempts <= row'[j].attempts,
         \A j \in Jobs : row'[j].attempts <= draft'[j].attempts,
         \A w \in Workers, j \in Jobs :
           pc'[w][j] = "picked" => row'[j].attempts < draft'[j].attempts
  PROVE  SnapshotInv'
<1>1. \A j \in Jobs : row[j].attempts \in Nat /\ row'[j].attempts \in Nat
  BY DEF TypeOK, RowType
<1>2. \A w \in Workers, j \in Jobs : snap[w][j] \in Nat /\ snap'[w][j] \in Nat
  BY DEF TypeOK
<1>3. ASSUME NEW w \in Workers, NEW j \in Jobs PROVE snap'[w][j] <= row'[j].attempts
  <2>1. snap[w][j] <= row[j].attempts /\ row[j].attempts <= row'[j].attempts
    BY DEF SnapshotInv
  <2> QED
    BY <1>1, <1>2, <2>1
<1>4. OneExecutionPerAttempt'
  BY DEF SnapshotInv, OneExecutionPerAttempt
<1> QED
  BY <1>3, <1>4 DEF SnapshotInv

(* The case in which the attempt numbers of the rows stay.                 *)
LEMMA SnapshotKept ==
  ASSUME TypeOK, TypeOK', SnapshotInv,
         \A w \in Workers, j \in Jobs : snap'[w][j] = 0 \/ snap'[w][j] = snap[w][j],
         \A j \in Jobs : row'[j].attempts = row[j].attempts,
         \A j \in Jobs : draft'[j].attempts # draft[j].attempts
                           => draft'[j].attempts = row[j].attempts,
         \A w \in Workers, j \in Jobs :
           pc'[w][j] = "picked" =>
             pc[w][j] = "picked" /\ draft'[j].attempts = draft[j].attempts
  PROVE  SnapshotInv'
<1>1. \A j \in Jobs : /\ row[j].attempts \in Nat /\ draft[j].attempts \in Nat
                       /\ row[j].attempts <= draft[j].attempts
  BY DEF TypeOK, RowType, SnapshotInv
<1>2. \A w \in Workers, j \in Jobs :
        pc'[w][j] = "picked" => row'[j].attempts < draft'[j].attempts
  BY DEF SnapshotInv
<1> QED
  BY <1>1, <1>2, SnapshotFrame

LEMMA SnapshotExecution ==
  ASSUME TypeOK, TypeOK', DeliveryInv, SnapshotInv, NEW w \in Workers, NEW j \in Jobs,
         Execution(w, j) \/ AbortJob(w, j) \/ RedisFails(w, j)
  PROVE  SnapshotInv'
<1> USE DEF table, hand, loop, delivery
<1>1. row[j] \in RowType /\ \A i \in Jobs : row[i].attempts \in Nat
  BY RowsTyped DEF RowType
<1>2. UNCHANGED snap
  BY DEF Execution, Persist, PipelineRaises, ReadJob, FlushJob, CommitJob,
         TakeDeliveryKey, Send, AbortJob, RedisFails
<1>3. pc[w][j] \in InTx /\ \E s \in InTx \cup {"done"} : Move(w, j, s)
  BY ExecutionMoves
<1>4. \A v \in Workers, i \in Jobs :
        pc'[v][i] = "picked" => pc[v][i] = "picked" /\ (v # w \/ i # j)
  <2>1. PICK s \in InTx \cup {"done"} : Move(w, j, s)
    BY <1>3
  <2>2. s # "picked"
    BY DEF InTx, Unlocked, Settling
  <2> QED
    BY <2>1, <2>2, MoveEffect
<1>5. CASE UNCHANGED <<row, draft>>
  BY <1>2, <1>4, <1>5, SnapshotKept
<1>6. CASE FlushJob(w, j)
  <2>1. /\ UNCHANGED row
        /\ \A i \in Jobs : i # j => draft'[i] = draft[i]
        /\ \A v \in Workers : ~HoldsRow(v, j)
        /\ pc[w][j] \in {"complete", "requeue", "markfail"}
    BY <1>6 DEF FlushJob, RowFree, TypeOK
  <2>2. draft'[j].attempts = row[j].attempts
    <3>1. PICK r \in {Closed(row[j], "completed"), Requeued(row[j], RetryDelay),
                      Closed(row[j], "failed")} : draft' = [draft EXCEPT ![j] = r]
      BY <1>6 DEF FlushJob
    <3>2. draft'[j] = r
      BY <3>1 DEF TypeOK
    <3> QED
      BY <1>1, <3>1, <3>2, AttemptsKept
  <2>3. \A v \in Workers : pc'[v][j] # "picked"
    BY <1>4, <2>1 DEF HoldsRow, Locking, Claiming
  <2>4. \A v \in Workers, i \in Jobs :
          pc'[v][i] = "picked" => pc[v][i] = "picked" /\ draft'[i] = draft[i]
    BY <1>4, <2>1, <2>3
  <2> QED
    BY <1>2, <2>1, <2>2, <2>4, SnapshotKept
<1>7. CASE CommitJob(w, j)
  <2>1. /\ UNCHANGED draft
        /\ \A i \in Jobs : row'[i] = IF i = j THEN draft[j] ELSE row[i]
        /\ HoldsRow(w, j)
    BY <1>7 DEF CommitJob, TypeOK, HoldsRow, Locking, Settling
  <2>2. \A v \in Workers : pc'[v][j] # "picked"
    BY <1>4, <2>1 DEF DeliveryInv, HoldsRow, Locking, Claiming
  <2>3. \A i \in Jobs : /\ draft[i].attempts \in Nat /\ row[i].attempts \in Nat
                        /\ row[i].attempts <= draft[i].attempts
    BY RowsTyped DEF RowType, SnapshotInv
  <2>4. \A v \in Workers, i \in Jobs :
          pc'[v][i] = "picked" => row'[i].attempts < draft'[i].attempts
    BY <1>4, <2>1, <2>2 DEF SnapshotInv
  <2>5. \A i \in Jobs : row[i].attempts <= row'[i].attempts
    BY <2>1, <2>3
  <2>6. \A i \in Jobs : row'[i].attempts <= draft'[i].attempts
    BY <2>1, <2>3
  <2> QED
    BY <1>2, <2>4, <2>5, <2>6, SnapshotFrame
<1>8. CASE AbortJob(w, j) \/ RedisFails(w, j)
  <2>1. UNCHANGED row /\ draft' = RolledBack(w, {j})
    BY <1>8 DEF AbortJob, RedisFails
  <2>2. \A i \in Jobs : draft'[i] = IF i = j /\ HoldsRow(w, i) THEN row[i] ELSE draft[i]
    BY <2>1 DEF RolledBack
  <2>3. ASSUME NEW v \in Workers, NEW i \in Jobs, pc'[v][i] = "picked"
        PROVE  draft'[i] = draft[i] /\ pc[v][i] = "picked"
    <3>1. pc[v][i] = "picked" /\ (v # w \/ i # j)
      BY <1>4, <2>3
    <3> QED
      BY <2>2, <3>1 DEF DeliveryInv, HoldsRow, Locking, Claiming
  <2> QED
    BY <1>2, <2>1, <2>2, <2>3, SnapshotKept
<1>9. Execution(w, j) => FlushJob(w, j) \/ CommitJob(w, j) \/ UNCHANGED <<row, draft>>
  BY DEF Execution, Persist, PipelineRaises, ReadJob, TakeDeliveryKey, Send
<1> QED
  BY <1>5, <1>6, <1>7, <1>8, <1>9

LEMMA SnapshotLoop ==
  ASSUME TypeOK, TypeOK', DeliveryInv, PhaseInv, SnapshotInv, NEW w \in Workers,
         Loop(w) \/ Crash(w) \/ PollFails(w)
  PROVE  SnapshotInv'
<1> USE DEF table, hand, loop, delivery
<1>1. \A j \in Jobs : row[j] \in RowType /\ row[j].attempts \in Nat /\ draft[j].attempts \in Nat
  BY RowsTyped DEF RowType
<1>2. CASE StartWorker(w) \/ Exit(w)
  BY <1>2, SnapshotKept DEF StartWorker, Exit
<1>3. CASE Poll(w)
  <2>1. PICK S \in Picks :
          /\ draft' = [j \in Jobs |-> IF j \in S THEN Acquired(AfterRecovery[j], w)
                                      ELSE IF j \in Stale THEN AfterRecovery[j]
                                      ELSE draft[j]]
          /\ pc' = [pc EXCEPT ![w] = [j \in Jobs |->
                      IF j \in S THEN "picked"
                      ELSE IF j \in Stale THEN "recovered" ELSE "none"]]
    BY <1>3 DEF Poll
  <2>2. \A j \in S \cup Stale, v \in Workers : ~HoldsRow(v, j)
    BY DEF Picks, Due, Stale, RowFree
  <2>3. ASSUME NEW j \in Jobs
        PROVE  AfterRecovery[j] \in RowType /\ AfterRecovery[j].attempts = row[j].attempts
    BY <1>1, AttemptsKept, RecoveryTyped DEF AfterRecovery
  <2>4. \A j \in Jobs : draft'[j].attempts = IF j \in S THEN row[j].attempts + 1
                                             ELSE IF j \in Stale THEN row[j].attempts
                                             ELSE draft[j].attempts
    <3> SUFFICES ASSUME NEW j \in Jobs
                 PROVE  draft'[j].attempts = IF j \in S THEN row[j].attempts + 1
                                             ELSE IF j \in Stale THEN row[j].attempts
                                             ELSE draft[j].attempts
      OBVIOUS
    <3>1. draft'[j] = IF j \in S THEN Acquired(AfterRecovery[j], w)
                      ELSE IF j \in Stale THEN AfterRecovery[j] ELSE draft[j]
      BY <2>1
    <3>2. Acquired(AfterRecovery[j], w).attempts = row[j].attempts + 1
      BY <2>3, AttemptsKept
    <3> QED
      BY <2>3, <3>1, <3>2
  <2>5. ASSUME NEW v \in Workers, NEW j \in Jobs, pc'[v][j] = "picked"
        PROVE  row[j].attempts < draft'[j].attempts
    <3>1. j \in S \/ (pc[v][j] = "picked" /\ j \notin S \cup Stale)
      BY <2>1, <2>2, <2>5 DEF TypeOK, HoldsRow, Locking, Claiming
    <3> QED
      BY <1>1, <2>4, <3>1 DEF SnapshotInv
  <2>6. UNCHANGED <<row, snap>>
    BY <1>3 DEF Poll
  <2> QED
    <3>1. \A j \in Jobs : row'[j].attempts <= draft'[j].attempts
      BY <1>1, <2>4, <2>6 DEF SnapshotInv
    <3>2. \A j \in Jobs : row[j].attempts <= row'[j].attempts
      BY <1>1, <2>6
    <3> QED
      BY <2>5, <2>6, <3>1, <3>2, SnapshotFrame
<1>4. CASE CommitAcquire(w)
  <2>1. /\ UNCHANGED draft
        /\ \A j \in Jobs : row'[j] = IF HoldsRow(w, j) THEN draft[j] ELSE row[j]
        /\ \A v \in Workers, j \in Jobs :
             /\ pc'[v][j] = IF v # w THEN pc[v][j]
                            ELSE IF pc[w][j] = "picked" THEN "waiting" ELSE "none"
             /\ snap'[v][j] = IF v # w THEN snap[v][j]
                              ELSE IF pc[w][j] = "picked" THEN draft[j].attempts ELSE 0
    BY <1>4 DEF CommitAcquire, TypeOK
  <2>2. \A v \in Workers, j \in Jobs : snap[v][j] \in Nat /\ snap[v][j] <= row[j].attempts
    BY DEF TypeOK, SnapshotInv
  <2>3. \A j \in Jobs : row[j].attempts <= row'[j].attempts /\ row'[j].attempts <= draft'[j].attempts
    BY <1>1, <2>1 DEF SnapshotInv
  <2>4. \A j \in Jobs : pc[w][j] = "picked" => /\ row'[j] = draft[j]
                                               /\ row[j].attempts < draft[j].attempts
    BY <2>1 DEF SnapshotInv, HoldsRow, Locking, Claiming
  <2>5. ASSUME NEW v \in Workers, NEW j \in Jobs, pc'[v][j] = "picked"
        PROVE  row'[j].attempts < draft'[j].attempts
    <3>1. pc[v][j] = "picked" /\ v # w
      BY <2>1, <2>5
    <3>2. ~HoldsRow(w, j)
      BY <3>1 DEF DeliveryInv, HoldsRow, Locking, Claiming
    <3> QED
      BY <2>1, <3>1, <3>2 DEF SnapshotInv
  <2>6. ASSUME NEW v \in Workers, NEW j \in Jobs PROVE snap'[v][j] <= row'[j].attempts
    BY <1>1, <2>1, <2>2, <2>3, <2>4
  <2>7. ASSUME NEW j \in Jobs, NEW u \in Workers, NEW v \in Workers, u # v, snap'[u][j] # 0
        PROVE  snap'[u][j] # snap'[v][j]
    <3>1. CASE u # w /\ v # w
      BY <2>1, <2>7, <3>1 DEF SnapshotInv, OneExecutionPerAttempt
    <3>2. CASE u = w
      BY <1>1, <2>1, <2>2, <2>4, <2>7, <3>2
    <3>3. CASE v = w
      BY <1>1, <2>1, <2>2, <2>4, <2>7, <3>3
    <3> QED
      BY <3>1, <3>2, <3>3
  <2> QED
    BY <2>3, <2>5, <2>6, <2>7 DEF SnapshotInv, OneExecutionPerAttempt
<1>5. CASE StartChunk(w)
  <2>1. PICK C : pc' = [pc EXCEPT ![w] = [j \in Jobs |-> IF j \in C THEN "run" ELSE pc[w][j]]]
    BY <1>5 DEF StartChunk
  <2>2. \A v \in Workers, j \in Jobs : pc'[v][j] = "picked" => pc[v][j] = "picked"
    BY <2>1 DEF TypeOK
  <2>3. UNCHANGED <<row, draft, snap>>
    BY <1>5 DEF StartChunk
  <2> QED
    BY <2>2, <2>3, SnapshotKept
<1>6. CASE EndBatch(w) \/ Crash(w) \/ PollFails(w)
  <2>0. /\ pc' = [pc EXCEPT ![w] = Idle]
        /\ snap' = [snap EXCEPT ![w] = [j \in Jobs |-> 0]] \/ UNCHANGED snap
        /\ UNCHANGED row
        /\ UNCHANGED draft \/ draft' = RolledBack(w, Jobs)
    BY <1>6 DEF EndBatch, Crash, PollFails
  <2>1. \A v \in Workers, j \in Jobs : pc'[v][j] = IF v = w THEN "none" ELSE pc[v][j]
    BY <2>0 DEF TypeOK, Idle
  <2>4. \A v \in Workers, j \in Jobs : snap'[v][j] = 0 \/ snap'[v][j] = snap[v][j]
    <3>1. CASE UNCHANGED snap
      BY <3>1
    <3>2. CASE snap' = [snap EXCEPT ![w] = [j \in Jobs |-> 0]]
      <4>1. \A v \in Workers : snap'[v] = IF v = w THEN [j \in Jobs |-> 0] ELSE snap[v]
        BY <3>2 DEF TypeOK
      <4> QED
        BY <4>1
    <3> QED
      BY <2>0, <3>1, <3>2
  <2>2. \A j \in Jobs : draft'[j] = draft[j] \/ (HoldsRow(w, j) /\ draft'[j] = row[j])
    BY <2>0 DEF RolledBack
  <2>3. ASSUME NEW v \in Workers, NEW j \in Jobs, pc'[v][j] = "picked"
        PROVE  draft'[j] = draft[j] /\ pc[v][j] = "picked"
    BY <2>1, <2>2, <2>3 DEF DeliveryInv, HoldsRow, Locking, Claiming
  <2> QED
    BY <2>0, <2>1, <2>2, <2>3, <2>4, SnapshotKept
<1> QED
  BY <1>2, <1>3, <1>4, <1>5, <1>6 DEF Loop

LEMMA SnapshotStep ==
  TypeOK /\ TypeOK' /\ DeliveryInv /\ CompletionInv /\ SnapshotInv /\ [Next]_vars => SnapshotInv'
<1> SUFFICES ASSUME TypeOK, TypeOK', DeliveryInv, CompletionInv, SnapshotInv, [Next]_vars
             PROVE  SnapshotInv'
  OBVIOUS
<1> USE DEF vars, table, hand, loop, delivery, budget
<1>0. \A j \in Jobs : row[j] \in RowType /\ draft[j] \in RowType /\ row[j].attempts \in Nat
  BY RowsTyped DEF RowType
<1>1. CASE Tick
  <2>1. /\ \A j \in Jobs : row'[j] = Aged(row[j]) /\ draft'[j] = Aged(draft[j])
        /\ UNCHANGED <<pc, snap>>
    BY <1>1 DEF Tick
  <2>2. \A j \in Jobs : row'[j].attempts = row[j].attempts /\ draft'[j].attempts = draft[j].attempts
    BY <1>0, <2>1, AttemptsKept
  <2> QED
    BY <2>1, <2>2, SnapshotKept
<1>2. ASSUME NEW j \in Jobs, CreateJob(j) PROVE SnapshotInv'
  <2>1. /\ UNCHANGED <<pc, snap>> /\ row[j].status = "absent"
        /\ \A i \in Jobs : i # j => row'[i] = row[i] /\ draft'[i] = draft[i]
        /\ row'[j] = Requeued(row[j], 0) /\ draft'[j] = Requeued(row[j], 0)
    BY <1>2 DEF CreateJob, TypeOK
  <2>2. row'[j].attempts = row[j].attempts /\ draft'[j].attempts = row[j].attempts
    BY <1>0, <2>1, AttemptsKept
  <2>3. \A v \in Workers : pc[v][j] = "none"
    BY <2>1 DEF CompletionInv, BringsResult
  <2> QED
    <3>1. \A i \in Jobs : row'[i].attempts = row[i].attempts
      BY <2>1, <2>2
    <3>2. \A i \in Jobs : i = j \/ draft'[i].attempts = draft[i].attempts
      BY <2>1
    <3> QED
      BY <2>1, <2>2, <2>3, <3>1, <3>2, SnapshotKept
<1>3. CASE UNCHANGED <<row, draft, pc, snap>>
  BY <1>3, SnapshotKept
<1>4. (\E j \in Jobs : KeyExpires(j)) \/ (\E w \in Workers : Stop(w)) \/ UNCHANGED vars
        => UNCHANGED <<row, draft, pc, snap>>
  BY DEF KeyExpires, Stop
<1>5. ASSUME NEW w \in Workers, Loop(w) \/ Crash(w) \/ PollFails(w) PROVE SnapshotInv'
  BY <1>5, SnapshotLoop DEF CompletionInv
<1>6. ASSUME NEW w \in Workers, NEW j \in Jobs,
             Execution(w, j) \/ AbortJob(w, j) \/ RedisFails(w, j)
      PROVE  SnapshotInv'
  BY <1>6, SnapshotExecution
<1> QED
  BY <1>1, <1>2, <1>3, <1>4, <1>5, <1>6 DEF Next, Breaks

(* The attempt number an execution decides its retry with belongs to it    *)
(* alone, even when executions of the job overlap: acquire_available_jobs  *)
(* counts the attempt in the transaction that takes the row.               *)
THEOREM AttemptsAreExclusive == Spec => []OneExecutionPerAttempt
<1>1. SnapshotInv => OneExecutionPerAttempt
  BY DEF SnapshotInv
<1> QED
  BY <1>1, TypeCorrect, DeliveryInit, DeliveryStep, Completion, SnapshotInit, SnapshotStep,
     PTL DEF Spec

-----------------------------------------------------------------------------
(* How many attempts there can be, with executions that overrun            *)

(* The attempts that may still put the job back: those that have not begun *)
(* and those in a worker's hand.  The last attempt never does.             *)
Open(j) ==
  {k \in 1 .. MaxAttempts - 1 :
     k > row[j].attempts \/ \E w \in Workers : Owns(w, j) /\ snap[w][j] = k}

(* The worker a row names executes the job and has time left, or holds the *)
(* row until it ends.                                                      *)
Guarded(j) ==
  \E w \in Workers :
    /\ row[j].lockedBy = w
    /\ \/ pc[w][j] \in Settling
       \/ pc[w][j] \in {"waiting"} \cup Unlocked /\ row[j].lease > 0

(* The next acquisition of the job has been paid for.                      *)
Loose(j) == \/ row[j].status \in {"absent", "queued"}
            \/ row[j].status = "running" /\ ~Guarded(j)

(* The lease has run out before the acquisition was committed.             *)
Overtaken(j) == \E w \in Workers : pc[w][j] = "picked" /\ draft[j].lease = 0

Spent(j) == row[j].attempts + Cardinality(Open(j))
Allowance == MaxAttempts + faults + overruns

Credit(j) ==
  /\ Spent(j) <= Allowance
  /\ Loose(j) => Spent(j) + 1 <= Allowance
  /\ Overtaken(j) => Spent(j) + 2 <= Allowance

(* What a worker has in hand, beside the row as it is committed.           *)
Hand(w, j) ==
  /\ pc[w][j] = "picked" =>
       /\ row[j].status = "queued" \/ (row[j].status = "running" /\ row[j].lease = 0)
       /\ draft[j].status = "running" /\ draft[j].lockedBy = w
       /\ draft[j].attempts = row[j].attempts + 1
  /\ pc[w][j] = "recovered" =>
       /\ row[j].status = "running" /\ row[j].lease = 0
       /\ draft[j].status = "queued" /\ draft[j].attempts = row[j].attempts
  /\ pc[w][j] \in Settling =>
       /\ draft[j].status \in {"completed", "failed", "queued"}
       /\ draft[j].attempts = row[j].attempts
       /\ pc[w][j] = "commit" /\ draft[j].status = "queued" => snap[w][j] < MaxAttempts
  /\ pc[w][j] = "requeue" => snap[w][j] < MaxAttempts
  /\ Owns(w, j) => snap[w][j] > 0

HandInv == \A w \in Workers, j \in Jobs : Hand(w, j)

(* Each attempt beyond the first is the requeue of an earlier one, and     *)
(* each attempt requeues once, or it is a recovery that a fault or an      *)
(* overrun has paid for.                                                   *)
CreditInv == \A j \in Jobs : Credit(j)

LEMMA FieldsKept ==
  ASSUME NEW r \in RowType, NEW s \in Statuses, NEW d \in Int, NEW w \in Workers
  PROVE  /\ Requeued(r, d).status = "queued" /\ Requeued(r, d).lease = 0
         /\ Closed(r, s).status = s /\ Closed(r, s).lease = 0
         /\ Aged(r).status = r.status /\ Aged(r).lockedBy = r.lockedBy
         /\ Aged(r).lease = IF r.lease > 0 THEN r.lease - 1 ELSE 0
         /\ Acquired(r, w).status = "running" /\ Acquired(r, w).lockedBy = w
         /\ Acquired(r, w).lease = StaleTimeout
BY DEF RowType, Requeued, Closed, Aged, Acquired

(* Counting open attempts.                                                 *)
LEMMA FewerOpen ==
  ASSUME NEW S, NEW T, S \subseteq 1 .. MaxAttempts - 1, T \subseteq S
  PROVE  /\ Cardinality(S) \in Nat /\ Cardinality(T) \in Nat
         /\ Cardinality(T) <= Cardinality(S)
         /\ \A k \in S : k \notin T => Cardinality(T) + 1 <= Cardinality(S)
<1>1. IsFiniteSet(1 .. MaxAttempts - 1)
  BY FS_Interval, LimitsAssumption
<1>2. IsFiniteSet(S) /\ IsFiniteSet(T)
  BY <1>1, FS_Subset
<1>3. Cardinality(S) \in Nat /\ Cardinality(T) \in Nat /\ Cardinality(T) <= Cardinality(S)
  BY <1>2, FS_CardinalityType, FS_Subset
<1>4. ASSUME NEW k \in S, k \notin T PROVE Cardinality(T) + 1 <= Cardinality(S)
  <2>1. T \subseteq S \ {k} /\ IsFiniteSet(S \ {k})
    BY <1>2, <1>4, FS_Subset
  <2>2. Cardinality(S \ {k}) = Cardinality(S) - 1
    BY <1>2, FS_RemoveElement
  <2>3. Cardinality(T) <= Cardinality(S \ {k})
    BY <2>1, FS_Subset
  <2> QED BY <1>3, <2>2, <2>3
<1> QED BY <1>3, <1>4

(* A step that takes up nothing costs nothing.                             *)
LEMMA CreditKept ==
  ASSUME TypeOK, TypeOK', NEW j \in Jobs, Credit(j), row'[j].attempts = row[j].attempts,
         \A w \in Workers : Owns(w, j)' => Owns(w, j) /\ snap'[w][j] = snap[w][j],
         faults' + overruns' >= faults + overruns,
         Loose(j)' => Loose(j), Overtaken(j)' => Overtaken(j)
  PROVE  Credit(j)'
<1>1. Open(j)' \subseteq Open(j) /\ Open(j) \subseteq 1 .. MaxAttempts - 1
  BY DEF Open
<1>2. /\ Cardinality(Open(j)) \in Nat /\ Cardinality(Open(j)') \in Nat
      /\ Cardinality(Open(j)') <= Cardinality(Open(j))
  BY <1>1, FewerOpen
<1>3. row[j].attempts \in Nat /\ faults \in Nat /\ overruns \in Nat
      /\ faults' \in Nat /\ overruns' \in Nat /\ MaxAttempts \in Nat
  BY LimitsAssumption DEF TypeOK, RowType
<1>4. Spent(j)' <= Spent(j) /\ Spent(j) \in Nat /\ Spent(j)' \in Nat
  BY <1>2, <1>3 DEF Spent
<1>5. Allowance <= Allowance' /\ Allowance \in Nat /\ Allowance' \in Nat
  BY <1>3 DEF Allowance
<1> QED BY <1>4, <1>5 DEF Credit

(* A fault or an overrun pays for one more acquisition.                    *)
LEMMA CreditPaid ==
  ASSUME TypeOK, TypeOK', NEW j \in Jobs, Credit(j), row'[j].attempts = row[j].attempts,
         \A w \in Workers : Owns(w, j)' => Owns(w, j) /\ snap'[w][j] = snap[w][j],
         faults' + overruns' = faults + overruns + 1,
         Overtaken(j)' => Overtaken(j) \/ Loose(j)
  PROVE  Credit(j)'
<1>1. Open(j)' \subseteq Open(j) /\ Open(j) \subseteq 1 .. MaxAttempts - 1
  BY DEF Open
<1>2. /\ Cardinality(Open(j)) \in Nat /\ Cardinality(Open(j)') \in Nat
      /\ Cardinality(Open(j)') <= Cardinality(Open(j))
  BY <1>1, FewerOpen
<1>3. row[j].attempts \in Nat /\ faults \in Nat /\ overruns \in Nat
      /\ faults' \in Nat /\ overruns' \in Nat /\ MaxAttempts \in Nat
  BY LimitsAssumption DEF TypeOK, RowType
<1>4. Spent(j)' <= Spent(j) /\ Spent(j) \in Nat /\ Spent(j)' \in Nat
  BY <1>2, <1>3 DEF Spent
<1>5. Allowance' = Allowance + 1 /\ Allowance \in Nat
  BY <1>3 DEF Allowance
<1> QED BY <1>4, <1>5 DEF Credit

LEMMA CreditInit == Init => HandInv /\ CreditInv
<1> SUFFICES ASSUME Init PROVE HandInv /\ CreditInv
  OBVIOUS
<1>1. HandInv
  BY DEF Init, HandInv, Hand, Idle, Settling, Owns, InTx, Unlocked
<1>2. ASSUME NEW j \in Jobs PROVE Credit(j)
  <2>1. row[j].attempts = 0 /\ faults = 0 /\ overruns = 0 /\ ~Overtaken(j)
    BY DEF Init, Overtaken, Idle
  <2>2. Open(j) \subseteq 1 .. MaxAttempts - 1
    BY DEF Open
  <2>3. Cardinality(1 .. MaxAttempts - 1) = MaxAttempts - 1
    BY FS_Interval, LimitsAssumption
  <2>4. Cardinality(Open(j)) <= MaxAttempts - 1 /\ Cardinality(Open(j)) \in Nat
    BY <2>2, <2>3, FewerOpen
  <2> QED BY <2>1, <2>4, LimitsAssumption DEF Credit, Spent, Allowance
<1> QED BY <1>1, <1>2 DEF CreditInv
(* What does not touch a worker and the row it holds.                      *)
LEMMA HandKept ==
  ASSUME NEW w \in Workers, NEW j \in Jobs, Hand(w, j),
         pc'[w][j] = pc[w][j], snap'[w][j] = snap[w][j],
         HoldsRow(w, j) => row'[j] = row[j] /\ draft'[j] = draft[j]
  PROVE  Hand(w, j)'
BY DEF Hand, HoldsRow, Locking, Claiming, Settling, Owns

LEMMA HandExecution ==
  ASSUME TypeOK, TypeOK', DeliveryInv, CompletionInv, HandInv, NEW w \in Workers, NEW j \in Jobs,
         Execution(w, j) \/ AbortJob(w, j) \/ RedisFails(w, j)
  PROVE  HandInv'
<1> USE DEF table, hand, loop, delivery
<1>1. row[j] \in RowType
  BY RowsTyped
<1>2. UNCHANGED snap
  BY DEF Execution, Persist, PipelineRaises, ReadJob, FlushJob, CommitJob,
         TakeDeliveryKey, Send, AbortJob, RedisFails
<1>3. PICK s \in InTx \cup {"done"} : Move(w, j, s)
  BY ExecutionMoves
<1>4. \A v \in Workers, i \in Jobs : pc'[v][i] = IF v = w /\ i = j THEN s ELSE pc[v][i]
  BY <1>3, MoveEffect
<1>5. /\ \A i \in Jobs : i # j => row'[i] = row[i] /\ draft'[i] = draft[i]
      /\ (row'[j] = row[j] /\ draft'[j] = draft[j]) \/ RowFree(j) \/ HoldsRow(w, j)
  <2>1. CASE FlushJob(w, j) \/ CommitJob(w, j)
    BY <2>1 DEF FlushJob, CommitJob, TypeOK, HoldsRow, Locking, Settling
  <2>2. CASE AbortJob(w, j) \/ RedisFails(w, j)
    <3>1. UNCHANGED row /\ draft' = RolledBack(w, {j})
      BY <2>2 DEF AbortJob, RedisFails
    <3>2. \A i \in Jobs : draft'[i] = IF i = j /\ HoldsRow(w, i) THEN row[i] ELSE draft[i]
      BY <3>1 DEF RolledBack
    <3> QED BY <3>1, <3>2
  <2>3. CASE UNCHANGED <<row, draft>>
    BY <2>3
  <2>4. Execution(w, j) => FlushJob(w, j) \/ CommitJob(w, j) \/ UNCHANGED <<row, draft>>
    BY DEF Execution, Persist, PipelineRaises, ReadJob, TakeDeliveryKey, Send
  <2> QED BY <2>1, <2>2, <2>3, <2>4
<1>6. ASSUME NEW v \in Workers, NEW i \in Jobs, v # w \/ i # j PROVE Hand(v, i)'
  <2>1. HoldsRow(v, i) => row'[i] = row[i] /\ draft'[i] = draft[i]
    BY <1>5, <1>6 DEF DeliveryInv, RowFree
  <2>2. Hand(v, i) /\ pc'[v][i] = pc[v][i] /\ snap'[v][i] = snap[v][i]
    BY <1>2, <1>4, <1>6 DEF HandInv
  <2> QED BY <2>1, <2>2, HandKept
<1>7. pc'[w][j] = s /\ snap'[w][j] = snap[w][j] /\ Hand(w, j) /\ pc[w][j] \in InTx
  BY <1>2, <1>4, ExecutionMoves DEF HandInv
<1>8. snap[w][j] > 0
  BY <1>7 DEF Hand, Owns
<1>9. Hand(w, j)'
  <2>1. CASE Persist(w, j) \/ PipelineRaises(w, j)
    <3>1. s \in {"saved", "retry", "fail"}
      BY <1>7, <2>1, MoveEffect DEF Persist, PipelineRaises
    <3> QED BY <1>7, <1>8, <3>1 DEF Hand, Settling, Owns
  <2>2. CASE ReadJob(w, j)
    <3>1. /\ s \in {"done", "complete", "requeue", "markfail"}
          /\ s = "requeue" => snap[w][j] < MaxAttempts
      BY <1>7, <2>2, MoveEffect DEF ReadJob, Leave
    <3> QED BY <1>7, <1>8, <3>1 DEF Hand, Settling, Owns
  <2>3. CASE FlushJob(w, j)
    <3>1. /\ UNCHANGED row /\ s \in {"deliver", "commit"}
          /\ pc[w][j] \in {"complete", "requeue", "markfail"}
      BY <1>7, <2>3, MoveEffect DEF FlushJob
    <3>2. PICK r \in {Closed(row[j], "completed"), Requeued(row[j], RetryDelay),
                      Closed(row[j], "failed")} :
            /\ draft' = [draft EXCEPT ![j] = r]
            /\ pc[w][j] # "requeue" => r # Requeued(row[j], RetryDelay)
                                       \/ r.status # "queued"
      <4>1. {"completed", "failed"} \subseteq Statuses /\ RetryDelay \in Int
        BY TimeAssumption DEF Statuses
      <4>2. Closed(row[j], "completed").status = "completed"
            /\ Closed(row[j], "failed").status = "failed"
        BY <1>1, <4>1 DEF Closed, RowType
      <4> QED BY <2>3, <3>1, <4>2 DEF FlushJob
    <3>3. draft'[j] = r
      BY <3>2 DEF TypeOK
    <3>4. /\ r.attempts = row[j].attempts /\ r.status \in {"completed", "failed", "queued"}
          /\ r.status = "queued" => pc[w][j] = "requeue"
      <4>1. /\ Closed(row[j], "completed").status = "completed"
            /\ Closed(row[j], "failed").status = "failed"
            /\ Requeued(row[j], RetryDelay).status = "queued"
        BY <1>1 DEF Closed, RowType, Requeued
      <4> QED BY <1>1, <3>2, <4>1, AttemptsKept
    <3>5. pc[w][j] = "requeue" => snap[w][j] < MaxAttempts
      BY <1>7 DEF Hand
    <3> QED BY <1>7, <1>8, <3>1, <3>3, <3>4, <3>5 DEF Hand, Settling, Owns
  <2>4. CASE CommitJob(w, j) \/ AbortJob(w, j) \/ RedisFails(w, j)
    <3>1. s = "done"
      BY <1>7, <2>4, MoveEffect DEF CommitJob, AbortJob, RedisFails, Leave
    <3> QED BY <1>7, <3>1 DEF Hand, Settling, Owns, InTx, Unlocked
  <2>5. CASE TakeDeliveryKey(w, j) \/ Send(w, j)
    <3>1. /\ UNCHANGED <<row, draft>> /\ pc[w][j] \in {"deliver", "send"}
          /\ s \in {"commit", "send"}
      BY <1>7, <2>5, MoveEffect DEF TakeDeliveryKey, Send
    <3>2. draft[j].status = "completed"
      BY <3>1 DEF CompletionInv, BringsResult
    <3> QED BY <1>7, <1>8, <3>1, <3>2 DEF Hand, Settling, Owns
  <2> QED BY <2>1, <2>2, <2>3, <2>4, <2>5 DEF Execution
<1> QED BY <1>6, <1>9 DEF HandInv

LEMMA HandLoop ==
  ASSUME TypeOK, TypeOK', DeliveryInv, PhaseInv, HandInv, NEW w \in Workers,
         Loop(w) \/ Crash(w) \/ PollFails(w)
  PROVE  HandInv'
<1> USE DEF table, hand, loop, delivery
<1>1. \A j \in Jobs : row[j] \in RowType /\ row[j].attempts \in Nat /\ draft[j].attempts \in Nat
  BY RowsTyped DEF RowType
<1>2. CASE StartWorker(w) \/ Exit(w)
  <2>1. UNCHANGED <<row, draft, pc, snap>>
    BY <1>2 DEF StartWorker, Exit
  <2> QED BY <2>1, HandKept DEF HandInv
<1>3. CASE Poll(w)
  <2>1. PICK S \in Picks :
          /\ draft' = [j \in Jobs |-> IF j \in S THEN Acquired(AfterRecovery[j], w)
                                      ELSE IF j \in Stale THEN AfterRecovery[j]
                                      ELSE draft[j]]
          /\ pc' = [pc EXCEPT ![w] = [j \in Jobs |->
                      IF j \in S THEN "picked"
                      ELSE IF j \in Stale THEN "recovered" ELSE "none"]]
    BY <1>3 DEF Poll
  <2>2. \A j \in S \cup Stale, v \in Workers : ~HoldsRow(v, j)
    BY DEF Picks, Due, Stale, RowFree
  <2>3. UNCHANGED <<row, snap>>
    BY <1>3 DEF Poll
  <2>4. ASSUME NEW v \in Workers, NEW j \in Jobs, v # w PROVE Hand(v, j)'
    <3>1. Hand(v, j) /\ pc'[v][j] = pc[v][j]
      BY <2>1, <2>4 DEF TypeOK, HandInv
    <3>2. HoldsRow(v, j) => draft'[j] = draft[j]
      BY <2>1, <2>2
    <3> QED BY <2>3, <3>1, <3>2, HandKept
  <2>5. ASSUME NEW j \in Jobs PROVE Hand(w, j)'
    <3>1. /\ pc'[w][j] = IF j \in S THEN "picked"
                         ELSE IF j \in Stale THEN "recovered" ELSE "none"
          /\ draft'[j] = IF j \in S THEN Acquired(AfterRecovery[j], w)
                         ELSE IF j \in Stale THEN AfterRecovery[j] ELSE draft[j]
      BY <2>1 DEF TypeOK
    <3>2. AfterRecovery[j] \in RowType /\ AfterRecovery[j].attempts = row[j].attempts
      BY <1>1, AttemptsKept, RecoveryTyped DEF AfterRecovery
    <3>3. CASE j \in S
      <4>1. AfterRecovery[j].status = "queued"
        BY <3>3 DEF Picks, Due
      <4>2. row[j].status = "queued" \/ (row[j].status = "running" /\ row[j].lease = 0)
        BY <4>1 DEF AfterRecovery, Stale
      <4>3. /\ draft'[j].status = "running" /\ draft'[j].lockedBy = w
            /\ draft'[j].attempts = row[j].attempts + 1
        <5>1. draft'[j] = Acquired(AfterRecovery[j], w)
          BY <3>1, <3>3
        <5>2. "queued" \in Statuses /\ 0 \in Int
          BY DEF Statuses
        <5> QED BY <3>2, <5>1, <5>2, AttemptsKept, FieldsKept
      <4> QED BY <2>3, <3>1, <3>3, <4>2, <4>3 DEF Hand, Settling, Owns, InTx, Unlocked
    <3>4. CASE j \in Stale /\ j \notin S
      <4>1. /\ row[j].status = "running" /\ row[j].lease = 0
            /\ AfterRecovery[j] = Requeued(row[j], 0)
        BY <3>4 DEF Stale, AfterRecovery
      <4>2. AfterRecovery[j].status = "queued"
        BY <1>1, <4>1 DEF Requeued, RowType
      <4> QED BY <2>3, <3>1, <3>2, <3>4, <4>1, <4>2 DEF Hand, Settling, Owns, InTx, Unlocked
    <3>5. CASE j \notin S \cup Stale
      BY <3>1, <3>5 DEF Hand, Settling, Owns, InTx, Unlocked
    <3> QED BY <3>3, <3>4, <3>5
  <2> QED BY <2>4, <2>5 DEF HandInv
<1>4. CASE CommitAcquire(w)
  <2>1. /\ UNCHANGED draft
        /\ \A j \in Jobs : row'[j] = IF HoldsRow(w, j) THEN draft[j] ELSE row[j]
        /\ \A v \in Workers, j \in Jobs :
             /\ pc'[v][j] = IF v # w THEN pc[v][j]
                            ELSE IF pc[w][j] = "picked" THEN "waiting" ELSE "none"
             /\ snap'[v][j] = IF v # w THEN snap[v][j]
                              ELSE IF pc[w][j] = "picked" THEN draft[j].attempts ELSE 0
    BY <1>4 DEF CommitAcquire, TypeOK
  <2>2. ASSUME NEW v \in Workers, NEW j \in Jobs, v # w PROVE Hand(v, j)'
    <3>1. Hand(v, j) /\ pc'[v][j] = pc[v][j] /\ snap'[v][j] = snap[v][j]
      BY <2>1, <2>2 DEF HandInv
    <3>2. HoldsRow(v, j) => row'[j] = row[j] /\ draft'[j] = draft[j]
      BY <2>1, <2>2 DEF DeliveryInv
    <3> QED BY <3>1, <3>2, HandKept
  <2>3. ASSUME NEW j \in Jobs PROVE Hand(w, j)'
    <3>1. CASE pc[w][j] = "picked"
      <4>1. draft[j].attempts = row[j].attempts + 1 /\ row[j].attempts \in Nat
        BY <1>1, <3>1 DEF HandInv, Hand
      <4>2. pc'[w][j] = "waiting" /\ snap'[w][j] > 0
        BY <2>1, <3>1, <4>1
      <4> QED BY <4>2 DEF Hand, Settling, Owns
    <3>2. CASE pc[w][j] # "picked"
      BY <2>1, <3>2 DEF Hand, Settling, Owns, InTx, Unlocked
    <3> QED BY <3>1, <3>2
  <2> QED BY <2>2, <2>3 DEF HandInv
<1>5. CASE StartChunk(w)
  <2>1. PICK C \in SUBSET {j \in Jobs : pc[w][j] = "waiting"} :
          pc' = [pc EXCEPT ![w] = [j \in Jobs |-> IF j \in C THEN "run" ELSE pc[w][j]]]
    BY <1>5 DEF StartChunk
  <2>2. UNCHANGED <<row, draft, snap>>
    BY <1>5 DEF StartChunk
  <2>3. ASSUME NEW v \in Workers, NEW j \in Jobs PROVE Hand(v, j)'
    <3>1. Hand(v, j)
      BY DEF HandInv
    <3>2. \/ pc'[v][j] = pc[v][j]
          \/ pc[v][j] = "waiting" /\ pc'[v][j] = "run"
      BY <2>1 DEF TypeOK
    <3>3. CASE pc'[v][j] = pc[v][j]
      BY <2>2, <3>1, <3>3, HandKept
    <3>4. CASE pc[v][j] = "waiting" /\ pc'[v][j] = "run"
      BY <2>2, <3>1, <3>4 DEF Hand, Settling, Owns
    <3> QED BY <3>2, <3>3, <3>4
  <2> QED BY <2>3 DEF HandInv
<1>6. CASE EndBatch(w) \/ Crash(w) \/ PollFails(w)
  <2>1. /\ \A v \in Workers, j \in Jobs : pc'[v][j] = IF v = w THEN "none" ELSE pc[v][j]
        /\ \A v \in Workers, j \in Jobs : v # w => snap'[v][j] = snap[v][j]
        /\ UNCHANGED row
        /\ UNCHANGED draft \/ draft' = RolledBack(w, Jobs)
    BY <1>6 DEF EndBatch, Crash, PollFails, TypeOK, Idle
  <2>2. \A j \in Jobs : draft'[j] = draft[j] \/ HoldsRow(w, j)
    BY <2>1 DEF RolledBack
  <2>3. ASSUME NEW v \in Workers, NEW j \in Jobs, v # w PROVE Hand(v, j)'
    <3>1. Hand(v, j) /\ pc'[v][j] = pc[v][j] /\ snap'[v][j] = snap[v][j]
      BY <2>1, <2>3 DEF HandInv
    <3>2. HoldsRow(v, j) => row'[j] = row[j] /\ draft'[j] = draft[j]
      BY <2>1, <2>2, <2>3 DEF DeliveryInv
    <3> QED BY <3>1, <3>2, HandKept
  <2>4. \A j \in Jobs : Hand(w, j)'
    BY <2>1 DEF Hand, Settling, Owns, InTx, Unlocked
  <2> QED BY <2>3, <2>4 DEF HandInv
<1> QED BY <1>2, <1>3, <1>4, <1>5, <1>6 DEF Loop

LEMMA HandStep ==
  TypeOK /\ TypeOK' /\ DeliveryInv /\ CompletionInv /\ HandInv /\ [Next]_vars => HandInv'
<1> SUFFICES ASSUME TypeOK, TypeOK', DeliveryInv, CompletionInv, HandInv, [Next]_vars
             PROVE  HandInv'
  OBVIOUS
<1> USE DEF vars, table, hand, loop, delivery, budget
<1>0. \A j \in Jobs : row[j] \in RowType /\ draft[j] \in RowType
  BY RowsTyped
<1>1. CASE Tick
  <2>1. /\ \A j \in Jobs : row'[j] = Aged(row[j]) /\ draft'[j] = Aged(draft[j])
        /\ UNCHANGED <<pc, snap>>
    BY <1>1 DEF Tick
  <2>2. ASSUME NEW j \in Jobs
        PROVE  /\ row'[j].status = row[j].status /\ draft'[j].status = draft[j].status
               /\ row'[j].attempts = row[j].attempts /\ draft'[j].attempts = draft[j].attempts
               /\ draft'[j].lockedBy = draft[j].lockedBy
               /\ row[j].lease = 0 => row'[j].lease = 0
    <3>1. ASSUME NEW r \in RowType
          PROVE  /\ Aged(r).status = r.status /\ Aged(r).attempts = r.attempts
                 /\ Aged(r).lockedBy = r.lockedBy
                 /\ r.lease = 0 => Aged(r).lease = 0
      BY DEF Aged, RowType
    <3> QED BY <1>0, <2>1, <3>1
  <2>3. ASSUME NEW v \in Workers, NEW j \in Jobs PROVE Hand(v, j)'
    BY <2>1, <2>2 DEF HandInv, Hand, Owns
  <2> QED BY <2>3 DEF HandInv
<1>2. ASSUME NEW j \in Jobs, CreateJob(j) PROVE HandInv'
  <2>1. /\ UNCHANGED <<pc, snap>> /\ row[j].status = "absent"
        /\ \A i \in Jobs : i # j => row'[i] = row[i] /\ draft'[i] = draft[i]
    BY <1>2 DEF CreateJob, TypeOK
  <2>2. \A v \in Workers : pc[v][j] = "none"
    BY <2>1 DEF CompletionInv, BringsResult
  <2>3. ASSUME NEW v \in Workers, NEW i \in Jobs PROVE Hand(v, i)'
    BY <2>1, <2>2, HandKept DEF HandInv, HoldsRow, Locking, Claiming, Settling
  <2> QED BY <2>3 DEF HandInv
<1>3. CASE UNCHANGED <<row, draft, pc, snap>>
  BY <1>3, HandKept DEF HandInv
<1>4. (\E j \in Jobs : KeyExpires(j)) \/ (\E w \in Workers : Stop(w)) \/ UNCHANGED vars
        => UNCHANGED <<row, draft, pc, snap>>
  BY DEF KeyExpires, Stop
<1>5. ASSUME NEW w \in Workers, Loop(w) \/ Crash(w) \/ PollFails(w) PROVE HandInv'
  BY <1>5, HandLoop DEF CompletionInv
<1>6. ASSUME NEW w \in Workers, NEW j \in Jobs,
             Execution(w, j) \/ AbortJob(w, j) \/ RedisFails(w, j)
      PROVE  HandInv'
  BY <1>6, HandExecution
<1> QED
  BY <1>1, <1>2, <1>3, <1>4, <1>5, <1>6 DEF Next, Breaks

-----------------------------------------------------------------------------
(* Who has acquired a job without having committed it finds it loose.      *)
LEMMA OvertakenIsLoose ==
  ASSUME TypeOK, DeliveryInv, HandInv, NEW w \in Workers, NEW j \in Jobs, pc[w][j] \in Claiming
  PROVE  Loose(j)
<1>1. row[j].status = "queued" \/ (row[j].status = "running" /\ row[j].lease = 0)
  BY DEF HandInv, Hand, Claiming
<1>2. ASSUME row[j].lease = 0, Guarded(j) PROVE FALSE
  <2>1. PICK v \in Workers : pc[v][j] \in Settling
    BY <1>2 DEF Guarded
  <2>2. v = w
    BY <2>1 DEF DeliveryInv, HoldsRow, Locking
  <2> QED BY <2>1, <2>2 DEF Settling, Claiming
<1> QED BY <1>1, <1>2 DEF Loose

LEMMA CreditExecution ==
  ASSUME TypeOK, TypeOK', DeliveryInv, CompletionInv, SnapshotInv, HandInv, CreditInv,
         NEW w \in Workers, NEW j \in Jobs,
         Execution(w, j) \/ AbortJob(w, j) \/ RedisFails(w, j)
  PROVE  CreditInv'
<1> USE DEF table, hand, loop, delivery, budget
<1>1. UNCHANGED snap
  BY DEF Execution, Persist, PipelineRaises, ReadJob, FlushJob, CommitJob,
         TakeDeliveryKey, Send, AbortJob, RedisFails
<1>2. PICK s \in InTx \cup {"done"} : Move(w, j, s)
  BY ExecutionMoves
<1>3. \A v \in Workers, i \in Jobs : pc'[v][i] = IF v = w /\ i = j THEN s ELSE pc[v][i]
  BY <1>2, MoveEffect
<1>4. pc[w][j] \in InTx
  BY ExecutionMoves
<1>5. \A v \in Workers, i \in Jobs : Owns(v, i)' => Owns(v, i)
  BY <1>3, <1>4 DEF Owns
<1>6. /\ AbortJob(w, j) \/ RedisFails(w, j) => faults' = faults + 1 /\ overruns' = overruns
      /\ Execution(w, j) => faults' = faults /\ overruns' = overruns
  BY DEF Execution, Persist, PipelineRaises, ReadJob, FlushJob, CommitJob,
         TakeDeliveryKey, Send, AbortJob, RedisFails, Fault
<1>7. /\ \A i \in Jobs : i # j => row'[i] = row[i] /\ draft'[i] = draft[i]
      /\ draft'[j] = draft[j] \/ RowFree(j) \/ HoldsRow(w, j)
      /\ CommitJob(w, j) \/ UNCHANGED row
  <2>1. CASE FlushJob(w, j) \/ CommitJob(w, j)
    BY <2>1 DEF FlushJob, CommitJob, TypeOK, HoldsRow, Locking, Settling
  <2>2. CASE AbortJob(w, j) \/ RedisFails(w, j)
    <3>1. UNCHANGED row /\ draft' = RolledBack(w, {j})
      BY <2>2 DEF AbortJob, RedisFails
    <3>2. \A i \in Jobs : draft'[i] = IF i = j /\ HoldsRow(w, i) THEN row[i] ELSE draft[i]
      BY <3>1 DEF RolledBack
    <3> QED BY <3>1, <3>2
  <2>3. CASE UNCHANGED <<row, draft>>
    BY <2>3
  <2>4. Execution(w, j) => FlushJob(w, j) \/ CommitJob(w, j) \/ UNCHANGED <<row, draft>>
    BY DEF Execution, Persist, PipelineRaises, ReadJob, TakeDeliveryKey, Send
  <2> QED BY <2>1, <2>2, <2>3, <2>4
<1>8. \A i \in Jobs : Overtaken(i)' => Overtaken(i)
  <2> SUFFICES ASSUME NEW i \in Jobs, NEW v \in Workers, pc'[v][i] = "picked", draft'[i].lease = 0
               PROVE  pc[v][i] = "picked" /\ draft[i].lease = 0
    BY DEF Overtaken
  <2>1. pc[v][i] = "picked" /\ (v # w \/ i # j)
    BY <1>2, <1>3 DEF InTx, Unlocked, Settling
  <2>2. draft'[i] = draft[i]
    BY <1>7, <2>1 DEF DeliveryInv, RowFree, HoldsRow, Locking, Claiming
  <2> QED BY <2>1, <2>2
<1>9. ASSUME NEW i \in Jobs, i # j PROVE Credit(i)'
  <2>1. row'[i] = row[i] /\ \A v \in Workers : pc'[v][i] = pc[v][i]
    BY <1>3, <1>7, <1>9
  <2>2. Loose(i)' => Loose(i)
    BY <2>1 DEF Loose, Guarded
  <2>3. faults' + overruns' >= faults + overruns
    <3>1. faults \in Nat /\ overruns \in Nat
      BY DEF TypeOK
    <3> QED BY <1>6, <3>1
  <2> QED BY <1>1, <1>5, <1>8, <2>1, <2>2, <2>3, CreditKept DEF CreditInv
<1>10. ASSUME ~CommitJob(w, j), faults' + overruns' = faults + overruns + 1 PROVE Credit(j)'
  BY <1>1, <1>5, <1>7, <1>8, <1>10, CreditPaid DEF CreditInv
(* An execution leaves without a fault only a job that is not running.     *)
<1>11. ASSUME ~CommitJob(w, j), ~AbortJob(w, j), ~RedisFails(w, j) PROVE Credit(j)'
  <2>1. UNCHANGED <<row, faults, overruns>>
    BY <1>7, <1>11 DEF Execution, Persist, PipelineRaises, ReadJob, FlushJob,
                       TakeDeliveryKey, Send
  <2>2. \/ s \in Settling
        \/ s \in Unlocked /\ pc[w][j] \in Unlocked
        \/ row[j].status # "running"
    <3>1. CASE ReadJob(w, j)
      <4>1. CASE row[j].status = "running"
        <5>1. pc[w][j] \in Unlocked /\ \E t \in Unlocked : Move(w, j, t)
          BY <3>1, <4>1 DEF ReadJob, Unlocked
        <5> QED BY <1>3, <5>1, MoveEffect
      <4> QED BY <4>1
    <3>2. CASE Persist(w, j) \/ PipelineRaises(w, j)
      <4>1. pc[w][j] \in Unlocked /\ \E t \in Unlocked : Move(w, j, t)
        BY <3>2 DEF Persist, PipelineRaises, Unlocked
      <4> QED BY <1>3, <4>1, MoveEffect
    <3>3. CASE FlushJob(w, j) \/ TakeDeliveryKey(w, j) \/ Send(w, j)
      <4>1. \E t \in Settling : Move(w, j, t)
        BY <3>3 DEF FlushJob, TakeDeliveryKey, Send, Settling
      <4> QED BY <1>3, <4>1, MoveEffect
    <3> QED BY <1>11, <3>1, <3>2, <3>3 DEF Execution
  <2>3. Loose(j)' => Loose(j)
    <3>1. ASSUME row[j].status = "running", Guarded(j) PROVE Guarded(j)'
      <4>1. PICK v \in Workers :
              /\ row[j].lockedBy = v
              /\ \/ pc[v][j] \in Settling
                 \/ pc[v][j] \in {"waiting"} \cup Unlocked /\ row[j].lease > 0
        BY <3>1 DEF Guarded
      <4>2. \/ pc'[v][j] \in Settling
            \/ pc'[v][j] \in {"waiting"} \cup Unlocked /\ row[j].lease > 0
        BY <1>3, <2>2, <3>1, <4>1 DEF Settling, Unlocked
      <4> QED BY <2>1, <4>1, <4>2 DEF Guarded
    <3> QED BY <2>1, <3>1 DEF Loose
  <2>4. faults' + overruns' >= faults + overruns
    BY <2>1 DEF TypeOK
  <2> QED BY <1>1, <1>5, <1>8, <2>1, <2>3, <2>4, CreditKept DEF CreditInv
(* A requeue that commits uses up the attempt it belongs to.               *)
<1>12. ASSUME CommitJob(w, j) PROVE Credit(j)'
  <2>1. /\ row'[j] = draft[j] /\ s = "done" /\ pc[w][j] = "commit"
        /\ UNCHANGED <<draft, faults, overruns>>
    BY <1>3, <1>12, MoveEffect DEF CommitJob, Leave, TypeOK
  <2>2. /\ draft[j].status \in {"completed", "failed", "queued"}
        /\ draft[j].attempts = row[j].attempts
        /\ draft[j].status = "queued" => snap[w][j] < MaxAttempts
        /\ snap[w][j] > 0
    BY <1>4, <2>1 DEF HandInv, Hand, Settling, Owns
  <2>3. row'[j].attempts = row[j].attempts
    BY <2>1, <2>2
  <2>4. CASE draft[j].status # "queued"
    <3>1. ~Loose(j)'
      BY <2>1, <2>2, <2>4 DEF Loose
    <3>2. faults' + overruns' >= faults + overruns
      BY <2>1 DEF TypeOK
    <3> QED BY <1>1, <1>5, <1>8, <2>3, <3>1, <3>2, CreditKept DEF CreditInv
  <2>5. CASE draft[j].status = "queued"
    <3>1. Open(j)' \subseteq Open(j) /\ Open(j) \subseteq 1 .. MaxAttempts - 1
      BY <1>1, <1>5, <2>3 DEF Open
    <3>2. snap[w][j] \in Open(j)
      <4>1. snap[w][j] \in 1 .. MaxAttempts - 1
        BY <2>2, <2>5, LimitsAssumption DEF TypeOK
      <4> QED BY <1>4, <4>1 DEF Open, Owns
    <3>3. snap[w][j] \notin Open(j)'
      <4>1. snap[w][j] <= row'[j].attempts /\ row'[j].attempts \in Nat /\ snap[w][j] \in Nat
        BY <2>3 DEF SnapshotInv, TypeOK, RowType
      <4>2. ASSUME NEW v \in Workers, Owns(v, j)' PROVE snap'[v][j] # snap[w][j]
        <5>1. v # w
          BY <1>3, <2>1, <4>2 DEF Owns, InTx, Unlocked, Settling
        <5> QED BY <1>1, <2>2, <5>1 DEF SnapshotInv, OneExecutionPerAttempt
      <4> QED BY <4>1, <4>2 DEF Open
    <3>4. /\ Cardinality(Open(j)) \in Nat /\ Cardinality(Open(j)') \in Nat
          /\ Cardinality(Open(j)') + 1 <= Cardinality(Open(j))
      BY <3>1, <3>2, <3>3, FewerOpen
    <3>5. /\ Spent(j) \in Nat /\ Spent(j)' \in Nat /\ Spent(j)' + 1 <= Spent(j)
          /\ Allowance' = Allowance /\ Allowance \in Nat
      <4>1. row[j].attempts \in Nat /\ faults \in Nat /\ overruns \in Nat /\ MaxAttempts \in Nat
        BY LimitsAssumption DEF TypeOK, RowType
      <4> QED BY <2>1, <2>3, <3>4, <4>1 DEF Spent, Allowance
    <3>6. ~Overtaken(j)
      <4> SUFFICES ASSUME NEW v \in Workers, pc[v][j] = "picked" PROVE FALSE
        BY DEF Overtaken
      <4> QED BY <2>1 DEF DeliveryInv, HoldsRow, Locking, Claiming, Settling
    <3> QED BY <1>8, <3>5, <3>6 DEF Credit, CreditInv
  <2> QED BY <2>4, <2>5
<1>13. Credit(j)'
  <2>1. faults \in Nat /\ overruns \in Nat
    BY DEF TypeOK
  <2>2. CommitJob(w, j) => Execution(w, j)
    BY DEF Execution
  <2>3. AbortJob(w, j) \/ RedisFails(w, j) =>
          ~CommitJob(w, j) /\ faults' + overruns' = faults + overruns + 1
    BY <1>6, <2>1, <2>2
  <2> QED BY <1>10, <1>11, <1>12, <2>3
<1> QED BY <1>9, <1>13 DEF CreditInv

LEMMA CreditLoop ==
  ASSUME TypeOK, TypeOK', DeliveryInv, PhaseInv, SnapshotInv, HandInv, CreditInv,
         NEW w \in Workers, Loop(w) \/ Crash(w) \/ PollFails(w)
  PROVE  CreditInv'
<1> USE DEF table, hand, loop, delivery, budget
<1>0. /\ faults \in Nat /\ overruns \in Nat
      /\ \A j \in Jobs : row[j] \in RowType /\ row[j].attempts \in Nat
  BY RowsTyped DEF TypeOK, RowType
<1>1. CASE StartWorker(w) \/ Exit(w)
  <2>1. UNCHANGED <<row, draft, pc, snap, faults, overruns>>
    BY <1>1 DEF StartWorker, Exit
  <2>2. \A j \in Jobs : Loose(j)' = Loose(j) /\ Overtaken(j)' = Overtaken(j)
    BY <2>1 DEF Loose, Guarded, Overtaken
  <2>3. faults' + overruns' >= faults + overruns
    BY <1>0, <2>1
  <2> QED BY <2>1, <2>2, <2>3, CreditKept DEF CreditInv, Owns
<1>2. CASE Poll(w)
  <2>1. PICK S \in Picks :
          /\ draft' = [j \in Jobs |-> IF j \in S THEN Acquired(AfterRecovery[j], w)
                                      ELSE IF j \in Stale THEN AfterRecovery[j]
                                      ELSE draft[j]]
          /\ pc' = [pc EXCEPT ![w] = [j \in Jobs |->
                      IF j \in S THEN "picked"
                      ELSE IF j \in Stale THEN "recovered" ELSE "none"]]
    BY <1>2 DEF Poll
  <2>2. UNCHANGED <<row, snap, faults, overruns>> /\ \A j \in Jobs : pc[w][j] = "none"
    BY <1>2 DEF Poll, PhaseInv
  <2>3. ASSUME NEW j \in Jobs, Overtaken(j)' PROVE Overtaken(j)
    <3>1. PICK v \in Workers : pc'[v][j] = "picked" /\ draft'[j].lease = 0
      BY <2>3 DEF Overtaken
    <3>2. CASE v = w
      <4>1. j \in S
        BY <2>1, <3>1, <3>2 DEF TypeOK
      <4>2. draft'[j] = Acquired(AfterRecovery[j], w) /\ AfterRecovery[j] \in RowType
        BY <2>1, <4>1, RecoveryTyped
      <4>3. draft'[j].lease = StaleTimeout
        BY <4>2 DEF Acquired, RowType
      <4> QED BY <3>1, <4>3, TimeAssumption
    <3>3. CASE v # w
      <4>1. pc[v][j] = "picked"
        BY <2>1, <3>1, <3>3 DEF TypeOK
      <4>2. j \notin S \cup Stale
        BY <4>1 DEF Picks, Due, Stale, RowFree, HoldsRow, Locking, Claiming
      <4>3. draft'[j] = draft[j]
        BY <2>1, <4>2
      <4> QED BY <3>1, <4>1, <4>3 DEF Overtaken
    <3> QED BY <3>2, <3>3
  <2>4. ASSUME NEW j \in Jobs, NEW v \in Workers
        PROVE  pc'[v][j] = pc[v][j]
               \/ (pc[v][j] = "none" /\ pc'[v][j] \in {"picked", "recovered"})
    BY <2>1, <2>2 DEF TypeOK
  <2>5. \A j \in Jobs : \A v \in Workers : Owns(v, j)' => Owns(v, j)
    BY <2>4 DEF Owns, InTx, Unlocked, Settling
  <2>6. \A j \in Jobs : Guarded(j) => Guarded(j)'
    BY <2>2, <2>4 DEF Guarded, Unlocked, Settling
  <2>7. \A j \in Jobs : Loose(j)' => Loose(j)
    BY <2>2, <2>6 DEF Loose
  <2>8. faults' + overruns' >= faults + overruns
    BY <1>0, <2>2
  <2> QED BY <2>2, <2>3, <2>5, <2>7, <2>8, CreditKept DEF CreditInv
<1>3. CASE CommitAcquire(w)
  <2>1. /\ UNCHANGED <<draft, faults, overruns>>
        /\ \A j \in Jobs : row'[j] = IF HoldsRow(w, j) THEN draft[j] ELSE row[j]
        /\ \A v \in Workers, j \in Jobs :
             /\ pc'[v][j] = IF v # w THEN pc[v][j]
                            ELSE IF pc[w][j] = "picked" THEN "waiting" ELSE "none"
             /\ snap'[v][j] = IF v # w THEN snap[v][j]
                              ELSE IF pc[w][j] = "picked" THEN draft[j].attempts ELSE 0
    BY <1>3 DEF CommitAcquire, TypeOK
  <2>2. \A j \in Jobs : pc[w][j] \in {"picked", "recovered", "none"}
    BY <1>3 DEF CommitAcquire, PhaseInv, Claiming
  <2>3. \A j \in Jobs : Overtaken(j)' => Overtaken(j)
    BY <2>1 DEF Overtaken
  <2>4. faults' + overruns' >= faults + overruns
    BY <1>0, <2>1
  (* The job is committed in the worker's name, with the attempt counted.  *)
  <2>5. ASSUME NEW j \in Jobs, pc[w][j] = "picked" PROVE Credit(j)'
    <3>1. /\ row'[j] = draft[j] /\ draft[j].attempts = row[j].attempts + 1
          /\ draft[j].status = "running" /\ draft[j].lockedBy = w
          /\ pc'[w][j] = "waiting" /\ snap'[w][j] = row[j].attempts + 1
      BY <2>1, <2>5 DEF HandInv, Hand, HoldsRow, Locking, Claiming
    <3>2. Open(j)' \subseteq Open(j) /\ Open(j) \subseteq 1 .. MaxAttempts - 1
      <4> SUFFICES ASSUME NEW k \in 1 .. MaxAttempts - 1,
                          k > row'[j].attempts
                            \/ \E v \in Workers : Owns(v, j)' /\ snap'[v][j] = k
                   PROVE  k > row[j].attempts
                            \/ \E v \in Workers : Owns(v, j) /\ snap[v][j] = k
        BY DEF Open
      <4>1. CASE k > row'[j].attempts
        BY <1>0, <3>1, <4>1, LimitsAssumption
      <4>2. ASSUME NEW v \in Workers, Owns(v, j)', snap'[v][j] = k
            PROVE  k > row[j].attempts \/ (Owns(v, j) /\ snap[v][j] = k)
        <5>1. CASE v = w
          BY <1>0, <3>1, <4>2, <5>1
        <5>2. CASE v # w
          BY <2>1, <4>2, <5>2 DEF Owns
        <5> QED BY <5>1, <5>2
      <4> QED BY <4>1, <4>2
    <3>3. /\ Cardinality(Open(j)) \in Nat /\ Cardinality(Open(j)') \in Nat
          /\ Cardinality(Open(j)') <= Cardinality(Open(j))
      BY <3>2, FewerOpen
    <3>4. /\ Spent(j) \in Nat /\ Spent(j)' \in Nat /\ Spent(j)' <= Spent(j) + 1
          /\ Allowance' = Allowance /\ Allowance \in Nat
      <4>1. row[j].attempts \in Nat /\ MaxAttempts \in Nat
        BY <1>0, LimitsAssumption
      <4>2. row'[j].attempts = row[j].attempts + 1
        BY <3>1
      <4> QED BY <1>0, <2>1, <3>3, <4>1, <4>2 DEF Spent, Allowance
    <3>5. Loose(j)
      BY <2>5, OvertakenIsLoose DEF Claiming
    <3>6. ~Overtaken(j)'
      <4> SUFFICES ASSUME NEW v \in Workers, pc'[v][j] = "picked" PROVE FALSE
        BY DEF Overtaken
      <4>1. v # w /\ pc[v][j] = "picked"
        BY <2>1
      <4> QED BY <2>5, <4>1 DEF DeliveryInv, HoldsRow, Locking, Claiming
    <3>7. CASE draft[j].lease = 0
      <4>1. Overtaken(j)
        BY <2>5, <3>7 DEF Overtaken
      <4> QED BY <3>4, <3>6, <4>1 DEF Credit, CreditInv
    <3>8. CASE draft[j].lease # 0
      <4>1. draft[j].lease > 0
        BY <3>8, RowsTyped DEF RowType
      <4>2. Guarded(j)'
        BY <3>1, <4>1 DEF Guarded
      <4>3. ~Loose(j)'
        BY <3>1, <4>2 DEF Loose
      <4> QED BY <3>4, <3>5, <3>6, <4>3 DEF Credit, CreditInv
    <3> QED BY <3>7, <3>8
  <2>6. ASSUME NEW j \in Jobs, pc[w][j] # "picked" PROVE Credit(j)'
    <3>1. \A v \in Workers :
             Owns(v, j)' => v # w /\ pc'[v][j] = pc[v][j] /\ snap'[v][j] = snap[v][j]
      BY <2>1, <2>6 DEF Owns, InTx, Unlocked, Settling
    <3>2. CASE pc[w][j] = "recovered"
      <4>1. row'[j].attempts = row[j].attempts
        BY <2>1, <3>2 DEF HandInv, Hand, HoldsRow, Locking, Claiming
      <4>2. Loose(j)
        BY <3>2, OvertakenIsLoose DEF Claiming
      <4> QED BY <2>3, <2>4, <3>1, <4>1, <4>2, CreditKept DEF CreditInv, Owns
    <3>3. CASE pc[w][j] = "none"
      <4>1. row'[j] = row[j]
        BY <2>1, <3>3 DEF HoldsRow, Locking, Claiming, Settling
      <4>2. \A v \in Workers : pc'[v][j] = pc[v][j]
        BY <2>1, <3>3
      <4>3. Loose(j)' => Loose(j)
        BY <4>1, <4>2 DEF Loose, Guarded
      <4> QED BY <2>3, <2>4, <3>1, <4>1, <4>3, CreditKept DEF CreditInv, Owns
    <3> QED BY <2>2, <2>6, <3>2, <3>3
  <2> QED BY <2>5, <2>6 DEF CreditInv
<1>4. CASE StartChunk(w) \/ EndBatch(w)
  <2>1. /\ UNCHANGED <<row, draft, faults, overruns>>
        /\ \A v \in Workers, j \in Jobs :
             \/ pc'[v][j] = pc[v][j] /\ (snap'[v][j] = snap[v][j] \/ pc[v][j] \in {"none", "done"})
             \/ pc[v][j] = "waiting" /\ pc'[v][j] = "run" /\ snap'[v][j] = snap[v][j]
             \/ pc[v][j] = "done" /\ pc'[v][j] = "none"
    <3>1. CASE StartChunk(w)
      BY <3>1 DEF StartChunk, TypeOK
    <3>2. CASE EndBatch(w)
      <4>1. \A v \in Workers, j \in Jobs :
              /\ pc'[v][j] = IF v = w THEN "none" ELSE pc[v][j]
              /\ v # w => snap'[v][j] = snap[v][j]
        BY <3>2 DEF EndBatch, TypeOK, Idle
      <4> QED BY <3>2, <4>1 DEF EndBatch
    <3> QED BY <1>4, <3>1, <3>2
  <2>2. \A v \in Workers, j \in Jobs : Owns(v, j)' => Owns(v, j) /\ snap'[v][j] = snap[v][j]
    BY <2>1 DEF Owns, InTx, Unlocked, Settling
  <2>3. \A j \in Jobs : Guarded(j) => Guarded(j)'
    BY <2>1 DEF Guarded, Unlocked, Settling
  <2>4. \A j \in Jobs : (Loose(j)' => Loose(j)) /\ (Overtaken(j)' => Overtaken(j))
    BY <2>1, <2>3 DEF Loose, Overtaken
  <2>5. faults' + overruns' >= faults + overruns
    BY <1>0, <2>1
  <2> QED BY <2>1, <2>2, <2>4, <2>5, CreditKept DEF CreditInv
<1>5. CASE Crash(w) \/ PollFails(w)
  <2>1. /\ \A v \in Workers, j \in Jobs : pc'[v][j] = IF v = w THEN "none" ELSE pc[v][j]
        /\ \A v \in Workers, j \in Jobs : v # w => snap'[v][j] = snap[v][j]
        /\ UNCHANGED row /\ draft' = RolledBack(w, Jobs)
        /\ faults' = faults + 1 /\ overruns' = overruns
    BY <1>5 DEF Crash, PollFails, TypeOK, Idle, Fault
  <2>2. \A v \in Workers, j \in Jobs : Owns(v, j)' => Owns(v, j) /\ snap'[v][j] = snap[v][j]
    BY <2>1 DEF Owns, InTx, Unlocked, Settling
  <2>3. ASSUME NEW j \in Jobs, Overtaken(j)' PROVE Overtaken(j)
    <3>1. PICK v \in Workers : pc'[v][j] = "picked" /\ draft'[j].lease = 0
      BY <2>3 DEF Overtaken
    <3>2. v # w /\ pc[v][j] = "picked"
      BY <2>1, <3>1
    <3>3. ~HoldsRow(w, j)
      BY <3>2 DEF DeliveryInv, HoldsRow, Locking, Claiming
    <3>4. draft'[j] = draft[j]
      BY <2>1, <3>3 DEF RolledBack
    <3> QED BY <3>1, <3>2, <3>4 DEF Overtaken
  <2>4. faults' + overruns' = faults + overruns + 1
    BY <1>0, <2>1
  <2> QED BY <2>1, <2>2, <2>3, <2>4, CreditPaid DEF CreditInv
<1> QED BY <1>1, <1>2, <1>3, <1>4, <1>5 DEF Loop

(* Time costs nothing until a lease runs out under a live execution.       *)
LEMMA CreditTick ==
  ASSUME TypeOK, TypeOK', DeliveryInv, HandInv, CreditInv, Tick
  PROVE  CreditInv'
<1> USE DEF table, hand, loop, delivery, budget
<1>0. /\ faults \in Nat /\ overruns \in Nat
      /\ \A j \in Jobs : row[j].lease \in Nat /\ draft[j].lease \in Nat
  BY RowsTyped DEF TypeOK, RowType
<1>1. UNCHANGED <<pc, snap, faults>>
  BY DEF Tick
<1>2. ASSUME NEW j \in Jobs
      PROVE  /\ row'[j].status = row[j].status /\ row'[j].attempts = row[j].attempts
             /\ row'[j].lockedBy = row[j].lockedBy
             /\ row'[j].lease = (IF row[j].lease > 0 THEN row[j].lease - 1 ELSE 0)
             /\ draft'[j].lease = (IF draft[j].lease > 0 THEN draft[j].lease - 1 ELSE 0)
  <2>1. row'[j] = Aged(row[j]) /\ draft'[j] = Aged(draft[j])
    BY DEF Tick
  <2>2. ASSUME NEW r \in RowType
        PROVE  /\ Aged(r).status = r.status /\ Aged(r).attempts = r.attempts
               /\ Aged(r).lockedBy = r.lockedBy
               /\ Aged(r).lease = (IF r.lease > 0 THEN r.lease - 1 ELSE 0)
    BY DEF Aged, RowType
  <2> QED BY <2>1, <2>2, RowsTyped
<1>3. \A w \in Workers, j \in Jobs : Owns(w, j)' => Owns(w, j) /\ snap'[w][j] = snap[w][j]
  BY <1>1 DEF Owns
<1>4. CASE Overrun
  <2>1. faults' + overruns' = faults + overruns + 1
    BY <1>0, <1>1, <1>4 DEF Tick
  <2>2. ASSUME NEW j \in Jobs, Overtaken(j)' PROVE Loose(j)
    <3>1. PICK w \in Workers : pc[w][j] = "picked"
      BY <1>1, <2>2 DEF Overtaken
    <3> QED BY <3>1, OvertakenIsLoose DEF Claiming
  <2> QED BY <1>2, <1>3, <2>1, <2>2, CreditPaid DEF CreditInv
<1>5. CASE ~Overrun
  <2>1. faults' + overruns' >= faults + overruns
    BY <1>0, <1>1, <1>5 DEF Tick
  <2>2. \A w \in Workers, j \in Jobs : ~LeaseEnding(w, j)
    BY <1>5 DEF Overrun
  <2>3. ASSUME NEW j \in Jobs, Guarded(j) PROVE Guarded(j)'
    <3>1. PICK w \in Workers :
            /\ row[j].lockedBy = w
            /\ \/ pc[w][j] \in Settling
               \/ pc[w][j] \in {"waiting"} \cup Unlocked /\ row[j].lease > 0
      BY <2>3 DEF Guarded
    <3>2. pc[w][j] \in {"waiting"} \cup Unlocked => row[j].lease # 1
      BY <2>2, <3>1 DEF LeaseEnding
    <3>3. /\ row'[j].lockedBy = w /\ pc'[w][j] = pc[w][j]
          /\ row[j].lease > 0 /\ row[j].lease # 1 => row'[j].lease > 0
      BY <1>0, <1>1, <1>2, <3>1
    <3>4. \/ pc'[w][j] \in Settling
          \/ pc'[w][j] \in {"waiting"} \cup Unlocked /\ row'[j].lease > 0
      BY <3>1, <3>2, <3>3
    <3> QED BY <3>3, <3>4 DEF Guarded
  <2>4. ASSUME NEW j \in Jobs, Overtaken(j)' PROVE Overtaken(j)
    <3>1. PICK w \in Workers : pc[w][j] = "picked" /\ draft'[j].lease = 0
      BY <1>1, <2>4 DEF Overtaken
    <3>2. draft[j].lease # 1
      BY <2>2, <3>1 DEF LeaseEnding
    <3>3. draft[j].lease = 0
      BY <1>0, <1>2, <3>1, <3>2
    <3> QED BY <3>1, <3>3 DEF Overtaken
  <2>5. \A j \in Jobs : Loose(j)' => Loose(j)
    BY <1>2, <2>3 DEF Loose
  <2> QED BY <1>2, <1>3, <2>1, <2>4, <2>5, CreditKept DEF CreditInv
<1> QED BY <1>4, <1>5

LEMMA CreditStep ==
  TypeOK /\ TypeOK' /\ DeliveryInv /\ CompletionInv /\ SnapshotInv /\ HandInv /\ CreditInv
    /\ [Next]_vars => CreditInv'
<1> SUFFICES ASSUME TypeOK, TypeOK', DeliveryInv, CompletionInv, SnapshotInv, HandInv, CreditInv,
                    [Next]_vars
             PROVE  CreditInv'
  OBVIOUS
<1> USE DEF vars, table, hand, loop, delivery, budget
<1>0. faults \in Nat /\ overruns \in Nat
  BY DEF TypeOK
<1>1. ASSUME NEW j \in Jobs, CreateJob(j) PROVE CreditInv'
  <2>1. /\ UNCHANGED <<pc, snap, faults, overruns>> /\ row[j].status = "absent"
        /\ \A i \in Jobs : i # j => row'[i] = row[i] /\ draft'[i] = draft[i]
        /\ row'[j] = Requeued(row[j], 0) /\ row[j] \in RowType
    BY <1>1, RowsTyped DEF CreateJob, TypeOK
  <2>2. row'[j].attempts = row[j].attempts /\ Loose(j)
    BY <2>1, AttemptsKept DEF Loose
  <2>3. \A v \in Workers : pc[v][j] = "none"
    BY <2>1 DEF CompletionInv, BringsResult
  <2>4. faults' + overruns' >= faults + overruns
    BY <1>0, <2>1
  <2>5. ASSUME NEW i \in Jobs PROVE Credit(i)'
    <3>1. Overtaken(i)' => Overtaken(i)
      BY <2>1, <2>3 DEF Overtaken
    <3>2. Loose(i)' => Loose(i)
      BY <2>1, <2>2 DEF Loose, Guarded
    <3>3. row'[i].attempts = row[i].attempts
      BY <2>1, <2>2
    <3> QED BY <2>1, <2>4, <3>1, <3>2, <3>3, CreditKept DEF CreditInv, Owns
  <2> QED BY <2>5 DEF CreditInv
<1>2. ASSUME UNCHANGED <<row, draft, pc, snap, overruns>>,
             faults' = faults \/ faults' = faults + 1
      PROVE  CreditInv'
  <2>1. \A j \in Jobs : Loose(j)' = Loose(j) /\ Overtaken(j)' = Overtaken(j)
    BY <1>2 DEF Loose, Guarded, Overtaken
  <2>2. faults' + overruns' >= faults + overruns
    BY <1>0, <1>2
  <2> QED BY <1>2, <2>1, <2>2, CreditKept DEF CreditInv, Owns
<1>3. (\E j \in Jobs : KeyExpires(j)) \/ (\E w \in Workers : Stop(w)) \/ UNCHANGED vars
        => /\ UNCHANGED <<row, draft, pc, snap, overruns>>
           /\ faults' = faults \/ faults' = faults + 1
  BY DEF KeyExpires, Stop, Fault
<1>4. ASSUME NEW w \in Workers, Loop(w) \/ Crash(w) \/ PollFails(w) PROVE CreditInv'
  BY <1>4, CreditLoop DEF CompletionInv
<1>5. ASSUME NEW w \in Workers, NEW j \in Jobs,
             Execution(w, j) \/ AbortJob(w, j) \/ RedisFails(w, j)
      PROVE  CreditInv'
  BY <1>5, CreditExecution
<1> QED
  BY <1>1, <1>2, <1>3, <1>4, <1>5, CreditTick DEF Next, Breaks

(* attempts passes max_attempts by at most one for each fault and each     *)
(* overrun, however many executions of a job overlap: each of them sends   *)
(* the job back at most once, and none on its last attempt                 *)
(* (_handle_retryable_failure); every other acquisition is a recovery of   *)
(* recover_stale_running_jobs that a fault or an overrun has paid for.     *)
THEOREM AttemptsStayBounded == Spec => []AttemptsBounded
<1>1. TypeOK /\ CreditInv => AttemptsBounded
  <2> SUFFICES ASSUME TypeOK, CreditInv, NEW j \in Jobs
               PROVE  row[j].attempts <= MaxAttempts + faults + overruns
    BY DEF AttemptsBounded
  <2>1. Cardinality(Open(j)) \in Nat
    <3>1. Open(j) \subseteq 1 .. MaxAttempts - 1
      BY DEF Open
    <3> QED BY <3>1, FewerOpen
  <2>2. Spent(j) <= Allowance
    BY DEF CreditInv, Credit
  <2>3. row[j].attempts \in Nat /\ overruns \in Nat /\ faults \in Nat /\ MaxAttempts \in Nat
    BY RowsTyped, LimitsAssumption DEF TypeOK, RowType
  <2> QED BY <2>1, <2>2, <2>3 DEF Spent, Allowance
<1> QED
  BY <1>1, TypeCorrect, DeliveryInit, DeliveryStep, Completion, SnapshotInit, SnapshotStep,
     CreditInit, HandStep, CreditStep, PTL DEF Spec

-----------------------------------------------------------------------------
(* What a worker leaves behind *)

LEMMA NamedInit == Init => NamedInv
BY WorkersAssumption DEF Init, NamedInv, Idle, Settling, Owns

(* Who gives a row up clears its name.                                     *)
LEMMA NameCleared ==
  ASSUME NEW r \in RowType, NEW s, NEW d
  PROVE  /\ Requeued(r, d).lockedBy = NoWorker
         /\ Closed(r, s).lockedBy = NoWorker
         /\ Aged(r).lockedBy = r.lockedBy
BY DEF RowType, Requeued, Closed, Aged

LEMMA NamedExecution ==
  ASSUME TypeOK, DeliveryInv, PunctualInv, NamedInv, NEW w \in Workers, NEW j \in Jobs,
         Execution(w, j)
  PROVE  NamedInv'
<1> USE DEF table, hand, loop, delivery
<1>1. row[j] \in RowType /\ OwnedRow(w, j) /\ Owns(w, j)
  BY RowsTyped, ExecutionMoves DEF PunctualInv, Owns
<1>2. PICK s \in InTx \cup {"done"} : Move(w, j, s)
  BY ExecutionMoves
<1>3. \A v \in Workers, i \in Jobs :
        pc'[v][i] = IF v = w /\ i = j THEN s ELSE pc[v][i]
  BY <1>2, MoveEffect
<1>4. s # "recovered"
  BY DEF InTx, Unlocked, Settling
<1>5. CASE Persist(w, j) \/ PipelineRaises(w, j) \/ ReadJob(w, j)
  <2>1. row[j].status = "running"
    BY <1>1 DEF OwnedRow
  <2>2. pc[w][j] \in Unlocked /\ UNCHANGED <<row, draft>>
    BY <1>5 DEF Persist, PipelineRaises, ReadJob, Unlocked
  <2>3. PICK t \in Unlocked : Move(w, j, t)
    BY <1>5, <2>1 DEF Persist, PipelineRaises, ReadJob, Unlocked
  <2>4. pc'[w][j] \in Unlocked
    BY <2>3, MoveEffect
  <2>5. pc'[w][j] \notin Settling \cup {"recovered"} /\ pc'[w][j] \in InTx
    BY <2>4 DEF InTx, Unlocked, Settling
  <2> QED
    BY <1>3, <2>2, <2>5 DEF NamedInv, Owns
<1>6. CASE FlushJob(w, j)
  <2>1. PICK r \in {Closed(row[j], "completed"), Requeued(row[j], RetryDelay),
                    Closed(row[j], "failed")} : draft' = [draft EXCEPT ![j] = r]
    BY <1>6 DEF FlushJob
  <2>2. draft'[j].lockedBy = NoWorker /\ \A i \in Jobs : i # j => draft'[i] = draft[i]
    <3>1. \A i \in Jobs : i # j => draft'[i] = draft[i]
      BY <2>1 DEF TypeOK
    <3>2. draft'[j] = r
      BY <2>1 DEF TypeOK
    <3>3. r.lockedBy = NoWorker
      BY <1>1, <2>1, NameCleared
    <3> QED
      BY <3>1, <3>2, <3>3
  <2>3. UNCHANGED row
    BY <1>6 DEF FlushJob
  <2>4. PICK t \in {"deliver", "commit"} : Move(w, j, t)
    BY <1>6 DEF FlushJob
  <2>5. pc'[w][j] \in InTx
    BY <2>4, MoveEffect DEF InTx, Settling
  <2> QED
    BY <1>3, <2>2, <2>3, <2>5 DEF NamedInv, Owns
<1>7. CASE CommitJob(w, j)
  <2>1. /\ UNCHANGED draft
        /\ \A i \in Jobs : row'[i] = IF i = j THEN draft[j] ELSE row[i]
        /\ pc[w][j] = "commit" /\ Move(w, j, "done")
    BY <1>7 DEF CommitJob, Leave, TypeOK
  <2>2. draft[j].lockedBy = NoWorker
    BY <2>1 DEF NamedInv, Settling
  <2>3. \A v \in Workers, i \in Jobs :
          pc'[v][i] = IF v = w /\ i = j THEN "done" ELSE pc[v][i]
    BY <2>1, MoveEffect
  <2> QED
    BY <2>1, <2>2, <2>3, WorkersAssumption DEF NamedInv, Owns, Settling
<1>8. CASE TakeDeliveryKey(w, j) \/ Send(w, j)
  <2>1. UNCHANGED <<row, draft>> /\ pc[w][j] \in Settling
    BY <1>8 DEF TakeDeliveryKey, Send, Settling
  <2>2. PICK t \in {"send", "commit"} : Move(w, j, t)
    BY <1>8 DEF TakeDeliveryKey, Send
  <2>3. pc'[w][j] \in InTx
    BY <2>2, MoveEffect DEF InTx, Settling
  <2> QED
    BY <1>3, <2>1, <2>3 DEF NamedInv, Owns
<1> QED
  BY <1>5, <1>6, <1>7, <1>8 DEF Execution

LEMMA NamedLoop ==
  ASSUME TypeOK, DeliveryInv, PhaseInv, PunctualInv, NamedInv, NEW w \in Workers,
         Loop(w) \/ PollFails(w)
  PROVE  NamedInv'
<1> USE DEF table, hand, loop, delivery
<1>1. CASE StartWorker(w) \/ Exit(w)
  BY <1>1 DEF StartWorker, Exit, NamedInv, Owns
<1>2. CASE Poll(w)
  <2>1. PICK S \in Picks :
          /\ draft' = [j \in Jobs |-> IF j \in S THEN Acquired(AfterRecovery[j], w)
                                      ELSE IF j \in Stale THEN AfterRecovery[j]
                                      ELSE draft[j]]
          /\ pc' = [pc EXCEPT ![w] = [j \in Jobs |->
                      IF j \in S THEN "picked"
                      ELSE IF j \in Stale THEN "recovered" ELSE "none"]]
    BY <1>2 DEF Poll
  <2>2. UNCHANGED row /\ \A j \in Jobs : pc[w][j] = "none"
    BY <1>2 DEF Poll, PhaseInv
  <2>3. \A v \in Workers, j \in Jobs :
          pc'[v][j] = IF v # w THEN pc[v][j]
                      ELSE IF j \in S THEN "picked"
                      ELSE IF j \in Stale THEN "recovered" ELSE "none"
    BY <2>1 DEF TypeOK
  <2>4. \A j \in S \cup Stale, v \in Workers : ~HoldsRow(v, j)
    BY DEF Picks, Due, Stale, RowFree
  <2>5. ASSUME NEW v \in Workers, NEW j \in Jobs, row'[j].lockedBy = v PROVE Owns(v, j)'
    BY <2>2, <2>3, <2>5 DEF NamedInv, Owns, InTx, Unlocked, Settling
  <2>6. ASSUME NEW v \in Workers, NEW j \in Jobs, pc'[v][j] \in Settling \cup {"recovered"}
        PROVE  draft'[j].lockedBy = NoWorker
    <3>1. CASE v = w
      <4>1. j \notin S /\ j \in Stale
        BY <2>3, <2>6, <3>1 DEF Settling
      <4>2. draft'[j] = Requeued(row[j], 0)
        BY <2>1, <4>1 DEF AfterRecovery
      <4> QED
        BY <4>2, RowsTyped, NameCleared
    <3>2. CASE v # w
      <4>1. HoldsRow(v, j) /\ pc[v][j] \in Settling \cup {"recovered"}
        BY <2>3, <2>6, <3>2 DEF HoldsRow, Locking, Claiming
      <4>2. draft'[j] = draft[j]
        BY <2>1, <2>4, <4>1
      <4> QED
        BY <4>1, <4>2 DEF NamedInv
    <3> QED
      BY <3>1, <3>2
  <2> QED
    BY <2>5, <2>6 DEF NamedInv
<1>3. CASE CommitAcquire(w)
  <2>1. /\ UNCHANGED draft
        /\ \A j \in Jobs : row'[j] = IF HoldsRow(w, j) THEN draft[j] ELSE row[j]
        /\ \A v \in Workers, j \in Jobs :
             pc'[v][j] = IF v # w THEN pc[v][j]
                         ELSE IF pc[w][j] = "picked" THEN "waiting" ELSE "none"
    BY <1>3 DEF CommitAcquire, TypeOK
  <2>2. \A j \in Jobs : pc[w][j] \in {"picked", "recovered", "none"}
    BY <1>3 DEF CommitAcquire, PhaseInv, Claiming
  <2>3. ASSUME NEW v \in Workers, NEW j \in Jobs, row'[j].lockedBy = v PROVE Owns(v, j)'
    <3>1. CASE pc[w][j] = "picked"
      <4>1. draft[j].lockedBy = w /\ HoldsRow(w, j)
        BY <3>1 DEF PunctualInv, ClaimedRow, HoldsRow, Locking, Claiming
      <4> QED
        BY <2>1, <2>3, <3>1, <4>1 DEF Owns
    <3>2. CASE pc[w][j] = "recovered"
      <4>1. draft[j].lockedBy = NoWorker /\ HoldsRow(w, j)
        BY <3>2 DEF NamedInv, HoldsRow, Locking, Claiming
      <4> QED
        BY <2>1, <2>3, <4>1, WorkersAssumption
    <3>3. CASE pc[w][j] = "none"
      <4>1. ~HoldsRow(w, j) /\ ~Owns(w, j)
        BY <3>3 DEF HoldsRow, Locking, Claiming, Settling, Owns, InTx, Unlocked
      <4> QED
        BY <2>1, <2>3, <4>1 DEF NamedInv, Owns
    <3> QED
      BY <2>2, <3>1, <3>2, <3>3
  <2>4. ASSUME NEW v \in Workers, NEW j \in Jobs, pc'[v][j] \in Settling \cup {"recovered"}
        PROVE  draft'[j].lockedBy = NoWorker
    BY <2>1, <2>4 DEF NamedInv, Settling
  <2> QED
    BY <2>3, <2>4 DEF NamedInv
<1>4. CASE StartChunk(w) \/ EndBatch(w)
  <2>1. ASSUME NEW v \in Workers, NEW j \in Jobs
        PROVE  \/ pc'[v][j] = pc[v][j]
               \/ pc[v][j] = "waiting" /\ pc'[v][j] = "run"
               \/ pc[v][j] = "done" /\ pc'[v][j] = "none"
    BY <1>4 DEF StartChunk, EndBatch, TypeOK, Idle
  <2>2. UNCHANGED <<row, draft>>
    BY <1>4 DEF StartChunk, EndBatch
  <2> QED
    BY <2>1, <2>2 DEF NamedInv, Owns, InTx, Unlocked, Settling
<1>5. CASE PollFails(w)
  <2>1. /\ UNCHANGED row /\ draft' = RolledBack(w, Jobs)
        /\ \A v \in Workers, j \in Jobs : pc'[v][j] = IF v = w THEN "none" ELSE pc[v][j]
    BY <1>5 DEF PollFails, TypeOK, Idle
  <2>2. \A j \in Jobs : pc[w][j] \in {"picked", "recovered", "none"}
    BY <1>5 DEF PollFails, PhaseInv, Claiming
  <2>3. \A j \in Jobs : draft'[j] = IF HoldsRow(w, j) THEN row[j] ELSE draft[j]
    BY <2>1 DEF RolledBack
  <2>4. ASSUME NEW v \in Workers, NEW j \in Jobs, row'[j].lockedBy = v PROVE Owns(v, j)'
    BY <2>1, <2>2, <2>4 DEF NamedInv, Owns, InTx, Unlocked, Settling
  <2>5. ASSUME NEW v \in Workers, NEW j \in Jobs, pc'[v][j] \in Settling \cup {"recovered"}
        PROVE  draft'[j].lockedBy = NoWorker
    <3>1. v # w /\ pc[v][j] \in Settling \cup {"recovered"}
      BY <2>1, <2>5 DEF Settling
    <3>2. ~HoldsRow(w, j)
      BY <3>1 DEF DeliveryInv, HoldsRow, Locking, Claiming
    <3> QED
      BY <2>3, <3>1, <3>2 DEF NamedInv
  <2> QED
    BY <2>4, <2>5 DEF NamedInv
<1> QED
  BY <1>1, <1>2, <1>3, <1>4, <1>5 DEF Loop

(* The faults that leave a job to its lease: a transaction that is rolled  *)
(* back and a process that dies.                                           *)
Abandoning == {"crash", "db", "redis"}

LEMMA NamedStep ==
  ASSUME FaultKinds \cap Abandoning = {}
  PROVE  TypeOK /\ DeliveryInv /\ CompletionInv /\ PunctualInv /\ NamedInv /\ [Next]_vars
           => NamedInv'
<1> SUFFICES ASSUME TypeOK, DeliveryInv, CompletionInv, PunctualInv, NamedInv, [Next]_vars
             PROVE  NamedInv'
  OBVIOUS
<1> USE DEF vars, table, hand, loop, delivery, budget
<1>1. CASE Tick
  <2>1. /\ \A j \in Jobs : row'[j] = Aged(row[j]) /\ draft'[j] = Aged(draft[j])
        /\ UNCHANGED pc
    BY <1>1 DEF Tick
  <2>2. \A j \in Jobs : row'[j].lockedBy = row[j].lockedBy /\ draft'[j].lockedBy = draft[j].lockedBy
    BY <2>1, RowsTyped, NameCleared
  <2> QED
    BY <2>1, <2>2 DEF NamedInv, Owns
<1>2. ASSUME NEW j \in Jobs, CreateJob(j) PROVE NamedInv'
  <2>1. /\ UNCHANGED pc
        /\ \A i \in Jobs : i # j => row'[i] = row[i] /\ draft'[i] = draft[i]
        /\ row'[j] = Requeued(row[j], 0) /\ draft'[j] = Requeued(row[j], 0)
    BY <1>2 DEF CreateJob, TypeOK
  <2>2. row'[j].lockedBy = NoWorker /\ draft'[j].lockedBy = NoWorker
    BY <2>1, RowsTyped, NameCleared
  <2> QED
    BY <2>1, <2>2, WorkersAssumption DEF NamedInv, Owns
<1>3. CASE UNCHANGED <<row, draft, pc>>
  BY <1>3 DEF NamedInv, Owns
<1>4. (\E j \in Jobs : KeyExpires(j)) \/ (\E w \in Workers : Stop(w)) \/ UNCHANGED vars
        => UNCHANGED <<row, draft, pc>>
  BY DEF KeyExpires, Stop
<1>5. /\ \A w \in Workers : ~Crash(w)
      /\ \A w \in Workers, j \in Jobs : ~AbortJob(w, j) /\ ~RedisFails(w, j)
  BY DEF Abandoning, Crash, AbortJob, RedisFails, Fault
<1>6. ASSUME NEW w \in Workers, Loop(w) \/ PollFails(w) PROVE NamedInv'
  BY <1>6, NamedLoop DEF CompletionInv
<1>7. ASSUME NEW w \in Workers, NEW j \in Jobs, Execution(w, j) PROVE NamedInv'
  BY <1>7, NamedExecution
<1> QED
  BY <1>1, <1>2, <1>3, <1>4, <1>5, <1>6, <1>7 DEF Next, Breaks

(* A worker between two batches, or one that has been stopped, leaves no   *)
(* job RUNNING in its name: run_forever looks at _stopping only between    *)
(* calls of run_once.  It is true while no execution overruns its lease,   *)
(* no transaction fails and no process dies.                               *)
THEOREM WorkersLeaveNothing ==
  ASSUME MaxOverruns = 0, FaultKinds \cap Abandoning = {}
  PROVE  Spec => []NothingLeftRunning
<1>1. CompletionInv /\ NamedInv => NothingLeftRunning
  BY DEF CompletionInv, PhaseInv, NamedInv, NothingLeftRunning, Owns, InTx, Unlocked, Settling
<1>2. TypeOK /\ DeliveryInv /\ CompletionInv /\ PunctualInv /\ NamedInv /\ [Next]_vars => NamedInv'
  BY NamedStep
<1>3. Spec => []PunctualInv
  BY Punctual
<1> QED
  BY <1>1, <1>2, <1>3, TypeCorrect, DeliveryInit, DeliveryStep, Completion, NamedInit,
     PTL DEF Spec
=============================================================================
