------------------------- MODULE AnalysisThreadsProofs -------------------------
(***************************************************************************)
(* Proofs about AnalysisThreads for every finite set of analyses, every    *)
(* set of modes and any number of transactions open at the same time.      *)
(***************************************************************************)
EXTENDS AnalysisThreads, FiniteSetTheorems, TLAPS

-----------------------------------------------------------------------------
(* Typing *)

LEMMA FirstTyped ==
  ASSUME NEW S \in SUBSET Analyses
  PROVE  /\ First(S) \in Analyses \cup {NoAnalysis}
         /\ First(S) # NoAnalysis => First(S) \in S
         /\ First(S) = NoAnalysis => S = {}
BY AnalysesAssumption DEF First

LEMMA IndexTyped == ASSUME NEW t, saved \subseteq Analyses PROVE NextIndex(t) \in Nat
<1>1. RowsOf(t) \subseteq Analyses
  BY DEF RowsOf
<1> QED
  BY <1>1, AnalysesAssumption, FS_Subset, FS_CardinalityType DEF NextIndex

LEMMA MoveTyped ==
  ASSUME TypeOK, NEW a \in Analyses, NEW s \in Steps, Move(a, s)
  PROVE  pc' \in [Analyses -> Steps]
BY DEF TypeOK, Move

LEMMA ForgottenTyped ==
  ASSUME TypeOK, NEW a \in Analyses, Forgotten(a)
  PROVE  /\ seen' \in [Analyses -> Analyses \cup {NoAnalysis}]
         /\ writes' \in [Analyses -> [Analyses -> Statuses \cup {"unwritten"}]]
         /\ cleared' \in [Analyses -> Analyses \cup {NoAnalysis}]
BY DEF TypeOK, Forgotten, Unwritten

LEMMA SummaryTyped ==
  ASSUME TypeOK, NEW a \in Analyses, NEW c \in BOOLEAN, SummaryReleased(a, c)
  PROVE  /\ summarySaved' \in BOOLEAN
         /\ summaryLock' \in Analyses \cup {NoAnalysis}
         /\ sessionOpen' \in BOOLEAN
BY DEF TypeOK, SummaryReleased

LEMMA NoPlanTyped ==
  ASSUME TypeOK, NEW a \in Analyses, plan' = [plan EXCEPT ![a] = NoPlan]
  PROVE  plan' \in [Analyses -> [action : Actions \cup {"NONE"},
                                 target : Analyses \cup {NoAnalysis}]]
BY DEF TypeOK, NoPlan

LEMMA WriteTyped ==
  ASSUME TypeOK, NEW a \in Analyses, NEW t \in Analyses, NEW s \in Statuses,
         Write(a, t, s)
  PROVE  writes' \in [Analyses -> [Analyses -> Statuses \cup {"unwritten"}]]
BY DEF TypeOK, Write

LEMMA ViewTyped ==
  ASSUME TypeOK, NEW a \in Analyses, NEW t \in Analyses
  PROVE  View(a, t) \in Statuses
BY DEF TypeOK, View

LEMMA ThreadOfTyped ==
  ASSUME TypeOK, NEW a \in Analyses
  PROVE  ThreadOf(a) \in Analyses \cup {NoAnalysis}
BY DEF TypeOK, ThreadOf

LEMMA ActiveThreadTyped ==
  ASSUME TypeOK, NEW a \in Analyses
  PROVE  /\ ActiveThread(a) \in Analyses \cup {NoAnalysis}
         /\ ActiveThread(a) # NoAnalysis => View(a, ActiveThread(a)) = "active"
         /\ ActiveThread(a) = NoAnalysis => \A t \in Analyses : View(a, t) # "active"
<1>1. ActiveThreads(a) \in SUBSET Analyses
  BY DEF ActiveThreads
<1> QED
  BY <1>1, FirstTyped DEF ActiveThread, ActiveThreads

(* A decision to continue names the thread it has seen active. *)
LEMMA DecisionTyped ==
  ASSUME TypeOK, NEW a \in Analyses, NEW t
  PROVE  /\ Decision(a, t) \in Actions
         /\ Decision(a, t) = "CONTINUE" => t # NoAnalysis
<1>1. CASE ~sessionSeen[a]
  BY <1>1 DEF Decision, Actions
<1>2. CASE sessionSeen[a] /\ t = NoAnalysis
  BY <1>2 DEF Decision, Actions
<1>3. CASE sessionSeen[a] /\ t # NoAnalysis
  BY <1>3 DEF Decision, Actions
<1> QED
  BY <1>1, <1>2, <1>3

LEMMA FirstStepTyped ==
  ASSUME NEW action \in Actions
  PROVE  /\ FirstStep[action] \in {"counting", "demoting", "retiring"}
         /\ FirstStep[action] = "counting" <=> action = "CONTINUE"
BY DEF Actions, FirstStep

LEMMA StepSets ==
  /\ InSavepoint \subseteq Steps
  /\ Storing \subseteq Steps
  /\ Inserted \subseteq Storing
  /\ {"waiting", "summarising", "inferring", "resolving"} \subseteq Steps
  /\ Ended \subseteq Steps
BY DEF Steps, InTx, Storing

LEMMA RollBackTyped ==
  ASSUME TypeOK, NEW a \in Analyses, RollBack(a)
  PROVE  TypeOK'
<1>1. pc' \in [Analyses -> Steps]
  BY MoveTyped, StepSets DEF RollBack, Ended
<1>2. index' \in [Analyses -> Nat]
  BY DEF RollBack, TypeOK
<1> QED
  BY <1>1, <1>2, ForgottenTyped, SummaryTyped, NoPlanTyped
  DEF RollBack, TypeOK, tables, request

(* A failing analysis commits no write to the threads. *)
LEMMA FailKeepsThreads ==
  ASSUME TypeOK, NEW a \in Analyses, NEW r, Fail(a, r)
  PROVE  status' = status
BY DEF TypeOK, Fail, WritesAtSavepoint, Unwritten

LEMMA FailTyped ==
  ASSUME TypeOK, NEW a \in Analyses, NEW r \in Failed, Fail(a, r)
  PROVE  TypeOK'
<1>1. pc' \in [Analyses -> Steps]
  BY MoveTyped, StepSets DEF Fail, Ended
<1>2. SummaryReleased(a, a \notin Manual) /\ (a \notin Manual) \in BOOLEAN
  BY DEF Fail
<1> QED
  BY <1>1, <1>2, FailKeepsThreads, ForgottenTyped, SummaryTyped, NoPlanTyped
  DEF Fail, TypeOK, request

LEMMA TypeInit == Init => TypeOK
<1> SUFFICES ASSUME Init PROVE TypeOK
  OBVIOUS
<1>1. writes \in [Analyses -> [Analyses -> Statuses \cup {"unwritten"}]]
  BY DEF Init, Unwritten
<1>2. plan \in [Analyses -> [action : Actions \cup {"NONE"},
                             target : Analyses \cup {NoAnalysis}]]
  BY DEF Init, NoPlan
<1>3. index \in [Analyses -> Nat]
  BY DEF Init
<1> QED
  BY <1>1, <1>2, <1>3 DEF Init, TypeOK, Statuses, Steps

(* The type invariant survives every step. *)
LEMMA TypeStep == TypeOK /\ ThreadsInv /\ [Next]_vars => TypeOK'
<1> SUFFICES ASSUME TypeOK, ThreadsInv, [Next]_vars PROVE TypeOK'
  OBVIOUS
<1> USE DEF vars, session, tables, request, work
<1>1. CASE CloseSession
  BY <1>1 DEF CloseSession, TypeOK
<1>2. CASE RequestSummary
  BY <1>2 DEF RequestSummary, TypeOK
<1>3. ASSUME NEW t \in Analyses, GoStale(t) PROVE TypeOK'
  BY <1>3 DEF GoStale, TypeOK
<1>4. ASSUME NEW a \in Analyses, Start(a) PROVE TypeOK'
  <2>1. pc' \in [Analyses -> Steps]
    BY <1>4, MoveTyped, StepSets DEF Start
  <2>2. mode' \in [Analyses -> Modes \cup {"auto"}]
    BY <1>4 DEF Start, TypeOK
  <2> QED
    BY <1>4, <2>1, <2>2 DEF Start, TypeOK
<1>5. ASSUME NEW a \in Analyses, Lose(a) PROVE TypeOK'
  BY <1>5, RollBackTyped DEF Lose
<1>6. ASSUME NEW a \in Analyses, Execute(a) PROVE TypeOK'
  <2>1. CASE SaveSummary(a)
    BY <2>1, <1>6, MoveTyped, StepSets DEF SaveSummary, TypeOK
  <2>2. CASE Infer(a)
    BY <2>2, <1>6, MoveTyped, StepSets DEF Infer, TypeOK
  <2>3. CASE InferenceFails(a)
    BY <2>3, <1>6, FailTyped DEF InferenceFails, Failed
  <2>4. CASE Resolve(a)
    <3> DEFINE t == ActiveThread(a)
               d == Decision(a, t)
    <3>1. t \in Analyses \cup {NoAnalysis} /\ d \in Actions
      BY <1>6, ActiveThreadTyped, DecisionTyped
    <3>2. pc' \in [Analyses -> Steps]
      BY <2>4, <1>6, <3>1, FirstStepTyped, MoveTyped, StepSets
      DEF Resolve, InSavepoint, Storing
    <3>3. plan' = [plan EXCEPT ![a] = [action |-> d, target |-> t]]
      BY <2>4 DEF Resolve
    <3>4. UNCHANGED <<session, tables, request, reresolved, seen, writes, cleared, index>>
      BY <2>4 DEF Resolve
    <3> HIDE DEF t, d
    <3>5. plan' \in [Analyses -> [action : Actions \cup {"NONE"},
                                  target : Analyses \cup {NoAnalysis}]]
      BY <3>1, <3>3 DEF TypeOK
    <3> QED
      BY <3>2, <3>4, <3>5 DEF TypeOK
  <2>5. CASE Retire(a)
    <3>1. RetiredStatus(plan[a].action) \in Statuses
      BY DEF RetiredStatus, Statuses
    <3>2. plan[a].target \in Analyses
      BY <2>5, <1>6 DEF Retire, TypeOK
    <3>3. writes' \in [Analyses -> [Analyses -> Statuses \cup {"unwritten"}]]
      BY <2>5, <1>6, <3>1, <3>2, WriteTyped DEF Retire
    <3> QED
      BY <2>5, <1>6, <3>3, MoveTyped, StepSets DEF Retire, TypeOK, InSavepoint
  <2>6. CASE RetireNothing(a)
    BY <2>6, <1>6, FailTyped DEF RetireNothing, Failed
  <2>7. CASE FindActive(a)
    <3>1. seen' \in [Analyses -> Analyses \cup {NoAnalysis}]
      BY <2>7, <1>6, ActiveThreadTyped DEF FindActive, TypeOK
    <3> QED
      BY <2>7, <1>6, <3>1, MoveTyped, StepSets DEF FindActive, TypeOK, InSavepoint
  <2>8. CASE Demote(a)
    <3>1. seen[a] \in Analyses
      BY <2>8, <1>6 DEF Demote, TypeOK, ThreadsInv, TargetsExist
    <3>2. writes' \in [Analyses -> [Analyses -> Statuses \cup {"unwritten"}]]
      BY <2>8, <1>6, <3>1, WriteTyped DEF Demote, TypeOK, Statuses
    <3> QED
      BY <2>8, <1>6, <3>2, MoveTyped, StepSets DEF Demote, TypeOK, InSavepoint
  <2>9. CASE OpenThread(a)
    <3>1. writes' \in [Analyses -> [Analyses -> Statuses \cup {"unwritten"}]]
      BY <2>9, <1>6, WriteTyped DEF OpenThread, Statuses
    <3> QED
      BY <2>9, <1>6, <3>1, MoveTyped, StepSets DEF OpenThread, TypeOK, Storing
  <2>10. CASE Reresolve(a)
    <3>1. writes' \in [Analyses -> [Analyses -> Statuses \cup {"unwritten"}]]
      BY <2>10, <1>6 DEF Reresolve, TypeOK, WritesAtSavepoint, Unwritten
    <3> QED
      BY <2>10, <1>6, <3>1, MoveTyped, StepSets DEF Reresolve, TypeOK
  <2>11. CASE ConflictAgain(a)
    BY <2>11, <1>6, FailTyped DEF ConflictAgain, Failed
  <2>12. CASE Count(a)
    <3>1. NextIndex(ThreadOf(a)) \in Nat
      BY IndexTyped DEF TypeOK
    <3> QED
      BY <2>12, <1>6, <3>1, MoveTyped, StepSets DEF Count, TypeOK, Storing
  <2>13. CASE FindLatest(a)
    <3>1. LatestOf(ThreadOf(a)) \in Analyses \cup {NoAnalysis}
      BY FirstTyped DEF LatestOf, TypeOK
    <3>2. seen' \in [Analyses -> Analyses \cup {NoAnalysis}]
      BY <2>13, <1>6, <3>1 DEF FindLatest, TypeOK
    <3> QED
      BY <2>13, <1>6, <3>2, MoveTyped, StepSets DEF FindLatest, TypeOK, Storing
  <2>14. CASE ClearLatest(a)
    BY <2>14, <1>6, MoveTyped, StepSets DEF ClearLatest, TypeOK, Storing
  <2>15. CASE InsertAnalysis(a)
    BY <2>15, <1>6, MoveTyped, StepSets DEF InsertAnalysis, TypeOK, Inserted
  <2>16. CASE InsertFails(a)
    BY <2>16, <1>6, RollBackTyped DEF InsertFails
  <2>17. CASE TouchThread(a)
    <3>1. ThreadOf(a) \in Analyses
      BY <2>17, <1>6, ThreadOfTyped
      DEF TouchThread, ThreadsInv, TargetsExist, ThreadOf, Storing, Inserted
    <3>2. writes' \in [Analyses -> [Analyses -> Statuses \cup {"unwritten"}]]
      BY <2>17, <1>6, <3>1, ViewTyped, WriteTyped DEF TouchThread
    <3> QED
      BY <2>17, <1>6, <3>2, MoveTyped, StepSets DEF TouchThread, TypeOK, Inserted
  <2>18. CASE Commit(a)
    <3>1. status' \in [Analyses -> Statuses]
      BY <2>18, <1>6, ViewTyped DEF Commit
    <3>2. pc' \in [Analyses -> Steps]
      BY <2>18, <1>6, MoveTyped, StepSets DEF Commit, Ended
    <3>3. lastAnalysis' \in [Analyses -> Analyses \cup {NoAnalysis}]
      BY <2>18, <1>6 DEF Commit, LastAnalysisSet, TypeOK
    <3> QED
      BY <2>18, <1>6, <3>1, <3>2, <3>3, ForgottenTyped, SummaryTyped DEF Commit, TypeOK
  <2> QED
    BY <1>6, <2>1, <2>2, <2>3, <2>4, <2>5, <2>6, <2>7, <2>8, <2>9, <2>10, <2>11,
       <2>12, <2>13, <2>14, <2>15, <2>16, <2>17, <2>18 DEF Execute
<1>7. CASE UNCHANGED vars
  BY <1>7 DEF TypeOK
<1> QED
  BY <1>1, <1>2, <1>3, <1>4, <1>5, <1>6, <1>7 DEF Next

-----------------------------------------------------------------------------
(* One active thread *)

(* A transaction that ends without storing leaves the invariant alone. *)
LEMMA AbandonKeeps ==
  ASSUME TypeOK, ThreadsInv, NEW a \in Analyses, pc[a] \in InTx,
         NEW r \in Failed \cup {"undone"}, Move(a, r), Forgotten(a),
         plan' = [plan EXCEPT ![a] = NoPlan], status' = status, saved' = saved
  PROVE  ThreadsInv'
<1>1. /\ \A b \in Analyses \ {a} : /\ pc'[b] = pc[b] /\ writes'[b] = writes[b]
                                  /\ plan'[b] = plan[b] /\ seen'[b] = seen[b]
      /\ writes'[a] = Unwritten
      /\ pc'[a] = r
  BY DEF Move, Forgotten, TypeOK
<1>2. /\ r \notin InSavepoint \cup Storing
      /\ pc[a] # "stored"
  BY DEF Failed, InSavepoint, Storing, Inserted, InTx
<1>3. \A b \in Analyses \ {a} : Opened(b)' <=> Opened(b)
  BY <1>1 DEF Opened
<1>4. ~Opened(a)'
  BY <1>1, <1>2 DEF Opened
<1>5. \A t \in Analyses : ~Wrote(a, t)' /\ writes'[a][t] = "unwritten"
  BY <1>1 DEF Wrote, Unwritten
<1>6. \A b \in Analyses \ {a}, t \in Analyses :
        (Wrote(b, t)' <=> Wrote(b, t)) /\ View(b, t)' = View(b, t)
  BY <1>1 DEF Wrote, View
<1>7. LocksExclusive'
  BY <1>5, <1>6 DEF ThreadsInv, LocksExclusive
<1>8. ThreadsOpenedBySaved'
  BY <1>1, <1>2 DEF ThreadsInv, ThreadsOpenedBySaved
<1>9. TargetsExist'
  BY <1>1, <1>2 DEF ThreadsInv, TargetsExist, InSavepoint
<1>10. WritesFit'
  BY <1>1, <1>2, <1>3, <1>4, <1>5, <1>6 DEF ThreadsInv, WritesFit
<1>11. OneOpened'
  BY <1>3, <1>4 DEF ThreadsInv, OneOpened
<1>12. OneActiveThread'
  BY DEF ThreadsInv, OneActiveThread
<1> QED
  BY <1>7, <1>8, <1>9, <1>10, <1>11, <1>12 DEF ThreadsInv

LEMMA RollBackKeeps ==
  ASSUME TypeOK, ThreadsInv, NEW a \in Analyses, pc[a] \in InTx, RollBack(a)
  PROVE  ThreadsInv'
BY AbandonKeeps DEF RollBack, tables

LEMMA FailKeeps ==
  ASSUME TypeOK, ThreadsInv, NEW a \in Analyses, pc[a] \in InTx,
         NEW r \in Failed, Fail(a, r)
  PROVE  ThreadsInv'
<1>1. status' = status
  BY FailKeepsThreads
<1> QED
  BY <1>1, AbandonKeeps DEF Fail

(* So does a statement that writes nothing, outside the decision.          *)
LEMMA QuietKeeps ==
  ASSUME TypeOK, ThreadsInv, NEW a \in Analyses, NEW s \in Steps, Move(a, s),
         \/ pc[a] \in Storing /\ s \in Storing
         \/ /\ pc[a] \in {"waiting", "summarising", "inferring", "resolving"}
            /\ s \in {"summarising", "inferring", "resolving"},
         \A b \in Analyses \ {a} : seen'[b] = seen[b],
         UNCHANGED <<status, saved, plan, writes>>
  PROVE  ThreadsInv'
<1>1. /\ \A b \in Analyses \ {a} : pc'[b] = pc[b]
      /\ pc'[a] = s
  BY DEF Move, TypeOK
<1>2. /\ pc[a] # "stored" /\ pc[a] \notin InSavepoint
      /\ s \notin InSavepoint
      /\ pc[a] \in Storing <=> s \in Storing
  BY DEF Storing, Inserted, InSavepoint
<1>3. \A b \in Analyses : Opened(b)' <=> Opened(b)
  BY <1>1, <1>2 DEF Opened
<1>4. \A b, t \in Analyses : (Wrote(b, t)' <=> Wrote(b, t)) /\ View(b, t)' = View(b, t)
  BY DEF Wrote, View
<1>5. LocksExclusive'
  BY <1>4 DEF ThreadsInv, LocksExclusive
<1>6. ThreadsOpenedBySaved'
  BY <1>1, <1>2 DEF ThreadsInv, ThreadsOpenedBySaved
<1>7. TargetsExist'
  BY <1>1, <1>2 DEF ThreadsInv, TargetsExist, InSavepoint
<1>8. WritesFit'
  BY <1>1, <1>2, <1>3, <1>4 DEF ThreadsInv, WritesFit
<1>9. OneOpened'
  BY <1>3 DEF ThreadsInv, OneOpened
<1>10. OneActiveThread'
  BY DEF ThreadsInv, OneActiveThread
<1> QED
  BY <1>5, <1>6, <1>7, <1>8, <1>9, <1>10 DEF ThreadsInv

(* The locks a transaction takes are its own, and a thread it has not      *)
(* written reads as committed.                                             *)
LEMMA ViewOfUnwritten ==
  ASSUME NEW a \in Analyses, NEW t \in Analyses, ~Wrote(a, t)
  PROVE  View(a, t) = status[t]
BY DEF Wrote, View

LEMMA InFlightThreadAbsent ==
  ASSUME ThreadsInv, NEW a \in Analyses, pc[a] # "stored"
  PROVE  a \notin saved /\ status[a] = "absent"
BY DEF ThreadsInv, ThreadsOpenedBySaved

LEMMA ResolveKeeps ==
  ASSUME TypeOK, ThreadsInv, NEW a \in Analyses, Resolve(a)
  PROVE  ThreadsInv'
<1> DEFINE t == ActiveThread(a)
           d == Decision(a, t)
<1>1. /\ \A b \in Analyses \ {a} : pc'[b] = pc[b] /\ plan'[b] = plan[b]
      /\ pc'[a] = FirstStep[d]
      /\ plan'[a] = [action |-> d, target |-> t]
      /\ pc[a] = "resolving"
      /\ UNCHANGED <<status, saved, writes, seen>>
  BY DEF Resolve, Move, TypeOK, tables
<1>2. /\ d \in Actions
      /\ d = "CONTINUE" => t # NoAnalysis
      /\ FirstStep[d] \in {"counting", "demoting", "retiring"}
      /\ FirstStep[d] = "counting" <=> d = "CONTINUE"
  BY DecisionTyped, FirstStepTyped
<1>3. \A u \in Analyses : ~Wrote(a, u)
  BY <1>1 DEF ThreadsInv, WritesFit, InSavepoint, Storing, Inserted
<1>4. t # NoAnalysis => status[t] # "absent"
  BY <1>3, ActiveThreadTyped, ViewOfUnwritten
<1> HIDE DEF t, d
<1>5. /\ ~Opened(a)'
      /\ \A b \in Analyses \ {a} : Opened(b)' <=> Opened(b)
  BY <1>1, <1>2 DEF Opened, Storing, Inserted
<1>6. \A b, u \in Analyses : (Wrote(b, u)' <=> Wrote(b, u)) /\ View(b, u)' = View(b, u)
  BY <1>1 DEF Wrote, View
<1>7. LocksExclusive'
  BY <1>6 DEF ThreadsInv, LocksExclusive
<1>8. ThreadsOpenedBySaved'
  BY <1>1, <1>2 DEF ThreadsInv, ThreadsOpenedBySaved
<1>9. TargetsExist'
  BY <1>1, <1>2, <1>4 DEF ThreadsInv, TargetsExist, InSavepoint, Storing, Inserted
<1>10. WritesFit'
  <2>1. \A u \in Analyses : writes'[a][u] = "unwritten"
    BY <1>1, <1>3 DEF Wrote
  <2> QED
    BY <1>1, <1>3, <1>5, <1>6, <2>1 DEF ThreadsInv, WritesFit
<1>11. OneOpened'
  BY <1>5 DEF ThreadsInv, OneOpened
<1>12. OneActiveThread'
  BY <1>1 DEF ThreadsInv, OneActiveThread
<1> QED
  BY <1>7, <1>8, <1>9, <1>10, <1>11, <1>12 DEF ThreadsInv

(* Retiring and demoting: a statement inside the savepoint that may write  *)
(* a committed thread, never making it active.                             *)
LEMMA SavepointKeeps ==
  ASSUME TypeOK, ThreadsInv, NEW a \in Analyses, pc[a] \in InSavepoint,
         NEW s \in {"demoting", "demotingRow", "opening"}, Move(a, s),
         NEW t \in Analyses,
         \/ UNCHANGED writes
         \/ \E v \in {"idle", "closed"} :
              Write(a, t, v) /\ ThreadFree(a, t) /\ status[t] # "absent",
         UNCHANGED <<status, saved, plan>>,
         \A b \in Analyses \ {a} : seen'[b] = seen[b],
         s = "demotingRow" => seen'[a] # NoAnalysis /\ status[seen'[a]] # "absent"
  PROVE  ThreadsInv'
<1>1. /\ \A b \in Analyses \ {a} : pc'[b] = pc[b] /\ writes'[b] = writes[b]
      /\ pc'[a] = s
      /\ \A u \in Analyses : u # t => writes'[a][u] = writes[a][u]
      /\ writes'[a][t] # writes[a][t] =>
           writes'[a][t] \in {"idle", "closed"} /\ ThreadFree(a, t) /\ status[t] # "absent"
  BY DEF Move, Write, TypeOK
<1>2. /\ pc[a] # "stored" /\ pc[a] \notin Storing
      /\ s \notin Storing /\ s \in InSavepoint /\ s # "retiring"
  BY DEF Storing, Inserted, InSavepoint
<1>3. /\ \A b \in Analyses : Opened(b)' <=> Opened(b)
      /\ ~Opened(a)
  BY <1>1, <1>2 DEF Opened
<1>4. \A b \in Analyses \ {a}, u \in Analyses :
        (Wrote(b, u)' <=> Wrote(b, u)) /\ View(b, u)' = View(b, u)
  BY <1>1 DEF Wrote, View
<1>5. LocksExclusive'
  BY <1>1, <1>4 DEF ThreadsInv, LocksExclusive, ThreadFree, Wrote
<1>6. ThreadsOpenedBySaved'
  BY <1>1, <1>2 DEF ThreadsInv, ThreadsOpenedBySaved
<1>7. TargetsExist'
  BY <1>1, <1>2 DEF ThreadsInv, TargetsExist
<1>8. WritesFit'
  BY <1>1, <1>2, <1>3, <1>4 DEF ThreadsInv, WritesFit, Wrote
<1>9. OneOpened'
  BY <1>3 DEF ThreadsInv, OneOpened
<1>10. OneActiveThread'
  BY DEF ThreadsInv, OneActiveThread
<1> QED
  BY <1>5, <1>6, <1>7, <1>8, <1>9, <1>10 DEF ThreadsInv

LEMMA OpenKeeps ==
  ASSUME TypeOK, ThreadsInv, NEW a \in Analyses, OpenThread(a)
  PROVE  ThreadsInv'
<1>1. /\ \A b \in Analyses \ {a} : pc'[b] = pc[b] /\ writes'[b] = writes[b]
      /\ pc[a] = "opening" /\ pc'[a] = "counting"
      /\ \A u \in Analyses \ {a} : writes'[a][u] = writes[a][u]
      /\ writes'[a][a] = "active"
      /\ UNCHANGED <<status, saved, plan, seen>>
  BY DEF OpenThread, Move, Write, TypeOK, tables
<1>2. plan[a].action # "CONTINUE"
  BY <1>1 DEF ThreadsInv, TargetsExist, InSavepoint
<1>3. Opened(a)' /\ \A b \in Analyses \ {a} : Opened(b)' <=> Opened(b)
  BY <1>1, <1>2 DEF Opened, Storing
<1>4. \A b \in Analyses \ {a}, u \in Analyses :
        (Wrote(b, u)' <=> Wrote(b, u)) /\ View(b, u)' = View(b, u)
  BY <1>1 DEF Wrote, View
<1>5. status[a] = "absent"
  BY <1>1, InFlightThreadAbsent
<1>6. \A b \in Analyses \ {a} : ~Wrote(b, a)
  BY <1>5 DEF ThreadsInv, WritesFit
<1>7. \A b \in Analyses \ {a} : ~Opened(b)
  <2> SUFFICES ASSUME NEW b \in Analyses \ {a}, Opened(b) PROVE FALSE
    OBVIOUS
  <2>1. View(b, b) = "active"
    BY DEF ThreadsInv, WritesFit
  <2>2. pc[b] # "stored"
    BY DEF Opened, Storing, Inserted
  <2>3. status[b] = "absent"
    BY <2>2, InFlightThreadAbsent
  <2>4. writes[b][b] = "active"
    BY <2>1, <2>3 DEF View
  <2> QED
    BY <2>4 DEF OpenThread, OpeningWaits
<1>8. \A u \in Analyses : View(a, u) # "active"
  BY DEF OpenThread, OpeningClashes, ActiveThreads
<1>9. \A u \in Analyses : View(a, u)' = "active" <=> u = a
  BY <1>1, <1>8 DEF View
<1>10. LocksExclusive'
  BY <1>1, <1>4, <1>6 DEF ThreadsInv, LocksExclusive, Wrote
<1>11. ThreadsOpenedBySaved'
  BY <1>1 DEF ThreadsInv, ThreadsOpenedBySaved
<1>12. TargetsExist'
  BY <1>1, <1>2 DEF ThreadsInv, TargetsExist, InSavepoint
<1>13. WritesFit'
  <2>1. /\ "counting" \in Storing
        /\ "counting" \notin InSavepoint
        /\ "opening" \in InSavepoint
    BY DEF Storing, InSavepoint
  <2> QED
    BY <1>1, <1>3, <1>4, <1>9, <2>1 DEF ThreadsInv, WritesFit, Wrote
<1>14. OneOpened'
  BY <1>3, <1>7 DEF OneOpened
<1>15. OneActiveThread'
  BY <1>1 DEF ThreadsInv, OneActiveThread
<1> QED
  BY <1>10, <1>11, <1>12, <1>13, <1>14, <1>15 DEF ThreadsInv

(* Rolling back to the savepoint gives up every lock on a thread. *)
LEMMA ReresolveKeeps ==
  ASSUME TypeOK, ThreadsInv, NEW a \in Analyses, Reresolve(a)
  PROVE  ThreadsInv'
<1>1. /\ \A b \in Analyses \ {a} : pc'[b] = pc[b] /\ writes'[b] = writes[b]
      /\ pc[a] = "opening" /\ pc'[a] = "resolving"
      /\ \A u \in Analyses : writes'[a][u] = "unwritten"
      /\ UNCHANGED <<status, saved, plan, seen>>
  BY DEF Reresolve, Move, WritesAtSavepoint, Unwritten, TypeOK, tables
<1>2. /\ "opening" \notin Storing
      /\ "resolving" \notin InSavepoint \cup Storing
  BY DEF InSavepoint, Storing, Inserted
<1>3. ~Opened(a)' /\ \A b \in Analyses : Opened(b)' <=> Opened(b)
  BY <1>1, <1>2 DEF Opened
<1>4. \A b \in Analyses \ {a}, u \in Analyses :
        (Wrote(b, u)' <=> Wrote(b, u)) /\ View(b, u)' = View(b, u)
  BY <1>1 DEF Wrote, View
<1>5. \A u \in Analyses : ~Wrote(a, u)'
  BY <1>1 DEF Wrote
<1>6. LocksExclusive'
  BY <1>4, <1>5 DEF ThreadsInv, LocksExclusive
<1>7. ThreadsOpenedBySaved'
  BY <1>1 DEF ThreadsInv, ThreadsOpenedBySaved
<1>8. TargetsExist'
  BY <1>1, <1>2 DEF ThreadsInv, TargetsExist
<1>9. WritesFit'
  BY <1>1, <1>2, <1>3, <1>4, <1>5 DEF ThreadsInv, WritesFit
<1>10. OneOpened'
  BY <1>3 DEF ThreadsInv, OneOpened
<1>11. OneActiveThread'
  BY <1>1 DEF ThreadsInv, OneActiveThread
<1> QED
  BY <1>6, <1>7, <1>8, <1>9, <1>10, <1>11 DEF ThreadsInv

LEMMA TouchKeeps ==
  ASSUME TypeOK, ThreadsInv, NEW a \in Analyses, TouchThread(a)
  PROVE  ThreadsInv'
<1> DEFINE t == ThreadOf(a)
<1>1. /\ pc[a] \in Storing /\ pc[a] # "stored" /\ pc[a] \notin InSavepoint
      /\ "committing" \in Storing /\ "committing" \notin InSavepoint
  BY DEF TouchThread, Storing, Inserted, InSavepoint
<1>2. /\ t \in Analyses
      /\ Opened(a) => t = a
      /\ ~Opened(a) => status[t] # "absent"
  BY <1>1, ThreadOfTyped DEF ThreadsInv, TargetsExist, ThreadOf, Opened
<1>3. View(a, t) = IF Opened(a) THEN "active" ELSE status[t]
  BY <1>1, <1>2 DEF ThreadsInv, WritesFit, View, Wrote
<1>4. /\ \A b \in Analyses \ {a} : pc'[b] = pc[b] /\ writes'[b] = writes[b]
      /\ pc'[a] = "committing"
      /\ \A u \in Analyses : u # t => writes'[a][u] = writes[a][u]
      /\ writes'[a][t] = View(a, t)
      /\ ThreadFree(a, t)
      /\ UNCHANGED <<status, saved, plan, seen>>
  BY <1>2 DEF TouchThread, Move, Write, TypeOK, tables
<1> HIDE DEF t
<1>5. \A b \in Analyses : Opened(b)' <=> Opened(b)
  BY <1>1, <1>4 DEF Opened
<1>6. \A u \in Analyses : View(a, u)' = View(a, u)
  BY <1>2, <1>3, <1>4, ViewTyped DEF View, Statuses
<1>7. \A b \in Analyses \ {a}, u \in Analyses :
        (Wrote(b, u)' <=> Wrote(b, u)) /\ View(b, u)' = View(b, u)
  BY <1>4 DEF Wrote, View
<1>8. LocksExclusive'
  BY <1>4, <1>7 DEF ThreadsInv, LocksExclusive, ThreadFree, Wrote
<1>9. ThreadsOpenedBySaved'
  BY <1>1, <1>4 DEF ThreadsInv, ThreadsOpenedBySaved
<1>10. TargetsExist'
  BY <1>1, <1>4 DEF ThreadsInv, TargetsExist, InSavepoint
<1>11. WritesFit'
  BY <1>1, <1>2, <1>3, <1>4, <1>5, <1>6, <1>7 DEF ThreadsInv, WritesFit, Wrote
<1>12. OneOpened'
  BY <1>5 DEF ThreadsInv, OneOpened
<1>13. OneActiveThread'
  BY <1>4 DEF ThreadsInv, OneActiveThread
<1> QED
  BY <1>8, <1>9, <1>10, <1>11, <1>12, <1>13 DEF ThreadsInv

(* The commit of the transaction that opened a thread leaves that thread   *)
(* alone active; the commit of one that continued a thread changes none.   *)
LEMMA CommitKeeps ==
  ASSUME TypeOK, ThreadsInv, NEW a \in Analyses, Commit(a)
  PROVE  ThreadsInv'
<1>1. /\ \A b \in Analyses \ {a} : pc'[b] = pc[b] /\ writes'[b] = writes[b] /\ seen'[b] = seen[b]
      /\ pc[a] = "committing" /\ pc'[a] = "stored"
      /\ \A u \in Analyses : writes'[a][u] = "unwritten"
      /\ \A u \in Analyses : status'[u] = View(a, u)
      /\ saved' = saved \cup {a}
      /\ plan' = plan
  BY DEF Commit, Move, Forgotten, Unwritten, TypeOK
<1>2. /\ pc[a] \in Storing /\ "stored" \notin Storing /\ "stored" \notin InSavepoint
  BY <1>1 DEF Storing, Inserted, InSavepoint
<1>3. ~Opened(a)' /\ \A b \in Analyses \ {a} : Opened(b)' <=> Opened(b)
  BY <1>1, <1>2 DEF Opened
<1>4. \A b \in Analyses, u \in Analyses : Wrote(b, u)' => b # a /\ Wrote(b, u) /\ ~Wrote(a, u)
  BY <1>1 DEF ThreadsInv, LocksExclusive, Wrote
<1>5. \A u \in Analyses : ~Wrote(a, u) => status'[u] = status[u]
  BY <1>1, ViewOfUnwritten
<1>6. \A u \in Analyses : status[u] # "absent" => status'[u] # "absent"
  BY <1>1 DEF View, ThreadsInv, WritesFit
<1>7. \A u \in Analyses \ {a} : status'[u] # "absent" => status[u] # "absent"
  BY <1>1, <1>5 DEF ThreadsInv, WritesFit
<1>8. Opened(a) => \A u \in Analyses : status'[u] = "active" <=> u = a
  BY <1>1 DEF ThreadsInv, WritesFit
<1>9. ~Opened(a) => \A u \in Analyses : status'[u] = status[u]
  BY <1>1, <1>2 DEF ThreadsInv, WritesFit, View, Wrote
<1>10. LocksExclusive'
  BY <1>1, <1>4 DEF ThreadsInv, LocksExclusive, Wrote
<1>11. ThreadsOpenedBySaved'
  BY <1>1, <1>7 DEF ThreadsInv, ThreadsOpenedBySaved
<1>12. TargetsExist'
  <2>1. \A b \in Analyses : /\ plan[b].target \in Analyses \cup {NoAnalysis}
                            /\ seen[b] \in Analyses \cup {NoAnalysis}
    BY DEF TypeOK
  <2>2. "demotingRow" \in InSavepoint /\ "retiring" \in InSavepoint
    BY DEF InSavepoint
  <2> QED
    BY <1>1, <1>2, <1>6, <2>1, <2>2 DEF ThreadsInv, TargetsExist
<1>13. WritesFit'
  <2> SUFFICES ASSUME NEW b \in Analyses, NEW u \in Analyses
               PROVE  /\ writes'[b][u] # "absent"
                      /\ Wrote(b, u)' => pc'[b] \in InSavepoint \cup Storing
                      /\ Wrote(b, u)' /\ u # b => status'[u] # "absent"
                      /\ pc'[b] \in InSavepoint => writes'[b][u] # "active"
                      /\ Opened(b)' => (View(b, u)' = "active" <=> u = b)
                      /\ pc'[b] \in Storing /\ ~Opened(b)' /\ Wrote(b, u)'
                           => writes'[b][u] = status'[u]
    BY DEF WritesFit
  <2>1. CASE b = a
    BY <1>1, <1>2, <1>3, <2>1 DEF Wrote
  <2>2. CASE b # a
    <3>1. /\ pc'[b] = pc[b] /\ writes'[b] = writes[b]
          /\ Opened(b)' <=> Opened(b)
          /\ Wrote(b, u)' <=> Wrote(b, u)
      BY <1>1, <1>3, <2>2 DEF Wrote
    <3>2. Wrote(b, u) => status'[u] = status[u]
      BY <1>4, <1>5, <3>1
    <3>3. Opened(b) => ~Opened(a)
      BY <2>2 DEF ThreadsInv, OneOpened
    <3>4. Opened(b) => View(b, u)' = View(b, u)
      BY <1>9, <3>1, <3>3 DEF View
    <3> QED
      BY <1>6, <3>1, <3>2, <3>4 DEF ThreadsInv, WritesFit
  <2> QED
    BY <2>1, <2>2
<1>14. OneOpened'
  BY <1>3 DEF ThreadsInv, OneOpened
<1>15. OneActiveThread'
  <2>1. CASE Opened(a)
    BY <1>8, <2>1 DEF OneActiveThread
  <2>2. CASE ~Opened(a)
    <3>1. plan[a].target \in saved
      BY <1>2, <2>2 DEF Opened, ThreadsInv, TargetsExist, ThreadsOpenedBySaved, TypeOK
    <3>2. \E u \in Analyses : status[u] = "active"
      BY <3>1 DEF ThreadsInv, OneActiveThread
    <3> QED
      BY <1>9, <2>2, <3>2 DEF ThreadsInv, OneActiveThread
  <2> QED
    BY <2>1, <2>2
<1> QED
  BY <1>10, <1>11, <1>12, <1>13, <1>14, <1>15 DEF ThreadsInv

LEMMA ThreadsInvInit == Init => ThreadsInv
<1> SUFFICES ASSUME Init PROVE ThreadsInv
  OBVIOUS
<1>1. \A a \in Analyses : /\ pc[a] = "waiting"
                          /\ status[a] = "absent"
                          /\ \A t \in Analyses : ~Wrote(a, t) /\ writes[a][t] = "unwritten"
  BY DEF Init, Unwritten, Wrote
<1>2. "waiting" \notin InSavepoint \cup Storing
  BY DEF InSavepoint, Storing, Inserted
<1> QED
  BY <1>1, <1>2 DEF Init, ThreadsInv, LocksExclusive, ThreadsOpenedBySaved,
     TargetsExist, WritesFit, OneOpened, Opened, OneActiveThread

LEMMA ThreadsInvStep == TypeOK /\ ThreadsInv /\ [Next]_vars => ThreadsInv'
<1> SUFFICES ASSUME TypeOK, ThreadsInv, [Next]_vars PROVE ThreadsInv'
  OBVIOUS
<1> USE DEF session, tables, request, work
<1>1. ASSUME UNCHANGED <<status, saved, pc, plan, seen, writes>> PROVE ThreadsInv'
  <2>1. /\ \A a \in Analyses : Opened(a)' <=> Opened(a)
        /\ \A a, t \in Analyses : (Wrote(a, t)' <=> Wrote(a, t)) /\ View(a, t)' = View(a, t)
    BY <1>1 DEF Opened, Wrote, View
  <2> QED
    BY <1>1, <2>1 DEF ThreadsInv, LocksExclusive, ThreadsOpenedBySaved, TargetsExist,
       WritesFit, OneOpened, OneActiveThread
<1>2. CASE CloseSession
  BY <1>1, <1>2 DEF CloseSession
<1>3. CASE RequestSummary
  BY <1>1, <1>3 DEF RequestSummary
<1>4. ASSUME NEW t \in Analyses, GoStale(t) PROVE ThreadsInv'
  BY <1>1, <1>4 DEF GoStale
<1>5. ASSUME NEW a \in Analyses, Start(a) PROVE ThreadsInv'
  <2> DEFINE s == IF summarySaved THEN "inferring" ELSE "summarising"
  <2>1. /\ pc[a] = "waiting"
        /\ Move(a, s)
        /\ UNCHANGED <<status, saved, plan, writes, seen>>
    BY <1>5 DEF Start
  <2>2. s \in {"summarising", "inferring", "resolving"}
    OBVIOUS
  <2> HIDE DEF s
  <2> QED
    BY <2>1, <2>2, QuietKeeps, StepSets
<1>6. ASSUME NEW a \in Analyses, Lose(a) PROVE ThreadsInv'
  BY <1>6, RollBackKeeps DEF Lose
<1>7. ASSUME NEW a \in Analyses, Execute(a) PROVE ThreadsInv'
  <2> USE <1>7
  <2>1. CASE SaveSummary(a)
    BY <2>1, QuietKeeps, StepSets DEF SaveSummary
  <2>2. CASE Infer(a)
    BY <2>2, QuietKeeps, StepSets DEF Infer
  <2>3. CASE InferenceFails(a)
    BY <2>3, FailKeeps DEF InferenceFails, Failed, InTx
  <2>4. CASE Resolve(a)
    BY <2>4, ResolveKeeps
  <2>5. CASE Retire(a)
    <3>1. /\ plan[a].target \in Analyses
          /\ status[plan[a].target] # "absent"
      BY <2>5 DEF Retire, TypeOK, ThreadsInv, TargetsExist
    <3>2. RetiredStatus(plan[a].action) \in {"idle", "closed"}
      BY DEF RetiredStatus
    <3>3. UNCHANGED <<status, saved, plan, seen>> /\ Move(a, "demoting")
      BY <2>5 DEF Retire
    <3> QED
      BY <2>5, <3>1, <3>2, <3>3, SavepointKeeps DEF Retire, InSavepoint
  <2>6. CASE RetireNothing(a)
    BY <2>6, FailKeeps DEF RetireNothing, Failed, InTx, InSavepoint
  <2>7. CASE FindActive(a)
    <3> DEFINE t == ActiveThread(a)
               s == IF t = NoAnalysis THEN "opening" ELSE "demotingRow"
    <3>1. /\ pc[a] \in InSavepoint
          /\ Move(a, s)
          /\ UNCHANGED <<status, saved, plan, writes>>
          /\ \A b \in Analyses \ {a} : seen'[b] = seen[b]
          /\ seen'[a] = t
      BY <2>7 DEF FindActive, InSavepoint, TypeOK
    <3>2. t # NoAnalysis => t \in Analyses /\ View(a, t) = "active"
      BY ActiveThreadTyped
    <3>3. t # NoAnalysis => status[t] = "active"
      BY <3>1, <3>2 DEF View, ThreadsInv, WritesFit
    <3> HIDE DEF t
    <3> QED
      BY <3>1, <3>3, SavepointKeeps
  <2>8. CASE Demote(a)
    <3>1. /\ pc[a] \in InSavepoint
          /\ Move(a, "opening")
          /\ seen[a] \in Analyses /\ status[seen[a]] # "absent"
          /\ UNCHANGED <<status, saved, plan>>
          /\ \A b \in Analyses \ {a} : seen'[b] = seen[b]
          /\ ThreadFree(a, seen[a])
          /\ UNCHANGED writes \/ Write(a, seen[a], "idle")
      BY <2>8 DEF Demote, InSavepoint, TypeOK, ThreadsInv, TargetsExist
    <3> QED
      BY <3>1, SavepointKeeps
  <2>9. CASE OpenThread(a)
    BY <2>9, OpenKeeps
  <2>10. CASE Reresolve(a)
    BY <2>10, ReresolveKeeps
  <2>11. CASE ConflictAgain(a)
    BY <2>11, FailKeeps DEF ConflictAgain, Failed, InTx, InSavepoint
  <2>12. CASE Count(a)
    BY <2>12, QuietKeeps, StepSets DEF Count, Storing
  <2>13. CASE FindLatest(a)
    <3>1. \A b \in Analyses \ {a} : seen'[b] = seen[b]
      BY <2>13 DEF FindLatest, TypeOK
    <3> QED
      BY <2>13, <3>1, QuietKeeps, StepSets DEF FindLatest, Storing
  <2>14. CASE ClearLatest(a)
    <3>1. \A b \in Analyses \ {a} : seen'[b] = seen[b]
      BY <2>14 DEF ClearLatest, TypeOK
    <3> QED
      BY <2>14, <3>1, QuietKeeps, StepSets DEF ClearLatest, Storing
  <2>15. CASE InsertAnalysis(a)
    BY <2>15, QuietKeeps, StepSets DEF InsertAnalysis, Storing, Inserted
  <2>16. CASE InsertFails(a)
    BY <2>16, RollBackKeeps DEF InsertFails, InTx, Storing
  <2>17. CASE TouchThread(a)
    BY <2>17, TouchKeeps
  <2>18. CASE Commit(a)
    BY <2>18, CommitKeeps
  <2> QED
    BY <2>1, <2>2, <2>3, <2>4, <2>5, <2>6, <2>7, <2>8, <2>9, <2>10, <2>11,
       <2>12, <2>13, <2>14, <2>15, <2>16, <2>17, <2>18 DEF Execute
<1>8. CASE UNCHANGED vars
  BY <1>1, <1>8 DEF vars
<1> QED
  BY <1>2, <1>3, <1>4, <1>5, <1>6, <1>7, <1>8 DEF Next

-----------------------------------------------------------------------------
(* One latest analysis *)

LEMMA LatestStepSets ==
  /\ InTx \cap {"waiting", "stored"} = {}
  /\ Inserted \cap {"clearingRow", "inserting", "clearing", "stored"} = {}
  /\ Inserted \cup {"clearingRow", "inserting", "clearing"} \subseteq InTx
  /\ (InSavepoint \cup Failed \cup {"waiting", "summarising", "inferring", "resolving",
                                    "counting", "undone", "stored"})
       \cap (Inserted \cup {"clearingRow", "inserting", "clearing"}) = {}
BY DEF InTx, Inserted, Storing, InSavepoint, Failed

(* A transaction that has not inserted its row, and has cleared none, has  *)
(* no part in the invariant.                                               *)
LEMMA LatestQuiet ==
  ASSUME TypeOK, LatestInv, NEW a \in Analyses, a \notin saved,
         pc'[a] \notin Inserted, cleared'[a] = NoAnalysis,
         pc'[a] = "clearingRow" =>
           seen'[a] \in saved /\ ThreadOf(seen[a])' = ThreadOf(a)',
         \A b \in Analyses \ {a} :
           /\ pc'[b] = pc[b] /\ seen'[b] = seen[b]
           /\ cleared'[b] = cleared[b] /\ plan'[b] = plan[b],
         UNCHANGED <<saved, latest, lastAnalysis>>
  PROVE  LatestInv'
<1>1. \A b \in Analyses \ {a} : ThreadOf(b)' = ThreadOf(b)
  BY DEF ThreadOf
<1>2. \A r \in saved : r \in Analyses \ {a}
  BY DEF TypeOK
<1>3. \A r \in latest : r \in saved
  BY DEF LatestInv, SavedInThreads
<1>4. SavedInThreads'
  BY <1>1, <1>2 DEF LatestInv, SavedInThreads
<1>5. ClearedFit'
  <2> SUFFICES ASSUME NEW b \in Analyses
               PROVE  /\ pc'[b] = "clearingRow" =>
                           seen'[b] \in saved' /\ ThreadOf(seen[b])' = ThreadOf(b)'
                      /\ cleared'[b] # NoAnalysis =>
                           /\ pc'[b] \in {"inserting"} \cup Inserted
                           /\ cleared'[b] \in latest'
                           /\ ThreadOf(cleared[b])' = ThreadOf(b)'
    BY DEF ClearedFit
  <2>1. CASE b = a
    BY <2>1 DEF ThreadOf
  <2>2. CASE b # a
    <3>1. pc'[b] = "clearingRow" => seen[b] \in Analyses \ {a}
      BY <1>2, <2>2 DEF LatestInv, ClearedFit
    <3>2. cleared'[b] # NoAnalysis => cleared[b] \in Analyses \ {a}
      BY <1>2, <1>3, <2>2 DEF LatestInv, ClearedFit
    <3>3. seen'[b] \in Analyses \ {a} => ThreadOf(seen[b])' = ThreadOf(seen[b])
      BY <2>2 DEF ThreadOf
    <3>4. cleared'[b] \in Analyses \ {a} => ThreadOf(cleared[b])' = ThreadOf(cleared[b])
      BY <2>2 DEF ThreadOf
    <3> QED
      BY <1>1, <2>2, <3>1, <3>2, <3>3, <3>4 DEF LatestInv, ClearedFit
  <2> QED
    BY <2>1, <2>2
<1>6. FlagTaken'
  BY <1>1, <1>2, <1>3 DEF LatestInv, FlagTaken
<1>7. LatestIsLast'
  <2>1. \A t \in Analyses : RowsOf(t)' = RowsOf(t)
    BY <1>1, <1>2 DEF RowsOf
  <2>2. \A t \in Analyses : {r \in latest : ThreadOf(r) = t}' = {r \in latest : ThreadOf(r) = t}
    BY <1>1, <1>2, <1>3
  <2> QED
    BY <2>1, <2>2 DEF LatestInv, LatestIsLast
<1> QED
  BY <1>4, <1>5, <1>6, <1>7 DEF LatestInv

LEMMA LatestAbandon ==
  ASSUME TypeOK, ThreadsInv, LatestInv, NEW a \in Analyses, pc[a] \in InTx,
         NEW r \in Failed \cup {"undone"}, Move(a, r), Forgotten(a),
         plan' = [plan EXCEPT ![a] = NoPlan],
         UNCHANGED <<saved, latest, lastAnalysis>>
  PROVE  LatestInv'
<1>1. a \notin saved
  BY LatestStepSets DEF ThreadsInv, ThreadsOpenedBySaved
<1>2. /\ pc'[a] = r /\ cleared'[a] = NoAnalysis
      /\ \A b \in Analyses \ {a} : /\ pc'[b] = pc[b] /\ seen'[b] = seen[b]
                                  /\ cleared'[b] = cleared[b] /\ plan'[b] = plan[b]
  BY DEF Move, Forgotten, TypeOK
<1>3. r \notin Inserted /\ r # "clearingRow"
  BY LatestStepSets
<1> QED
  BY <1>1, <1>2, <1>3, LatestQuiet

(* A transaction clears the row it has found if it is still the latest: a  *)
(* row that another transaction has cleared is locked.                     *)
LEMMA LatestClear ==
  ASSUME TypeOK, ThreadsInv, LatestInv, NEW a \in Analyses, ClearLatest(a)
  PROVE  LatestInv'
<1>1. /\ pc[a] = "clearingRow" /\ pc'[a] = "inserting"
      /\ \A b \in Analyses \ {a} : /\ pc'[b] = pc[b] /\ seen'[b] = seen[b]
                                  /\ cleared'[b] = cleared[b]
      /\ cleared'[a] = IF seen[a] \in latest THEN seen[a] ELSE cleared[a]
      /\ RowFree(a, seen[a])
      /\ UNCHANGED <<saved, latest, lastAnalysis, plan>>
  BY DEF ClearLatest, Move, TypeOK, tables
<1>2. \A b : ThreadOf(b)' = ThreadOf(b)
  BY <1>1 DEF ThreadOf
<1>3. /\ "clearingRow" \notin {"inserting"} \cup Inserted
      /\ "inserting" \notin Inserted
  BY LatestStepSets
<1>4. cleared[a] = NoAnalysis /\ ThreadOf(seen[a]) = ThreadOf(a)
  BY <1>1, <1>3 DEF LatestInv, ClearedFit
<1>5. SavedInThreads'
  BY <1>1, <1>2 DEF LatestInv, SavedInThreads
<1>6. ClearedFit'
  <2>1. \A b : /\ ThreadOf(seen[b])' = ThreadOf(seen'[b])
               /\ ThreadOf(cleared[b])' = ThreadOf(cleared'[b])
    BY <1>1 DEF ThreadOf
  <2> QED
    BY <1>1, <1>2, <1>3, <1>4, <2>1 DEF LatestInv, ClearedFit
<1>7. FlagTaken'
  <2>1. ASSUME NEW b \in Analyses \ {a}, ThreadOf(b) = ThreadOf(a), pc[b] \in Inserted
        PROVE  cleared'[a] = NoAnalysis
    <3>1. seen[a] \in latest => seen[a] = cleared[b]
      BY <1>4, <2>1 DEF LatestInv, FlagTaken
    <3> QED
      BY <1>1, <1>4, <2>1, <3>1 DEF RowFree
  <2> QED
    BY <1>1, <1>2, <1>3, <2>1 DEF LatestInv, FlagTaken
<1>8. LatestIsLast'
  BY <1>1, <1>2 DEF LatestInv, LatestIsLast, RowsOf
<1> QED
  BY <1>5, <1>6, <1>7, <1>8 DEF LatestInv

(* The unique index lets a row in only when no other row of the thread is  *)
(* the latest, committed or not.                                           *)
LEMMA LatestInsert ==
  ASSUME TypeOK, LatestInv, NEW a \in Analyses, NEW s \in Inserted, Move(a, s),
         \/ pc[a] = "inserting" /\ ~InsertWaits(a) /\ ~InsertClashes(a)
         \/ pc[a] \in Inserted,
         UNCHANGED <<saved, latest, lastAnalysis, plan, seen, cleared>>
  PROVE  LatestInv'
<1>1. pc'[a] = s /\ \A b \in Analyses \ {a} : pc'[b] = pc[b]
  BY DEF Move, TypeOK
<1>2. \A b : /\ ThreadOf(b)' = ThreadOf(b)
             /\ ThreadOf(seen[b])' = ThreadOf(seen[b])
             /\ ThreadOf(cleared[b])' = ThreadOf(cleared[b])
  BY DEF ThreadOf
<1>3. "clearingRow" \notin Inserted
  BY LatestStepSets
<1>4. SavedInThreads'
  BY <1>2 DEF LatestInv, SavedInThreads
<1>5. ClearedFit'
  BY <1>1, <1>2, <1>3 DEF LatestInv, ClearedFit
<1>6. FlagTaken'
  <2>1. \A r \in latest : ThreadOf(r) = ThreadOf(a) => r = cleared[a]
    BY DEF InsertClashes, LatestInv, FlagTaken
  <2>2. \A b \in Analyses \ {a} :
          ThreadOf(b) = ThreadOf(a) => pc[b] \notin Inserted /\ cleared[b] = NoAnalysis
    BY DEF InsertWaits, LatestInv, FlagTaken
  <2>3. \A b \in Analyses \ {a} : pc[b] \in Inserted /\ ThreadOf(b) = ThreadOf(a)
          => cleared[a] = NoAnalysis /\ pc[a] \notin Inserted
    BY <2>2
  <2> QED
    BY <1>1, <1>2, <2>1, <2>2, <2>3 DEF LatestInv, FlagTaken
<1>7. LatestIsLast'
  BY <1>2 DEF LatestInv, LatestIsLast, RowsOf
<1> QED
  BY <1>4, <1>5, <1>6, <1>7 DEF LatestInv

(* At its commit the row replaces the one it has cleared, in the flag and  *)
(* in the reference of the thread.                                         *)
LEMMA LatestCommit ==
  ASSUME TypeOK, ThreadsInv, LatestInv, NEW a \in Analyses, Commit(a)
  PROVE  LatestInv'
<1>1. /\ pc[a] = "committing" /\ pc'[a] = "stored"
      /\ cleared'[a] = NoAnalysis
      /\ \A b \in Analyses \ {a} : /\ pc'[b] = pc[b] /\ seen'[b] = seen[b]
                                  /\ cleared'[b] = cleared[b]
      /\ saved' = saved \cup {a}
      /\ latest' = (latest \ {cleared[a]}) \cup {a}
      /\ plan' = plan
  BY DEF Commit, Move, Forgotten, TypeOK
<1>2. \A b : /\ ThreadOf(b)' = ThreadOf(b)
             /\ ThreadOf(seen[b])' = ThreadOf(seen'[b])
             /\ ThreadOf(cleared[b])' = ThreadOf(cleared'[b])
  BY <1>1 DEF ThreadOf
<1>3. /\ pc[a] \in Inserted /\ pc[a] \in Storing
      /\ "stored" \notin Inserted \cup {"clearingRow", "inserting"}
      /\ a \notin saved
  BY <1>1, LatestStepSets DEF Inserted, Storing, ThreadsInv, ThreadsOpenedBySaved
<1>4. ThreadOf(a) \in saved'
  <2>1. plan[a].action = "CONTINUE" => plan[a].target \in saved
    BY <1>3 DEF ThreadsInv, TargetsExist, ThreadsOpenedBySaved, TypeOK
  <2> QED
    BY <1>1, <2>1 DEF ThreadOf
<1>5. /\ \A r \in latest : ThreadOf(r) = ThreadOf(a) <=> r = cleared[a]
      /\ \A b \in Analyses \ {a} : ThreadOf(b) = ThreadOf(a) =>
           pc[b] \notin Inserted /\ cleared[b] = NoAnalysis
  <2>1. cleared[a] # NoAnalysis => ThreadOf(cleared[a]) = ThreadOf(a)
    BY DEF LatestInv, ClearedFit
  <2>2. NoAnalysis \notin latest
    BY AnalysesAssumption DEF TypeOK
  <2> QED
    BY <1>3, <2>1, <2>2 DEF LatestInv, FlagTaken
<1>6. SavedInThreads'
  BY <1>1, <1>2, <1>4 DEF LatestInv, SavedInThreads
<1>7. ClearedFit'
  <2>1. \A b \in Analyses \ {a} : cleared[b] # NoAnalysis => cleared[b] # cleared[a]
    BY <1>5 DEF LatestInv, ClearedFit
  <2> QED
    BY <1>1, <1>2, <1>3, <2>1 DEF LatestInv, ClearedFit
<1>8. FlagTaken'
  BY <1>1, <1>2, <1>3, <1>5 DEF LatestInv, FlagTaken
<1>9. LatestIsLast'
  <2> SUFFICES ASSUME NEW t \in Analyses, RowsOf(t)' # {}
               PROVE  {r \in latest' : ThreadOf(r) = t} = {lastAnalysis'[t]}
    BY <1>2 DEF LatestIsLast
  <2>1. lastAnalysis' = [lastAnalysis EXCEPT ![ThreadOf(a)] = a]
    BY DEF Commit, LastAnalysisSet
  <2>2. CASE t = ThreadOf(a)
    <3>1. lastAnalysis'[t] = a
      BY <2>1, <2>2 DEF TypeOK
    <3> QED
      BY <1>1, <1>5, <2>2, <3>1
  <2>3. CASE t # ThreadOf(a)
    <3>1. lastAnalysis'[t] = lastAnalysis[t]
      BY <2>1, <2>3 DEF TypeOK
    <3>2. RowsOf(t) # {}
      BY <1>1, <1>2, <2>3 DEF RowsOf
    <3>3. {r \in latest' : ThreadOf(r) = t} = {r \in latest : ThreadOf(r) = t}
      BY <1>1, <1>5, <2>3
    <3> QED
      BY <3>1, <3>2, <3>3 DEF LatestInv, LatestIsLast
  <2> QED
    BY <2>2, <2>3
<1> QED
  BY <1>6, <1>7, <1>8, <1>9 DEF LatestInv

LEMMA LatestInit == Init => LatestInv
<1> SUFFICES ASSUME Init PROVE LatestInv
  OBVIOUS
<1>1. \A a \in Analyses : pc[a] = "waiting" /\ cleared[a] = NoAnalysis
  BY DEF Init
<1> QED
  BY <1>1, LatestStepSets DEF Init, LatestInv, SavedInThreads, ClearedFit, FlagTaken,
     LatestIsLast, RowsOf

LEMMA LatestStep == TypeOK /\ ThreadsInv /\ LatestInv /\ [Next]_vars => LatestInv'
<1> SUFFICES ASSUME TypeOK, ThreadsInv, LatestInv, [Next]_vars PROVE LatestInv'
  OBVIOUS
<1> USE DEF session, tables, request, work
<1>1. ASSUME UNCHANGED <<saved, latest, lastAnalysis, pc, plan, seen, cleared>>
      PROVE  LatestInv'
  <2>1. \A b : /\ ThreadOf(b)' = ThreadOf(b)
               /\ ThreadOf(seen[b])' = ThreadOf(seen[b])
               /\ ThreadOf(cleared[b])' = ThreadOf(cleared[b])
    BY <1>1 DEF ThreadOf
  <2> QED
    BY <1>1, <2>1 DEF LatestInv, SavedInThreads, ClearedFit, FlagTaken, LatestIsLast, RowsOf
(* The statements before the row of the thread is looked for. *)
<1>2. ASSUME NEW a \in Analyses, NEW s, Move(a, s),
             pc[a] \in InSavepoint \cup {"waiting", "summarising", "inferring", "resolving",
                                         "counting"},
             s \in InSavepoint \cup {"summarising", "inferring", "resolving",
                                     "counting", "clearing"},
             \A b \in Analyses \ {a} : seen'[b] = seen[b] /\ plan'[b] = plan[b],
             UNCHANGED <<saved, latest, lastAnalysis, cleared>>
      PROVE  LatestInv'
  <2>1. a \notin saved
    BY <1>2 DEF InSavepoint, ThreadsInv, ThreadsOpenedBySaved
  <2>2. cleared[a] = NoAnalysis
    BY <1>2, LatestStepSets DEF LatestInv, ClearedFit
  <2>3. s \notin Inserted \cup {"clearingRow"}
    BY <1>2, LatestStepSets
  <2>4. pc'[a] = s /\ \A b \in Analyses \ {a} : pc'[b] = pc[b]
    BY <1>2 DEF Move, TypeOK
  <2> QED
    BY <1>2, <2>1, <2>2, <2>3, <2>4, LatestQuiet
<1>3. CASE CloseSession \/ RequestSummary \/ \E t \in Analyses : GoStale(t)
  BY <1>1, <1>3 DEF CloseSession, RequestSummary, GoStale
<1>4. ASSUME NEW a \in Analyses, Start(a) PROVE LatestInv'
  <2> DEFINE s == IF summarySaved THEN "inferring" ELSE "summarising"
  <2>1. pc[a] = "waiting" /\ Move(a, s)
        /\ UNCHANGED <<saved, latest, lastAnalysis, cleared, seen, plan>>
    BY <1>4 DEF Start
  <2>2. s \in {"inferring", "summarising"}
    OBVIOUS
  <2> HIDE DEF s
  <2> QED
    BY <1>2, <2>1, <2>2
<1>5. ASSUME NEW a \in Analyses, pc[a] \in InTx, RollBack(a) PROVE LatestInv'
  BY <1>5, LatestAbandon DEF RollBack
<1>6. ASSUME NEW a \in Analyses, NEW r \in Failed, pc[a] \in InTx, Fail(a, r)
      PROVE  LatestInv'
  BY <1>6, LatestAbandon DEF Fail
<1>7. ASSUME NEW a \in Analyses, Lose(a) PROVE LatestInv'
  BY <1>5, <1>7 DEF Lose
<1>8. ASSUME NEW a \in Analyses, Execute(a) PROVE LatestInv'
  <2> USE <1>8
  <2>1. CASE SaveSummary(a)
    BY <1>2, <2>1 DEF SaveSummary
  <2>2. CASE Infer(a)
    BY <1>2, <2>2 DEF Infer
  <2>3. CASE InferenceFails(a)
    BY <1>6, <2>3 DEF InferenceFails, Failed, InTx
  <2>4. CASE Resolve(a)
    <3> DEFINE t == ActiveThread(a)
               d == Decision(a, t)
    <3>1. FirstStep[d] \in {"counting", "demoting", "retiring"}
      BY ActiveThreadTyped, DecisionTyped, FirstStepTyped
    <3>2. /\ pc[a] = "resolving" /\ Move(a, FirstStep[d])
          /\ \A b \in Analyses \ {a} : plan'[b] = plan[b]
          /\ UNCHANGED <<saved, latest, lastAnalysis, cleared, seen>>
      BY <2>4 DEF Resolve, TypeOK
    <3> HIDE DEF t, d
    <3> QED
      BY <1>2, <3>1, <3>2 DEF InSavepoint
  <2>5. CASE Retire(a)
    BY <1>2, <2>5 DEF Retire, InSavepoint
  <2>6. CASE RetireNothing(a)
    BY <1>6, <2>6 DEF RetireNothing, Failed, InTx, InSavepoint
  <2>7. CASE FindActive(a)
    <3> DEFINE s == IF ActiveThread(a) = NoAnalysis THEN "opening" ELSE "demotingRow"
    <3>1. /\ pc[a] = "demoting" /\ Move(a, s)
          /\ \A b \in Analyses \ {a} : seen'[b] = seen[b]
          /\ UNCHANGED <<saved, latest, lastAnalysis, cleared, plan>>
      BY <2>7 DEF FindActive, TypeOK
    <3>2. s \in InSavepoint
      BY DEF InSavepoint
    <3> HIDE DEF s
    <3> QED
      BY <1>2, <3>1, <3>2 DEF InSavepoint
  <2>8. CASE Demote(a)
    <3>1. \A b \in Analyses \ {a} : seen'[b] = seen[b]
      BY <2>8 DEF Demote, TypeOK
    <3> QED
      BY <1>2, <2>8, <3>1 DEF Demote, InSavepoint
  <2>9. CASE OpenThread(a)
    BY <1>2, <2>9 DEF OpenThread, InSavepoint
  <2>10. CASE Reresolve(a)
    BY <1>2, <2>10 DEF Reresolve, InSavepoint
  <2>11. CASE ConflictAgain(a)
    BY <1>6, <2>11 DEF ConflictAgain, Failed, InTx, InSavepoint
  <2>12. CASE Count(a)
    BY <1>2, <2>12 DEF Count
  <2>13. CASE FindLatest(a)
    <3> DEFINE r == LatestOf(ThreadOf(a))
    <3>1. /\ pc[a] = "clearing"
          /\ pc'[a] = IF r = NoAnalysis THEN "inserting" ELSE "clearingRow"
          /\ seen'[a] = r
          /\ \A b \in Analyses \ {a} : pc'[b] = pc[b] /\ seen'[b] = seen[b]
          /\ UNCHANGED <<saved, latest, lastAnalysis, cleared, plan>>
      BY <2>13 DEF FindLatest, Move, TypeOK
    <3>2. r # NoAnalysis => r \in saved /\ ThreadOf(r) = ThreadOf(a)
      BY FirstTyped DEF LatestOf, TypeOK, LatestInv, SavedInThreads
    <3> HIDE DEF r
    <3>3. a \notin saved
      BY <3>1 DEF ThreadsInv, ThreadsOpenedBySaved
    <3>4. cleared'[a] = NoAnalysis
      BY <3>1, LatestStepSets DEF LatestInv, ClearedFit
    <3>5. pc'[a] \notin Inserted
      BY <3>1, LatestStepSets
    <3>6. pc'[a] = "clearingRow" =>
            seen'[a] \in saved /\ ThreadOf(seen[a])' = ThreadOf(a)'
      BY <3>1, <3>2 DEF ThreadOf
    <3> QED
      BY <3>1, <3>3, <3>4, <3>5, <3>6, LatestQuiet
  <2>14. CASE ClearLatest(a)
    BY <2>14, LatestClear
  <2>15. CASE InsertAnalysis(a)
    BY <2>15, LatestInsert DEF InsertAnalysis, Inserted
  <2>16. CASE InsertFails(a)
    BY <1>5, <2>16 DEF InsertFails, InTx, Storing
  <2>17. CASE TouchThread(a)
    BY <2>17, LatestInsert DEF TouchThread, Inserted
  <2>18. CASE Commit(a)
    BY <2>18, LatestCommit
  <2> QED
    BY <1>8, <2>1, <2>2, <2>3, <2>4, <2>5, <2>6, <2>7, <2>8, <2>9, <2>10, <2>11,
       <2>12, <2>13, <2>14, <2>15, <2>16, <2>17, <2>18 DEF Execute
<1>9. CASE UNCHANGED vars
  BY <1>1, <1>9 DEF vars
<1> QED
  BY <1>3, <1>4, <1>7, <1>8, <1>9 DEF Next

-----------------------------------------------------------------------------
(* Continuation indexes *)

LEMMA CountedSteps ==
  /\ Counted \cap (InSavepoint \cup Failed \cup
                    {"waiting", "summarising", "inferring", "resolving", "counting",
                     "undone", "stored"}) = {}
  /\ Counted \subseteq InTx
  /\ InTx \cap {"waiting", "stored"} = {}
BY DEF Counted, Inserted, InTx, Storing, InSavepoint, Failed

LEMMA RowsCounted ==
  ASSUME TypeOK, NEW t
  PROVE  /\ IsFiniteSet(RowsOf(t))
         /\ Cardinality(RowsOf(t)) \in Nat
<1>1. RowsOf(t) \subseteq Analyses
  BY DEF RowsOf, TypeOK
<1> QED
  BY <1>1, AnalysesAssumption, FS_Subset, FS_CardinalityType

(* A transaction without a computed index has no part in the invariant.    *)
LEMMA IndexQuiet ==
  ASSUME TypeOK, IndexInv, NEW a \in Analyses, a \notin saved,
         pc'[a] \notin Counted \cup {"stored"}, began'[a] \subseteq saved,
         \A b \in Analyses \ {a} :
           /\ pc'[b] = pc[b] /\ began'[b] = began[b]
           /\ index'[b] = index[b] /\ plan'[b] = plan[b],
         UNCHANGED saved
  PROVE  IndexInv'
<1>1. \A b \in Analyses \ {a} : ThreadOf(b)' = ThreadOf(b)
  BY DEF ThreadOf
<1>2. \A r \in saved : r \in Analyses \ {a}
  BY DEF TypeOK
<1>3. \A t : RowsOf(t)' = RowsOf(t)
  BY <1>1, <1>2 DEF RowsOf
<1>4. \A b \in Analyses : began[b] \subseteq saved
  BY DEF IndexInv
<1> QED
  BY <1>1, <1>2, <1>3, <1>4 DEF IndexInv

(* The statements after Count.                                             *)
LEMMA IndexHold ==
  ASSUME TypeOK, IndexInv, NEW a \in Analyses, NEW s \in Counted, Move(a, s),
         pc[a] \in Counted, UNCHANGED <<saved, plan, began, index>>
  PROVE  IndexInv'
<1>1. \A b : ThreadOf(b)' = ThreadOf(b)
  BY DEF ThreadOf
<1>2. \A t : RowsOf(t)' = RowsOf(t)
  BY <1>1 DEF RowsOf
<1>3. pc'[a] = s /\ \A b \in Analyses \ {a} : pc'[b] = pc[b]
  BY DEF Move, TypeOK
<1> QED
  BY <1>1, <1>2, <1>3 DEF IndexInv

(* The rows that were there when the transaction began are among those it  *)
(* counts.                                                                 *)
LEMMA IndexCount ==
  ASSUME TypeOK, ThreadsInv, IndexInv, NEW a \in Analyses, Count(a)
  PROVE  IndexInv'
<1> DEFINE n == Cardinality(RowsOf(ThreadOf(a)))
<1>1. /\ pc[a] = "counting" /\ pc'[a] = "clearing"
      /\ index'[a] = n
      /\ \A b \in Analyses \ {a} : pc'[b] = pc[b] /\ index'[b] = index[b]
      /\ UNCHANGED <<saved, plan, began>>
  BY DEF Count, Move, NextIndex, TypeOK, tables, request
<1>2. a \notin saved
  BY <1>1 DEF ThreadsInv, ThreadsOpenedBySaved
<1>3. n \in Nat
  BY RowsCounted
<1>4. \A b : ThreadOf(b)' = ThreadOf(b)
  BY <1>1 DEF ThreadOf
<1>5. \A t : RowsOf(t)' = RowsOf(t)
  BY <1>1, <1>4 DEF RowsOf
<1>6. \A b \in began[a] : /\ b \in Analyses \ {a}
                          /\ ThreadOf(b) = ThreadOf(a) => index[b] < n
  BY <1>2 DEF IndexInv, TypeOK
<1>7. \A b \in Analyses \ {a} : a \notin began[b]
  BY <1>2 DEF IndexInv
<1> HIDE DEF n
<1>8. n <= Cardinality(RowsOf(ThreadOf(a)))'
  BY <1>3, <1>4, <1>5 DEF n
<1>9. began'[a] \subseteq saved'
  BY <1>1 DEF IndexInv
<1>10. \A b \in began'[a] : ThreadOf(b)' = ThreadOf(a)' => index'[b] < index'[a]
  BY <1>1, <1>4, <1>6
<1>11. ASSUME NEW b \in Analyses \ {a}
       PROVE  /\ began'[b] \subseteq saved'
              /\ b \in saved' => index'[b] < Cardinality(RowsOf(ThreadOf(b)))'
              /\ pc'[b] \in Counted => index'[b] <= Cardinality(RowsOf(ThreadOf(b)))'
              /\ pc'[b] \in Counted \cup {"stored"} =>
                   \A c \in began'[b] : ThreadOf(c)' = ThreadOf(b)' => index'[c] < index'[b]
  <2>1. \A c \in began[b] : c \in Analyses \ {a}
    BY <1>7 DEF IndexInv, TypeOK
  <2> QED
    BY <1>1, <1>4, <1>5, <2>1 DEF IndexInv
<1> QED
  BY <1>1, <1>2, <1>8, <1>9, <1>10, <1>11 DEF IndexInv

(* The commit adds a row to the thread, and the index stays behind.        *)
LEMMA IndexCommit ==
  ASSUME TypeOK, ThreadsInv, IndexInv, NEW a \in Analyses, Commit(a)
  PROVE  IndexInv'
<1>1. /\ pc[a] = "committing" /\ pc'[a] = "stored" /\ saved' = saved \cup {a}
      /\ \A b \in Analyses \ {a} : pc'[b] = pc[b]
      /\ UNCHANGED <<plan, began, index>>
  BY DEF Commit, Move, TypeOK, request
<1>2. a \notin saved /\ pc[a] \in Counted
  BY <1>1 DEF ThreadsInv, ThreadsOpenedBySaved, Counted, Inserted
<1>3. \A b : ThreadOf(b)' = ThreadOf(b)
  BY <1>1 DEF ThreadOf
<1>4. \A t : RowsOf(t)' = IF ThreadOf(a) = t THEN RowsOf(t) \cup {a} ELSE RowsOf(t)
  BY <1>1, <1>3 DEF RowsOf
<1>5. \A t : Cardinality(RowsOf(t))' =
                IF ThreadOf(a) = t THEN Cardinality(RowsOf(t)) + 1
                                   ELSE Cardinality(RowsOf(t))
  <2> TAKE t
  <2>1. a \notin RowsOf(t) /\ IsFiniteSet(RowsOf(t))
    BY <1>2, RowsCounted DEF RowsOf
  <2> QED
    BY <1>4, <2>1, FS_AddElement
<1>6. \A t : Cardinality(RowsOf(t)) \in Nat
  BY RowsCounted
<1>7. index \in [Analyses -> Nat]
  BY DEF TypeOK
<1> QED
  BY <1>1, <1>2, <1>3, <1>5, <1>6, <1>7 DEF IndexInv

LEMMA IndexInit == Init => IndexInv
<1> SUFFICES ASSUME Init PROVE IndexInv
  OBVIOUS
<1>1. \A a \in Analyses : pc[a] = "waiting" /\ began[a] = {}
  BY DEF Init
<1>2. saved = {}
  BY DEF Init
<1> QED
  BY <1>1, <1>2, CountedSteps DEF IndexInv

LEMMA IndexStep == TypeOK /\ ThreadsInv /\ IndexInv /\ [Next]_vars => IndexInv'
<1> SUFFICES ASSUME TypeOK, ThreadsInv, IndexInv, [Next]_vars PROVE IndexInv'
  OBVIOUS
<1> USE DEF session, tables, request, work
<1>1. ASSUME UNCHANGED <<saved, pc, plan, began, index>> PROVE IndexInv'
  <2>1. \A b : ThreadOf(b)' = ThreadOf(b)
    BY <1>1 DEF ThreadOf
  <2>2. \A t : RowsOf(t)' = RowsOf(t)
    BY <1>1, <2>1 DEF RowsOf
  <2> QED
    BY <1>1, <2>1, <2>2 DEF IndexInv
(* The statements before Count.                                            *)
<1>2. ASSUME NEW a \in Analyses, NEW s, Move(a, s),
             pc[a] \in InSavepoint \cup {"summarising", "inferring", "resolving"},
             s \in InSavepoint \cup {"inferring", "resolving", "counting"},
             \A b \in Analyses \ {a} : plan'[b] = plan[b],
             UNCHANGED <<saved, began, index>>
      PROVE  IndexInv'
  <2>1. a \notin saved
    BY <1>2 DEF InSavepoint, ThreadsInv, ThreadsOpenedBySaved
  <2>2. s \notin Counted \cup {"stored"}
    BY <1>2, CountedSteps DEF InSavepoint
  <2>3. pc'[a] = s /\ \A b \in Analyses \ {a} : pc'[b] = pc[b]
    BY <1>2 DEF Move, TypeOK
  <2>4. began[a] \subseteq saved
    BY DEF IndexInv
  <2> QED
    BY <1>2, <2>1, <2>2, <2>3, <2>4, IndexQuiet
<1>3. CASE CloseSession \/ RequestSummary \/ \E t \in Analyses : GoStale(t)
  BY <1>1, <1>3 DEF CloseSession, RequestSummary, GoStale
<1>4. ASSUME NEW a \in Analyses, Start(a) PROVE IndexInv'
  <2>1. /\ pc[a] = "waiting" /\ pc'[a] \in {"inferring", "summarising"}
        /\ began'[a] = saved
        /\ \A b \in Analyses \ {a} : pc'[b] = pc[b] /\ began'[b] = began[b]
        /\ UNCHANGED <<saved, plan, index>>
    BY <1>4 DEF Start, Move, TypeOK
  <2>2. a \notin saved /\ pc'[a] \notin Counted \cup {"stored"}
    BY <2>1, CountedSteps DEF ThreadsInv, ThreadsOpenedBySaved
  <2> QED
    BY <2>1, <2>2, IndexQuiet
(* However a transaction ends without storing its row.                     *)
<1>5. ASSUME NEW a \in Analyses, pc[a] \in InTx, NEW r \in Failed \cup {"undone"},
             Move(a, r), plan' = [plan EXCEPT ![a] = NoPlan],
             \A b \in Analyses \ {a} : index'[b] = index[b],
             UNCHANGED <<saved, began>>
      PROVE  IndexInv'
  <2>1. a \notin saved
    BY <1>5, CountedSteps DEF ThreadsInv, ThreadsOpenedBySaved
  <2>2. r \notin Counted \cup {"stored"}
    BY <1>5, CountedSteps DEF Failed
  <2>3. /\ pc'[a] = r
        /\ \A b \in Analyses \ {a} : pc'[b] = pc[b] /\ plan'[b] = plan[b]
    BY <1>5 DEF Move, TypeOK
  <2>4. began[a] \subseteq saved
    BY DEF IndexInv
  <2> QED
    BY <1>5, <2>1, <2>2, <2>3, <2>4, IndexQuiet
<1>6. ASSUME NEW a \in Analyses, pc[a] \in InTx, RollBack(a) PROVE IndexInv'
  <2>1. \A b \in Analyses \ {a} : index'[b] = index[b]
    BY <1>6 DEF RollBack, TypeOK
  <2> QED
    BY <1>5, <1>6, <2>1 DEF RollBack
<1>7. ASSUME NEW a \in Analyses, NEW r \in Failed, pc[a] \in InTx, Fail(a, r)
      PROVE  IndexInv'
  BY <1>5, <1>7 DEF Fail
<1>8. ASSUME NEW a \in Analyses, Lose(a) PROVE IndexInv'
  BY <1>6, <1>8 DEF Lose
<1>9. ASSUME NEW a \in Analyses, Execute(a) PROVE IndexInv'
  <2> USE <1>9
  <2>1. CASE SaveSummary(a)
    BY <1>2, <2>1 DEF SaveSummary
  <2>2. CASE Infer(a)
    BY <1>2, <2>2 DEF Infer
  <2>3. CASE InferenceFails(a)
    BY <1>7, <2>3 DEF InferenceFails, Failed, InTx
  <2>4. CASE Resolve(a)
    <3> DEFINE t == ActiveThread(a)
               d == Decision(a, t)
    <3>1. FirstStep[d] \in {"counting", "demoting", "retiring"}
      BY ActiveThreadTyped, DecisionTyped, FirstStepTyped
    <3>2. /\ pc[a] = "resolving" /\ Move(a, FirstStep[d])
          /\ \A b \in Analyses \ {a} : plan'[b] = plan[b]
          /\ UNCHANGED <<saved, began, index>>
      BY <2>4 DEF Resolve, TypeOK
    <3> HIDE DEF t, d
    <3> QED
      BY <1>2, <3>1, <3>2 DEF InSavepoint
  <2>5. CASE Retire(a)
    BY <1>2, <2>5 DEF Retire, InSavepoint
  <2>6. CASE RetireNothing(a)
    BY <1>7, <2>6 DEF RetireNothing, Failed, InTx, InSavepoint
  <2>7. CASE FindActive(a)
    <3> DEFINE s == IF ActiveThread(a) = NoAnalysis THEN "opening" ELSE "demotingRow"
    <3>1. /\ pc[a] = "demoting" /\ Move(a, s)
          /\ UNCHANGED <<saved, plan, began, index>>
      BY <2>7 DEF FindActive
    <3>2. s \in InSavepoint
      BY DEF InSavepoint
    <3> HIDE DEF s
    <3> QED
      BY <1>2, <3>1, <3>2 DEF InSavepoint
  <2>8. CASE Demote(a)
    BY <1>2, <2>8 DEF Demote, InSavepoint
  <2>9. CASE OpenThread(a)
    BY <1>2, <2>9 DEF OpenThread, InSavepoint
  <2>10. CASE Reresolve(a)
    BY <1>2, <2>10 DEF Reresolve, InSavepoint
  <2>11. CASE ConflictAgain(a)
    BY <1>7, <2>11 DEF ConflictAgain, Failed, InTx, InSavepoint
  <2>12. CASE Count(a)
    BY <2>12, IndexCount
  <2>13. CASE FindLatest(a)
    <3> DEFINE s == IF LatestOf(ThreadOf(a)) = NoAnalysis THEN "inserting" ELSE "clearingRow"
    <3>1. /\ pc[a] = "clearing" /\ Move(a, s)
          /\ UNCHANGED <<saved, plan, began, index>>
      BY <2>13 DEF FindLatest
    <3>2. s \in Counted
      BY DEF Counted
    <3> HIDE DEF s
    <3> QED
      BY <3>1, <3>2, IndexHold DEF Counted
  <2>14. CASE ClearLatest(a)
    BY <2>14, IndexHold DEF ClearLatest, Counted
  <2>15. CASE InsertAnalysis(a)
    BY <2>15, IndexHold DEF InsertAnalysis, Counted, Inserted
  <2>16. CASE InsertFails(a)
    BY <1>6, <2>16 DEF InsertFails, InTx, Storing
  <2>17. CASE TouchThread(a)
    BY <2>17, IndexHold DEF TouchThread, Counted, Inserted
  <2>18. CASE Commit(a)
    BY <2>18, IndexCommit
  <2> QED
    BY <1>9, <2>1, <2>2, <2>3, <2>4, <2>5, <2>6, <2>7, <2>8, <2>9, <2>10, <2>11,
       <2>12, <2>13, <2>14, <2>15, <2>16, <2>17, <2>18 DEF Execute
<1>10. CASE UNCHANGED vars
  BY <1>1, <1>10 DEF vars
<1> QED
  BY <1>3, <1>4, <1>8, <1>9, <1>10 DEF Next

-----------------------------------------------------------------------------
(* Conflicts *)

(* A committed thread that cannot stop a from opening its own: a is about  *)
(* to demote it, or sees it as no longer active.                           *)
OutOfTheWay(a, t) ==
  /\ pc[a] = "demotingRow" /\ View(a, t) = "active" => t = seen[a]
  /\ pc[a] = "opening" => View(a, t) # "active"

(* The threads of before its transaction are out of the way of an analysis *)
(* that opens a thread, and when it has been resolved again, so is one     *)
(* that was opened since: what it then clashes with is another one.        *)
RivalsInv ==
  \A a \in Analyses :
    /\ began[a] \subseteq saved
    /\ status[a] # "absent" => ThreadOf(a) = a
    /\ pc[a] = "waiting" => ~reresolved[a]
    /\ \A t \in began[a] : OutOfTheWay(a, t)
    /\ reresolved[a] => \E t \in OpenedSince(a) : OutOfTheWay(a, t)
    /\ pc[a] = "conflicted" => Cardinality(OpenedSince(a)) >= 2

(* What a step of a that stores nothing, or only a itself, does to others. *)
LEMMA RivalsStep ==
  ASSUME TypeOK, RivalsInv, NEW a \in Analyses, a \notin saved,
         saved' = saved \/ saved' = saved \cup {a},
         \A b \in Analyses \ {a} :
           /\ pc'[b] = pc[b] /\ began'[b] = began[b] /\ reresolved'[b] = reresolved[b]
           /\ seen'[b] = seen[b] /\ writes'[b] = writes[b] /\ plan'[b] = plan[b],
         \A t \in saved : status'[t] = "active" => status[t] = "active",
         \A t \in Analyses : status'[t] # "absent" => status[t] # "absent" \/ t = a,
         status'[a] # "absent" => ThreadOf(a)' = a,
         began'[a] \subseteq saved',
         pc'[a] = "waiting" => ~reresolved'[a],
         \A t \in began'[a] : OutOfTheWay(a, t)',
         reresolved'[a] => \E t \in OpenedSince(a)' : OutOfTheWay(a, t)',
         pc'[a] = "conflicted" => Cardinality(OpenedSince(a)') >= 2
  PROVE  RivalsInv'
<1>1. \A b \in Analyses \ {a} : ThreadOf(b)' = ThreadOf(b)
  BY DEF ThreadOf
<1>2. \A b \in saved : b \in Analyses \ {a}
  BY DEF TypeOK
<1> SUFFICES ASSUME NEW b \in Analyses \ {a}
             PROVE  /\ began'[b] \subseteq saved'
                    /\ status'[b] # "absent" => ThreadOf(b)' = b
                    /\ pc'[b] = "waiting" => ~reresolved'[b]
                    /\ \A t \in began'[b] : OutOfTheWay(b, t)'
                    /\ reresolved'[b] => \E t \in OpenedSince(b)' : OutOfTheWay(b, t)'
                    /\ pc'[b] = "conflicted" => Cardinality(OpenedSince(b)') >= 2
  BY DEF RivalsInv
<1>3. \A t \in saved : OutOfTheWay(b, t) => OutOfTheWay(b, t)'
  <2> SUFFICES ASSUME NEW t \in saved, OutOfTheWay(b, t) PROVE OutOfTheWay(b, t)'
    OBVIOUS
  <2>1. View(b, t)' = "active" => View(b, t) = "active"
    BY DEF View
  <2> QED BY <2>1 DEF OutOfTheWay
<1>4. OpenedSince(b) \subseteq OpenedSince(b)' /\ OpenedSince(b) \subseteq saved
  BY <1>1, <1>2 DEF OpenedSince
<1>5. pc[b] = "conflicted" => Cardinality(OpenedSince(b)') >= 2
  <2>1. OpenedSince(b)' \subseteq Analyses
    BY DEF OpenedSince, TypeOK
  <2>2. IsFiniteSet(OpenedSince(b)')
    BY <2>1, AnalysesAssumption, FS_Subset
  <2>3. Cardinality(OpenedSince(b)) <= Cardinality(OpenedSince(b)')
        /\ Cardinality(OpenedSince(b)) \in Nat /\ Cardinality(OpenedSince(b)') \in Nat
    BY <1>4, <2>2, FS_Subset, FS_CardinalityType
  <2> QED BY <2>3 DEF RivalsInv
<1>6. began'[b] \subseteq saved' /\ \A t \in began'[b] : OutOfTheWay(b, t)'
  BY <1>3 DEF RivalsInv
<1>7. reresolved'[b] => \E t \in OpenedSince(b)' : OutOfTheWay(b, t)'
  BY <1>3, <1>4 DEF RivalsInv
<1>8. status'[b] # "absent" => ThreadOf(b)' = b
  BY <1>1 DEF RivalsInv
<1>9. pc'[b] = "waiting" => ~reresolved'[b]
  BY DEF RivalsInv
<1> QED BY <1>5, <1>6, <1>7, <1>8, <1>9

(* Most statements leave the decision and the tables alone.                *)
LEMMA RivalsQuiet ==
  ASSUME TypeOK, ThreadsInv, RivalsInv, NEW a \in Analyses, a \notin saved,
         \A b \in Analyses \ {a} :
           /\ pc'[b] = pc[b] /\ seen'[b] = seen[b] /\ writes'[b] = writes[b]
           /\ plan'[b] = plan[b],
         pc'[a] \notin {"waiting", "demotingRow", "opening", "conflicted"},
         UNCHANGED <<status, saved, began, reresolved>>
  PROVE  RivalsInv'
<1>1. \A t : OutOfTheWay(a, t)'
  BY DEF OutOfTheWay
<1>2. \A b \in saved : b \in Analyses \ {a}
  BY DEF TypeOK
<1>3. OpenedSince(a)' = OpenedSince(a)
  BY <1>2 DEF OpenedSince, ThreadOf
<1>4. status[a] = "absent"
  BY DEF ThreadsInv, ThreadsOpenedBySaved
<1> QED BY <1>1, <1>3, <1>4, RivalsStep DEF RivalsInv

(* An active thread was opened by an analysis that is stored, and nothing  *)
(* makes a thread active again.                                            *)
LEMMA OpenerStored ==
  ASSUME TypeOK, ThreadsInv, RivalsInv, NEW t \in Analyses, status[t] # "absent"
  PROVE  t \in saved /\ ThreadOf(t) = t
BY DEF ThreadsInv, ThreadsOpenedBySaved, RivalsInv

LEMMA RivalsClash ==
  ASSUME TypeOK, ThreadsInv, RivalsInv, NEW a \in Analyses,
         pc[a] = "opening", OpeningClashes(a)
  PROVE  \E t \in OpenedSince(a) : View(a, t) = "active" /\ t \in Analyses
<1>1. PICK t \in Analyses : View(a, t) = "active"
  BY DEF OpeningClashes, ActiveThreads
<1>2. writes[a][t] # "active" 
  BY DEF ThreadsInv, WritesFit, InSavepoint
<1>3. status[t] = "active"
  BY <1>1, <1>2 DEF View
<1>4. t \in saved /\ ThreadOf(t) = t
  BY <1>3, OpenerStored
<1>5. t \notin began[a]
  BY <1>1 DEF RivalsInv, OutOfTheWay
<1> QED BY <1>1, <1>4, <1>5 DEF OpenedSince

LEMMA RivalsReresolve ==
  ASSUME TypeOK, ThreadsInv, RivalsInv, NEW a \in Analyses, Reresolve(a)
  PROVE  RivalsInv'
<1> USE DEF session, tables, request
<1>1. /\ pc[a] = "opening" /\ OpeningClashes(a)
      /\ pc' = [pc EXCEPT ![a] = "resolving"]
      /\ reresolved' = [reresolved EXCEPT ![a] = TRUE]
      /\ writes' = [writes EXCEPT ![a] = WritesAtSavepoint(a)]
      /\ UNCHANGED <<status, saved, began, plan, seen>>
  BY DEF Reresolve, Move
<1>2. /\ pc'[a] = "resolving"
      /\ \A b \in Analyses \ {a} :
           pc'[b] = pc[b] /\ writes'[b] = writes[b] /\ reresolved'[b] = reresolved[b]
  BY <1>1 DEF TypeOK
<1>3. a \notin saved /\ status[a] = "absent"
  BY <1>1 DEF ThreadsInv, ThreadsOpenedBySaved
<1>4. \A t : OutOfTheWay(a, t)'
  BY <1>2 DEF OutOfTheWay
<1>5. OpenedSince(a)' = OpenedSince(a)
  BY <1>1 DEF OpenedSince, ThreadOf
<1>6. \E t \in OpenedSince(a) : View(a, t) = "active"
  BY <1>1, RivalsClash
<1> QED BY <1>1, <1>2, <1>3, <1>4, <1>5, <1>6, RivalsStep DEF RivalsInv

LEMMA RivalsConflict ==
  ASSUME TypeOK, ThreadsInv, RivalsInv, NEW a \in Analyses, ConflictAgain(a)
  PROVE  RivalsInv'
<1> USE DEF request
<1>1. /\ pc[a] = "opening" /\ OpeningClashes(a) /\ reresolved[a]
      /\ pc' = [pc EXCEPT ![a] = "conflicted"]
      /\ seen' = [seen EXCEPT ![a] = NoAnalysis]
      /\ writes' = [writes EXCEPT ![a] = Unwritten]
      /\ plan' = [plan EXCEPT ![a] = NoPlan]
      /\ UNCHANGED <<saved, began, reresolved>>
  BY DEF ConflictAgain, Fail, Forgotten, Move
<1>2. status' = status
  BY FailKeepsThreads DEF ConflictAgain
<1>3. /\ pc'[a] = "conflicted"
      /\ \A b \in Analyses \ {a} :
           /\ pc'[b] = pc[b] /\ writes'[b] = writes[b] /\ seen'[b] = seen[b]
           /\ plan'[b] = plan[b]
  BY <1>1 DEF TypeOK
<1>4. a \notin saved /\ status[a] = "absent"
  BY <1>1 DEF ThreadsInv, ThreadsOpenedBySaved
<1>5. \A t : OutOfTheWay(a, t)'
  BY <1>3 DEF OutOfTheWay
<1>6. \A b \in saved : b \in Analyses \ {a}
  BY <1>4 DEF TypeOK
<1>7. OpenedSince(a)' = OpenedSince(a)
  BY <1>1, <1>3, <1>6 DEF OpenedSince, ThreadOf
<1>8. PICK t \in OpenedSince(a) : View(a, t) = "active"
  BY <1>1, RivalsClash
<1>9. PICK u \in OpenedSince(a) : View(a, u) # "active"
  BY <1>1 DEF RivalsInv, OutOfTheWay
<1>10. Cardinality(OpenedSince(a)) >= 2
  <2>1. IsFiniteSet(OpenedSince(a))
    <3>1. OpenedSince(a) \subseteq Analyses
      BY DEF OpenedSince, TypeOK
    <3> QED BY <3>1, AnalysesAssumption, FS_Subset
  <2>2. {t, u} \subseteq OpenedSince(a)
    OBVIOUS
  <2>3. IsFiniteSet({t, u}) /\ Cardinality({t, u}) = 2
    <3>1. t # u /\ {t, u} = {t} \cup {u} /\ u \notin {t}
      BY <1>8, <1>9
    <3>2. IsFiniteSet({t}) /\ Cardinality({t}) = 1
      BY FS_Singleton
    <3> QED BY <3>1, <3>2, FS_AddElement
  <2>4. Cardinality({t, u}) <= Cardinality(OpenedSince(a))
        /\ Cardinality(OpenedSince(a)) \in Nat
    BY <2>1, <2>2, FS_Subset, FS_CardinalityType
  <2> QED BY <2>3, <2>4
<1> QED BY <1>1, <1>2, <1>3, <1>4, <1>5, <1>7, <1>9, <1>10, RivalsStep DEF RivalsInv

(* The SELECT finds the active thread, of which there is one at most.      *)
LEMMA RivalsFindActive ==
  ASSUME TypeOK, ThreadsInv, RivalsInv, NEW a \in Analyses, FindActive(a)
  PROVE  RivalsInv'
<1> USE DEF session, tables, request
<1> DEFINE s == IF ActiveThread(a) = NoAnalysis THEN "opening" ELSE "demotingRow"
<1>1. /\ pc[a] = "demoting" /\ pc' = [pc EXCEPT ![a] = s]
      /\ seen' = [seen EXCEPT ![a] = ActiveThread(a)]
      /\ UNCHANGED <<status, saved, began, reresolved, writes, plan>>
  BY DEF FindActive, Move
<1>2. /\ pc'[a] = s /\ seen'[a] = ActiveThread(a)
      /\ \A b \in Analyses \ {a} : pc'[b] = pc[b] /\ seen'[b] = seen[b]
  BY <1>1 DEF TypeOK
<1>3. a \notin saved /\ status[a] = "absent"
  BY <1>1 DEF ThreadsInv, ThreadsOpenedBySaved
<1>4. \A t \in Analyses : View(a, t) = "active" => status[t] = "active"
  BY <1>1 DEF View, ThreadsInv, WritesFit, InSavepoint
<1>5. \A t \in Analyses : OutOfTheWay(a, t)'
  <2> SUFFICES ASSUME NEW t \in Analyses, View(a, t) = "active"
               PROVE  t = ActiveThread(a) /\ ActiveThread(a) # NoAnalysis
    BY <1>1, <1>2 DEF OutOfTheWay, View
  <2>1. View(a, ActiveThread(a)) = "active" /\ ActiveThread(a) \in Analyses
        /\ ActiveThread(a) # NoAnalysis
    BY ActiveThreadTyped
  <2> QED BY <1>4, <2>1 DEF ThreadsInv, OneActiveThread
<1>6. OpenedSince(a)' = OpenedSince(a) /\ OpenedSince(a) \subseteq Analyses
      /\ began[a] \subseteq Analyses
  BY <1>1 DEF OpenedSince, ThreadOf, TypeOK
<1>7. pc'[a] # "waiting" /\ pc'[a] # "conflicted"
  BY <1>2
<1> HIDE DEF s
<1> QED BY <1>1, <1>2, <1>3, <1>5, <1>6, <1>7, RivalsStep DEF RivalsInv

LEMMA RivalsDemote ==
  ASSUME TypeOK, ThreadsInv, RivalsInv, NEW a \in Analyses, Demote(a)
  PROVE  RivalsInv'
<1> USE DEF session, tables, request
<1>1. /\ pc[a] = "demotingRow" /\ pc' = [pc EXCEPT ![a] = "opening"]
      /\ seen' = [seen EXCEPT ![a] = NoAnalysis]
      /\ IF View(a, seen[a]) = "active" THEN Write(a, seen[a], "idle") ELSE UNCHANGED writes
      /\ UNCHANGED <<status, saved, began, reresolved, plan>>
  BY DEF Demote, Move
<1>2. seen[a] \in Analyses
  BY <1>1 DEF ThreadsInv, TargetsExist, TypeOK
<1>3. /\ pc'[a] = "opening"
      /\ \A b \in Analyses \ {a} : pc'[b] = pc[b] /\ seen'[b] = seen[b]
  BY <1>1 DEF TypeOK
<1>4. \A b \in Analyses \ {a} : writes'[b] = writes[b]
  BY <1>1, <1>2 DEF TypeOK, Write
<1>5. a \notin saved /\ status[a] = "absent"
  BY <1>1 DEF ThreadsInv, ThreadsOpenedBySaved
<1>6. \A t \in Analyses : OutOfTheWay(a, t) => OutOfTheWay(a, t)'
  <2> SUFFICES ASSUME NEW t \in Analyses, OutOfTheWay(a, t), View(a, t)' = "active"
               PROVE  FALSE
    BY <1>3 DEF OutOfTheWay
  <2>1. CASE View(a, seen[a]) = "active"
    <3>1. /\ writes'[a][seen[a]] = "idle"
          /\ \A u \in Analyses \ {seen[a]} : writes'[a][u] = writes[a][u]
      BY <1>1, <1>2, <2>1 DEF Write, TypeOK
    <3> QED BY <1>1, <1>2, <3>1 DEF OutOfTheWay, View
  <2>2. CASE View(a, seen[a]) # "active"
    BY <1>1, <2>2 DEF OutOfTheWay, View
  <2> QED BY <2>1, <2>2
<1>7. OpenedSince(a)' = OpenedSince(a) /\ OpenedSince(a) \subseteq Analyses
      /\ began[a] \subseteq Analyses
  BY <1>1 DEF OpenedSince, ThreadOf, TypeOK
<1> QED BY <1>1, <1>3, <1>4, <1>5, <1>6, <1>7, RivalsStep DEF RivalsInv

LEMMA RivalsStart ==
  ASSUME TypeOK, ThreadsInv, RivalsInv, NEW a \in Analyses, Start(a)
  PROVE  RivalsInv'
<1>1. /\ pc[a] = "waiting" /\ pc'[a] \in {"inferring", "summarising"} /\ began'[a] = saved
      /\ \A b \in Analyses \ {a} : pc'[b] = pc[b] /\ began'[b] = began[b]
      /\ UNCHANGED <<status, saved, reresolved, writes, plan, seen>>
  BY DEF Start, Move, TypeOK, tables, work
<1>2. a \notin saved /\ status[a] = "absent" /\ ~reresolved[a]
  BY <1>1 DEF ThreadsInv, ThreadsOpenedBySaved, RivalsInv
<1>3. \A t : OutOfTheWay(a, t)'
  BY <1>1 DEF OutOfTheWay
<1> QED BY <1>1, <1>2, <1>3, RivalsStep DEF RivalsInv

(* A commit makes no other thread active than the one it opens.            *)
LEMMA RivalsCommit ==
  ASSUME TypeOK, ThreadsInv, RivalsInv, NEW a \in Analyses, Commit(a)
  PROVE  RivalsInv'
<1> USE DEF request
<1>1. /\ pc[a] = "committing" /\ pc' = [pc EXCEPT ![a] = "stored"]
      /\ status' = [t \in Analyses |-> View(a, t)]
      /\ saved' = saved \cup {a}
      /\ seen' = [seen EXCEPT ![a] = NoAnalysis]
      /\ writes' = [writes EXCEPT ![a] = Unwritten]
      /\ UNCHANGED <<began, reresolved, plan>>
  BY DEF Commit, Forgotten, Move
<1>2. /\ pc'[a] = "stored"
      /\ \A b \in Analyses \ {a} :
           pc'[b] = pc[b] /\ seen'[b] = seen[b] /\ writes'[b] = writes[b]
  BY <1>1 DEF TypeOK
<1>3. a \notin saved /\ status[a] = "absent" /\ pc[a] \in Storing
  BY <1>1 DEF ThreadsInv, ThreadsOpenedBySaved, Storing, Inserted
<1>4. \A t \in saved : status'[t] = "active" => status[t] = "active"
  <2> SUFFICES ASSUME NEW t \in saved, View(a, t) = "active" PROVE status[t] = "active"
    BY <1>1 DEF TypeOK
  <2>1. t \in Analyses /\ t # a
    BY <1>3 DEF TypeOK
  <2> QED BY <1>3, <2>1 DEF ThreadsInv, WritesFit, Wrote, View
<1>5. \A t \in Analyses : status'[t] # "absent" => status[t] # "absent" \/ t = a
  BY <1>1 DEF ThreadsInv, WritesFit, Wrote, View
<1>6. status'[a] # "absent" => ThreadOf(a)' = a
  <2> SUFFICES ASSUME View(a, a) # "absent" PROVE plan[a].action # "CONTINUE"
    BY <1>1 DEF ThreadOf
  <2>1. Wrote(a, a) /\ writes[a][a] # "absent"
    BY <1>3 DEF View, Wrote, ThreadsInv, WritesFit
  <2>2. Opened(a)
    BY <1>3, <2>1 DEF ThreadsInv, WritesFit
  <2> QED BY <2>2 DEF Opened
<1>7. \A t : OutOfTheWay(a, t)'
  BY <1>2 DEF OutOfTheWay
<1>8. OpenedSince(a) \subseteq OpenedSince(a)'
  BY <1>1 DEF OpenedSince, ThreadOf
<1> QED BY <1>1, <1>2, <1>3, <1>4, <1>5, <1>6, <1>7, <1>8, RivalsStep DEF RivalsInv

LEMMA RivalsInit == Init => RivalsInv
<1> SUFFICES ASSUME Init PROVE RivalsInv
  OBVIOUS
<1>1. \A a \in Analyses : /\ pc[a] = "waiting" /\ began[a] = {} /\ reresolved[a] = FALSE
                          /\ status[a] = "absent"
  BY DEF Init
<1> QED BY <1>1 DEF RivalsInv

LEMMA RivalsInvStep == TypeOK /\ ThreadsInv /\ RivalsInv /\ [Next]_vars => RivalsInv'
<1> SUFFICES ASSUME TypeOK, ThreadsInv, RivalsInv, [Next]_vars PROVE RivalsInv'
  OBVIOUS
<1> USE DEF session, tables, request, work
<1>1. ASSUME UNCHANGED <<status, saved, pc, plan, began, reresolved, seen, writes>>
      PROVE  RivalsInv'
  BY <1>1 DEF RivalsInv, OutOfTheWay, OpenedSince, ThreadOf, View
<1>2. ASSUME NEW a \in Analyses, NEW s, Move(a, s), pc[a] \in InTx,
             s \notin {"waiting", "demotingRow", "opening", "conflicted"},
             \A b \in Analyses \ {a} :
               seen'[b] = seen[b] /\ writes'[b] = writes[b] /\ plan'[b] = plan[b],
             UNCHANGED <<status, saved, began, reresolved>>
      PROVE  RivalsInv'
  <2>1. a \notin saved
    BY <1>2, CountedSteps DEF ThreadsInv, ThreadsOpenedBySaved
  <2>2. pc'[a] = s /\ \A b \in Analyses \ {a} : pc'[b] = pc[b]
    BY <1>2 DEF Move, TypeOK
  <2> QED BY <1>2, <2>1, <2>2, RivalsQuiet
<1>3. ASSUME NEW a \in Analyses, pc[a] \in InTx, RollBack(a) PROVE RivalsInv'
  BY <1>2, <1>3 DEF RollBack, Forgotten, TypeOK
<1>4. ASSUME NEW a \in Analyses, NEW r \in {"failed", "untargeted"}, pc[a] \in InTx, Fail(a, r)
      PROVE  RivalsInv'
  <2>1. status' = status
    BY <1>4, FailKeepsThreads
  <2> QED BY <1>2, <1>4, <2>1 DEF Fail, Forgotten, TypeOK
<1>5. ASSUME NEW a \in Analyses, Execute(a) PROVE RivalsInv'
  <2> USE <1>5
  <2>1. CASE SaveSummary(a) \/ Infer(a)
    BY <1>2, <2>1 DEF SaveSummary, Infer, InTx
  <2>2. CASE InferenceFails(a) \/ RetireNothing(a)
    BY <1>4, <2>2 DEF InferenceFails, RetireNothing, InTx, InSavepoint
  <2>3. CASE Resolve(a)
    <3> DEFINE d == Decision(a, ActiveThread(a))
    <3>1. FirstStep[d] \in {"counting", "demoting", "retiring"}
      BY ActiveThreadTyped, DecisionTyped, FirstStepTyped
    <3>2. /\ pc[a] = "resolving" /\ Move(a, FirstStep[d])
          /\ \A b \in Analyses \ {a} : plan'[b] = plan[b]
          /\ UNCHANGED <<status, saved, began, reresolved, seen, writes>>
      BY <2>3 DEF Resolve, TypeOK
    <3> HIDE DEF d
    <3> QED BY <1>2, <3>1, <3>2 DEF InTx
  <2>4. CASE Retire(a) \/ OpenThread(a) \/ TouchThread(a)
    <3>1. \A b \in Analyses \ {a} : writes'[b] = writes[b]
      BY <2>4 DEF Retire, OpenThread, TouchThread, Write, TypeOK
    <3> QED BY <1>2, <2>4, <3>1
            DEF Retire, OpenThread, TouchThread, InTx, InSavepoint, Storing, Inserted
  <2>5. CASE FindActive(a)
    BY <2>5, RivalsFindActive
  <2>6. CASE Demote(a)
    BY <2>6, RivalsDemote
  <2>7. CASE Reresolve(a)
    BY <2>7, RivalsReresolve
  <2>8. CASE ConflictAgain(a)
    BY <2>8, RivalsConflict
  <2>9. CASE Count(a) \/ InsertAnalysis(a)
    BY <1>2, <2>9 DEF Count, InsertAnalysis, InTx, Storing
  <2>10. CASE FindLatest(a)
    <3> DEFINE s == IF LatestOf(ThreadOf(a)) = NoAnalysis THEN "inserting" ELSE "clearingRow"
    <3>1. /\ pc[a] = "clearing" /\ Move(a, s)
          /\ \A b \in Analyses \ {a} : seen'[b] = seen[b]
          /\ UNCHANGED <<status, saved, began, reresolved, plan, writes>>
      BY <2>10 DEF FindLatest, TypeOK
    <3>2. s \notin {"waiting", "demotingRow", "opening", "conflicted"}
      OBVIOUS
    <3> HIDE DEF s
    <3> QED BY <1>2, <3>1, <3>2 DEF InTx, Storing
  <2>11. CASE ClearLatest(a)
    <3>1. \A b \in Analyses \ {a} : seen'[b] = seen[b]
      BY <2>11 DEF ClearLatest, TypeOK
    <3> QED BY <1>2, <2>11, <3>1 DEF ClearLatest, InTx, Storing
  <2>12. CASE InsertFails(a)
    BY <1>3, <2>12 DEF InsertFails, InTx, Storing
  <2>13. CASE Commit(a)
    BY <2>13, RivalsCommit
  <2> QED
    BY <1>5, <2>1, <2>2, <2>3, <2>4, <2>5, <2>6, <2>7, <2>8, <2>9, <2>10, <2>11,
       <2>12, <2>13 DEF Execute
<1>6. CASE CloseSession \/ RequestSummary \/ \E t \in Analyses : GoStale(t)
  BY <1>1, <1>6 DEF CloseSession, RequestSummary, GoStale
<1>7. ASSUME NEW a \in Analyses, Start(a) \/ Lose(a) PROVE RivalsInv'
  BY <1>3, <1>7, RivalsStart DEF Lose
<1>8. CASE UNCHANGED vars
  BY <1>1, <1>8 DEF vars
<1> QED
  BY <1>5, <1>6, <1>7, <1>8 DEF Next

-----------------------------------------------------------------------------
(* Theorems *)

LEMMA Invariants == Spec => [](TypeOK /\ ThreadsInv)
<1>1. Init => TypeOK /\ ThreadsInv
  BY TypeInit, ThreadsInvInit
<1>2. TypeOK /\ ThreadsInv /\ [Next]_vars => (TypeOK /\ ThreadsInv)'
  BY TypeStep, ThreadsInvStep
<1> QED
  BY <1>1, <1>2, PTL DEF Spec

(* The tables of the session and the transactions keep their types.        *)
THEOREM ThreadTypes == Spec => []TypeOK
BY Invariants, PTL

(* Every session with a stored analysis has exactly one active thread, for *)
(* any number of concurrent transactions and whatever happens to them.     *)
THEOREM OneActive == Spec => []OneActiveThread
<1>1. ThreadsInv => OneActiveThread
  BY DEF ThreadsInv
<1> QED
  BY Invariants, <1>1, PTL

(* In every thread that holds analyses the flag is_latest and the reference *)
(* last_analysis_id agree on one row, for any number of concurrent         *)
(* transactions and whatever happens to them.                              *)
THEOREM LatestEverywhere == Spec => []LatestIsLast
<1>1. Init => LatestInv
  BY LatestInit
<1>2. TypeOK /\ ThreadsInv /\ LatestInv /\ [Next]_vars => LatestInv'
  BY LatestStep
<1>3. LatestInv => LatestIsLast
  BY DEF LatestInv
<1> QED
  BY Invariants, <1>1, <1>2, <1>3, PTL DEF Spec

(* A thread changes its status only in a step that stores an analysis: a   *)
(* transaction that fails, and still commits to record its failure, leaves *)
(* no trace in the threads.                                                *)
THEOREM FailuresLeaveNoTrace == Spec => FailureLeavesThreads
<1>1. TypeOK /\ ThreadsInv /\ [Next]_vars => [status' # status => saved' # saved]_vars
  <2> SUFFICES ASSUME TypeOK, ThreadsInv, [Next]_vars, saved' = saved
               PROVE  status' = status
    OBVIOUS
  <2> USE DEF session, tables, request, work
  <2>1. CASE CloseSession \/ RequestSummary \/ \E t \in Analyses : GoStale(t)
    BY <2>1 DEF CloseSession, RequestSummary, GoStale
  <2>2. ASSUME NEW a \in Analyses, Start(a) \/ Lose(a) PROVE status' = status
    BY <2>2 DEF Start, Lose, RollBack
  <2>3. ASSUME NEW a \in Analyses, Execute(a) PROVE status' = status
    <3>1. CASE InferenceFails(a) \/ RetireNothing(a) \/ ConflictAgain(a)
      BY <2>3, <3>1, FailKeepsThreads DEF InferenceFails, RetireNothing, ConflictAgain
    <3>2. CASE Commit(a)
      BY <2>3, <3>2 DEF Commit, ThreadsInv, ThreadsOpenedBySaved
    <3>3. CASE InsertFails(a)
      BY <3>3 DEF InsertFails, RollBack
    <3> QED
      BY <2>3, <3>1, <3>2, <3>3 DEF Execute, SaveSummary, Infer, Resolve, Retire,
         FindActive, Demote, OpenThread, Reresolve, Count, FindLatest, ClearLatest,
         InsertAnalysis, TouchThread
  <2> QED
    BY <2>1, <2>2, <2>3 DEF Next, vars
<1> QED
  BY Invariants, <1>1, PTL DEF Spec, FailureLeavesThreads

(* An analysis that begins after another one of its thread was stored gets *)
(* a larger continuation index, however many others are stored meanwhile;  *)
(* only overlapping ones can share one.                                    *)
THEOREM IndexesFollow == Spec => []IndexFollowsEarlier
<1>1. Init => IndexInv
  BY IndexInit
<1>2. TypeOK /\ ThreadsInv /\ IndexInv /\ [Next]_vars => IndexInv'
  BY IndexStep
<1>3. TypeOK /\ ThreadsInv /\ IndexInv => IndexFollowsEarlier
  BY DEF ThreadsInv, ThreadsOpenedBySaved, IndexInv, IndexFollowsEarlier, TypeOK
<1> QED
  BY Invariants, <1>1, <1>2, <1>3, PTL DEF Spec

(* A conflict is never the analysis's own doing: one that is resolved      *)
(* again has met a thread opened since it began, and one that gives up has *)
(* met two of them, for any number of concurrent transactions              *)
(* (resolve_thread_for_analysis).                                          *)
THEOREM ConflictsHaveRivals == Spec => []ConflictsNeedRivals
<1>1. Init => RivalsInv
  BY RivalsInit
<1>2. TypeOK /\ ThreadsInv /\ RivalsInv /\ [Next]_vars => RivalsInv'
  BY RivalsInvStep
<1>3. RivalsInv => ConflictsNeedRivals
  BY DEF RivalsInv, ConflictsNeedRivals
<1> QED
  BY Invariants, <1>1, <1>2, <1>3, PTL DEF Spec

=============================================================================
