---------------------------- MODULE AnalysisThreads ----------------------------
(***************************************************************************)
(* Where an analysis is stored: the threads of one dream session, the      *)
(* decision which thread an analysis joins, and the transaction that       *)
(* applies the decision and inserts the row.  Every query of this code is  *)
(* restricted to one session, so one session is modelled.                  *)
(*                                                                         *)
(* Transactions run at READ COMMITTED.  An action is one SQL statement; an *)
(* UPDATE whose row may be locked by another transaction is two: it picks  *)
(* the rows it sees (`seen'), waits, and then tests its condition again on *)
(* the committed version.  A unique index makes an INSERT wait for another *)
(* uncommitted row of the same key and fail against a committed one.       *)
(*                                                                         *)
(* A transaction stores at most one analysis and opens at most one thread: *)
(* an analysis, the transaction that makes it and the thread it opens have *)
(* the same name.                                                          *)
(***************************************************************************)
EXTENDS Integers, FiniteSets

CONSTANTS
  Analyses,     \* executions of the pipeline for the session
  Manual,       \* those run inside POST /sessions/{id}/analyze; others by jobs
  NoAnalysis,   \* NULL
  Modes,        \* the modes requested: "auto", "new", "continue"
  MaxInFlight   \* bound: transactions open at the same time

ASSUME AnalysesAssumption ==
  /\ IsFiniteSet(Analyses)
  /\ Manual \subseteq Analyses
  /\ NoAnalysis \notin Analyses
ASSUME ModesAssumption == Modes \subseteq {"auto", "new", "continue"}
ASSUME InFlightAssumption == MaxInFlight \in Nat

VARIABLES
  sessionOpen,   \* dream_sessions.status is "active"
  summarySaved,  \* the session_summaries row is committed
  summaryLock,   \* the transaction with the row inserted or updated
  status,        \* committed analysis_threads.status
  stale,         \* active threads without activity for INACTIVITY_THRESHOLD
  lastAnalysis,  \* committed analysis_threads.last_analysis_id
  saved,         \* committed session_analyses rows
  latest,        \* those with is_latest
  pc,            \* the next statement of each transaction
  mode,          \* the mode requested
  began,         \* the rows committed when the transaction began
  sessionSeen,   \* the session object in its identity map says "active"
  plan,          \* the DecisionDTO: action and target thread
  reresolved,    \* reresolve_used
  seen,          \* the row the running UPDATE has picked
  writes,        \* thread statuses written, not committed: the row locks
  cleared,       \* the row whose is_latest it has cleared, not committed
  index          \* continuation_index computed for the analysis

session == <<sessionOpen, summarySaved, summaryLock>>
tables == <<status, stale, lastAnalysis, saved, latest>>
request == <<mode, began, sessionSeen>>
work == <<plan, reresolved, seen, writes, cleared, index>>
vars == <<session, tables, request, work, pc>>

Statuses == {"absent", "active", "idle", "closed"}

(* "unwritten" leaves a row as committed. *)
Unwritten == [t \in Analyses |-> "unwritten"]

Actions == {"CONTINUE", "CREATE_NEW", "MARK_IDLE", "CLOSE_AND_CREATE_NEW"}

NoPlan == [action |-> "NONE", target |-> NoAnalysis]

(* The statements of a transaction, in the order of the code:              *)
(*   summarising            INSERT of the session summary                  *)
(*   inferring, resolving   the LLM call; the thread snapshot              *)
(*   retiring               MARK_IDLE or CLOSE_THREAD of the target        *)
(*   demoting, demotingRow, opening   create_thread                        *)
(*   counting               continuation_index                             *)
(*   clearing, clearingRow, inserting, touching   the persistence phase    *)
(*   committing                                                            *)
InSavepoint == {"retiring", "demoting", "demotingRow", "opening"}
Inserted == {"touching", "committing"}
Storing == {"counting", "clearing", "clearingRow", "inserting"} \cup Inserted
InTx == {"summarising", "inferring", "resolving"} \cup InSavepoint \cup Storing

(* How it ended: stored; rolled back; or failed with the error recorded.   *)
Failed == {"failed", "conflicted", "untargeted"}
Ended == {"stored", "undone"} \cup Failed
Steps == {"waiting"} \cup InTx \cup Ended

InFlight == {a \in Analyses : pc[a] \in InTx}

(* The thread of an analysis, from its decision on. *)
ThreadOf(a) == IF plan[a].action = "CONTINUE" THEN plan[a].target ELSE a

RowsOf(t) == {r \in saved : ThreadOf(r) = t}

(* The status of thread t as transaction a reads it. *)
View(a, t) == IF writes[a][t] = "unwritten" THEN status[t] ELSE writes[a][t]

(* The threads a SELECT of the active thread may return to a. *)
ActiveThreads(a) == {t \in Analyses : View(a, t) = "active"}

First(S) == IF S = {} THEN NoAnalysis ELSE CHOOSE t \in S : TRUE

(* No other transaction holds the lock of thread row t. *)
ThreadFree(a, t) ==
  \A b \in Analyses \ {a} : writes[b][t] = "unwritten"

(* No other transaction holds the lock of analysis row r. *)
RowFree(a, r) == \A b \in Analyses \ {a} : cleared[b] # r

Move(a, step) == pc' = [pc EXCEPT ![a] = step]

Init ==
  /\ sessionOpen = TRUE
  /\ summarySaved = FALSE
  /\ summaryLock = NoAnalysis
  /\ status = [t \in Analyses |-> "absent"]
  /\ stale = {}
  /\ lastAnalysis = [t \in Analyses |-> NoAnalysis]
  /\ saved = {}
  /\ latest = {}
  /\ pc = [a \in Analyses |-> "waiting"]
  /\ mode = [a \in Analyses |-> "auto"]
  /\ began = [a \in Analyses |-> {}]
  /\ sessionSeen = [a \in Analyses |-> TRUE]
  /\ plan = [a \in Analyses |-> NoPlan]
  /\ reresolved = [a \in Analyses |-> FALSE]
  /\ seen = [a \in Analyses |-> NoAnalysis]
  /\ writes = [a \in Analyses |-> Unwritten]
  /\ cleared = [a \in Analyses |-> NoAnalysis]
  /\ index = [a \in Analyses |-> 0]

-----------------------------------------------------------------------------
(* Around the analyses *)

(* A message of the user finds the session inactive for 72 hours and       *)
(* closes it (its successor is another session).                           *)
CloseSession ==
  /\ sessionOpen
  /\ sessionOpen' = FALSE
  /\ UNCHANGED <<summarySaved, summaryLock, tables, request, work, pc>>

(* GET /sessions/{id}/summary builds and saves the summary if there is none. *)
RequestSummary ==
  /\ ~summarySaved
  /\ summaryLock = NoAnalysis
  /\ summarySaved' = TRUE
  /\ UNCHANGED <<sessionOpen, summaryLock, tables, request, work, pc>>

(* 72 hours pass without activity in the active thread t.  No transaction  *)
(* stays open that long, so none began before the last activity of t.      *)
GoStale(t) ==
  /\ status[t] = "active"
  /\ t \notin stale
  /\ \A a \in InFlight : RowsOf(t) \subseteq began[a]
  /\ stale' = stale \cup {t}
  /\ UNCHANGED <<session, status, lastAnalysis, saved, latest, request, work, pc>>

-----------------------------------------------------------------------------
(* How a transaction ends *)

(* Mutation: the transaction is left open, with its locks. *)
LeftOpen(a) == UNCHANGED <<seen, writes, cleared>>

Forgotten(a) ==
  /\ seen' = [seen EXCEPT ![a] = NoAnalysis]
  /\ writes' = [writes EXCEPT ![a] = Unwritten]
  /\ cleared' = [cleared EXCEPT ![a] = NoAnalysis]

SummaryReleased(a, commits) ==
  /\ summarySaved' = (summarySaved \/ (commits /\ summaryLock = a))
  /\ summaryLock' = IF summaryLock = a THEN NoAnalysis ELSE summaryLock
  /\ UNCHANGED sessionOpen

(* Mutation: the session commits whatever has happened. *)
CommittedAnyway(a) ==
  /\ Move(a, "undone")
  /\ Forgotten(a)
  /\ SummaryReleased(a, TRUE)
  /\ status' = [t \in Analyses |-> View(a, t)]
  /\ UNCHANGED <<plan, index, reresolved, stale, lastAnalysis, saved, latest, request>>

(* Rollback of the whole transaction: a crash, a lost connection, a job    *)
(* that is no longer RUNNING, or a failed flush outside the savepoint.     *)
RollBack(a) ==
  /\ Move(a, "undone")
  /\ Forgotten(a)
  /\ SummaryReleased(a, FALSE)
  /\ plan' = [plan EXCEPT ![a] = NoPlan]
  /\ index' = [index EXCEPT ![a] = 0]
  /\ UNCHANGED <<reresolved, tables, request>>

(* The writes of a left after ROLLBACK TO SAVEPOINT: a has written no      *)
(* thread row before the savepoint.                                        *)
WritesAtSavepoint(a) == Unwritten

(* The pipeline raises: the executor records FAILED, or requeues, in the   *)
(* same transaction and commits; the endpoint lets get_session roll back.  *)
Fail(a, reason) ==
  LET left == WritesAtSavepoint(a) IN
  /\ Move(a, reason)
  /\ status' = IF a \in Manual THEN status
               ELSE [t \in Analyses |->
                       IF left[t] = "unwritten" THEN status[t] ELSE left[t]]
  /\ Forgotten(a)
  /\ SummaryReleased(a, a \notin Manual)
  /\ plan' = [plan EXCEPT ![a] = NoPlan]
  /\ UNCHANGED <<reresolved, index, stale, lastAnalysis, saved, latest, request>>

-----------------------------------------------------------------------------
(* Before the LLM call *)

(* The session is read once; later SELECTs return the same object from the *)
(* identity map, so the decision uses the status read here.                *)
Start(a) ==
  /\ pc[a] = "waiting"
  /\ Cardinality(InFlight) < MaxInFlight
  /\ sessionSeen' = [sessionSeen EXCEPT ![a] = sessionOpen]
  /\ began' = [began EXCEPT ![a] = saved]
  /\ \E m \in Modes : mode' = [mode EXCEPT ![a] = m]
  /\ Move(a, IF summarySaved THEN "inferring" ELSE "summarising")
  /\ UNCHANGED <<session, tables, work>>

(* INSERT ... ON CONFLICT DO UPDATE: waits for another writer of the row,  *)
(* and then holds the row to the end of the transaction.                   *)
SaveSummary(a) ==
  /\ pc[a] = "summarising"
  /\ summaryLock = NoAnalysis
  /\ summaryLock' = a
  /\ Move(a, "inferring")
  /\ UNCHANGED <<sessionOpen, summarySaved, tables, request, work>>

Infer(a) ==
  /\ pc[a] = "inferring"
  /\ Move(a, "resolving")
  /\ UNCHANGED <<session, tables, request, work>>

(* The provider, the parser or the contract rejects the call. *)
InferenceFails(a) ==
  /\ pc[a] = "inferring"
  /\ Fail(a, "failed")

-----------------------------------------------------------------------------
(* The decision, and the transition it stands for *)

ActiveThread(a) == First(ActiveThreads(a))

Decision(a, thread) ==
  CASE ~sessionSeen[a] -> "CLOSE_AND_CREATE_NEW"
    [] sessionSeen[a] /\ thread = NoAnalysis -> "CREATE_NEW"
    [] sessionSeen[a] /\ thread # NoAnalysis /\ thread \in stale -> "MARK_IDLE"
    [] OTHER -> IF mode[a] = "new" THEN "CREATE_NEW" ELSE "CONTINUE"

(* The first command of each action; the last one is CREATE_NEW or CONTINUE. *)
FirstStep == [CONTINUE |-> "counting", CREATE_NEW |-> "demoting",
              MARK_IDLE |-> "retiring", CLOSE_AND_CREATE_NEW |-> "retiring"]

Resolve(a) ==
  LET thread == ActiveThread(a)
      action == Decision(a, thread)
  IN /\ pc[a] = "resolving"
     /\ plan' = [plan EXCEPT ![a] = [action |-> action, target |-> thread]]
     /\ Move(a, FirstStep[action])
     /\ UNCHANGED <<session, tables, request, reresolved, seen, writes, cleared, index>>

Write(a, t, value) == writes' = [writes EXCEPT ![a][t] = value]

RetiredStatus(action) == IF action = "MARK_IDLE" THEN "idle" ELSE "closed"

(* mark_idle and close_thread: UPDATE by id, whatever the status is now.   *)
Retire(a) ==
  LET t == plan[a].target IN
  /\ pc[a] = "retiring"
  /\ t # NoAnalysis
  /\ ThreadFree(a, t)
  /\ Write(a, t, RetiredStatus(plan[a].action))
  /\ Move(a, "demoting")
  /\ UNCHANGED <<session, tables, request, plan, reresolved, seen, cleared, index>>

(* CLOSE_THREAD raises ValueError when the session has no active thread.   *)
RetireNothing(a) ==
  /\ pc[a] = "retiring"
  /\ plan[a].target = NoAnalysis
  /\ Fail(a, "untargeted")

(* Mutation: create_thread without its UPDATE. *)
FindNothing(a) ==
  /\ pc[a] = "demoting"
  /\ Move(a, "opening")
  /\ UNCHANGED <<session, tables, request, work>>

(* create_thread, first statement: UPDATE of the active thread to idle. *)
FindActive(a) ==
  /\ pc[a] = "demoting"
  /\ seen' = [seen EXCEPT ![a] = ActiveThread(a)]
  /\ Move(a, IF ActiveThread(a) = NoAnalysis THEN "opening" ELSE "demotingRow")
  /\ UNCHANGED <<session, tables, request, plan, reresolved, writes, cleared, index>>

Demote(a) ==
  LET t == seen[a] IN
  /\ pc[a] = "demotingRow"
  /\ ThreadFree(a, t)
  /\ IF View(a, t) = "active" THEN Write(a, t, "idle") ELSE UNCHANGED writes
  /\ seen' = [seen EXCEPT ![a] = NoAnalysis]
  /\ Move(a, "opening")
  /\ UNCHANGED <<session, tables, request, plan, reresolved, cleared, index>>

(* ix_analysis_threads_one_active_per_session: an INSERT waits while       *)
(* another transaction has inserted or locked an active thread ...         *)
OpeningWaits(a) ==
  \E b \in Analyses \ {a}, t \in Analyses :
    /\ writes[b][t] # "unwritten"
    /\ "active" \in {status[t], writes[b][t]}

(* Mutation: the index is missing. *)
NeverClashes(a) == FALSE

(* ... and fails when an active thread is committed. *)
OpeningClashes(a) == ActiveThreads(a) # {}

OpenThread(a) ==
  /\ pc[a] = "opening"
  /\ ~OpeningWaits(a)
  /\ ~OpeningClashes(a)
  /\ Write(a, a, "active")
  /\ Move(a, "counting")
  /\ UNCHANGED <<session, tables, request, plan, reresolved, seen, cleared, index>>

(* IntegrityError: the savepoint is rolled back and the decision is taken  *)
(* again on a new snapshot, once.                                          *)
Reresolve(a) ==
  /\ pc[a] = "opening"
  /\ ~OpeningWaits(a)
  /\ OpeningClashes(a)
  /\ ~reresolved[a]
  /\ reresolved' = [reresolved EXCEPT ![a] = TRUE]
  /\ writes' = [writes EXCEPT ![a] = WritesAtSavepoint(a)]
  /\ Move(a, "resolving")
  /\ UNCHANGED <<session, tables, request, plan, seen, cleared, index>>

ConflictAgain(a) ==
  /\ pc[a] = "opening"
  /\ ~OpeningWaits(a)
  /\ OpeningClashes(a)
  /\ reresolved[a]
  /\ Fail(a, "conflicted")

-----------------------------------------------------------------------------
(* Assembly and persistence of the row *)

(* Mutation: only the latest analysis is counted. *)
LatestCounted(t) == Cardinality({r \in latest : ThreadOf(r) = t})

NextIndex(t) == Cardinality(RowsOf(t))

Count(a) ==
  /\ pc[a] = "counting"
  /\ index' = [index EXCEPT ![a] = NextIndex(ThreadOf(a))]
  /\ Move(a, "clearing")
  /\ UNCHANGED <<session, tables, request, plan, reresolved, seen, writes, cleared>>

LatestOf(t) == First({r \in latest : ThreadOf(r) = t})

(* UPDATE of the latest row of the thread: is_latest = false. *)
FindLatest(a) ==
  LET r == LatestOf(ThreadOf(a)) IN
  /\ pc[a] = "clearing"
  /\ seen' = [seen EXCEPT ![a] = r]
  /\ Move(a, IF r = NoAnalysis THEN "inserting" ELSE "clearingRow")
  /\ UNCHANGED <<session, tables, request, plan, reresolved, writes, cleared, index>>

ClearLatest(a) ==
  /\ pc[a] = "clearingRow"
  /\ RowFree(a, seen[a])
  /\ cleared' = [cleared EXCEPT ![a] = IF seen[a] \in latest THEN seen[a] ELSE @]
  /\ seen' = [seen EXCEPT ![a] = NoAnalysis]
  /\ Move(a, "inserting")
  /\ UNCHANGED <<session, tables, request, plan, reresolved, writes, index>>

(* ix_session_analyses_one_latest_per_thread, as for the threads. *)
InsertWaits(a) ==
  \E b \in Analyses \ {a} :
    /\ ThreadOf(b) = ThreadOf(a)
    /\ pc[b] \in Inserted \/ cleared[b] # NoAnalysis

InsertClashes(a) ==
  \E r \in latest : ThreadOf(r) = ThreadOf(a) /\ r # cleared[a]

InsertAnalysis(a) ==
  /\ pc[a] = "inserting"
  /\ ~InsertWaits(a)
  /\ ~InsertClashes(a)
  /\ Move(a, "touching")
  /\ UNCHANGED <<session, tables, request, work>>

(* The failed flush has ended the transaction: recording FAILED fails too, *)
(* the job stays RUNNING.                                                  *)
InsertFails(a) ==
  /\ pc[a] = "inserting"
  /\ ~InsertWaits(a)
  /\ InsertClashes(a)
  /\ RollBack(a)

(* UPDATE of last_analysis_id and last_activity_at of the thread. *)
TouchThread(a) ==
  LET t == ThreadOf(a) IN
  /\ pc[a] = "touching"
  /\ ThreadFree(a, t)
  /\ Write(a, t, View(a, t))
  /\ Move(a, "committing")
  /\ UNCHANGED <<session, tables, request, plan, reresolved, seen, cleared, index>>

(* Mutation: last_analysis_id is set when a thread is opened only. *)
FirstAnalysisKept(a) ==
  [lastAnalysis EXCEPT ![ThreadOf(a)] = IF @ = NoAnalysis THEN a ELSE @]

LastAnalysisSet(a) == [lastAnalysis EXCEPT ![ThreadOf(a)] = a]

Commit(a) ==
  /\ pc[a] = "committing"
  /\ status' = [t \in Analyses |-> View(a, t)]
  /\ stale' = stale \ {ThreadOf(a)}
  /\ lastAnalysis' = LastAnalysisSet(a)
  /\ saved' = saved \cup {a}
  /\ latest' = (latest \ {cleared[a]}) \cup {a}
  /\ SummaryReleased(a, TRUE)
  /\ Forgotten(a)
  /\ Move(a, "stored")
  /\ UNCHANGED <<request, plan, reresolved, index>>

(* A transaction may be lost at any statement. *)
Lose(a) ==
  /\ pc[a] \in InTx
  /\ RollBack(a)

-----------------------------------------------------------------------------

Execute(a) ==
  \/ SaveSummary(a) \/ Infer(a) \/ InferenceFails(a)
  \/ Resolve(a) \/ Retire(a) \/ RetireNothing(a)
  \/ FindActive(a) \/ Demote(a)
  \/ OpenThread(a) \/ Reresolve(a) \/ ConflictAgain(a)
  \/ Count(a) \/ FindLatest(a) \/ ClearLatest(a)
  \/ InsertAnalysis(a) \/ InsertFails(a) \/ TouchThread(a) \/ Commit(a)

Next ==
  \/ CloseSession
  \/ RequestSummary
  \/ \E t \in Analyses : GoStale(t)
  \/ \E a \in Analyses : Start(a) \/ Execute(a) \/ Lose(a)

Spec == Init /\ [][Next]_vars

(* A statement that can run is run: the event loop and the database do not *)
(* stop, and the LLM call has a timeout.                                   *)
FairSpec == Spec /\ \A a \in Analyses : WF_vars(Execute(a))

-----------------------------------------------------------------------------
(* Properties *)

(* Every variable has its type. *)
TypeOK ==
  /\ sessionOpen \in BOOLEAN
  /\ summarySaved \in BOOLEAN
  /\ summaryLock \in Analyses \cup {NoAnalysis}
  /\ status \in [Analyses -> Statuses]
  /\ stale \subseteq Analyses
  /\ lastAnalysis \in [Analyses -> Analyses \cup {NoAnalysis}]
  /\ saved \subseteq Analyses
  /\ latest \subseteq Analyses
  /\ pc \in [Analyses -> Steps]
  /\ mode \in [Analyses -> Modes \cup {"auto"}]
  /\ began \in [Analyses -> SUBSET Analyses]
  /\ sessionSeen \in [Analyses -> BOOLEAN]
  /\ plan \in [Analyses -> [action : Actions \cup {"NONE"},
                            target : Analyses \cup {NoAnalysis}]]
  /\ reresolved \in [Analyses -> BOOLEAN]
  /\ seen \in [Analyses -> Analyses \cup {NoAnalysis}]
  /\ writes \in [Analyses -> [Analyses -> Statuses \cup {"unwritten"}]]
  /\ cleared \in [Analyses -> Analyses \cup {NoAnalysis}]
  /\ index \in [Analyses -> Nat]

(* From its first stored analysis on, the session has exactly one active   *)
(* thread, whatever transactions retire, demote and open at the same time  *)
(* (create_thread and the partial unique index).                           *)
OneActiveThread ==
  LET active == {t \in Analyses : status[t] = "active"} IN
  /\ \A t, u \in active : t = u
  /\ saved # {} => active # {}

(* In every thread that holds analyses exactly one of them is the latest,  *)
(* and it is the one last_analysis_id names, although the flag and the     *)
(* reference are written by different statements (analysis_thread_service. *)
(* persist_session_analysis_in_thread).                                    *)
LatestIsLast ==
  \A t \in Analyses :
    RowsOf(t) # {} => {r \in latest : ThreadOf(r) = t} = {lastAnalysis[t]}

(* An analysis that fails leaves the threads as they were: a status        *)
(* changes only in a step that also stores an analysis (the savepoint of   *)
(* resolve_thread_for_analysis).                                           *)
FailureLeavesThreads == [][status' # status => saved' # saved]_vars

(* A conflict is never the analysis's own doing: an analysis that has been *)
(* resolved again has met another one that opened a thread meanwhile, and  *)
(* one that gives up has met two.                                          *)
OpenedSince(a) == {b \in saved \ began[a] : ThreadOf(b) = b}

ConflictsNeedRivals ==
  \A a \in Analyses :
    /\ reresolved[a] => OpenedSince(a) # {}
    /\ pc[a] = "conflicted" => Cardinality(OpenedSince(a)) >= 2

(* Whatever waits for a row lock, a unique index or the summary row gets   *)
(* on: an analysis that has begun ends.                                    *)
EveryAnalysisEnds ==
  \A a \in Analyses : pc[a] \in InTx ~> pc[a] \in Ended

(* Only overlapping analyses of a thread may share a continuation_index,   *)
(* which is counted without a lock before the row is inserted: one that    *)
(* begins after another was stored gets a larger one (next_continuation_   *)
(* index).                                                                 *)
IndexFollowsEarlier ==
  \A a, b \in saved :
    a \in began[b] /\ ThreadOf(a) = ThreadOf(b) => index[a] < index[b]

-----------------------------------------------------------------------------
(* The inductive invariant behind OneActiveThread *)

Wrote(a, t) == writes[a][t] # "unwritten"

LocksExclusive ==
  \A a, b \in Analyses, t \in Analyses : Wrote(a, t) /\ Wrote(b, t) => a = b

(* A thread exists from the commit of the analysis that opened it. *)
ThreadsOpenedBySaved ==
  \A a \in Analyses :
    /\ status[a] # "absent" => a \in saved
    /\ a \in saved => pc[a] = "stored"

Opened(a) == pc[a] \in Storing /\ plan[a].action # "CONTINUE"

(* A transaction acts on a committed thread, or on the one it opens. *)
TargetsExist ==
  \A a \in Analyses :
    /\ pc[a] \in InSavepoint => plan[a].action # "CONTINUE"
    /\ pc[a] = "retiring" /\ plan[a].target # NoAnalysis
         => status[plan[a].target] # "absent"
    /\ pc[a] = "demotingRow" => seen[a] # NoAnalysis /\ status[seen[a]] # "absent"
    /\ pc[a] \in Storing /\ plan[a].action = "CONTINUE"
         => plan[a].target # NoAnalysis /\ status[plan[a].target] # "absent"

(* What a transaction has written: nothing before the savepoint, no active *)
(* thread before it opens one, then its own as the only active thread it   *)
(* sees; when it continues a thread, only the lock on it.                  *)
WritesFit ==
  \A a, t \in Analyses :
    /\ writes[a][t] # "absent"
    /\ Wrote(a, t) => pc[a] \in InSavepoint \cup Storing
    /\ Wrote(a, t) /\ t # a => status[t] # "absent"
    /\ pc[a] \in InSavepoint => writes[a][t] # "active"
    /\ Opened(a) => (View(a, t) = "active" <=> t = a)
    /\ pc[a] \in Storing /\ ~Opened(a) /\ Wrote(a, t) => writes[a][t] = status[t]

OneOpened == \A a, b \in Analyses : Opened(a) /\ Opened(b) => a = b

ThreadsInv ==
  /\ LocksExclusive
  /\ ThreadsOpenedBySaved
  /\ TargetsExist
  /\ WritesFit
  /\ OneOpened
  /\ OneActiveThread

-----------------------------------------------------------------------------
(* The inductive invariant behind LatestIsLast *)

SavedInThreads == latest \subseteq saved /\ \A r \in saved : ThreadOf(r) \in saved

(* A row is cleared by a transaction that is about to store another one in *)
(* the same thread, and stays the latest until that transaction commits.   *)
ClearedFit ==
  \A a \in Analyses :
    /\ pc[a] = "clearingRow" => seen[a] \in saved /\ ThreadOf(seen[a]) = ThreadOf(a)
    /\ cleared[a] # NoAnalysis =>
         /\ pc[a] \in {"inserting"} \cup Inserted
         /\ cleared[a] \in latest
         /\ ThreadOf(cleared[a]) = ThreadOf(a)

(* From its INSERT on, a transaction has the latest flag of its thread.    *)
FlagTaken ==
  \A a \in Analyses : pc[a] \in Inserted =>
    /\ \A r \in latest : ThreadOf(r) = ThreadOf(a) => r = cleared[a]
    /\ \A b \in Analyses \ {a} :
         ThreadOf(b) = ThreadOf(a) => pc[b] \notin Inserted /\ cleared[b] = NoAnalysis

LatestInv ==
  /\ SavedInThreads
  /\ ClearedFit
  /\ FlagTaken
  /\ LatestIsLast

-----------------------------------------------------------------------------
(* The inductive invariant behind IndexFollowsEarlier *)

Counted == {"clearing", "clearingRow", "inserting"} \cup Inserted

(* An index that has been computed is at most the number of rows in the    *)
(* thread, below it once the row is one of them, and beyond the indexes of *)
(* the rows that were there when the transaction began.                    *)
IndexInv ==
  \A a \in Analyses :
    /\ began[a] \subseteq saved
    /\ a \in saved => index[a] < Cardinality(RowsOf(ThreadOf(a)))
    /\ pc[a] \in Counted => index[a] <= Cardinality(RowsOf(ThreadOf(a)))
    /\ pc[a] \in Counted \cup {"stored"} =>
         \A b \in began[a] : ThreadOf(b) = ThreadOf(a) => index[b] < index[a]

=============================================================================
