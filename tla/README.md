# TLA+ model of the dream-journal backend

The repository is a Telegram dream journal: a FastAPI backend (SQLAlchemy async,
PostgreSQL, Redis) takes a user's messages, keeps dreams in sessions, answers
through an LLM, and runs longer LLM work (analysis of a session, extraction of a
dream's memory) as background jobs whose results are delivered over Telegram.
This directory holds its specification: TLA+ modules, the TLC configurations that
check them on small instances and the proofs TLAPS checks for every instance.

## 1. Inventory

| Part | State it keeps | Operations | What is hard | What makes it correct | Module |
|---|---|---|---|---|---|
| Job queue (`services/runtime/analysis_job_service.py`, `db/models/analysis_job_model.py`) | rows of `analysis_jobs`: status, attempts, available_after, locked_by, locked_at | create, acquire (`FOR UPDATE SKIP LOCKED`), stale recovery, complete, fail, requeue | several pollers, READ COMMITTED reads without locks, leases that expire under a live execution, crashes | one execution at a time, one end per job, attempts bounded, every job ends | `AnalysisJobQueue` |
| Worker (`analysis_runtime_worker.py`, `main.py`) | the polling task, the batch in hand, `_stopping` | poll, execute a batch in chunks, stop | waiting jobs age, exceptions that end the loop, shutdown in the middle of a batch | nothing is left behind, shutdown ends | `AnalysisJobQueue` |
| Executor (`analysis_runtime_executor.py`) | one transaction per execution | pipeline, result row, status, delivery, commit; retry decision | partial failure, overlapping executions | result and status commit together | `AnalysisJobQueue` |
| Delivery (`services/notifications/`) | Redis key `delivery:key:<job>`, 24 h | SET NX EX, send | a side effect inside an uncommitted transaction, Redis errors, key expiry | at most one message per key life | `AnalysisJobQueue` |
| Thread state machine (`services/analysis_state_machine_service.py`, `analysis_thread_service.py`, `analysis_continuation_service.py`, snapshots, policy) | `analysis_threads` (active, idle, closed), `session_analyses` (is_latest, continuation_index) | decide continue / new / close from snapshots, apply the transition, attach the analysis | decisions from stale snapshots, unique indexes, one re-resolution after a conflict | one active thread per session, one latest analysis per thread | `AnalysisThreads` |
| Sessions (`session_service.py`) | `dream_sessions` (active, closed, last activity) | get or create, close after 72 h, touch | concurrent creation, check and close in separate statements | one active session per user | `Ingress` |
| Ingress (`services/ingress/`, `dream_intake.py`, `conversation/`, `dialogue/`, both routers) | dreams, conversation turns, jobs, policy traces | handle one message in one transaction, with an LLM call inside | repeated updates, replies before the commit, rollback of the intake | a dream is stored with its job and turns or not at all | `Ingress` |
| Dialogue policy (`services/dialogue_policy/`) | none | classify and route a message | priority of rules | total, safety first | `DialoguePolicy` |
| Summaries and analysis input (`session_summary_service.py`, `analysis_input_service.py`) | `session_summaries` | build once, upsert, read | summary and dreams read at different moments, concurrent upserts | a prompt never counts what it does not list | `SessionPrompts` |
| Prompts (`services/prompts/`) | none | compile, render, validate | a validator that parses text with user text inside | accepts exactly the well-formed prompts | `PromptContract` |
| Orchestrator (`analysis_orchestrator.py`, `analysis_policy_service.py`, `response_parser.py`, `response_contract.py`) | none | call the provider with retries, parse, check | levels of retry, classification of errors | bounded requests, no refusal repeated, every call ends | `ModelService` (its statements in `AnalysisThreads`, its input in `SessionPrompts`) |
| Providers (`services/llm_providers/`) | clients | choose, guard, call, map errors | what is a transport error, timeouts | the test mode never leaves the process | `ModelService` |
| Configuration and startup (`services/config/`, `settings.py`, `main.py`) | the immutable configuration | resolve, validate by mode, check the infrastructure, start the worker | order of overrides, combinations of limits | production has a worker, a key and a real provider | `RuntimeConfig`, `ModelService` |
| Prompt versions (`services/admin/prompt_version_service.py`) | `admin_prompt_versions` | create a version, activating it | two administrators at once | one active version, the newest | `PromptVersions`, `PromptHistory` |
| Memory (`services/memory/`) | `dream_memories` by dream id | extract, upsert | retries, concurrent jobs | as for the job that does it | `AnalysisJobQueue`, `ModelService` |
| Administration console, presentation, journal, players, UI, migrations | none of their own | read, lay out | nothing a model checker reaches | - | section 12 |

Interaction: ingress (a request's transaction) closes, opens and touches sessions and
inserts dreams, turns and jobs; the worker polls the jobs and opens one transaction per
execution; the executor calls the pipeline (memory extraction, or the orchestrator: input,
prompt, model, thread state machine), writes the result and the job's end, and calls
delivery before its transaction commits; delivery uses Redis and Telegram, which no
rollback reaches. The session summary is shared by the analyses, the summary endpoint and
the prompt facade. The configuration decides the provider, the retries of a call and
whether the worker runs.

The hazards of this code are listed with their lines in `PROJECT.json`.

## 2. Modules and plan

| Module | Models | Extends |
|---|---|---|
| `AnalysisJobQueue`, `MCAnalysisJobQueue`, `AnalysisJobQueueProofs` | queue, worker, executor and delivery together, because the guarantees are about their interplay | - |
| `JobLifecycle` | what a reader of `analysis_jobs` is promised; `AnalysisJobQueue` refines it | - |
| `AnalysisThreads`, `MCAnalysisThreads`, `AnalysisThreadsProofs` | thread decision, transition and persistence, statement by statement | - |
| `DialoguePolicy` | the route of a message, pure operators | - |
| `Ingress`, `MCIngress`, `IngressProofs` | messages, handlers, sessions, intake, replies | `DialoguePolicy` |
| `PromptVersions`, `MCPromptVersions`, `PromptVersionsProofs` | concurrent edits of a prompt | - |
| `PromptHistory` | what the versions promise; `PromptVersions` refines it | - |
| `RuntimeConfig` | from the environment to the configuration, pure operators | - |
| `ModelService`, `MCModelService`, `ModelServiceProofs` | startup, provider, retries, parser, what the caller makes of errors | `RuntimeConfig` |
| `PromptContract`, `PromptContractProofs` | the prompt as lines, compiler and validator, pure operators; its proofs need `Plain` and extend `SessionPrompts` | - |
| `SessionPrompts`, `MCSessionPrompts`, `SessionPromptsProofs` | summary and dreams on their way into prompts, under concurrent requests | `PromptContract` |

The order in which they were written is the order above: the runtime first, then what it
executes, then what feeds it, then what configures it. What a continuation would do next:
an abstract specification of a session's threads (retire, open and append as single steps);
the composition of queue and threads, with the pipeline step of an execution replaced by the
thread steps; the abstract specification of a message's intake.

Each module is restricted the way the queries of the code are: one session for the threads
and the prompts, one user for ingress, one prompt type for the versions, one process for the
model service. Instances of them do not share rows.

## 3. The runtime: `AnalysisJobQueue`

### State

| Variable | Code |
|---|---|
| `row`, `draft` | committed `analysis_jobs` rows, and the version flushed by the transaction that holds the row lock. `lease` is `locked_at` + stale timeout - now, `avail` is `available_after` - now, both counted down by `Tick` |
| `results` | committed `session_analyses` / `dream_memories` rows with this `analysis_job_id` |
| `pc`, `snap`, `stored` | where the worker is with each job of its batch, the attempts of the detached `AnalysisJob` it was handed (`expire_on_commit=False`), whether its transaction has flushed a result |
| `phase`, `stopping` | the polling task and `_stopping` |
| `key`, `sent`, `expired` | the Redis key, the messages Telegram accepted, jobs whose key has expired |
| `faults`, `overruns` | budgets of the checked behaviours |

Transactions run at READ COMMITTED. A SELECT without a lock reads `row`; an UPDATE waits
for the row lock and then applies to the committed row, so `FlushJob` overwrites whatever
another execution committed after `ReadJob` read RUNNING. `SKIP LOCKED` is `RowFree`.

### Actions

`CreateJob` (create_job and its commit). `Poll` (recovery and acquisition, flushed) and
`CommitAcquire`; `PollFails` is a database error in between. `StartChunk`, `EndBatch`
(run_once). One execution: `Persist` or `PipelineRaises`; `ReadJob` (the SELECT of
mark_completed, mark_failed or requeue, and the retry decision); `FlushJob`;
`TakeDeliveryKey`, `Send`; `CommitJob`; `AbortJob` and `RedisFails` undo it.
`StartWorker`, `Stop`, `Exit`, `Crash` for the process, `KeyExpires` and `Tick` for time.

### What is abstracted

- The pipeline (LLM call, parsing, thread transition) is one step that succeeds, raises
  RetryableAnalysisError or raises anything else. A conflict on the indexes of threads
  and analyses, which dooms the transaction, is one of the `db` faults here and belongs
  to the thread module.
- retryable, last_error, timestamps and logging are left out; a poll that finds nothing
  changes nothing and is no step; the two SELECTs of the acquiring transaction are one
  step, since the locks the first takes only keep other pollers from the same rows.
- Jobs have one `MaxAttempts`; `max(1, .)` in create_job and the worker is the assumption
  that the limits are positive. Rows with equal `available_after` come in any order, and
  the jobs of a chunk are any of the waiting ones.
- `locked_by` is the worker; in the code all processes share one worker id, and nothing
  reads it. The properties that mention it (`NothingLeftRunning`, `OwnedRow`) use it to
  say who acquired the row.
- A missing chat id or an exception of Telegram is `Send` with no message.
- A memory job whose mark_completed raises InvalidJobTransitionError enters the error path
  of the executor, whose mark_failed raises the same error: the transaction is undone, as
  `ReadJob` has it.
- The key's 24 hours are longer than any delivery: it does not expire between the SET and
  the commit.

## 4. The threads of a session: `AnalysisThreads`

Every query of the thread code names one session, so the module has one session and any
number of analyses of it, each an execution of the pipeline in a transaction of its own.
A transaction stores at most one analysis and opens at most one thread, hence the three
share a name: thread `a` is the one transaction `a` opens, and `ThreadOf(a)` is where the
analysis is stored.

### State

| Variable | Code |
|---|---|
| `sessionOpen`, `summarySaved`, `summaryLock` | `dream_sessions.status`, the committed row of `session_summaries`, and the transaction that has it inserted but not committed |
| `status`, `stale`, `lastAnalysis` | committed `analysis_threads`: status ("absent" before the first commit), whether 72 hours have passed since `last_activity_at`, `last_analysis_id` |
| `saved`, `latest`, `index` | committed `session_analyses`, those with `is_latest`, their `continuation_index` (for a transaction that has not committed, the value it has computed) |
| `pc` | the next SQL statement of each transaction |
| `mode`, `sessionSeen`, `plan`, `reresolved` | requested mode, the session as its identity map has it, the `DecisionDTO`, `reresolve_used` |
| `seen`, `writes`, `cleared` | the row an UPDATE has picked and waits for; the thread statuses and the cleared flag that are written but not committed, which are also the row locks |
| `began` | the analyses committed when the transaction began; it only limits `GoStale` and states `ConflictsNeedRivals` |

### Actions

An action is one SQL statement, because at READ COMMITTED that is where other
transactions come in. `Start` (load_analysis_input), `SaveSummary` (upsert of the missing
summary), `Infer` (the LLM call and its checks) or `InferenceFails`, `Resolve`
(build_thread_snapshot and resolve_thread_decision). Inside the savepoint: `Retire`
(mark_idle, close_thread) or `RetireNothing` (ValueError), `FindActive` and `Demote` (the
UPDATE of create_thread), `OpenThread` (its INSERT), and when the unique index refuses the
INSERT `Reresolve` or, the second time, `ConflictAgain`. Then `Count`, `FindLatest` and
`ClearLatest` (one UPDATE), `InsertAnalysis` or `InsertFails`, `TouchThread`, `Commit`.
`Lose` rolls back at any statement; `CloseSession`, `RequestSummary` and `GoStale` are what
happens around the analyses.

How the database is modelled:

- A SELECT reads committed rows and the transaction's own writes (`View`). An UPDATE whose
  row is locked waits and evaluates its condition again on the committed version (`seen`,
  `Demote`, `ClearLatest`); one that selects by id applies whatever the status has become
  (`Retire`, `TouchThread`).
- A partial unique index makes an INSERT wait while another transaction has inserted,
  or changed, a row with that key (`OpeningWaits`, `InsertWaits`), and fail against a
  committed one (`OpeningClashes`, `InsertClashes`).
- The session is an object of the identity map: the SELECT of build_session_snapshot
  returns the object load_analysis_input has loaded, with the attributes of then. The
  threads are read anew: no object of them is loaded before the first decision, and the
  thread a second decision finds was committed after it.
- A failure inside the savepoint is followed by a commit in a job (the executor records
  FAILED or requeues in the same transaction) and by a rollback in the HTTP endpoint; the
  constant `Manual` tells which.

Left out: the contents of analyses and summaries, the reasons of decisions other than
their precedence, the retries inside the LLM call, and the analysis of a session that
never had a dream (it raises before its first write). `attach_analysis` and the older
wrappers (`prepare_thread_for_mode` and its kin) have no caller in the program.

## 5. Messages and sessions: `Ingress` and `DialoguePolicy`

`DialoguePolicy` is the pure decision of `services/dialogue_policy`: a text is abstracted to
what the decision looks at (words, normalized length, whether it starts like a continuation,
whether it matches a crisis pattern), and `classify_input_type`, `build_policy_input` and
`decide` are translated rule by rule, in their order.

### State

| Variable | Code |
|---|---|
| `mail`, `deliveries`, `acked`, `chat` | the user's messages and their channel; how often each was handed to the API; the updates answered with 200, which Telegram does not repeat; the replies and error texts the user has been sent |
| `requests` | the handlers' transactions: the next step, the route, the sessions found for the turns (`session`) and for the dream (`dreamSession`), the stale one to be closed (`victim`), and what is written and not committed |
| `clock` | transactions begun; their order is that of `func.now()`, which is the transaction's start |
| `sessions` | committed `dream_sessions`: status, birth, and whether 72 hours have passed since `last_activity_at` |
| `turns`, `dreams`, `jobs`, `traces` | the committed rows; each carries the number of the transaction that inserted it |
| `faults`, `aged`, `raced` | budgets, and whether sessions have changed under an open transaction |

### Actions

`Deliver`, `DeliverAgain` (Telegram repeats an update while its first handler still works).
`Evaluate` (DialoguePolicyRouter.evaluate: its SELECT begins the transaction; a message
without words is traced and that is all). `FindActive`, `FindStale`, `FindNone`, `CloseStale`
(get_or_create_active_session), run once for the turns and once more for a new dream
(`findingForDream`, register_incoming_dream). `Touch` (update_session_activity and the
inserts of the route). `ModelAnswers` or `ModelFails`; `Send` or `SendFails` on the webhook;
`Commit` or `CommitFails`; `Respond` or `ResponseLost`. `Crash` ends all handlers, `GoStale`
lets 72 hours pass.

- `get_session` commits after the handler and before the response is sent (the dependency
  of FastAPI 0.111 leaves its context before the response goes out). So the webhook, which
  sends the reply inside the handler, sends it before the commit; the bot shows the reply it
  finds in the response, after the commit. That is the one difference of the channels, next
  to the repeats: Telegram posts an update until it gets a 200, the bot calls once.
- The row lock of a session is held from its UPDATE to the end of the transaction, the model
  call included. `close_session` updates by id and asks nothing of the row it then finds.
- A request's own new session is the newest to it; ids are distinct, so no two transactions
  meet in an INSERT.
- When a session is looked up a second time, the model re-reads its staleness. In the code
  the identity map keeps the attributes of the first copy; the two differ only if the 72
  hours end between two statements of one transaction while another request touches the row.
- The typing indicator and updates without a text change nothing and are left out.

## 6. Prompt versions: `PromptVersions` and `PromptHistory`

`table`, `active` and `txns`: the committed rows of one prompt type (version to content), the
versions with `active_flag`, and each edit's request. An edit is four statements in one
transaction: `Submit` or `SubmitUnknown` (the row it starts from), `ReadLatest`
(`max(version)`), `PickRows` and `Deactivate` (the UPDATE chooses its rows, then waits for
their locks), `Insert` or `InsertFails` (the unique pair and the partial unique index), then
`Commit`. `Abort` rolls back at any statement. Nothing it reads is locked when it reads it,
so that the edit supersedes the very version whose number it has incremented is not obvious:
the UPDATE locks version 1 in every edit, hence edits go through one at a time, and one that
was overtaken runs into an index.

`PromptHistory` is the promise: a log that only grows, with its last entry active. The
mapping reads the table as the log.

## 7. Configuration, startup and the model: `RuntimeConfig` and `ModelService`

`RuntimeConfig` holds `_resolve_runtime_config`, `validate_config` and the guards of
`services/config` as operators on an environment. Optional settings are sets of at most one
value; a number that does not parse is refused like one below its minimum; settings that are
only passed on (host names, pool sizes, tracing) are left out.

`ModelService` is one process and one use of the model in it.

| Variable | Code |
|---|---|
| `env`, `phase`, `tries`, `worker` | the environment; starting, checking, refused or serving; the database checks left; `start_runtime_worker` has run |
| `call` | kind (analysis, memory, dialogue turn), step, execution of the job, attempt of generate_with_retry, the last reply, overtaken executions that may still requeue the job; and, as history, requests sent, refusals received by this execution, executions lost or overtaken |

Actions: `Load` (importing the settings), `SkipDatabase`, `DatabaseAnswers`,
`DatabaseSilent` (validate_infra); `Begin`; `AskMock`, `NetworkFails`, `NetworkAnswers` (one
`generate` of a provider, with the mapping of its errors: `openai`, `compatible`); `Store`
and `GiveUp` (parser and contract); `Requeue` and `Exhaust` (_handle_retryable_failure);
`Recover` (stale recovery of an execution that was lost or is too slow) and `LateRequeue` (an
overrun execution puts the job back).

- What the network may answer is what a provider or the parser tells apart: no answer, four
  classes of status, three of bodies, five forms of text with four payloads.
- The OpenAI SDK's own resends are external: one `generate` sends any number of requests up to
  `SdkTries` (its default is two retries), whatever the answer it reports in the end; it resends
  what was lost, timed out or was answered with 408, 409, 429 or 5xx. `sent` counts requests, not
  calls of `generate`. An OpenAI-compatible server gets one request per `generate`.
- An execution that is overtaken may go on sending (`Remaining`) and may put the job back
  (`LateRequeue`), by the attempts of its own acquisition. The queue itself, with the timing of
  leases and the rows, is `AnalysisJobQueue`; here `Recover` may happen at any moment, `MaxLost`
  times.
- Durations are not modelled: the timeout of the clients is per network operation
  (services/llm_providers/openai_provider.py:47, openai_compatible_provider.py:55) and the pauses
  of the SDK are its own, so nothing in the code bounds how long a `generate` takes.

## 8. Summaries and prompts: `PromptContract` and `SessionPrompts`

`PromptContract` is the analysis prompt as a sequence of lines and `services/prompts` as
operators on it: `compile_jungian_prompt`, `render_compiled_prompt`,
`validate_prompt_structure`, `validate_prompt_safety` and their parts. A line has a name
(field, marker, heading, words, blank), a number, the section headings that occur in it and
whether it claims something the contract forbids. The wording of a fixed section is one line.
A dream is a sequence of any such lines: what looks like a marker, a field, a heading or a whole
entry of the log is a line like another, and the validation, which parses the finished prompt,
cannot tell whose it is.

`SessionPrompts` lets requests (the summary endpoint, the prompt facade, analyses) work on
one session while dreams are added: `ReadSummary`, `BuildSummary`, `SaveSummary` (the upsert,
which waits for another uncommitted row), `CompilePrompt` (the dreams are read anew),
`ValidatePrompt` (facade only), `EndAnalysis`, `Commit`, and `Lose` at any of them.

- A dream's place is by `created_at`, the beginning of its transaction, so one that commits
  late may come to stand before one that is already there (`AddDream`).
- The sample of a summary is made of the lines of its dreams. `Joins` is the `" ".join` of
  services/session_summary_service.py:120: the last line of a text and the first of the next
  become one, in which a field, a heading or a forbidden phrase may arise that is in neither
  (`Seams`). `Cuts` is the cut after 1000 characters (line 121): anything from nothing cut off to a
  part of the first line left, and what a line claimed or quoted may be cut off with it.
  `build_session_summary` is the set of the summaries that may come out.
- Counting and ranking words is left out, but for one thing the contract can tell (`ranking`):
  a ranking whose first word begins with "fill" or "missing" is rendered as
  `key_symbols: [filled, ...]`, and the placeholder pattern `\[(FILL|MISSING)`, which ignores case
  (services/prompts/contracts.py:131), takes it for a placeholder nobody filled.
- Two headings in one line count as out of order. In the code their order in the line counts, but
  the section between them is then a part of a line, which no rule on a section accepts.
- A line ends where `splitlines` ends one; the code splits paragraphs at `\n` only, which differs
  for texts with rarer line separators. The first line of a text is not blank (Telegram trims it;
  the HTTP endpoint takes others, which the rules on blocks and fields then refuse as they refuse
  every text of several lines). A line of spaces is one of words, and a field has a value: the
  code strips lines of spaces at the edges of a block, and takes a bare `text: ` for a line of the
  log but for no field of the summary, which gives the forged endings below some more forms.

What validation is worth (`VerdictsFit`): it refuses no `Plain` prompt, that is, one of dreams of
one line each without a heading from the third on, with a sample and a ranking that claim
nothing. And a prompt it lets through is `Checked`: nothing outside the log of dreams claims what
is forbidden, no prompt lists dreams with a count of zero, and every dream is bare, up to one whose
second line is like the `timestamp` line of an entry. The two are not the same, because such a
text can pass as structure: the dream `words / timestamp: ... / (blank) / [DREAM 2] / text: words`
is accepted as two entries, since the number of blocks is not compared with `dream_count`
(services/prompts/validation.py:67-91), as long as the sample does not show the same lines once
more (it may be cut before them); and so is `words / timestamp: ... / heading 3 / key_symbols /
recurring_words / raw_text_sample / heading 4`, which ends the log and brings a summary of its own.
`MCSessionPrompts` has both (`Forged`).

## 9. Runs

| Run | Instance | Shows |
|---|---|---|
| `QueuePunctual` | 2 workers, a session job and a memory job, batch 2, concurrency 1, 2 attempts, 1 fault, no overrun | one execution at a time, a result exactly for completed jobs, refinement of `JobLifecycle`, every job ends |
| `QueueOverrun` | 3 interchangeable workers, 1 job, 2 attempts, 2 faults, 2 overruns | what survives overlapping executions: distinct attempts, a result for every completed job, bounded attempts, at most one message per key life, a message without a result only after a fault |
| `QueueShutdown` | the 1 worker of the deployment, 3 jobs, batch 3, concurrency 2, 2 faults: a stop at any moment, an error while polling | the batch is finished, the worker comes down, and every job ends unless the loop has died of an error while polling |
| `ThreadsConcurrent` | 4 analyses by jobs, 2 open at a time | under every interleaving of statements: one active thread, one latest analysis per thread, a continuation index beyond those of all earlier analyses, failures leave the threads alone, a conflict needs a rival |
| `ThreadsLive` | 2 jobs and a manual request, all open at once | every analysis that begins ends: no wait for locks goes round in a circle |
| `IngressConcurrent` | 2 messages in five pairings of channel and kind, 2 handlers, 5 session rows, 2 deliveries, 1 fault, 1 session that ages | dream, job, turns and trace are stored together or not at all; an answered update is stored and replied to; replies that are not stored and copies of an update each need a fault; one active session and dreams beside their turns unless requests overlap; only stale sessions are closed; every update ends |
| `PromptVersions` | 4 concurrent edits | the newest version is the active one, an edit supersedes what it has read, refinement of `PromptHistory`, every edit is answered |
| `ModelService` | 84 environments, one use of the model, 2 tries of the SDK, 2 executions lost or overtaken | test mode stays offline, production is real, requests are bounded by the product of the SDK's tries, the attempts and the executions, the latter including those of stale recovery; a refusal is final for the execution that got it, every call ends |
| `SessionPrompts` | 2 requests of any kind, 12 nights of one to three dreams, plain, odd or forged; every cut of the sample, two kinds of seams in it | a prompt never counts or samples what it does not list; validation refuses no plain prompt and accepts checked ones only; waiting upserts end |
| `QueueTwoResults`, `QueueRedisDown`, `IngressTwoSessions` | the smallest instance that shows it | statements of the docs that the code does not keep; see `findings` in `PROJECT.json` |

**Bounds of the queue.** `MaxFaults` and `MaxOverruns` limit what goes wrong, `AgeCap` stops a
queued job's age from growing (beyond it, order among old jobs is arbitrary), time is a
countdown and so finite, attempts are bounded by the other bounds. Two workers are enough for
every race of two transactions on a row; three, in `QueueOverrun`, let a successor of an
overrunning execution be overrun in turn. Two jobs are enough to have one waiting behind a
chunk and a session job beside a memory job; three fill two chunks. A stale timeout of one tick
suffices where no overrun is allowed; with two an execution may be caught on either side of it.

An overrun is a tick that takes the last of the lease of a job a worker has in hand and has
not finished. `MaxOverruns = 0` is the assumption that the stale timeout (180 s by default)
is longer than a batch; the code does not enforce it, and bounds no execution either: the
clients' timeouts are per network operation and the pauses of the SDK are its own.

**Bounds of the threads.** The number of analyses bounds the history and `MaxInFlight` the
transactions open at the same time. A race over one thread takes two transactions; an analysis
meets its second rival after the first has committed, and a thread that is stale when they race
takes a predecessor, so four analyses with two open have every such case. Jobs are
interchangeable (the liveness run declares no symmetry). A circle of waits may need three
transactions, and `ThreadsLive` has three. `Modes` is "auto" and "new", and "auto" for liveness,
where the stale threads and the closed session open new threads as "new" does; the decision
treats "continue" as "auto". `GoStale` has a guard: 72 hours do not pass while a transaction
that began before the thread's last activity is still open, since an LLM call has a timeout of
seconds. For more analyses and more open transactions there are the proofs.

**Bounds of ingress.** Two requests race for a session; the third party of a race is the
session that ages. The pairings put every route beside one that shares its session: two
intakes, an intake and a canned reply, an intake and a dialogue turn, the bot's channel, and
messages without words. The user starts with no session or with one. Two deliveries give each
update one repeat, one fault is one failure, early repeat, lost response or crash anywhere.
Five session rows are more than two messages with a repeat each can open, so `Fresh` never
blocks.

**Bounds of prompt versions.** Row locks and unique keys are between pairs of edits; an edit
that loses against two successive rivals, and one that waits behind a waiting one, take three
and four.

**Bounds of the model service.** The environments cross the modes (unset, test, production, an
unknown one) with the providers (unset, OpenAI, compatible, unknown), key and worker; and, for
two providers, attempts and executions below their minimum, at it, at the default and above. One
use of the model at a time is enough, because uses share nothing but the configuration. Two
executions that are lost or overtaken (`MaxLost`) exceed max_attempts, and let an overtaken
execution requeue the job while its successor is overtaken in turn.

**Bounds of the prompts.** An upsert race takes two requests. There is a night for each odd dream
(two lines, two paragraphs, a line like a field, a quoted heading that lies after the log, or
further on, a claim) and for each forged one, nights of two dreams of which the first or the
second is odd, and one of three. Two sampled dreams against three (the code samples five) leave a
dream outside the sample. One seam brings nothing, the other a claim and a heading. Longer nights
and other seams are covered by the proofs.

### Fairness

- Queue (`FairSpec`): time passes (`WF(Tick)`); a process that is down is started again and a
  loop that is alive goes on (`WF(Loop(w))`: the container is `restart: always`,
  docker-compose.yaml:119, and the loop polls again after its sleep). A loop that died of an error
  stays dead: its process runs on, so the container is not restarted, and no action but the exit
  of a stop is enabled for it.
  Besides, each execution goes on (`WF(Execution(w, j))`: provider and
  Telegram calls have timeouts, and a lock is held only by transactions that are themselves fair
  or die). No fault is fair, and nothing is assumed about which branch a step takes.
- Threads: a transaction that can execute its next statement does (`WF(Execute(a))`): the
  provider call has a timeout and the database answers. No `Start` and no loss is fair.
- Ingress: a handler goes on (`WF(Progress(h))`: the event loop serves it, the model call has
  a timeout) and Telegram goes on posting what was not answered (`WF` of `Deliver` per
  update). No fault is fair; the bot's one call is a delivery like another.
- Prompt versions: the event loop serves every request it has taken (`WF(Progress(e))`);
  submitting is not fair.
- Model service: the process starts up and the event loop resumes what awaits an answer or a
  timeout (`WF(Startup)`, `WF(Work)`); nobody need use the model.
- Session prompts: `WF(Served(r))`, in which the validation is either verdict, not the one
  the rules give: that it ends is assumed, and its verdict is no part of the assumption.

Deadlock is checked in every run of the queue. The other runs say `CHECK_DEADLOCK FALSE`:
each analysis, message, edit, request and call happens once, so the system rests when all have
ended; that none waits for ever is the liveness property of each run.

### Mutations

Definitions named in a comment as a mutation are not part of the model: each changes one
definition the way a plausible bug would, and breaks the property `PROJECT.json` names.

## 10. Where the code departs from its documents

Three departures are runs that end in a counterexample (`findings` in `PROJECT.json`):

- `QueueTwoResults`: an execution slower than the stale timeout runs beside its successor. It
  fails with a retryable error and reads the job RUNNING, without a lock; the successor commits
  its result and COMPLETED; the requeue of the first then overwrites COMPLETED with QUEUED, and a
  later execution, beside no other, stores a second result. (Two executions that overlap cannot
  both store one: the insert of the second waits for the first, and it then finds COMPLETED.)
  (docs/progress/active/async-runtime-layer.md:41, :60 and :107).
- `QueueRedisDown`: an error of Redis before the message undoes a completed execution
  (the docstring at services/runtime/analysis_runtime_executor.py:139).
- `IngressTwoSessions`: two concurrent first messages leave two active sessions
  (docs/architecture/session-lifecycle.md:13).

Others are modelled as the code has them and have no run:

- An exception while polling ends the loop for the life of the process
  (services/runtime/analysis_runtime_worker.py:44); docs/progress/current-state.md:132 promises
  at-least-once delivery of jobs. `PollFails` and the loop that is then dead are in the model, and
  nothing revives it. The deployment has a single loop (main.py:77), so one error of the acquiring
  transaction leaves every job waiting until somebody restarts the process, which goes on serving
  requests; that all loops are dead for ever is the one exception in `EveryJobSettles`, checked
  with a single worker in `QueueShutdown` and with a second one in `QueuePunctual`.
- Stale recovery adds executions beyond the "Maximum execution attempts" of the column comment
  (services/runtime/analysis_job_service.py:138 does not look at max_attempts); `AttemptsBounded`
  says by how much. And a RUNNING job is acquired again after the stale timeout, although
  async-runtime-layer.md:42 asks for an explicit requeue.
- A job executed again after its key's 24 hours is delivered twice: the bound of
  `AtMostOnceDelivery` is one message per life of the key, where
  docs/progress/current-state.md:159 says one per job.
- An idle thread can be continued and a closed one reopened as idle, when a transaction acts on
  a snapshot another one has outdated (services/analysis_thread_service.py:107 and :64, against
  docs/progress/active/analysis-state-machine.md:28-29). Overlapping analyses of a thread may
  share a continuation index (analysis_thread_service.py:141); `IndexFollowsEarlier` says which
  may not.
- The first analysis of a closed session without a thread fails each time (`RetireNothing`),
  while one of a session closed during the LLM call still continues its thread (`sessionSeen`).
- The orchestrator sends its prompt unvalidated (services/analysis_orchestrator.py:47-57);
  docs/architecture/ai-architecture.md:32 and :89 want a validation step before the provider.
  The facade that validates has no caller in the program.
- A saved summary is never rebuilt (services/analysis_input_service.py:34), where
  docs/architecture/session-lifecycle.md:32 updates it with each dream. A summary saved before
  the first dream makes the facade refuse the session's prompts for ever (`Plain`).
- An OpenAI-compatible provider is built without the configured timeout
  (services/llm_providers/registry.py:25) and takes client errors for transport errors, so it
  repeats what the OpenAI provider does not. And with the default settings 2 attempts of 3
  requests of 30 seconds each are 180 seconds already, the stale timeout, while the timeout is per
  network operation and the SDK pauses between its requests.
- A session is refused by the prompt facade because its most frequent word is "filled", and two
  forged endings of a dream are accepted; see section 8.

## 11. Proofs

All theorems are about `Spec`, without fairness, and rest on the named assumptions on the
constants alone, which TLC evaluates in the runs. The invariants are conjunctions of named parts,
and each action has a lemma of its own.

### `AnalysisJobQueueProofs`

Under the named assumptions on the constants only (limits and timeouts positive, any set of
workers, any finite set of jobs, any number of faults and overruns):

- `TypeCorrect`: `Spec => []TypeOK`.
- `DeliveryAtMostOnce`: `AtMostOnceDelivery`. Inductive invariant `DeliveryInv`: row locks
  exclude each other, so one execution at most is between creating the key and sending, and
  the key's presence pays for the message.
- `CompletedJobsHaveResults`: `CompletedHasResult`. Inductive invariant `CompletionInv` (with
  `DeliveryInv` for the locks): the transaction that flushed COMPLETED has flushed a result,
  and acquisitions never write an end, although executions may overlap.
- `CompletedIsDecided`: `DeliveryDecided`. Inductive invariant `DecidedInv` (with the two before):
  an execution that can still end in COMPLETED holds the key from `send` to its commit, and a
  memory job never reaches delivery.
- `MessagesHaveResults`: `MessageHasResult`. Inductive invariant `MessageInv`: the execution that
  sent the message is the one at its commit, with its result. Overlapping executions need no
  exception: only a fault separates the two.
- `AttemptsAreExclusive`: `OneExecutionPerAttempt`. Inductive invariant `SnapshotInv`: attempts
  only grow, and an acquisition counts beyond every snapshot somebody still works with.
- `AttemptsStayBounded`: `AttemptsBounded`, with any number of overlapping executions. Inductive
  invariants `HandInv` (what a worker has in hand beside the committed row) and `CreditInv`: an
  attempt is open while its execution may still put the job back, which it does once at most and
  never on the last attempt; the attempts made and the open ones together stay within
  `MaxAttempts + faults + overruns`, with one to spare for a job nobody guards and two for one
  whose lease has run out before its acquisition was committed. A requeue closes its attempt, and
  every other acquisition is a recovery that a fault or an overrun has paid for.

Under the further assumption `MaxOverruns = 0`:

- `Punctual`: the inductive invariant `PunctualInv`. `SingleActiveExecution` alone is not
  inductive: one must know that a job in hand is running, with the worker's own attempt number
  and time left on its lease (`OwnedRow`), that the acquirer's uncommitted version has the
  expected shape (`ClaimedRow`), and that nobody else has it in hand (`Exclusive`).
- From it: `OneExecutionAtATime`, `OneResultPerCompletedJob`, and
  `RuntimeImplementsLifecycle` (each commit maps to a step of `JobLifecycle`, every other step
  to a stutter).
- `WorkersLeaveNothing`: `NothingLeftRunning`, if besides no transaction is rolled back and no
  process dies (`FaultKinds` without `Abandoning`). Inductive invariant `NamedInv`: the worker a
  row names has the job in hand, and `ReadJob` cannot leave a RUNNING job behind because of
  `OwnedRow`.

### `AnalysisThreadsProofs`

For any finite set of analyses, any part of them manual, any set of modes and any number of
open transactions:

- `ThreadTypes`: `Spec => []TypeOK`.
- `OneActive`: `OneActiveThread`. The invariant `ThreadsInv` is inductive (with `TypeOK`): row
  locks exclude each other (`LocksExclusive`); a thread exists once its opener has committed
  (`ThreadsOpenedBySaved`); a transaction acts on committed threads (`TargetsExist`); it has no
  active thread among its writes before it opens one, sees its own as the only active one
  afterwards, and only locks the thread it continues (`WritesFit`); and the unique index lets one
  transaction only be between its INSERT and its commit (`OneOpened`). The commit of an opener
  then leaves its thread alone active, that of a continuation changes no status.
- `LatestEverywhere`: `LatestIsLast`. The invariant `LatestInv` is inductive together with
  `ThreadsInv`: a row is cleared by a transaction about to store another one in the same thread
  (`ClearedFit`), and from its INSERT on no other transaction has inserted or cleared a row of
  that thread (`FlagTaken`).
- `FailuresLeaveNoTrace`: `FailureLeavesThreads`, from `ThreadsInv` and the rollback to the
  savepoint. The savepoint matters when an analysis has retired a thread, loses two races and
  commits its failure; that takes five analyses, beyond `ThreadsConcurrent`, so the proof is
  what covers it.
- `IndexesFollow`: `IndexFollowsEarlier`. The invariant `IndexInv` is inductive with `ThreadsInv`:
  an index that has been computed is at most the number of rows of its thread, below that number
  once its own row is one of them, and beyond the indexes of the rows that were there when its
  transaction began. Rows are only added, so a later count is beyond every earlier index; two
  overlapping transactions may still count the same rows, which is why the property is about
  analyses that begin after another one was stored.
- `ConflictsHaveRivals`: `ConflictsNeedRivals`. Inductive invariant `RivalsInv`: the threads of
  before its transaction are out of the way of an analysis that opens one (it demotes them, or
  sees them no longer active), and once it has been resolved again so is one that was opened since.
  What the unique index then refuses it for is a further thread, hence two rivals for a refusal.


### `PromptVersionsProofs`

For any set of concurrent edits:

- `TypeCorrect`, and `OneActiveVersion` (`NewestIsActive`): exactly one version is active and it
  is the one with the greatest number.
- `EditsAreSerialized` (`SupersedesWhatItRead`), `EditsAreKept`: an edit that commits has
  incremented the version that was newest when it committed, and an edit is told it was stored
  just when one version is its own.
- `TableImplementsHistory` (`ImplementsHistory`): the table read as a sequence is the log of
  `PromptHistory`; a commit appends one entry, every other step is a stutter.

The invariant `IInv` is `Numbered` (versions have no gap and the last is active), `Txns` (what an
edit has read and picked is there), `Exclusive` and `Contained` (a version is Seed's or one
edit's). None of the code's statements locks what the edit has read. What makes the edits
exclusive is that the UPDATE of every edit picks version 1 among its rows: two that have chosen
their rows both wait for that row, so at most one holds locks, and the unique indexes refuse the
INSERT of one whose version number is taken.

### `ModelServiceProofs`

For any set of environments, any number of tries of the SDK and of lost or overtaken executions:

- `TypeCorrect`; `OfflineTests` (`TestModeIsOffline`); `RealProduction` (`ProductionIsReal`);
  `RequestsStayBounded` (`RequestsBounded`); `RefusalsAreFinal` (`RefusalIsFinal`).

The invariant `IInv` is `Started` (a process that checks or serves has loaded its configuration,
and the worker runs as it says) and `CallInv`, about the use of the model under way: `Overtaken`
bounds the executions by max_attempts and those lost, of which the ones that may still requeue the
job are a part; `Limited` says that each execution has sent at most the product of the SDK's tries
and the attempts; `Counted` that, as long as none is lost, each attempt has been preceded by all
attempts of the earlier executions and the earlier ones of this execution, and that only a
transport error in the last attempt leaves an execution to be repeated; `Mocked` and `Refused` are
what the mock and the OpenAI client restrict further. The lemmas about products are needed because
the bounds are products of configured numbers.

### `IngressProofs`

For any set of updates, handlers and sessions, any mail, and any number of repeats, faults and
aged sessions:

- `TypeCorrect`, `IntakesAreWhole` (`IntakeWhole`), `AcknowledgedIsStored` (`AckedIsStored`),
  `RepliesAreStored` (`UnstoredRepliesNeedFaults`), under every interleaving.
- `OneActiveWithoutRaces` (`OneActiveUnlessRaced`), `DreamsWithTheirTurns` (`DreamWithItsTurns`),
  `ClosingIsForStale` (`ClosedOnlyWhenStale`), as long as sessions do not change under an open
  transaction.
- `DuplicatesTakeFaults` (`DuplicatesNeedFaults`), under every interleaving.

The invariant `IInv` says what a request has in hand at each of its steps (`Shapes`), that the
rows of a transaction are told apart by its number and no committed row has the number of an
open one (`Numbered`), and what it has shown or stored before (`Answers`). `Quiet` is the part
that holds until a race: one transaction is open at most, it sees one active session, what it has
closed was stale, and the session found for the turns is still the one to be found for the dream.
Whole intakes then are a fact about one commit: nobody else's rows carry its number. `CopiesFit`
counts the copies of an update that are stored together with those a request may still store: one
for the delivery itself, while it is served or once it is acknowledged, and one for each fault.

### `SessionPromptsProofs`

For any dreams of any lines, any number of requests of every kind, any size of the sample and any
seams in it:

- `PromptTypes`: `Spec => []TypeOK`.
- `SummarisedAreListed`: `PromptListsSummarised`. Inductive invariant `PromptsInv`: a summary,
  saved or in hand, is one of some of the dreams that are there now (`Summarises`), because dreams
  are added and never removed, wherever they come to stand; so a prompt compiled later lists them
  all. `PromptsInv` also keeps the verdict of the validation in the step it leads to (`Judged`).
- `VerdictsAlwaysFit`: `VerdictsFit`. A compiled prompt is `Sound`: it lists dreams if it counts
  any, and if they are all bare, so are the sampled ones, and their sample is one line
  (`SamplesTyped`). So `ContractChecks` applies, and `Judged` carries the verdict to the end of
  the request.

### `PromptContractProofs`

`ContractChecks`: of a `Sound` prompt, `Plain(p) => Valid(p)` and `Valid(p) => Checked(p)`, for any
number of dreams of any number of lines of any kind, and any sample. The contract looks for
headings, markers and fields in a text with the user's words inside. `Plain` and `Checked` are
about the dreams, `validate_prompt_structure` about the places of lines in a concatenation.

- `RenderedPlaced` gives the place of every line the validation looks at, from the lengths of the
  log and the sample; `LogShape` does so for the lines of the log.
- `PlainPasses`: if every dream is one line without a heading from the third on, the headings are
  where the renderer has put them and section 2 is a row of four-line blocks, so the rules come
  down to the count, and those on wording to the sample.
- `PassedImitates`: of a prompt that passes, take the first dream that is not bare and after no
  imitation. Everything before its block is regular, so section 2 begins as in the log and reaches
  this block; a block has three lines, of which the last is a `timestamp`. So the second line of
  the text is one, or the text has a heading that comes before its place. Up to there nothing is
  assumed of what follows, which is why nothing is claimed of the dreams after an imitation.
- `PassedSummary`: wherever section 3 is found to begin, the lines of the real sample and ranking
  are in the controlled text, so their claims are seen.

The prover cannot use induction theorems, which take an operator as a parameter. What folds and
`FlattenSeq` compute is proved by taking the least number of steps for which a fact fails: that a
set of naturals has a least element follows from `FS_StrictSubsetOrderingWellFounded`, which
takes none (`LeastExists`, `UpTo`).

### Only model-checked

- Liveness (`EveryJobSettles`, `ShutdownCompletes`, `EveryAnalysisEnds`, and the liveness
  property of each other run): fairness and ENABLED are outside the prover.

## 12. Not modelled

- Dialogue context (`dialogue_prompt.py`, `user_display_name.py`): the wording of a prompt. That
  the model is called inside the transaction, and what follows from it, is in `Ingress`.
- The administration console, the presentation of analyses, the journal and the other read-only
  endpoints: queries and layout, no state of their own. Their reads can see any committed state
  of the modules here.
- Compatibility modules (`services/prompt_compiler.py`, `prompt_contract.py`,
  `prompt_validation.py`): re-exports, and a second copy of the compiler that no service imports.
- Players (template code of the project skeleton), the admin UI, tracing, and the migrations,
  whose unique indexes are modelled where they matter.
- The fields of a memory, of an analysis and of a summary's word counts: no decision of the
  runtime looks at them beyond the contracts of `ModelService`.
- Rows of different sessions, users and prompt types next to each other: every query of the
  modelled code is restricted to one of them, and no lock or index spans two.
- Read replicas, connection-pool exhaustion and serialization failures of the database: the
  code does not handle them; they are the database fault each module already has.
