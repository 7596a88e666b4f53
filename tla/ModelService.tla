---------------------------- MODULE ModelService ----------------------------
(***************************************************************************)
(* From the start of the API process to the answer of the language model:  *)
(* the configuration (RuntimeConfig), the startup checks, the choice of    *)
(* the provider, its calls and their retries, the reading of the answer,   *)
(* and what the caller makes of an error: the worker for analyses and      *)
(* memories, the request handler for dialogue turns.                       *)
(***************************************************************************)
EXTENDS RuntimeConfig, Sequences

CONSTANTS
  Environments,   \* the environments the process may be started in
  SdkTries,       \* external: times the OpenAI SDK sends one request
  MaxLost         \* bound: executions of a job lost or overtaken

ASSUME ServiceAssumption ==
  /\ \A e \in Environments : IsEnvironment(e)
  /\ SdkTries \in Nat \ {0}
  /\ MaxLost \in Nat

DEFAULT_DB_RETRIES == 5

VARIABLES
  env,        \* the environment of the process
  phase,      \* starting | checking | refused | serving
  tries,      \* database checks left
  worker,     \* the runtime worker was started
  call        \* the use of the model under way, or how it ended

vars == <<env, phase, tries, worker, call>>

config == _resolve_runtime_config(env)

Kinds == {"analysis", "memory", "dialogue"}

(* What the network can answer, as far as a provider or the parser tells   *)
(* it apart: no answer, a status, a body, a text.  Of the statuses,        *)
(* unauthorized stands for every client error but 429.                     *)
Failures == {"connection", "timeout"}
Statuses == {"redirect", "unauthorized", "rateLimited", "unavailable"}
Bodies == {"noJson", "noContent", "empty"}
(* extract_json finds an object in the first three forms; a text that      *)
(* starts with { and ends with } is taken whole, whether it parses or not. *)
Forms == {"object", "fenced", "embedded", "broken", "prose"}
(* The payload: as the contract of its kind wants it; with interpretation  *)
(* (of a memory) or verdict (of a dialogue turn); an analysis without      *)
(* symbols; anything else.                                                 *)
Payloads == {"fitting", "verdict", "symbolless", "foreign"}
Answers == [form : Forms, payload : Payloads]

Errors == {"transport", "terminal", "unexpected", "uncaught"}
Replies == [error : Errors, answer : {{}}] \cup [error : {"none"}, answer : {{a} : a \in Answers}]

Raised(error) == [error |-> error, answer |-> {}]
Text(a) == [error |-> "none", answer |-> {a}]

Calls ==
  [kind : Kinds,
   step : {"idle", "asking", "read", "retryable", "failed", "stored"},
   run : Nat,        \* acquisitions of the job so far
   attempt : Nat,    \* of generate_with_retry, in this execution
   lost : Nat,       \* history: executions lost or overtaken by recovery
   late : Nat,       \* overtaken executions that may still requeue the job
   sent : Nat,       \* history: requests that left the process
   refusals : Nat,   \* history: client errors reported to this execution
   reply : Replies]

NoCall == [kind |-> "analysis", step |-> "idle", run |-> 0, attempt |-> 0,
           lost |-> 0, late |-> 0, sent |-> 0, refusals |-> 0,
           reply |-> Raised("uncaught")]

TypeOK ==
  /\ env \in Environments
  /\ phase \in {"starting", "checking", "refused", "serving"}
  /\ tries \in 0 .. DEFAULT_DB_RETRIES
  /\ worker \in BOOLEAN
  /\ call \in Calls

Init ==
  /\ env \in Environments
  /\ phase = "starting"
  /\ tries = DEFAULT_DB_RETRIES
  /\ worker = FALSE
  /\ call = NoCall
-----------------------------------------------------------------------------
(* Importing settings loads the configuration; the startup event validates *)
(* it again and checks the infrastructure before it starts the worker.     *)
Load ==
  /\ phase = "starting"
  /\ phase' = IF Loads(env) THEN "checking" ELSE "refused"
  /\ UNCHANGED <<env, tries, worker, call>>

start_runtime_worker ==
  /\ phase' = "serving"
  /\ worker' = should_start_runtime_worker(config)

SkipDatabase ==
  /\ phase = "checking" /\ ~ChecksDatabase(config)
  /\ start_runtime_worker
  /\ UNCHANGED <<env, tries, call>>

DatabaseAnswers ==
  /\ phase = "checking" /\ ChecksDatabase(config)
  /\ start_runtime_worker
  /\ UNCHANGED <<env, tries, call>>

DatabaseSilent ==
  /\ phase = "checking" /\ ChecksDatabase(config)
  /\ tries' = tries - 1
  /\ phase' = IF tries' = 0 THEN "refused" ELSE "checking"
  /\ UNCHANGED <<env, worker, call>>
-----------------------------------------------------------------------------
(* _build_provider *)
provider ==
  CASE config.llm_provider = "mock" -> "mock"
    [] config.llm_provider = "openai" -> "openai"
    [] OTHER -> "compatible"

(* assert_llm_provider_allowed, assert_openai_client_allowed               *)
allowed == config.env_mode = "test" => provider = "mock"

(* The most requests one generate() sends: the SDK sends a request again   *)
(* when it was lost, timed out or was answered with 408, 409, 429 or 5xx.  *)
Requests ==
  CASE provider = "mock" -> 0
    [] provider = "openai" -> SdkTries
    [] OTHER -> 1

(* A dialogue turn needs no worker, a job does. *)
Begin(kind) ==
  /\ phase = "serving" /\ call.step = "idle"
  /\ kind = "dialogue" \/ worker
  /\ call' = [NoCall EXCEPT !.kind = kind, !.step = "asking", !.run = 1, !.attempt = 1]
  /\ UNCHANGED <<env, phase, tries, worker>>

(* Mutation: a client error is taken for a transport error.                *)
RefusalAsTransport(r) ==
  IF r \in Failures \cup {"rateLimited", "unavailable", "unauthorized"}
    THEN Raised("transport") ELSE Raised("unexpected")

(* _map_sdk_exception and _extract_output_text.                            *)
openai(r) ==
  CASE r \in Failures \cup {"rateLimited", "unavailable"} -> Raised("transport")
    [] r = "unauthorized" -> Raised("terminal")
    [] r \in {"redirect"} \cup Bodies -> Raised("unexpected")

(* Every httpx error is a transport error, client errors included; a body  *)
(* that is no JSON is an exception nobody classifies; an empty text is one.*)
compatible(r) ==
  CASE r \in Failures \cup Statuses \cup {"noContent"} -> Raised("transport")
    [] r = "noJson" -> Raised("uncaught")
    [] r = "empty" -> Text([form |-> "prose", payload |-> "foreign"])

Reply(r) == IF provider = "openai" THEN openai(r) ELSE compatible(r)

(* Mutation: one attempt too many.                                         *)
AfterOneMore(c, reply) ==
  IF reply.error = "transport" /\ c.attempt <= config.llm_max_attempts
    THEN [c EXCEPT !.attempt = @ + 1, !.reply = reply]
    ELSE [c EXCEPT !.step = "read", !.reply = reply]

(* generate_with_retry: only a transport error is worth another attempt.   *)
After(c, reply) ==
  IF reply.error = "transport" /\ c.attempt < config.llm_max_attempts
    THEN [c EXCEPT !.attempt = @ + 1, !.reply = reply]
    ELSE [c EXCEPT !.step = "read", !.reply = reply]

Sent(c, r, n) ==
  [c EXCEPT !.sent = @ + n, !.refusals = @ + (IF r = "unauthorized" THEN 1 ELSE 0)]

AskMock ==
  /\ call.step = "asking" /\ allowed /\ provider = "mock"
  /\ call' = After(call, Text([form |-> "object", payload |-> "fitting"]))
  /\ UNCHANGED <<env, phase, tries, worker>>

Asking == call.step = "asking" /\ allowed /\ provider # "mock"

NetworkFails ==
  /\ Asking
  /\ \E r \in Failures \cup Statuses \cup Bodies, n \in 1 .. Requests :
       call' = After(Sent(call, r, n), Reply(r))
  /\ UNCHANGED <<env, phase, tries, worker>>

NetworkAnswers ==
  /\ Asking
  /\ \E a \in Answers, n \in 1 .. Requests :
       call' = After(Sent(call, "text", n), Text(a))
  /\ UNCHANGED <<env, phase, tries, worker>>
-----------------------------------------------------------------------------
(* extract_json and parse_json, then the contract of the kind.             *)
Parsed(a) == a.form \in {"object", "fenced", "embedded"}
Accepts(kind, payload) ==
  CASE kind = "analysis" -> payload \in {"fitting", "verdict"}
    [] kind = "memory" -> payload \in {"fitting", "symbolless"}
    [] kind = "dialogue" -> payload \in {"fitting", "symbolless"}
Usable(c) == \E a \in c.reply.answer : Parsed(a) /\ Accepts(c.kind, a.payload)

Store ==
  /\ call.step = "read" /\ Usable(call)
  /\ call' = [call EXCEPT !.step = "stored"]
  /\ UNCHANGED <<env, phase, tries, worker>>

(* Mutation: an answer that cannot be used is nobody's error.              *)
GiveUpOnErrors ==
  /\ call.step = "read" /\ ~Usable(call) /\ call.reply.error # "none"
  /\ call' = [call EXCEPT !.step =
                IF call.reply.error = "transport" /\ call.kind # "dialogue"
                  THEN "retryable" ELSE "failed"]
  /\ UNCHANGED <<env, phase, tries, worker>>

(* RetryableAnalysisError for a transport error of a job, a final error    *)
(* for everything else: the exceptions nobody classified included.         *)
GiveUp ==
  /\ call.step = "read" /\ ~Usable(call)
  /\ call' = [call EXCEPT !.step =
                IF call.reply.error = "transport" /\ call.kind # "dialogue"
                  THEN "retryable" ELSE "failed"]
  /\ UNCHANGED <<env, phase, tries, worker>>

(* _handle_retryable_failure: the job is queued again and acquired anew.   *)
Requeue ==
  /\ call.step = "retryable" /\ call.run < config.job_max_attempts
  /\ call' = [call EXCEPT !.step = "asking", !.run = @ + 1, !.attempt = 1]
  /\ UNCHANGED <<env, phase, tries, worker>>

Exhaust ==
  /\ call.step = "retryable" /\ call.run >= config.job_max_attempts
  /\ call' = [call EXCEPT !.step = "failed"]
  /\ UNCHANGED <<env, phase, tries, worker>>

(* What the execution at hand may still send when another one takes its    *)
(* place: nothing if it is gone, its remaining attempts if it goes on.     *)
Remaining ==
  IF call.step = "asking" THEN Requests * (config.llm_max_attempts - call.attempt + 1) ELSE 0

(* The next execution while the one at hand is unfinished or its end is    *)
(* not committed.  One that goes on and has attempts left may requeue the  *)
(* job later, whatever became of it in the meantime.                       *)
Again(lost, late) ==
  /\ \E rest \in 0 .. Remaining :
       call' = [call EXCEPT !.step = "asking", !.run = @ + 1, !.attempt = 1,
                            !.refusals = 0, !.sent = @ + rest, !.lost = lost,
                            !.late = late + (IF call.run < config.job_max_attempts
                                               THEN 1 ELSE 0)]
  /\ UNCHANGED <<env, phase, tries, worker>>

(* The process died, the transaction was lost, or the execution is slower  *)
(* than the stale timeout: _recover_stale_running_jobs queues the job      *)
(* again without a look at max_attempts.                                   *)
Recover ==
  /\ call.step # "idle" /\ call.kind # "dialogue" /\ call.lost < MaxLost
  /\ Again(call.lost + 1, call.late)

(* An overtaken execution fails with a transport error and puts the job    *)
(* back: it decides by the attempts of its own acquisition.                *)
LateRequeue ==
  /\ call.late > 0
  /\ Again(call.lost, call.late - 1)

Startup == Load \/ SkipDatabase \/ DatabaseAnswers \/ DatabaseSilent
Work == AskMock \/ NetworkFails \/ NetworkAnswers \/ Store \/ GiveUp \/ Requeue \/ Exhaust

Next == Startup \/ Work \/ Recover \/ LateRequeue \/ \E kind \in Kinds : Begin(kind)

(* The process starts up, and the event loop resumes what awaits an answer *)
(* or a timeout; nobody need use the model.                                *)
Spec == Init /\ [][Next]_vars
FairSpec == Spec /\ WF_vars(Startup) /\ WF_vars(Work)
-----------------------------------------------------------------------------
Ended == {"stored", "failed"}

(* In test mode nothing leaves the process and no worker runs, whatever    *)
(* provider, key and worker the environment names                          *)
(* (_resolve_runtime_config, runtime_guards).                              *)
TestModeIsOffline == Testing(env) => call.sent = 0 /\ ~worker

(* A production process that serves has a worker, a key and a real         *)
(* provider, and its database has answered within the retries              *)
(* (_validate_prod_config, validate_infra before start_runtime_worker).    *)
ProductionIsReal ==
  (phase = "serving" /\ Mode(env) = "prod") =>
     /\ worker /\ env.OPENAI_API_KEY /\ provider # "mock" /\ tries > 0
     /\ call.step = "stored" => call.sent > 0

(* How often one use of the model asks for it: the tries of the SDK, the   *)
(* attempts of generate_with_retry and the executions of the job multiply. *)
(* Of the latter there are max_attempts and one for each execution that    *)
(* was lost or overtaken: stale recovery and an execution it has overtaken *)
(* add to them, and no others.  A dialogue turn has one execution.  Unless *)
(* one was lost, a job is executed again only when the execution before    *)
(* has used up its attempts (_handle_retryable_failure).                   *)
RequestsBounded ==
  LET executions == IF call.kind = "dialogue" THEN 1 ELSE config.job_max_attempts + call.lost
  IN  phase = "serving" =>
        /\ call.sent <= Requests * config.llm_max_attempts * executions
        /\ call.run > 1 /\ call.lost = 0 => call.sent >= (call.run - 1) * config.llm_max_attempts

(* What the OpenAI API has refused is not asked for again by the execution *)
(* that got the refusal, nor does that execution put its job back          *)
(* (_is_terminal_sdk_error); a compatible server's refusal is, as often as *)
(* a lost connection (OpenAICompatibleLLMProvider.generate).  The SDK      *)
(* itself sends 408 and 409 again before it reports them, and an execution *)
(* that is lost after its refusal is repeated like any other.              *)
RefusalIsFinal ==
  provider = "openai" => /\ call.refusals <= 1
                         /\ call.refusals = 1 => call.step \notin {"asking", "retryable"}

(* The process serves or has refused to, and whoever asks the model gets a *)
(* result or an error.                                                     *)
EveryCallEnds ==
  /\ <>(phase \in {"serving", "refused"})
  /\ call.step = "asking" ~> call.step \in Ended
=============================================================================
