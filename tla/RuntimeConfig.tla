---------------------------- MODULE RuntimeConfig ----------------------------
(***************************************************************************)
(* services/config: from the environment of the process to the immutable   *)
(* configuration it runs with, or to the refusal to run.  An optional      *)
(* setting is a set of at most one value; a text is abstracted to what the *)
(* rules ask of it.  Times are in seconds.                                 *)
(***************************************************************************)
EXTENDS Integers, FiniteSets

KNOWN_LLM_PROVIDERS == {"mock", "openai", "openai-compatible", "local",
                        "openrouter", "lm-studio", "ollama"}
OPENAI_COMPATIBLE_PROVIDERS ==
  {"openai-compatible", "local", "openrouter", "lm-studio", "ollama"}

EnvMode == {"local", "test", "prod"}

IsOptional(setting, S) == setting \subseteq S /\ Cardinality(setting) <= 1

(* urls, databases: the base URLs are http(s) URLs, both DATABASE_URLs are *)
(* given.  Numbers that do not parse are refused as those below a minimum. *)
IsEnvironment(e) ==
  /\ IsOptional(e.ENV_MODE, STRING) /\ IsOptional(e.LLM_PROVIDER, STRING)
  /\ {e.OPENAI_API_KEY, e.urls, e.databases} \subseteq BOOLEAN
  /\ IsOptional(e.ANALYSIS_RUNTIME_ENABLED, BOOLEAN)
  /\ \A number \in {e.LLM_MAX_ATTEMPTS, e.OPENAI_TIMEOUT_SECONDS,
                     e.ANALYSIS_WORKER_CONCURRENCY, e.ANALYSIS_WORKER_BATCH_SIZE,
                     e.ANALYSIS_JOB_MAX_ATTEMPTS, e.ANALYSIS_JOB_STALE_TIMEOUT_SECONDS} :
       IsOptional(number, Int)

Value(raw, default) == IF raw = {} THEN default ELSE CHOOSE x \in raw : TRUE

(* env_mode and llm_provider as _resolve_runtime_config reads them, before *)
(* test mode overrides three settings.                                     *)
Mode(env) == Value(env.ENV_MODE, "local")
Testing(env) == Mode(env) = "test"

_resolve_runtime_config(env) ==
  [env_mode |-> Mode(env),
   llm_provider |-> IF Testing(env) THEN "mock" ELSE Value(env.LLM_PROVIDER, "mock"),
   openai_api_key |-> ~Testing(env) /\ env.OPENAI_API_KEY,
   runtime_enabled |-> ~Testing(env) /\ Value(env.ANALYSIS_RUNTIME_ENABLED, FALSE),
   llm_max_attempts |-> Value(env.LLM_MAX_ATTEMPTS, 2),
   openai_timeout_seconds |-> Value(env.OPENAI_TIMEOUT_SECONDS, 30),
   concurrency |-> Value(env.ANALYSIS_WORKER_CONCURRENCY, 1),
   batch_size |-> Value(env.ANALYSIS_WORKER_BATCH_SIZE, 1),
   job_max_attempts |-> Value(env.ANALYSIS_JOB_MAX_ATTEMPTS, 1),
   stale_timeout_seconds |-> Value(env.ANALYSIS_JOB_STALE_TIMEOUT_SECONDS, 180)]

Numbers(config) ==
  {config.llm_max_attempts, config.openai_timeout_seconds, config.concurrency,
   config.batch_size, config.job_max_attempts, config.stale_timeout_seconds}

(* What the parsers refuse: an unknown mode, a number below its minimum,   *)
(* a missing database.                                                     *)
Parses(env) ==
  /\ Mode(env) \in EnvMode
  /\ \A n \in Numbers(_resolve_runtime_config(env)) : n >= 1
  /\ env.databases

(* Mutation: a provider without a key is let through.                      *)
ValidateKeyless(config) == config.llm_provider # "mock" /\ config.runtime_enabled

_validate_prod_config(config) ==
  /\ config.openai_api_key
  /\ config.llm_provider # "mock"
  /\ config.runtime_enabled

validate_config(env, config) ==
  /\ config.llm_provider \in KNOWN_LLM_PROVIDERS
  /\ env.urls
  /\ config.env_mode = "test" => config.llm_provider = "mock" /\ ~config.runtime_enabled
  /\ config.env_mode = "prod" => _validate_prod_config(config)

Loads(env) == Parses(env) /\ validate_config(env, _resolve_runtime_config(env))

(* Mutation: the worker starts whatever the configuration says.            *)
StartsAnyway(config) == TRUE

should_start_runtime_worker(config) == config.runtime_enabled

(* validate_infra asks the database only in production.                    *)
ChecksDatabase(config) == config.env_mode = "prod" /\ config.runtime_enabled
=============================================================================
