--------------------------- MODULE MCModelService ---------------------------
EXTENDS ModelService, TLC

Default ==
  [ENV_MODE |-> {}, LLM_PROVIDER |-> {}, OPENAI_API_KEY |-> TRUE,
   ANALYSIS_RUNTIME_ENABLED |-> {TRUE}, urls |-> TRUE, databases |-> TRUE,
   LLM_MAX_ATTEMPTS |-> {}, OPENAI_TIMEOUT_SECONDS |-> {},
   ANALYSIS_WORKER_CONCURRENCY |-> {}, ANALYSIS_WORKER_BATCH_SIZE |-> {},
   ANALYSIS_JOB_MAX_ATTEMPTS |-> {}, ANALYSIS_JOB_STALE_TIMEOUT_SECONDS |-> {}]

(* Every mode with every provider, with and without a key and a worker.    *)
Moded ==
  {[Default EXCEPT !.ENV_MODE = mode, !.LLM_PROVIDER = name,
                   !.OPENAI_API_KEY = key, !.ANALYSIS_RUNTIME_ENABLED = on] :
     mode \in {{}, {"test"}, {"prod"}, {"staging"}},
     name \in {{}, {"openai"}, {"ollama"}, {"gemini"}},
     key \in BOOLEAN, on \in {{}, {TRUE}}}

(* Numbers too small, and larger than the defaults.                        *)
Sized ==
  {[Default EXCEPT !.LLM_PROVIDER = name, !.LLM_MAX_ATTEMPTS = attempts,
                   !.ANALYSIS_JOB_MAX_ATTEMPTS = executions] :
     name \in {{"openai"}, {"ollama"}},
     attempts \in {{0}, {1}, {}}, executions \in {{0}, {2}, {3}}}

MCEnvironments ==
  Moded \cup Sized \cup
    {[Default EXCEPT !.urls = FALSE], [Default EXCEPT !.databases = FALSE]}
=============================================================================
