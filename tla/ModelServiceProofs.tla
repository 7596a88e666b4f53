------------------------- MODULE ModelServiceProofs -------------------------
(***************************************************************************)
(* What ModelService guarantees in every set of environments, for every    *)
(* number of SDK tries and any number of lost executions.  The invariant   *)
(* counts, for the use of the model under way, the requests of the         *)
(* executions that are over and of the attempts of this one, and sets the  *)
(* executions that are still possible against those that were lost.        *)
(***************************************************************************)
EXTENDS ModelService, TLAPS

Attempts == config.llm_max_attempts
Executions(c) ==
  IF c.kind = "dialogue" THEN 1 ELSE config.job_max_attempts + c.lost
Longest == Requests * Attempts
Fitting == Text([form |-> "object", payload |-> "fitting"])

(* A process that checks or serves has loaded its configuration.           *)
Started ==
  /\ phase \in {"checking", "serving"} => Loads(env)
  /\ phase # "refused" => tries > 0
  /\ worker => phase = "serving" /\ config.runtime_enabled
  /\ phase = "serving" /\ config.runtime_enabled => worker
  /\ phase # "serving" => call = NoCall

Ranges(c) ==
  c.step # "idle" => c.run \in 1 .. Executions(c) /\ c.attempt \in 1 .. Attempts

(* Each overtaken execution that may still requeue the job was paid for by *)
(* one lost execution, and the limit leaves room for all of them.          *)
Overtaken(c) ==
  /\ c.late <= c.lost
  /\ c.kind = "dialogue" \/ c.step = "idle" => c.late = 0
  /\ c.run >= config.job_max_attempts => c.run + c.late <= config.job_max_attempts + c.lost

(* The mock answers at once with what every contract accepts.              *)
Mocked(c) ==
  /\ c.sent = 0 /\ c.refusals = 0 /\ c.step # "retryable"
  /\ c.lost = 0 => c.run <= 1
  /\ c.step = "read" => c.reply = Fitting

(* The fewest and the most requests: the fewest as long as no execution    *)
(* was lost.                                                               *)
Counted(c) ==
  /\ c.step \notin {"idle", "asking"} => c.sent > 0
  /\ c.step = "retryable" => c.kind # "dialogue"
  /\ c.lost = 0 =>
       /\ c.step = "asking" => c.sent >= (c.run - 1) * Attempts + (c.attempt - 1)
       /\ c.step \notin {"idle", "asking"} => c.sent >= (c.run - 1) * Attempts
       /\ c.step = "read" /\ c.reply.error = "transport" => c.sent >= c.run * Attempts
       /\ c.step = "retryable" => c.sent >= c.run * Attempts

Limited(c) ==
  /\ c.step = "idle" => c.sent = 0 /\ c.run = 0
  /\ c.step = "asking" => c.sent <= (c.run - 1) * Longest + (c.attempt - 1) * Requests
  /\ c.step \notin {"idle", "asking"} => c.sent <= c.run * Longest

Refused(c) ==
  \/ c.refusals = 0
  \/ c.refusals = 1 /\ c.step \in {"read", "failed"} /\ c.reply.error = "terminal"

CallInv(c) ==
  phase = "serving" =>
    /\ Ranges(c)
    /\ provider = "mock" => Mocked(c)
    /\ Overtaken(c)
    /\ provider # "mock" => Counted(c)
    /\ Limited(c)
    /\ provider = "openai" => Refused(c)

IInv == TypeOK /\ Started /\ CallInv(call)
-----------------------------------------------------------------------------
(* Products of natural numbers                                             *)

LEMMA ProductTyped == \A a, b \in Nat : a * b \in Nat
OBVIOUS

LEMMA ProductSucc == \A a, b \in Nat : (a + 1) * b = a * b + b
OBVIOUS

LEMMA ProductMonotone == \A a, b, c \in Nat : a <= b => a * c <= b * c
<1> SUFFICES ASSUME NEW a \in Nat, NEW b \in Nat, NEW c \in Nat, a <= b
             PROVE  a * c <= b * c
  OBVIOUS
<1>1. PICK d \in Nat : b = a + d
  <2>1. b - a \in Nat /\ b = a + (b - a)
    OBVIOUS
  <2> QED BY <2>1
<1>2. (a + d) * c = a * c + d * c
  OBVIOUS
<1>3. d * c >= 0
  OBVIOUS
<1> QED BY <1>1, <1>2, <1>3

LEMMA ProductCommutes == \A a, b \in Nat : a * b = b * a
OBVIOUS

LEMMA ProductAssociates == \A a, b, c \in Nat : a * (b * c) = (a * b) * c
OBVIOUS

-----------------------------------------------------------------------------
(* The configuration                                                       *)

LEMMA ValueTyped ==
  ASSUME NEW S, NEW raw \in SUBSET S, NEW default \in S
  PROVE  Value(raw, default) \in S
BY DEF Value

LEMMA ConfigTyped ==
  ASSUME env \in Environments, Loads(env)
  PROVE  /\ Attempts \in Nat \ {0}
         /\ config.openai_timeout_seconds \in Nat \ {0}
         /\ config.concurrency \in Nat \ {0}
         /\ config.batch_size \in Nat \ {0}
         /\ config.job_max_attempts \in Nat \ {0}
<1>1. IsEnvironment(env)
  BY ServiceAssumption
<1>2. /\ config.llm_max_attempts \in Int /\ config.openai_timeout_seconds \in Int
      /\ config.concurrency \in Int /\ config.batch_size \in Int
      /\ config.job_max_attempts \in Int
  BY <1>1, ValueTyped DEF config, _resolve_runtime_config, IsEnvironment, IsOptional
<1>3. \A n \in Numbers(config) : n >= 1
  BY DEF Loads, Parses, config
<1> QED BY <1>2, <1>3 DEF Numbers, Attempts

LEMMA Sizes ==
  ASSUME env \in Environments, Loads(env)
  PROVE  /\ Attempts \in Nat \ {0}
         /\ config.job_max_attempts \in Nat \ {0}
         /\ Requests \in Nat /\ (provider # "mock" => Requests > 0)
         /\ (provider = "mock" => Requests = 0)
         /\ Longest \in Nat
<1>1. Requests \in Nat /\ (provider # "mock" => Requests > 0)
      /\ (provider = "mock" => Requests = 0)
  BY ServiceAssumption DEF Requests
<1> QED BY <1>1, ConfigTyped, ProductTyped DEF Longest

(* Test mode overrides what the environment says.                          *)
LEMMA TestingOverrides ==
  ASSUME Testing(env) PROVE provider = "mock" /\ ~config.runtime_enabled
BY DEF provider, config, _resolve_runtime_config

LEMMA EnvironmentStays ==
  ASSUME env' = env
  PROVE  /\ config' = config /\ provider' = provider /\ Requests' = Requests
         /\ Longest' = Longest /\ Attempts' = Attempts /\ Loads(env)' = Loads(env)
BY DEF config, provider, Requests, Longest, Attempts
-----------------------------------------------------------------------------
(* One step of the use of the model                                        *)

(* A state without a use of the model.                                     *)
LEMMA IdleInv ==
  ASSUME env \in Environments
  PROVE  /\ NoCall \in Calls
         /\ Loads(env) => /\ Ranges(NoCall) /\ Overtaken(NoCall) /\ Mocked(NoCall)
                          /\ Counted(NoCall) /\ Limited(NoCall) /\ Refused(NoCall)
<1>1. /\ NoCall.step = "idle" /\ NoCall.sent = 0 /\ NoCall.run = 0
      /\ NoCall.refusals = 0 /\ NoCall.lost = 0 /\ NoCall.late = 0
  BY DEF NoCall
<1>2. ASSUME Loads(env)
      PROVE  /\ Ranges(NoCall) /\ Overtaken(NoCall) /\ Mocked(NoCall)
             /\ Counted(NoCall) /\ Limited(NoCall) /\ Refused(NoCall)
  <2>1. config.job_max_attempts \in Nat \ {0}
    BY <1>2, ConfigTyped
  <2> QED BY <1>1, <2>1 DEF Ranges, Overtaken, Mocked, Counted, Limited, Refused
<1>3. NoCall \in Calls
  BY DEF NoCall, Calls, Kinds, Replies, Raised, Errors
<1> QED BY <1>2, <1>3

LEMMA UseStep ==
  ASSUME IInv, phase = "serving", UNCHANGED <<env, phase, tries, worker>>,
         call' \in Calls, CallInv(call')
  PROVE  IInv'
<1>1. /\ config' = config /\ provider' = provider /\ Requests' = Requests
      /\ Longest' = Longest /\ Attempts' = Attempts /\ Loads(env)' = Loads(env)
  BY EnvironmentStays
<1>2. TypeOK'
  BY DEF IInv, TypeOK
<1>3. Started'
  BY <1>1 DEF IInv, Started
<1>4. CallInv(call)'
  BY <1>1 DEF CallInv, Ranges, Overtaken, Mocked, Counted, Limited, Refused, Executions
<1> QED BY <1>2, <1>3, <1>4 DEF IInv

LEMMA SentFields ==
  ASSUME call \in Calls, NEW n \in Nat, NEW r
  PROVE  LET c == Sent(call, r, n)
         IN  /\ c \in Calls /\ c.sent = call.sent + n
             /\ c.refusals = call.refusals + (IF r = "unauthorized" THEN 1 ELSE 0)
             /\ c.kind = call.kind /\ c.run = call.run /\ c.attempt = call.attempt
             /\ c.lost = call.lost /\ c.late = call.late /\ c.step = call.step
<1>1. call.sent + n \in Nat
      /\ call.refusals + (IF r = "unauthorized" THEN 1 ELSE 0) \in Nat
  BY DEF Calls
<1> QED BY <1>1 DEF Sent, Calls

LEMMA AfterFields ==
  ASSUME NEW c \in Calls, NEW reply \in Replies
  PROVE  LET n == After(c, reply)
             again == reply.error = "transport" /\ c.attempt < Attempts
         IN  /\ n \in Calls /\ n.kind = c.kind /\ n.run = c.run /\ n.reply = reply
             /\ n.sent = c.sent /\ n.lost = c.lost /\ n.late = c.late /\ n.refusals = c.refusals
             /\ n.step = IF again THEN c.step ELSE "read"
             /\ n.attempt = IF again THEN c.attempt + 1 ELSE c.attempt
<1> DEFINE n == After(c, reply)
           again == reply.error = "transport" /\ c.attempt < Attempts
<1>1. c.attempt + 1 \in Nat
  BY DEF Calls
<1>2. n = IF again THEN [c EXCEPT !.attempt = c.attempt + 1, !.reply = reply]
          ELSE [c EXCEPT !.step = "read", !.reply = reply]
  BY DEF After, Attempts
<1> HIDE DEF n, again
<1>3. /\ n \in Calls /\ n.kind = c.kind /\ n.run = c.run /\ n.reply = reply
      /\ n.sent = c.sent /\ n.lost = c.lost /\ n.late = c.late /\ n.refusals = c.refusals
      /\ n.step = IF again THEN c.step ELSE "read"
      /\ n.attempt = IF again THEN c.attempt + 1 ELSE c.attempt
  BY <1>1, <1>2 DEF Calls
<1> QED BY <1>3 DEF n, again

(* A request has been answered: another attempt follows, or the answer is  *)
(* read.                                                                   *)
LEMMA AskedInv ==
  ASSUME IInv, phase = "serving", call.step = "asking", provider # "mock",
         NEW reply \in Replies, NEW i \in 1 .. Requests, NEW k \in {0, 1},
         (provider = "openai" /\ k = 1) => reply.error = "terminal",
         NEW c \in Calls, c.sent = call.sent + i, c.lost = call.lost, c.late = call.late,
         c.refusals = call.refusals + k, c.kind = call.kind, c.run = call.run,
         c.attempt = call.attempt, c.step = call.step
  PROVE  After(c, reply) \in Calls /\ CallInv(After(c, reply))
<1> DEFINE n == After(c, reply)
           again == reply.error = "transport" /\ c.attempt < Attempts
<1>1. env \in Environments /\ Loads(env) /\ call \in Calls
  BY DEF IInv, TypeOK, Started
<1>2. /\ Attempts \in Nat \ {0} /\ config.job_max_attempts \in Nat \ {0}
      /\ Requests \in Nat \ {0} /\ Longest \in Nat
  BY <1>1, Sizes
<1>3. /\ call.run \in 1 .. Executions(call) /\ call.attempt \in 1 .. Attempts
      /\ call.lost = 0 => call.sent >= (call.run - 1) * Attempts + (call.attempt - 1)
      /\ call.sent <= (call.run - 1) * Longest + (call.attempt - 1) * Requests
      /\ provider = "openai" => call.refusals = 0
      /\ Overtaken(call)
  BY DEF IInv, CallInv, Ranges, Counted, Limited, Refused
<1>4. /\ call.run \in Nat /\ call.run - 1 \in Nat /\ call.attempt \in Nat
      /\ call.attempt - 1 \in Nat
      /\ call.refusals \in Nat /\ call.sent \in Nat /\ call.lost \in Nat
      /\ i \in Nat /\ i >= 1 /\ i <= Requests
  <2>1. call.refusals \in Nat /\ call.sent \in Nat /\ call.lost \in Nat
    BY <1>1 DEF Calls
  <2>2. Executions(call) \in Nat
    BY <1>2, <2>1 DEF Executions
  <2>3. call.run \in Nat /\ call.run - 1 \in Nat
    BY <1>3, <2>2
  <2>4. call.attempt \in Nat /\ call.attempt - 1 \in Nat
    BY <1>2, <1>3
  <2>5. i \in Nat /\ i >= 1 /\ i <= Requests
    BY <1>2
  <2> QED BY <2>1, <2>3, <2>4, <2>5
<1>5. /\ n \in Calls /\ n.kind = c.kind /\ n.run = c.run /\ n.reply = reply
      /\ n.sent = c.sent /\ n.lost = c.lost /\ n.late = c.late /\ n.refusals = c.refusals
      /\ n.step = IF again THEN "asking" ELSE "read"
      /\ n.attempt = IF again THEN c.attempt + 1 ELSE c.attempt
  BY AfterFields
<1> HIDE DEF n
<1>6. ~again /\ reply.error = "transport" => call.attempt = Attempts
  <2>1. call.attempt <= Attempts /\ c.attempt = call.attempt
    BY <1>3, <1>2
  <2>2. ASSUME ~(call.attempt < Attempts) PROVE call.attempt = Attempts
    BY <1>2, <1>4, <2>1, <2>2
  <2> QED BY <2>1, <2>2
<1>7. Ranges(n) /\ Overtaken(n)
  <2>1. n.run \in 1 .. Executions(n)
    BY <1>3, <1>5 DEF Executions
  <2>2. n.attempt \in 1 .. Attempts
    <3>1. CASE again
      BY <1>2, <1>4, <1>5, <3>1
    <3>2. CASE ~again
      BY <1>3, <1>5, <3>2
    <3> QED BY <3>1, <3>2
  <2>3. n.step # "idle"
    BY <1>5
  <2> QED BY <1>3, <1>5, <2>1, <2>2, <2>3 DEF Ranges, Overtaken
<1>8. Counted(n)
  <2> DEFINE m == (call.run - 1) * Attempts
             o == call.run * Attempts
  <2>1. o = m + Attempts /\ m \in Nat /\ o \in Nat
    BY <1>2, <1>4, ProductSucc, ProductTyped
  <2>2. n.lost = 0 => n.sent >= m + call.attempt
    BY <1>3, <1>4, <1>5, <2>1
  <2> HIDE DEF m, o
  <2>3. n.sent > 0
    BY <1>4, <1>5
  <2>4. n.lost = 0 =>
          /\ n.step = "asking" => n.sent >= m + (n.attempt - 1)
          /\ n.sent >= m
          /\ n.step = "read" /\ n.reply.error = "transport" => n.sent >= o
    BY <1>2, <1>4, <1>5, <1>6, <2>1, <2>2
  <2>5. n.step \in {"asking", "read"} /\ n.run = call.run
    BY <1>5
  <2> QED BY <2>3, <2>4, <2>5 DEF Counted, m, o
<1>9. Limited(n)
  <2> DEFINE m == (call.run - 1) * Longest
             o == call.run * Longest
             e == (call.attempt - 1) * Requests
             f == call.attempt * Requests
  <2>1. o = m + Longest /\ m \in Nat /\ o \in Nat
    <3>1. ((call.run - 1) + 1) * Longest = m + Longest /\ (call.run - 1) + 1 = call.run
      BY <1>2, <1>4, ProductSucc
    <3>2. m \in Nat /\ o \in Nat
      BY <1>2, <1>4, ProductTyped
    <3> QED BY <3>1, <3>2
  <2>2. f = e + Requests /\ e \in Nat /\ f \in Nat
    BY <1>2, <1>4, ProductSucc, ProductTyped
  <2>3. f <= Longest
    BY <1>2, <1>3, <1>4, ProductMonotone, ProductCommutes DEF Longest
  <2>4. call.sent <= m + e
    BY <1>3
  <2> HIDE DEF m, o, e, f
  <2>5. n.sent <= m + f /\ n.sent <= o
    BY <1>2, <1>4, <1>5, <2>1, <2>2, <2>3, <2>4
  <2>6. n.step = "asking" => (n.attempt - 1) * Requests = f
    BY <1>4, <1>5 DEF f
  <2>7. n.step \in {"asking", "read"} /\ n.run = call.run
    BY <1>5
  <2> QED BY <2>5, <2>6, <2>7 DEF Limited, m, o
<1>10. provider = "openai" => Refused(n)
  BY <1>3, <1>4, <1>5 DEF Refused
<1> QED BY <1>5, <1>7, <1>8, <1>9, <1>10 DEF CallInv, n

(* The actions of one use of the model, from its beginning to its end.     *)
LEMMA BeginInv == ASSUME IInv, NEW kind \in Kinds, Begin(kind) PROVE IInv'
<1>1. /\ phase = "serving" /\ env \in Environments /\ Loads(env)
      /\ UNCHANGED <<env, phase, tries, worker>>
      /\ call' = [NoCall EXCEPT !.kind = kind, !.step = "asking", !.run = 1, !.attempt = 1]
  BY DEF Begin, IInv, TypeOK, Started
<1>2. /\ Attempts \in Nat \ {0} /\ config.job_max_attempts \in Nat \ {0}
      /\ Requests \in Nat /\ Longest \in Nat
  BY <1>1, Sizes
<1>3. /\ call'.kind = kind /\ call'.step = "asking" /\ call'.run = 1 /\ call'.attempt = 1
      /\ call'.lost = 0 /\ call'.late = 0 /\ call'.sent = 0 /\ call'.refusals = 0
  BY <1>1 DEF NoCall
<1>4. call' \in Calls
  BY <1>1 DEF NoCall, Calls, Kinds, Replies, Raised, Errors
<1>5. Ranges(call') /\ Overtaken(call') /\ Mocked(call')
  BY <1>2, <1>3 DEF Ranges, Executions, Overtaken, Mocked
<1>6. Counted(call') /\ Limited(call')
  <2>1. /\ (1 - 1) * Attempts + (1 - 1) = 0
        /\ (1 - 1) * Longest + (1 - 1) * Requests = 0
    BY <1>2
  <2> QED BY <1>3, <2>1 DEF Counted, Limited
<1>7. Refused(call')
  BY <1>3 DEF Refused
<1> QED BY <1>1, <1>4, <1>5, <1>6, <1>7, UseStep DEF CallInv

LEMMA Serving ==
  ASSUME IInv, call.step # "idle"
  PROVE  /\ phase = "serving" /\ env \in Environments /\ Loads(env) /\ call \in Calls
<1>1. phase = "serving" /\ env \in Environments /\ call \in Calls
  BY DEF IInv, TypeOK, Started, NoCall
<1>2. Loads(env)
  BY <1>1 DEF IInv, Started
<1> QED BY <1>1, <1>2

LEMMA MockLimit ==
  ASSUME IInv, call.step # "idle" PROVE call.run * Longest \in Nat
<1>1. call.run \in Nat /\ Longest \in Nat
  BY Serving, Sizes DEF Calls
<1> QED BY <1>1, ProductTyped

LEMMA MockInv == ASSUME IInv, AskMock PROVE IInv'
<1>1. phase = "serving" /\ call \in Calls /\ call.step = "asking" /\ provider = "mock"
  BY Serving DEF AskMock
<1>2. Fitting \in Replies /\ Fitting.error = "none"
  BY DEF Fitting, Text, Replies, Answers, Forms, Payloads
<1>3. call' = After(call, Fitting) /\ UNCHANGED <<env, phase, tries, worker>>
  BY DEF AskMock, Fitting
<1>4. /\ call' \in Calls /\ call'.kind = call.kind /\ call'.run = call.run
      /\ call'.sent = call.sent /\ call'.lost = call.lost /\ call'.late = call.late
      /\ call'.refusals = call.refusals /\ call'.step = "read"
      /\ call'.attempt = call.attempt /\ call'.reply = Fitting
  BY <1>1, <1>2, <1>3, AfterFields
<1>5. Ranges(call') /\ Overtaken(call') /\ Mocked(call')
  BY <1>1, <1>4 DEF IInv, CallInv, Ranges, Overtaken, Mocked, Executions
<1>6. Limited(call')
  BY <1>1, <1>4, MockLimit DEF IInv, CallInv, Mocked, Limited
<1> QED BY <1>1, <1>3, <1>4, <1>5, <1>6, UseStep DEF CallInv

(* The errors a provider raises are replies; only a refusal is terminal.   *)
LEMMA RepliesFit ==
  ASSUME NEW r \in Failures \cup Statuses \cup Bodies
  PROVE  /\ Reply(r) \in Replies
         /\ (provider = "openai" /\ r = "unauthorized") => Reply(r).error = "terminal"
<1>1. openai(r) \in Replies /\ (r = "unauthorized" => openai(r).error = "terminal")
  BY DEF openai, Raised, Replies, Errors, Failures, Statuses, Bodies
<1>2. compatible(r) \in Replies
  BY DEF compatible, Raised, Text, Replies, Errors, Answers, Forms, Payloads,
         Failures, Statuses, Bodies
<1> QED BY <1>1, <1>2 DEF Reply

LEMMA NetworkInv == ASSUME IInv, NetworkFails \/ NetworkAnswers PROVE IInv'
<1>1. /\ phase = "serving" /\ call \in Calls /\ call.step = "asking" /\ provider # "mock"
      /\ UNCHANGED <<env, phase, tries, worker>>
  BY Serving DEF NetworkFails, NetworkAnswers, Asking
<1>2. PICK r \in Failures \cup Statuses \cup Bodies \cup {"text"},
           i \in 1 .. Requests, reply \in Replies :
        /\ call' = After(Sent(call, r, i), reply)
        /\ (provider = "openai" /\ r = "unauthorized") => reply.error = "terminal"
  <2>1. CASE NetworkFails
    <3> PICK r \in Failures \cup Statuses \cup Bodies, i \in 1 .. Requests :
          call' = After(Sent(call, r, i), Reply(r))
      BY <2>1 DEF NetworkFails
    <3>1. /\ Reply(r) \in Replies
          /\ (provider = "openai" /\ r = "unauthorized") => Reply(r).error = "terminal"
      BY RepliesFit
    <3> QED BY <3>1
  <2>2. CASE NetworkAnswers
    <3> PICK a \in Answers, i \in 1 .. Requests :
          call' = After(Sent(call, "text", i), Text(a))
      BY <2>2 DEF NetworkAnswers
    <3>1. Text(a) \in Replies
      BY DEF Text, Replies
    <3>2. "text" # "unauthorized"
      OBVIOUS
    <3> QED BY <3>1, <3>2
  <2> QED BY <2>1, <2>2
<1> DEFINE c == Sent(call, r, i)
           k == IF r = "unauthorized" THEN 1 ELSE 0
<1>3. /\ c \in Calls /\ c.sent = call.sent + i /\ c.lost = call.lost /\ c.late = call.late
      /\ c.refusals = call.refusals + k /\ c.kind = call.kind /\ c.run = call.run
      /\ c.attempt = call.attempt /\ c.step = call.step
  <2>1. Requests \in Nat
    BY <1>1, Serving, Sizes
  <2>2. i \in Nat
    BY <2>1
  <2> QED BY <1>1, <2>2, SentFields
<1>4. k \in {0, 1} /\ (k = 1 => r = "unauthorized")
  OBVIOUS
<1>5. call' = After(c, reply)
  BY <1>2
<1> HIDE DEF c, k
<1>6. After(c, reply) \in Calls /\ CallInv(After(c, reply))
  BY <1>1, <1>2, <1>3, <1>4, AskedInv
<1> QED BY <1>1, <1>5, <1>6, UseStep

LEMMA StoreInv == ASSUME IInv, Store PROVE IInv'
<1>1. /\ phase = "serving" /\ call \in Calls /\ call.step = "read"
      /\ UNCHANGED <<env, phase, tries, worker>>
      /\ call' = [call EXCEPT !.step = "stored"]
  BY Serving DEF Store
<1>2. /\ call' \in Calls /\ call'.kind = call.kind /\ call'.run = call.run
      /\ call'.sent = call.sent /\ call'.lost = call.lost /\ call'.late = call.late
      /\ call'.refusals = call.refusals /\ call'.step = "stored"
      /\ call'.attempt = call.attempt /\ call'.reply = call.reply
  BY <1>1 DEF Calls
<1>3. call.reply.error # "terminal"
  BY <1>1 DEF Store, Usable, Calls, Replies
<1>4. CallInv(call')
  BY <1>1, <1>2, <1>3 DEF IInv, CallInv, Ranges, Overtaken, Mocked, Counted, Limited, Refused, Executions
<1> QED BY <1>1, <1>2, <1>4, UseStep

(* What the mock answers is never given up.                                *)
LEMMA GiveUpInv == ASSUME IInv, GiveUp PROVE IInv'
<1> DEFINE s == IF call.reply.error = "transport" /\ call.kind # "dialogue"
                  THEN "retryable" ELSE "failed"
<1>1. /\ phase = "serving" /\ call \in Calls /\ call.step = "read"
      /\ UNCHANGED <<env, phase, tries, worker>>
      /\ call' = [call EXCEPT !.step = s]
  BY Serving DEF GiveUp
<1>2. /\ call' \in Calls /\ call'.kind = call.kind /\ call'.run = call.run
      /\ call'.sent = call.sent /\ call'.lost = call.lost /\ call'.late = call.late
      /\ call'.refusals = call.refusals /\ call'.step = s
      /\ call'.attempt = call.attempt /\ call'.reply = call.reply
  BY <1>1 DEF Calls
<1>3. provider # "mock"
  <2>1. Accepts(call.kind, "fitting")
    BY <1>1 DEF Accepts, Calls, Kinds
  <2>2. ASSUME call.reply = Fitting PROVE Usable(call)
    <3> DEFINE a == [form |-> "object", payload |-> "fitting"]
    <3>1. call.reply.answer = {a}
      BY <2>2 DEF Fitting, Text
    <3>2. a.payload = "fitting" /\ a.form = "object"
      OBVIOUS
    <3> HIDE DEF a
    <3>3. Parsed(a) /\ Accepts(call.kind, a.payload)
      BY <2>1, <3>2 DEF Parsed
    <3> QED BY <3>1, <3>3 DEF Usable
  <2> QED BY <1>1, <2>2 DEF GiveUp, IInv, CallInv, Mocked
<1>4. CallInv(call')
  BY <1>1, <1>2, <1>3 DEF IInv, CallInv, Ranges, Overtaken, Counted, Limited, Refused, Executions
<1> QED BY <1>1, <1>2, <1>4, UseStep

LEMMA ExhaustInv == ASSUME IInv, Exhaust PROVE IInv'
<1>1. /\ phase = "serving" /\ call \in Calls /\ call.step = "retryable"
      /\ UNCHANGED <<env, phase, tries, worker>>
      /\ call' = [call EXCEPT !.step = "failed"]
  BY Serving DEF Exhaust
<1>2. /\ call' \in Calls /\ call'.kind = call.kind /\ call'.run = call.run
      /\ call'.sent = call.sent /\ call'.lost = call.lost /\ call'.late = call.late
      /\ call'.refusals = call.refusals /\ call'.step = "failed"
      /\ call'.attempt = call.attempt /\ call'.reply = call.reply
  BY <1>1 DEF Calls
<1>3. CallInv(call')
  BY <1>1, <1>2 DEF IInv, CallInv, Ranges, Overtaken, Mocked, Counted, Limited, Refused, Executions
<1> QED BY <1>1, <1>2, <1>3, UseStep

(* Another execution begins where the bound of the one before ends.        *)
LEMMA NextRun ==
  ASSUME IInv, call.step # "idle", UNCHANGED <<env, phase, tries, worker>>,
         NEW c \in Calls, call' = c, c.kind = call.kind, call.kind # "dialogue",
         c.step = "asking", c.run = call.run + 1, c.attempt = 1,
         c.run <= config.job_max_attempts + c.lost, Overtaken(c),
         c.sent <= call.run * Longest,
         provider = "mock" => c.sent = 0 /\ c.refusals = 0,
         c.lost = 0 => provider # "mock" /\ c.sent >= call.run * Attempts,
         provider = "openai" => c.refusals = 0
  PROVE  IInv'
<1>1. phase = "serving" /\ env \in Environments /\ Loads(env) /\ call \in Calls
  BY Serving
<1>2. /\ Attempts \in Nat \ {0} /\ config.job_max_attempts \in Nat \ {0}
      /\ Requests \in Nat /\ Longest \in Nat
  BY <1>1, Sizes
<1>3. call.run \in Nat /\ c.run - 1 = call.run /\ c.lost \in Nat /\ c.sent \in Nat
  BY <1>1 DEF Calls
<1>4. Ranges(c)
  BY <1>2, <1>3 DEF Ranges, Executions
<1>5. (1 - 1) * Requests = 0 /\ call.run * Longest \in Nat /\ call.run * Attempts \in Nat
  BY <1>2, <1>3, ProductTyped
<1>6. Limited(c)
  BY <1>3, <1>5 DEF Limited
<1>7. provider # "mock" => Counted(c)
  BY <1>3, <1>5 DEF Counted
<1>8. Mocked(c) \/ provider # "mock"
  BY DEF Mocked
<1>9. provider = "openai" => Refused(c)
  BY DEF Refused
<1> QED BY <1>1, <1>4, <1>6, <1>7, <1>8, <1>9, UseStep DEF CallInv

(* A job is queued again by the execution at hand only after all attempts. *)
LEMMA RequeueInv == ASSUME IInv, Requeue PROVE IInv'
<1> DEFINE c == [call EXCEPT !.step = "asking", !.run = call.run + 1, !.attempt = 1]
<1>1. /\ phase = "serving" /\ call \in Calls /\ call.step = "retryable"
      /\ env \in Environments /\ Loads(env)
      /\ call.run < config.job_max_attempts
      /\ UNCHANGED <<env, phase, tries, worker>> /\ call' = c
  BY Serving DEF Requeue
<1>2. config.job_max_attempts \in Nat \ {0}
  BY <1>1, ConfigTyped
<1>3. /\ provider # "mock" /\ call.kind # "dialogue"
      /\ call.lost = 0 => call.sent >= call.run * Attempts
      /\ call.sent <= call.run * Longest
      /\ provider = "openai" => call.refusals = 0
      /\ Overtaken(call)
  BY <1>1 DEF IInv, CallInv, Mocked, Counted, Limited, Refused
<1>4. call.run \in Nat /\ call.run + 1 \in Nat /\ call.lost \in Nat /\ call.late \in Nat
  BY <1>1 DEF Calls
<1>5. /\ c \in Calls /\ c.kind = call.kind /\ c.run = call.run + 1
      /\ c.sent = call.sent /\ c.lost = call.lost /\ c.late = call.late
      /\ c.refusals = call.refusals /\ c.step = "asking" /\ c.attempt = 1
  BY <1>1, <1>4 DEF Calls
<1> HIDE DEF c
<1>6. c.run <= config.job_max_attempts + c.lost /\ Overtaken(c)
  <2>1. call.late <= call.lost
    BY <1>3 DEF Overtaken
  <2>2. /\ call.run + 1 <= config.job_max_attempts + call.lost
        /\ call.run + 1 + call.late <= config.job_max_attempts + call.lost
    BY <1>1, <1>2, <1>4, <2>1
  <2>3. /\ c.late <= c.lost
        /\ c.run <= config.job_max_attempts + c.lost
        /\ c.run + c.late <= config.job_max_attempts + c.lost
    BY <1>5, <2>1, <2>2
  <2>4. c.kind # "dialogue" /\ c.step # "idle"
    BY <1>3, <1>5
  <2> QED BY <2>3, <2>4 DEF Overtaken
<1> QED BY <1>1, <1>3, <1>5, <1>6, NextRun

LEMMA RemainingTyped ==
  ASSUME IInv, call.step # "idle" PROVE Remaining \in Nat
<1>1. Attempts \in Nat /\ Requests \in Nat
  BY Serving, Sizes
<1>2. call.attempt \in 1 .. Attempts
  BY Serving DEF IInv, CallInv, Ranges
<1>3. Attempts - call.attempt + 1 \in Nat
  BY <1>1, <1>2
<1>4. Requests * (Attempts - call.attempt + 1) \in Nat
  BY <1>1, <1>3, ProductTyped
<1> QED BY <1>4 DEF Remaining, Attempts

(* What an overtaken execution may still send stays within its own bound.  *)
LEMMA RemainingBound ==
  ASSUME IInv, call.step # "idle", NEW rest \in 0 .. Remaining
  PROVE  /\ rest \in Nat /\ call.sent + rest <= call.run * Longest
         /\ provider = "mock" => call.sent + rest = 0
<1>1. env \in Environments /\ Loads(env) /\ call \in Calls /\ phase = "serving"
  BY Serving
<1>2. /\ Attempts \in Nat \ {0} /\ config.job_max_attempts \in Nat \ {0}
      /\ Requests \in Nat /\ Longest \in Nat /\ (provider = "mock" => Requests = 0)
  BY <1>1, Sizes
<1>3. call.sent \in Nat /\ call.run \in Nat /\ call.attempt \in Nat /\ call.lost \in Nat
  BY <1>1 DEF Calls
<1>4. /\ call.run \in 1 .. Executions(call) /\ call.attempt \in 1 .. Attempts
      /\ Limited(call) /\ (provider = "mock" => call.sent = 0)
  BY <1>1 DEF IInv, CallInv, Ranges, Mocked
<1>5. Executions(call) \in Nat
  BY <1>2, <1>3 DEF Executions
<1>6. call.run - 1 \in Nat /\ call.attempt - 1 \in Nat /\ Attempts - call.attempt + 1 \in Nat
      /\ Attempts - call.attempt + 1 = Attempts - (call.attempt - 1)
  BY <1>2, <1>3, <1>4, <1>5
<1>7. CASE call.step = "asking"
  <2> DEFINE m == (call.run - 1) * Longest
             o == call.run * Longest
             e == (call.attempt - 1) * Requests
             g == Requests * (Attempts - call.attempt + 1)
  <2>1. o = m + Longest /\ m \in Nat /\ o \in Nat
    <3>1. ((call.run - 1) + 1) * Longest = m + Longest /\ (call.run - 1) + 1 = call.run
      BY <1>2, <1>3, <1>6, ProductSucc
    <3>2. m \in Nat /\ o \in Nat
      BY <1>2, <1>3, <1>6, ProductTyped
    <3> QED BY <3>1, <3>2
  <2>2. e + g = Longest /\ e \in Nat /\ g \in Nat
    <3>1. \A x, y, z \in Nat : x * z + z * y = z * (x + y)
      OBVIOUS
    <3>2. (call.attempt - 1) + (Attempts - call.attempt + 1) = Attempts
      BY <1>2, <1>3
    <3>3. e + g = Requests * ((call.attempt - 1) + (Attempts - call.attempt + 1))
      BY <1>2, <1>6, <3>1
    <3>4. e + g = Longest
      BY <3>2, <3>3 DEF Longest
    <3>5. e \in Nat /\ g \in Nat
      BY <1>2, <1>6, ProductTyped
    <3> QED BY <3>4, <3>5
  <2>3. Remaining = g
    BY <1>7 DEF Remaining, Attempts
  <2>4. call.sent <= m + e
    BY <1>4, <1>7 DEF Limited
  <2>5. provider = "mock" => g = 0
    BY <1>2, <1>6
  <2> HIDE DEF m, o, e, g
  <2>6. rest \in Nat /\ rest <= g
    BY <2>2, <2>3
  <2>7. call.sent + rest <= o
    BY <1>2, <1>3, <2>1, <2>2, <2>4, <2>6
  <2>8. provider = "mock" => call.sent + rest = 0
    BY <1>3, <1>4, <2>5, <2>6
  <2> QED BY <2>6, <2>7, <2>8 DEF o
<1>8. CASE call.step # "asking"
  <2>1. rest = 0
    BY <1>8 DEF Remaining
  <2>2. call.sent <= call.run * Longest
    BY <1>4, <1>8 DEF Limited
  <2>3. call.sent + rest = call.sent
    BY <1>3, <2>1
  <2> QED BY <1>3, <1>4, <2>1, <2>2, <2>3
<1> QED BY <1>7, <1>8

(* An execution takes the place of another: recovery pays for one more, an *)
(* overtaken execution that requeues the job was paid for.                 *)
LEMMA AgainInv ==
  ASSUME IInv, call.step # "idle", call.kind # "dialogue",
         NEW lost \in Nat, NEW late \in Nat, Again(lost, late),
         lost > 0,
         \/ lost = call.lost + 1 /\ late = call.late
         \/ lost = call.lost /\ late + 1 = call.late
  PROVE  IInv'
<1> DEFINE new == IF call.run < config.job_max_attempts THEN 1 ELSE 0
<1>1. phase = "serving" /\ env \in Environments /\ Loads(env) /\ call \in Calls
  BY Serving
<1>2. config.job_max_attempts \in Nat \ {0}
  BY <1>1, ConfigTyped
<1>3. PICK rest \in 0 .. Remaining :
        call' = [call EXCEPT !.step = "asking", !.run = call.run + 1, !.attempt = 1,
                             !.refusals = 0, !.sent = call.sent + rest, !.lost = lost,
                             !.late = late + new]
  BY <1>1 DEF Again, Calls
<1>4. /\ rest \in Nat /\ call.sent + rest <= call.run * Longest
      /\ provider = "mock" => call.sent + rest = 0
  BY RemainingBound
<1>5. /\ call.run \in Nat /\ call.run + 1 \in Nat /\ call.sent + rest \in Nat
      /\ late + new \in Nat /\ call.lost \in Nat /\ call.late \in Nat
  BY <1>1, <1>4 DEF Calls
<1> DEFINE c == [call EXCEPT !.step = "asking", !.run = call.run + 1, !.attempt = 1,
                             !.refusals = 0, !.sent = call.sent + rest, !.lost = lost,
                             !.late = late + new]
<1> HIDE DEF new
<1>6. /\ c \in Calls /\ c.kind = call.kind /\ c.run = call.run + 1
      /\ c.sent = call.sent + rest /\ c.lost = lost /\ c.late = late + new
      /\ c.refusals = 0 /\ c.step = "asking" /\ c.attempt = 1
  BY <1>1, <1>5 DEF Calls
<1>7. call' = c
  BY <1>3
<1> HIDE DEF c
<1>8. Overtaken(call)
  BY <1>1 DEF IInv, CallInv
<1>9. new = IF call.run < config.job_max_attempts THEN 1 ELSE 0
  BY DEF new
<1>10. c.late <= c.lost
  BY <1>5, <1>6, <1>8, <1>9 DEF Overtaken
<1>11. call.run + 1 >= config.job_max_attempts
         => call.run + 1 + (late + new) <= config.job_max_attempts + lost
  <2>1. CASE call.run < config.job_max_attempts
    BY <1>2, <1>5, <1>6, <1>10, <2>1
  <2>2. CASE ~(call.run < config.job_max_attempts)
    <3>1. call.run + call.late <= config.job_max_attempts + call.lost
      BY <1>2, <1>5, <1>8, <2>2 DEF Overtaken
    <3>2. new = 0
      BY <1>9, <2>2
    <3> QED BY <1>2, <1>5, <3>1, <3>2
  <2> QED BY <2>1, <2>2
<1>12. c.run <= config.job_max_attempts + c.lost
  BY <1>2, <1>5, <1>6, <1>11
<1>13. Overtaken(c)
  BY <1>6, <1>10, <1>11 DEF Overtaken
<1>14. c.lost # 0 /\ UNCHANGED <<env, phase, tries, worker>>
  BY <1>6 DEF Again
<1> QED BY <1>4, <1>6, <1>7, <1>12, <1>13, <1>14, NextRun

LEMMA OvertakenInv == ASSUME IInv, Recover \/ LateRequeue PROVE IInv'
<1>1. call \in Calls
  BY DEF IInv, TypeOK
<1>2. CASE Recover
  <2>1. call.lost + 1 \in Nat /\ call.late \in Nat /\ call.lost + 1 > 0
    BY <1>1 DEF Calls
  <2>2. call.step # "idle" /\ call.kind # "dialogue" /\ Again(call.lost + 1, call.late)
    BY <1>2 DEF Recover
  <2> QED BY <2>1, <2>2, AgainInv
<1>3. CASE LateRequeue
  <2>1. call.late > 0 /\ Again(call.lost, call.late - 1)
    BY <1>3 DEF LateRequeue
  <2>2. phase = "serving"
    BY <1>1, <2>1 DEF IInv, Started, NoCall
  <2>3. Overtaken(call) /\ Limited(call)
    BY <2>2 DEF IInv, CallInv
  <2>4. call.kind # "dialogue" /\ call.late <= call.lost
    BY <1>1, <2>1, <2>3 DEF Overtaken
  <2>5. /\ call.lost \in Nat /\ call.lost > 0 /\ call.late - 1 \in Nat
        /\ call.late - 1 + 1 = call.late
    BY <1>1, <2>1, <2>4 DEF Calls
  <2>6. call.step # "idle"
    BY <1>1, <2>1, <2>3 DEF Overtaken
  <2> QED BY <2>1, <2>4, <2>5, <2>6, AgainInv
<1> QED BY <1>2, <1>3
-----------------------------------------------------------------------------
(* The invariant                                                           *)

LEMMA InitInv == Init => IInv
<1> SUFFICES ASSUME Init PROVE IInv
  OBVIOUS
<1>1. env \in Environments /\ phase = "starting" /\ tries = 5 /\ ~worker /\ worker \in BOOLEAN
      /\ call = NoCall
  BY DEF Init, DEFAULT_DB_RETRIES
<1>2. call.step = "idle"
  BY <1>1 DEF NoCall
<1>3. call \in Calls /\ CallInv(call)
  BY <1>1, IdleInv DEF CallInv
<1>4. TypeOK
  BY <1>1, <1>3 DEF TypeOK, DEFAULT_DB_RETRIES
<1>5. Started
  BY <1>1, <1>2 DEF Started
<1> QED BY <1>3, <1>4, <1>5 DEF IInv

LEMMA RuntimeEnabledTyped ==
  ASSUME env \in Environments PROVE config.runtime_enabled \in BOOLEAN
<1>1. IsEnvironment(env)
  BY ServiceAssumption
<1>2. Value(env.ANALYSIS_RUNTIME_ENABLED, FALSE) \in BOOLEAN
  <2>1. env.ANALYSIS_RUNTIME_ENABLED \in SUBSET BOOLEAN
    BY <1>1 DEF IsEnvironment, IsOptional
  <2> QED BY <2>1, ValueTyped
<1>3. config.runtime_enabled = (~Testing(env) /\ Value(env.ANALYSIS_RUNTIME_ENABLED, FALSE))
  BY DEF config, _resolve_runtime_config
<1> QED BY <1>2, <1>3

LEMMA StartupInv == ASSUME IInv, Startup PROVE IInv'
<1>1. /\ env \in Environments /\ UNCHANGED <<env, call>>
      /\ phase \in {"starting", "checking"} /\ ~worker /\ worker \in BOOLEAN
      /\ tries \in 1 .. 5
  <2>1. env' = env /\ call' = call /\ phase \in {"starting", "checking"}
    BY DEF Startup, Load, SkipDatabase, DatabaseAnswers, DatabaseSilent
  <2> QED BY <2>1 DEF IInv, TypeOK, Started, DEFAULT_DB_RETRIES
<1>2. call = NoCall /\ call \in Calls
  BY <1>1 DEF IInv, TypeOK, Started
<1>3. config' = config /\ Loads(env)' = Loads(env)
  BY <1>1, EnvironmentStays
<1>4. /\ phase' \in {"checking", "refused", "serving"}
      /\ phase' # "refused" => Loads(env)
      /\ phase' # "refused" => tries' > 0
      /\ tries' \in 0 .. 5
      /\ worker' => phase' = "serving" /\ config.runtime_enabled
      /\ phase' = "serving" /\ config.runtime_enabled => worker'
      /\ worker' \in BOOLEAN
  <2>1. CASE Load
    <3>1. tries' = tries /\ worker' = worker
          /\ phase' = IF Loads(env) THEN "checking" ELSE "refused"
      BY <2>1 DEF Load
    <3> QED BY <1>1, <3>1
  <2>2. CASE SkipDatabase \/ DatabaseAnswers
    <3>1. tries' = tries /\ phase = "checking" /\ phase' = "serving"
          /\ worker' = config.runtime_enabled
      BY <2>2 DEF SkipDatabase, DatabaseAnswers, start_runtime_worker,
                  should_start_runtime_worker
    <3>2. Loads(env)
      BY <3>1 DEF IInv, Started
    <3>3. config.runtime_enabled \in BOOLEAN
      BY <1>1, RuntimeEnabledTyped
    <3> QED BY <1>1, <3>1, <3>2, <3>3
  <2>3. CASE DatabaseSilent
    <3>1. tries' = tries - 1 /\ worker' = worker /\ phase = "checking"
          /\ phase' = IF tries' = 0 THEN "refused" ELSE "checking"
      BY <2>3 DEF DatabaseSilent
    <3>2. Loads(env)
      BY <3>1 DEF IInv, Started
    <3> QED BY <1>1, <3>1, <3>2
  <2> QED BY <2>1, <2>2, <2>3 DEF Startup
<1>5. TypeOK'
  BY <1>1, <1>2, <1>4 DEF TypeOK, DEFAULT_DB_RETRIES
<1>6. Started'
  BY <1>1, <1>2, <1>3, <1>4 DEF Started
<1>7. CallInv(call)'
  <2>1. ASSUME phase' = "serving"
        PROVE  /\ Ranges(NoCall) /\ Overtaken(NoCall) /\ Mocked(NoCall)
               /\ Counted(NoCall) /\ Limited(NoCall) /\ Refused(NoCall)
    BY <1>1, <1>4, <2>1, IdleInv
  <2>2. /\ config' = config /\ provider' = provider /\ Requests' = Requests
        /\ Longest' = Longest /\ Attempts' = Attempts
    BY <1>1, EnvironmentStays
  <2> QED BY <1>1, <1>2, <2>1, <2>2
          DEF CallInv, Ranges, Overtaken, Mocked, Counted, Limited, Refused, Executions
<1> QED BY <1>5, <1>6, <1>7 DEF IInv

LEMMA UnchangedInv == ASSUME IInv, UNCHANGED vars PROVE IInv'
<1>1. UNCHANGED <<env, phase, tries, worker>> /\ call' = call
  BY DEF vars
<1>2. /\ config' = config /\ provider' = provider /\ Requests' = Requests
      /\ Longest' = Longest /\ Attempts' = Attempts /\ Loads(env)' = Loads(env)
  BY <1>1, EnvironmentStays
<1>3. TypeOK'
  BY <1>1 DEF IInv, TypeOK
<1>4. Started'
  BY <1>1, <1>2 DEF IInv, Started, NoCall, Raised
<1>5. CallInv(call)'
  BY <1>1, <1>2 DEF IInv, CallInv, Ranges, Overtaken, Mocked, Counted, Limited, Refused, Executions
<1> QED BY <1>3, <1>4, <1>5 DEF IInv

LEMMA StepInv == IInv /\ [Next]_vars => IInv'
<1> SUFFICES ASSUME IInv, [Next]_vars PROVE IInv'
  OBVIOUS
<1>1. CASE Startup
  BY <1>1, StartupInv
<1>2. CASE AskMock
  BY <1>2, MockInv
<1>3. CASE NetworkFails \/ NetworkAnswers
  BY <1>3, NetworkInv
<1>4. CASE Store
  BY <1>4, StoreInv
<1>5. CASE GiveUp
  BY <1>5, GiveUpInv
<1>6. CASE Requeue
  BY <1>6, RequeueInv
<1>7. CASE Exhaust
  BY <1>7, ExhaustInv
<1>8. CASE \E kind \in Kinds : Begin(kind)
  BY <1>8, BeginInv
<1>9. CASE Recover \/ LateRequeue
  BY <1>9, OvertakenInv
<1>10. CASE UNCHANGED vars
  BY <1>10, UnchangedInv
<1> QED
  BY <1>1, <1>2, <1>3, <1>4, <1>5, <1>6, <1>7, <1>8, <1>9, <1>10 DEF Next, Work

LEMMA InductiveInvariant == Spec => []IInv
BY InitInv, StepInv, PTL DEF Spec
-----------------------------------------------------------------------------
(* The theorems                                                            *)

(* Every reachable state has its type.                                     *)
THEOREM TypeCorrect == Spec => []TypeOK
<1>1. IInv => TypeOK
  BY DEF IInv
<1> QED BY InductiveInvariant, <1>1, PTL

(* Whatever provider, key and worker the environment names, a process in   *)
(* test mode sends nothing and runs no worker: _resolve_runtime_config     *)
(* overrides the three.                                                    *)
THEOREM OfflineTests == Spec => []TestModeIsOffline
<1>1. IInv => TestModeIsOffline
  <2> SUFFICES ASSUME IInv, Testing(env) PROVE call.sent = 0 /\ ~worker
    BY DEF TestModeIsOffline
  <2>1. provider = "mock" /\ ~config.runtime_enabled
    BY TestingOverrides
  <2>2. ~worker
    BY <2>1 DEF IInv, Started
  <2>3. CASE phase = "serving"
    BY <2>1, <2>2, <2>3 DEF IInv, CallInv, Mocked
  <2>4. CASE phase # "serving"
    BY <2>2, <2>4 DEF IInv, Started, NoCall
  <2> QED BY <2>3, <2>4
<1> QED BY InductiveInvariant, <1>1, PTL

(* A production process that serves has a worker, a key and a provider     *)
(* that is no mock, its database has answered, and what it stores has been *)
(* asked for (_validate_prod_config, validate_infra).                      *)
THEOREM RealProduction == Spec => []ProductionIsReal
<1>1. IInv => ProductionIsReal
  <2> SUFFICES ASSUME IInv, phase = "serving", Mode(env) = "prod"
               PROVE  /\ worker /\ env.OPENAI_API_KEY /\ provider # "mock" /\ tries > 0
                      /\ call.step = "stored" => call.sent > 0
    BY DEF ProductionIsReal
  <2>1. Loads(env) /\ tries > 0
    BY DEF IInv, Started
  <2>2. config.env_mode = "prod" /\ ~Testing(env)
    BY DEF config, _resolve_runtime_config, Testing
  <2>3. config.openai_api_key /\ config.llm_provider # "mock" /\ config.runtime_enabled
    BY <2>1, <2>2 DEF Loads, validate_config, _validate_prod_config, config
  <2>4. worker
    BY <2>3 DEF IInv, Started
  <2>5. env.OPENAI_API_KEY
    BY <2>2, <2>3 DEF config, _resolve_runtime_config
  <2>6. provider # "mock"
    BY <2>3 DEF provider
  <2>7. call.step = "stored" => call.sent > 0
    BY <2>6 DEF IInv, CallInv, Counted
  <2> QED BY <2>1, <2>4, <2>5, <2>6, <2>7
<1> QED BY InductiveInvariant, <1>1, PTL

(* An execution that got a refusal of the OpenAI API neither asks again    *)
(* nor puts its job back: _is_terminal_sdk_error is no transport error,    *)
(* which alone is worth an attempt or an execution.                        *)
THEOREM RefusalsAreFinal == Spec => []RefusalIsFinal
<1>1. IInv => RefusalIsFinal
  <2> SUFFICES ASSUME IInv, provider = "openai"
               PROVE  /\ call.refusals <= 1
                      /\ call.refusals = 1 => call.step \notin {"asking", "retryable"}
    BY DEF RefusalIsFinal
  <2>1. CASE phase = "serving"
    BY <2>1 DEF IInv, CallInv, Refused
  <2>2. CASE phase # "serving"
    BY <2>2 DEF IInv, Started, NoCall
  <2> QED BY <2>1, <2>2
<1> QED BY InductiveInvariant, <1>1, PTL

(* The tries of the SDK, the attempts of generate_with_retry and the        *)
(* executions of the job multiply, and the executions are max_attempts and *)
(* one for each that was lost or overtaken: the requeue of an overtaken    *)
(* execution (_handle_retryable_failure) adds none beyond the recovery     *)
(* that overtook it (_recover_stale_running_jobs).                         *)
THEOREM RequestsStayBounded == Spec => []RequestsBounded
<1>1. IInv => RequestsBounded
  <2> SUFFICES ASSUME IInv, phase = "serving"
               PROVE  /\ call.sent <= Requests * Attempts * Executions(call)
                      /\ call.run > 1 /\ call.lost = 0
                           => call.sent >= (call.run - 1) * Attempts
    BY DEF RequestsBounded, Attempts, Executions
  <2>1. /\ Attempts \in Nat \ {0} /\ config.job_max_attempts \in Nat \ {0}
        /\ Requests \in Nat /\ (provider = "mock" => Requests = 0)
        /\ Longest \in Nat /\ call \in Calls
    BY Sizes DEF IInv, TypeOK, Started
  <2>2. call.run \in Nat /\ call.sent \in Nat /\ call.lost \in Nat
    BY <2>1 DEF Calls
  <2>3. Executions(call) \in Nat \ {0} /\ Longest * Executions(call) \in Nat
    BY <2>1, <2>2, ProductTyped DEF Executions
  <2>4. CASE call.step = "idle"
    BY <2>1, <2>2, <2>3, <2>4 DEF IInv, CallInv, Limited, Longest
  <2>5. CASE call.step # "idle"
    <3>1. /\ call.run \in 1 .. Executions(call) /\ call.attempt \in 1 .. Attempts
          /\ Limited(call) /\ (provider # "mock" => Counted(call))
          /\ (provider = "mock" => Mocked(call))
      BY <2>5 DEF IInv, CallInv, Ranges
    <3> DEFINE o == call.run * Longest
    <3>2. o <= Longest * Executions(call) /\ o \in Nat
      BY <2>1, <2>2, <2>3, <3>1, ProductMonotone, ProductCommutes, ProductTyped
    <3>3. call.sent <= o
      <4>1. call.sent + 0 <= o
        <5>1. 0 \in 0 .. Remaining
          BY <2>5, RemainingTyped
        <5> QED BY <2>5, <5>1, RemainingBound
      <4> QED BY <2>2, <4>1
    <3> HIDE DEF o
    <3>4. call.sent <= Longest * Executions(call)
      BY <2>2, <2>3, <3>2, <3>3
    <3>5. call.run > 1 /\ call.lost = 0 => call.sent >= (call.run - 1) * Attempts
      <4>1. CASE provider = "mock"
        BY <2>2, <3>1, <4>1 DEF Mocked
      <4>2. CASE provider # "mock"
        <5> DEFINE m == (call.run - 1) * Attempts
        <5>1. m \in Nat /\ call.attempt - 1 \in Nat
          BY <2>1, <2>2, <2>3, <3>1, ProductTyped
        <5>2. call.lost = 0 => \/ call.sent >= m + (call.attempt - 1)
                               \/ call.sent >= m
          BY <2>5, <3>1, <4>2 DEF Counted
        <5> HIDE DEF m
        <5>3. call.lost = 0 => call.sent >= m
          BY <2>2, <5>1, <5>2
        <5> QED BY <5>3 DEF m
      <4> QED BY <4>1, <4>2
    <3> QED BY <3>4, <3>5 DEF Longest
  <2> QED BY <2>4, <2>5
<1> QED BY InductiveInvariant, <1>1, PTL
=============================================================================
