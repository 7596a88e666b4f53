------------------------------- MODULE Ingress -------------------------------
(***************************************************************************)
(* One user's messages on their way into the database: Telegram or the     *)
(* bot, the request handlers, process_incoming_message, the user's dream   *)
(* sessions and the rows a message leaves behind.  Every query is          *)
(* restricted to one user, so one user is modelled.                        *)
(*                                                                         *)
(* A request is one READ COMMITTED transaction (db_setup.get_session) that *)
(* commits after the handler has returned and before the response goes     *)
(* out.  An action is a statement that reads what others write, or that    *)
(* may wait for a row lock; inserts, which nobody sees before the commit,  *)
(* belong to the statement they follow.  The lock of a session row is held *)
(* from its UPDATE to the end of the transaction, the model call included. *)
(***************************************************************************)
EXTENDS DialoguePolicy, FiniteSets

CONSTANTS
  Updates,        \* the user's messages
  Mail,           \* what they may be: functions from Updates to Messages
  Handlers,       \* requests the API serves at the same time
  SessionIds,     \* bound: session rows
  MaxDeliveries,  \* bound: times Telegram posts one update
  MaxFaults,      \* bound: failures, lost responses, early repeats, crashes
  MaxAged         \* bound: times a session passes INACTIVITY_THRESHOLD

(* Telegram posts to /webhook; the aiogram bot polls and calls POST        *)
(* /dreams.                                                                *)
Channels == {"webhook", "bot"}
Messages == [via : Channels, text : Texts]

ASSUME IngressAssumption ==
  /\ Updates # {} /\ Mail \subseteq [Updates -> Messages]
  /\ SessionIds \subseteq Nat \ {0}
  /\ MaxDeliveries \in Nat /\ MaxFaults \in Nat /\ MaxAged \in Nat

VARIABLES
  mail,        \* the messages the user sends
  deliveries,  \* times each was handed to the API
  acked,       \* updates answered with 200: Telegram does not repeat them
  chat,        \* what the user sees in return
  requests,    \* the handlers' transactions
  clock,       \* transactions begun: their order is that of func.now()
  sessions,    \* dream_sessions
  turns,       \* conversation_turns
  dreams,      \* dreams
  jobs,        \* analysis_jobs
  traces,      \* dialogue_policy_traces
  faults, aged,
  raced        \* history: the sessions changed under an open transaction

outside == <<mail, deliveries, acked>>
tables == <<turns, dreams, jobs, traces>>
history == <<faults, aged, raced>>
vars == <<outside, chat, requests, clock, sessions, tables, history>>

(* A row carries the number of the transaction that inserted it.  NULL is  *)
(* session 0 and dream 0; a transaction inserts at most one dream.         *)
Runs == Nat
Turns == [run : Runs, update : Updates, role : {"user", "assistant"},
          route : Routes, session : SessionIds, dream : Runs]
Dreams == [run : Runs, update : Updates, session : SessionIds]
Jobs == [run : Runs, session : SessionIds, dream : Runs]
Traces == [run : Runs, update : Updates, route : Routes,
           session : SessionIds \cup {0}, dream : Runs, job : Runs]
Shown == [run : Runs, update : Updates, text : {"reply", "error"}]
SessionRow == [status : {"absent", "active", "closed"}, born : Runs, stale : BOOLEAN]

(* The steps of a request:                                                 *)
(*   evaluating      DialoguePolicyRouter.evaluate                         *)
(*   finding         get_or_create_active_session, for the turns           *)
(*   findingForDream the same again, in register_incoming_dream            *)
(*   closing, closingForDream   close_session of a stale session           *)
(*   touching        update_session_activity and the inserts around it     *)
(*   asking          generate_dialogue_turn                                *)
(*   sending         the replies, to Telegram                              *)
(*   committing, responding                                                *)
InTransaction == {"finding", "findingForDream", "closing", "closingForDream",
                  "touching", "asking", "sending", "committing"}
Steps == {"idle", "evaluating", "responding"} \cup InTransaction

Requests ==
  [step : Steps, update : Updates, run : Runs, route : Routes,
   session : SessionIds \cup {0}, dreamSession : SessionIds \cup {0},
   victim : SessionIds \cup {0},
   opened : SUBSET SessionIds, closed : SUBSET SessionIds, touched : SUBSET SessionIds,
   turns : SUBSET Turns, dreams : SUBSET Dreams, jobs : SUBSET Jobs, traces : SUBSET Traces]

Request(u) ==
  [step |-> "evaluating", update |-> u, run |-> 0, route |-> "ROUTE_NOOP",
   session |-> 0, dreamSession |-> 0, victim |-> 0,
   opened |-> {}, closed |-> {}, touched |-> {},
   turns |-> {}, dreams |-> {}, jobs |-> {}, traces |-> {}]

Rest == [Request(CHOOSE u \in Updates : TRUE) EXCEPT !.step = "idle"]

TypeOK ==
  /\ mail \in Mail
  /\ deliveries \in [Updates -> Nat]
  /\ acked \subseteq Updates
  /\ chat \subseteq Shown
  /\ requests \in [Handlers -> Requests]
  /\ clock \in Runs
  /\ sessions \in [SessionIds -> SessionRow]
  /\ turns \subseteq Turns /\ dreams \subseteq Dreams
  /\ jobs \subseteq Jobs /\ traces \subseteq Traces
  /\ faults \in Nat /\ aged \in Nat /\ raced \in BOOLEAN

(* The user is new, or has a session from earlier messages.                *)
Earlier == {{}, {s \in SessionIds : \A t \in SessionIds : s <= t}}

Init ==
  /\ mail \in Mail
  /\ deliveries = [u \in Updates |-> 0]
  /\ acked = {} /\ chat = {}
  /\ requests = [h \in Handlers |-> Rest]
  /\ clock = 0
  /\ \E earlier \in Earlier :
       sessions = [s \in SessionIds |->
                     [status |-> IF s \in earlier THEN "active" ELSE "absent",
                      born |-> 0, stale |-> FALSE]]
  /\ turns = {} /\ dreams = {} /\ jobs = {} /\ traces = {}
  /\ faults = 0 /\ aged = 0 /\ raced = FALSE
-----------------------------------------------------------------------------
Becomes(h, r) == requests' = [requests EXCEPT ![h] = r]

Open(h) == requests[h].step \in InTransaction
Serving(u) == \E h \in Handlers : requests[h].step # "idle" /\ requests[h].update = u

(* Row locks, held to the end of the transaction.                          *)
Locked(h, s) == \E g \in Handlers \ {h} :
                   s \in requests[g].closed \cup requests[g].touched

(* What a transaction sees of the sessions: the committed rows and its own.*)
(* Mutation: a session the transaction has just made is overlooked.        *)
ActiveCommitted(r) == {s \in SessionIds : sessions[s].status = "active"} \ r.closed

Active(r) == r.opened \cup ({s \in SessionIds : sessions[s].status = "active"} \ r.closed)
Born(r, s) == IF s \in r.opened THEN r.run ELSE sessions[s].born
Newest(r) == {s \in Active(r) : \A t \in Active(r) : Born(r, t) <= Born(r, s)}
(* Mutation: an active session is taken for stale at any age.              *)
StaleAlways(r, s) == s \notin r.opened

Stale(r, s) == s \notin r.opened /\ sessions[s].stale

(* An id no row and no open transaction has.                               *)
Fresh(s) ==
  LET Unused(t) == /\ sessions[t].status = "absent"
                   /\ \A g \in Handlers : t \notin requests[g].opened
  IN  Unused(s) /\ \A t \in SessionIds : Unused(t) => s <= t

Fault == faults < MaxFaults /\ faults' = faults + 1 /\ UNCHANGED <<aged, raced>>
-----------------------------------------------------------------------------
(* Telegram posts an update until it is answered with 200; the bot         *)
(* forwards a message once.                                                *)
Deliver(h, u) ==
  /\ requests[h].step = "idle"
  /\ u \notin acked /\ ~Serving(u)
  /\ deliveries[u] < (IF mail[u].via = "bot" THEN 1 ELSE MaxDeliveries)
  /\ deliveries' = [deliveries EXCEPT ![u] = @ + 1]
  /\ Becomes(h, Request(u))
  /\ UNCHANGED <<mail, acked, chat, clock, sessions, tables, history>>

(* Telegram gives up waiting for the answer and posts the update again     *)
(* while the first handler still works on it.                              *)
DeliverAgain(h, u) ==
  /\ Fault
  /\ requests[h].step = "idle"
  /\ u \notin acked /\ Serving(u)
  /\ mail[u].via = "webhook" /\ deliveries[u] < MaxDeliveries
  /\ deliveries' = [deliveries EXCEPT ![u] = @ + 1]
  /\ Becomes(h, Request(u))
  /\ UNCHANGED <<mail, acked, chat, clock, sessions, tables>>

UserTurn(r) ==
  [run |-> r.run, update |-> r.update, role |-> "user", route |-> r.route,
   session |-> r.session, dream |-> IF r.dreams = {} THEN 0 ELSE r.run]
AssistantTurn(r) == [UserTurn(r) EXCEPT !.role = "assistant"]
(* Mutation: a job for the session of the turns.                           *)
JobForTurns(r) == [run |-> r.run, session |-> r.session, dream |-> r.run]

Dream(r, s) == [run |-> r.run, update |-> r.update, session |-> s]
Job(r) == [run |-> r.run, session |-> r.dreamSession, dream |-> r.run]
Trace(r) ==
  LET own == IF r.dreams = {} THEN 0 ELSE r.run
  IN  [run |-> r.run, update |-> r.update, route |-> r.route,
       session |-> r.session, dream |-> own, job |-> own]

(* The first statement: it begins the transaction, reads the newest active *)
(* session and decides the route.  A message without words is traced, and  *)
(* that is all.                                                            *)
Evaluate(h) ==
  LET r == requests[h]
      state == IF Active(r) = {} THEN "NEW" ELSE "ACTIVE"
      route == decide(build_policy_input(mail[r.update].text, state)).route
      begun == [r EXCEPT !.run = clock + 1, !.route = route]
  IN  /\ r.step = "evaluating"
      /\ clock' = clock + 1
      /\ IF route = "ROUTE_NOOP"
           THEN Becomes(h, [begun EXCEPT !.step = "committing", !.traces = {Trace(begun)}])
           ELSE Becomes(h, [begun EXCEPT !.step = "finding"])
      /\ raced' = (raced \/ \E g \in Handlers \ {h} : Open(g))
      /\ UNCHANGED <<outside, chat, sessions, tables, faults, aged>>

(* A request has its session; a new dream resolves the session once more   *)
(* for the dream itself and is inserted there.                             *)
Resolved(r, s) ==
  IF r.step \in {"findingForDream", "closingForDream"}
    THEN [r EXCEPT !.dreamSession = s, !.dreams = {Dream(r, s)}, !.step = "touching"]
    ELSE [r EXCEPT !.session = s,
                   !.step = IF r.route = "ROUTE_NEW_DREAM"
                              THEN "findingForDream" ELSE "touching"]

FindActive(h) ==
  LET r == requests[h]
  IN  /\ r.step \in {"finding", "findingForDream"}
      /\ \E s \in Newest(r) : ~Stale(r, s) /\ Becomes(h, Resolved(r, s))
      /\ UNCHANGED <<outside, chat, clock, sessions, tables, history>>

FindStale(h) ==
  LET r == requests[h]
      next == IF r.step = "finding" THEN "closing" ELSE "closingForDream"
  IN  /\ r.step \in {"finding", "findingForDream"}
      /\ \E s \in Newest(r) : /\ Stale(r, s)
                              /\ Becomes(h, [r EXCEPT !.step = next, !.victim = s])
      /\ UNCHANGED <<outside, chat, clock, sessions, tables, history>>

(* create_session: the row is the transaction's own until it commits.      *)
CreateSession(r, s) == Resolved([r EXCEPT !.opened = @ \cup {s}], s)

FindNone(h) ==
  LET r == requests[h]
  IN  /\ r.step \in {"finding", "findingForDream"}
      /\ Active(r) = {}
      /\ \E s \in SessionIds : Fresh(s) /\ Becomes(h, CreateSession(r, s))
      /\ UNCHANGED <<outside, chat, clock, sessions, tables, history>>

(* Mutation: the stale session is left open beside the new one.            *)
CloseNothing(h) ==
  LET r == requests[h]
  IN  /\ r.step \in {"closing", "closingForDream"}
      /\ ~Locked(h, r.victim)
      /\ \E s \in SessionIds :
            Fresh(s) /\ Becomes(h, CreateSession([r EXCEPT !.victim = 0], s))
      /\ UNCHANGED <<outside, chat, clock, sessions, tables, history>>

(* close_session updates by id: it waits for the row, and asks nothing of  *)
(* the version it then finds.                                              *)
CloseStale(h) ==
  LET r == requests[h]
  IN  /\ r.step \in {"closing", "closingForDream"}
      /\ ~Locked(h, r.victim)
      /\ \E s \in SessionIds :
            /\ Fresh(s)
            /\ Becomes(h, CreateSession([r EXCEPT !.closed = @ \cup {r.victim},
                                                  !.victim = 0], s))
      /\ UNCHANGED <<outside, chat, clock, sessions, tables, history>>
-----------------------------------------------------------------------------
Target(r) == IF r.route = "ROUTE_NEW_DREAM" THEN r.dreamSession ELSE r.session
(* Mutation: the reply goes out before the commit on every channel.        *)
RepliedEarly(r) == IF mail[r.update].via \in Channels THEN "sending" ELSE "committing"

Replied(r) == IF mail[r.update].via = "webhook" THEN "sending" ELSE "committing"

(* update_session_activity, with the rows each route inserts around it.    *)
Recorded(r) ==
  CASE r.route \in CannedRoutes ->
         [r EXCEPT !.turns = {UserTurn(r), AssistantTurn(r)}, !.traces = {Trace(r)},
                   !.step = Replied(r)]
    [] r.route = "ROUTE_NEW_DREAM" ->
         [r EXCEPT !.jobs = {Job(r)}, !.turns = {UserTurn(r)}, !.traces = {Trace(r)},
                   !.step = "asking"]
    [] OTHER ->
         [r EXCEPT !.turns = {UserTurn(r)}, !.traces = {Trace(r)}, !.step = "asking"]

Touch(h) ==
  LET r == requests[h]
  IN  /\ r.step = "touching"
      /\ ~Locked(h, Target(r))
      /\ Becomes(h, Recorded([r EXCEPT !.touched = @ \cup {Target(r)}]))
      /\ UNCHANGED <<outside, chat, clock, sessions, tables, history>>

ModelAnswers(h) ==
  LET r == requests[h]
  IN  /\ r.step = "asking"
      /\ Becomes(h, [r EXCEPT !.turns = @ \cup {AssistantTurn(r)}, !.step = Replied(r)])
      /\ UNCHANGED <<outside, chat, clock, sessions, tables, history>>

Show(r, text) == chat' = chat \cup {[run |-> r.run, update |-> r.update, text |-> text]}

(* Mutation: the failed transaction is left open, with its row locks.      *)
FailedHolding(h) ==
  /\ Fault
  /\ requests' = [requests EXCEPT ![h].step = "idle"]
  /\ UNCHANGED <<outside, clock, sessions, tables>>

(* The transaction is rolled back and the request answered with 500, which *)
(* the bot reports to the user; for Telegram it is a reason to try again.  *)
Failed(h) ==
  /\ Fault
  /\ Becomes(h, Rest)
  /\ UNCHANGED <<outside, clock, sessions, tables>>

Reported(r) == IF mail[r.update].via = "bot" THEN Show(r, "error") ELSE UNCHANGED chat

(* Mutation: an error of the model is answered with 200.                   *)
ModelFailsQuietly(h) ==
  /\ requests[h].step = "asking"
  /\ Fault
  /\ Becomes(h, Rest)
  /\ acked' = acked \cup {requests[h].update}
  /\ UNCHANGED <<mail, deliveries, chat, clock, sessions, tables>>

(* A provider error, an answer that is no JSON, or one the contract of a   *)
(* turn refuses.                                                           *)
ModelFails(h) ==
  /\ requests[h].step = "asking"
  /\ Failed(h)
  /\ Reported(requests[h])

(* The webhook sends the reply itself, before its transaction commits.     *)
Send(h) ==
  LET r == requests[h]
  IN  /\ r.step = "sending"
      /\ Show(r, "reply")
      /\ Becomes(h, [r EXCEPT !.step = "committing"])
      /\ UNCHANGED <<outside, clock, sessions, tables, history>>

(* send_text raises; the message may have gone out all the same.           *)
SendFails(h) ==
  LET r == requests[h]
  IN  /\ r.step = "sending"
      /\ Failed(h)
      /\ Show(r, "reply") \/ UNCHANGED chat

Stored(r, s) ==
  IF s \in r.opened THEN [status |-> "active", born |-> r.run, stale |-> FALSE]
  ELSE [sessions[s] EXCEPT !.status = IF s \in r.closed THEN "closed" ELSE @,
                           !.stale = @ /\ s \notin r.touched]

Commit(h) ==
  LET r == requests[h]
  IN  /\ r.step = "committing"
      /\ sessions' = [s \in SessionIds |-> Stored(r, s)]
      /\ turns' = turns \cup r.turns /\ dreams' = dreams \cup r.dreams
      /\ jobs' = jobs \cup r.jobs /\ traces' = traces \cup r.traces
      /\ Becomes(h, [Request(r.update) EXCEPT !.step = "responding",
                                              !.run = r.run, !.route = r.route])
      /\ UNCHANGED <<outside, chat, clock, history>>

CommitFails(h) ==
  /\ requests[h].step = "committing"
  /\ Failed(h)
  /\ Reported(requests[h])

(* Mutation: the webhook answers something else than 200.                  *)
RespondUnread(h) ==
  /\ requests[h].step = "responding"
  /\ Becomes(h, Rest)
  /\ UNCHANGED <<outside, chat, clock, sessions, tables, history>>

(* 200 ends the repeats of Telegram; the bot shows the messages it gets.   *)
Respond(h) ==
  LET r == requests[h]
  IN  /\ r.step = "responding"
      /\ Becomes(h, Rest)
      /\ IF mail[r.update].via = "webhook"
           THEN acked' = acked \cup {r.update} /\ UNCHANGED chat
           ELSE /\ UNCHANGED acked
                /\ IF r.route = "ROUTE_NOOP" THEN UNCHANGED chat ELSE Show(r, "reply")
      /\ UNCHANGED <<mail, deliveries, clock, sessions, tables, history>>

(* The answer comes too late or is lost, after the commit.                 *)
ResponseLost(h) ==
  /\ requests[h].step = "responding"
  /\ Failed(h)
  /\ Reported(requests[h])

(* The API process dies with every transaction it has open.                *)
Crash ==
  LET cut == {h \in Handlers : requests[h].step # "idle"}
      failed == {h \in cut : mail[requests[h].update].via = "bot"}
  IN  /\ cut # {}
      /\ Fault
      /\ requests' = [h \in Handlers |-> Rest]
      /\ chat' = chat \cup {[run |-> requests[h].run, update |-> requests[h].update,
                             text |-> "error"] : h \in failed}
      /\ UNCHANGED <<outside, clock, sessions, tables>>

(* 72 hours pass without a message in the session.  No transaction is open *)
(* that long, so none has touched it meanwhile.                            *)
GoStale(s) ==
  /\ aged < MaxAged /\ aged' = aged + 1
  /\ sessions[s].status = "active" /\ ~sessions[s].stale
  /\ \A h \in Handlers : s \notin requests[h].touched \cup requests[h].closed
  /\ sessions' = [sessions EXCEPT ![s].stale = TRUE]
  /\ raced' = (raced \/ \E h \in Handlers : Open(h))
  /\ UNCHANGED <<outside, chat, requests, clock, tables, faults>>
-----------------------------------------------------------------------------
Progress(h) ==
  \/ Evaluate(h) \/ FindActive(h) \/ FindStale(h) \/ FindNone(h) \/ CloseStale(h)
  \/ Touch(h) \/ ModelAnswers(h) \/ Send(h) \/ Commit(h) \/ Respond(h)

Trouble(h) == ModelFails(h) \/ SendFails(h) \/ CommitFails(h) \/ ResponseLost(h)

Next ==
  \/ \E h \in Handlers, u \in Updates : Deliver(h, u) \/ DeliverAgain(h, u)
  \/ \E h \in Handlers : Progress(h) \/ Trouble(h)
  \/ Crash
  \/ \E s \in SessionIds : GoStale(s)

(* A handler the event loop serves goes on, and Telegram goes on posting   *)
(* what was not answered; nothing forces a fault.                          *)
Fairness ==
  /\ \A h \in Handlers : WF_vars(Progress(h))
  /\ \A u \in Updates : WF_vars(\E h \in Handlers : Deliver(h, u))

Spec == Init /\ [][Next]_vars
FairSpec == Spec /\ Fairness
-----------------------------------------------------------------------------
RowsOf(table, run) == {row \in table : row.run = run}

(* What a committed request leaves behind, by its trace: the user's turn   *)
(* and the answer in one session, and for a new dream the dream, named by  *)
(* the turns, and its job.                                                 *)
Whole(t) ==
  LET said(role) == {c \in RowsOf(turns, t.run) : c.role = role}
  IN  /\ RowsOf(traces, t.run) = {t}
      /\ t.route = "ROUTE_NOOP" <=> RowsOf(turns, t.run) = {}
      /\ t.route # "ROUTE_NOOP" =>
            \A role \in {"user", "assistant"} :
               \E c \in said(role) : /\ said(role) = {c}
                                     /\ c.update = t.update /\ c.session = t.session
                                     /\ c.dream = t.dream
      /\ t.route = "ROUTE_NEW_DREAM" <=> RowsOf(dreams, t.run) # {}
      /\ t.dream # 0 <=> t.route = "ROUTE_NEW_DREAM"
      /\ \A d \in RowsOf(dreams, t.run) :
            /\ t.dream = d.run /\ t.job = d.run
            /\ RowsOf(jobs, t.run) = {[run |-> d.run, session |-> d.session, dream |-> d.run]}

(* Dream, job, turns and trace of a message are stored together or not at  *)
(* all, and the job analyses the session the dream is in                   *)
(* (ingress_service.process_incoming_message, dream_intake): after any     *)
(* number of concurrent requests, rollbacks, repeats and crashes.          *)
IntakeWhole ==
  /\ \A t \in traces : Whole(t)
  /\ \A row \in turns \cup dreams \cup jobs : RowsOf(traces, row.run) # {}

(* An update Telegram will not repeat is stored, and its reply was sent    *)
(* (telegram_webhook returns after process_incoming_message and send_text, *)
(* get_session commits before the response).                               *)
AckedIsStored ==
  \A u \in acked :
     \E t \in traces :
        /\ t.update = u
        /\ t.route # "ROUTE_NOOP" =>
              [run |-> t.run, update |-> u, text |-> "reply"] \in chat

(* The user reads a reply that is not stored only while its request is     *)
(* about to commit, or after a fault, and never through the bot, which     *)
(* gets its reply from the committed request (dreams.create_dream_endpoint)*)
UnstoredRepliesNeedFaults ==
  \A c \in chat :
     (c.text = "reply" /\ RowsOf(traces, c.run) = {}) =>
        /\ mail[c.update].via = "webhook"
        /\ faults > 0 \/ \E h \in Handlers : /\ requests[h].run = c.run
                                              /\ requests[h].step = "committing"

(* Nothing recognises a repeated update (telegram_webhook), so it is stored*)
(* again; but each further copy takes a fault, and the bot never makes one.*)
DuplicatesNeedFaults ==
  \A u \in Updates :
     Cardinality({t \in traces : t.update = u})
        <= 1 + (IF mail[u].via = "bot" THEN 0 ELSE faults)

(* A user has one active session (session_service.ensure_active_session,   *)
(* create_session) as long as no two of the requests overlap.              *)
OneActiveUnlessRaced ==
  ~raced => Cardinality({s \in SessionIds : sessions[s].status = "active"}) <= 1

(* The dream, whose session is looked up a second time                     *)
(* (dream_intake.register_incoming_dream), is in the session of its turns. *)
DreamWithItsTurns ==
  ~raced => \A d \in dreams : \A c \in RowsOf(turns, d.run) : c.session = d.session

(* A session is closed for its 72 idle hours only, unless it is used while *)
(* another request, which has found it stale, waits for its row            *)
(* (session_service.close_session updates by id).                          *)
ClosedOnlyWhenStale ==
  [][\A s \in SessionIds :
        (sessions[s].status = "active" /\ sessions'[s].status = "closed")
           => sessions[s].stale \/ raced]_vars

(* What the architecture documents promise without a condition.            *)
OneActiveSession ==
  Cardinality({s \in SessionIds : sessions[s].status = "active"}) <= 1

Settled(u) ==
  IF mail[u].via = "webhook" THEN u \in acked ELSE deliveries[u] = 1 /\ ~Serving(u)

(* No request waits for ever for a session row, and every update is        *)
(* answered: by repeats if need be (telegram_webhook), or by an error text *)
(* (bot.handlers.dreams).                                                  *)
EveryUpdateSettles == \A u \in Updates : <>Settled(u)
=============================================================================
