---------------------------- MODULE IngressProofs ----------------------------
(***************************************************************************)
(* Ingress is correct for any number of updates, handlers, sessions,       *)
(* repeats and faults.  The invariant says what a request has in hand at   *)
(* every step (Fit), that its rows are told apart from all others by the   *)
(* number of its transaction (Numbered), what it has already shown to the  *)
(* user (Answered), and what it knows of the sessions as long as no other  *)
(* request interferes (Calm).  A second invariant counts the copies of an  *)
(* update against its deliveries and the faults (CopiesFit).               *)
(***************************************************************************)
EXTENDS Ingress, FiniteSetTheorems, TLAPS

Bare(r) == r.turns = {} /\ r.dreams = {} /\ r.jobs = {} /\ r.traces = {}

(* A request for a new dream has the dream, later its job; no other has.   *)
OwnDream(r) ==
  r.dreams = IF r.route = "ROUTE_NEW_DREAM" THEN {Dream(r, r.dreamSession)} ELSE {}
OwnJob(r) == r.jobs = IF r.route = "ROUTE_NEW_DREAM" THEN {Job(r)} ELSE {}

Full(r) ==
  /\ OwnDream(r) /\ OwnJob(r)
  /\ r.traces = {Trace(r)}
  /\ r.turns = IF r.route = "ROUTE_NOOP" THEN {} ELSE {UserTurn(r), AssistantTurn(r)}

Fit(r) ==
  /\ r.step \in {"idle", "evaluating", "responding"} =>
       Bare(r) /\ r.opened = {} /\ r.closed = {} /\ r.touched = {}
  /\ r.step \in InTransaction \ {"committing"} => r.route # "ROUTE_NOOP"
  /\ r.step \in {"finding", "closing"} => Bare(r)
  /\ r.step \in {"findingForDream", "closingForDream"} =>
       Bare(r) /\ r.route = "ROUTE_NEW_DREAM" /\ r.session \in SessionIds
  /\ r.step = "touching" =>
       /\ r.turns = {} /\ r.jobs = {} /\ r.traces = {} /\ OwnDream(r)
       /\ r.session \in SessionIds
       /\ r.route = "ROUTE_NEW_DREAM" => r.dreamSession \in SessionIds
  /\ r.step = "asking" =>
       /\ OwnDream(r) /\ OwnJob(r)
       /\ r.turns = {UserTurn(r)} /\ r.traces = {Trace(r)}
       /\ r.session \in SessionIds
  /\ r.step = "sending" => Full(r) /\ mail[r.update].via = "webhook"
  /\ r.step = "committing" => Full(r)
  /\ r.step \in {"closing", "closingForDream"} => r.victim \in SessionIds

Shapes == \A h \in Handlers : Fit(requests[h])

Rows == turns \cup dreams \cup jobs \cup traces

Numbered ==
  /\ \A row \in Rows : row.run \in 1 .. clock
  /\ \A h \in Handlers : requests[h].run <= clock
  /\ \A h \in Handlers : Open(h) =>
       /\ requests[h].run >= 1
       /\ \A row \in Rows : row.run # requests[h].run
       /\ \A g \in Handlers : Open(g) /\ requests[g].run = requests[h].run => g = h

Reply(r) == [run |-> r.run, update |-> r.update, text |-> "reply"]

(* What was sent before the commit, and what was committed before the      *)
(* response.                                                               *)
Answered(r) ==
  /\ r.step = "responding" =>
       \E t \in traces : t.run = r.run /\ t.update = r.update /\ t.route = r.route
  /\ (/\ r.step \in {"committing", "responding"} /\ r.route # "ROUTE_NOOP"
      /\ mail[r.update].via = "webhook") => Reply(r) \in chat

Answers == \A h \in Handlers : Answered(requests[h])

(* What a request can rely on while it is the only one.                    *)
Calm(r) ==
  /\ \A s, t \in Active(r) : s = t
  /\ \A s \in r.closed : sessions[s].stale = TRUE
  /\ r.step = "closing" => r.victim \in Active(r) /\ Stale(r, r.victim)
  /\ r.step # "closingForDream"
  /\ r.step = "findingForDream" => r.session \in Active(r) /\ ~Stale(r, r.session)
  /\ (/\ r.step \in {"touching", "asking", "sending", "committing"}
      /\ r.route = "ROUTE_NEW_DREAM") => r.dreamSession = r.session

OneActive == \A s, t \in SessionIds :
                sessions[s].status = "active" /\ sessions[t].status = "active" => s = t
Together == \A d \in dreams : \A c \in RowsOf(turns, d.run) : c.session = d.session

Quiet ==
  ~raced => /\ \A g, h \in Handlers : Open(g) /\ Open(h) => g = h
            /\ \A h \in Handlers : Open(h) => Calm(requests[h])
            /\ OneActive /\ Together

IInv ==
  /\ TypeOK /\ Shapes /\ Numbered /\ Answers /\ Quiet
  /\ IntakeWhole /\ AckedIsStored /\ UnstoredRepliesNeedFaults
-----------------------------------------------------------------------------
(* The requests                                                            *)

LEMMA RequestTyped == \A u \in Updates : Request(u) \in Requests
BY DEF Request, Requests, Steps, Runs, Routes

LEMMA RestTyped ==
  Rest \in Requests /\ Rest.step = "idle" /\ Rest.run = 0 /\ Bare(Rest)
  /\ Rest.opened = {} /\ Rest.closed = {} /\ Rest.touched = {}
<1>1. PICK u \in Updates : u = CHOOSE v \in Updates : TRUE
  BY IngressAssumption
<1>2. Rest = [Request(u) EXCEPT !.step = "idle"]
  BY <1>1 DEF Rest
<1>3. Request(u) \in Requests
  BY RequestTyped
<1>4. Rest \in Requests /\ Rest.step = "idle"
  BY <1>2, <1>3 DEF Requests, Steps
<1>5. Rest.run = 0 /\ Bare(Rest) /\ Rest.opened = {} /\ Rest.closed = {} /\ Rest.touched = {}
  BY <1>2 DEF Request, Bare
<1> QED BY <1>4, <1>5

LEMMA RestFit == Fit(Rest) /\ Answered(Rest) /\ Rest.step \notin InTransaction
BY RestTyped DEF Fit, Answered, InTransaction

LEMMA DecidedRoute == \A i : decide(i).route \in Routes
BY DEF decide, Decision, Routes

LEMMA InitInv == Init => IInv
<1> SUFFICES ASSUME Init PROVE IInv
  OBVIOUS
<1> USE DEF Init
<1>1. \A h \in Handlers : requests[h] = Rest
  OBVIOUS
<1>2. TypeOK
  <2>1. sessions \in [SessionIds -> SessionRow]
    <3>1. PICK earlier \in Earlier :
            sessions = [s \in SessionIds |->
                          [status |-> IF s \in earlier THEN "active" ELSE "absent",
                           born |-> 0, stale |-> FALSE]]
      OBVIOUS
    <3> QED BY <3>1 DEF SessionRow, Runs
  <2>2. requests \in [Handlers -> Requests]
    BY RestTyped
  <2> QED BY <2>1, <2>2 DEF TypeOK, Runs
<1>3. Shapes
  BY <1>1, RestFit DEF Shapes
<1>4. Numbered
  BY <1>1, RestTyped, RestFit DEF Numbered, Rows, Open
<1>5. Answers
  BY <1>1, RestFit DEF Answers
<1>6. OneActive
  <2>1. PICK earlier \in Earlier :
          sessions = [s \in SessionIds |->
                        [status |-> IF s \in earlier THEN "active" ELSE "absent",
                         born |-> 0, stale |-> FALSE]]
    OBVIOUS
  <2>2. ASSUME NEW s \in earlier, NEW t \in earlier PROVE s = t
    <3>1. \A x \in earlier : x \in SessionIds /\ \A y \in SessionIds : x <= y
      BY DEF Earlier
    <3>2. s \in Nat /\ t \in Nat /\ s <= t /\ t <= s
      BY <3>1, IngressAssumption
    <3> QED BY <3>2
  <2> QED BY <2>1, <2>2 DEF OneActive
<1>7. Quiet
  BY <1>1, <1>6, RestFit DEF Quiet, Open, Together
<1>8. IntakeWhole /\ AckedIsStored /\ UnstoredRepliesNeedFaults
  BY DEF IntakeWhole, AckedIsStored, UnstoredRepliesNeedFaults
<1> QED BY <1>2, <1>3, <1>4, <1>5, <1>7, <1>8 DEF IInv
-----------------------------------------------------------------------------
(* A step of one request that leaves the tables alone                      *)

LEMMA OneMoves ==
  ASSUME TypeOK, NEW h \in Handlers, NEW new \in Requests, Becomes(h, new)
  PROVE  /\ requests' \in [Handlers -> Requests]
         /\ requests'[h] = new
         /\ \A g \in Handlers : g # h => requests'[g] = requests[g]
BY DEF TypeOK, Becomes

LEMMA Moves ==
  ASSUME IInv, NEW h \in Handlers, NEW new \in Requests, Becomes(h, new),
         UNCHANGED <<mail, clock, sessions, tables>>,
         deliveries' \in [Updates -> Nat], acked' \in SUBSET Updates,
         chat' \in SUBSET Shown, chat \subseteq chat',
         faults' \in Nat, faults <= faults', aged' \in Nat, raced' = raced,
         Fit(new), Answered(new)',
         new.run <= clock,
         new.step \in InTransaction =>
           /\ Open(h) /\ new.run = requests[h].run
           /\ ~raced => Calm(new),
         requests[h].step = "committing" => faults' > 0,
         \A c \in chat' : \/ c \in chat \/ c.text = "error"
                          \/ RowsOf(traces, c.run) # {}
                          \/ /\ mail[c.update].via = "webhook"
                             /\ \/ faults' > 0
                                \/ new.step = "committing" /\ new.run = c.run,
         \A u \in acked' : u \in acked
                           \/ \E t \in traces : /\ t.update = u
                                                /\ t.route # "ROUTE_NOOP" => Reply(t) \in chat'
  PROVE  IInv'
<1>1. /\ requests' \in [Handlers -> Requests] /\ requests'[h] = new
      /\ \A g \in Handlers : g # h => requests'[g] = requests[g]
  BY OneMoves DEF IInv
<1>2. /\ mail' = mail /\ clock' = clock /\ sessions' = sessions /\ turns' = turns
      /\ dreams' = dreams /\ jobs' = jobs /\ traces' = traces
  BY DEF tables
<1>3. TypeOK'
  BY <1>1, <1>2 DEF IInv, TypeOK
<1>4. \A g \in Handlers : Open(g)' => Open(g) /\ requests'[g].run = requests[g].run
  BY <1>1 DEF Open
<1>5. Shapes'
  <2>1. ASSUME NEW g \in Handlers PROVE Fit(requests[g])'
    <3>1. Fit(requests'[g])
      BY <1>1 DEF IInv, Shapes
    <3> QED BY <1>2, <3>1 DEF Fit, Bare, Full, OwnDream, OwnJob, Dream, Job, Trace,
                              UserTurn, AssistantTurn
  <2> QED BY <2>1 DEF Shapes
<1>6. Numbered'
  <2>1. \A row \in Rows' : row.run \in 1 .. clock'
    BY <1>2 DEF IInv, Numbered, Rows
  <2>2. \A g \in Handlers : requests'[g].run <= clock'
    BY <1>1, <1>2 DEF IInv, Numbered
  <2>3. ASSUME NEW g \in Handlers, Open(g)'
        PROVE  /\ requests'[g].run >= 1
               /\ \A row \in Rows' : row.run # requests'[g].run
               /\ \A f \in Handlers : Open(f)' /\ requests'[f].run = requests'[g].run => f = g
    BY <1>2, <1>4, <2>3 DEF IInv, Numbered, Rows
  <2> QED BY <2>1, <2>2, <2>3 DEF Numbered
<1>7. Answers'
  <2>1. ASSUME NEW g \in Handlers, g # h PROVE Answered(requests[g])'
    BY <1>1, <1>2, <2>1 DEF IInv, Answers, Answered, Reply
  <2>2. Answered(requests[h])'
    BY <1>1 DEF Answered, Reply
  <2> QED BY <2>1, <2>2 DEF Answers
<1>8. Quiet'
  <2> SUFFICES ASSUME ~raced
               PROVE  /\ \A f, g \in Handlers : Open(f)' /\ Open(g)' => f = g
                      /\ \A g \in Handlers : Open(g)' => Calm(requests[g])'
                      /\ OneActive' /\ Together'
    BY DEF Quiet
  <2>1. \A f, g \in Handlers : Open(f)' /\ Open(g)' => f = g
    BY <1>4 DEF IInv, Quiet
  <2>2. ASSUME NEW g \in Handlers, Open(g)' PROVE Calm(requests[g])'
    <3>1. Calm(requests'[g])
      BY <1>1, <1>4, <2>2 DEF IInv, Quiet, Open
    <3> QED BY <1>2, <3>1 DEF Calm, Active, Stale
  <2>3. OneActive' /\ Together'
    BY <1>2 DEF IInv, Quiet, OneActive, Together, RowsOf
  <2> QED BY <2>1, <2>2, <2>3
<1>9. IntakeWhole'
  BY <1>2 DEF IInv, IntakeWhole, Whole, RowsOf
<1>10. AckedIsStored'
  <2> SUFFICES ASSUME NEW u \in acked'
               PROVE  \E t \in traces : /\ t.update = u
                                        /\ t.route # "ROUTE_NOOP" =>
                                              [run |-> t.run, update |-> u, text |-> "reply"]
                                                 \in chat'
    BY <1>2 DEF AckedIsStored
  <2>1. CASE u \in acked
    BY <2>1 DEF IInv, AckedIsStored
  <2>2. CASE u \notin acked
    <3> PICK t \in traces : t.update = u /\ (t.route # "ROUTE_NOOP" => Reply(t) \in chat')
      BY <2>2
    <3> QED BY DEF Reply
  <2> QED BY <2>1, <2>2
<1>11. UnstoredRepliesNeedFaults'
  <2> SUFFICES ASSUME NEW c \in chat', c.text = "reply", RowsOf(traces, c.run) = {}
               PROVE  /\ mail[c.update].via = "webhook"
                      /\ faults' > 0 \/ \E g \in Handlers : /\ requests'[g].run = c.run
                                                            /\ requests'[g].step = "committing"
    BY <1>2 DEF UnstoredRepliesNeedFaults, RowsOf
  <2>1. CASE c \in chat
    <3>1. /\ mail[c.update].via = "webhook"
          /\ faults > 0 \/ \E g \in Handlers : /\ requests[g].run = c.run
                                               /\ requests[g].step = "committing"
      BY <2>1 DEF IInv, UnstoredRepliesNeedFaults
    <3>2. faults > 0 => faults' > 0
      BY DEF IInv, TypeOK
    <3>3. ASSUME NEW g \in Handlers, requests[g].step = "committing",
                 requests[g].run = c.run, ~(faults' > 0)
          PROVE  requests'[g].run = c.run /\ requests'[g].step = "committing"
      BY <1>1, <3>3
    <3> QED BY <3>1, <3>2, <3>3
  <2>2. CASE c \notin chat
    BY <1>1, <2>2
  <2> QED BY <2>1, <2>2
<1> QED BY <1>3, <1>5, <1>6, <1>7, <1>8, <1>9, <1>10, <1>11 DEF IInv

-----------------------------------------------------------------------------
(* The steps of one request                                                *)

(* What a request in hand is like.                                         *)
LEMMA InHand ==
  ASSUME IInv, NEW h \in Handlers
  PROVE  /\ requests[h] \in Requests /\ Fit(requests[h]) /\ Answered(requests[h])
         /\ requests[h].run \in Nat /\ requests[h].run <= clock
         /\ (~raced /\ Open(h)) => Calm(requests[h])
BY DEF IInv, TypeOK, Shapes, Answers, Numbered, Quiet, Requests, Runs

(* Mail, deliveries, acked, chat, tables and history are left alone.       *)
LEMMA QuietMove ==
  ASSUME IInv, NEW h \in Handlers, NEW new \in Requests, Becomes(h, new),
         UNCHANGED <<outside, chat, clock, sessions, tables, history>>,
         Open(h), requests[h].step # "committing",
         new.step \in InTransaction, new.run = requests[h].run,
         Fit(new), Answered(new), ~raced => Calm(new)
  PROVE  IInv'
<1>1. /\ mail' = mail /\ deliveries' = deliveries /\ acked' = acked /\ chat' = chat
      /\ faults' = faults /\ aged' = aged /\ raced' = raced /\ traces' = traces
      /\ UNCHANGED <<mail, clock, sessions, tables>>
  BY DEF outside, history, tables
<1>2. /\ deliveries \in [Updates -> Nat] /\ acked \in SUBSET Updates
      /\ chat \in SUBSET Shown /\ faults \in Nat /\ aged \in Nat
  BY DEF IInv, TypeOK
<1>3. Answered(new)'
  BY <1>1 DEF Answered, Reply
<1>4. new.run <= clock
  BY InHand
<1> QED BY <1>1, <1>2, <1>3, <1>4, Moves

(* The end of a request by a fault, or with its response.                  *)
LEMMA EndMove ==
  ASSUME IInv, NEW h \in Handlers, Becomes(h, Rest),
         UNCHANGED <<mail, clock, sessions, tables>>, UNCHANGED <<deliveries, aged, raced>>,
         acked' \in SUBSET Updates,
         chat' \in SUBSET Shown, chat \subseteq chat',
         faults' \in Nat, faults <= faults',
         requests[h].step = "committing" => faults' > 0,
         \A c \in chat' : \/ c \in chat \/ c.text = "error"
                          \/ RowsOf(traces, c.run) # {}
                          \/ mail[c.update].via = "webhook" /\ faults' > 0,
         \A u \in acked' : u \in acked
                           \/ \E t \in traces : /\ t.update = u
                                                /\ t.route # "ROUTE_NOOP" => Reply(t) \in chat'
  PROVE  IInv'
<1>1. deliveries' \in [Updates -> Nat] /\ aged' \in Nat /\ clock \in Nat
  BY DEF IInv, TypeOK, Runs
<1>2. Rest \in Requests /\ Rest.run <= clock /\ Rest.step \notin InTransaction
      /\ Fit(Rest) /\ Rest.step = "idle"
  BY <1>1, RestTyped, RestFit
<1>3. Answered(Rest)'
  BY <1>2 DEF Answered, InTransaction
<1> QED BY <1>1, <1>2, <1>3, Moves

LEMMA FaultyEnd ==
  ASSUME IInv, NEW h \in Handlers, Failed(h),
         chat' \in SUBSET Shown, chat \subseteq chat',
         \A c \in chat' : c \in chat \/ c.text = "error" \/ mail[c.update].via = "webhook"
  PROVE  IInv'
<1>1. /\ Becomes(h, Rest) /\ mail' = mail /\ deliveries' = deliveries /\ acked' = acked
      /\ UNCHANGED <<mail, clock, sessions, tables>> /\ UNCHANGED <<deliveries, aged, raced>>
      /\ faults' = faults + 1
  BY DEF Failed, Fault, outside
<1>2. acked \in SUBSET Updates /\ faults \in Nat /\ faults' \in Nat /\ faults' > 0
      /\ faults <= faults'
  BY <1>1 DEF IInv, TypeOK
<1> QED BY <1>1, <1>2, EndMove

LEMMA ReportTyped ==
  ASSUME IInv, NEW h \in Handlers, Reported(requests[h])
  PROVE  /\ chat' \in SUBSET Shown /\ chat \subseteq chat'
         /\ \A c \in chat' : c \in chat \/ c.text = "error"
<1>1. chat \in SUBSET Shown
  BY DEF IInv, TypeOK
<1>2. [run |-> requests[h].run, update |-> requests[h].update, text |-> "error"] \in Shown
  BY InHand DEF Requests, Shown
<1> QED BY <1>1, <1>2 DEF Reported, Show

LEMMA ReplyTyped ==
  ASSUME IInv, NEW h \in Handlers
  PROVE  Reply(requests[h]) \in Shown /\ Reply(requests[h]).text = "reply"
BY InHand DEF Requests, Shown, Reply

LEMMA TroubleInv == ASSUME IInv, NEW h \in Handlers, Trouble(h) PROVE IInv'
<1>1. CASE ModelFails(h)
  <2>1. Failed(h) /\ Reported(requests[h])
    BY <1>1 DEF ModelFails
  <2> QED BY <2>1, ReportTyped, FaultyEnd
<1>2. CASE SendFails(h)
  <2> DEFINE c == Reply(requests[h])
  <2>1. Failed(h) /\ requests[h].step = "sending" /\ (chat' = chat \cup {c} \/ chat' = chat)
    BY <1>2 DEF SendFails, Show, Reply
  <2>2. mail[c.update].via = "webhook" /\ c \in Shown
    BY <2>1, InHand, ReplyTyped DEF Fit, Reply
  <2>3. chat \in SUBSET Shown
    BY DEF IInv, TypeOK
  <2> HIDE DEF c
  <2> QED BY <2>1, <2>2, <2>3, FaultyEnd
<1>3. CASE CommitFails(h)
  <2>1. Failed(h) /\ Reported(requests[h])
    BY <1>3 DEF CommitFails
  <2> QED BY <2>1, ReportTyped, FaultyEnd
<1>4. CASE ResponseLost(h)
  <2>1. Failed(h) /\ Reported(requests[h])
    BY <1>4 DEF ResponseLost
  <2> QED BY <2>1, ReportTyped, FaultyEnd
<1> QED BY <1>1, <1>2, <1>3, <1>4 DEF Trouble

LEMMA RespondInv == ASSUME IInv, NEW h \in Handlers, Respond(h) PROVE IInv'
<1> DEFINE r == requests[h]
<1>1. /\ r \in Requests /\ r.step = "responding" /\ Becomes(h, Rest)
      /\ UNCHANGED <<mail, clock, sessions, tables>> /\ UNCHANGED <<deliveries, aged, raced>>
      /\ faults' = faults /\ Answered(r)
  BY InHand DEF Respond, history
<1>2. /\ acked \in SUBSET Updates /\ chat \in SUBSET Shown /\ faults \in Nat
      /\ r.update \in Updates /\ Reply(r) \in Shown /\ Reply(r).run = r.run
      /\ Reply(r).text = "reply"
  BY <1>1, ReplyTyped DEF IInv, TypeOK, Requests, Reply
<1>3. PICK t \in traces : t.run = r.run /\ t.update = r.update /\ t.route = r.route
  BY <1>1 DEF Answered
<1>4. RowsOf(traces, r.run) # {}
  BY <1>3 DEF RowsOf
<1>5. CASE mail[r.update].via = "webhook"
  <2>1. acked' = acked \cup {r.update} /\ chat' = chat
    BY <1>5 DEF Respond
  <2>2. t.route # "ROUTE_NOOP" => Reply(t) \in chat'
    BY <1>1, <1>3, <1>5, <2>1 DEF Answered, Reply
  <2> QED BY <1>1, <1>2, <1>3, <2>1, <2>2, EndMove
<1>6. CASE mail[r.update].via # "webhook"
  <2>1. acked' = acked /\ (chat' = chat \/ chat' = chat \cup {Reply(r)})
    BY <1>6 DEF Respond, Show, Reply
  <2> QED BY <1>1, <1>2, <1>4, <2>1, EndMove
<1> QED BY <1>5, <1>6

LEMMA DeliverInv ==
  ASSUME IInv, NEW h \in Handlers, NEW u \in Updates, Deliver(h, u) \/ DeliverAgain(h, u)
  PROVE  IInv'
<1> DEFINE new == Request(u)
<1>1. /\ requests[h].step = "idle" /\ Becomes(h, new)
      /\ deliveries' = [deliveries EXCEPT ![u] = @ + 1]
      /\ acked' = acked /\ chat' = chat /\ aged' = aged /\ raced' = raced
      /\ UNCHANGED <<mail, clock, sessions, tables>>
      /\ faults' = faults \/ faults' = faults + 1
  BY DEF Deliver, DeliverAgain, Fault, history
<1>2. /\ acked \in SUBSET Updates /\ chat \in SUBSET Shown /\ faults \in Nat /\ aged \in Nat
      /\ deliveries \in [Updates -> Nat] /\ clock \in Nat
  BY DEF IInv, TypeOK, Runs
<1>3. deliveries' \in [Updates -> Nat] /\ faults' \in Nat /\ faults <= faults'
  BY <1>1, <1>2
<1>4. /\ new \in Requests /\ new.step = "evaluating" /\ new.run = 0
      /\ new.step \notin InTransaction
      /\ Fit(new)
  BY RequestTyped DEF Request, Fit, Bare, InTransaction
<1>5. Answered(new)'
  BY <1>4 DEF Answered
<1> HIDE DEF new
<1>6. new.run <= clock
  BY <1>2, <1>4
<1> QED BY <1>1, <1>2, <1>3, <1>4, <1>5, <1>6, Moves

Resolving == {"finding", "findingForDream", "closing", "closingForDream"}

LEMMA ResolvedFits ==
  ASSUME NEW r \in Requests, NEW s \in SessionIds, r.step \in Resolving,
         Bare(r), r.route # "ROUTE_NOOP",
         r.step \in {"findingForDream", "closingForDream"} =>
           r.route = "ROUTE_NEW_DREAM" /\ r.session \in SessionIds
  PROVE  LET n == Resolved(r, s)
         IN  /\ n \in Requests /\ n.step \in {"findingForDream", "touching"}
             /\ n.run = r.run /\ n.route = r.route
             /\ n.opened = r.opened /\ n.closed = r.closed
             /\ r.step \in {"findingForDream", "closingForDream"} =>
                  n.dreamSession = s /\ n.session = r.session /\ n.step = "touching"
             /\ r.step \in {"finding", "closing"} =>
                  /\ n.session = s
                  /\ n.step = "touching" => r.route # "ROUTE_NEW_DREAM"
             /\ Fit(n) /\ Answered(n)
<1> DEFINE n == Resolved(r, s)
<1>1. Dream(r, s) \in Dreams
  BY DEF Dream, Dreams, Requests
<1>2. CASE r.step \in {"findingForDream", "closingForDream"}
  <2> DEFINE d == {Dream(r, s)}
  <2>1. n = [r EXCEPT !.dreamSession = s, !.dreams = d, !.step = "touching"]
    BY <1>2 DEF Resolved
  <2>2. d \in SUBSET Dreams
    BY <1>1
  <2> HIDE DEF n, d
  <2>3. /\ n \in Requests /\ n.step = "touching" /\ n.run = r.run /\ n.route = r.route
        /\ n.update = r.update
        /\ n.opened = r.opened /\ n.closed = r.closed /\ n.session = r.session
        /\ n.dreamSession = s /\ n.dreams = d
        /\ n.turns = r.turns /\ n.jobs = r.jobs /\ n.traces = r.traces
    BY <2>1, <2>2 DEF Requests, Steps, InTransaction
  <2>4. Fit(n)
    BY <1>2, <2>3 DEF d, Fit, Bare, OwnDream, Dream, InTransaction
  <2>5. Answered(n)
    BY <2>3 DEF Answered
  <2> QED BY <1>2, <2>3, <2>4, <2>5 DEF n
<1>3. CASE r.step \in {"finding", "closing"}
  <2> DEFINE x == IF r.route = "ROUTE_NEW_DREAM" THEN "findingForDream" ELSE "touching"
  <2>1. n = [r EXCEPT !.session = s, !.step = x]
    BY <1>3 DEF Resolved
  <2>2. /\ n \in Requests /\ n.step = x /\ n.run = r.run /\ n.route = r.route
        /\ n.update = r.update
        /\ n.opened = r.opened /\ n.closed = r.closed /\ n.session = s
        /\ n.dreams = r.dreams
        /\ n.turns = r.turns /\ n.jobs = r.jobs /\ n.traces = r.traces
    BY <2>1 DEF Requests, Steps, InTransaction
  <2> HIDE DEF n
  <2>3. Fit(n)
    BY <1>3, <2>2 DEF Fit, Bare, OwnDream, InTransaction
  <2>4. Answered(n)
    BY <2>2 DEF Answered
  <2> QED BY <1>3, <2>2, <2>3, <2>4 DEF n
<1> QED BY <1>2, <1>3 DEF Resolving

LEMMA ResolvingFacts ==
  ASSUME IInv, NEW h \in Handlers, requests[h].step \in Resolving
  PROVE  LET r == requests[h]
         IN  /\ r \in Requests /\ Bare(r) /\ r.route # "ROUTE_NOOP"
             /\ r.step \in {"findingForDream", "closingForDream"} =>
                  r.route = "ROUTE_NEW_DREAM" /\ r.session \in SessionIds
             /\ Open(h) /\ r.step # "committing"
             /\ ~raced => Calm(r)
BY InHand DEF Fit, Resolving, Open, InTransaction

LEMMA FindActiveInv == ASSUME IInv, NEW h \in Handlers, FindActive(h) PROVE IInv'
<1> DEFINE r == requests[h]
<1>1. /\ r.step \in {"finding", "findingForDream"}
      /\ UNCHANGED <<outside, chat, clock, sessions, tables, history>>
  BY DEF FindActive
<1>2. PICK s \in Newest(r) : ~Stale(r, s) /\ Becomes(h, Resolved(r, s))
  BY DEF FindActive
<1>3. /\ r \in Requests /\ Bare(r) /\ r.route # "ROUTE_NOOP"
      /\ r.step = "findingForDream" => r.route = "ROUTE_NEW_DREAM" /\ r.session \in SessionIds
      /\ Open(h) /\ r.step # "committing" /\ r.step \in Resolving
      /\ ~raced => Calm(r)
  BY <1>1, ResolvingFacts DEF Resolving
<1>4. s \in Active(r) /\ s \in SessionIds
  BY <1>3 DEF Newest, Active, Requests
<1> DEFINE n == Resolved(r, s)
<1>5. /\ n \in Requests /\ n.step \in {"findingForDream", "touching"}
      /\ n.run = r.run /\ n.route = r.route
      /\ n.opened = r.opened /\ n.closed = r.closed
      /\ r.step = "findingForDream" =>
           n.dreamSession = s /\ n.session = r.session /\ n.step = "touching"
      /\ r.step = "finding" =>
           n.session = s /\ (n.step = "touching" => r.route # "ROUTE_NEW_DREAM")
      /\ Fit(n) /\ Answered(n)
  BY <1>1, <1>3, <1>4, ResolvedFits
<1>6. Becomes(h, n)
  BY <1>2
<1> HIDE DEF n
<1>7. Active(n) = Active(r) /\ (Stale(n, s) = Stale(r, s))
  BY <1>5 DEF Active, Stale
<1>8. ASSUME ~raced PROVE Calm(n)
  <2>1. Calm(r)
    BY <1>3, <1>8
  <2>2. r.step = "findingForDream" => r.session = s
    BY <1>4, <2>1 DEF Calm
  <2>3. n.step = "findingForDream" => n.session \in Active(n) /\ ~Stale(n, n.session)
    BY <1>1, <1>2, <1>4, <1>5, <1>7
  <2>4. \A x, y \in Active(n) : x = y
    BY <1>7, <2>1 DEF Calm
  <2>5. \A x \in n.closed : sessions[x].stale = TRUE
    BY <1>5, <2>1 DEF Calm
  <2>6. n.route = "ROUTE_NEW_DREAM" /\ n.step = "touching" => n.dreamSession = n.session
    BY <1>1, <1>5, <2>2
  <2> QED BY <1>5, <2>3, <2>4, <2>5, <2>6 DEF Calm
<1>9. n.step \in InTransaction
  BY <1>5 DEF InTransaction
<1> QED BY <1>1, <1>3, <1>5, <1>6, <1>8, <1>9, QuietMove

(* A session that is not stale for the turns is not for the dream.         *)
LEMMA FindStaleInv == ASSUME IInv, NEW h \in Handlers, FindStale(h) PROVE IInv'
<1> DEFINE r == requests[h]
           x == IF r.step = "finding" THEN "closing" ELSE "closingForDream"
<1>1. /\ r.step \in {"finding", "findingForDream"}
      /\ UNCHANGED <<outside, chat, clock, sessions, tables, history>>
  BY DEF FindStale
<1>2. PICK s \in Newest(r) : Stale(r, s) /\ Becomes(h, [r EXCEPT !.step = x, !.victim = s])
  BY DEF FindStale
<1>3. /\ r \in Requests /\ Bare(r) /\ r.route # "ROUTE_NOOP"
      /\ r.step = "findingForDream" => r.route = "ROUTE_NEW_DREAM" /\ r.session \in SessionIds
      /\ Open(h) /\ r.step # "committing"
      /\ ~raced => Calm(r)
  BY <1>1, ResolvingFacts DEF Resolving
<1>4. s \in Active(r) /\ s \in SessionIds
  BY <1>3 DEF Newest, Active, Requests
<1> DEFINE n == [r EXCEPT !.step = x, !.victim = s]
<1>5. /\ n \in Requests /\ n.step = x /\ n.victim = s /\ n.run = r.run /\ n.route = r.route
      /\ n.opened = r.opened /\ n.closed = r.closed /\ n.session = r.session
      /\ n.turns = r.turns /\ n.dreams = r.dreams /\ n.jobs = r.jobs /\ n.traces = r.traces
  BY <1>3, <1>4 DEF Requests, Steps, InTransaction
<1>6. Becomes(h, n)
  BY <1>2
<1> HIDE DEF n
<1>7. Fit(n) /\ Answered(n) /\ n.step \in InTransaction
  BY <1>1, <1>3, <1>4, <1>5 DEF Fit, Bare, Answered, InTransaction
<1>8. ASSUME ~raced PROVE Calm(n)
  <2>1. Calm(r)
    BY <1>3, <1>8
  <2>2. r.step = "finding"
    BY <1>1, <1>2, <1>4, <2>1 DEF Calm
  <2>3. Active(n) = Active(r) /\ Stale(n, s)
    BY <1>2, <1>5 DEF Active, Stale
  <2>4. n.step = "closing" /\ n.victim \in Active(n) /\ Stale(n, n.victim)
    BY <1>4, <1>5, <2>2, <2>3
  <2>5. /\ \A y, z \in Active(n) : y = z
        /\ \A y \in n.closed : sessions[y].stale = TRUE
    BY <1>5, <2>1, <2>3 DEF Calm
  <2> QED BY <2>4, <2>5 DEF Calm
<1> QED BY <1>1, <1>3, <1>5, <1>6, <1>7, <1>8, QuietMove

(* A session of one's own is new and active.                               *)
LEMMA CreatedFits ==
  ASSUME NEW r \in Requests, NEW s \in SessionIds, r.step \in Resolving,
         Bare(r), r.route # "ROUTE_NOOP",
         r.step \in {"findingForDream", "closingForDream"} =>
           r.route = "ROUTE_NEW_DREAM" /\ r.session \in SessionIds
  PROVE  LET n == CreateSession(r, s)
         IN  /\ n \in Requests /\ n.step \in InTransaction /\ n.run = r.run
             /\ Fit(n) /\ Answered(n)
             /\ (/\ r.step \in {"finding", "closing"} /\ Active(r) = {}
                 /\ \A t \in r.closed : sessions[t].stale = TRUE) => Calm(n)
<1> DEFINE o == [r EXCEPT !.opened = @ \cup {s}]
           n == Resolved(o, s)
<1>1. /\ o \in Requests /\ o.step = r.step /\ o.run = r.run /\ o.route = r.route
      /\ o.opened = r.opened \cup {s} /\ o.closed = r.closed /\ o.session = r.session
      /\ o.turns = r.turns /\ o.dreams = r.dreams /\ o.jobs = r.jobs /\ o.traces = r.traces
  BY DEF Requests
<1> HIDE DEF o
<1>2. Bare(o)
  BY <1>1 DEF Bare
<1>3. /\ n \in Requests /\ n.step \in {"findingForDream", "touching"}
      /\ n.run = o.run /\ n.route = o.route
      /\ n.opened = o.opened /\ n.closed = o.closed
      /\ o.step \in {"finding", "closing"} =>
           n.session = s /\ (n.step = "touching" => o.route # "ROUTE_NEW_DREAM")
      /\ Fit(n) /\ Answered(n)
  BY <1>1, <1>2, ResolvedFits
<1>4. n = CreateSession(r, s)
  BY DEF CreateSession, o
<1> HIDE DEF n
<1>5. ASSUME r.step \in {"finding", "closing"}, Active(r) = {},
             \A t \in r.closed : sessions[t].stale = TRUE
      PROVE  Calm(n)
  <2>1. Active(n) = {s} /\ ~Stale(n, s)
    BY <1>1, <1>3, <1>5 DEF Active, Stale
  <2> QED BY <1>1, <1>3, <1>5, <2>1 DEF Calm
<1>6. n.step \in InTransaction
  BY <1>3 DEF InTransaction
<1> QED BY <1>1, <1>3, <1>4, <1>5, <1>6

LEMMA FindNoneInv == ASSUME IInv, NEW h \in Handlers, FindNone(h) PROVE IInv'
<1> DEFINE r == requests[h]
<1>1. /\ r.step \in {"finding", "findingForDream"} /\ Active(r) = {}
      /\ UNCHANGED <<outside, chat, clock, sessions, tables, history>>
  BY DEF FindNone
<1>2. PICK s \in SessionIds : Becomes(h, CreateSession(r, s))
  BY DEF FindNone
<1>3. /\ r \in Requests /\ Bare(r) /\ r.route # "ROUTE_NOOP" /\ r.step \in Resolving
      /\ r.step = "findingForDream" => r.route = "ROUTE_NEW_DREAM" /\ r.session \in SessionIds
      /\ Open(h) /\ r.step # "committing"
      /\ ~raced => Calm(r)
  BY <1>1, ResolvingFacts DEF Resolving
<1> DEFINE n == CreateSession(r, s)
<1>4. /\ n \in Requests /\ n.step \in InTransaction /\ n.run = r.run
      /\ Fit(n) /\ Answered(n)
      /\ (r.step = "finding" /\ \A t \in r.closed : sessions[t].stale = TRUE) => Calm(n)
  BY <1>1, <1>3, CreatedFits
<1>5. Becomes(h, n)
  BY <1>2
<1> HIDE DEF n
<1>6. ASSUME ~raced PROVE Calm(n)
  BY <1>1, <1>3, <1>4, <1>6 DEF Calm
<1> QED BY <1>1, <1>3, <1>4, <1>5, <1>6, QuietMove

LEMMA CloseStaleInv == ASSUME IInv, NEW h \in Handlers, CloseStale(h) PROVE IInv'
<1> DEFINE r == requests[h]
           o == [r EXCEPT !.closed = @ \cup {r.victim}, !.victim = 0]
<1>1. /\ r.step \in {"closing", "closingForDream"}
      /\ UNCHANGED <<outside, chat, clock, sessions, tables, history>>
  BY DEF CloseStale
<1>2. PICK s \in SessionIds : Becomes(h, CreateSession(o, s))
  BY DEF CloseStale
<1>3. /\ r \in Requests /\ Bare(r) /\ r.route # "ROUTE_NOOP" /\ r.step \in Resolving
      /\ r.step = "closingForDream" => r.route = "ROUTE_NEW_DREAM" /\ r.session \in SessionIds
      /\ Open(h) /\ r.step # "committing"
      /\ ~raced => Calm(r)
  BY <1>1, ResolvingFacts DEF Resolving
<1>4. r.victim \in SessionIds
  BY <1>1, InHand DEF Fit
<1>5. /\ o \in Requests /\ o.step = r.step /\ o.run = r.run /\ o.route = r.route
      /\ o.opened = r.opened /\ o.closed = r.closed \cup {r.victim} /\ o.session = r.session
      /\ o.turns = r.turns /\ o.dreams = r.dreams /\ o.jobs = r.jobs /\ o.traces = r.traces
  BY <1>3, <1>4 DEF Requests
<1> HIDE DEF o
<1>6. Bare(o)
  BY <1>3, <1>5 DEF Bare
<1> DEFINE n == CreateSession(o, s)
<1>7. /\ n \in Requests /\ n.step \in InTransaction /\ n.run = o.run
      /\ Fit(n) /\ Answered(n)
      /\ (/\ o.step = "closing" /\ Active(o) = {}
          /\ \A t \in o.closed : sessions[t].stale = TRUE) => Calm(n)
  BY <1>1, <1>3, <1>5, <1>6, CreatedFits
<1>8. Becomes(h, n)
  BY <1>2 DEF o
<1> HIDE DEF n
<1>9. ASSUME ~raced PROVE Calm(n)
  <2>1. Calm(r)
    BY <1>3, <1>9
  <2>2. r.step = "closing" /\ r.victim \in Active(r) /\ Stale(r, r.victim)
    BY <1>1, <2>1 DEF Calm
  <2>3. \A t \in Active(r) : t = r.victim
    BY <2>1, <2>2 DEF Calm
  <2>4. Active(o) = {}
    BY <1>5, <2>2, <2>3 DEF Active, Stale
  <2>5. sessions[r.victim].stale = TRUE
    <3>1. sessions[r.victim].stale \in BOOLEAN
      BY <1>4 DEF IInv, TypeOK, SessionRow
    <3> QED BY <2>2, <3>1 DEF Stale
  <2>6. \A t \in o.closed : sessions[t].stale = TRUE
    BY <1>5, <2>1, <2>5 DEF Calm
  <2> QED BY <1>5, <1>7, <2>2, <2>4, <2>6
<1> QED BY <1>1, <1>3, <1>5, <1>7, <1>8, <1>9, QuietMove

LEMMA TurnTyped ==
  ASSUME NEW r \in Requests, r.session \in SessionIds
  PROVE  UserTurn(r) \in Turns /\ AssistantTurn(r) \in Turns
<1>1. UserTurn(r) \in Turns /\ UserTurn(r).role = "user"
  BY DEF UserTurn, Turns, Requests, Runs
<1> QED BY <1>1 DEF AssistantTurn, Turns

LEMMA TurnFields ==
  ASSUME NEW r, NEW c \in {UserTurn(r), AssistantTurn(r)}
  PROVE  c.run = r.run /\ c.session = r.session
<1>1. UserTurn(r).run = r.run /\ UserTurn(r).session = r.session
  BY DEF UserTurn
<1>2. AssistantTurn(r).run = r.run /\ AssistantTurn(r).session = r.session
  BY DEF UserTurn, AssistantTurn
<1> QED BY <1>1, <1>2

LEMMA TraceTyped == ASSUME NEW r \in Requests PROVE Trace(r) \in Traces
BY DEF Trace, Traces, Requests, Runs

LEMMA TouchInv == ASSUME IInv, NEW h \in Handlers, Touch(h) PROVE IInv'
<1> DEFINE r == requests[h]
           o == [r EXCEPT !.touched = @ \cup {Target(r)}]
           n == Recorded(o)
<1>1. /\ r.step = "touching" /\ Becomes(h, n)
      /\ UNCHANGED <<outside, chat, clock, sessions, tables, history>>
  BY DEF Touch
<1>2. /\ r \in Requests /\ Open(h)
      /\ r.turns = {} /\ r.jobs = {} /\ r.traces = {} /\ OwnDream(r)
      /\ r.route # "ROUTE_NOOP"
      /\ r.session \in SessionIds
      /\ r.route = "ROUTE_NEW_DREAM" => r.dreamSession \in SessionIds
      /\ ~raced => Calm(r)
  BY <1>1, InHand DEF Fit, Open, InTransaction
<1>3. Target(r) \in SessionIds
  BY <1>2 DEF Target
<1>4. /\ o \in Requests /\ o.step = "touching" /\ o.run = r.run /\ o.route = r.route
      /\ o.update = r.update /\ o.dreamSession = r.dreamSession
      /\ o.opened = r.opened /\ o.closed = r.closed /\ o.session = r.session
      /\ o.turns = {} /\ o.dreams = r.dreams /\ o.jobs = {} /\ o.traces = {}
  BY <1>1, <1>2, <1>3 DEF Requests
<1> HIDE DEF o
<1>5. OwnDream(o)
  BY <1>2, <1>4 DEF OwnDream, Dream
<1>6. /\ UserTurn(o) \in Turns /\ AssistantTurn(o) \in Turns /\ Trace(o) \in Traces
      /\ o.route = "ROUTE_NEW_DREAM" => Job(o) \in Jobs
  BY <1>2, <1>4, TurnTyped, TraceTyped DEF Job, Jobs, Requests
<1>7. Replied(o) \in {"sending", "committing"}
      /\ (Replied(o) = "sending" <=> mail[o.update].via = "webhook")
  BY DEF Replied
<1> DEFINE canned == o.route \in CannedRoutes
           new == o.route = "ROUTE_NEW_DREAM"
<1>8. /\ n \in Requests /\ n.step = (IF canned THEN Replied(o) ELSE "asking")
      /\ n.run = o.run /\ n.route = o.route /\ n.update = o.update
      /\ n.opened = o.opened /\ n.closed = o.closed
      /\ n.session = o.session /\ n.dreamSession = o.dreamSession /\ n.dreams = o.dreams
      /\ n.turns = (IF canned THEN {UserTurn(o), AssistantTurn(o)} ELSE {UserTurn(o)})
      /\ n.jobs = (IF new THEN {Job(o)} ELSE {})
      /\ n.traces = {Trace(o)}
  <2>1. CASE canned
    <3>1. n = [o EXCEPT !.turns = {UserTurn(o), AssistantTurn(o)}, !.traces = {Trace(o)},
                        !.step = Replied(o)]
      BY <2>1 DEF Recorded, CannedRoutes
    <3>2. ~new
      BY <2>1 DEF CannedRoutes
    <3> HIDE DEF n
    <3> QED BY <1>4, <1>6, <1>7, <2>1, <3>1, <3>2 DEF Requests, Steps, InTransaction
  <2>2. CASE new
    <3>1. ~canned
      BY <2>2 DEF CannedRoutes
    <3>2. n = [o EXCEPT !.jobs = {Job(o)}, !.turns = {UserTurn(o)}, !.traces = {Trace(o)},
                        !.step = "asking"]
      BY <2>2, <3>1 DEF Recorded
    <3> HIDE DEF n
    <3> QED BY <1>4, <1>6, <2>2, <3>1, <3>2 DEF Requests, Steps, InTransaction
  <2>3. CASE ~canned /\ ~new
    <3>1. n = [o EXCEPT !.turns = {UserTurn(o)}, !.traces = {Trace(o)}, !.step = "asking"]
      BY <2>3 DEF Recorded
    <3> HIDE DEF n
    <3> QED BY <1>4, <1>6, <2>3, <3>1 DEF Requests, Steps, InTransaction
  <2> QED BY <2>1, <2>2, <2>3
<1> HIDE DEF n
<1>9. UserTurn(n) = UserTurn(o) /\ AssistantTurn(n) = AssistantTurn(o) /\ Trace(n) = Trace(o)
      /\ Job(n) = Job(o) /\ OwnDream(n)
  BY <1>5, <1>8 DEF UserTurn, AssistantTurn, Trace, Job, OwnDream, Dream
<1>10. OwnJob(n) /\ (canned => Full(n))
  BY <1>2, <1>4, <1>8, <1>9 DEF OwnJob, Full
<1>11. Fit(n) /\ n.step \in InTransaction /\ Answered(n)
  BY <1>2, <1>4, <1>7, <1>8, <1>9, <1>10 DEF Fit, InTransaction, Answered
<1>12. ASSUME ~raced PROVE Calm(n)
  <2>1. Active(n) = Active(r) /\ n.step \in {"asking", "sending", "committing"}
    BY <1>4, <1>7, <1>8 DEF Active
  <2> QED BY <1>1, <1>2, <1>4, <1>8, <1>12, <2>1 DEF Calm
<1> QED BY <1>1, <1>2, <1>4, <1>8, <1>11, <1>12, QuietMove

LEMMA ModelAnswersInv == ASSUME IInv, NEW h \in Handlers, ModelAnswers(h) PROVE IInv'
<1> DEFINE r == requests[h]
           n == [r EXCEPT !.turns = @ \cup {AssistantTurn(r)}, !.step = Replied(r)]
<1>1. /\ r.step = "asking" /\ Becomes(h, n)
      /\ UNCHANGED <<outside, chat, clock, sessions, tables, history>>
  BY DEF ModelAnswers
<1>2. /\ r \in Requests /\ Open(h) /\ OwnDream(r) /\ OwnJob(r)
      /\ r.turns = {UserTurn(r)} /\ r.traces = {Trace(r)}
      /\ r.route # "ROUTE_NOOP" /\ r.session \in SessionIds
      /\ ~raced => Calm(r)
  BY <1>1, InHand DEF Fit, Open, InTransaction
<1>3. /\ Replied(r) \in {"sending", "committing"}
      /\ (Replied(r) = "sending" <=> mail[r.update].via = "webhook")
      /\ AssistantTurn(r) \in Turns
  BY <1>2, TurnTyped DEF Replied
<1>4. /\ n \in Requests /\ n.step = Replied(r) /\ n.run = r.run /\ n.route = r.route
      /\ n.update = r.update /\ n.dreamSession = r.dreamSession
      /\ n.opened = r.opened /\ n.closed = r.closed /\ n.session = r.session
      /\ n.turns = {UserTurn(r), AssistantTurn(r)}
      /\ n.dreams = r.dreams /\ n.jobs = r.jobs /\ n.traces = r.traces
  BY <1>2, <1>3 DEF Requests, Steps, InTransaction
<1> HIDE DEF n
<1>5. UserTurn(n) = UserTurn(r) /\ AssistantTurn(n) = AssistantTurn(r) /\ Trace(n) = Trace(r)
      /\ Job(n) = Job(r)
  BY <1>4 DEF UserTurn, AssistantTurn, Trace, Job
<1>6. Full(n)
  BY <1>2, <1>4, <1>5 DEF Full, OwnDream, OwnJob, Dream
<1>7. Fit(n) /\ n.step \in InTransaction /\ Answered(n)
  BY <1>2, <1>3, <1>4, <1>6 DEF Fit, InTransaction, Answered
<1>8. ASSUME ~raced PROVE Calm(n)
  <2>1. Active(n) = Active(r)
    BY <1>4 DEF Active
  <2> QED BY <1>1, <1>2, <1>3, <1>4, <1>8, <2>1 DEF Calm
<1> QED BY <1>1, <1>2, <1>4, <1>7, <1>8, QuietMove

(* The reply goes out on the webhook, from a request about to commit.      *)
LEMMA SendInv == ASSUME IInv, NEW h \in Handlers, Send(h) PROVE IInv'
<1> DEFINE r == requests[h]
           c == Reply(r)
<1> PICK n : n = [r EXCEPT !.step = "committing"]
  OBVIOUS
<1>1. /\ r.step = "sending" /\ Becomes(h, n) /\ chat' = chat \cup {c}
      /\ mail' = mail /\ deliveries' = deliveries /\ acked' = acked
      /\ UNCHANGED <<mail, clock, sessions, tables>>
      /\ faults' = faults /\ aged' = aged /\ raced' = raced
  BY DEF Send, Show, Reply, outside, history
<1>2. /\ r \in Requests /\ Open(h) /\ Full(r) /\ mail[r.update].via = "webhook"
      /\ r.run <= clock /\ (~raced => Calm(r))
  BY <1>1, InHand DEF Fit, Open, InTransaction
<1>3. /\ n \in Requests /\ n.step = "committing" /\ n.run = r.run /\ n.route = r.route
      /\ n.update = r.update /\ n.dreamSession = r.dreamSession
      /\ n.opened = r.opened /\ n.closed = r.closed /\ n.session = r.session
      /\ n.turns = r.turns
      /\ n.dreams = r.dreams /\ n.jobs = r.jobs /\ n.traces = r.traces
  BY <1>2 DEF Requests, Steps, InTransaction
<1>4. c \in Shown /\ c.run = r.run /\ c.update = r.update
  BY ReplyTyped DEF Reply
<1>5. Full(n) /\ Reply(n) = c
  BY <1>2, <1>3 DEF Full, OwnDream, OwnJob, Dream, Job, Trace, UserTurn, AssistantTurn, Reply
<1>6. Fit(n) /\ n.step \in InTransaction
  BY <1>3, <1>5 DEF Fit, InTransaction
<1>7. Answered(n)'
  BY <1>1, <1>3, <1>5 DEF Answered, Reply
<1>8. ~raced => Calm(n)
  <2>1. Active(n) = Active(r)
    BY <1>3 DEF Active
  <2> QED BY <1>1, <1>2, <1>3, <2>1 DEF Calm
<1>9. /\ acked' \in SUBSET Updates /\ chat' \in SUBSET Shown /\ faults' \in Nat
      /\ aged' \in Nat /\ deliveries' \in [Updates -> Nat] /\ faults <= faults'
  BY <1>1, <1>4 DEF IInv, TypeOK
<1> HIDE DEF c
<1> QED BY <1>1, <1>2, <1>3, <1>4, <1>6, <1>7, <1>8, <1>9, Moves

-----------------------------------------------------------------------------
(* The steps that begin and end transactions, and what happens around them *)

(* The tables and the requests of the others stay as they are.             *)
LEMMA TablesStay ==
  ASSUME IInv, UNCHANGED <<mail, acked, tables>>, chat \subseteq chat',
         \A c \in chat' : c \in chat \/ c.text = "error",
         \/ faults' > 0
         \/ /\ faults' = faults
            /\ \A h \in Handlers : requests[h].step = "committing" =>
                                     requests'[h] = requests[h]
  PROVE  IntakeWhole' /\ AckedIsStored' /\ UnstoredRepliesNeedFaults'
<1>1. /\ mail' = mail /\ acked' = acked /\ turns' = turns
      /\ dreams' = dreams /\ jobs' = jobs /\ traces' = traces
  BY DEF tables
<1>2. IntakeWhole'
  BY <1>1 DEF IInv, IntakeWhole, Whole, RowsOf
<1>3. AckedIsStored'
  BY <1>1 DEF IInv, AckedIsStored
<1>4. UnstoredRepliesNeedFaults'
  <2> SUFFICES ASSUME NEW c \in chat, c.text = "reply", RowsOf(traces, c.run) = {}
               PROVE  /\ mail[c.update].via = "webhook"
                      /\ faults' > 0 \/ \E g \in Handlers : /\ requests'[g].run = c.run
                                                            /\ requests'[g].step = "committing"
    BY <1>1 DEF UnstoredRepliesNeedFaults, RowsOf
  <2>1. /\ mail[c.update].via = "webhook"
        /\ faults > 0 \/ \E g \in Handlers : /\ requests[g].run = c.run
                                             /\ requests[g].step = "committing"
    BY DEF IInv, UnstoredRepliesNeedFaults
  <2> QED BY <2>1
<1> QED BY <1>2, <1>3, <1>4

(* The request once its first statement has decided the route.             *)
Evaluated(r, route) ==
  LET begun == [r EXCEPT !.run = clock + 1, !.route = route]
  IN  IF route = "ROUTE_NOOP"
        THEN [begun EXCEPT !.step = "committing", !.traces = {Trace(begun)}]
        ELSE [begun EXCEPT !.step = "finding"]

LEMMA EvaluateInv == ASSUME IInv, NEW h \in Handlers, Evaluate(h) PROVE IInv'
<1> DEFINE r == requests[h]
<1>0. PICK route \in Routes : Becomes(h, Evaluated(r, route))
  <2> DEFINE state == IF Active(r) = {} THEN "NEW" ELSE "ACTIVE"
             route == decide(build_policy_input(mail[r.update].text, state)).route
             begun == [r EXCEPT !.run = clock + 1, !.route = route]
             n == IF route = "ROUTE_NOOP"
                    THEN [begun EXCEPT !.step = "committing", !.traces = {Trace(begun)}]
                    ELSE [begun EXCEPT !.step = "finding"]
  <2>1. route \in Routes
    BY DecidedRoute
  <2>2. Becomes(h, n)
    BY DEF Evaluate
  <2>3. r \in Requests
    BY InHand
  <2> HIDE DEF route
  <2>4. n = Evaluated(r, route)
    BY <2>3 DEF Requests, Evaluated
  <2> HIDE DEF n
  <2> QED BY <2>1, <2>2, <2>4
<1> PICK n : n = Evaluated(r, route)
  OBVIOUS
<1>1. Becomes(h, n) /\ n = Evaluated(r, route)
  BY <1>0
<1>2. /\ r.step = "evaluating" /\ clock' = clock + 1 /\ mail' = mail
      /\ deliveries' = deliveries /\ acked' = acked /\ chat' = chat /\ sessions' = sessions
      /\ turns' = turns /\ dreams' = dreams /\ jobs' = jobs /\ traces' = traces
      /\ faults' = faults /\ aged' = aged
      /\ raced' = (raced \/ \E g \in Handlers \ {h} : Open(g))
      /\ UNCHANGED <<mail, acked, tables>>
  BY DEF Evaluate, outside, tables
<1>3. /\ r \in Requests /\ clock \in Nat /\ Bare(r)
      /\ r.opened = {} /\ r.closed = {} /\ r.touched = {}
  BY <1>2, InHand DEF Fit, IInv, TypeOK, Runs
<1> PICK begun : begun = [r EXCEPT !.run = clock + 1, !.route = route]
  OBVIOUS
<1>4. /\ begun \in Requests /\ begun.run = clock + 1 /\ begun.route = route
      /\ Trace(begun) \in Traces
  <2>1. clock + 1 \in Runs
    BY <1>3 DEF Runs
  <2>2. begun \in Requests /\ begun.run = clock + 1 /\ begun.route = route
    BY <1>3, <2>1 DEF Requests
  <2> QED BY <2>2, TraceTyped
<1> DEFINE traced == IF route = "ROUTE_NOOP" THEN {Trace(begun)} ELSE r.traces
           step == IF route = "ROUTE_NOOP" THEN "committing" ELSE "finding"
<1>5. n = [r EXCEPT !.run = clock + 1, !.route = route, !.step = step, !.traces = traced]
  <2>1. r.traces = {}
    BY <1>3 DEF Bare
  <2> QED BY <1>1, <1>3, <2>1 DEF Requests, Evaluated
<1>6. traced \in SUBSET Traces /\ (route # "ROUTE_NOOP" => traced = {})
  BY <1>3, <1>4 DEF Bare
<1> HIDE DEF traced
<1>7. /\ n \in Requests /\ n.run = clock + 1 /\ n.route = route /\ n.step = step
      /\ n.update = r.update /\ n.session = r.session
      /\ n.traces = traced /\ n.turns = r.turns /\ n.dreams = r.dreams /\ n.jobs = r.jobs
      /\ n.opened = {} /\ n.closed = {} /\ n.step \in InTransaction
  <2>1. clock + 1 \in Runs
    BY <1>3 DEF Runs
  <2>2. step \in InTransaction /\ step \in Steps
    BY DEF InTransaction, Steps
  <2> HIDE DEF step
  <2> QED BY <1>3, <1>5, <1>6, <2>1, <2>2 DEF Requests
<1>8. route = "ROUTE_NOOP" => traced = {Trace(n)}
  <2>1. Trace(n) = Trace(begun)
    BY <1>3, <1>4, <1>7 DEF Trace, Requests
  <2> QED BY <2>1 DEF traced
<1>9. Fit(n) /\ Answered(n)'
  <2>1. Fit(n)
    BY <1>3, <1>6, <1>7, <1>8 DEF Fit, Bare, Full, OwnDream, OwnJob
  <2>2. Answered(n)'
    BY <1>7 DEF Answered
  <2> QED BY <2>1, <2>2
<1>10. /\ requests' \in [Handlers -> Requests] /\ requests'[h] = n
       /\ \A g \in Handlers : g # h => requests'[g] = requests[g]
  BY <1>1, <1>7, OneMoves DEF IInv
<1>11. TypeOK'
  <2>1. raced' \in BOOLEAN /\ clock' \in Runs
    BY <1>2, <1>3 DEF Runs
  <2> QED BY <1>2, <1>10, <2>1 DEF IInv, TypeOK
<1>12. Shapes'
  <2>1. ASSUME NEW g \in Handlers PROVE Fit(requests[g])'
    <3>1. Fit(requests'[g])
      BY <1>9, <1>10 DEF IInv, Shapes
    <3> QED BY <1>2, <3>1 DEF Fit, Bare, Full, OwnDream, OwnJob, Dream, Job, Trace,
                              UserTurn, AssistantTurn
  <2> QED BY <2>1 DEF Shapes
<1>13. Numbered'
  <2>1. ASSUME NEW row \in Rows PROVE row.run \in 1 .. clock /\ row.run \in 1 .. clock'
    BY <1>2, <1>3 DEF IInv, Numbered
  <2>2. ASSUME NEW g \in Handlers, g # h
        PROVE  requests'[g].run <= clock /\ requests'[g].run \in Nat
    BY <1>10, <2>2, InHand
  <2>3. \A g \in Handlers : requests'[g].run <= clock'
    BY <1>2, <1>3, <1>7, <1>10, <2>2
  <2>4. ASSUME NEW g \in Handlers, Open(g)'
        PROVE  /\ requests'[g].run >= 1
               /\ \A row \in Rows' : row.run # requests'[g].run
               /\ \A f \in Handlers : Open(f)' /\ requests'[f].run = requests'[g].run => f = g
    <3>1. CASE g = h
      BY <1>2, <1>3, <1>7, <1>10, <2>1, <2>2, <3>1 DEF Rows
    <3>2. CASE g # h
      <4>1. Open(g) /\ requests'[g] = requests[g]
        BY <1>10, <2>4, <3>2 DEF Open
      <4>2. \A f \in Handlers : f # h /\ Open(f)' => Open(f) /\ requests'[f] = requests[f]
        BY <1>10 DEF Open
      <4>3. requests'[h].run # requests'[g].run
        BY <1>3, <1>7, <1>10, <2>2, <3>2
      <4> QED BY <1>2, <4>1, <4>2, <4>3 DEF IInv, Numbered, Rows
    <3> QED BY <3>1, <3>2
  <2> QED BY <1>2, <2>1, <2>3, <2>4 DEF Numbered, Rows
<1>14. Answers'
  <2>1. ASSUME NEW g \in Handlers, g # h PROVE Answered(requests[g])'
    BY <1>2, <1>10, <2>1 DEF IInv, Answers, Answered, Reply
  <2>2. Answered(requests[h])'
    BY <1>9, <1>10 DEF Answered, Reply
  <2> QED BY <2>1, <2>2 DEF Answers
<1>15. Quiet'
  <2> SUFFICES ASSUME ~raced'
               PROVE  /\ \A f, g \in Handlers : Open(f)' /\ Open(g)' => f = g
                      /\ \A g \in Handlers : Open(g)' => Calm(requests[g])'
                      /\ OneActive' /\ Together'
    BY DEF Quiet
  <2>1. ~raced /\ \A g \in Handlers : g # h => ~Open(g)
    BY <1>2
  <2>2. \A g \in Handlers : Open(g)' => g = h
    BY <1>10, <2>1 DEF Open
  <2>3. OneActive /\ Together
    BY <2>1 DEF IInv, Quiet
  <2>4. Calm(n)
    <3>1. Active(n) = {s \in SessionIds : sessions[s].status = "active"}
      BY <1>7 DEF Active
    <3> QED BY <1>7, <2>3, <3>1 DEF Calm, OneActive
  <2>5. Calm(requests[h])'
    <3>1. Calm(requests'[h])
      BY <1>10, <2>4
    <3> QED BY <1>2, <3>1 DEF Calm, Active, Stale
  <2>6. OneActive' /\ Together'
    BY <1>2, <2>3 DEF OneActive, Together, RowsOf
  <2> QED BY <2>2, <2>5, <2>6
<1>16. IntakeWhole' /\ AckedIsStored' /\ UnstoredRepliesNeedFaults'
  <2>1. \A g \in Handlers : requests[g].step = "committing" => requests'[g] = requests[g]
    BY <1>2, <1>10
  <2>2. \A c \in chat' : c \in chat
    BY <1>2
  <2> QED BY <1>2, <2>1, <2>2, TablesStay
<1> QED BY <1>11, <1>12, <1>13, <1>14, <1>15, <1>16 DEF IInv

LEMMA CrashInv == ASSUME IInv, Crash PROVE IInv'
<1>1. /\ mail' = mail /\ deliveries' = deliveries /\ acked' = acked
      /\ clock' = clock /\ sessions' = sessions
      /\ turns' = turns /\ dreams' = dreams /\ jobs' = jobs /\ traces' = traces
      /\ faults' = faults + 1 /\ aged' = aged /\ raced' = raced
      /\ UNCHANGED <<mail, acked, tables>>
      /\ requests' = [h \in Handlers |-> Rest]
  BY DEF Crash, Fault, outside, tables
<1>2. /\ chat' \in SUBSET Shown /\ chat \subseteq chat'
      /\ \A c \in chat' : c \in chat \/ c.text = "error"
  <2> DEFINE cut == {h \in Handlers : requests[h].step # "idle"}
             failed == {h \in cut : mail[requests[h].update].via = "bot"}
             shown == {[run |-> requests[h].run, update |-> requests[h].update,
                        text |-> "error"] : h \in failed}
  <2>1. chat' = chat \cup shown
    BY DEF Crash
  <2>2. \A c \in shown : c \in Shown /\ c.text = "error"
    <3>1. \A h \in failed : h \in Handlers
      OBVIOUS
    <3>2. \A h \in failed : requests[h].run \in Runs /\ requests[h].update \in Updates
      BY <3>1, InHand DEF Requests
    <3> HIDE DEF failed
    <3> QED BY <3>2 DEF Shown
  <2>3. chat \in SUBSET Shown
    BY DEF IInv, TypeOK
  <2> HIDE DEF shown
  <2> QED BY <2>1, <2>2, <2>3
<1>3. faults' \in Nat /\ faults' > 0
  BY <1>1 DEF IInv, TypeOK
<1>4. \A h \in Handlers : requests'[h] = Rest
  BY <1>1
<1>5. TypeOK'
  BY <1>1, <1>2, <1>3, RestTyped DEF IInv, TypeOK
<1>6. Shapes'
  BY <1>4, RestTyped DEF Shapes, Fit, Bare, InTransaction
<1>7. \A h \in Handlers : ~Open(h)'
  BY <1>4, RestTyped DEF Open, InTransaction
<1>8. Numbered'
  <2>1. 0 <= clock
    BY DEF IInv, TypeOK, Runs
  <2> QED BY <1>1, <1>4, <1>7, <2>1, RestTyped DEF IInv, Numbered, Rows
<1>9. Answers'
  BY <1>4, RestTyped DEF Answers, Answered
<1>10. Quiet'
  BY <1>1, <1>7 DEF IInv, Quiet, OneActive, Together, RowsOf
<1>11. IntakeWhole' /\ AckedIsStored' /\ UnstoredRepliesNeedFaults'
  BY <1>1, <1>2, <1>3, TablesStay
<1> QED BY <1>5, <1>6, <1>8, <1>9, <1>10, <1>11 DEF IInv

LEMMA GoStaleInv == ASSUME IInv, NEW s \in SessionIds, GoStale(s) PROVE IInv'
<1>1. /\ mail' = mail /\ deliveries' = deliveries /\ acked' = acked /\ chat' = chat
      /\ clock' = clock /\ requests' = requests
      /\ turns' = turns /\ dreams' = dreams /\ jobs' = jobs /\ traces' = traces
      /\ faults' = faults /\ aged' = aged + 1
      /\ sessions' = [sessions EXCEPT ![s].stale = TRUE]
      /\ raced' = (raced \/ \E h \in Handlers : Open(h))
      /\ UNCHANGED <<mail, acked, tables>>
  BY DEF GoStale, outside, tables
<1>2. /\ sessions' \in [SessionIds -> SessionRow]
      /\ \A t \in SessionIds : sessions'[t].status = sessions[t].status
  <2>1. sessions \in [SessionIds -> SessionRow]
    BY DEF IInv, TypeOK
  <2> QED BY <1>1, <2>1 DEF SessionRow
<1>3. TypeOK'
  <2>1. raced' \in BOOLEAN /\ aged' \in Nat
    BY <1>1 DEF IInv, TypeOK
  <2> QED BY <1>1, <1>2, <2>1 DEF IInv, TypeOK
<1>4. Shapes' /\ Answers'
  <2>1. ASSUME NEW h \in Handlers PROVE Fit(requests[h])'
    <3>1. Fit(requests[h])
      BY DEF IInv, Shapes
    <3> QED BY <1>1, <3>1 DEF Fit, Bare, Full, OwnDream, OwnJob, Dream, Job, Trace,
                              UserTurn, AssistantTurn
  <2>2. Answers'
    BY <1>1 DEF IInv, Answers, Answered, Reply
  <2> QED BY <2>1, <2>2 DEF Shapes
<1>5. Numbered'
  BY <1>1 DEF IInv, Numbered, Rows, Open
<1>6. Quiet'
  <2> SUFFICES ASSUME ~raced'
               PROVE  /\ \A h \in Handlers : ~Open(h)'
                      /\ OneActive' /\ Together'
    BY DEF Quiet
  <2>1. ~raced /\ \A h \in Handlers : ~Open(h)
    BY <1>1
  <2>2. \A h \in Handlers : ~Open(h)'
    BY <1>1, <2>1 DEF Open
  <2>3. OneActive' /\ Together'
    BY <1>1, <1>2, <2>1 DEF IInv, Quiet, OneActive, Together, RowsOf
  <2> QED BY <2>2, <2>3
<1>7. IntakeWhole' /\ AckedIsStored' /\ UnstoredRepliesNeedFaults'
  BY <1>1, TablesStay
<1> QED BY <1>3, <1>4, <1>5, <1>6, <1>7 DEF IInv

(* What is stored of a request are its rows, and no other row has its      *)
(* number.                                                                 *)
LEMMA CommitWhole ==
  ASSUME IInv, NEW h \in Handlers, Commit(h)
  PROVE  IntakeWhole'
<1> DEFINE r == requests[h]
<1>1. /\ r \in Requests /\ Full(r) /\ Open(h)
      /\ turns' = turns \cup r.turns /\ dreams' = dreams \cup r.dreams
      /\ jobs' = jobs \cup r.jobs /\ traces' = traces \cup r.traces
  BY InHand DEF Commit, Fit, Open, InTransaction
<1>2. \A row \in Rows : row.run # r.run
  BY <1>1 DEF IInv, Numbered
<1> PICK t : t = Trace(r)
  OBVIOUS
<1>3. /\ r.traces = {t} /\ t.run = r.run /\ t.route = r.route
      /\ t.session = r.session /\ t.update = r.update
      /\ t.dream = (IF r.dreams = {} THEN 0 ELSE r.run)
      /\ t.job = (IF r.dreams = {} THEN 0 ELSE r.run)
  BY <1>1 DEF Full, Trace
<1>4. \A row \in r.turns \cup r.dreams \cup r.jobs \cup r.traces : row.run = r.run
  <2>1. \A row \in r.turns : row.run = r.run
    BY <1>1, TurnFields DEF Full
  <2>2. \A row \in r.dreams : row.run = r.run
    BY <1>1 DEF Full, OwnDream, Dream
  <2>3. \A row \in r.jobs : row.run = r.run
    BY <1>1 DEF Full, OwnJob, Job
  <2> QED BY <1>3, <2>1, <2>2, <2>3
<1>5. ASSUME NEW x, x # r.run
      PROVE  /\ RowsOf(turns', x) = RowsOf(turns, x) /\ RowsOf(dreams', x) = RowsOf(dreams, x)
             /\ RowsOf(jobs', x) = RowsOf(jobs, x) /\ RowsOf(traces', x) = RowsOf(traces, x)
  BY <1>1, <1>4, <1>5 DEF RowsOf
<1>6. /\ RowsOf(turns', r.run) = r.turns /\ RowsOf(dreams', r.run) = r.dreams
      /\ RowsOf(jobs', r.run) = r.jobs /\ RowsOf(traces', r.run) = r.traces
  BY <1>1, <1>2, <1>4 DEF RowsOf, Rows
<1>7. ASSUME NEW o \in traces PROVE Whole(o)'
  <2>1. Whole(o) /\ o.run # r.run
    BY <1>2 DEF IInv, IntakeWhole, Rows
  <2>2. /\ RowsOf(turns', o.run) = RowsOf(turns, o.run)
        /\ RowsOf(dreams', o.run) = RowsOf(dreams, o.run)
        /\ RowsOf(jobs', o.run) = RowsOf(jobs, o.run)
        /\ RowsOf(traces', o.run) = RowsOf(traces, o.run)
    BY <1>5, <2>1
  <2> QED BY <2>1, <2>2 DEF Whole
<1>8. Whole(t)'
  <2>1. RowsOf(traces', t.run) = {t}
    BY <1>3, <1>6
  <2>2. t.route = "ROUTE_NOOP" <=> RowsOf(turns', t.run) = {}
    BY <1>1, <1>3, <1>6 DEF Full
  <2>3. t.route = "ROUTE_NEW_DREAM" <=> RowsOf(dreams', t.run) # {}
    BY <1>1, <1>3, <1>6 DEF Full, OwnDream
  <2>4. t.dream # 0 <=> t.route = "ROUTE_NEW_DREAM"
    BY <1>1, <1>3 DEF Full, OwnDream, IInv, Numbered, Requests, Runs
  <2>5. ASSUME NEW d \in RowsOf(dreams', t.run)
        PROVE  /\ t.dream = d.run /\ t.job = d.run
               /\ RowsOf(jobs', t.run)
                    = {[run |-> d.run, session |-> d.session, dream |-> d.run]}
    <3>1. r.route = "ROUTE_NEW_DREAM" /\ d = Dream(r, r.dreamSession)
      BY <1>1, <1>3, <1>6 DEF Full, OwnDream
    <3>2. d.run = r.run /\ d.session = r.dreamSession /\ r.dreams # {}
      BY <1>1, <3>1 DEF Dream, Full, OwnDream
    <3>3. r.jobs = {[run |-> d.run, session |-> d.session, dream |-> d.run]}
      BY <1>1, <3>1, <3>2 DEF Full, OwnJob, Job
    <3> QED BY <1>3, <1>6, <3>2, <3>3
  <2>6. ASSUME t.route # "ROUTE_NOOP", NEW role \in {"user", "assistant"}
        PROVE  \E c \in RowsOf(turns', t.run) :
                  /\ {b \in RowsOf(turns', t.run) : b.role = role} = {c}
                  /\ c.role = role
                  /\ c.update = t.update /\ c.session = t.session /\ c.dream = t.dream
    <3> DEFINE c == IF role = "user" THEN UserTurn(r) ELSE AssistantTurn(r)
    <3>1. RowsOf(turns', t.run) = {UserTurn(r), AssistantTurn(r)}
      BY <1>1, <1>3, <1>6, <2>6 DEF Full
    <3>2. UserTurn(r).role = "user" /\ AssistantTurn(r).role = "assistant"
      BY DEF UserTurn, AssistantTurn
    <3>3. /\ c.update = r.update /\ c.session = r.session
          /\ c.dream = (IF r.dreams = {} THEN 0 ELSE r.run)
      BY DEF UserTurn, AssistantTurn
    <3>4. c.role = role /\ c \in {UserTurn(r), AssistantTurn(r)}
      BY <3>2
    <3>5. \A b \in {UserTurn(r), AssistantTurn(r)} : b.role = role => b = c
      BY <3>2
    <3> HIDE DEF c
    <3> QED BY <1>3, <3>1, <3>3, <3>4, <3>5
  <2>7. ASSUME t.route # "ROUTE_NOOP", NEW role \in {"user", "assistant"}
        PROVE  \E c \in {b \in RowsOf(turns', t.run) : b.role = role} :
                  /\ {b \in RowsOf(turns', t.run) : b.role = role} = {c}
                  /\ c.update = t.update /\ c.session = t.session /\ c.dream = t.dream
    BY <2>6, <2>7
  <2> QED BY <2>1, <2>2, <2>3, <2>4, <2>5, <2>7 DEF Whole
<1>9. \A row \in turns' \cup dreams' \cup jobs' : RowsOf(traces', row.run) # {}
  <2>1. ASSUME NEW row \in r.turns \cup r.dreams \cup r.jobs PROVE RowsOf(traces', row.run) # {}
    BY <1>3, <1>4, <1>6
  <2>2. ASSUME NEW row \in turns \cup dreams \cup jobs PROVE RowsOf(traces', row.run) # {}
    BY <1>2, <1>5 DEF IInv, IntakeWhole, Rows
  <2> QED BY <1>1, <2>1, <2>2
<1> QED BY <1>1, <1>3, <1>7, <1>8, <1>9 DEF IntakeWhole

(* The commit makes the session rows what the transaction saw.             *)
LEMMA CommitInv == ASSUME IInv, NEW h \in Handlers, Commit(h) PROVE IInv'
<1> DEFINE r == requests[h]
<1>1. PICK n : n = [Request(r.update) EXCEPT !.step = "responding",
                                             !.run = r.run, !.route = r.route]
  OBVIOUS
<1>2. /\ r.step = "committing" /\ Becomes(h, n) /\ mail' = mail
      /\ deliveries' = deliveries /\ acked' = acked /\ chat' = chat /\ clock' = clock
      /\ faults' = faults /\ aged' = aged /\ raced' = raced
      /\ sessions' = [s \in SessionIds |-> Stored(r, s)]
      /\ turns' = turns \cup r.turns /\ dreams' = dreams \cup r.dreams
      /\ jobs' = jobs \cup r.jobs /\ traces' = traces \cup r.traces
  BY <1>1 DEF Commit, outside, history
<1>3. /\ r \in Requests /\ Full(r) /\ Open(h) /\ Answered(r) /\ r.run <= clock /\ r.run \in Nat
      /\ ~raced => Calm(r)
  BY <1>2, InHand DEF Fit, Open, InTransaction
<1>4. r.update \in Updates /\ r.run \in Runs /\ r.route \in Routes
      /\ Request(r.update) \in Requests
  BY <1>3, RequestTyped DEF Requests
<1>5. /\ n \in Requests /\ n.step = "responding" /\ n.run = r.run /\ n.route = r.route
      /\ n.update = r.update /\ Bare(n)
      /\ n.opened = {} /\ n.closed = {} /\ n.touched = {}
      /\ n.step \notin InTransaction
  <2> DEFINE q == Request(r.update)
  <2>1. q.update = r.update /\ Bare(q) /\ q.opened = {} /\ q.closed = {} /\ q.touched = {}
    BY DEF Request, Bare
  <2>2. n = [q EXCEPT !.step = "responding", !.run = r.run, !.route = r.route] /\ q \in Requests
    BY <1>1, <1>4
  <2> HIDE DEF q
  <2> QED BY <1>4, <2>1, <2>2 DEF Requests, Steps, Bare, InTransaction
<1>6. /\ requests' \in [Handlers -> Requests] /\ requests'[h] = n
      /\ \A g \in Handlers : g # h => requests'[g] = requests[g]
  BY <1>2, <1>5, OneMoves DEF IInv
<1>7. sessions' \in [SessionIds -> SessionRow]
  <2>1. ASSUME NEW s \in SessionIds PROVE Stored(r, s) \in SessionRow
    <3>1. sessions[s] \in SessionRow
      BY DEF IInv, TypeOK
    <3> QED BY <1>4, <3>1 DEF Stored, SessionRow
  <2> QED BY <1>2, <2>1
<1>8. TypeOK'
  <2>1. r.turns \subseteq Turns /\ r.dreams \subseteq Dreams /\ r.jobs \subseteq Jobs
        /\ r.traces \subseteq Traces
    BY <1>3 DEF Requests
  <2> QED BY <1>2, <1>6, <1>7, <2>1 DEF IInv, TypeOK
<1>9. Shapes'
  <2>1. ASSUME NEW g \in Handlers PROVE Fit(requests[g])'
    <3>1. Fit(n)
      BY <1>5 DEF Fit, InTransaction
    <3>2. Fit(requests'[g])
      BY <1>6, <3>1 DEF IInv, Shapes
    <3> QED BY <1>2, <3>2 DEF Fit, Bare, Full, OwnDream, OwnJob, Dream, Job, Trace,
                              UserTurn, AssistantTurn
  <2> QED BY <2>1 DEF Shapes
<1>10. \A row \in r.turns \cup r.dreams \cup r.jobs \cup r.traces : row.run = r.run
  <2>1. \A row \in r.turns : row.run = r.run
    BY <1>3, TurnFields DEF Full
  <2>2. \A row \in r.dreams : row.run = r.run
    BY <1>3 DEF Full, OwnDream, Dream
  <2>3. \A row \in r.jobs : row.run = r.run
    BY <1>3 DEF Full, OwnJob, Job
  <2>4. \A row \in r.traces : row.run = r.run
    BY <1>3 DEF Full, Trace
  <2> QED BY <2>1, <2>2, <2>3, <2>4
<1>11. Numbered'
  <2>1. r.run \in 1 .. clock
    BY <1>3 DEF IInv, Numbered, TypeOK, Runs
  <2>2. \A row \in Rows' : row \in Rows \/ row.run = r.run
    BY <1>2, <1>10 DEF Rows
  <2>3. \A row \in Rows' : row.run \in 1 .. clock'
    BY <1>2, <2>1, <2>2 DEF IInv, Numbered
  <2>4. \A g \in Handlers : requests'[g].run <= clock'
    BY <1>2, <1>3, <1>5, <1>6 DEF IInv, Numbered
  <2>5. \A g \in Handlers : Open(g)' => g # h /\ Open(g) /\ requests'[g] = requests[g]
    BY <1>5, <1>6 DEF Open
  <2>6. ASSUME NEW g \in Handlers, Open(g)'
        PROVE  /\ requests'[g].run >= 1
               /\ \A row \in Rows' : row.run # requests'[g].run
               /\ \A f \in Handlers : Open(f)' /\ requests'[f].run = requests'[g].run => f = g
    <3>1. g # h /\ Open(g) /\ requests'[g] = requests[g] /\ requests[g].run # r.run
      BY <1>3, <2>5, <2>6 DEF IInv, Numbered
    <3>2. \A row \in Rows' : row.run # requests'[g].run
      BY <2>2, <3>1 DEF IInv, Numbered
    <3>3. \A f \in Handlers : Open(f)' /\ requests'[f].run = requests'[g].run => f = g
      BY <2>5, <3>1 DEF IInv, Numbered
    <3> QED BY <3>1, <3>2, <3>3 DEF IInv, Numbered
  <2> QED BY <2>3, <2>4, <2>6 DEF Numbered
<1>12. Trace(r) \in traces' /\ Trace(r).run = r.run /\ Trace(r).update = r.update
       /\ Trace(r).route = r.route
  BY <1>2, <1>3 DEF Full, Trace
<1>13. Answers'
  <2>1. ASSUME NEW g \in Handlers, g # h PROVE Answered(requests[g])'
    BY <1>2, <1>6, <2>1 DEF IInv, Answers, Answered, Reply
  <2>2. (n.route # "ROUTE_NOOP" /\ mail[n.update].via = "webhook") => Reply(n) \in chat
    BY <1>2, <1>3, <1>5 DEF Answered, Reply
  <2>3. \E t \in traces' : t.run = n.run /\ t.update = n.update /\ t.route = n.route
    BY <1>5, <1>12
  <2>4. Answered(requests[h])'
    BY <1>2, <1>6, <2>2, <2>3 DEF Answered, Reply
  <2> QED BY <2>1, <2>4 DEF Answers
<1>14. Quiet'
  <2> SUFFICES ASSUME ~raced
               PROVE  /\ \A g \in Handlers : ~Open(g)'
                      /\ OneActive' /\ Together'
    BY <1>2 DEF Quiet
  <2>1. \A g \in Handlers : ~Open(g)'
    BY <1>3, <1>5, <1>6 DEF IInv, Quiet, Open
  <2>2. Calm(r)
    BY <1>3
  <2>3. ASSUME NEW s \in SessionIds, sessions'[s].status = "active" PROVE s \in Active(r)
    <3>1. sessions'[s] = Stored(r, s) /\ sessions[s] \in SessionRow
      BY <1>2 DEF IInv, TypeOK
    <3>2. CASE s \in r.opened
      BY <3>2 DEF Active
    <3>3. CASE s \notin r.opened
      <4>1. Stored(r, s).status = IF s \in r.closed THEN "closed" ELSE sessions[s].status
        BY <3>1, <3>3 DEF Stored, SessionRow
      <4> QED BY <2>3, <3>1, <4>1 DEF Active
    <3> QED BY <3>2, <3>3
  <2>4. OneActive'
    BY <2>2, <2>3 DEF OneActive, Calm
  <2>5. Together'
    <3> SUFFICES ASSUME NEW d \in dreams', NEW c \in turns', c.run = d.run
                 PROVE  c.session = d.session
      BY DEF Together, RowsOf
    <3>1. \A row \in Rows : row.run # r.run
      BY <1>3 DEF IInv, Numbered
    <3>2. CASE d \in dreams
      <4>1. c \in turns
        BY <1>2, <1>10, <3>1, <3>2 DEF Rows
      <4> QED BY <3>2, <4>1 DEF IInv, Quiet, Together, RowsOf
    <3>3. CASE d \in r.dreams
      <4>1. c \in r.turns
        BY <1>2, <1>10, <3>1, <3>3 DEF Rows
      <4>2. r.route = "ROUTE_NEW_DREAM" /\ d.session = r.dreamSession
        BY <1>3, <3>3 DEF Full, OwnDream, Dream
      <4>3. c.session = r.session
        BY <1>3, <4>1, TurnFields DEF Full
      <4>4. r.dreamSession = r.session
        BY <1>2, <2>2, <4>2 DEF Calm
      <4> QED BY <4>2, <4>3, <4>4
    <3> QED BY <1>2, <3>2, <3>3
  <2> QED BY <2>1, <2>4, <2>5
<1>15. IntakeWhole'
  BY CommitWhole
<1>16. AckedIsStored'
  BY <1>2 DEF IInv, AckedIsStored
<1>17. UnstoredRepliesNeedFaults'
  <2> SUFFICES ASSUME NEW c \in chat, c.text = "reply", RowsOf(traces', c.run) = {}
               PROVE  /\ mail[c.update].via = "webhook"
                      /\ faults > 0 \/ \E g \in Handlers : /\ requests'[g].run = c.run
                                                           /\ requests'[g].step = "committing"
    BY <1>2 DEF UnstoredRepliesNeedFaults
  <2>1. c.run # r.run /\ RowsOf(traces, c.run) = {}
    BY <1>2, <1>12 DEF RowsOf
  <2>2. /\ mail[c.update].via = "webhook"
        /\ faults > 0 \/ \E g \in Handlers : /\ requests[g].run = c.run
                                             /\ requests[g].step = "committing"
    BY <2>1 DEF IInv, UnstoredRepliesNeedFaults
  <2> QED BY <1>6, <2>1, <2>2
<1> QED BY <1>8, <1>9, <1>11, <1>13, <1>14, <1>15, <1>16, <1>17 DEF IInv

LEMMA UnchangedInv == ASSUME IInv, UNCHANGED vars PROVE IInv'
<1>1. /\ mail' = mail /\ deliveries' = deliveries /\ acked' = acked /\ chat' = chat
      /\ requests' = requests /\ clock' = clock /\ sessions' = sessions
      /\ turns' = turns /\ dreams' = dreams /\ jobs' = jobs /\ traces' = traces
      /\ faults' = faults /\ aged' = aged /\ raced' = raced
      /\ UNCHANGED <<mail, acked, tables>>
  BY DEF vars, outside, tables, history
<1>2. TypeOK'
  BY <1>1 DEF IInv, TypeOK
<1>3. Shapes'
  <2>1. ASSUME NEW h \in Handlers PROVE Fit(requests[h])'
    <3>1. Fit(requests[h])
      BY DEF IInv, Shapes
    <3> QED BY <1>1, <3>1 DEF Fit, Bare, Full, OwnDream, OwnJob, Dream, Job, Trace,
                              UserTurn, AssistantTurn
  <2> QED BY <2>1 DEF Shapes
<1>4. Numbered' /\ Answers'
  BY <1>1 DEF IInv, Numbered, Rows, Open, Answers, Answered, Reply
<1>5. Quiet'
  BY <1>1 DEF IInv, Quiet, Open, Calm, Active, Stale, OneActive, Together, RowsOf
<1>6. IntakeWhole' /\ AckedIsStored' /\ UnstoredRepliesNeedFaults'
  BY <1>1, TablesStay
<1> QED BY <1>2, <1>3, <1>4, <1>5, <1>6 DEF IInv

LEMMA StepInv == IInv /\ [Next]_vars => IInv'
<1> SUFFICES ASSUME IInv, [Next]_vars PROVE IInv'
  OBVIOUS
<1>1. ASSUME NEW h \in Handlers, NEW u \in Updates, Deliver(h, u) \/ DeliverAgain(h, u)
      PROVE  IInv'
  BY <1>1, DeliverInv
<1>2. ASSUME NEW h \in Handlers, Progress(h) PROVE IInv'
  BY <1>2, EvaluateInv, FindActiveInv, FindStaleInv, FindNoneInv, CloseStaleInv, TouchInv,
     ModelAnswersInv, SendInv, CommitInv, RespondInv DEF Progress
<1>3. ASSUME NEW h \in Handlers, Trouble(h) PROVE IInv'
  BY <1>3, TroubleInv
<1>4. CASE Crash
  BY <1>4, CrashInv
<1>5. ASSUME NEW s \in SessionIds, GoStale(s) PROVE IInv'
  BY <1>5, GoStaleInv
<1>6. CASE UNCHANGED vars
  BY <1>6, UnchangedInv
<1> QED BY <1>1, <1>2, <1>3, <1>4, <1>5, <1>6 DEF Next

LEMMA InductiveInvariant == Spec => []IInv
BY InitInv, StepInv, PTL DEF Spec
-----------------------------------------------------------------------------
(* The theorems                                                            *)

(* Every reachable state has its type.                                     *)
THEOREM TypeCorrect == Spec => []TypeOK
<1>1. IInv => TypeOK
  BY DEF IInv
<1> QED BY InductiveInvariant, <1>1, PTL

(* The dream, its job, the turns and the trace of a message are stored     *)
(* together or not at all, for any number of concurrent requests, repeats  *)
(* and faults (process_incoming_message, dream_intake).                    *)
THEOREM IntakesAreWhole == Spec => []IntakeWhole
<1>1. IInv => IntakeWhole
  BY DEF IInv
<1> QED BY InductiveInvariant, <1>1, PTL

(* An update that is answered with 200, and so never repeated, has been    *)
(* stored and its reply was sent (telegram_webhook, get_session).          *)
THEOREM AcknowledgedIsStored == Spec => []AckedIsStored
<1>1. IInv => AckedIsStored
  BY DEF IInv
<1> QED BY InductiveInvariant, <1>1, PTL

(* A reply that is not stored is one of the webhook, which sends before    *)
(* its transaction commits, and stays so only after a fault.               *)
THEOREM RepliesAreStored == Spec => []UnstoredRepliesNeedFaults
<1>1. IInv => UnstoredRepliesNeedFaults
  BY DEF IInv
<1> QED BY InductiveInvariant, <1>1, PTL

(* Two active sessions of a user take two overlapping requests             *)
(* (get_or_create_active_session has no constraint to rely on).            *)
THEOREM OneActiveWithoutRaces == Spec => []OneActiveUnlessRaced
<1>1. ASSUME IInv PROVE OneActiveUnlessRaced
  <2> DEFINE A == {s \in SessionIds : sessions[s].status = "active"}
  <2> SUFFICES ASSUME ~raced PROVE Cardinality(A) <= 1
    BY DEF OneActiveUnlessRaced
  <2>1. \A s, t \in A : s = t
    BY <1>1 DEF IInv, Quiet, OneActive
  <2>2. CASE A = {}
    BY <2>2, FS_EmptySet
  <2>3. CASE A # {}
    <3>1. PICK s : s \in A
      BY <2>3
    <3>2. A = {s}
      BY <2>1, <3>1
    <3>3. Cardinality(A) = 1
      BY <3>2, FS_Singleton
    <3> QED BY <3>3
  <2> QED BY <2>2, <2>3
<1> QED BY InductiveInvariant, <1>1, PTL

(* Two lookups of the session in one transaction find the same one, so     *)
(* that a dream is in the session of its turns, unless requests overlap    *)
(* (register_incoming_dream).                                              *)
THEOREM DreamsWithTheirTurns == Spec => []DreamWithItsTurns
<1>1. IInv => DreamWithItsTurns
  BY DEF IInv, Quiet, Together, DreamWithItsTurns
<1> QED BY InductiveInvariant, <1>1, PTL

(* Only sessions that have been idle for 72 hours are closed, unless       *)
(* requests overlap (close_session updates by id).                         *)
THEOREM ClosingIsForStale == Spec => ClosedOnlyWhenStale
<1> DEFINE Closing == \A s \in SessionIds :
                        (sessions[s].status = "active" /\ sessions'[s].status = "closed")
                          => sessions[s].stale \/ raced
<1>1. IInv /\ [Next]_vars => [Closing]_vars
  <2> SUFFICES ASSUME IInv, Next, ~raced,
                      NEW s \in SessionIds,
                      sessions[s].status = "active", sessions'[s].status = "closed"
               PROVE  sessions[s].stale
    OBVIOUS
  <2>1. \/ \E h \in Handlers : Commit(h)
        \/ sessions' = sessions
        \/ \E t \in SessionIds : GoStale(t)
    BY DEF Next, Deliver, DeliverAgain, Progress, Trouble, Crash, Evaluate, FindActive,
           FindStale, FindNone, CloseStale, Touch, ModelAnswers, Send, Respond, ModelFails,
           SendFails, CommitFails, ResponseLost, Failed
  <2>2. ASSUME NEW h \in Handlers, Commit(h) PROVE sessions[s].stale
    <3>1. sessions'[s] = Stored(requests[h], s) /\ sessions[s] \in SessionRow
          /\ Calm(requests[h])
      BY <2>2, InHand DEF Commit, IInv, TypeOK, Open, InTransaction
    <3>2. s \in requests[h].closed
      BY <3>1 DEF Stored, SessionRow
    <3> QED BY <3>1, <3>2 DEF Calm
  <2>3. ASSUME NEW t \in SessionIds, GoStale(t) PROVE FALSE
    <3>1. sessions' = [sessions EXCEPT ![t].stale = TRUE]
          /\ sessions \in [SessionIds -> SessionRow]
      BY <2>3 DEF GoStale, IInv, TypeOK
    <3>2. sessions'[s].status = sessions[s].status
      BY <3>1 DEF SessionRow
    <3> QED BY <3>2
  <2> QED BY <2>1, <2>2, <2>3
<1> QED BY InductiveInvariant, <1>1, PTL DEF Spec, ClosedOnlyWhenStale

-----------------------------------------------------------------------------
(* The copies of an update                                                 *)

CopiesOf(u) == {t \in traces : t.update = u}

(* The requests that may still store it. *)
Unstored(u) == {h \in Handlers : /\ requests[h].update = u
                                 /\ requests[h].step \notin {"idle", "responding"}}

(* One copy is the delivery itself; Telegram sends another one, while the  *)
(* update is neither being served nor acknowledged, after a fault only.    *)
Allowed(u) ==
  IF mail[u].via = "bot" THEN deliveries[u]
  ELSE faults + (IF u \in acked \/ Serving(u) THEN 1 ELSE 0)

CopiesFit ==
  \A u \in Updates :
    /\ mail[u].via = "bot" => deliveries[u] <= 1
    /\ IsFiniteSet(CopiesOf(u)) /\ IsFiniteSet(Unstored(u))
    /\ Cardinality(CopiesOf(u)) + Cardinality(Unstored(u)) <= Allowed(u)

LEMMA OneMore ==
  ASSUME NEW S, NEW x, IsFiniteSet(S)
  PROVE  /\ IsFiniteSet(S \cup {x}) /\ Cardinality(S \cup {x}) \in Nat
         /\ Cardinality(S \cup {x}) <= Cardinality(S) + 1
<1>1. Cardinality(S) \in Nat
  BY FS_CardinalityType
<1>2. IsFiniteSet(S \cup {x})
  BY FS_AddElement
<1>3. Cardinality(S \cup {x}) = Cardinality(S) \/ Cardinality(S \cup {x}) = Cardinality(S) + 1
  <2>1. CASE x \in S
    <3>1. S \cup {x} = S
      BY <2>1
    <3> QED BY <3>1
  <2>2. CASE x \notin S
    BY <2>2, FS_AddElement
  <2> QED BY <2>1, <2>2
<1> QED BY <1>1, <1>2, <1>3

LEMMA InitCopies == Init => CopiesFit
<1> SUFFICES ASSUME Init, NEW u \in Updates
             PROVE  /\ mail[u].via = "bot" => deliveries[u] <= 1
                    /\ IsFiniteSet(CopiesOf(u)) /\ IsFiniteSet(Unstored(u))
                    /\ Cardinality(CopiesOf(u)) + Cardinality(Unstored(u)) <= Allowed(u)
  BY DEF CopiesFit
<1>1. deliveries[u] = 0 /\ faults = 0
  BY DEF Init
<1>2. CopiesOf(u) = {} /\ Unstored(u) = {}
  BY RestTyped DEF Init, CopiesOf, Unstored
<1> QED BY <1>1, <1>2, FS_EmptySet DEF Allowed

(* What is known of one update.                                            *)
LEMMA CopiesKnown ==
  ASSUME IInv, CopiesFit, NEW u \in Updates
  PROVE  /\ IsFiniteSet(CopiesOf(u)) /\ IsFiniteSet(Unstored(u))
         /\ Cardinality(CopiesOf(u)) \in Nat /\ Cardinality(Unstored(u)) \in Nat
         /\ deliveries[u] \in Nat /\ faults \in Nat
         /\ mail[u].via = "bot" => deliveries[u] <= 1
         /\ Cardinality(CopiesOf(u)) + Cardinality(Unstored(u)) <= Allowed(u)
BY FS_CardinalityType DEF CopiesFit, IInv, TypeOK

(* A step that keeps the traces, lets no further request store u, and      *)
(* takes a permission away only with a fault.                              *)
LEMMA FewerCopies ==
  ASSUME IInv, CopiesFit, NEW u \in Updates,
         mail' = mail, traces' = traces, deliveries'[u] = deliveries[u],
         Unstored(u)' \subseteq Unstored(u), faults' \in Nat,
         \/ faults' > faults
         \/ faults' = faults /\ (u \in acked \/ Serving(u) => u \in acked' \/ Serving(u)')
  PROVE  /\ mail'[u].via = "bot" => deliveries'[u] <= 1
         /\ IsFiniteSet(CopiesOf(u)') /\ IsFiniteSet(Unstored(u)')
         /\ Cardinality(CopiesOf(u)') + Cardinality(Unstored(u)') <= Allowed(u)'
<1>1. CopiesOf(u)' = CopiesOf(u)
  BY DEF CopiesOf
<1>2. /\ IsFiniteSet(Unstored(u)') /\ Cardinality(Unstored(u)') \in Nat
      /\ Cardinality(Unstored(u)') <= Cardinality(Unstored(u))
  BY CopiesKnown, FS_Subset, FS_CardinalityType
<1>3. Allowed(u) <= Allowed(u)'
  BY CopiesKnown DEF Allowed
<1>4. Allowed(u) \in Nat /\ Allowed(u)' \in Nat
  <2>1. deliveries[u] \in Nat /\ faults \in Nat /\ deliveries'[u] \in Nat
    BY CopiesKnown
  <2>2. Allowed(u) \in {deliveries[u], faults, faults + 1}
    BY <2>1 DEF Allowed
  <2>3. Allowed(u)' \in {deliveries'[u], faults', faults' + 1}
    <3>1. CASE mail'[u].via = "bot"
      BY <3>1 DEF Allowed
    <3>2. CASE mail'[u].via # "bot" /\ (u \in acked' \/ Serving(u)')
      BY <2>1, <3>2 DEF Allowed
    <3>3. CASE mail'[u].via # "bot" /\ ~(u \in acked' \/ Serving(u)')
      <4>1. Allowed(u)' = faults' + 0
        BY <3>3 DEF Allowed, Serving
      <4>2. \A n \in Nat : n + 0 = n
        OBVIOUS
      <4> QED BY <4>1, <4>2
    <3> QED BY <3>1, <3>2, <3>3
  <2> QED BY <2>1, <2>2, <2>3
<1>5. /\ IsFiniteSet(CopiesOf(u)) /\ Cardinality(CopiesOf(u)) \in Nat
      /\ Cardinality(Unstored(u)) \in Nat
      /\ Cardinality(CopiesOf(u)) + Cardinality(Unstored(u)) <= Allowed(u)
      /\ mail[u].via = "bot" => deliveries[u] <= 1
  BY CopiesKnown
<1>6. Cardinality(CopiesOf(u)) + Cardinality(Unstored(u)') <= Allowed(u)'
  BY <1>2, <1>3, <1>4, <1>5
<1> QED BY <1>1, <1>2, <1>5, <1>6

(* A request goes on, without a commit.                                    *)
LEMMA CopiesGoOn ==
  ASSUME IInv, CopiesFit, NEW h \in Handlers, NEW new \in Requests, Becomes(h, new),
         requests[h].step \notin {"idle", "responding"},
         new.step \notin {"idle", "responding"}, new.update = requests[h].update,
         mail' = mail, deliveries' = deliveries, acked' = acked, traces' = traces,
         faults' = faults
  PROVE  CopiesFit'
<1>1. /\ requests'[h] = new
      /\ \A g \in Handlers : g # h => requests'[g] = requests[g]
  BY OneMoves DEF IInv
<1>2. faults' \in Nat
  BY DEF IInv, TypeOK
<1>3. ASSUME NEW u \in Updates
      PROVE  Unstored(u)' = Unstored(u) /\ (Serving(u) => Serving(u)')
  BY <1>1 DEF Unstored, Serving
<1> QED BY <1>2, <1>3, FewerCopies DEF CopiesFit

(* A request ends with a fault.                                            *)
LEMMA CopiesAfterFault ==
  ASSUME IInv, CopiesFit, NEW h \in Handlers, Failed(h)
  PROVE  CopiesFit'
<1>1. /\ requests'[h] = Rest
      /\ \A g \in Handlers : g # h => requests'[g] = requests[g]
  BY OneMoves, RestTyped DEF IInv, Failed
<1>2. mail' = mail /\ deliveries' = deliveries /\ traces' = traces /\ faults' = faults + 1
      /\ faults \in Nat
  BY DEF Failed, Fault, outside, tables, IInv, TypeOK
<1>3. ASSUME NEW u \in Updates PROVE Unstored(u)' \subseteq Unstored(u)
  BY <1>1, RestTyped DEF Unstored
<1> QED BY <1>2, <1>3, FewerCopies DEF CopiesFit

LEMMA CopiesAfterCrash == ASSUME IInv, CopiesFit, Crash PROVE CopiesFit'
<1>1. \A h \in Handlers : requests'[h].step = "idle"
  BY RestTyped DEF Crash
<1>2. mail' = mail /\ deliveries' = deliveries /\ traces' = traces /\ faults' = faults + 1
      /\ faults \in Nat
  BY DEF Crash, Fault, outside, tables, IInv, TypeOK
<1>3. ASSUME NEW u \in Updates PROVE Unstored(u)' \subseteq Unstored(u)
  BY <1>1 DEF Unstored
<1> QED BY <1>2, <1>3, FewerCopies DEF CopiesFit

(* The response leaves the webhook's update acknowledged.                  *)
LEMMA CopiesAfterResponse ==
  ASSUME IInv, CopiesFit, NEW h \in Handlers, Respond(h)
  PROVE  CopiesFit'
<1> DEFINE r == requests[h]
<1>1. /\ requests'[h] = Rest
      /\ \A g \in Handlers : g # h => requests'[g] = requests[g]
  BY OneMoves, RestTyped DEF IInv, Respond
<1>2. /\ mail' = mail /\ deliveries' = deliveries /\ traces' = traces /\ faults' = faults
      /\ faults' \in Nat /\ r.update \in Updates
  BY InHand DEF Respond, tables, history, IInv, TypeOK, Requests
<1> SUFFICES ASSUME NEW u \in Updates
             PROVE  /\ mail'[u].via = "bot" => deliveries'[u] <= 1
                    /\ IsFiniteSet(CopiesOf(u)') /\ IsFiniteSet(Unstored(u)')
                    /\ Cardinality(CopiesOf(u)') + Cardinality(Unstored(u)') <= Allowed(u)'
  BY DEF CopiesFit
<1>3. Unstored(u)' \subseteq Unstored(u)
  BY <1>1, RestTyped DEF Unstored
<1>4. CASE mail[u].via = "webhook"
  <2>1. u \in acked => u \in acked'
    BY DEF Respond
  <2>2. r.update = u => u \in acked'
    BY <1>4 DEF Respond
  <2>3. r.update # u /\ Serving(u) => Serving(u)'
    BY <1>1 DEF Serving
  <2> QED BY <1>2, <1>3, <2>1, <2>2, <2>3, FewerCopies
<1>5. CASE mail[u].via # "webhook"
  <2>1. mail[u].via = "bot"
    BY <1>5, IngressAssumption DEF IInv, TypeOK, Messages, Channels
  <2>2. CopiesOf(u)' = CopiesOf(u)
    BY <1>2 DEF CopiesOf
  <2>3. /\ IsFiniteSet(Unstored(u)') /\ Cardinality(Unstored(u)') \in Nat
        /\ Cardinality(Unstored(u)') <= Cardinality(Unstored(u))
    BY <1>3, CopiesKnown, FS_Subset, FS_CardinalityType
  <2> QED BY <1>2, <2>1, <2>2, <2>3, CopiesKnown DEF Allowed
<1> QED BY <1>4, <1>5

LEMMA CopiesAfterDelivery ==
  ASSUME IInv, CopiesFit, NEW h \in Handlers, NEW v \in Updates,
         Deliver(h, v) \/ DeliverAgain(h, v)
  PROVE  CopiesFit'
<1>1. /\ requests'[h] = Request(v)
      /\ \A g \in Handlers : g # h => requests'[g] = requests[g]
  BY OneMoves, RequestTyped DEF IInv, Deliver, DeliverAgain
<1>2. /\ mail' = mail /\ acked' = acked /\ traces' = traces
      /\ deliveries' = [deliveries EXCEPT ![v] = @ + 1]
      /\ requests[h].step = "idle" /\ v \notin acked
      /\ deliveries \in [Updates -> Nat] /\ faults \in Nat
      /\ mail[v].via = "bot" => deliveries[v] < 1
      /\ \/ faults' = faults /\ ~Serving(v)
         \/ faults' = faults + 1
  BY DEF Deliver, DeliverAgain, Fault, tables, history, IInv, TypeOK
<1>3. Request(v).step = "evaluating" /\ Request(v).update = v
  BY DEF Request
<1> SUFFICES ASSUME NEW u \in Updates
             PROVE  /\ mail'[u].via = "bot" => deliveries'[u] <= 1
                    /\ IsFiniteSet(CopiesOf(u)') /\ IsFiniteSet(Unstored(u)')
                    /\ Cardinality(CopiesOf(u)') + Cardinality(Unstored(u)') <= Allowed(u)'
  BY DEF CopiesFit
<1>4. CASE u # v
  <2>1. Unstored(u)' \subseteq Unstored(u)
    BY <1>1, <1>3, <1>4 DEF Unstored
  <2>2. Serving(u) => Serving(u)'
    BY <1>1, <1>2 DEF Serving
  <2>3. deliveries'[u] = deliveries[u] /\ faults' \in Nat
    BY <1>2, <1>4
  <2> QED BY <1>2, <2>1, <2>2, <2>3, FewerCopies
<1>5. CASE u = v
  <2>1. Unstored(u)' = Unstored(u) \cup {h}
    BY <1>1, <1>3, <1>5 DEF Unstored
  <2>2. Serving(u)'
    BY <1>1, <1>3, <1>5 DEF Serving
  <2>3. CopiesOf(u)' = CopiesOf(u)
    BY <1>2 DEF CopiesOf
  <2>4. /\ IsFiniteSet(Unstored(u)') /\ Cardinality(Unstored(u)') \in Nat
        /\ Cardinality(Unstored(u)') <= Cardinality(Unstored(u)) + 1
    BY <2>1, CopiesKnown, OneMore
  <2>5. deliveries'[u] = deliveries[u] + 1
    BY <1>2, <1>5
  <2>6. Allowed(u)' >= Allowed(u) + 1 /\ Allowed(u) \in Nat /\ Allowed(u)' \in Nat
    BY <1>2, <1>5, <2>2, <2>5, CopiesKnown DEF Allowed
  <2>7. mail'[u].via = "bot" => deliveries'[u] <= 1
    BY <1>2, <1>5, <2>5
  <2>8. /\ IsFiniteSet(CopiesOf(u)) /\ Cardinality(CopiesOf(u)) \in Nat
        /\ Cardinality(Unstored(u)) \in Nat
        /\ Cardinality(CopiesOf(u)) + Cardinality(Unstored(u)) <= Allowed(u)
    BY CopiesKnown
  <2>9. Cardinality(CopiesOf(u)) + Cardinality(Unstored(u)') <= Allowed(u)'
    BY <2>4, <2>6, <2>8
  <2> QED BY <2>3, <2>4, <2>7, <2>8, <2>9
<1> QED BY <1>4, <1>5

(* The commit turns a request that may store u into a copy of u.           *)
LEMMA CopiesAfterCommit ==
  ASSUME IInv, CopiesFit, NEW h \in Handlers, Commit(h)
  PROVE  CopiesFit'
<1> DEFINE r == requests[h]
           new == [Request(r.update) EXCEPT !.step = "responding", !.run = r.run,
                                            !.route = r.route]
<1>1. r \in Requests /\ r.update \in Updates /\ Request(r.update) \in Requests
  BY InHand, RequestTyped DEF Requests
<1>2. new \in Requests /\ new.step = "responding" /\ new.update = r.update
  <2>1. Request(r.update).update = r.update
    BY DEF Request
  <2> QED BY <1>1, <2>1 DEF Requests, Steps
<1>3. Becomes(h, new) /\ r.step = "committing"
  BY DEF Commit
<1> HIDE DEF new
<1>4. /\ requests'[h] = new
      /\ \A g \in Handlers : g # h => requests'[g] = requests[g]
  BY <1>2, <1>3, OneMoves DEF IInv
<1>5. /\ mail' = mail /\ deliveries' = deliveries /\ acked' = acked /\ faults' = faults
      /\ faults' \in Nat
      /\ traces' = traces \cup r.traces
  BY DEF Commit, outside, history, IInv, TypeOK
<1>6. r.traces = {Trace(r)} /\ Trace(r).update = r.update
  BY <1>3, InHand DEF Fit, Full, Trace
<1> SUFFICES ASSUME NEW u \in Updates
             PROVE  /\ mail'[u].via = "bot" => deliveries'[u] <= 1
                    /\ IsFiniteSet(CopiesOf(u)') /\ IsFiniteSet(Unstored(u)')
                    /\ Cardinality(CopiesOf(u)') + Cardinality(Unstored(u)') <= Allowed(u)'
  BY DEF CopiesFit
<1>7. Serving(u) => Serving(u)'
  BY <1>2, <1>4 DEF Serving
<1>8. CASE u # r.update
  <2>1. CopiesOf(u)' = CopiesOf(u)
    BY <1>5, <1>6, <1>8 DEF CopiesOf
  <2>2. Unstored(u)' = Unstored(u)
    BY <1>2, <1>4, <1>8 DEF Unstored
  <2>3. Allowed(u) <= Allowed(u)' /\ Allowed(u) \in Nat /\ Allowed(u)' \in Nat
    BY <1>5, <1>7, CopiesKnown DEF Allowed
  <2>4. Cardinality(CopiesOf(u)) + Cardinality(Unstored(u)) <= Allowed(u)'
    BY <2>3, CopiesKnown
  <2> QED BY <1>5, <2>1, <2>2, <2>4, CopiesKnown
<1>9. CASE u = r.update
  <2>1. CopiesOf(u)' = CopiesOf(u) \cup {Trace(r)}
    BY <1>5, <1>6, <1>9 DEF CopiesOf
  <2>2. Unstored(u)' = Unstored(u) \ {h} /\ h \in Unstored(u)
    BY <1>2, <1>3, <1>4, <1>9 DEF Unstored
  <2>3. /\ IsFiniteSet(CopiesOf(u)') /\ Cardinality(CopiesOf(u)') \in Nat
        /\ Cardinality(CopiesOf(u)') <= Cardinality(CopiesOf(u)) + 1
    BY <2>1, CopiesKnown, OneMore
  <2>4. /\ IsFiniteSet(Unstored(u)')
        /\ Cardinality(Unstored(u)') = Cardinality(Unstored(u)) - 1
    BY <2>2, CopiesKnown, FS_RemoveElement
  <2>5. Allowed(u) <= Allowed(u)' /\ Allowed(u) \in Nat /\ Allowed(u)' \in Nat
    BY <1>5, <1>7, CopiesKnown DEF Allowed
  <2>6. Cardinality(CopiesOf(u)') + Cardinality(Unstored(u)') <= Allowed(u)'
    BY <2>3, <2>4, <2>5, CopiesKnown
  <2> QED BY <1>5, <2>3, <2>4, <2>6, CopiesKnown
<1> QED BY <1>8, <1>9

(* What a request is that has neither been committed nor ended.            *)
LEMMA GoesOn ==
  ASSUME IInv, NEW h \in Handlers,
         \/ Evaluate(h) \/ FindActive(h) \/ FindStale(h) \/ FindNone(h) \/ CloseStale(h)
         \/ Touch(h) \/ ModelAnswers(h) \/ Send(h)
  PROVE  \E new \in Requests :
           /\ Becomes(h, new) /\ new.update = requests[h].update
           /\ new.step \notin {"idle", "responding"}
<1> DEFINE r == requests[h]
<1>1. r \in Requests
  BY InHand
<1>2. SUFFICES /\ requests'[h].step \notin {"idle", "responding"}
               /\ requests'[h].update = r.update
  <2>1. requests'[h] \in Requests
    BY StepInv DEF IInv, TypeOK, Next, Progress
  <2>2. \E new : Becomes(h, new)
    BY DEF Evaluate, FindActive, FindStale, FindNone, CloseStale, Touch, ModelAnswers, Send,
           Becomes
  <2>3. Becomes(h, requests'[h])
    BY <2>2 DEF Becomes, IInv, TypeOK
  <2> QED BY <1>2, <2>1, <2>3
<1>3. \A new : Becomes(h, new) => requests'[h] = new
  BY DEF Becomes, IInv, TypeOK
<1>4. ASSUME NEW q, NEW s, q.update = r.update
      PROVE  Resolved(q, s).update = q.update
             /\ Resolved(q, s).step \in {"touching", "findingForDream"}
  BY <1>4 DEF Resolved
<1>5. CASE Evaluate(h)
  BY <1>1, <1>3, <1>5 DEF Evaluate, Requests
<1>6. CASE FindActive(h)
  BY <1>1, <1>3, <1>4, <1>6 DEF FindActive
<1>7. CASE FindStale(h)
  BY <1>1, <1>3, <1>7 DEF FindStale, Requests
<1>8. CASE FindNone(h)
  BY <1>1, <1>3, <1>4, <1>8 DEF FindNone, CreateSession, Requests
<1>9. CASE CloseStale(h)
  <2>1. PICK s \in SessionIds :
          Becomes(h, CreateSession([r EXCEPT !.closed = @ \cup {r.victim}, !.victim = 0], s))
    BY <1>9 DEF CloseStale
  <2> DEFINE o == [r EXCEPT !.closed = @ \cup {r.victim}, !.victim = 0]
             q == [o EXCEPT !.opened = @ \cup {s}]
  <2>2. q.update = r.update
    BY <1>1 DEF Requests
  <2>3. requests'[h] = Resolved(q, s)
    BY <1>3, <2>1 DEF CreateSession
  <2> HIDE DEF q
  <2> QED BY <1>4, <2>2, <2>3
<1>10. CASE Touch(h)
  <2> DEFINE o == [r EXCEPT !.touched = @ \cup {Target(r)}]
  <2>1. requests'[h] = Recorded(o)
    BY <1>3, <1>10 DEF Touch
  <2>2. o \in [step : Steps, update : Updates, run : Runs, route : Routes,
                session : SessionIds \cup {0}, dreamSession : SessionIds \cup {0},
                victim : SessionIds \cup {0},
                opened : SUBSET SessionIds, closed : SUBSET SessionIds,
                touched : {o.touched},
                turns : SUBSET Turns, dreams : SUBSET Dreams, jobs : SUBSET Jobs,
                traces : SUBSET Traces] /\ o.update = r.update
    BY <1>1 DEF Requests
  <2> HIDE DEF o
  <2>3. Replied(o) \notin {"idle", "responding"}
    BY DEF Replied
  <2> QED BY <2>1, <2>2, <2>3 DEF Recorded
<1>11. CASE ModelAnswers(h) \/ Send(h)
  BY <1>1, <1>3, <1>11 DEF ModelAnswers, Send, Replied, Requests
<1> QED BY <1>5, <1>6, <1>7, <1>8, <1>9, <1>10, <1>11

LEMMA StepCopies == IInv /\ CopiesFit /\ [Next]_vars => CopiesFit'
<1> SUFFICES ASSUME IInv, CopiesFit, [Next]_vars PROVE CopiesFit'
  OBVIOUS
<1>1. ASSUME NEW h \in Handlers, NEW u \in Updates, Deliver(h, u) \/ DeliverAgain(h, u)
      PROVE  CopiesFit'
  BY <1>1, CopiesAfterDelivery
<1>2. ASSUME NEW h \in Handlers, Progress(h) PROVE CopiesFit'
  <2> DEFINE r == requests[h]
  <2>1. CASE Commit(h)
    BY <2>1, CopiesAfterCommit
  <2>2. CASE Respond(h)
    BY <2>2, CopiesAfterResponse
  <2>3. CASE /\ ~Commit(h) /\ ~Respond(h)
    <3>1. /\ r.step \notin {"idle", "responding"}
          /\ mail' = mail /\ deliveries' = deliveries /\ acked' = acked
          /\ traces' = traces /\ faults' = faults
      BY <1>2, <2>3
      DEF Progress, Evaluate, FindActive, FindStale, FindNone, CloseStale, Touch,
          ModelAnswers, Send, outside, tables, history
    <3>2. PICK new \in Requests :
            /\ Becomes(h, new) /\ new.update = r.update
            /\ new.step \notin {"idle", "responding"}
      BY <1>2, <2>3, GoesOn DEF Progress
    <3> QED BY <3>1, <3>2, CopiesGoOn
  <2> QED BY <2>1, <2>2, <2>3
<1>3. ASSUME NEW h \in Handlers, Trouble(h) PROVE CopiesFit'
  BY <1>3, CopiesAfterFault DEF Trouble, ModelFails, SendFails, CommitFails, ResponseLost
<1>4. CASE Crash
  BY <1>4, CopiesAfterCrash
<1>5. CASE (\E s \in SessionIds : GoStale(s)) \/ UNCHANGED vars
  <2>1. /\ mail' = mail /\ deliveries' = deliveries /\ acked' = acked
        /\ traces' = traces /\ faults' = faults /\ requests' = requests
        /\ faults' \in Nat
    BY <1>5 DEF GoStale, vars, outside, tables, history, IInv, TypeOK
  <2>2. ASSUME NEW u \in Updates
        PROVE  Unstored(u)' = Unstored(u) /\ Serving(u)' = Serving(u)
    BY <2>1 DEF Unstored, Serving
  <2> QED BY <2>1, <2>2, FewerCopies DEF CopiesFit
<1> QED BY <1>1, <1>2, <1>3, <1>4, <1>5 DEF Next

(* Nothing recognises a repeated update, but each copy beyond the first    *)
(* takes a fault, and a message through the bot is stored at most once     *)
(* (telegram_webhook, bot.handlers.dreams).                                *)
THEOREM DuplicatesTakeFaults == Spec => []DuplicatesNeedFaults
<1>1. Init => CopiesFit
  BY InitCopies
<1>2. IInv /\ CopiesFit /\ [Next]_vars => CopiesFit'
  BY StepCopies
<1>3. IInv /\ CopiesFit => DuplicatesNeedFaults
  <2> SUFFICES ASSUME IInv, CopiesFit, NEW u \in Updates
               PROVE  Cardinality(CopiesOf(u))
                        <= 1 + (IF mail[u].via = "bot" THEN 0 ELSE faults)
    BY DEF DuplicatesNeedFaults, CopiesOf
  <2> QED BY CopiesKnown DEF Allowed
<1> QED BY <1>1, <1>2, <1>3, InductiveInvariant, PTL DEF Spec
=============================================================================
