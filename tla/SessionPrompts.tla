--------------------------- MODULE SessionPrompts ---------------------------
(***************************************************************************)
(* The material of one session on its way into analysis prompts: dreams    *)
(* are added while requests build the session summary, save it, read it    *)
(* and compile prompts (PromptContract) from it.  A request is one READ    *)
(* COMMITTED transaction; an action is one statement that reads what       *)
(* others write or waits for them.                                         *)
(***************************************************************************)
EXTENDS PromptContract

CONSTANTS
  Nights,        \* the dreams a user may send: sequences of texts
  Requests,      \* the transactions
  NoRequest,
  SampleDreams,  \* _RAW_TEXT_DREAM_LIMIT
  Seams          \* what may arise where two texts of a sample meet

(* The first line of a text is not blank: the field of the sample has a    *)
(* value.                                                                  *)
DreamTexts == {text \in Seq(Lines) : text # <<>> /\ Head(text).name # "blank"}

ASSUME PromptsAssumption ==
  /\ Nights \subseteq Seq(DreamTexts)
  /\ NoRequest \notin Requests
  /\ SampleDreams \in Nat \ {0}
  /\ Seams \subseteq {line \in Lines : line.name # "blank"}

VARIABLES
  night,     \* the dreams the user sends
  dreams,    \* the committed dreams in the order of created_at and id
  summary,   \* the committed session_summaries row, if any
  writer,    \* the transaction with the row inserted or updated
  requests

vars == <<night, dreams, summary, writer, requests>>

(* "summary" is GET /sessions/{id}/summary, "prompt" is the facade's       *)
(* generate_analysis_prompt, "analysis" a job or POST .../analyze.         *)
Kinds == {"summary", "prompt", "analysis"}
Ended == {"answered", "refused", "lost"}
Working == {"reading", "building", "saving", "listing", "validating", "asking",
            "committing"}

Rest == [kind |-> "summary", step |-> "idle", summary |-> {}, prompt |-> {}]

Init ==
  /\ night \in Nights
  /\ dreams = <<>>
  /\ summary = {}
  /\ writer = NoRequest
  /\ requests = [r \in Requests |-> Rest]
-----------------------------------------------------------------------------
Becomes(r, request) == requests' = [requests EXCEPT ![r] = request]
Moves(r, step) == Becomes(r, [requests[r] EXCEPT !.step = step])

(* An intake commits.  created_at is when its transaction began, so a      *)
(* dream may come to stand before one that was committed earlier.          *)
AddDream ==
  /\ Len(dreams) < Len(night)
  /\ \E i \in 1 .. Len(dreams) + 1 : dreams' = InsertAt(dreams, i, night[Len(dreams) + 1])
  /\ UNCHANGED <<night, summary, writer, requests>>

Begin(r, kind) ==
  /\ requests[r].step = "idle"
  /\ Becomes(r, [Rest EXCEPT !.kind = kind, !.step = "reading"])
  /\ UNCHANGED <<night, dreams, summary, writer>>

(* get_session_summary: a saved summary is used as it is, however old.     *)
ReadSummary(r) ==
  LET request == requests[r]
      found == IF request.kind = "summary" THEN "answered" ELSE "listing"
      missing == IF request.kind = "prompt" THEN "refused" ELSE "building"
  IN  /\ request.step = "reading"
      /\ Becomes(r, [request EXCEPT !.summary = summary,
                                    !.step = IF summary = {} THEN missing ELSE found])
      /\ UNCHANGED <<night, dreams, summary, writer>>

(* " ".join: the last line of a text runs on into the first of the next.   *)
(* Where they meet there may be a field, a heading or a claim that is in   *)
(* neither of them.                                                        *)
Join(text, next, seam) ==
  LET met == [Last(text) EXCEPT !.name = IF @ \in FieldNames THEN @ ELSE seam.name,
                                !.heads = @ \cup Head(next).heads \cup seam.heads,
                                !.claims = @ \/ Head(next).claims \/ seam.claims]
  IN  Front(text) \o <<met>> \o Tail(next)

Joins(texts, next) == {Join(text, next, seam) : text \in texts, seam \in Seams}
Joined(texts) == FoldLeft(Joins, {Head(texts)}, Tail(texts))

(* A text whose length is within the 1000 characters stays whole; of a     *)
(* longer one some lines are left, and perhaps only a part of the last.    *)
(* No rule on the sample tells an empty rest of a line from words.         *)
Shortened(line) == [name : {line.name, "words"}, number : {line.number},
                    heads : SUBSET line.heads, claims : {line.claims, FALSE}]
Cuts(text) ==
  UNION {{Append(SubSeq(text, 1, n - 1), line) : line \in Shortened(text[n])} :
           n \in DOMAIN text}
Samples(texts) == IF texts = <<>> THEN {<<>>} ELSE UNION {Cuts(text) : text \in Joined(texts)}

(* The words of the dreams are counted and ranked; here the summary keeps  *)
(* what the contract can tell, and the dreams its sample is of.            *)
build_session_summary ==
  LET sampled == [i \in 1 .. (IF Len(dreams) < SampleDreams THEN Len(dreams) ELSE SampleDreams)
                    |-> dreams[i]]
  IN  {[dream_count |-> Len(dreams), sampled |-> sampled, sample |-> sample, ranking |-> ranking] :
         sample \in Samples(sampled), ranking \in {FALSE, dreams # <<>>}}

BuildSummary(r) ==
  /\ requests[r].step = "building"
  /\ \E built \in build_session_summary :
       Becomes(r, [requests[r] EXCEPT !.summary = {built}, !.step = "saving"])
  /\ UNCHANGED <<night, dreams, summary, writer>>

(* The upsert waits for another uncommitted row of the session, and then   *)
(* overwrites it.                                                          *)
SaveSummary(r) ==
  /\ requests[r].step = "saving"
  /\ writer = NoRequest
  /\ writer' = r
  /\ Moves(r, IF requests[r].kind = "summary" THEN "committing" ELSE "listing")
  /\ UNCHANGED <<night, dreams, summary>>

(* The dreams are read after the summary.  The facade validates the prompt *)
(* and answers; the orchestrator sends it as it is.                        *)
CompilePrompt(r) ==
  /\ requests[r].step = "listing"
  /\ \E s \in requests[r].summary :
       Becomes(r, [requests[r] EXCEPT
                     !.prompt = {compile_jungian_prompt(s, dreams)},
                     !.step = IF requests[r].kind = "analysis" THEN "asking" ELSE "validating"])
  /\ UNCHANGED <<night, dreams, summary, writer>>

Valid(compiled) == validate_prompt_safety(render_compiled_prompt(compiled))

Verdict(r, step) ==
  /\ requests[r].step = "validating"
  /\ Moves(r, step)
  /\ UNCHANGED <<night, dreams, summary, writer>>

ValidatePrompt(r) ==
  \E compiled \in requests[r].prompt :
    IF Valid(compiled) THEN Verdict(r, "answered") ELSE Verdict(r, "refused")

(* The model answers, or the executor records that it failed; both commit. *)
EndAnalysis(r) ==
  /\ requests[r].step = "asking"
  /\ Moves(r, "committing")
  /\ UNCHANGED <<night, dreams, summary, writer>>

Release(r) == writer' = IF writer = r THEN NoRequest ELSE writer

Commit(r) ==
  /\ requests[r].step = "committing"
  /\ summary' = IF writer = r THEN requests[r].summary ELSE summary
  /\ Release(r)
  /\ Moves(r, "answered")
  /\ UNCHANGED <<night, dreams>>

(* Mutation: the connection of a lost transaction stays open.              *)
LoseSilently(r) ==
  /\ requests[r].step \in Working
  /\ Moves(r, "lost")
  /\ UNCHANGED <<night, dreams, summary, writer>>

Lose(r) ==
  /\ requests[r].step \in Working
  /\ Release(r)
  /\ Moves(r, "lost")
  /\ UNCHANGED <<night, dreams, summary>>
-----------------------------------------------------------------------------
Serve(r) ==
  \/ ReadSummary(r) \/ BuildSummary(r) \/ SaveSummary(r)
  \/ CompilePrompt(r) \/ EndAnalysis(r) \/ Commit(r)

Next ==
  \/ AddDream
  \/ \E r \in Requests : \E kind \in Kinds : Begin(r, kind)
  \/ \E r \in Requests : Serve(r) \/ ValidatePrompt(r) \/ Lose(r)

Spec == Init /\ [][Next]_vars

(* Statements are served, and a validation ends, whatever its verdict.     *)
Served(r) == Serve(r) \/ Verdict(r, "answered") \/ Verdict(r, "refused")
FairSpec == Spec /\ \A r \in Requests : WF_vars(Served(r))
-----------------------------------------------------------------------------
Prompts == UNION {requests[r].prompt : r \in Requests}

(* A prompt never counts or samples a dream it does not list, although the *)
(* summary was counted by another transaction, or at another time, than    *)
(* the dreams were read (load_analysis_input).                             *)
PromptListsSummarised ==
  \A p \in Prompts :
    /\ p.dream_count <= Len(p.dreams)
    /\ \A i \in DOMAIN p.sampled : p.sampled[i] \in Range(p.dreams)

(* One line, and no heading from the third section on is quoted in it.     *)
Harmless(line) == line.heads \cap (3 .. 6) = {}
Bare(text) == Len(text) = 1 /\ Harmless(text[1])

(* The contract has nothing against a session of such dreams and of a      *)
(* sample and a ranking without claims, unless its summary was made before *)
(* its first dream.                                                        *)
Plain(p) ==
  /\ \A text \in Range(p.dreams) : Bare(text)
  /\ \A line \in Range(p.sample) : Harmless(line) /\ ~line.claims
  /\ ~p.ranking
  /\ p.dream_count = 0 => p.dreams = <<>>

(* The second line of a text is like the end of an entry of the log.       *)
Imitates(text) == Len(text) >= 2 /\ text[2].name = "timestamp"

(* What is certain of a prompt that passed: nothing in its summary claims  *)
(* what is forbidden, no dream is in it that was not counted at all, and   *)
(* every dream is bare up to one that imitates an entry of the log.        *)
Checked(p) ==
  /\ \A line \in Range(p.sample) : ~line.claims
  /\ ~p.ranking
  /\ p.dream_count = 0 => p.dreams = <<>>
  /\ \A k \in DOMAIN p.dreams : Bare(p.dreams[k]) \/ \E j \in 1 .. k : Imitates(p.dreams[j])

(* The facade refuses no plain prompt, and answers with none that is not   *)
(* checked: what the rules on sections, blocks, fields and headings are    *)
(* together, whatever lines the dreams copy (validate_prompt_structure,    *)
(* validate_prompt_safety).                                                *)
VerdictsFit ==
  \A r \in Requests : \A p \in requests[r].prompt :
    requests[r].kind = "prompt" =>
      /\ requests[r].step = "refused" => ~Plain(p)
      /\ requests[r].step = "answered" => Checked(p)

(* The upserts of concurrent requests wait for each other, one of them for *)
(* as long as a model call takes: each gets its turn.                      *)
EveryRequestEnds ==
  \A r \in Requests : requests[r].step \in Working ~> requests[r].step \in Ended

=============================================================================
