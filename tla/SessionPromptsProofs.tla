------------------------ MODULE SessionPromptsProofs ------------------------
(***************************************************************************)
(* SessionPrompts is correct for any dreams of any lines, any number of    *)
(* requests of every kind, any size of the sample and any seams in it.     *)
(***************************************************************************)
EXTENDS PromptContractProofs

Summaries == [dream_count : Nat, sampled : Seq(DreamTexts), sample : Seq(Lines),
              ranking : BOOLEAN]
Prompted == [dream_count : Nat, sampled : Seq(DreamTexts), sample : Seq(Lines),
             ranking : BOOLEAN, dreams : Seq(DreamTexts)]

(* A summary of the dreams log, or of some of them.                        *)
Summarises(s, log) ==
  /\ s.dream_count \in 0 .. Len(log)
  /\ s.sampled \in Seq(DreamTexts) /\ s.sample \in Samples(s.sampled)
  /\ \A i \in DOMAIN s.sampled : s.sampled[i] \in Range(log)

Compiled(p) == p.dreams \in Seq(DreamTexts) /\ Summarises(p, p.dreams)

AtMostOne(S) == \A x, y \in S : x = y

(* The verdict on a prompt of the facade is kept in the step it leads to.  *)
Judged(request) ==
  \A p \in request.prompt : request.kind = "prompt" =>
    /\ request.step \in {"validating", "answered", "refused", "lost"}
    /\ request.step = "answered" => Valid(p)
    /\ request.step = "refused" => ~Valid(p)

RequestRows == [kind : Kinds, step : {"idle"} \cup Working \cup Ended,
                summary : SUBSET Summaries, prompt : SUBSET Prompted]

TypeOK ==
  /\ night \in Seq(DreamTexts) /\ dreams \in Seq(DreamTexts)
  /\ summary \subseteq Summaries
  /\ requests \in [Requests -> RequestRows]

(* What a request has in hand: a prompt only once it is compiled.          *)
Fits(request, log) ==
  /\ \A s \in request.summary : Summarises(s, log)
  /\ \A p \in request.prompt : Compiled(p)
  /\ request.step \in {"idle", "reading", "building", "saving", "listing"}
       => request.prompt = {}
  /\ AtMostOne(request.prompt) /\ Judged(request)

PromptsInv ==
  /\ \A s \in summary : Summarises(s, dreams)
  /\ \A r \in Requests : Fits(requests[r], dreams)
-----------------------------------------------------------------------------
LEMMA Inserted ==
  ASSUME NEW S, NEW s \in Seq(S), NEW e \in S, NEW i \in 1 .. Len(s) + 1
  PROVE  /\ InsertAt(s, i, e) \in Seq(S)
         /\ Len(InsertAt(s, i, e)) = Len(s) + 1
         /\ Range(s) \subseteq Range(InsertAt(s, i, e))
<1> DEFINE a == SubSeq(s, 1, i - 1)
           b == SubSeq(s, i, Len(s))
<1>1. Len(s) \in Nat /\ \A j \in 1 .. Len(s) : s[j] \in S
  BY LenProperties, ElementOfSeq
<1>2. a \in Seq(S) /\ Len(a) = i - 1 /\ \A j \in 1 .. i - 1 : a[j] = s[j]
  <2>1. \A j \in 1 .. i - 1 : s[j] \in S
    BY <1>1
  <2> QED BY <1>1, <2>1, SubSeqProperties
<1>3. /\ b \in Seq(S) /\ Len(b) = Len(s) - i + 1
      /\ \A j \in 1 .. Len(s) - i + 1 : b[j] = s[i + j - 1]
  <2>1. \A j \in i .. Len(s) : s[j] \in S
    BY <1>1
  <2> QED BY <1>1, <2>1, SubSeqProperties
<1>4. <<e>> \in Seq(S) /\ Len(<<e>>) = 1
  OBVIOUS
<1> HIDE DEF a, b
<1> DEFINE c == <<e>>
<1>5. c \in Seq(S) /\ Len(c) = 1
  BY <1>4
<1> HIDE DEF c
<1>6. /\ a \o c \in Seq(S) /\ Range(a \o c) = Range(a) \cup Range(c)
      /\ Len(a \o c) = Len(a) + Len(c)
  BY <1>2, <1>5, ConcatProperties, RangeConcatenation
<1> DEFINE d == a \o c
<1>7. d \in Seq(S) /\ Len(d) = i /\ Range(d) = Range(a) \cup Range(c)
  BY <1>2, <1>5, <1>6
<1> HIDE DEF d
<1>8. /\ d \o b \in Seq(S) /\ Len(d \o b) = Len(s) + 1
      /\ Range(d \o b) = Range(d) \cup Range(b)
  <2>1. d \o b \in Seq(S) /\ Len(d \o b) = Len(d) + Len(b)
    BY <1>3, <1>7, ConcatProperties
  <2>2. Range(d \o b) = Range(d) \cup Range(b)
    BY <1>3, <1>7, RangeConcatenation
  <2>3. i + (Len(s) - i + 1) = Len(s) + 1
    BY <1>1
  <2> QED BY <1>3, <1>7, <2>1, <2>2, <2>3
<1>9. Range(s) \subseteq Range(a) \cup Range(b)
  <2> SUFFICES ASSUME NEW j \in 1 .. Len(s) PROVE s[j] \in Range(a) \cup Range(b)
    BY RangeEquality
  <2>1. CASE j < i
    <3>1. j \in 1 .. Len(a) /\ a[j] = s[j]
      BY <1>1, <1>2, <2>1
    <3> QED BY <1>2, <3>1, RangeEquality
  <2>2. CASE j >= i
    <3>1. j - i + 1 \in 1 .. Len(b) /\ b[j - i + 1] = s[j]
      BY <1>1, <1>3, <2>2
    <3> QED BY <1>3, <3>1, RangeEquality
  <2> QED BY <1>1, <2>1, <2>2
<1> QED BY <1>7, <1>8, <1>9 DEF InsertAt, a, b, c, d

(* A summary stays one of the dreams when there are more of them.          *)
LEMMA SummarisesMore ==
  ASSUME NEW log \in Seq(DreamTexts), NEW more \in Seq(DreamTexts), Len(log) <= Len(more),
         Range(log) \subseteq Range(more), NEW s, Summarises(s, log)
  PROVE  Summarises(s, more)
<1>1. Len(log) \in Nat /\ Len(more) \in Nat
  BY LenProperties
<1> QED BY <1>1 DEF Summarises

LEMMA BuiltSummarises ==
  ASSUME dreams \in Seq(DreamTexts), NEW built \in build_session_summary
  PROVE  Summarises(built, dreams) /\ built \in Summaries
<1> DEFINE n == IF Len(dreams) < SampleDreams THEN Len(dreams) ELSE SampleDreams
           sampled == [i \in 1 .. n |-> dreams[i]]
<1>1. Len(dreams) \in Nat /\ n \in Nat /\ n <= Len(dreams)
  BY LenProperties, PromptsAssumption
<1>2. \A i \in 1 .. n : dreams[i] \in DreamTexts /\ dreams[i] \in Range(dreams)
  <2>1. \A i \in 1 .. n : i \in 1 .. Len(dreams)
    BY <1>1
  <2> QED BY <2>1, ElementOfSeq, RangeEquality
<1>3. sampled \in Seq(DreamTexts) /\ Len(sampled) = n
  <2>1. sampled \in [1 .. n -> DreamTexts]
    BY <1>2
  <2> QED BY <1>1, <2>1
<1>4. DOMAIN sampled = 1 .. n /\ \A i \in 1 .. n : sampled[i] = dreams[i]
  OBVIOUS
<1> DEFINE summaries ==
       {[dream_count |-> Len(dreams), sampled |-> sampled, sample |-> sample,
         ranking |-> ranking] :
          sample \in Samples(sampled), ranking \in {FALSE, dreams # <<>>}}
<1>5. built \in summaries
  <2>1. build_session_summary = summaries
    BY DEF build_session_summary
  <2> HIDE DEF summaries
  <2> QED BY <2>1
<1> HIDE DEF sampled
<1>6. PICK sample \in Samples(sampled), ranking \in {FALSE, dreams # <<>>} :
        built = [dream_count |-> Len(dreams), sampled |-> sampled, sample |-> sample,
                 ranking |-> ranking]
  BY <1>5
<1> HIDE DEF summaries
<1>7. sample \in Seq(Lines)
  BY <1>3, SamplesTyped
<1>8. /\ built.dream_count = Len(dreams) /\ built.sampled = sampled
      /\ built.sample = sample
  BY <1>6
<1>9. ranking \in BOOLEAN
  OBVIOUS
<1>10. built \in Summaries
  BY <1>1, <1>3, <1>6, <1>7, <1>9 DEF Summaries
<1>11. \A i \in DOMAIN built.sampled : built.sampled[i] \in Range(dreams)
  BY <1>2, <1>4, <1>8
<1>12. built.dream_count \in 0 .. Len(dreams)
  BY <1>1, <1>8
<1>13. built.sampled \in Seq(DreamTexts) /\ built.sample \in Samples(built.sampled)
  BY <1>3, <1>8
<1> QED BY <1>10, <1>11, <1>12, <1>13 DEF Summarises

-----------------------------------------------------------------------------
(* The invariant                                                           *)

LEMMA PromptsInit == Init => TypeOK /\ PromptsInv
<1> SUFFICES ASSUME Init PROVE TypeOK /\ PromptsInv
  OBVIOUS
<1>1. \A r \in Requests : requests[r] = Rest
  BY DEF Init
<1>2. Rest \in RequestRows
  BY DEF Rest, RequestRows, Kinds
<1>3. Fits(Rest, dreams)
  BY DEF Rest, Fits, AtMostOne, Judged
<1>4. TypeOK
  BY <1>2, PromptsAssumption DEF Init, TypeOK
<1>5. PromptsInv
  BY <1>1, <1>3 DEF Init, PromptsInv
<1> QED BY <1>4, <1>5

(* A step of one request, which may save its own summary.                  *)
LEMMA RequestMoves ==
  ASSUME TypeOK, PromptsInv, NEW r \in Requests, NEW q \in RequestRows, Becomes(r, q),
         UNCHANGED <<night, dreams>>,
         summary' = summary \/ summary' = requests[r].summary,
         Fits(q, dreams)
  PROVE  TypeOK' /\ PromptsInv'
<1>1. /\ requests' \in [Requests -> RequestRows] /\ requests'[r] = q
      /\ \A u \in Requests : u # r => requests'[u] = requests[u]
  BY DEF TypeOK, Becomes
<1>2. summary' \subseteq Summaries /\ \A s \in summary' : Summarises(s, dreams)
  BY DEF TypeOK, PromptsInv, Fits, RequestRows
<1>3. \A u \in Requests : Fits(requests'[u], dreams)
  BY <1>1 DEF PromptsInv
<1>4. TypeOK'
  BY <1>1, <1>2 DEF TypeOK
<1>5. PromptsInv'
  <2>1. ASSUME NEW u \in Requests PROVE Fits(requests[u], dreams)'
    BY <1>3 DEF Fits, Judged, AtMostOne
  <2> QED BY <1>2, <2>1 DEF PromptsInv
<1> QED BY <1>4, <1>5

LEMMA AddDreamKeeps == ASSUME TypeOK, PromptsInv, AddDream PROVE TypeOK' /\ PromptsInv'
<1>1. PICK i \in 1 .. Len(dreams) + 1 : dreams' = InsertAt(dreams, i, night[Len(dreams) + 1])
  BY DEF AddDream
<1>2. night[Len(dreams) + 1] \in DreamTexts
  <2>1. Len(dreams) \in Nat /\ Len(night) \in Nat /\ Len(dreams) < Len(night)
    BY LenProperties DEF AddDream, TypeOK
  <2>2. Len(dreams) + 1 \in 1 .. Len(night)
    BY <2>1
  <2> QED BY <2>2, ElementOfSeq DEF TypeOK
<1>3. /\ dreams \in Seq(DreamTexts) /\ dreams' \in Seq(DreamTexts)
      /\ Len(dreams) <= Len(dreams') /\ Range(dreams) \subseteq Range(dreams')
  <2>1. Len(dreams) \in Nat
    BY LenProperties DEF TypeOK
  <2> QED BY <1>1, <1>2, <2>1, Inserted DEF TypeOK
<1>4. \A s : Summarises(s, dreams) => Summarises(s, dreams')
  BY <1>3, SummarisesMore
<1>5. UNCHANGED <<night, summary, requests>>
  BY DEF AddDream
<1>6. TypeOK'
  BY <1>3, <1>5 DEF TypeOK
<1>7. PromptsInv'
  <2>1. ASSUME NEW r \in Requests PROVE Fits(requests[r], dreams)'
    BY <1>4, <1>5 DEF PromptsInv, Fits, Judged, AtMostOne
  <2> QED BY <1>4, <1>5, <2>1 DEF PromptsInv
<1> QED BY <1>6, <1>7

LEMMA PromptsStep == TypeOK /\ PromptsInv /\ [Next]_vars => TypeOK' /\ PromptsInv'
<1> SUFFICES ASSUME TypeOK, PromptsInv, [Next]_vars PROVE TypeOK' /\ PromptsInv'
  OBVIOUS
<1>1. CASE AddDream
  BY <1>1, AddDreamKeeps
<1>2. ASSUME NEW r \in Requests PROVE requests[r] \in RequestRows /\ Fits(requests[r], dreams)
  BY DEF TypeOK, PromptsInv
(* The request only moves to another step.                                 *)
<1>3. ASSUME NEW r \in Requests, NEW step \in Working \cup Ended, Moves(r, step),
             requests[r].step \in Working,
             requests[r].prompt = {} \/ requests[r].kind # "prompt" \/ step = "lost",
             requests[r].prompt = {} \/ step \notin {"reading", "building", "saving", "listing"},
             UNCHANGED <<night, dreams>>, summary' = summary \/ summary' = requests[r].summary
      PROVE  TypeOK' /\ PromptsInv'
  <2> DEFINE q == [requests[r] EXCEPT !.step = step]
  <2>1. /\ q \in RequestRows /\ q.step = step /\ q.kind = requests[r].kind
        /\ q.summary = requests[r].summary /\ q.prompt = requests[r].prompt
    BY <1>2, <1>3 DEF RequestRows
  <2>2. Becomes(r, q)
    BY <1>3 DEF Moves
  <2>3. "idle" \notin Working \cup Ended
    BY DEF Working, Ended
  <2> HIDE DEF q
  <2>4. Fits(q, dreams)
    BY <1>2, <1>3, <2>1, <2>3 DEF Fits, Judged, AtMostOne
  <2> QED BY <1>3, <2>1, <2>2, <2>4, RequestMoves
<1>4. ASSUME NEW r \in Requests, NEW kind \in Kinds, Begin(r, kind)
      PROVE  TypeOK' /\ PromptsInv'
  <2> DEFINE q == [Rest EXCEPT !.kind = kind, !.step = "reading"]
  <2>1. q \in RequestRows /\ Fits(q, dreams)
    BY DEF RequestRows, Rest, Fits, Judged, AtMostOne, Working
  <2> HIDE DEF q
  <2> QED BY <1>4, <2>1, RequestMoves DEF Begin, q
<1>5. ASSUME NEW r \in Requests, ReadSummary(r) PROVE TypeOK' /\ PromptsInv'
  <2> PICK step \in {"answered", "listing", "refused", "building"} :
             Becomes(r, [requests[r] EXCEPT !.summary = summary, !.step = step])
    BY <1>5 DEF ReadSummary
  <2> DEFINE q == [requests[r] EXCEPT !.summary = summary, !.step = step]
  <2>1. /\ q \in RequestRows /\ q.step = step /\ q.kind = requests[r].kind
        /\ q.summary = summary /\ q.prompt = requests[r].prompt
    BY <1>2, <1>5 DEF RequestRows, Working, Ended, TypeOK
  <2>2. requests[r].prompt = {}
    BY <1>2, <1>5 DEF ReadSummary, Fits
  <2> HIDE DEF q
  <2>3. Fits(q, dreams)
    BY <2>1, <2>2 DEF Fits, Judged, AtMostOne, PromptsInv
  <2>4. Becomes(r, q) /\ UNCHANGED <<night, dreams, summary>>
    BY <1>5 DEF ReadSummary, q
  <2> QED BY <2>1, <2>3, <2>4, RequestMoves
<1>6. ASSUME NEW r \in Requests, BuildSummary(r) PROVE TypeOK' /\ PromptsInv'
  <2>1. PICK b \in build_session_summary :
          Becomes(r, [requests[r] EXCEPT !.summary = {b}, !.step = "saving"])
    BY <1>6 DEF BuildSummary
  <2>2. Summarises(b, dreams) /\ b \in Summaries
    BY BuiltSummarises DEF TypeOK
  <2> DEFINE q == [requests[r] EXCEPT !.summary = {b}, !.step = "saving"]
  <2>3. /\ q \in RequestRows /\ q.step = "saving" /\ q.kind = requests[r].kind
        /\ q.summary = {b} /\ q.prompt = requests[r].prompt
    BY <1>2, <2>2 DEF RequestRows, Working
  <2>4. requests[r].prompt = {}
    BY <1>2, <1>6 DEF BuildSummary, Fits
  <2>5. Becomes(r, q) /\ UNCHANGED <<night, dreams, summary>>
    BY <1>6, <2>1 DEF BuildSummary
  <2> HIDE DEF q
  <2>6. Fits(q, dreams)
    BY <2>2, <2>3, <2>4 DEF Fits, Judged, AtMostOne
  <2> QED BY <2>3, <2>5, <2>6, RequestMoves
<1>7. ASSUME NEW r \in Requests, SaveSummary(r) PROVE TypeOK' /\ PromptsInv'
  <2> PICK step \in {"committing", "listing"} : Moves(r, step)
    BY <1>7 DEF SaveSummary
  <2>1. requests[r].prompt = {} /\ requests[r].step \in Working
        /\ step \in Working \cup Ended /\ UNCHANGED <<night, dreams, summary>>
    BY <1>2, <1>7 DEF SaveSummary, Fits, Working
  <2> QED BY <1>3, <2>1
<1>8. ASSUME NEW r \in Requests, CompilePrompt(r) PROVE TypeOK' /\ PromptsInv'
  <2>1. PICK s \in requests[r].summary :
          Becomes(r, [requests[r] EXCEPT
                     !.prompt = {compile_jungian_prompt(s, dreams)},
                     !.step = IF requests[r].kind = "analysis" THEN "asking" ELSE "validating"])
    BY <1>8 DEF CompilePrompt
  <2> DEFINE p == compile_jungian_prompt(s, dreams)
             step == IF requests[r].kind = "analysis" THEN "asking" ELSE "validating"
             q == [requests[r] EXCEPT !.prompt = {p}, !.step = step]
  <2>2. /\ p.dream_count = s.dream_count /\ p.sampled = s.sampled
        /\ p.sample = s.sample /\ p.dreams = dreams
        /\ p = [dream_count |-> s.dream_count, sampled |-> s.sampled,
                sample |-> s.sample, ranking |-> s.ranking, dreams |-> dreams]
    BY DEF compile_jungian_prompt
  <2>3. Summarises(s, dreams) /\ s \in Summaries
    BY <1>2 DEF Fits, RequestRows
  <2>4. Compiled(p) /\ p \in Prompted
    <3>1. dreams \in Seq(DreamTexts)
      BY DEF TypeOK
    <3>2. /\ s.dream_count \in Nat /\ s.sampled \in Seq(DreamTexts)
          /\ s.sample \in Seq(Lines) /\ s.ranking \in BOOLEAN
      BY <2>3 DEF Summaries
    <3>3. p \in Prompted
      BY <2>2, <3>1, <3>2 DEF Prompted
    <3>4. Summarises(p, dreams)
      BY <2>2, <2>3 DEF Summarises
    <3> QED BY <2>2, <3>1, <3>3, <3>4 DEF Compiled
  <2> HIDE DEF p
  <2>5. step \in {"asking", "validating"} /\ (requests[r].kind = "prompt" => step = "validating")
    OBVIOUS
  <2> HIDE DEF step
  <2>6. /\ q \in RequestRows /\ q.step = step /\ q.kind = requests[r].kind
        /\ q.summary = requests[r].summary /\ q.prompt = {p}
    BY <1>2, <2>4, <2>5 DEF RequestRows, Working
  <2>7. Becomes(r, q) /\ UNCHANGED <<night, dreams, summary>>
    BY <1>8, <2>1 DEF CompilePrompt, p, step
  <2> HIDE DEF q
  <2>8. Fits(q, dreams)
    BY <1>2, <2>4, <2>5, <2>6 DEF Fits, Judged, AtMostOne
  <2> QED BY <2>6, <2>7, <2>8, RequestMoves
<1>9. ASSUME NEW r \in Requests, ValidatePrompt(r) PROVE TypeOK' /\ PromptsInv'
  <2>1. PICK p \in requests[r].prompt :
          IF Valid(p) THEN Verdict(r, "answered") ELSE Verdict(r, "refused")
    BY <1>9 DEF ValidatePrompt
  <2> DEFINE step == IF Valid(p) THEN "answered" ELSE "refused"
             q == [requests[r] EXCEPT !.step = step]
  <2>2. /\ step \in {"answered", "refused"} /\ (step = "answered" <=> Valid(p))
        /\ Moves(r, step) /\ UNCHANGED <<night, dreams, summary>>
    BY <2>1 DEF Verdict
  <2> HIDE DEF step
  <2>3. /\ q \in RequestRows /\ q.step = step /\ q.kind = requests[r].kind
        /\ q.summary = requests[r].summary /\ q.prompt = requests[r].prompt
    BY <1>2, <2>2 DEF RequestRows, Ended
  <2>4. Becomes(r, q)
    BY <2>2 DEF Moves
  <2> HIDE DEF q
  <2>5. \A x \in requests[r].prompt : x = p
    BY <1>2 DEF Fits, AtMostOne
  <2>6. Fits(q, dreams)
    BY <1>2, <2>2, <2>3, <2>5 DEF Fits, Judged, AtMostOne
  <2> QED BY <2>2, <2>3, <2>4, <2>6, RequestMoves
<1>10. ASSUME NEW r \in Requests, EndAnalysis(r) \/ Commit(r) \/ Lose(r)
       PROVE  TypeOK' /\ PromptsInv'
  <2>1. PICK step \in {"committing", "answered", "lost"} :
          /\ Moves(r, step) /\ UNCHANGED <<night, dreams>>
          /\ summary' = summary \/ summary' = requests[r].summary
          /\ requests[r].step \in Working
          /\ requests[r].step \in {"asking", "committing"} \/ step = "lost"
    BY <1>10 DEF EndAnalysis, Commit, Lose, Working
  <2>2. requests[r].prompt = {} \/ requests[r].kind # "prompt" \/ step = "lost"
    BY <1>2, <2>1 DEF Fits, Judged
  <2>3. step \in Working \cup Ended
    BY <2>1 DEF Working, Ended
  <2> QED BY <1>3, <2>1, <2>2, <2>3
<1>11. CASE UNCHANGED vars
  <2>1. UNCHANGED <<night, dreams, summary, requests>>
    BY <1>11 DEF vars
  <2>2. TypeOK'
    BY <2>1 DEF TypeOK
  <2>3. PromptsInv'
    BY <2>1 DEF PromptsInv, Fits, Judged, AtMostOne
  <2> QED BY <2>2, <2>3
<1> QED
  BY <1>1, <1>4, <1>5, <1>6, <1>7, <1>8, <1>9, <1>10, <1>11 DEF Next, Serve

LEMMA PromptsInvariant == Spec => [](TypeOK /\ PromptsInv)
BY PromptsInit, PromptsStep, PTL DEF Spec
-----------------------------------------------------------------------------
(* The theorems                                                            *)

(* Every reachable state has its type.                                     *)
THEOREM PromptTypes == Spec => []TypeOK
BY PromptsInvariant, PTL

(* A prompt never counts or samples a dream it does not list, however many *)
(* dreams and requests come between the summary and the list of the dreams *)
(* (load_analysis_input).                                                  *)
THEOREM SummarisedAreListed == Spec => []PromptListsSummarised
<1>1. PromptsInv => PromptListsSummarised
  <2> SUFFICES ASSUME PromptsInv, NEW r \in Requests, NEW p \in requests[r].prompt
               PROVE  /\ p.dream_count <= Len(p.dreams)
                      /\ \A i \in DOMAIN p.sampled : p.sampled[i] \in Range(p.dreams)
    BY DEF PromptListsSummarised, Prompts
  <2>1. Compiled(p)
    BY DEF PromptsInv, Fits
  <2>2. Len(p.dreams) \in Nat
    BY <2>1, LenProperties DEF Compiled
  <2> QED BY <2>1, <2>2 DEF Compiled, Summarises
<1> QED BY PromptsInvariant, <1>1, PTL

(* Of the prompts of the facade no plain one is refused, and only checked  *)
(* ones are answered: the rules of the contract together                   *)
(* (validate_prompt_structure, validate_prompt_safety), for dreams of any  *)
(* lines, any cut of the sample and anything its joins bring about, and    *)
(* whenever the summary in the prompt was made.                            *)
THEOREM VerdictsAlwaysFit == Spec => []VerdictsFit
<1>1. ASSUME NEW p \in Prompted, Compiled(p) PROVE Sound(p)
  <2>1. /\ p.dream_count \in 0 .. Len(p.dreams) /\ Len(p.dreams) \in Nat
        /\ p.dreams \in Seq(DreamTexts)
    BY <1>1, LenProperties DEF Compiled, Summarises
  <2>2. p.dreams = <<>> => p.dream_count = 0
    BY <2>1
  <2>3. p.sampled \in Seq(DreamTexts) /\ p.sample \in Samples(p.sampled)
    BY <1>1 DEF Compiled, Summarises
  <2>4. ASSUME \A text \in Range(p.dreams) : Bare(text) PROVE Len(p.sample) \in 0 .. 1
    <3>1. \A i \in DOMAIN p.sampled : p.sampled[i] \in Range(p.dreams)
      BY <1>1 DEF Compiled, Summarises
    <3>2. \A i \in DOMAIN p.sampled : Bare(p.sampled[i])
      BY <2>4, <3>1
    <3>3. Len(p.sample) \in Nat /\ Len(p.sample) <= 1
      BY <2>3, <3>2, SamplesTyped
    <3>4. PICK n \in Nat : n = Len(p.sample)
      BY <3>3
    <3>5. n <= 1
      BY <3>3, <3>4
    <3>6. n \in 0 .. 1
      BY <3>5
    <3> QED BY <3>4, <3>6
  <2>5. p.dream_count \in Nat /\ p.ranking \in BOOLEAN /\ p.sample \in Seq(Lines)
    BY DEF Prompted
  <2> QED BY <2>1, <2>2, <2>4, <2>5 DEF Sound
<1>2. TypeOK /\ PromptsInv => VerdictsFit
  <2> SUFFICES ASSUME TypeOK, PromptsInv, NEW r \in Requests, NEW p \in requests[r].prompt,
                      requests[r].kind = "prompt"
               PROVE  /\ requests[r].step = "refused" => ~Plain(p)
                      /\ requests[r].step = "answered" => Checked(p)
    BY DEF VerdictsFit
  <2>1. Compiled(p) /\ Judged(requests[r])
    BY DEF PromptsInv, Fits
  <2>2. p \in Prompted
    <3>1. requests[r] \in RequestRows
      BY DEF TypeOK
    <3> QED BY <3>1 DEF RequestRows
  <2>3. (Plain(p) => Valid(p)) /\ (Valid(p) => Checked(p))
    BY <1>1, <2>1, <2>2, ContractChecks
  <2>4. /\ requests[r].step = "answered" => Valid(p)
        /\ requests[r].step = "refused" => ~Valid(p)
    BY <2>1 DEF Judged
  <2> QED BY <2>3, <2>4
<1> QED BY PromptsInvariant, <1>2, PTL
=============================================================================
