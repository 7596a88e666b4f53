--------------------------- MODULE PromptContract ---------------------------
(***************************************************************************)
(* services/prompts: the analysis prompt as a sequence of lines, compiled  *)
(* from a session summary and the session's dreams, and the rules of the   *)
(* contract (v2) it is validated against.  A line is what the rules can    *)
(* tell: its name (a field, a marker, a heading, ...; "words" and "blank"  *)
(* for a text), its number, the section headings that occur in it, and     *)
(* whether it claims what the contract forbids: a forbidden phrase or an   *)
(* unfilled placeholder.  The text of a dream is a sequence of such lines, *)
(* of any kind: it may copy every line of a prompt.                        *)
(***************************************************************************)
EXTENDS Integers, FiniteSets, SequencesExt

Sections == 1 .. 6
ContextFields == <<"session_id", "user_id", "dream_count", "session_duration",
                   "last_activity_at">>
SummaryFields == <<"key_symbols", "recurring_words", "raw_text_sample">>
(* What the pattern of a field line also finds: the two lines of a dream   *)
(* entry, and any line of a text that begins like one.                     *)
FieldNames == Range(ContextFields) \cup Range(SummaryFields) \cup {"text", "timestamp", "note"}

LineNames == FieldNames \cup {"prefix", "heading", "fixed", "placeholder", "marker",
                              "words", "blank"}

(* A line ends where splitlines() ends one; a blank line is an empty one.  *)
Lines == [name : LineNames, number : Nat, heads : SUBSET Sections, claims : BOOLEAN]

Line(name) == [name |-> name, number |-> 0, heads |-> {}, claims |-> FALSE]
Numbered(name, k) == [Line(name) EXCEPT !.number = k]
Heading(k) == [Line("heading") EXCEPT !.heads = {k}]
Fixed(k) == Numbered("fixed", k)
Blank == Line("blank")

(* The words of the session, ranked: a first one such as "filled" or       *)
(* "missing" looks like an unfilled placeholder.                           *)
KeySymbols(ranking) == [Line("key_symbols") EXCEPT !.claims = ranking]

(* Mutation: the first dream is skipped.                                   *)
compile_from_second(summary, dreams) ==
  [dream_count |-> summary.dream_count, sampled |-> summary.sampled,
   sample |-> summary.sample, ranking |-> summary.ranking,
   dreams |-> IF dreams = <<>> THEN dreams ELSE Tail(dreams)]

(* The count is the summary's, the dreams are those loaded now.            *)
compile_jungian_prompt(summary, dreams) ==
  [dream_count |-> summary.dream_count, sampled |-> summary.sampled,
   sample |-> summary.sample, ranking |-> summary.ranking, dreams |-> dreams]

Entry(k, text) ==
  <<Numbered("marker", k), [Head(text) EXCEPT !.name = "text"]>>
    \o Tail(text) \o <<Line("timestamp"), Blank>>

SampleLines(sample) ==
  IF sample = <<>> THEN <<Line("raw_text_sample")>>
  ELSE <<[Head(sample) EXCEPT !.name = "raw_text_sample"]>> \o Tail(sample)

render_compiled_prompt(compiled) ==
  LET count == Numbered("dream_count", compiled.dream_count)
      context == [i \in DOMAIN ContextFields |->
                    IF ContextFields[i] = "dream_count" THEN count ELSE Line(ContextFields[i])]
      entries == [k \in DOMAIN compiled.dreams |-> Entry(k, compiled.dreams[k])]
      log == IF entries = <<>> THEN <<Line("placeholder")>> ELSE FlattenSeq(entries)
  IN  <<Line("prefix"), Blank, Heading(1)>> \o context \o <<Blank, Heading(2)>> \o log
        \o <<Heading(3), KeySymbols(compiled.ranking), Line("recurring_words")>>
        \o SampleLines(compiled.sample) \o <<Blank, Heading(4), Fixed(4), Blank>>
        \o <<Heading(5), Fixed(5), Blank, Heading(6), Fixed(6)>>
-----------------------------------------------------------------------------
(* validation.py.  The sections are found by the first occurrence of their *)
(* headings, wherever in the prompt that is.                               *)
Least(S) == CHOOSE i \in S : \A j \in S : i <= j
Occurs(prompt, k) == {i \in DOMAIN prompt : k \in prompt[i].heads}
At(prompt, k) == Least(Occurs(prompt, k))

(* Two headings in one line count as out of order.                         *)
_validate_section_order(prompt) ==
  \A k \in Sections \ {6} : At(prompt, k) < At(prompt, k + 1)

(* A heading inside a text has words before and after it.                  *)
Before(line) == IF line.name = "heading" THEN <<>> ELSE <<[line EXCEPT !.heads = {}]>>
After(line) == IF line.name = "heading" THEN <<>> ELSE <<Line("words")>>

Filled(lines) == {i \in DOMAIN lines : lines[i].name # "blank"}
Strip(lines) ==
  LET filled == Filled(lines)
      last == CHOOSE i \in filled : \A j \in filled : j <= i
  IN  IF filled = {} THEN <<>> ELSE SubSeq(lines, Least(filled), last)

_extract_section_body(prompt, k) ==
  LET start == At(prompt, k)
      end == At(prompt, k + 1)
      rest == IF k = 6 THEN SubSeq(prompt, start + 1, Len(prompt))
              ELSE SubSeq(prompt, start + 1, end - 1) \o Before(prompt[end])
  IN  Strip(After(prompt[start]) \o rest)

(* _validate_context_section, _validate_summary_section: as the order must *)
(* be the contract's, no field is missing.                                 *)
_validate_fields(body, expected) ==
  LET fields == {i \in DOMAIN body : body[i].name \in FieldNames}
      place(i) == Cardinality({j \in fields : j <= i})
  IN  /\ Cardinality(fields) = Len(expected)
      /\ \A i \in fields : body[i].name = expected[place(i)]

(* Blocks are separated by blank lines.                                    *)
Starts(body) == {i \in Filled(body) : i = 1 \/ body[i - 1].name = "blank"}
Stop(body, i) == Least({j \in i .. Len(body) : j = Len(body) \/ body[j + 1].name = "blank"})

(* Mutation: a text may have any number of lines.                          *)
_validate_dream_ends(body, dream_count) ==
  IF dream_count = 0 THEN body = <<Line("placeholder")>>
  ELSE \A i \in Starts(body) :
         /\ body[i] = Numbered("marker", Cardinality({j \in Starts(body) : j <= i}))
         /\ body[i + 1].name = "text" /\ body[Stop(body, i)].name = "timestamp"

_validate_dream_section(body, dream_count) ==
  IF dream_count = 0 THEN body = <<Line("placeholder")>>
  ELSE \A i \in Starts(body) :
         /\ Stop(body, i) = i + 2
         /\ body[i] = Numbered("marker", Cardinality({j \in Starts(body) : j <= i}))
         /\ body[i + 1].name = "text" /\ body[i + 2].name = "timestamp"

_validate_fixed_section(body, k) == Fixed(k) \in Range(body)

DreamCount(body) ==
  body[CHOOSE i \in DOMAIN body : body[i].name = "dream_count"].number

validate_prompt_structure(prompt) ==
  /\ Head(prompt).name = "prefix"
  /\ \A k \in Sections : Occurs(prompt, k) # {}
  /\ _validate_section_order(prompt)
  /\ LET body(k) == _extract_section_body(prompt, k) IN
       /\ _validate_fields(body(1), ContextFields)
       /\ _validate_dream_section(body(2), DreamCount(body(1)))
       /\ _validate_fields(body(3), SummaryFields)
       /\ \A k \in {4, 5, 6} : _validate_fixed_section(body(k), k)

(* The log of dreams is verbatim and not looked at; the sample of their    *)
(* text in section 3 is.                                                   *)
_lexical_safety_on_controlled_text(lines) ==
  Fixed(4) \in Range(lines) /\ \A line \in Range(lines) : ~line.claims

validate_prompt_safety(prompt) ==
  /\ validate_prompt_structure(prompt)
  /\ _lexical_safety_on_controlled_text(
       SubSeq(prompt, 1, At(prompt, 2) - 1) \o SubSeq(prompt, At(prompt, 3), Len(prompt)))
=============================================================================
