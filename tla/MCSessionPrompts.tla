-------------------------- MODULE MCSessionPrompts --------------------------
EXTENDS SessionPrompts, TLC

Words == Line("words")
Simple == <<Words>>
Quote(k) == <<[Words EXCEPT !.heads = {k}]>>
Claim == [Words EXCEPT !.claims = TRUE]

(* Two lines; two paragraphs; a second line like a field; a line that      *)
(* quotes the heading of section 3, or of section 5; a claim.              *)
Odd == {<<Words, Words>>, <<Words, Blank, Words>>, <<Words, Line("note")>>,
        Quote(3), Quote(5), <<Claim>>}

(* Texts that go on as the log does: with another entry, or with section 3 *)
(* of a prompt; and one that stops short of either.                        *)
Forged ==
  {<<Words, Line("timestamp"), Blank, Numbered("marker", 2), Line("text")>>,
   <<Words, Line("timestamp"), Heading(3), Line("key_symbols"), Line("recurring_words"),
     Line("raw_text_sample"), Heading(4)>>,
   <<Words, Line("timestamp")>>}

(* One dream of every kind, two that differ, and three that are simple.    *)
MCNights ==
  {<<text>> : text \in Odd \cup Forged}
    \cup {<<Simple, Quote(3)>>, <<<<Words, Words>>, Simple>>, <<Simple, Simple, Simple>>}

MCSeams == {Words, [Claim EXCEPT !.heads = {4}]}
=============================================================================
