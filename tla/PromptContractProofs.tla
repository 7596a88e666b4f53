------------------------ MODULE PromptContractProofs ------------------------
(***************************************************************************)
(* The prompt contract accepts every plain prompt, and no prompt that is   *)
(* not checked, for any number of dreams of any lines.  The rendered       *)
(* prompt is described position by position, as far as the validation      *)
(* looks at it.                                                            *)
(***************************************************************************)
EXTENDS SessionPrompts, SequenceTheorems, FiniteSetTheorems, WellFoundedInduction, TLAPS

-----------------------------------------------------------------------------
(* Numbers, without operators as parameters                                *)

(* A set of naturals with an element has a least one.                         *)
LEMMA LeastExists ==
  ASSUME NEW T, T \subseteq Nat, T # {}
  PROVE  \E n \in T : \A m \in T : n <= m
<1> DEFINE B == {1 .. n : n \in T}
<1>1. B \subseteq FiniteSubsetsOf(Nat) /\ B # {}
  <2>1. \A n \in T : 1 .. n \subseteq Nat /\ IsFiniteSet(1 .. n)
    BY FS_Interval
  <2> QED BY <2>1 DEF FiniteSubsetsOf
<1>2. PICK b \in B : \A c \in B : ~ (<<c, b>> \in StrictSubsetOrdering(Nat))
  BY <1>1, FS_StrictSubsetOrderingWellFounded, WFMin
<1>3. PICK n \in T : b = 1 .. n
  OBVIOUS
<1>4. ASSUME NEW m \in T, m < n PROVE FALSE
  <2>1. 1 .. m \in B /\ 1 .. m \subseteq 1 .. n /\ n \in 1 .. n /\ n \notin 1 .. m
    BY <1>4
  <2>2. 1 .. m \subseteq Nat /\ 1 .. n \subseteq Nat
    OBVIOUS
  <2> QED BY <1>2, <1>3, <2>1, <2>2 DEF StrictSubsetOrdering
<1> QED BY <1>4

(* Induction up to n, over the numbers T a formula holds for.              *)
LEMMA UpTo ==
  ASSUME NEW a \in Nat, NEW n \in Nat, NEW T, a \in T,
         \A m \in a .. n - 1 : m \in T => m + 1 \in T
  PROVE  a .. n \subseteq T
<1> SUFFICES ASSUME a .. n \ T # {} PROVE FALSE
  OBVIOUS
<1> DEFINE U == a .. n \ T
<1>0. U \subseteq Nat /\ U # {}
  OBVIOUS
<1> HIDE DEF U
<1>1. PICK m \in U : \A k \in U : m <= k
  BY <1>0, LeastExists
<1> USE DEF U
<1>2. m # a /\ m - 1 \in a .. n - 1
  BY <1>1
<1>3. m - 1 \in T
  BY <1>1, <1>2
<1> QED BY <1>1, <1>2, <1>3

(* The least element of a set is what Least gives.                            *)
LEMMA LeastIs ==
  ASSUME NEW S, S \subseteq Nat, NEW n \in S, \A m \in S : n <= m
  PROVE  Least(S) = n
<1>1. \E i \in S : \A j \in S : i <= j
  OBVIOUS
<1>2. Least(S) \in S /\ \A j \in S : Least(S) <= j
  BY <1>1 DEF Least
<1>3. Least(S) \in Nat /\ n \in Nat /\ Least(S) <= n /\ n <= Least(S)
  BY <1>2
<1> QED BY <1>3

(* Least of a set with an element is in it and below all of it.               *)
LEMMA LeastIn ==
  ASSUME NEW S, S \subseteq Nat, S # {}
  PROVE  Least(S) \in S /\ \A m \in S : Least(S) <= m
<1>1. \E i \in S : \A j \in S : i <= j
  BY LeastExists
<1> QED BY <1>1 DEF Least

(* A set of positions has a greatest one.                                  *)
LEMMA GreatestExists ==
  ASSUME NEW n \in Nat, NEW T, T \subseteq 1 .. n, T # {}
  PROVE  \E m \in T : \A k \in T : k <= m
<1> DEFINE U == {n - k : k \in T}
<1>1. U \subseteq Nat /\ U # {}
  <2>1. \A k \in T : k \in Nat /\ k <= n
    OBVIOUS
  <2>2. \A k \in T : n - k \in Nat
    BY <2>1
  <2> QED BY <2>2
<1>2. PICK u \in U : \A v \in U : u <= v
  BY <1>1, LeastExists
<1>3. PICK m \in T : u = n - m
  BY <1>2
<1>4. \A k \in T : n - k \in U
  OBVIOUS
<1> HIDE DEF U
<1> QED BY <1>2, <1>3, <1>4
-----------------------------------------------------------------------------
(* Concatenation and folding, step by step                                 *)

(* FlattenSeq appends one sequence after another: its value is the last of    *)
(* the running concatenations.                                                *)
LEMMA FlattenSteps ==
  ASSUME NEW S, NEW seqs \in Seq(Seq(S)), Len(seqs) > 0
  PROVE  \E h : /\ h[1] = seqs[1]
                /\ \A m \in 2 .. Len(seqs) : h[m] = h[m - 1] \o seqs[m]
                /\ FlattenSeq(seqs) = h[Len(seqs)]
<1> DEFINE Step(f, i) == IF i = 1 THEN seqs[i] ELSE f[i - 1] \o seqs[i]
           flatten[i \in 1 .. Len(seqs)] ==
             IF i = 1 THEN seqs[i] ELSE flatten[i - 1] \o seqs[i]
           T == {m \in Nat : \E f : /\ f = [i \in 1 .. m |-> f[i]]
                                    /\ \A i \in 1 .. m : f[i] = Step(f, i)}
<1>1. FlattenSeq(seqs) = flatten[Len(seqs)]
  BY DEF FlattenSeq
<1>2. Len(seqs) \in Nat
  BY LenProperties
<1>3. 0 \in T
  <2> DEFINE f == [i \in 1 .. 0 |-> seqs[i]]
  <2>1. f = [i \in 1 .. 0 |-> f[i]] /\ \A i \in 1 .. 0 : f[i] = Step(f, i)
    OBVIOUS
  <2> QED BY <2>1
<1>4. ASSUME NEW m \in Nat, m \in T PROVE m + 1 \in T
  <2>1. PICK f : /\ f = [i \in 1 .. m |-> f[i]]
                 /\ \A i \in 1 .. m : f[i] = Step(f, i)
    BY <1>4, Zenon
  <2> DEFINE g == [i \in 1 .. m + 1 |-> IF i <= m THEN f[i] ELSE Step(f, i)]
  <2>2. ASSUME NEW i \in 1 .. m + 1 PROVE g[i] = Step(g, i)
    <3>1. CASE i <= m
      <4>0. i \in 1 .. m
        BY <3>1
      <4>1. f[i] = Step(f, i)
        BY <2>1, <4>0, Zenon
      <4>2. i # 1 => i - 1 \in 1 .. m /\ i - 1 \in 1 .. m + 1
        BY <3>1
      <4> QED BY <3>1, <4>1, <4>2
    <3>2. CASE i = m + 1
      <4>1. i # 1 => i - 1 \in 1 .. m /\ i - 1 \in 1 .. m + 1
        BY <3>2
      <4> QED BY <3>2, <4>1
    <3> QED BY <3>1, <3>2
  <2>3. g = [i \in 1 .. m + 1 |-> g[i]] /\ m + 1 \in Nat
    OBVIOUS
  <2> HIDE DEF g
  <2> QED BY <2>2, <2>3
<1>5. Len(seqs) \in T
  <2> HIDE DEF T
  <2>1. 0 .. Len(seqs) \subseteq T
    <3>1. \A m \in 0 .. Len(seqs) - 1 : m \in T => m + 1 \in T
      BY <1>4
    <3> QED BY <1>2, <1>3, <3>1, UpTo
  <2> QED BY <1>2, <2>1
<1>6. flatten = [i \in 1 .. Len(seqs) |-> Step(flatten, i)]
  <2>1. PICK f : /\ f = [i \in 1 .. Len(seqs) |-> f[i]]
                 /\ \A i \in 1 .. Len(seqs) : f[i] = Step(f, i)
    BY <1>5
  <2>2. f = [i \in 1 .. Len(seqs) |-> Step(f, i)]
    BY <2>1
  <2> QED BY <2>2
<1> HIDE DEF flatten, T
<1>7. \A i \in 1 .. Len(seqs) : flatten[i] = Step(flatten, i)
  BY <1>6
<1>8. flatten[1] = seqs[1]
  BY <1>2, <1>7
<1>9. ASSUME NEW m \in 2 .. Len(seqs) PROVE flatten[m] = flatten[m - 1] \o seqs[m]
  <2>1. m \in 1 .. Len(seqs) /\ m # 1
    BY <1>2
  <2> QED BY <1>7, <2>1
<1> QED BY <1>1, <1>8, <1>9

(* Joined joins one text after another: its value is the last of the          *)
(* running joins.                                                             *)
LEMMA JoinSteps ==
  ASSUME NEW S, NEW all \in Seq(S), all # <<>>
  PROVE  \E h : /\ h[0] = {Head(all)}
                /\ \A m \in 1 .. Len(Tail(all)) : h[m] = Joins(h[m - 1], Tail(all)[m])
                /\ Joined(all) = h[Len(Tail(all))]
<1> DEFINE base == {Head(all)}
           texts == Tail(all)
<1>0. texts \in Seq(S)
  BY HeadTailProperties
<1> DEFINE Step(f, s) == IF s = {} THEN base ELSE Joins(f[s \ {Max(s)}], texts[Max(s)])
           iter[s \in SUBSET DOMAIN texts] ==
             IF s = {} THEN base ELSE LET x == Max(s) IN Joins(iter[s \ {x}], texts[x])
           T == {m \in Nat : \E f : /\ f = [s \in SUBSET (1 .. m) |-> f[s]]
                                    /\ \A s \in SUBSET (1 .. m) : f[s] = Step(f, s)}
<1>1. Joined(all) = iter[DOMAIN texts]
  BY DEF Joined, FoldLeft, MapThenFoldSet
<1> HIDE DEF base, texts
<1>2. Len(texts) \in Nat /\ DOMAIN texts = 1 .. Len(texts)
  BY <1>0, LenProperties
<1>3. ASSUME NEW n \in Nat, NEW s \in SUBSET (1 .. n), s # {}
      PROVE  Max(s) \in s /\ \A k \in s : Max(s) >= k
  <2>1. \E m \in s : \A k \in s : k <= m
    BY <1>3, GreatestExists
  <2>2. \E m \in s : \A k \in s : m >= k
    BY <2>1
  <2> QED BY <2>2 DEF Max
<1>4. 0 \in T
  <2> DEFINE f == [s \in SUBSET (1 .. 0) |-> base]
  <2>1. /\ f = [s \in SUBSET (1 .. 0) |-> f[s]]
        /\ \A s \in SUBSET (1 .. 0) : f[s] = Step(f, s)
    OBVIOUS
  <2> QED BY <2>1
<1>5. ASSUME NEW m \in Nat, m \in T PROVE m + 1 \in T
  <2>1. PICK f : /\ f = [s \in SUBSET (1 .. m) |-> f[s]]
                 /\ \A s \in SUBSET (1 .. m) : f[s] = Step(f, s)
    BY <1>5
  <2> DEFINE g == [s \in SUBSET (1 .. m + 1) |->
                     IF m + 1 \in s THEN Joins(f[s \ {m + 1}], texts[m + 1]) ELSE f[s]]
  <2>2. ASSUME NEW s \in SUBSET (1 .. m + 1) PROVE g[s] = Step(g, s)
    <3>1. CASE m + 1 \in s
      <4>1. Max(s) = m + 1
        <5>1. m + 1 \in Nat /\ s # {}
          BY <3>1
        <5>2. Max(s) \in s /\ Max(s) >= m + 1
          BY <1>3, <3>1, <5>1
        <5>3. Max(s) \in 1 .. m + 1
          BY <5>2
        <5> QED BY <5>2, <5>3
      <4>2. /\ s \ {m + 1} \in SUBSET (1 .. m) /\ s \ {m + 1} \in SUBSET (1 .. m + 1)
            /\ m + 1 \notin s \ {m + 1}
        OBVIOUS
      <4>3. g[s \ {m + 1}] = f[s \ {m + 1}]
        BY <4>2
      <4> HIDE DEF g
      <4>4. g[s] = Joins(f[s \ {m + 1}], texts[m + 1])
        BY <3>1 DEF g
      <4> QED BY <3>1, <4>1, <4>3, <4>4
    <3>2. CASE m + 1 \notin s
      <4>1. s \in SUBSET (1 .. m)
        BY <3>2
      <4>2. f[s] = Step(f, s) /\ g[s] = f[s]
        BY <2>1, <3>2, <4>1
      <4>3. s # {} => g[s \ {Max(s)}] = f[s \ {Max(s)}]
        <5>1. s \ {Max(s)} \in SUBSET (1 .. m + 1) /\ m + 1 \notin s \ {Max(s)}
          BY <3>2
        <5> QED BY <5>1
      <4> HIDE DEF g
      <4> QED BY <4>2, <4>3
    <3> QED BY <3>1, <3>2
  <2>3. g = [s \in SUBSET (1 .. m + 1) |-> g[s]] /\ m + 1 \in Nat
    OBVIOUS
  <2> HIDE DEF g
  <2> QED BY <2>2, <2>3
<1>6. Len(texts) \in T
  <2> HIDE DEF T
  <2>1. 0 .. Len(texts) \subseteq T
    <3>1. \A m \in 0 .. Len(texts) - 1 : m \in T => m + 1 \in T
      BY <1>5
    <3> QED BY <1>2, <1>4, <3>1, UpTo
  <2> QED BY <1>2, <2>1
<1>7. \A s \in SUBSET (1 .. Len(texts)) : iter[s] = Step(iter, s)
  <2>1. PICK f : /\ f = [s \in SUBSET (1 .. Len(texts)) |-> f[s]]
                 /\ \A s \in SUBSET (1 .. Len(texts)) : f[s] = Step(f, s)
    BY <1>6
  <2>2. f = [s \in SUBSET (1 .. Len(texts)) |-> Step(f, s)]
    BY <2>1
  <2>3. iter = [s \in SUBSET (1 .. Len(texts)) |-> Step(iter, s)]
    BY <1>2, <2>2
  <2> HIDE DEF iter
  <2> QED BY <2>3
<1> HIDE DEF iter
<1> DEFINE h == [m \in 0 .. Len(texts) |-> iter[1 .. m]]
<1>8. h[0] = base
  <2>1. 1 .. 0 = {} /\ {} \in SUBSET (1 .. Len(texts))
    OBVIOUS
  <2>2. iter[{}] = base
    BY <1>7, <2>1
  <2> QED BY <1>2, <2>1, <2>2
<1>9. ASSUME NEW m \in 1 .. Len(texts) PROVE h[m] = Joins(h[m - 1], texts[m])
  <2>0. m \in Nat /\ m >= 1 /\ m <= Len(texts)
    BY <1>2
  <2>1. 1 .. m \in SUBSET (1 .. Len(texts)) /\ m \in 1 .. m
    BY <1>2, <2>0
  <2>2. Max(1 .. m) = m
    <3>1. Max(1 .. m) \in 1 .. m /\ Max(1 .. m) >= m
      BY <1>3, <2>0, <2>1
    <3> QED BY <2>0, <3>1
  <2>3. (1 .. m) \ {m} = 1 .. m - 1
    BY <2>0
  <2>4. iter[1 .. m] = Joins(iter[1 .. m - 1], texts[m])
    <3> DEFINE s == 1 .. m
    <3>1. s # {} /\ s \in SUBSET (1 .. Len(texts)) /\ Max(s) = m /\ s \ {m} = 1 .. m - 1
      BY <2>1, <2>2, <2>3
    <3> HIDE DEF s
    <3>2. iter[s] = Joins(iter[s \ {m}], texts[m])
      BY <1>7, <3>1
    <3> QED BY <3>1, <3>2 DEF s
  <2>5. m \in 0 .. Len(texts) /\ m - 1 \in 0 .. Len(texts)
    BY <1>2, <2>0
  <2> QED BY <2>4, <2>5
<1>10. Joined(all) = h[Len(texts)]
  BY <1>1, <1>2
<1> HIDE DEF h
<1> QED BY <1>8, <1>9, <1>10 DEF base, texts
-----------------------------------------------------------------------------
(* Lines                                                                   *)

(* The fields the contract expects are field names.                           *)
LEMMA FieldsNamed ==
  /\ \A i \in 1 .. 5 : ContextFields[i] \in FieldNames
  /\ \A i \in 1 .. 3 : SummaryFields[i] \in FieldNames
  /\ Len(ContextFields) = 5 /\ Len(SummaryFields) = 3
<1>1. DOMAIN ContextFields = 1 .. 5 /\ DOMAIN SummaryFields = 1 .. 3
      /\ Len(ContextFields) = 5 /\ Len(SummaryFields) = 3
  BY DEF ContextFields, SummaryFields
<1>2. /\ \A i \in 1 .. 5 : ContextFields[i] \in Range(ContextFields)
      /\ \A i \in 1 .. 3 : SummaryFields[i] \in Range(SummaryFields)
  BY <1>1 DEF Range
<1> QED BY <1>1, <1>2 DEF FieldNames

(* Every name the renderer writes is the name of a line.                   *)
LEMMA Names ==
  {"prefix", "heading", "fixed", "placeholder", "marker", "text", "timestamp", "blank",
   "words", "session_id", "user_id", "dream_count", "session_duration", "last_activity_at",
   "key_symbols", "recurring_words", "raw_text_sample"} \subseteq LineNames
<1>1. /\ ContextFields[1] = "session_id" /\ ContextFields[2] = "user_id"
      /\ ContextFields[3] = "dream_count" /\ ContextFields[4] = "session_duration"
      /\ ContextFields[5] = "last_activity_at"
      /\ SummaryFields[1] = "key_symbols" /\ SummaryFields[2] = "recurring_words"
      /\ SummaryFields[3] = "raw_text_sample"
  BY DEF ContextFields, SummaryFields
<1>2. {"session_id", "user_id", "dream_count", "session_duration", "last_activity_at"}
        \subseteq FieldNames
  <2>1. 1 \in 1 .. 5 /\ 2 \in 1 .. 5 /\ 3 \in 1 .. 5 /\ 4 \in 1 .. 5 /\ 5 \in 1 .. 5
    OBVIOUS
  <2> QED BY <1>1, <2>1, FieldsNamed
<1>3. {"key_symbols", "recurring_words", "raw_text_sample"} \subseteq FieldNames
  <2>1. 1 \in 1 .. 3 /\ 2 \in 1 .. 3 /\ 3 \in 1 .. 3
    OBVIOUS
  <2> QED BY <1>1, <2>1, FieldsNamed
<1>4. {"text", "timestamp"} \subseteq FieldNames
  BY DEF FieldNames
<1> HIDE DEF FieldNames
<1> QED BY <1>2, <1>3, <1>4 DEF LineNames

(* Every line the renderer writes is a line.                                  *)
LEMMA LinesTyped ==
  /\ \A name \in LineNames : Line(name) \in Lines
  /\ \A name \in LineNames, k \in Nat : Numbered(name, k) \in Lines
  /\ \A k \in Sections : Heading(k) \in Lines /\ Fixed(k) \in Lines
  /\ Blank \in Lines
  /\ \A line \in Lines, name \in LineNames : [line EXCEPT !.name = name] \in Lines
<1>0. /\ {} \in SUBSET Sections
      /\ \A k \in Sections : k \in Nat /\ {k} \in SUBSET Sections
  BY DEF Sections
<1>3. \A name \in LineNames : Line(name) \in Lines
  BY <1>0 DEF Line, Lines
<1>4. \A name \in LineNames, k \in Nat : Numbered(name, k) \in Lines
  BY <1>0, <1>3 DEF Numbered, Lines
<1>5. \A k \in Sections : Heading(k) \in Lines /\ Fixed(k) \in Lines
  <2> SUFFICES ASSUME NEW k \in Sections PROVE Heading(k) \in Lines /\ Fixed(k) \in Lines
    OBVIOUS
  <2>1. Line("heading") \in Lines /\ Fixed(k) \in Lines
    <3>1. "heading" \in LineNames /\ "fixed" \in LineNames
      BY Names
    <3> QED BY <1>0, <1>3, <1>4, <3>1 DEF Fixed
  <2> QED BY <1>0, <2>1 DEF Heading, Lines
<1>6. Blank \in Lines
  <2>1. "blank" \in LineNames
    BY Names
  <2> QED BY <1>3, <2>1 DEF Blank
<1>7. \A line \in Lines, name \in LineNames : [line EXCEPT !.name = name] \in Lines
  BY DEF Lines
<1> QED BY <1>3, <1>4, <1>5, <1>6, <1>7

(* A text has a line, and its first is not blank.                             *)
LEMMA TextTyped ==
  ASSUME NEW text \in DreamTexts
  PROVE  /\ text \in Seq(Lines) /\ text # <<>> /\ Len(text) \in Nat \ {0}
         /\ DOMAIN text = 1 .. Len(text)
         /\ Head(text) = text[1] /\ text[1].name # "blank"
         /\ \A i \in 1 .. Len(text) : text[i] \in Lines
<1>1. text \in Seq(Lines) /\ text # <<>> /\ Head(text).name # "blank"
  BY DEF DreamTexts
<1>3. Len(text) \in Nat \ {0} /\ DOMAIN text = 1 .. Len(text)
  BY <1>1, EmptySeq, LenProperties
<1>4. Head(text) = text[1]
  BY <1>1
<1>5. \A i \in 1 .. Len(text) : text[i] \in Lines
  BY <1>1, ElementOfSeq
<1> QED BY <1>1, <1>3, <1>4, <1>5

(* Two sequences of lines one after the other.                                *)
LEMMA Concat ==
  ASSUME NEW s, s \in Seq(Lines), NEW t, t \in Seq(Lines)
  PROVE  /\ s \o t \in Seq(Lines) /\ Len(s \o t) = Len(s) + Len(t)
         /\ Len(s) \in Nat /\ Len(t) \in Nat
         /\ \A i \in 1 .. Len(s) : (s \o t)[i] = s[i]
         /\ \A i \in 1 .. Len(t) : (s \o t)[Len(s) + i] = t[i]
<1>1. Len(s) \in Nat /\ Len(t) \in Nat
  BY LenProperties
<1>2. /\ s \o t \in Seq(Lines) /\ Len(s \o t) = Len(s) + Len(t)
      /\ \A i \in 1 .. Len(s) + Len(t) :
           (s \o t)[i] = IF i <= Len(s) THEN s[i] ELSE t[i - Len(s)]
  BY ConcatProperties
<1>3. ASSUME NEW i \in 1 .. Len(t) PROVE (s \o t)[Len(s) + i] = t[i]
  <2>1. /\ Len(s) + i \in 1 .. Len(s) + Len(t) /\ ~(Len(s) + i <= Len(s))
        /\ (Len(s) + i) - Len(s) = i
    BY <1>1
  <2> QED BY <1>2, <2>1
<1>4. \A i \in 1 .. Len(s) : i \in 1 .. Len(s) + Len(t) /\ i <= Len(s)
  BY <1>1
<1> QED BY <1>1, <1>2, <1>3, <1>4

(* A part of a prompt, read from its first position.                       *)
LEMMA SubSeqAt ==
  ASSUME NEW R \in Seq(Lines), NEW a \in 1 .. Len(R), NEW b \in a - 1 .. Len(R)
  PROVE  /\ SubSeq(R, a, b) \in Seq(Lines) /\ Len(SubSeq(R, a, b)) = b - a + 1
         /\ \A i \in 1 .. b - a + 1 : SubSeq(R, a, b)[i] = R[a - 1 + i]
<1>1. Len(R) \in Nat
  BY LenProperties
<1>2. \A i \in a .. b : R[i] \in Lines
  BY <1>1, ElementOfSeq
<1>3. /\ SubSeq(R, a, b) \in Seq(Lines)
      /\ Len(SubSeq(R, a, b)) = IF a <= b THEN b - a + 1 ELSE 0
      /\ \A i \in 1 .. b - a + 1 : SubSeq(R, a, b)[i] = R[a + i - 1]
  BY <1>1, <1>2, SubSeqProperties
<1>4. \A i \in 1 .. b - a + 1 : a + i - 1 = a - 1 + i
  BY <1>1
<1> QED BY <1>1, <1>3, <1>4

(* Joining two texts gives a text, and two texts of one line give one line.   *)
LEMMA JoinTyped ==
  ASSUME NEW text \in Seq(Lines), text # <<>>, NEW next \in Seq(Lines), next # <<>>,
         NEW seam \in Lines
  PROVE  /\ Join(text, next, seam) \in Seq(Lines) /\ Join(text, next, seam) # <<>>
         /\ Len(text) = 1 /\ Len(next) = 1 => Len(Join(text, next, seam)) = 1
<1> DEFINE n == Len(text)
           met == [text[n] EXCEPT
                     !.name = IF @ \in FieldNames THEN @ ELSE seam.name,
                     !.heads = @ \cup next[1].heads \cup seam.heads,
                     !.claims = @ \/ next[1].claims \/ seam.claims]
           front == SubSeq(text, 1, n - 1)
<1>1. n \in Nat \ {0} /\ Len(next) \in Nat \ {0}
  BY EmptySeq
<1>2. text[n] \in Lines /\ next[1] \in Lines
  BY <1>1, ElementOfSeq
<1>3. met \in Lines
  <2>1. /\ (IF text[n].name \in FieldNames THEN text[n].name ELSE seam.name) \in LineNames
        /\ text[n].heads \cup next[1].heads \cup seam.heads \in SUBSET Sections
    BY <1>2 DEF Lines
  <2>2. (text[n].claims \/ next[1].claims \/ seam.claims) \in BOOLEAN
    OBVIOUS
  <2> QED BY <1>2, <2>1, <2>2 DEF Lines
<1>4. front \in Seq(Lines) /\ (n = 1 => Len(front) = 0) /\ Len(front) \in Nat
  <2> HIDE DEF n
  <2>2. n - 1 \in Int /\ (n = 1 => n - 1 < 1)
    BY <1>1
  <2>1. \A i \in 1 .. n - 1 : text[i] \in Lines
    BY <1>1, <2>2, ElementOfSeq DEF n
  <2>3. front \in Seq(Lines) /\ (n = 1 => front = <<>>)
    BY <2>1, <2>2, SubSeqProperties, SubSeqEmpty
  <2> HIDE DEF front
  <2>4. n = 1 => Len(front) = 0
    BY <2>3, EmptySeq
  <2> QED BY <2>3, <2>4, LenProperties
<1>5. /\ Tail(next) \in Seq(Lines) /\ (Len(next) = 1 => Len(Tail(next)) = 0)
      /\ Len(Tail(next)) \in Nat
  <2>1. Tail(next) \in Seq(Lines) /\ Len(Tail(next)) = Len(next) - 1
    BY HeadTailProperties
  <2> QED BY <1>1, <2>1
<1>6. Join(text, next, seam) = front \o <<met>> \o Tail(next)
  <2>1. Head(next) = next[1]
    BY <1>1
  <2> QED BY <2>1 DEF Join, Front, Last
<1> DEFINE one == <<met>>
<1>7. one \in Seq(Lines) /\ Len(one) = 1
  BY <1>3
<1> HIDE DEF met, front, one
<1>8. /\ front \o one \in Seq(Lines) /\ Len(front \o one) = Len(front) + Len(one)
  <2>1. front \in Seq(Lines) /\ one \in Seq(Lines)
    BY <1>4, <1>7
  <2> QED BY <2>1, Concat
<1>9. /\ (front \o one) \o Tail(next) \in Seq(Lines)
      /\ Len((front \o one) \o Tail(next)) = Len(front \o one) + Len(Tail(next))
  <2>1. front \o one \in Seq(Lines) /\ Tail(next) \in Seq(Lines)
    BY <1>5, <1>8
  <2> QED BY <2>1, Concat
<1>10. /\ Join(text, next, seam) \in Seq(Lines)
       /\ Len(Join(text, next, seam)) = Len(front) + 1 + Len(Tail(next))
  BY <1>6, <1>7, <1>8, <1>9 DEF one
<1>11. Join(text, next, seam) # <<>>
  <2>1. Len(Join(text, next, seam)) # 0
    BY <1>4, <1>5, <1>10
  <2>2. PICK j \in Seq(Lines) : j = Join(text, next, seam)
    BY <1>10
  <2>3. j # <<>>
    BY <2>1, <2>2, EmptySeq
  <2> QED BY <2>2, <2>3
<1>12. ASSUME Len(text) = 1, Len(next) = 1 PROVE Len(Join(text, next, seam)) = 1
  <2>1. Len(front) = 0 /\ Len(Tail(next)) = 0
    BY <1>4, <1>5, <1>12
  <2>2. Len(Join(text, next, seam)) = 0 + 1 + 0
    BY <1>10, <2>1
  <2> QED BY <2>2
<1> QED BY <1>10, <1>11, <1>12

(* Texts that are joined are a text, of one line if each of them is.          *)
LEMMA JoinedTyped ==
  ASSUME NEW texts \in Seq(DreamTexts), texts # <<>>, NEW text \in Joined(texts)
  PROVE  /\ text \in Seq(Lines) /\ text # <<>>
         /\ (\A i \in DOMAIN texts : Bare(texts[i])) => Len(text) = 1
<1>1. Len(texts) \in Nat /\ DOMAIN texts = 1 .. Len(texts)
      /\ \A i \in 1 .. Len(texts) : texts[i] \in DreamTexts
  BY LenProperties, ElementOfSeq
<1> DEFINE rest == Tail(texts)
           n == Len(rest)
           bare == \A i \in DOMAIN texts : Bare(texts[i])
           Texts == {t \in Seq(Lines) : t # <<>> /\ (bare => Len(t) = 1)}
<1>2. /\ Head(texts) = texts[1] /\ Len(texts) >= 1
      /\ rest \in Seq(DreamTexts) /\ Len(rest) = Len(texts) - 1
      /\ \A i \in 1 .. Len(rest) : rest[i] = texts[i + 1]
  BY <1>1, HeadTailProperties, EmptySeq
<1>3. PICK h : /\ h[0] = {Head(texts)}
               /\ \A m \in 1 .. Len(rest) : h[m] = Joins(h[m - 1], rest[m])
               /\ Joined(texts) = h[Len(rest)]
  BY JoinSteps
<1> DEFINE T == {m \in 0 .. n : h[m] \subseteq Texts}
<1> HIDE DEF rest
<1>4. \A i \in 1 .. Len(texts) : texts[i] \in Texts
  <2> SUFFICES ASSUME NEW i \in 1 .. Len(texts) PROVE texts[i] \in Texts
    OBVIOUS
  <2>1. texts[i] \in Seq(Lines) /\ texts[i] # <<>>
    BY <1>1, TextTyped
  <2>2. bare => Len(texts[i]) = 1
    BY <1>1 DEF Bare
  <2> QED BY <2>1, <2>2
<1> HIDE DEF Texts
<1>5. 0 \in T
  <2>1. texts[1] \in Texts
    BY <1>1, <1>2, <1>4
  <2> QED BY <1>1, <1>2, <1>3, <2>1
<1>6. ASSUME NEW m \in 0 .. n - 1, m \in T PROVE m + 1 \in T
  <2>1. m + 1 \in 1 .. Len(rest) /\ m + 2 \in 1 .. Len(texts) /\ (m + 1) - 1 = m
        /\ m + 1 \in 0 .. n /\ (m + 1) + 1 = m + 2
    BY <1>1, <1>2
  <2>2. h[m + 1] = Joins(h[m], texts[m + 2])
    BY <1>2, <1>3, <2>1
  <2>3. texts[m + 2] \in Texts
    BY <1>4, <2>1
  <2>4. ASSUME NEW a \in Texts, NEW b \in Texts, NEW seam \in Seams
        PROVE  Join(a, b, seam) \in Texts
    <3>1. seam \in Lines
      BY PromptsAssumption
    <3>2. /\ a \in Seq(Lines) /\ a # <<>> /\ (bare => Len(a) = 1)
          /\ b \in Seq(Lines) /\ b # <<>> /\ (bare => Len(b) = 1)
      BY DEF Texts
    <3>3. /\ Join(a, b, seam) \in Seq(Lines) /\ Join(a, b, seam) # <<>>
          /\ Len(a) = 1 /\ Len(b) = 1 => Len(Join(a, b, seam)) = 1
      BY <3>1, <3>2, JoinTyped
    <3> HIDE DEF bare
    <3> QED BY <3>2, <3>3 DEF Texts
  <2>5. h[m] \subseteq Texts
    BY <1>6
  <2>6. h[m + 1] \subseteq Texts
    <3> SUFFICES ASSUME NEW t \in h[m + 1] PROVE t \in Texts
      OBVIOUS
    <3>1. t \in Joins(h[m], texts[m + 2])
      BY <2>2
    <3>2. PICK a \in h[m], seam \in Seams : t = Join(a, texts[m + 2], seam)
      BY <3>1 DEF Joins
    <3>3. a \in Texts
      BY <2>5
    <3> QED BY <2>3, <2>4, <3>2, <3>3
  <2> QED BY <2>1, <2>6
<1>7. n \in T
  <2> HIDE DEF T
  <2>1. n \in Nat
    BY <1>1, <1>2
  <2>2. 0 .. n \subseteq T
    BY <1>5, <1>6, <2>1, UpTo
  <2> QED BY <2>1, <2>2
<1>8. text \in Texts
  BY <1>3, <1>7
<1> QED BY <1>8 DEF Texts

(* A sample is lines, and at most one line if every text is one line.         *)
LEMMA SamplesTyped ==
  ASSUME NEW texts \in Seq(DreamTexts), NEW sample \in Samples(texts)
  PROVE  /\ sample \in Seq(Lines) /\ Len(sample) \in Nat
         /\ (\A i \in DOMAIN texts : Bare(texts[i])) => Len(sample) <= 1
<1>1. CASE texts = <<>>
  <2>1. sample = <<>>
    BY <1>1 DEF Samples
  <2>2. sample \in Seq(Lines) /\ Len(sample) = 0
    BY <2>1
  <2> QED BY <2>2
<1>2. CASE texts # <<>>
  <2> DEFINE bare == \A i \in DOMAIN texts : Bare(texts[i])
  <2>1. PICK text \in Joined(texts) : sample \in Cuts(text)
    BY <1>2 DEF Samples
  <2>2. /\ text \in Seq(Lines) /\ text # <<>> /\ (bare => Len(text) = 1)
    BY <1>2, JoinedTyped
  <2> HIDE DEF bare
  <2>3. PICK n \in DOMAIN text :
          sample \in {Append(SubSeq(text, 1, n - 1), l) : l \in Shortened(text[n])}
    BY <2>1 DEF Cuts
  <2>4. PICK line \in Shortened(text[n]) : sample = Append(SubSeq(text, 1, n - 1), line)
    BY <2>3
  <2>5. Len(text) \in Nat /\ DOMAIN text = 1 .. Len(text) /\ text[n] \in Lines
    BY <2>2, LenProperties, ElementOfSeq
  <2>6. line \in Lines
    <3>1. /\ text[n].name \in LineNames /\ text[n].number \in Nat
          /\ text[n].heads \in SUBSET Sections /\ text[n].claims \in BOOLEAN
      BY <2>5 DEF Lines
    <3>2. "words" \in LineNames
      BY Names
    <3> QED BY <3>1, <3>2 DEF Shortened, Lines
  <2> DEFINE front == SubSeq(text, 1, n - 1)
  <2>7. front \in Seq(Lines) /\ Len(front) = n - 1
    <3>1. 1 \in 1 .. Len(text) /\ n - 1 \in 1 - 1 .. Len(text) /\ (n - 1) - 1 + 1 = n - 1
      BY <2>5
    <3> QED BY <2>2, <3>1, SubSeqAt
  <2> HIDE DEF front
  <2>8. sample \in Seq(Lines) /\ Len(sample) = n
    <3>1. Append(front, line) \in Seq(Lines) /\ Len(Append(front, line)) = Len(front) + 1
      BY <2>6, <2>7, AppendProperties
    <3> QED BY <2>4, <2>5, <2>7, <3>1 DEF front
  <2>9. bare => n <= 1
    BY <2>2, <2>5
  <2> QED BY <2>5, <2>8, <2>9 DEF bare
<1> QED BY <1>1, <1>2

(* The lines of the sample's field: those of the sample, the first renamed.   *)
LEMMA SampleShape ==
  ASSUME NEW sample \in Seq(Lines)
  PROVE  /\ SampleLines(sample) \in Seq(Lines) /\ Len(SampleLines(sample)) \in Nat \ {0}
         /\ SampleLines(sample)[1].name = "raw_text_sample"
         /\ sample = <<>> => SampleLines(sample) = <<Line("raw_text_sample")>>
         /\ sample # <<>> =>
              /\ Len(SampleLines(sample)) = Len(sample)
              /\ \A i \in 1 .. Len(sample) : /\ SampleLines(sample)[i].heads = sample[i].heads
                                             /\ SampleLines(sample)[i].claims = sample[i].claims
<1>1. CASE sample = <<>>
  <2> DEFINE l == Line("raw_text_sample")
  <2>1. SampleLines(sample) = <<l>>
    BY <1>1 DEF SampleLines
  <2>2. l \in Lines /\ l.name = "raw_text_sample"
    BY LinesTyped, Names DEF Line
  <2> HIDE DEF l
  <2>3. <<l>> \in Seq(Lines) /\ Len(<<l>>) = 1 /\ <<l>>[1] = l
    BY <2>2
  <2>4. Len(SampleLines(sample)) = 1 /\ SampleLines(sample)[1] = l
    BY <2>1, <2>3
  <2>5. SampleLines(sample) \in Seq(Lines)
    BY <2>1, <2>3
  <2>6. SampleLines(sample)[1].name = "raw_text_sample"
    BY <2>2, <2>4
  <2> QED BY <1>1, <2>1, <2>4, <2>5, <2>6 DEF l
<1>2. CASE sample # <<>>
  <2>1. /\ Tail(sample) \in Seq(Lines) /\ Len(Tail(sample)) = Len(sample) - 1
        /\ \A i \in 1 .. Len(sample) - 1 : Tail(sample)[i] = sample[i + 1]
        /\ Len(sample) \in Nat \ {0} /\ sample[1] \in Lines /\ Head(sample) = sample[1]
    BY <1>2, HeadTailProperties, EmptySeq, ElementOfSeq
  <2> DEFINE l == [sample[1] EXCEPT !.name = "raw_text_sample"]
             one == <<l>>
             all == one \o Tail(sample)
  <2>2. /\ l \in Lines /\ l.name = "raw_text_sample" /\ l.heads = sample[1].heads
        /\ l.claims = sample[1].claims
    <3>1. "raw_text_sample" \in LineNames
      BY Names
    <3> QED BY <2>1, <3>1 DEF Lines
  <2>3. SampleLines(sample) = all
    BY <1>2, <2>1 DEF SampleLines
  <2> HIDE DEF l
  <2>4. one \in Seq(Lines) /\ Len(one) = 1 /\ one[1] = l
    BY <2>2
  <2> HIDE DEF one
  <2>5. /\ all \in Seq(Lines) /\ Len(all) = Len(one) + Len(Tail(sample))
        /\ \A i \in 1 .. Len(one) : all[i] = one[i]
        /\ \A i \in 1 .. Len(Tail(sample)) : all[Len(one) + i] = Tail(sample)[i]
    <3>1. one \in Seq(Lines) /\ Tail(sample) \in Seq(Lines)
      BY <2>1, <2>4
    <3> QED BY <3>1, Concat
  <2> HIDE DEF all
  <2>6. Len(all) = Len(sample) /\ all[1] = l
    BY <2>1, <2>4, <2>5
  <2>7. ASSUME NEW i \in 1 .. Len(sample)
        PROVE  all[i].heads = sample[i].heads /\ all[i].claims = sample[i].claims
    <3>1. CASE i = 1
      BY <2>2, <2>6, <3>1
    <3>2. CASE i # 1
      <4>1. PICK j : j = i - 1
        OBVIOUS
      <4>2. j \in 1 .. Len(sample) - 1 /\ j + 1 = i /\ 1 + j = i
        BY <2>1, <3>2, <4>1
      <4>3. all[1 + j] = Tail(sample)[j]
        BY <2>1, <2>4, <2>5, <4>2
      <4>4. all[i] = sample[i]
        BY <2>1, <4>2, <4>3
      <4> QED BY <4>4
    <3> QED BY <3>1, <3>2
  <2> QED BY <1>2, <2>1, <2>2, <2>3, <2>5, <2>6, <2>7
<1> QED BY <1>1, <1>2
-----------------------------------------------------------------------------
(* The log of dreams                                                       *)

(* The lines of one entry of the log: marker, the text, timestamp, blank.     *)
LEMMA EntryShape ==
  ASSUME NEW k \in Nat, NEW text \in DreamTexts
  PROVE  /\ Entry(k, text) \in Seq(Lines) /\ Len(Entry(k, text)) = Len(text) + 3
         /\ Entry(k, text)[1] = Numbered("marker", k)
         /\ Entry(k, text)[2] = [text[1] EXCEPT !.name = "text"]
         /\ \A i \in 2 .. Len(text) : Entry(k, text)[i + 1] = text[i]
         /\ Entry(k, text)[Len(text) + 2] = Line("timestamp")
         /\ Entry(k, text)[Len(text) + 3] = Blank
<1> DEFINE first == <<Numbered("marker", k), [Head(text) EXCEPT !.name = "text"]>>
           last == <<Line("timestamp"), Blank>>
<1>1. /\ text \in Seq(Lines) /\ text # <<>> /\ Len(text) \in Nat \ {0} /\ Head(text) = text[1]
      /\ text[1] \in Lines
  BY TextTyped, ElementOfSeq
<1>2. /\ Numbered("marker", k) \in Lines /\ [Head(text) EXCEPT !.name = "text"] \in Lines
      /\ Line("timestamp") \in Lines /\ Blank \in Lines
  <2>1. "marker" \in LineNames /\ "text" \in LineNames /\ "timestamp" \in LineNames
    BY Names
  <2> QED BY <1>1, <2>1, LinesTyped
<1>3. /\ first \in Seq(Lines) /\ Len(first) = 2 /\ first[1] = Numbered("marker", k)
      /\ first[2] = [text[1] EXCEPT !.name = "text"]
  BY <1>1, <1>2
<1>4. /\ last \in Seq(Lines) /\ Len(last) = 2 /\ last[1] = Line("timestamp")
      /\ last[2] = Blank
  BY <1>2
<1>5. /\ Tail(text) \in Seq(Lines) /\ Len(Tail(text)) = Len(text) - 1
      /\ \A i \in 1 .. Len(text) - 1 : Tail(text)[i] = text[i + 1]
  BY <1>1, HeadTailProperties
<1>6. Entry(k, text) = first \o Tail(text) \o last
  BY DEF Entry
<1> HIDE DEF first, last
<1> DEFINE d == first \o Tail(text)
<1>7. /\ d \in Seq(Lines) /\ Len(d) = Len(first) + Len(Tail(text))
      /\ \A i \in 1 .. Len(first) : d[i] = first[i]
      /\ \A i \in 1 .. Len(Tail(text)) : d[Len(first) + i] = Tail(text)[i]
  <2>1. first \in Seq(Lines) /\ Tail(text) \in Seq(Lines)
    BY <1>3, <1>5
  <2> QED BY <2>1, Concat
<1> HIDE DEF d
<1>8. /\ d \o last \in Seq(Lines) /\ Len(d \o last) = Len(d) + Len(last)
      /\ \A i \in 1 .. Len(d) : (d \o last)[i] = d[i]
      /\ \A i \in 1 .. Len(last) : (d \o last)[Len(d) + i] = last[i]
  <2>1. d \in Seq(Lines) /\ last \in Seq(Lines)
    BY <1>4, <1>7
  <2> QED BY <2>1, Concat
<1>9. Entry(k, text) = d \o last
  BY <1>6 DEF d
<1> DEFINE e == d \o last
<1> HIDE DEF e
<1>10. Len(d) = Len(text) + 1 /\ Len(e) = Len(text) + 3
  BY <1>1, <1>3, <1>4, <1>5, <1>7, <1>8 DEF e
<1>11. e[1] = first[1] /\ e[2] = first[2]
  BY <1>1, <1>3, <1>7, <1>8, <1>10 DEF e
<1>12. ASSUME NEW i \in 2 .. Len(text) PROVE e[i + 1] = text[i]
  <2>1. i - 1 \in 1 .. Len(Tail(text)) /\ 2 + (i - 1) = i + 1 /\ i + 1 \in 1 .. Len(d)
        /\ i - 1 \in 1 .. Len(text) - 1 /\ (i - 1) + 1 = i
    BY <1>1, <1>5, <1>10
  <2>2. d[i + 1] = Tail(text)[i - 1]
    <3>1. d[Len(first) + (i - 1)] = Tail(text)[i - 1]
      BY <1>7, <2>1
    <3> QED BY <1>3, <2>1, <3>1
  <2> QED BY <1>5, <1>8, <2>1, <2>2 DEF e
<1>13. e[Len(text) + 2] = last[1] /\ e[Len(text) + 3] = last[2]
  <2>1. Len(d) + 1 = Len(text) + 2 /\ Len(d) + 2 = Len(text) + 3
    BY <1>1, <1>10
  <2>2. 1 \in 1 .. Len(last) /\ 2 \in 1 .. Len(last)
    BY <1>4
  <2>3. e[Len(d) + 1] = last[1] /\ e[Len(d) + 2] = last[2]
    BY <1>8, <2>2 DEF e
  <2> QED BY <2>1, <2>3
<1> QED BY <1>3, <1>4, <1>8, <1>9, <1>10, <1>11, <1>12, <1>13 DEF e

Entries(texts) == [k \in DOMAIN texts |-> Entry(k, texts[k])]

(* The entries of the first m dreams stand where they would if each of     *)
(* them but the last had one line.                                         *)
Logged(s, texts, m) ==
  /\ s \in Seq(Lines)
  /\ \A j \in 1 .. m : \A i \in 1 .. Len(texts[j]) + 3 :
       /\ 4 * (j - 1) + i \in 1 .. Len(s)
       /\ s[4 * (j - 1) + i] = Entry(j, texts[j])[i]

(* An entry of the log is three lines longer than its text.                   *)
LEMMA EntryTyped ==
  ASSUME NEW texts \in Seq(DreamTexts), NEW j \in 1 .. Len(texts)
  PROVE  /\ texts[j] \in DreamTexts /\ Len(texts[j]) \in Nat \ {0}
         /\ Entry(j, texts[j]) \in Seq(Lines)
         /\ Len(Entry(j, texts[j])) = Len(texts[j]) + 3
<1>1. texts[j] \in DreamTexts /\ j \in Nat
  BY LenProperties, ElementOfSeq
<1> QED BY <1>1, EntryShape, TextTyped

(* The log has one entry for every dream.                                     *)
LEMMA EntriesTyped ==
  ASSUME NEW texts \in Seq(DreamTexts)
  PROVE  /\ Entries(texts) \in Seq(Seq(Lines)) /\ Len(Entries(texts)) = Len(texts)
         /\ \A j \in 1 .. Len(texts) : Entries(texts)[j] = Entry(j, texts[j])
<1>1. Len(texts) \in Nat /\ DOMAIN texts = 1 .. Len(texts)
  BY LenProperties
<1>2. Entries(texts) \in [1 .. Len(texts) -> Seq(Lines)]
  BY <1>1, EntryTyped DEF Entries
<1> QED BY <1>1, <1>2 DEF Entries

(* After a lines the prompt goes on with the b lines of next, and ends.     *)
Continues(lines, a, b, next) ==
  Len(lines) = a + b /\ \A i \in 1 .. b : lines[a + i] = next[i]

(* A further entry leaves the ones before it where they are.               *)
LEMMA LoggedOn ==
  ASSUME NEW texts \in Seq(DreamTexts), NEW j \in 1 .. Len(texts), NEW m \in Nat,
         NEW s, Logged(s, texts, m), NEW u, u = s \o Entry(j, texts[j]),
         NEW a \in Nat, a = Len(s), NEW b \in Nat, b = Len(texts[j]) + 3
  PROVE  Logged(u, texts, m) /\ Continues(u, a, b, Entry(j, texts[j]))
<1> DEFINE t == Entry(j, texts[j])
<1>1. t \in Seq(Lines) /\ Len(t) = Len(texts[j]) + 3 /\ Len(texts[j]) \in Nat
  BY EntryTyped
<1>2. s \in Seq(Lines)
  BY DEF Logged
<1> HIDE DEF t
<1>u. u = s \o t
  BY DEF t
<1>3. /\ u \in Seq(Lines) /\ Len(u) = Len(s) + Len(t) /\ Len(s) \in Nat
      /\ \A i \in 1 .. Len(s) : u[i] = s[i]
      /\ \A i \in 1 .. Len(t) : u[Len(s) + i] = t[i]
  <2>1. s \in Seq(Lines) /\ t \in Seq(Lines)
    BY <1>1, <1>2
  <2> QED BY <1>u, <2>1, Concat
<1>4. Logged(u, texts, m)
  <2> SUFFICES ASSUME NEW l \in 1 .. m, NEW i \in 1 .. Len(texts[l]) + 3
               PROVE  /\ 4 * (l - 1) + i \in 1 .. Len(u)
                      /\ u[4 * (l - 1) + i] = Entry(l, texts[l])[i]
    BY <1>3 DEF Logged
  <2> DEFINE p == 4 * (l - 1) + i
  <2>1. p \in 1 .. Len(s) /\ s[p] = Entry(l, texts[l])[i]
    BY DEF Logged
  <2> HIDE DEF p
  <2>2. p \in 1 .. Len(u)
    BY <1>1, <1>3, <2>1
  <2>3. u[p] = s[p]
    BY <1>3, <2>1
  <2> QED BY <2>1, <2>2, <2>3 DEF p
<1>5. Len(u) = Len(s) + (Len(texts[j]) + 3)
  BY <1>1, <1>3
<1>6. \A i \in 1 .. Len(texts[j]) + 3 : u[Len(s) + i] = t[i]
  BY <1>1, <1>3
<1> QED BY <1>3, <1>4, <1>5, <1>6 DEF t, Continues

(* As long as the dreams before it have one line, a dream's entry stands   *)
(* at a fixed place.                                                       *)
LEMMA LogShape ==
  ASSUME NEW texts \in Seq(DreamTexts), NEW k \in 1 .. Len(texts),
         \A j \in 1 .. k - 1 : Len(texts[j]) = 1
  PROVE  /\ Logged(FlattenSeq(Entries(texts)), texts, k)
         /\ Len(FlattenSeq(Entries(texts))) \in Nat
         /\ Len(FlattenSeq(Entries(texts))) >= 4 * (k - 1) + (Len(texts[k]) + 3)
         /\ k = Len(texts) =>
              Len(FlattenSeq(Entries(texts))) = 4 * (k - 1) + (Len(texts[k]) + 3)
<1> DEFINE n == Len(texts)
           E(j) == Entry(j, texts[j])
           L(j) == Len(texts[j])
           all == Entries(texts)
<1>1. n \in Nat /\ k \in Nat /\ 1 <= k /\ k <= n
  BY LenProperties
<1>2. \A j \in 1 .. n : E(j) \in Seq(Lines) /\ Len(E(j)) = L(j) + 3 /\ L(j) \in Nat
  BY EntryTyped
<1>3. /\ all \in Seq(Seq(Lines)) /\ Len(all) = n
      /\ \A j \in 1 .. n : all[j] = E(j)
  BY EntriesTyped
<1>4. \A j \in 1 .. k - 1 : L(j) = 1
  OBVIOUS
<1>f. \A s, m : Logged(s, texts, m) <=>
                  /\ s \in Seq(Lines)
                  /\ \A j \in 1 .. m : \A i \in 1 .. L(j) + 3 :
                       /\ 4 * (j - 1) + i \in 1 .. Len(s)
                       /\ s[4 * (j - 1) + i] = E(j)[i]
  BY DEF Logged
<1> HIDE DEF n, E, L, all
<1>5. PICK h : /\ h[1] = E(1)
               /\ \A m \in 2 .. n : h[m] = h[m - 1] \o E(m)
               /\ FlattenSeq(all) = h[n]
  <2>0. Len(all) > 0
    BY <1>1, <1>3
  <2>1. PICK h : /\ h[1] = all[1]
                 /\ \A m \in 2 .. Len(all) : h[m] = h[m - 1] \o all[m]
                 /\ FlattenSeq(all) = h[Len(all)]
    BY <1>3, <2>0, FlattenSteps
  <2>2. 1 \in 1 .. n /\ \A m \in 2 .. n : m \in 1 .. n
    BY <1>1
  <2> QED BY <1>3, <2>1, <2>2
<1> DEFINE D(m) == 4 * (m - 1) + (L(m) + 3)
           T == {m \in 1 .. n : m <= k => Logged(h[m], texts, m) /\ Len(h[m]) = D(m)}
           U == {m \in 1 .. n : /\ Logged(h[m], texts, k) /\ Len(h[m]) \in Nat
                                /\ (m = k => Len(h[m]) = D(k)) /\ Len(h[m]) >= D(k)}
<1>7. 1 \in T
  <2>1. E(1) \in Seq(Lines) /\ Len(E(1)) = L(1) + 3 /\ L(1) \in Nat
    BY <1>1, <1>2
  <2>2. Logged(E(1), texts, 1)
    <3> SUFFICES ASSUME NEW j \in 1 .. 1, NEW i \in 1 .. L(j) + 3
                 PROVE  /\ 4 * (j - 1) + i \in 1 .. Len(E(1))
                        /\ E(1)[4 * (j - 1) + i] = E(j)[i]
      BY <1>f, <2>1
    <3>1. j = 1
      OBVIOUS
    <3>2. i \in 1 .. Len(E(1)) /\ 4 * (1 - 1) + i = i
      BY <2>1, <3>1
    <3> QED BY <3>1, <3>2
  <2>3. D(1) = L(1) + 3
    BY <2>1
  <2> QED BY <1>1, <1>5, <2>1, <2>2, <2>3
<1>9. ASSUME NEW m \in 1 .. n - 1, m \in T PROVE m + 1 \in T
  <2>0. m \in Nat /\ 1 <= m /\ m + 1 <= n /\ m + 1 \in 1 .. n /\ m + 1 \in 2 .. n
    BY <1>1
  <2> SUFFICES ASSUME m + 1 <= k
               PROVE  Logged(h[m + 1], texts, m + 1) /\ Len(h[m + 1]) = D(m + 1)
    BY <2>0
  <2>1. m <= k /\ m \in 1 .. k - 1 /\ (m + 1) - 1 = m
    BY <1>1, <2>0
  <2>2. h[m + 1] = h[m] \o E(m + 1)
    BY <1>5, <2>0, <2>1
  <2>3. Logged(h[m], texts, m) /\ Len(h[m]) = 4 * m
    <3>1. Logged(h[m], texts, m) /\ Len(h[m]) = D(m)
      BY <1>9, <2>1
    <3>2. L(m) = 1
      BY <1>4, <2>1
    <3>3. D(m) = 4 * m
      BY <2>0, <3>2
    <3> QED BY <3>1, <3>3
  <2> DEFINE s == h[m + 1]
  <2> HIDE DEF T
  <2>4. /\ Logged(s, texts, m) /\ Len(s) = Len(h[m]) + (L(m + 1) + 3)
        /\ \A i \in 1 .. L(m + 1) + 3 : s[Len(h[m]) + i] = E(m + 1)[i]
    <3>0. PICK j : j = m + 1
      OBVIOUS
    <3>1. /\ j \in 1 .. Len(texts) /\ s = h[m] \o Entry(j, texts[j]) /\ L(j) \in Nat
          /\ L(j) = Len(texts[j])
      BY <1>2, <2>0, <2>2, <3>0 DEF n, E, L
    <3>2. PICK a \in Nat : a = 4 * m
      BY <2>0
    <3>3. PICK b \in Nat : b = L(j) + 3
      BY <3>1
    <3>4. Logged(h[m], texts, m) /\ a = Len(h[m]) /\ b = Len(texts[j]) + 3
      BY <2>3, <3>1, <3>2, <3>3
    <3> HIDE DEF s
    <3>5. Logged(s, texts, m) /\ Continues(s, a, b, E(j))
      BY <2>0, <3>1, <3>4, LoggedOn DEF E
    <3>6. /\ Logged(s, texts, m) /\ Len(s) = a + b
          /\ \A i \in 1 .. b : s[a + i] = E(j)[i]
      BY <3>5 DEF Continues
    <3> QED BY <2>3, <3>0, <3>2, <3>3, <3>6
  <2> HIDE DEF s
  <2>5. L(m + 1) \in Nat
    BY <1>2, <2>0
  <2>6. Len(s) = D(m + 1)
    <3>1. D(m + 1) = 4 * m + (L(m + 1) + 3)
      BY <2>0
    <3> QED BY <2>3, <2>4, <3>1
  <2>7. Logged(s, texts, m + 1)
    <3> SUFFICES ASSUME NEW j \in 1 .. m + 1, NEW i \in 1 .. L(j) + 3
                 PROVE  /\ 4 * (j - 1) + i \in 1 .. Len(s)
                        /\ s[4 * (j - 1) + i] = E(j)[i]
      BY <1>f, <2>4
    <3>1. CASE j \in 1 .. m
      BY <1>f, <2>4, <3>1
    <3>2. CASE j = m + 1
      <4>1. 4 * (j - 1) + i = 4 * m + i /\ i \in 1 .. L(m + 1) + 3
        BY <2>0, <3>2
      <4>2. 4 * m + i \in 1 .. Len(s)
        BY <2>0, <2>3, <2>4, <2>5, <4>1
      <4>3. s[4 * m + i] = E(m + 1)[i]
        BY <2>3, <2>4, <4>1
      <4> QED BY <3>2, <4>1, <4>2, <4>3
    <3> QED BY <2>0, <3>1, <3>2
  <2> QED BY <2>6, <2>7 DEF s
<1>10. k \in T
  <2> HIDE DEF T
  <2>1. \A m \in 1 .. n - 1 : m \in T => m + 1 \in T
    BY <1>9
  <2>2. 1 .. n \subseteq T
    BY <1>1, <1>7, <2>1, UpTo
  <2> QED BY <1>1, <2>2
<1>11. k \in U
  <2>1. Logged(h[k], texts, k) /\ Len(h[k]) = D(k)
    BY <1>1, <1>10
  <2>2. L(k) \in Nat
    BY <1>1, <1>2
  <2>3. D(k) \in Nat /\ D(k) >= D(k)
    BY <1>1, <2>2
  <2> QED BY <1>1, <2>1, <2>3
<1>12. ASSUME NEW m \in k .. n - 1, m \in U PROVE m + 1 \in U
  <2>1. /\ m \in Nat /\ m + 1 \in 1 .. n /\ m + 1 \in 2 .. n /\ (m + 1) - 1 = m
        /\ m + 1 # k /\ k \in 1 .. n
    BY <1>1
  <2>2. h[m + 1] = h[m] \o E(m + 1)
    BY <1>5, <2>1
  <2>3. Logged(h[m], texts, k) /\ Len(h[m]) >= D(k) /\ Len(h[m]) \in Nat
    BY <1>12
  <2> HIDE DEF U
  <2>4. Logged(h[m + 1], texts, k) /\ Len(h[m + 1]) = Len(h[m]) + (L(m + 1) + 3)
    <3> DEFINE s == h[m + 1]
    <3>0. PICK j : j = m + 1
      OBVIOUS
    <3>1. /\ j \in 1 .. Len(texts) /\ s = h[m] \o Entry(j, texts[j]) /\ L(j) \in Nat
          /\ L(j) = Len(texts[j])
      BY <1>2, <2>1, <2>2, <3>0 DEF n, E, L
    <3>2. PICK a \in Nat : a = Len(h[m])
      BY <2>3
    <3>3. PICK b \in Nat : b = L(j) + 3
      BY <3>1
    <3>4. Logged(h[m], texts, k) /\ a = Len(h[m]) /\ b = Len(texts[j]) + 3
      BY <2>3, <3>1, <3>2, <3>3
    <3> HIDE DEF s
    <3>5. Logged(s, texts, k) /\ Continues(s, a, b, E(j))
      BY <1>1, <3>1, <3>4, LoggedOn DEF E
    <3>6. Logged(s, texts, k) /\ Len(s) = a + b
      BY <3>5 DEF Continues
    <3> QED BY <3>0, <3>2, <3>3, <3>6 DEF s
  <2>5. L(m + 1) \in Nat /\ L(k) \in Nat
    BY <1>2, <2>1
  <2>6. Len(h[m + 1]) >= D(k) /\ Len(h[m + 1]) \in Nat
    <3>1. D(k) \in Nat
      BY <1>1, <2>5
    <3> HIDE DEF D
    <3> QED BY <2>3, <2>4, <2>5, <3>1
  <2> QED BY <2>1, <2>4, <2>6 DEF U
<1>13. n \in U
  <2> HIDE DEF U
  <2>1. \A m \in k .. n - 1 : m \in U => m + 1 \in U
    BY <1>12
  <2>2. k .. n \subseteq U
    BY <1>1, <1>11, <2>1, UpTo
  <2> QED BY <1>1, <2>2
<1>14. /\ Logged(h[n], texts, k) /\ (n = k => Len(h[n]) = D(k)) /\ Len(h[n]) >= D(k)
       /\ Len(h[n]) \in Nat
  BY <1>13
<1> QED BY <1>5, <1>14 DEF L, n, all
-----------------------------------------------------------------------------
(* The prompt, part by part                                                *)

(* After a lines come those of next.                                       *)
Holds(lines, a, next) ==
  /\ a + Len(next) <= Len(lines)
  /\ \A i \in 1 .. Len(next) : lines[a + i] = next[i]

Ends(lines, a) == lines \in Seq(Lines) /\ Len(lines) = a

(* A part that is appended stands where the lines before it end.              *)
LEMMA HoldsNow ==
  ASSUME NEW a \in Nat, NEW b \in Nat, NEW s, Ends(s, a), NEW t, Ends(t, b)
  PROVE  Ends(s \o t, a + b) /\ Holds(s \o t, a, t)
<1>1. s \in Seq(Lines) /\ t \in Seq(Lines) /\ Len(s) = a /\ Len(t) = b
  BY DEF Ends
<1> DEFINE u == s \o t
<1>2. /\ u \in Seq(Lines) /\ Len(u) = Len(s) + Len(t)
      /\ \A i \in 1 .. Len(t) : u[Len(s) + i] = t[i]
  <2>1. s \in Seq(Lines) /\ t \in Seq(Lines)
    BY <1>1
  <2> QED BY <2>1, Concat
<1> HIDE DEF u
<1>3. Len(u) = a + b
  BY <1>1, <1>2
<1>4. a + Len(t) <= Len(u) /\ \A i \in 1 .. Len(t) : u[a + i] = t[i]
  BY <1>1, <1>2
<1>5. Ends(u, a + b) /\ Holds(u, a, t)
  BY <1>2, <1>3, <1>4 DEF Ends, Holds
<1> QED BY <1>5 DEF u

(* A part stays where it is when more lines are appended.                     *)
LEMMA HoldsLater ==
  ASSUME NEW a \in Nat, NEW b, NEW c \in Nat, NEW d, NEW s, Ends(s, b), NEW t, Ends(t, d),
         NEW next, Ends(next, c), Holds(s, a, next)
  PROVE  Holds(s \o t, a, next)
<1> DEFINE u == s \o t
<1>1. /\ Len(u) = Len(s) + Len(t) /\ Len(s) \in Nat /\ Len(t) \in Nat
      /\ \A i \in 1 .. Len(s) : u[i] = s[i]
  <2>1. s \in Seq(Lines) /\ t \in Seq(Lines)
    BY DEF Ends
  <2> QED BY <2>1, Concat
<1> HIDE DEF u
<1>2. Len(next) \in Nat /\ a + Len(next) <= Len(s)
  BY LenProperties DEF Holds, Ends
<1>3. a + Len(next) <= Len(u)
  BY <1>1, <1>2
<1>4. ASSUME NEW i \in 1 .. Len(next) PROVE u[a + i] = next[i]
  <2>1. a + i \in 1 .. Len(s)
    BY <1>1, <1>2
  <2>2. s[a + i] = next[i]
    BY DEF Holds
  <2>3. PICK l : l = a + i
    OBVIOUS
  <2>4. u[l] = s[l]
    BY <1>1, <2>1, <2>3
  <2> QED BY <2>2, <2>3, <2>4
<1>5. Holds(u, a, next)
  BY <1>3, <1>4 DEF Holds
<1> QED BY <1>5 DEF u

Opening == <<Line("prefix"), Blank, Heading(1)>>
Context(p) ==
  [i \in DOMAIN ContextFields |->
     IF ContextFields[i] = "dream_count" THEN Numbered("dream_count", p.dream_count)
     ELSE Line(ContextFields[i])]
Second == <<Blank, Heading(2)>>
Log(texts) == IF Entries(texts) = <<>> THEN <<Line("placeholder")>>
              ELSE FlattenSeq(Entries(texts))
Third(p) == <<Heading(3), KeySymbols(p.ranking), Line("recurring_words")>>
Fourth == <<Blank, Heading(4), Fixed(4), Blank>>
Closing == <<Heading(5), Fixed(5), Blank, Heading(6), Fixed(6)>>

(* The lengths of the parts of the prompt that do not depend on the dreams.   *)
LEMMA PartsTyped ==
  ASSUME NEW p, p.dream_count \in Nat, p.ranking \in BOOLEAN
  PROVE  /\ Opening \in Seq(Lines) /\ Len(Opening) = 3
         /\ Context(p) \in Seq(Lines) /\ Len(Context(p)) = 5
         /\ Second \in Seq(Lines) /\ Len(Second) = 2
         /\ Third(p) \in Seq(Lines) /\ Len(Third(p)) = 3
         /\ Fourth \in Seq(Lines) /\ Len(Fourth) = 4
         /\ Closing \in Seq(Lines) /\ Len(Closing) = 5
<1>1. /\ Line("prefix") \in Lines /\ KeySymbols(p.ranking) \in Lines
      /\ Line("recurring_words") \in Lines /\ Blank \in Lines
  <2>1. "prefix" \in LineNames /\ "key_symbols" \in LineNames /\ "recurring_words" \in LineNames
    BY Names
  <2>2. Line("key_symbols") \in Lines
    BY <2>1, LinesTyped
  <2>3. KeySymbols(p.ranking) \in Lines
    BY <2>2 DEF KeySymbols, Lines
  <2> QED BY <2>1, <2>3, LinesTyped
<1>2. /\ \A k \in Sections : Heading(k) \in Lines /\ Fixed(k) \in Lines
      /\ 1 \in Sections /\ 2 \in Sections /\ 3 \in Sections /\ 4 \in Sections
      /\ 5 \in Sections /\ 6 \in Sections
  BY LinesTyped DEF Sections
<1>3. Opening \in Seq(Lines) /\ Len(Opening) = 3
  BY <1>1, <1>2 DEF Opening
<1>4. Context(p) \in Seq(Lines) /\ Len(Context(p)) = 5
  <2>1. DOMAIN ContextFields = 1 .. 5 /\ \A i \in 1 .. 5 : ContextFields[i] \in LineNames
    <3>1. FieldNames \subseteq LineNames
      BY DEF LineNames
    <3>2. DOMAIN ContextFields = 1 .. 5
      BY DEF ContextFields
    <3> HIDE DEF FieldNames, LineNames
    <3> QED BY <3>1, <3>2, FieldsNamed
  <2>2. "dream_count" \in LineNames
    BY Names
  <2>3. /\ Numbered("dream_count", p.dream_count) \in Lines
        /\ \A i \in 1 .. 5 : Line(ContextFields[i]) \in Lines
    BY <2>1, <2>2, LinesTyped
  <2>4. Context(p) \in [1 .. 5 -> Lines]
    BY <2>1, <2>3 DEF Context
  <2>5. PICK f : f = Context(p)
    OBVIOUS
  <2>6. f \in [1 .. 5 -> Lines]
    BY <2>4, <2>5
  <2>7. f \in Seq(Lines) /\ Len(f) = 5
    <3>1. f \in Seq(Lines)
      <4>1. PICK m \in Nat : m = 5
        OBVIOUS
      <4>2. f \in [1 .. m -> Lines]
        BY <2>6, <4>1
      <4>3. [1 .. m -> Lines] \in {[1 .. i -> Lines] : i \in Nat}
        OBVIOUS
      <4>4. f \in UNION {[1 .. i -> Lines] : i \in Nat}
        BY <4>2, <4>3, Zenon
      <4> QED BY <4>4, SeqDef, Zenon
    <3>2. Len(f) \in Nat /\ DOMAIN f = 1 .. Len(f)
      BY <3>1, LenProperties
    <3>3. DOMAIN f = 1 .. 5
      BY <2>6
    <3>4. PICK m \in Nat : m = Len(f)
      BY <3>2
    <3>5. 5 \in 1 .. m /\ 6 \notin 1 .. m
      BY <3>2, <3>3, <3>4
    <3>6. m = 5
      BY <3>5
    <3> QED BY <3>1, <3>4, <3>6
  <2> QED BY <2>5, <2>7
<1>5. Second \in Seq(Lines) /\ Len(Second) = 2
  BY <1>1, <1>2 DEF Second
<1>6. Third(p) \in Seq(Lines) /\ Len(Third(p)) = 3
  BY <1>1, <1>2 DEF Third
<1>7. Fourth \in Seq(Lines) /\ Len(Fourth) = 4
  BY <1>1, <1>2 DEF Fourth
<1>8. Closing \in Seq(Lines) /\ Len(Closing) = 5
  BY <1>1, <1>2 DEF Closing
<1> QED BY <1>3, <1>4, <1>5, <1>6, <1>7, <1>8

(* The log is the placeholder when there is no dream, and its entries         *)
(* otherwise.                                                                 *)
LEMMA LogTyped ==
  ASSUME NEW texts \in Seq(DreamTexts)
  PROVE  /\ Log(texts) \in Seq(Lines) /\ Len(Log(texts)) \in Nat \ {0}
         /\ texts = <<>> => Log(texts) = <<Line("placeholder")>>
         /\ texts # <<>> => Log(texts) = FlattenSeq(Entries(texts))
<1>1. /\ Entries(texts) \in Seq(Seq(Lines)) /\ Len(Entries(texts)) = Len(texts)
      /\ Len(texts) \in Nat
  BY EntriesTyped, LenProperties
<1>2. Entries(texts) = <<>> <=> texts = <<>>
  BY <1>1, EmptySeq
<1>3. CASE texts = <<>>
  <2> DEFINE l == Line("placeholder")
  <2>1. l \in Lines
    BY LinesTyped, Names
  <2> HIDE DEF l
  <2>2. Log(texts) = <<l>>
    BY <1>2, <1>3 DEF Log, l
  <2>3. <<l>> \in Seq(Lines)
    BY <2>1
  <2>4. Len(<<l>>) \in Nat \ {0}
    OBVIOUS
  <2> QED BY <1>3, <2>2, <2>3, <2>4 DEF l
<1>4. CASE texts # <<>>
  <2>1. Log(texts) = FlattenSeq(Entries(texts))
    BY <1>2, <1>4 DEF Log
  <2>2. 1 \in 1 .. Len(texts) /\ \A j \in 1 .. 1 - 1 : Len(texts[j]) = 1
    BY <1>1, <1>4, EmptySeq
  <2>3. Len(texts[1]) \in Nat
    BY <2>2, EntryTyped
  <2>4. /\ FlattenSeq(Entries(texts)) \in Seq(Lines)
        /\ Len(FlattenSeq(Entries(texts))) \in Nat
        /\ Len(FlattenSeq(Entries(texts))) >= 4 * (1 - 1) + (Len(texts[1]) + 3)
    BY <2>2, LogShape DEF Logged
  <2>5. Len(FlattenSeq(Entries(texts))) # 0
    BY <2>3, <2>4
  <2> QED BY <1>4, <2>1, <2>4, <2>5
<1> QED BY <1>3, <1>4

(* Where each part of a rendered prompt stands.                               *)
LEMMA Rendered ==
  ASSUME NEW p, p.dream_count \in Nat, p.ranking \in BOOLEAN,
         p.dreams \in Seq(DreamTexts), p.sample \in Seq(Lines),
         NEW n \in Nat, n = Len(Log(p.dreams)),
         NEW s \in Nat, s = Len(SampleLines(p.sample))
  PROVE  LET R == render_compiled_prompt(p)
         IN  /\ Ends(R, 22 + n + s)
             /\ Holds(R, 0, Opening) /\ Holds(R, 3, Context(p)) /\ Holds(R, 8, Second)
             /\ Holds(R, 10, Log(p.dreams)) /\ Holds(R, 10 + n, Third(p))
             /\ Holds(R, 13 + n, SampleLines(p.sample))
             /\ Holds(R, 13 + n + s, Fourth) /\ Holds(R, 17 + n + s, Closing)
<1> DEFINE A == Opening
           B == Context(p)
           C == Second
           log == Log(p.dreams)
           D == Third(p)
           more == SampleLines(p.sample)
           E == Fourth
           F == Closing
           R == render_compiled_prompt(p)
<1>2. R = A \o B \o C \o log \o D \o more \o E \o F
  BY DEF render_compiled_prompt, Opening, Context, Second, Log, Entries, Third, Fourth, Closing
<1>3. /\ Ends(A, 3) /\ Ends(B, 5) /\ Ends(C, 2) /\ Ends(D, 3) /\ Ends(E, 4) /\ Ends(F, 5)
  BY PartsTyped DEF Ends
<1>1. Ends(log, n) /\ Ends(more, s)
  <2>1. log \in Seq(Lines) /\ more \in Seq(Lines)
    BY LogTyped, SampleShape
  <2> QED BY <2>1 DEF Ends
<1> HIDE DEF A, B, C, log, D, more, E, F, R
<1> DEFINE r1 == A \o B
           r2 == r1 \o C
           r3 == r2 \o log
           r4 == r3 \o D
           r5 == r4 \o more
           r6 == r5 \o E
<1>4. R = r6 \o F
  BY <1>2
<1> DEFINE a3 == 10 + n
           a4 == 13 + n
           a5 == 13 + n + s
           a6 == 17 + n + s
           a7 == 22 + n + s
<1>5. /\ a3 \in Nat /\ a4 \in Nat /\ a5 \in Nat /\ a6 \in Nat
      /\ 10 + n = a3 /\ a3 + 3 = a4 /\ a4 + s = a5 /\ a5 + 4 = a6 /\ a6 + 5 = a7
  OBVIOUS
<1>6. 0 \in Nat /\ 2 \in Nat /\ 3 \in Nat /\ 4 \in Nat /\ 5 \in Nat /\ 8 \in Nat /\ 10 \in Nat
      /\ 3 + 5 = 8 /\ 8 + 2 = 10
  OBVIOUS
<1> HIDE DEF r1, r2, r3, r4, r5, r6, a3, a4, a5, a6, a7
<1>10. Holds(A, 0, A)
  <2>1. A \in Seq(Lines) /\ Len(A) = 3
    BY <1>3 DEF Ends
  <2> QED BY <2>1 DEF Holds
<1>11. Ends(r1, 8) /\ Holds(r1, 3, B) /\ Holds(r1, 0, A)
  <2>1. Ends(r1, 3 + 5) /\ Holds(r1, 3, B)
    BY <1>3, <1>6, HoldsNow DEF r1
  <2>2. Holds(r1, 0, A)
    BY <1>3, <1>6, <1>10, HoldsLater DEF r1
  <2> QED BY <1>6, <2>1, <2>2
<1>12. Ends(r2, 10) /\ Holds(r2, 8, C) /\ Holds(r2, 3, B) /\ Holds(r2, 0, A)
  <2>1. Ends(r2, 8 + 2) /\ Holds(r2, 8, C)
    BY <1>3, <1>6, <1>11, HoldsNow DEF r2
  <2>2. Holds(r2, 3, B) /\ Holds(r2, 0, A)
    BY <1>3, <1>6, <1>11, HoldsLater DEF r2
  <2> QED BY <1>6, <2>1, <2>2
<1>13. /\ Ends(r3, a3) /\ Holds(r3, 10, log)
       /\ Holds(r3, 8, C) /\ Holds(r3, 3, B) /\ Holds(r3, 0, A)
  <2>1. Ends(r3, 10 + n) /\ Holds(r3, 10, log)
    BY <1>1, <1>6, <1>12, HoldsNow DEF r3
  <2>2. Holds(r3, 8, C) /\ Holds(r3, 3, B) /\ Holds(r3, 0, A)
    BY <1>1, <1>3, <1>6, <1>12, HoldsLater DEF r3
  <2> QED BY <1>5, <2>1, <2>2
<1>14. /\ Ends(r4, a4) /\ Holds(r4, a3, D) /\ Holds(r4, 10, log)
       /\ Holds(r4, 8, C) /\ Holds(r4, 3, B) /\ Holds(r4, 0, A)
  <2>1. Ends(r4, a3 + 3) /\ Holds(r4, a3, D)
    BY <1>3, <1>5, <1>6, <1>13, HoldsNow DEF r4
  <2>2. Holds(r4, 10, log) /\ Holds(r4, 8, C) /\ Holds(r4, 3, B) /\ Holds(r4, 0, A)
    BY <1>1, <1>3, <1>6, <1>13, HoldsLater DEF r4
  <2> QED BY <1>5, <2>1, <2>2
<1>15. /\ Ends(r5, a5) /\ Holds(r5, a4, more) /\ Holds(r5, a3, D)
       /\ Holds(r5, 10, log) /\ Holds(r5, 8, C) /\ Holds(r5, 3, B) /\ Holds(r5, 0, A)
  <2>1. Ends(r5, a4 + s) /\ Holds(r5, a4, more)
    BY <1>1, <1>5, <1>14, HoldsNow DEF r5
  <2>2. /\ Holds(r5, a3, D) /\ Holds(r5, 10, log) /\ Holds(r5, 8, C) /\ Holds(r5, 3, B)
        /\ Holds(r5, 0, A)
    BY <1>1, <1>3, <1>5, <1>6, <1>14, HoldsLater DEF r5
  <2> QED BY <1>5, <2>1, <2>2
<1>16. /\ Ends(r6, a6) /\ Holds(r6, a5, E) /\ Holds(r6, a4, more)
       /\ Holds(r6, a3, D) /\ Holds(r6, 10, log) /\ Holds(r6, 8, C) /\ Holds(r6, 3, B)
       /\ Holds(r6, 0, A)
  <2>1. Ends(r6, a5 + 4) /\ Holds(r6, a5, E)
    BY <1>3, <1>5, <1>6, <1>15, HoldsNow DEF r6
  <2>2. /\ Holds(r6, a4, more) /\ Holds(r6, a3, D) /\ Holds(r6, 10, log) /\ Holds(r6, 8, C)
        /\ Holds(r6, 3, B) /\ Holds(r6, 0, A)
    BY <1>1, <1>3, <1>5, <1>6, <1>15, HoldsLater DEF r6
  <2> QED BY <1>5, <2>1, <2>2
<1>17. /\ Ends(R, a7) /\ Holds(R, a6, F) /\ Holds(R, a5, E)
       /\ Holds(R, a4, more) /\ Holds(R, a3, D) /\ Holds(R, 10, log) /\ Holds(R, 8, C)
       /\ Holds(R, 3, B) /\ Holds(R, 0, A)
  <2>1. Ends(R, a6 + 5) /\ Holds(R, a6, F)
    BY <1>3, <1>4, <1>5, <1>6, <1>16, HoldsNow
  <2>2. /\ Holds(R, a5, E) /\ Holds(R, a4, more) /\ Holds(R, a3, D) /\ Holds(R, 10, log)
        /\ Holds(R, 8, C) /\ Holds(R, 3, B) /\ Holds(R, 0, A)
    BY <1>1, <1>3, <1>4, <1>5, <1>6, <1>16, HoldsLater
  <2> QED BY <1>5, <2>1, <2>2
<1> QED BY <1>17 DEF A, B, C, log, D, more, E, F, R, a3, a4, a5, a6, a7
-----------------------------------------------------------------------------
(* What stands where                                                       *)

Placed(R, p, n, s) ==
  /\ Ends(R, 22 + n + s)
  /\ R[1] = Line("prefix") /\ R[2] = Blank /\ R[3] = Heading(1)
  /\ R[4] = Line("session_id") /\ R[5] = Line("user_id")
  /\ R[6] = Numbered("dream_count", p.dream_count)
  /\ R[7] = Line("session_duration") /\ R[8] = Line("last_activity_at")
  /\ R[9] = Blank /\ R[10] = Heading(2)
  /\ \A i \in 1 .. n : R[10 + i] = Log(p.dreams)[i]
  /\ R[11 + n] = Heading(3)
  /\ R[12 + n] = KeySymbols(p.ranking) /\ R[13 + n] = Line("recurring_words")
  /\ \A i \in 1 .. s : R[13 + n + i] = SampleLines(p.sample)[i]
  /\ R[14 + n + s] = Blank /\ R[15 + n + s] = Heading(4) /\ R[16 + n + s] = Fixed(4)
  /\ R[17 + n + s] = Blank /\ R[18 + n + s] = Heading(5) /\ R[19 + n + s] = Fixed(5)
  /\ R[20 + n + s] = Blank /\ R[21 + n + s] = Heading(6) /\ R[22 + n + s] = Fixed(6)

(* The lines of a rendered prompt, one by one.                                *)
LEMMA RenderedPlaced ==
  ASSUME NEW p, p.dream_count \in Nat, p.ranking \in BOOLEAN,
         p.dreams \in Seq(DreamTexts), p.sample \in Seq(Lines),
         NEW n \in Nat, n = Len(Log(p.dreams)),
         NEW s \in Nat, s = Len(SampleLines(p.sample))
  PROVE  Placed(render_compiled_prompt(p), p, n, s)
<1> DEFINE R == render_compiled_prompt(p)
           log == Log(p.dreams)
           more == SampleLines(p.sample)
<1>1. /\ Ends(R, 22 + n + s)
      /\ Holds(R, 0, Opening) /\ Holds(R, 3, Context(p)) /\ Holds(R, 8, Second)
      /\ Holds(R, 10, log) /\ Holds(R, 10 + n, Third(p))
      /\ Holds(R, 13 + n, more)
      /\ Holds(R, 13 + n + s, Fourth) /\ Holds(R, 17 + n + s, Closing)
  BY Rendered
<1>2. n = Len(log) /\ s = Len(more)
  OBVIOUS
<1>3. /\ Len(Opening) = 3 /\ Len(Context(p)) = 5 /\ Len(Second) = 2 /\ Len(Third(p)) = 3
      /\ Len(Fourth) = 4 /\ Len(Closing) = 5
  BY PartsTyped
<1> HIDE DEF R, log, more
<1>4. R[1] = Line("prefix") /\ R[2] = Blank /\ R[3] = Heading(1)
  <2>1. \A i \in 1 .. 3 : R[0 + i] = Opening[i]
    BY <1>1, <1>3 DEF Holds
  <2>2. R[1] = Opening[1] /\ R[2] = Opening[2] /\ R[3] = Opening[3]
    BY <2>1
  <2> QED BY <2>2 DEF Opening
<1>5. /\ R[4] = Line("session_id") /\ R[5] = Line("user_id")
      /\ R[6] = Numbered("dream_count", p.dream_count)
      /\ R[7] = Line("session_duration") /\ R[8] = Line("last_activity_at")
  <2>1. \A i \in 1 .. 5 : R[3 + i] = Context(p)[i]
    BY <1>1, <1>3 DEF Holds
  <2>2. /\ R[4] = Context(p)[1] /\ R[5] = Context(p)[2] /\ R[6] = Context(p)[3]
        /\ R[7] = Context(p)[4] /\ R[8] = Context(p)[5]
    BY <2>1
  <2>3. /\ DOMAIN ContextFields = 1 .. 5
        /\ ContextFields[1] = "session_id" /\ ContextFields[2] = "user_id"
        /\ ContextFields[3] = "dream_count" /\ ContextFields[4] = "session_duration"
        /\ ContextFields[5] = "last_activity_at"
    BY DEF ContextFields
  <2> QED BY <2>2, <2>3 DEF Context
<1>6. R[9] = Blank /\ R[10] = Heading(2)
  <2>1. \A i \in 1 .. 2 : R[8 + i] = Second[i]
    BY <1>1, <1>3 DEF Holds
  <2>2. R[9] = Second[1] /\ R[10] = Second[2]
    BY <2>1
  <2> QED BY <2>2 DEF Second
<1>7. \A i \in 1 .. n : R[10 + i] = log[i]
  BY <1>1, <1>2 DEF Holds
<1>8. R[11 + n] = Heading(3) /\ R[12 + n] = KeySymbols(p.ranking)
      /\ R[13 + n] = Line("recurring_words")
  <2>1. \A i \in 1 .. 3 : R[(10 + n) + i] = Third(p)[i]
    BY <1>1, <1>3 DEF Holds
  <2>2. (10 + n) + 1 = 11 + n /\ (10 + n) + 2 = 12 + n /\ (10 + n) + 3 = 13 + n
    OBVIOUS
  <2>3. R[11 + n] = Third(p)[1] /\ R[12 + n] = Third(p)[2] /\ R[13 + n] = Third(p)[3]
    BY <2>1, <2>2
  <2> QED BY <2>3 DEF Third
<1>9. \A i \in 1 .. s : R[13 + n + i] = more[i]
  BY <1>1, <1>2 DEF Holds
<1>10. /\ R[14 + n + s] = Blank /\ R[15 + n + s] = Heading(4) /\ R[16 + n + s] = Fixed(4)
       /\ R[17 + n + s] = Blank
  <2>1. \A i \in 1 .. 4 : R[(13 + n + s) + i] = Fourth[i]
    BY <1>1, <1>3 DEF Holds
  <2>2. /\ (13 + n + s) + 1 = 14 + n + s /\ (13 + n + s) + 2 = 15 + n + s
        /\ (13 + n + s) + 3 = 16 + n + s /\ (13 + n + s) + 4 = 17 + n + s
    OBVIOUS
  <2>3. /\ R[14 + n + s] = Fourth[1] /\ R[15 + n + s] = Fourth[2]
        /\ R[16 + n + s] = Fourth[3] /\ R[17 + n + s] = Fourth[4]
    BY <2>1, <2>2
  <2> QED BY <2>3 DEF Fourth
<1>11. /\ R[18 + n + s] = Heading(5) /\ R[19 + n + s] = Fixed(5)
       /\ R[20 + n + s] = Blank /\ R[21 + n + s] = Heading(6) /\ R[22 + n + s] = Fixed(6)
  <2>1. \A i \in 1 .. 5 : R[(17 + n + s) + i] = Closing[i]
    BY <1>1, <1>3 DEF Holds
  <2>2. /\ (17 + n + s) + 1 = 18 + n + s /\ (17 + n + s) + 2 = 19 + n + s
        /\ (17 + n + s) + 3 = 20 + n + s /\ (17 + n + s) + 4 = 21 + n + s
        /\ (17 + n + s) + 5 = 22 + n + s
    OBVIOUS
  <2>3. /\ R[18 + n + s] = Closing[1] /\ R[19 + n + s] = Closing[2]
        /\ R[20 + n + s] = Closing[3] /\ R[21 + n + s] = Closing[4]
        /\ R[22 + n + s] = Closing[5]
    BY <2>1, <2>2
  <2> QED BY <2>3 DEF Closing
<1>12. Placed(R, p, n, s)
  BY <1>1, <1>4, <1>5, <1>6, <1>7, <1>8, <1>9, <1>10, <1>11 DEF Placed, log, more
<1> QED BY <1>12 DEF R

(* What is in the lines the renderer writes itself.                           *)
LEMMA PlainLines ==
  /\ \A name : /\ Line(name).name = name /\ Line(name).number = 0
               /\ Line(name).heads = {} /\ Line(name).claims = FALSE
  /\ \A name, k : /\ Numbered(name, k).name = name /\ Numbered(name, k).number = k
                  /\ Numbered(name, k).heads = {} /\ Numbered(name, k).claims = FALSE
  /\ \A k : /\ Heading(k).name = "heading" /\ Heading(k).heads = {k}
            /\ Heading(k).claims = FALSE
  /\ \A k : Fixed(k).name = "fixed" /\ Fixed(k).heads = {} /\ Fixed(k).claims = FALSE
  /\ Blank.name = "blank" /\ Blank.heads = {} /\ Blank.claims = FALSE
  /\ \A ranking : /\ KeySymbols(ranking).name = "key_symbols"
                  /\ KeySymbols(ranking).heads = {} /\ KeySymbols(ranking).claims = ranking
<1>1. \A ranking : /\ KeySymbols(ranking).name = "key_symbols"
                   /\ KeySymbols(ranking).heads = {} /\ KeySymbols(ranking).claims = ranking
  BY DEF Line, KeySymbols
<1>2. /\ \A name : /\ Line(name).name = name /\ Line(name).number = 0
                   /\ Line(name).heads = {} /\ Line(name).claims = FALSE
      /\ \A name, k : /\ Numbered(name, k).name = name /\ Numbered(name, k).number = k
                      /\ Numbered(name, k).heads = {} /\ Numbered(name, k).claims = FALSE
      /\ \A k : /\ Heading(k).name = "heading" /\ Heading(k).heads = {k}
                /\ Heading(k).claims = FALSE
      /\ \A k : Fixed(k).name = "fixed" /\ Fixed(k).heads = {} /\ Fixed(k).claims = FALSE
      /\ Blank.name = "blank" /\ Blank.heads = {} /\ Blank.claims = FALSE
  BY DEF Line, Numbered, Heading, Fixed, Blank
<1> QED BY <1>1, <1>2
-----------------------------------------------------------------------------
(* The body of a section                                                   *)

(* Stripping lines that start with one that is not blank drops the blank      *)
(* ones at the end.                                                           *)
LEMMA StripTo ==
  ASSUME NEW lines \in Seq(Lines), NEW m \in 1 .. Len(lines),
         lines[1].name # "blank", lines[m].name # "blank",
         \A i \in m + 1 .. Len(lines) : lines[i].name = "blank"
  PROVE  Ends(Strip(lines), m) /\ \A i \in 1 .. m : Strip(lines)[i] = lines[i]
<1> DEFINE filled == Filled(lines)
           last == CHOOSE i \in filled : \A j \in filled : j <= i
<1>1. Len(lines) \in Nat /\ DOMAIN lines = 1 .. Len(lines)
  BY LenProperties
<1>2. 1 \in filled /\ m \in filled /\ \A i \in filled : 1 <= i /\ i <= m /\ i \in Nat
  <2>1. filled = {i \in 1 .. Len(lines) : lines[i].name # "blank"}
    BY <1>1 DEF Filled
  <2>2. ASSUME NEW i \in filled PROVE 1 <= i /\ i <= m /\ i \in Nat
    BY <1>1, <2>1
  <2> QED BY <1>1, <2>1, <2>2
<1> HIDE DEF filled
<1>3. last = m
  <2>1. \E i \in filled : \A j \in filled : j <= i
    BY <1>2
  <2>2. last \in filled /\ \A j \in filled : j <= last
    BY <2>1
  <2> QED BY <1>2, <2>2
<1>4. Least(filled) = 1
  <2>1. filled \subseteq Nat /\ 1 \in filled /\ \A i \in filled : 1 <= i
    BY <1>2
  <2> QED BY <2>1, LeastIs
<1>5. Strip(lines) = SubSeq(lines, 1, m)
  <2>1. filled # {}
    BY <1>2
  <2>2. Strip(lines) = SubSeq(lines, Least(filled), last)
    BY <2>1 DEF Strip, filled
  <2> QED BY <1>3, <1>4, <2>2
<1>6. \A i \in 1 .. m : lines[i] \in Lines
  BY <1>1, ElementOfSeq
<1>7. /\ SubSeq(lines, 1, m) \in Seq(Lines) /\ Len(SubSeq(lines, 1, m)) = m
      /\ \A i \in 1 .. m : SubSeq(lines, 1, m)[i] = lines[i]
  BY <1>1, <1>6
<1> QED BY <1>5, <1>7 DEF Ends

(* The same for a part of a prompt.                                           *)
LEMMA StripPart ==
  ASSUME NEW R \in Seq(Lines), NEW a \in 1 .. Len(R), NEW b \in a + 1 .. Len(R) + 1,
         NEW m \in 1 .. b - a - 1, R[a + 1].name # "blank", R[a + m].name # "blank",
         \A i \in a + m + 1 .. b - 1 : R[i].name = "blank"
  PROVE  /\ SubSeq(R, a + 1, b - 1) \in Seq(Lines)
         /\ Ends(Strip(SubSeq(R, a + 1, b - 1)), m)
         /\ \A i \in 1 .. m : Strip(SubSeq(R, a + 1, b - 1))[i] = R[a + i]
<1> DEFINE t == SubSeq(R, a + 1, b - 1)
<1>1. Len(R) \in Nat
  BY LenProperties
<1>2. t \in Seq(Lines) /\ Len(t) = b - a - 1 /\ \A i \in 1 .. b - a - 1 : t[i] = R[a + i]
  <2>1. PICK c : c = a + 1
    OBVIOUS
  <2>2. PICK d : d = b - 1
    OBVIOUS
  <2>3. c \in 1 .. Len(R) /\ d \in c - 1 .. Len(R)
    BY <1>1, <2>1, <2>2
  <2>4. /\ SubSeq(R, c, d) \in Seq(Lines) /\ Len(SubSeq(R, c, d)) = d - c + 1
        /\ \A i \in 1 .. d - c + 1 : SubSeq(R, c, d)[i] = R[c - 1 + i]
    BY <2>3, SubSeqAt
  <2>5. d - c + 1 = b - a - 1 /\ c - 1 = a
    BY <1>1, <2>1, <2>2
  <2> QED BY <2>1, <2>2, <2>4, <2>5
<1> HIDE DEF t
<1>3. m \in 1 .. Len(t)
  BY <1>1, <1>2
<1>4. t[1].name # "blank" /\ t[m].name # "blank"
  BY <1>1, <1>2
<1>5. \A i \in m + 1 .. Len(t) : t[i].name = "blank"
  <2> SUFFICES ASSUME NEW i \in m + 1 .. Len(t) PROVE t[i].name = "blank"
    OBVIOUS
  <2>1. i \in 1 .. b - a - 1 /\ a + i \in a + m + 1 .. b - 1
    BY <1>1, <1>2
  <2> QED BY <1>2, <2>1
<1>6. Ends(Strip(t), m) /\ \A i \in 1 .. m : Strip(t)[i] = t[i]
  BY <1>2, <1>3, <1>4, <1>5, StripTo
<1>7. \A i \in 1 .. m : Strip(t)[i] = R[a + i]
  BY <1>1, <1>2, <1>6
<1> QED BY <1>2, <1>6, <1>7 DEF t

(* Between two headings of the prompt's own.                               *)
Encloses(R, k, a, b) ==
  At(R, k) = a /\ At(R, k + 1) = b /\ R[a].name = "heading" /\ R[b].name = "heading"

(* The body of a section that ends at the next heading.                       *)
LEMMA BodyBetween ==
  ASSUME NEW R \in Seq(Lines), NEW k \in Sections \ {6},
         NEW a \in 1 .. Len(R), NEW b \in a + 1 .. Len(R), Encloses(R, k, a, b),
         NEW m \in 1 .. b - a - 1, R[a + 1].name # "blank", R[a + m].name # "blank",
         \A i \in a + m + 1 .. b - 1 : R[i].name = "blank"
  PROVE  /\ Ends(_extract_section_body(R, k), m)
         /\ \A i \in 1 .. m : _extract_section_body(R, k)[i] = R[a + i]
<1> DEFINE t == SubSeq(R, a + 1, b - 1)
<1>1. /\ t \in Seq(Lines) /\ Ends(Strip(t), m) /\ \A i \in 1 .. m : Strip(t)[i] = R[a + i]
  <2>1. b \in a + 1 .. Len(R) + 1
    BY LenProperties
  <2>2. /\ m \in 1 .. b - a - 1 /\ R[a + 1].name # "blank" /\ R[a + m].name # "blank"
        /\ \A i \in a + m + 1 .. b - 1 : R[i].name = "blank"
    OBVIOUS
  <2>3. a \in 1 .. Len(R) /\ R \in Seq(Lines)
    OBVIOUS
  <2> HIDE DEF t
  <2>4. t = SubSeq(R, a + 1, b - 1)
    BY DEF t
  <2> QED BY <2>1, <2>2, <2>3, <2>4, StripPart
<1>2. After(R[a]) = <<>> /\ Before(R[b]) = <<>>
  BY DEF After, Before, Encloses
<1>3. _extract_section_body(R, k) = Strip(<<>> \o (t \o <<>>))
  BY <1>2 DEF _extract_section_body, Encloses
<1>4. <<>> \o (t \o <<>>) = t
  BY <1>1, ConcatEmptySeq
<1> QED BY <1>1, <1>3, <1>4

(* The same for the lines up to the end of the prompt.                        *)
LEMMA StripEnd ==
  ASSUME NEW R \in Seq(Lines), NEW a \in 1 .. Len(R), NEW m \in 1 .. Len(R) - a,
         a + m >= Len(R), R[a + 1].name # "blank", R[a + m].name # "blank"
  PROVE  /\ SubSeq(R, a + 1, Len(R)) \in Seq(Lines)
         /\ Ends(Strip(SubSeq(R, a + 1, Len(R))), m)
         /\ \A i \in 1 .. m : Strip(SubSeq(R, a + 1, Len(R)))[i] = R[a + i]
<1>1. PICK b \in Nat : b = Len(R) + 1
  BY LenProperties
<1>2. b \in a + 1 .. Len(R) + 1 /\ b - 1 = Len(R)
  BY <1>1, LenProperties
<1>3. m \in 1 .. b - a - 1
  BY <1>1, LenProperties
<1>4. \A i \in a + m + 1 .. b - 1 : R[i].name = "blank"
  BY <1>1, LenProperties
<1>5. /\ SubSeq(R, a + 1, b - 1) \in Seq(Lines)
      /\ Ends(Strip(SubSeq(R, a + 1, b - 1)), m)
      /\ \A i \in 1 .. m : Strip(SubSeq(R, a + 1, b - 1))[i] = R[a + i]
  BY <1>2, <1>3, <1>4, StripPart
<1> QED BY <1>2, <1>5

(* The body of the last section, which ends with the prompt.                  *)
LEMMA LastBody ==
  ASSUME NEW R \in Seq(Lines), NEW a \in 1 .. Len(R),
         At(R, 6) = a, R[a].name = "heading",
         NEW m, m = Len(R) - a, m \in Nat \ {0}, R[a + 1].name # "blank", R[a + m].name # "blank"
  PROVE  /\ Ends(_extract_section_body(R, 6), m)
         /\ \A i \in 1 .. m : _extract_section_body(R, 6)[i] = R[a + i]
<1> DEFINE t == SubSeq(R, a + 1, Len(R))
<1>1. /\ t \in Seq(Lines) /\ Ends(Strip(t), m) /\ \A i \in 1 .. m : Strip(t)[i] = R[a + i]
  <2>1. PICK l \in Nat \ {0} : l = m
    OBVIOUS
  <2>2. Len(R) \in Nat
    BY LenProperties
  <2>3. l \in 1 .. Len(R) - a /\ a + l >= Len(R)
    BY <2>1, <2>2
  <2>4. R[a + l].name # "blank"
    BY <2>1
  <2>5. t \in Seq(Lines) /\ Ends(Strip(t), l) /\ \A i \in 1 .. l : Strip(t)[i] = R[a + i]
    BY <2>3, <2>4, StripEnd
  <2> QED BY <2>1, <2>5
<1>2. After(R[a]) = <<>>
  BY DEF After
<1>3. _extract_section_body(R, 6) = Strip(<<>> \o t)
  BY <1>2 DEF _extract_section_body
<1>4. <<>> \o t = t
  BY <1>1, ConcatEmptySeq
<1> QED BY <1>1, <1>3, <1>4
-----------------------------------------------------------------------------
(* The beginning of every prompt                                           *)

(* Whatever the dreams are, the first two headings are found where the        *)
(* renderer writes them.                                                      *)
LEMMA FirstHeads ==
  ASSUME NEW R, NEW p, NEW n \in Nat, NEW s \in Nat, Placed(R, p, n, s)
  PROVE  /\ R \in Seq(Lines) /\ Len(R) = 22 + n + s /\ DOMAIN R = 1 .. 22 + n + s
         /\ At(R, 1) = 3 /\ At(R, 2) = 10
<1>1. R \in Seq(Lines) /\ Len(R) = 22 + n + s /\ DOMAIN R = 1 .. 22 + n + s
  BY LenProperties DEF Placed, Ends
<1>2. /\ R[1].heads = {} /\ R[2].heads = {} /\ R[3].heads = {1} /\ R[4].heads = {}
      /\ R[5].heads = {} /\ R[6].heads = {} /\ R[7].heads = {} /\ R[8].heads = {}
      /\ R[9].heads = {} /\ R[10].heads = {2}
  <2>1. /\ R[1] = Line("prefix") /\ R[2] = Blank /\ R[3] = Heading(1)
        /\ R[4] = Line("session_id") /\ R[5] = Line("user_id")
        /\ R[6] = Numbered("dream_count", p.dream_count)
        /\ R[7] = Line("session_duration") /\ R[8] = Line("last_activity_at")
        /\ R[9] = Blank /\ R[10] = Heading(2)
    BY DEF Placed
  <2> QED BY <2>1, PlainLines
<1>3. At(R, 1) = 3
  <2>1. Occurs(R, 1) \subseteq Nat /\ 3 \in Occurs(R, 1)
    BY <1>1, <1>2 DEF Occurs
  <2>2. ASSUME NEW i \in Occurs(R, 1) PROVE 3 <= i
    <3>1. i \in 1 .. 22 + n + s /\ 1 \in R[i].heads
      BY <1>1 DEF Occurs
    <3>2. i # 1 /\ i # 2
      BY <1>2, <3>1
    <3> QED BY <3>1, <3>2
  <2> QED BY <2>1, <2>2, LeastIs DEF At
<1>4. At(R, 2) = 10
  <2>1. Occurs(R, 2) \subseteq Nat /\ 10 \in Occurs(R, 2)
    BY <1>1, <1>2 DEF Occurs
  <2>2. ASSUME NEW i \in Occurs(R, 2) PROVE 10 <= i
    <3>1. i \in 1 .. 22 + n + s /\ 2 \in R[i].heads
      BY <1>1 DEF Occurs
    <3>2. i # 1 /\ i # 2 /\ i # 3 /\ i # 4 /\ i # 5 /\ i # 6 /\ i # 7 /\ i # 8 /\ i # 9
      BY <1>2, <3>1
    <3> QED BY <3>1, <3>2
  <2> QED BY <2>1, <2>2, LeastIs DEF At
<1> QED BY <1>1, <1>3, <1>4

(* A body that is its field lines and nothing else passes the check of the    *)
(* fields.                                                                    *)
LEMMA FieldsValid ==
  ASSUME NEW expected, Len(expected) \in Nat, NEW body, Ends(body, Len(expected)),
         \A i \in 1 .. Len(expected) :
           body[i].name \in FieldNames /\ body[i].name = expected[i]
  PROVE  _validate_fields(body, expected)
<1>m. PICK m \in Nat : m = Len(expected)
  OBVIOUS
<1>b. Ends(body, m) /\ \A i \in 1 .. m : body[i].name \in FieldNames /\ body[i].name = expected[i]
  BY <1>m
<1> DEFINE fields == {i \in DOMAIN body : body[i].name \in FieldNames}
           place(i) == Cardinality({j \in fields : j <= i})
<1>1. DOMAIN body = 1 .. m
  BY <1>b, LenProperties DEF Ends
<1>2. fields = 1 .. m
  BY <1>1, <1>b
<1>3. \A i \in Nat : Cardinality(1 .. i) = i
  BY FS_Interval
<1>4. ASSUME NEW i \in 1 .. m PROVE place(i) = i
  <2>1. {j \in 1 .. m : j <= i} = 1 .. i /\ i \in Nat
    OBVIOUS
  <2> QED BY <1>2, <1>3, <2>1
<1> QED BY <1>m, <1>b, <1>2, <1>3, <1>4 DEF _validate_fields

(* Section 1 passes, and gives the count of dreams.                           *)
LEMMA FirstSection ==
  ASSUME NEW R, NEW p, NEW n \in Nat, NEW s \in Nat, Placed(R, p, n, s)
  PROVE  /\ _validate_fields(_extract_section_body(R, 1), ContextFields)
         /\ DreamCount(_extract_section_body(R, 1)) = p.dream_count
<1>0. R \in Seq(Lines) /\ Len(R) = 22 + n + s
  BY FirstHeads
<1>1. At(R, 1) = 3 /\ At(R, 2) = 10
  BY FirstHeads
<1>2. 1 \in Sections \ {6} /\ 1 + 1 = 2
  BY DEF Sections
<1>3. /\ R[3] = Heading(1) /\ R[4] = Line("session_id") /\ R[5] = Line("user_id")
      /\ R[6] = Numbered("dream_count", p.dream_count)
      /\ R[7] = Line("session_duration") /\ R[8] = Line("last_activity_at")
      /\ R[9] = Blank /\ R[10] = Heading(2)
  BY DEF Placed
<1>4. /\ R[3].name = "heading" /\ R[4].name = "session_id" /\ R[5].name = "user_id"
      /\ R[6].name = "dream_count" /\ R[6].number = p.dream_count
      /\ R[7].name = "session_duration" /\ R[8].name = "last_activity_at"
      /\ R[9].name = "blank" /\ R[10].name = "heading"
  BY <1>3, PlainLines
<1> DEFINE body == _extract_section_body(R, 1)
<1>5. Ends(body, 5) /\ \A i \in 1 .. 5 : body[i] = R[3 + i]
  <2>1. 3 \in 1 .. Len(R) /\ 10 \in 3 + 1 .. Len(R) /\ 5 \in 1 .. 10 - 3 - 1
    BY <1>0
  <2>2. Encloses(R, 1, 3, 10)
    BY <1>1, <1>4 DEF Encloses
  <2>3. R[3 + 1].name # "blank" /\ R[3 + 5].name # "blank"
    BY <1>4
  <2>4. \A i \in 3 + 5 + 1 .. 10 - 1 : R[i].name = "blank"
    <3>1. \A i \in 3 + 5 + 1 .. 10 - 1 : i = 9
      OBVIOUS
    <3> QED BY <1>4, <3>1
  <2> QED BY <1>0, <1>2, <2>1, <2>2, <2>3, <2>4, BodyBetween
<1> HIDE DEF body
<1>6. /\ body[1].name = "session_id" /\ body[2].name = "user_id"
      /\ body[3].name = "dream_count" /\ body[3].number = p.dream_count
      /\ body[4].name = "session_duration" /\ body[5].name = "last_activity_at"
  <2>1. /\ body[1] = R[4] /\ body[2] = R[5] /\ body[3] = R[6] /\ body[4] = R[7]
        /\ body[5] = R[8]
    BY <1>5
  <2> QED BY <1>4, <2>1
<1>7. _validate_fields(body, ContextFields)
  <2>1. \A i \in 1 .. 5 : body[i].name = ContextFields[i]
    <3>1. \A i \in 1 .. 5 : i = 1 \/ i = 2 \/ i = 3 \/ i = 4 \/ i = 5
      OBVIOUS
    <3> QED BY <1>6, <3>1 DEF ContextFields
  <2>2. \A i \in 1 .. 5 : body[i].name \in FieldNames /\ body[i].name = ContextFields[i]
    BY <2>1, FieldsNamed
  <2>3. Len(ContextFields) = 5
    BY FieldsNamed
  <2>4. Len(ContextFields) \in Nat /\ Ends(body, Len(ContextFields))
    BY <1>5, <2>3
  <2> QED BY <2>2, <2>3, <2>4, FieldsValid
<1>8. DreamCount(body) = p.dream_count
  <2> DEFINE at == CHOOSE i \in DOMAIN body : body[i].name = "dream_count"
  <2>1. DOMAIN body = 1 .. 5
    BY <1>5, LenProperties DEF Ends
  <2>2. at \in 1 .. 5 /\ body[at].name = "dream_count"
    <3>1. \E i \in 1 .. 5 : body[i].name = "dream_count"
      BY <1>6
    <3> QED BY <2>1, <3>1
  <2> HIDE DEF at
  <2>3. at = 3
    <3>1. at = 1 \/ at = 2 \/ at = 3 \/ at = 4 \/ at = 5
      BY <2>2
    <3> QED BY <1>6, <2>2, <3>1
  <2> QED BY <1>6, <2>3 DEF DreamCount, at
<1> QED BY <1>7, <1>8 DEF body
-----------------------------------------------------------------------------
(* A prompt of dreams that the contract has nothing against                *)

PlacedBare(R, p, n) ==
  /\ Placed(R, p, n, 1)
  /\ \A i \in 1 .. n : Harmless(Log(p.dreams)[i])
  /\ Harmless(SampleLines(p.sample)[1])
  /\ SampleLines(p.sample)[1].name = "raw_text_sample"

(* The lines of a prompt whose sample is one line.                            *)
LEMMA BarePlaces ==
  ASSUME NEW R, NEW p, NEW n \in Nat, PlacedBare(R, p, n)
  PROVE  /\ R \in Seq(Lines) /\ Len(R) = 23 + n
         /\ R[11 + n] = Heading(3)
         /\ R[12 + n] = KeySymbols(p.ranking) /\ R[13 + n] = Line("recurring_words")
         /\ R[14 + n] = SampleLines(p.sample)[1]
         /\ R[15 + n] = Blank /\ R[16 + n] = Heading(4) /\ R[17 + n] = Fixed(4)
         /\ R[18 + n] = Blank /\ R[19 + n] = Heading(5) /\ R[20 + n] = Fixed(5)
         /\ R[21 + n] = Blank /\ R[22 + n] = Heading(6) /\ R[23 + n] = Fixed(6)
<1>1. Placed(R, p, n, 1)
  BY DEF PlacedBare
<1>2. R \in Seq(Lines) /\ Len(R) = 22 + n + 1
  BY <1>1 DEF Placed, Ends
<1>3. \A c \in 13 .. 22 : c + n + 1 = (c + 1) + n
  OBVIOUS
<1>4. R[14 + n] = SampleLines(p.sample)[1]
  <2>1. \A i \in 1 .. 1 : R[13 + n + i] = SampleLines(p.sample)[i]
    BY <1>1 DEF Placed
  <2>2. 1 \in 1 .. 1 /\ 13 + n + 1 = 14 + n
    OBVIOUS
  <2> QED BY <2>1, <2>2
<1>5. /\ R[11 + n] = Heading(3)
      /\ R[12 + n] = KeySymbols(p.ranking) /\ R[13 + n] = Line("recurring_words")
  BY <1>1 DEF Placed
<1>6. /\ R[14 + n + 1] = Blank /\ R[15 + n + 1] = Heading(4) /\ R[16 + n + 1] = Fixed(4)
      /\ R[17 + n + 1] = Blank /\ R[18 + n + 1] = Heading(5) /\ R[19 + n + 1] = Fixed(5)
      /\ R[20 + n + 1] = Blank /\ R[21 + n + 1] = Heading(6) /\ R[22 + n + 1] = Fixed(6)
  BY <1>1 DEF Placed
<1>7. /\ 14 + n + 1 = 15 + n /\ 15 + n + 1 = 16 + n /\ 16 + n + 1 = 17 + n
      /\ 17 + n + 1 = 18 + n /\ 18 + n + 1 = 19 + n /\ 19 + n + 1 = 20 + n
      /\ 20 + n + 1 = 21 + n /\ 21 + n + 1 = 22 + n /\ 22 + n + 1 = 23 + n
  OBVIOUS
<1> QED BY <1>2, <1>4, <1>5, <1>6, <1>7

(* Each heading stands where the prompt has it, and nowhere else.          *)
LEMMA BareHeads ==
  ASSUME NEW R, NEW p, NEW n \in Nat, PlacedBare(R, p, n)
  PROVE  /\ At(R, 1) = 3 /\ At(R, 2) = 10 /\ At(R, 3) = 11 + n
         /\ At(R, 4) = 16 + n /\ At(R, 5) = 19 + n /\ At(R, 6) = 22 + n
         /\ \A k \in Sections : Occurs(R, k) # {}
         /\ _validate_section_order(R)
<1>0. /\ R[11 + n] = Heading(3)
      /\ R[12 + n] = KeySymbols(p.ranking) /\ R[13 + n] = Line("recurring_words")
      /\ R[14 + n] = SampleLines(p.sample)[1]
      /\ R[15 + n] = Blank /\ R[16 + n] = Heading(4) /\ R[17 + n] = Fixed(4)
      /\ R[18 + n] = Blank /\ R[19 + n] = Heading(5) /\ R[20 + n] = Fixed(5)
      /\ R[21 + n] = Blank /\ R[22 + n] = Heading(6) /\ R[23 + n] = Fixed(6)
  BY BarePlaces
<1>00. /\ Heading(3).heads = {3} /\ Heading(4).heads = {4} /\ Heading(5).heads = {5}
       /\ Heading(6).heads = {6}
  BY PlainLines
<1>01. /\ Harmless(KeySymbols(p.ranking)) /\ Harmless(Line("recurring_words"))
       /\ Harmless(SampleLines(p.sample)[1]) /\ Harmless(Blank)
       /\ Harmless(Fixed(4)) /\ Harmless(Fixed(5)) /\ Harmless(Fixed(6))
  <2>1. \A line : line.heads = {} => Harmless(line)
    BY DEF Harmless
  <2> QED BY <2>1, PlainLines DEF PlacedBare
<1>1. DOMAIN R = 1 .. 23 + n
  BY BarePlaces
<1>2. ASSUME NEW i \in 1 .. 23 + n
      PROVE  \/ Harmless(R[i])
             \/ i = 11 + n /\ R[i].heads = {3}
             \/ i = 16 + n /\ R[i].heads = {4}
             \/ i = 19 + n /\ R[i].heads = {5}
             \/ i = 22 + n /\ R[i].heads = {6}
  <2>1. CASE i \in 1 .. 10
    <3>1. /\ R[1].heads = {} /\ R[2].heads = {} /\ R[3].heads = {1} /\ R[4].heads = {}
          /\ R[5].heads = {} /\ R[6].heads = {} /\ R[7].heads = {} /\ R[8].heads = {}
          /\ R[9].heads = {} /\ R[10].heads = {2}
      <4>1. /\ R[1] = Line("prefix") /\ R[2] = Blank /\ R[3] = Heading(1)
            /\ R[4] = Line("session_id") /\ R[5] = Line("user_id")
            /\ R[6] = Numbered("dream_count", p.dream_count)
            /\ R[7] = Line("session_duration") /\ R[8] = Line("last_activity_at")
            /\ R[9] = Blank /\ R[10] = Heading(2)
        BY DEF PlacedBare, Placed
      <4> QED BY <4>1, PlainLines
    <3>2. i \in {1, 2, 3, 4, 5, 6, 7, 8, 9, 10}
      BY <2>1
    <3>3. \A line : line.heads \subseteq {1, 2} => Harmless(line)
      BY DEF Harmless
    <3>4. R[i].heads = {} \/ R[i].heads = {1} \/ R[i].heads = {2}
      BY <3>1, <3>2
    <3> QED BY <3>3, <3>4
  <2>2. CASE i \in 11 .. 10 + n
    <3>1. PICK l \in 1 .. n : i = 10 + l
      <4>1. i - 10 \in 1 .. n /\ i = 10 + (i - 10)
        BY <2>2
      <4> QED BY <4>1
    <3>2. R[10 + l] = Log(p.dreams)[l] /\ Harmless(Log(p.dreams)[l])
      BY DEF PlacedBare, Placed
    <3> QED BY <3>1, <3>2
  <2>3. CASE i \in 11 + n .. 23 + n
    <3>1. /\ R[11 + n].heads = {3} /\ R[16 + n].heads = {4} /\ R[19 + n].heads = {5}
          /\ R[22 + n].heads = {6}
      BY <1>0, <1>00
    <3>2. /\ Harmless(R[12 + n]) /\ Harmless(R[13 + n]) /\ Harmless(R[14 + n])
          /\ Harmless(R[15 + n]) /\ Harmless(R[17 + n]) /\ Harmless(R[18 + n])
          /\ Harmless(R[20 + n]) /\ Harmless(R[21 + n]) /\ Harmless(R[23 + n])
      BY <1>0, <1>01
    <3>3. \/ i = 11 + n \/ i = 12 + n \/ i = 13 + n \/ i = 14 + n \/ i = 15 + n
          \/ i = 16 + n \/ i = 17 + n \/ i = 18 + n \/ i = 19 + n \/ i = 20 + n
          \/ i = 21 + n \/ i = 22 + n \/ i = 23 + n
      BY <2>3
    <3> QED BY <3>1, <3>2, <3>3
  <2> QED BY <2>1, <2>2, <2>3
<1>3. /\ 11 + n \in 1 .. 23 + n /\ R[11 + n].heads = {3}
      /\ 16 + n \in 1 .. 23 + n /\ R[16 + n].heads = {4}
      /\ 19 + n \in 1 .. 23 + n /\ R[19 + n].heads = {5}
      /\ 22 + n \in 1 .. 23 + n /\ R[22 + n].heads = {6}
  BY <1>0, <1>00
<1>4. /\ Occurs(R, 3) = {11 + n} /\ Occurs(R, 4) = {16 + n} /\ Occurs(R, 5) = {19 + n}
      /\ Occurs(R, 6) = {22 + n}
  <2>0. \A k \in 3 .. 6 : \A i \in 1 .. 23 + n : Harmless(R[i]) => k \notin R[i].heads
    BY DEF Harmless
  <2>00. ASSUME NEW k \in 3 .. 6, NEW a \in 1 .. 23 + n, R[a].heads = {k},
                \A i \in 1 .. 23 + n : i = a \/ k \notin R[i].heads
         PROVE  Occurs(R, k) = {a}
    BY <1>1, <2>00 DEF Occurs
  <2>1. Occurs(R, 3) = {11 + n}
    <3>1. \A i \in 1 .. 23 + n : i = 11 + n \/ 3 \notin R[i].heads
      BY <1>2, <2>0
    <3>2. 3 \in 3 .. 6
      OBVIOUS
    <3> QED BY <1>3, <2>00, <3>1, <3>2
  <2>2. Occurs(R, 4) = {16 + n}
    <3>1. \A i \in 1 .. 23 + n : i = 16 + n \/ 4 \notin R[i].heads
      BY <1>2, <2>0
    <3>2. 4 \in 3 .. 6
      OBVIOUS
    <3> QED BY <1>3, <2>00, <3>1, <3>2
  <2>3. Occurs(R, 5) = {19 + n}
    <3>1. \A i \in 1 .. 23 + n : i = 19 + n \/ 5 \notin R[i].heads
      BY <1>2, <2>0
    <3>2. 5 \in 3 .. 6
      OBVIOUS
    <3> QED BY <1>3, <2>00, <3>1, <3>2
  <2>4. Occurs(R, 6) = {22 + n}
    <3>1. \A i \in 1 .. 23 + n : i = 22 + n \/ 6 \notin R[i].heads
      BY <1>2, <2>0
    <3>2. 6 \in 3 .. 6
      OBVIOUS
    <3> QED BY <1>3, <2>00, <3>1, <3>2
  <2> QED BY <2>1, <2>2, <2>3, <2>4
<1>5. \A i \in Nat : Least({i}) = i
  BY LeastIs
<1>6. /\ At(R, 3) = 11 + n /\ At(R, 4) = 16 + n /\ At(R, 5) = 19 + n /\ At(R, 6) = 22 + n
  BY <1>4, <1>5 DEF At
<1>9. At(R, 1) = 3 /\ At(R, 2) = 10
  BY FirstHeads DEF PlacedBare
<1>10. 3 \in Occurs(R, 1) /\ 10 \in Occurs(R, 2)
  BY <1>1, PlainLines DEF PlacedBare, Placed, Occurs
<1>7. \A k \in Sections : Occurs(R, k) # {}
  <2>1. \A k \in Sections : k = 1 \/ k = 2 \/ k = 3 \/ k = 4 \/ k = 5 \/ k = 6
    BY DEF Sections
  <2> QED BY <1>4, <1>10, <2>1
<1>8. _validate_section_order(R)
  <2> SUFFICES ASSUME NEW k \in Sections \ {6} PROVE At(R, k) < At(R, k + 1)
    BY DEF _validate_section_order
  <2>1. k = 1 \/ k = 2 \/ k = 3 \/ k = 4 \/ k = 5
    BY DEF Sections
  <2> QED BY <1>6, <1>9, <2>1
<1> QED BY <1>6, <1>7, <1>8, <1>9

(* Sections 1 and 3.                                                       *)
LEMMA BareFields ==
  ASSUME NEW R, NEW p, NEW n \in Nat \ {0}, PlacedBare(R, p, n)
  PROVE  /\ _validate_fields(_extract_section_body(R, 1), ContextFields)
         /\ DreamCount(_extract_section_body(R, 1)) = p.dream_count
         /\ _validate_fields(_extract_section_body(R, 3), SummaryFields)
<1>0. R \in Seq(Lines) /\ Len(R) = 23 + n
  BY BarePlaces
<1>1. At(R, 3) = 11 + n /\ At(R, 4) = 16 + n
  BY BareHeads
<1>2. 3 \in Sections \ {6} /\ 3 + 1 = 4
  BY DEF Sections
<1>7. /\ _validate_fields(_extract_section_body(R, 1), ContextFields)
      /\ DreamCount(_extract_section_body(R, 1)) = p.dream_count
  BY FirstSection DEF PlacedBare
<1> DEFINE table == _extract_section_body(R, 3)
<1>9. R[11 + n].name = "heading" /\ R[12 + n].name = "key_symbols"
      /\ R[13 + n].name = "recurring_words" /\ R[14 + n].name = "raw_text_sample"
      /\ R[15 + n].name = "blank" /\ R[16 + n].name = "heading"
  <2>1. /\ R[11 + n] = Heading(3)
        /\ R[12 + n] = KeySymbols(p.ranking) /\ R[13 + n] = Line("recurring_words")
        /\ R[14 + n] = SampleLines(p.sample)[1]
        /\ R[15 + n] = Blank /\ R[16 + n] = Heading(4)
    BY BarePlaces
  <2> QED BY <2>1, PlainLines DEF PlacedBare
<1>10. Ends(table, 3) /\ \A i \in 1 .. 3 : table[i] = R[11 + n + i]
  <2>0. PICK a, b : a = 11 + n /\ b = 16 + n
    OBVIOUS
  <2>1. a \in 1 .. Len(R) /\ b \in a + 1 .. Len(R) /\ 3 \in 1 .. b - a - 1
    BY <1>0, <2>0
  <2>2. Encloses(R, 3, a, b)
    BY <1>1, <1>9, <2>0 DEF Encloses
  <2>3. R[a + 1].name # "blank" /\ R[a + 3].name # "blank"
    <3>1. a + 1 = 12 + n /\ a + 3 = 14 + n
      BY <2>0
    <3> QED BY <1>9, <3>1
  <2>4. \A i \in a + 3 + 1 .. b - 1 : R[i].name = "blank"
    <3>1. \A i \in a + 3 + 1 .. b - 1 : i = 15 + n
      BY <2>0
    <3> QED BY <1>9, <3>1
  <2>5. Ends(table, 3) /\ \A i \in 1 .. 3 : table[i] = R[a + i]
    BY <1>0, <1>2, <2>1, <2>2, <2>3, <2>4, BodyBetween
  <2> QED BY <2>0, <2>5
<1> HIDE DEF table
<1>11. _validate_fields(table, SummaryFields)
  <2>1. /\ table[1].name = "key_symbols" /\ table[2].name = "recurring_words"
        /\ table[3].name = "raw_text_sample"
    <3>1. 11 + n + 1 = 12 + n /\ 11 + n + 2 = 13 + n /\ 11 + n + 3 = 14 + n
      OBVIOUS
    <3>2. table[1] = R[12 + n] /\ table[2] = R[13 + n] /\ table[3] = R[14 + n]
      BY <1>10, <3>1
    <3> QED BY <1>9, <3>2
  <2>2. \A i \in 1 .. 3 : table[i].name = SummaryFields[i]
    <3>1. \A i \in 1 .. 3 : i = 1 \/ i = 2 \/ i = 3
      OBVIOUS
    <3> QED BY <2>1, <3>1 DEF SummaryFields
  <2>3. \A i \in 1 .. 3 : table[i].name \in FieldNames /\ table[i].name = SummaryFields[i]
    BY <2>2, FieldsNamed
  <2>4. Len(SummaryFields) = 3
    BY FieldsNamed
  <2>5. Len(SummaryFields) \in Nat /\ Ends(table, Len(SummaryFields))
    BY <1>10, <2>4
  <2> QED BY <2>3, <2>4, <2>5, FieldsValid
<1> QED BY <1>7, <1>11 DEF table

(* Sections 4, 5 and 6.                                                    *)
LEMMA BareFixed ==
  ASSUME NEW R, NEW p, NEW n \in Nat \ {0}, PlacedBare(R, p, n)
  PROVE  \A k \in {4, 5, 6} : _validate_fixed_section(_extract_section_body(R, k), k)
<1>0. R \in Seq(Lines) /\ Len(R) = 23 + n
  BY BarePlaces
<1>1. At(R, 4) = 16 + n /\ At(R, 5) = 19 + n /\ At(R, 6) = 22 + n
  BY BareHeads
<1>2. 4 \in Sections \ {6} /\ 5 \in Sections \ {6} /\ 4 + 1 = 5 /\ 5 + 1 = 6
  BY DEF Sections
<1>3. /\ R[16 + n] = Heading(4) /\ R[17 + n] = Fixed(4) /\ R[18 + n] = Blank
      /\ R[19 + n] = Heading(5) /\ R[20 + n] = Fixed(5) /\ R[21 + n] = Blank
      /\ R[22 + n] = Heading(6) /\ R[23 + n] = Fixed(6)
  BY BarePlaces
<1>4. /\ R[16 + n].name = "heading" /\ R[17 + n].name = "fixed" /\ R[18 + n].name = "blank"
      /\ R[19 + n].name = "heading" /\ R[20 + n].name = "fixed" /\ R[21 + n].name = "blank"
      /\ R[22 + n].name = "heading" /\ R[23 + n].name = "fixed"
  BY <1>3, PlainLines
<1>5. ASSUME NEW k, NEW body, Ends(body, 1), body[1] = Fixed(k)
      PROVE  _validate_fixed_section(body, k)
  <2>1. DOMAIN body = 1 .. 1
    BY <1>5, LenProperties DEF Ends
  <2> QED BY <1>5, <2>1 DEF _validate_fixed_section, Range
<1>6. ASSUME NEW k \in Sections \ {6}, NEW a \in Nat, a >= 1, a + 3 <= Len(R),
             At(R, k) = a, At(R, k + 1) = a + 3, R[a].name = "heading",
             R[a + 1] = Fixed(k), R[a + 1].name = "fixed", R[a + 2].name = "blank",
             R[a + 3].name = "heading"
      PROVE  _validate_fixed_section(_extract_section_body(R, k), k)
  <2>0. PICK b : b = a + 3
    OBVIOUS
  <2>1. a \in 1 .. Len(R) /\ b \in a + 1 .. Len(R) /\ 1 \in 1 .. b - a - 1
    BY <1>0, <1>6, <2>0
  <2>2. Encloses(R, k, a, b) /\ R[a + 1].name # "blank"
    BY <1>6, <2>0 DEF Encloses
  <2>3. \A i \in a + 1 + 1 .. b - 1 : R[i].name = "blank"
    <3>1. \A i \in a + 1 + 1 .. b - 1 : i = a + 2
      BY <2>0
    <3> QED BY <1>6, <3>1
  <2>4. /\ Ends(_extract_section_body(R, k), 1)
        /\ \A i \in 1 .. 1 : _extract_section_body(R, k)[i] = R[a + i]
    BY <1>0, <1>6, <2>1, <2>2, <2>3, BodyBetween
  <2> QED BY <1>5, <1>6, <2>4
<1>7. _validate_fixed_section(_extract_section_body(R, 4), 4)
  <2>0. PICK a : a = 16 + n
    OBVIOUS
  <2>1. /\ a \in Nat /\ a >= 1 /\ a + 3 <= Len(R) /\ a + 1 = 17 + n /\ a + 2 = 18 + n
        /\ a + 3 = 19 + n
    BY <1>0, <2>0
  <2>2. /\ At(R, 4) = a /\ At(R, 4 + 1) = a + 3 /\ R[a].name = "heading"
        /\ R[a + 1] = Fixed(4) /\ R[a + 1].name = "fixed" /\ R[a + 2].name = "blank"
        /\ R[a + 3].name = "heading"
    <3>1. At(R, 4) = a /\ R[a].name = "heading"
      BY <1>1, <1>4, <2>0
    <3>2. At(R, 4 + 1) = a + 3 /\ R[a + 3].name = "heading"
      BY <1>1, <1>2, <1>4, <2>1
    <3>3. R[a + 1] = Fixed(4) /\ R[a + 1].name = "fixed" /\ R[a + 2].name = "blank"
      BY <1>3, <1>4, <2>1
    <3> QED BY <3>1, <3>2, <3>3
  <2> QED BY <1>2, <1>6, <2>1, <2>2
<1>8. _validate_fixed_section(_extract_section_body(R, 5), 5)
  <2>0. PICK a : a = 19 + n
    OBVIOUS
  <2>1. /\ a \in Nat /\ a >= 1 /\ a + 3 <= Len(R) /\ a + 1 = 20 + n /\ a + 2 = 21 + n
        /\ a + 3 = 22 + n
    BY <1>0, <2>0
  <2>2. /\ At(R, 5) = a /\ At(R, 5 + 1) = a + 3 /\ R[a].name = "heading"
        /\ R[a + 1] = Fixed(5) /\ R[a + 1].name = "fixed" /\ R[a + 2].name = "blank"
        /\ R[a + 3].name = "heading"
    <3>1. At(R, 5) = a /\ R[a].name = "heading"
      BY <1>1, <1>4, <2>0
    <3>2. At(R, 5 + 1) = a + 3 /\ R[a + 3].name = "heading"
      BY <1>1, <1>2, <1>4, <2>1
    <3>3. R[a + 1] = Fixed(5) /\ R[a + 1].name = "fixed" /\ R[a + 2].name = "blank"
      BY <1>3, <1>4, <2>1
    <3> QED BY <3>1, <3>2, <3>3
  <2> QED BY <1>2, <1>6, <2>1, <2>2
<1>9. _validate_fixed_section(_extract_section_body(R, 6), 6)
  <2>0. PICK a : a = 22 + n
    OBVIOUS
  <2>1. a \in 1 .. Len(R) /\ 1 = Len(R) - a /\ a + 1 = 23 + n
    BY <1>0, <2>0
  <2>2. At(R, 6) = a /\ R[a].name = "heading" /\ R[a + 1] = Fixed(6)
        /\ R[a + 1].name # "blank"
    BY <1>1, <1>3, <1>4, <2>0, <2>1
  <2>3. /\ Ends(_extract_section_body(R, 6), 1)
        /\ \A i \in 1 .. 1 : _extract_section_body(R, 6)[i] = R[a + i]
    BY <1>0, <2>1, <2>2, LastBody
  <2> QED BY <1>5, <2>2, <2>3
<1> QED BY <1>7, <1>8, <1>9

(* Section 2.                                                              *)
LEMMA BareLog ==
  ASSUME NEW R, NEW p, NEW n \in Nat \ {0}, PlacedBare(R, p, n), NEW m \in 1 .. n,
         Log(p.dreams)[1].name # "blank", Log(p.dreams)[m].name # "blank",
         \A i \in m + 1 .. n : Log(p.dreams)[i].name = "blank"
  PROVE  /\ Ends(_extract_section_body(R, 2), m)
         /\ \A i \in 1 .. m : _extract_section_body(R, 2)[i] = Log(p.dreams)[i]
<1> DEFINE log == Log(p.dreams)
<1>0. R \in Seq(Lines) /\ Len(R) = 23 + n
  BY BarePlaces
<1>1. \A i \in 1 .. n : R[10 + i] = log[i]
  BY DEF PlacedBare, Placed
<1>2. /\ log[1].name # "blank" /\ log[m].name # "blank"
      /\ \A i \in m + 1 .. n : log[i].name = "blank"
  OBVIOUS
<1>3. At(R, 2) = 10 /\ At(R, 3) = 11 + n
  BY BareHeads
<1>4. R[10].name = "heading" /\ R[11 + n].name = "heading"
  <2>1. R[10] = Heading(2) /\ R[11 + n] = Heading(3)
    BY DEF PlacedBare, Placed
  <2> QED BY <2>1, PlainLines
<1>5. 2 \in Sections \ {6} /\ 2 + 1 = 3
  BY DEF Sections
<1> HIDE DEF log
<1>6. PICK b : b = 11 + n
  OBVIOUS
<1>7. 10 \in 1 .. Len(R) /\ b \in 10 + 1 .. Len(R) /\ m \in 1 .. b - 10 - 1
  BY <1>0, <1>6
<1>8. R[10 + 1].name # "blank" /\ R[10 + m].name # "blank"
  BY <1>1, <1>2
<1>9. ASSUME NEW i \in 10 + m + 1 .. b - 1 PROVE R[i].name = "blank"
  <2>1. i - 10 \in m + 1 .. n /\ i - 10 \in 1 .. n /\ 10 + (i - 10) = i
    BY <1>6
  <2>2. PICK l : l = i - 10
    OBVIOUS
  <2>3. R[10 + l] = log[l] /\ log[l].name = "blank"
    BY <1>1, <1>2, <2>1, <2>2
  <2> QED BY <2>1, <2>2, <2>3
<1>10. Encloses(R, 2, 10, b)
  BY <1>3, <1>4, <1>6 DEF Encloses
<1>11. /\ Ends(_extract_section_body(R, 2), m)
       /\ \A i \in 1 .. m : _extract_section_body(R, 2)[i] = R[10 + i]
  BY <1>0, <1>5, <1>7, <1>8, <1>9, <1>10, BodyBetween
<1>12. \A i \in 1 .. m : _extract_section_body(R, 2)[i] = log[i]
  BY <1>1, <1>11
<1> QED BY <1>11, <1>12 DEF log

(* When no dream brings a heading, the structure is valid exactly when        *)
(* section 2 is.                                                              *)
LEMMA BareStructure ==
  ASSUME NEW R, NEW p, NEW n \in Nat \ {0}, PlacedBare(R, p, n)
  PROVE  validate_prompt_structure(R)
           <=> _validate_dream_section(_extract_section_body(R, 2), p.dream_count)
<1>1. Head(R).name = "prefix"
  <2>0. R[1] = Line("prefix")
    BY DEF PlacedBare, Placed
  <2>1. R[1] = Line("prefix") /\ R \in Seq(Lines) /\ Len(R) = 23 + n
    BY <2>0, BarePlaces
  <2>2. Head(R) = R[1]
    BY <2>1
  <2> QED BY <2>1, <2>2, PlainLines
<1>2. (\A k \in Sections : Occurs(R, k) # {}) /\ _validate_section_order(R)
  BY BareHeads
<1>3. /\ _validate_fields(_extract_section_body(R, 1), ContextFields)
      /\ DreamCount(_extract_section_body(R, 1)) = p.dream_count
      /\ _validate_fields(_extract_section_body(R, 3), SummaryFields)
  BY BareFields
<1>4. \A k \in {4, 5, 6} : _validate_fixed_section(_extract_section_body(R, k), k)
  BY BareFixed
<1> QED BY <1>1, <1>2, <1>3, <1>4 DEF validate_prompt_structure
-----------------------------------------------------------------------------
(* The dream section of a prompt of dreams of one line                     *)

(* A position in a log of four-line entries is a line of one of them.         *)
LEMMA Quarters ==
  ASSUME NEW n \in Nat, n >= 1
  PROVE  \E j \in Nat \ {0}, l \in 1 .. 4 : n = 4 * (j - 1) + l
<1> DEFINE T == {m \in Nat : \E j \in Nat \ {0}, l \in 1 .. 4 : m = 4 * (j - 1) + l}
<1>1. 1 \in T
  <2>1. 1 \in Nat \ {0} /\ 1 \in 1 .. 4 /\ 1 = 4 * (1 - 1) + 1
    OBVIOUS
  <2> QED BY <2>1
<1>2. ASSUME NEW m \in 1 .. n - 1, m \in T PROVE m + 1 \in T
  <2>1. PICK j \in Nat \ {0}, l \in 1 .. 4 : m = 4 * (j - 1) + l
    BY <1>2
  <2>2. CASE l = 4
    <3>1. /\ j + 1 \in Nat \ {0} /\ 1 \in 1 .. 4 /\ m + 1 = 4 * ((j + 1) - 1) + 1
          /\ m + 1 \in Nat
      BY <2>1, <2>2
    <3> QED BY <3>1
  <2>3. CASE l # 4
    <3>1. l + 1 \in 1 .. 4 /\ m + 1 = 4 * (j - 1) + (l + 1) /\ m + 1 \in Nat
      BY <2>1, <2>3
    <3> QED BY <3>1
  <2> QED BY <2>2, <2>3
<1>3. n \in T
  <2> HIDE DEF T
  <2>1. \A m \in 1 .. n - 1 : m \in T => m + 1 \in T
    BY <1>2
  <2>2. 1 .. n \subseteq T
    BY <1>1, <2>1, UpTo
  <2> QED BY <2>2
<1> QED BY <1>3

(* The lines of one block of the log, named so that a proof cites them        *)
(* together.                                                                  *)
LinesOfEntry(s, texts, j) ==
  /\ s[4 * (j - 1) + 1] = Numbered("marker", j)
  /\ s[4 * (j - 1) + 2] = [texts[j][1] EXCEPT !.name = "text"]
  /\ Len(texts[j]) = 1 => /\ s[4 * (j - 1) + 3] = Line("timestamp")
                          /\ s[4 * (j - 1) + 4] = Blank
  /\ Len(texts[j]) # 1 => /\ s[4 * (j - 1) + 3] = texts[j][2]
                          /\ texts[j][2] \in Lines

(* A block of the log has the lines of its entry.                             *)
LEMMA LoggedLines ==
  ASSUME NEW texts \in Seq(DreamTexts), NEW k \in 1 .. Len(texts), NEW s,
         Logged(s, texts, k), NEW j \in 1 .. k
  PROVE  LinesOfEntry(s, texts, j)
<1> DEFINE e == Entry(j, texts[j])
           n == Len(texts[j])
<1>1. j \in 1 .. Len(texts) /\ j \in Nat
  BY LenProperties
<1>2. texts[j] \in DreamTexts /\ n \in Nat \ {0}
  BY <1>1, EntryTyped
<1>3. \A i \in 1 .. n + 3 : s[4 * (j - 1) + i] = e[i]
  BY DEF Logged
<1>4. /\ e[1] = Numbered("marker", j) /\ e[2] = [texts[j][1] EXCEPT !.name = "text"]
      /\ \A i \in 2 .. n : e[i + 1] = texts[j][i]
      /\ e[n + 2] = Line("timestamp") /\ e[n + 3] = Blank
  BY <1>1, <1>2, EntryShape
<1>5. \A i \in 1 .. n : texts[j][i] \in Lines
  BY <1>2, TextTyped
<1> HIDE DEF e, n
<1>6. 1 \in 1 .. n + 3 /\ 2 \in 1 .. n + 3 /\ 3 \in 1 .. n + 3 /\ 4 \in 1 .. n + 3
  BY <1>2
<1>7. n # 1 => s[4 * (j - 1) + 3] = texts[j][2] /\ texts[j][2] \in Lines
  <2> SUFFICES ASSUME n # 1
               PROVE  s[4 * (j - 1) + 3] = texts[j][2] /\ texts[j][2] \in Lines
    OBVIOUS
  <2>1. 2 \in 2 .. n /\ 2 \in 1 .. n /\ 2 + 1 = 3
    BY <1>2
  <2>2. e[3] = texts[j][2]
    BY <1>4, <2>1
  <2> QED BY <1>3, <1>5, <1>6, <2>1, <2>2
<1>8. n = 1 => s[4 * (j - 1) + 3] = Line("timestamp") /\ s[4 * (j - 1) + 4] = Blank
  <2> SUFFICES ASSUME n = 1
               PROVE  s[4 * (j - 1) + 3] = Line("timestamp") /\ s[4 * (j - 1) + 4] = Blank
    OBVIOUS
  <2>1. n + 2 = 3 /\ n + 3 = 4
    OBVIOUS
  <2>2. e[3] = Line("timestamp") /\ e[4] = Blank
    BY <1>4, <2>1
  <2> QED BY <1>3, <1>6, <2>2
<1>9. s[4 * (j - 1) + 1] = e[1] /\ s[4 * (j - 1) + 2] = e[2]
  BY <1>3, <1>6
<1> QED BY <1>4, <1>7, <1>8, <1>9 DEF n, LinesOfEntry

(* Renaming a line keeps its contents.                                        *)
LEMMA Renamed ==
  ASSUME NEW line \in Lines, NEW name
  PROVE  /\ line.heads \in SUBSET Sections
         /\ [line EXCEPT !.name = name].name = name
         /\ [line EXCEPT !.name = name].heads = line.heads
<1>1. /\ line = [name |-> line.name, number |-> line.number, heads |-> line.heads,
                 claims |-> line.claims]
      /\ line.heads \in SUBSET Sections
  BY DEF Lines
<1>2. DOMAIN line = {"name", "number", "heads", "claims"}
  BY DEF Lines
<1> QED BY <1>1, <1>2

(* Its lines, of k dreams that are bare.                                   *)
LEMMA BareEntries ==
  ASSUME NEW texts \in Seq(DreamTexts), NEW k \in 1 .. Len(texts), NEW s,
         Logged(s, texts, k), NEW j \in 1 .. k, Bare(texts[j])
  PROVE  /\ s[4 * (j - 1) + 1] = Numbered("marker", j)
         /\ s[4 * (j - 1) + 1].name = "marker" /\ s[4 * (j - 1) + 2].name = "text"
         /\ s[4 * (j - 1) + 3].name = "timestamp" /\ s[4 * (j - 1) + 4].name = "blank"
         /\ \A l \in 1 .. 4 : Harmless(s[4 * (j - 1) + l])
<1>1. /\ s[4 * (j - 1) + 1] = Numbered("marker", j)
      /\ s[4 * (j - 1) + 2] = [texts[j][1] EXCEPT !.name = "text"]
      /\ s[4 * (j - 1) + 3] = Line("timestamp")
      /\ s[4 * (j - 1) + 4] = Blank
  <2>1. LinesOfEntry(s, texts, j)
    BY LoggedLines
  <2> QED BY <2>1 DEF Bare, LinesOfEntry
<1>2. texts[j][1] \in Lines
  <2>1. j \in 1 .. Len(texts)
    BY LenProperties
  <2>2. texts[j] \in DreamTexts
    BY <2>1, EntryTyped
  <2>3. 1 \in 1 .. Len(texts[j])
    BY DEF Bare
  <2> QED BY <2>2, <2>3, TextTyped
<1>3. /\ [texts[j][1] EXCEPT !.name = "text"].name = "text"
      /\ Harmless([texts[j][1] EXCEPT !.name = "text"])
  <2>1. [texts[j][1] EXCEPT !.name = "text"].heads = texts[j][1].heads
    BY <1>2, Renamed
  <2>2. texts[j][1].heads \cap (3 .. 6) = {}
    BY DEF Bare, Harmless
  <2>3. Harmless([texts[j][1] EXCEPT !.name = "text"])
    BY <2>1, <2>2 DEF Harmless
  <2> QED BY <1>2, <2>3, Renamed
<1>4. /\ s[4 * (j - 1) + 1].name = "marker" /\ s[4 * (j - 1) + 3].name = "timestamp"
      /\ s[4 * (j - 1) + 4].name = "blank"
  BY <1>1, PlainLines
<1>5. \A l \in 1 .. 4 : l = 1 \/ l = 2 \/ l = 3 \/ l = 4
  OBVIOUS
<1>6. \A l \in 1 .. 4 : Harmless(s[4 * (j - 1) + l])
  <2>1. \A line : line.heads = {} => Harmless(line)
    BY DEF Harmless
  <2>2. /\ Harmless(s[4 * (j - 1) + 1]) /\ Harmless(s[4 * (j - 1) + 3])
        /\ Harmless(s[4 * (j - 1) + 4])
    BY <1>1, <2>1, PlainLines
  <2>3. Harmless(s[4 * (j - 1) + 2])
    BY <1>1, <1>3
  <2> QED BY <1>5, <2>2, <2>3
<1> QED BY <1>1, <1>3, <1>4, <1>6

(* The blocks of the log are its entries.                                  *)
LEMMA BareDreams ==
  ASSUME NEW texts \in Seq(DreamTexts), NEW n \in Nat \ {0}, n = Len(texts),
         \A j \in 1 .. n : Bare(texts[j]), NEW log, Logged(log, texts, n),
         NEW body, Ends(body, 4 * n - 1), \A i \in 1 .. 4 * n - 1 : body[i] = log[i],
         NEW c \in Nat
  PROVE  _validate_dream_section(body, c) <=> c # 0
<1> DEFINE P(j) == 4 * (j - 1) + 1
           m == 4 * n - 1
<1>1. DOMAIN body = 1 .. m /\ Len(body) = m
  BY LenProperties DEF Ends
<1>2. m \in Nat /\ m >= 3
  OBVIOUS
<1>3. ASSUME NEW j \in 1 .. n
      PROVE  /\ P(j) \in 1 .. m /\ P(j) + 1 \in 1 .. m /\ P(j) + 2 \in 1 .. m
             /\ body[P(j)] = Numbered("marker", j) /\ body[P(j)].name = "marker"
             /\ body[P(j) + 1].name = "text" /\ body[P(j) + 2].name = "timestamp"
             /\ j < n => P(j) + 3 \in 1 .. m /\ body[P(j) + 3].name = "blank"
             /\ j = n => P(j) + 2 = m
  <2>1. /\ log[4 * (j - 1) + 1] = Numbered("marker", j)
        /\ log[4 * (j - 1) + 1].name = "marker" /\ log[4 * (j - 1) + 2].name = "text"
        /\ log[4 * (j - 1) + 3].name = "timestamp" /\ log[4 * (j - 1) + 4].name = "blank"
    <3>1. n \in 1 .. Len(texts) /\ Bare(texts[j])
      OBVIOUS
    <3> QED BY <3>1, BareEntries
  <2>2. /\ P(j) + 1 = 4 * (j - 1) + 2 /\ P(j) + 2 = 4 * (j - 1) + 3
        /\ P(j) + 3 = 4 * (j - 1) + 4
    OBVIOUS
  <2>3. /\ P(j) \in 1 .. m /\ P(j) + 1 \in 1 .. m /\ P(j) + 2 \in 1 .. m
        /\ j < n => P(j) + 3 \in 1 .. m
        /\ j = n => P(j) + 2 = m
    OBVIOUS
  <2>4. \A i \in 1 .. m : body[i] = log[i]
    OBVIOUS
  <2> QED BY <2>1, <2>2, <2>3, <2>4
<1>4. \A i \in 1 .. m : body[i] = log[i]
  OBVIOUS
<1>5. Filled(body) = {i \in 1 .. m : body[i].name # "blank"}
  BY <1>1 DEF Filled
<1> DEFINE places == {P(j) : j \in 1 .. n}
<1>6. \A i \in 1 .. m : \E j \in 1 .. n : i = P(j) \/ i = P(j) + 1 \/ i = P(j) + 2 \/ i = P(j) + 3
  <2> SUFFICES ASSUME NEW i \in 1 .. m
               PROVE  \E j \in 1 .. n : i = P(j) \/ i = P(j) + 1 \/ i = P(j) + 2 \/ i = P(j) + 3
    OBVIOUS
  <2>1. PICK j \in Nat \ {0}, l \in 1 .. 4 : i = 4 * (j - 1) + l
    <3>1. i \in Nat /\ i >= 1
      OBVIOUS
    <3> QED BY <3>1, Quarters
  <2>2. j \in 1 .. n
    BY <1>2, <2>1
  <2>3. i = P(j) \/ i = P(j) + 1 \/ i = P(j) + 2 \/ i = P(j) + 3
    BY <2>1
  <2> QED BY <2>2, <2>3
<1>7. Starts(body) = places
  <2>1. ASSUME NEW i \in Starts(body) PROVE i \in places
    <3>1. i \in 1 .. m /\ body[i].name # "blank" /\ (i = 1 \/ body[i - 1].name = "blank")
      BY <1>5 DEF Starts
    <3>2. PICK j \in 1 .. n : i = P(j) \/ i = P(j) + 1 \/ i = P(j) + 2 \/ i = P(j) + 3
      BY <1>6, <3>1
    <3>3. P(j) \in Nat /\ P(j) >= 1
      OBVIOUS
    <3>4. CASE i = P(j)
      BY <3>4
    <3>5. CASE i = P(j) + 1
      <4>1. i # 1 /\ i - 1 = P(j)
        BY <3>3, <3>5
      <4> QED BY <1>3, <3>1, <4>1
    <3>6. CASE i = P(j) + 2
      <4>1. i # 1 /\ i - 1 = P(j) + 1
        BY <3>3, <3>6
      <4> QED BY <1>3, <3>1, <4>1
    <3>7. CASE i = P(j) + 3
      <4>1. j < n
        BY <3>1, <3>7
      <4> QED BY <1>3, <3>1, <3>7, <4>1
    <3> QED BY <3>2, <3>4, <3>5, <3>6, <3>7
  <2>2. ASSUME NEW j \in 1 .. n PROVE P(j) \in Starts(body)
    <3>1. P(j) \in Filled(body)
      BY <1>3, <1>5
    <3>2. CASE j = 1
      <4>1. P(j) = 1
        BY <3>2
      <4> QED BY <3>1, <4>1 DEF Starts
    <3>3. CASE j # 1
      <4>1. j - 1 \in 1 .. n /\ j - 1 < n /\ P(j) - 1 = P(j - 1) + 3
        BY <3>3
      <4>2. body[P(j) - 1].name = "blank"
        BY <1>3, <4>1
      <4> QED BY <3>1, <4>2 DEF Starts
    <3> QED BY <3>2, <3>3
  <2> QED BY <2>1, <2>2
<1>8. ASSUME NEW j \in 1 .. n PROVE Cardinality({i \in places : i <= P(j)}) = j
  <2> DEFINE upto == {i \in places : i <= P(j)}
             f == [l \in 1 .. j |-> P(l)]
  <2>1. ExistsBijection(1 .. j, upto)
    <3>1. \A l \in 1 .. j : l \in 1 .. n /\ P(l) <= P(j) /\ P(l) \in upto
      OBVIOUS
    <3>2. \A a, b \in 1 .. j : P(a) = P(b) => a = b
      OBVIOUS
    <3>3. \A i \in upto : \E l \in 1 .. j : i = P(l)
      OBVIOUS
    <3> HIDE DEF upto, P
    <3>4. f \in [1 .. j -> upto]
      BY <3>1
    <3>5. \A a, b \in 1 .. j : f[a] = f[b] => a = b
      BY <3>2
    <3>6. \A i \in upto : \E l \in 1 .. j : f[l] = i
      BY <3>3
    <3> HIDE DEF f
    <3>7. f \in Injection(1 .. j, upto)
      BY <3>4, <3>5 DEF Injection, IsInjective
    <3>8. f \in Surjection(1 .. j, upto)
      BY <3>4, <3>6 DEF Surjection
    <3> QED BY <3>7, <3>8 DEF Bijection, ExistsBijection
  <2> HIDE DEF upto
  <2>3. Cardinality(upto) = j
    <3>1. j \in Nat
      OBVIOUS
    <3> QED BY <2>1, <3>1, FS_CountingElements
  <2> QED BY <2>3 DEF upto
<1>9. ASSUME NEW j \in 1 .. n PROVE Stop(body, P(j)) = P(j) + 2
  <2> DEFINE ends == {l \in P(j) .. m : l = m \/ body[l + 1].name = "blank"}
  <2>1. Stop(body, P(j)) = Least(ends)
    BY <1>1 DEF Stop
  <2>2. P(j) \in Nat /\ P(j) >= 1
    OBVIOUS
  <2>3. P(j) + 2 \in ends
    <3>1. P(j) + 2 \in P(j) .. m /\ (P(j) + 2) + 1 = P(j) + 3
      BY <1>3
    <3>2. P(j) + 2 = m \/ body[P(j) + 3].name = "blank"
      BY <1>3
    <3> QED BY <3>1, <3>2
  <2>4. ASSUME NEW l \in ends PROVE P(j) + 2 <= l
    <3> SUFFICES ASSUME l < P(j) + 2 PROVE FALSE
      BY <2>2
    <3>1. l = P(j) \/ l = P(j) + 1
      BY <2>2
    <3>2. P(j) + 2 <= m
      BY <1>3
    <3>3. l # m /\ (l + 1 = P(j) + 1 \/ l + 1 = P(j) + 2)
      BY <1>2, <2>2, <3>1, <3>2
    <3>4. body[l + 1].name # "blank"
      BY <1>3, <3>3
    <3> QED BY <3>3, <3>4
  <2>5. ends \subseteq Nat
    BY <2>2
  <2> HIDE DEF ends, P
  <2> QED BY <2>1, <2>3, <2>4, <2>5, LeastIs
<1>10. CASE c = 0
  <2>1. 1 \in 1 .. n /\ P(1) = 1
    OBVIOUS
  <2>2. body[1].name = "marker"
    BY <1>3, <2>1
  <2>3. Line("placeholder").name = "placeholder"
    BY PlainLines
  <2>4. body # <<Line("placeholder")>>
    <3> SUFFICES ASSUME body = <<Line("placeholder")>> PROVE FALSE
      OBVIOUS
    <3>1. body[1] = Line("placeholder")
      OBVIOUS
    <3> QED BY <2>2, <2>3, <3>1
  <2> QED BY <1>10, <2>4 DEF _validate_dream_section
<1>11. CASE c # 0
  <2> SUFFICES ASSUME NEW i \in Starts(body)
               PROVE  /\ Stop(body, i) = i + 2
                      /\ body[i] = Numbered("marker", Cardinality({j \in Starts(body) : j <= i}))
                      /\ body[i + 1].name = "text" /\ body[i + 2].name = "timestamp"
    BY <1>11 DEF _validate_dream_section
  <2>1. PICK j \in 1 .. n : i = P(j)
    BY <1>7
  <2> HIDE DEF P, places
  <2>2. Cardinality({l \in Starts(body) : l <= i}) = j
    BY <1>7, <1>8, <2>1
  <2>3. body[i] = Numbered("marker", Cardinality({l \in Starts(body) : l <= i}))
    BY <1>3, <2>1, <2>2
  <2> QED BY <1>3, <1>9, <2>1, <2>3
<1> QED BY <1>10, <1>11

(* The controlled text is sections 1 and 3 to 6: what the user wrote is in  *)
(* its words and its sample.                                               *)
LEMMA BareLexical ==
  ASSUME NEW R, NEW p, NEW n \in Nat \ {0}, PlacedBare(R, p, n),
         ~SampleLines(p.sample)[1].claims, ~p.ranking
  PROVE  _lexical_safety_on_controlled_text(
           SubSeq(R, 1, At(R, 2) - 1) \o SubSeq(R, At(R, 3), Len(R)))
<1> DEFINE front == SubSeq(R, 1, 9)
           back == SubSeq(R, 11 + n, 23 + n)
           lines == front \o back
<1>0. R \in Seq(Lines) /\ Len(R) = 23 + n
  BY BarePlaces
<1>1. front \in Seq(Lines) /\ Len(front) = 9 /\ \A i \in 1 .. 9 : front[i] = R[i]
  <2>1. 1 \in 1 .. Len(R) /\ 9 \in 1 - 1 .. Len(R) /\ 9 - 1 + 1 = 9
    BY <1>0
  <2>2. \A i \in 1 .. 9 : 1 - 1 + i = i
    OBVIOUS
  <2> QED BY <1>0, <2>1, <2>2, SubSeqAt
<1>2. back \in Seq(Lines) /\ Len(back) = 13 /\ \A i \in 1 .. 13 : back[i] = R[10 + n + i]
  <2>1. PICK a, b : a = 11 + n /\ b = 23 + n
    OBVIOUS
  <2>2. a \in 1 .. Len(R) /\ b \in a - 1 .. Len(R) /\ b - a + 1 = 13 /\ a - 1 = 10 + n
    BY <1>0, <2>1
  <2>3. /\ SubSeq(R, a, b) \in Seq(Lines) /\ Len(SubSeq(R, a, b)) = b - a + 1
        /\ \A i \in 1 .. b - a + 1 : SubSeq(R, a, b)[i] = R[a - 1 + i]
    BY <1>0, <2>2, SubSeqAt
  <2> QED BY <2>1, <2>2, <2>3
<1> HIDE DEF front, back
<1>3. /\ lines \in Seq(Lines) /\ Len(lines) = 22 /\ \A i \in 1 .. 9 : lines[i] = R[i]
      /\ \A i \in 1 .. 13 : lines[9 + i] = R[10 + n + i]
  <2>1. front \in Seq(Lines) /\ back \in Seq(Lines)
    BY <1>1, <1>2
  <2>2. /\ lines \in Seq(Lines) /\ Len(lines) = Len(front) + Len(back)
        /\ \A i \in 1 .. Len(front) : lines[i] = front[i]
        /\ \A i \in 1 .. Len(back) : lines[Len(front) + i] = back[i]
    BY <2>1, Concat
  <2> HIDE DEF lines
  <2>3. Len(front) = 9 /\ Len(back) = 13
    BY <1>1, <1>2
  <2>4. \A i \in 1 .. 9 : lines[i] = R[i]
    BY <1>1, <2>2, <2>3
  <2>5. \A i \in 1 .. 13 : lines[9 + i] = back[i]
    BY <2>2, <2>3
  <2>6. \A i \in 1 .. 13 : lines[9 + i] = R[10 + n + i]
    BY <1>2, <2>5
  <2>7. Len(lines) = 22
    BY <2>2, <2>3
  <2> QED BY <2>2, <2>4, <2>6, <2>7
<1>4. SubSeq(R, 1, At(R, 2) - 1) \o SubSeq(R, At(R, 3), Len(R)) = lines
  <2>1. At(R, 2) - 1 = 9 /\ At(R, 3) = 11 + n
    BY BareHeads
  <2> QED BY <1>0, <2>1 DEF front, back
<1> HIDE DEF lines
<1>5. DOMAIN lines = 1 .. 22
  BY <1>3, LenProperties
<1>6. /\ R[11 + n] = Heading(3)
      /\ R[12 + n] = KeySymbols(p.ranking) /\ R[13 + n] = Line("recurring_words")
      /\ R[14 + n] = SampleLines(p.sample)[1]
      /\ R[15 + n] = Blank /\ R[16 + n] = Heading(4) /\ R[17 + n] = Fixed(4)
      /\ R[18 + n] = Blank /\ R[19 + n] = Heading(5) /\ R[20 + n] = Fixed(5)
      /\ R[21 + n] = Blank /\ R[22 + n] = Heading(6) /\ R[23 + n] = Fixed(6)
  BY BarePlaces
<1>7. \A i \in 1 .. 9 : ~lines[i].claims
  <2>1. /\ R[1] = Line("prefix") /\ R[2] = Blank /\ R[3] = Heading(1)
        /\ R[4] = Line("session_id") /\ R[5] = Line("user_id")
        /\ R[6] = Numbered("dream_count", p.dream_count)
        /\ R[7] = Line("session_duration") /\ R[8] = Line("last_activity_at")
        /\ R[9] = Blank
    BY DEF PlacedBare, Placed
  <2>2. /\ ~R[1].claims /\ ~R[2].claims /\ ~R[3].claims /\ ~R[4].claims /\ ~R[5].claims
        /\ ~R[6].claims /\ ~R[7].claims /\ ~R[8].claims /\ ~R[9].claims
    BY <2>1, PlainLines
  <2>3. \A i \in 1 .. 9 : \/ i = 1 \/ i = 2 \/ i = 3 \/ i = 4 \/ i = 5 \/ i = 6 \/ i = 7
                          \/ i = 8 \/ i = 9
    OBVIOUS
  <2>4. \A i \in 1 .. 9 : ~R[i].claims
    BY <2>2, <2>3
  <2> QED BY <1>3, <2>4
<1>8. lines[13] = SampleLines(p.sample)[1] /\ lines[16] = Fixed(4)
  <2>1. /\ 4 \in 1 .. 13 /\ 9 + 4 = 13 /\ 10 + n + 4 = 14 + n
        /\ 7 \in 1 .. 13 /\ 9 + 7 = 16 /\ 10 + n + 7 = 17 + n
    OBVIOUS
  <2>2. lines[9 + 4] = R[10 + n + 4] /\ lines[9 + 7] = R[10 + n + 7]
    BY <1>3
  <2> QED BY <1>6, <2>1, <2>2
<1>9. \A i \in 10 .. 22 : i # 13 => ~lines[i].claims
  <2> SUFFICES ASSUME NEW i \in 10 .. 22, i # 13 PROVE ~lines[i].claims
    OBVIOUS
  <2>1. PICK l : l = i - 9
    OBVIOUS
  <2>2. l \in 1 .. 13 /\ 9 + l = i /\ l # 4
    BY <2>1
  <2>3. lines[i] = R[10 + n + l]
    BY <1>3, <2>2
  <2>4. /\ ~R[11 + n].claims /\ ~R[12 + n].claims /\ ~R[13 + n].claims /\ ~R[15 + n].claims
        /\ ~R[16 + n].claims /\ ~R[17 + n].claims /\ ~R[18 + n].claims /\ ~R[19 + n].claims
        /\ ~R[20 + n].claims /\ ~R[21 + n].claims /\ ~R[22 + n].claims /\ ~R[23 + n].claims
    <3>0. KeySymbols(p.ranking).claims = p.ranking
      BY PlainLines
    <3>2. ~KeySymbols(p.ranking).claims
      BY <3>0, Zenon
    <3>1. /\ Heading(3).claims = FALSE
          /\ Line("recurring_words").claims = FALSE
          /\ Blank.claims = FALSE /\ Heading(4).claims = FALSE /\ Fixed(4).claims = FALSE
          /\ Heading(5).claims = FALSE /\ Fixed(5).claims = FALSE
          /\ Heading(6).claims = FALSE /\ Fixed(6).claims = FALSE
      BY PlainLines
    <3> QED BY <1>6, <3>1, <3>2
  <2>5. \/ 10 + n + l = 11 + n \/ 10 + n + l = 12 + n \/ 10 + n + l = 13 + n
        \/ 10 + n + l = 15 + n \/ 10 + n + l = 16 + n \/ 10 + n + l = 17 + n
        \/ 10 + n + l = 18 + n \/ 10 + n + l = 19 + n \/ 10 + n + l = 20 + n
        \/ 10 + n + l = 21 + n \/ 10 + n + l = 22 + n \/ 10 + n + l = 23 + n
    BY <2>2
  <2> QED BY <2>3, <2>4, <2>5
<1>10. Range(lines) = {lines[i] : i \in 1 .. 22}
  BY <1>5 DEF Range
<1>11. \A i \in 1 .. 22 : i \in 1 .. 9 \/ i \in 10 .. 22
  OBVIOUS
<1>12. 13 \in 1 .. 22 /\ 16 \in 1 .. 22
  OBVIOUS
<1>13. Fixed(4) \in Range(lines)
  BY <1>8, <1>10, <1>12
<1>14. \A line \in Range(lines) : ~line.claims
  <2>1. ~lines[13].claims
    BY <1>8
  <2>2. \A i \in 1 .. 22 : ~lines[i].claims
    BY <1>7, <1>9, <1>11, <2>1
  <2> QED BY <1>10, <2>2
<1>15. _lexical_safety_on_controlled_text(lines)
  BY <1>13, <1>14 DEF _lexical_safety_on_controlled_text
<1> QED BY <1>4, <1>15

(* The log of bare dreams: how long it is without its last blank line.     *)
LEMMA BareLogShape ==
  ASSUME NEW texts \in Seq(DreamTexts), \A j \in 1 .. Len(texts) : Bare(texts[j])
  PROVE  /\ Len(Log(texts)) \in Nat \ {0}
         /\ \A i \in 1 .. Len(Log(texts)) : Harmless(Log(texts)[i])
         /\ texts = <<>> => Len(Log(texts)) = 1 /\ Log(texts)[1] = Line("placeholder")
         /\ texts # <<>> =>
              /\ Logged(Log(texts), texts, Len(texts)) /\ Len(Log(texts)) = 4 * Len(texts)
              /\ Log(texts)[1].name = "marker"
              /\ Log(texts)[4 * Len(texts) - 1].name = "timestamp"
              /\ Log(texts)[4 * Len(texts)].name = "blank"
<1> DEFINE log == Log(texts)
<1>1. /\ log \in Seq(Lines) /\ Len(log) \in Nat \ {0}
      /\ texts = <<>> => log = <<Line("placeholder")>>
      /\ texts # <<>> => log = FlattenSeq(Entries(texts))
  BY LogTyped
<1>2. Len(texts) \in Nat
  BY LenProperties
<1> HIDE DEF log
<1>3. CASE texts = <<>>
  <2> DEFINE l == Line("placeholder")
  <2>1. Harmless(l)
    BY PlainLines DEF Harmless
  <2>2. log = <<l>>
    BY <1>1, <1>3
  <2> HIDE DEF l
  <2>3. Len(log) = 1 /\ log[1] = l
    BY <2>2
  <2>4. \A i \in 1 .. Len(log) : Harmless(log[i])
    BY <2>1, <2>3
  <2> QED BY <1>1, <1>3, <2>3, <2>4 DEF log, l
<1>4. CASE texts # <<>>
  <2>1. PICK k \in Nat : k = Len(texts)
    BY <1>2
  <2>2. k \in 1 .. Len(texts) /\ k >= 1
    BY <1>2, <1>4, <2>1, EmptySeq
  <2>3. \A j \in 1 .. k : Bare(texts[j])
    BY <2>1
  <2>4. \A j \in 1 .. k - 1 : Len(texts[j]) = 1
    BY <2>3 DEF Bare
  <2>5. Len(texts[k]) = 1
    BY <2>2, <2>3 DEF Bare
  <2>6. /\ Logged(FlattenSeq(Entries(texts)), texts, k)
        /\ Len(FlattenSeq(Entries(texts))) = 4 * (k - 1) + (Len(texts[k]) + 3)
    BY <2>1, <2>2, <2>4, LogShape
  <2>7. Logged(log, texts, k) /\ Len(log) = 4 * k
    <3>1. 4 * (k - 1) + (1 + 3) = 4 * k
      OBVIOUS
    <3> QED BY <1>1, <1>4, <2>5, <2>6, <3>1
  <2>8. ASSUME NEW j \in 1 .. k
        PROVE  /\ log[4 * (j - 1) + 1].name = "marker"
               /\ log[4 * (j - 1) + 3].name = "timestamp"
               /\ log[4 * (j - 1) + 4].name = "blank"
               /\ \A l \in 1 .. 4 : Harmless(log[4 * (j - 1) + l])
    <3>1. k \in 1 .. Len(texts) /\ Logged(log, texts, k) /\ Bare(texts[j])
      BY <2>2, <2>3, <2>7
    <3>2. /\ log[4 * (j - 1) + 1].name = "marker"
          /\ log[4 * (j - 1) + 3].name = "timestamp"
          /\ log[4 * (j - 1) + 4].name = "blank"
      BY <3>1, BareEntries
    <3>3. \A l \in 1 .. 4 : Harmless(log[4 * (j - 1) + l])
      BY <3>1, BareEntries
    <3> QED BY <3>2, <3>3
  <2>9. ASSUME NEW i \in 1 .. Len(log) PROVE Harmless(log[i])
    <3>1. i \in Nat /\ i >= 1 /\ i <= 4 * k
      BY <2>7
    <3>2. PICK j \in Nat \ {0}, l \in 1 .. 4 : i = 4 * (j - 1) + l
      BY <3>1, Quarters
    <3>3. j \in 1 .. k
      BY <3>1, <3>2
    <3> QED BY <2>8, <3>2, <3>3
  <2>10. /\ log[1].name = "marker" /\ log[4 * k - 1].name = "timestamp"
         /\ log[4 * k].name = "blank"
    <3>1. /\ 1 \in 1 .. k /\ k \in 1 .. k /\ 4 * (1 - 1) + 1 = 1
          /\ 4 * (k - 1) + 3 = 4 * k - 1 /\ 4 * (k - 1) + 4 = 4 * k
      BY <2>2
    <3>2. /\ log[4 * (1 - 1) + 1].name = "marker" /\ log[4 * (k - 1) + 3].name = "timestamp"
          /\ log[4 * (k - 1) + 4].name = "blank"
      BY <2>8, <3>1
    <3> QED BY <3>1, <3>2
  <2> QED BY <1>1, <1>4, <2>1, <2>7, <2>9, <2>10 DEF log
<1> QED BY <1>3, <1>4

(* What is known of a compiled prompt.                                     *)
Sound(p) ==
  /\ p.dream_count \in Nat /\ p.ranking \in BOOLEAN
  /\ p.dreams \in Seq(DreamTexts) /\ p.sample \in Seq(Lines)
  /\ (\A text \in Range(p.dreams) : Bare(text)) => Len(p.sample) \in 0 .. 1
  /\ p.dreams = <<>> => p.dream_count = 0

(* A plain prompt passes.                                                     *)
LEMMA PlainPasses ==
  ASSUME NEW p, Sound(p), Plain(p)
  PROVE  Valid(p)
<1> DEFINE R == render_compiled_prompt(p)
           log == Log(p.dreams)
           n == Len(log)
           more == SampleLines(p.sample)
           body == _extract_section_body(R, 2)
<1>1. /\ p.dream_count \in Nat /\ p.ranking \in BOOLEAN /\ p.dreams \in Seq(DreamTexts)
      /\ p.sample \in Seq(Lines)
      /\ DOMAIN p.dreams = 1 .. Len(p.dreams) /\ Len(p.dreams) \in Nat
      /\ DOMAIN p.sample = 1 .. Len(p.sample) /\ Len(p.sample) \in Nat
  BY LenProperties DEF Sound
<1>3. \A j \in 1 .. Len(p.dreams) : Bare(p.dreams[j])
  <2>1. \A j \in 1 .. Len(p.dreams) : p.dreams[j] \in Range(p.dreams)
    BY <1>1 DEF Range
  <2> QED BY <2>1 DEF Plain
<1>2. /\ n \in Nat \ {0} /\ \A i \in 1 .. n : Harmless(log[i])
      /\ p.dreams = <<>> => n = 1 /\ log[1] = Line("placeholder")
      /\ p.dreams # <<>> =>
           /\ Logged(log, p.dreams, Len(p.dreams)) /\ n = 4 * Len(p.dreams)
           /\ log[1].name = "marker"
           /\ log[4 * Len(p.dreams) - 1].name = "timestamp"
           /\ log[4 * Len(p.dreams)].name = "blank"
  BY <1>1, <1>3, BareLogShape
<1>4. /\ Len(more) = 1 /\ more[1].name = "raw_text_sample" /\ Harmless(more[1])
      /\ ~more[1].claims
  <2>1. CASE p.sample = <<>>
    <3> DEFINE l == Line("raw_text_sample")
    <3>1. Harmless(l) /\ ~l.claims /\ l.name = "raw_text_sample"
      BY PlainLines DEF Harmless
    <3> HIDE DEF l
    <3>2. more = <<l>>
      BY <1>1, <2>1, SampleShape DEF l
    <3> HIDE DEF more
    <3>3. Len(more) = 1 /\ more[1] = l
      BY <3>2
    <3> QED BY <3>1, <3>3
  <2>2. CASE p.sample # <<>>
    <3>1. Len(p.sample) = 1
      <4>1. Len(p.sample) \in 0 .. 1
        BY DEF Sound, Plain
      <4>2. Len(p.sample) # 0
        BY <1>1, <2>2, EmptySeq
      <4> QED BY <4>1, <4>2
    <3>2. Harmless(p.sample[1]) /\ ~p.sample[1].claims
      <4>1. p.sample[1] \in Range(p.sample)
        BY <1>1, <3>1 DEF Range
      <4> QED BY <4>1 DEF Plain
    <3>3. /\ Len(more) = Len(p.sample) /\ more[1].name = "raw_text_sample"
          /\ \A i \in 1 .. Len(p.sample) : /\ more[i].heads = p.sample[i].heads
                                           /\ more[i].claims = p.sample[i].claims
      BY <1>1, <2>2, SampleShape
    <3> HIDE DEF more
    <3>4. more[1].heads = p.sample[1].heads /\ more[1].claims = p.sample[1].claims
      BY <3>1, <3>3
    <3>5. Harmless(more[1])
      BY <3>2, <3>4 DEF Harmless
    <3>6. ~more[1].claims
      BY <3>2, <3>4, Zenon
    <3> QED BY <3>1, <3>3, <3>5, <3>6
  <2> QED BY <2>1, <2>2
<1>5. PlacedBare(R, p, n)
  <2>1. Placed(R, p, n, 1)
    <3>1. 1 = Len(SampleLines(p.sample)) /\ n = Len(Log(p.dreams)) /\ n \in Nat /\ 1 \in Nat
      BY <1>2, <1>4
    <3> HIDE DEF n
    <3> QED BY <1>1, <3>1, RenderedPlaced
  <2> QED BY <1>2, <1>4, <2>1 DEF PlacedBare
<1>6. validate_prompt_structure(R) <=> _validate_dream_section(body, p.dream_count)
  <2> HIDE DEF R, n
  <2> QED BY <1>2, <1>5, BareStructure
<1>7. _lexical_safety_on_controlled_text(
        SubSeq(R, 1, At(R, 2) - 1) \o SubSeq(R, At(R, 3), Len(R)))
  <2>1. ~p.ranking
    BY DEF Plain
  <2> HIDE DEF R, n
  <2> QED BY <1>2, <1>4, <1>5, <2>1, BareLexical
<1> HIDE DEF R, log, n, more, body
<1>8. _validate_dream_section(body, p.dream_count)
  <2>0. p.dream_count = 0 => p.dreams = <<>>
    BY DEF Plain
  <2>1. CASE p.dreams = <<>>
    <3>1. n = 1 /\ log[1] = Line("placeholder") /\ p.dream_count = 0
      BY <1>2, <2>1 DEF Sound
    <3>2. log[1].name # "blank"
      BY <3>1, PlainLines
    <3>3. Ends(body, 1) /\ \A i \in 1 .. 1 : body[i] = log[i]
      <4>1. 1 \in 1 .. n /\ \A i \in 1 + 1 .. n : log[i].name = "blank"
        BY <3>1
      <4> QED BY <1>2, <1>5, <3>2, <4>1, BareLog DEF body, log
    <3> DEFINE l == Line("placeholder")
    <3>4. body \in Seq(Lines) /\ Len(body) = 1 /\ body[1] = l
      BY <3>1, <3>3 DEF Ends
    <3> HIDE DEF l
    <3>5. body = <<l>>
      BY <3>4
    <3> QED BY <2>1, <3>1, <3>5 DEF _validate_dream_section, l
  <2>2. CASE p.dreams # <<>>
    <3>0. PICK k \in Nat \ {0} : k = Len(p.dreams)
      BY <1>1, <2>2, EmptySeq
    <3>1. /\ Logged(log, p.dreams, k) /\ n = 4 * k /\ log[1].name = "marker"
          /\ log[4 * k - 1].name = "timestamp" /\ log[4 * k].name = "blank"
      BY <1>2, <2>2, <3>0
    <3>2. PICK m \in 1 .. n : m = 4 * k - 1
      BY <3>1
    <3>3. log[1].name # "blank" /\ log[m].name # "blank"
      BY <3>1, <3>2
    <3>4. \A i \in m + 1 .. n : log[i].name = "blank"
      <4>1. \A i \in m + 1 .. n : i = 4 * k
        BY <3>1, <3>2
      <4> QED BY <3>1, <4>1
    <3>5. Ends(body, m) /\ \A i \in 1 .. m : body[i] = log[i]
      BY <1>2, <1>5, <3>3, <3>4, BareLog DEF body, log
    <3>6. Ends(body, 4 * k - 1) /\ \A i \in 1 .. 4 * k - 1 : body[i] = log[i]
      BY <3>2, <3>5
    <3>7. \A j \in 1 .. k : Bare(p.dreams[j])
      BY <1>3, <3>0
    <3>8. _validate_dream_section(body, p.dream_count)
      BY <1>1, <2>0, <3>0, <3>1, <3>6, <3>7, BareDreams
    <3> QED BY <3>8
  <2> QED BY <2>1, <2>2
<1> QED BY <1>6, <1>7, <1>8 DEF R, body, Valid, validate_prompt_safety
-----------------------------------------------------------------------------
(* A prompt with a dream the contract refuses                              *)

(* Stripping keeps every line up to the last one that is not blank.           *)
LEMMA StripFrom ==
  ASSUME NEW lines \in Seq(Lines), Len(lines) >= 1, lines[1].name # "blank"
  PROVE  \E f \in 1 .. Len(lines) :
           /\ Ends(Strip(lines), f) /\ \A i \in 1 .. f : Strip(lines)[i] = lines[i]
           /\ \A i \in 1 .. Len(lines) : lines[i].name # "blank" => i <= f
<1> DEFINE filled == {i \in 1 .. Len(lines) : lines[i].name # "blank"}
<1>1. Len(lines) \in Nat
  BY LenProperties
<1>2. filled \subseteq 1 .. Len(lines) /\ 1 \in filled
  BY <1>1
<1>3. PICK f \in filled : \A i \in filled : i <= f
  <2> HIDE DEF filled
  <2>1. filled # {}
    BY <1>2
  <2>2. \E f \in filled : \A i \in filled : i <= f
    BY <1>1, <1>2, <2>1, GreatestExists
  <2> QED BY <2>2
<1>4. f \in 1 .. Len(lines) /\ lines[f].name # "blank"
  OBVIOUS
<1>5. \A i \in f + 1 .. Len(lines) : lines[i].name = "blank"
  BY <1>1, <1>3
<1>6. Ends(Strip(lines), f) /\ \A i \in 1 .. f : Strip(lines)[i] = lines[i]
  BY <1>4, <1>5, StripTo
<1> QED BY <1>3, <1>4, <1>6

(* The body of section 2: its lines have the names of those of the prompt, *)
(* up to the first heading of section 3, wherever it is.                   *)
LEMMA LogBody ==
  ASSUME NEW R \in Seq(Lines), At(R, 2) = 10, R[10].name = "heading",
         NEW c, c = At(R, 3), c \in 12 .. Len(R), R[11].name # "blank"
  PROVE  \E f \in 1 .. c - 10 :
           /\ Ends(_extract_section_body(R, 2), f)
           /\ \A i \in 1 .. f : _extract_section_body(R, 2)[i].name = R[10 + i].name
           /\ \A i \in 1 .. c - 11 : R[10 + i].name # "blank" => i <= f
<1>1. Len(R) \in Nat /\ c \in Nat /\ c >= 12 /\ c <= Len(R) /\ c \in 1 .. Len(R)
      /\ 11 \in 1 .. Len(R) /\ c - 1 \in 11 - 1 .. Len(R)
  BY LenProperties
<1> DEFINE cut == SubSeq(R, 11, c - 1)
           end == Before(R[c])
           lines == cut \o end
           body == _extract_section_body(R, 2)
<1>2. body = Strip(lines)
  <2>1. After(R[10]) = <<>>
    BY DEF After
  <2>2. cut \o end \in Seq(Lines)
    <3>1. cut \in Seq(Lines) /\ end \in Seq(Lines)
      <4>1. 11 \in 1 .. Len(R) /\ c - 1 \in 11 - 1 .. Len(R) /\ c \in 1 .. Len(R)
        BY <1>1
      <4>2. cut \in Seq(Lines)
        BY <4>1, SubSeqAt
      <4>3. R[c] \in Lines
        BY <4>1, ElementOfSeq
      <4>4. {} \in SUBSET Sections
        OBVIOUS
      <4>5. [R[c] EXCEPT !.heads = {}] \in Lines
        BY <4>3, <4>4 DEF Lines
      <4>6. end \in Seq(Lines)
        BY <4>5 DEF Before
      <4> QED BY <4>2, <4>6
    <3> QED BY <3>1, Concat
  <2>3. body = Strip(<<>> \o (cut \o end))
    <3>1. 2 + 1 = 3 /\ 2 # 6 /\ 10 + 1 = 11
      OBVIOUS
    <3> QED BY <2>1, <3>1 DEF _extract_section_body
  <2>4. <<>> \o (cut \o end) = cut \o end
    BY <2>2, ConcatEmptySeq
  <2> QED BY <2>3, <2>4
<1>3. /\ lines \in Seq(Lines) /\ Len(lines) \in c - 11 .. c - 10
       /\ \A i \in 1 .. Len(lines) : lines[i].name = R[10 + i].name
  <2>1. 11 \in 1 .. Len(R) /\ c - 1 \in 11 - 1 .. Len(R) /\ c \in 1 .. Len(R)
    BY <1>1
  <2>2. /\ cut \in Seq(Lines) /\ Len(cut) = (c - 1) - 11 + 1
        /\ \A i \in 1 .. (c - 1) - 11 + 1 : cut[i] = R[11 - 1 + i]
    BY <2>1, SubSeqAt
  <2>3. R[c] \in Lines
    BY <2>1, ElementOfSeq
  <2>4. {} \in SUBSET Sections
    OBVIOUS
  <2> DEFINE line == [R[c] EXCEPT !.heads = {}]
  <2>5. line \in Lines /\ line.name = R[c].name
    BY <2>3, <2>4 DEF Lines
  <2>6. end = <<>> \/ end = <<line>>
    BY DEF Before
  <2> HIDE DEF cut, end, line
  <2>7. end \in Seq(Lines) /\ Len(end) \in 0 .. 1 /\ (Len(end) = 1 => end[1] = line)
    <3>1. <<line>> \in Seq(Lines) /\ Len(<<line>>) = 1 /\ <<line>>[1] = line
      BY <2>5
    <3>2. CASE end = <<line>>
      <4>1. end \in Seq(Lines) /\ Len(end) = 1 /\ end[1] = line
        BY <3>1, <3>2
      <4> QED BY <4>1
    <3>3. CASE end = <<>>
      <4>1. end \in Seq(Lines) /\ Len(end) = 0
        BY <3>3
      <4> QED BY <4>1
    <3> QED BY <2>6, <3>2, <3>3
  <2>8. Len(cut) = c - 11 /\ \A i \in 1 .. c - 11 : cut[i] = R[10 + i]
    <3>1. (c - 1) - 11 + 1 = c - 11 /\ 11 - 1 = 10
      BY <2>1
    <3> QED BY <2>2, <3>1
  <2>9. /\ lines \in Seq(Lines) /\ Len(lines) = Len(cut) + Len(end)
        /\ \A i \in 1 .. Len(cut) : lines[i] = cut[i]
        /\ \A i \in 1 .. Len(end) : lines[Len(cut) + i] = end[i]
    <3>1. cut \in Seq(Lines) /\ end \in Seq(Lines)
      BY <2>2, <2>7
    <3> QED BY <3>1, Concat
  <2> HIDE DEF lines
  <2>10. c \in Int /\ c >= 12
    BY <1>1
  <2>11. Len(lines) \in c - 11 .. c - 10
    <3>1. PICK e \in 0 .. 1 : e = Len(end)
      BY <2>7
    <3>2. Len(lines) = (c - 11) + e
      BY <2>8, <2>9, <3>1
    <3>3. (c - 11) + e \in c - 11 .. c - 10
      BY <2>10
    <3> QED BY <3>2, <3>3
  <2>12. ASSUME NEW i \in 1 .. Len(lines) PROVE lines[i].name = R[10 + i].name
    <3>1. CASE i \in 1 .. c - 11
      <4>1. lines[i] = cut[i] /\ cut[i] = R[10 + i]
        BY <2>8, <2>9, <3>1
      <4> QED BY <4>1
    <3>2. CASE i \notin 1 .. c - 11
      <4>1. i = c - 10 /\ Len(end) = 1
        <5>1. PICK e \in 0 .. 1 : e = Len(end)
          BY <2>7
        <5>2. Len(lines) = (c - 11) + e
          BY <2>8, <2>9, <5>1
        <5>3. i \in 1 .. (c - 11) + e
          BY <5>2
        <5>4. i = c - 10 /\ e = 1
          BY <2>10, <3>2, <5>3
        <5> QED BY <5>1, <5>4
      <4>2. lines[(c - 11) + 1] = end[1]
        BY <2>8, <2>9, <4>1
      <4>3. (c - 11) + 1 = i /\ 10 + i = c
        BY <2>10, <4>1
      <4> QED BY <2>5, <2>7, <4>1, <4>2, <4>3
    <3> QED BY <3>1, <3>2
  <2> QED BY <2>9, <2>11, <2>12
<1> HIDE DEF lines, body
<1>4. PICK f \in 1 .. Len(lines) :
        /\ Ends(body, f) /\ \A i \in 1 .. f : body[i] = lines[i]
        /\ \A i \in 1 .. Len(lines) : lines[i].name # "blank" => i <= f
  <2>1. 1 \in 1 .. Len(lines) /\ Len(lines) >= 1 /\ 10 + 1 = 11
    BY <1>1, <1>3
  <2>2. lines[1].name # "blank"
    BY <1>3, <2>1
  <2> QED BY <1>2, <1>3, <2>1, <2>2, StripFrom
<1>5. f \in 1 .. c - 10
  BY <1>1, <1>3
<1>6. ASSUME NEW i \in 1 .. f PROVE body[i].name = R[10 + i].name
  <2>1. i \in 1 .. Len(lines)
    BY <1>3
  <2> QED BY <1>3, <1>4, <2>1
<1>7. ASSUME NEW i \in 1 .. c - 11, R[10 + i].name # "blank" PROVE i <= f
  <2>1. i \in 1 .. Len(lines)
    BY <1>1, <1>3
  <2> QED BY <1>3, <1>4, <1>7, <2>1
<1>8. Ends(body, f)
  BY <1>4
<1> QED BY <1>5, <1>6, <1>7, <1>8 DEF body

(* Of the dreams of a prompt that passes, the first that is not bare       *)
(* imitates an entry: another has too many lines for its block, or the log *)
(* is cut off at the heading in it.                                        *)
LEMMA PassedImitates ==
  ASSUME NEW p, Sound(p), NEW k \in 1 .. Len(p.dreams), ~Bare(p.dreams[k]),
         \A j \in 1 .. k - 1 : Bare(p.dreams[j]),
         validate_prompt_structure(render_compiled_prompt(p))
  PROVE  Imitates(p.dreams[k])
<1> DEFINE R == render_compiled_prompt(p)
           log == Log(p.dreams)
           text == p.dreams[k]
           first == 4 * (k - 1) + 1
<1>1. /\ p.dream_count \in Nat /\ p.ranking \in BOOLEAN /\ p.dreams \in Seq(DreamTexts)
      /\ p.sample \in Seq(Lines) /\ Len(p.dreams) \in Nat
  BY LenProperties DEF Sound
<1>2. k \in Nat /\ k >= 1 /\ k \in 1 .. k /\ first \in Nat /\ first >= 1
  BY <1>1
<1>3. text \in DreamTexts /\ Len(text) \in Nat \ {0}
  BY <1>1, EntryTyped
<1>4. /\ log \in Seq(Lines) /\ Logged(log, p.dreams, k) /\ Len(log) \in Nat
      /\ Len(log) >= first + 3
  <2>1. p.dreams # <<>>
    BY <1>1
  <2>2. log = FlattenSeq(Entries(p.dreams)) /\ log \in Seq(Lines)
    BY <1>1, <2>1, LogTyped
  <2>3. \A j \in 1 .. k - 1 : Len(p.dreams[j]) = 1
    BY DEF Bare
  <2>4. /\ Logged(FlattenSeq(Entries(p.dreams)), p.dreams, k)
        /\ Len(FlattenSeq(Entries(p.dreams))) \in Nat
        /\ Len(FlattenSeq(Entries(p.dreams))) >= 4 * (k - 1) + (Len(p.dreams[k]) + 3)
    BY <1>1, <2>3, LogShape
  <2> HIDE DEF log
  <2>5. PICK a \in Nat \ {0} : a = Len(text)
    BY <1>3
  <2>6. 4 * (k - 1) + (a + 3) >= first + 3 /\ 4 * (k - 1) + (a + 3) \in Nat
    <3>1. first = 4 * (k - 1) + 1 /\ k \in Nat /\ k >= 1
      BY <1>2
    <3> QED BY <3>1
  <2>7. Len(log) \in Nat /\ Len(log) >= 4 * (k - 1) + (a + 3)
    BY <2>2, <2>4, <2>5
  <2>8. Len(log) >= first + 3
    BY <1>2, <2>6, <2>7
  <2> QED BY <2>2, <2>4, <2>7, <2>8
<1>5. PICK n \in Nat : n = Len(log)
  BY <1>4
<1>6. PICK s \in Nat : s = Len(SampleLines(p.sample))
  BY <1>1, SampleShape, LenProperties
<1>7. Placed(R, p, n, s)
  BY <1>1, <1>5, <1>6, RenderedPlaced
<1> HIDE DEF R, log
<1>8. R \in Seq(Lines) /\ Len(R) = 22 + n + s /\ DOMAIN R = 1 .. 22 + n + s
  <2>1. R \in Seq(Lines) /\ Len(R) = 22 + n + s
    BY <1>7 DEF Placed, Ends
  <2> QED BY <2>1, LenProperties
<1>9. \A i \in 1 .. n : R[10 + i] = log[i]
  BY <1>7 DEF Placed, log
<1>10. /\ log[first] = Numbered("marker", k)
       /\ log[first + 1] = [text[1] EXCEPT !.name = "text"]
       /\ Len(text) # 1 => log[first + 2] = text[2] /\ text[2] \in Lines
  <2>1. /\ log[4 * (k - 1) + 1] = Numbered("marker", k)
        /\ log[4 * (k - 1) + 2] = [text[1] EXCEPT !.name = "text"]
        /\ Len(text) # 1 => log[4 * (k - 1) + 3] = text[2] /\ text[2] \in Lines
    <3>1. /\ Logged(log, p.dreams, k) /\ p.dreams \in Seq(DreamTexts)
          /\ k \in 1 .. Len(p.dreams) /\ k \in 1 .. k
      BY <1>1, <1>2, <1>4
    <3>2. LinesOfEntry(log, p.dreams, k)
      BY <3>1, LoggedLines
    <3> QED BY <3>2 DEF LinesOfEntry
  <2>2. first + 1 = 4 * (k - 1) + 2 /\ first + 2 = 4 * (k - 1) + 3
    BY <1>2
  <2> QED BY <2>1, <2>2
<1>11. ASSUME NEW j \in 1 .. k - 1
       PROVE  /\ log[4 * (j - 1) + 1].name = "marker"
              /\ log[4 * (j - 1) + 4].name = "blank"
              /\ \A l \in 1 .. 4 : Harmless(log[4 * (j - 1) + l])
  <2>1. j \in 1 .. k /\ Bare(p.dreams[j])
    BY <1>2
  <2>2. log[4 * (j - 1) + 1].name = "marker" /\ log[4 * (j - 1) + 4].name = "blank"
    BY <1>1, <1>4, <2>1, BareEntries
  <2>3. \A l \in 1 .. 4 : Harmless(log[4 * (j - 1) + l])
    BY <1>1, <1>4, <2>1, BareEntries
  <2> QED BY <2>2, <2>3
<1>12. \A i \in 1 .. first : Harmless(log[i])
  <2> SUFFICES ASSUME NEW i \in 1 .. first PROVE Harmless(log[i])
    OBVIOUS
  <2>1. CASE i = first
    BY <1>10, <2>1, PlainLines DEF Harmless
  <2>2. CASE i # first
    <3>1. i \in Nat /\ i >= 1 /\ i <= 4 * (k - 1)
      BY <1>2, <2>2
    <3>2. PICK j \in Nat \ {0}, l \in 1 .. 4 : i = 4 * (j - 1) + l
      BY <3>1, Quarters
    <3>3. j \in 1 .. k - 1
      BY <1>2, <3>1, <3>2
    <3> QED BY <1>11, <3>2, <3>3
  <2> QED BY <2>1, <2>2
<1>13. log[1].name = "marker" /\ (first # 1 => log[first - 1].name = "blank")
  <2>1. CASE k = 1
    BY <1>10, <2>1, PlainLines
  <2>2. CASE k # 1
    <3>1. 1 \in 1 .. k - 1 /\ 4 * (1 - 1) + 1 = 1
      BY <1>2, <2>2
    <3>2. PICK j : j = k - 1
      OBVIOUS
    <3>3. j \in 1 .. k - 1 /\ 4 * (j - 1) + 4 = first - 1
      BY <1>2, <2>2, <3>2
    <3>4. log[4 * (1 - 1) + 1].name = "marker" /\ log[4 * (j - 1) + 4].name = "blank"
      BY <1>11, <3>1, <3>3
    <3> QED BY <3>1, <3>3, <3>4
  <2> QED BY <2>1, <2>2
<1>14. ASSUME NEW i \in 1 .. 10 + first PROVE 3 \notin R[i].heads
  <2>1. CASE i \in 1 .. 10
    <3>1. /\ R[1].heads = {} /\ R[2].heads = {} /\ R[3].heads = {1} /\ R[4].heads = {}
          /\ R[5].heads = {} /\ R[6].heads = {} /\ R[7].heads = {} /\ R[8].heads = {}
          /\ R[9].heads = {} /\ R[10].heads = {2}
      <4>1. /\ R[1] = Line("prefix") /\ R[2] = Blank /\ R[3] = Heading(1)
            /\ R[4] = Line("session_id") /\ R[5] = Line("user_id")
            /\ R[6] = Numbered("dream_count", p.dream_count)
            /\ R[7] = Line("session_duration") /\ R[8] = Line("last_activity_at")
            /\ R[9] = Blank /\ R[10] = Heading(2)
        BY <1>7 DEF Placed
      <4>2. /\ \A name : Line(name).heads = {}
            /\ \A number : Numbered("dream_count", number).heads = {}
            /\ \A section : Heading(section).heads = {section}
            /\ Blank.heads = {}
        BY DEF Line, Numbered, Heading, Blank
      <4>3. R[1].heads = {} /\ R[2].heads = {} /\ R[3].heads = {1}
        BY <4>1, <4>2
      <4>4. R[4].heads = {} /\ R[5].heads = {} /\ R[6].heads = {}
        BY <4>1, <4>2
      <4>5. R[7].heads = {} /\ R[8].heads = {} /\ R[9].heads = {} /\ R[10].heads = {2}
        BY <4>1, <4>2
      <4> QED BY <4>3, <4>4, <4>5
    <3>2. \/ i = 1 \/ i = 2 \/ i = 3 \/ i = 4 \/ i = 5 \/ i = 6 \/ i = 7 \/ i = 8 \/ i = 9
          \/ i = 10
      BY <2>1
    <3> QED BY <3>1, <3>2
  <2>2. CASE i \notin 1 .. 10
    <3>1. PICK l : l = i - 10
      OBVIOUS
    <3>2. l \in 1 .. first /\ l \in 1 .. n /\ i = 10 + l
      BY <1>2, <1>4, <1>5, <2>2, <3>1
    <3>3. R[i] = log[l] /\ Harmless(log[l])
      BY <1>9, <1>12, <3>2
    <3> QED BY <3>3 DEF Harmless
  <2> QED BY <2>1, <2>2
<1>15. /\ \A i \in Sections : Occurs(R, i) # {}
       /\ _validate_section_order(R)
       /\ _validate_dream_section(_extract_section_body(R, 2),
                                  DreamCount(_extract_section_body(R, 1)))
  BY DEF validate_prompt_structure, R
<1>16. At(R, 2) = 10
  BY <1>7, FirstHeads
<1>17. PICK c : c = At(R, 3)
  OBVIOUS
<1>18. c \in 11 + first .. Len(R)
  <2>1. Occurs(R, 3) \subseteq 1 .. Len(R) /\ Occurs(R, 3) # {}
    BY <1>8, <1>15 DEF Occurs, Sections
  <2>2. Occurs(R, 3) \subseteq Nat
    BY <2>1
  <2>3. c \in Occurs(R, 3)
    BY <1>17, <2>1, <2>2, LeastIn DEF At
  <2>4. c \in 1 .. Len(R) /\ 3 \in R[c].heads
    BY <2>1, <2>3 DEF Occurs
  <2>5. c \notin 1 .. 10 + first
    BY <1>14, <2>4
  <2> QED BY <1>2, <1>8, <2>4, <2>5
<1> DEFINE body == _extract_section_body(R, 2)
<1>20. PICK f \in 1 .. c - 10 :
         /\ Ends(body, f)
         /\ \A i \in 1 .. f : body[i].name = R[10 + i].name
         /\ \A i \in 1 .. c - 11 : R[10 + i].name # "blank" => i <= f
  <2>1. R[10].name = "heading"
    BY <1>7, PlainLines DEF Placed
  <2>2. R[11].name # "blank"
    <3>1. 1 \in 1 .. n /\ 10 + 1 = 11
      BY <1>2, <1>4, <1>5
    <3>2. R[11] = log[1]
      BY <1>9, <3>1
    <3> QED BY <1>13, <3>2
  <2>3. c \in 12 .. Len(R)
    BY <1>2, <1>8, <1>18
  <2> QED BY <1>8, <1>16, <1>17, <2>1, <2>2, <2>3, LogBody
<1> HIDE DEF body
<1>22. f \in Nat /\ f <= c - 10 /\ c \in Int /\ Len(body) = f /\ DOMAIN body = 1 .. f
  <2>1. Len(body) = f /\ body \in Seq(Lines)
    BY <1>20 DEF Ends
  <2>2. c \in Int
    BY <1>2, <1>8, <1>18
  <2>3. DOMAIN body = 1 .. f
    BY <2>1, LenProperties
  <2> QED BY <1>20, <2>1, <2>2, <2>3
<1>23. ASSUME NEW i \in 1 .. f, i <= n PROVE body[i].name = log[i].name
  <2>1. i \in 1 .. n
    BY <1>5, <1>22, <1>23
  <2>2. body[i].name = R[10 + i].name /\ R[10 + i] = log[i]
    BY <1>9, <1>20, <2>1
  <2> QED BY <2>2
<1>24. first <= f
  <2>1. first \in 1 .. c - 11 /\ first \in 1 .. n
    BY <1>2, <1>4, <1>5, <1>8, <1>18
  <2>2. R[10 + first] = log[first]
    BY <1>9, <2>1
  <2>3. R[10 + first].name # "blank"
    BY <1>10, <2>2, PlainLines
  <2> QED BY <1>20, <2>1, <2>3
<1>25. first \in Starts(body)
  <2>1. first \in 1 .. f /\ first <= n
    BY <1>2, <1>4, <1>5, <1>22, <1>24
  <2>2. body[first].name = "marker"
    <3>1. body[first].name = log[first].name
      BY <1>23, <2>1
    <3>2. Numbered("marker", k).name = "marker"
      BY PlainLines
    <3> QED BY <1>10, <3>1, <3>2
  <2>3. first # 1 => body[first - 1].name = "blank"
    <3> SUFFICES ASSUME first # 1 PROVE body[first - 1].name = "blank"
      OBVIOUS
    <3>1. first - 1 \in 1 .. f /\ first - 1 <= n
      BY <1>2, <1>22, <2>1
    <3> QED BY <1>13, <1>23, <3>1
  <2> HIDE DEF first
  <2> QED BY <1>22, <2>1, <2>2, <2>3 DEF Starts, Filled
<1>26. body # <<Line("placeholder")>>
  <2>1. 1 \in 1 .. f /\ 1 <= n
    BY <1>2, <1>4, <1>5, <1>22, <1>24
  <2>2. body[1].name = "marker"
    BY <1>13, <1>23, <2>1
  <2>3. Line("placeholder").name = "placeholder"
    BY PlainLines
  <2> SUFFICES ASSUME body = <<Line("placeholder")>> PROVE FALSE
    OBVIOUS
  <2>4. body[1] = Line("placeholder")
    OBVIOUS
  <2> QED BY <2>2, <2>3, <2>4
<1>27. Stop(body, first) = first + 2 /\ body[first + 2].name = "timestamp"
  <2>1. \A i \in Starts(body) : Stop(body, i) = i + 2 /\ body[i + 2].name = "timestamp"
    BY <1>15, <1>26 DEF _validate_dream_section, body
  <2> HIDE DEF first
  <2> QED BY <1>25, <2>1
<1>28. first + 2 <= f
  <2> DEFINE stops == {j \in first .. f : j = f \/ body[j + 1].name = "blank"}
  <2>1. Stop(body, first) = Least(stops)
    BY <1>22 DEF Stop
  <2>2. f \in stops /\ stops \subseteq Nat
    BY <1>2, <1>22, <1>24
  <2>3. Least(stops) \in stops
    <3> HIDE DEF stops
    <3>1. stops # {}
      BY <2>2
    <3> QED BY <2>2, <3>1, LeastIn
  <2> QED BY <1>27, <2>1, <2>3
<1>29. CASE Len(text) # 1
  <2>1. first + 2 \in 1 .. f /\ first + 2 <= n
    BY <1>2, <1>4, <1>5, <1>22, <1>28
  <2>2. body[first + 2].name = text[2].name
    BY <1>10, <1>23, <1>29, <2>1
  <2>3. Len(text) >= 2
    <3>1. PICK a \in Nat \ {0} : a = Len(text)
      BY <1>3
    <3>2. a # 1
      BY <1>29, <3>1
    <3>3. a >= 2
      BY <3>2
    <3> QED BY <3>1, <3>3
  <2> QED BY <1>27, <2>2, <2>3 DEF Imitates
<1>30. CASE Len(text) = 1
  <2>1. 1 \in 1 .. Len(text)
    BY <1>30
  <2>2. text[1] \in Lines
    BY <1>3, <2>1, TextTyped
  <2>3. ~Harmless(text[1])
    BY <1>30 DEF Bare
  <2>4. PICK h \in 3 .. 6 : h \in text[1].heads
    BY <2>3 DEF Harmless
  <2>5. R[11 + first].heads = text[1].heads
    <3>1. first + 1 \in 1 .. n /\ 10 + (first + 1) = 11 + first
      BY <1>2, <1>4, <1>5
    <3>2. R[11 + first] = log[first + 1]
      BY <1>9, <3>1
    <3> QED BY <1>10, <2>2, <3>2, Renamed
  <2>6. 11 + first \in Occurs(R, h) /\ Occurs(R, h) \subseteq Nat /\ Occurs(R, h) # {}
    <3>1. 11 + first \in 1 .. 22 + n + s
      BY <1>2, <1>4, <1>5
    <3> QED BY <1>8, <2>4, <2>5, <3>1 DEF Occurs
  <2>7. At(R, h) <= 11 + first
    BY <2>6, LeastIn DEF At
  <2>8. c <= At(R, h)
    <3>0. \A i \in {3, 4, 5, 6} : At(R, i) \in Nat
      <4> SUFFICES ASSUME NEW i \in {3, 4, 5, 6} PROVE At(R, i) \in Nat
        OBVIOUS
      <4>1. Occurs(R, i) # {}
        <5>1. i \in Sections
          BY DEF Sections
        <5> QED BY <1>15, <5>1
      <4>2. Occurs(R, i) \subseteq Nat
        BY <1>8 DEF Occurs
      <4> QED BY <4>1, <4>2, LeastIn DEF At
    <3>1. At(R, 3) < At(R, 4) /\ At(R, 4) < At(R, 5) /\ At(R, 5) < At(R, 6)
      <4>1. /\ 3 \in Sections \ {6} /\ 4 \in Sections \ {6} /\ 5 \in Sections \ {6}
            /\ 3 + 1 = 4 /\ 4 + 1 = 5 /\ 5 + 1 = 6
        BY DEF Sections
      <4>2. \A i \in Sections \ {6} : At(R, i) < At(R, i + 1)
        BY <1>15 DEF _validate_section_order
      <4>3. At(R, 3) < At(R, 3 + 1) /\ At(R, 4) < At(R, 4 + 1) /\ At(R, 5) < At(R, 5 + 1)
        BY <4>1, <4>2
      <4> QED BY <4>1, <4>3
    <3>2. h = 3 \/ h = 4 \/ h = 5 \/ h = 6
      OBVIOUS
    <3> QED BY <1>17, <3>0, <3>1, <3>2
  <2>9. At(R, h) \in Nat
    BY <2>6, LeastIn DEF At
  <2> QED BY <1>2, <1>22, <1>28, <2>7, <2>8, <2>9
<1> QED BY <1>29, <1>30

(* What the summary brings to a prompt that passes.  The heading of        *)
(* section 3 is found at the latest where the renderer writes it, so       *)
(* everything after it is looked at.                                       *)
LEMMA PassedSummary ==
  ASSUME NEW p, Sound(p), Valid(p)
  PROVE  /\ \A line \in Range(p.sample) : ~line.claims
         /\ ~p.ranking
         /\ p.dream_count = 0 => p.dreams = <<>>
<1> DEFINE R == render_compiled_prompt(p)
           log == Log(p.dreams)
           more == SampleLines(p.sample)
<1>1. /\ p.dream_count \in Nat /\ p.ranking \in BOOLEAN /\ p.dreams \in Seq(DreamTexts)
      /\ p.sample \in Seq(Lines) /\ DOMAIN p.sample = 1 .. Len(p.sample)
      /\ Len(p.sample) \in Nat
  BY LenProperties DEF Sound
<1>2. PICK n \in Nat \ {0} : n = Len(log)
  BY <1>1, LogTyped
<1>3. PICK s \in Nat \ {0} : s = Len(more)
  BY <1>1, SampleShape
<1>4. Placed(R, p, n, s)
  BY <1>1, <1>2, <1>3, RenderedPlaced
<1>5. validate_prompt_structure(R)
      /\ _lexical_safety_on_controlled_text(
           SubSeq(R, 1, At(R, 2) - 1) \o SubSeq(R, At(R, 3), Len(R)))
  BY DEF Valid, validate_prompt_safety
<1> HIDE DEF R, log, more
<1>6. /\ R \in Seq(Lines) /\ Len(R) = 22 + n + s /\ DOMAIN R = 1 .. 22 + n + s
      /\ At(R, 2) = 10
  BY <1>4, FirstHeads
<1>7. PICK c : c = At(R, 3)
  OBVIOUS
<1>8. c \in 11 .. 11 + n /\ 3 \in R[c].heads
  <2>1. 11 + n \in 1 .. 22 + n + s /\ R[11 + n].heads = {3}
    BY <1>4, PlainLines DEF Placed
  <2>2. 11 + n \in Occurs(R, 3) /\ Occurs(R, 3) \subseteq Nat
    BY <1>6, <2>1 DEF Occurs
  <2>3. c \in Occurs(R, 3) /\ c <= 11 + n
    BY <1>7, <2>2, LeastIn DEF At
  <2>4. c \in Nat /\ 3 \in R[c].heads
    BY <2>2, <2>3 DEF Occurs
  <2>5. At(R, 2) < At(R, 2 + 1)
    <3>1. 2 \in Sections \ {6}
      BY DEF Sections
    <3> QED BY <1>5, <3>1 DEF validate_prompt_structure, _validate_section_order
  <2>6. 10 < c
    <3>1. 2 + 1 = 3
      OBVIOUS
    <3> QED BY <1>6, <1>7, <2>5, <3>1
  <2> QED BY <2>3, <2>4, <2>6
<1>9. ASSUME NEW i \in c .. 22 + n + s PROVE ~R[i].claims
  <2> DEFINE front == SubSeq(R, 1, 9)
             back == SubSeq(R, c, 22 + n + s)
             lines == front \o back
  <2>1. front \in Seq(Lines)
    <3>1. 1 \in 1 .. Len(R) /\ 9 \in 1 - 1 .. Len(R)
      BY <1>6
    <3> QED BY <1>6, <3>1, SubSeqAt
  <2>2. /\ back \in Seq(Lines) /\ Len(back) = (22 + n + s) - c + 1
        /\ \A l \in 1 .. (22 + n + s) - c + 1 : back[l] = R[c - 1 + l]
    <3>1. PICK e : e = 22 + n + s
      OBVIOUS
    <3>2. c \in 1 .. Len(R) /\ e \in c - 1 .. Len(R)
      BY <1>6, <1>8, <3>1
    <3>3. /\ SubSeq(R, c, e) \in Seq(Lines) /\ Len(SubSeq(R, c, e)) = e - c + 1
          /\ \A l \in 1 .. e - c + 1 : SubSeq(R, c, e)[l] = R[c - 1 + l]
      BY <1>6, <3>2, SubSeqAt
    <3> QED BY <3>1, <3>3
  <2>3. \A line \in Range(lines) : ~line.claims
    <3>1. At(R, 2) - 1 = 9 /\ At(R, 3) = c /\ Len(R) = 22 + n + s
      BY <1>6, <1>7
    <3>2. _lexical_safety_on_controlled_text(lines)
      BY <1>5, <3>1
    <3> QED BY <3>2 DEF _lexical_safety_on_controlled_text
  <2> HIDE DEF front, back
  <2>4. /\ lines \in Seq(Lines) /\ Len(lines) = Len(front) + Len(back)
        /\ Len(front) \in Nat /\ Len(back) \in Nat
        /\ \A l \in 1 .. Len(back) : lines[Len(front) + l] = back[l]
    <3>1. front \in Seq(Lines) /\ back \in Seq(Lines)
      BY <2>1, <2>2
    <3> QED BY <3>1, Concat
  <2> HIDE DEF lines
  <2>5. PICK l : l = i - c + 1
    OBVIOUS
  <2>6. l \in 1 .. (22 + n + s) - c + 1 /\ c - 1 + l = i
    BY <1>8, <2>5
  <2>7. lines[Len(front) + l] = R[i]
    <3>1. l \in 1 .. Len(back)
      BY <2>2, <2>6
    <3>2. lines[Len(front) + l] = back[l] /\ back[l] = R[c - 1 + l]
      BY <2>2, <2>4, <2>6, <3>1
    <3> QED BY <2>6, <3>2
  <2>8. Len(front) + l \in DOMAIN lines
    <3>1. DOMAIN lines = 1 .. Len(lines)
      BY <2>4, LenProperties
    <3>2. l \in 1 .. Len(back)
      BY <2>2, <2>6
    <3>3. Len(front) + l \in 1 .. Len(lines)
      BY <2>4, <3>2
    <3> QED BY <3>1, <3>3
  <2> QED BY <2>3, <2>7, <2>8 DEF Range
<1>10. ~p.ranking
  <2>1. 12 + n \in c .. 22 + n + s
    BY <1>8
  <2>2. R[12 + n] = KeySymbols(p.ranking)
    BY <1>4 DEF Placed
  <2>3. ~R[12 + n].claims
    BY <1>9, <2>1
  <2>4. KeySymbols(p.ranking).claims = p.ranking
    BY PlainLines
  <2> QED BY <2>2, <2>3, <2>4, Zenon
<1>11. ASSUME NEW i \in 1 .. Len(p.sample) PROVE ~p.sample[i].claims
  <2>1. p.sample # <<>>
    BY <1>1
  <2>2. s = Len(p.sample) /\ more[i].claims = p.sample[i].claims
    BY <1>1, <1>3, <2>1, SampleShape DEF more
  <2>3. R[13 + n + i] = more[i]
    <3>1. \A l \in 1 .. s : R[13 + n + l] = more[l]
      BY <1>4 DEF Placed, more
    <3> QED BY <2>2, <3>1
  <2>4. 13 + n + i \in c .. 22 + n + s
    BY <1>1, <1>8, <2>2
  <2>5. ~R[13 + n + i].claims
    BY <1>9, <2>4
  <2> QED BY <2>2, <2>3, <2>5, Zenon
<1>12. \A line \in Range(p.sample) : ~line.claims
  BY <1>1, <1>11 DEF Range
<1>13. ASSUME p.dream_count = 0, p.dreams # <<>> PROVE FALSE
  <2> DEFINE body == _extract_section_body(R, 2)
  <2>1. R[11] = Numbered("marker", 1)
    <3>1. log = FlattenSeq(Entries(p.dreams))
      BY <1>1, <1>13, LogTyped DEF log
    <3>2. 1 \in 1 .. Len(p.dreams) /\ \A j \in 1 .. 1 - 1 : Len(p.dreams[j]) = 1
      BY <1>1, <1>13, EmptySeq
    <3>3. Logged(log, p.dreams, 1)
      BY <1>1, <3>1, <3>2, LogShape
    <3>4. LinesOfEntry(log, p.dreams, 1)
      <4>1. 1 \in 1 .. 1
        OBVIOUS
      <4> QED BY <1>1, <3>2, <3>3, <4>1, LoggedLines
    <3>5. log[4 * (1 - 1) + 1] = Numbered("marker", 1) /\ 4 * (1 - 1) + 1 = 1
      BY <3>4 DEF LinesOfEntry
    <3>6. 1 \in 1 .. n /\ 10 + 1 = 11
      OBVIOUS
    <3>7. \A i \in 1 .. n : R[10 + i] = log[i]
      BY <1>4 DEF Placed, log
    <3> QED BY <3>5, <3>6, <3>7
  <2>2. R[11].name = "marker" /\ R[11].heads = {} /\ R[10].name = "heading"
    BY <1>4, <2>1, PlainLines DEF Placed
  <2>3. c \in 12 .. Len(R)
    <3>1. c # 11
      BY <1>8, <2>2
    <3> QED BY <1>6, <1>8, <3>1
  <2>4. PICK f \in 1 .. c - 10 :
          /\ Ends(body, f) /\ \A i \in 1 .. f : body[i].name = R[10 + i].name
    <3>1. R[11].name # "blank"
      BY <2>2
    <3> QED BY <1>6, <1>7, <2>2, <2>3, <3>1, LogBody
  <2>5. body[1].name = "marker"
    <3>1. 1 \in 1 .. f /\ 10 + 1 = 11
      OBVIOUS
    <3> QED BY <2>2, <2>4, <3>1
  <2>6. body = <<Line("placeholder")>>
    <3>1. DreamCount(_extract_section_body(R, 1)) = 0
      BY <1>4, <1>13, FirstSection
    <3>2. _validate_dream_section(body, DreamCount(_extract_section_body(R, 1)))
      BY <1>5 DEF validate_prompt_structure
    <3> QED BY <3>1, <3>2 DEF _validate_dream_section
  <2>7. Line("placeholder").name = "placeholder"
    BY PlainLines
  <2> HIDE DEF body
  <2>8. body[1] = Line("placeholder")
    BY <2>6
  <2> QED BY <2>5, <2>7, <2>8
<1> QED BY <1>10, <1>12, <1>13
-----------------------------------------------------------------------------
(* What the contract's rules on sections, blocks, fields, headings and     *)
(* wording are together, for dreams of any lines: every plain prompt       *)
(* passes, and a prompt that passes is checked (validate_prompt_structure, *)
(* validate_prompt_safety).                                                *)
THEOREM ContractChecks ==
  ASSUME NEW p, Sound(p)
  PROVE  (Plain(p) => Valid(p)) /\ (Valid(p) => Checked(p))
<1>1. Plain(p) => Valid(p)
  BY PlainPasses
<1>2. ASSUME Valid(p) PROVE Checked(p)
  <2>1. p.dreams \in Seq(DreamTexts) /\ Len(p.dreams) \in Nat
        /\ DOMAIN p.dreams = 1 .. Len(p.dreams)
    BY LenProperties DEF Sound
  <2>2. ASSUME NEW k \in DOMAIN p.dreams, ~Bare(p.dreams[k])
        PROVE  \E j \in 1 .. k : Imitates(p.dreams[j])
    <3> DEFINE T == {j \in 1 .. k : ~Bare(p.dreams[j])}
    <3>1. PICK j \in T : \A l \in T : j <= l
      <4>1. T \subseteq Nat /\ T # {}
        BY <2>1, <2>2
      <4> HIDE DEF T
      <4> QED BY <4>1, LeastExists
    <3>2. j \in 1 .. Len(p.dreams) /\ ~Bare(p.dreams[j])
      BY <2>1
    <3>3. \A l \in 1 .. j - 1 : Bare(p.dreams[l])
      BY <2>1, <3>1
    <3>4. validate_prompt_structure(render_compiled_prompt(p))
      BY <1>2 DEF Valid, validate_prompt_safety
    <3>5. Imitates(p.dreams[j])
      BY <3>2, <3>3, <3>4, PassedImitates
    <3> QED BY <3>5
  <2>3. /\ \A line \in Range(p.sample) : ~line.claims
        /\ ~p.ranking
        /\ p.dream_count = 0 => p.dreams = <<>>
    BY <1>2, PassedSummary
  <2> QED BY <2>2, <2>3 DEF Checked
<1> QED BY <1>1, <1>2
=============================================================================
