------------------------ MODULE PromptVersionsProofs ------------------------
(***************************************************************************)
(* PromptVersions is correct for every set of edits.  The invariant: two   *)
(* edits that have chosen their rows both chose version 1, so at most one  *)
(* of them holds row locks; the unique index lets only an edit insert that *)
(* has read the newest version; and that version stays the newest until it *)
(* commits, because no other edit can get to its own insert.               *)
(***************************************************************************)
EXTENDS PromptVersions, FiniteSetTheorems, SequenceTheorems, TLAPS

Contents == Edits \cup {Seed}

(* The rows of an edit are the edit's only if it was stored.               *)
Rows(e) == {v \in DOMAIN table : table[v] = e}
Told(e) == IF txns[e].step = "stored" THEN \E v \in Rows(e) : Rows(e) = {v}
           ELSE Rows(e) = {}

Numbered == \E n \in Versions : DOMAIN table = 1 .. n /\ active = {n}

Txns ==
  \A e \in Edits :
     /\ txns[e].step \in {"updating", "locking"} \cup Locking => txns[e].seen \in DOMAIN table
     /\ txns[e].step \in {"locking"} \cup Locking => 1 \in txns[e].picked
     /\ txns[e].step = "committing" => /\ active = {txns[e].seen}
                                       /\ txns[e].seen \in txns[e].picked

Exclusive ==
  \A e, f \in Edits : txns[e].step \in Locking /\ txns[f].step \in Locking => e = f

Contained == table[1] = Seed /\ \A e \in Edits : Told(e)

IInv == TypeOK /\ Numbered /\ Txns /\ Exclusive /\ Contained

(* The initial table has one row.                                          *)
LEMMA InitInv == Init => IInv
<1> SUFFICES ASSUME Init PROVE IInv
  OBVIOUS
<1> USE DEF Init
<1>1. TypeOK
  BY DEF TypeOK, Txn, Steps, Versions
<1>2. Numbered
  <2>1. DOMAIN table = 1 .. 1 /\ active = {1} /\ 1 \in Versions
    BY DEF Versions
  <2> QED BY <2>1 DEF Numbered
<1>3. Txns
  BY DEF Txns, Locking
<1>4. Exclusive
  BY DEF Exclusive, Locking
<1>5. Contained
  BY EditsAssumption DEF Contained, Told, Rows
<1> QED BY <1>1, <1>2, <1>3, <1>4, <1>5 DEF IInv

(* A step that leaves the table alone and moves one request, to a step     *)
(* other than "stored".                                                    *)
LEMMA QuietStep ==
  ASSUME IInv, UNCHANGED <<table, active>>, NEW e \in Edits, NEW t \in Txn,
         txns' = [txns EXCEPT ![e] = t],
         txns[e].step # "stored", t.step # "stored",
         t.step \in {"updating", "locking"} \cup Locking => t.seen \in DOMAIN table,
         t.step \in {"locking"} \cup Locking => 1 \in t.picked,
         t.step = "committing" => active = {t.seen} /\ t.seen \in t.picked,
         \A f \in Edits \ {e} : ~(t.step \in Locking /\ txns[f].step \in Locking)
  PROVE  IInv'
<1> USE DEF IInv
<1>1. TypeOK'
  BY DEF TypeOK
<1>t. txns \in [Edits -> Txn] /\ txns' \in [Edits -> Txn] /\ txns'[e] = t
      /\ \A f \in Edits \ {e} : txns'[f] = txns[f]
  BY <1>1 DEF TypeOK
<1>2. Numbered'
  BY DEF Numbered
<1>3. Txns'
  BY <1>t DEF Txns
<1>4. Exclusive'
  BY <1>t DEF Exclusive
<1>5. Contained'
  BY <1>t DEF Contained, Told, Rows
<1> QED BY <1>1, <1>2, <1>3, <1>4, <1>5

(* The step of a request alone.                                            *)
LEMMA MoveStep ==
  ASSUME IInv, NEW e \in Edits, NEW from \in Steps, NEW to \in Steps,
         Step(e, from, to)
  PROVE  /\ txns' = [txns EXCEPT ![e] = [txns[e] EXCEPT !.step = to]]
         /\ [txns[e] EXCEPT !.step = to] \in Txn
         /\ txns[e].step = from
BY DEF IInv, TypeOK, Step, Txn

LEMMA AbortInv == ASSUME IInv, NEW e \in Edits, Abort(e) PROVE IInv'
<1>1. [txns[e] EXCEPT !.step = "failed"] \in Txn
  BY DEF IInv, TypeOK, Txn, Steps, Ended
<1>2. txns' = [txns EXCEPT ![e] = [txns[e] EXCEPT !.step = "failed"]]
  BY DEF Abort, IInv, TypeOK, Txn
<1>3. txns[e].step # "stored"
  BY DEF Abort, Running, Locking
<1>4. [txns[e] EXCEPT !.step = "failed"].step = "failed"
  BY DEF IInv, TypeOK, Txn
<1> QED BY <1>1, <1>2, <1>3, <1>4, QuietStep DEF Abort, Locking

LEMMA SubmitInv ==
  ASSUME IInv, NEW e \in Edits, Submit(e) \/ SubmitUnknown(e) \/ InsertFails(e) PROVE IInv'
<1> SUFFICES ASSUME NEW from \in {"unsent", "inserting"},
                    NEW to \in {"reading", "notFound", "failed"},
                    Step(e, from, to), UNCHANGED <<table, active>>
             PROVE  IInv'
  BY DEF Submit, SubmitUnknown, InsertFails
<1> DEFINE t == [txns[e] EXCEPT !.step = to]
<1>1. from \in Steps /\ to \in Steps
  BY DEF Steps, Running, Locking, Ended
<1>2. t \in Txn /\ txns' = [txns EXCEPT ![e] = t] /\ txns[e].step = from
  BY <1>1, MoveStep
<1>3. t.step = to
  BY DEF IInv, TypeOK, Txn
<1>4. t.step \notin {"updating", "locking", "stored"} \cup Locking /\ from # "stored"
  BY <1>3 DEF Locking
<1> HIDE DEF t
<1> QED BY <1>2, <1>4, QuietStep DEF Locking

LEMMA ReadInv == ASSUME IInv, NEW e \in Edits, ReadLatest(e) PROVE IInv'
<1> PICK latest \in DOMAIN table :
      txns' = [txns EXCEPT ![e].seen = latest, ![e].step = "updating"]
  BY DEF ReadLatest
<1> DEFINE t == [txns[e] EXCEPT !.seen = latest, !.step = "updating"]
<1>1. t \in Txn /\ t.step = "updating" /\ t.seen = latest
  BY DEF IInv, TypeOK, Txn, Steps, Running, Versions
<1>2. txns' = [txns EXCEPT ![e] = t]
  BY DEF IInv, TypeOK, Txn
<1>3. txns[e].step = "reading" /\ UNCHANGED <<table, active>>
  BY DEF ReadLatest
<1> HIDE DEF t
<1> QED BY <1>1, <1>2, <1>3, QuietStep DEF Locking

LEMMA PickInv == ASSUME IInv, NEW e \in Edits, PickRows(e) PROVE IInv'
<1> DEFINE t == [txns[e] EXCEPT !.picked = DOMAIN table, !.step = "locking"]
<1>1. t \in Txn /\ t.step = "locking" /\ t.seen = txns[e].seen /\ t.picked = DOMAIN table
  BY DEF IInv, TypeOK, Txn, Steps, Running
<1>2. txns' = [txns EXCEPT ![e] = t]
  BY DEF PickRows, IInv, TypeOK, Txn
<1>3. 1 \in DOMAIN table
  BY DEF IInv, Numbered, Versions
<1>4. txns[e].seen \in DOMAIN table
  BY DEF IInv, Txns, PickRows
<1> QED BY <1>1, <1>2, <1>3, <1>4, QuietStep DEF PickRows, Locking

LEMMA DeactivateInv == ASSUME IInv, NEW e \in Edits, Deactivate(e) PROVE IInv'
<1> DEFINE t == [txns[e] EXCEPT !.step = "inserting"]
<1>1. t \in Txn /\ t.step = "inserting" /\ t.seen = txns[e].seen /\ t.picked = txns[e].picked
  BY DEF IInv, TypeOK, Txn, Steps, Running, Locking
<1>2. txns' = [txns EXCEPT ![e] = t] /\ txns[e].step = "locking"
  BY MoveStep DEF Deactivate, Steps, Running, Locking
<1>3. \A f \in Edits : txns[f].step \in {"locking"} \cup Locking => 1 \in txns[f].picked
  BY DEF IInv, Txns
<1>4. \A f \in Edits \ {e} : txns[f].step \notin Locking
  BY <1>2, <1>3 DEF Deactivate
<1>5. txns[e].seen \in DOMAIN table
  BY <1>2 DEF IInv, Txns
<1> QED BY <1>1, <1>2, <1>3, <1>4, <1>5, QuietStep DEF Deactivate

LEMMA InsertInv == ASSUME IInv, NEW e \in Edits, Insert(e) PROVE IInv'
<1> DEFINE t == [txns[e] EXCEPT !.step = "committing"]
<1>1. t \in Txn /\ t.step = "committing" /\ t.seen = txns[e].seen /\ t.picked = txns[e].picked
  BY DEF IInv, TypeOK, Txn, Steps, Running, Locking
<1>2. txns' = [txns EXCEPT ![e] = t] /\ txns[e].step = "inserting"
  BY MoveStep DEF Insert, Steps, Running, Locking
<1>3. txns[e].seen \in DOMAIN table /\ 1 \in txns[e].picked
  BY <1>2 DEF IInv, Txns, Locking
<1>4. active = {txns[e].seen} /\ active \subseteq txns[e].picked
  <2> PICK n \in Versions : DOMAIN table = 1 .. n /\ active = {n}
    BY DEF IInv, Numbered
  <2>1. txns[e].seen + 1 \notin 1 .. n /\ active \subseteq txns[e].picked
    BY DEF Insert, Conflict, next_version
  <2> QED BY <1>3, <2>1 DEF Versions
<1>5. \A f \in Edits \ {e} : txns[f].step \notin Locking
  BY <1>2 DEF IInv, Exclusive, Locking
<1> QED BY <1>1, <1>2, <1>3, <1>4, <1>5, QuietStep DEF Insert

(* The commit: the version read is the newest, so the next one is new.     *)
LEMMA CommitInv == ASSUME IInv, NEW e \in Edits, Commit(e) PROVE IInv'
<1> DEFINE t == [txns[e] EXCEPT !.step = "stored"]
<1> PICK n \in Versions : DOMAIN table = 1 .. n /\ active = {n}
  BY DEF IInv, Numbered
<1>1. /\ t \in Txn /\ t.step = "stored"
      /\ txns' = [txns EXCEPT ![e] = t] /\ txns[e].step = "committing"
  BY MoveStep DEF Commit, Steps, Running, Locking, Ended, IInv, TypeOK, Txn
<1>2. txns[e].seen = n /\ n \in txns[e].picked
  BY <1>1 DEF IInv, Txns
<1>3. active' = {n + 1}
  BY <1>2 DEF Commit, next_version, Versions
<1>4. /\ DOMAIN table' = 1 .. (n + 1)
      /\ table'[n + 1] = e
      /\ \A v \in 1 .. n : table'[v] = table[v]
  BY <1>2 DEF Commit, next_version, Versions
<1>5. \A f \in Edits \ {e} : txns[f].step \notin Locking
  BY <1>1 DEF IInv, Exclusive, Locking
<1>6. \A f \in Edits \ {e} : txns'[f] = txns[f]
  BY <1>1 DEF IInv, TypeOK
<1>7. txns'[e] = t
  BY <1>1 DEF IInv, TypeOK
<1>8. TypeOK'
  <2>1. txns' \in [Edits -> Txn]
    BY <1>1 DEF IInv, TypeOK
  <2>2. table' \in [DOMAIN table' -> Edits \cup {Seed}]
    BY DEF Commit, IInv, TypeOK
  <2>3. DOMAIN table' \subseteq Versions /\ active' \subseteq Versions
    BY <1>3, <1>4 DEF Versions
  <2> QED BY <2>1, <2>2, <2>3 DEF TypeOK
<1>9. Numbered'
  <2>1. n + 1 \in Versions
    BY DEF Versions
  <2> QED BY <1>3, <1>4, <2>1 DEF Numbered
<1>10. Txns'
  <2>1. \A f \in Edits \ {e} : txns'[f].step \in {"updating", "locking"} =>
                                   txns'[f].seen \in DOMAIN table'
    BY <1>4, <1>6 DEF IInv, Txns, Versions
  <2> QED BY <1>1, <1>5, <1>6, <1>7, <2>1 DEF IInv, Txns, Locking
<1>11. Exclusive'
  BY <1>1, <1>5, <1>6, <1>7 DEF Exclusive, Locking
<1>12. Contained'
  <2>1. table'[1] = Seed
    BY <1>4 DEF IInv, Contained, Versions
  <2>2. Told(e)'
    <3>1. \A v \in 1 .. n : table[v] # e
      BY <1>1 DEF IInv, Contained, Told, Rows
    <3>2. Rows(e)' = {n + 1}
      BY <3>1, <1>4 DEF Rows, Versions
    <3> QED BY <3>2, <1>1, <1>7 DEF Told
  <2>3. ASSUME NEW f \in Edits \ {e} PROVE Told(f)'
    <3>1. Rows(f)' = Rows(f)
      BY <1>4 DEF Rows, Versions
    <3>2. Told(f)
      BY DEF IInv, Contained
    <3> QED BY <3>1, <3>2, <1>6 DEF Told
  <2> QED BY <2>1, <2>2, <2>3 DEF Contained
<1> QED BY <1>8, <1>9, <1>10, <1>11, <1>12 DEF IInv

LEMMA StepInv == IInv /\ [Next]_vars => IInv'
<1> SUFFICES ASSUME IInv, [Next]_vars PROVE IInv'
  OBVIOUS
<1>1. CASE UNCHANGED vars
  BY <1>1 DEF vars, IInv, TypeOK, Numbered, Txns, Exclusive, Contained, Told, Rows
<1>2. ASSUME NEW e \in Edits, Submit(e) \/ SubmitUnknown(e) \/ Progress(e) \/ Abort(e)
      PROVE  IInv'
  BY <1>2, SubmitInv, ReadInv, PickInv, DeactivateInv, InsertInv, CommitInv, AbortInv
     DEF Progress
<1> QED BY <1>1, <1>2 DEF Next

LEMMA InductiveInvariant == Spec => []IInv
BY InitInv, StepInv, PTL DEF Spec

(* The tables and requests keep their types (prompt_version_service).      *)
THEOREM TypeCorrect == Spec => []TypeOK
<1>1. IInv => TypeOK
  BY DEF IInv
<1> QED BY <1>1, InductiveInvariant, PTL

(* At every moment exactly one version is active, the newest               *)
(* (create_prompt_version).                                                *)
THEOREM OneActiveVersion == Spec => []NewestIsActive
<1>1. ASSUME IInv PROVE NewestIsActive
  <2> PICK n \in Versions : DOMAIN table = 1 .. n /\ active = {n}
    BY <1>1 DEF IInv, Numbered
  <2>1. n \in DOMAIN table /\ \A w \in DOMAIN table : w <= n
    BY DEF Versions
  <2> QED BY <2>1 DEF NewestIsActive
<1> QED BY <1>1, InductiveInvariant, PTL

(* No accepted edit is lost, overwritten or stored twice, and the versions *)
(* are numbered without a gap (create_prompt_version).                     *)
THEOREM EditsAreKept == Spec => []AcceptedIsStored
<1>1. ASSUME IInv PROVE AcceptedIsStored
  <2> PICK n \in Versions : DOMAIN table = 1 .. n
    BY <1>1 DEF IInv, Numbered
  <2>1. Cardinality(1 .. n) = n
    BY FS_Interval DEF Versions
  <2>2. table[1] = Seed /\ \A e \in Edits : Told(e)
    BY <1>1 DEF IInv, Contained
  <2> QED BY <2>1, <2>2 DEF AcceptedIsStored, Told, Rows
<1> QED BY <1>1, InductiveInvariant, PTL

(* An accepted edit supersedes the version it read                         *)
(* (create_prompt_version), whatever other edits do meanwhile.             *)
THEOREM EditsAreSerialized == Spec => SupersedesWhatItRead
<1>1. ASSUME IInv, [Next]_vars
      PROVE  [\A e \in Edits :
                (txns[e].step = "committing" /\ txns'[e].step = "stored")
                   => active = {txns[e].seen}]_vars
  BY <1>1 DEF IInv, Txns
<1> QED BY <1>1, InductiveInvariant, PTL DEF Spec, SupersedesWhatItRead

(* The table is, step by step, an insert-only log with its last entry      *)
(* active (PromptHistory, ADR-007).                                        *)
THEOREM TableImplementsHistory == Spec => ImplementsHistory
<1>1. Init => History!Init
  <2> SUFFICES ASSUME Init PROVE table = <<Seed>>
    BY DEF Init, History!Init
  <2> QED BY DEF Init
<1>2. ASSUME IInv, [Next]_vars PROVE [History!Next]_<<table, active>>
  <2>1. ASSUME NEW e \in Edits, Commit(e) PROVE History!Next
    <3> PICK n \in Versions : DOMAIN table = 1 .. n /\ active = {n}
      BY <1>2 DEF IInv, Numbered
    <3>1. txns[e].step = "committing" /\ txns[e].seen = n /\ n \in txns[e].picked
      BY <1>2, <2>1 DEF IInv, Txns, Commit, Step
    <3>2. table \in [1 .. n -> Contents]
      BY <1>2 DEF IInv, TypeOK, Contents
    <3>3. table \in Seq(Contents) /\ Len(table) = n
      BY <3>2 DEF Versions
    <3>4. table' = Append(table, e)
      <4>1. n \in Nat /\ next_version(e) = n + 1
        BY <3>1 DEF next_version, Versions
      <4>2. table' = [v \in 1 .. (n + 1) |-> IF v = n + 1 THEN e ELSE table[v]]
        BY <2>1, <4>1 DEF Commit
      <4>3. table' \in Seq(Contents) /\ Len(table') = n + 1
        <5>1. table' \in [1 .. (n + 1) -> Contents]
          BY <3>2, <4>1, <4>2 DEF Contents
        <5> QED BY <4>1, <5>1
      <4>4. /\ Append(table, e) \in Seq(Contents)
            /\ Len(Append(table, e)) = n + 1
            /\ \A i \in 1 .. (n + 1) :
                  Append(table, e)[i] = IF i = n + 1 THEN e ELSE table[i]
        BY <3>3, <4>1 DEF Contents
      <4>5. \A i \in 1 .. Len(table') : table'[i] = Append(table, e)[i]
        BY <4>2, <4>3, <4>4
      <4> QED BY <4>3, <4>4, <4>5, SeqEqual
    <3>5. active' = {n + 1} /\ Len(table') = n + 1
      BY <2>1, <3>1, <3>3, <3>4 DEF Commit, next_version, Versions
    <3> QED BY <3>4, <3>5 DEF History!Next, History!Publish
  <2>2. ASSUME NEW e \in Edits,
               Submit(e) \/ SubmitUnknown(e) \/ ReadLatest(e) \/ PickRows(e)
                 \/ Deactivate(e) \/ Insert(e) \/ InsertFails(e) \/ Abort(e)
        PROVE  UNCHANGED <<table, active>>
    BY <2>2 DEF Submit, SubmitUnknown, ReadLatest, PickRows, Deactivate, Insert,
                InsertFails, Abort
  <2>3. CASE UNCHANGED vars
    BY <2>3 DEF vars
  <2> QED BY <1>2, <2>1, <2>2, <2>3 DEF Next, Progress
<1> QED BY <1>1, <1>2, InductiveInvariant, PTL DEF Spec, ImplementsHistory, History!Spec
=============================================================================
