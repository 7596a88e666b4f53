--------------------------- MODULE PromptVersions ---------------------------
(***************************************************************************)
(* Concurrent edits of one prompt_type through POST                        *)
(* /admin/api/prompts/{id}: prompt_version_service.create_prompt_version   *)
(* in READ COMMITTED transactions.  No statement of it locks what it read: *)
(* the row locks of its UPDATE, the unique pair (prompt_type, version) and *)
(* the partial unique index on active rows must do.                        *)
(***************************************************************************)
EXTENDS Naturals, FiniteSets

CONSTANTS
  Edits,  \* the contents submitted, one request each
  Seed    \* the content of version 1: no route creates a first version

ASSUME EditsAssumption == Seed \notin Edits

VARIABLES
  table,   \* admin_prompt_versions of the type: version -> content
  active,  \* the versions whose active_flag is set
  txns     \* the request of each edit

vars == <<table, active, txns>>

(* The steps of a request: unsent, then the statement it executes next,    *)
(* then how it ended.  "locking" has chosen the rows to deactivate and     *)
(* waits for their locks.                                                  *)
Locking == {"inserting", "committing"}
Running == {"reading", "updating", "locking"} \cup Locking
Ended == {"stored", "notFound", "failed"}
Steps == {"unsent"} \cup Running \cup Ended

Versions == Nat \ {0}
Txn == [step : Steps, seen : Nat, picked : SUBSET Versions]

TypeOK ==
  /\ DOMAIN table \subseteq Versions
  /\ table \in [DOMAIN table -> Edits \cup {Seed}]
  /\ active \subseteq Versions
  /\ txns \in [Edits -> Txn]

Init ==
  /\ table = [v \in {1} |-> Seed]
  /\ active = {1}
  /\ txns = [e \in Edits |-> [step |-> "unsent", seen |-> 0, picked |-> {}]]
-----------------------------------------------------------------------------
Step(e, from, to) == txns[e].step = from /\ txns' = [txns EXCEPT ![e].step = to]

next_version(e) == txns[e].seen + 1

(* The administrator edits a version the list shows; the row is found.     *)
Submit(e) ==
  /\ Step(e, "unsent", "reading")
  /\ UNCHANGED <<table, active>>

(* Or an id that is no row's.                                              *)
SubmitUnknown(e) ==
  /\ Step(e, "unsent", "notFound")
  /\ UNCHANGED <<table, active>>

(* select(func.max(version))                                               *)
ReadLatest(e) ==
  /\ txns[e].step = "reading"
  /\ \E latest \in DOMAIN table :
       /\ \A v \in DOMAIN table : v <= latest
       /\ txns' = [txns EXCEPT ![e].seen = latest, ![e].step = "updating"]
  /\ UNCHANGED <<table, active>>

(* The UPDATE sees the rows committed when it starts.                      *)
PickRows(e) ==
  /\ txns[e].step = "updating"
  /\ txns' = [txns EXCEPT ![e].picked = DOMAIN table, ![e].step = "locking"]
  /\ UNCHANGED <<table, active>>

DeactivateEager(e) ==
  /\ \A f \in Edits \ {e} :
        txns[f].step \in {"locking"} \cup Locking => txns[f].picked \cap txns[e].picked = {}
  /\ Step(e, "locking", "inserting")
  /\ UNCHANGED <<table, active>>

(* It goes on when no other transaction holds one of them.  What another   *)
(* one inserted meanwhile is not among its rows.                           *)
Deactivate(e) ==
  /\ \A f \in Edits \ {e} :
        txns[f].step \in Locking => txns[f].picked \cap txns[e].picked = {}
  /\ Step(e, "locking", "inserting")
  /\ UNCHANGED <<table, active>>

ConflictOfActive(e) == ~(active \subseteq txns[e].picked)

(* The unique indexes: the version is new, no other row is active.         *)
Conflict(e) ==
  \/ next_version(e) \in DOMAIN table
  \/ ~(active \subseteq txns[e].picked)

(* An insert waits for an open transaction that has inserted the same key. *)
Insert(e) ==
  /\ \A f \in Edits \ {e} : txns[f].step # "committing"
  /\ ~Conflict(e)
  /\ Step(e, "inserting", "committing")
  /\ UNCHANGED <<table, active>>

InsertFails(e) ==
  /\ Conflict(e)
  /\ Step(e, "inserting", "failed")
  /\ UNCHANGED <<table, active>>

CommitKeepsActive(e) ==
  /\ Step(e, "committing", "stored")
  /\ table' = [v \in DOMAIN table \cup {next_version(e)} |->
                 IF v = next_version(e) THEN e ELSE table[v]]
  /\ active' = active \cup {next_version(e)}

Commit(e) ==
  /\ Step(e, "committing", "stored")
  /\ table' = [v \in DOMAIN table \cup {next_version(e)} |->
                 IF v = next_version(e) THEN e ELSE table[v]]
  /\ active' = (active \ txns[e].picked) \cup {next_version(e)}

(* A lost connection, a deadlock the database resolves, a crash: the       *)
(* transaction is rolled back.                                             *)
Abort(e) ==
  /\ txns[e].step \in Running
  /\ txns' = [txns EXCEPT ![e].step = "failed"]
  /\ UNCHANGED <<table, active>>

Progress(e) ==
  \/ ReadLatest(e) \/ PickRows(e) \/ Deactivate(e)
  \/ Insert(e) \/ InsertFails(e) \/ Commit(e)

Next == \E e \in Edits : Submit(e) \/ SubmitUnknown(e) \/ Progress(e) \/ Abort(e)

(* The event loop serves every request it has taken.                       *)
Spec == Init /\ [][Next]_vars
FairSpec == Spec /\ \A e \in Edits : WF_vars(Progress(e))
-----------------------------------------------------------------------------
(* One version is active, and it is the newest                             *)
(* (create_prompt_version, ADR-007: "one active version per prompt_type"). *)
NewestIsActive ==
  \E v \in DOMAIN table : active = {v} /\ \A w \in DOMAIN table : w <= v

(* Versions are numbered without a gap, and an accepted edit is exactly    *)
(* one of them: none is lost, overwritten or stored twice; an edit that    *)
(* was refused is none (create_prompt_version, AdminPromptVersion).        *)
AcceptedIsStored ==
  /\ DOMAIN table = 1 .. Cardinality(DOMAIN table)
  /\ table[1] = Seed
  /\ \A e \in Edits :
       LET mine == {v \in DOMAIN table : table[v] = e}
       IN  IF txns[e].step = "stored" THEN \E v \in mine : mine = {v} ELSE mine = {}

(* Between its SELECT max and its commit no edit lets another one commit:  *)
(* the version it supersedes is the one it has read                        *)
(* (create_prompt_version computes next_version before it locks a row).    *)
SupersedesWhatItRead ==
  [][\A e \in Edits :
        (txns[e].step = "committing" /\ txns'[e].step = "stored")
           => active = {txns[e].seen}]_vars

(* The table implements an insert-only log with its last entry active.     *)
History == INSTANCE PromptHistory WITH log <- table
ImplementsHistory == History!Spec

(* Every submitted edit is answered: waiting for row locks ends.           *)
EveryEditEnds == \A e \in Edits : txns[e].step \in Running ~> txns[e].step \in Ended
=============================================================================
