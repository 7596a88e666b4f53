----------------------------- MODULE JobLifecycle -----------------------------
(***************************************************************************)
(* What the runtime promises about one analysis job, seen from a reader of *)
(* the database: a job is queued, is executed some number of times, and    *)
(* ends completed with exactly one result or failed with none; an end is   *)
(* final.  One transaction may move several jobs.                          *)
(***************************************************************************)
EXTENDS Naturals

CONSTANT Jobs

VARIABLES status, results

vars == <<status, results>>

Terminal == {"completed", "failed"}

(* The moves the job service makes: create_job, acquire_available_jobs,    *)
(* requeue and the stale recovery, mark_completed, mark_failed.            *)
Edges == {<<"absent", "queued">>, <<"queued", "running">>,
          <<"running", "queued">>, <<"running", "completed">>,
          <<"running", "failed">>}

Init ==
  /\ status = [j \in Jobs |-> "absent"]
  /\ results = [j \in Jobs |-> 0]

(* Job j stays as it is, or moves along an edge; the result appears with   *)
(* the completion.                                                         *)
Advance(j) ==
  \/ status'[j] = status[j] /\ results'[j] = results[j]
  \/ /\ <<status[j], status'[j]>> \in Edges
     /\ results'[j] = results[j] + (IF status'[j] = "completed" THEN 1 ELSE 0)

Next ==
  /\ status' \in [Jobs -> Terminal \cup {"absent", "queued", "running"}]
  /\ results' \in [Jobs -> Nat]
  /\ \A j \in Jobs : Advance(j)

Spec == Init /\ [][Next]_vars

=============================================================================
