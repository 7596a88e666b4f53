---------------------------- MODULE PromptHistory ----------------------------
(***************************************************************************)
(* What the versions of one prompt promise (ADR-007): an insert-only log   *)
(* of contents, numbered from 1, the last of which is active.              *)
(***************************************************************************)
EXTENDS Naturals, Sequences

CONSTANTS
  Seed,   \* the content of version 1
  Edits   \* the contents administrators submit

VARIABLES log, active

Init == log = <<Seed>> /\ active = {1}

Publish(e) ==
  /\ log' = Append(log, e)
  /\ active' = {Len(log')}

Next == \E e \in Edits : Publish(e)

Spec == Init /\ [][Next]_<<log, active>>
=============================================================================
