------------------------------ MODULE MCSkillRun ------------------------------
(***************************************************************************)
(* A retried skill on a thread with a timeout, one without a timeout, and  *)
(* a coroutine.                                                            *)
(***************************************************************************)
EXTENDS SkillRunProps

CONSTANTS s, u, v

RetryS == [t \in Tasks |-> IF t = s THEN 1 ELSE 0]
UsesOfSAndV == [t \in Tasks |-> IF t = v THEN 2 ELSE IF t = s THEN 1 ELSE 0]
WithAndWithoutU == {Tasks, Tasks \ {u}}
AllAdapters == Adapters
==============================================================================
