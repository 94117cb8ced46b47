----------------------------- MODULE MCScheduler -----------------------------
(***************************************************************************)
(* Small workflows for TLC.                                                *)
(***************************************************************************)
EXTENDS SchedulerProps, MCGraphs

RefsAreDeps == [t \in Tasks |-> Deps(t)]

RetryAOnce == [t \in Tasks |-> IF t = a THEN 1 ELSE Absent]
RetryMix == [t \in Tasks |-> IF t = a THEN 1 ELSE IF t = b THEN -1 ELSE Absent]
CFailsFast == [t \in Tasks |-> IF t = c THEN "fail_fast" ELSE Absent]
BContinues == [t \in Tasks |-> IF t = b THEN "continue" ELSE Absent]

\* d also refers to c, which it does not depend on.
DMentionsC == [t \in Tasks |-> Deps(t) \cup IF t = d THEN {c} ELSE {}]
==============================================================================
