------------------------------ MODULE MCPyEngine ------------------------------
(***************************************************************************)
(* A small workflow for the Python engine.                                 *)
(***************************************************************************)
EXTENDS PyEngineProps, MCGraphs

CONSTANT e

\* The diamond with a task beside it.
Kite == Diamond @@ (e :> <<>>)

RetryBOnce == [t \in Tasks |-> IF t = b THEN 1 ELSE Absent]
CFailsFast == [t \in Tasks |-> IF t = c THEN "fail_fast" ELSE Absent]

\* d also refers to e, which it does not depend on.
DMentionsE == [t \in Tasks |-> Deps(t) \cup IF t = d THEN {e} ELSE {}]
==============================================================================
