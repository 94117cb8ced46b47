----------------------------- MODULE MCMCPRegistry -----------------------------
(***************************************************************************)
(* Two threads that share the registry and one that does not.              *)
(***************************************************************************)
EXTENDS MCPRegistryProps

CONSTANTS c1, c2, t1, fs, web

C2CallsTwice == [c \in Callers |-> IF c = c2 THEN 2 ELSE 1]
==============================================================================
