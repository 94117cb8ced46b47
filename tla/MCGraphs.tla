------------------------------- MODULE MCGraphs -------------------------------
(***************************************************************************)
(* The small task graphs the runs of both engines use.                     *)
(***************************************************************************)
EXTENDS TaskGraph, TLC

CONSTANTS a, b, c, d

\* a fans out to b and c, which d joins; d lists b twice.
Diamond == (a :> <<>>) @@ (b :> <<a>>) @@ (c :> <<a>>) @@ (d :> <<b, c, b>>)

\* b and c are independent of a chain a -> d.
Wide == (a :> <<>>) @@ (b :> <<>>) @@ (c :> <<>>) @@ (d :> <<a>>)
==============================================================================
