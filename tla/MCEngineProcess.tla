--------------------------- MODULE MCEngineProcess ---------------------------
(***************************************************************************)
(* More events than the channel has room for.                              *)
(***************************************************************************)
EXTENDS EngineProcessProps
==============================================================================
