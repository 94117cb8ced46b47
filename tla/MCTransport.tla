----------------------------- MODULE MCTransport -----------------------------
(***************************************************************************)
(* Two invocations, alike unless one has a timeout.                        *)
(***************************************************************************)
EXTENDS TransportProps, TLC

CONSTANTS i1, i2
==============================================================================
