--------------------------- MODULE MCTokenBucket ---------------------------
(***************************************************************************)
(* Three calls, one of which asks for two tokens, at each kind of bucket:  *)
(* none, the Python one, the Go one; with a window of one tick, with       *)
(* windows that do not divide evenly, with one that is too small for the   *)
(* larger call, and with a rate of zero.                                   *)
(***************************************************************************)
EXTENDS TokenBucketProps

CONSTANTS c1, c2, c3

MCAmount == [c \in Callers |-> IF c = c3 THEN 2 ELSE 1]
MCLimits ==
    [given : {TRUE}, requests : 0..3, per : {1, 2, 5}, checked : BOOLEAN]
        \cup [given : {FALSE}, requests : {1}, per : {1}, checked : BOOLEAN]
=============================================================================
