------------------------------- MODULE Executor -------------------------------
(***************************************************************************)
(* What the scheduler relies on when it calls Execute (the Executor        *)
(* interface of scheduler.go): each call returns once, with an answer the  *)
(* client gave to this invocation, or with an error of the transport, or   *)
(* because its context is done; and it does return once its context is.    *)
(***************************************************************************)
CONSTANT Invocations

VARIABLES
    call,   \* call[i]: where the call of Execute for i stands
    given,  \* the invocations the client has answered
    ended   \* the invocations whose context is done

vars == <<call, given, ended>>

Outcomes == {"answer", "error", "context"}

Init ==
    /\ call = [i \in Invocations |-> "none"]
    /\ given = {}
    /\ ended = {}

Begin(i) ==
    /\ call[i] = "none"
    /\ call' = [call EXCEPT ![i] = "open"]
    /\ UNCHANGED <<given, ended>>

\* The client answers what it was asked.
Give(i) ==
    /\ call[i] # "none"
    /\ given' = given \cup {i}
    /\ UNCHANGED <<call, ended>>

\* A timeout ends one context, a cancellation several.
EndContexts(S) ==
    /\ ended' = ended \cup S
    /\ UNCHANGED <<call, given>>

Return(i, how) ==
    /\ call[i] = "open"
    /\ how = "answer" => i \in given
    /\ how = "context" => i \in ended
    /\ call' = [call EXCEPT ![i] = how]
    /\ UNCHANGED <<given, ended>>

Next ==
    \/ \E i \in Invocations :
         Begin(i) \/ Give(i) \/ \E how \in Outcomes : Return(i, how)
    \/ \E S \in SUBSET Invocations : EndContexts(S)

Returns == \A i \in Invocations : (call[i] = "open" /\ i \in ended) ~> call[i] \in Outcomes

\* What one step may do, without the promise that a call returns.
Steps == Init /\ [][Next]_vars

Spec == Steps /\ Returns
==============================================================================
