----------------------------- MODULE WorkflowRun -----------------------------
(***************************************************************************)
(* What one run of a workflow promises its client, without workers, slots, *)
(* retries or messages: in which order tasks may start and end, which ones *)
(* may be skipped, and when a verdict may be given.                        *)
(***************************************************************************)
EXTENDS TaskGraph

VARIABLES
    state,     \* state[t]: where task t stands
    verdict    \* the status of the report, "none" until there is one

vars == <<state, verdict>>

Terminal == {"succeeded", "failed", "skipped"}
TaskStates == {"waiting", "running"} \cup Terminal
Verdicts == {"succeeded", "failed"}

Waiting == {t \in Tasks : state[t] = "waiting"}
Running == {t \in Tasks : state[t] = "running"}

TypeOK ==
    /\ state \in [Tasks -> TaskStates]
    /\ verdict \in Verdicts \cup {"none"}

Init ==
    /\ state = [t \in Tasks |-> "waiting"]
    /\ verdict = "none"

\* A task starts only when all it depends on has succeeded.
Start(t) ==
    /\ verdict = "none"
    /\ state[t] = "waiting"
    /\ \A d \in Deps(t) : state[d] = "succeeded"
    /\ state' = [state EXCEPT ![t] = "running"]
    /\ UNCHANGED verdict

\* A running task ends, and with it some of the tasks that it, or another
\* task skipped with it, leaves without a dependency they need.
Finish(t, end, lost) ==
    /\ state[t] = "running"
    /\ end \in Terminal
    /\ lost \subseteq Waiting
    /\ state' = [u \in Tasks |-> IF u = t THEN end
                                 ELSE IF u \in lost THEN "skipped" ELSE state[u]]
    /\ \A u \in lost : \E d \in Deps(u) : state'[d] \in {"failed", "skipped"}
    /\ UNCHANGED verdict

\* The run gives up what it has not started: only when nothing is running
\* any more and some task has not succeeded.
Abort ==
    /\ verdict = "none"
    /\ Running = {}
    /\ \E t \in Tasks : state[t] \in {"failed", "skipped"}
    /\ state' = [t \in Tasks |-> IF state[t] = "waiting" THEN "skipped" ELSE state[t]]
    /\ UNCHANGED verdict

\* The report is written once, about a run in which every task has ended,
\* and it does not say "succeeded" of a run with a failed task.
Conclude(v) ==
    /\ verdict = "none"
    /\ \A t \in Tasks : state[t] \in Terminal
    /\ v = "succeeded" => \A t \in Tasks : state[t] # "failed"
    /\ v = "failed" => \E t \in Tasks : state[t] # "succeeded"
    /\ verdict' = v
    /\ UNCHANGED state

Next ==
    \/ \E t \in Tasks :
         \/ Start(t)
         \/ \E end \in Terminal, lost \in SUBSET Tasks : Finish(t, end, lost)
    \/ Abort
    \/ \E v \in Verdicts : Conclude(v)

Spec == Init /\ [][Next]_vars
==============================================================================
