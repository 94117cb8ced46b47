-------------------------- MODULE WorkflowSpecProps --------------------------
(***************************************************************************)
(* What loading a workflow must get right.                                 *)
(***************************************************************************)
EXTENDS WorkflowSpec

Frame == [node : Ids(doc), next : Nat \ {0}]

\* Every variable keeps to the values loading gives it.
LoaderTypeOK ==
    /\ verdict \in {"parse", "validate", "search", "accepted"} \cup Errors
    /\ color \in [Ids(doc) -> {"white", "grey", "black"}]
    /\ stack \in Seq(Frame)

-----------------------------------------------------------------------------
(* The search against a reference definition *)

\* No task can wait for itself: every set of tasks has one that depends on none
\* of the set.
AcyclicDoc ==
    \A S \in SUBSET Ids(doc) : S # {} => \E id \in S : Deps(doc, id) \cap S = {}

\* A chain of n + 1 tasks each of which depends on the next.
HasChain(n) ==
    \E p \in [1..(n + 1) -> Ids(doc)] :
        /\ \A i \in 1..n : p[i + 1] \in Deps(doc, p[i])
        /\ \A i, j \in 1..(n + 1) : p[i] = p[j] => i = j

\* What the loader accepts the engines can run: unique ids, known dependencies
\* and providers, and no cycle for tasks to wait in for ever (validate).
AcceptedIsRunnable ==
    verdict = "accepted" =>
        ~Duplicate(doc) /\ ~UnknownDep(doc) /\ ~UnknownProvider(doc) /\ AcyclicDoc

\* And it turns nothing away without a reason: a document refused for a cycle has
\* one, though tasks are reached on several ways and listed twice; one refused
\* for its depth has a chain that long.
RefusedForAReason ==
    /\ verdict = "cycle" => ~AcyclicDoc
    /\ verdict = "recursion" => HasChain(MaxDepth)

\* While it searches, the grey nodes are the calls of visit in progress, and each
\* of them was made for a dependency of the one below; what is black has nothing
\* but black below it.
SearchInv ==
    verdict = "search" =>
        /\ {id \in Ids(doc) : color[id] = "grey"} = {stack[i].node : i \in DOMAIN stack}
        /\ \A i \in 1..(Len(stack) - 1) : stack[i + 1].node \in Deps(doc, stack[i].node)
        /\ \A id \in Ids(doc) : color[id] = "black" =>
               \A d \in Deps(doc, id) : color[d] = "black"

\* The search keeps its colours and its stack right at every step, and its
\* verdict, the loader's, is right whichever way the document is wrong.
SearchIsSound == LoaderTypeOK /\ SearchInv /\ AcceptedIsRunnable /\ RefusedForAReason

\* Loading ends, with a workflow or an error, on cyclic documents too.
LoadingEnds == <>(verdict \in Errors \cup {"accepted"})

-----------------------------------------------------------------------------
(* Two readers of one document *)

\* Nothing the two readers fill in differently: a task, slots, and retry objects
\* that say how long to wait and whether with jitter.  (Without jitter: true,
\* Python's retries have it and Go's do not.)
Explicit(d) ==
    /\ d.tasks # <<>> /\ Slots(d) > 0
    /\ \A r \in {d.retry} \cup {d.tasks[i].retry : i \in DOMAIN d.tasks} :
           r.given => r.base # Absent /\ r.jitter # <<>>

\* The Go engine runs what the Python engine would: on a document that leaves
\* nothing open, both accept, with the same slots, timeouts and retries: how many,
\* after which waits, with jitter or not.
SameReading ==
    verdict = "accepted" /\ Explicit(doc) =>
        ~GoRefuses(doc) /\ GoWorkflow(doc) = Workflow(doc)

\* A workflow written by to_dict can be read again, as the same workflow.
ToDictReadsBack ==
    verdict = "accepted" =>
        /\ ~ToDictRaises(doc, FALSE)
        /\ ~Malformed(ToDict(doc))
        /\ Workflow(ToDict(doc)) = Workflow(doc)
=============================================================================
