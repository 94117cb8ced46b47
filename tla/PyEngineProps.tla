---------------------------- MODULE PyEngineProps ----------------------------
(***************************************************************************)
(* What a run of the Python engine must keep true.                         *)
(***************************************************************************)
EXTENDS PyEngine

\* Every variable keeps to the values run and _execute_task give it.
PyTypeOK ==
    /\ phase \in Phases
    /\ ready \subseteq Tasks
    /\ indeg \in [Tasks -> Int]
    /\ running \subseteq Tasks /\ batch \subseteq Tasks /\ results \subseteq Tasks
    /\ spans \in [Tasks -> Span]
    /\ runFailed \in BOOLEAN
    /\ firstError \in Tasks \cup {Absent}
    /\ retries \in Nat
    /\ report \in [status : {"none", "succeeded", "failed"},
                   output : {"none", "resolved", "nil"},
                   tasks : SUBSET Tasks, error : Tasks \cup {Absent}]
    /\ pc \in [Tasks -> PCs]
    /\ span \in [Tasks -> Span]
    /\ raised \subseteq Tasks /\ asked \subseteq Tasks
    /\ sem \in Nat
    /\ current \in {"own", "other"}

-----------------------------------------------------------------------------
(* Safety *)

\* run creates the future of a task only when everything it depends on has
\* succeeded, so the results its templates see when it first runs hold all of
\* them, however many futures a batch had and in whatever order it was handled.
PyDependencyOrder ==
    \A t \in Tasks : pc[t] # "idle" =>
        Deps(t) \subseteq results /\ \A d \in Deps(t) : spans[d].status = "succeeded"

\* A task is in the dict running from its dispatch until its future has been
\* handled, so no future is awaited twice and none is forgotten; and when run
\* returns no coroutine of it is left, every task has its span, and a task that
\* succeeded is reported as such (after a fail_fast failure, it need not be).
PyRunIsComplete ==
    /\ phase \in {"loop", "wait"} =>
         running = {t \in Tasks : pc[t] # "idle" /\ spans[t] = NoSpan}
    /\ phase \in {"report", "returned"} =>
         /\ Unspanned = {} /\ Live = {}
         /\ \A t \in Tasks : span[t].status = "succeeded" =>
              spans[t].status = "succeeded" \/ runFailed

\* run raises only because of a template: the task whose future raised refers to
\* a task it does not depend on, or into a field an output may lack, or was
\* started with the inputs of another run.  A future that raises because it was
\* cancelled between two attempts never reaches the result() that would raise.
PyRaisesForTemplatesOnly ==
    phase = "raised" =>
        \E t \in raised \ running :
            /\ spans[t] = NoSpan
            /\ ~(InputRefs[t] \subseteq Deps(t)) \/ t \in LooseRefs \/ current # "own"

\* While run goes on past a failure (on_error: continue), everything that needs
\* a failed or skipped task, at any distance, is already skipped, and nothing
\* else is.
PySkipsDownstream ==
    phase \in {"loop", "wait"} =>
        \A t \in Tasks :
            spans[t] = SkippedSpan
              <=> \E d \in Deps(t) : spans[d].status \in {"failed", "skipped"}

\* The report says "succeeded" only if no task failed; and if no skill ended by
\* raising CancelledError, only if every task succeeded and the output template,
\* if what it reaches into is there, was resolved.
PySuccessMeansComplete ==
    report.status = "succeeded" =>
        /\ \A t \in Tasks : spans[t].status # "failed"
        /\ (\A t \in Tasks : spans[t].error # "cancelled") =>
             /\ \A t \in Tasks : spans[t].status = "succeeded"
             /\ OutputRefs # {} /\ ~LooseOutput => report.output = "resolved"

\* A failed task is given up only after all its attempts, and the semaphore is
\* held exactly by the coroutines inside the async with.
PyAttemptsAndSlots ==
    /\ sem = Cardinality(Holders) /\ sem <= MaxParallel
    /\ \A t \in Tasks :
         spans[t].status = "failed" /\ spans[t].error # "unknown" =>
             spans[t].attempts = EffectiveRetry(t) + 1

\* Tasks run in the order of their dependencies, and the ones that cannot run
\* any more are skipped at once, whatever the batches.
PyOrderKept == PyDependencyOrder /\ PySkipsDownstream

\* run reports on every task, once nothing of it is left, and its verdict is true.
PyReportIsRight == PyRunIsComplete /\ PySuccessMeansComplete

\* Every variable keeps to its type, and attempts and semaphore are exact.
PyBookkeeping == PyTypeOK /\ PyAttemptsAndSlots

-----------------------------------------------------------------------------
(* The promise *)

\* Where a task stands as its client sees it.  Once a fail_fast failure drains
\* the run, a future that has ended, and that the loop of cancels has passed, is
\* as good as skipped: its span will be dropped.
PyTaskState == [t \in Tasks |->
    IF spans[t] # NoSpan THEN spans[t].status
    ELSE IF pc[t] = "idle" THEN "waiting"
    ELSE IF phase = "drain" /\ t \notin batch /\ pc[t] = "done" THEN "skipped"
    ELSE "running"]

Promise == INSTANCE WorkflowRun WITH state <- PyTaskState, verdict <- report.status

\* run implements the abstract run of a workflow, the same as the Go engine.
PyKeepsPromise == Promise!Spec

-----------------------------------------------------------------------------
(* Liveness *)

\* A fail_fast failure ends the run even if no skill ever returns: every future
\* still running is cancelled, wherever it is, and the drain gets them all.
PyFailFastEndsRun == runFailed ~> phase = "returned"

\* run returns, or raises, whatever the skills do, unless one without a timeout,
\* its own or the workflow's, never returns.
PyAnsweredRunEnds ==
    (\A t \in Tasks : t \in TimedTasks \/ DefaultTimeout \/ []<>(pc[t] # "invoke"))
        => <>(phase \in {"returned", "raised"})

\* Either way run comes to its end: cancelled by a failure, or answered.
PyRunEnds == PyFailFastEndsRun /\ PyAnsweredRunEnds
==============================================================================
