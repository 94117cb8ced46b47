--------------------------- MODULE SchedulerProps ---------------------------
(***************************************************************************)
(* What a run of the Go scheduler must keep true.                          *)
(***************************************************************************)
EXTENDS Scheduler

\* Every variable keeps to the values Run and executeTask give it.
TypeOK ==
    /\ phase \in Phases
    /\ ready \subseteq Tasks
    /\ indeg \in [Tasks -> Int]
    /\ inFlight \in Int
    /\ results \subseteq Tasks
    /\ spans \in [Tasks -> Span]
    /\ runFailed \in BOOLEAN
    /\ errors \subseteq Tasks
    /\ retries \in Int
    /\ report \in [status : {"none", "succeeded", "failed"},
                   output : {"none", "resolved", "nil"}, tasks : SUBSET Tasks]
    /\ pc \in [Tasks -> PCs]
    /\ span \in [Tasks -> Span]
    /\ snapshot \in [Tasks -> SUBSET Tasks]
    /\ sem \in Int
    /\ parentDone \in BOOLEAN
    /\ events \in [Tasks -> SUBSET EventTypes]

-----------------------------------------------------------------------------
(* Safety *)

\* A task is dispatched (dispatch in Run) only when everything it depends on
\* has succeeded, joins and repeated entries included, and the snapshot its
\* templates are resolved against has all those outputs.
DependencyOrder ==
    \A t \in Tasks : pc[t] # "idle" =>
        /\ Deps(t) \subseteq snapshot[t]
        /\ \A d \in Deps(t) : spans[d].status = "succeeded"

\* The slot channel counts exactly the goroutines between acquiring and
\* releasing a slot on every path of executeTask, and there are never more
\* invocations in progress than max_parallel.
SlotAccounting ==
    /\ sem = Cardinality(Holders)
    /\ Cardinality(Holders) <= MaxParallel

\* When Run leaves its loop every task of the workflow has its span and no
\* goroutine is left behind: no lost wakeup at a join, no task forgotten by
\* the two ways of skipping, no receive missing in the drain.
RunIsComplete ==
    LoopEnded \/ phase = "returned" => Unspanned = {} /\ InFlightTasks = {}

\* A task is skipped for a reason: the run's context was cancelled or one of
\* its own dependencies did not succeed.
SkipJustified ==
    \A t \in Tasks : spans[t].status = "skipped" =>
        CtxDone \/ \E d \in Deps(t) : spans[d].status \in {"failed", "skipped"}

\* While the loop goes on past a failure (on_error: continue), everything that
\* needs a failed or skipped task, at any distance, is already skipped.
FailurePropagates ==
    phase = "loop" =>
        \A t \in Tasks, d \in Tasks :
            d \in Deps(t) /\ spans[d].status \in {"failed", "skipped"}
                => spans[t].status = "skipped"

\* A failure takes with it exactly what needed it: no more is skipped, and no
\* less (markDescendantsSkipped).
SkipsExactly == SkipJustified /\ FailurePropagates

\* Run says "succeeded" of a run nobody cancelled only if every task succeeded
\* and the output template, if what it reaches into is there, was resolved.
SuccessMeansComplete ==
    report.status = "succeeded" /\ ~parentDone =>
        /\ \A t \in Tasks : spans[t].status = "succeeded"
        /\ OutputRefs # {} /\ ~LooseOutput => report.output = "resolved"

\* The attempt loop makes at most retry.max retries, and a task whose
\* invocation fails is given up only after all of them, whoever cancels
\* meanwhile.
AttemptsAreUsedUp ==
    \A t \in Tasks :
        LET tries == EffectiveRetry(t) + 1
        IN  /\ span[t].attempts <= IF tries > 1 THEN tries ELSE 1
            /\ spans[t].status = "failed" /\ spans[t].error \in Outcomes
                 => spans[t].attempts = tries

\* The tasks received from doneCh, the attempts they made after their first, and
\* those that were never tried because their retry.max is negative.
Received == {t \in Tasks : pc[t] = "joined"}
Retried == UNION {{t} \X (2..spans[t].attempts) : t \in Received}
Untried == {t \in Received : spans[t].attempts = 0}

\* Unless a fail_fast failure made the loop drain, the report's error list
\* and its retry total account for every task that ran, each exactly once; a
\* task that was never tried counts as minus one retry.
ReportAccounts ==
    ~runFailed => /\ errors = {t \in Received : spans[t].status # "succeeded"}
                  /\ retries = Cardinality(Retried) - Cardinality(Untried)

\* A task reaches the event stream as started with at most one end, or as
\* skipped and nothing else: Run never skips a task it has started.
EventsCoherent ==
    \A t \in Tasks :
        \/ events[t] = {"skipped"}
        \/ events[t] \in {{}, {"started"}, {"started", "succeeded"}, {"started", "failed"}}

-----------------------------------------------------------------------------
(* Action properties *)

\* A recorded span is final: neither a late receive, the drain nor either way
\* of skipping overwrites it, and a stored result stays.
SpansAreFinal ==
    [][/\ \A t \in Tasks : spans[t] # NoSpan => spans'[t] = spans[t]
       /\ results \subseteq results']_vars

\* Once a fail_fast failure is received, no further task is dispatched.
FailFastStops ==
    [][runFailed => \A t \in Tasks : pc[t] = "idle" => pc'[t] = "idle"]_vars

\* What has happened stands: no step of Run rewrites a recorded span, forgets a
\* result, or starts a task after a fail_fast failure.
HistoryStands == SpansAreFinal /\ FailFastStops

-----------------------------------------------------------------------------
(* The promise *)

\* Where a task stands as its client sees it.
TaskState == [t \in Tasks |->
    IF spans[t] # NoSpan THEN spans[t].status
    ELSE IF pc[t] # "idle" THEN "running" ELSE "waiting"]

Promise == INSTANCE WorkflowRun WITH state <- TaskState, verdict <- report.status

\* Run implements the abstract run of a workflow.
KeepsPromise == Promise!Spec

-----------------------------------------------------------------------------
(* Liveness *)

\* Cancelling, by the client or by a fail_fast failure, ends the run even if
\* no skill ever answers: no goroutine waits for a slot, a token or an answer
\* that cannot come, and the drain gets every span.
CancelEndsRun == (parentDone \/ runFailed) ~> phase = "returned"

\* The run ends, whatever the skills do, unless one without a timeout, its own
\* or the workflow's, never answers.
AnsweredRunEnds ==
    (\A t \in Tasks : t \in TimedTasks \/ DefaultTimeout \/ []<>(pc[t] # "exec"))
        => <>(phase = "returned")

\* Either way Run returns: cancelled, or answered.
RunEnds == CancelEndsRun /\ AnsweredRunEnds
==============================================================================
