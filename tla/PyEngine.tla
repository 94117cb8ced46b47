------------------------------- MODULE PyEngine -------------------------------
(***************************************************************************)
(* One run of the Python engine (sdk-python/orchestrator/engine.py): the   *)
(* coroutine run and one future per dispatched task, which runs            *)
(* _execute_task.  All share one event loop: a coroutine runs alone until  *)
(* it awaits.  So while run handles a batch of finished futures or cancels *)
(* the others, nothing else moves, and what it does there is modelled one  *)
(* step at a time only because the order of a batch is arbitrary.          *)
(*                                                                         *)
(* Left out: contents of inputs and outputs, durations, LLM and tool       *)
(* accounting, the state of the buckets, and skills that suppress their    *)
(* own cancellation.                                                       *)
(***************************************************************************)
EXTENDS TaskGraph

CONSTANTS
    MaxParallel,      \* concurrency.max_parallel
    OnError,          \* OnError[t]: the task's own on_error, or Absent
    DefaultOnError,   \* defaults.on_error
    RetryMax,         \* RetryMax[t]: the task's own retry.max, or Absent
    DefaultRetryMax,  \* defaults.retry.max
    TimedTasks,       \* the tasks that declare a timeout
    DefaultTimeout,   \* whether defaults.timeout is set
    GlobalLimit,      \* whether there is a run-wide rate limit
    ProviderLimited,  \* the tasks whose provider has a rate limit
    InputRefs,        \* InputRefs[t]: the tasks named in the templates of t's inputs
    LooseRefs,        \* the tasks whose templates reach into fields an output may lack
    OutputRefs,       \* the tasks named in the workflow's output template
    LooseOutput,      \* whether it reaches into fields an output may lack
    SkillOutcomes,    \* how a skill may end by itself
    SharedEngine,     \* whether another run may start on the same Orchestrator
    Absent            \* a policy that is not declared, or no task

Outcomes == {"ok", "error", "timeout", "cancelled"}
Policies == {"fail_fast", "continue"}

ASSUME PyPolicyAssumption ==
    /\ MaxParallel \in Nat \ {0}
    /\ Absent \notin Policies /\ Absent \notin Int /\ Absent \notin Tasks
    /\ OnError \in [Tasks -> Policies \cup {Absent}] /\ DefaultOnError \in Policies
    /\ RetryMax \in [Tasks -> Int \cup {Absent}] /\ DefaultRetryMax \in Int
    /\ TimedTasks \subseteq Tasks /\ DefaultTimeout \in BOOLEAN
    /\ GlobalLimit \in BOOLEAN /\ ProviderLimited \subseteq Tasks
    /\ InputRefs \in [Tasks -> SUBSET Tasks] /\ LooseRefs \subseteq Tasks
    /\ OutputRefs \subseteq Tasks /\ LooseOutput \in BOOLEAN
    /\ SkillOutcomes \subseteq Outcomes \ {"timeout"}
    /\ SharedEngine \in BOOLEAN

VARIABLES
    \* the coroutine run
    phase,       \* where it is, see Phases
    ready,       \* the tasks to dispatch before the next await
    indeg,       \* indeg[t]: entries of depends_on not yet counted off
    running,     \* the tasks whose future is in the dict running
    batch,       \* the futures still to handle in the current for loop
    results,     \* the tasks whose output is stored
    spans,       \* spans[t]: the recorded span, NoSpan while there is none
    runFailed,
    firstError,  \* the task whose error is reported, Absent while there is none
    retries,     \* totals.retries
    report,
    \* the future of each task
    pc,          \* pc[t]: the await its coroutine is at
    span,        \* span[t]: the span it is building
    raised,      \* the futures that ended with an exception
    asked,       \* the futures asked to cancel and not ended yet
    \* shared
    sem,         \* permits of the semaphore taken
    current      \* whose inputs the Orchestrator holds

mainVars == <<phase, ready, indeg, running, batch, results, spans, runFailed,
              firstError, retries, report>>
taskVars == <<pc, span, raised, asked>>
vars == <<mainVars, taskVars, sem, current>>

-----------------------------------------------------------------------------
(***************************************************************************)
(* Values.  run is in its "loop" between two awaits, in "wait" at          *)
(* asyncio.wait(FIRST_COMPLETED), in "drain" from a fail_fast failure to   *)
(* the end of asyncio.wait(ALL_COMPLETED), and has "raised" when a future  *)
(* it asks for its result raises.                                          *)
(***************************************************************************)
Phases == {"loop", "wait", "drain", "report", "returned", "raised"}
PCs == {"idle", "start", "slot", "global", "provider", "invoke", "backoff", "done"}
Statuses == {"succeeded", "failed", "skipped"}
Span == [status : Statuses \cup {"none"}, attempts : Int,
         error : {"none", "unknown"} \cup Outcomes]

NoSpan == [status |-> "none", attempts |-> 0, error |-> "none"]
SkippedSpan == [status |-> "skipped", attempts |-> 0, error |-> "none"]
FreshSpan == [status |-> "failed", attempts |-> 0, error |-> "none"]

Holders == {t \in Tasks : pc[t] \in {"global", "provider", "invoke"}}
Live == {t \in Tasks : pc[t] \notin {"idle", "done"}}
Unspanned == {t \in Tasks : spans[t] = NoSpan}

\* run has given the event loop to the others.
Yielded == phase \in {"wait", "returned", "raised"} \/ (phase = "drain" /\ batch = {})

EffectiveOnError(t) == IF OnError[t] # Absent THEN OnError[t] ELSE DefaultOnError
EffectiveRetry(t) == IF RetryMax[t] # Absent THEN RetryMax[t] ELSE DefaultRetryMax

HasTimeout(t) == t \in TimedTasks \/ DefaultTimeout

FailsFast(t) == EffectiveOnError(t) = "fail_fast"

-----------------------------------------------------------------------------
\* The future of a task: _execute_task.

Goto(t, label) == pc' = [pc EXCEPT ![t] = label]

\* _execute_task returns s.
End(t, s) ==
    /\ Goto(t, "done")
    /\ span' = [span EXCEPT ![t] = s]
    /\ asked' = asked \ {t}
    /\ UNCHANGED raised

\* An exception leaves _execute_task.
Raise(t) ==
    /\ Goto(t, "done")
    /\ raised' = raised \cup {t}
    /\ asked' = asked \ {t}
    /\ UNCHANGED span

\* A task takes a step of its own unless CancelledError is thrown into it.
MayStep(t, label) == Yielded /\ pc[t] = label /\ t \notin asked

\* Templates see the results stored when the coroutine first runs, and the
\* inputs the Orchestrator holds then.
CanResolve(t) == InputRefs[t] \subseteq results

StartTask(t) ==
    /\ MayStep(t, "start")
    /\ CanResolve(t)
    /\ IF 1 <= EffectiveRetry(t) + 1
       THEN /\ Goto(t, "slot")
            /\ span' = [span EXCEPT ![t] = [FreshSpan EXCEPT !.attempts = 1]]
            /\ UNCHANGED <<raised, asked>>
       ELSE End(t, [FreshSpan EXCEPT !.error = "unknown"])
    /\ UNCHANGED <<mainVars, sem, current>>

\* Resolving is outside the try of the attempt loop.
StartRaises(t) ==
    /\ MayStep(t, "start")
    /\ ~CanResolve(t) \/ t \in LooseRefs \/ current # "own"
    /\ Raise(t)
    /\ UNCHANGED <<mainVars, sem, current>>

\* A limiter that is not configured grants at once (NullBucket).
AfterGlobal(t) == IF t \in ProviderLimited THEN "provider" ELSE "invoke"
AfterSlot(t) == IF GlobalLimit THEN "global" ELSE AfterGlobal(t)

AcquireSlot(t) ==
    /\ MayStep(t, "slot")
    /\ sem < MaxParallel
    /\ sem' = sem + 1
    /\ Goto(t, AfterSlot(t))
    /\ UNCHANGED <<mainVars, span, raised, asked, current>>

\* Tokens are waited for with the semaphore held.
Grant(t) ==
    /\ \/ MayStep(t, "global") /\ Goto(t, AfterGlobal(t))
       \/ MayStep(t, "provider") /\ Goto(t, "invoke")
    /\ UNCHANGED <<mainVars, span, raised, asked, sem, current>>

InvokeOutcomes(t) == SkillOutcomes \cup {o \in {"timeout"} : HasTimeout(t)}

\* Slip: one attempt too many.
WillRetryOnceMore(t) == span[t].attempts <= EffectiveRetry(t) + 1

WillRetry(t) == span[t].attempts <= EffectiveRetry(t)

CancelledSpan(t) == [span[t] EXCEPT !.status = "skipped", !.error = "cancelled"]

\* The semaphore is released on leaving the async with, whatever happened.
InvokeReturns(t, o) ==
    /\ MayStep(t, "invoke")
    /\ o \in InvokeOutcomes(t)
    /\ sem' = sem - 1
    /\ \/ o = "ok" /\ End(t, [span[t] EXCEPT !.status = "succeeded"])
       \/ o = "cancelled" /\ End(t, CancelledSpan(t))
       \/ /\ o \in {"error", "timeout"}
          /\ IF WillRetry(t)
             THEN Goto(t, "backoff") /\ UNCHANGED <<span, raised, asked>>
             ELSE End(t, [span[t] EXCEPT !.error = o])
    /\ UNCHANGED <<mainVars, current>>

EndBackoff(t) ==
    /\ MayStep(t, "backoff")
    /\ Goto(t, "slot")
    /\ span' = [span EXCEPT ![t].attempts = @ + 1]
    /\ UNCHANGED <<mainVars, raised, asked, sem, current>>

\* CancelledError is thrown at the await the task is at: inside the try it
\* ends the task with a span, outside it leaves the coroutine.
ThrowCancelled(t) ==
    /\ Yielded
    /\ t \in asked
    /\ sem' = IF t \in Holders THEN sem - 1 ELSE sem
    /\ IF pc[t] \in {"start", "backoff"}
       THEN Raise(t)
       ELSE End(t, CancelledSpan(t))
    /\ UNCHANGED <<mainVars, current>>

-----------------------------------------------------------------------------
\* The coroutine run.

NoReport == [status |-> "none", output |-> "none", tasks |-> {}, error |-> Absent]

Init ==
    /\ phase = "loop"
    /\ ready = {t \in Tasks : Len(DependsOn[t]) = 0}
    /\ indeg = [t \in Tasks |-> Len(DependsOn[t])]
    /\ running = {} /\ batch = {} /\ results = {}
    /\ spans = [t \in Tasks |-> NoSpan]
    /\ runFailed = FALSE
    /\ firstError = Absent
    /\ retries = 0
    /\ report = NoReport
    /\ pc = [t \in Tasks |-> "idle"]
    /\ span = [t \in Tasks |-> NoSpan]
    /\ raised = {} /\ asked = {}
    /\ sem = 0
    /\ current = "own"

\* Everything ready gets its future before run awaits.  (A ready task is never
\* a skipped one, so the code's test for that is not needed.)
Dispatch(t) ==
    /\ phase = "loop" /\ batch = {}
    /\ t \in ready
    /\ ready' = ready \ {t}
    /\ running' = running \cup {t}
    /\ Goto(t, "start")
    /\ UNCHANGED <<phase, indeg, batch, results, spans, runFailed, firstError, retries,
                   report, span, raised, asked, sem, current>>

\* Then it awaits the first to end; with nothing running the loop is over.
Await ==
    /\ phase = "loop" /\ batch = {} /\ ready = {}
    /\ phase' = IF running = {} THEN "report" ELSE "wait"
    /\ UNCHANGED <<ready, indeg, running, batch, results, spans, runFailed,
                   firstError, retries, report, taskVars, sem, current>>

\* asyncio.wait returns every future that is done when run gets the loop.
Ended == {t \in running : pc[t] = "done"}

Wake ==
    /\ phase = "wait"
    /\ Ended # {}
    /\ phase' = "loop"
    /\ batch' = Ended
    /\ UNCHANGED <<ready, indeg, running, results, spans, runFailed, firstError,
                   retries, report, taskVars, sem, current>>

\* One turn of the for loop over the batch, up to fut.result().
Take(t) ==
    /\ phase = "loop"
    /\ t \in batch
    /\ running' = running \ {t}

Max0(n) == IF n > 0 THEN n ELSE 0

TakeSpan(t) ==
    /\ Take(t)
    /\ t \notin raised
    /\ retries' = retries + Max0(span[t].attempts - 1)

\* fut.result() raises, and so does run: the other futures are left running.
TakeRaises(t) ==
    /\ Take(t)
    /\ t \in raised
    /\ phase' = "raised"
    /\ batch' = {}
    /\ UNCHANGED <<ready, indeg, results, spans, runFailed, firstError, retries,
                   report, taskVars, sem, current>>

\* Slip: a finished dependency counts once, however often it is listed.
CountedOffOnce(t) ==
    [c \in Tasks |-> IF c \in Children(t) THEN indeg[c] - 1 ELSE indeg[c]]

CountedOff(t) == [c \in Tasks |-> indeg[c] - Cardinality(Positions(t, c))]

\* Slip: a join fires on the first of its dependencies.
NewlyReadyOnFirst(t) == Children(t)

\* The count of a child hits zero on the way, and the child is not skipped.
NewlyReady(t) ==
    {c \in Children(t) : indeg[c] > 0 /\ CountedOff(t)[c] <= 0 /\ spans[c] # SkippedSpan}

TakeSucceeded(t) ==
    /\ TakeSpan(t)
    /\ span[t].status = "succeeded"
    /\ batch' = batch \ {t}
    /\ spans' = [spans EXCEPT ![t] = span[t]]
    /\ results' = results \cup {t}
    /\ indeg' = CountedOff(t)
    /\ ready' = ready \cup NewlyReady(t)
    /\ UNCHANGED <<phase, runFailed, firstError, report, taskVars, sem, current>>

FirstErrorWith(t) == IF firstError = Absent THEN t ELSE firstError

SkipAll(S, sp) == [u \in Tasks |-> IF u \in S THEN SkippedSpan ELSE sp[u]]

TakeContinue(t) ==
    /\ TakeSpan(t)
    /\ span[t].status # "succeeded"
    /\ ~FailsFast(t)
    /\ batch' = batch \ {t}
    /\ spans' = SkipAll(Descendants(t, Unspanned \ {t}), [spans EXCEPT ![t] = span[t]])
    /\ firstError' = FirstErrorWith(t)
    /\ UNCHANGED <<phase, ready, indeg, results, runFailed, report, taskVars, sem, current>>

\* Slip: only the rest of the batch is looked at again, nobody is cancelled.
TakeFailFastCancelsNone(t) ==
    /\ TakeSpan(t)
    /\ span[t].status # "succeeded"
    /\ FailsFast(t)
    /\ phase' = "drain"
    /\ batch' = {}
    /\ runFailed' = TRUE
    /\ spans' = [spans EXCEPT ![t] = span[t]]
    /\ firstError' = FirstErrorWith(t)
    /\ UNCHANGED <<ready, indeg, results, report, taskVars, sem, current>>

\* Slip: what is running is cancelled, and handled by the loop as before.
TakeFailFastGoesOn(t) ==
    /\ TakeSpan(t)
    /\ span[t].status # "succeeded"
    /\ FailsFast(t)
    /\ batch' = batch \ {t}
    /\ runFailed' = TRUE
    /\ spans' = [spans EXCEPT ![t] = span[t]]
    /\ firstError' = FirstErrorWith(t)
    /\ asked' = asked \cup {u \in running' : pc[u] # "done"}
    /\ UNCHANGED <<phase, ready, indeg, results, report, pc, span, raised, sem, current>>

\* The rest of the batch is not handled any more: it is still in running.
TakeFailFast(t) ==
    /\ TakeSpan(t)
    /\ span[t].status # "succeeded"
    /\ FailsFast(t)
    /\ phase' = "drain"
    /\ batch' = running'
    /\ runFailed' = TRUE
    /\ spans' = [spans EXCEPT ![t] = span[t]]
    /\ firstError' = FirstErrorWith(t)
    /\ UNCHANGED <<ready, indeg, results, report, taskVars, sem, current>>

\* The loop that cancels what is running; a future that has ended ignores it.
Cancel(t) ==
    /\ phase = "drain"
    /\ t \in batch
    /\ batch' = batch \ {t}
    /\ asked' = IF pc[t] = "done" THEN asked ELSE asked \cup {t}
    /\ UNCHANGED <<phase, ready, indeg, running, results, spans, runFailed,
                   firstError, retries, report, pc, span, raised, sem, current>>

\* When all have ended, their spans are dropped and whatever has none is skipped.
EndDrain ==
    /\ phase = "drain" /\ batch = {}
    /\ running \subseteq Ended
    /\ phase' = "report"
    /\ running' = {} /\ ready' = {}
    /\ spans' = SkipAll(Unspanned, spans)
    /\ UNCHANGED <<indeg, batch, results, runFailed, firstError, retries, report,
                   taskVars, sem, current>>

\* Slip: only a fail_fast failure makes a run fail.
RunStatusByFlag == IF runFailed THEN "failed" ELSE "succeeded"

RunStatus ==
    IF runFailed \/ \E t \in Tasks : spans[t].status = "failed"
    THEN "failed" ELSE "succeeded"

OutputFound ==
    RunStatus = "succeeded" /\ OutputRefs # {} /\ OutputRefs \subseteq results

RunOutputs ==
    {o \in {"resolved"} : OutputFound} \cup {o \in {"nil"} : ~OutputFound \/ LooseOutput}

Return ==
    /\ phase = "report"
    /\ phase' = "returned"
    /\ \E out \in RunOutputs :
         report' = [status |-> RunStatus, output |-> out,
                    tasks |-> Tasks \ Unspanned, error |-> firstError]
    /\ UNCHANGED <<ready, indeg, running, batch, results, spans, runFailed,
                   firstError, retries, taskVars, sem, current>>

-----------------------------------------------------------------------------
\* Another run on the same Orchestrator validates, and so stores, its inputs.
OtherRunStarts ==
    /\ SharedEngine
    /\ Yielded
    /\ current = "own"
    /\ current' = "other"
    /\ UNCHANGED <<mainVars, taskVars, sem>>

\* run is over and no coroutine of it is left.
Finished == phase \in {"returned", "raised"} /\ Live = {} /\ UNCHANGED vars

MainStep ==
    \/ Await \/ Wake \/ EndDrain \/ Return
    \/ \E t \in Tasks :
         \/ Dispatch(t) \/ Cancel(t)
         \/ TakeSucceeded(t) \/ TakeContinue(t) \/ TakeFailFast(t) \/ TakeRaises(t)

\* What a coroutine does by itself, without its skill coming back.
TaskStep(t) ==
    \/ StartTask(t) \/ StartRaises(t) \/ AcquireSlot(t) \/ Grant(t)
    \/ EndBackoff(t) \/ ThrowCancelled(t)

SkillEnds(t) == \E o \in Outcomes : InvokeReturns(t, o)

Next ==
    \/ MainStep
    \/ \E t \in Tasks : TaskStep(t) \/ SkillEnds(t)
    \/ OtherRunStarts
    \/ Finished

Spec == Init /\ [][Next]_vars

(***************************************************************************)
(* Fairness.  The event loop runs every callback that is due, timers       *)
(* included, so run and each coroutine go on while they can.  A skill need *)
(* not return, but wait_for ends it at a declared timeout.                 *)
(***************************************************************************)
Fairness ==
    /\ WF_vars(MainStep)
    /\ \A t \in Tasks : /\ WF_vars(TaskStep(t))
                        /\ HasTimeout(t) => WF_vars(SkillEnds(t))

FairSpec == Spec /\ Fairness

=============================================================================
