------------------------------ MODULE Scheduler ------------------------------
(***************************************************************************)
(* One call of Scheduler.Run (engine/internal/scheduler/scheduler.go): the *)
(* main loop, which owns the bookkeeping, and one goroutine per dispatched *)
(* task, which runs executeTask.  They share the slot channel, the done    *)
(* channel and the run's context; the client may cancel the context it     *)
(* passed to Run at any time.                                              *)
(*                                                                         *)
(* Left out: what task inputs and outputs contain (a result is there or    *)
(* not), durations, LLM and decision accounting, and the state of the      *)
(* token buckets, whose Acquire is a wait of unknown length.               *)
(***************************************************************************)
EXTENDS TaskGraph

CONSTANTS
    MaxParallel,      \* concurrency.max_parallel
    OnError,          \* OnError[t]: the task's own on_error, or Absent
    DefaultOnError,   \* defaults.on_error
    RetryMax,         \* RetryMax[t]: the task's own retry.max, or Absent
    DefaultRetryMax,  \* defaults.retry.max
    TimedTasks,       \* the tasks that declare a timeout
    DefaultTimeout,   \* whether defaults.timeout is set
    GlobalLimit,      \* whether there is a run-wide rate limit
    ProviderLimited,  \* the tasks whose provider has a rate limit
    InputRefs,        \* InputRefs[t]: the tasks named in the templates of t's inputs
    LooseRefs,        \* the tasks whose templates reach into fields an output may lack
    OutputRefs,       \* the tasks named in the workflow's output template
    LooseOutput,      \* whether it reaches into fields an output may lack
    SkillOutcomes,    \* how a skill invocation may come back from the client
    MayCancel,        \* whether the client may cancel the run
    Absent            \* a policy that is not declared

SkillErrors == {"retryable", "fatal"}
Outcomes == {"ok", "transport", "timeout", "cancelled"} \cup SkillErrors
Policies == {"fail_fast", "continue"}

ASSUME PolicyAssumption ==
    /\ MaxParallel \in Nat \ {0}
    /\ Absent \notin Policies /\ Absent \notin Int
    /\ OnError \in [Tasks -> Policies \cup {Absent}] /\ DefaultOnError \in Policies
    /\ RetryMax \in [Tasks -> Int \cup {Absent}] /\ DefaultRetryMax \in Int
    /\ TimedTasks \subseteq Tasks /\ DefaultTimeout \in BOOLEAN
    /\ GlobalLimit \in BOOLEAN /\ ProviderLimited \subseteq Tasks
    /\ InputRefs \in [Tasks -> SUBSET Tasks] /\ LooseRefs \subseteq Tasks
    /\ OutputRefs \subseteq Tasks /\ LooseOutput \in BOOLEAN
    /\ SkillOutcomes \subseteq Outcomes \ {"timeout", "cancelled"}
    /\ MayCancel \in BOOLEAN

VARIABLES
    \* the main loop
    phase,       \* "loop", "drain" after a fail_fast failure, "report", "returned"
    ready,       \* the tasks to dispatch before the next receive
    indeg,       \* indeg[t]: entries of depends_on not yet counted off
    inFlight,    \* goroutines started and not yet received
    results,     \* the tasks whose output is stored
    spans,       \* spans[t]: the recorded span, NoSpan while there is none
    runFailed,
    errors,      \* the tasks whose error is in the report's error list
    retries,     \* totals.Retries
    report,
    \* the goroutine of each task
    pc,          \* pc[t]: where executeTask is
    span,        \* span[t]: the span it is building
    snapshot,    \* snapshot[t]: the results copied when t was dispatched
    \* shared
    sem,         \* slots taken
    parentDone,  \* the client cancelled its context
    events       \* events[t]: what was offered to the event stream about t

mainVars == <<phase, ready, indeg, inFlight, results, spans, runFailed, errors,
              retries, report, events>>
taskVars == <<pc, span, snapshot>>
vars == <<mainVars, taskVars, sem, parentDone>>

-----------------------------------------------------------------------------
(***************************************************************************)
(* Values.  A goroutine is "idle" until its task is dispatched, "done"     *)
(* from the return of executeTask until the main loop receives its span    *)
(* from doneCh, and "joined" after that.  doneCh has room for every span,  *)
(* so the send never blocks; a goroutine that has returned may still be    *)
(* delayed before the send, which is why any "done" task can be received   *)
(* next.                                                                   *)
(***************************************************************************)
PCs == {"idle", "resolve", "slot", "global", "provider", "exec", "backoff",
        "done", "joined"}
Phases == {"loop", "drain", "report", "returned"}
Statuses == {"succeeded", "failed", "skipped"}
EventTypes == {"started"} \cup Statuses
Span == [status : Statuses \cup {"none"}, attempts : Int,
         error : {"none", "unresolved"} \cup Outcomes]

NoSpan == [status |-> "none", attempts |-> 0, error |-> "none"]
SkippedSpan == [status |-> "skipped", attempts |-> 0, error |-> "none"]
FreshSpan == [status |-> "failed", attempts |-> 0, error |-> "none"]

InFlightTasks == {t \in Tasks : pc[t] \notin {"idle", "joined"}}
Holders == {t \in Tasks : pc[t] \in {"global", "provider", "exec"}}

\* Slip: looks at the stored results instead of the recorded spans.
UnspannedByResult == Tasks \ results

Unspanned == {t \in Tasks : spans[t] = NoSpan}

\* Slip: a fail_fast failure does not cancel the run's context.
CtxDoneByClientOnly == parentDone

\* The run's context: derived from the client's, cancelled by a fail_fast failure.
CtxDone == parentDone \/ runFailed

-----------------------------------------------------------------------------
\* Policies: the task's own, or the workflow's default.

EffectiveOnError(t) == IF OnError[t] # Absent THEN OnError[t] ELSE DefaultOnError
EffectiveRetry(t) == IF RetryMax[t] # Absent THEN RetryMax[t] ELSE DefaultRetryMax

HasTimeout(t) == t \in TimedTasks \/ DefaultTimeout

FailsFast(t) == EffectiveOnError(t) = "fail_fast"

-----------------------------------------------------------------------------
\* The goroutine of a task: executeTask.

Goto(t, label) == pc' = [pc EXCEPT ![t] = label]

\* executeTask returns s; the goroutine's deferred work is the send on doneCh.
End(t, s) ==
    /\ Goto(t, "done")
    /\ span' = [span EXCEPT ![t] = s]

\* The head of the attempt loop: nothing is tried when retry.max is negative.
FirstAttempt(t) ==
    IF 1 <= EffectiveRetry(t) + 1
    THEN /\ Goto(t, "slot")
         /\ span' = [span EXCEPT ![t] = [FreshSpan EXCEPT !.attempts = 1]]
    ELSE End(t, FreshSpan)

\* Templates are resolved once, against the snapshot, before the first attempt.
CanResolve(t) == InputRefs[t] \subseteq snapshot[t]

ResolveInputs(t) ==
    /\ pc[t] = "resolve"
    /\ CanResolve(t)
    /\ FirstAttempt(t)
    /\ UNCHANGED <<mainVars, snapshot, sem, parentDone>>

ResolveFails(t) ==
    /\ pc[t] = "resolve"
    /\ ~CanResolve(t) \/ t \in LooseRefs
    /\ End(t, [status |-> "failed", attempts |-> 1, error |-> "unresolved"])
    /\ UNCHANGED <<mainVars, snapshot, sem, parentDone>>

\* A limiter that is not configured grants at once (NullBucket).
AfterGlobal(t) == IF t \in ProviderLimited THEN "provider" ELSE "exec"
AfterSlot(t) == IF GlobalLimit THEN "global" ELSE AfterGlobal(t)

AcquireSlot(t) ==
    /\ pc[t] = "slot"
    /\ sem < MaxParallel
    /\ sem' = sem + 1
    /\ Goto(t, AfterSlot(t))
    /\ UNCHANGED <<mainVars, span, snapshot, parentDone>>

\* Slip: a status the report does not know.
CancelledSpanNewStatus(t) == [span[t] EXCEPT !.status = "cancelled", !.error = "cancelled"]

CancelledSpan(t) == [span[t] EXCEPT !.status = "skipped", !.error = "cancelled"]

\* select chooses freely between a free slot and a context that is done.
CancelAtSlot(t) ==
    /\ pc[t] = "slot"
    /\ CtxDone
    /\ End(t, CancelledSpan(t))
    /\ UNCHANGED <<mainVars, snapshot, sem, parentDone>>

\* Tokens are waited for with the slot held.
GrantGlobal(t) ==
    /\ pc[t] = "global"
    /\ Goto(t, AfterGlobal(t))
    /\ UNCHANGED <<mainVars, span, snapshot, sem, parentDone>>

GrantProvider(t) ==
    /\ pc[t] = "provider"
    /\ Goto(t, "exec")
    /\ UNCHANGED <<mainVars, span, snapshot, sem, parentDone>>

\* Slip: the early return of a cancelled wait keeps the slot.
CancelAtLimiterKeepsSlot(t) ==
    /\ pc[t] \in {"global", "provider"}
    /\ CtxDone
    /\ End(t, CancelledSpan(t))
    /\ UNCHANGED <<mainVars, snapshot, sem, parentDone>>

CancelAtLimiter(t) ==
    /\ pc[t] \in {"global", "provider"}
    /\ CtxDone
    /\ sem' = sem - 1
    /\ End(t, CancelledSpan(t))
    /\ UNCHANGED <<mainVars, snapshot, parentDone>>

\* What Execute may return: the client's answer, a transport error, or the
\* error of a context that timed out or was cancelled.
ExecOutcomes(t) ==
    SkillOutcomes \cup {o \in {"timeout"} : HasTimeout(t)}
                  \cup {o \in {"cancelled"} : CtxDone}

\* A skill error is retried while attempts are left, whatever its Retryable flag.
RetriesSkillError(t, o) ==
    LET left == span[t].attempts <= EffectiveRetry(t)
        retryable == o = "retryable" \/ left
    IN  retryable /\ left

RetriesExecError(t) == span[t].attempts <= EffectiveRetry(t)

\* Slip: the bound on the attempts is off by one.
WillRetryOffByOne(t, o) == span[t].attempts < EffectiveRetry(t)

WillRetry(t, o) ==
    IF o \in SkillErrors THEN RetriesSkillError(t, o) ELSE RetriesExecError(t)

\* The slot is released before the result is looked at.  A success keeps the
\* error an earlier attempt left in the span.
ExecSucceeds(t) ==
    /\ pc[t] = "exec"
    /\ "ok" \in ExecOutcomes(t)
    /\ sem' = sem - 1
    /\ End(t, [span[t] EXCEPT !.status = "succeeded"])
    /\ UNCHANGED <<mainVars, snapshot, parentDone>>

ExecFails(t, o) ==
    /\ pc[t] = "exec"
    /\ o \in ExecOutcomes(t) \ {"ok"}
    /\ sem' = sem - 1
    /\ Goto(t, IF WillRetry(t, o) THEN "backoff" ELSE "done")
    /\ span' = [span EXCEPT ![t].error = o]
    /\ UNCHANGED <<mainVars, snapshot, parentDone>>

\* The sleep does not watch the context; the next attempt starts with a new slot.
EndBackoff(t) ==
    /\ pc[t] = "backoff"
    /\ Goto(t, "slot")
    /\ span' = [span EXCEPT ![t].attempts = @ + 1]
    /\ UNCHANGED <<mainVars, snapshot, sem, parentDone>>

-----------------------------------------------------------------------------
\* The main loop: Run.

NoReport == [status |-> "none", output |-> "none", tasks |-> {}]

Init ==
    /\ phase = "loop"
    /\ ready = {t \in Tasks : Len(DependsOn[t]) = 0}
    /\ indeg = [t \in Tasks |-> Len(DependsOn[t])]
    /\ inFlight = 0
    /\ results = {}
    /\ spans = [t \in Tasks |-> NoSpan]
    /\ runFailed = FALSE
    /\ errors = {}
    /\ retries = 0
    /\ report = NoReport
    /\ pc = [t \in Tasks |-> "idle"]
    /\ span = [t \in Tasks |-> NoSpan]
    /\ snapshot = [t \in Tasks |-> {}]
    /\ sem = 0
    /\ parentDone = FALSE
    /\ events = [t \in Tasks |-> {}]

\* dispatch: the goroutine gets its own copy of the results so far.
Dispatch(t) ==
    /\ phase = "loop"
    /\ t \in ready
    /\ ready' = ready \ {t}
    /\ inFlight' = inFlight + 1
    /\ events' = [events EXCEPT ![t] = @ \cup {"started"}]
    /\ Goto(t, "resolve")
    /\ snapshot' = [snapshot EXCEPT ![t] = results]
    /\ UNCHANGED <<phase, indeg, results, spans, runFailed, errors, retries,
                   report, span, sem, parentDone>>

\* Slip: totals attempts instead of retries.
ReceiveCountingAttempts(t) ==
    /\ phase = "loop"
    /\ ready = {}
    /\ pc[t] = "done"
    /\ Goto(t, "joined")
    /\ inFlight' = inFlight - 1
    /\ retries' = retries + span[t].attempts

\* One receive from doneCh, with nothing left to dispatch.
Receive(t) ==
    /\ phase = "loop"
    /\ ready = {}
    /\ pc[t] = "done"
    /\ Goto(t, "joined")
    /\ inFlight' = inFlight - 1
    /\ retries' = retries + span[t].attempts - 1

\* Slip: a finished dependency counts once, however often it is listed.
CountedOffOnce(t) ==
    [c \in Tasks |-> IF c \in Children(t) THEN indeg[c] - 1 ELSE indeg[c]]

\* The entries of depends_on that name a finished task are counted off one by
\* one; a child becomes ready when its count hits zero on the way.
CountedOff(t) == [c \in Tasks |-> indeg[c] - Cardinality(Positions(t, c))]

\* Slip: a join fires on the first of its dependencies.
NewlyReadyOnFirst(t) == Children(t)

NewlyReady(t) == {c \in Children(t) : indeg[c] > 0 /\ CountedOff(t)[c] <= 0}

ReceiveSuccess(t) ==
    /\ Receive(t)
    /\ span[t].status = "succeeded"
    /\ spans' = [spans EXCEPT ![t] = span[t]]
    /\ events' = [events EXCEPT ![t] = @ \cup {"succeeded"}]
    /\ results' = results \cup {t}
    /\ indeg' = CountedOff(t)
    /\ ready' = NewlyReady(t)
    /\ UNCHANGED <<phase, runFailed, errors, report, span, snapshot, sem, parentDone>>

\* Tasks skipped without being dispatched get a bare span and a skipped event.
SkipAll(S, sp) == [u \in Tasks |-> IF u \in S THEN SkippedSpan ELSE sp[u]]
TellSkipped(S, ev) == [u \in Tasks |-> IF u \in S THEN ev[u] \cup {"skipped"} ELSE ev[u]]

\* Any span that did not succeed is announced as failed, a cancelled one too.
AnnounceFailed(t) == [events EXCEPT ![t] = @ \cup {"failed"}]

ReceiveContinue(t) ==
    /\ Receive(t)
    /\ span[t].status # "succeeded"
    /\ ~FailsFast(t)
    /\ LET lost == Descendants(t, Unspanned \ {t})
       IN  /\ spans' = SkipAll(lost, [spans EXCEPT ![t] = span[t]])
           /\ events' = TellSkipped(lost, AnnounceFailed(t))
    /\ errors' = errors \cup {t}
    /\ UNCHANGED <<phase, ready, indeg, results, runFailed, report, span,
                   snapshot, sem, parentDone>>

\* Slip: the loop goes on after a fail_fast failure.
ReceiveFailFastGoesOn(t) ==
    /\ Receive(t)
    /\ span[t].status # "succeeded"
    /\ FailsFast(t)
    /\ runFailed' = TRUE
    /\ spans' = [spans EXCEPT ![t] = span[t]]
    /\ events' = AnnounceFailed(t)
    /\ errors' = errors \cup {t}
    /\ UNCHANGED <<phase, ready, indeg, results, report, span, snapshot, sem, parentDone>>

ReceiveFailFast(t) ==
    /\ Receive(t)
    /\ span[t].status # "succeeded"
    /\ FailsFast(t)
    /\ phase' = "drain"
    /\ runFailed' = TRUE
    /\ spans' = [spans EXCEPT ![t] = span[t]]
    /\ events' = AnnounceFailed(t)
    /\ errors' = errors \cup {t}
    /\ UNCHANGED <<ready, indeg, results, report, span, snapshot, sem, parentDone>>

\* The drain after a fail_fast failure keeps the spans and nothing else.
Drain(t) ==
    /\ phase = "drain"
    /\ pc[t] = "done"
    /\ Goto(t, "joined")
    /\ inFlight' = inFlight - 1
    /\ spans' = [spans EXCEPT ![t] = span[t]]
    /\ UNCHANGED <<phase, ready, indeg, results, runFailed, errors, retries,
                   report, events, span, snapshot, sem, parentDone>>

\* Slip: the drain does not wait for what is in flight.
EndDrainAtOnce ==
    /\ phase = "drain"
    /\ phase' = "report"
    /\ ready' = {}
    /\ spans' = SkipAll(Unspanned, spans)
    /\ events' = TellSkipped(Unspanned, events)
    /\ UNCHANGED <<indeg, inFlight, results, runFailed, errors, retries, report,
                   taskVars, sem, parentDone>>

\* Then everything that was never dispatched is skipped.
EndDrain ==
    /\ phase = "drain"
    /\ inFlight = 0
    /\ phase' = "report"
    /\ ready' = {}
    /\ spans' = SkipAll(Unspanned, spans)
    /\ events' = TellSkipped(Unspanned, events)
    /\ UNCHANGED <<indeg, inFlight, results, runFailed, errors, retries, report,
                   taskVars, sem, parentDone>>

LoopEnded == phase = "report" \/ (phase = "loop" /\ ready = {} /\ inFlight = 0)

\* Slip: only a fail_fast failure makes a run fail.
RunStatusByFlag == IF runFailed THEN "failed" ELSE "succeeded"

RunStatus ==
    IF runFailed \/ \E t \in Tasks : spans[t].status = "failed"
    THEN "failed" ELSE "succeeded"

\* An output template that does not resolve leaves the report without output.
OutputFound ==
    RunStatus = "succeeded" /\ OutputRefs # {} /\ OutputRefs \subseteq results

RunOutputs ==
    {o \in {"resolved"} : OutputFound} \cup {o \in {"nil"} : ~OutputFound \/ LooseOutput}

Return ==
    /\ LoopEnded
    /\ phase' = "returned"
    /\ \E out \in RunOutputs :
         report' = [status |-> RunStatus, output |-> out, tasks |-> Tasks \ Unspanned]
    /\ UNCHANGED <<ready, indeg, inFlight, results, spans, runFailed, errors,
                   retries, events, taskVars, sem, parentDone>>

-----------------------------------------------------------------------------
\* The client cancels the context it called Run with.
ClientCancel ==
    /\ MayCancel
    /\ ~parentDone
    /\ phase # "returned"
    /\ parentDone' = TRUE
    /\ UNCHANGED <<mainVars, taskVars, sem>>

\* After Run has returned nothing is left to do.
Finished == phase = "returned" /\ InFlightTasks = {} /\ UNCHANGED vars

MainStep ==
    \/ \E t \in Tasks :
         \/ Dispatch(t)
         \/ ReceiveSuccess(t)
         \/ ReceiveContinue(t)
         \/ ReceiveFailFast(t)
         \/ Drain(t)
    \/ EndDrain
    \/ Return

\* The steps a goroutine takes by itself: no answer of the client needed.
TaskStep(t) ==
    \/ ResolveInputs(t)
    \/ ResolveFails(t)
    \/ AcquireSlot(t)
    \/ CancelAtSlot(t)
    \/ GrantGlobal(t)
    \/ GrantProvider(t)
    \/ CancelAtLimiter(t)
    \/ EndBackoff(t)

ExecReturns(t) == ExecSucceeds(t) \/ \E o \in Outcomes : ExecFails(t, o)

Next ==
    \/ MainStep
    \/ \E t \in Tasks : TaskStep(t) \/ ExecReturns(t)
    \/ ClientCancel
    \/ Finished

Spec == Init /\ [][Next]_vars

(***************************************************************************)
(* Fairness.  The Go runtime runs every goroutine that can run, and a      *)
(* token bucket refills, so the main loop and each goroutine go on while   *)
(* they can.  A skill need not answer, but Execute returns once its        *)
(* context is done, when the run is cancelled or a declared timeout fires: *)
(* that is its contract, which the transports keep while the client reads  *)
(* what they write (KeepsContract, TransportProps).                        *)
(***************************************************************************)
ContextEnds(t) == (CtxDone \/ HasTimeout(t)) /\ ExecReturns(t)

Fairness ==
    /\ WF_vars(MainStep)
    /\ \A t \in Tasks : WF_vars(TaskStep(t)) /\ WF_vars(ContextEnds(t))

FairSpec == Spec /\ Fairness

=============================================================================
