------------------------------- MODULE SkillRun -------------------------------
(***************************************************************************)
(* The skills of one run of the Python engine: the attempts of             *)
(* _execute_task and _invoke (sdk-python/orchestrator/engine.py), the      *)
(* SkillContext each attempt gets (registry.py), and what the report says  *)
(* of their use of LLMs and tools.  An async skill runs on the event loop; *)
(* any other runs on a thread of the loop's executor, and goes on there    *)
(* when wait_for gives up on it.                                           *)
(*                                                                         *)
(* Left out, because PyEngine and TokenBucket have it: dependencies, rate  *)
(* limits, templates.  The tasks here are all dispatched from the start.   *)
(* The decisions a skill records are data like its output.                 *)
(***************************************************************************)
EXTENDS Integers, FiniteSets, LlmAdapters

CONSTANTS
    Tasks,
    Slots,        \* concurrency.max_parallel
    Workers,      \* threads of the executor
    RetryMax,     \* RetryMax[t]: how often t is retried
    Async,        \* the tasks whose skill is a coroutine function
    Timed,        \* the tasks with a timeout
    Registries,   \* which tasks may find their skill registered
    FailFast,     \* the tasks whose failure ends the run
    Providers,    \* the adapters the Orchestrator may have, or "none"
    Installed,    \* the adapters whose package can be imported
    MaxUses,      \* MaxUses[t]: how much of an LLM or of tools an attempt may use
    Sizes         \* token and word counts of an answer

ASSUME SkillAssumption ==
    /\ IsFiniteSet(Tasks)
    /\ Slots \in Nat \ {0} /\ Workers \in Nat \ {0} /\ MaxUses \in [Tasks -> Nat]
    /\ RetryMax \in [Tasks -> Nat]
    /\ Async \subseteq Tasks /\ Timed \subseteq Tasks
    /\ Registries \subseteq SUBSET Tasks /\ FailFast \subseteq Tasks
    /\ Providers \subseteq Adapters \cup {"none"} /\ Installed \subseteq Adapters
    /\ Sizes \subseteq Nat

VARIABLES
    provider,  \* the adapter of the Orchestrator; it never changes
    skills,    \* the tasks whose skill is in the registry; it never changes
    pc,        \* pc[t]: the await its coroutine is at
    attempt,   \* attempt[t]: the number of its current attempt
    body,      \* body[t][n]: where the skill called in attempt n is
    ctx,       \* ctx[t][n]: what that attempt's context has counted
    span,      \* span[t]: status and usage in the span _execute_task builds
    sem,       \* permits of the semaphore taken
    taken,     \* the tasks whose span run has stored
    totals,    \* the totals of the report
    phase,     \* "loop", "drain", "reported" when run has returned, "returned"
               \* when run_sync has
    billed     \* the tokens the service has counted for its answers

vars == <<provider, skills, pc, attempt, body, ctx, span, sem, taken, totals, phase,
          billed>>

-----------------------------------------------------------------------------
Attempts(t) == 1..(RetryMax[t] + 1)

\* A body is "queued" for a thread, "running", inside a "call" of the LLM that
\* will return some number of tokens, or has ended.
BodyAt(label) == [at |-> label, tokens |-> 0]
Calling(n) == [at |-> "call", tokens |-> n]
Bodies == {BodyAt(l) : l \in {"none", "queued", "running", "ok", "error"}}
              \cup {Calling(n) : n \in Sizes}

\* The usage of a new context: no LLM and no tool.
NoUsage == [tokens |-> 0, tools |-> 0]

Live(t, n) == body[t][n].at \in {"queued", "running", "call"}
OnThread(t, n) == t \notin Async /\ body[t][n].at \in {"running", "call"}
Awaited(t, n) == pc[t] = "invoke" /\ n = attempt[t]

\* The bodies on a thread, and those among them that nobody awaits any more.
Busy == UNION {{<<t, n>> : n \in {k \in Attempts(t) : OnThread(t, k)}} : t \in Tasks}
Abandoned == {b \in Busy : ~Awaited(b[1], b[2])}

Init ==
    /\ provider \in Providers
    /\ skills \in Registries
    /\ pc = [t \in Tasks |-> "slot"]
    /\ attempt = [t \in Tasks |-> 1]
    /\ body = [t \in Tasks |-> [n \in Attempts(t) |-> BodyAt("none")]]
    /\ ctx = [t \in Tasks |-> [n \in Attempts(t) |-> NoUsage]]
    /\ span = [t \in Tasks |-> [status |-> "failed", tokens |-> 0, tools |-> 0]]
    /\ sem = 0
    /\ taken = {}
    /\ totals = [tokens |-> 0, tools |-> 0]
    /\ phase = "loop"
    /\ billed = 0

-----------------------------------------------------------------------------
(* The event loop: _execute_task and _invoke *)

Goto(t, label) == pc' = [pc EXCEPT ![t] = label]
SetBody(t, n, b) == body' = [body EXCEPT ![t][n] = b]
LoopUnchanged == UNCHANGED <<provider, skills, ctx, taken, totals, phase, billed>>

\* The drain has asked every future that has not ended to cancel.
MayStep(t, label) == pc[t] = label /\ phase = "loop"

\* The skill is called: a coroutine starts at once, anything else waits for a
\* thread.  A name that is not registered raises KeyError instead.
Invoke(t) ==
    /\ MayStep(t, "slot")
    /\ sem < Slots
    /\ sem' = sem + 1
    /\ Goto(t, "invoke")
    /\ SetBody(t, attempt[t], BodyAt(IF t \notin skills THEN "error"
                                     ELSE IF t \in Async THEN "running" ELSE "queued"))
    /\ UNCHANGED <<attempt, span>>
    /\ LoopUnchanged

\* The usage the context has counted is copied to the span.
Usage(t, status) ==
    LET c == ctx[t][attempt[t]]
    IN  [status |-> status, tokens |-> c.tokens, tools |-> c.tools]

\* The semaphore is released whatever happened, and a failure may be retried.
EndAttempt(t, ok) ==
    /\ span' = [span EXCEPT ![t] = Usage(t, IF ok THEN "succeeded" ELSE "failed")]
    /\ sem' = sem - 1
    /\ Goto(t, IF ~ok /\ attempt[t] <= RetryMax[t] THEN "backoff" ELSE "done")

Resume(t) ==
    /\ MayStep(t, "invoke")
    /\ body[t][attempt[t]].at \in {"ok", "error"}
    /\ EndAttempt(t, body[t][attempt[t]].at = "ok")
    /\ UNCHANGED <<attempt, body>>
    /\ LoopUnchanged

\* Slip: a skill waiting for a thread keeps its place in the queue.
AsyncLetGo(t, b) == IF t \in Async THEN BodyAt("error") ELSE b

\* Cancelling ends a coroutine and takes a queued call out of the queue; it does
\* nothing to a thread.
LetGo(t, b) == IF t \in Async \/ b.at = "queued" THEN BodyAt("error") ELSE b

\* Slip: only calls on threads are given a timeout.
TimeOutThreads(t) ==
    /\ MayStep(t, "invoke")
    /\ t \in Timed \ Async
    /\ SetBody(t, attempt[t], LetGo(t, body[t][attempt[t]]))
    /\ EndAttempt(t, FALSE)
    /\ UNCHANGED attempt
    /\ LoopUnchanged

\* wait_for gives up: the time may have passed with the call still in the queue,
\* and with a thread that has just ended, too.
TimeOut(t) ==
    /\ MayStep(t, "invoke")
    /\ t \in Timed
    /\ t \in Async => Live(t, attempt[t])
    /\ SetBody(t, attempt[t], LetGo(t, body[t][attempt[t]]))
    /\ EndAttempt(t, FALSE)
    /\ UNCHANGED attempt
    /\ LoopUnchanged

EndBackoff(t) ==
    /\ MayStep(t, "backoff")
    /\ Goto(t, "slot")
    /\ attempt' = [attempt EXCEPT ![t] = @ + 1]
    /\ UNCHANGED <<body, span, sem>>
    /\ LoopUnchanged

\* The drain of a fail_fast failure; the span keeps what an earlier attempt left.
\* (Between two attempts the coroutine raises instead, and has no span to drop.)
ThrowCancelled(t) ==
    /\ phase = "drain"
    /\ pc[t] # "done"
    /\ Goto(t, "done")
    /\ span' = [span EXCEPT ![t].status = "skipped"]
    /\ sem' = IF pc[t] = "invoke" THEN sem - 1 ELSE sem
    /\ body' = IF pc[t] = "invoke"
               THEN [body EXCEPT ![t][attempt[t]] = LetGo(t, @)] ELSE body
    /\ UNCHANGED attempt
    /\ LoopUnchanged

-----------------------------------------------------------------------------
(* The skill, on the loop or on its thread *)

BodyUnchanged == UNCHANGED <<provider, skills, pc, attempt, span, sem, taken, totals, phase>>

\* The executor hands its threads to the calls in its queue.
StartBody(t, n) ==
    /\ body[t][n].at = "queued"
    /\ Cardinality(Busy) < Workers
    /\ SetBody(t, n, BodyAt("running"))
    /\ UNCHANGED <<ctx, billed>>
    /\ BodyUnchanged

Running(t, n) == body[t][n].at = "running"
MayUse(t, n) == Running(t, n) /\ ctx[t][n].tokens + ctx[t][n].tools < MaxUses[t]

\* The call is counted before the tool is looked up, so an unknown one counts.
CallTool(t, n) ==
    /\ MayUse(t, n)
    /\ ctx' = [ctx EXCEPT ![t][n].tools = @ + 1]
    /\ UNCHANGED <<body, billed>>
    /\ BodyUnchanged

\* Slip: a context remembers only its last answer.
AddUsageOfLast(c, tokens) == [c EXCEPT !.tokens = tokens]

AddUsage(c, tokens) == [c EXCEPT !.tokens = @ + tokens]

\* Without a provider or its package ctx.llm raises, and nothing is counted.
\* On the event loop the whole call is one step, since nothing else can run.
CallLlm(t, n) ==
    /\ MayUse(t, n)
    /\ provider \in Installed
    /\ \E answer \in Answers(Sizes) :
         /\ billed' = billed + answer.tokens
         /\ IF t \in Async
            THEN /\ ctx' = [ctx EXCEPT ![t][n] = AddUsage(@, Reported(provider, answer))]
                 /\ UNCHANGED body
            ELSE /\ SetBody(t, n, Calling(Reported(provider, answer)))
                 /\ UNCHANGED ctx
    /\ BodyUnchanged

LlmReturns(t, n) ==
    /\ body[t][n].at = "call"
    /\ SetBody(t, n, BodyAt("running"))
    /\ ctx' = [ctx EXCEPT ![t][n] = AddUsage(@, body[t][n].tokens)]
    /\ UNCHANGED billed
    /\ BodyUnchanged

\* An exception of a tool, of ctx.llm or of the skill itself ends it as well.
BodyEnds(t, n) ==
    /\ Running(t, n)
    /\ \E how \in {"ok", "error"} : SetBody(t, n, BodyAt(how))
    /\ UNCHANGED <<ctx, billed>>
    /\ BodyUnchanged

-----------------------------------------------------------------------------
(* The coroutine run, and run_sync *)

RunUnchanged == UNCHANGED <<provider, skills, pc, attempt, body, ctx, span, sem, billed>>

\* One turn of run's loop over the futures that have ended.
Take(t) ==
    /\ phase = "loop"
    /\ pc[t] = "done" /\ t \notin taken
    /\ taken' = taken \cup {t}
    /\ totals' = [tokens |-> totals.tokens + span[t].tokens,
                  tools |-> totals.tools + span[t].tools]
    /\ phase' = IF span[t].status # "succeeded" /\ t \in FailFast THEN "drain" ELSE phase
    /\ RunUnchanged

\* The spans of drained futures are dropped, and their usage with them.
Report ==
    /\ \/ phase = "loop" /\ taken = Tasks
       \/ phase = "drain" /\ \A t \in Tasks : pc[t] = "done"
    /\ phase' = "reported"
    /\ UNCHANGED <<taken, totals>>
    /\ RunUnchanged

\* asyncio.run closes the loop, and joins the threads of its executor.
RunSyncReturns ==
    /\ phase = "reported"
    /\ Abandoned = {}
    /\ phase' = "returned"
    /\ UNCHANGED <<taken, totals>>
    /\ RunUnchanged

Finished == phase = "returned" /\ UNCHANGED vars

TaskStep(t) == Invoke(t) \/ Resume(t) \/ EndBackoff(t) \/ ThrowCancelled(t)

RunStep == (\E t \in Tasks : Take(t)) \/ Report \/ RunSyncReturns

BodyStep(t, n) ==
    \/ CallTool(t, n) \/ CallLlm(t, n) \/ LlmReturns(t, n)
    \/ BodyEnds(t, n)

Next ==
    \/ \E t \in Tasks :
         \/ TaskStep(t) \/ TimeOut(t)
         \/ \E n \in Attempts(t) : StartBody(t, n) \/ BodyStep(t, n)
    \/ RunStep
    \/ Finished

Spec == Init /\ [][Next]_vars

(***************************************************************************)
(* Fairness.  The event loop runs every callback that is due, timers       *)
(* included, and the executor starts what it can.  A skill without a       *)
(* timeout ends; one with a timeout need not.                              *)
(***************************************************************************)
Fairness ==
    /\ WF_vars(RunStep)
    /\ \A t \in Tasks :
         /\ WF_vars(TaskStep(t))
         /\ WF_vars(TimeOut(t))
         /\ \A n \in Attempts(t) :
              /\ WF_vars(StartBody(t, n))
              /\ t \notin Timed => WF_vars(BodyStep(t, n))

FairSpec == Spec /\ Fairness

=============================================================================
