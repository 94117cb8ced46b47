---------------------------- MODULE SkillRunProps ----------------------------
(***************************************************************************)
(* What the attempts of skills must keep true: who may still be running,   *)
(* and what the report says was used.                                      *)
(***************************************************************************)
EXTENDS SkillRun

\* Every variable keeps to the values the engine, the contexts and the skills
\* give it.
SkillTypeOK ==
    /\ provider \in Providers /\ skills \in Registries
    /\ pc \in [Tasks -> {"slot", "invoke", "backoff", "done"}]
    /\ \A t \in Tasks :
         /\ attempt[t] \in Attempts(t)
         /\ body[t] \in [Attempts(t) -> Bodies]
         /\ ctx[t] \in [Attempts(t) -> [tokens : Nat, tools : Nat]]
    /\ span \in [Tasks -> [status : {"succeeded", "failed", "skipped"},
                           tokens : Nat, tools : Nat]]
    /\ sem \in 0..Slots
    /\ taken \subseteq Tasks
    /\ totals \in [tokens : Nat, tools : Nat]
    /\ phase \in {"loop", "drain", "reported", "returned"}
    /\ billed \in Nat

-----------------------------------------------------------------------------
(* Who is running *)

\* A skill runs while its attempt awaits it.  Only a skill on a thread may run
\* on, after a timeout or a cancellation: a coroutine never outlives its
\* attempt, so two attempts of it never overlap, and a call that was given up in
\* the queue never starts.  The attempts awaited are as many as permits taken.
OnlyThreadsRunOn ==
    /\ \A t \in Tasks : \A n \in Attempts(t) :
         Live(t, n) /\ ~Awaited(t, n) =>
             OnThread(t, n) /\ (t \in Timed \/ phase # "loop")
    /\ sem = Cardinality({t \in Tasks : pc[t] = "invoke"})

\* When run_sync has returned, no skill is left to change what the report shows
\* or to act for a task that is over: the loop's threads are joined.
NothingRunsOn ==
    phase = "returned" => \A t \in Tasks : \A n \in Attempts(t) : ~Live(t, n)

\* It is known at any time which skills may be running: the awaited ones, threads
\* that were given up, and none once run_sync has returned.
SkillsAccountedFor == SkillTypeOK /\ OnlyThreadsRunOn /\ NothingRunsOn

-----------------------------------------------------------------------------
(* What was used *)

\* Every task succeeded in its first attempt.
Smooth == taken = Tasks /\ \A t \in Tasks : span[t].status = "succeeded" /\ attempt[t] = 1

\* The span of a task that succeeded has all that its last attempt used, though
\* the context is read once, and skills that were given up go on counting.
SpanHasUsage ==
    \A t \in Tasks : span[t].status = "succeeded" =>
        LET c == ctx[t][attempt[t]] IN span[t].tokens = c.tokens /\ span[t].tools = c.tools

\* The spans have what the skills used.  With an adapter that reports the
\* service's count, the report never has more tokens than the service counted,
\* and exactly as many when nothing had to be retried.  (What earlier attempts,
\* abandoned skills and drained tasks used is lost.)
UsageAccounted ==
    /\ SpanHasUsage
    /\ provider \in Metered =>
         /\ totals.tokens <= billed
         /\ Smooth => totals.tokens = billed

-----------------------------------------------------------------------------
(* Liveness *)

\* run reports, though skills with a timeout may run for ever, unless skills
\* that were given up hold all threads for good.
RunReports ==
    <>(phase \in {"reported", "returned"}) \/ <>[](Cardinality(Abandoned) = Workers)

\* run_sync returns unless a skill that was given up never ends: a timeout does
\* not bound it.
RunSyncEnds == <>(phase = "returned") \/ <>[](Abandoned # {})

\* So a timeout bounds the run as long as there is a thread left, and run_sync
\* if every thread ends.
SkillRunEnds == RunReports /\ RunSyncEnds
==============================================================================
