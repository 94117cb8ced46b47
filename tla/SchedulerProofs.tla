--------------------------- MODULE SchedulerProofs ---------------------------
(***************************************************************************)
(* Proofs about the Go scheduler for every workflow, every policy and      *)
(* every max_parallel.                                                     *)
(***************************************************************************)
EXTENDS SchedulerProps, TLAPS, FiniteSetTheorems

-----------------------------------------------------------------------------
(* The dependency graph: counting off dependencies, skipping descendants *)

\* The entries of c's depends_on list that name no stored result.
Remaining(c, R) == {i \in DOMAIN DependsOn[c] : DependsOn[c][i] \notin R}

LEMMA ChildrenAreTasks ==
    /\ \A t : Children(t) \subseteq Tasks
    /\ \A t, open : open \subseteq Tasks => Descendants(t, open) \subseteq open
BY DEF Children, Descendants

LEMMA PositionsCount ==
    ASSUME NEW t \in Tasks, NEW c \in Tasks
    PROVE  /\ IsFiniteSet(DOMAIN DependsOn[c])
           /\ IsFiniteSet(Positions(t, c))
           /\ Cardinality(Positions(t, c)) \in Nat
<1>1. DependsOn[c] \in Seq(Tasks)
  BY GraphAssumption
<1>2. /\ DOMAIN DependsOn[c] = 1 .. Len(DependsOn[c])
      /\ Len(DependsOn[c]) \in Nat
  BY <1>1
<1>3. IsFiniteSet(DOMAIN DependsOn[c])
  BY <1>2, FS_Interval
<1>4. Positions(t, c) \subseteq DOMAIN DependsOn[c]
  BY DEF Positions
<1>5. IsFiniteSet(Positions(t, c))
  BY <1>3, <1>4, FS_Subset
<1> QED
  BY <1>3, <1>5, FS_CardinalityType

LEMMA DepsAreTasks ==
    /\ \A t \in Tasks : Deps(t) \subseteq Tasks
    /\ \A t, c \in Tasks : c \in Children(t) <=> t \in Deps(c)
    /\ \A t \in Tasks : t \notin Deps(t)
<1>1. \A t \in Tasks : Deps(t) \subseteq Tasks
  BY GraphAssumption DEF Deps
<1>2. \A t, c \in Tasks : c \in Children(t) <=> t \in Deps(c)
  BY DEF Children
<1>3. ASSUME NEW t \in Tasks PROVE t \notin Deps(t)
  <2>1. {t} \in SUBSET Tasks /\ {t} # {}
    OBVIOUS
  <2> QED
    BY <2>1, GraphAssumption DEF Acyclic
<1> QED
  BY <1>1, <1>2, <1>3

\* What markDescendantsSkipped marks is closed, is in every closed set, and
\* each task it marks is a child of t or of another one it marks.
LEMMA DescendantsLemma ==
    ASSUME NEW t \in Tasks, NEW open \in SUBSET Tasks
    PROVE  LET D == Descendants(t, open)
           IN  /\ D \subseteq open
               /\ \A u \in D \cup {t} : \A c \in Children(u) \cap open : c \in D
               /\ \A S \in SUBSET open : ClosedFrom(S, t, open) => D \subseteq S
               /\ \A c \in D : \E u \in D \cup {t} : u \in Deps(c)
<1> DEFINE D == Descendants(t, open)
<1>1. D \subseteq open
  BY DEF Descendants
<1>2. \A S \in SUBSET open : ClosedFrom(S, t, open) => D \subseteq S
  BY DEF Descendants
<1>3. ASSUME NEW u \in D \cup {t}, NEW c \in Children(u) \cap open PROVE c \in D
  <2>1. ASSUME NEW S \in SUBSET open, ClosedFrom(S, t, open) PROVE c \in S
    <3>1. u \in S \cup {t}
      BY <1>2, <2>1
    <3> QED
      BY <2>1, <3>1 DEF ClosedFrom
  <2> QED
    BY <2>1 DEF Descendants
<1>4. ASSUME NEW c \in D, \A u \in D \cup {t} : u \notin Deps(c) PROVE FALSE
  <2> DEFINE S == D \ {c}
  <2>1. S \in SUBSET open
    BY <1>1
  <2>2. ASSUME NEW u \in S \cup {t}, NEW v \in Children(u) \cap open PROVE v \in S
    <3>1. v \in D
      BY <1>3, <2>2
    <3>2. v # c
      BY <1>4, <2>2 DEF Children
    <3> QED
      BY <3>1, <3>2
  <2>3. ClosedFrom(S, t, open)
    BY <2>2 DEF ClosedFrom
  <2>4. c \in S
    BY <1>2, <2>1, <2>3
  <2> QED
    BY <2>4
<1> QED
  BY <1>1, <1>2, <1>3, <1>4

LEMMA TaskSets ==
    ASSUME NEW S \in SUBSET Tasks
    PROVE  /\ IsFiniteSet(S)
           /\ Cardinality(S) \in Nat
           /\ Cardinality(S) = 0 <=> S = {}
           /\ \A t \in Tasks \ S : Cardinality(S \cup {t}) = Cardinality(S) + 1
           /\ \A t \in S : Cardinality(S \ {t}) = Cardinality(S) - 1
<1>1. IsFiniteSet(S)
  BY GraphAssumption, FS_Subset
<1>2. Cardinality(S) \in Nat
  BY <1>1, FS_CardinalityType
<1>3. Cardinality(S) = 0 <=> S = {}
  BY <1>1, FS_EmptySet
<1>4. \A t \in Tasks \ S : Cardinality(S \cup {t}) = Cardinality(S) + 1
  BY <1>1, FS_AddElement
<1>5. \A t \in S : Cardinality(S \ {t}) = Cardinality(S) - 1
  BY <1>1, FS_RemoveElement
<1> QED
  BY <1>1, <1>2, <1>3, <1>4, <1>5

LEMMA RemainingLemma ==
    ASSUME NEW c \in Tasks, NEW R
    PROVE  /\ Remaining(c, R) \subseteq DOMAIN DependsOn[c]
           /\ IsFiniteSet(Remaining(c, R))
           /\ Cardinality(Remaining(c, R)) \in Nat
           /\ Cardinality(Remaining(c, R)) = 0 <=> Deps(c) \subseteq R
<1>1. Remaining(c, R) \subseteq DOMAIN DependsOn[c]
  BY DEF Remaining
<1>2. IsFiniteSet(Remaining(c, R))
  BY <1>1, PositionsCount, FS_Subset
<1>3. Cardinality(Remaining(c, R)) \in Nat
  BY <1>2, FS_CardinalityType
<1>4. Cardinality(Remaining(c, R)) = 0 <=> Remaining(c, R) = {}
  BY <1>2, FS_EmptySet
<1>5. Remaining(c, R) = {} <=> Deps(c) \subseteq R
  BY DEF Remaining, Deps
<1> QED
  BY <1>1, <1>2, <1>3, <1>4, <1>5

\* Counting off the entries that name t is what storing t's result takes.
LEMMA CountingOff ==
    ASSUME NEW c \in Tasks, NEW t \in Tasks, NEW R, t \notin R
    PROVE  Cardinality(Remaining(c, R \cup {t})) =
             Cardinality(Remaining(c, R)) - Cardinality(Positions(t, c))
<1> DEFINE A == Remaining(c, R)
           B == Positions(t, c)
           C == Remaining(c, R \cup {t})
<1>1. A = C \cup B /\ C \cap B = {}
  BY DEF Remaining, Positions
<1>2. IsFiniteSet(B) /\ IsFiniteSet(C)
  BY PositionsCount, RemainingLemma
<1>3. Cardinality(A) = Cardinality(C) + Cardinality(B)
  <2>1. Cardinality(C \cup B) = Cardinality(C) + Cardinality(B) - Cardinality(C \cap B)
    BY <1>2, FS_Union
  <2>2. Cardinality(C \cap B) = 0
    BY <1>1, FS_EmptySet
  <2>3. Cardinality(C) \in Nat /\ Cardinality(B) \in Nat
    BY <1>2, FS_CardinalityType
  <2> QED
    BY <1>1, <2>1, <2>2, <2>3
<1>4. Cardinality(C) \in Nat /\ Cardinality(B) \in Nat
  BY <1>2, FS_CardinalityType
<1> QED
  BY <1>3, <1>4

\* Before any result is stored a task has all its entries to count off, and it
\* has none just if it depends on nothing.
LEMMA NothingCountedOff ==
    /\ \A t \in Tasks : Deps(t) \subseteq {} <=> Len(DependsOn[t]) = 0
    /\ \A t \in Tasks : Len(DependsOn[t]) = Cardinality(Remaining(t, {}))
<1>1. \A t \in Tasks : DependsOn[t] \in Seq(Tasks)
  BY GraphAssumption
<1>2. \A t \in Tasks : Deps(t) \subseteq {} <=> Len(DependsOn[t]) = 0
  <2> SUFFICES ASSUME NEW t \in Tasks PROVE Deps(t) \subseteq {} <=> Len(DependsOn[t]) = 0
    OBVIOUS
  <2>1. DOMAIN DependsOn[t] = 1 .. Len(DependsOn[t]) /\ Len(DependsOn[t]) \in Nat
    BY <1>1
  <2>2. Deps(t) = {} <=> DOMAIN DependsOn[t] = {}
    BY DEF Deps
  <2>3. \A n \in Nat : 1 .. n = {} <=> n = 0
    OBVIOUS
  <2>4. 1 .. Len(DependsOn[t]) = {} <=> Len(DependsOn[t]) = 0
    BY <2>1, <2>3
  <2> QED
    BY <2>1, <2>2, <2>4
<1>3. ASSUME NEW t \in Tasks PROVE Len(DependsOn[t]) = Cardinality(Remaining(t, {}))
  <2>1. Remaining(t, {}) = 1 .. Len(DependsOn[t]) /\ Len(DependsOn[t]) \in Nat
    BY <1>1 DEF Remaining
  <2>2. \A n \in Nat : Cardinality(1 .. n) = n
    BY FS_Interval
  <2> QED
    BY <2>1, <2>2
<1> QED
  BY <1>2, <1>3

-----------------------------------------------------------------------------
(* Spans and policies *)

LEMMA SpanValues ==
    /\ NoSpan \in Span
    /\ SkippedSpan \in Span
    /\ FreshSpan \in Span
    /\ \A s \in Span, n \in Int : [s EXCEPT !.attempts = n] \in Span
    /\ \A s \in Span, o \in Outcomes : [s EXCEPT !.error = o] \in Span
    /\ \A s \in Span : [s EXCEPT !.status = "succeeded"] \in Span
    /\ \A s \in Span : [s EXCEPT !.status = "skipped", !.error = "cancelled"] \in Span
<1> USE DEF Span, Statuses, Outcomes, SkillErrors
<1>1. NoSpan \in Span /\ SkippedSpan \in Span /\ FreshSpan \in Span
  BY DEF NoSpan, SkippedSpan, FreshSpan
<1>2. \A s \in Span, n \in Int : [s EXCEPT !.attempts = n] \in Span
  OBVIOUS
<1>3. \A s \in Span, o \in Outcomes : [s EXCEPT !.error = o] \in Span
  OBVIOUS
<1>4. \A s \in Span : [s EXCEPT !.status = "succeeded"] \in Span
  OBVIOUS
<1>5. \A s \in Span : [s EXCEPT !.status = "skipped", !.error = "cancelled"] \in Span
  OBVIOUS
<1> QED
  BY <1>1, <1>2, <1>3, <1>4, <1>5

LEMMA RetryIsInt == \A t \in Tasks : EffectiveRetry(t) \in Int
BY PolicyAssumption DEF EffectiveRetry

-----------------------------------------------------------------------------
(* Types *)

LEMMA TypeInit == Init => TypeOK
<1> SUFFICES ASSUME Init PROVE TypeOK
  OBVIOUS
<1>1. \A t \in Tasks : Len(DependsOn[t]) \in Int
  BY GraphAssumption
<1>2. report \in [status : {"none", "succeeded", "failed"},
                  output : {"none", "resolved", "nil"}, tasks : SUBSET Tasks]
  BY DEF Init, NoReport
<1>3. /\ indeg \in [Tasks -> Int]
      /\ spans \in [Tasks -> Span]
      /\ span \in [Tasks -> Span]
  BY <1>1, SpanValues DEF Init
<1>4. /\ ready \subseteq Tasks
      /\ snapshot \in [Tasks -> SUBSET Tasks]
      /\ events \in [Tasks -> SUBSET EventTypes]
      /\ pc \in [Tasks -> PCs]
  BY DEF Init, PCs
<1>5. /\ phase \in Phases /\ inFlight \in Int /\ retries \in Int /\ sem \in Int
      /\ results \subseteq Tasks /\ errors \subseteq Tasks
  BY DEF Init, Phases
<1>6. runFailed \in BOOLEAN /\ parentDone \in BOOLEAN
  BY Zenon DEF Init
<1> QED
  BY <1>2, <1>3, <1>4, <1>5, <1>6 DEF TypeOK

LEMMA TypeStep == TypeOK /\ [Next]_vars => TypeOK'
<1> SUFFICES ASSUME TypeOK, [Next]_vars PROVE TypeOK'
  OBVIOUS
<1> USE DEF TypeOK, mainVars, taskVars, Goto, End
<1>1. ASSUME NEW t \in Tasks, Dispatch(t) PROVE TypeOK'
  BY <1>1 DEF Dispatch, EventTypes, PCs
<1>2. ASSUME NEW t \in Tasks, ReceiveSuccess(t) PROVE TypeOK'
  <2>1. \A c \in Tasks : Cardinality(Positions(t, c)) \in Int
    BY PositionsCount
  <2>2. indeg' \in [Tasks -> Int]
    BY <1>2, <2>1 DEF ReceiveSuccess, CountedOff
  <2>3. ready' \subseteq Tasks
    BY <1>2, ChildrenAreTasks DEF ReceiveSuccess, NewlyReady
  <2>4. inFlight' \in Int /\ retries' \in Int
    BY <1>2 DEF ReceiveSuccess, Receive, Span
  <2> QED
    BY <1>2, <2>2, <2>3, <2>4 DEF ReceiveSuccess, Receive, EventTypes, Statuses, PCs
<1>3. ASSUME NEW t \in Tasks, ReceiveContinue(t) PROVE TypeOK'
  <2>1. inFlight' \in Int /\ retries' \in Int
    BY <1>3 DEF ReceiveContinue, Receive, Span
  <2>2. spans' \in [Tasks -> Span]
    BY <1>3, SpanValues DEF ReceiveContinue, SkipAll
  <2>3. events' \in [Tasks -> SUBSET EventTypes]
    BY <1>3 DEF ReceiveContinue, TellSkipped, AnnounceFailed, EventTypes, Statuses
  <2> QED
    BY <1>3, <2>1, <2>2, <2>3 DEF ReceiveContinue, Receive, PCs
<1>4. ASSUME NEW t \in Tasks, ReceiveFailFast(t) PROVE TypeOK'
  <2>1. inFlight' \in Int /\ retries' \in Int
    BY <1>4 DEF ReceiveFailFast, Receive, Span
  <2> QED
    BY <1>4, <2>1 DEF ReceiveFailFast, Receive, AnnounceFailed, EventTypes, Statuses, PCs, Phases
<1>5. ASSUME NEW t \in Tasks, Drain(t) PROVE TypeOK'
  BY <1>5 DEF Drain, PCs
<1>6. ASSUME EndDrain PROVE TypeOK'
  BY <1>6, SpanValues DEF EndDrain, SkipAll, TellSkipped, EventTypes, Statuses, Phases
<1>7. ASSUME Return PROVE TypeOK'
  <2>1. RunStatus \in {"succeeded", "failed"} /\ RunOutputs \subseteq {"resolved", "nil"}
    BY DEF RunStatus, RunOutputs
  <2>2. report' \in [status : {"none", "succeeded", "failed"},
                     output : {"none", "resolved", "nil"}, tasks : SUBSET Tasks]
    BY <1>7, <2>1 DEF Return
  <2> QED
    BY <1>7, <2>2 DEF Return, Phases
<1>8. ASSUME NEW t \in Tasks, ResolveInputs(t) PROVE TypeOK'
  <2> DEFINE s == [FreshSpan EXCEPT !.attempts = 1]
  <2>1. FreshSpan \in Span /\ s \in Span
    BY DEF FreshSpan, Span, Statuses
  <2> QED
    BY <1>8, <2>1 DEF ResolveInputs, FirstAttempt, PCs
<1>9. ASSUME NEW t \in Tasks, ResolveFails(t) PROVE TypeOK'
  BY <1>9 DEF ResolveFails, PCs, Span, Statuses
<1>10. ASSUME NEW t \in Tasks, AcquireSlot(t) PROVE TypeOK'
  BY <1>10 DEF AcquireSlot, AfterSlot, AfterGlobal, PCs
<1>11. ASSUME NEW t \in Tasks, CancelAtSlot(t) PROVE TypeOK'
  BY <1>11, SpanValues DEF CancelAtSlot, CancelledSpan, PCs
<1>12. ASSUME NEW t \in Tasks, GrantGlobal(t) PROVE TypeOK'
  BY <1>12 DEF GrantGlobal, AfterGlobal, PCs
<1>13. ASSUME NEW t \in Tasks, GrantProvider(t) PROVE TypeOK'
  BY <1>13 DEF GrantProvider, PCs
<1>14. ASSUME NEW t \in Tasks, CancelAtLimiter(t) PROVE TypeOK'
  <2>1. CancelledSpan(t) \in Span
    BY SpanValues DEF CancelledSpan
  <2> QED
    BY <1>14, <2>1 DEF CancelAtLimiter, PCs
<1>15. ASSUME NEW t \in Tasks, ExecSucceeds(t) PROVE TypeOK'
  <2>1. [span[t] EXCEPT !.status = "succeeded"] \in Span
    BY SpanValues
  <2> QED
    BY <1>15, <2>1 DEF ExecSucceeds, PCs
<1>16. ASSUME NEW t \in Tasks, NEW o \in Outcomes, ExecFails(t, o) PROVE TypeOK'
  <2>1. [span[t] EXCEPT !.error = o] \in Span
    BY SpanValues
  <2> QED
    BY <1>16, <2>1 DEF ExecFails, PCs
<1>17. ASSUME NEW t \in Tasks, EndBackoff(t) PROVE TypeOK'
  <2>1. span[t].attempts + 1 \in Int
    BY DEF Span
  <2> QED
    BY <1>17, <2>1, SpanValues DEF EndBackoff, PCs
<1>18. ASSUME ClientCancel PROVE TypeOK'
  BY <1>18 DEF ClientCancel
<1>19. ASSUME UNCHANGED vars PROVE TypeOK'
  BY <1>19 DEF vars
<1> QED
  BY <1>1, <1>2, <1>3, <1>4, <1>5, <1>6, <1>7, <1>8, <1>9, <1>10, <1>11, <1>12,
     <1>13, <1>14, <1>15, <1>16, <1>17, <1>18, <1>19
     DEF Next, MainStep, TaskStep, ExecReturns, Finished

\* Every variable of a run of the scheduler keeps to its type.
THEOREM TypeCorrect == Spec => []TypeOK
BY TypeInit, TypeStep, PTL DEF Spec

-----------------------------------------------------------------------------
(***************************************************************************)
(* The inductive invariant.                                                *)
(***************************************************************************)

Active == {"resolve", "slot", "global", "provider", "exec", "backoff"}

\* What executeTask has built and what the main loop has recorded.
SpanInv == \A t \in Tasks :
    /\ pc[t] \in Active \ {"resolve"} => span[t].status = "failed"
    /\ pc[t] \in {"done", "joined"} => span[t].status \in Statuses
    /\ pc[t] \in {"done", "joined"} /\ span[t].status = "skipped" => CtxDone
    /\ pc[t] \in Active \cup {"done"} => spans[t] = NoSpan
    /\ pc[t] = "joined" => spans[t] = span[t]
    /\ pc[t] = "idle" => spans[t] \in {NoSpan, SkippedSpan}

PhaseInv ==
    /\ phase = "loop" => ~runFailed
    /\ phase \in {"drain", "report"} => runFailed
    /\ phase # "loop" => ready = {}
    /\ report.status = "none" <=> phase # "returned"
    /\ phase \in {"report", "returned"} => InFlightTasks = {}
    /\ runFailed => \E t \in Tasks : spans[t].status \in {"failed", "skipped"}

\* A result is stored for the tasks received with success, and no other.
ResultInv ==
    /\ \A t \in results : pc[t] = "joined" /\ span[t].status = "succeeded"
    /\ ~runFailed => \A t \in Tasks :
         pc[t] = "joined" /\ span[t].status = "succeeded" => t \in results

\* A dispatched task saw its dependencies' results; the count of a task says
\* how many entries of its list are missing; the loop's ready tasks are just
\* those with nothing missing that were neither dispatched nor skipped.
ReadyInv ==
    /\ \A t \in Tasks : pc[t] # "idle" =>
         Deps(t) \subseteq snapshot[t] /\ snapshot[t] \subseteq results
    /\ \A t \in Tasks : indeg[t] = Cardinality(Remaining(t, results))
    /\ \A t \in ready : pc[t] = "idle" /\ spans[t] = NoSpan /\ Deps(t) \subseteq results
    /\ phase = "loop" => \A t \in Tasks :
         pc[t] = "idle" /\ spans[t] = NoSpan /\ Deps(t) \subseteq results => t \in ready

\* Before a fail_fast failure, a task is skipped without being dispatched only
\* because of a dependency, and a failure has reached everything that needs it.
SkipInv ==
    /\ ~runFailed => \A t \in Tasks : pc[t] = "idle" /\ spans[t] # NoSpan =>
         \E d \in Deps(t) : spans[d].status \in {"failed", "skipped"}
    /\ FailurePropagates

CountInv == inFlight = Cardinality(InFlightTasks)

CoreInv == SpanInv /\ PhaseInv /\ ResultInv /\ ReadyInv /\ SkipInv /\ CountInv

-----------------------------------------------------------------------------
(* The invariant is inductive *)

LEMMA CoreInit == Init => CoreInv
<1> SUFFICES ASSUME Init PROVE CoreInv
  OBVIOUS
<1>1. InFlightTasks = {}
  BY DEF Init, InFlightTasks
<1>2. CountInv
  BY <1>1, FS_EmptySet DEF Init, CountInv
<1>3. SpanInv
  BY DEF Init, SpanInv, Active
<1>4. PhaseInv
  BY DEF Init, PhaseInv, NoReport
<1>5. ResultInv
  BY DEF Init, ResultInv
<1>6. ReadyInv
  BY NothingCountedOff DEF Init, ReadyInv
<1>7. SkipInv
  BY DEF Init, SkipInv, FailurePropagates, NoSpan
<1> QED
  BY <1>2, <1>3, <1>4, <1>5, <1>6, <1>7 DEF CoreInv

\* What the steps of a goroutine have in common.
LEMMA WorkerStep ==
    ASSUME TypeOK, SpanInv, NEW t \in Tasks, TaskStep(t) \/ ExecReturns(t)
    PROVE  /\ UNCHANGED <<mainVars, snapshot, parentDone>>
           /\ \A u \in Tasks \ {t} : pc'[u] = pc[u] /\ span'[u] = span[u]
           /\ pc[t] \in Active
           /\ pc'[t] \in (Active \ {"resolve"}) \cup {"done"}
           /\ pc'[t] \in Active => span'[t].status = "failed"
           /\ pc'[t] = "done" => span'[t].status \in Statuses
           /\ pc'[t] = "done" /\ span'[t].status = "skipped" => CtxDone
<1> DEFINE Common == /\ UNCHANGED <<mainVars, snapshot, parentDone>>
                     /\ \A u \in Tasks \ {t} : pc'[u] = pc[u] /\ span'[u] = span[u]
                     /\ pc[t] \in Active
                     /\ pc'[t] \in (Active \ {"resolve"}) \cup {"done"}
                     /\ pc'[t] \in Active => span'[t].status = "failed"
                     /\ pc'[t] = "done" => span'[t].status \in Statuses
                     /\ pc'[t] = "done" /\ span'[t].status = "skipped" => CtxDone
<1>0. /\ pc[t] \in Active \ {"resolve"} => span[t].status = "failed"
      /\ pc \in [Tasks -> PCs] /\ span \in [Tasks -> Span]
  BY DEF SpanInv, TypeOK
<1> USE DEF Goto, End, Active, Statuses, Span
<1>1. CASE ResolveInputs(t)
  BY <1>0, <1>1 DEF ResolveInputs, FirstAttempt, FreshSpan
<1>2. CASE ResolveFails(t)
  BY <1>0, <1>2 DEF ResolveFails
<1>3. CASE AcquireSlot(t)
  BY <1>0, <1>3 DEF AcquireSlot, AfterSlot, AfterGlobal
<1>4. CASE CancelAtSlot(t)
  BY <1>0, <1>4 DEF CancelAtSlot, CancelledSpan
<1>5. CASE GrantGlobal(t)
  BY <1>0, <1>5 DEF GrantGlobal, AfterGlobal
<1>6. CASE GrantProvider(t)
  BY <1>0, <1>6 DEF GrantProvider
<1>7. CASE CancelAtLimiter(t)
  BY <1>0, <1>7 DEF CancelAtLimiter, CancelledSpan
<1>8. CASE EndBackoff(t)
  BY <1>0, <1>8 DEF EndBackoff
<1>9. CASE ExecSucceeds(t)
  BY <1>0, <1>9 DEF ExecSucceeds
<1>10. ASSUME NEW o \in Outcomes, ExecFails(t, o) PROVE Common
  BY <1>0, <1>10 DEF ExecFails
<1> QED
  BY <1>1, <1>2, <1>3, <1>4, <1>5, <1>6, <1>7, <1>8, <1>9, <1>10 DEF TaskStep, ExecReturns

LEMMA CoreWorker ==
    ASSUME TypeOK, CoreInv, NEW t \in Tasks, TaskStep(t) \/ ExecReturns(t)
    PROVE  CoreInv'
<1>0. SpanInv /\ PhaseInv /\ ResultInv /\ ReadyInv /\ SkipInv /\ CountInv
  BY DEF CoreInv
<1>1. /\ UNCHANGED <<mainVars, snapshot, parentDone>>
      /\ \A u \in Tasks \ {t} : pc'[u] = pc[u] /\ span'[u] = span[u]
      /\ pc[t] \in Active
      /\ pc'[t] \in (Active \ {"resolve"}) \cup {"done"}
      /\ pc'[t] \in Active => span'[t].status = "failed"
      /\ pc'[t] = "done" => span'[t].status \in Statuses
      /\ pc'[t] = "done" /\ span'[t].status = "skipped" => CtxDone
  BY <1>0, WorkerStep
<1>2. /\ phase' = phase /\ ready' = ready /\ indeg' = indeg /\ inFlight' = inFlight
      /\ results' = results /\ spans' = spans /\ runFailed' = runFailed
      /\ report' = report /\ snapshot' = snapshot /\ CtxDone' = CtxDone
  BY <1>1 DEF mainVars, CtxDone
<1>3. /\ pc[t] \notin {"idle", "done", "joined"}
      /\ pc'[t] \notin {"idle", "joined", "resolve"}
  BY <1>1 DEF Active
<1>4. InFlightTasks' = InFlightTasks
  BY <1>1, <1>3 DEF InFlightTasks
<1>5. SpanInv'
  BY <1>0, <1>1, <1>2, <1>3 DEF SpanInv
<1>6. PhaseInv'
  BY <1>0, <1>2, <1>4 DEF PhaseInv
<1>7. ResultInv'
  BY <1>0, <1>1, <1>2, <1>3 DEF ResultInv, TypeOK
<1>8. ReadyInv'
  BY <1>0, <1>1, <1>2, <1>3 DEF ReadyInv, TypeOK
<1>9. SkipInv'
  BY <1>0, <1>1, <1>2, <1>3 DEF SkipInv, FailurePropagates
<1>10. CountInv'
  BY <1>0, <1>2, <1>4 DEF CountInv
<1> QED
  BY <1>5, <1>6, <1>7, <1>8, <1>9, <1>10 DEF CoreInv

LEMMA CoreDispatch ==
    ASSUME TypeOK, CoreInv, NEW t \in Tasks, Dispatch(t)
    PROVE  CoreInv'
<1>0. SpanInv /\ PhaseInv /\ ResultInv /\ ReadyInv /\ SkipInv /\ CountInv
  BY DEF CoreInv
<1>1. pc[t] = "idle" /\ spans[t] = NoSpan /\ Deps(t) \subseteq results
  BY <1>0 DEF Dispatch, ReadyInv
<1>2. /\ pc' = [pc EXCEPT ![t] = "resolve"]
      /\ pc'[t] = "resolve"
      /\ \A u \in Tasks \ {t} : pc'[u] = pc[u]
      /\ snapshot'[t] = results
      /\ \A u \in Tasks \ {t} : snapshot'[u] = snapshot[u]
  BY DEF Dispatch, Goto, TypeOK
<1>3. /\ phase' = phase /\ phase = "loop" /\ ready' = ready \ {t} /\ indeg' = indeg
      /\ inFlight' = inFlight + 1
      /\ results' = results /\ spans' = spans /\ runFailed' = runFailed
      /\ report' = report /\ span' = span /\ CtxDone' = CtxDone
  BY DEF Dispatch, CtxDone
<1>4. InFlightTasks' = InFlightTasks \cup {t} /\ t \notin InFlightTasks
  BY <1>1, <1>2 DEF InFlightTasks
<1>5. SpanInv'
  BY <1>0, <1>1, <1>2, <1>3 DEF SpanInv, Active
<1>6. PhaseInv'
  BY <1>0, <1>3 DEF PhaseInv
<1>7. ResultInv'
  BY <1>0, <1>1, <1>2, <1>3 DEF ResultInv, TypeOK
<1>8. ReadyInv'
  BY <1>0, <1>1, <1>2, <1>3 DEF ReadyInv, TypeOK
<1>9. SkipInv'
  BY <1>0, <1>1, <1>2, <1>3 DEF SkipInv, FailurePropagates
<1>10. CountInv'
  <2>1. InFlightTasks \in SUBSET Tasks
    BY DEF InFlightTasks
  <2>2. Cardinality(InFlightTasks \cup {t}) = Cardinality(InFlightTasks) + 1
    BY <1>4, <2>1, TaskSets
  <2> QED
    BY <1>0, <1>3, <1>4, <2>2 DEF CountInv
<1> QED
  BY <1>5, <1>6, <1>7, <1>8, <1>9, <1>10 DEF CoreInv

\* A receive, in the loop or in the drain, moves t out of flight.
LEMMA ReceiveStep ==
    ASSUME TypeOK, CountInv, SpanInv, NEW t \in Tasks, pc[t] = "done", Goto(t, "joined"),
           inFlight' = inFlight - 1
    PROVE  /\ pc'[t] = "joined"
           /\ \A u \in Tasks \ {t} : pc'[u] = pc[u]
           /\ spans[t] = NoSpan
           /\ span[t].status \in Statuses
           /\ span[t] # NoSpan
           /\ InFlightTasks' = InFlightTasks \ {t}
           /\ CountInv'
<1>1. pc'[t] = "joined" /\ \A u \in Tasks \ {t} : pc'[u] = pc[u]
  BY DEF Goto, TypeOK
<1>2. spans[t] = NoSpan /\ span[t].status \in Statuses
  BY DEF SpanInv
<1>3. span[t] # NoSpan
  BY <1>2 DEF NoSpan, Statuses
<1>4. InFlightTasks' = InFlightTasks \ {t} /\ t \in InFlightTasks
  BY <1>1 DEF InFlightTasks
<1>5. CountInv'
  <2>1. InFlightTasks \in SUBSET Tasks
    BY DEF InFlightTasks
  <2>2. Cardinality(InFlightTasks \ {t}) = Cardinality(InFlightTasks) - 1
    BY <1>4, <2>1, TaskSets
  <2> QED
    BY <1>4, <2>2 DEF CountInv
<1> QED
  BY <1>1, <1>2, <1>3, <1>4, <1>5

LEMMA CoreReceiveSuccess ==
    ASSUME TypeOK, TypeOK', CoreInv, NEW t \in Tasks, ReceiveSuccess(t)
    PROVE  CoreInv'
<1>0. SpanInv /\ PhaseInv /\ ResultInv /\ ReadyInv /\ SkipInv /\ CountInv
  BY DEF CoreInv
<1>1. /\ pc'[t] = "joined"
      /\ \A u \in Tasks \ {t} : pc'[u] = pc[u]
      /\ spans[t] = NoSpan /\ span[t] # NoSpan
      /\ InFlightTasks' = InFlightTasks \ {t}
      /\ CountInv'
  BY <1>0, ReceiveStep DEF ReceiveSuccess, Receive
<1>2. /\ pc[t] = "done" /\ span[t].status = "succeeded"
      /\ phase = "loop" /\ phase' = phase /\ ready = {} /\ ready' = NewlyReady(t)
      /\ indeg' = CountedOff(t)
      /\ results' = results \cup {t} /\ runFailed' = runFailed /\ report' = report
      /\ span' = span /\ snapshot' = snapshot /\ CtxDone' = CtxDone
      /\ spans'[t] = span[t]
      /\ \A u \in Tasks \ {t} : spans'[u] = spans[u]
  BY DEF ReceiveSuccess, Receive, CtxDone, TypeOK
<1>3. t \notin results
  BY <1>0, <1>2 DEF ResultInv
\* Nothing that depends on t has been dispatched.
<1>4. \A c \in Tasks : t \in Deps(c) => pc[c] = "idle"
  BY <1>0, <1>3 DEF ReadyInv
<1>5. SpanInv'
  BY <1>0, <1>1, <1>2 DEF SpanInv, Statuses, Active
<1>6. PhaseInv'
  <2>1. ~runFailed
    BY <1>0, <1>2 DEF PhaseInv
  <2> QED
    BY <1>0, <1>2, <2>1 DEF PhaseInv
<1>7. ResultInv'
  BY <1>0, <1>1, <1>2 DEF ResultInv, TypeOK
<1>8. ReadyInv'
  <2>1. \A u \in Tasks : pc'[u] # "idle" =>
           Deps(u) \subseteq snapshot'[u] /\ snapshot'[u] \subseteq results'
    BY <1>0, <1>1, <1>2 DEF ReadyInv
  <2>2. \A c \in Tasks : indeg'[c] = Cardinality(Remaining(c, results'))
    BY <1>0, <1>2, <1>3, CountingOff DEF ReadyInv, CountedOff
  <2>3. \A c \in Tasks : indeg'[c] <= 0 <=> Deps(c) \subseteq results'
    BY <2>2, RemainingLemma
  <2>4. \A c \in Tasks : indeg[c] > 0 <=> ~(Deps(c) \subseteq results)
    <3>1. \A c \in Tasks : Cardinality(Remaining(c, results)) > 0
                             <=> ~(Deps(c) \subseteq results)
      BY RemainingLemma
    <3> QED
      BY <1>0, <3>1 DEF ReadyInv
  <2>5. \A c \in Tasks : c \in ready' <=> t \in Deps(c) /\ Deps(c) \subseteq results'
    <3>1. \A c \in Tasks : c \in ready' <=>
             c \in Children(t) /\ indeg[c] > 0 /\ indeg'[c] <= 0
      BY <1>2, ChildrenAreTasks DEF NewlyReady
    <3>2. \A c \in Tasks : t \in Deps(c) => ~(Deps(c) \subseteq results)
      BY <1>3
    <3> QED
      BY <2>3, <2>4, <3>1, <3>2, DepsAreTasks
  <2>6. ASSUME NEW c \in ready'
        PROVE  pc'[c] = "idle" /\ spans'[c] = NoSpan /\ Deps(c) \subseteq results'
    <3>1. c \in Tasks /\ t \in Deps(c) /\ Deps(c) \subseteq results'
      BY <2>5, <2>6 DEF TypeOK
    <3>2. pc[c] = "idle" /\ c # t
      BY <1>2, <1>4, <3>1
    <3>3. ASSUME spans[c] # NoSpan PROVE FALSE
      <4>1. PICK d \in Deps(c) : spans[d].status \in {"failed", "skipped"}
        BY <1>0, <1>2, <3>1, <3>2, <3>3 DEF SkipInv, PhaseInv
      <4>2. d \in Tasks /\ d # t /\ d \in results
        BY <1>1, <1>2, <3>1, <4>1, DepsAreTasks DEF NoSpan
      <4>3. spans[d].status = "succeeded"
        BY <1>0, <4>2 DEF ResultInv, SpanInv
      <4> QED
        BY <4>1, <4>3
    <3> QED
      BY <1>1, <1>2, <3>1, <3>2, <3>3
  <2>7. ASSUME NEW c \in Tasks, pc'[c] = "idle", spans'[c] = NoSpan, Deps(c) \subseteq results'
        PROVE  c \in ready'
    <3>1. c # t /\ pc[c] = "idle" /\ spans[c] = NoSpan
      BY <1>1, <1>2, <2>7
    <3>2. ~(Deps(c) \subseteq results)
      BY <1>0, <1>2, <3>1 DEF ReadyInv
    <3>3. t \in Deps(c)
      BY <1>2, <2>7, <3>2
    <3> QED
      BY <2>5, <2>7, <3>3
  <2> QED
    BY <2>1, <2>2, <2>6, <2>7 DEF ReadyInv
<1>9. SkipInv'
  <2>1. ASSUME NEW u \in Tasks, NEW d \in Deps(u), spans[d].status \in {"failed", "skipped"}
        PROVE  spans'[d].status \in {"failed", "skipped"}
    BY <1>1, <1>2, <2>1, DepsAreTasks DEF NoSpan
  <2>2. ASSUME NEW u \in Tasks, pc'[u] = "idle", spans'[u] # NoSpan
        PROVE  \E d \in Deps(u) : spans'[d].status \in {"failed", "skipped"}
    <3>1. u # t /\ pc[u] = "idle" /\ spans[u] # NoSpan
      BY <1>1, <1>2, <2>2
    <3> QED
      BY <1>0, <1>2, <2>1, <3>1 DEF SkipInv, PhaseInv
  <2>3. FailurePropagates'
    <3> SUFFICES ASSUME NEW u \in Tasks, NEW d \in Tasks, d \in Deps(u),
                        spans'[d].status \in {"failed", "skipped"}
                 PROVE  spans'[u].status = "skipped"
      BY DEF FailurePropagates
    <3>1. d # t /\ spans[d].status \in {"failed", "skipped"}
      BY <1>2
    <3>2. spans[u].status = "skipped"
      BY <1>0, <1>2, <3>1 DEF SkipInv, FailurePropagates
    <3> QED
      BY <1>1, <1>2, <3>2 DEF NoSpan
  <2> QED
    BY <2>2, <2>3 DEF SkipInv
<1> QED
  BY <1>1, <1>5, <1>6, <1>7, <1>8, <1>9 DEF CoreInv

LEMMA CoreReceiveContinue ==
    ASSUME TypeOK, CoreInv, NEW t \in Tasks, ReceiveContinue(t)
    PROVE  CoreInv'
<1> DEFINE open == Unspanned \ {t}
           lost == Descendants(t, open)
           Bad(sp, d) == sp[d].status \in {"failed", "skipped"}
<1>0. SpanInv /\ PhaseInv /\ ResultInv /\ ReadyInv /\ SkipInv /\ CountInv
  BY DEF CoreInv
<1>1. /\ pc'[t] = "joined"
      /\ \A u \in Tasks \ {t} : pc'[u] = pc[u]
      /\ spans[t] = NoSpan /\ span[t] # NoSpan
      /\ InFlightTasks' = InFlightTasks \ {t}
      /\ CountInv'
      /\ span[t].status \in Statuses
  BY <1>0, ReceiveStep DEF ReceiveContinue, Receive
<1>2. /\ pc[t] = "done" /\ span[t].status # "succeeded"
      /\ phase = "loop" /\ phase' = phase /\ ready = {} /\ ready' = ready
      /\ indeg' = indeg
      /\ results' = results /\ runFailed' = runFailed /\ report' = report
      /\ span' = span /\ snapshot' = snapshot /\ CtxDone' = CtxDone
  BY DEF ReceiveContinue, Receive, CtxDone
<1>3. ~runFailed
  BY <1>0, <1>2 DEF PhaseInv
<1>4. open \in SUBSET Tasks /\ lost \subseteq open
  BY DescendantsLemma DEF Unspanned
<1>5. /\ spans'[t] = span[t]
      /\ \A u \in lost : spans[u] = NoSpan /\ spans'[u] = SkippedSpan
      /\ \A u \in Tasks \ (lost \cup {t}) : spans'[u] = spans[u]
  <2>1. spans' = SkipAll(lost, [spans EXCEPT ![t] = span[t]])
    BY DEF ReceiveContinue
  <2>2. t \notin lost /\ \A u \in lost : spans[u] = NoSpan
    BY <1>4 DEF Unspanned
  <2> QED
    BY <1>4, <2>1, <2>2 DEF SkipAll, TypeOK
<1>6. t \notin results
  BY <1>0, <1>2 DEF ResultInv
\* What depends on t, or on a task that has not been dispatched, has not been
\* dispatched: so nothing in flight is marked.
<1>7. \A c \in Tasks : t \in Deps(c) => pc[c] = "idle"
  BY <1>0, <1>6 DEF ReadyInv
<1>8. \A c \in Tasks, d \in Tasks : d \in Deps(c) /\ pc[d] = "idle" => pc[c] = "idle"
  BY <1>0 DEF ReadyInv, ResultInv
<1>9. \A u \in lost : pc[u] = "idle"
  <2> DEFINE S == {u \in open : pc[u] = "idle"}
  <2>1. S \in SUBSET open
    OBVIOUS
  <2>2. ASSUME NEW u \in S \cup {t}, NEW c \in Children(u) \cap open PROVE c \in S
    <3>1. u \in Tasks /\ c \in Tasks /\ u \in Deps(c)
      BY <1>4 DEF Children
    <3>2. pc[c] = "idle"
      BY <1>7, <1>8, <3>1
    <3> QED
      BY <3>2
  <2>3. ClosedFrom(S, t, open)
    BY <2>2 DEF ClosedFrom
  <2>4. lost \subseteq S
    BY <1>4, <2>1, <2>3, DescendantsLemma
  <2> QED
    BY <2>4
<1>10. Bad(spans', t) /\ \A d \in lost : Bad(spans', d)
  <2>1. span[t].status \in {"failed", "skipped"}
    BY <1>1, <1>2 DEF Statuses
  <2>2. SkippedSpan.status = "skipped"
    BY DEF SkippedSpan
  <2> QED
    BY <1>5, <2>1, <2>2
<1>11. \A d \in Tasks : Bad(spans, d) => Bad(spans', d)
  BY <1>5, <1>10
<1>12. SpanInv'
  BY <1>0, <1>1, <1>2, <1>5, <1>9 DEF SpanInv, Active
<1>13. PhaseInv'
  BY <1>0, <1>2, <1>3 DEF PhaseInv
<1>14. ResultInv'
  BY <1>0, <1>1, <1>2 DEF ResultInv, TypeOK
<1>15. ReadyInv'
  <2>1. \A u \in Tasks : spans'[u] = NoSpan => spans[u] = NoSpan
    BY <1>1, <1>4, <1>5 DEF NoSpan, SkippedSpan
  <2>2. \A u \in Tasks : pc'[u] # "idle" =>
           Deps(u) \subseteq snapshot'[u] /\ snapshot'[u] \subseteq results'
    BY <1>0, <1>1, <1>2 DEF ReadyInv
  <2>3. \A u \in Tasks : indeg'[u] = Cardinality(Remaining(u, results'))
    BY <1>0, <1>2 DEF ReadyInv
  <2>4. \A u \in Tasks : pc'[u] = "idle" /\ spans'[u] = NoSpan /\ Deps(u) \subseteq results'
                           => u \in ready'
    BY <1>0, <1>1, <1>2, <2>1 DEF ReadyInv
  <2> QED
    BY <1>2, <2>2, <2>3, <2>4 DEF ReadyInv
<1>16. SkipInv'
  <2>1. ASSUME NEW u \in Tasks, pc'[u] = "idle", spans'[u] # NoSpan
        PROVE  \E d \in Deps(u) : Bad(spans', d)
    <3>1. u # t /\ pc[u] = "idle"
      BY <1>1, <2>1
    <3>2. CASE u \in lost
      <4>1. PICK d \in lost \cup {t} : d \in Deps(u)
        BY <1>4, <3>2, DescendantsLemma
      <4> QED
        BY <1>10, <4>1
    <3>3. CASE u \notin lost
      <4>1. spans[u] # NoSpan
        BY <1>5, <2>1, <3>1, <3>3
      <4>2. PICK d \in Deps(u) : Bad(spans, d)
        BY <1>0, <1>3, <3>1, <4>1 DEF SkipInv
      <4> QED
        BY <1>11, <4>2, DepsAreTasks
    <3> QED
      BY <3>2, <3>3
  <2>2. ASSUME NEW u \in Tasks, NEW d \in Tasks, d \in Deps(u), Bad(spans', d)
        PROVE  spans'[u].status = "skipped"
    <3>1. CASE d \in lost \cup {t}
      <4>1. pc[u] = "idle" /\ u # t
        BY <1>2, <1>7, <1>8, <1>9, <2>2, <3>1
      <4>2. CASE spans[u] = NoSpan
        <5>1. u \in Children(d) \cap open
          BY <2>2, <4>1, <4>2 DEF Children, Unspanned
        <5>2. u \in lost
          BY <1>4, <3>1, <5>1, DescendantsLemma
        <5> QED
          BY <1>5, <5>2 DEF SkippedSpan
      <4>3. CASE spans[u] # NoSpan
        <5>1. spans[u] = SkippedSpan /\ spans'[u] = spans[u]
          BY <1>0, <1>5, <4>1, <4>3 DEF SpanInv
        <5> QED
          BY <5>1 DEF SkippedSpan
      <4> QED
        BY <4>2, <4>3
    <3>2. CASE d \notin lost \cup {t}
      <4>1. Bad(spans, d)
        BY <1>5, <2>2, <3>2
      <4>2. spans[u].status = "skipped"
        BY <1>0, <1>2, <2>2, <4>1 DEF SkipInv, FailurePropagates
      <4>3. u \notin lost \cup {t}
        BY <1>1, <1>5, <4>2 DEF NoSpan
      <4> QED
        BY <1>5, <4>2, <4>3
    <3> QED
      BY <3>1, <3>2
  <2> QED
    BY <2>1, <2>2 DEF SkipInv, FailurePropagates
<1> QED
  BY <1>1, <1>12, <1>13, <1>14, <1>15, <1>16 DEF CoreInv

\* Receiving the failure that ends the loop, and draining, record one span.
LEMMA CoreFailFastOrDrain ==
    ASSUME TypeOK, CoreInv, NEW t \in Tasks, ReceiveFailFast(t) \/ Drain(t)
    PROVE  CoreInv'
<1>0. SpanInv /\ PhaseInv /\ ResultInv /\ ReadyInv /\ SkipInv /\ CountInv
  BY DEF CoreInv
<1>1. /\ pc'[t] = "joined"
      /\ \A u \in Tasks \ {t} : pc'[u] = pc[u]
      /\ spans[t] = NoSpan /\ span[t] # NoSpan
      /\ InFlightTasks' = InFlightTasks \ {t}
      /\ CountInv'
      /\ span[t].status \in Statuses
  BY <1>0, ReceiveStep DEF ReceiveFailFast, Receive, Drain
<1>2. /\ pc[t] = "done"
      /\ phase \in {"loop", "drain"} /\ phase' = "drain" /\ ready = {} /\ ready' = ready
      /\ indeg' = indeg
      /\ results' = results /\ runFailed' = TRUE /\ report' = report
      /\ span' = span /\ snapshot' = snapshot /\ CtxDone'
      /\ spans'[t] = span[t]
      /\ \A u \in Tasks \ {t} : spans'[u] = spans[u]
      /\ phase = "loop" => span[t].status # "succeeded"
  BY <1>0 DEF ReceiveFailFast, Receive, Drain, CtxDone, PhaseInv, TypeOK
<1>3. SpanInv'
  BY <1>0, <1>1, <1>2 DEF SpanInv, Active
<1>4. PhaseInv'
  <2>1. \E u \in Tasks : spans'[u].status \in {"failed", "skipped"}
    <3>1. CASE phase = "loop"
      BY <1>1, <1>2, <3>1 DEF Statuses
    <3>2. CASE phase = "drain"
      <4>1. PICK u \in Tasks : spans[u].status \in {"failed", "skipped"}
        BY <1>0, <3>2 DEF PhaseInv
      <4>2. u # t
        BY <1>1, <4>1 DEF NoSpan
      <4> QED
        BY <1>2, <4>1, <4>2
    <3> QED
      BY <1>2, <3>1, <3>2
  <2> QED
    BY <1>0, <1>2, <2>1 DEF PhaseInv
<1>5. ResultInv'
  BY <1>0, <1>1, <1>2 DEF ResultInv, TypeOK
<1>6. ReadyInv'
  BY <1>0, <1>1, <1>2 DEF ReadyInv
<1>7. SkipInv'
  BY <1>2 DEF SkipInv, FailurePropagates
<1> QED
  BY <1>1, <1>3, <1>4, <1>5, <1>6, <1>7 DEF CoreInv

\* When the counts are down to zero nothing is in flight.
LEMMA NoneInFlight ==
    ASSUME CountInv, inFlight = 0
    PROVE  InFlightTasks = {}
<1>1. InFlightTasks \in SUBSET Tasks
  BY DEF InFlightTasks
<1> QED
  BY <1>1, TaskSets DEF CountInv

LEMMA CoreEndDrain ==
    ASSUME TypeOK, CoreInv, EndDrain
    PROVE  CoreInv'
<1>0. SpanInv /\ PhaseInv /\ ResultInv /\ ReadyInv /\ SkipInv /\ CountInv
  BY DEF CoreInv
<1>1. /\ phase = "drain" /\ phase' = "report" /\ ready' = {} /\ inFlight = 0
      /\ inFlight' = inFlight /\ pc' = pc /\ span' = span /\ snapshot' = snapshot
      /\ indeg' = indeg /\ results' = results /\ runFailed' = runFailed
      /\ report' = report /\ CtxDone' = CtxDone
      /\ \A u \in Tasks : spans'[u] = IF spans[u] = NoSpan THEN SkippedSpan ELSE spans[u]
  BY DEF EndDrain, taskVars, CtxDone, SkipAll, Unspanned
<1>2. InFlightTasks = {} /\ InFlightTasks' = InFlightTasks
  BY <1>0, <1>1, NoneInFlight DEF InFlightTasks
<1>3. runFailed
  BY <1>0, <1>1 DEF PhaseInv
<1>4. SpanInv'
  <2>1. \A t \in Tasks : pc[t] \in {"idle", "joined"}
    BY <1>2 DEF InFlightTasks
  <2>2. \A t \in Tasks : pc[t] = "joined" => spans[t] # NoSpan
    BY <1>0 DEF SpanInv, Statuses, NoSpan
  <2> QED
    BY <1>0, <1>1, <2>1, <2>2 DEF SpanInv, Active
<1>5. PhaseInv'
  <2>1. PICK u \in Tasks : spans[u].status \in {"failed", "skipped"}
    BY <1>0, <1>3 DEF PhaseInv
  <2>2. spans'[u] = spans[u]
    BY <1>1, <2>1 DEF NoSpan
  <2> QED
    BY <1>0, <1>1, <1>2, <1>3, <2>1, <2>2 DEF PhaseInv
<1>6. ResultInv'
  BY <1>0, <1>1 DEF ResultInv
<1>7. ReadyInv'
  BY <1>0, <1>1 DEF ReadyInv
<1>8. SkipInv'
  BY <1>1, <1>3 DEF SkipInv, FailurePropagates
<1>9. CountInv'
  BY <1>0, <1>1, <1>2 DEF CountInv
<1> QED
  BY <1>4, <1>5, <1>6, <1>7, <1>8, <1>9 DEF CoreInv

LEMMA CoreReturn ==
    ASSUME TypeOK, CoreInv, Return
    PROVE  CoreInv'
<1>0. SpanInv /\ PhaseInv /\ ResultInv /\ ReadyInv /\ SkipInv /\ CountInv
  BY DEF CoreInv
<1>1. /\ phase \in {"loop", "report"} /\ phase' = "returned" /\ ready' = ready
      /\ phase = "loop" => ready = {} /\ inFlight = 0
      /\ inFlight' = inFlight /\ pc' = pc /\ span' = span /\ snapshot' = snapshot
      /\ indeg' = indeg /\ results' = results /\ runFailed' = runFailed
      /\ spans' = spans /\ CtxDone' = CtxDone
      /\ report'.status # "none"
  BY DEF Return, LoopEnded, taskVars, CtxDone, RunStatus
<1>2. InFlightTasks = {} /\ InFlightTasks' = InFlightTasks
  BY <1>0, <1>1, NoneInFlight DEF InFlightTasks, PhaseInv
<1>3. SpanInv'
  BY <1>0, <1>1 DEF SpanInv
<1>4. PhaseInv'
  BY <1>0, <1>1, <1>2 DEF PhaseInv
<1>5. ResultInv'
  BY <1>0, <1>1 DEF ResultInv
<1>6. ReadyInv'
  BY <1>0, <1>1 DEF ReadyInv
<1>7. SkipInv'
  BY <1>0, <1>1 DEF SkipInv, FailurePropagates
<1>8. CountInv'
  BY <1>0, <1>1, <1>2 DEF CountInv
<1> QED
  BY <1>3, <1>4, <1>5, <1>6, <1>7, <1>8 DEF CoreInv

\* Cancellation by the client changes nothing but the context.
LEMMA CoreCancel ==
    ASSUME CoreInv, ClientCancel \/ UNCHANGED vars
    PROVE  CoreInv'
<1>1. UNCHANGED <<mainVars, taskVars>> /\ (CtxDone => CtxDone')
  BY DEF ClientCancel, vars, mainVars, CtxDone
<1>2. InFlightTasks' = InFlightTasks
  BY <1>1 DEF taskVars, InFlightTasks
<1> QED
  BY <1>1, <1>2 DEF mainVars, taskVars, CoreInv, SpanInv, PhaseInv, ResultInv, ReadyInv,
                    SkipInv, FailurePropagates, CountInv

LEMMA CoreStep == TypeOK /\ TypeOK' /\ CoreInv /\ [Next]_vars => CoreInv'
BY CoreWorker, CoreDispatch, CoreReceiveSuccess, CoreReceiveContinue,
   CoreFailFastOrDrain, CoreEndDrain, CoreReturn, CoreCancel
   DEF Next, MainStep, Finished

\* The loop's books (ready, running, in-degrees, spans) and its workers agree at
\* every step of Run.
THEOREM CoreCorrect == Spec => []CoreInv
<1>1. Init => CoreInv
  BY CoreInit
<1>2. TypeOK /\ TypeOK' /\ CoreInv /\ [Next]_vars => CoreInv'
  BY CoreStep
<1> QED
  BY <1>1, <1>2, TypeCorrect, PTL DEF Spec

-----------------------------------------------------------------------------
(* Slots *)

LEMMA SlotInit == Init => SlotAccounting
<1> SUFFICES ASSUME Init PROVE SlotAccounting
  OBVIOUS
<1>1. Holders = {}
  BY DEF Init, Holders
<1>2. Cardinality(Holders) = 0
  BY <1>1, FS_EmptySet
<1> QED
  BY <1>2, PolicyAssumption DEF Init, SlotAccounting

LEMMA SlotStep == TypeOK /\ CoreInv /\ SlotAccounting /\ [Next]_vars => SlotAccounting'
<1> SUFFICES ASSUME TypeOK, CoreInv, SlotAccounting, [Next]_vars PROVE SlotAccounting'
  OBVIOUS
<1>0. Holders \in SUBSET Tasks
  BY DEF Holders
<1> DEFINE Holding(l) == l \in {"global", "provider", "exec"}
\* A step that takes, gives back or keeps the slot of t.
<1>a. ASSUME NEW t \in Tasks, NEW l, pc' = [pc EXCEPT ![t] = l],
             ~Holding(pc[t]), Holding(l), sem < MaxParallel, sem' = sem + 1
      PROVE  SlotAccounting'
  <2>1. t \notin Holders
    BY <1>a DEF Holders
  <2>2. Holders' = Holders \cup {t}
    BY <1>a DEF Holders, TypeOK
  <2>3. Cardinality(Holders') = Cardinality(Holders) + 1
    BY <1>0, <2>1, <2>2, TaskSets
  <2> QED
    BY <1>a, <2>3, <1>0, TaskSets, PolicyAssumption DEF SlotAccounting
<1>b. ASSUME NEW t \in Tasks, NEW l, pc' = [pc EXCEPT ![t] = l],
             Holding(pc[t]), ~Holding(l), sem' = sem - 1
      PROVE  SlotAccounting'
  <2>1. t \in Holders
    BY <1>b DEF Holders
  <2>2. Holders' = Holders \ {t}
    BY <1>b DEF Holders, TypeOK
  <2>3. Cardinality(Holders') = Cardinality(Holders) - 1
    BY <1>0, <2>1, <2>2, TaskSets
  <2> QED
    BY <1>b, <2>3, <1>0, TaskSets, PolicyAssumption DEF SlotAccounting
<1>c. ASSUME NEW t \in Tasks, NEW l, pc' = [pc EXCEPT ![t] = l],
             Holding(pc[t]) <=> Holding(l), sem' = sem
      PROVE  SlotAccounting'
  <2>1. Holders' = Holders
    BY <1>c DEF Holders, TypeOK
  <2> QED
    BY <1>c, <2>1 DEF SlotAccounting
<1>d. ASSUME UNCHANGED <<pc, sem>> PROVE SlotAccounting'
  BY <1>d DEF SlotAccounting, Holders
<1> USE DEF Goto, End, taskVars
<1>1. ASSUME NEW t \in Tasks, AcquireSlot(t) PROVE SlotAccounting'
  <2>1. Holding(AfterSlot(t))
    BY DEF AfterSlot, AfterGlobal
  <2> QED
    BY <1>1, <1>a, <2>1 DEF AcquireSlot
<1>2. ASSUME NEW t \in Tasks, GrantGlobal(t) PROVE SlotAccounting'
  <2>1. Holding(AfterGlobal(t))
    BY DEF AfterGlobal
  <2> QED
    BY <1>2, <1>c, <2>1 DEF GrantGlobal
<1>3. ASSUME NEW t \in Tasks, GrantProvider(t) PROVE SlotAccounting'
  BY <1>3, <1>c DEF GrantProvider
<1>4. ASSUME NEW t \in Tasks, CancelAtLimiter(t) PROVE SlotAccounting'
  BY <1>4, <1>b DEF CancelAtLimiter
<1>5. ASSUME NEW t \in Tasks, ExecSucceeds(t) PROVE SlotAccounting'
  BY <1>5, <1>b DEF ExecSucceeds
<1>6. ASSUME NEW t \in Tasks, NEW o \in Outcomes, ExecFails(t, o) PROVE SlotAccounting'
  <2>1. ~Holding(IF WillRetry(t, o) THEN "backoff" ELSE "done")
    OBVIOUS
  <2> QED
    BY <1>6, <1>b, <2>1 DEF ExecFails
<1>7. ASSUME NEW t \in Tasks,
             \/ ResolveInputs(t) \/ ResolveFails(t) \/ CancelAtSlot(t) \/ EndBackoff(t)
      PROVE  SlotAccounting'
  BY <1>7, <1>c DEF ResolveInputs, FirstAttempt, ResolveFails, CancelAtSlot, EndBackoff
<1>8. ASSUME NEW t \in Tasks, Dispatch(t) PROVE SlotAccounting'
  <2>1. pc[t] = "idle"
    BY <1>8 DEF Dispatch, CoreInv, ReadyInv
  <2> QED
    BY <1>8, <1>c, <2>1 DEF Dispatch
<1>9. ASSUME NEW t \in Tasks,
             \/ ReceiveSuccess(t) \/ ReceiveContinue(t) \/ ReceiveFailFast(t) \/ Drain(t)
      PROVE  SlotAccounting'
  BY <1>9, <1>c DEF ReceiveSuccess, ReceiveContinue, ReceiveFailFast, Receive, Drain
<1>10. ASSUME EndDrain \/ Return \/ ClientCancel \/ UNCHANGED vars PROVE SlotAccounting'
  BY <1>10, <1>d DEF EndDrain, Return, ClientCancel, vars
<1> QED
  BY <1>1, <1>2, <1>3, <1>4, <1>5, <1>6, <1>7, <1>8, <1>9, <1>10
     DEF Next, MainStep, TaskStep, ExecReturns, Finished

\* No more invocations than max_parallel are ever in progress, and the slot
\* channel counts exactly those: no early return leaks a slot.
THEOREM SlotsCorrect == Spec => []SlotAccounting
<1>1. Init => SlotAccounting
  BY SlotInit
<1>2. TypeOK /\ CoreInv /\ SlotAccounting /\ [Next]_vars => SlotAccounting'
  BY SlotStep
<1> QED
  BY <1>1, <1>2, TypeCorrect, CoreCorrect, PTL DEF Spec

-----------------------------------------------------------------------------
(* Order, completeness and skipping *)

\* No task is dispatched before everything it depends on has succeeded.
THEOREM DependencyOrderCorrect == Spec => []DependencyOrder
<1>1. ASSUME TypeOK, CoreInv PROVE DependencyOrder
  <2> SUFFICES ASSUME NEW t \in Tasks, pc[t] # "idle"
               PROVE  /\ Deps(t) \subseteq snapshot[t]
                      /\ \A d \in Deps(t) : spans[d].status = "succeeded"
    BY DEF DependencyOrder
  <2>1. Deps(t) \subseteq snapshot[t] /\ snapshot[t] \subseteq results
    BY <1>1 DEF CoreInv, ReadyInv
  <2>2. \A d \in results : d \in Tasks /\ spans[d].status = "succeeded"
    BY <1>1 DEF CoreInv, ResultInv, SpanInv, TypeOK
  <2> QED
    BY <2>1, <2>2
<1> QED
  BY <1>1, TypeCorrect, CoreCorrect, PTL

\* The heart of completeness: while a task has no span, the loop has work.  Of
\* the tasks without a span one depends on none of the others; its dependencies
\* all have spans, none of them bad, so it is ready or in flight.
LEMMA LoopHasWork ==
    ASSUME TypeOK, CoreInv, phase = "loop", ready = {}, InFlightTasks = {}
    PROVE  Unspanned = {}
<1> SUFFICES ASSUME Unspanned # {} PROVE FALSE
  OBVIOUS
<1>0. SpanInv /\ PhaseInv /\ ResultInv /\ ReadyInv /\ SkipInv
  BY DEF CoreInv
<1>1. Unspanned \in SUBSET Tasks
  BY DEF Unspanned
<1>2. PICK t \in Unspanned : Deps(t) \cap Unspanned = {}
  BY <1>1, GraphAssumption DEF Acyclic
<1>3. t \in Tasks /\ spans[t] = NoSpan
  BY <1>2 DEF Unspanned
<1>4. \A u \in Tasks : pc[u] \in {"idle", "joined"}
  BY DEF InFlightTasks
<1>5. pc[t] = "idle"
  BY <1>0, <1>3, <1>4 DEF SpanInv, Statuses, NoSpan
<1>6. ASSUME NEW d \in Deps(t) PROVE d \in results
  <2>1. d \in Tasks /\ spans[d] # NoSpan
    BY <1>2, <1>3, DepsAreTasks DEF Unspanned
  <2>2. spans[d].status \notin {"failed", "skipped"}
    BY <1>0, <1>3, <2>1 DEF SkipInv, FailurePropagates, NoSpan
  <2>3. pc[d] = "joined"
    BY <1>0, <1>4, <2>1, <2>2 DEF SpanInv, SkippedSpan
  <2>4. span[d].status = "succeeded"
    BY <1>0, <2>1, <2>2, <2>3 DEF SpanInv, Statuses
  <2> QED
    BY <1>0, <2>1, <2>3, <2>4 DEF ResultInv, PhaseInv
<1>7. t \in ready
  BY <1>0, <1>3, <1>5, <1>6 DEF ReadyInv
<1> QED
  BY <1>7

LEMMA LoopEndsComplete ==
    ASSUME TypeOK, CoreInv, phase = "loop", ready = {}, inFlight = 0
    PROVE  Unspanned = {} /\ InFlightTasks = {}
BY LoopHasWork, NoneInFlight DEF CoreInv

\* Once the loop is left for good, every task has its span.
AllSpanned == phase \in {"report", "returned"} => Unspanned = {}

LEMMA AllSpannedStep ==
    ASSUME TypeOK, CoreInv, AllSpanned, [Next]_vars
    PROVE  AllSpanned'
<1> SUFFICES ASSUME phase' \in {"report", "returned"} PROVE Unspanned' = {}
  BY DEF AllSpanned
<1>1. CASE EndDrain
  <2>1. \A u \in Tasks : spans'[u] = IF spans[u] = NoSpan THEN SkippedSpan ELSE spans[u]
    BY <1>1 DEF EndDrain, SkipAll, Unspanned
  <2> QED
    BY <2>1 DEF Unspanned, SkippedSpan, NoSpan
<1>2. CASE Return
  BY <1>2, LoopEndsComplete DEF Return, LoopEnded, AllSpanned, Unspanned
<1>3. CASE UNCHANGED <<phase, spans>>
  BY <1>3 DEF AllSpanned, Unspanned
<1>4. ASSUME NEW t \in Tasks, TaskStep(t) \/ ExecReturns(t) PROVE UNCHANGED <<phase, spans>>
  BY <1>4, WorkerStep DEF CoreInv, mainVars
<1>5. ASSUME NEW t \in Tasks, \/ ReceiveSuccess(t) \/ ReceiveContinue(t)
                              \/ ReceiveFailFast(t) \/ Drain(t) \/ Dispatch(t)
      PROVE  phase' \notin {"report", "returned"}
  BY <1>5 DEF ReceiveSuccess, ReceiveContinue, ReceiveFailFast, Receive, Drain, Dispatch
<1>6. CASE ClientCancel \/ UNCHANGED vars
  BY <1>3, <1>6 DEF ClientCancel, vars, mainVars
<1> QED
  BY <1>1, <1>2, <1>3, <1>4, <1>5, <1>6 DEF Next, MainStep, Finished

LEMMA AllSpannedCorrect == Spec => []AllSpanned
<1>1. Init => AllSpanned
  BY DEF Init, AllSpanned
<1>2. TypeOK /\ CoreInv /\ AllSpanned /\ [Next]_vars => AllSpanned'
  BY AllSpannedStep
<1> QED
  BY <1>1, <1>2, TypeCorrect, CoreCorrect, PTL DEF Spec

\* When the loop ends every task has a span and no goroutine is left: at a join
\* no wakeup is lost, and skipping and draining forget nobody.
THEOREM RunIsCompleteCorrect == Spec => []RunIsComplete
<1>1. ASSUME TypeOK, CoreInv, AllSpanned PROVE RunIsComplete
  <2> SUFFICES ASSUME LoopEnded \/ phase = "returned"
               PROVE  Unspanned = {} /\ InFlightTasks = {}
    BY DEF RunIsComplete
  <2>1. CASE phase \in {"report", "returned"}
    BY <1>1, <2>1 DEF AllSpanned, CoreInv, PhaseInv
  <2>2. CASE phase = "loop"
    BY <1>1, <2>2, LoopEndsComplete DEF LoopEnded
  <2> QED
    BY <2>1, <2>2 DEF LoopEnded
<1> QED
  BY <1>1, TypeCorrect, CoreCorrect, AllSpannedCorrect, PTL

\* A skipped task has a cancelled run or a failed or skipped dependency.
THEOREM SkipJustifiedCorrect == Spec => []SkipJustified
<1>1. ASSUME TypeOK, CoreInv PROVE SkipJustified
  <2> SUFFICES ASSUME NEW t \in Tasks, spans[t].status = "skipped", ~CtxDone
               PROVE  \E d \in Deps(t) : spans[d].status \in {"failed", "skipped"}
    BY DEF SkipJustified
  <2>1. SpanInv /\ SkipInv
    BY <1>1 DEF CoreInv
  <2>2. spans[t] # NoSpan /\ ~runFailed
    BY DEF NoSpan, CtxDone
  <2>3. pc[t] \in {"idle", "joined"}
    BY <1>1, <2>1, <2>2 DEF SpanInv, TypeOK, PCs, Active
  <2>4. pc[t] # "joined"
    BY <2>1 DEF SpanInv
  <2> QED
    BY <2>1, <2>2, <2>3, <2>4 DEF SkipInv
<1> QED
  BY <1>1, TypeCorrect, CoreCorrect, PTL

\* Past a failure the loop never leaves a task waiting for what cannot come.
THEOREM FailurePropagatesCorrect == Spec => []FailurePropagates
<1>1. CoreInv => FailurePropagates
  BY DEF CoreInv, SkipInv
<1> QED
  BY <1>1, CoreCorrect, PTL

\* A failure takes with it exactly the tasks that needed it.
THEOREM SkipsExactlyCorrect == Spec => []SkipsExactly
<1>1. SkipJustified /\ FailurePropagates => SkipsExactly
  BY DEF SkipsExactly
<1> QED
  BY <1>1, SkipJustifiedCorrect, FailurePropagatesCorrect, PTL

LEMMA SuccessStep ==
    ASSUME TypeOK, CoreInv, SkipJustified, SuccessMeansComplete, [Next]_vars
    PROVE  SuccessMeansComplete'
<1>0. SpanInv /\ PhaseInv /\ ResultInv
  BY DEF CoreInv
<1>1. CASE Return
  <2> SUFFICES ASSUME RunStatus = "succeeded", ~parentDone
               PROVE  /\ \A t \in Tasks : spans[t].status = "succeeded"
                      /\ OutputRefs # {} => OutputRefs \subseteq results
    BY <1>1 DEF Return, SuccessMeansComplete, RunOutputs, OutputFound
  <2>1. ~runFailed /\ \A t \in Tasks : spans[t].status # "failed"
    BY DEF RunStatus
  <2>2. phase = "loop" /\ ready = {} /\ inFlight = 0
    BY <1>0, <1>1, <2>1 DEF Return, LoopEnded, PhaseInv
  <2>3. Unspanned = {} /\ InFlightTasks = {}
    BY <2>2, LoopEndsComplete
  <2> DEFINE S == {t \in Tasks : spans[t].status = "skipped"}
  <2>4. ASSUME NEW t \in S PROVE \E d \in Deps(t) : d \in S
    <3>1. PICK d \in Deps(t) : spans[d].status \in {"failed", "skipped"}
      BY <2>1 DEF SkipJustified, CtxDone
    <3> QED
      BY <2>1, <3>1, DepsAreTasks
  <2>5. S = {}
    <3>1. S \in SUBSET Tasks
      OBVIOUS
    <3> QED
      BY <2>4, <3>1, GraphAssumption DEF Acyclic
  <2>6. ASSUME NEW t \in Tasks PROVE spans[t].status = "succeeded" /\ t \in results
    <3>1. spans[t] # NoSpan /\ pc[t] \in {"idle", "joined"}
      BY <2>3 DEF Unspanned, InFlightTasks
    <3>2. pc[t] = "joined"
      BY <1>0, <2>5, <3>1 DEF SpanInv, SkippedSpan
    <3>3. spans[t] = span[t] /\ span[t].status = "succeeded"
      BY <1>0, <2>1, <2>5, <3>2 DEF SpanInv, Statuses
    <3> QED
      BY <1>0, <2>1, <3>2, <3>3 DEF ResultInv
  <2> QED
    BY <2>6, PolicyAssumption
<1>2. ASSUME ~Return, report.status # "none" PROVE SuccessMeansComplete'
  <2>1. phase = "returned" /\ InFlightTasks = {} /\ ready = {}
    BY <1>0, <1>2 DEF PhaseInv
  <2>2. \A t \in Tasks : pc[t] \in {"idle", "joined"}
    BY <2>1 DEF InFlightTasks
  <2>3. UNCHANGED vars
    <3>1. ~MainStep
      BY <1>2, <2>1 DEF MainStep, Dispatch, ReceiveSuccess, ReceiveContinue, ReceiveFailFast,
                        Receive, Drain, EndDrain
    <3>2. \A t \in Tasks : ~(TaskStep(t) \/ ExecReturns(t))
      BY <1>0, <2>2, WorkerStep DEF Active
    <3>3. ~ClientCancel
      BY <2>1 DEF ClientCancel
    <3> QED
      BY <3>1, <3>2, <3>3 DEF Next, Finished
  <2> QED
    BY <2>3 DEF vars, mainVars, SuccessMeansComplete
<1>3. ASSUME ~Return, report.status = "none" PROVE SuccessMeansComplete'
  <2>1. report' = report
    <3>1. ASSUME NEW t \in Tasks, TaskStep(t) \/ ExecReturns(t) PROVE report' = report
      BY <1>0, <3>1, WorkerStep DEF mainVars
    <3>2. ASSUME MainStep PROVE report' = report
      BY <1>3, <3>2 DEF MainStep, Dispatch, ReceiveSuccess, ReceiveContinue, ReceiveFailFast,
                        Drain, EndDrain
    <3>3. ASSUME ClientCancel \/ UNCHANGED vars PROVE report' = report
      BY <3>3 DEF ClientCancel, vars, mainVars
    <3> QED
      BY <3>1, <3>2, <3>3 DEF Next, Finished
  <2> QED
    BY <1>3, <2>1 DEF SuccessMeansComplete
<1> QED
  BY <1>1, <1>2, <1>3

\* A run nobody cancelled is reported as succeeded only if every task did, and
\* then its output template resolves.
THEOREM SuccessMeansCompleteCorrect == Spec => []SuccessMeansComplete
<1>1. Init => SuccessMeansComplete
  BY DEF Init, NoReport, SuccessMeansComplete
<1>2. TypeOK /\ CoreInv /\ SkipJustified /\ SuccessMeansComplete /\ [Next]_vars
        => SuccessMeansComplete'
  BY SuccessStep
<1> QED
  BY <1>1, <1>2, TypeCorrect, CoreCorrect, SkipJustifiedCorrect, PTL DEF Spec

-----------------------------------------------------------------------------
(* Steps *)

\* How the recorded spans and the results change in a step.
LEMMA SpansGrow ==
    ASSUME TypeOK, CoreInv, [Next]_vars
    PROVE  /\ \A t \in Tasks : spans[t] # NoSpan => spans'[t] = spans[t]
           /\ results \subseteq results'
<1> DEFINE Goal == /\ \A t \in Tasks : spans[t] # NoSpan => spans'[t] = spans[t]
                   /\ results \subseteq results'
<1>0. SpanInv
  BY DEF CoreInv
<1>1. ASSUME NEW t \in Tasks, TaskStep(t) \/ ExecReturns(t) PROVE Goal
  BY <1>0, <1>1, WorkerStep DEF mainVars
<1>2. ASSUME NEW t \in Tasks, ReceiveContinue(t) PROVE Goal
  <2>1. spans[t] = NoSpan
    BY <1>0, <1>2 DEF SpanInv, ReceiveContinue, Receive
  <2>2. Unspanned \ {t} \in SUBSET Tasks
    BY DEF Unspanned
  <2>3. Descendants(t, Unspanned \ {t}) \subseteq Unspanned \ {t}
    BY <2>2, DescendantsLemma
  <2>4. spans' = SkipAll(Descendants(t, Unspanned \ {t}), [spans EXCEPT ![t] = span[t]])
    BY <1>2 DEF ReceiveContinue
  <2> QED
    BY <1>2, <2>1, <2>3, <2>4 DEF ReceiveContinue, SkipAll, Unspanned, TypeOK
<1>3. ASSUME NEW t \in Tasks, ReceiveSuccess(t) \/ ReceiveFailFast(t) \/ Drain(t) PROVE Goal
  <2>1. spans[t] = NoSpan
    BY <1>0, <1>3 DEF SpanInv, ReceiveSuccess, ReceiveFailFast, Drain, Receive
  <2> QED
    BY <1>3, <2>1 DEF ReceiveSuccess, ReceiveFailFast, Drain, TypeOK
<1>4. CASE EndDrain
  BY <1>4 DEF EndDrain, SkipAll, Unspanned
<1>5. ASSUME \/ \E t \in Tasks : Dispatch(t)
             \/ Return \/ ClientCancel \/ UNCHANGED vars
      PROVE  Goal
  BY <1>5 DEF Dispatch, Return, ClientCancel, vars, mainVars
<1> QED
  BY <1>1, <1>2, <1>3, <1>4, <1>5 DEF Next, MainStep, Finished

\* What the report will say of a task never changes once it is recorded.
THEOREM SpansAreFinalCorrect == Spec => SpansAreFinal
<1>1. TypeOK /\ CoreInv /\ [Next]_vars =>
        [/\ \A t \in Tasks : spans[t] # NoSpan => spans'[t] = spans[t]
         /\ results \subseteq results']_vars
  BY SpansGrow
<1> QED
  BY <1>1, TypeCorrect, CoreCorrect, PTL DEF Spec, SpansAreFinal

\* After a fail_fast failure nothing is dispatched any more.
THEOREM FailFastStopsCorrect == Spec => FailFastStops
<1>1. TypeOK /\ CoreInv /\ [Next]_vars =>
        [runFailed => \A t \in Tasks : pc[t] = "idle" => pc'[t] = "idle"]_vars
  <2> SUFFICES ASSUME TypeOK, CoreInv, [Next]_vars, runFailed,
                      NEW u \in Tasks, pc[u] = "idle"
               PROVE  pc'[u] = "idle"
    OBVIOUS
  <2>0. SpanInv /\ PhaseInv
    BY DEF CoreInv
  <2>1. ASSUME NEW t \in Tasks, TaskStep(t) \/ ExecReturns(t) PROVE pc'[u] = "idle"
    BY <2>0, <2>1, WorkerStep DEF Active
  <2>2. \A t \in Tasks : ~Dispatch(t)
    BY <2>0 DEF Dispatch, PhaseInv
  <2>3. ASSUME NEW t \in Tasks, \/ ReceiveSuccess(t) \/ ReceiveContinue(t)
                                \/ ReceiveFailFast(t) \/ Drain(t)
        PROVE  pc'[u] = "idle"
    BY <2>3 DEF ReceiveSuccess, ReceiveContinue, ReceiveFailFast, Drain, Receive, Goto, TypeOK
  <2>4. ASSUME EndDrain \/ Return \/ ClientCancel \/ UNCHANGED vars PROVE pc'[u] = "idle"
    BY <2>4 DEF EndDrain, Return, ClientCancel, vars, taskVars
  <2> QED
    BY <2>1, <2>2, <2>3, <2>4 DEF Next, MainStep, Finished
<1> QED
  BY <1>1, TypeCorrect, CoreCorrect, PTL DEF Spec, FailFastStops

\* No step rewrites what was recorded or starts what must not start any more.
THEOREM HistoryStandsCorrect == Spec => HistoryStands
BY SpansAreFinalCorrect, FailFastStopsCorrect DEF HistoryStands

-----------------------------------------------------------------------------
(***************************************************************************)
(* The scheduler implements the abstract run: what its tasks go through,   *)
(* seen through TaskState, is what WorkflowRun allows.                     *)
(***************************************************************************)

LEMMA PromiseInit == Init => Promise!Init
BY DEF Init, Promise!Init, TaskState, NoReport

\* A task that is not idle and has no span is running, and so on.
LEMMA TaskStateValues ==
    ASSUME TypeOK, CoreInv, NEW t \in Tasks
    PROVE  /\ spans[t] = NoSpan /\ pc[t] = "idle" <=> TaskState[t] = "waiting"
           /\ spans[t] = NoSpan /\ pc[t] # "idle" <=> TaskState[t] = "running"
           /\ spans[t] # NoSpan <=> TaskState[t] \in Statuses
           /\ spans[t] # NoSpan => TaskState[t] = spans[t].status
<1>1. SpanInv
  BY DEF CoreInv
<1>2. spans[t] # NoSpan => spans[t].status \in Statuses
  <2>1. pc[t] \in {"idle", "joined"} \cup Active \cup {"done"}
    BY DEF TypeOK, PCs, Active
  <2> QED
    BY <1>1, <2>1 DEF SpanInv, SkippedSpan, Statuses
<1> QED
  BY <1>2 DEF TaskState, Statuses

LEMMA PromiseFinish ==
    ASSUME TypeOK, CoreInv, CoreInv', TypeOK', NEW t \in Tasks, pc[t] = "done",
           pc' = [pc EXCEPT ![t] = "joined"],
           NEW lost \in SUBSET (Unspanned \ {t}),
           \A u \in lost : pc[u] = "idle",
           spans' = SkipAll(lost, [spans EXCEPT ![t] = span[t]]),
           \A u \in lost : \E d \in Deps(u) : spans'[d].status \in {"failed", "skipped"},
           report' = report
    PROVE  Promise!Finish(t, span[t].status, lost)
<1>0. SpanInv /\ SpanInv'
  BY DEF CoreInv
<1>1. spans[t] = NoSpan /\ span[t].status \in Statuses
  BY <1>0 DEF SpanInv
<1>2. /\ spans'[t] = span[t]
      /\ \A u \in lost : spans'[u] = SkippedSpan
      /\ \A u \in Tasks \ (lost \cup {t}) : spans'[u] = spans[u] /\ pc'[u] = pc[u]
  BY DEF SkipAll, TypeOK, Unspanned
<1>3. TaskState[t] = "running"
  BY <1>1, TaskStateValues
<1>4. lost \subseteq Promise!Waiting
  BY TaskStateValues DEF Promise!Waiting, Unspanned
<1>5. TaskState' = [u \in Tasks |-> IF u = t THEN span[t].status
                                    ELSE IF u \in lost THEN "skipped" ELSE TaskState[u]]
  <2>1. ASSUME NEW u \in Tasks
        PROVE  TaskState'[u] = IF u = t THEN span[t].status
                               ELSE IF u \in lost THEN "skipped" ELSE TaskState[u]
    <3>1. CASE u = t
      <4>1. span[t] # NoSpan
        BY <1>1 DEF NoSpan, Statuses
      <4> QED
        BY <1>2, <3>1, <4>1 DEF TaskState
    <3>2. CASE u \in lost
      <4>0. u # t /\ spans'[u] = SkippedSpan
        BY <1>2, <3>2
      <4>1. u # t /\ spans'[u] # NoSpan /\ spans'[u].status = "skipped"
        BY <4>0 DEF SkippedSpan, NoSpan
      <4> QED
        BY <3>2, <4>1 DEF TaskState
    <3>3. CASE u \notin lost \cup {t}
      BY <1>2, <3>3 DEF TaskState
    <3> QED
      BY <3>1, <3>2, <3>3
  <2>2. TaskState' = [u \in Tasks |-> TaskState'[u]]
    BY DEF TaskState
  <2> QED
    BY <2>1, <2>2, Zenon
<1>6. ASSUME NEW u \in lost
      PROVE  \E d \in Promise!Deps(u) : TaskState'[d] \in {"failed", "skipped"}
  <2>1. PICK d \in Deps(u) : spans'[d].status \in {"failed", "skipped"}
    OBVIOUS
  <2>2. d \in Tasks
    BY <2>1, DepsAreTasks DEF Unspanned
  <2>3. TaskState'[d] = spans'[d].status
    BY <2>1, <2>2 DEF TaskState, NoSpan
  <2>4. d \in Promise!Deps(u)
    BY DEF Promise!Deps, Deps
  <2> QED
    BY <2>1, <2>3, <2>4
<1>7. span[t].status \in Promise!Terminal
  BY <1>1 DEF Promise!Terminal, Statuses
<1>8. UNCHANGED report.status
  OBVIOUS
<1> QED
  BY <1>3, <1>4, <1>5, <1>6, <1>7, <1>8 DEF Promise!Finish

\* What a failure leaves behind in the loop: idle tasks, each with a
\* dependency that is bad by now.
LEMMA LostTasks ==
    ASSUME TypeOK, CoreInv, TypeOK', CoreInv', NEW t \in Tasks, ReceiveContinue(t)
    PROVE  LET lost == Descendants(t, Unspanned \ {t})
           IN  /\ lost \subseteq Unspanned \ {t}
               /\ \A u \in lost : pc[u] = "idle"
               /\ \A u \in lost : \E d \in Deps(u) : spans'[d].status \in {"failed", "skipped"}
<1> DEFINE lost == Descendants(t, Unspanned \ {t})
<1>1. lost \subseteq Unspanned \ {t} /\ Unspanned \subseteq Tasks
  BY DescendantsLemma DEF Unspanned
<1>2. /\ spans' = SkipAll(lost, [spans EXCEPT ![t] = span[t]])
      /\ pc' = [pc EXCEPT ![t] = "joined"]
      /\ runFailed' = runFailed /\ phase = "loop"
  BY DEF ReceiveContinue, Receive, Goto
<1>3. \A u \in lost : spans'[u] = SkippedSpan /\ pc'[u] = pc[u] /\ spans[u] = NoSpan
  BY <1>1, <1>2 DEF SkipAll, TypeOK, Unspanned
<1>4. ASSUME NEW u \in lost PROVE pc[u] = "idle"
  <2>1. u \in Tasks /\ pc[u] # "joined"
    <3>1. u \in Tasks /\ spans[u] = NoSpan
      BY <1>1, <1>3
    <3>2. ASSUME pc[u] = "joined" PROVE spans[u].status \in Statuses
      BY <3>1, <3>2 DEF CoreInv, SpanInv
    <3> QED
      BY <3>1, <3>2 DEF NoSpan, Statuses
  <2>2. spans'[u] # NoSpan
    BY <1>3 DEF SkippedSpan, NoSpan
  <2>3. pc'[u] \in {"idle", "joined"}
    BY <2>1, <2>2 DEF CoreInv, SpanInv, TypeOK, PCs, Active
  <2> QED
    BY <1>3, <2>1, <2>3
<1>5. ASSUME NEW u \in lost
      PROVE  \E d \in Deps(u) : spans'[d].status \in {"failed", "skipped"}
  <2>1. u \in Tasks /\ pc'[u] = "idle" /\ spans'[u] # NoSpan
    BY <1>1, <1>3, <1>4 DEF SkippedSpan, NoSpan
  <2>2. ~runFailed'
    BY <1>2 DEF CoreInv, PhaseInv
  <2> QED
    BY <2>1, <2>2 DEF CoreInv, SkipInv
<1> QED
  BY <1>1, <1>4, <1>5

LEMMA PromiseStep ==
    ASSUME TypeOK, CoreInv, AllSpanned, TypeOK', CoreInv', [Next]_vars
    PROVE  [Promise!Next]_Promise!vars
<1>0. SpanInv /\ PhaseInv /\ ReadyInv
  BY DEF CoreInv
<1>1. ASSUME NEW t \in Tasks, TaskStep(t) \/ ExecReturns(t) PROVE UNCHANGED Promise!vars
  <2>1. /\ UNCHANGED <<spans, report>>
        /\ \A u \in Tasks : pc[u] = "idle" <=> pc'[u] = "idle"
    BY <1>0, <1>1, WorkerStep DEF mainVars, Active
  <2>2. TaskState' = TaskState
    BY <2>1 DEF TaskState
  <2> QED
    BY <2>1, <2>2 DEF Promise!vars
<1>2. ASSUME NEW t \in Tasks, Dispatch(t) PROVE Promise!Start(t)
  <2>1. pc[t] = "idle" /\ spans[t] = NoSpan /\ Deps(t) \subseteq results /\ phase = "loop"
    BY <1>0, <1>2 DEF ReadyInv, Dispatch
  <2>2. report.status = "none" /\ TaskState[t] = "waiting"
    BY <1>0, <2>1, TaskStateValues DEF PhaseInv
  <2>3. ASSUME NEW d \in Promise!Deps(t) PROVE TaskState[d] = "succeeded"
    <3>1. d \in results
      BY <2>1 DEF Promise!Deps, Deps
    <3>2. d \in Tasks /\ spans[d].status = "succeeded"
      BY <3>1 DEF CoreInv, ResultInv, SpanInv, TypeOK
    <3> QED
      BY <3>2, TaskStateValues DEF NoSpan
  <2>4. TaskState' = [TaskState EXCEPT ![t] = "running"]
    <3>1. /\ spans' = spans /\ pc'[t] = "resolve"
          /\ \A u \in Tasks \ {t} : pc'[u] = pc[u]
      BY <1>2 DEF Dispatch, Goto, TypeOK
    <3>2. TaskState'[t] = "running"
      BY <2>1, <3>1 DEF TaskState
    <3>3. \A u \in Tasks \ {t} : TaskState'[u] = TaskState[u]
      BY <3>1 DEF TaskState
    <3> QED
      BY <3>2, <3>3 DEF TaskState
  <2>5. UNCHANGED report.status
    BY <1>2 DEF Dispatch
  <2> QED
    BY <2>2, <2>3, <2>4, <2>5 DEF Promise!Start
<1>3. ASSUME NEW t \in Tasks, ReceiveSuccess(t) \/ ReceiveFailFast(t) \/ Drain(t)
      PROVE  Promise!Finish(t, span[t].status, {})
  <2>1. /\ pc[t] = "done" /\ pc' = [pc EXCEPT ![t] = "joined"]
        /\ spans' = [spans EXCEPT ![t] = span[t]]
        /\ report' = report
    BY <1>3 DEF ReceiveSuccess, ReceiveFailFast, Drain, Receive, Goto
  <2>2. spans' = SkipAll({}, [spans EXCEPT ![t] = span[t]])
    BY <2>1 DEF SkipAll, TypeOK
  <2> QED
    BY <2>1, <2>2, PromiseFinish
<1>4. ASSUME NEW t \in Tasks, ReceiveContinue(t)
      PROVE  Promise!Finish(t, span[t].status, Descendants(t, Unspanned \ {t}))
  <2>1. /\ pc[t] = "done" /\ pc' = [pc EXCEPT ![t] = "joined"]
        /\ spans' = SkipAll(Descendants(t, Unspanned \ {t}), [spans EXCEPT ![t] = span[t]])
        /\ report' = report
    BY <1>4 DEF ReceiveContinue, Receive, Goto
  <2> QED
    BY <1>4, <2>1, LostTasks, PromiseFinish
<1>5. ASSUME EndDrain PROVE Promise!Abort
  <2>1. /\ phase = "drain" /\ inFlight = 0 /\ report' = report /\ pc' = pc
        /\ spans' = [u \in Tasks |-> IF spans[u] = NoSpan THEN SkippedSpan ELSE spans[u]]
    BY <1>5 DEF EndDrain, taskVars, SkipAll, Unspanned
  <2>2. InFlightTasks = {}
    BY <2>1, NoneInFlight DEF CoreInv
  <2>3. \A u \in Tasks : spans[u] = NoSpan => pc[u] = "idle"
    BY <1>0, <2>2 DEF InFlightTasks, SpanInv, NoSpan, Statuses
  <2>4. report.status = "none" /\ runFailed
    BY <1>0, <2>1 DEF PhaseInv
  <2>5. Promise!Running = {}
    BY <2>3, TaskStateValues DEF Promise!Running
  <2>6. \E u \in Tasks : TaskState[u] \in {"failed", "skipped"}
    BY <1>0, <2>4, TaskStateValues DEF PhaseInv, NoSpan
  <2>7. TaskState' = [u \in Tasks |-> IF TaskState[u] = "waiting" THEN "skipped" ELSE TaskState[u]]
    <3>1. ASSUME NEW u \in Tasks
          PROVE  TaskState'[u] = IF TaskState[u] = "waiting" THEN "skipped" ELSE TaskState[u]
      <4>1. CASE spans[u] = NoSpan
        <5>1. TaskState[u] = "waiting"
          BY <2>3, <4>1, TaskStateValues
        <5>2. spans'[u] = SkippedSpan
          BY <2>1, <4>1
        <5>3. TaskState'[u] = "skipped"
          BY <5>2 DEF TaskState, SkippedSpan, NoSpan
        <5> QED
          BY <5>1, <5>3
      <4>2. CASE spans[u] # NoSpan
        <5>1. TaskState[u] # "waiting" /\ TaskState[u] = spans[u].status
          BY <4>2, TaskStateValues
        <5>2. spans'[u] = spans[u]
          BY <2>1, <4>2
        <5> QED
          BY <4>2, <5>1, <5>2 DEF TaskState
      <4> QED
        BY <4>1, <4>2
    <3> QED
      BY <3>1 DEF TaskState
  <2> QED
    BY <2>1, <2>4, <2>5, <2>6, <2>7 DEF Promise!Abort
<1>6. ASSUME Return PROVE Promise!Conclude(RunStatus)
  <2>1. /\ LoopEnded /\ report'.status = RunStatus
        /\ spans' = spans /\ pc' = pc
    BY <1>6 DEF Return, taskVars
  <2>2. report.status = "none"
    BY <1>0, <2>1 DEF LoopEnded, PhaseInv
  <2>3. Unspanned = {}
    BY <2>1, LoopEndsComplete DEF LoopEnded, AllSpanned
  <2>4. \A u \in Tasks : TaskState[u] \in Statuses /\ TaskState[u] = spans[u].status
    BY <2>3, TaskStateValues DEF Unspanned
  <2>5. RunStatus = "succeeded" => \A u \in Tasks : TaskState[u] # "failed"
    BY <2>4 DEF RunStatus
  <2>6. RunStatus = "failed" => \E u \in Tasks : TaskState[u] # "succeeded"
    <3> SUFFICES ASSUME RunStatus = "failed" PROVE \E u \in Tasks : TaskState[u] # "succeeded"
      OBVIOUS
    <3>1. \E u \in Tasks : spans[u].status \in {"failed", "skipped"}
      BY <1>0 DEF RunStatus, PhaseInv
    <3> QED
      BY <2>4, <3>1
  <2>7. TaskState' = TaskState
    BY <2>1 DEF TaskState
  <2> QED
    BY <2>1, <2>2, <2>4, <2>5, <2>6, <2>7
       DEF Promise!Conclude, Promise!Terminal, Statuses
<1>7. ASSUME ClientCancel \/ UNCHANGED vars PROVE UNCHANGED Promise!vars
  <2>1. spans' = spans /\ pc' = pc /\ report' = report
    BY <1>7 DEF ClientCancel, vars, mainVars, taskVars
  <2> QED
    BY <2>1 DEF Promise!vars, TaskState
<1>8. ASSUME NEW t \in Tasks, NEW lost \in SUBSET Tasks,
             Promise!Finish(t, span[t].status, lost)
      PROVE  Promise!Next
  BY <1>8 DEF Promise!Finish, Promise!Next
<1>9. ASSUME NEW t \in Tasks, Promise!Start(t) PROVE Promise!Next
  BY <1>9 DEF Promise!Next
<1>10. Promise!Conclude(RunStatus) => Promise!Next
  BY DEF Promise!Next, RunStatus, Promise!Verdicts
<1>11. Promise!Abort => Promise!Next
  BY DEF Promise!Next
<1>12. \A t \in Tasks : {} \in SUBSET Tasks /\ Descendants(t, Unspanned \ {t}) \in SUBSET Tasks
  BY DescendantsLemma DEF Unspanned
<1> QED
  BY <1>1, <1>2, <1>3, <1>4, <1>5, <1>6, <1>7, <1>8, <1>9, <1>10, <1>11, <1>12
     DEF Next, MainStep, Finished

\* Every run of the scheduler is a run that WorkflowRun promises.
THEOREM KeepsPromiseCorrect == Spec => KeepsPromise
<1>1. Init => Promise!Init
  BY PromiseInit
<1>2. TypeOK /\ CoreInv /\ AllSpanned /\ TypeOK' /\ CoreInv' /\ [Next]_vars
        => [Promise!Next]_Promise!vars
  BY PromiseStep
<1> QED
  BY <1>1, <1>2, TypeCorrect, CoreCorrect, AllSpannedCorrect, PTL
     DEF Spec, KeepsPromise, Promise!Spec
-----------------------------------------------------------------------------
(* Attempts *)

\* What executeTask has counted when it is at l with the span s: a first attempt
\* when it leaves the head of its loop, at most retry.max of them when it sleeps,
\* and all of them when it gives up an invocation that failed.
AttemptsFit(t, l, s) ==
    LET n == s.attempts
        tries == EffectiveRetry(t) + 1
    IN  /\ l \in {"idle", "resolve"} => s = NoSpan
        /\ l \in {"slot", "global", "provider", "exec"} => 1 <= n /\ n <= tries
        /\ l = "backoff" => 1 <= n /\ n < tries
        /\ l \in {"done", "joined"} =>
             /\ 0 <= n
             /\ n <= tries \/ n <= 1
             /\ s.status = "failed" /\ s.error \in Outcomes => n = tries

AttemptInv == \A t \in Tasks : AttemptsFit(t, pc[t], span[t])

LEMMA AttemptStep ==
    ASSUME TypeOK, TypeOK', CoreInv, AttemptInv, [Next]_vars
    PROVE  AttemptInv'
<1>0. /\ pc \in [Tasks -> PCs] /\ span \in [Tasks -> Span]
      /\ \A t \in Tasks : EffectiveRetry(t) \in Int /\ span[t].attempts \in Int
      /\ \A t \in Tasks : pc[t] \in Active \ {"resolve"} => span[t].status = "failed"
  BY RetryIsInt DEF TypeOK, Span, CoreInv, SpanInv
\* Everything but the goroutine of t stays as it was.
<1>a. ASSUME NEW t \in Tasks, NEW l, pc' = [pc EXCEPT ![t] = l],
             \A u \in Tasks \ {t} : span'[u] = span[u], AttemptsFit(t, l, span'[t])
      PROVE  AttemptInv'
  <2>1. pc'[t] = l /\ \A u \in Tasks \ {t} : pc'[u] = pc[u]
    BY <1>0, <1>a
  <2>2. ASSUME NEW u \in Tasks PROVE AttemptsFit(u, pc'[u], span'[u])
    BY <1>a, <2>1 DEF AttemptInv
  <2>3. AttemptInv' <=> \A u \in Tasks : AttemptsFit(u, pc'[u], span'[u])
    BY DEF AttemptInv, AttemptsFit
  <2> QED
    BY <2>2, <2>3
<1> USE <1>0 DEF Goto, End
<1>1. ASSUME NEW t \in Tasks, ResolveInputs(t) PROVE AttemptInv'
  <2>1. CASE 1 <= EffectiveRetry(t) + 1
    <3>1. pc' = [pc EXCEPT ![t] = "slot"] /\ span'[t].attempts = 1
          /\ \A u \in Tasks \ {t} : span'[u] = span[u]
      BY <1>1, <2>1 DEF ResolveInputs, FirstAttempt, FreshSpan
    <3>2. AttemptsFit(t, "slot", span'[t])
      BY <2>1, <3>1 DEF AttemptsFit
    <3> QED
      BY <1>a, <3>1, <3>2
  <2>2. CASE ~(1 <= EffectiveRetry(t) + 1)
    <3>1. /\ pc' = [pc EXCEPT ![t] = "done"]
          /\ span'[t].attempts = 0 /\ span'[t].error = "none"
          /\ \A u \in Tasks \ {t} : span'[u] = span[u]
      BY <1>1, <2>2 DEF ResolveInputs, FirstAttempt, FreshSpan
    <3>2. AttemptsFit(t, "done", span'[t])
      BY <3>1 DEF AttemptsFit, Outcomes, SkillErrors
    <3> QED
      BY <1>a, <3>1, <3>2
  <2> QED
    BY <2>1, <2>2
<1>2. ASSUME NEW t \in Tasks, ResolveFails(t) PROVE AttemptInv'
  <2>1. /\ pc' = [pc EXCEPT ![t] = "done"]
        /\ span'[t].attempts = 1 /\ span'[t].error = "unresolved"
        /\ \A u \in Tasks \ {t} : span'[u] = span[u]
    BY <1>2 DEF ResolveFails
  <2>2. AttemptsFit(t, "done", span'[t])
    BY <2>1 DEF AttemptsFit, Outcomes, SkillErrors
  <2> QED
    BY <1>a, <2>1, <2>2
<1>3. ASSUME NEW t \in Tasks, AcquireSlot(t) \/ GrantGlobal(t) \/ GrantProvider(t)
      PROVE  AttemptInv'
  <2>1. PICK l \in {"global", "provider", "exec"} : pc' = [pc EXCEPT ![t] = l]
    BY <1>3 DEF AcquireSlot, GrantGlobal, GrantProvider, AfterSlot, AfterGlobal
  <2>2. span' = span /\ AttemptsFit(t, l, span[t])
    BY <1>3 DEF AttemptInv, AttemptsFit, AcquireSlot, GrantGlobal, GrantProvider
  <2> QED
    BY <1>a, <2>1, <2>2
<1>4. ASSUME NEW t \in Tasks, CancelAtSlot(t) \/ CancelAtLimiter(t) \/ ExecSucceeds(t)
      PROVE  AttemptInv'
  <2>1. /\ pc' = [pc EXCEPT ![t] = "done"]
        /\ span'[t].attempts = span[t].attempts /\ span'[t].status # "failed"
        /\ \A u \in Tasks \ {t} : span'[u] = span[u]
    <3>1. PICK s \in {CancelledSpan(t), [span[t] EXCEPT !.status = "succeeded"]} :
            pc' = [pc EXCEPT ![t] = "done"] /\ span' = [span EXCEPT ![t] = s]
      BY <1>4 DEF CancelAtSlot, CancelAtLimiter, ExecSucceeds, End
    <3>2. span[t] \in Span
      BY <1>0
    <3>3. s.attempts = span[t].attempts /\ s.status # "failed"
      BY <3>2 DEF CancelledSpan, Span
    <3>4. span'[t] = s /\ \A u \in Tasks \ {t} : span'[u] = span[u]
      BY <1>0, <3>1
    <3> QED
      BY <3>1, <3>3, <3>4
  <2>2. AttemptsFit(t, "done", span'[t])
    BY <1>4, <2>1 DEF AttemptInv, AttemptsFit, CancelAtSlot, CancelAtLimiter, ExecSucceeds
  <2> QED
    BY <1>a, <2>1, <2>2
<1>5. ASSUME NEW t \in Tasks, NEW o \in Outcomes, ExecFails(t, o) PROVE AttemptInv'
  <2>1. /\ pc' = [pc EXCEPT ![t] = IF WillRetry(t, o) THEN "backoff" ELSE "done"]
        /\ span'[t].attempts = span[t].attempts
        /\ \A u \in Tasks \ {t} : span'[u] = span[u]
    BY <1>5 DEF ExecFails, Span
  <2>2. 1 <= span[t].attempts /\ span[t].attempts <= EffectiveRetry(t) + 1
    BY <1>5 DEF AttemptInv, AttemptsFit, ExecFails
  <2>3. WillRetry(t, o) <=> span[t].attempts <= EffectiveRetry(t)
    BY DEF WillRetry, RetriesSkillError, RetriesExecError
  <2>4. AttemptsFit(t, IF WillRetry(t, o) THEN "backoff" ELSE "done", span'[t])
    BY <2>1, <2>2, <2>3 DEF AttemptsFit
  <2> QED
    BY <1>a, <2>1, <2>4
<1>6. ASSUME NEW t \in Tasks, EndBackoff(t) PROVE AttemptInv'
  <2>1. /\ pc' = [pc EXCEPT ![t] = "slot"]
        /\ span'[t].attempts = span[t].attempts + 1
        /\ \A u \in Tasks \ {t} : span'[u] = span[u]
    BY <1>6 DEF EndBackoff, Span
  <2>2. 1 <= span[t].attempts /\ span[t].attempts < EffectiveRetry(t) + 1
    BY <1>6 DEF AttemptInv, AttemptsFit, EndBackoff
  <2>3. AttemptsFit(t, "slot", span'[t])
    BY <2>1, <2>2 DEF AttemptsFit
  <2> QED
    BY <1>a, <2>1, <2>3
<1>7. ASSUME NEW t \in Tasks, Dispatch(t) PROVE AttemptInv'
  <2>1. pc[t] = "idle"
    BY <1>7 DEF Dispatch, CoreInv, ReadyInv
  <2>2. pc' = [pc EXCEPT ![t] = "resolve"] /\ span' = span
    BY <1>7 DEF Dispatch
  <2>3. AttemptsFit(t, "resolve", span[t])
    BY <2>1 DEF AttemptInv, AttemptsFit
  <2> QED
    BY <1>a, <2>2, <2>3
<1>8. ASSUME NEW t \in Tasks,
             \/ ReceiveSuccess(t) \/ ReceiveContinue(t) \/ ReceiveFailFast(t) \/ Drain(t)
      PROVE  AttemptInv'
  <2>1. pc' = [pc EXCEPT ![t] = "joined"] /\ span' = span /\ pc[t] = "done"
    BY <1>8 DEF ReceiveSuccess, ReceiveContinue, ReceiveFailFast, Receive, Drain
  <2>2. AttemptsFit(t, "joined", span[t])
    BY <2>1 DEF AttemptInv, AttemptsFit
  <2> QED
    BY <1>a, <2>1, <2>2
<1>9. ASSUME EndDrain \/ Return \/ ClientCancel \/ UNCHANGED vars PROVE AttemptInv'
  BY <1>9 DEF EndDrain, Return, ClientCancel, vars, taskVars, AttemptInv, AttemptsFit
<1> QED
  BY <1>1, <1>2, <1>3, <1>4, <1>5, <1>6, <1>7, <1>8, <1>9
     DEF Next, MainStep, TaskStep, ExecReturns, Finished

LEMMA AttemptCorrect == Spec => []AttemptInv
<1>1. Init => AttemptInv
  BY DEF Init, AttemptInv, AttemptsFit
<1>2. TypeOK /\ TypeOK' /\ CoreInv /\ AttemptInv /\ [Next]_vars => AttemptInv'
  BY AttemptStep
<1> QED
  BY <1>1, <1>2, TypeCorrect, CoreCorrect, PTL DEF Spec

\* executeTask never makes more than retry.max retries, and gives up a task
\* whose invocation fails only after all of them, whoever cancels meanwhile.
THEOREM AttemptsAreUsedUpCorrect == Spec => []AttemptsAreUsedUp
<1>1. ASSUME TypeOK, CoreInv, AttemptInv PROVE AttemptsAreUsedUp
  <2> SUFFICES ASSUME NEW t \in Tasks
               PROVE  LET tries == EffectiveRetry(t) + 1
                      IN  /\ span[t].attempts <= IF tries > 1 THEN tries ELSE 1
                          /\ spans[t].status = "failed" /\ spans[t].error \in Outcomes
                               => spans[t].attempts = tries
    BY DEF AttemptsAreUsedUp
  <2>0. EffectiveRetry(t) \in Int /\ span[t].attempts \in Int /\ pc[t] \in PCs
    BY <1>1, RetryIsInt DEF TypeOK, Span
  <2>1. \/ span[t].attempts <= EffectiveRetry(t) + 1 \/ span[t].attempts <= 1
    BY <1>1, <2>0 DEF AttemptInv, AttemptsFit, PCs, NoSpan
  <2>2. CASE pc[t] = "joined"
    BY <1>1, <2>0, <2>1, <2>2 DEF AttemptInv, AttemptsFit, CoreInv, SpanInv
  <2>3. CASE pc[t] # "joined"
    <3>1. spans[t].status # "failed"
      BY <1>1, <2>0, <2>3 DEF CoreInv, SpanInv, PCs, Active, NoSpan, SkippedSpan
    <3> QED
      BY <2>0, <2>1, <3>1
  <2> QED
    BY <2>2, <2>3
<1> QED
  BY <1>1, TypeCorrect, CoreCorrect, AttemptCorrect, PTL

-----------------------------------------------------------------------------
(* Events *)

\* What the event stream has been offered about a task, by where the task is.
\* A drained task is joined without an event of its own.
EventInv == \A t \in Tasks :
    /\ pc[t] = "idle" => events[t] = IF spans[t] = NoSpan THEN {} ELSE {"skipped"}
    /\ pc[t] \in Active \cup {"done"} => events[t] = {"started"}
    /\ pc[t] = "joined" =>
         events[t] \in {{"started"}, {"started", "succeeded"}, {"started", "failed"}}

LEMMA EventStep ==
    ASSUME TypeOK, TypeOK', CoreInv, CoreInv', EventInv, [Next]_vars
    PROVE  EventInv'
<1>0. /\ pc \in [Tasks -> PCs] /\ pc' \in [Tasks -> PCs]
      /\ SpanInv /\ SpanInv' /\ ReadyInv /\ PhaseInv /\ CountInv
      /\ events \in [Tasks -> SUBSET EventTypes]
      /\ spans \in [Tasks -> Span]
  BY DEF TypeOK, CoreInv
<1>1. ASSUME NEW t \in Tasks, TaskStep(t) \/ ExecReturns(t) PROVE EventInv'
  <2>1. /\ events' = events /\ spans' = spans
        /\ \A u \in Tasks \ {t} : pc'[u] = pc[u]
        /\ pc[t] \in Active /\ pc'[t] \in Active \cup {"done"}
    BY <1>0, <1>1, WorkerStep DEF mainVars
  <2>2. pc'[t] \notin {"idle", "joined"} /\ events[t] = {"started"}
    BY <2>1 DEF Active, EventInv
  <2> QED
    BY <2>1, <2>2 DEF EventInv
<1>2. ASSUME NEW t \in Tasks, Dispatch(t) PROVE EventInv'
  <2>1. pc[t] = "idle" /\ spans[t] = NoSpan
    BY <1>0, <1>2 DEF ReadyInv, Dispatch
  <2>2. /\ events' = [events EXCEPT ![t] = {} \cup {"started"}] /\ spans' = spans
        /\ pc' = [pc EXCEPT ![t] = "resolve"]
    BY <1>2, <2>1 DEF Dispatch, Goto, EventInv
  <2> QED
    BY <1>0, <2>1, <2>2 DEF EventInv, Active
\* A receive tells how the task ended.
<1>a. ASSUME NEW t \in Tasks, pc[t] = "done", Goto(t, "joined"),
             NEW end \in {"succeeded", "failed"},
             events' = [events EXCEPT ![t] = @ \cup {end}],
             \A u \in Tasks \ {t} : spans'[u] = spans[u]
      PROVE  EventInv'
  <2>1. events[t] = {"started"}
    BY <1>a DEF EventInv
  <2>2. pc'[t] = "joined" /\ \A u \in Tasks \ {t} : pc'[u] = pc[u]
    BY <1>0, <1>a DEF Goto
  <2>3. events'[t] \in {{"started", "succeeded"}, {"started", "failed"}}
    BY <1>0, <1>a, <2>1
  <2>4. \A u \in Tasks \ {t} : events'[u] = events[u]
    BY <1>0, <1>a
  <2> QED
    BY <1>a, <2>2, <2>3, <2>4 DEF EventInv, Active
<1>3. ASSUME NEW t \in Tasks, ReceiveSuccess(t) \/ ReceiveFailFast(t) PROVE EventInv'
  <2>1. pc[t] = "done" /\ Goto(t, "joined") /\ \A u \in Tasks \ {t} : spans'[u] = spans[u]
    BY <1>0, <1>3 DEF ReceiveSuccess, ReceiveFailFast, Receive
  <2>2. \E end \in {"succeeded", "failed"} : events' = [events EXCEPT ![t] = @ \cup {end}]
    BY <1>3 DEF ReceiveSuccess, ReceiveFailFast, AnnounceFailed
  <2> QED
    BY <1>a, <2>1, <2>2
<1>4. ASSUME NEW t \in Tasks, ReceiveContinue(t) PROVE EventInv'
  <2> DEFINE lost == Descendants(t, Unspanned \ {t})
  <2>1. lost \subseteq Unspanned \ {t} /\ \A u \in lost : pc[u] = "idle"
    BY <1>4, LostTasks
  <2>2. /\ pc[t] = "done" /\ pc' = [pc EXCEPT ![t] = "joined"]
        /\ spans' = SkipAll(lost, [spans EXCEPT ![t] = span[t]])
        /\ events' = TellSkipped(lost, AnnounceFailed(t))
    BY <1>4 DEF ReceiveContinue, Receive, Goto
  <2>3. ASSUME NEW u \in lost
        PROVE  u # t /\ pc'[u] = "idle" /\ spans'[u] # NoSpan /\ events'[u] = {"skipped"}
    <3>1. u \in Tasks /\ u # t /\ pc[u] = "idle" /\ spans[u] = NoSpan
      BY <2>1 DEF Unspanned
    <3>2. events[u] = {}
      BY <3>1 DEF EventInv
    <3>3. events'[u] = {} \cup {"skipped"}
      BY <1>0, <2>2, <3>1, <3>2 DEF TellSkipped, AnnounceFailed
    <3>4. spans'[u] = SkippedSpan
      BY <2>2, <3>1 DEF SkipAll
    <3>5. {} \cup {"skipped"} = {"skipped"} /\ SkippedSpan # NoSpan
      BY DEF SkippedSpan, NoSpan
    <3> QED
      BY <1>0, <2>2, <3>1, <3>3, <3>4, <3>5
  <2>4. events'[t] = {"started", "failed"} /\ pc'[t] = "joined"
    <3>1. events[t] = {"started"}
      BY <2>2 DEF EventInv
    <3>2. t \notin lost
      BY <2>1
    <3>3. events'[t] = {"started"} \cup {"failed"}
      BY <1>0, <2>2, <3>1, <3>2 DEF TellSkipped, AnnounceFailed
    <3> QED
      BY <1>0, <2>2, <3>3
  <2>5. ASSUME NEW u \in Tasks \ {t}, u \notin lost
        PROVE  events'[u] = events[u] /\ spans'[u] = spans[u] /\ pc'[u] = pc[u]
    BY <1>0, <2>2, <2>5 DEF TellSkipped, AnnounceFailed, SkipAll
  <2> SUFFICES ASSUME NEW u \in Tasks
               PROVE  /\ pc'[u] = "idle" => events'[u] = IF spans'[u] = NoSpan THEN {} ELSE {"skipped"}
                      /\ pc'[u] \in Active \cup {"done"} => events'[u] = {"started"}
                      /\ pc'[u] = "joined" =>
                           events'[u] \in {{"started"}, {"started", "succeeded"}, {"started", "failed"}}
    BY DEF EventInv
  <2>6. CASE u = t
    BY <2>4, <2>6 DEF Active
  <2>7. CASE u \in lost
    BY <2>3, <2>7 DEF Active
  <2>8. CASE u # t /\ u \notin lost
    BY <2>5, <2>8 DEF EventInv
  <2> QED
    BY <2>6, <2>7, <2>8
<1>5. ASSUME NEW t \in Tasks, Drain(t) PROVE EventInv'
  <2>1. /\ pc[t] = "done" /\ pc' = [pc EXCEPT ![t] = "joined"] /\ events' = events
        /\ \A u \in Tasks \ {t} : spans'[u] = spans[u]
    BY <1>0, <1>5 DEF Drain, Goto
  <2> QED
    BY <1>0, <2>1 DEF EventInv, Active
<1>6. ASSUME EndDrain PROVE EventInv'
  <2>1. InFlightTasks = {}
    BY <1>0, <1>6, NoneInFlight DEF EndDrain, TypeOK
  <2>2. \A u \in Unspanned : pc[u] = "idle" /\ spans[u] = NoSpan /\ u \in Tasks
    <3> SUFFICES ASSUME NEW u \in Unspanned PROVE pc[u] = "idle"
      BY DEF Unspanned
    <3>1. u \in Tasks /\ spans[u] = NoSpan /\ pc[u] \in {"idle", "joined"}
      BY <2>1 DEF Unspanned, InFlightTasks
    <3>2. pc[u] = "joined" => spans[u].status \in Statuses
      BY <1>0, <3>1 DEF SpanInv
    <3> QED
      BY <3>1, <3>2 DEF NoSpan, Statuses
  <2>3. /\ pc' = pc /\ spans' = SkipAll(Unspanned, spans)
        /\ events' = TellSkipped(Unspanned, events)
    BY <1>6 DEF EndDrain, taskVars
  <2>4. \A u \in Unspanned : events'[u] = {"skipped"} /\ spans'[u] # NoSpan
    <3> SUFFICES ASSUME NEW u \in Unspanned PROVE events'[u] = {"skipped"} /\ spans'[u] # NoSpan
      OBVIOUS
    <3>1. events[u] = {}
      BY <2>2 DEF EventInv
    <3>2. events'[u] = {} \cup {"skipped"} /\ spans'[u] = SkippedSpan
      BY <2>2, <2>3, <3>1 DEF TellSkipped, SkipAll
    <3> QED
      BY <3>2 DEF SkippedSpan, NoSpan
  <2>5. \A u \in Tasks \ Unspanned : events'[u] = events[u] /\ spans'[u] = spans[u]
    BY <2>3 DEF TellSkipped, SkipAll
  <2> QED
    BY <2>2, <2>3, <2>4, <2>5 DEF EventInv, Active
<1>7. ASSUME Return \/ ClientCancel \/ UNCHANGED vars PROVE EventInv'
  BY <1>7 DEF Return, ClientCancel, vars, mainVars, taskVars, EventInv
<1> QED
  BY <1>1, <1>2, <1>3, <1>4, <1>5, <1>6, <1>7 DEF Next, MainStep, Finished

\* A task is offered to the event stream as started, with at most one end, or
\* as skipped and nothing else.
THEOREM EventsCoherentCorrect == Spec => []EventsCoherent
<1>1. Init => EventInv
  BY DEF Init, EventInv, Active
<1>2. ASSUME TypeOK, EventInv PROVE EventsCoherent
  <2>1. \A t \in Tasks : pc[t] \in {"idle", "joined"} \cup Active \cup {"done"}
    BY <1>2 DEF TypeOK, PCs, Active
  <2> QED
    BY <1>2, <2>1 DEF EventInv, EventsCoherent
<1>3. TypeOK /\ TypeOK' /\ CoreInv /\ CoreInv' /\ EventInv /\ [Next]_vars => EventInv'
  BY EventStep
<1> QED
  BY <1>1, <1>2, <1>3, TypeCorrect, CoreCorrect, PTL DEF Spec

-----------------------------------------------------------------------------
(* Accounting *)

LEMMA ReceivedFinite ==
    /\ IsFiniteSet(Received) /\ IsFiniteSet(Untried)
    /\ Cardinality(Untried) \in Int
<1>1. Received \in SUBSET Tasks /\ Untried \in SUBSET Received
  BY DEF Received, Untried
<1>2. IsFiniteSet(Received) /\ IsFiniteSet(Untried)
  BY <1>1, GraphAssumption, FS_Subset
<1> QED
  BY <1>2, FS_CardinalityType

\* The attempts of one task after the first.
LEMMA RetriesOf ==
    ASSUME NEW t, NEW n \in Nat
    PROVE  /\ IsFiniteSet({t} \X (2..n))
           /\ Cardinality({t} \X (2..n)) = IF n = 0 THEN 0 ELSE n - 1
<1>1. IsFiniteSet(2..n) /\ Cardinality(2..n) = IF 2 > n THEN 0 ELSE n - 2 + 1
  <2>1. 2 \in Int /\ n \in Int
    OBVIOUS
  <2> QED
    BY <2>1, FS_Interval, Zenon
<1>2. IsFiniteSet({t}) /\ Cardinality({t}) = 1
  BY FS_Singleton
<1>3. /\ IsFiniteSet({t} \X (2..n))
      /\ Cardinality({t} \X (2..n)) = Cardinality({t}) * Cardinality(2..n)
  BY <1>1, <1>2, FS_Product, Zenon
<1> QED
  BY <1>1, <1>2, <1>3

\* ReportAccounts, with the finiteness its cardinalities need.
AccountInv == ~runFailed => IsFiniteSet(Retried) /\ ReportAccounts

\* What a receive of the loop does to the tasks that count.
LEMMA ReceiveOnce ==
    ASSUME TypeOK, CoreInv, AttemptInv, NEW t \in Tasks,
           ReceiveSuccess(t) \/ ReceiveContinue(t)
    PROVE  /\ Received' = Received \cup {t} /\ t \notin Received
           /\ \A u \in Received : spans'[u] = spans[u]
           /\ spans'[t] = span[t] /\ span[t].attempts \in Nat
           /\ runFailed' = runFailed
           /\ retries' = retries + span[t].attempts - 1
           /\ errors' = IF span[t].status = "succeeded" THEN errors ELSE errors \cup {t}
<1>0. pc \in [Tasks -> PCs] /\ spans \in [Tasks -> Span] /\ span[t].attempts \in Int
  BY DEF TypeOK, Span
<1>1. pc[t] = "done" /\ pc' = [pc EXCEPT ![t] = "joined"]
  BY DEF ReceiveSuccess, ReceiveContinue, Receive, Goto
<1>2. Received' = Received \cup {t} /\ t \notin Received
  BY <1>0, <1>1 DEF Received
<1>3. span[t].attempts \in Nat
  BY <1>0, <1>1 DEF AttemptInv, AttemptsFit
<1>4. ASSUME NEW u \in Received PROVE spans[u] # NoSpan /\ u \in Tasks /\ u # t
  BY <1>1, <1>4 DEF Received, CoreInv, SpanInv, NoSpan, Statuses
<1>5. CASE ReceiveSuccess(t)
  BY <1>0, <1>2, <1>3, <1>4, <1>5 DEF ReceiveSuccess, Receive
<1>6. CASE ReceiveContinue(t)
  <2>1. t \notin Descendants(t, Unspanned \ {t})
        /\ \A u \in Received : u \notin Descendants(t, Unspanned \ {t})
    BY <1>4, ChildrenAreTasks DEF Unspanned
  <2>2. spans' = SkipAll(Descendants(t, Unspanned \ {t}), [spans EXCEPT ![t] = span[t]])
    BY <1>6 DEF ReceiveContinue
  <2>3. spans'[t] = span[t] /\ \A u \in Received : spans'[u] = spans[u]
    BY <1>0, <1>4, <2>1, <2>2 DEF SkipAll
  <2> QED
    BY <1>2, <1>3, <1>6, <2>3 DEF ReceiveContinue, Receive
<1> QED
  BY <1>5, <1>6

LEMMA AccountReceive ==
    ASSUME TypeOK, CoreInv, AttemptInv, AccountInv, ~runFailed, NEW t \in Tasks,
           ReceiveSuccess(t) \/ ReceiveContinue(t)
    PROVE  AccountInv'
<1> DEFINE n == span[t].attempts
<1>0. /\ Received' = Received \cup {t} /\ t \notin Received
      /\ \A u \in Received : spans'[u] = spans[u]
      /\ spans'[t] = span[t] /\ n \in Nat
      /\ retries' = retries + n - 1 /\ retries \in Int
      /\ errors' = IF span[t].status = "succeeded" THEN errors ELSE errors \cup {t}
  BY ReceiveOnce DEF TypeOK
<1>1. /\ IsFiniteSet(Retried) /\ retries = Cardinality(Retried) - Cardinality(Untried)
      /\ errors = {u \in Received : spans[u].status # "succeeded"}
      /\ Cardinality(Retried) \in Int
  BY FS_CardinalityType DEF AccountInv, ReportAccounts
<1>2. errors' = {u \in Received' : spans'[u].status # "succeeded"}
  BY <1>0, <1>1
<1>3. /\ Retried' = Retried \cup ({t} \X (2..n))
      /\ Retried \cap ({t} \X (2..n)) = {}
  BY <1>0 DEF Retried
<1>4. /\ IsFiniteSet(Retried')
      /\ Cardinality(Retried') = Cardinality(Retried) + IF n = 0 THEN 0 ELSE n - 1
  <2> DEFINE N == {t} \X (2..n)
  <2>1. IsFiniteSet(N) /\ Cardinality(N) = IF n = 0 THEN 0 ELSE n - 1
    BY <1>0, RetriesOf
  <2>2. Retried' = Retried \cup N /\ Retried \cap N = {}
    BY <1>3
  <2> HIDE DEF N, n
  <2>3. /\ IsFiniteSet(Retried \cup N)
        /\ Cardinality(Retried \cup N)
             = Cardinality(Retried) + Cardinality(N) - Cardinality(Retried \cap N)
    BY <1>1, <2>1, FS_Union, Zenon
  <2>4. Cardinality(Retried \cap N) = 0
    BY <2>2, FS_EmptySet
  <2> QED
    BY <1>0, <1>1, <2>1, <2>2, <2>3, <2>4
<1>5. Cardinality(Untried') = Cardinality(Untried) + IF n = 0 THEN 1 ELSE 0
  <2>1. Untried' = IF n = 0 THEN Untried \cup {t} ELSE Untried
    BY <1>0 DEF Untried
  <2>2. t \notin Untried
    BY <1>0 DEF Untried
  <2>3. Cardinality(Untried \cup {t})
          = IF t \in Untried THEN Cardinality(Untried) ELSE Cardinality(Untried) + 1
    BY ReceivedFinite, FS_AddElement, Zenon
  <2> HIDE DEF n
  <2> QED
    BY <2>1, <2>2, <2>3, ReceivedFinite
<1>6. retries' = Cardinality(Retried') - Cardinality(Untried')
  BY <1>0, <1>1, <1>4, <1>5, ReceivedFinite
<1> QED
  BY <1>2, <1>4, <1>6 DEF AccountInv, ReportAccounts

LEMMA AccountStep ==
    ASSUME TypeOK, CoreInv, AttemptInv, AccountInv, [Next]_vars
    PROVE  AccountInv'
<1>0. pc \in [Tasks -> PCs] /\ runFailed \in BOOLEAN
  BY DEF TypeOK
<1>1. ASSUME NEW t \in Tasks, TaskStep(t) \/ ExecReturns(t) \/ Dispatch(t)
      PROVE  AccountInv'
  <2>1. spans' = spans /\ runFailed' = runFailed /\ errors' = errors /\ retries' = retries
    BY <1>1, WorkerStep DEF CoreInv, mainVars, Dispatch
  <2>2. \A u \in Tasks : pc'[u] = "joined" <=> pc[u] = "joined"
    <3>1. CASE Dispatch(t)
      BY <1>0, <3>1 DEF Dispatch, Goto, CoreInv, ReadyInv
    <3>2. CASE TaskStep(t) \/ ExecReturns(t)
      BY <3>2, WorkerStep DEF CoreInv, Active
    <3> QED
      BY <1>1, <3>1, <3>2
  <2>3. Received' = Received
    BY <2>2 DEF Received
  <2> QED
    BY <2>1, <2>3 DEF AccountInv, ReportAccounts, Retried, Untried
<1>2. ASSUME NEW t \in Tasks, ReceiveSuccess(t) \/ ReceiveContinue(t) PROVE AccountInv'
  <2>1. ~runFailed
    BY <1>2 DEF CoreInv, PhaseInv, ReceiveSuccess, ReceiveContinue, Receive
  <2> QED
    BY <1>2, <2>1, AccountReceive
<1>3. ASSUME NEW t \in Tasks, ReceiveFailFast(t) \/ Drain(t) PROVE AccountInv'
  <2>1. runFailed'
    BY <1>3 DEF CoreInv, PhaseInv, ReceiveFailFast, Drain
  <2> QED
    BY <2>1 DEF AccountInv
<1>4. CASE EndDrain
  <2>1. runFailed'
    BY <1>4 DEF CoreInv, PhaseInv, EndDrain
  <2> QED
    BY <2>1 DEF AccountInv
<1>5. CASE Return \/ ClientCancel \/ UNCHANGED vars
  BY <1>5 DEF Return, ClientCancel, vars, mainVars, taskVars, AccountInv,
              ReportAccounts, Received, Retried, Untried
<1> QED
  BY <1>1, <1>2, <1>3, <1>4, <1>5 DEF Next, MainStep, Finished

\* The report's error list and its retry total account for every task received,
\* each exactly once, for any retry.max: Run counts what it has joined and nothing
\* else, whatever was skipped or cancelled meanwhile.
THEOREM ReportAccountsCorrect == Spec => []ReportAccounts
<1>1. ASSUME Init PROVE AccountInv
  <2>1. Received = {} /\ Retried = {} /\ Untried = {}
    BY <1>1 DEF Init, Received, Retried, Untried
  <2> QED
    BY <1>1, <2>1, FS_EmptySet DEF Init, AccountInv, ReportAccounts
<1>2. AccountInv => ReportAccounts
  BY DEF AccountInv, ReportAccounts
<1>3. TypeOK /\ CoreInv /\ AttemptInv /\ AccountInv /\ [Next]_vars => AccountInv'
  BY AccountStep
<1> QED
  BY <1>1, <1>2, <1>3, TypeCorrect, CoreCorrect, AttemptCorrect, PTL DEF Spec
==============================================================================
