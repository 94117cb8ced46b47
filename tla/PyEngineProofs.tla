---------------------------- MODULE PyEngineProofs ----------------------------
(***************************************************************************)
(* Proofs about the Python engine for every workflow, every policy, every  *)
(* max_parallel and every way templates may refer to tasks.                *)
(***************************************************************************)
EXTENDS PyEngineProps, TLAPS, FiniteSetTheorems

-----------------------------------------------------------------------------
(* The dependency graph: counting off dependencies, skipping descendants *)

\* The entries of c's depends_on list that name no stored result.
Remaining(c, R) == {i \in DOMAIN DependsOn[c] : DependsOn[c][i] \notin R}

LEMMA ChildrenAreTasks ==
    /\ \A t : Children(t) \subseteq Tasks
    /\ \A t, open : open \subseteq Tasks => Descendants(t, open) \subseteq open
BY DEF Children, Descendants

LEMMA PositionsCount ==
    ASSUME NEW t \in Tasks, NEW c \in Tasks
    PROVE  /\ IsFiniteSet(DOMAIN DependsOn[c])
           /\ IsFiniteSet(Positions(t, c))
           /\ Cardinality(Positions(t, c)) \in Nat
<1>1. DependsOn[c] \in Seq(Tasks)
  BY GraphAssumption
<1>2. /\ DOMAIN DependsOn[c] = 1 .. Len(DependsOn[c])
      /\ Len(DependsOn[c]) \in Nat
  BY <1>1
<1>3. IsFiniteSet(DOMAIN DependsOn[c])
  BY <1>2, FS_Interval
<1>4. Positions(t, c) \subseteq DOMAIN DependsOn[c]
  BY DEF Positions
<1>5. IsFiniteSet(Positions(t, c))
  BY <1>3, <1>4, FS_Subset
<1> QED
  BY <1>3, <1>5, FS_CardinalityType

LEMMA DepsAreTasks ==
    /\ \A t \in Tasks : Deps(t) \subseteq Tasks
    /\ \A t, c \in Tasks : c \in Children(t) <=> t \in Deps(c)
    /\ \A t \in Tasks : t \notin Deps(t)
<1>1. \A t \in Tasks : Deps(t) \subseteq Tasks
  BY GraphAssumption DEF Deps
<1>2. \A t, c \in Tasks : c \in Children(t) <=> t \in Deps(c)
  BY DEF Children
<1>3. ASSUME NEW t \in Tasks PROVE t \notin Deps(t)
  <2>1. {t} \in SUBSET Tasks /\ {t} # {}
    OBVIOUS
  <2> QED
    BY <2>1, GraphAssumption DEF Acyclic
<1> QED
  BY <1>1, <1>2, <1>3

\* What mark_descendants_skipped marks is closed, is in every closed set, and
\* each task it marks is a child of t or of another one it marks.
LEMMA DescendantsLemma ==
    ASSUME NEW t \in Tasks, NEW open \in SUBSET Tasks
    PROVE  LET D == Descendants(t, open)
           IN  /\ D \subseteq open
               /\ \A u \in D \cup {t} : \A c \in Children(u) \cap open : c \in D
               /\ \A S \in SUBSET open : ClosedFrom(S, t, open) => D \subseteq S
               /\ \A c \in D : \E u \in D \cup {t} : u \in Deps(c)
<1> DEFINE D == Descendants(t, open)
<1>1. D \subseteq open
  BY DEF Descendants
<1>2. \A S \in SUBSET open : ClosedFrom(S, t, open) => D \subseteq S
  BY DEF Descendants
<1>3. ASSUME NEW u \in D \cup {t}, NEW c \in Children(u) \cap open PROVE c \in D
  <2>1. ASSUME NEW S \in SUBSET open, ClosedFrom(S, t, open) PROVE c \in S
    <3>1. u \in S \cup {t}
      BY <1>2, <2>1
    <3> QED
      BY <2>1, <3>1 DEF ClosedFrom
  <2> QED
    BY <2>1 DEF Descendants
<1>4. ASSUME NEW c \in D, \A u \in D \cup {t} : u \notin Deps(c) PROVE FALSE
  <2> DEFINE S == D \ {c}
  <2>1. S \in SUBSET open
    BY <1>1
  <2>2. ASSUME NEW u \in S \cup {t}, NEW v \in Children(u) \cap open PROVE v \in S
    <3>1. v \in D
      BY <1>3, <2>2
    <3>2. v # c
      BY <1>4, <2>2 DEF Children
    <3> QED
      BY <3>1, <3>2
  <2>3. ClosedFrom(S, t, open)
    BY <2>2 DEF ClosedFrom
  <2>4. c \in S
    BY <1>2, <2>1, <2>3
  <2> QED
    BY <2>4
<1> QED
  BY <1>1, <1>2, <1>3, <1>4

LEMMA TaskSets ==
    ASSUME NEW S \in SUBSET Tasks
    PROVE  /\ IsFiniteSet(S)
           /\ Cardinality(S) \in Nat
           /\ Cardinality(S) = 0 <=> S = {}
           /\ \A t \in Tasks \ S : Cardinality(S \cup {t}) = Cardinality(S) + 1
           /\ \A t \in S : Cardinality(S \ {t}) = Cardinality(S) - 1
<1>1. IsFiniteSet(S)
  BY GraphAssumption, FS_Subset
<1>2. Cardinality(S) \in Nat
  BY <1>1, FS_CardinalityType
<1>3. Cardinality(S) = 0 <=> S = {}
  BY <1>1, FS_EmptySet
<1>4. \A t \in Tasks \ S : Cardinality(S \cup {t}) = Cardinality(S) + 1
  BY <1>1, FS_AddElement
<1>5. \A t \in S : Cardinality(S \ {t}) = Cardinality(S) - 1
  BY <1>1, FS_RemoveElement
<1> QED
  BY <1>1, <1>2, <1>3, <1>4, <1>5

LEMMA RemainingLemma ==
    ASSUME NEW c \in Tasks, NEW R
    PROVE  /\ Remaining(c, R) \subseteq DOMAIN DependsOn[c]
           /\ IsFiniteSet(Remaining(c, R))
           /\ Cardinality(Remaining(c, R)) \in Nat
           /\ Cardinality(Remaining(c, R)) = 0 <=> Deps(c) \subseteq R
<1>1. Remaining(c, R) \subseteq DOMAIN DependsOn[c]
  BY DEF Remaining
<1>2. IsFiniteSet(Remaining(c, R))
  BY <1>1, PositionsCount, FS_Subset
<1>3. Cardinality(Remaining(c, R)) \in Nat
  BY <1>2, FS_CardinalityType
<1>4. Cardinality(Remaining(c, R)) = 0 <=> Remaining(c, R) = {}
  BY <1>2, FS_EmptySet
<1>5. Remaining(c, R) = {} <=> Deps(c) \subseteq R
  BY DEF Remaining, Deps
<1> QED
  BY <1>1, <1>2, <1>3, <1>4, <1>5

\* Counting off the entries that name t is what storing t's result takes.
LEMMA CountingOff ==
    ASSUME NEW c \in Tasks, NEW t \in Tasks, NEW R, t \notin R
    PROVE  Cardinality(Remaining(c, R \cup {t})) =
             Cardinality(Remaining(c, R)) - Cardinality(Positions(t, c))
<1> DEFINE A == Remaining(c, R)
           B == Positions(t, c)
           C == Remaining(c, R \cup {t})
<1>1. A = C \cup B /\ C \cap B = {}
  BY DEF Remaining, Positions
<1>2. IsFiniteSet(B) /\ IsFiniteSet(C)
  BY PositionsCount, RemainingLemma
<1>3. Cardinality(A) = Cardinality(C) + Cardinality(B)
  <2>1. Cardinality(C \cup B) = Cardinality(C) + Cardinality(B) - Cardinality(C \cap B)
    BY <1>2, FS_Union
  <2>2. Cardinality(C \cap B) = 0
    BY <1>1, FS_EmptySet
  <2>3. Cardinality(C) \in Nat /\ Cardinality(B) \in Nat
    BY <1>2, FS_CardinalityType
  <2> QED
    BY <1>1, <2>1, <2>2, <2>3
<1>4. Cardinality(C) \in Nat /\ Cardinality(B) \in Nat
  BY <1>2, FS_CardinalityType
<1> QED
  BY <1>3, <1>4

\* Before any result is stored a task has all its entries to count off, and it
\* has none just if it depends on nothing.
LEMMA NothingCountedOff ==
    /\ \A t \in Tasks : Deps(t) \subseteq {} <=> Len(DependsOn[t]) = 0
    /\ \A t \in Tasks : Len(DependsOn[t]) = Cardinality(Remaining(t, {}))
<1>1. \A t \in Tasks : DependsOn[t] \in Seq(Tasks)
  BY GraphAssumption
<1>2. \A t \in Tasks : Deps(t) \subseteq {} <=> Len(DependsOn[t]) = 0
  <2> SUFFICES ASSUME NEW t \in Tasks PROVE Deps(t) \subseteq {} <=> Len(DependsOn[t]) = 0
    OBVIOUS
  <2>1. DOMAIN DependsOn[t] = 1 .. Len(DependsOn[t]) /\ Len(DependsOn[t]) \in Nat
    BY <1>1
  <2>2. Deps(t) = {} <=> DOMAIN DependsOn[t] = {}
    BY DEF Deps
  <2>3. \A n \in Nat : 1 .. n = {} <=> n = 0
    OBVIOUS
  <2>4. 1 .. Len(DependsOn[t]) = {} <=> Len(DependsOn[t]) = 0
    BY <2>1, <2>3
  <2> QED
    BY <2>1, <2>2, <2>4
<1>3. ASSUME NEW t \in Tasks PROVE Len(DependsOn[t]) = Cardinality(Remaining(t, {}))
  <2>1. Remaining(t, {}) = 1 .. Len(DependsOn[t]) /\ Len(DependsOn[t]) \in Nat
    BY <1>1 DEF Remaining
  <2>2. \A n \in Nat : Cardinality(1 .. n) = n
    BY FS_Interval
  <2> QED
    BY <2>1, <2>2
<1> QED
  BY <1>2, <1>3

-----------------------------------------------------------------------------
(* Types and the inductive invariant *)

\* PyTypeOK, but for the sign of the semaphore, which its accounting shows.
PyTypes ==
    /\ phase \in Phases
    /\ ready \subseteq Tasks
    /\ indeg \in [Tasks -> Int]
    /\ running \subseteq Tasks /\ batch \subseteq Tasks /\ results \subseteq Tasks
    /\ spans \in [Tasks -> Span]
    /\ runFailed \in BOOLEAN
    /\ firstError \in Tasks \cup {Absent}
    /\ retries \in Nat
    /\ report \in [status : {"none", "succeeded", "failed"},
                   output : {"none", "resolved", "nil"},
                   tasks : SUBSET Tasks, error : Tasks \cup {Absent}]
    /\ pc \in [Tasks -> PCs]
    /\ span \in [Tasks -> Span]
    /\ raised \subseteq Tasks /\ asked \subseteq Tasks
    /\ sem \in Int
    /\ current \in {"own", "other"}

(***************************************************************************)
(* The inductive invariant.                                                *)
(***************************************************************************)

Working == {"slot", "global", "provider", "invoke", "backoff"}

Bad(s) == s.status \in {"failed", "skipped"}

\* What _execute_task is building fits the await it is at: l and s are the pc and
\* the span of t, and R holds the futures that raised.
Fits(t, l, s, R) ==
    /\ l \in {"idle", "start"} => s = NoSpan
    /\ l \in Working =>
         s.status = "failed" /\ s.error = "none" /\ s.attempts <= EffectiveRetry(t) + 1
    /\ l = "backoff" => s.attempts <= EffectiveRetry(t)
    /\ l = "done" /\ t \notin R =>
         /\ s.status \in Statuses
         /\ s.status = "skipped" => s.error = "cancelled"
         /\ s.status = "failed" /\ s.error # "unknown" => s.attempts = EffectiveRetry(t) + 1

\* A future has no recorded span until it has been handled, and then its own.
SpanInv == \A t \in Tasks :
    /\ Fits(t, pc[t], span[t], raised)
    /\ pc[t] = "idle" => spans[t] \in {NoSpan, SkippedSpan}
    /\ pc[t] \notin {"idle", "done"} => spans[t] = NoSpan /\ t \in running
    /\ t \in running => pc[t] # "idle" /\ spans[t] = NoSpan
    /\ pc[t] = "done" /\ t \notin running =>
         \/ t \notin raised /\ spans[t] = span[t]
         \/ phase = "raised" /\ t \in raised /\ spans[t] = NoSpan
         \/ phase \in {"report", "returned"} /\ runFailed /\ spans[t] = SkippedSpan

PhaseInv ==
    /\ phase \in {"loop", "wait", "raised"} => ~runFailed
    /\ phase = "drain" => runFailed
    /\ phase = "loop" => batch \subseteq Ended
    /\ phase = "wait" => ready = {}
    /\ phase = "drain" => batch \subseteq running
    /\ phase \notin {"loop", "drain"} => batch = {}
    /\ phase \in {"report", "returned"} => running = {} /\ Unspanned = {}
    /\ report.status = "none" <=> phase # "returned"
    /\ runFailed => \E t \in Tasks : Bad(spans[t])

TemplateMayFail(t) ==
    ~(InputRefs[t] \subseteq Deps(t)) \/ t \in LooseRefs \/ current # "own"

\* Only the drain cancels, and only what has not ended; a future raises because
\* of its templates, or because the drain cancelled it.
RaiseInv ==
    /\ \A t \in asked : pc[t] \notin {"idle", "done"} /\ phase = "drain"
    /\ \A t \in raised : pc[t] = "done" /\ (runFailed \/ TemplateMayFail(t))
    /\ PyRaisesForTemplatesOnly

\* Results are stored for the tasks recorded as succeeded; a dispatched task has
\* all it depends on; what run counts off is what is missing; and the loop has in
\* ready just what can be dispatched.
ReadyInv ==
    /\ \A t \in Tasks : t \in results <=> spans[t].status = "succeeded"
    /\ \A t \in Tasks : pc[t] # "idle" => Deps(t) \subseteq results
    /\ \A t \in Tasks : indeg[t] = Cardinality(Remaining(t, results))
    /\ \A t \in ready : pc[t] = "idle" /\ spans[t] = NoSpan /\ Deps(t) \subseteq results
    /\ phase \in {"loop", "wait"} => \A t \in Tasks :
         pc[t] = "idle" /\ spans[t] = NoSpan /\ Deps(t) \subseteq results => t \in ready

\* Before a fail_fast failure, a task is skipped without being dispatched just if
\* something it depends on failed or was skipped.
SkipInv == ~runFailed => \A t \in Tasks :
    /\ pc[t] = "idle" /\ spans[t] # NoSpan => \E d \in Deps(t) : Bad(spans[d])
    /\ \A d \in Deps(t) : Bad(spans[d]) => spans[t] = SkippedSpan

CoreInv == SpanInv /\ PhaseInv /\ RaiseInv /\ ReadyInv /\ SkipInv

-----------------------------------------------------------------------------
(* Values *)

LEMMA SpanValues ==
    /\ NoSpan \in Span /\ SkippedSpan \in Span /\ FreshSpan \in Span
    /\ [FreshSpan EXCEPT !.attempts = 1] \in Span
    /\ [FreshSpan EXCEPT !.error = "unknown"] \in Span
    /\ \A s \in Span, n \in Int : [s EXCEPT !.attempts = n] \in Span
    /\ \A s \in Span, o \in Outcomes : [s EXCEPT !.error = o] \in Span
    /\ \A s \in Span : [s EXCEPT !.status = "succeeded"] \in Span
    /\ \A s \in Span : [s EXCEPT !.status = "skipped", !.error = "cancelled"] \in Span
<1> USE DEF Span, Statuses, Outcomes
<1>1. NoSpan \in Span /\ SkippedSpan \in Span /\ FreshSpan \in Span
  BY DEF NoSpan, SkippedSpan, FreshSpan
<1>2. \A s \in Span, n \in Int : [s EXCEPT !.attempts = n] \in Span
  OBVIOUS
<1>3. \A s \in Span, o \in Outcomes : [s EXCEPT !.error = o] \in Span
  OBVIOUS
<1>4. \A s \in Span : [s EXCEPT !.status = "succeeded"] \in Span
  OBVIOUS
<1>5. \A s \in Span : [s EXCEPT !.status = "skipped", !.error = "cancelled"] \in Span
  OBVIOUS
<1>6. /\ [FreshSpan EXCEPT !.attempts = 1] \in Span
      /\ [FreshSpan EXCEPT !.error = "unknown"] \in Span
  BY DEF FreshSpan
<1> QED
  BY <1>1, <1>2, <1>3, <1>4, <1>5, <1>6

LEMMA SpanFields ==
    /\ NoSpan.status = "none" /\ NoSpan # SkippedSpan
    /\ SkippedSpan.status = "skipped" /\ SkippedSpan.error = "none"
    /\ Bad(SkippedSpan) /\ ~Bad(NoSpan)
    /\ \A s \in Span : s.attempts \in Int /\ s.status \in Statuses \cup {"none"}
BY DEF NoSpan, SkippedSpan, Span, Bad

LEMMA RetryIsInt == \A t \in Tasks : EffectiveRetry(t) \in Int
BY PyPolicyAssumption DEF EffectiveRetry

-----------------------------------------------------------------------------
(* What a coroutine does *)

Inside == {"global", "provider", "invoke"}

\* t goes to l with the span s, and raises or not; the semaphore follows.
TaskMove(t, l, s) ==
    /\ Yielded /\ pc[t] \notin {"idle", "done"}
    /\ l \in Working \cup {"done"} /\ s \in Span
    /\ pc' = [pc EXCEPT ![t] = l] /\ span' = [span EXCEPT ![t] = s]
    /\ Fits(t, l, s, raised')
    /\ \/ raised' = raised
       \/ raised' = raised \cup {t} /\ l = "done" /\ (runFailed \/ TemplateMayFail(t))
    /\ t \in asked => l = "done"
    /\ asked' = IF l = "done" THEN asked \ {t} ELSE asked
    /\ \/ (l \in Inside <=> pc[t] \in Inside) /\ sem' = sem
       \/ l \in Inside /\ pc[t] \notin Inside /\ sem < MaxParallel /\ sem' = sem + 1
       \/ l \notin Inside /\ pc[t] \in Inside /\ sem' = sem - 1
    /\ UNCHANGED <<mainVars, current>>

LEMMA TaskMoves ==
    ASSUME PyTypes, CoreInv, NEW t \in Tasks, TaskStep(t) \/ SkillEnds(t)
    PROVE  \E l, s : TaskMove(t, l, s)
<1>0. /\ SpanInv /\ PhaseInv /\ RaiseInv /\ ReadyInv
      /\ pc[t] \in PCs /\ span[t] \in Span /\ span[t].attempts \in Int /\ EffectiveRetry(t) \in Int
      /\ Fits(t, pc[t], span[t], raised)
      /\ pc[t] \notin {"idle", "done"} => t \notin raised
      /\ pc \in [Tasks -> PCs] /\ span \in [Tasks -> Span]
  BY RetryIsInt, SpanFields DEF CoreInv, PyTypes, SpanInv, RaiseInv
<1>1. span = [span EXCEPT ![t] = span[t]]
  BY <1>0
<1>2. ASSUME NEW l \in {"global", "provider", "invoke"}, Goto(t, l), Yielded, t \notin asked,
             pc[t] \in {"slot", "global", "provider"},
             UNCHANGED <<mainVars, span, raised, asked, current>>,
             \/ pc[t] = "slot" /\ sem < MaxParallel /\ sem' = sem + 1
             \/ pc[t] # "slot" /\ sem' = sem
      PROVE  TaskMove(t, l, span[t])
  <2>1. Fits(t, l, span[t], raised')
    BY <1>0, <1>2 DEF Fits, Working
  <2> QED
    BY <1>0, <1>1, <1>2, <2>1 DEF TaskMove, Goto, Working, Inside
<1>3. ASSUME StartTask(t) PROVE \E l, s : TaskMove(t, l, s)
  <2>1. CASE 1 <= EffectiveRetry(t) + 1
    <3> DEFINE s == [FreshSpan EXCEPT !.attempts = 1]
    <3>1. s \in Span /\ s.status = "failed" /\ s.error = "none" /\ s.attempts = 1
      BY SpanValues DEF FreshSpan
    <3>2. /\ Goto(t, "slot") /\ span' = [span EXCEPT ![t] = s]
          /\ UNCHANGED <<raised, asked, mainVars, sem, current>>
          /\ Yielded /\ pc[t] = "start" /\ t \notin asked
      BY <1>3, <2>1 DEF StartTask, MayStep
    <3> HIDE DEF s
    <3>3. Fits(t, "slot", s, raised')
      BY <1>0, <2>1, <3>1 DEF Fits, Working
    <3>4. TaskMove(t, "slot", s)
      BY <3>1, <3>2, <3>3 DEF TaskMove, Goto, Working, Inside
    <3> QED
      BY <3>4
  <2>2. CASE ~(1 <= EffectiveRetry(t) + 1)
    <3> DEFINE s == [FreshSpan EXCEPT !.error = "unknown"]
    <3>1. s \in Span /\ s.status = "failed" /\ s.error = "unknown"
      BY SpanValues DEF FreshSpan
    <3>2. /\ End(t, s) /\ UNCHANGED <<mainVars, sem, current>>
          /\ Yielded /\ pc[t] = "start" /\ t \notin asked
      BY <1>3, <2>2 DEF StartTask, MayStep
    <3> HIDE DEF s
    <3>3. Fits(t, "done", s, raised')
      BY <3>1 DEF Fits, Working, Statuses
    <3>4. TaskMove(t, "done", s)
      BY <3>1, <3>2, <3>3 DEF TaskMove, End, Goto, Working, Inside
    <3> QED
      BY <3>4
  <2> QED
    BY <2>1, <2>2
<1>4. ASSUME StartRaises(t) PROVE \E l, s : TaskMove(t, l, s)
  <2>1. /\ Raise(t) /\ UNCHANGED <<mainVars, sem, current>>
        /\ Yielded /\ pc[t] = "start" /\ t \notin asked
        /\ ~CanResolve(t) \/ t \in LooseRefs \/ current # "own"
    BY <1>4 DEF StartRaises, MayStep
  <2>2. TemplateMayFail(t)
    BY <1>0, <2>1 DEF TemplateMayFail, CanResolve, ReadyInv
  <2>3. Fits(t, "done", span[t], raised')
    BY <2>1 DEF Fits, Working, Raise
  <2>4. TaskMove(t, "done", span[t])
    BY <1>0, <1>1, <2>1, <2>2, <2>3 DEF TaskMove, Raise, Goto, Working, Inside
  <2> QED
    BY <2>4
<1>5. ASSUME AcquireSlot(t) PROVE \E l, s : TaskMove(t, l, s)
  <2>1. PICK l \in {"global", "provider", "invoke"} : l = AfterSlot(t)
    BY DEF AfterSlot, AfterGlobal
  <2>2. TaskMove(t, l, span[t])
    BY <1>2, <1>5, <2>1 DEF AcquireSlot, MayStep
  <2> QED
    BY <2>2
<1>6. ASSUME Grant(t) PROVE \E l, s : TaskMove(t, l, s)
  <2>1. PICK l \in {"provider", "invoke"} :
           /\ Goto(t, l) /\ pc[t] \in {"global", "provider"} /\ Yielded /\ t \notin asked
           /\ UNCHANGED <<mainVars, span, raised, asked, sem, current>>
    BY <1>6 DEF Grant, MayStep, AfterGlobal
  <2>2. TaskMove(t, l, span[t])
    BY <1>2, <2>1
  <2> QED
    BY <2>2
<1>7. ASSUME EndBackoff(t) PROVE \E l, s : TaskMove(t, l, s)
  <2> DEFINE s == [span[t] EXCEPT !.attempts = span[t].attempts + 1]
  <2>1. /\ Goto(t, "slot") /\ span' = [span EXCEPT ![t] = s] /\ pc[t] = "backoff"
        /\ Yielded /\ t \notin asked /\ UNCHANGED <<mainVars, raised, asked, sem, current>>
    BY <1>7 DEF EndBackoff, MayStep
  <2>2. /\ s \in Span /\ s.status = span[t].status /\ s.error = span[t].error
        /\ s.attempts = span[t].attempts + 1
    <3>1. span[t].attempts + 1 \in Int
      BY <1>0
    <3>2. s \in Span
      BY <1>0, <3>1, SpanValues
    <3>3. /\ s.status = span[t].status /\ s.error = span[t].error
          /\ s.attempts = span[t].attempts + 1
      BY <1>0 DEF Span
    <3> QED
      BY <3>2, <3>3
  <2> HIDE DEF s
  <2>3. Fits(t, "slot", s, raised')
    BY <1>0, <2>1, <2>2 DEF Fits, Working
  <2>4. TaskMove(t, "slot", s)
    BY <2>1, <2>2, <2>3 DEF TaskMove, Goto, Working, Inside
  <2> QED
    BY <2>4
<1>8. CancelledSpan(t) \in Span
      /\ CancelledSpan(t).status = "skipped" /\ CancelledSpan(t).error = "cancelled"
  BY <1>0, SpanValues DEF CancelledSpan, Span
<1>9. Fits(t, "done", CancelledSpan(t), raised')
  BY <1>8 DEF Fits, Working, Statuses
<1>10. ASSUME ThrowCancelled(t) PROVE \E l, s : TaskMove(t, l, s)
  <2>1. /\ Yielded /\ t \in asked /\ sem' = (IF t \in Holders THEN sem - 1 ELSE sem)
        /\ UNCHANGED <<mainVars, current>>
        /\ IF pc[t] \in {"start", "backoff"} THEN Raise(t) ELSE End(t, CancelledSpan(t))
    BY <1>10 DEF ThrowCancelled
  <2>2. pc[t] \notin {"idle", "done"} /\ runFailed
    BY <1>0, <2>1 DEF RaiseInv, PhaseInv
  <2>3. t \in Holders <=> pc[t] \in Inside
    BY DEF Holders, Inside
  <2>4. CASE pc[t] \in {"start", "backoff"}
    <3>1. Fits(t, "done", span[t], raised')
      BY <2>1, <2>4 DEF Fits, Working, Raise
    <3>2. TaskMove(t, "done", span[t])
      BY <1>0, <1>1, <2>1, <2>2, <2>3, <2>4, <3>1 DEF TaskMove, Raise, Goto, Working, Inside
    <3> QED
      BY <3>2
  <2>5. CASE pc[t] \notin {"start", "backoff"}
    <3>1. TaskMove(t, "done", CancelledSpan(t))
      BY <1>8, <1>9, <2>1, <2>2, <2>3, <2>5 DEF TaskMove, End, Goto, Working, Inside
    <3> QED
      BY <3>1
  <2> QED
    BY <2>4, <2>5
<1>11. ASSUME NEW o \in Outcomes, InvokeReturns(t, o) PROVE \E l, s : TaskMove(t, l, s)
  <2>1. /\ Yielded /\ pc[t] = "invoke" /\ t \notin asked /\ sem' = sem - 1
        /\ UNCHANGED <<mainVars, current>>
    BY <1>11 DEF InvokeReturns, MayStep
  <2>2. span[t].status = "failed" /\ span[t].error = "none" /\ span[t].attempts <= EffectiveRetry(t) + 1
    BY <1>0, <2>1 DEF Fits, Working
  <2>3. ASSUME NEW s \in Span, End(t, s), Fits(t, "done", s, raised') PROVE TaskMove(t, "done", s)
    BY <2>1, <2>3 DEF TaskMove, End, Goto, Working, Inside
  <2>4. CASE o = "ok"
    <3> DEFINE s == [span[t] EXCEPT !.status = "succeeded"]
    <3>1. s \in Span /\ s.status = "succeeded" /\ End(t, s)
      BY <1>0, <1>11, <2>4, SpanValues DEF InvokeReturns, Span
    <3> HIDE DEF s
    <3>2. Fits(t, "done", s, raised')
      BY <3>1 DEF Fits, Working, Statuses
    <3> QED
      BY <2>3, <3>1, <3>2
  <2>5. CASE o = "cancelled"
    <3>1. End(t, CancelledSpan(t))
      BY <1>11, <2>5 DEF InvokeReturns
    <3> QED
      BY <1>8, <1>9, <2>3, <3>1
  <2>6. CASE o \in {"error", "timeout"} /\ WillRetry(t)
    <3>1. Goto(t, "backoff") /\ UNCHANGED <<span, raised, asked>>
      BY <1>11, <2>6 DEF InvokeReturns
    <3>2. Fits(t, "backoff", span[t], raised')
      BY <2>2, <2>6 DEF Fits, Working, WillRetry
    <3>3. TaskMove(t, "backoff", span[t])
      BY <1>0, <1>1, <2>1, <3>1, <3>2 DEF TaskMove, Goto, Working, Inside
    <3> QED
      BY <3>3
  <2>7. CASE o \in {"error", "timeout"} /\ ~WillRetry(t)
    <3> DEFINE s == [span[t] EXCEPT !.error = o]
    <3>1. s \in Span /\ s.status = "failed" /\ s.attempts = span[t].attempts /\ End(t, s)
      BY <1>0, <1>11, <2>2, <2>7, SpanValues DEF InvokeReturns, Span
    <3> HIDE DEF s
    <3>2. span[t].attempts = EffectiveRetry(t) + 1
      BY <1>0, <2>2, <2>7 DEF WillRetry
    <3>3. Fits(t, "done", s, raised')
      BY <3>1, <3>2 DEF Fits, Working, Statuses
    <3> QED
      BY <2>3, <3>1, <3>3
  <2> QED
    BY <2>4, <2>5, <2>6, <2>7 DEF Outcomes
<1> QED
  BY <1>3, <1>4, <1>5, <1>6, <1>7, <1>10, <1>11 DEF TaskStep, SkillEnds
-----------------------------------------------------------------------------
(* Types *)

LEMMA PyTypeInit == Init => PyTypes
<1> SUFFICES ASSUME Init PROVE PyTypes
  OBVIOUS
<1>1. indeg \in [Tasks -> Int]
  BY GraphAssumption DEF Init
<1>2. report \in [status : {"none", "succeeded", "failed"},
                  output : {"none", "resolved", "nil"},
                  tasks : SUBSET Tasks, error : Tasks \cup {Absent}]
  BY DEF Init, NoReport
<1>3. spans \in [Tasks -> Span] /\ span \in [Tasks -> Span] /\ pc \in [Tasks -> PCs]
  BY SpanValues DEF Init, PCs
<1>4. /\ phase \in Phases /\ ready \subseteq Tasks
      /\ running \subseteq Tasks /\ batch \subseteq Tasks /\ results \subseteq Tasks
      /\ firstError \in Tasks \cup {Absent} /\ retries \in Nat
      /\ raised \subseteq Tasks /\ asked \subseteq Tasks /\ sem \in Int
      /\ current \in {"own", "other"}
  BY DEF Init, Phases
<1>5. runFailed \in BOOLEAN
  BY DEF Init
<1> QED
  BY <1>1, <1>2, <1>3, <1>4, <1>5 DEF PyTypes

LEMMA RetriesGrow ==
    ASSUME PyTypes, NEW t \in Tasks, TakeSpan(t)
    PROVE  retries' \in Nat
<1>1. span[t].attempts - 1 \in Int
  BY SpanFields DEF PyTypes
<1>2. \A n \in Int : Max0(n) \in Nat
  BY DEF Max0
<1>3. Max0(span[t].attempts - 1) \in Nat
  BY <1>1, <1>2
<1> QED
  BY <1>3 DEF TakeSpan, PyTypes

LEMMA PyTypeStep == PyTypes /\ CoreInv /\ [Next]_vars => PyTypes'
<1> SUFFICES ASSUME PyTypes, CoreInv, [Next]_vars PROVE PyTypes'
  OBVIOUS
<1> USE DEF PyTypes, mainVars, taskVars
<1>1. ASSUME NEW t \in Tasks, TaskStep(t) \/ SkillEnds(t) PROVE PyTypes'
  <2>1. PICK l, s : TaskMove(t, l, s)
    BY <1>1, TaskMoves
  <2>2. l \in PCs
    BY <2>1 DEF TaskMove, Working, PCs
  <2>3. sem' \in Int
    BY <2>1 DEF TaskMove
  <2> QED
    BY <2>1, <2>2, <2>3 DEF TaskMove
<1>2. ASSUME NEW t \in Tasks, Dispatch(t) PROVE PyTypes'
  BY <1>2 DEF Dispatch, Goto, PCs
<1>3. ASSUME Await PROVE PyTypes'
  BY <1>3 DEF Await, Phases
<1>4. ASSUME Wake PROVE PyTypes'
  BY <1>4 DEF Wake, Phases, Ended
<1>5. ASSUME NEW t \in Tasks, TakeRaises(t) PROVE PyTypes'
  BY <1>5 DEF TakeRaises, Take, Phases
<1>6. ASSUME NEW t \in Tasks, TakeSucceeded(t) PROVE PyTypes'
  <2>1. \A c \in Tasks : Cardinality(Positions(t, c)) \in Int
    BY PositionsCount
  <2>2. indeg' \in [Tasks -> Int]
    BY <1>6, <2>1 DEF TakeSucceeded, CountedOff
  <2>3. ready' \subseteq Tasks
    BY <1>6, ChildrenAreTasks DEF TakeSucceeded, NewlyReady
  <2>4. retries' \in Nat
    BY <1>6, RetriesGrow DEF TakeSucceeded
  <2> QED
    BY <1>6, <2>2, <2>3, <2>4 DEF TakeSucceeded, TakeSpan, Take
<1>7. ASSUME NEW t \in Tasks, TakeContinue(t) PROVE PyTypes'
  <2>1. spans' \in [Tasks -> Span]
    BY <1>7, SpanValues DEF TakeContinue, SkipAll
  <2>2. retries' \in Nat
    BY <1>7, RetriesGrow DEF TakeContinue
  <2> QED
    BY <1>7, <2>1, <2>2 DEF TakeContinue, TakeSpan, Take, FirstErrorWith
<1>8. ASSUME NEW t \in Tasks, TakeFailFast(t) PROVE PyTypes'
  <2>1. retries' \in Nat
    BY <1>8, RetriesGrow DEF TakeFailFast
  <2> QED
    BY <1>8, <2>1 DEF TakeFailFast, TakeSpan, Take, FirstErrorWith, Phases
<1>9. ASSUME NEW t \in Tasks, Cancel(t) PROVE PyTypes'
  BY <1>9 DEF Cancel
<1>10. ASSUME EndDrain PROVE PyTypes'
  <2>1. spans' \in [Tasks -> Span]
    BY <1>10, SpanValues DEF EndDrain, SkipAll
  <2> QED
    BY <1>10, <2>1 DEF EndDrain, Phases
<1>11. ASSUME Return PROVE PyTypes'
  <2>1. RunStatus \in {"succeeded", "failed"} /\ RunOutputs \subseteq {"resolved", "nil"}
    BY DEF RunStatus, RunOutputs
  <2>2. Tasks \ Unspanned \in SUBSET Tasks
    OBVIOUS
  <2>3. report' \in [status : {"none", "succeeded", "failed"},
                     output : {"none", "resolved", "nil"},
                     tasks : SUBSET Tasks, error : Tasks \cup {Absent}]
    BY <1>11, <2>1, <2>2 DEF Return
  <2> QED
    BY <1>11, <2>3 DEF Return, Phases
<1>12. ASSUME OtherRunStarts PROVE PyTypes'
  BY <1>12 DEF OtherRunStarts
<1>13. ASSUME UNCHANGED vars PROVE PyTypes'
  BY <1>13 DEF vars
<1> QED
  BY <1>1, <1>2, <1>3, <1>4, <1>5, <1>6, <1>7, <1>8, <1>9, <1>10, <1>11, <1>12, <1>13
     DEF Next, MainStep, Finished

-----------------------------------------------------------------------------
(* The invariant is inductive *)

LEMMA PyCoreInit == Init => CoreInv
<1> SUFFICES ASSUME Init PROVE CoreInv
  OBVIOUS
<1>1. SpanInv
  BY DEF Init, SpanInv, Fits, Working
<1>2. PhaseInv
  BY DEF Init, PhaseInv, NoReport
<1>3. RaiseInv
  BY DEF Init, RaiseInv, PyRaisesForTemplatesOnly
<1>4. ReadyInv
  BY NothingCountedOff DEF Init, ReadyInv, NoSpan
<1>5. SkipInv
  BY SpanFields, DepsAreTasks DEF Init, SkipInv
<1> QED
  BY <1>1, <1>2, <1>3, <1>4, <1>5 DEF CoreInv

\* A coroutine's step: the loop's own state is as it was.
LEMMA CoreTask ==
    ASSUME PyTypes, CoreInv, NEW t \in Tasks, TaskStep(t) \/ SkillEnds(t)
    PROVE  CoreInv'
<1>0. SpanInv /\ PhaseInv /\ RaiseInv /\ ReadyInv /\ SkipInv
  BY DEF CoreInv
<1>1. PICK l, s : TaskMove(t, l, s)
  BY TaskMoves
<1>2. /\ phase' = phase /\ ready' = ready /\ indeg' = indeg /\ running' = running
      /\ batch' = batch /\ results' = results /\ spans' = spans /\ runFailed' = runFailed
      /\ report' = report /\ current' = current
  BY <1>1 DEF TaskMove, mainVars
<1>3. /\ pc[t] \notin {"idle", "done"} /\ l \notin {"idle", "start"} /\ Fits(t, l, s, raised')
      /\ pc'[t] = l /\ span'[t] = s
      /\ \A u \in Tasks \ {t} : pc'[u] = pc[u] /\ span'[u] = span[u]
      /\ \A u \in Tasks \ {t} : u \in raised' <=> u \in raised
      /\ \A u \in Tasks : u \in asked' => u \in asked /\ (u = t => l # "done")
      /\ raised' \subseteq Tasks /\ asked' \subseteq Tasks
      /\ phase # "loop" /\ (phase = "drain" => batch = {})
      /\ spans[t] = NoSpan /\ t \in running
  BY <1>0, <1>1 DEF TaskMove, Working, PyTypes, Yielded, SpanInv
<1>4. TemplateMayFail(t)' <=> TemplateMayFail(t)
  BY <1>2 DEF TemplateMayFail
<1>5. SpanInv'
  <2> SUFFICES ASSUME NEW u \in Tasks
               PROVE  /\ Fits(u, pc[u], span[u], raised)'
                      /\ pc'[u] = "idle" => spans'[u] \in {NoSpan, SkippedSpan}
                      /\ pc'[u] \notin {"idle", "done"} => spans'[u] = NoSpan /\ u \in running'
                      /\ u \in running' => pc'[u] # "idle" /\ spans'[u] = NoSpan
                      /\ pc'[u] = "done" /\ u \notin running' =>
                           \/ u \notin raised' /\ spans'[u] = span'[u]
                           \/ phase' = "raised" /\ u \in raised' /\ spans'[u] = NoSpan
                           \/ phase' \in {"report", "returned"} /\ runFailed' /\ spans'[u] = SkippedSpan
    BY DEF SpanInv
  <2>1. CASE u = t
    BY <1>2, <1>3, <2>1 DEF Fits
  <2>2. CASE u # t
    <3>1. Fits(u, pc[u], span[u], raised)' <=> Fits(u, pc[u], span[u], raised)
      BY <1>3, <2>2 DEF Fits
    <3> QED
      BY <1>0, <1>2, <1>3, <2>2, <3>1 DEF SpanInv
  <2> QED
    BY <2>1, <2>2
<1>6. PhaseInv'
  BY <1>0, <1>2, <1>3 DEF PhaseInv, Unspanned, Ended
<1>7. RaiseInv'
  <2>1. \A u \in asked' : pc'[u] \notin {"idle", "done"} /\ phase' = "drain"
    BY <1>0, <1>2, <1>3 DEF RaiseInv
  <2>2. ASSUME NEW u \in raised' PROVE pc'[u] = "done" /\ (runFailed' \/ TemplateMayFail(u)')
    <3>1. TemplateMayFail(u)' <=> TemplateMayFail(u)
      BY <1>2 DEF TemplateMayFail
    <3>2. CASE u = t
      <4>1. t \notin raised
        BY <1>0, <1>3 DEF RaiseInv
      <4> QED
        BY <1>1, <1>2, <1>3, <3>1, <3>2, <4>1 DEF TaskMove
    <3>3. CASE u # t
      BY <1>0, <1>2, <1>3, <2>2, <3>1, <3>3 DEF RaiseInv
    <3> QED
      BY <3>2, <3>3
  <2>3. raised \subseteq raised'
    BY <1>1 DEF TaskMove
  <2>4. PyRaisesForTemplatesOnly'
    BY <1>0, <1>2, <2>3 DEF RaiseInv, PyRaisesForTemplatesOnly
  <2> QED
    BY <2>1, <2>2, <2>4 DEF RaiseInv
<1>8. ReadyInv'
  BY <1>0, <1>2, <1>3 DEF ReadyInv, PyTypes
<1>9. SkipInv'
  BY <1>0, <1>2, <1>3 DEF SkipInv
<1> QED
  BY <1>5, <1>6, <1>7, <1>8, <1>9 DEF CoreInv

LEMMA CorePyDispatch ==
    ASSUME PyTypes, CoreInv, NEW t \in Tasks, Dispatch(t)
    PROVE  CoreInv'
<1>0. SpanInv /\ PhaseInv /\ RaiseInv /\ ReadyInv /\ SkipInv
  BY DEF CoreInv
<1>1. /\ phase' = phase /\ phase = "loop" /\ ready' = ready \ {t} /\ indeg' = indeg
      /\ running' = running \cup {t} /\ batch = {} /\ batch' = batch /\ results' = results
      /\ spans' = spans /\ runFailed' = runFailed /\ report' = report /\ current' = current
      /\ span' = span /\ raised' = raised /\ asked' = asked
  BY DEF Dispatch
<1>2. pc'[t] = "start" /\ \A u \in Tasks \ {t} : pc'[u] = pc[u]
  BY DEF Dispatch, Goto, PyTypes
<1>3. /\ pc[t] = "idle" /\ spans[t] = NoSpan /\ Deps(t) \subseteq results
      /\ span[t] = NoSpan /\ t \notin raised /\ t \notin asked
  BY <1>0 DEF Dispatch, ReadyInv, SpanInv, RaiseInv, Fits
<1>4. SpanInv'
  BY <1>0, <1>1, <1>2, <1>3 DEF SpanInv, Fits, Working
<1>5. PhaseInv'
  BY <1>0, <1>1, <1>2 DEF PhaseInv, Unspanned
<1>6. RaiseInv'
  BY <1>0, <1>1, <1>2, <1>3 DEF RaiseInv, PyRaisesForTemplatesOnly, TemplateMayFail, PyTypes
<1>7. ReadyInv'
  BY <1>0, <1>1, <1>2, <1>3 DEF ReadyInv, PyTypes
<1>8. SkipInv'
  BY <1>0, <1>1, <1>2, <1>3 DEF SkipInv
<1> QED
  BY <1>4, <1>5, <1>6, <1>7, <1>8 DEF CoreInv

\* The loop is over when nothing is ready and nothing runs: a task without a
\* span would wait for one without a span, and so on in a circle.
LEMMA LoopCoversAll ==
    ASSUME PyTypes, CoreInv, phase = "loop", ready = {}, running = {}
    PROVE  Unspanned = {}
<1>1. SpanInv /\ PhaseInv /\ ReadyInv /\ SkipInv /\ ~runFailed
  BY DEF CoreInv, PhaseInv
<1>2. SUFFICES ASSUME Unspanned # {} PROVE FALSE
  OBVIOUS
<1>3. PICK t \in Unspanned : Deps(t) \cap Unspanned = {}
  BY <1>2, GraphAssumption DEF Acyclic, Unspanned
<1>4. t \in Tasks /\ spans[t] = NoSpan /\ \A d \in Deps(t) : d \in Tasks /\ spans[d] # NoSpan
  BY <1>3, DepsAreTasks DEF Unspanned
<1>5. \A d \in Deps(t) : spans[d].status \in Statuses
  <2> SUFFICES ASSUME NEW d \in Deps(t) PROVE spans[d].status \in Statuses
    OBVIOUS
  <2>1. CASE pc[d] = "idle"
    BY <1>1, <1>4, <2>1, SpanFields DEF SpanInv, Statuses
  <2>2. CASE pc[d] # "idle"
    <3>1. pc[d] = "done" /\ d \notin raised /\ spans[d] = span[d]
      BY <1>1, <1>4, <2>2 DEF SpanInv
    <3> QED
      BY <1>1, <1>4, <3>1 DEF SpanInv, Fits
  <2> QED
    BY <2>1, <2>2
<1>6. \A d \in Deps(t) : ~Bad(spans[d])
  BY <1>1, <1>4, SpanFields DEF SkipInv
<1>7. Deps(t) \subseteq results
  BY <1>1, <1>4, <1>5, <1>6 DEF ReadyInv, Bad, Statuses
<1>8. pc[t] = "idle"
  <2>1. pc[t] # "done"
    <3>1. ASSUME pc[t] = "done" PROVE FALSE
      <4>1. t \notin raised /\ spans[t] = span[t] /\ Fits(t, pc[t], span[t], raised)
        BY <1>1, <1>4, <3>1 DEF SpanInv
      <4> QED
        BY <1>4, <3>1, <4>1, SpanFields DEF Fits, Statuses
    <3> QED
      BY <3>1
  <2> QED
    BY <1>1, <1>4, <2>1 DEF SpanInv
<1> QED
  BY <1>1, <1>4, <1>7, <1>8 DEF ReadyInv

\* The awaits of run, and its return, change nothing but where it is.
LEMMA CoreAwaits ==
    ASSUME PyTypes, CoreInv, Await \/ Wake \/ Return
    PROVE  CoreInv'
<1>0. SpanInv /\ PhaseInv /\ RaiseInv /\ ReadyInv /\ SkipInv
  BY DEF CoreInv
<1>1. /\ ready' = ready /\ indeg' = indeg /\ running' = running /\ results' = results
      /\ spans' = spans /\ runFailed' = runFailed /\ current' = current
      /\ pc' = pc /\ span' = span /\ raised' = raised /\ asked' = asked
      /\ Unspanned' = Unspanned /\ Ended' = Ended
  BY DEF Await, Wake, Return, taskVars, Unspanned, Ended
<1>2. \/ /\ phase = "loop" /\ batch = {} /\ ready = {} /\ batch' = {} /\ report' = report
         /\ \/ phase' = "wait"
            \/ phase' = "report" /\ running = {} /\ Unspanned = {}
      \/ phase = "wait" /\ phase' = "loop" /\ batch' = Ended /\ report' = report
      \/ phase = "report" /\ phase' = "returned" /\ batch' = batch /\ report'.status # "none"
  <2>1. CASE Await
    BY <2>1, LoopCoversAll DEF Await
  <2>2. CASE Wake
    BY <2>2 DEF Wake
  <2>3. CASE Return
    BY <2>3 DEF Return, RunStatus
  <2> QED
    BY <2>1, <2>2, <2>3
<1>3. SpanInv'
  BY <1>0, <1>1, <1>2 DEF SpanInv
<1>4. PhaseInv'
  BY <1>0, <1>1, <1>2 DEF PhaseInv
<1>5. RaiseInv'
  BY <1>0, <1>1, <1>2 DEF RaiseInv, TemplateMayFail, PyRaisesForTemplatesOnly
<1>6. ReadyInv'
  BY <1>0, <1>1, <1>2 DEF ReadyInv
<1>7. SkipInv'
  BY <1>0, <1>1, <1>2 DEF SkipInv
<1> QED
  BY <1>3, <1>4, <1>5, <1>6, <1>7 DEF CoreInv

\* A future of the batch has ended and has no recorded span, and nothing that
\* depends on its task has been dispatched.
LEMMA TakeLemma ==
    ASSUME PyTypes, CoreInv, NEW t \in Tasks, Take(t)
    PROVE  /\ phase = "loop" /\ ~runFailed /\ asked = {}
           /\ pc[t] = "done" /\ t \in running /\ spans[t] = NoSpan /\ t \notin results
           /\ t \notin ready /\ running' = running \ {t}
           /\ t \notin raised => /\ span[t].status \in Statuses
                                 /\ span[t] # NoSpan /\ span[t] # SkippedSpan
                                 /\ span[t].status # "succeeded" => Bad(span[t])
           /\ \A c \in Tasks : t \in Deps(c) => pc[c] = "idle"
<1>0. SpanInv /\ PhaseInv /\ RaiseInv /\ ReadyInv
  BY DEF CoreInv
<1>1. /\ phase = "loop" /\ t \in batch /\ running' = running \ {t}
      /\ pc[t] = "done" /\ t \in running
  BY <1>0 DEF Take, PhaseInv, Ended
<1>2. ~runFailed /\ asked = {} /\ spans[t] = NoSpan
  BY <1>0, <1>1 DEF PhaseInv, RaiseInv, SpanInv
<1>3. t \notin results /\ t \notin ready
  BY <1>0, <1>1, <1>2, SpanFields DEF ReadyInv
<1>4. \A c \in Tasks : t \in Deps(c) => pc[c] = "idle"
  BY <1>0, <1>3 DEF ReadyInv
<1>5. ASSUME t \notin raised
      PROVE  /\ span[t].status \in Statuses
             /\ span[t].status = "skipped" => span[t].error = "cancelled"
  BY <1>0, <1>1, <1>5 DEF SpanInv, Fits
<1>6. ASSUME t \notin raised
      PROVE  /\ span[t] # NoSpan /\ span[t] # SkippedSpan
             /\ span[t].status # "succeeded" => Bad(span[t])
  BY <1>5, <1>6, SpanFields DEF Statuses, Bad
<1> QED
  BY <1>1, <1>2, <1>3, <1>4, <1>5, <1>6

LEMMA CoreTakeRaises ==
    ASSUME PyTypes, CoreInv, NEW t \in Tasks, TakeRaises(t)
    PROVE  CoreInv'
<1>0. SpanInv /\ PhaseInv /\ RaiseInv /\ ReadyInv /\ SkipInv
  BY DEF CoreInv
<1>1. /\ phase = "loop" /\ ~runFailed /\ asked = {} /\ pc[t] = "done" /\ spans[t] = NoSpan
      /\ running' = running \ {t}
  BY TakeLemma DEF TakeRaises
<1>2. /\ t \in raised /\ phase' = "raised" /\ batch' = {} /\ ready' = ready /\ indeg' = indeg
      /\ results' = results /\ spans' = spans /\ runFailed' = runFailed
      /\ report' = report /\ pc' = pc /\ span' = span /\ raised' = raised /\ asked' = asked
      /\ current' = current
  BY DEF TakeRaises, taskVars
<1>3. SpanInv'
  BY <1>0, <1>1, <1>2 DEF SpanInv
<1>4. PhaseInv'
  BY <1>0, <1>1, <1>2 DEF PhaseInv
<1>5. RaiseInv'
  <2>1. \A u \in Tasks : TemplateMayFail(u)' <=> TemplateMayFail(u)
    BY <1>2 DEF TemplateMayFail
  <2>2. TemplateMayFail(t)
    BY <1>0, <1>1, <1>2 DEF RaiseInv
  <2>3. t \in raised' \ running' /\ spans'[t] = NoSpan
    BY <1>1, <1>2
  <2>4. PyRaisesForTemplatesOnly'
    BY <1>2, <2>2, <2>3 DEF PyRaisesForTemplatesOnly, TemplateMayFail
  <2>5. \A u \in raised' : pc'[u] = "done" /\ (runFailed' \/ TemplateMayFail(u)')
    BY <1>0, <1>2, <2>1 DEF RaiseInv, PyTypes
  <2> QED
    BY <1>1, <1>2, <2>4, <2>5 DEF RaiseInv
<1>6. ReadyInv'
  BY <1>0, <1>1, <1>2 DEF ReadyInv
<1>7. SkipInv'
  BY <1>0, <1>1, <1>2 DEF SkipInv
<1> QED
  BY <1>3, <1>4, <1>5, <1>6, <1>7 DEF CoreInv

LEMMA CoreTakeSucceeded ==
    ASSUME PyTypes, PyTypes', CoreInv, NEW t \in Tasks, TakeSucceeded(t)
    PROVE  CoreInv'
<1>0. SpanInv /\ PhaseInv /\ RaiseInv /\ ReadyInv /\ SkipInv
  BY DEF CoreInv
<1>1. /\ phase = "loop" /\ ~runFailed /\ asked = {} /\ pc[t] = "done" /\ spans[t] = NoSpan
      /\ t \notin results /\ t \notin ready /\ running' = running \ {t}
      /\ span[t] # NoSpan /\ span[t] # SkippedSpan /\ t \notin raised
      /\ \A c \in Tasks : t \in Deps(c) => pc[c] = "idle"
  BY TakeLemma DEF TakeSucceeded, TakeSpan
<1>2. /\ span[t].status = "succeeded"
      /\ phase' = phase /\ batch' = batch \ {t} /\ ready' = ready \cup NewlyReady(t)
      /\ indeg' = CountedOff(t) /\ results' = results \cup {t}
      /\ runFailed' = runFailed /\ report' = report /\ current' = current
      /\ pc' = pc /\ span' = span /\ raised' = raised /\ asked' = asked
      /\ spans'[t] = span[t] /\ \A u \in Tasks \ {t} : spans'[u] = spans[u]
  BY DEF TakeSucceeded, taskVars, PyTypes
<1>3. SpanInv'
  BY <1>0, <1>1, <1>2 DEF SpanInv
<1>4. PhaseInv'
  BY <1>0, <1>1, <1>2 DEF PhaseInv, Ended
<1>5. RaiseInv'
  BY <1>0, <1>1, <1>2 DEF RaiseInv, TemplateMayFail, PyRaisesForTemplatesOnly
<1>6. ReadyInv'
  <2>1. \A u \in Tasks : u \in results' <=> spans'[u].status = "succeeded"
    BY <1>0, <1>1, <1>2 DEF ReadyInv
  <2>2. \A u \in Tasks : pc'[u] # "idle" => Deps(u) \subseteq results'
    BY <1>0, <1>2 DEF ReadyInv
  <2>3. \A c \in Tasks : indeg'[c] = Cardinality(Remaining(c, results'))
    BY <1>0, <1>1, <1>2, CountingOff DEF ReadyInv, CountedOff
  <2>4. \A c \in Tasks : indeg'[c] <= 0 <=> Deps(c) \subseteq results'
    BY <2>3, RemainingLemma
  <2>5. \A c \in Tasks : indeg[c] > 0 <=> ~(Deps(c) \subseteq results)
    <3>1. \A c \in Tasks : Cardinality(Remaining(c, results)) > 0
                             <=> ~(Deps(c) \subseteq results)
      BY RemainingLemma
    <3> QED
      BY <1>0, <3>1 DEF ReadyInv
  <2>6. \A c \in Tasks : c \in NewlyReady(t) <=>
           t \in Deps(c) /\ Deps(c) \subseteq results' /\ spans[c] # SkippedSpan
    <3>1. \A c \in Tasks : c \in NewlyReady(t) <=>
             c \in Children(t) /\ indeg[c] > 0 /\ indeg'[c] <= 0 /\ spans[c] # SkippedSpan
      BY <1>2, ChildrenAreTasks DEF NewlyReady
    <3>2. \A c \in Tasks : t \in Deps(c) => ~(Deps(c) \subseteq results)
      BY <1>1
    <3> QED
      BY <2>4, <2>5, <3>1, <3>2, DepsAreTasks
  <2>7. ASSUME NEW c \in ready'
        PROVE  pc'[c] = "idle" /\ spans'[c] = NoSpan /\ Deps(c) \subseteq results'
    <3>1. CASE c \in ready
      BY <1>0, <1>1, <1>2, <3>1 DEF ReadyInv, PyTypes
    <3>2. CASE c \in NewlyReady(t)
      <4>1. c \in Tasks /\ t \in Deps(c) /\ Deps(c) \subseteq results' /\ spans[c] # SkippedSpan
        BY <2>6, <3>2, ChildrenAreTasks DEF NewlyReady
      <4>2. pc[c] = "idle" /\ c # t
        BY <1>1, <4>1
      <4>3. spans[c] = NoSpan
        BY <1>0, <4>1, <4>2 DEF SpanInv
      <4> QED
        BY <1>2, <4>1, <4>2, <4>3
    <3> QED
      BY <1>2, <2>7, <3>1, <3>2
  <2>8. ASSUME NEW c \in Tasks, pc'[c] = "idle", spans'[c] = NoSpan, Deps(c) \subseteq results'
        PROVE  c \in ready'
    <3>1. c # t /\ pc[c] = "idle" /\ spans[c] = NoSpan
      BY <1>1, <1>2, <2>8
    <3>2. CASE Deps(c) \subseteq results
      BY <1>0, <1>1, <1>2, <3>1, <3>2 DEF ReadyInv
    <3>3. CASE ~(Deps(c) \subseteq results)
      <4>1. t \in Deps(c)
        BY <1>2, <2>8, <3>3
      <4> QED
        BY <1>2, <2>6, <2>8, <3>1, <4>1, SpanFields
    <3> QED
      BY <3>2, <3>3
  <2> QED
    BY <2>1, <2>2, <2>3, <2>7, <2>8 DEF ReadyInv
<1>7. SkipInv'
  <2>1. ~Bad(span[t]) /\ ~Bad(spans[t])
    BY <1>1, <1>2, SpanFields DEF Bad
  <2>2. \A d \in Tasks : Bad(spans'[d]) <=> Bad(spans[d])
    BY <1>2, <2>1
  <2>3. ASSUME NEW u \in Tasks, pc'[u] = "idle", spans'[u] # NoSpan
        PROVE  \E d \in Deps(u) : Bad(spans'[d])
    <3>1. u # t /\ pc[u] = "idle" /\ spans[u] # NoSpan
      BY <1>1, <1>2, <2>3
    <3> QED
      BY <1>0, <1>1, <2>2, <3>1, DepsAreTasks DEF SkipInv
  <2>4. ASSUME NEW u \in Tasks, NEW d \in Deps(u), Bad(spans'[d])
        PROVE  spans'[u] = SkippedSpan
    <3>1. spans[u] = SkippedSpan
      BY <1>0, <1>1, <2>2, <2>4, DepsAreTasks DEF SkipInv
    <3>2. u # t
      BY <1>1, <3>1, SpanFields
    <3> QED
      BY <1>2, <3>1, <3>2
  <2> QED
    BY <2>3, <2>4 DEF SkipInv
<1> QED
  BY <1>3, <1>4, <1>5, <1>6, <1>7 DEF CoreInv

LEMMA CoreTakeContinue ==
    ASSUME PyTypes, CoreInv, NEW t \in Tasks, TakeContinue(t)
    PROVE  CoreInv'
<1> DEFINE open == Unspanned \ {t}
<1>0. SpanInv /\ PhaseInv /\ RaiseInv /\ ReadyInv /\ SkipInv
  BY DEF CoreInv
<1>1. /\ phase = "loop" /\ ~runFailed /\ asked = {} /\ pc[t] = "done" /\ spans[t] = NoSpan
      /\ t \notin results /\ t \notin ready /\ running' = running \ {t}
      /\ span[t] # NoSpan /\ span[t] # SkippedSpan /\ Bad(span[t]) /\ t \notin raised
      /\ \A c \in Tasks : t \in Deps(c) => pc[c] = "idle"
  BY TakeLemma DEF TakeContinue, TakeSpan
<1>2. /\ span[t].status # "succeeded"
      /\ phase' = phase /\ batch' = batch \ {t} /\ ready' = ready
      /\ indeg' = indeg /\ results' = results
      /\ runFailed' = runFailed /\ report' = report /\ current' = current
      /\ pc' = pc /\ span' = span /\ raised' = raised /\ asked' = asked
  BY DEF TakeContinue, taskVars
<1>3. PICK lost : lost = Descendants(t, open)
  OBVIOUS
<1>4. /\ open \in SUBSET Tasks /\ lost \subseteq open
      /\ \A u \in lost \cup {t} : \A c \in Children(u) \cap open : c \in lost
      /\ \A S \in SUBSET open : ClosedFrom(S, t, open) => lost \subseteq S
      /\ \A c \in lost : \E u \in lost \cup {t} : u \in Deps(c)
  <2>1. open \in SUBSET Tasks
    BY DEF Unspanned
  <2> HIDE DEF open
  <2> QED
    BY <1>3, <2>1, DescendantsLemma
<1>5. /\ spans'[t] = span[t]
      /\ \A u \in lost : spans[u] = NoSpan /\ spans'[u] = SkippedSpan
      /\ \A u \in Tasks \ (lost \cup {t}) : spans'[u] = spans[u]
      /\ t \notin lost /\ lost \subseteq Tasks
  <2>1. spans' = SkipAll(lost, [spans EXCEPT ![t] = span[t]])
    BY <1>3 DEF TakeContinue
  <2>2. t \notin lost /\ \A u \in lost : spans[u] = NoSpan
    BY <1>4 DEF Unspanned
  <2> QED
    BY <1>4, <2>1, <2>2 DEF SkipAll, PyTypes
<1>6. lost \cap results = {}
  BY <1>0, <1>5, SpanFields DEF ReadyInv
\* What is marked lacks a result it depends on: it has not been dispatched and
\* is not ready.
<1>7. \A u \in lost : pc[u] = "idle" /\ u \notin ready
  <2> SUFFICES ASSUME NEW u \in lost PROVE pc[u] = "idle" /\ u \notin ready
    OBVIOUS
  <2>1. PICK d \in lost \cup {t} : d \in Deps(u)
    BY <1>4
  <2>2. d \notin results
    BY <1>1, <1>6, <2>1
  <2> QED
    BY <1>0, <1>5, <2>1, <2>2 DEF ReadyInv
<1>8. \A d \in Tasks : Bad(spans'[d]) <=> Bad(spans[d]) \/ d \in lost \cup {t}
  BY <1>1, <1>5, SpanFields
<1>9. SpanInv'
  <2> SUFFICES ASSUME NEW u \in Tasks
               PROVE  /\ Fits(u, pc[u], span[u], raised)'
                      /\ pc'[u] = "idle" => spans'[u] \in {NoSpan, SkippedSpan}
                      /\ pc'[u] \notin {"idle", "done"} => spans'[u] = NoSpan /\ u \in running'
                      /\ u \in running' => pc'[u] # "idle" /\ spans'[u] = NoSpan
                      /\ pc'[u] = "done" /\ u \notin running' =>
                           \/ u \notin raised' /\ spans'[u] = span'[u]
                           \/ phase' = "raised" /\ u \in raised' /\ spans'[u] = NoSpan
                           \/ phase' \in {"report", "returned"} /\ runFailed' /\ spans'[u] = SkippedSpan
    BY DEF SpanInv
  <2>1. Fits(u, pc[u], span[u], raised)'
    BY <1>0, <1>2 DEF SpanInv
  <2>2. CASE u = t
    BY <1>1, <1>2, <1>5, <2>1, <2>2
  <2>3. CASE u \in lost
    <3>1. u \notin running
      BY <1>0, <1>7, <2>3 DEF SpanInv
    <3> QED
      BY <1>1, <1>2, <1>5, <1>7, <2>1, <2>3, <3>1
  <2>4. CASE u \notin lost \cup {t}
    BY <1>0, <1>1, <1>2, <1>5, <2>1, <2>4 DEF SpanInv
  <2> QED
    BY <2>2, <2>3, <2>4
<1>10. PhaseInv'
  BY <1>0, <1>1, <1>2 DEF PhaseInv, Ended
<1>11. RaiseInv'
  BY <1>0, <1>1, <1>2 DEF RaiseInv, TemplateMayFail, PyRaisesForTemplatesOnly
<1>12. ReadyInv'
  <2>1. \A u \in Tasks : u \in results' <=> spans'[u].status = "succeeded"
    BY <1>0, <1>1, <1>2, <1>5, <1>6, SpanFields DEF ReadyInv
  <2>2. \A u \in Tasks : spans'[u] = NoSpan => spans[u] = NoSpan
    BY <1>1, <1>5
  <2>3. \A u \in ready' : pc'[u] = "idle" /\ spans'[u] = NoSpan /\ Deps(u) \subseteq results'
    BY <1>0, <1>1, <1>2, <1>5, <1>7 DEF ReadyInv, PyTypes
  <2> QED
    BY <1>0, <1>1, <1>2, <2>1, <2>2, <2>3 DEF ReadyInv
<1>13. SkipInv'
  <2>1. ASSUME NEW u \in Tasks, pc'[u] = "idle", spans'[u] # NoSpan
        PROVE  \E d \in Deps(u) : Bad(spans'[d])
    <3>1. u # t /\ pc[u] = "idle"
      BY <1>1, <1>2, <2>1
    <3>2. CASE u \in lost
      <4>1. PICK d \in lost \cup {t} : d \in Deps(u)
        BY <1>4, <3>2
      <4> QED
        BY <1>5, <1>8, <4>1
    <3>3. CASE u \notin lost
      <4>1. PICK d \in Deps(u) : Bad(spans[d])
        BY <1>0, <1>1, <1>5, <2>1, <3>1, <3>3 DEF SkipInv
      <4> QED
        BY <1>8, <4>1, DepsAreTasks
    <3> QED
      BY <3>2, <3>3
  <2>2. ASSUME NEW u \in Tasks, NEW d \in Deps(u), Bad(spans'[d])
        PROVE  spans'[u] = SkippedSpan
    <3>0. d \in Tasks
      BY DepsAreTasks
    <3>1. CASE Bad(spans[d])
      <4>1. spans[u] = SkippedSpan
        BY <1>0, <1>1, <3>1 DEF SkipInv
      <4> QED
        BY <1>1, <1>5, <4>1, SpanFields
    <3>2. CASE d \in lost \cup {t}
      <4>1. pc[u] = "idle" /\ u # t
        BY <1>0, <1>1, <1>6, <3>2 DEF ReadyInv
      <4>2. CASE spans[u] = NoSpan
        <5>1. u \in Children(d) \cap open
          BY <4>1, <4>2 DEF Children, Unspanned
        <5> QED
          BY <1>4, <1>5, <3>2, <5>1
      <4>3. CASE spans[u] # NoSpan
        BY <1>0, <1>5, <4>1, <4>3 DEF SpanInv
      <4> QED
        BY <4>2, <4>3
    <3> QED
      BY <1>8, <2>2, <3>0, <3>1, <3>2
  <2> QED
    BY <2>1, <2>2 DEF SkipInv
<1> QED
  BY <1>9, <1>10, <1>11, <1>12, <1>13 DEF CoreInv

LEMMA CoreTakeFailFast ==
    ASSUME PyTypes, CoreInv, NEW t \in Tasks, TakeFailFast(t)
    PROVE  CoreInv'
<1>0. SpanInv /\ PhaseInv /\ RaiseInv /\ ReadyInv
  BY DEF CoreInv
<1>1. /\ phase = "loop" /\ ~runFailed /\ asked = {} /\ pc[t] = "done" /\ spans[t] = NoSpan
      /\ t \notin results /\ t \notin ready /\ running' = running \ {t}
      /\ span[t] # NoSpan /\ Bad(span[t]) /\ t \notin raised
  BY TakeLemma DEF TakeFailFast, TakeSpan
<1>2. /\ span[t].status # "succeeded"
      /\ phase' = "drain" /\ batch' = running' /\ ready' = ready
      /\ indeg' = indeg /\ results' = results
      /\ runFailed' /\ report' = report /\ current' = current
      /\ pc' = pc /\ span' = span /\ raised' = raised /\ asked' = asked
      /\ spans'[t] = span[t] /\ \A u \in Tasks \ {t} : spans'[u] = spans[u]
  BY DEF TakeFailFast, taskVars, PyTypes
<1>3. SpanInv'
  BY <1>0, <1>1, <1>2 DEF SpanInv
<1>4. PhaseInv'
  BY <1>0, <1>1, <1>2 DEF PhaseInv
<1>5. RaiseInv'
  BY <1>0, <1>1, <1>2 DEF RaiseInv, PyRaisesForTemplatesOnly
<1>6. ReadyInv'
  BY <1>0, <1>1, <1>2, SpanFields DEF ReadyInv, PyTypes
<1>7. SkipInv'
  BY <1>2 DEF SkipInv
<1> QED
  BY <1>3, <1>4, <1>5, <1>6, <1>7 DEF CoreInv

LEMMA CorePyCancel ==
    ASSUME PyTypes, CoreInv, NEW t \in Tasks, Cancel(t)
    PROVE  CoreInv'
<1>0. SpanInv /\ PhaseInv /\ RaiseInv /\ ReadyInv /\ SkipInv
  BY DEF CoreInv
<1>1. /\ phase = "drain" /\ t \in batch /\ batch' = batch \ {t} /\ phase' = phase
      /\ ready' = ready /\ indeg' = indeg /\ running' = running /\ results' = results
      /\ spans' = spans /\ runFailed' = runFailed /\ report' = report /\ current' = current
      /\ pc' = pc /\ span' = span /\ raised' = raised
      /\ \A u \in asked' : u \in asked \/ (u = t /\ pc[t] # "done")
  BY DEF Cancel
<1>2. t \in running /\ pc[t] # "idle"
  BY <1>0, <1>1 DEF PhaseInv, SpanInv
<1>3. SpanInv'
  BY <1>0, <1>1 DEF SpanInv
<1>4. PhaseInv'
  BY <1>0, <1>1 DEF PhaseInv, Unspanned, Ended
<1>5. RaiseInv'
  BY <1>0, <1>1, <1>2 DEF RaiseInv, PyRaisesForTemplatesOnly, TemplateMayFail
<1>6. ReadyInv'
  BY <1>0, <1>1 DEF ReadyInv
<1>7. SkipInv'
  BY <1>0, <1>1 DEF SkipInv
<1> QED
  BY <1>3, <1>4, <1>5, <1>6, <1>7 DEF CoreInv

LEMMA CorePyEndDrain ==
    ASSUME PyTypes, CoreInv, EndDrain
    PROVE  CoreInv'
<1>0. SpanInv /\ PhaseInv /\ RaiseInv /\ ReadyInv
  BY DEF CoreInv
<1>1. /\ phase = "drain" /\ phase' = "report" /\ batch = {} /\ batch' = batch
      /\ running \subseteq Ended /\ running' = {} /\ ready' = {} /\ indeg' = indeg
      /\ results' = results /\ runFailed' = runFailed /\ report' = report
      /\ current' = current
      /\ pc' = pc /\ span' = span /\ raised' = raised /\ asked' = asked
      /\ \A u \in Tasks : spans'[u] = IF spans[u] = NoSpan THEN SkippedSpan ELSE spans[u]
  BY DEF EndDrain, taskVars, SkipAll, Unspanned
<1>2. runFailed
  BY <1>0, <1>1 DEF PhaseInv
<1>3. \A u \in Tasks : pc[u] \in {"idle", "done"}
  BY <1>0, <1>1 DEF SpanInv, Ended
<1>4. SpanInv'
  <2> SUFFICES ASSUME NEW u \in Tasks
               PROVE  /\ Fits(u, pc[u], span[u], raised)'
                      /\ pc'[u] = "idle" => spans'[u] \in {NoSpan, SkippedSpan}
                      /\ pc'[u] = "done" =>
                           \/ u \notin raised' /\ spans'[u] = span'[u]
                           \/ spans'[u] = SkippedSpan
    BY <1>1, <1>2, <1>3 DEF SpanInv
  <2>1. Fits(u, pc[u], span[u], raised)'
    BY <1>0, <1>1 DEF SpanInv
  <2> QED
    BY <1>0, <1>1, <2>1 DEF SpanInv
<1>5. PhaseInv'
  <2>1. PICK u \in Tasks : Bad(spans[u])
    BY <1>0, <1>2 DEF PhaseInv
  <2>2. spans'[u] = spans[u]
    BY <1>1, <2>1, SpanFields
  <2>3. Unspanned' = {}
    BY <1>1, SpanFields DEF Unspanned
  <2> QED
    BY <1>0, <1>1, <1>2, <2>1, <2>2, <2>3 DEF PhaseInv
<1>6. RaiseInv'
  BY <1>0, <1>1, <1>2, <1>3 DEF RaiseInv, PyRaisesForTemplatesOnly, PyTypes
<1>7. ReadyInv'
  BY <1>0, <1>1, SpanFields DEF ReadyInv
<1>8. SkipInv'
  BY <1>1, <1>2 DEF SkipInv
<1> QED
  BY <1>4, <1>5, <1>6, <1>7, <1>8 DEF CoreInv

LEMMA CoreOtherRun ==
    ASSUME CoreInv, OtherRunStarts \/ UNCHANGED vars
    PROVE  CoreInv'
<1>0. SpanInv /\ PhaseInv /\ RaiseInv /\ ReadyInv /\ SkipInv
  BY DEF CoreInv
<1>1. /\ UNCHANGED <<mainVars, taskVars>> /\ (current # "own" => current' # "own")
  BY DEF OtherRunStarts, vars
<1>2. RaiseInv'
  BY <1>0, <1>1 DEF mainVars, taskVars, RaiseInv, TemplateMayFail, PyRaisesForTemplatesOnly
<1> QED
  BY <1>0, <1>1, <1>2 DEF mainVars, taskVars, CoreInv, SpanInv, PhaseInv, ReadyInv, SkipInv,
                          Unspanned, Ended

LEMMA PyCoreStep == PyTypes /\ PyTypes' /\ CoreInv /\ [Next]_vars => CoreInv'
BY CoreTask, CorePyDispatch, CoreAwaits, CoreTakeRaises, CoreTakeSucceeded,
   CoreTakeContinue, CoreTakeFailFast, CorePyCancel, CorePyEndDrain, CoreOtherRun
   DEF Next, MainStep, Finished

\* run's bookkeeping and the futures' agree in every state, whatever the batches
\* and the order in which they are handled.
THEOREM PyCoreCorrect == Spec => [](PyTypes /\ CoreInv)
<1>1. Init => PyTypes /\ CoreInv
  BY PyTypeInit, PyCoreInit
<1>2. PyTypes /\ CoreInv /\ [Next]_vars => PyTypes' /\ CoreInv'
  BY PyTypeStep, PyCoreStep
<1> QED
  BY <1>1, <1>2, PTL DEF Spec

-----------------------------------------------------------------------------
(* Semaphore and attempts *)

SlotInv == sem = Cardinality(Holders) /\ sem <= MaxParallel

LEMMA SlotStep ==
    ASSUME PyTypes, CoreInv, SlotInv, [Next]_vars
    PROVE  SlotInv'
<1>0. MaxParallel \in Nat /\ Holders \in SUBSET Tasks /\ sem \in Int
  BY PyPolicyAssumption DEF Holders, PyTypes
<1>1. ASSUME NEW t \in Tasks, TaskStep(t) \/ SkillEnds(t) PROVE SlotInv'
  <2>1. PICK l, s : TaskMove(t, l, s)
    BY <1>1, TaskMoves
  <2>2. pc'[t] = l /\ \A u \in Tasks \ {t} : pc'[u] = pc[u]
    BY <2>1 DEF TaskMove, PyTypes
  <2>3. CASE (l \in Inside <=> pc[t] \in Inside) /\ sem' = sem
    <3>1. Holders' = Holders
      BY <2>2, <2>3 DEF Holders, Inside
    <3> QED
      BY <2>3, <3>1 DEF SlotInv
  <2>4. CASE l \in Inside /\ pc[t] \notin Inside /\ sem < MaxParallel /\ sem' = sem + 1
    <3>1. Holders' = Holders \cup {t} /\ t \notin Holders
      BY <2>2, <2>4 DEF Holders, Inside
    <3>2. Cardinality(Holders \cup {t}) = Cardinality(Holders) + 1
      BY <1>0, <3>1, TaskSets
    <3> QED
      BY <1>0, <2>4, <3>1, <3>2 DEF SlotInv
  <2>5. CASE l \notin Inside /\ pc[t] \in Inside /\ sem' = sem - 1
    <3>1. Holders' = Holders \ {t} /\ t \in Holders
      BY <2>2, <2>5 DEF Holders, Inside
    <3>2. Cardinality(Holders \ {t}) = Cardinality(Holders) - 1
      BY <1>0, <3>1, TaskSets
    <3> QED
      BY <1>0, <2>5, <3>1, <3>2 DEF SlotInv
  <2> QED
    BY <2>1, <2>3, <2>4, <2>5 DEF TaskMove
<1>2. ASSUME NEW t \in Tasks, Dispatch(t) PROVE SlotInv'
  <2>1. pc[t] = "idle"
    BY <1>2 DEF Dispatch, CoreInv, ReadyInv
  <2>2. Holders' = Holders /\ sem' = sem
    BY <1>2, <2>1 DEF Dispatch, Goto, Holders, PyTypes
  <2> QED
    BY <2>2 DEF SlotInv
<1>3. ASSUME UNCHANGED <<pc, sem>> PROVE SlotInv'
  BY <1>3 DEF SlotInv, Holders
<1>4. ASSUME \/ Await \/ Wake \/ EndDrain \/ Return \/ OtherRunStarts \/ UNCHANGED vars
             \/ \E t \in Tasks : \/ Cancel(t) \/ TakeSucceeded(t) \/ TakeContinue(t)
                                 \/ TakeFailFast(t) \/ TakeRaises(t)
      PROVE  UNCHANGED <<pc, sem>>
  BY <1>4 DEF Await, Wake, EndDrain, Return, OtherRunStarts, Cancel, TakeSucceeded,
              TakeContinue, TakeFailFast, TakeRaises, taskVars, vars
<1> QED
  BY <1>1, <1>2, <1>3, <1>4 DEF Next, MainStep, Finished

\* The semaphore of max_parallel is held by exactly the tasks between its acquire
\* and its release in _execute_task, raising and cancelled ones included.
THEOREM SlotsCorrect == Spec => []SlotInv
<1>1. Init => SlotInv
  <2> SUFFICES ASSUME Init PROVE SlotInv
    OBVIOUS
  <2>1. Holders = {}
    BY DEF Init, Holders
  <2>2. Cardinality({}) = 0
    BY FS_EmptySet
  <2> QED
    BY <2>1, <2>2, PyPolicyAssumption DEF Init, SlotInv
<1>2. PyTypes /\ CoreInv /\ SlotInv /\ [Next]_vars => SlotInv'
  BY SlotStep
<1> QED
  BY <1>1, <1>2, PyCoreCorrect, PTL DEF Spec

\* What is recorded of a task: nothing, that it was skipped, or the span its
\* future returned.
LEMMA RecordedSpans ==
    ASSUME CoreInv, NEW t \in Tasks
    PROVE  \/ spans[t] = NoSpan
           \/ spans[t] = SkippedSpan /\ (pc[t] = "idle" \/ runFailed)
           \/ /\ spans[t] = span[t] /\ pc[t] = "done" /\ t \notin running
              /\ span[t].status \in Statuses
              /\ span[t].status = "skipped" => span[t].error = "cancelled"
              /\ span[t].status = "failed" /\ span[t].error # "unknown" =>
                   span[t].attempts = EffectiveRetry(t) + 1
<1>1. SpanInv
  BY DEF CoreInv
<1>2. CASE pc[t] = "idle"
  BY <1>1, <1>2 DEF SpanInv
<1>3. CASE pc[t] \notin {"idle", "done"} \/ t \in running
  BY <1>1, <1>3 DEF SpanInv
<1>4. CASE pc[t] = "done" /\ t \notin running
  BY <1>1, <1>4 DEF SpanInv, Fits
<1> QED
  BY <1>2, <1>3, <1>4

\* For every workflow, policy and max_parallel: the variables keep to their
\* types, no more than max_parallel coroutines are inside the async with of
\* _execute_task and each of them holds one permit, through errors, timeouts and
\* cancellations alike; and a task recorded as failed used every attempt it had.
THEOREM PyBookkeepingCorrect == Spec => []PyBookkeeping
<1>1. PyTypes /\ CoreInv /\ SlotInv => PyBookkeeping
  <2> SUFFICES ASSUME PyTypes, CoreInv, SlotInv PROVE PyBookkeeping
    OBVIOUS
  <2>1. sem \in Nat
    <3>1. Holders \in SUBSET Tasks
      BY DEF Holders
    <3>2. Cardinality(Holders) \in Nat
      BY <3>1, TaskSets
    <3> QED
      BY <3>2 DEF SlotInv
  <2>2. PyTypeOK
    BY <2>1 DEF PyTypes, PyTypeOK
  <2>3. PyAttemptsAndSlots
    BY RecordedSpans, SpanFields DEF PyAttemptsAndSlots, SlotInv
  <2> QED
    BY <2>2, <2>3 DEF PyBookkeeping
<1> QED
  BY <1>1, PyCoreCorrect, SlotsCorrect, PTL

-----------------------------------------------------------------------------
(* Order, raising and reporting *)

\* A task's future exists only when all it depends on has succeeded; and while
\* the loop goes on, just the tasks that need a failed or skipped one, at any
\* distance, are skipped: on_error: continue has reached them all.
THEOREM PyOrderKeptCorrect == Spec => []PyOrderKept
<1>1. CoreInv => PyOrderKept
  <2> SUFFICES ASSUME CoreInv PROVE PyOrderKept
    OBVIOUS
  <2>0. PhaseInv /\ ReadyInv /\ SkipInv
    BY DEF CoreInv
  <2>1. PyDependencyOrder
    BY <2>0, DepsAreTasks DEF PyDependencyOrder, ReadyInv
  <2>2. ASSUME phase \in {"loop", "wait"}, NEW t \in Tasks
        PROVE  spans[t] = SkippedSpan <=> \E d \in Deps(t) : Bad(spans[d])
    <3>1. ~runFailed
      BY <2>0, <2>2 DEF PhaseInv
    <3>2. ASSUME spans[t] = SkippedSpan PROVE pc[t] = "idle"
      BY <3>1, <3>2, RecordedSpans, SpanFields
    <3> QED
      BY <2>0, <3>1, <3>2, SpanFields DEF SkipInv
  <2>3. PySkipsDownstream
    BY <2>2 DEF PySkipsDownstream, Bad
  <2> QED
    BY <2>1, <2>3 DEF PyOrderKept
<1> QED
  BY <1>1, PyCoreCorrect, PTL

\* run raises only for a template: a future that was cancelled between two
\* attempts raises too, but only in a drain, where nobody asks for its result.
THEOREM PyRaisesForTemplatesOnlyCorrect == Spec => []PyRaisesForTemplatesOnly
<1>1. CoreInv => PyRaisesForTemplatesOnly
  BY DEF CoreInv, RaiseInv
<1> QED
  BY <1>1, PyCoreCorrect, PTL

\* The report still says what run knows when it has returned.
ReportInv ==
    phase = "returned" => report.status = RunStatus /\ report.output \in RunOutputs

LEMMA ReportStep ==
    ASSUME PyTypes, CoreInv, ReportInv, [Next]_vars
    PROVE  ReportInv'
<1>1. ASSUME UNCHANGED mainVars PROVE ReportInv'
  BY <1>1 DEF mainVars, ReportInv, RunStatus, RunOutputs, OutputFound
<1>2. ASSUME NEW t \in Tasks, TaskStep(t) \/ SkillEnds(t) PROVE UNCHANGED mainVars
  BY <1>2, TaskMoves DEF TaskMove
<1>3. ASSUME OtherRunStarts \/ UNCHANGED vars PROVE UNCHANGED mainVars
  BY <1>3 DEF OtherRunStarts, vars
<1>4. ASSUME Return PROVE ReportInv'
  <2>1. PICK out \in RunOutputs :
          report' = [status |-> RunStatus, output |-> out,
                     tasks |-> Tasks \ Unspanned, error |-> firstError]
    BY <1>4 DEF Return
  <2>2. report'.status = RunStatus /\ report'.output \in RunOutputs
    BY <2>1
  <2>3. RunStatus' = RunStatus /\ RunOutputs' = RunOutputs
    BY <1>4 DEF Return, RunStatus, RunOutputs, OutputFound
  <2> QED
    BY <2>2, <2>3 DEF ReportInv
<1>5. ASSUME \/ Await \/ Wake \/ EndDrain
             \/ \E t \in Tasks : \/ Dispatch(t) \/ Cancel(t) \/ TakeSucceeded(t)
                                 \/ TakeContinue(t) \/ TakeFailFast(t) \/ TakeRaises(t)
      PROVE  phase' # "returned"
  BY <1>5 DEF Await, Wake, EndDrain, Dispatch, Cancel, TakeSucceeded, TakeContinue,
              TakeFailFast, TakeRaises, TakeSpan, Take
<1>6. phase' # "returned" => ReportInv'
  BY DEF ReportInv
<1> QED
  BY <1>1, <1>2, <1>3, <1>4, <1>5, <1>6 DEF Next, MainStep, Finished

\* The verdict and the output that run returns are those the spans call for, and
\* nothing that happens later makes them wrong.
THEOREM ReportCorrect == Spec => []ReportInv
<1>1. Init => ReportInv
  BY DEF Init, ReportInv
<1>2. PyTypes /\ CoreInv /\ ReportInv /\ [Next]_vars => ReportInv'
  BY ReportStep
<1> QED
  BY <1>1, <1>2, PyCoreCorrect, PTL DEF Spec

LEMMA RunIsComplete ==
    ASSUME PyTypes, CoreInv
    PROVE  PyRunIsComplete
<1>0. SpanInv /\ PhaseInv /\ running \subseteq Tasks
  BY DEF CoreInv, PyTypes
<1>1. ASSUME phase \in {"loop", "wait"}
      PROVE  running = {t \in Tasks : pc[t] # "idle" /\ spans[t] = NoSpan}
  <2>1. ASSUME NEW t \in Tasks, pc[t] # "idle", spans[t] = NoSpan PROVE t \in running
    BY <1>0, <1>1, <2>1, SpanFields DEF SpanInv, Fits, Statuses
  <2> QED
    BY <1>0, <2>1 DEF SpanInv
<1>2. ASSUME phase \in {"report", "returned"}
      PROVE  /\ Unspanned = {} /\ Live = {}
             /\ \A t \in Tasks : span[t].status = "succeeded" =>
                  spans[t].status = "succeeded" \/ runFailed
  <2>1. Unspanned = {} /\ running = {}
    BY <1>0, <1>2 DEF PhaseInv
  <2>2. Live = {}
    BY <1>0, <2>1 DEF SpanInv, Live
  <2>3. ASSUME NEW t \in Tasks, span[t].status = "succeeded"
        PROVE  spans[t].status = "succeeded" \/ runFailed
    <3>1. pc[t] = "done"
      BY <1>0, <2>2, <2>3, SpanFields DEF SpanInv, Fits, Live
    <3>2. spans[t] # NoSpan
      BY <2>1 DEF Unspanned
    <3> QED
      BY <1>0, <1>2, <2>1, <2>3, <3>1, <3>2 DEF SpanInv
  <2> QED
    BY <2>1, <2>2, <2>3
<1> QED
  BY <1>1, <1>2 DEF PyRunIsComplete

\* With no failure and nothing cancelled by its skill, a first task that did not
\* succeed would have been skipped because of one before it.
LEMMA AllSucceeded ==
    ASSUME CoreInv, Unspanned = {}, ~runFailed,
           \A t \in Tasks : spans[t].status # "failed" /\ spans[t].error # "cancelled"
    PROVE  \A t \in Tasks : spans[t].status = "succeeded"
<1> DEFINE S == {t \in Tasks : spans[t].status # "succeeded"}
<1>1. SUFFICES ASSUME S # {} PROVE FALSE
  OBVIOUS
<1>2. PICK t \in S : Deps(t) \cap S = {}
  BY <1>1, GraphAssumption DEF Acyclic
<1>3. t \in Tasks /\ spans[t] # NoSpan
  BY <1>2 DEF Unspanned
<1>4. spans[t] = SkippedSpan /\ pc[t] = "idle"
  BY <1>2, <1>3, RecordedSpans DEF Statuses
<1>5. PICK d \in Deps(t) : Bad(spans[d])
  BY <1>3, <1>4, SpanFields DEF CoreInv, SkipInv
<1>6. d \in S
  BY <1>3, <1>5, DepsAreTasks DEF Bad
<1> QED
  BY <1>2, <1>5, <1>6

LEMMA SuccessMeansComplete ==
    ASSUME PyTypes, CoreInv, ReportInv
    PROVE  PySuccessMeansComplete
<1> SUFFICES ASSUME report.status = "succeeded" PROVE
        /\ \A t \in Tasks : spans[t].status # "failed"
        /\ (\A t \in Tasks : spans[t].error # "cancelled") =>
             /\ \A t \in Tasks : spans[t].status = "succeeded"
             /\ OutputRefs # {} /\ ~LooseOutput => report.output = "resolved"
  BY DEF PySuccessMeansComplete
<1>1. phase = "returned" /\ Unspanned = {}
  BY DEF CoreInv, PhaseInv
<1>2. RunStatus = "succeeded" /\ report.output \in RunOutputs
  BY <1>1 DEF ReportInv
<1>3. ~runFailed /\ \A t \in Tasks : spans[t].status # "failed"
  BY <1>2 DEF RunStatus
<1>4. ASSUME \A t \in Tasks : spans[t].error # "cancelled"
      PROVE  /\ \A t \in Tasks : spans[t].status = "succeeded"
             /\ OutputRefs # {} /\ ~LooseOutput => report.output = "resolved"
  <2>1. \A t \in Tasks : spans[t].status = "succeeded"
    BY <1>1, <1>3, <1>4, AllSucceeded
  <2>2. OutputRefs \subseteq results
    BY <2>1, PyPolicyAssumption DEF CoreInv, ReadyInv
  <2>3. ASSUME OutputRefs # {}, ~LooseOutput PROVE report.output = "resolved"
    BY <1>2, <2>2, <2>3 DEF RunOutputs, OutputFound
  <2> QED
    BY <2>1, <2>3
<1> QED
  BY <1>3, <1>4

\* When run returns, no coroutine of it is left and every task has its span; no
\* future is lost or awaited twice on the way; and a report of success means that
\* every task succeeded, unless a skill cancelled itself.
THEOREM PyReportIsRightCorrect == Spec => []PyReportIsRight
<1>1. PyTypes /\ CoreInv /\ ReportInv => PyReportIsRight
  BY RunIsComplete, SuccessMeansComplete DEF PyReportIsRight
<1> QED
  BY <1>1, PyCoreCorrect, ReportCorrect, PTL

-----------------------------------------------------------------------------
(***************************************************************************)
(* run implements the abstract run: what its tasks go through, seen        *)
(* through PyTaskState, is what WorkflowRun allows.                        *)
(***************************************************************************)

\* Which of the conditions of PyTaskState holds of t.
LEMMA PyStateValues ==
    ASSUME CoreInv, NEW t \in Tasks
    PROVE  /\ spans[t] # NoSpan => PyTaskState[t] = spans[t].status /\ spans[t].status \in Statuses
           /\ spans[t] = NoSpan /\ pc[t] = "idle" => PyTaskState[t] = "waiting"
           /\ spans[t] = NoSpan /\ pc[t] # "idle" =>
                PyTaskState[t] = IF phase = "drain" /\ t \notin batch /\ pc[t] = "done"
                                 THEN "skipped" ELSE "running"
<1>1. spans[t] # NoSpan => spans[t].status \in Statuses
  BY RecordedSpans, SpanFields DEF Statuses
<1> QED
  BY <1>1 DEF PyTaskState

\* A step that ends t, and skips lost, is a Finish.
LEMMA PyFinish ==
    ASSUME NEW t \in Tasks, NEW lost \in SUBSET Tasks, NEW end \in Statuses,
           PyTaskState[t] = "running", PyTaskState'[t] = end, t \notin lost,
           \A u \in lost : PyTaskState[u] = "waiting" /\ PyTaskState'[u] = "skipped",
           \A u \in Tasks \ (lost \cup {t}) : PyTaskState'[u] = PyTaskState[u],
           \A u \in lost : \E d \in Deps(u) : d \in lost \cup {t},
           lost # {} => end # "succeeded",
           report'.status = report.status
    PROVE  Promise!Next
<1>1. PyTaskState' = [u \in Tasks |-> IF u = t THEN end
                                      ELSE IF u \in lost THEN "skipped" ELSE PyTaskState[u]]
  <2>1. ASSUME NEW u \in Tasks
        PROVE  PyTaskState'[u] = IF u = t THEN end
                                 ELSE IF u \in lost THEN "skipped" ELSE PyTaskState[u]
    OBVIOUS
  <2> QED
    BY <2>1 DEF PyTaskState
<1>2. lost \subseteq Promise!Waiting
  BY DEF Promise!Waiting
<1>3. ASSUME NEW u \in lost
      PROVE  \E d \in Promise!Deps(u) : PyTaskState'[d] \in {"failed", "skipped"}
  <2>1. PICK d \in Deps(u) : d \in lost \cup {t}
    OBVIOUS
  <2>2. PyTaskState'[d] \in {"failed", "skipped"}
    BY <2>1 DEF Statuses
  <2>3. d \in Promise!Deps(u)
    BY DEF Promise!Deps, Deps
  <2> QED
    BY <2>2, <2>3
<1>4. end \in Promise!Terminal
  BY DEF Promise!Terminal, Statuses
<1>5. Promise!Finish(t, end, lost)
  BY <1>1, <1>2, <1>3, <1>4 DEF Promise!Finish
<1> QED
  BY <1>4, <1>5 DEF Promise!Next

LEMMA PyFinishAlone ==
    ASSUME NEW t \in Tasks, NEW end \in Statuses,
           PyTaskState[t] = "running", PyTaskState'[t] = end,
           \A u \in Tasks \ {t} : PyTaskState'[u] = PyTaskState[u],
           report'.status = report.status
    PROVE  Promise!Next
<1>1. PICK lost \in SUBSET Tasks : lost = {}
  OBVIOUS
<1>2. /\ t \notin lost
      /\ \A u \in lost : PyTaskState[u] = "waiting" /\ PyTaskState'[u] = "skipped"
      /\ \A u \in Tasks \ (lost \cup {t}) : PyTaskState'[u] = PyTaskState[u]
      /\ \A u \in lost : \E d \in Deps(u) : d \in lost \cup {t}
      /\ lost # {} => end # "succeeded"
  BY <1>1
<1> QED
  BY <1>2, PyFinish

LEMMA PyStutter ==
    ASSUME \A u \in Tasks : PyTaskState'[u] = PyTaskState[u], report'.status = report.status
    PROVE  UNCHANGED Promise!vars
<1>1. PyTaskState' = PyTaskState
  BY DEF PyTaskState
<1> QED
  BY <1>1 DEF Promise!vars

\* A coroutine that ends in a drain ends as skipped; otherwise its steps, and the
\* cancels of futures that have not ended, are not seen.
LEMMA PromiseTask ==
    ASSUME PyTypes, CoreInv, NEW t \in Tasks, TaskStep(t) \/ SkillEnds(t)
    PROVE  Promise!Next \/ UNCHANGED Promise!vars
<1>1. PICK l, s : TaskMove(t, l, s)
  BY TaskMoves
<1>2. /\ pc[t] \notin {"idle", "done"} /\ l # "idle" /\ pc'[t] = l
      /\ \A u \in Tasks \ {t} : pc'[u] = pc[u]
      /\ phase' = phase /\ batch' = batch /\ spans' = spans /\ report' = report
      /\ phase = "drain" => batch = {}
  BY <1>1 DEF TaskMove, Working, mainVars, PyTypes, Yielded
<1>3. spans[t] = NoSpan /\ PyTaskState[t] = "running"
  <2>1. spans[t] = NoSpan
    BY <1>2 DEF CoreInv, SpanInv
  <2> QED
    BY <1>2, <2>1 DEF PyTaskState
<1>4. \A u \in Tasks \ {t} : PyTaskState'[u] = PyTaskState[u]
  BY <1>2 DEF PyTaskState
<1>5. CASE phase = "drain" /\ l = "done"
  <2>1. PyTaskState'[t] = "skipped"
    BY <1>2, <1>3, <1>5 DEF PyTaskState
  <2>2. "skipped" \in Statuses
    BY DEF Statuses
  <2> QED
    BY <1>2, <1>3, <1>4, <2>1, <2>2, PyFinishAlone
<1>6. CASE ~(phase = "drain" /\ l = "done")
  <2>1. PyTaskState'[t] = "running"
    BY <1>2, <1>3, <1>6 DEF PyTaskState
  <2> QED
    BY <1>2, <1>3, <1>4, <2>1, PyStutter
<1> QED
  BY <1>5, <1>6

LEMMA PromiseCancel ==
    ASSUME PyTypes, CoreInv, NEW t \in Tasks, Cancel(t)
    PROVE  Promise!Next \/ UNCHANGED Promise!vars
<1>1. /\ phase = "drain" /\ phase' = phase /\ t \in batch /\ batch' = batch \ {t}
      /\ pc' = pc /\ spans' = spans /\ report' = report
  BY DEF Cancel
<1>2. spans[t] = NoSpan /\ pc[t] # "idle"
  BY <1>1 DEF CoreInv, PhaseInv, SpanInv
<1>3. PyTaskState[t] = "running"
  BY <1>1, <1>2 DEF PyTaskState
<1>4. \A u \in Tasks \ {t} : PyTaskState'[u] = PyTaskState[u]
  BY <1>1 DEF PyTaskState
<1>5. CASE pc[t] = "done"
  <2>1. PyTaskState'[t] = "skipped"
    BY <1>1, <1>2, <1>5 DEF PyTaskState
  <2>2. "skipped" \in Statuses
    BY DEF Statuses
  <2> QED
    BY <1>1, <1>3, <1>4, <2>1, <2>2, PyFinishAlone
<1>6. CASE pc[t] # "done"
  <2>1. PyTaskState'[t] = "running"
    BY <1>1, <1>2, <1>6 DEF PyTaskState
  <2> QED
    BY <1>1, <1>3, <1>4, <2>1, PyStutter
<1> QED
  BY <1>5, <1>6

LEMMA PromiseDispatch ==
    ASSUME PyTypes, CoreInv, NEW t \in Tasks, Dispatch(t)
    PROVE  Promise!Next
<1>1. /\ phase = "loop" /\ phase' = phase /\ spans' = spans /\ report' = report
      /\ pc'[t] = "start" /\ \A u \in Tasks \ {t} : pc'[u] = pc[u]
  BY DEF Dispatch, Goto, PyTypes
<1>2. pc[t] = "idle" /\ spans[t] = NoSpan /\ Deps(t) \subseteq results
  BY DEF Dispatch, CoreInv, ReadyInv
<1>3. report.status = "none" /\ PyTaskState[t] = "waiting"
  BY <1>1, <1>2 DEF CoreInv, PhaseInv, PyTaskState
<1>4. ASSUME NEW d \in Promise!Deps(t) PROVE PyTaskState[d] = "succeeded"
  <2>1. d \in Tasks /\ spans[d].status = "succeeded"
    BY <1>2 DEF Promise!Deps, Deps, CoreInv, ReadyInv, PyTypes
  <2> QED
    BY <2>1, SpanFields DEF PyTaskState
<1>5. PyTaskState' = [PyTaskState EXCEPT ![t] = "running"]
  <2>1. PyTaskState'[t] = "running"
    BY <1>1, <1>2 DEF PyTaskState
  <2>2. \A u \in Tasks \ {t} : PyTaskState'[u] = PyTaskState[u]
    BY <1>1 DEF PyTaskState
  <2> QED
    BY <2>1, <2>2 DEF PyTaskState
<1>6. Promise!Start(t)
  BY <1>1, <1>3, <1>4, <1>5 DEF Promise!Start
<1> QED
  BY <1>6 DEF Promise!Next

LEMMA PromiseTake ==
    ASSUME PyTypes, CoreInv, CoreInv', NEW t \in Tasks,
           TakeSucceeded(t) \/ TakeContinue(t) \/ TakeFailFast(t)
    PROVE  Promise!Next
<1>0. /\ phase = "loop" /\ ~runFailed /\ pc[t] = "done" /\ spans[t] = NoSpan /\ running' = running \ {t}
      /\ span[t].status \in Statuses /\ span[t] # NoSpan /\ span[t] # SkippedSpan
  BY TakeLemma DEF TakeSucceeded, TakeContinue, TakeFailFast, TakeSpan
<1>1. pc' = pc /\ report' = report /\ PyTaskState[t] = "running"
  BY <1>0 DEF TakeSucceeded, TakeContinue, TakeFailFast, taskVars, PyTaskState
<1>2. CASE TakeSucceeded(t) \/ TakeFailFast(t)
  <2>1. /\ spans'[t] = span[t] /\ \A u \in Tasks \ {t} : spans'[u] = spans[u]
        /\ phase' = "drain" => batch' = running'
    BY <1>0, <1>2 DEF TakeSucceeded, TakeFailFast, PyTypes
  <2>2. PyTaskState'[t] = span[t].status
    BY <1>0, <2>1 DEF PyTaskState
  <2>3. ASSUME NEW u \in Tasks \ {t} PROVE PyTaskState'[u] = PyTaskState[u]
    <3>1. ASSUME spans[u] = NoSpan, pc[u] # "idle" PROVE u \in running'
      BY <1>0, <3>1, RunIsComplete DEF PyRunIsComplete
    <3> QED
      BY <1>0, <1>1, <2>1, <3>1 DEF PyTaskState
  <2> QED
    BY <1>0, <1>1, <2>2, <2>3, PyFinishAlone
<1>3. CASE TakeContinue(t)
  <2> DEFINE open == Unspanned \ {t}
  <2>0. open \in SUBSET Tasks
    BY DEF Unspanned
  <2>1. PICK lost : lost = Descendants(t, open)
    OBVIOUS
  <2>2. /\ lost \subseteq open /\ \A c \in lost : \E u \in lost \cup {t} : u \in Deps(c)
    <3> HIDE DEF open
    <3> QED
      BY <2>0, <2>1, DescendantsLemma
  <2>3. /\ spans'[t] = span[t]
        /\ \A u \in lost : spans[u] = NoSpan /\ spans'[u] = SkippedSpan
        /\ \A u \in Tasks \ (lost \cup {t}) : spans'[u] = spans[u]
        /\ t \notin lost /\ lost \subseteq Tasks /\ phase' = "loop"
        /\ span[t].status # "succeeded" /\ runFailed' = runFailed
    <3>1. spans' = SkipAll(lost, [spans EXCEPT ![t] = span[t]])
      BY <1>3, <2>1 DEF TakeContinue
    <3>2. t \notin lost /\ \A u \in lost : spans[u] = NoSpan /\ u \in Tasks
      BY <2>2 DEF Unspanned
    <3> QED
      BY <1>0, <1>3, <3>1, <3>2 DEF SkipAll, PyTypes, TakeContinue
  <2>4. PyTaskState'[t] = span[t].status
    BY <1>0, <2>3 DEF PyTaskState
  <2>5. ASSUME NEW u \in lost PROVE PyTaskState[u] = "waiting" /\ PyTaskState'[u] = "skipped"
    <3>1. u \in Tasks /\ spans[u] = NoSpan /\ spans'[u] = SkippedSpan
      BY <2>3
    <3>2. pc[u] = "idle"
      <4>1. CASE pc'[u] = "idle"
        BY <1>1, <4>1
      <4>2. CASE pc'[u] # "idle"
        <5>1. spans'[u] = span'[u] /\ span'[u].status = "skipped" /\ span'[u].error = "cancelled"
          BY <1>0, <2>3, <3>1, <4>2, SpanFields DEF CoreInv, SpanInv, Fits
        <5> QED
          BY <3>1, <5>1, SpanFields
      <4> QED
        BY <4>1, <4>2
    <3> QED
      BY <3>1, <3>2, SpanFields DEF PyTaskState
  <2>6. \A u \in Tasks \ (lost \cup {t}) : PyTaskState'[u] = PyTaskState[u]
    BY <1>0, <1>1, <2>3 DEF PyTaskState
  <2> QED
    BY <1>0, <1>1, <2>2, <2>3, <2>4, <2>5, <2>6, PyFinish
<1> QED
  BY <1>2, <1>3

LEMMA PromiseEndDrain ==
    ASSUME CoreInv, EndDrain
    PROVE  Promise!Next
<1>1. /\ phase = "drain" /\ batch = {} /\ running \subseteq Ended /\ report' = report /\ pc' = pc
      /\ \A u \in Tasks : spans'[u] = IF spans[u] = NoSpan THEN SkippedSpan ELSE spans[u]
  BY DEF EndDrain, taskVars, SkipAll, Unspanned
<1>2. \A u \in Tasks : pc[u] \in {"idle", "done"}
  BY <1>1 DEF CoreInv, SpanInv, Ended
<1>3. \A u \in Tasks : PyTaskState[u] # "running"
  BY <1>1, <1>2, PyStateValues DEF Statuses
<1>4. report.status = "none" /\ runFailed
  BY <1>1 DEF CoreInv, PhaseInv
<1>5. \E u \in Tasks : PyTaskState[u] \in {"failed", "skipped"}
  <2>1. PICK u \in Tasks : Bad(spans[u])
    BY <1>4 DEF CoreInv, PhaseInv
  <2>2. PyTaskState[u] = spans[u].status
    BY <2>1, PyStateValues, SpanFields
  <2> QED
    BY <2>1, <2>2 DEF Bad
<1>6. ASSUME NEW u \in Tasks
      PROVE  PyTaskState'[u] = IF PyTaskState[u] = "waiting" THEN "skipped" ELSE PyTaskState[u]
  <2>1. CASE spans[u] = NoSpan
    <3>1. PyTaskState[u] \in {"waiting", "skipped"}
      BY <1>1, <1>2, <2>1, PyStateValues
    <3>2. PyTaskState'[u] = "skipped"
      BY <1>1, <2>1, SpanFields DEF PyTaskState
    <3> QED
      BY <3>1, <3>2
  <2>2. CASE spans[u] # NoSpan
    <3>1. PyTaskState[u] = spans[u].status /\ spans[u].status \in Statuses
      BY <2>2, PyStateValues
    <3>2. PyTaskState'[u] = spans[u].status
      BY <1>1, <2>2 DEF PyTaskState
    <3> QED
      BY <3>1, <3>2 DEF Statuses
  <2> QED
    BY <2>1, <2>2
<1>7. PyTaskState' = [u \in Tasks |-> IF PyTaskState[u] = "waiting" THEN "skipped" ELSE PyTaskState[u]]
  BY <1>6 DEF PyTaskState
<1>8. Promise!Abort
  BY <1>1, <1>3, <1>4, <1>5, <1>7 DEF Promise!Abort, Promise!Running
<1> QED
  BY <1>8 DEF Promise!Next

LEMMA PromiseReturn ==
    ASSUME CoreInv, Return
    PROVE  Promise!Next
<1>1. /\ phase = "report" /\ report'.status = RunStatus /\ phase' = "returned"
      /\ spans' = spans /\ pc' = pc
  BY DEF Return, taskVars
<1>2. report.status = "none" /\ Unspanned = {}
  BY <1>1 DEF CoreInv, PhaseInv
<1>3. \A u \in Tasks : PyTaskState[u] \in Statuses /\ PyTaskState[u] = spans[u].status
  BY <1>2, PyStateValues DEF Unspanned
<1>4. RunStatus = "succeeded" => \A u \in Tasks : PyTaskState[u] # "failed"
  BY <1>3 DEF RunStatus
<1>5. RunStatus = "failed" => \E u \in Tasks : PyTaskState[u] # "succeeded"
  <2>1. RunStatus = "failed" => \E u \in Tasks : Bad(spans[u])
    BY DEF RunStatus, CoreInv, PhaseInv, Bad
  <2> QED
    BY <1>3, <2>1 DEF Bad
<1>6. PyTaskState' = PyTaskState
  BY <1>1 DEF PyTaskState
<1>7. Promise!Conclude(RunStatus)
  BY <1>1, <1>2, <1>3, <1>4, <1>5, <1>6 DEF Promise!Conclude, Promise!Terminal, Statuses
<1> QED
  BY <1>7 DEF Promise!Next, RunStatus, Promise!Verdicts

LEMMA PyPromiseStep ==
    ASSUME PyTypes, CoreInv, CoreInv', [Next]_vars
    PROVE  [Promise!Next]_Promise!vars
<1>1. ASSUME \/ Await \/ Wake \/ OtherRunStarts \/ UNCHANGED vars
             \/ \E t \in Tasks : TakeRaises(t)
      PROVE  UNCHANGED Promise!vars
  <2>1. /\ pc' = pc /\ spans' = spans /\ report' = report
        /\ \/ phase' = phase /\ batch' = batch
           \/ phase # "drain" /\ phase' # "drain"
    BY <1>1 DEF Await, Wake, OtherRunStarts, vars, mainVars, taskVars, TakeRaises, Take
  <2>2. \A u \in Tasks : PyTaskState'[u] = PyTaskState[u]
    BY <2>1 DEF PyTaskState
  <2> QED
    BY <2>1, <2>2, PyStutter
<1> QED
  BY <1>1, PromiseTask, PromiseCancel, PromiseDispatch, PromiseTake, PromiseEndDrain,
     PromiseReturn DEF Next, MainStep, Finished

\* Every run of the Python engine is a run that WorkflowRun promises, the same
\* promise the Go scheduler keeps: the order in which tasks start and end, which
\* ones may be skipped, and when the verdict is given.
THEOREM PyKeepsPromiseCorrect == Spec => PyKeepsPromise
<1>1. Init => Promise!Init
  BY DEF Init, Promise!Init, PyTaskState, NoReport
<1>2. PyTypes /\ CoreInv /\ CoreInv' /\ [Next]_vars => [Promise!Next]_Promise!vars
  BY PyPromiseStep
<1> QED
  BY <1>1, <1>2, PyCoreCorrect, PTL DEF Spec, PyKeepsPromise, Promise!Spec
==============================================================================
