---------------------------- MODULE SkillRunProofs ----------------------------
(***************************************************************************)
(* Proofs about the attempts of skills and about the adapters, for any     *)
(* tasks, retries, timeouts, number of threads and permits.                *)
(***************************************************************************)
EXTENDS SkillRunProps, TLAPS, FiniteSetTheorems

Calls == {t \in Tasks : pc[t] = "invoke"}

Usages == [tokens : Nat, tools : Nat]

\* SkillTypeOK, with the domains of the functions of attempts, and without the
\* bounds of the semaphore, which its accounting shows.
Types ==
    /\ provider \in Providers /\ skills \in Registries
    /\ pc \in [Tasks -> {"slot", "invoke", "backoff", "done"}]
    /\ attempt \in [Tasks -> Int]
    /\ body = [t \in Tasks |-> body[t]] /\ ctx = [t \in Tasks |-> ctx[t]]
    /\ \A t \in Tasks :
         /\ attempt[t] \in Attempts(t)
         /\ body[t] \in [Attempts(t) -> Bodies]
         /\ ctx[t] \in [Attempts(t) -> Usages]
    /\ span \in [Tasks -> [status : {"succeeded", "failed", "skipped"},
                           tokens : Nat, tools : Nat]]
    /\ sem \in Int
    /\ taken \subseteq Tasks
    /\ totals \in Usages
    /\ phase \in {"loop", "drain", "reported", "returned"}
    /\ billed \in Nat

SlotInv == sem = Cardinality(Calls) /\ sem <= Slots

\* What is live and not awaited is on a thread that was given up.
LiveInv == \A t \in Tasks : \A n \in Attempts(t) :
    Live(t, n) /\ ~Awaited(t, n) => OnThread(t, n) /\ (t \in Timed \/ phase # "loop")

\* A coroutine is between two attempts only if it has one left; a span is taken
\* once its future has ended; run reports when all have; and a future that ended
\* well had a skill that did.
EndInv ==
    /\ \A t \in Tasks : pc[t] = "backoff" => attempt[t] <= RetryMax[t]
    /\ \A t \in taken : pc[t] = "done"
    /\ phase \in {"reported", "returned"} => \A t \in Tasks : pc[t] = "done"
    /\ NothingRunsOn
    /\ \A t \in Tasks : span[t].status = "succeeded" =>
         pc[t] = "done" /\ body[t][attempt[t]].at = "ok"

SInv == Types /\ SlotInv /\ LiveInv /\ EndInv /\ SpanHasUsage

-----------------------------------------------------------------------------
(* Values *)

LEMMA AttemptValues ==
    \A t \in Tasks : /\ RetryMax[t] \in Nat /\ 1 \in Attempts(t)
                     /\ \A n \in Attempts(t) : n \in Int /\ (n <= RetryMax[t] => n + 1 \in Attempts(t))
BY SkillAssumption DEF Attempts

LEMMA BodyValues ==
    /\ \A l \in {"none", "queued", "running", "ok", "error"} :
         BodyAt(l) \in Bodies /\ BodyAt(l).at = l /\ BodyAt(l).tokens = 0
    /\ \A n \in Sizes :
         Calling(n) \in Bodies /\ Calling(n).at = "call" /\ Calling(n).tokens = n
    /\ \A b \in Bodies : /\ b.tokens \in Nat /\ (b.at # "call" => b.tokens = 0)
                         /\ b.at \in {"none", "queued", "running", "call", "ok", "error"}
<1>1. \A n \in Sizes : n \in Nat
  BY SkillAssumption
<1>2. \A l \in {"none", "queued", "running", "ok", "error"} :
        BodyAt(l) \in Bodies /\ BodyAt(l).at = l /\ BodyAt(l).tokens = 0
  BY DEF Bodies, BodyAt
<1>3. \A n \in Sizes :
        Calling(n) \in Bodies /\ Calling(n).at = "call" /\ Calling(n).tokens = n
  BY <1>1 DEF Bodies, Calling
<1>4. ASSUME NEW b \in Bodies
      PROVE  \/ \E l \in {"none", "queued", "running", "ok", "error"} : b = BodyAt(l)
             \/ \E n \in Sizes : b = Calling(n)
  BY DEF Bodies
<1> QED
  BY <1>1, <1>2, <1>3, <1>4

LEMMA TaskSubsets ==
    ASSUME NEW S \in SUBSET Tasks
    PROVE  /\ Cardinality(S) \in Nat
           /\ \A t \in Tasks \ S : Cardinality(S \cup {t}) = Cardinality(S) + 1
           /\ \A t \in S : Cardinality(S \ {t}) = Cardinality(S) - 1
<1>1. IsFiniteSet(S)
  BY SkillAssumption, FS_Subset
<1> QED
  BY <1>1, FS_CardinalityType, FS_AddElement, FS_RemoveElement

-----------------------------------------------------------------------------
(* The adapters *)

\* What a call of the LLM counts, for the service and for the context.
LEMMA LlmCounts ==
    ASSUME provider \in Installed, NEW answer \in Answers(Sizes)
    PROVE  /\ answer.tokens \in Sizes /\ Reported(provider, answer) \in Sizes
           /\ provider \in Metered => Reported(provider, answer) = answer.tokens
<1>1. provider \in Adapters
  BY SkillAssumption
<1>2. answer.tokens \in Sizes /\ answer.words \in Sizes
  BY DEF Answers
<1>3. Reported(provider, answer) =
        IF provider \in Metered THEN answer.tokens ELSE answer.words
  BY <1>1 DEF Reported, Adapters, Metered, MockTokens, AnthropicTokens, OpenAITokens,
              GeminiTokens, XAITokens, HuggingFaceTokens, AzureTokens
<1> QED
  BY <1>2, <1>3

-----------------------------------------------------------------------------
(* What a step changes *)

LEMMA SetBodyLemma ==
    ASSUME Types, NEW t \in Tasks, NEW n \in Attempts(t), NEW b \in Bodies, SetBody(t, n, b)
    PROVE  /\ body' = [u \in Tasks |-> body'[u]]
           /\ \A u \in Tasks : body'[u] \in [Attempts(u) -> Bodies]
           /\ body'[t][n] = b
           /\ \A u \in Tasks : \A k \in Attempts(u) : u # t \/ k # n => body'[u][k] = body[u][k]
<1>1. /\ body' = [body EXCEPT ![t] = [body[t] EXCEPT ![n] = b]]
      /\ body = [u \in Tasks |-> body[u]]
      /\ \A u \in Tasks : body[u] \in [Attempts(u) -> Bodies]
  BY DEF SetBody, Types
<1>2. body'[t] = [body[t] EXCEPT ![n] = b] /\ \A u \in Tasks \ {t} : body'[u] = body[u]
  BY <1>1
<1>3. body' = [u \in Tasks |-> body'[u]]
  BY <1>1
<1>4. body'[t] \in [Attempts(t) -> Bodies] /\ body'[t][n] = b
  BY <1>1, <1>2
<1>5. \A k \in Attempts(t) : k # n => body'[t][k] = body[t][k]
  BY <1>1, <1>2
<1> QED
  BY <1>1, <1>2, <1>3, <1>4, <1>5

SetCtx(t, n, c) == ctx' = [ctx EXCEPT ![t] = [ctx[t] EXCEPT ![n] = c]]

LEMMA SetCtxLemma ==
    ASSUME Types, NEW t \in Tasks, NEW n \in Attempts(t), NEW c \in Usages, SetCtx(t, n, c)
    PROVE  /\ ctx' = [u \in Tasks |-> ctx'[u]]
           /\ \A u \in Tasks : ctx'[u] \in [Attempts(u) -> Usages]
           /\ ctx'[t][n] = c
           /\ \A u \in Tasks : \A k \in Attempts(u) : u # t \/ k # n => ctx'[u][k] = ctx[u][k]
<1>1. /\ ctx' = [ctx EXCEPT ![t] = [ctx[t] EXCEPT ![n] = c]]
      /\ ctx = [u \in Tasks |-> ctx[u]]
      /\ \A u \in Tasks : ctx[u] \in [Attempts(u) -> Usages]
  BY DEF SetCtx, Types
<1>2. ctx'[t] = [ctx[t] EXCEPT ![n] = c] /\ \A u \in Tasks \ {t} : ctx'[u] = ctx[u]
  BY <1>1
<1>3. ctx' = [u \in Tasks |-> ctx'[u]]
  BY <1>1
<1>4. ctx'[t] \in [Attempts(t) -> Usages] /\ ctx'[t][n] = c
  BY <1>1, <1>2
<1>5. \A k \in Attempts(t) : k # n => ctx'[t][k] = ctx[t][k]
  BY <1>1, <1>2
<1> QED
  BY <1>1, <1>2, <1>3, <1>4, <1>5

\* Leaving a body or a context as it is.
LEMMA KeepLemma ==
    ASSUME Types, NEW t \in Tasks, NEW n \in Attempts(t)
    PROVE  /\ body[t][n] \in Bodies /\ ctx[t][n] \in Usages
           /\ UNCHANGED body => SetBody(t, n, body[t][n])
           /\ UNCHANGED ctx => SetCtx(t, n, ctx[t][n])
<1>1. /\ body = [u \in Tasks |-> body[u]] /\ body[t] \in [Attempts(t) -> Bodies]
      /\ ctx = [u \in Tasks |-> ctx[u]] /\ ctx[t] \in [Attempts(t) -> Usages]
  BY DEF Types
<1>2. body[t] = [body[t] EXCEPT ![n] = body[t][n]] /\ ctx[t] = [ctx[t] EXCEPT ![n] = ctx[t][n]]
  BY <1>1
<1>3. body = [body EXCEPT ![t] = [body[t] EXCEPT ![n] = body[t][n]]]
  BY <1>1, <1>2
<1>4. ctx = [ctx EXCEPT ![t] = [ctx[t] EXCEPT ![n] = ctx[t][n]]]
  BY <1>1, <1>2
<1> QED
  BY <1>1, <1>3, <1>4 DEF SetBody, SetCtx

\* The context c and the body b of an attempt have, or will have, counted d more
\* tokens than before, as the service has.
Adds(t, n, b, c, d) ==
    /\ c.tokens + b.tokens = ctx[t][n].tokens + body[t][n].tokens + d
    /\ ctx[t][n].tokens <= c.tokens
    /\ t \in Async /\ body[t][n].at # "call" => b.at # "call"
    /\ provider \in Metered => billed' = billed + d

\* The steps of a skill: it was live, is not queued any more, and may have
\* counted something.
LEMMA BodyMoves ==
    ASSUME Types, NEW t \in Tasks, NEW n \in Attempts(t), StartBody(t, n) \/ BodyStep(t, n)
    PROVE  /\ Live(t, n) /\ BodyUnchanged /\ billed' \in Nat
           /\ \E b \in Bodies, c \in Usages, d \in Nat :
                /\ b.at \in {"running", "call", "ok", "error"}
                /\ SetBody(t, n, b) /\ SetCtx(t, n, c) /\ Adds(t, n, b, c, d)
<1> DEFINE Moves == /\ Live(t, n) /\ BodyUnchanged /\ billed' \in Nat
                    /\ \E b \in Bodies, c \in Usages, d \in Nat :
                         /\ b.at \in {"running", "call", "ok", "error"}
                         /\ SetBody(t, n, b) /\ SetCtx(t, n, c) /\ Adds(t, n, b, c, d)
<1>0. /\ body[t][n] \in Bodies /\ ctx[t][n] \in Usages /\ billed \in Nat
      /\ UNCHANGED body => SetBody(t, n, body[t][n])
      /\ UNCHANGED ctx => SetCtx(t, n, ctx[t][n])
  BY KeepLemma DEF Types
<1>a. /\ ctx[t][n].tokens \in Nat /\ body[t][n].tokens \in Nat
      /\ body[t][n].at # "call" => body[t][n].tokens = 0
  BY <1>0, BodyValues DEF Usages
<1>b. \A k \in Sizes : k \in Nat
  BY SkillAssumption
<1>c. ASSUME NEW k \in Nat
      PROVE  /\ AddUsage(ctx[t][n], k) \in Usages
             /\ AddUsage(ctx[t][n], k).tokens = ctx[t][n].tokens + k
  BY <1>0 DEF Usages, AddUsage
\* Nothing is counted.
<1>d. ASSUME NEW b \in Bodies, NEW c \in Usages, Live(t, n), BodyUnchanged, UNCHANGED billed,
             b.at \in {"running", "ok", "error"}, SetBody(t, n, b), SetCtx(t, n, c),
             c.tokens = ctx[t][n].tokens + body[t][n].tokens
      PROVE  Moves
  <2>1. b.tokens = 0 /\ b.at # "call" /\ c.tokens \in Nat
    BY <1>d, BodyValues DEF Usages
  <2>2. Adds(t, n, b, c, 0)
    BY <1>0, <1>a, <1>d, <2>1 DEF Adds
  <2> QED
    BY <1>0, <1>d, <2>2
<1>1. CASE StartBody(t, n)
  <2>1. body[t][n].at = "queued" /\ UNCHANGED <<ctx, billed>> /\ BodyUnchanged
        /\ SetBody(t, n, BodyAt("running"))
    BY <1>1 DEF StartBody
  <2>2. BodyAt("running") \in Bodies /\ BodyAt("running").at = "running"
    BY BodyValues
  <2> QED
    BY <1>0, <1>a, <1>d, <2>1, <2>2 DEF Live
<1>2. CASE CallTool(t, n)
  <2> DEFINE c == [ctx[t][n] EXCEPT !.tools = ctx[t][n].tools + 1]
  <2>1. SetCtx(t, n, c)
    BY <1>2 DEF CallTool, SetCtx
  <2>2. body[t][n].at = "running" /\ UNCHANGED <<body, billed>> /\ BodyUnchanged
    BY <1>2 DEF CallTool, MayUse, Running
  <2>3. c \in Usages /\ c.tokens = ctx[t][n].tokens
    BY <1>0 DEF Usages
  <2> HIDE DEF c
  <2> QED
    BY <1>0, <1>a, <1>d, <2>1, <2>2, <2>3 DEF Live
<1>3. CASE CallLlm(t, n)
  <2>1. /\ body[t][n].at = "running" /\ provider \in Installed /\ BodyUnchanged
    BY <1>3 DEF CallLlm, MayUse, Running
  <2>2. PICK answer \in Answers(Sizes) :
          /\ billed' = billed + answer.tokens
          /\ IF t \in Async
             THEN /\ ctx' = [ctx EXCEPT ![t][n] = AddUsage(@, Reported(provider, answer))]
                  /\ UNCHANGED body
             ELSE /\ SetBody(t, n, Calling(Reported(provider, answer)))
                  /\ UNCHANGED ctx
    BY <1>3 DEF CallLlm
  <2> DEFINE d == Reported(provider, answer)
  <2>3. /\ answer.tokens \in Nat /\ d \in Nat /\ d \in Sizes
        /\ provider \in Metered => d = answer.tokens
    BY <1>b, <2>1, LlmCounts
  <2>4. billed' \in Nat /\ (provider \in Metered => billed' = billed + d)
    BY <1>0, <2>2, <2>3
  <2>5. CASE t \in Async
    <3>1. SetCtx(t, n, AddUsage(ctx[t][n], d)) /\ UNCHANGED body
      BY <2>2, <2>5 DEF SetCtx
    <3>2. AddUsage(ctx[t][n], d) \in Usages
          /\ AddUsage(ctx[t][n], d).tokens = ctx[t][n].tokens + d
      BY <1>c, <2>3
    <3>3. Adds(t, n, body[t][n], AddUsage(ctx[t][n], d), d)
      BY <1>a, <2>3, <2>4, <3>2 DEF Adds
    <3> QED
      BY <1>0, <2>1, <2>3, <2>4, <3>1, <3>2, <3>3 DEF Live
  <2>6. CASE t \notin Async
    <3>1. SetBody(t, n, Calling(d)) /\ UNCHANGED ctx
      BY <2>2, <2>6
    <3>2. Calling(d) \in Bodies /\ Calling(d).at = "call" /\ Calling(d).tokens = d
      BY <2>3, BodyValues
    <3>3. Adds(t, n, Calling(d), ctx[t][n], d)
      BY <1>a, <2>1, <2>3, <2>4, <2>6, <3>2 DEF Adds
    <3> QED
      BY <1>0, <2>1, <2>3, <2>4, <3>1, <3>2, <3>3 DEF Live
  <2> QED
    BY <2>5, <2>6
<1>4. CASE LlmReturns(t, n)
  <2>1. /\ body[t][n].at = "call" /\ SetBody(t, n, BodyAt("running")) /\ UNCHANGED billed
        /\ BodyUnchanged /\ SetCtx(t, n, AddUsage(ctx[t][n], body[t][n].tokens))
    BY <1>4 DEF LlmReturns, SetCtx
  <2>2. /\ AddUsage(ctx[t][n], body[t][n].tokens) \in Usages
        /\ AddUsage(ctx[t][n], body[t][n].tokens).tokens = ctx[t][n].tokens + body[t][n].tokens
    BY <1>a, <1>c
  <2>3. BodyAt("running") \in Bodies /\ BodyAt("running").at = "running"
    BY BodyValues
  <2> QED
    BY <1>d, <2>1, <2>2, <2>3 DEF Live
<1>5. CASE BodyEnds(t, n)
  <2>1. PICK how \in {"ok", "error"} : SetBody(t, n, BodyAt(how))
    BY <1>5 DEF BodyEnds
  <2>2. BodyAt(how) \in Bodies /\ BodyAt(how).at = how
    BY BodyValues
  <2>3. body[t][n].at = "running" /\ UNCHANGED <<ctx, billed>> /\ BodyUnchanged
    BY <1>5 DEF BodyEnds, Running
  <2> QED
    BY <1>0, <1>a, <1>d, <2>1, <2>2, <2>3 DEF Live
<1> QED
  BY <1>1, <1>2, <1>3, <1>4, <1>5 DEF BodyStep

Spans == [status : {"succeeded", "failed", "skipped"}, tokens : Nat, tools : Nat]

\* The body b that a coroutine leaves is in a call of the LLM only if it was.
KeepsCall(t, b) ==
    LET now == body[t][attempt[t]]
    IN  (pc[t] = "slot" => now.tokens = 0) /\ (t \in Async => now.at # "call") =>
            b.tokens = now.tokens /\ (b.at = "call" => now.at = "call")

\* t's coroutine goes to l, leaves the body b of its attempt and the span sp.
TaskMove(t, l, b, sp) ==
    /\ phase \in {"loop", "drain"} /\ pc[t] # "done" /\ LoopUnchanged
    /\ pc' = [pc EXCEPT ![t] = l] /\ l \in {"slot", "invoke", "backoff", "done"}
    /\ b \in Bodies /\ SetBody(t, attempt[t], b) /\ KeepsCall(t, b)
    /\ sp \in Spans /\ span' = [span EXCEPT ![t] = sp]
    /\ \/ attempt' = attempt /\ l # "slot"
       \/ /\ attempt' = [attempt EXCEPT ![t] = attempt[t] + 1]
          /\ pc[t] = "backoff" /\ l = "slot" /\ sp = span[t]
    /\ l = "backoff" => attempt[t] <= RetryMax[t]
    /\ l = "done" /\ phase = "loop" => sp.tokens = ctx[t][attempt[t]].tokens
    /\ sp.status = "succeeded" =>
         \/ sp = span[t]
         \/ attempt' = attempt /\ l = "done" /\ b.at = "ok" /\ sp = Usage(t, "succeeded")
    /\ \/ l = "invoke" /\ pc[t] = "slot"
       \/ pc[t] # "invoke" /\ b = body[t][attempt[t]]
       \/ pc[t] = "invoke" /\ (b.at \in {"queued", "running", "call"} =>
            b.at # "queued" /\ t \notin Async /\ (t \in Timed \/ phase # "loop"))
    /\ \/ l = "invoke" /\ pc[t] # "invoke" /\ sem < Slots /\ sem' = sem + 1
       \/ l # "invoke" /\ pc[t] = "invoke" /\ sem' = sem - 1
       \/ l # "invoke" /\ pc[t] # "invoke" /\ sem' = sem

LEMMA TaskMoves ==
    ASSUME SInv, NEW t \in Tasks, TaskStep(t) \/ TimeOut(t)
    PROVE  \E l, b, sp : TaskMove(t, l, b, sp)
<1>0. /\ Types /\ EndInv /\ attempt[t] \in Attempts(t) /\ attempt[t] \in Int /\ RetryMax[t] \in Nat
      /\ body[t][attempt[t]] \in Bodies /\ ctx[t][attempt[t]] \in Usages /\ span[t] \in Spans
      /\ UNCHANGED body => SetBody(t, attempt[t], body[t][attempt[t]])
  BY KeepLemma, AttemptValues DEF SInv, Types, Spans
<1>1. span = [span EXCEPT ![t] = span[t]]
  BY <1>0 DEF Types
<1>2. \A st \in {"succeeded", "failed"} : Usage(t, st) \in Spans /\ Usage(t, st).status = st
  BY <1>0 DEF Usage, Spans, Usages
<1>a. \A st : Usage(t, st).tokens = ctx[t][attempt[t]].tokens
  BY DEF Usage
<1>b. KeepsCall(t, body[t][attempt[t]])
  BY DEF KeepsCall
<1>c. KeepsCall(t, LetGo(t, body[t][attempt[t]]))
  BY <1>0, BodyValues DEF KeepsCall, LetGo
<1>3. LetGo(t, body[t][attempt[t]]) \in Bodies
      /\ (LetGo(t, body[t][attempt[t]]).at \in {"queued", "running", "call"} =>
            LetGo(t, body[t][attempt[t]]).at # "queued" /\ t \notin Async)
  BY <1>0, BodyValues DEF LetGo
\* The end of an attempt.
<1>4. ASSUME pc[t] = "invoke", phase = "loop", NEW ok \in BOOLEAN, EndAttempt(t, ok),
             UNCHANGED attempt, LoopUnchanged,
             NEW b \in Bodies, SetBody(t, attempt[t], b), KeepsCall(t, b), ok => b.at = "ok",
             b.at \in {"queued", "running", "call"} =>
               b.at # "queued" /\ t \notin Async /\ t \in Timed
      PROVE  \E l, c, sp : TaskMove(t, l, c, sp)
  <2>1. PICK st \in {"succeeded", "failed"} : st = IF ok THEN "succeeded" ELSE "failed"
    OBVIOUS
  <2>2. PICK l \in {"backoff", "done"} :
          l = IF ~ok /\ attempt[t] <= RetryMax[t] THEN "backoff" ELSE "done"
    OBVIOUS
  <2>3. /\ pc' = [pc EXCEPT ![t] = l] /\ span' = [span EXCEPT ![t] = Usage(t, st)]
        /\ sem' = sem - 1
    BY <1>4, <2>1, <2>2 DEF EndAttempt, Goto
  <2>4. st = "succeeded" => ok
    BY <2>1
  <2>5. l = "backoff" => ~ok /\ attempt[t] <= RetryMax[t]
    BY <2>2
  <2>6. TaskMove(t, l, b, Usage(t, st))
    BY <1>2, <1>4, <1>a, <2>3, <2>4, <2>5 DEF TaskMove
  <2> QED
    BY <2>6
<1>5. CASE Invoke(t)
  <2>1. PICK l \in {"error", "running", "queued"} : SetBody(t, attempt[t], BodyAt(l))
    BY <1>5 DEF Invoke
  <2> DEFINE b == BodyAt(l)
  <2>3. b \in Bodies /\ b.tokens = 0 /\ b.at # "call"
    BY BodyValues
  <2>4. KeepsCall(t, b)
    BY <1>0, <1>5, <2>3, BodyValues DEF KeepsCall, Invoke, MayStep
  <2> HIDE DEF b
  <2>2. TaskMove(t, "invoke", b, span[t])
    BY <1>0, <1>1, <1>5, <2>1, <2>3, <2>4 DEF b, Invoke, MayStep, Goto, TaskMove
  <2> QED
    BY <2>2
<1>6. CASE Resume(t)
  <2>1. PICK ok \in BOOLEAN : ok <=> body[t][attempt[t]].at = "ok"
    OBVIOUS
  <2>2. EndAttempt(t, body[t][attempt[t]].at = "ok")
    BY <1>6 DEF Resume
  <2>3. EndAttempt(t, ok)
    BY <2>1, <2>2 DEF EndAttempt
  <2> QED
    BY <1>0, <1>4, <1>6, <1>b, <2>1, <2>3 DEF Resume, MayStep
<1>7. CASE TimeOut(t)
  <2>1. /\ pc[t] = "invoke" /\ phase = "loop" /\ t \in Timed /\ EndAttempt(t, FALSE)
        /\ SetBody(t, attempt[t], LetGo(t, body[t][attempt[t]]))
        /\ UNCHANGED attempt /\ LoopUnchanged
    BY <1>7 DEF TimeOut, MayStep
  <2> QED
    BY <1>3, <1>4, <1>c, <2>1
<1>8. CASE EndBackoff(t)
  <2>1. /\ pc[t] = "backoff" /\ phase = "loop" /\ Goto(t, "slot")
        /\ attempt' = [attempt EXCEPT ![t] = attempt[t] + 1]
        /\ UNCHANGED <<body, span, sem>> /\ LoopUnchanged
    BY <1>8 DEF EndBackoff, MayStep
  <2>2. TaskMove(t, "slot", body[t][attempt[t]], span[t])
    BY <1>0, <1>1, <1>b, <2>1 DEF TaskMove, Goto
  <2> QED
    BY <2>2
<1>9. CASE ThrowCancelled(t)
  <2> DEFINE sp == [span[t] EXCEPT !.status = "skipped"]
  <2>1. /\ phase = "drain" /\ pc[t] # "done" /\ Goto(t, "done")
        /\ span' = [span EXCEPT ![t] = sp]
        /\ sem' = IF pc[t] = "invoke" THEN sem - 1 ELSE sem
        /\ UNCHANGED attempt /\ LoopUnchanged
    BY <1>9 DEF ThrowCancelled
  <2>2. sp \in Spans /\ sp.status = "skipped"
    BY <1>0 DEF Spans
  <2> HIDE DEF sp
  <2>3. CASE pc[t] = "invoke"
    <3>1. SetBody(t, attempt[t], LetGo(t, body[t][attempt[t]]))
      BY <1>9, <2>3 DEF ThrowCancelled, SetBody
    <3>2. TaskMove(t, "done", LetGo(t, body[t][attempt[t]]), sp)
      BY <1>3, <1>c, <2>1, <2>2, <2>3, <3>1 DEF TaskMove, Goto
    <3> QED
      BY <3>2
  <2>4. CASE pc[t] # "invoke"
    <3>1. UNCHANGED body
      BY <1>9, <2>4 DEF ThrowCancelled
    <3>2. TaskMove(t, "done", body[t][attempt[t]], sp)
      BY <1>0, <1>b, <2>1, <2>2, <2>4, <3>1 DEF TaskMove, Goto
    <3> QED
      BY <3>2
  <2> QED
    BY <2>3, <2>4
<1> QED
  BY <1>5, <1>6, <1>7, <1>8, <1>9 DEF TaskStep

-----------------------------------------------------------------------------
(* The invariant is inductive *)

LEMMA SkillInit == Init => SInv
<1> SUFFICES ASSUME Init PROVE SInv
  OBVIOUS
<1>1. \A t \in Tasks : /\ body[t] = [n \in Attempts(t) |-> BodyAt("none")]
                       /\ ctx[t] = [n \in Attempts(t) |-> NoUsage]
                       /\ attempt[t] = 1 /\ pc[t] = "slot" /\ span[t].status = "failed"
  BY DEF Init
<1>2. BodyAt("none") \in Bodies /\ BodyAt("none").at = "none" /\ NoUsage \in Usages
  BY BodyValues DEF NoUsage, Usages
<1>3. Types
  <2>1. /\ body = [t \in Tasks |-> body[t]] /\ ctx = [t \in Tasks |-> ctx[t]]
    BY DEF Init
  <2>2. \A t \in Tasks : /\ attempt[t] \in Attempts(t)
                         /\ body[t] \in [Attempts(t) -> Bodies]
                         /\ ctx[t] \in [Attempts(t) -> Usages]
    <3> SUFFICES ASSUME NEW t \in Tasks
                 PROVE  /\ attempt[t] \in Attempts(t)
                        /\ body[t] \in [Attempts(t) -> Bodies]
                        /\ ctx[t] \in [Attempts(t) -> Usages]
      OBVIOUS
    <3>1. attempt[t] \in Attempts(t)
      BY <1>1, AttemptValues
    <3>2. body[t] \in [Attempts(t) -> Bodies]
      <4>1. [n \in Attempts(t) |-> BodyAt("none")] \in [Attempts(t) -> Bodies]
        BY <1>2, Zenon
      <4> QED
        BY <1>1, <4>1, Zenon
    <3>3. ctx[t] \in [Attempts(t) -> Usages]
      <4>1. [n \in Attempts(t) |-> NoUsage] \in [Attempts(t) -> Usages]
        BY <1>2, Zenon
      <4> QED
        BY <1>1, <4>1, Zenon
    <3> QED
      BY <3>1, <3>2, <3>3
  <2>3. span \in [Tasks -> [status : {"succeeded", "failed", "skipped"},
                            tokens : Nat, tools : Nat]]
    BY DEF Init
  <2>4. totals \in Usages
    BY DEF Init, Usages
  <2> QED
    BY <2>1, <2>2, <2>3, <2>4 DEF Init, Types
<1>4. SlotInv
  <2>1. Calls = {}
    BY <1>1 DEF Calls
  <2>2. Cardinality({}) = 0
    BY FS_EmptySet
  <2> QED
    BY <2>1, <2>2, SkillAssumption DEF Init, SlotInv
<1>5. LiveInv
  <2>1. ASSUME NEW t \in Tasks, NEW n \in Attempts(t)
        PROVE  ~Live(t, n)
    <3>1. body[t] = [k \in Attempts(t) |-> BodyAt("none")]
      BY <1>1, Zenon
    <3>2. body[t][n] = BodyAt("none")
      BY <3>1, Zenon
    <3> QED
      BY <1>2, <3>2, Zenon DEF Live
  <2> QED
    BY <2>1 DEF LiveInv
<1>6. EndInv
  BY <1>1 DEF EndInv, NothingRunsOn, Init
<1>7. SpanHasUsage
  BY <1>1 DEF SpanHasUsage
<1> QED
  BY <1>3, <1>4, <1>5, <1>6, <1>7 DEF SInv

LEMMA SkillTask ==
    ASSUME SInv, NEW t \in Tasks, TaskStep(t) \/ TimeOut(t)
    PROVE  SInv'
<1>0. Types /\ SlotInv /\ LiveInv /\ EndInv /\ SpanHasUsage /\ attempt[t] \in Attempts(t)
  BY DEF SInv, Types
<1>1. PICK l, b, sp : TaskMove(t, l, b, sp)
  BY TaskMoves
<1>2. /\ provider' = provider /\ skills' = skills /\ ctx' = ctx /\ taken' = taken
      /\ totals' = totals /\ phase' = phase /\ billed' = billed
  BY <1>1 DEF TaskMove, LoopUnchanged
<1>3. /\ phase \in {"loop", "drain"} /\ pc[t] # "done"
      /\ pc'[t] = l /\ span'[t] = sp /\ sp \in Spans /\ b \in Bodies
      /\ \A u \in Tasks \ {t} : pc'[u] = pc[u] /\ span'[u] = span[u] /\ attempt'[u] = attempt[u]
  BY <1>0, <1>1 DEF TaskMove, Types
<1>4. /\ body' = [u \in Tasks |-> body'[u]]
      /\ \A u \in Tasks : body'[u] \in [Attempts(u) -> Bodies]
      /\ body'[t][attempt[t]] = b
      /\ \A u \in Tasks : \A k \in Attempts(u) :
           u # t \/ k # attempt[t] => body'[u][k] = body[u][k]
  BY <1>0, <1>1, SetBodyLemma DEF TaskMove
<1>5. /\ attempt' \in [Tasks -> Int] /\ attempt'[t] \in Attempts(t)
      /\ attempt'[t] = attempt[t] \/ (l = "slot" /\ sp = span[t])
  <2>1. CASE attempt' = attempt
    BY <1>0, <2>1 DEF Types
  <2>2. CASE /\ attempt' = [attempt EXCEPT ![t] = attempt[t] + 1]
             /\ pc[t] = "backoff" /\ l = "slot" /\ sp = span[t]
    <3>1. attempt[t] <= RetryMax[t] /\ attempt \in [Tasks -> Int]
      BY <1>0, <2>2 DEF EndInv, Types
    <3>2. attempt[t] + 1 \in Attempts(t) /\ attempt[t] + 1 \in Int
      BY <1>0, <3>1, AttemptValues
    <3> QED
      BY <2>2, <3>1, <3>2
  <2> QED
    BY <1>1, <2>1, <2>2 DEF TaskMove
<1>6. Types'
  <2>1. \A u \in Tasks : attempt'[u] \in Attempts(u)
    BY <1>0, <1>3, <1>5 DEF Types
  <2>2. span' \in [Tasks -> [status : {"succeeded", "failed", "skipped"},
                             tokens : Nat, tools : Nat]]
    BY <1>0, <1>1 DEF TaskMove, Types, Spans
  <2>3. pc' \in [Tasks -> {"slot", "invoke", "backoff", "done"}] /\ sem' \in Int
    BY <1>0, <1>1 DEF TaskMove, Types
  <2> QED
    BY <1>0, <1>2, <1>4, <1>5, <2>1, <2>2, <2>3 DEF Types
<1>7. SlotInv'
  <2>0. Calls \in SUBSET Tasks /\ sem \in Int /\ Slots \in Nat
    BY <1>0, SkillAssumption DEF Calls, Types
  <2>1. CASE l = "invoke" /\ pc[t] # "invoke" /\ sem < Slots /\ sem' = sem + 1
    <3>1. Calls' = Calls \cup {t} /\ t \notin Calls
      BY <1>3, <2>1 DEF Calls
    <3>2. Cardinality(Calls \cup {t}) = Cardinality(Calls) + 1
      BY <2>0, <3>1, TaskSubsets
    <3> QED
      BY <1>0, <2>0, <2>1, <3>1, <3>2 DEF SlotInv
  <2>2. CASE l # "invoke" /\ pc[t] = "invoke" /\ sem' = sem - 1
    <3>1. Calls' = Calls \ {t} /\ t \in Calls
      BY <1>3, <2>2 DEF Calls
    <3>2. Cardinality(Calls \ {t}) = Cardinality(Calls) - 1
      BY <2>0, <3>1, TaskSubsets
    <3> QED
      BY <1>0, <2>0, <2>2, <3>1, <3>2 DEF SlotInv
  <2>3. CASE l # "invoke" /\ pc[t] # "invoke" /\ sem' = sem
    <3>1. Calls' = Calls
      BY <1>3, <2>3 DEF Calls
    <3> QED
      BY <1>0, <2>3, <3>1 DEF SlotInv
  <2> QED
    BY <1>1, <2>1, <2>2, <2>3 DEF TaskMove
<1>8. LiveInv'
  <2> SUFFICES ASSUME NEW u \in Tasks, NEW n \in Attempts(u), Live(u, n)', ~Awaited(u, n)'
               PROVE  OnThread(u, n)' /\ (u \in Timed \/ phase' # "loop")
    BY DEF LiveInv
  <2>1. CASE u # t \/ n # attempt[t]
    <3>1. body'[u][n] = body[u][n] /\ ~Awaited(u, n)
      BY <1>3, <1>4, <2>1 DEF Awaited
    <3> QED
      BY <1>0, <1>2, <3>1 DEF LiveInv, Live, OnThread
  <2>2. CASE u = t /\ n = attempt[t]
    <3>1. body'[u][n] = b
      BY <1>4, <2>2
    <3>2. CASE l = "invoke" /\ pc[t] = "slot"
      <4>1. Awaited(u, n)'
        BY <1>3, <1>5, <2>2, <3>2 DEF Awaited
      <4> QED
        BY <4>1
    <3>3. CASE pc[t] # "invoke" /\ b = body[t][attempt[t]]
      <4>1. ~Awaited(u, n) /\ body'[u][n] = body[u][n]
        BY <2>2, <3>1, <3>3 DEF Awaited
      <4> QED
        BY <1>0, <1>2, <4>1 DEF LiveInv, Live, OnThread
    <3>4. CASE pc[t] = "invoke" /\ (b.at \in {"queued", "running", "call"} =>
                 b.at # "queued" /\ t \notin Async /\ (t \in Timed \/ phase # "loop"))
      BY <1>2, <2>2, <3>1, <3>4 DEF Live, OnThread
    <3> QED
      BY <1>1, <3>2, <3>3, <3>4 DEF TaskMove
  <2> QED
    BY <2>1, <2>2
<1>9. ASSUME span'[t].status = "succeeded"
      PROVE  /\ pc'[t] = "done" /\ body'[t][attempt'[t]].at = "ok"
             /\ sp = Usage(t, "succeeded") /\ attempt'[t] = attempt[t]
  <2>1. sp # span[t]
    BY <1>0, <1>3, <1>9 DEF EndInv
  <2>2. attempt' = attempt /\ l = "done" /\ b.at = "ok" /\ sp = Usage(t, "succeeded")
    BY <1>1, <1>3, <1>9, <2>1 DEF TaskMove
  <2> QED
    BY <1>3, <1>4, <2>2
<1>10. EndInv'
  <2>1. ASSUME NEW u \in Tasks, pc'[u] = "backoff" PROVE attempt'[u] <= RetryMax[u]
    <3>1. CASE u = t
      BY <1>1, <1>3, <1>5, <2>1, <3>1 DEF TaskMove
    <3>2. CASE u # t
      BY <1>0, <1>3, <2>1, <3>2 DEF EndInv
    <3> QED
      BY <3>1, <3>2
  <2>2. \A u \in taken' : pc'[u] = "done"
    BY <1>0, <1>2, <1>3 DEF EndInv, Types
  <2>3. ASSUME NEW u \in Tasks, span'[u].status = "succeeded"
        PROVE  pc'[u] = "done" /\ body'[u][attempt'[u]].at = "ok"
    <3>1. CASE u = t
      BY <1>9, <2>3, <3>1
    <3>2. CASE u # t
      BY <1>0, <1>3, <1>4, <2>3, <3>2 DEF EndInv, Types
    <3> QED
      BY <3>1, <3>2
  <2>4. NothingRunsOn'
    BY <1>2, <1>3 DEF NothingRunsOn
  <2> QED
    BY <1>2, <1>3, <2>1, <2>2, <2>3, <2>4 DEF EndInv
<1>11. SpanHasUsage'
  <2> SUFFICES ASSUME NEW u \in Tasks, span'[u].status = "succeeded"
               PROVE  /\ span'[u].tokens = ctx'[u][attempt'[u]].tokens
                      /\ span'[u].tools = ctx'[u][attempt'[u]].tools
    BY DEF SpanHasUsage
  <2>1. CASE u = t
    BY <1>2, <1>3, <1>9, <2>1 DEF Usage
  <2>2. CASE u # t
    BY <1>0, <1>2, <1>3, <2>2 DEF SpanHasUsage
  <2> QED
    BY <2>1, <2>2
<1> QED
  BY <1>6, <1>7, <1>8, <1>10, <1>11 DEF SInv

LEMMA SkillBody ==
    ASSUME SInv, NEW t \in Tasks, NEW n \in Attempts(t), StartBody(t, n) \/ BodyStep(t, n)
    PROVE  SInv'
<1>0. Types /\ SlotInv /\ LiveInv /\ EndInv /\ SpanHasUsage
  BY DEF SInv
<1>1. Live(t, n) /\ BodyUnchanged /\ billed' \in Nat
  BY <1>0, BodyMoves
<1>2. PICK b \in Bodies, c \in Usages :
        b.at \in {"running", "call", "ok", "error"} /\ SetBody(t, n, b) /\ SetCtx(t, n, c)
  BY <1>0, BodyMoves
<1>3. /\ provider' = provider /\ skills' = skills /\ pc' = pc /\ attempt' = attempt
      /\ span' = span /\ sem' = sem /\ taken' = taken /\ totals' = totals /\ phase' = phase
  BY <1>1 DEF BodyUnchanged
<1>4. /\ body' = [u \in Tasks |-> body'[u]]
      /\ \A u \in Tasks : body'[u] \in [Attempts(u) -> Bodies]
      /\ body'[t][n] = b
      /\ \A u \in Tasks : \A k \in Attempts(u) : u # t \/ k # n => body'[u][k] = body[u][k]
  BY <1>0, <1>2, SetBodyLemma
<1>5. /\ ctx' = [u \in Tasks |-> ctx'[u]]
      /\ \A u \in Tasks : ctx'[u] \in [Attempts(u) -> Usages]
      /\ \A u \in Tasks : \A k \in Attempts(u) : u # t \/ k # n => ctx'[u][k] = ctx[u][k]
  BY <1>0, <1>2, SetCtxLemma
<1>6. Types'
  BY <1>0, <1>1, <1>3, <1>4, <1>5 DEF Types
<1>7. SlotInv'
  BY <1>0, <1>3 DEF SlotInv, Calls
<1>8. LiveInv'
  <2> SUFFICES ASSUME NEW u \in Tasks, NEW k \in Attempts(u), Live(u, k)', ~Awaited(u, k)'
               PROVE  OnThread(u, k)' /\ (u \in Timed \/ phase' # "loop")
    BY DEF LiveInv
  <2>1. ~Awaited(u, k)
    BY <1>3 DEF Awaited
  <2>2. CASE u # t \/ k # n
    BY <1>0, <1>3, <1>4, <2>1, <2>2 DEF LiveInv, Live, OnThread
  <2>3. CASE u = t /\ k = n
    BY <1>0, <1>1, <1>2, <1>3, <1>4, <2>1, <2>3 DEF LiveInv, Live, OnThread
  <2> QED
    BY <2>2, <2>3
\* A skill that ended well is not running, so it counts nothing any more.
<1>9. \A u \in Tasks : span[u].status = "succeeded" => u # t \/ attempt[u] # n
  BY <1>0, <1>1 DEF EndInv, Live
<1>10. EndInv'
  <2>1. ASSUME NEW u \in Tasks, span'[u].status = "succeeded"
        PROVE  pc'[u] = "done" /\ body'[u][attempt'[u]].at = "ok"
    <3>1. span[u].status = "succeeded" /\ attempt'[u] = attempt[u] /\ pc'[u] = pc[u]
      BY <1>3, <2>1
    <3>2. pc[u] = "done" /\ body[u][attempt[u]].at = "ok" /\ attempt[u] \in Attempts(u)
      BY <1>0, <3>1 DEF EndInv, Types
    <3>3. body'[u][attempt[u]] = body[u][attempt[u]]
      BY <1>4, <1>9, <3>1, <3>2
    <3> QED
      BY <3>1, <3>2, <3>3
  <2>2. NothingRunsOn'
    BY <1>0, <1>1, <1>3 DEF EndInv, NothingRunsOn
  <2> QED
    BY <1>0, <1>3, <2>1, <2>2 DEF EndInv
<1>11. SpanHasUsage'
  <2> SUFFICES ASSUME NEW u \in Tasks, span'[u].status = "succeeded"
               PROVE  /\ span'[u].tokens = ctx'[u][attempt'[u]].tokens
                      /\ span'[u].tools = ctx'[u][attempt'[u]].tools
    BY DEF SpanHasUsage
  <2>1. span'[u] = span[u] /\ attempt'[u] = attempt[u] /\ attempt[u] \in Attempts(u)
    BY <1>0, <1>3 DEF Types
  <2>2. ctx'[u][attempt[u]] = ctx[u][attempt[u]]
    BY <1>5, <1>9, <2>1
  <2> QED
    BY <1>0, <2>1, <2>2 DEF SpanHasUsage
<1> QED
  BY <1>6, <1>7, <1>8, <1>10, <1>11 DEF SInv

LEMMA SkillRunStep ==
    ASSUME SInv, RunStep \/ UNCHANGED vars
    PROVE  SInv'
<1>0. Types /\ SlotInv /\ LiveInv /\ EndInv /\ SpanHasUsage
  BY DEF SInv
<1>1. RunUnchanged
  BY DEF RunStep, Take, Report, RunSyncReturns, RunUnchanged, vars
<1>2. /\ provider' = provider /\ skills' = skills /\ pc' = pc /\ attempt' = attempt
      /\ body' = body /\ ctx' = ctx /\ span' = span /\ sem' = sem /\ billed' = billed
  BY <1>1 DEF RunUnchanged
<1>3. /\ taken' \subseteq Tasks /\ totals' \in Usages
      /\ phase' \in {"loop", "drain", "reported", "returned"}
      /\ phase # "loop" => phase' # "loop"
      /\ \A t \in taken' : pc[t] = "done"
      /\ phase' \in {"reported", "returned"} => \A t \in Tasks : pc[t] = "done"
      /\ phase' = "returned" => phase = "returned" \/ Abandoned = {}
  <2>1. ASSUME NEW t \in Tasks, Take(t)
        PROVE  /\ taken' = taken \cup {t} /\ pc[t] = "done" /\ totals' \in Usages
               /\ phase = "loop" /\ phase' \in {"loop", "drain"}
    <3>1. span[t].tokens \in Nat /\ span[t].tools \in Nat
          /\ totals.tokens \in Nat /\ totals.tools \in Nat
      BY <1>0 DEF Types, Usages
    <3>2. totals' \in Usages
      BY <2>1, <3>1 DEF Take, Usages
    <3> QED
      BY <2>1, <3>2 DEF Take
  <2>2. CASE \E t \in Tasks : Take(t)
    BY <1>0, <2>1, <2>2 DEF Types, EndInv
  <2>3. CASE Report
    BY <1>0, <2>3 DEF Report, Types, EndInv
  <2>4. CASE RunSyncReturns
    BY <1>0, <2>4 DEF RunSyncReturns, Types, EndInv
  <2>5. CASE UNCHANGED vars
    BY <1>0, <2>5 DEF vars, Types, EndInv
  <2> QED
    BY <2>2, <2>3, <2>4, <2>5 DEF RunStep
<1>4. Types'
  BY <1>0, <1>2, <1>3 DEF Types
<1>5. SlotInv'
  BY <1>0, <1>2 DEF SlotInv, Calls
<1>6. LiveInv'
  BY <1>0, <1>2, <1>3 DEF LiveInv, Live, OnThread, Awaited
\* Nothing is awaited any more, and the threads that were given up have ended.
<1>7. NothingRunsOn'
  <2> SUFFICES ASSUME phase' = "returned", NEW t \in Tasks, NEW n \in Attempts(t), Live(t, n)
               PROVE  FALSE
    BY <1>2 DEF NothingRunsOn, Live
  <2>1. Abandoned = {} /\ pc[t] = "done"
    BY <1>0, <1>3 DEF EndInv, NothingRunsOn
  <2>2. ~Awaited(t, n)
    BY <2>1 DEF Awaited
  <2>3. OnThread(t, n)
    BY <1>0, <2>2 DEF LiveInv
  <2>4. <<t, n>> \in Busy
    BY <2>3 DEF Busy
  <2> QED
    BY <2>1, <2>2, <2>4 DEF Abandoned
<1>8. EndInv'
  BY <1>0, <1>2, <1>3, <1>7 DEF EndInv
<1>9. SpanHasUsage'
  BY <1>0, <1>2 DEF SpanHasUsage
<1> QED
  BY <1>4, <1>5, <1>6, <1>8, <1>9 DEF SInv

\* Each attempt of _invoke, its thread and its context fit together at every step,
\* those that a timeout has abandoned too.
THEOREM SkillInvCorrect == Spec => []SInv
<1>1. Init => SInv
  BY SkillInit
<1>2. SInv /\ [Next]_vars => SInv'
  BY SkillTask, SkillBody, SkillRunStep DEF Next, Finished
<1> QED
  BY <1>1, <1>2, PTL DEF Spec

-----------------------------------------------------------------------------
(* The properties *)

\* Which skills may be running is known at any time: a coroutine never outlives
\* its attempt and a call given up in the queue never starts, only a thread goes
\* on after wait_for or a cancel; the permits of the semaphore are those of the
\* attempts that are awaited; and no skill is left once run_sync has returned.
THEOREM SkillsAccountedForCorrect == Spec => []SkillsAccountedFor
<1>1. SInv => SkillsAccountedFor
  <2> SUFFICES ASSUME SInv PROVE SkillsAccountedFor
    OBVIOUS
  <2>0. Types /\ SlotInv /\ LiveInv /\ EndInv
    BY DEF SInv
  <2>1. sem \in 0..Slots
    <3>1. Calls \in SUBSET Tasks /\ Slots \in Nat
      BY SkillAssumption DEF Calls
    <3>2. Cardinality(Calls) \in Nat
      BY <3>1, TaskSubsets
    <3> QED
      BY <2>0, <3>1, <3>2 DEF SlotInv
  <2>2. SkillTypeOK
    BY <2>0, <2>1 DEF Types, SkillTypeOK, Usages
  <2>3. OnlyThreadsRunOn
    BY <2>0 DEF LiveInv, SlotInv, Calls, OnlyThreadsRunOn
  <2>4. NothingRunsOn
    BY <2>0 DEF EndInv
  <2> QED
    BY <2>2, <2>3, <2>4 DEF SkillsAccountedFor
<1> QED
  BY <1>1, SkillInvCorrect, PTL

-----------------------------------------------------------------------------
(***************************************************************************)
(* What was used.  Tokens are counted as the elements of a set: as many    *)
(* for each pair of a task and an attempt as its context has counted, or   *)
(* will count when its call of the LLM returns; and as many for each span  *)
(* that run has taken as the span says.                                    *)
(***************************************************************************)
Pile(P, w) == UNION {{p} \X (1..w[p]) : p \in P}

Attempted == UNION {{t} \X Attempts(t) : t \in Tasks}
Counted == [p \in Attempted |-> ctx[p[1]][p[2]].tokens + body[p[1]][p[2]].tokens]

TakenAttempts == {<<t, attempt[t]>> : t \in taken}
InSpan == [p \in Attempted |-> span[p[1]].tokens]

\* An attempt that was not made used nothing, and a coroutine does not yield in
\* a call of the LLM.
FreshInv == \A t \in Tasks : \A n \in Attempts(t) :
    /\ n > attempt[t] \/ (n = attempt[t] /\ pc[t] = "slot") =>
         body[t][n] = BodyAt("none") /\ ctx[t][n].tokens = 0
    /\ t \in Async => body[t][n].at # "call"

\* A span that counts is that of the last attempt, though it may have gone on.
CopyInv == \A t \in Tasks :
    t \in taken \/ (pc[t] = "done" /\ phase = "loop") =>
        span[t].tokens <= ctx[t][attempt[t]].tokens

BillInv ==
    /\ IsFiniteSet(Pile(Attempted, Counted))
    /\ provider \in Metered => billed = Cardinality(Pile(Attempted, Counted))

TotalInv ==
    /\ IsFiniteSet(Pile(TakenAttempts, InSpan))
    /\ totals.tokens = Cardinality(Pile(TakenAttempts, InSpan))

UInv == FreshInv /\ CopyInv /\ BillInv /\ TotalInv

LEMMA PileSame ==
    ASSUME NEW P, NEW w, NEW v, \A p \in P : w[p] = v[p]
    PROVE  Pile(P, w) = Pile(P, v)
BY DEF Pile

Units(x, a, d) == {x} \X ((a + 1)..(a + d))

LEMMA UnitsOf ==
    ASSUME NEW x, NEW a \in Nat, NEW d \in Nat
    PROVE  IsFiniteSet(Units(x, a, d)) /\ Cardinality(Units(x, a, d)) = d
<1>1. /\ IsFiniteSet((a + 1)..(a + d))
      /\ Cardinality((a + 1)..(a + d))
           = IF a + 1 > a + d THEN 0 ELSE (a + d) - (a + 1) + 1
  <2>1. a + 1 \in Int /\ a + d \in Int
    OBVIOUS
  <2> QED
    BY <2>1, FS_Interval, Zenon
<1>2. IsFiniteSet({x}) /\ Cardinality({x}) = 1
  BY FS_Singleton
<1>3. /\ IsFiniteSet({x} \X ((a + 1)..(a + d)))
      /\ Cardinality({x} \X ((a + 1)..(a + d)))
           = Cardinality({x}) * Cardinality((a + 1)..(a + d))
  BY <1>1, <1>2, FS_Product, Zenon
<1> QED
  BY <1>1, <1>2, <1>3 DEF Units

LEMMA DisjointUnion ==
    ASSUME NEW A, NEW N, IsFiniteSet(A), IsFiniteSet(N), A \cap N = {}
    PROVE  /\ IsFiniteSet(A \cup N) /\ Cardinality(A) \in Nat
           /\ Cardinality(A \cup N) = Cardinality(A) + Cardinality(N)
<1>1. IsFiniteSet(A \cup N)
      /\ Cardinality(A \cup N) = Cardinality(A) + Cardinality(N) - Cardinality(A \cap N)
  BY FS_Union, Zenon
<1>2. Cardinality(A \cap N) = 0
  BY FS_EmptySet
<1>3. Cardinality(A) \in Nat /\ Cardinality(N) \in Nat
  BY FS_CardinalityType
<1> QED
  BY <1>1, <1>2, <1>3

\* A pair that is there counts d more.
LEMMA PileMore ==
    ASSUME NEW P, NEW w, NEW v, NEW x \in P, NEW d \in Nat, IsFiniteSet(Pile(P, w)),
           \A p \in P \ {x} : w[p] = v[p], w[x] \in Nat, v[x] = w[x] + d
    PROVE  IsFiniteSet(Pile(P, v)) /\ Cardinality(Pile(P, v)) = Cardinality(Pile(P, w)) + d
<1>1. PICK a \in Nat : a = w[x]
  OBVIOUS
<1> DEFINE A == Pile(P, w)
           N == Units(x, a, d)
<1>2. Pile(P, v) = A \cup N
  <2>1. ASSUME NEW e PROVE e \in Pile(P, v) <=> e \in A \cup N
    <3>1. e \in Pile(P, v) <=> \/ \E p \in P \ {x} : e \in {p} \X (1..v[p])
                               \/ e \in {x} \X (1..(a + d))
      BY <1>1 DEF Pile
    <3>2. e \in A <=> \/ \E p \in P \ {x} : e \in {p} \X (1..w[p])
                      \/ e \in {x} \X (1..a)
      BY <1>1 DEF Pile
    <3>3. e \in {x} \X (1..(a + d)) <=> e \in {x} \X (1..a) \/ e \in N
      BY DEF Units
    <3> QED
      BY <3>1, <3>2, <3>3
  <2> QED
    BY <2>1
<1>3. A \cap N = {}
  BY <1>1 DEF Pile, Units
<1>4. IsFiniteSet(N) /\ Cardinality(N) = d
  BY UnitsOf
<1>a. IsFiniteSet(A)
  OBVIOUS
<1> HIDE DEF A, N
<1>5. IsFiniteSet(A \cup N) /\ Cardinality(A \cup N) = Cardinality(A) + d
  BY <1>3, <1>4, <1>a, DisjointUnion
<1> QED
  BY <1>2, <1>5 DEF A

\* One more pair counts.
LEMMA PileNew ==
    ASSUME NEW P, NEW w, NEW x, x \notin P, IsFiniteSet(Pile(P, w)), w[x] \in Nat
    PROVE  /\ IsFiniteSet(Pile(P \cup {x}, w))
           /\ Cardinality(Pile(P \cup {x}, w)) = Cardinality(Pile(P, w)) + w[x]
<1>1. PICK d \in Nat : d = w[x]
  OBVIOUS
<1>0. PICK z \in Nat : z = 0
  OBVIOUS
<1> DEFINE A == Pile(P, w)
           N == Units(x, z, d)
<1>2. Pile(P \cup {x}, w) = A \cup N /\ A \cap N = {} /\ IsFiniteSet(A)
  BY <1>0, <1>1 DEF Pile, Units
<1>a. IsFiniteSet(N) /\ Cardinality(N) = d
  BY UnitsOf
<1> HIDE DEF A, N
<1>3. IsFiniteSet(A \cup N) /\ Cardinality(A \cup N) = Cardinality(A) + d
  BY <1>2, <1>a, DisjointUnion
<1> QED
  BY <1>1, <1>2, <1>3 DEF A

LEMMA AttemptedPairs ==
    /\ \A t \in Tasks : \A n \in Attempts(t) : <<t, n>> \in Attempted
    /\ \A p \in Attempted : p[1] \in Tasks /\ p[2] \in Attempts(p[1]) /\ p = <<p[1], p[2]>>
BY DEF Attempted

LEMMA UsageInit ==
    ASSUME Init, SInv PROVE UInv
<1>0. /\ \A t \in Tasks : attempt[t] = 1
      /\ \A t \in Tasks : \A n \in Attempts(t) :
           body[t][n] = BodyAt("none") /\ ctx[t][n] = NoUsage
  BY DEF Init
<1>1. /\ BodyAt("none").at = "none" /\ BodyAt("none").tokens = 0 /\ NoUsage.tokens = 0
  BY BodyValues DEF NoUsage
<1>2. FreshInv
  BY <1>0, <1>1 DEF FreshInv
<1>3. CopyInv
  BY DEF Init, CopyInv
<1>4. Pile(Attempted, Counted) = {}
  <2>1. \A p \in Attempted : Counted[p] = 0
    BY <1>0, <1>1, AttemptedPairs DEF Counted
  <2> QED
    BY <2>1 DEF Pile
<1>5. Pile(TakenAttempts, InSpan) = {}
  BY DEF Init, Pile, TakenAttempts
<1> QED
  BY <1>2, <1>3, <1>4, <1>5, FS_EmptySet DEF Init, UInv, BillInv, TotalInv

LEMMA UsageTask ==
    ASSUME SInv, SInv', UInv, NEW t \in Tasks, TaskStep(t) \/ TimeOut(t)
    PROVE  UInv'
<1>0. /\ Types /\ Types' /\ EndInv /\ FreshInv /\ CopyInv /\ BillInv /\ TotalInv
  BY DEF SInv, UInv
<1>a. /\ \A u \in Tasks : attempt[u] \in Attempts(u) /\ attempt[u] \in Int
      /\ attempt \in [Tasks -> Int] /\ span \in [Tasks -> Spans]
      /\ \A u \in Tasks : \A n \in Attempts(u) : n \in Int /\ body[u][n] \in Bodies
      /\ taken \subseteq Tasks
  BY <1>0, AttemptValues DEF Types, Spans
<1>1. PICK l, b, sp : TaskMove(t, l, b, sp)
  BY TaskMoves
<1>2. /\ pc' = [pc EXCEPT ![t] = l] /\ pc[t] # "done" /\ b \in Bodies
      /\ span' = [span EXCEPT ![t] = sp] /\ LoopUnchanged
      /\ \/ attempt' = attempt /\ l # "slot"
         \/ attempt' = [attempt EXCEPT ![t] = attempt[t] + 1] /\ l = "slot"
      /\ l = "done" /\ phase = "loop" => sp.tokens = ctx[t][attempt[t]].tokens
  BY <1>1 DEF TaskMove
<1>3. /\ provider' = provider /\ ctx' = ctx /\ taken' = taken /\ totals' = totals
      /\ phase' = phase /\ billed' = billed
  BY <1>2 DEF LoopUnchanged
<1>4. /\ body'[t][attempt[t]] = b
      /\ \A u \in Tasks : \A n \in Attempts(u) :
           u # t \/ n # attempt[t] => body'[u][n] = body[u][n]
  <2>1. SetBody(t, attempt[t], b)
    BY <1>1 DEF TaskMove
  <2> QED
    BY <1>0, <1>a, <1>2, <2>1, SetBodyLemma
<1>5. b.tokens = body[t][attempt[t]].tokens /\ (b.at = "call" => body[t][attempt[t]].at = "call")
  <2>1. KeepsCall(t, b)
    BY <1>1 DEF TaskMove
  <2>2. pc[t] = "slot" => body[t][attempt[t]].tokens = 0
    BY <1>0, <1>a, BodyValues DEF FreshInv
  <2>3. t \in Async => body[t][attempt[t]].at # "call"
    BY <1>0, <1>a DEF FreshInv
  <2> QED
    BY <2>1, <2>2, <2>3 DEF KeepsCall
<1>6. /\ \A u \in Tasks \ {t} : pc'[u] = pc[u] /\ attempt'[u] = attempt[u] /\ span'[u] = span[u]
      /\ pc'[t] = l /\ span'[t] = sp /\ t \notin taken
  BY <1>0, <1>a, <1>2 DEF Types, EndInv
<1>7. attempt'[t] = IF l = "slot" THEN attempt[t] + 1 ELSE attempt[t]
  BY <1>a, <1>2
<1>8. FreshInv'
  <2> SUFFICES ASSUME NEW u \in Tasks, NEW n \in Attempts(u)
               PROVE  /\ n > attempt'[u] \/ (n = attempt'[u] /\ pc'[u] = "slot") =>
                           body'[u][n] = BodyAt("none") /\ ctx'[u][n].tokens = 0
                      /\ u \in Async => body'[u][n].at # "call"
    BY DEF FreshInv
  <2>1. CASE u # t
    BY <1>0, <1>3, <1>4, <1>6, <2>1 DEF FreshInv
  <2>2. CASE u = t /\ n = attempt[t]
    BY <1>0, <1>a, <1>4, <1>5, <1>6, <1>7, <2>2 DEF FreshInv
  <2>3. CASE u = t /\ n # attempt[t]
    <3>1. n > attempt'[u] \/ (n = attempt'[u] /\ pc'[u] = "slot") => n > attempt[u]
      BY <1>a, <1>6, <1>7, <2>3
    <3> QED
      BY <1>0, <1>3, <1>4, <2>3, <3>1 DEF FreshInv
  <2> QED
    BY <2>1, <2>2, <2>3
<1>9. CopyInv'
  <2> SUFFICES ASSUME NEW u \in Tasks, u \in taken' \/ (pc'[u] = "done" /\ phase' = "loop")
               PROVE  span'[u].tokens <= ctx'[u][attempt'[u]].tokens
    BY DEF CopyInv
  <2>1. CASE u # t
    BY <1>0, <1>3, <1>6, <2>1 DEF CopyInv
  <2>2. CASE u = t
    <3>1. span'[t].tokens = ctx'[t][attempt'[t]].tokens
      BY <1>2, <1>3, <1>6, <1>7, <2>2
    <3>2. span'[t].tokens \in Int
      BY <1>0 DEF Types
    <3> QED
      BY <2>2, <3>1, <3>2
  <2> QED
    BY <2>1, <2>2
<1>10. BillInv'
  <2>1. ASSUME NEW p \in Attempted PROVE Counted'[p] = Counted[p]
    <3>1. p[1] \in Tasks /\ p[2] \in Attempts(p[1])
      BY AttemptedPairs
    <3>2. body'[p[1]][p[2]].tokens = body[p[1]][p[2]].tokens
      BY <1>4, <1>5, <3>1
    <3> QED
      BY <1>3, <3>2 DEF Counted
  <2>2. Pile(Attempted, Counted') = Pile(Attempted, Counted)
    BY <2>1, PileSame
  <2>3. Pile(Attempted, Counted)' = Pile(Attempted, Counted')
    BY DEF Pile, Attempted
  <2> QED
    BY <1>0, <1>3, <2>2, <2>3 DEF BillInv
<1>11. TotalInv'
  <2>1. TakenAttempts' = TakenAttempts
    BY <1>a, <1>3, <1>6 DEF TakenAttempts
  <2>2. ASSUME NEW p \in TakenAttempts PROVE InSpan'[p] = InSpan[p]
    <3>1. PICK u \in taken : p = <<u, attempt[u]>>
      BY DEF TakenAttempts
    <3>2. p \in Attempted /\ p[1] = u /\ u # t /\ u \in Tasks
      BY <1>a, <1>6, <3>1, AttemptedPairs
    <3> QED
      BY <1>6, <3>2 DEF InSpan
  <2>3. Pile(TakenAttempts, InSpan') = Pile(TakenAttempts, InSpan)
    BY <2>2, PileSame
  <2>4. Pile(TakenAttempts, InSpan)' = Pile(TakenAttempts', InSpan')
    BY DEF Pile
  <2> QED
    BY <1>0, <1>3, <2>1, <2>3, <2>4 DEF TotalInv
<1> QED
  BY <1>8, <1>9, <1>10, <1>11 DEF UInv

LEMMA UsageBody ==
    ASSUME SInv, SInv', UInv, NEW t \in Tasks, NEW n \in Attempts(t),
           StartBody(t, n) \/ BodyStep(t, n)
    PROVE  UInv'
<1>0. Types /\ Types' /\ FreshInv /\ CopyInv /\ BillInv /\ TotalInv
  BY DEF SInv, UInv
<1>a. /\ \A u \in Tasks : attempt[u] \in Attempts(u)
      /\ \A u \in Tasks : \A k \in Attempts(u) : k \in Int /\ body[u][k] \in Bodies
                                                 /\ ctx[u][k] \in Usages
  BY <1>0, AttemptValues DEF Types
<1>1. Live(t, n) /\ BodyUnchanged
  BY <1>0, BodyMoves
<1>2. PICK b \in Bodies, c \in Usages, d \in Nat :
        SetBody(t, n, b) /\ SetCtx(t, n, c) /\ Adds(t, n, b, c, d)
  BY <1>0, BodyMoves
<1>3. /\ provider' = provider /\ pc' = pc /\ attempt' = attempt /\ span' = span
      /\ taken' = taken /\ totals' = totals /\ phase' = phase
  BY <1>1 DEF BodyUnchanged
<1>4. /\ body'[t][n] = b /\ ctx'[t][n] = c
      /\ \A u \in Tasks : \A k \in Attempts(u) :
           u # t \/ k # n => body'[u][k] = body[u][k] /\ ctx'[u][k] = ctx[u][k]
  BY <1>0, <1>2, SetBodyLemma, SetCtxLemma
<1>5. /\ c.tokens \in Nat /\ b.tokens \in Nat
      /\ ctx[t][n].tokens \in Nat /\ body[t][n].tokens \in Nat
  BY <1>a, BodyValues DEF Usages
\* A skill that takes a step was called.
<1>6. ~(n > attempt[t] \/ (n = attempt[t] /\ pc[t] = "slot"))
  <2>1. body[t][n] # BodyAt("none")
    BY <1>1, BodyValues DEF Live
  <2> QED
    BY <1>0, <2>1 DEF FreshInv
<1>7. FreshInv'
  <2> SUFFICES ASSUME NEW u \in Tasks, NEW k \in Attempts(u)
               PROVE  /\ k > attempt'[u] \/ (k = attempt'[u] /\ pc'[u] = "slot") =>
                           body'[u][k] = BodyAt("none") /\ ctx'[u][k].tokens = 0
                      /\ u \in Async => body'[u][k].at # "call"
    BY DEF FreshInv
  <2>1. CASE u # t \/ k # n
    BY <1>0, <1>3, <1>4, <2>1 DEF FreshInv
  <2>2. CASE u = t /\ k = n
    <3>1. t \in Async => b.at # "call"
      BY <1>0, <1>2 DEF FreshInv, Adds
    <3> QED
      BY <1>3, <1>4, <1>6, <2>2, <3>1
  <2> QED
    BY <2>1, <2>2
<1>8. CopyInv'
  <2> SUFFICES ASSUME NEW u \in Tasks, u \in taken \/ (pc[u] = "done" /\ phase = "loop")
               PROVE  span[u].tokens <= ctx'[u][attempt[u]].tokens
    BY <1>3 DEF CopyInv
  <2>1. span[u].tokens <= ctx[u][attempt[u]].tokens
    BY <1>0 DEF CopyInv
  <2>2. CASE u # t \/ attempt[u] # n
    BY <1>a, <1>4, <2>1, <2>2
  <2>3. CASE u = t /\ attempt[u] = n
    <3>1. ctx[t][n].tokens <= c.tokens /\ span[t].tokens \in Nat
      BY <1>0, <1>2 DEF Adds, Types
    <3> QED
      BY <1>4, <1>5, <2>1, <2>3, <3>1
  <2> QED
    BY <2>2, <2>3
<1>9. BillInv'
  <2> DEFINE x == <<t, n>>
             w == Counted
             v == Counted'
  <2>1. x \in Attempted /\ x[1] = t /\ x[2] = n
    BY AttemptedPairs
  <2>2. \A p \in Attempted \ {x} : w[p] = v[p]
    <3> SUFFICES ASSUME NEW p \in Attempted \ {x} PROVE w[p] = v[p]
      OBVIOUS
    <3>1. p[1] \in Tasks /\ p[2] \in Attempts(p[1]) /\ (p[1] # t \/ p[2] # n)
      BY AttemptedPairs
    <3>2. body'[p[1]][p[2]] = body[p[1]][p[2]] /\ ctx'[p[1]][p[2]] = ctx[p[1]][p[2]]
      BY <1>4, <3>1
    <3> QED
      BY <3>2 DEF Counted
  <2>3. w[x] = ctx[t][n].tokens + body[t][n].tokens /\ v[x] = c.tokens + b.tokens
    BY <1>4, <2>1 DEF Counted
  <2>4. w[x] \in Nat /\ v[x] = w[x] + d
    BY <1>2, <1>5, <2>3 DEF Adds
  <2>5. IsFiniteSet(Pile(Attempted, w))
    BY <1>0 DEF BillInv
  <2>6. Pile(Attempted, Counted)' = Pile(Attempted, v)
    BY DEF Pile, Attempted
  <2> HIDE DEF x, w, v
  <2>7. /\ IsFiniteSet(Pile(Attempted, v))
        /\ Cardinality(Pile(Attempted, v)) = Cardinality(Pile(Attempted, w)) + d
    BY <2>1, <2>2, <2>4, <2>5, PileMore
  <2>8. provider \in Metered => billed' = billed + d /\ billed = Cardinality(Pile(Attempted, w))
    BY <1>0, <1>2 DEF Adds, BillInv, w
  <2> QED
    BY <1>3, <2>1, <2>6, <2>7, <2>8 DEF BillInv
<1>10. TotalInv'
  BY <1>0, <1>3 DEF TotalInv, Pile, TakenAttempts, InSpan, Attempted
<1> QED
  BY <1>7, <1>8, <1>9, <1>10 DEF UInv

LEMMA UsageRun ==
    ASSUME SInv, SInv', UInv, RunStep \/ UNCHANGED vars
    PROVE  UInv'
<1>0. Types /\ Types' /\ EndInv /\ FreshInv /\ CopyInv /\ BillInv /\ TotalInv
  BY DEF SInv, UInv
<1>1. RunUnchanged
  BY DEF RunStep, Take, Report, RunSyncReturns, RunUnchanged, vars
<1>2. /\ provider' = provider /\ pc' = pc /\ attempt' = attempt /\ body' = body
      /\ ctx' = ctx /\ span' = span /\ billed' = billed
  BY <1>1 DEF RunUnchanged
<1>3. FreshInv'
  BY <1>0, <1>2 DEF FreshInv
<1>4. BillInv'
  BY <1>0, <1>2 DEF BillInv, Pile, Counted, Attempted
<1>5. ASSUME UNCHANGED <<taken, totals>>, phase' = "loop" => phase = "loop"
      PROVE  UInv'
  <2>1. CopyInv'
    BY <1>0, <1>2, <1>5 DEF CopyInv
  <2>2. TotalInv'
    BY <1>0, <1>2, <1>5 DEF TotalInv, Pile, TakenAttempts, InSpan, Attempted
  <2> QED
    BY <1>3, <1>4, <2>1, <2>2 DEF UInv
<1>6. ASSUME NEW t \in Tasks, Take(t) PROVE UInv'
  <2>1. /\ phase = "loop" /\ pc[t] = "done" /\ t \notin taken /\ taken' = taken \cup {t}
        /\ totals'.tokens = totals.tokens + span[t].tokens
    BY <1>6 DEF Take
  <2>2. CopyInv'
    BY <1>0, <1>2, <2>1 DEF CopyInv
  <2> DEFINE x == <<t, attempt[t]>>
             P == TakenAttempts
             w == InSpan
  <2>3. /\ TakenAttempts' = P \cup {x} /\ x \notin P /\ InSpan' = w
        /\ IsFiniteSet(Pile(P, w))
    BY <1>0, <1>2, <2>1 DEF TakenAttempts, InSpan, TotalInv, Attempted
  <2>4. w[x] = span[t].tokens /\ span[t].tokens \in Nat
    <3>1. attempt[t] \in Attempts(t) /\ span[t].tokens \in Nat
      BY <1>0 DEF Types
    <3>2. x \in Attempted /\ x[1] = t
      BY <3>1, AttemptedPairs
    <3> QED
      BY <3>1, <3>2 DEF InSpan
  <2>5. totals.tokens = Cardinality(Pile(P, w))
    BY <1>0 DEF TotalInv
  <2>6. Pile(TakenAttempts, InSpan)' = Pile(TakenAttempts', InSpan')
    BY DEF Pile
  <2> HIDE DEF x, P, w
  <2>7. w[x] \in Nat
    BY <2>4
  <2>8. /\ IsFiniteSet(Pile(P \cup {x}, w))
        /\ Cardinality(Pile(P \cup {x}, w)) = Cardinality(Pile(P, w)) + w[x]
    BY <2>3, <2>4, <2>7, PileNew, Zenon
  <2>9. TotalInv'
    BY <2>1, <2>3, <2>4, <2>5, <2>6, <2>8 DEF TotalInv
  <2> QED
    BY <1>3, <1>4, <2>2, <2>9 DEF UInv
<1>7. CASE Report
  BY <1>5, <1>7 DEF Report
<1>8. CASE RunSyncReturns
  BY <1>5, <1>8 DEF RunSyncReturns
<1>9. CASE UNCHANGED vars
  BY <1>5, <1>9 DEF vars
<1> QED
  BY <1>6, <1>7, <1>8, <1>9 DEF RunStep

LEMMA UsageCorrect == Spec => []UInv
<1>1. Init /\ SInv => UInv
  BY UsageInit
<1>2. SInv /\ SInv' /\ UInv /\ [Next]_vars => UInv'
  BY UsageTask, UsageBody, UsageRun DEF Next, Finished
<1> QED
  BY <1>1, <1>2, SkillInvCorrect, PTL DEF Spec

\* With an adapter that reports the service's count, the totals of the report
\* never have more tokens than the service counted, and exactly as many if every
\* task succeeded in its first attempt, however threads run on after a timeout.
THEOREM UsageAccountedCorrect == Spec => []UsageAccounted
<1>1. ASSUME SInv, UInv PROVE UsageAccounted
  <2> DEFINE A == Pile(Attempted, Counted)
             B == Pile(TakenAttempts, InSpan)
  <2>0. /\ Types /\ EndInv /\ SpanHasUsage /\ FreshInv /\ CopyInv /\ IsFiniteSet(A)
        /\ totals.tokens = Cardinality(B)
        /\ provider \in Metered => billed = Cardinality(A)
    BY <1>1 DEF SInv, UInv, BillInv, TotalInv
  <2>a. /\ taken \subseteq Tasks
        /\ \A t \in Tasks : attempt[t] \in Attempts(t) /\ span[t].tokens \in Nat
        /\ \A t \in Tasks : \A n \in Attempts(t) :
             /\ n \in Int /\ ctx[t][n].tokens \in Nat /\ body[t][n].tokens \in Nat
             /\ body[t][n] \in Bodies /\ <<t, n>> \in Attempted
             /\ Counted[<<t, n>>] = ctx[t][n].tokens + body[t][n].tokens
             /\ InSpan[<<t, n>>] = span[t].tokens
    <3>1. taken \subseteq Tasks
          /\ \A t \in Tasks : attempt[t] \in Attempts(t) /\ span[t].tokens \in Nat
      BY <2>0 DEF Types
    <3>2. ASSUME NEW t \in Tasks, NEW n \in Attempts(t)
          PROVE  /\ ctx[t][n].tokens \in Nat
                 /\ body[t][n] \in Bodies /\ body[t][n].tokens \in Nat
      <4>1. ctx[t][n] \in Usages /\ body[t][n] \in Bodies
        BY <2>0 DEF Types
      <4> QED
        BY <4>1, BodyValues DEF Usages
    <3>3. ASSUME NEW t \in Tasks, NEW n \in Attempts(t)
          PROVE  /\ n \in Int /\ <<t, n>> \in Attempted
                 /\ Counted[<<t, n>>] = ctx[t][n].tokens + body[t][n].tokens
                 /\ InSpan[<<t, n>>] = span[t].tokens
      <4>1. <<t, n>> \in Attempted /\ n \in Int
        BY AttemptValues, AttemptedPairs
      <4> QED
        BY <4>1 DEF Counted, InSpan
    <3> QED
      BY <3>1, <3>2, <3>3
  <2>1. B \subseteq A
    <3> SUFFICES ASSUME NEW e \in B PROVE e \in A
      OBVIOUS
    <3>1. PICK t \in taken : e \in {<<t, attempt[t]>>} \X (1..InSpan[<<t, attempt[t]>>])
      BY DEF Pile, TakenAttempts
    <3>2. InSpan[<<t, attempt[t]>>] <= Counted[<<t, attempt[t]>>]
      BY <2>0, <2>a DEF CopyInv
    <3>3. /\ InSpan[<<t, attempt[t]>>] \in Nat /\ Counted[<<t, attempt[t]>>] \in Nat
          /\ <<t, attempt[t]>> \in Attempted
      BY <2>a
    <3>4. e \in {<<t, attempt[t]>>} \X (1..Counted[<<t, attempt[t]>>])
      BY <3>1, <3>2, <3>3
    <3> QED
      BY <3>3, <3>4 DEF Pile
  <2>2. Smooth => A = B
    <3> SUFFICES ASSUME Smooth, NEW e \in A PROVE e \in B
      BY <2>1
    <3>1. PICK p \in Attempted : e \in {p} \X (1..Counted[p])
      BY DEF Pile
    <3>2. PICK t, n : t \in Tasks /\ n \in Attempts(t) /\ p = <<t, n>>
      BY AttemptedPairs
    <3>3. t \in taken /\ span[t].status = "succeeded" /\ attempt[t] = 1
      BY <3>2 DEF Smooth
    <3>4. CASE n = 1
      <4>1. body[t][n].tokens = 0
        BY <2>0, <2>a, <3>3, <3>4, BodyValues DEF EndInv
      <4>2. Counted[p] = InSpan[p]
        BY <2>0, <2>a, <3>2, <3>3, <3>4, <4>1 DEF SpanHasUsage
      <4> QED
        BY <3>1, <3>2, <3>3, <3>4, <4>2 DEF Pile, TakenAttempts
    <3>5. CASE n # 1
      <4>1. n > attempt[t]
        BY <3>2, <3>3, <3>5, AttemptValues DEF Attempts
      <4>2. Counted[p] = 0
        BY <2>0, <2>a, <3>2, <4>1, BodyValues DEF FreshInv
      <4> QED
        BY <3>1, <4>2
    <3> QED
      BY <3>4, <3>5
  <2> HIDE DEF A, B
  <2>3. Cardinality(B) <= Cardinality(A)
    BY <2>0, <2>1, FS_Subset
  <2> QED
    BY <2>0, <2>2, <2>3 DEF UsageAccounted
<1> QED
  BY <1>1, SkillInvCorrect, UsageCorrect, PTL
==============================================================================
