---------------------------- MODULE WorkflowSpec ----------------------------
(***************************************************************************)
(* Loading a workflow: from_dict, validate and the search for cycles of    *)
(* sdk-python/orchestrator/spec.py, step by step for the search.  The Go   *)
(* engine reads the same documents (engine/internal/spec/spec.go) with the *)
(* same search; what differs is told by GoWorkflow.                        *)
(*                                                                         *)
(* A document is kept to what loading tells apart: which required keys are *)
(* there, task ids and dependencies, providers, durations, retries, the    *)
(* limit on concurrency, and the output (nothing, or a template).          *)
(***************************************************************************)
EXTENDS Integers, Sequences, FiniteSets

CONSTANTS
    Docs,      \* the documents to choose from
    MaxDepth   \* how deep a recursion the Python interpreter allows

VARIABLES
    doc,      \* the document
    verdict,  \* what has become of it, or the step that is next
    color,    \* color[id] of the search
    stack     \* the calls of visit: the node and how many of its
              \* dependencies are done

vars == <<doc, verdict, color, stack>>
-----------------------------------------------------------------------------
(* Documents *)

\* A duration is absent, a number with a unit, or something else: a bare number,
\* or other text.
Absent == [form |-> "absent", ms |-> 0]
Text(n) == [form |-> "text", ms |-> n]
Other(n) == [form |-> "other", ms |-> n]

\* A retry object, with nothing or one value for each of its fields.
RetryObject(max, backoff, base, jitter) ==
    [given |-> TRUE, max |-> max, backoff |-> backoff, base |-> base, jitter |-> jitter]

EmptyRetry == RetryObject(<<>>, <<>>, Absent, <<>>)
NoRetry == [EmptyRetry EXCEPT !.given = FALSE]

\* A task of a document, and a document.
TaskDoc(id, deps, provider, timeout, retry) ==
    [id |-> id, depends_on |-> deps, provider |-> provider, timeout |-> timeout,
     retry |-> retry]

Doc(tasks, providers, timeout, retry, slots, output, complete) ==
    [tasks |-> tasks, providers |-> providers, timeout |-> timeout, retry |-> retry,
     max_parallel |-> slots, output |-> output, complete |-> complete]

Durations(d) ==
    {d.timeout, d.retry.base} \cup
        UNION {{d.tasks[i].timeout, d.tasks[i].retry.base} : i \in DOMAIN d.tasks}

IsSeq(s) == s \in Seq({s[i] : i \in DOMAIN s})

\* Tasks and dependencies come as lists, and there is one way to leave out a
\* duration.
ASSUME SpecAssumption ==
    /\ MaxDepth \in Nat \ {0}
    /\ \A d \in Docs :
         /\ IsSeq(d.tasks) /\ \A i \in DOMAIN d.tasks : IsSeq(d.tasks[i].depends_on)
         /\ \A x \in Durations(d) : x.form = "absent" => x = Absent

-----------------------------------------------------------------------------
(* from_dict *)

\* Nothing, or one value: <<>> or <<v>>.
OrElse(opt, default) == IF opt = <<>> THEN default ELSE opt[1]

\* parse_duration, of what is there and well-formed.
ParseDuration(text) == IF text.form = "absent" THEN <<>> ELSE <<text.ms>>

HalfASecond == 500

\* Retry.from_dict: an empty retry is none at all.
IsGiven(r) == r.given /\ r # EmptyRetry
ReadRetry(r) ==
    IF ~IsGiven(r) THEN <<>>
    ELSE <<[max |-> OrElse(r.max, 0), backoff |-> OrElse(r.backoff, "exponential"),
            base |-> OrElse(ParseDuration(r.base), HalfASecond),
            jitter |-> OrElse(r.jitter, TRUE)]>>

PlainRetry ==
    [max |-> 0, backoff |-> "exponential", base |-> HalfASecond, jitter |-> TRUE]

\* Whatever is not "none" or "fixed" is taken for "exponential".
Growth(retry) ==
    [retry EXCEPT !.backoff = IF @ \in {"none", "fixed"} THEN @ ELSE "exponential"]

\* Slip: a timeout of zero counts as none.
TimeoutIfTrue(t, d) ==
    LET own == ParseDuration(t.timeout)
    IN  IF own = <<>> \/ own = <<0>> THEN ParseDuration(d.timeout) ELSE own

\* What the engine makes of a task's policies and the defaults.
Timeout(t, d) ==
    LET own == ParseDuration(t.timeout)
    IN  IF own = <<>> THEN ParseDuration(d.timeout) ELSE own

Retry(t, d) == OrElse(ReadRetry(t.retry), OrElse(ReadRetry(d.retry), PlainRetry))

Slots(d) == OrElse(d.max_parallel, 8)

\* The workflow a document stands for, as the engine will run it.
Workflow(d) ==
    [slots |-> Slots(d),
     tasks |-> [i \in DOMAIN d.tasks |->
         [id |-> d.tasks[i].id, depends_on |-> d.tasks[i].depends_on,
          timeout |-> Timeout(d.tasks[i], d), retry |-> Growth(Retry(d.tasks[i], d))]]]

Malformed(d) == ~d.complete \/ \E x \in Durations(d) : x.form = "other"

(***************************************************************************)
(* The Go reading: a retry object that is there replaces the default       *)
(* whole, and what it leaves out is zero: no jitter, and a backoff         *)
(* of no name.  max_parallel has to be positive; there has to be a task.   *)
(***************************************************************************)
GoReadRetry(r) ==
    IF ~r.given THEN <<>>
    ELSE <<[max |-> OrElse(r.max, 0), backoff |-> OrElse(r.backoff, "unnamed"),
            base |-> OrElse(ParseDuration(r.base), 0), jitter |-> OrElse(r.jitter, FALSE)]>>

GoTimeout(t, d) ==
    ParseDuration(IF t.timeout.form = "absent" THEN d.timeout ELSE t.timeout)

GoWorkflow(d) ==
    [slots |-> IF Slots(d) > 0 THEN Slots(d) ELSE 8,
     tasks |-> [i \in DOMAIN d.tasks |->
         [id |-> d.tasks[i].id, depends_on |-> d.tasks[i].depends_on,
          timeout |-> GoTimeout(d.tasks[i], d),
          retry |-> Growth(OrElse(GoReadRetry(d.tasks[i].retry),
                                  OrElse(GoReadRetry(d.retry), PlainRetry)))]]]

GoRefuses(d) == Malformed(d) \/ d.tasks = <<>>

-----------------------------------------------------------------------------
(* to_dict *)

(***************************************************************************)
(* What to_dict makes of a workflow: durations are written as the numbers  *)
(* they were read into.  It reads the attributes description and outputs,  *)
(* which Task does not have: it raises if there is a task, unless the      *)
(* caller has set them.                                                    *)
(***************************************************************************)
AsNumber(duration) == IF duration = <<>> THEN Absent ELSE Other(duration[1])

RetryDoc(r) ==
    IF r = <<>> THEN NoRetry
    ELSE RetryObject(<<r[1].max>>, <<r[1].backoff>>, Other(r[1].base), <<r[1].jitter>>)

\* concurrency is left out if max_parallel is 0, as there is no rate limit.
WrittenSlots(d) == IF Slots(d) = 0 THEN <<>> ELSE <<Slots(d)>>

ToDict(d) ==
    Doc([i \in DOMAIN d.tasks |->
             LET t == d.tasks[i]
             IN  TaskDoc(t.id, t.depends_on, t.provider, AsNumber(ParseDuration(t.timeout)),
                         RetryDoc(ReadRetry(t.retry)))],
        d.providers, AsNumber(ParseDuration(d.timeout)),
        RetryDoc(<<OrElse(ReadRetry(d.retry), PlainRetry)>>), WrittenSlots(d),
        d.output, TRUE)

ToDictRaises(d, extras) == d.tasks # <<>> /\ ~extras

-----------------------------------------------------------------------------
(* validate *)

Ids(d) == {d.tasks[i].id : i \in DOMAIN d.tasks}
TaskOf(d, id) == CHOOSE t \in {d.tasks[i] : i \in DOMAIN d.tasks} : t.id = id
Entries(t) == {t.depends_on[i] : i \in DOMAIN t.depends_on}
Deps(d, id) == Entries(TaskOf(d, id))

Duplicate(d) == Cardinality(Ids(d)) # Len(d.tasks)

UnknownDep(d) ==
    \E i \in DOMAIN d.tasks : ~(Entries(d.tasks[i]) \subseteq Ids(d))

None == "none"

UnknownProvider(d) ==
    \E i \in DOMAIN d.tasks :
        d.tasks[i].provider # None /\ d.tasks[i].provider \notin d.providers

Init ==
    /\ doc \in Docs
    /\ verdict = "parse"
    /\ color = [id \in Ids(doc) |-> "white"]
    /\ stack = <<>>

Parse ==
    /\ verdict = "parse"
    /\ verdict' = IF Malformed(doc) THEN "malformed" ELSE "validate"
    /\ UNCHANGED <<doc, color, stack>>

\* If several things are wrong, the code reports the first it meets.
Validate ==
    /\ verdict = "validate"
    /\ verdict' = IF Duplicate(doc) THEN "duplicate"
                  ELSE IF UnknownDep(doc) THEN "unknown dependency"
                  ELSE IF UnknownProvider(doc) THEN "unknown provider"
                  ELSE "search"
    /\ UNCHANGED <<doc, color, stack>>

-----------------------------------------------------------------------------
(* _assert_acyclic *)

Top == stack[Len(stack)]
Pop == SubSeq(stack, 1, Len(stack) - 1)
Done(frame) == [frame EXCEPT !.next = @ + 1]

\* A call of visit.  The interpreter refuses one that is too deep.
Visit(id, below) ==
    IF Len(below) = MaxDepth
    THEN /\ verdict' = "recursion"
         /\ UNCHANGED <<color, stack>>
    ELSE /\ color' = [color EXCEPT ![id] = "grey"]
         /\ stack' = Append(below, [node |-> id, next |-> 1])
         /\ UNCHANGED verdict

\* The outer loop takes the nodes in the order of the document, in Go in any.
Start(id) ==
    /\ verdict = "search" /\ stack = <<>>
    /\ color[id] = "white"
    /\ Visit(id, stack)
    /\ UNCHANGED doc

Looking == verdict = "search" /\ stack # <<>>
List == TaskOf(doc, Top.node).depends_on
MoreDeps == Top.next <= Len(List)
NextDep == List[Top.next]

MeetGrey ==
    /\ Looking /\ MoreDeps
    /\ color[NextDep] = "grey"
    /\ verdict' = "cycle"
    /\ UNCHANGED <<doc, color, stack>>

MeetWhite ==
    /\ Looking /\ MoreDeps
    /\ color[NextDep] = "white"
    /\ Visit(NextDep, Append(Pop, Done(Top)))
    /\ UNCHANGED doc

\* Slip: an entry that is done is looked at again.
MeetBlackAgain ==
    /\ Looking /\ MoreDeps
    /\ color[NextDep] = "black"
    /\ UNCHANGED vars

MeetBlack ==
    /\ Looking /\ MoreDeps
    /\ color[NextDep] = "black"
    /\ stack' = Append(Pop, Done(Top))
    /\ UNCHANGED <<doc, verdict, color>>

\* Slip: a node stays grey when its visit is over.
LeaveGrey ==
    /\ Looking /\ ~MoreDeps
    /\ stack' = Pop
    /\ UNCHANGED <<doc, verdict, color>>

LeaveNode ==
    /\ Looking /\ ~MoreDeps
    /\ color' = [color EXCEPT ![Top.node] = "black"]
    /\ stack' = Pop
    /\ UNCHANGED <<doc, verdict>>

Accept ==
    /\ verdict = "search" /\ stack = <<>>
    /\ \A id \in DOMAIN color : color[id] # "white"
    /\ verdict' = "accepted"
    /\ UNCHANGED <<doc, color, stack>>

Errors == {"malformed", "duplicate", "unknown dependency", "unknown provider",
           "cycle", "recursion"}

Loaded == verdict \in Errors \cup {"accepted"} /\ UNCHANGED vars

Step ==
    \/ Parse \/ Validate
    \/ \E id \in DOMAIN color : Start(id)
    \/ MeetGrey \/ MeetWhite \/ MeetBlack \/ LeaveNode \/ Accept

Next == Step \/ Loaded

Spec == Init /\ [][Next]_vars

\* The loader is a plain call: it goes on until it returns or raises.
FairSpec == Spec /\ WF_vars(Step)
=============================================================================
