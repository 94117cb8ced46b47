----------------------------- MODULE RunReport -----------------------------
(***************************************************************************)
(* The report of a run of a workflow that was loaded and accepted: the     *)
(* critical path (compute_critical_path of sdk-python/orchestrator/        *)
(* report.py, and CriticalPath of engine/internal/report/report.go) and    *)
(* writing the report and reading it back.                                 *)
(*                                                                         *)
(* How the run went is a free choice among the ways runs can go: a task    *)
(* succeeds only if what it depends on has.                                *)
(***************************************************************************)
EXTENDS WorkflowSpec, Templates, FiniteSetsExt

CONSTANTS
    Values,      \* the values of inputs and outputs, and their parts
    Inputs,      \* the inputs of the run
    Succeeded,   \* the spans a task that succeeds may leave
    Unsuccessful \* the spans a task that fails or is skipped may leave

VARIABLES
    spans,    \* spans[id]: the span of a task; empty while there is no run
    path,     \* the critical path of the report
    output,   \* the output of the run, <<>> for none
    reread    \* the spans of the report, written and read back

reportVars == <<spans, path, output, reread>>

\* A span.  Optional fields are sequences of at most one value.
Span(status, ms, attempts, llm, decisions, error, out) ==
    [status |-> status, duration_ms |-> ms, attempts |-> attempts, llm |-> llm,
     decisions |-> decisions, error |-> error, output |-> out]

IsSpan(s) ==
    /\ s = Span(s.status, s.duration_ms, s.attempts, s.llm, s.decisions, s.error, s.output)
    /\ s.duration_ms \in Nat
    /\ s.output = <<>> \/ \E v \in Values : s.output = <<v>>

\* The parts of values are values, and no task is called None.
ASSUME ReportAssumption ==
    /\ NullValue \in Values /\ Inputs \in Values /\ Missing \notin Values
    /\ \A v \in Values : v.kind = "object" => \A name \in DOMAIN v.at : v.at[name] \in Values
    /\ Inputs.kind = "object"
    /\ \A s \in Succeeded \cup Unsuccessful : IsSpan(s)
    /\ \A d \in Docs :
         /\ None \notin Ids(d)
         /\ d.output = <<>> \/ \E t \in {d.output[1]} : d.output = <<t>> /\ IsTemplate(t, Values)

-----------------------------------------------------------------------------
(* compute_critical_path *)

Ok(sp, id) == sp[id].status = "succeeded"
OkTasks(sp) == {id \in DOMAIN sp : Ok(sp, id)}
OkDeps(d, sp, id) == {o \in Deps(d, id) : Ok(sp, o)}

\* The longest any chain up to a task takes; the loader has ruled out cycles.
Cost(d, sp) ==
    LET cost[id \in DOMAIN sp] ==
            (IF Ok(sp, id) THEN sp[id].duration_ms ELSE 0)
                + Max({0} \cup {cost[o] : o \in OkDeps(d, sp, id)})
    IN  cost

\* The first entry of depends_on that is among the given tasks.
FirstListed(d, id, among) ==
    LET list == TaskOf(d, id).depends_on
    IN  list[Min({i \in DOMAIN list : list[i] \in among})]

\* Slip: the first dependency is followed, whatever it cost.
PrevFirst(d, sp, id) ==
    IF OkDeps(d, sp, id) = {} THEN None ELSE FirstListed(d, id, OkDeps(d, sp, id))

\* The dependency the path comes from.  In Python the search starts at a cost of
\* zero and wants more, so a dependency that took no time is not taken.
Prev(d, sp, id) ==
    LET cost == Cost(d, sp)
        most == Max({0} \cup {cost[o] : o \in OkDeps(d, sp, id)})
    IN  IF most = 0 THEN None
        ELSE FirstListed(d, id, {o \in OkDeps(d, sp, id) : cost[o] = most})

GoPrev(d, sp, id) ==
    LET cost == Cost(d, sp)
        most == Max({cost[o] : o \in OkDeps(d, sp, id)})
    IN  IF OkDeps(d, sp, id) = {} THEN None
        ELSE FirstListed(d, id, {o \in OkDeps(d, sp, id) : cost[o] = most})

\* From the end of the path back, and the other way round.
Chain(prev, end) ==
    LET walk[id \in DOMAIN prev] ==
            Append(IF prev[id] = None THEN <<>> ELSE walk[prev[id]], id)
    IN  walk[end]

\* Those of the tasks given that cost most.  Ties go by the order in which the
\* tasks ended, so any of them may be the end of the path.
Dearest(d, sp, S) == LET cost == Cost(d, sp) IN {id \in S : \A o \in S : cost[o] <= cost[id]}

\* The paths the report may have.
CriticalPaths(d, sp) ==
    LET prev == [id \in DOMAIN sp |-> Prev(d, sp, id)]
    IN  IF OkTasks(sp) = {} THEN {<<>>}
        ELSE {Chain(prev, end) : end \in Dearest(d, sp, OkTasks(sp))}

\* The Go path ends at a task that nothing successful depends on.
Sinks(d, sp) == {id \in OkTasks(sp) : \A o \in OkTasks(sp) : id \notin Deps(d, o)}

GoCriticalPaths(d, sp) ==
    LET prev == [id \in DOMAIN sp |-> GoPrev(d, sp, id)]
    IN  IF OkTasks(sp) = {} THEN {<<>>}
        ELSE {Chain(prev, end) : end \in Dearest(d, sp, Sinks(d, sp))}

-----------------------------------------------------------------------------
(* Report.to_dict and from_dict, of the task entries *)

\* What there is nothing of is not written, and no output.
SpanKeys(s) ==
    {"status", "duration_ms", "attempts"} \cup {key \in {"llm", "decisions", "error"} : s[key] # <<>>}

SpanDict(s) == [key \in SpanKeys(s) |-> s[key]]

GetOr(d, key, default) == IF key \in DOMAIN d THEN d[key] ELSE default

\* An output that is not written is not read.
SpanFromDict(d) ==
    Span(d["status"], GetOr(d, "duration_ms", 0), GetOr(d, "attempts", 0),
         GetOr(d, "llm", <<>>), GetOr(d, "decisions", <<>>), GetOr(d, "error", <<>>), <<>>)

-----------------------------------------------------------------------------
(* The end of run *)

\* Skipped tasks do not make a run fail.
RunFailed(sp) == \E id \in DOMAIN sp : sp[id].status = "failed"

\* What finished tasks gave; a task may give nothing.
Outputs(sp) ==
    [id \in OkTasks(sp) |-> IF sp[id].output = <<>> THEN NullValue ELSE sp[id].output[1]]

\* Best effort: an output that cannot be resolved is none.
RunOutput(d, sp) ==
    IF RunFailed(sp) \/ d.output = <<>> THEN <<>>
    ELSE LET v == Resolve(d.output[1], Scope(Inputs, Outputs(sp)))
         IN  IF v = Missing THEN <<>> ELSE <<v>>

\* How a run of the accepted workflow may have gone.
Runs(d) ==
    {sp \in [Ids(d) -> Succeeded \cup Unsuccessful] :
        \A id \in Ids(d) : Ok(sp, id) => OkDeps(d, sp, id) = Deps(d, id)}

ReportInit == Init /\ spans = <<>> /\ path = <<>> /\ output = <<>> /\ reread = <<>>

MakeReport ==
    /\ verdict = "accepted"
    /\ spans = <<>> /\ doc.tasks # <<>>
    /\ spans' \in Runs(doc)
    /\ path' \in CriticalPaths(doc, spans')
    /\ output' = RunOutput(doc, spans')
    /\ reread' = [id \in DOMAIN spans' |-> SpanFromDict(SpanDict(spans'[id]))]
    /\ UNCHANGED vars

ReportNext ==
    \/ Next /\ UNCHANGED reportVars
    \/ MakeReport

ReportSpec == ReportInit /\ [][ReportNext]_<<vars, reportVars>> /\ WF_vars(Step)
=============================================================================
