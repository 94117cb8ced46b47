--------------------------- MODULE RunReportProps ---------------------------
(***************************************************************************)
(* What a report must say, with the properties of loading.                 *)
(***************************************************************************)
EXTENDS RunReport, WorkflowSpecProps

Reported == spans # <<>>

\* The time a chain of tasks took: its milliseconds, counted.
Milliseconds(sp, S) == UNION {{id} \X (1..sp[id].duration_ms) : id \in S}
Duration(chain) == Cardinality(Milliseconds(spans, {chain[i] : i \in DOMAIN chain}))

\* A chain of tasks that succeeded, each of which waited for the one before.
IsChain(p) ==
    /\ \A i \in DOMAIN p : Ok(spans, p[i])
    /\ \A i \in 1..(Len(p) - 1) : p[i] \in Deps(doc, p[i + 1])

Chains ==
    UNION {{p \in [1..n -> OkTasks(spans)] : IsChain(p)} : n \in 1..Cardinality(OkTasks(spans))}

\* The critical path is a chain of tasks that succeeded, in the order they ran,
\* and there is one as soon as something succeeded.
PathIsAChain ==
    Reported => IsChain(path) /\ (path = <<>> <=> OkTasks(spans) = {})

\* And no chain took longer: it is the bottleneck of the run.
PathIsLongest ==
    Reported => \A p \in Chains : Duration(p) <= Duration(path)

\* The two engines name the same paths for the same run, if every task took some
\* time; tasks of zero milliseconds the Python engine leaves out.
SamePaths ==
    Reported /\ (\A id \in OkTasks(spans) : spans[id].duration_ms > 0) =>
        CriticalPaths(doc, spans) = GoCriticalPaths(doc, spans)

\* compute_critical_path finds the bottleneck of the run, and so does CriticalPath.
PathIsCritical == PathIsAChain /\ PathIsLongest /\ SamePaths

\* What a reference names in this run: a finished task, an input unless a task
\* named input has finished, or a part of those; <<>> if there is no such thing.
Part(v, name) ==
    IF v # <<>> /\ v[1].kind = "object" /\ name \in DOMAIN v[1].at
    THEN <<v[1].at[name]>> ELSE <<>>

Given(sp, ref) ==
    LET given[n \in 1..Len(ref)] ==
            IF n > 1 THEN Part(given[n - 1], ref[n])
            ELSE IF ref[1] \in OkTasks(sp)
            THEN <<Object([field \in {"output"} |-> Outputs(sp)[ref[1]]])>>
            ELSE IF ref[1] = "input" THEN <<Inputs>> ELSE <<>>
    IN  given[Len(ref)]

\* The output of a run is what its template says of this run: what it refers to,
\* as it is or as text; none if a reference names nothing; or what it says, if it
\* refers to nothing.
OutputIsOfThisRun ==
    Reported /\ doc.output # <<>> /\ ~RunFailed(spans) =>
        LET template == doc.output[1]
            refs == template.paths
        IN  output = IF \E i \in DOMAIN refs : Given(spans, refs[i]) = <<>> THEN <<>>
                     ELSE IF template.form = "literal" THEN <<template.v>>
                     ELSE IF template.form = "exact" THEN Given(spans, refs[1])
                     ELSE <<TextOf([i \in DOMAIN refs |-> Given(spans, refs[i])[1]])>>

\* A report that is written and read back has the same spans, but for the outputs.
ReportReadsBack ==
    Reported => reread = [id \in DOMAIN spans |-> [spans[id] EXCEPT !.output = <<>>]]

\* The report is about this run, and stays so when it is written and read.
ReportIsTrue == OutputIsOfThisRun /\ ReportReadsBack
=============================================================================
