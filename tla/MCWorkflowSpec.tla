--------------------------- MODULE MCWorkflowSpec ---------------------------
(***************************************************************************)
(* Documents of up to four tasks.  Every graph of three tasks with up to   *)
(* two entries per task, self-dependencies and repeated entries included;  *)
(* the shapes of four tasks that exceed the depth; documents that are      *)
(* wrong in other ways; all combinations of timeouts and slots, and all of *)
(* retry objects, on one task.                                             *)
(* Tasks that succeed take zero, one or two milliseconds.                  *)
(***************************************************************************)
EXTENDS RunReportProps, TLC

Lists == UNION {[1..n -> {"a", "b", "c"}] : n \in 0..2}

Plain(id, deps) == TaskDoc(id, deps, None, Absent, NoRetry)
PlainDoc(tasks) == Doc(tasks, {}, Absent, NoRetry, <<>>, <<>>, TRUE)

Graphs3 ==
    {PlainDoc(<<Plain("a", p), Plain("b", q), Plain("c", r)>>) : p, q, r \in Lists}

Graphs4 ==
    {PlainDoc(<<Plain("a", p), Plain("b", <<"c">>), Plain("c", <<"d">>), Plain("d", q)>>) :
        p \in {<<>>, <<"b">>, <<"d", "b">>}, q \in {<<>>, <<"b">>, <<"a">>}}

Wrong ==
    {PlainDoc(<<>>), PlainDoc(<<Plain("a", <<"x">>)>>),
     PlainDoc(<<Plain("a", <<>>), Plain("a", <<>>)>>),
     Doc(<<Plain("a", <<>>)>>, {}, Absent, NoRetry, <<>>, <<>>, FALSE)} \cup
    {Doc(<<TaskDoc("a", <<>>, "p", Absent, NoRetry)>>, ps, Absent, NoRetry, <<>>, <<>>, TRUE) :
        ps \in {{}, {"p"}}}

Times == {Absent, Text(0), Text(5), Other(5)}
Retries ==
    {NoRetry} \cup
    {RetryObject(max, backoff, base, jitter) :
        max \in {<<>>, <<2>>}, backoff \in {<<>>, <<"fixed">>}, base \in {Absent, Text(1)},
        jitter \in {<<>>, <<TRUE>>, <<FALSE>>}}

OneTask(t, r, dt, dr, slots) ==
    Doc(<<TaskDoc("a", <<>>, None, t, r)>>, {}, dt, dr, slots, <<>>, TRUE)

Policies ==
    {OneTask(t, NoRetry, dt, NoRetry, slots) :
        t, dt \in Times, slots \in {<<>>, <<0>>, <<2>>}} \cup
    {OneTask(Absent, r, Absent, dr, <<>>) : r, dr \in Retries}

Out == Object("f" :> Leaf("out"))
MCInputs == Object("x" :> Leaf("in"))
MCValues == {Out, Leaf("out"), MCInputs, Leaf("in"), Leaf("text"), NullValue}

\* Outputs that refer to tasks, to fields that are there or not, and to inputs,
\* also in a workflow with a task called input.
Refs ==
    {<<"a", "output">>, <<"a", "output", "f">>, <<"a", "output", "g">>, <<"a", "f">>,
     <<"input", "x">>, <<"input", "output">>, <<"input", "y">>, <<"b", "output">>}

WithOutput ==
    {Doc(<<Plain("a", <<>>), Plain(other, <<"a">>)>>, {}, Absent, NoRetry, <<>>, <<t>>, TRUE) :
        other \in {"b", "input"},
        t \in {Literal(Leaf("text"))} \cup {Exactly(p) : p \in Refs}
                \cup {Inline(<<p, q>>) : p, q \in Refs}}

MCSucceeded ==
    {Span("succeeded", 0, 1, <<>>, <<>>, <<>>, <<Out>>),
     Span("succeeded", 1, 2, <<"usage">>, <<>>, <<>>, <<Out>>),
     Span("succeeded", 2, 1, <<"usage">>, <<"decision">>, <<>>, <<>>)}
MCUnsuccessful ==
    {Span("failed", 1, 2, <<"usage">>, <<>>, <<"error">>, <<>>),
     Span("skipped", 0, 0, <<>>, <<>>, <<>>, <<>>)}

MCDocs == Graphs3 \cup Graphs4 \cup Wrong \cup Policies \cup WithOutput
=============================================================================
