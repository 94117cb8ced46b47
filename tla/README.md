# A verification project for the workflow orchestrator

The repository runs workflows: a YAML document names tasks, what each depends
on, and policies (retries, timeouts, rate limits, what to do when a task
fails); an engine decides what runs when, calls the client for each task (a
"skill invocation"), and gives a report. There are two engines: the Go engine
(`engine/`), spoken to over stdio or gRPC, and a Python engine
(`sdk-python/orchestrator/engine.py`) that runs the skills in its own process.
Paths below are relative to `src/`.

## 1. Inventory

| component | source | state | operations | interacts with |
|---|---|---|---|---|
| Go scheduler | `engine/internal/scheduler/scheduler.go` | in-degrees, ready list, in-flight count, results, spans, totals, errors (main loop only); slot channel, done channel, run context (shared) | `Run`: dispatch, receive, drain, skip, report; `executeTask`: resolve, slot, tokens, execute, back off | the executor (a transport), limiters, event channel, the client's context |
| Workflow spec | `engine/internal/spec/spec.go` | none (a parsed document) | `Parse`, `Validate`, `detectCycle`, effective policies | the scheduler reads it |
| Templates | `engine/internal/spec/template.go` | none | `Resolve`, path lookup | task inputs at dispatch, output at the end |
| Rate limiter | `engine/internal/ratelimit/bucket.go` | tokens, last refill time, mutex | `Acquire`, refill | every task goroutine shares one global and one bucket per provider |
| Report, critical path | `engine/internal/report/report.go` | none | `CriticalPath` | built by `Run` |
| Stdio transport | `engine/transport/stdio/stdio.go` | pending invocations, two mutexes | `Execute`, `PumpIncoming`, `ReadStartRun`, sends | the scheduler calls `Execute`; the pump delivers results and cancels the run |
| gRPC transport | `engine/transport/grpc/server.go` | pending invocations | `Execute`, `dispatch`, the receive pump | as stdio |
| Engine command | `engine/cmd/orchestrator/main.go` | bounded event channel, run context | `runEmbedded`, `runServer` | wires scheduler, transport and event writer together; the Python SDK runs it |
| Python engine | `sdk-python/orchestrator/engine.py` | ready, running futures, results, spans, skipped, semaphore, current inputs; the executor's threads | `run`, `_execute_task`, `_invoke`, `run_sync`, `_run_go_engine` | registry, limiters, skills; the Go engine as a subprocess |
| Python spec, limiter, report | `sdk-python/orchestrator/{spec,ratelimit,report}.py` | as the Go ones | as the Go ones | the Python engine |
| Skill registry | `sdk-python/orchestrator/registry.py` | handlers by name; per attempt a context with usage, tool calls, decisions | register, look up; `call_tool`, `llm` | the Python engine, the adapters |
| MCP integration | `sdk-python/orchestrator/mcp_integration.py` | servers by name, a lock | register, get or spawn, call, clean up | skills |
| LLM adapters | `sdk-python/orchestrator/llm.py` | none between calls | one request per call | external services |
| Wire protocol | `proto/orchestrator.proto` | none | message formats | the gRPC transport |

What is hard, and what makes each part correct:

- **Go scheduler.** One goroutine per dispatched task races with its siblings,
  with cancellation and with the main loop; slots and tokens are released by
  hand on four paths; a `fail_fast` failure drains what is in flight; a
  `continue` failure skips what is downstream while the rest goes on. Correct
  means: a task runs only after what it depends on succeeded, and sees those
  results; no more than `max_parallel` skills run at once and no slot is lost;
  a run always ends with a verdict about every task; the verdict is true; a
  task is skipped only for a reason; retries are bounded and counted.
- **Workflow spec.** A cyclic document must be rejected, since the scheduler
  would silently never start the tasks of a cycle.
- **Templates.** A reference either finds the output of a task that has
  finished, or makes the task fail; which one must not depend on timing.
- **Rate limiter.** In any window no more requests pass than the bucket allows,
  and every waiter that is not cancelled is served.
- **Report.** The critical path is the longest chain of the tasks that ran.
- **Transports.** A result reaches exactly the invocation it answers; late,
  duplicate and unknown results disturb nobody; neither the end of the input nor
  a client that stops reading leaves tasks waiting.
- **Engine command.** The engine must not wait for whoever reads its events;
  every event is written once and in order, or is lost for a known reason, and
  the exit status tells a report from an error.
- **Python engine.** The same promise as the Go scheduler, under asyncio: what
  happens between two awaits is atomic, `asyncio.wait` may return several
  finished tasks at once, and cancellation is an exception raised at an await.
- **Skills.** A skill that is no coroutine runs on a thread, which a timeout
  cannot end: what it does afterwards must not be mistaken for the work of a
  later attempt, and what was used must be what is reported.
- **LLM adapters.** The tokens a skill is told of are the tokens the service
  counted.
- **MCP integration.** Threads that race for a server share one, and nothing is
  connected that nobody will disconnect.

`PROJECT.json` lists the hazards of the code at their lines, with the
properties that would catch them.

## 2. The modules

| module | what it is |
|---|---|
| `TaskGraph` | the dependency graph `Validate` accepts, with repeated entries |
| `WorkflowRun` | the abstract specification: what one run promises its client |
| `Scheduler`, `SchedulerProps` | `Run` and `executeTask` in full; the properties and the refinement mapping to `WorkflowRun` |
| `PyEngine`, `PyEngineProps` | `run` and `_execute_task` of the Python engine in full; the mapping to the same `WorkflowRun` |
| `Executor` | the abstract contract of `Execute`, which `Scheduler` assumes |
| `Transport`, `TransportProps` | `Execute` and the pump of both transports, the client and time; the mapping to `Executor` |
| `TokenBucket`, `TokenBucketProps` | the rate limiters of both engines |
| `WorkflowSpec`, `WorkflowSpecProps` | reading, validating and writing a workflow document in Python, and reading it in Go |
| `Templates` | references to inputs and outputs |
| `RunReport`, `RunReportProps` | from the spans of a run to its report: critical path in both languages, output, writing and reading back |
| `LlmAdapters` | how many tokens each adapter reports for an answer |
| `SkillRun`, `SkillRunProps` | attempts, threads, skill contexts and usage in a run of the Python engine |
| `MCPRegistry`, `MCPRegistryProps` | MCP servers, their registry, calls and cleanup |
| `EngineProcess`, `EngineProcessProps` | the Go engine as a process, its event channel and output, and the SDK that runs it |
| `SchedulerProofs`, `PyEngineProofs`, `TransportProofs`, `TokenBucketProofs`, `RunReportProofs`, `SkillRunProofs`, `MCPRegistryProofs`, `EngineProcessProofs` | the proofs, one module per component (section 4); loading and reports share one |
| `MC*` | small instances for TLC (`MCGraphs`: task graphs of both engines) |

    WorkflowRun                         Executor
      ^        ^                           ^
      |        |                           |
    Scheduler  PyEngine                  Transport
      |        |        (Execute of Scheduler: the contract of Executor)
      TaskGraph

    RunReport            SkillRun        EngineProcess   MCPRegistry   TokenBucket
      |       |             |
    WorkflowSpec Templates  LlmAdapters

The other modules look closer at something the engines take as given:
`TokenBucket` at the waits `GrantGlobal`, `GrantProvider` and `Grant`;
`WorkflowSpec` at where an acyclic graph comes from; `RunReport` at what
`Return` makes of the spans; `SkillRun` at the step `InvokeReturns` of
`PyEngine`, which there is a single one; `EngineProcess` at the events that
`Scheduler` only records; `MCPRegistry` at what a skill's tool calls do.

The properties a run checks are often conjunctions of named parts, each stated
and commented on its own: `SkipsExactly` is `SkipJustified` and
`FailurePropagates`, `TransportInv` the type invariant, `PendingIsOpen` and
`PumpNeverBlocks`, and so on.

A few definitions are preceded by a variant marked *Slip*: the
same definition with a mistake one could make in the code. Nothing uses them;
each shows that some property notices that mistake.

### How `Scheduler` corresponds to the code

The main loop's local variables are variables of the module with the same
names. `ready` and `errors` are sets: all ready tasks are dispatched before the
next receive, so their order changes nothing, and each task reports at most one
error. `results` is the set of the tasks whose output is stored: contents are
left out.

| code | model |
|---|---|
| `dispatch`, the goroutine and its copy of the results | `Dispatch` |
| template resolution, its error return | `ResolveInputs`, `ResolveFails` |
| `select` on the slot channel or the context | `AcquireSlot`, `CancelAtSlot` |
| `Acquire` of the global and the provider bucket | `GrantGlobal`, `GrantProvider`, `CancelAtLimiter` |
| `exec.Execute`, release of the slot, retry decision | `ExecSucceeds`, `ExecFails` |
| `sleepWithJitter` and the next attempt | `EndBackoff` |
| a receive from `doneCh` in the loop | `ReceiveSuccess`, `ReceiveContinue`, `ReceiveFailFast` |
| the drain, `markAllUndispatchedSkipped` | `Drain`, `EndDrain` |
| `markDescendantsSkipped` | `Descendants`, the least set closed under "has a child without a span" |
| verdict, output and report | `Return` |
| the caller cancelling its context | `ClientCancel` |

- `doneCh` has room for every span, so a send never blocks. A goroutine that
  has returned may be delayed before its send, so any task that is `"done"` can
  be the next one received.
- A bucket that is not configured grants at once, so the step is skipped. A
  configured one is a wait of unknown length, ended by a grant or a cancelled
  context; the tokens themselves are in `TokenBucket`.
- What `Execute` returns is what its contract allows (`scheduler.go:72-75`): an
  answer, a transport error, or the error of a context that timed out or was
  cancelled.
- `LooseRefs` and `LooseOutput` name the templates that reach into fields an
  output may lack: they may fail although the task they name has succeeded.
- `retry.max` ranges over the integers: no code checks its sign.
- `events` records what was offered to the event stream. The stream may drop
  events (`emit` never blocks); the channel itself is in `EngineProcess`.
- Left out: contents of inputs and outputs, durations, LLM usage, decisions,
  tool calls, error texts, and the length of a backoff.

### How `PyEngine` corresponds to the code

Everything shares one event loop, so a step of the model is at most what a
coroutine does between two awaits, and while `run` is between two awaits
(`Yielded` is false) no other coroutine moves. `run` is cut into one step per
task it dispatches, handles or cancels only because the order within a batch is
arbitrary (`asyncio.wait` returns a set).

| code | model |
|---|---|
| the inner `while ready` and `ensure_future` | `Dispatch` |
| the two `asyncio.wait` | `Await` and `Wake`; `EndDrain` |
| `for fut in done` and `fut.result()` | `TakeSucceeded`, `TakeContinue`, `TakeFailFast`, `TakeRaises` |
| `f.cancel()` | `Cancel` puts the task in `asked`; its next step is `ThrowCancelled` |
| `resolve_template`, before the `try` | `StartTask`, `StartRaises` |
| `async with sem` and the two `acquire` | `AcquireSlot`, `Grant` |
| the end of `_invoke`, with its `except` clauses | `InvokeReturns` |
| `asyncio.sleep` between attempts | `EndBackoff` |
| another `run` on the same `Orchestrator` | `OtherRunStarts`: it replaces `_current_inputs` |

- `skipped` is not a variable: it is the tasks whose recorded span is a bare
  "skipped" one while the loop goes on.
- A skill may end by raising `CancelledError` by itself (`"cancelled"` among
  `SkillOutcomes`). A skill that swallows the cancellation it is asked for is
  left out; so is the `wait_for` of Python 3.11 and earlier, which returns the
  result of a skill that ended at the moment of its cancellation.
- `max_parallel` is taken to be positive: no code checks it, and with 0 every
  task waits for ever at the semaphore.

### How `Transport` corresponds to the code

One goroutine is in `Execute` per invocation; `exec[i]` says where. `pending`
is the map, `chan[i]` the number of results in the channel made for `i`, `pump`
the pump with the invocation it holds a result for after it released the lock.
The lock of the map is held for single map operations, so each of these is one
step. `outMu` is different: it is held across a write, and a write waits while
the pipe is full. `output` is what is in the pipe, with room for `PipeRoom`
lines, some of which may be there before the first call (events, say). A call
that wants the lock or is in its write looks at no context.
`runDone` is the context the pump cancels; `timedOut` are the calls whose own
context has ended.

The client reads when it likes, or never. It may answer anything it has read, up
to `MaxAnswers` times, also too late, and with a line that is too long; it may
cancel once, close its side and read on, or be gone.

| code | model |
|---|---|
| registration; `outMu.Lock`; the write; `select`; deferred delete | `Begin`; `LockOut`; `Written` or `WriteFails`; `TakeResult` or `SeeDone`; `Return` |
| `readOne` with a scanner of its own | `Start` drops any part of what is already in the input |
| a `skill_result`: look-up; send | `ReadAnswer`; `SendResult` |
| `cancel_run`; the check after each message | `ReadCancel`; `Check` |
| `Scan` returns false: nothing more; a line over 4 MB; a read error | `InputEnds`; `MeetLong`; `Break` |

The variable `kind`, which never changes, says which transport it is. On gRPC
there is no lock around a send (flow control makes it wait all the same),
messages are not lost at the start, there is no check after a message, and
whatever ends the stream cancels the run. When a write fails, the model does not
let the client answer that invocation. A reader that is gone makes the write
fail; on the real stdout the Go runtime then ends the whole process, which is
more than the model has.

### How `TokenBucket` corresponds to the code

Time passes in ticks (`Tick`), and amounts are counted in units of one token
divided by the ticks of a window, so that a tick adds a whole number of units
and nothing is rounded. `tokens` and `elapsed` are the two fields of the bucket:
what it held when it was last refilled and the time since; `Level` is the refill
with its cap. A call is one caller's `acquire`: `Call` (with the checks of
`bucket_for`, the constructor and `acquire` in `Refused`), then turns of its
loop, `Grant` or `Sleep`, and for Go `Cancel`. `left[c]` is how long it still
sleeps: the deficit over the rate, rounded to a tick either way (`Naps`); woken
a little early it finds too little and sleeps again. A limit with `checked` is Python's, which refuses a rate that is not
positive and a request larger than the bucket; the Go bucket has no such check,
and with a rate of zero a call there waits for good. Both release their lock
before they sleep, so a turn of the loop is one step. `burst` belongs to the properties: the
most by which the grants of any period up to now exceed what the rate allows
for that period.

### How `WorkflowSpec`, `Templates` and `RunReport` correspond to the code

A document is a record (`Doc`) with what the readers look at: tasks, their
dependencies in order, provider, timeout and retry, each given or not. A retry
object has all its four fields, each given or not (`RetryObject`), and the two
readers fill in what is missing in their own ways (`ReadRetry`, `GoReadRetry`);
a backoff that is neither `none` nor `fixed` is exponential for both (`Growth`). A
duration is the text of one (`Text`), something the pattern refuses (`Other`),
or `Absent`; `ParseDuration` is what `parse_duration` makes of it. `Workflow`
and `GoWorkflow` are what the two readers fill in, `ToDict` what Python writes,
with durations as numbers. `Parse`, `Validate` and the search are steps: `stack`
are the calls of `visit` in progress, each with the position in its list of
dependencies; `Visit`, `MeetGrey`, `MeetWhite`, `MeetBlack`, `LeaveNode` are its
branches. `MaxDepth` is Python's recursion limit: a deeper chain is refused with
`RecursionError`.

`Templates` has values that are leaves or objects, paths as sequences of names,
and templates that are one reference, text with references, or no template;
`Field` and `Lookup` are the code's walk, name by name. A scope has `input` and
every task with an output; a task named `input` takes its place. `Values` are
the values of inputs and outputs, closed under taking parts.

`RunReport` takes any spans a run may end with: `MakeReport` computes path,
output and the report as read back. The cost of a task is a recursive function;
where the code breaks ties by the order of a dictionary, the model has all the
paths it may give (`CriticalPaths`, `GoCriticalPaths`). The properties say it
without these recursions: a chain's duration is the number of milliseconds its
tasks took (`Milliseconds`), and what a reference names is said of the run's
tasks and inputs (`Given`), not of the scope the code builds.

### How `SkillRun` and `LlmAdapters` correspond to the code

All tasks are dispatched at the start. `Invoke` is the coroutine of a task from
the loop head to the await in `_invoke`; `body[t][n]` is the skill called in
attempt `n`, which lives on when `wait_for` gives up on it, if it is on a
thread: `LetGo` takes a queued call out of the executor's queue, ends a
coroutine, and leaves a running thread alone. `TimeOut`, `Resume`,
`EndBackoff`, `ThrowCancelled` are the ways the coroutine goes on. A body may call
a tool or the LLM, once or several times up to `MaxUses`; `LlmReturns` adds
what the adapter reports to the context of its own attempt, also after that
attempt is over. `Take` adds a span to the totals, `Report` is the end of
`run`, and `RunSyncReturns` the end of `asyncio.run`, which joins the threads.
(Python 3.12 and later give up on them after five minutes; the model has the
join.) `billed` belongs to the properties: what the services have counted.

`LlmAdapters` has one operator per adapter for the tokens it reports: those the
service has counted, or the words of prompt and text (`mock`, `huggingface`).
Texts, tools and model names go through an adapter without leaving a trace in
it; they are left out.

### How `MCPRegistry` corresponds to the code

`servers` are the objects created so far, `cache` the registry's dictionary,
`lock` its lock. `Lock`, `Cached`, `UnknownServer`, `Spawn`, `Store` are
`get_or_spawn`; `Connect` and `Use` are `call_tool` of a server, which connects
again if it finds itself disconnected; `Leave` is the `finally` of the wrapper,
which disconnects a server that is not managed. `BeginCleanup`, `Disconnect`,
`Clear` are `cleanup`, which holds the lock but does not wait for calls that
already have their server; `crossed` (of the properties) are the servers it
disconnected under such a call.

### How `EngineProcess` corresponds to the code

`main` is the main goroutine of `runEmbedded`, `pump` the goroutine that writes
events, `chan` the channel, `out` the lines on stdout. `writing` says that the
second goroutine holds `outMu`, from `BeginWrite` to `EndWrite`: `SendReport`
waits for it. The lines of `main` are one step each, since the other goroutine
can only begin its line before or after. `SendFails` is `log.Fatalf`: status 1
without a line. The run is abstracted to
emitting `events` events and ending, or to not ending if `timed` is false: a
task without a timeout waits for an answer, and the SDK has closed the engine's
input. `Offer` is the `select` with a default in `emit`. `code` is the exit
status; with it everything stops, also the writing goroutine. The SDK is
`PrepareFails` (inputs, `to_dict` or the binary) or `Spawn`, then `Collect` or
`Expire` after the hour `communicate` waits. As `to_dict` stands (section 6) it
gets to `Spawn` only for tasks somebody gave the missing attributes.

## 3. The runs

The engines run on workflows of four or five tasks, the smallest on which the
shapes that matter fit together: a fan-out and a join with an entry listed twice
(`Diamond`), two independent tasks beside a chain (`Wide`), and the diamond with
a task beside it (`Kite`). Two slots make contention happen with two or three
tasks; one retry is enough to have a first and a last attempt; further retries
repeat the same steps. No state constraint is used: every bound is in the
workflow or in a constant.

- `transport`: two calls, one to be answered and one to disturb it; two answers
  to an invocation are enough to fill its one-slot channel and to block on it,
  and one line the client has not read to make the second call wait for the lock
  or for room.
- `bucket`: three calls, one of two tokens, so that one may be overtaken twice;
  capacities 0 to 3 and windows of 1, 2 and 5 ticks, so that waits are shorter
  and longer than a tick and do not divide evenly.
- `loading`: every graph of three tasks with up to two entries each (cycles,
  repetitions, self-references), four-task chains against a depth of 3, all
  combinations of timeouts and slots and all pairs of retry objects (the task's,
  the default) on one task, and for every accepted document every mix of spans
  with durations 0 to 2.
- `skills`: two slots and two threads for three tasks, so that abandoned
  threads can fill the pool and a queued call be given up; one retry; one or
  two uses per attempt.
- `mcp`: two threads race for two managed servers, one calls twice, so that a
  call can come before, across and after the cleanup; one has servers of its own.
- `engine_process`: room for two events and up to six of them: the channel
  fills, drains and fills again.

| run | instance | question |
|---|---|---|
| `sched_diamond` | diamond, 2 slots, one task fails fast, the others continue; one retry, timeouts, limits, loose templates, client cancellation | the safety invariants and finality of spans, in every interleaving |
| `sched_wide` | wide, 2 slots, both policies, one retry, a task with `retry.max = -1`, a template of the chain's second task that names a task outside `depends_on`, a timeout, transport errors, cancellation | `Scheduler` implements `WorkflowRun`; nothing starts after a `fail_fast` failure; the report adds up; a cancelled run ends, and any run ends unless a skill without a timeout never answers |
| `py_engine` | kite, 2 slots, one task fails fast, the others continue; one retry, timeouts, limits, a loose template, a template that names a task outside `depends_on`, skills that end by `CancelledError`, a second run on the orchestrator | the safety invariants of the Python engine; only a template makes `run` raise; `PyEngine` implements `WorkflowRun` too; a `fail_fast` failure ends the run; it returns or raises unless a skill without a timeout never returns |
| `transport` | both transports, two calls, one with a timeout, two answers each, one may be too long, read errors, cancel, close, a client that stops reading | the pending map is exact; an invocation answered once never blocks the pump; one writer at a time; `Transport` implements `Executor`, and a call returns once its context is done if the client keeps reading; if nobody answers twice and reading does not fail, every answer arrives; whatever ends a gRPC stream releases the calls |
| `bucket` | three calls at 26 buckets | the limit holds in every window; no refill is lost; nobody sleeps past its tokens; every call that can be served is; the Python checks leave none waiting for ever |
| `loading` | 3030 documents and all their reports | what is accepted can be run, what is refused has a fault, the search is sound at every step and ends; Go and Python read a document that leaves nothing open alike; the critical path is the longest chain, the same in both if tasks take time; the output is of this run; a report reads back |
| `skills` | three tasks, a thread that may be abandoned, a coroutine, `fail_fast`, with and without an adapter | only threads outlive their attempt, none outlives `run_sync`; tokens and tools are reported as used; `run` reports and `run_sync` returns, unless threads that were given up never end |
| `mcp` | two sharing threads, one with its own servers, registration at any time, one cleanup | callers share one server per name; a server is connected only while somebody answers for it; calls and cleanup end |
| `engine_process` | channel of 2, up to 6 events | every event is written once in order, dropped by a full channel, or lost with the process; the report overtakes at most one channel full and one event; status 0 means a report of the run; the engine exits although the event writer may take no event or begin no line any more; the SDK gets an outcome |
| `doc_*` | the instances of `transport` and `loading`, or smaller, one per statement | section 6: statements of comments that the code does not keep |

Deadlock is checked in every run but those of `MCPRegistry` and `EngineProcess`, where every
thread may be through with its calls and the process gone. After `Return` the action `Finished` of each
engine stands for the process having nothing left to do, and `Idle` of
`Transport` for everybody waiting for the client, for time, or, in the pump's
case, for room in a channel. So a passing run of an engine also shows that the
main loop and the tasks never wait for each other in a circle. (A skill that
never answers is not a deadlock in this sense: `ExecReturns` stays enabled, and
is simply never taken.)

`AnsweredRunEnds` and `PyAnsweredRunEnds` are conditional, so that one run has both skills that
must end and skills that need not: the premise is that a task without a
timeout is not for ever in the hands of its skill.

### Fairness

- `WF(MainStep)` and `WF(TaskStep(t))`: the Go runtime runs every goroutine
  that can run, and a token bucket refills, so a task waiting for a token gets
  one or is cancelled. The slot wait needs no strong fairness here: the number
  of attempts is bounded, so a slot that is free again and again eventually
  stays free.
- `WF(ContextEnds(t))`: `Execute` returns once its context is done, that is,
  after the run's cancellation or after the task's own timeout. This is the
  executor's documented contract (`scheduler.go:72`). The transports keep it only
  while the client reads what they write (`KeepsContract`; `doc_execute_returns`
  has a client that does not), so `RunEnds` holds of clients that read.
- `PyEngine`: the event loop runs every callback that is due, so `run` and
  every coroutine goes on while it can (`WF(MainStep)`, `WF(TaskStep(t))`); a
  skill ends for certain only if `wait_for` ends it, so `WF(SkillEnds(t))` is
  assumed of tasks with a timeout only. `asyncio.Semaphore` is first come,
  first served, and the attempts are bounded, so weak fairness is enough.
- `Transport`: the pump and every call go on while they can (`WF(PumpStep)`,
  `WF(ExecStep(i))`), which `transport` uses to show what `WF(ContextEnds(t))`
  assumes of `Execute`. Fairness says nothing of the client: a write that waits
  for it may wait for good. What needs the client to read, or reading to work,
  has that as a premise: `ClientKeepsReading` in `KeepsContract`, `ReadingWorks`
  in `SingleAnswersArrive`.
- `TokenBucket`: time passes and every caller takes its turn. A large request
  can be overtaken while it sleeps, but each caller asks once, so the others run
  out.
- `WorkflowSpec`, `RunReport`: a sequential program takes its next step.
- `SkillRun`: the loop runs what is due, timers included, and the executor
  starts what it has a thread for. A skill with a timeout may run for ever, on
  the loop or on a thread; one without is taken to end, since without that
  nothing could be said of the run (`PyRunEnds` is about the same premise).
- `MCPRegistry`: every thread that can run does; nobody has to register a
  server or begin a call, and the cleanup begins when the run's own threads are
  through (which `skills` shows of `run_sync`).
- `EngineProcess`: the main goroutine and the SDK go on, and a line the event
  writer has begun is finished (`WF(EndWrite)`: `communicate` reads until the
  engine ends, so no write waits for good). That the writer takes an event or
  begins a line is not assumed, and that the hour passes is a premise inside
  `SdkEnds`.
- Nothing is assumed of a skill of the two engines otherwise: without a timeout and without
  cancellation it may stay silent for ever, and then the run does too.

## 4. What is proved

Every safety property that a passing run checks is also a theorem, for every
value of the constants. A run shows
that the property is worth proving and that the assumptions can be met; the
theorem says that the small instance was not the reason it held. Each module of
proofs assumes what its component's `ASSUME` says and nothing else.

| module | for every | theorems |
|---|---|---|
| `SchedulerProofs` | finite set of tasks, acyclic `depends_on` with or without repeated entries, policy, `max_parallel` | all of section 4.1 |
| `PyEngineProofs` | the same, and any references of templates | `PyCoreCorrect`, `PyBookkeepingCorrect`, `PyOrderKeptCorrect`, `PyRaisesForTemplatesOnlyCorrect`, `PyReportIsRightCorrect`, `PyKeepsPromiseCorrect` |
| `TransportProofs` | finite set of invocations, number of answers, room in the pipe, both transports | `TransportCorrect`, `ContractStepsCorrect` |
| `TokenBucketProofs` | set of callers, amounts, limits | `LimitIsExactCorrect`, `NoOversleepCorrect` |
| `RunReportProofs` | set of documents, recursion limit, inputs, spans, values | `SearchIsSoundCorrect`, `SameReadingCorrect`, `PathIsCriticalCorrect`, `ReportIsTrueCorrect`, `GraphOfAcceptedCorrect` |
| `SkillRunProofs` | finite set of tasks, retries, timeouts, threads, permits, sizes of answers | `SkillsAccountedForCorrect`, `UsageAccountedCorrect` |
| `MCPRegistryProofs` | set of threads and names, number of calls | `ServersAccountedForCorrect`, `OneServerPerNameCorrect` |
| `EngineProcessProofs` | capacity of the channel, number of events | `OutputAccountedForCorrect`, `StatusTellsReportCorrect` |

A theorem `XCorrect` says `Spec => []X` (or `Spec => X` for an action property
or a refinement) of the property `X` of section 3; for the last three of
`RunReportProofs` the specification is `ReportSpec`.

### 4.1 The Go scheduler

| theorem | says |
|---|---|
| `TypeCorrect` | `TypeOK` is invariant |
| `CoreCorrect` | the inductive invariant `CoreInv` is invariant |
| `SlotsCorrect` | slots are counted exactly and bounded by `max_parallel` |
| `DependencyOrderCorrect` | tasks start only after their dependencies succeeded, with their results |
| `RunIsCompleteCorrect` | the loop ends only with a span for every task and no goroutine left |
| `SkipsExactlyCorrect` | tasks are skipped only for a reason (`SkipJustified`), and everything downstream of a failure is (`FailurePropagates`) |
| `SuccessMeansCompleteCorrect` | "succeeded" is true |
| `AttemptsAreUsedUpCorrect` | attempts stay within the policy, and a task fails by its skill only after all of them |
| `EventsCoherentCorrect` | started with at most one end, or skipped |
| `ReportAccountsCorrect` | without a drain, errors and retries of the report are those of the tasks that ran |
| `HistoryStandsCorrect` | the two action properties, `SpansAreFinal` and `FailFastStops` |
| `KeepsPromiseCorrect` | `Scheduler` implements `WorkflowRun` |

None of the interesting invariants is inductive: that the loop ends only when
everything is done depends on how in-degrees, the ready list, the in-flight
count, spans and skipping go together. `CoreInv` says how, in six parts:

- `SpanInv`: a goroutine past dispatch has no recorded span until it is
  received; a received one has its own; a recorded span without a goroutine is
  a bare "skipped".
- `PhaseInv`: which phases go with `runFailed`, and what is left in each.
- `ResultInv`: the results are exactly the tasks received as succeeded (the
  drain stores none), and every dispatched task's dependencies are among them.
- `ReadyInv`: `indeg[c]` is the number of entries of `depends_on` that do not
  name a finished task, counted with repetition; a task whose count is zero is
  ready or dispatched, and the other way round.
- `SkipInv`: while the loop goes on, skipping is closed downwards.
- `CountInv`: `inFlight` is the number of unreceived goroutines.

`RunIsComplete` then follows from acyclicity (`LoopEndsComplete`): with nothing
ready and nothing in flight, take the set of tasks without a span; if it were
not empty, one of its tasks would depend on none of the others, so all its
dependencies have spans; they all succeeded, or it would have been skipped; so
its count is zero, so it is ready or has been dispatched, and neither can be.
`SuccessMeansComplete` uses acyclicity once more, on the set of skipped tasks.
For repeated dependencies the proof needs the cardinality facts about
`Positions` at the head of the module (`CountingOff`), and for skipping that
`Descendants` is the least closed set (`DescendantsLemma`); the Python engine's
proofs begin with the same lemmas. The refinement maps every step of
`Scheduler` to one step of `WorkflowRun` or to a stutter: `Dispatch` starts,
the receives finish, `EndDrain` aborts, `Return` concludes.

`ReportAccounts` speaks of sums over tasks and counts instead of adding: the retries are the elements of `Retried`, one pair of a task
and a number per attempt after the first, so that a receive adds a disjoint set
of known size. A task whose `retry.max` is negative is received with no attempt
at all, and the code then adds minus one; `Untried` counts those.

### 4.2 The Python engine

`CoreInv` of `PyEngineProofs` has parts like the scheduler's (results are in
`ReadyInv`, and there is no count of what is in flight) and one more,
`RaiseInv`: only the drain cancels, and a future raises because of its template
or because it was cancelled. That is why nothing but a template gets out of
`run`. What a coroutine may do between two awaits is said once (`TaskMove`) and
every action of a task is shown to be one, so the parts of the invariant are
shown for one kind of step. The semaphore has an invariant of its own
(`SlotInv`), since its bounds follow only from its accounting. The engine keeps
the same promise as the scheduler, `WorkflowRun`, although under `fail_fast` it
drops spans of futures that have ended: `PyTaskState` shows them as skipped from
the moment the loop of cancels has passed them, and the proof is that nobody
could have seen them otherwise.

### 4.3 Transports

`PumpNeverBlocks` is not inductive. `AnswerInv` says where the answers to an
invocation can be: if one was given, it is in the input, with the pump or in
the channel, in one place only; then the pump's send finds the channel empty.
`OneWriter` and the bound on `output` are part of the invariant as they stand.
`OutcomeInv` ties the outcome of a call to a reason. With both, every step is a
step of `Executor` (`ContractStepsCorrect`). The contract is the conjunction of
these steps (`Steps`) and of returning once the context is done (`Returns`);
the second is liveness, holds of a client that keeps reading, and only
`transport` shows it.

### 4.4 The rate limiter

`LimitIsExactCorrect` rests on one equation, `Balanced`: what the
bucket would hold after a refill is its capacity less `burst`. Capping a refill at the capacity and
letting a quiet period end at an excess of zero are the same operation, a
grant takes from one side what it adds to the other, and a turn that ends in a
sleep refills first, so no step disturbs it. `NoOversleepCorrect` needs `Rested`: a
sleeper's remaining time, at the full rate, is less than what it misses; time
passing lowers both sides alike, and a grant to somebody else only raises what
is missing.

### 4.5 Loading and reports

The search is correct because of `Searching`. `Stacked`: the grey nodes are the
calls in progress, each once; each waits for the last entry it has looked at;
the entries before are black. `Blackened`: black nodes depend on black nodes
only, and no set of them is without a node that depends on none of the set.
The second half is what the search has at its end, when all nodes are black
(`Accept`). It survives `LeaveNode` because the node that turns black has only
black dependencies and was not a dependency of any. A grey dependency closes a circle: the
nodes from its call to the top of the stack each depend on another of them
(`GreyMeansCycle`). A call refused for its depth has a stack that is a chain of
`MaxDepth` nodes, all different, and one node more (`TooDeep`).

These theorems are about `Spec` of `WorkflowSpec`. A report is made by
`ReportSpec`, which implements `Spec` (`ReportLoads`), so what the loader
guarantees is there when a report is made. `GraphOfAcceptedCorrect` is the same
guarantee in the engines' terms: the graph of an accepted document meets the
assumption of `TaskGraph`, under which both engines are proved correct. Loading
and running are proved apart and fit together here.

The invariant of reports, `RInv`, says little: path, output and spans read back
are what the functions of the code make of this run. The work is in those
functions.

- *Induction.* The library's induction theorems cannot be used here, since they
  take an operator as a parameter. `LeastNat` can: every set of natural numbers
  has a least element. What would be an induction takes the least
  counterexample instead; over the tasks, that the graph is acyclic gives a
  counterexample whose dependencies are none.
- *Recursive functions.* TLA+ defines one as a `CHOOSE`, so that it satisfies
  its equation has to be proved. `RecursionLemma` does, for a right-hand side
  that asks only for values at places from which no way leads back; the
  costs (`CostLemma`), the walk from the end of the path (`WalkLemma`) and the
  lookup of a reference (`LookupLemma`) are instances.
- *The path is longest.* No chain takes longer than its last task costs
  (`ChainCost`), and the walk back from a task takes exactly what it costs and is
  a chain (`ChainIsPath`). Sums are avoided once more: what a chain took is the
  cardinality of its milliseconds, and a chain never meets a task twice
  (`NoRepeat`), so that one task more adds a disjoint set.
- *The same path in both languages.* If every task takes time, both pick the
  same predecessor (`SamePrev`); and a task that costs most is a sink, since one
  that depends on it would cost more, so both end at the same tasks
  (`SameDearest`).
- *The same reading.* On a document that leaves nothing open the two readers
  agree on every task's timeout, and on its retries field by field (`SameRetry`).
- *The output.* After every name of a reference, the walk through the scope and
  what `Given` says of the run are at the same value, or both at nothing
  (`GivenLemma`), for references of any length into values of any depth.

`ReportAssumption` holds of any run: spans are records of the code's class with a
natural duration, parts of values are values, the inputs are an object, a
reference has a name, and the two values that stand for the absence of something
(`None`, `Missing`) are no task and no value.

### 4.6 Skills, MCP servers, the engine process

- `SkillRun`: `LiveInv` (a skill that is live and not awaited is on a thread
  that was given up) is preserved because `LetGo` ends everything else. Tokens
  are counted, again, as elements of a set: a pair of an attempt and a number
  for each token its context has counted or will count when its call returns
  (`Counted`). What the service has counted is the size of that pile, what the
  totals have is the size of the part of it that belongs to taken spans
  (`BillInv`, `TotalInv`), so the totals are never larger; if every task
  succeeded at once, the parts are the whole.
- `MCPRegistry`: `LockInv` says who has the lock, `ShapeInv` what a call has at
  each point, in particular that one about to store its server finds no other
  under that name. `CleanInv` is about the middle of a cleanup: what it has
  disconnected stays so, unless a call was using it.
- `EngineProcess`: `OrderInv` (written before held before queued) makes "written
  once and in order" inductive, and the bound on what the report overtakes is
  the size of the channel and one; `PhaseInv` ties the reports on stdout to
  where `main` is.

TLC checked each inductive invariant on the instance of the component's run
before it was proved (`LInv` without `doc \in Docs`, which is slow to evaluate and
never changes).

### 4.7 Only model-checked

All liveness (`RunEnds`, `PyRunEnds`, `SingleAnswersArrive`, `ClosingReleases`,
`CallsAreServed`, `LoadingEnds`, `SkillRunEnds`, `CallsEnd`, `ProcessEnds`, and
`Returns` of `KeepsContract`): fairness and `ENABLED` are outside the prover's
reach. What a theorem says of a run therefore holds of every state it reaches,
and that it reaches the last one is what the runs of section 3 show, on their
instances.

## 5. Plan

All components that hold state are modelled, and their safety properties are
proved. The order was: the two engines and
the promise both keep; the transports and the contract they keep; the rate
limiter; loading and reporting; skills, MCP servers and the engine process. Two
compositions would be worth their states:
`PyEngine` with `TokenBucket`, to see slots held while tokens are awaited; and
`Scheduler` with `EngineProcess`, to see which events of a run are lost.

## 6. Where the docs and the code disagree

These have a run that finds the violation:

| run | statement | what the code does |
|---|---|---|
| `doc_answers_twice` | the pump dispatches results to the waiting calls (`stdio.go:152-153`) | a second answer to one call can block the pump for good: no other call gets its answer |
| `doc_execute_returns` | `Execute` blocks until it completes or its context is done (`scheduler.go:72`) | it writes the invocation first, under a lock: while the client does not read, neither the write nor the wait for the lock looks at the context |
| `doc_to_dict` | `to_dict` is the inverse of `from_dict` (`spec.py:200`) | it writes durations as numbers, which `from_dict` refuses; and for a workflow with a task it raises unless the caller has set the attributes it reads |

Properties of passing runs leave these cases out where they must:
`SuccessMeansComplete` is about runs nobody cancelled, `ReportAccounts` about
runs without a drain, `NoLeak` excuses a server that was disconnected under a
call, and `OutputIsOfThisRun` has a task called `input` in the place of the
inputs.

The following were met while modelling; the models do what the code does. No
run is spent on these: the project keeps its runs of this kind for the three
above, and no passing property claims the contrary of what follows.

*The engines*

- A task that waits for a token yields its slot to others (`DESIGN.md:195-196`);
  it takes its slot first and keeps it, so that a provider's limit can hold up
  tasks that need no provider.
- Totals aggregate across the whole run (`report.go:32`); the retries and the
  LLM usage of tasks drained after a `fail_fast` failure are not added.
- A run's status is succeeded, failed or cancelled (`report.go:44`); no code
  assigns the third, and a cancelled run whose tasks continue on error is
  reported as succeeded.
- Both engines produce identical results (`engine.py:7`); under `fail_fast` the
  Python engine reports tasks that succeeded in the same batch, or before they
  were cancelled, as skipped, where the Go engine keeps their spans.
- `_execute_task` never raises (`engine.py:230`); templates are resolved before
  its `try`, so an unresolved one leaves `run` as an exception and the other
  futures running.
- `input.<field>` is from the workflow inputs (`template.go:15`); once a task
  called `input` has finished, its output is in their place.
- A skill is re-dispatched on retryable error (`TESTING.md:173`); it is
  re-dispatched on any error, the flag is never decisive.
- A Go task that succeeds after a retry still carries the error of the earlier
  attempt; a Python one does not.
- References are checked before any task runs (`DESIGN.md:167-168`); templates
  are not checked, and a reference outside `depends_on` resolves or not
  depending on what finished first.
- Templates resolve against the run's inputs (`engine.py:296`); these are an
  attribute of the orchestrator, which every run overwrites.

*Skills and providers*

- A timeout cancels a task (`DESIGN.md:200`); a skill on a thread runs on beside
  its retry, abandoned threads can fill the executor so that later skills never
  start, and `run_sync` waits for them.
- LLM usage is accounted per task (`DESIGN.md:276`); that of earlier attempts,
  of abandoned threads and of tasks dropped by `fail_fast` is lost.
- `prov_tok` buckets are made (`engine.py:189`) and never acquired.
- The model can be chosen per call (`llm.py:46`); Azure ignores it. The Gemini
  and HuggingFace adapters pass no tools on, and HuggingFace counts words where
  the others report tokens.
- A temporary MCP server has no handler, so every call through one raises.
  Registering a name again does not change a server that is already in the cache.
- `cleanup` shuts down all running servers (`mcp_integration.py:124`); a call that
  got its server before connects it again after, and nobody disconnects it then.

*Transports and the engine process*

- The pump returns when the context is cancelled or stdin is closed
  (`stdio.go:153`); it also returns, silently, at a line over 4 MB and at a read
  error: answers behind it are never read.
- gRPC mirrors stdio exactly (`server.go:7`); at the end of its input the stdio
  pump returns without cancelling, and calls without a timeout wait for ever.
- The engine reads a run from stdin, executes it and writes the report
  (`main.go:5-6`); the SDK closes the engine's input after `start_run`
  (`engine.py:143`), so that no skill is ever answered, and a run with a task
  without a timeout never comes to its report.
- The last line is the report JSON (`engine.py:148`); the report is inside that
  line, and `from_dict` looks for its keys at the top: `_run_go_engine` never
  returns a report.
- The pump reads `cancel_run` (`stdio.go:152`); what arrives together with
  `start_run` is read ahead by another scanner and lost.

*Two readers of one document*

- Go and Python differ on retry objects that leave out `jitter` (Python's have
  it then, Go's do not) or `base` (half a second, and none), on `retry: {}`, on
  `max_parallel` of zero or less, and on workflows without tasks. `SameReading`
  is about documents that leave none of this open (`Explicit`).
- With tasks of zero milliseconds the Python critical path may be a shorter
  chain of the same length in time.

## 7. Not modelled, and why

- The wire format (`proto/orchestrator.proto`) and generated code: messages
  without state of their own.
- The RPC methods around the gRPC executor and server mode of the engine
  command: calls of the gRPC library. That several goroutines send on one
  stream is not modelled: the library leaves open what happens then.
- Registration of skills, tools and providers: dictionaries filled before a
  run and read during it. The MCP registry, which is used while it is filled,
  is modelled.
- The search of Go's `detectCycle` and Go's template lookup are not modelled
  step by step; their Python versions are.
- The example programs of the SDK: they use the system and are no part of it.
- What LLM services, MCP servers and the Go and Python runtimes do is external:
  only what the code sees of it is in the models.

Each component's status is in `PROJECT.json`.
