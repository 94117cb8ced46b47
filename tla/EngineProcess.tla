---------------------------- MODULE EngineProcess ----------------------------
(***************************************************************************)
(* The Go engine as a process (engine/cmd/orchestrator/main.go, embedded   *)
(* mode) and the Python SDK that runs it (_run_go_engine in                *)
(* sdk-python/orchestrator/engine.py).                                     *)
(*                                                                         *)
(* The engine's main goroutine reads start_run, runs the scheduler, which  *)
(* emits events into a bounded channel, and writes the report; a second    *)
(* goroutine writes the events.  Whoever writes a line holds a lock until  *)
(* it is written.  When main returns the process is gone, whatever the     *)
(* other was about to write.  The SDK writes start_run, closes its side    *)
(* and reads until the engine has ended.                                   *)
(*                                                                         *)
(* The run itself is the Scheduler module's business: here it emits some   *)
(* events and ends, unless it waits for an answer, which nobody will give. *)
(* Left out: invocations among the lines written, and the texts.           *)
(***************************************************************************)
EXTENDS Integers, Sequences

CONSTANTS
    Capacity,   \* of the event channel
    MaxEvents   \* how many events a run may emit

ASSUME ProcessAssumption == Capacity \in Nat \ {0} /\ MaxEvents \in Nat

VARIABLES
    timed,    \* no task of the run waits without a timeout; it never changes
    events,   \* how many events the run emits; it never changes
    main,     \* where the engine's main goroutine is
    emitted,  \* how many events the scheduler has emitted
    chan,     \* the numbers of the events in the channel
    closed,   \* the channel is closed
    dropped,  \* the events emit gave up
    pump,     \* the event the writing goroutine has taken, or 0
    writing,  \* that goroutine holds outMu, in the middle of its line
    out,      \* the lines the engine has written
    code,     \* its exit status, Running until there is one
    client    \* where the SDK is, or how it ended

vars == <<timed, events, main, emitted, chan, closed, dropped, pump, writing,
          out, code, client>>

-----------------------------------------------------------------------------
Running == -1
Killed == -9

Line(type, n) == [type |-> type, event |-> n]
Lines == {Line("event", n) : n \in 1..MaxEvents}
             \cup {Line(type, 0) : type \in {"accepted", "report", "error"}}

\* An error is sent with SendReport as well: both lines have the type "report".
IsReport(line) == line.type \in {"report", "error"}

Write(line) == out' = Append(out, line)

\* Where the SDK finds a line that starts as a report.
Reports == {k \in DOMAIN out : IsReport(out[k])}

Alive == code = Running /\ main # "none"

Clients == {"prepare", "wait", "returned", "unprepared", "timeout", "exit status",
            "no report", "key error"}

Init ==
    /\ timed \in BOOLEAN
    /\ events \in 0..MaxEvents
    /\ main = "none"
    /\ emitted = 0
    /\ chan = <<>>
    /\ closed = FALSE
    /\ dropped = {}
    /\ pump = 0
    /\ writing = FALSE
    /\ out = <<>>
    /\ code = Running
    /\ client = "prepare"

-----------------------------------------------------------------------------
(* The engine *)

MainUnchanged == UNCHANGED <<timed, events, pump, writing, client>>

\* What starts the run is missing or not valid: fatal writes a line and exits.
Fatal ==
    /\ Alive
    /\ main = "read"
    /\ Write(Line("error", 0))
    /\ main' = "exited"
    /\ code' = 1
    /\ UNCHANGED <<emitted, chan, closed, dropped>>
    /\ MainUnchanged

\* start_run is there, and spec and inputs are valid.  Up to here nobody else writes.
Accept ==
    /\ Alive
    /\ main = "read"
    /\ Write(Line("accepted", 0))
    /\ main' = "run"
    /\ UNCHANGED <<emitted, chan, closed, dropped, code>>
    /\ MainUnchanged

\* Slip: an event that does not fit replaces the oldest one.
OfferReplacing(n) ==
    IF Len(chan) < Capacity
    THEN chan' = Append(chan, n) /\ UNCHANGED dropped
    ELSE chan' = Append(Tail(chan), n) /\ UNCHANGED dropped

\* Slip: the send waits for room.
OfferBlocking(n) ==
    /\ Len(chan) < Capacity
    /\ chan' = Append(chan, n)
    /\ UNCHANGED dropped

\* select with a default: an event that does not fit is dropped.
Offer(n) ==
    IF Len(chan) < Capacity
    THEN chan' = Append(chan, n) /\ UNCHANGED dropped
    ELSE dropped' = dropped \cup {n} /\ UNCHANGED chan

Emit ==
    /\ Alive
    /\ main = "run"
    /\ emitted < events
    /\ emitted' = emitted + 1
    /\ Offer(emitted')
    /\ UNCHANGED <<main, closed, out, code>>
    /\ MainUnchanged

\* Run returns when all tasks have; one without a timeout is never answered.
EndRun ==
    /\ Alive
    /\ main = "run"
    /\ timed
    /\ emitted = events
    /\ closed' = TRUE
    /\ main' = "report"
    /\ UNCHANGED <<emitted, chan, dropped, out, code>>
    /\ MainUnchanged

\* Main waits for the other's line to end.  Its own line is one step: the other
\* reads nothing of it, and can only begin a line later.
SendReport ==
    /\ Alive
    /\ main = "report"
    /\ ~writing
    /\ Write(Line("report", 0))
    /\ main' = "return"
    /\ UNCHANGED <<emitted, chan, closed, dropped, code>>
    /\ MainUnchanged

\* Writing run_accepted or the report fails: log.Fatalf, without a line.
SendFails ==
    /\ Alive
    /\ main \in {"read", "report"}
    /\ ~writing
    /\ main' = "exited"
    /\ code' = 1
    /\ UNCHANGED <<emitted, chan, closed, dropped, out>>
    /\ MainUnchanged

\* main returns, and does not wait for the goroutine that writes events.
Exit ==
    /\ Alive
    /\ main = "return"
    /\ main' = "exited"
    /\ code' = 0
    /\ UNCHANGED <<emitted, chan, closed, dropped, out>>
    /\ MainUnchanged

PumpUnchanged == UNCHANGED <<timed, events, main, emitted, closed, dropped, code, client>>

\* A closed channel still gives what is in it.
TakeEvent ==
    /\ Alive
    /\ pump = 0 /\ chan # <<>>
    /\ pump' = Head(chan)
    /\ chan' = Tail(chan)
    /\ UNCHANGED <<writing, out>>
    /\ PumpUnchanged

\* The lock is free: main holds it only within a step.
BeginWrite ==
    /\ Alive
    /\ pump # 0 /\ ~writing
    /\ writing' = TRUE
    /\ UNCHANGED <<pump, chan, out>>
    /\ PumpUnchanged

\* The line is in the pipe, which communicate empties, and the lock is given back.
EndWrite ==
    /\ Alive
    /\ writing
    /\ Write(Line("event", pump))
    /\ pump' = 0
    /\ writing' = FALSE
    /\ UNCHANGED chan
    /\ PumpUnchanged

-----------------------------------------------------------------------------
(* The SDK *)

EngineUnchanged ==
    UNCHANGED <<timed, events, emitted, chan, closed, dropped, pump, writing, out>>

\* Inputs that are missing, a workflow that to_dict cannot write, or no binary.
PrepareFails ==
    /\ client = "prepare"
    /\ client' = "unprepared"
    /\ UNCHANGED <<main, code>>
    /\ EngineUnchanged

\* communicate writes start_run, closes stdin, and reads until the end.
Spawn ==
    /\ client = "prepare"
    /\ client' = "wait"
    /\ main' = "read"
    /\ UNCHANGED code
    /\ EngineUnchanged

\* After an hour the SDK kills the engine.
Expire ==
    /\ client = "wait"
    /\ Alive
    /\ client' = "timeout"
    /\ code' = Killed
    /\ UNCHANGED main
    /\ EngineUnchanged

\* What Report.from_dict needs, and what the report line has at its top level.
RequiredKeys == {"workflow", "run_id", "status", "started_at", "duration_ms"}
LineKeys == {"type", "report"}

\* Slip: the exit status is not looked at.
OutcomeOfOutput ==
    IF Reports = {} THEN "no report"
    ELSE IF RequiredKeys \subseteq LineKeys THEN "returned" ELSE "key error"

\* The last line that starts as a report is taken; from_dict gets all of it.
Outcome ==
    IF code # 0 THEN "exit status"
    ELSE IF Reports = {} THEN "no report"
    ELSE IF RequiredKeys \subseteq LineKeys THEN "returned" ELSE "key error"

Collect ==
    /\ client = "wait"
    /\ main = "exited"
    /\ client' = Outcome
    /\ UNCHANGED <<main, code>>
    /\ EngineUnchanged

-----------------------------------------------------------------------------
MainStep == Fatal \/ Accept \/ Emit \/ EndRun \/ SendReport \/ SendFails \/ Exit
PumpStep == TakeEvent \/ BeginWrite \/ EndWrite
ClientStep == PrepareFails \/ Spawn \/ Collect

Next == MainStep \/ PumpStep \/ ClientStep \/ Expire

Spec == Init /\ [][Next]_vars

(***************************************************************************)
(* Fairness.  Main runs when it can, the SDK goes on when the process has  *)
(* ended, and a line the writing goroutine has begun is finished, since    *)
(* communicate reads all the time.  That this goroutine takes an event or  *)
(* begins a line is not asked, and a property that needs the hour to pass  *)
(* says so.                                                                *)
(***************************************************************************)
Fairness == WF_vars(MainStep) /\ WF_vars(ClientStep) /\ WF_vars(EndWrite)

FairSpec == Spec /\ Fairness

=============================================================================
