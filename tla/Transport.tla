------------------------------ MODULE Transport ------------------------------
(***************************************************************************)
(* The transport between an engine and its client: Execute, called by one  *)
(* goroutine per task attempt, and the pump that reads what the client     *)
(* sends (engine/transport/stdio/stdio.go).  The gRPC transport            *)
(* (engine/transport/grpc/server.go) has the same parts; where it differs, *)
(* the variable kind tells which of the two is meant.                      *)
(*                                                                         *)
(* Left out: what an answer contains, messages the pump passes over (blank *)
(* lines, malformed JSON, other types), and what the engine writes besides *)
(* invocations, except that it may fill the pipe beforehand.  Which        *)
(* invocations there are and when they are made is the scheduler's         *)
(* business: any may be made at any time.                                  *)
(***************************************************************************)
EXTENDS Integers, Sequences, FiniteSets

CONSTANTS
    Invocations,  \* invocation ids: run, task and attempt, so all different
    MaxAnswers,   \* how often a client may answer one invocation
    MayCancel,    \* whether the client may send cancel_run
    MayClose,     \* whether the client may close its side, or go away
    MayBreak,     \* whether reading from the client may fail
    MayBeLong,    \* the invocations whose answer may be too long to read
    PipeRoom,     \* how much the client can leave unread before a write waits
    MayTimeOut,   \* the invocations whose own context may end
    Kinds         \* the transports meant, of "stdio" and "grpc"

ASSUME TransportAssumption ==
    /\ IsFiniteSet(Invocations)
    /\ MaxAnswers \in Nat \ {0}
    /\ MayCancel \in BOOLEAN /\ MayClose \in BOOLEAN /\ MayBreak \in BOOLEAN
    /\ MayBeLong \subseteq Invocations
    /\ PipeRoom \in Nat \ {0}
    /\ Kinds \subseteq {"stdio", "grpc"}
    /\ MayTimeOut \subseteq Invocations

VARIABLES
    exec,      \* exec[i]: where Execute is in the call for i
    outcome,   \* outcome[i]: what that call returns
    pending,   \* the invocations in the map pending
    chan,      \* chan[i]: results in the channel made for i
    pump,      \* where the pump is, and the invocation it holds a result for
    input,     \* what the client has sent and the engine has not read
    output,    \* what the engine has written and the client has not read
    client,    \* "closed" if it will send no more, "gone" if it reads no more
    answers,   \* answers[i]: how often the client answered i
    asked,     \* the client sent cancel_run
    timedOut,  \* the invocations whose own context has ended: a timeout, or a
               \* cancellation within the run, by a fail_fast failure
    runDone,   \* the run's context is cancelled
    kind       \* which transport this is; it never changes

vars == <<exec, outcome, pending, chan, pump, input, output, client, answers,
          asked, timedOut, runDone, kind>>
execVars == <<exec, outcome, pending>>
clientVars == <<input, client, answers, asked>>

-----------------------------------------------------------------------------
Grpc == kind = "grpc"

NoOne == "nobody"
Cancel == [kind |-> "cancel", to |-> NoOne]
Answer(i) == [kind |-> "answer", to |-> i]
LongAnswer(i) == [kind |-> "long", to |-> i]  \* a line, or a message, over 4 MB
Messages == {Cancel} \cup {Answer(i) : i \in Invocations}
                \cup {LongAnswer(i) : i \in Invocations}

\* Lines for the client: invocations, and others.
Lines == Invocations \cup {NoOne}

At(label) == [at |-> label, to |-> NoOne]
Deliver(i) == [at |-> "deliver", to |-> i]
Pumps == {At(l) : l \in {"unstarted", "scan", "check", "stopped", "failed"}}
             \cup {Deliver(i) : i \in Invocations}

ExecPCs == {"none", "locking", "writing", "waiting", "leaving", "returned"}
Outcomes == {"none", "answer", "error", "context"}

\* Slip: only the task's timeout ends the wait, not the run's cancellation.
OwnTimeoutOnly(i) == i \in timedOut

\* The context of a call: the run's, with the task's timeout if there is one.
CtxDone(i) == runDone \/ i \in timedOut

Open(i) == exec[i] \in {"locking", "writing", "waiting", "leaving"}

\* Each invocation has a channel with room for one result.
Room == 1

Init ==
    /\ exec = [i \in Invocations |-> "none"]
    /\ outcome = [i \in Invocations |-> "none"]
    /\ pending = {}
    /\ chan = [i \in Invocations |-> 0]
    /\ pump = At("unstarted")
    /\ input = <<>>
    /\ \E n \in 0..PipeRoom : output = [k \in 1..n |-> NoOne]
    /\ client = "open"
    /\ answers = [i \in Invocations |-> 0]
    /\ asked = FALSE
    /\ timedOut = {}
    /\ runDone = FALSE
    /\ kind \in Kinds

-----------------------------------------------------------------------------
(* Execute *)

ExecGoto(i, label) == exec' = [exec EXCEPT ![i] = label]

\* The invocation is in the map before the client can know of it.
Begin(i) ==
    /\ exec[i] = "none"
    /\ pump.at # "unstarted"
    /\ ExecGoto(i, "locking")
    /\ pending' = pending \cup {i}
    /\ UNCHANGED <<outcome, chan, pump, output, clientVars, timedOut, runDone, kind>>

\* outMu is held by whoever is in the middle of a write.  A stream has no lock.
OutFree == Grpc \/ \A j \in Invocations : exec[j] # "writing"

\* Neither the lock nor the write watches the context.
LockOut(i) ==
    /\ exec[i] = "locking"
    /\ OutFree
    /\ ExecGoto(i, "writing")
    /\ UNCHANGED <<outcome, pending, chan, pump, output, clientVars, timedOut, runDone, kind>>

\* A write ends when there is room for what it writes; the lock is released.  A
\* stream may take a message before it is known to be broken.
Written(i) ==
    /\ exec[i] = "writing"
    /\ Grpc \/ client # "gone"
    /\ Len(output) < PipeRoom
    /\ output' = Append(output, i)
    /\ ExecGoto(i, "waiting")
    /\ UNCHANGED <<outcome, pending, chan, pump, clientVars, timedOut, runDone, kind>>

Leave(i, how) ==
    /\ ExecGoto(i, "leaving")
    /\ outcome' = [outcome EXCEPT ![i] = how]

\* Nobody reads what the engine writes any more.
WriteFails(i) ==
    /\ exec[i] = "writing"
    /\ client = "gone"
    /\ Leave(i, "error")
    /\ UNCHANGED <<pending, output, chan, pump, clientVars, timedOut, runDone, kind>>

\* select chooses freely when there is a result and the context is done.
TakeResult(i) ==
    /\ exec[i] = "waiting"
    /\ chan[i] > 0
    /\ chan' = [chan EXCEPT ![i] = @ - 1]
    /\ Leave(i, "answer")
    /\ UNCHANGED <<pending, pump, output, clientVars, timedOut, runDone, kind>>

SeeDone(i) ==
    /\ exec[i] = "waiting"
    /\ CtxDone(i)
    /\ Leave(i, "context")
    /\ UNCHANGED <<pending, chan, pump, output, clientVars, timedOut, runDone, kind>>

\* Slip: only an answered call forgets its invocation.
ReturnForgetsAnswered(i) ==
    /\ exec[i] = "leaving"
    /\ ExecGoto(i, "returned")
    /\ pending' = IF outcome[i] = "answer" THEN pending \ {i} ELSE pending
    /\ UNCHANGED <<outcome, chan, pump, output, clientVars, timedOut, runDone, kind>>

\* The deferred function.
Return(i) ==
    /\ exec[i] = "leaving"
    /\ ExecGoto(i, "returned")
    /\ pending' = pending \ {i}
    /\ UNCHANGED <<outcome, chan, pump, output, clientVars, timedOut, runDone, kind>>

-----------------------------------------------------------------------------
(* The pump *)

PumpUnchanged ==
    UNCHANGED <<exec, outcome, pending, output, client, answers, asked, timedOut, kind>>

\* start_run is read with a scanner of its own, which reads ahead: what came
\* with it is lost.  A gRPC stream has messages, and none is lost.
Start ==
    /\ pump = At("unstarted")
    /\ pump' = At("scan")
    /\ \E k \in 0..Len(input) :
         /\ Grpc => k = 0
         /\ input' = SubSeq(input, k + 1, Len(input))
    /\ UNCHANGED <<chan, runDone>>
    /\ PumpUnchanged

Checked == IF Grpc THEN At("scan") ELSE At("check")

\* Slip: an answer nobody waits for ends the pump.
ReadAnswerOrStop ==
    /\ pump = At("scan")
    /\ input # <<>> /\ Head(input).kind = "answer"
    /\ LET i == Head(input).to
       IN  pump' = IF i \in pending THEN Deliver(i) ELSE At("stopped")
    /\ input' = Tail(input)
    /\ UNCHANGED <<chan, runDone>>
    /\ PumpUnchanged

\* A result whose invocation is in the map is to be delivered, with the lock
\* released; one whose invocation is not is dropped, without the check.
ReadAnswer ==
    /\ pump = At("scan")
    /\ input # <<>> /\ Head(input).kind = "answer"
    /\ LET i == Head(input).to
       IN  pump' = IF i \in pending THEN Deliver(i) ELSE At("scan")
    /\ input' = Tail(input)
    /\ UNCHANGED <<chan, runDone>>
    /\ PumpUnchanged

ReadCancel ==
    /\ pump = At("scan")
    /\ input # <<>> /\ Head(input).kind = "cancel"
    /\ pump' = Checked
    /\ input' = Tail(input)
    /\ runDone' = TRUE
    /\ UNCHANGED chan
    /\ PumpUnchanged

\* The send blocks while the channel is full, and does not watch the context.
SendResult ==
    /\ pump.at = "deliver"
    /\ chan[pump.to] < Room
    /\ chan' = [chan EXCEPT ![pump.to] = @ + 1]
    /\ pump' = Checked
    /\ UNCHANGED <<input, runDone>>
    /\ PumpUnchanged

\* After each message the stdio pump looks whether the run's context is done.
Check ==
    /\ pump = At("check")
    /\ pump' = IF runDone THEN At("stopped") ELSE At("scan")
    /\ UNCHANGED <<chan, input, runDone>>
    /\ PumpUnchanged

\* Slip: the gRPC pump returns without cancelling either.
InputEndsQuietly == runDone

\* When there is nothing more to read the stdio pump just returns, the gRPC pump
\* cancels; and neither looks whether reading has ended or failed.
RunDoneAtInputEnd == runDone \/ Grpc

InputEnds ==
    /\ pump = At("scan")
    /\ input = <<>> /\ client # "open"
    /\ pump' = At("stopped")
    /\ runDone' = RunDoneAtInputEnd
    /\ UNCHANGED <<chan, input>>
    /\ PumpUnchanged

ReadingFails ==
    /\ pump = At("scan")
    /\ pump' = At("failed")
    /\ runDone' = RunDoneAtInputEnd
    /\ UNCHANGED <<chan, input>>
    /\ PumpUnchanged

\* What is too long for the scanner's buffer, or for the gRPC library, is an error
\* that ends the pump; what is behind it is never read.
MeetLong ==
    /\ input # <<>> /\ Head(input).kind = "long"
    /\ ReadingFails

Break == MayBreak /\ ReadingFails

-----------------------------------------------------------------------------
(* The client, and time *)

ClientReads ==
    /\ output # <<>> /\ client # "gone"
    /\ output' = Tail(output)
    /\ UNCHANGED <<execVars, chan, pump, clientVars, timedOut, runDone, kind>>

\* The client has read this invocation.
Knows(i) ==
    /\ exec[i] \in {"waiting", "leaving", "returned"} /\ outcome[i] # "error"
    /\ \A k \in DOMAIN output : output[k] # i

ClientAnswers(i) ==
    /\ Knows(i)
    /\ client = "open"
    /\ answers[i] < MaxAnswers
    /\ answers' = [answers EXCEPT ![i] = @ + 1]
    /\ \E m \in {Answer(i), LongAnswer(i)} :
         /\ m = LongAnswer(i) => i \in MayBeLong
         /\ input' = Append(input, m)
    /\ UNCHANGED <<execVars, chan, pump, output, client, asked, timedOut, runDone, kind>>

ClientCancels ==
    /\ MayCancel /\ ~asked /\ client = "open"
    /\ asked' = TRUE
    /\ input' = Append(input, Cancel)
    /\ UNCHANGED <<execVars, chan, pump, output, client, answers, timedOut, runDone, kind>>

\* It closes its side and reads on, or it is gone altogether.
ClientCloses ==
    /\ MayClose /\ client # "gone"
    /\ client' \in {"closed", "gone"} \ {client}
    /\ UNCHANGED <<execVars, chan, pump, input, output, answers, asked, timedOut, runDone, kind>>

TimeOut(i) ==
    /\ i \in MayTimeOut \ timedOut
    /\ Open(i)
    /\ timedOut' = timedOut \cup {i}
    /\ UNCHANGED <<execVars, chan, pump, output, clientVars, runDone, kind>>

\* A call waits for an answer, for the client to read, or for the lock of a call
\* that does.
Blocked(i) ==
    \/ exec[i] \in {"waiting", "returned"}
    \/ exec[i] = "writing" /\ Len(output) = PipeRoom
    \/ exec[i] = "locking" /\ ~OutFree

\* Every call that is left and the pump wait for the client or for time; or the
\* pump waits for room in a channel that nobody reads any more.
Idle ==
    /\ \/ pump.at \in {"scan", "stopped", "failed"}
       \/ pump.at = "deliver" /\ chan[pump.to] = Room
    /\ \A i \in Invocations : Blocked(i)
    /\ UNCHANGED vars

ExecStep(i) ==
    LockOut(i) \/ Written(i) \/ WriteFails(i) \/ TakeResult(i) \/ SeeDone(i) \/ Return(i)

PumpStep ==
    Start \/ ReadAnswer \/ ReadCancel \/ SendResult \/ Check \/ InputEnds \/ MeetLong

Next ==
    \/ \E i \in Invocations : Begin(i) \/ ExecStep(i) \/ ClientAnswers(i) \/ TimeOut(i)
    \/ PumpStep \/ Break
    \/ ClientReads \/ ClientCancels \/ ClientCloses
    \/ Idle

Spec == Init /\ [][Next]_vars

(***************************************************************************)
(* Fairness.  The Go runtime runs every goroutine that can run: the pump   *)
(* and every call of Execute.  The client and time owe nothing, and        *)
(* reading need not fail; so a write that waits for the client may wait    *)
(* for good, and a property that needs the client to read says so.         *)
(***************************************************************************)
Fairness ==
    /\ WF_vars(PumpStep)
    /\ \A i \in Invocations : WF_vars(ExecStep(i))

FairSpec == Spec /\ Fairness

=============================================================================
