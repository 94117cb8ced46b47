---------------------------- MODULE TransportProps ----------------------------
(***************************************************************************)
(* What the transport must keep true for the scheduler and the client.     *)
(***************************************************************************)
EXTENDS Transport

\* Every variable keeps to the values Execute, the pump and the client give it.
TransportTypeOK ==
    /\ exec \in [Invocations -> ExecPCs]
    /\ outcome \in [Invocations -> Outcomes]
    /\ pending \subseteq Invocations
    /\ chan \in [Invocations -> 0..1]
    /\ pump \in Pumps
    /\ input \in Seq(Messages)
    /\ output \in Seq(Lines) /\ Len(output) <= PipeRoom
    /\ client \in {"open", "closed", "gone"}
    /\ asked \in BOOLEAN /\ runDone \in BOOLEAN
    /\ answers \in [Invocations -> Nat]
    /\ timedOut \subseteq Invocations
    /\ kind \in Kinds

-----------------------------------------------------------------------------
(* Safety *)

\* The map holds exactly the calls in progress, whichever way Execute leaves,
\* so nothing is delivered to a call that has returned and nothing leaks.
PendingIsOpen == pending = {i \in Invocations : Open(i)}

\* An invocation the client answers once never blocks the pump, not even if the
\* call times out or is cancelled while the answer arrives.
PumpNeverBlocks ==
    pump.at = "deliver" /\ answers[pump.to] = 1 => chan[pump.to] < Room

\* On stdio no two lines are mixed up: one call at a time is in its write.
OneWriter ==
    Grpc \/ \A i, j \in Invocations : exec[i] = "writing" /\ exec[j] = "writing" => i = j

\* The pending map, the channels and the lock fit the calls in progress, whatever
\* the pump, the calls, time and the client do in between.
TransportInv == TransportTypeOK /\ PendingIsOpen /\ PumpNeverBlocks /\ OneWriter

-----------------------------------------------------------------------------
(* The contract of Execute *)

Call == [i \in Invocations |->
    IF exec[i] = "none" THEN "none"
    ELSE IF exec[i] = "returned" THEN outcome[i]
    ELSE "open"]

Contract == INSTANCE Executor WITH
    call <- Call,
    given <- {i \in Invocations : answers[i] > 0},
    ended <- {i \in Invocations : runDone \/ i \in timedOut}

\* The client does not leave the pipe full for ever, or it is gone, so that no
\* write waits for good.
ClientKeepsReading == []<>(Len(output) < PipeRoom \/ client = "gone")

\* Execute keeps the contract the scheduler relies on: one return per call and an
\* answer only if it was given to this invocation, whatever the client does; and,
\* if the client reads what the engine writes, a return once the context is done,
\* even while the pump is stopped or blocked and other calls hold the lock.
KeepsContract == Contract!Steps /\ (ClientKeepsReading => Contract!Returns)

-----------------------------------------------------------------------------
(* Liveness *)

SingleAnswers == [](\A i \in Invocations : answers[i] <= 1)
ReadingWorks == [](pump # At("failed"))

\* The pump gives answers to the calls that wait for them: an answer to a
\* waiting call ends that call.
AnswersArrive ==
    \A i \in Invocations :
        (answers[i] > 0 /\ exec[i] = "waiting") ~> exec[i] = "returned"

\* So it is with a client that answers each invocation at most once, as long as
\* reading does not fail: no answer is lost between the registration, the pump and
\* the channel, and answers to others, late ones included, do not stand in its way.
SingleAnswersArrive == SingleAnswers /\ ReadingWorks => AnswersArrive

NothingMoreToRead == client # "open" \/ pump = At("failed")

\* The calls that wait for the client end when there is nothing more to read.
ReadingEndReleases ==
    \A i \in Invocations : (NothingMoreToRead /\ exec[i] = "waiting") ~> exec[i] = "returned"

\* So it is on gRPC, whether the client has closed its side, is gone, or has sent
\* what cannot be read, unless the pump is stuck on a second answer.
ClosingReleases == Grpc /\ SingleAnswers => ReadingEndReleases

-----------------------------------------------------------------------------
(* What a comment of the code says, and the code does not keep *)

\* Execute blocks until it completes or ctx is done (scheduler.go:72), also if
\* the client does not read.
ReturnsWhenDone == Contract!Returns
==============================================================================
