-------------------------- MODULE EngineProcessProps --------------------------
(***************************************************************************)
(* What the engine process must keep true for whoever reads its output.    *)
(***************************************************************************)
EXTENDS EngineProcess, FiniteSets

\* Every variable keeps to the values the engine and the SDK give it.
ProcessTypeOK ==
    /\ timed \in BOOLEAN /\ closed \in BOOLEAN /\ events \in 0..MaxEvents
    /\ main \in {"none", "read", "run", "report", "return", "exited"}
    /\ emitted \in 0..MaxEvents
    /\ chan \in Seq(1..MaxEvents) /\ Len(chan) <= Capacity
    /\ dropped \subseteq 1..MaxEvents
    /\ pump \in 0..MaxEvents /\ writing \in BOOLEAN /\ (writing => pump # 0)
    /\ out \in Seq(Lines)
    /\ code \in {Running, Killed, 0, 1}
    /\ client \in Clients

-----------------------------------------------------------------------------
IsEvent(line) == line.type = "event"
Written == {out[k].event : k \in {j \in DOMAIN out : IsEvent(out[j])}}
InChannel == {chan[k] : k \in DOMAIN chan}

\* Events reach the output at most once and in the order they were emitted, and
\* one is missing only if emit found the channel full, or if it was still on its
\* way when the process ended.
EventsAccountedFor ==
    /\ Written \cup InChannel \cup dropped \cup ({pump} \ {0}) = 1..emitted
    /\ \A j, k \in DOMAIN out :
         j < k /\ IsEvent(out[j]) /\ IsEvent(out[k]) => out[j].event < out[k].event

\* A reader that stops at the report line misses events only among the last ones
\* the channel can hold and the one being written: all others were written
\* before the report, or dropped.
ReportOvertakesFew ==
    \A k \in DOMAIN out : out[k].type = "report" =>
        Cardinality({n \in 1..emitted \ dropped :
                        \A j \in 1..k : out[j] # Line("event", n)}) <= Capacity + 1

\* A reader of the output knows what it can have missed: what did not fit, and at
\* most one channel full and one event at the end.
OutputAccountedFor == ProcessTypeOK /\ EventsAccountedFor /\ ReportOvertakesFew

\* The SDK takes a run for reported only if the engine ended it: exit status 0
\* means one report line, of the run, in the output; the error line that fatal
\* writes, which looks like a report, comes with another status.
StatusTellsReport ==
    /\ code = 0 => \E k \in DOMAIN out : Reports = {k} /\ out[k].type = "report"
    /\ client \in {"returned", "key error"} => code = 0
    /\ client # "no report"

-----------------------------------------------------------------------------
(* Liveness *)

\* The engine ends its run and exits even if the goroutine that writes events takes
\* no event any more, or waits for ever before its next line: emit does not wait for
\* it, and the report waits only for a line that was begun.
ExitsWithoutPump == [](client # "timeout") => (main = "run" /\ timed ~> main = "exited")

\* If time passes, the SDK gets an outcome, also of a run that waits for an answer
\* for ever.
SdkEnds == WF_vars(Expire) => <>(client \notin {"prepare", "wait"})

\* Neither side waits for the other for ever.
ProcessEnds == ExitsWithoutPump /\ SdkEnds
==============================================================================
