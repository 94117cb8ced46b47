---------------------------- MODULE TokenBucket ----------------------------
(***************************************************************************)
(* A token bucket and the calls of acquire that wait at it                 *)
(* (sdk-python/orchestrator/ratelimit.py, engine/internal/ratelimit/       *)
(* bucket.go).  Time passes in ticks.  A limit of `requests` per `per`     *)
(* ticks is counted in units of 1/per token, so that a tick adds exactly   *)
(* `requests` units and every quantity is an integer.                      *)
(*                                                                         *)
(* Only what decides the future is kept of time: the ticks since the last  *)
(* refill, and how long each call still sleeps.                            *)
(***************************************************************************)
EXTENDS Integers

CONSTANTS
    Callers,   \* the calls of acquire made during the run
    Amount,    \* Amount[c]: the tokens call c asks for
    MayCancel, \* the calls whose task may be cancelled
    Limits     \* the configured limits to choose from

\* A limit says whether it is given at all, and whether its bucket checks what it
\* is asked for, as the Python one does.
Limit == [given : BOOLEAN, requests : Nat, per : Nat \ {0}, checked : BOOLEAN]

ASSUME BucketAssumption ==
    /\ Amount \in [Callers -> Nat \ {0}]
    /\ MayCancel \subseteq Callers
    /\ Limits \subseteq Limit

VARIABLES
    limit,    \* the limit in force, fixed at the start
    tokens,   \* the units in the bucket when it was last refilled
    elapsed,  \* the ticks since then, as far as they make a difference
    status,   \* status[c]: what has become of call c
    left,     \* left[c]: the ticks call c still sleeps
    burst     \* history: how far the grants are ahead of the refill rate

vars == <<limit, tokens, elapsed, status, left, burst>>
-----------------------------------------------------------------------------
Statuses == {"idle", "waiting", "granted", "refused", "cancelled"}

Least(a, b) == IF a <= b THEN a ELSE b
Most(a, b) == IF a >= b THEN a ELSE b

Rate == limit.requests

\* The bucket holds one window's worth of requests.
Capacity == limit.requests * limit.per
Need(c) == Amount[c] * limit.per

\* What the bucket holds once it is refilled.
Level == Least(Capacity, tokens + elapsed * Rate)

Init ==
    /\ limit \in Limits
    /\ tokens = Capacity
    /\ elapsed = 0
    /\ status = [c \in Callers |-> "idle"]
    /\ left = [c \in Callers |-> 0]
    /\ burst = 0

-----------------------------------------------------------------------------
(* acquire *)

\* Slip: the amount is not looked at.
RefusedByRate(c) == limit.checked /\ Rate = 0

\* Only the Python bucket looks at what it is given: its constructor wants a
\* positive rate, and acquire an amount that fits.
Refused(c) == limit.checked /\ (Rate = 0 \/ Need(c) > Capacity)

Call(c) ==
    /\ status[c] = "idle"
    /\ status' = [status EXCEPT ![c] =
           IF ~limit.given THEN "granted" ELSE IF Refused(c) THEN "refused" ELSE "waiting"]
    /\ UNCHANGED <<limit, tokens, elapsed, left, burst>>

Awake(c) == status[c] = "waiting" /\ left[c] = 0

\* Refill, look and take, under the lock.
Grant(c) ==
    /\ Awake(c)
    /\ Level >= Need(c)
    /\ status' = [status EXCEPT ![c] = "granted"]
    /\ tokens' = Level - Need(c)
    /\ elapsed' = 0
    /\ burst' = burst + Need(c)
    /\ UNCHANGED <<limit, left>>

\* Slip: the whole amount is waited for, not what is missing of it.
NapsFull(c) == IF Rate = 0 THEN {0} ELSE {(Need(c) + Rate - 1) \div Rate}

\* How long a call sleeps: until the missing units have been added, rounded
\* either way.  With a rate of zero the Go bucket converts an infinite float to
\* a duration, which may be anything.
Naps(c) ==
    LET missing == Need(c) - Level
    IN  IF Rate = 0 THEN {0, missing}
        ELSE {missing \div Rate, (missing + Rate - 1) \div Rate}

\* Slip: the tokens that have come since the last look are forgotten.
SleepWithoutRefill(c) ==
    /\ Awake(c)
    /\ Level < Need(c)
    /\ \E nap \in Naps(c) : left' = [left EXCEPT ![c] = nap]
    /\ elapsed' = 0
    /\ UNCHANGED <<limit, tokens, status, burst>>

Sleep(c) ==
    /\ Awake(c)
    /\ Level < Need(c)
    /\ \E nap \in Naps(c) : left' = [left EXCEPT ![c] = nap]
    /\ tokens' = Level
    /\ elapsed' = 0
    /\ UNCHANGED <<limit, status, burst>>

\* The context of the call ends while it sleeps (ctx.Done, CancelledError).
Cancel(c) ==
    /\ c \in MayCancel
    /\ status[c] = "waiting"
    /\ status' = [status EXCEPT ![c] = "cancelled"]
    /\ left' = [left EXCEPT ![c] = 0]
    /\ UNCHANGED <<limit, tokens, elapsed, burst>>

-----------------------------------------------------------------------------
(* Time *)

\* Ticks after the bucket is full make no difference to it.
Tick ==
    /\ elapsed' = IF tokens + elapsed * Rate >= Capacity THEN elapsed ELSE elapsed + 1
    /\ left' = [c \in Callers |-> Most(0, left[c] - 1)]
    /\ burst' = Most(0, burst - Rate)
    /\ UNCHANGED <<limit, tokens, status>>

CallerStep(c) == Grant(c) \/ Sleep(c)

Next == Tick \/ \E c \in Callers : Call(c) \/ CallerStep(c) \/ Cancel(c)

Spec == Init /\ [][Next]_vars

(***************************************************************************)
(* Fairness.  Time passes, and the event loop or the Go runtime runs a     *)
(* call whose sleep is over.  Nothing is fair between the calls: whoever   *)
(* wakes first takes the tokens.                                           *)
(***************************************************************************)
Fairness == WF_vars(Tick) /\ \A c \in Callers : WF_vars(CallerStep(c))

FairSpec == Spec /\ Fairness
=============================================================================
