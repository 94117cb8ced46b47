-------------------------- MODULE TokenBucketProps --------------------------
(***************************************************************************)
(* What a bucket promises those who configure it and those who wait at it. *)
(***************************************************************************)
EXTENDS TokenBucket

\* Every variable keeps to its values; in particular the bucket never holds a
\* negative amount, nor more than its capacity (TokenBucket._refill, acquire).
BucketTypeOK ==
    /\ limit \in Limits
    /\ tokens \in 0..Capacity
    /\ elapsed \in Nat
    /\ status \in [Callers -> Statuses]
    /\ left \in [Callers -> Nat]
    /\ burst \in Nat

\* The limit holds in every window: burst is the most by which the grants of any
\* period up to now exceed what the rate allows for its length, and that never
\* exceeds one capacity, whatever the calls, their sleeps and the lazy refills.
WithinLimit == burst <= Capacity

\* And no call is made to wait for nothing: what the bucket holds is all the
\* limit leaves, so looking at it often, from many calls, loses no token.
NothingLost == Level >= Capacity - burst

\* The bucket grants exactly what the limit allows: no more, and nothing less.
LimitIsExact == BucketTypeOK /\ WithinLimit /\ NothingLost

\* No call sleeps on while the bucket holds what it asks for, although other
\* calls take and time gives meanwhile.
NoOversleep ==
    \A c \in Callers : left[c] > 0 => Level < Need(c)

\* A call the bucket can ever serve.
Servable(c) == Rate > 0 /\ Need(c) <= Capacity

\* Every call gets its tokens, unless it is cancelled or cannot be served, even
\* though calls race for the tokens and may find them taken when they wake.
EveryCallIsServed ==
    \A c \in Callers :
        status[c] = "waiting" /\ Servable(c) ~> status[c] \in {"granted", "cancelled"}

\* The checks of the Python bucket leave no call waiting for what cannot come; a
\* Go bucket without them may.
CheckedCallsEnd ==
    \A c \in Callers :
        status[c] = "waiting" /\ limit.checked ~> status[c] # "waiting"

\* acquire ends in every case it should: nobody starves in the race for tokens,
\* and a checked bucket lets nobody wait in vain.
CallsAreServed == EveryCallIsServed /\ CheckedCallsEnd
=============================================================================
