\* Three calls at every kind of bucket; one call may be cancelled.
SPECIFICATION FairSpec
CONSTANTS
    c1 = c1  c2 = c2  c3 = c3
    Callers = {c1, c2, c3}
    Amount <- MCAmount
    MayCancel = {c1}
    Limits <- MCLimits
INVARIANTS
    LimitIsExact
    NoOversleep
PROPERTIES
    CallsAreServed
