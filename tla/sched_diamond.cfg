\* A join with a repeated dependency; mixed policies, retries, timeouts, cancellation.
SPECIFICATION Spec
CONSTANTS
    a = a  b = b  c = c  d = d
    Absent = Absent
    Tasks = {a, b, c, d}
    DependsOn <- Diamond
    MaxParallel = 2
    OnError <- CFailsFast
    DefaultOnError = "continue"
    RetryMax <- RetryAOnce
    DefaultRetryMax = 1
    TimedTasks = {b, c}
    DefaultTimeout = FALSE
    GlobalLimit = TRUE
    ProviderLimited = {b}
    InputRefs <- RefsAreDeps
    LooseRefs = {c, d}
    OutputRefs = {d}
    LooseOutput = FALSE
    SkillOutcomes = {"ok", "retryable", "fatal"}
    MayCancel = TRUE
INVARIANTS
    TypeOK
    DependencyOrder
    SlotAccounting
    RunIsComplete
    SkipsExactly
    SuccessMeansComplete
    AttemptsAreUsedUp
    EventsCoherent
PROPERTIES
    HistoryStands
