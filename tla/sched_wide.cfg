\* Independent tasks compete for slots under both failure policies, one with a
\* negative retry.max, one with a reference to a task it does not depend on.
SPECIFICATION FairSpec
CONSTANTS
    a = a  b = b  c = c  d = d
    Absent = Absent
    Tasks = {a, b, c, d}
    DependsOn <- Wide
    MaxParallel = 2
    OnError <- BContinues
    DefaultOnError = "fail_fast"
    RetryMax <- RetryMix
    DefaultRetryMax = 0
    TimedTasks = {a}
    DefaultTimeout = FALSE
    GlobalLimit = TRUE
    ProviderLimited = {a}
    InputRefs <- DMentionsC
    LooseRefs = {}
    OutputRefs = {d}
    LooseOutput = TRUE
    SkillOutcomes = {"ok", "transport"}
    MayCancel = TRUE
INVARIANTS
    ReportAccounts
PROPERTIES
    KeepsPromise
    RunEnds
