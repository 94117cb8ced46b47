\* A join with a repeated dependency and a task beside it; mixed policies, retries
\* and timeouts, a template that may not resolve, a second run on the orchestrator.
SPECIFICATION FairSpec
CONSTANTS
    a = a  b = b  c = c  d = d  e = e
    Absent = Absent
    Tasks = {a, b, c, d, e}
    DependsOn <- Kite
    MaxParallel = 2
    OnError <- CFailsFast
    DefaultOnError = "continue"
    RetryMax <- RetryBOnce
    DefaultRetryMax = 0
    TimedTasks = {b, c}
    DefaultTimeout = FALSE
    GlobalLimit = TRUE
    ProviderLimited = {b}
    InputRefs <- DMentionsE
    LooseRefs = {c}
    OutputRefs = {d}
    LooseOutput = FALSE
    SkillOutcomes = {"ok", "error", "cancelled"}
    SharedEngine = TRUE
INVARIANTS
    PyBookkeeping
    PyOrderKept
    PyReportIsRight
    PyRaisesForTemplatesOnly
PROPERTIES
    PyKeepsPromise
    PyRunEnds
