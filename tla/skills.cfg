\* A skill on a thread with a timeout and a retry, one without, and a coroutine.
SPECIFICATION FairSpec
CONSTANTS
    s = s  u = u  v = v
    Tasks = {s, u, v}
    Slots = 2
    Workers = 2
    RetryMax <- RetryS
    Async = {v}
    Timed = {s, v}
    Registries <- WithAndWithoutU
    FailFast = {v}
    Providers = {"openai", "none"}
    Installed <- AllAdapters
    MaxUses <- UsesOfSAndV
    Sizes = {1}
INVARIANTS
    SkillsAccountedFor
    UsageAccounted
PROPERTIES
    SkillRunEnds
