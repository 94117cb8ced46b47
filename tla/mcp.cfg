\* A thread of the run that cleans up, one of another run that shares the
\* registry, and one with temporary servers.
SPECIFICATION FairSpec
CONSTANTS
    c1 = c1  c2 = c2  t1 = t1  fs = fs  web = web
    None = None
    Callers = {c1, c2, t1}
    Own = {c1, t1}
    Managed = {c1, c2}
    Names = {fs, web}
    MaxCalls <- C2CallsTwice
CHECK_DEADLOCK FALSE
INVARIANTS
    ServersAccountedFor
    OneServerPerName
PROPERTIES
    CallsEnd
