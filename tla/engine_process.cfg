\* A channel with room for two events, and a run that emits up to six.
SPECIFICATION FairSpec
CONSTANTS
    Capacity = 2
    MaxEvents = 6
CHECK_DEADLOCK FALSE
INVARIANTS
    OutputAccountedFor
    StatusTellsReport
PROPERTIES
    ProcessEnds
