\* Two calls, one with a timeout; the client may answer twice, cancel, close, and
\* leave one line unread.
SPECIFICATION FairSpec
CONSTANTS
    i1 = i1  i2 = i2
    Invocations = {i1, i2}
    MaxAnswers = 2
    MayCancel = TRUE
    MayClose = TRUE
    MayBreak = TRUE
    MayBeLong = {i2}
    PipeRoom = 1
    MayTimeOut = {i1}
    Kinds = {"stdio", "grpc"}
INVARIANTS
    TransportInv
PROPERTIES
    KeepsContract
    SingleAnswersArrive
    ClosingReleases
