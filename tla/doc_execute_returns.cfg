\* A client that leaves one line unread, and a call with a timeout.
SPECIFICATION FairSpec
CONSTANTS
    i1 = i1  i2 = i2
    Invocations = {i1, i2}
    MaxAnswers = 1
    MayCancel = FALSE
    MayClose = FALSE
    MayBreak = FALSE
    MayBeLong = {}
    PipeRoom = 1
    MayTimeOut = {i1}
    Kinds = {"stdio", "grpc"}
PROPERTIES
    ReturnsWhenDone
