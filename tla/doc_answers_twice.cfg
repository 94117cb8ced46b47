\* A client answers twice, and a call times out meanwhile.
SPECIFICATION FairSpec
CONSTANTS
    i1 = i1  i2 = i2
    Invocations = {i1, i2}
    MaxAnswers = 2
    MayCancel = FALSE
    MayClose = FALSE
    MayBreak = FALSE
    MayBeLong = {}
    PipeRoom = 2
    MayTimeOut = {i1}
    Kinds = {"stdio"}
PROPERTIES
    AnswersArrive
