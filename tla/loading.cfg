\* Every document of the instance, loaded to the end, and every way its run may go.
SPECIFICATION ReportSpec
CONSTANTS
    Docs <- MCDocs
    MaxDepth = 3
    Values <- MCValues
    Inputs <- MCInputs
    Succeeded <- MCSucceeded
    Unsuccessful <- MCUnsuccessful
INVARIANTS
    SearchIsSound
    SameReading
    PathIsCritical
    ReportIsTrue
PROPERTIES
    LoadingEnds
