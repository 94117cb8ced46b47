\* Workflows the loader accepted, written with to_dict.
SPECIFICATION ReportSpec
CONSTANTS
    Docs <- MCDocs
    MaxDepth = 3
    Values <- MCValues
    Inputs <- MCInputs
    Succeeded <- MCSucceeded
    Unsuccessful <- MCUnsuccessful
INVARIANTS
    ToDictReadsBack
