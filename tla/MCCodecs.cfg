CONSTANTS
    Order = 7
    Examples <- MCExamples
    MaxCutLength = 64
    BodyLength = 3
    Datasets <- MCDatasets
    Edits <- MCEdits
    Joiners <- MCJoiners
    Filters <- MCFilters
    Secrets = {0, 1, 2, 3}
    Nonces = {3}
SPECIFICATION Spec
INVARIANTS RoundTrip TruncationNeverMisread DatasetReadsBack SteeringAdmits KeysAgree
PROPERTIES ReassemblyExact
CHECK_DEADLOCK FALSE
