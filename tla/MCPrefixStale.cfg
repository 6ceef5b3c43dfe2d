CONSTANTS
    IdSpace = 3
    MaxIds = 4
    MaxSessions = 1
    MaxVersion = 2
    MaxNotes = 1
    NoteTokens = {2, 3}
    MaxFlight = 3
SPECIFICATION Spec
INVARIANT PrefixNotStale
CHECK_DEADLOCK FALSE
