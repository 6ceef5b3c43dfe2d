CONSTANTS
    IdSpace = 3
    MaxIds = 4
    MaxSessions = 1
    MaxVersion = 2
    MaxNotes = 1
    NoteTokens = {2, 3}
    MaxFlight = 2
SPECIFICATION Spec
INVARIANTS TypeOK AnswersMatch LifecycleConsistent PrefixReflectsNotices
PROPERTIES AdoptsOwnGrant OwnAnswerDecides DisconnectedIsFinal
CHECK_DEADLOCK FALSE
