CONSTANTS
    KeepAliveInterval = 5
    NodeTimeout = 2
    ExchangeTimeout = 1
    Meshes <- MCMeshes
    Commands <- MCCommands
    MaxFaults = 2
SPECIFICATION FairSpec
INVARIANTS KeepAliveInTime QueriesInSession  NobodyMissed SnapshotConsistent
PROPERTIES WalkEnds
