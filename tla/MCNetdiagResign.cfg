CONSTANTS
    KeepAliveInterval = 5
    NodeTimeout = 2
    ExchangeTimeout = 1
    Meshes <- MCMeshes
    Commands <- MCCommands
    MaxFaults = 0
SPECIFICATION Spec
INVARIANTS ResignsBeforeExit
