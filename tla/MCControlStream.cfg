SPECIFICATION FairStreamSpec
CONSTANTS
    Bodies <- MCBodies
    Garbage = {0, 2}
    MaxConns = 2
    MaxSent = 2
INVARIANTS
    ExecutedAsSent
    NothingLeftBehind
PROPERTIES
    ServerReturns
CHECK_DEADLOCK FALSE
