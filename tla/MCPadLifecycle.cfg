SPECIFICATION FairLifeSpec
CONSTANTS
    NUM_ACTUATORS = 1
    ID_IGNITER = 12
    ID_QUICK_DISCONNECT = 11
    ID_XV <- NoXV
    ID_FIRE_VALVE = 10
    ID_DUMP = 0
    Requests <- MCRequests
    LossyNetwork = TRUE
    Silence = Silence
    BadDataFile = TRUE
    SecondJoinReturns = TRUE
INVARIANTS
    SocketOutlivesItsUser
    ExitAfterCleanup
PROPERTIES
    TelemetryStops
    AvailableWhileTelemetryLives
    AgreementWhileTelemetryLives
CHECK_DEADLOCK FALSE
