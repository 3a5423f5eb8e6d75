SPECIFICATION Spec
CONSTANTS
    NUM_ACTUATORS = 3
    ID_IGNITER = 0
    ID_QUICK_DISCONNECT = 1
    ID_XV <- NoXV
    ID_FIRE_VALVE = 10
    ID_DUMP = 2
    Requests <- MCRequests
    LossyNetwork = FALSE
    Silence = Silence
INVARIANTS
    NoLostUpdate
    NoLostWakeup
    SnapshotReal
    IndInv
PROPERTIES
    ImplementsPadCommands
