SPECIFICATION LadderSpec
CONSTANTS
    NUM_ACTUATORS = 5
    ID_IGNITER = 0
    ID_XV <- OneXV
    ID_FIRE_VALVE = 2
    ID_QUICK_DISCONNECT = 3
    ID_DUMP = 4
    Requests <- MCRequests
PROPERTY
    UndoMovesBack
