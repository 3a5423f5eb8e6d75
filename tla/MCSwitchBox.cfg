SPECIFICATION BoxSpec
CONSTANTS
    NUM_ACTUATORS = 1
    ID_QUICK_DISCONNECT = 0
    ID_IGNITER = 10
    ID_FIRE_VALVE = 11
    ID_DUMP = 12
    ID_XV = {11}
    Requests <- MCRequests
    Switches <- MCSwitches
    KEY = 2
    Rounds = 1
    Unreadable = {1, 2}
    ReceiveTimeout = TRUE
    MaxFlight = 2
INVARIANTS
    FollowInv
    Interlock
    PadFollowsBox
PROPERTY
    NoEscalation
