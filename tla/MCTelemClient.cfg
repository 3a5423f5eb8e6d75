SPECIFICATION Spec
CONSTANTS
    NUM_ACTUATORS = 2
    Levels <- MCLevels
    Readings <- MCReadings
    BufferSize = 3
    Nothing = Nothing
INVARIANTS
    TelemInv
    PeekHolds
PROPERTIES
    LevelShown
