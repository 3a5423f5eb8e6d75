SPECIFICATION Spec
CONSTANTS
    NUM_ACTUATORS = 1
    Levels <- MCLevels
    Readings <- MCReadings
    BufferSize = 2
    Nothing = Nothing
PROPERTY
    ActuatorsShown
