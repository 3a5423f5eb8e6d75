SPECIFICATION FairSensorSpec
CONSTANTS
    Adcs <- MCAdcs
    Topics <- MCTopics
    MassSensor = "mass0"
    None = "none"
    READINGS = 3
    Forces <- MCForces
INVARIANTS
    SensorInv
    LabelTrue
    OneReadingEach
    TareNear
PROPERTIES
    TelemetryFlows
