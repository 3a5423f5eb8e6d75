SPECIFICATION FairLinkSpec
CONSTANTS
    Requests <- MCRequests
    ReceiveTimeout = TRUE
    DriverFails = TRUE
    ServerStops = TRUE
    OptionsFail = TRUE
    LinkErrors = {"ENOTCONN", "ECONNRESET"}
    MaxSends = 3
    MaxConns = 3
INVARIANTS
    ExecutedInOrder
    AnswerBelongs
    VerdictTrueInTime
PROPERTIES
    ClientServed
    ClientReturns
CHECK_DEADLOCK FALSE
