SPECIFICATION LinkSpec
CONSTANTS
    Requests <- MCRequests
    ReceiveTimeout = TRUE
    DriverFails = FALSE
    ServerStops = FALSE
    OptionsFail = FALSE
    LinkErrors = {"ENOTCONN"}
    MaxSends = 2
    MaxConns = 1
INVARIANT
    VerdictTrue
CHECK_DEADLOCK FALSE
