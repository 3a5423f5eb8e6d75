SPECIFICATION Spec
CONSTANTS
    Gpio <- MCGpio
    Pwm <- MCPwm
    MaxFds = 3
    DeviceFaults = TRUE
INVARIANTS
    GpioAnswerMeansDriven
    GpioGivesBack
    DriverInv
PROPERTIES
    OtherChannelKept
