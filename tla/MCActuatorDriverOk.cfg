SPECIFICATION Spec
CONSTANTS
    Gpio <- MCGpio
    Pwm <- MCPwm
    MaxFds = 3
    DeviceFaults = FALSE
INVARIANT
    OkMeansDriven
