CONSTANTS
    t1 = t1
    t2 = t2
    Timers = {t1}
    Timeouts = {1}
    Sub = 2
    Horizon = 4
    MaxClockSteps = 0
    EarlyWakeups = FALSE
SPECIFICATION Spec
PROPERTY CallbacksFire
CHECK_DEADLOCK FALSE
