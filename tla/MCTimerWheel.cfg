CONSTANTS
    t1 = t1
    t2 = t2
    Timers = {t1, t2}
    Timeouts = {1, 2}
    Sub = 2
    Horizon = 4
    MaxClockSteps = 1
    EarlyWakeups = TRUE
SPECIFICATION Spec
INVARIANTS
    TypeOK
    WheelIsSound
    
PROPERTIES
    NotEarly
    
    TimersFire
CHECK_DEADLOCK FALSE
