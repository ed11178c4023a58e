CONSTANTS
    main = main
    c1 = c1
    c2 = c2
    c3 = c3
    ok = ok
    nil = nil
    Coroutines = {main, c1, c2, c3}
    Main = main
    Payloads = {ok}
    Nil = nil
SPECIFICATION Spec
INVARIANTS
    TypeOK
    NoLostWakeup
    QueueIsSound
PROPERTIES
    ArgsSurvive
    FifoSafe
    WokenRuns
CHECK_DEADLOCK FALSE
