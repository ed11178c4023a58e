SPECIFICATION Spec
CONSTANTS
    Coroutines = {c1, c2}
    Sockets = {1, 2}
    Watchers = {1, 2, 3}
    Nil = Nil
    MaxWaits = 4
INVARIANT SendsAreWhole
CHECK_DEADLOCK FALSE
