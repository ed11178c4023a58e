CONSTANTS
    s1 = s1
    s2 = s2
    u1 = u1
    u2 = u2
    Workers = {1, 2}
    SidRange = 3
    Cap = 4
    MaxEvents = 2
    Senders = {s1, s2}
    Schemes = {"stream", "stomp", "publish"}
    MaxEmits = 2
    MaxLogins = 3
    MaxFaults = 1
    Users = {u1, u2}
    MaxWrites = 2
    MaxOthers = 2
    MaxFailures = 1
SPECIFICATION MSpec
INVARIANTS
    TypesOK
    NothingIsLost
    CallsGetOwnAnswer
    SendersAreServed
    FilesAreKept
PROPERTY AllReturn
CHECK_DEADLOCK FALSE
