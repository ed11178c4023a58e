CONSTANTS
    Nobody = Nobody
    Procs = {p1, p2, p3}
    Domains = {d1, d2, d3}
    Hosts = {}
    Literals = {d3}
    Replies = {"address", "none", "error", "garbled"}
    MaxCalls = 2
SPECIFICATION SafeSpec
INVARIANTS
    TypeOK
    ListsAreSound
PROPERTY OnlyRestartDrops
CHECK_DEADLOCK FALSE
