CONSTANTS
    Nobody = Nobody
    Procs = {p1, p2}
    Domains = {d1}
    Hosts = {}
    Literals = {}
    Replies = {"address", "none"}
    MaxCalls = 2
SPECIFICATION Spec
PROPERTY WaitersAreWoken
CHECK_DEADLOCK FALSE
