CONSTANTS
    c1 = c1
    c2 = c2
    c3 = c3
    h1 = h1
    h2 = h2
    h3 = h3
    None = None
    Clients = {c1, c2, c3}
    Connectors = {c1}
    Helper <- HelperOf
    Conns = {k1, k2, k3}
    Drivers = {"mysql", "pgsql", "redis"}
    Max = 2
    MaxOps = 2
    MaxLosses = 2
    MaxRaises = 1
SPECIFICATION Spec
INVARIANTS
    TypeOK
    
    Exclusive
    NoIdleCapacity
    WaitersAreKnown
 
CHECK_DEADLOCK FALSE
