CONSTANTS
    c1 = c1
    c2 = c2
    c3 = c3
    h1 = h1
    h2 = h2
    h3 = h3
    None = None
    Clients = {c1, c2}
    Connectors = {c1}
    Helper <- HelperOf
    Conns = {k1, k2, k3}
    Drivers = {"redis", "ssdb"}
    Max = 2
    MaxOps = 2
    MaxLosses = 0
    MaxRaises = 0
SPECIFICATION Spec
INVARIANT TakesConnection
CHECK_DEADLOCK FALSE
