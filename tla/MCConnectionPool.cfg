CONSTANTS
    t1 = t1
    t2 = t2
    c1 = c1
    c2 = c2
    c3 = c3
    c4 = c4
    c5 = c5
    c6 = c6
    NoConn = NoConn
    Threads <- MCThreads
    Conns <- MCConns
    MinPageserver = 1
    MaxPageserver = 3
    MinSafekeeper = 1
    MaxSafekeeper = 2
    HealthResults = {TRUE}
    MaxRequests = 4
SYMMETRY MCSymmetry
SPECIFICATION Spec
INVARIANT TypeOK
