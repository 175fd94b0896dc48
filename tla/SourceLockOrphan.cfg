SPECIFICATION FairSpec
CONSTANTS
    p1 = p1
    h1 = h1
    Procs = {p1, p2}
    Hosts = {h1, h2}
    Inodes = {i1, i2}
    NoFile = NoFile
    NoProc = NoProc
    Foreign = Foreign
    HostOf <- TwoHosts
    Offset <- Skewed
    MaxSkew = 1
    StaleAfter = 2
    MaxRetries = 2
    MaxTime = 3
    MaxCrashes = 1
    MaxFaults = 1
    MaxExternals = 0
INVARIANTS TypeOK MutualExclusion
PROPERTIES ImplementsLease OrphanRecovered
CHECK_DEADLOCK FALSE
