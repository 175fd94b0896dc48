SPECIFICATION Spec
CONSTANTS
    p1 = p1
    h1 = h1
    Procs = {p1, p2}
    Hosts = {h1, h2}
    Inodes = {i1, i2, i3, i4}
    NoFile = NoFile
    NoProc = NoProc
    Foreign = Foreign
    HostOf <- TwoHosts
    Offset <- Skewed
    MaxSkew = 0
    StaleAfter = 1
    MaxRetries = 2
    MaxTime = 1
    MaxCrashes = 1
    MaxFaults = 0
    MaxExternals = 2
PROPERTIES VerifiedRemoval NeverOverwritten
CHECK_DEADLOCK FALSE
SYMMETRY Symmetry
