SPECIFICATION FairSpec
CONSTANTS
    s1 = s1
    s2 = s2
    Sources <- OneSource
    Paths = {1}
    Bytes = {1}
    Commands = {"sync"}
    Workers = 1
    MaxTime = 2
    MaxFaults = 2
    MaxEdits = 0
    MayTear = FALSE
    Obedient = TRUE
    Gone = Gone
    NoRecord = NoRecord
    NoGuard = NoGuard
    NoJournal = NoJournal
    NoResult = NoResult
    Idle = Idle
    Litter = Litter
CHECK_DEADLOCK FALSE
PROPERTY InterruptedRetried
