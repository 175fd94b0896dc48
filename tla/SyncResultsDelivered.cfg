SPECIFICATION FairSpec
CONSTANTS
    s1 = s1
    s2 = s2
    Sources <- TwoSources
    Paths = {1}
    Bytes = {1}
    Commands = {"init", "sync"}
    Workers = 2
    MaxTime = 2
    MaxFaults = 1
    MaxEdits = 0
    MayTear = FALSE
    Obedient = TRUE
    Gone = Gone
    NoRecord = NoRecord
    NoGuard = NoGuard
    NoJournal = NoJournal
    NoResult = NoResult
    Idle = Idle
    Litter = Litter
CHECK_DEADLOCK FALSE
INVARIANT ActiveIsAnnounced
PROPERTIES OwedDelivered JournalAnswered
