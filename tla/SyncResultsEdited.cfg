SPECIFICATION Spec
CONSTANTS
    s1 = s1
    s2 = s2
    Sources <- OneSource
    Paths = {1, 2}
    Bytes = {1, 2}
    Commands = {"sync"}
    Workers = 1
    MaxTime = 3
    MaxFaults = 2
    MaxEdits = 2
    MayTear = FALSE
    Obedient = FALSE
    Gone = Gone
    NoRecord = NoRecord
    NoGuard = NoGuard
    NoJournal = NoJournal
    NoResult = NoResult
    Idle = Idle
    Litter = Litter
INVARIANTS TypeOK AnnouncedWasActive ActiveIsProved OneOutstandingResult EveryEventOnce HandoffsAreDurable
PROPERTY ImplementsResultDelivery
CHECK_DEADLOCK FALSE
