SPECIFICATION FairSpec
CONSTANTS
    Bodies = {"page", "binary"}
    Shells = {"page"}
    Unsupported = {"binary"}
    Urls = {1, 2}
    Requests <- AllRequests
    NoBody = NoBody
    NoRecord = NoRecord
    NoGuard = NoGuard
    NoJournal = NoJournal
    NoResult = NoResult
    NoPlan = NoPlan
    NoEvent = NoEvent
    Idle = Idle
    MaxTime = 2
    MaxFaults = 1
    MaxEdits = 1
INVARIANTS TypeOK ResultIsThePlanned ActiveIsProved ActiveIsAnnounced
PROPERTIES PlanStands OfferedIsWhole SettledIsDelivered
CHECK_DEADLOCK FALSE
