SPECIFICATION Spec
CONSTANTS
    NoEvent = NoEvent
    Chains <- MuPixOnly
    MaxWords = 4
    MaxData = 4
    MaxEvents = 3
    TriggerRange = 8
    framelength_ = 2
    MaxRecords = 6
INVARIANTS NoLateHit
CHECK_DEADLOCK FALSE
