SPECIFICATION FairSpec
CONSTANTS
    NoEvent = NoEvent
    Chains <- AllChains
    MaxWords = 4
    MaxData = 4
    MaxEvents = 3
    TriggerRange = 8
    framelength_ = 2
    MaxRecords = 6
INVARIANTS TypeOK EventsDisjoint WindowOfMatch ReleasedInOrder StoredRight NoLateData
PROPERTIES RunEnds
CHECK_DEADLOCK FALSE
