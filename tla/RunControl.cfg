SPECIFICATION FairSpec
CONSTANTS
    NoEvent = NoEvent
    Events = {0, 1}
    Slots <- TracksOnly
    Objects <- AllObjects
    TrackSlots <- TracksOnly
    ModuleCounts = {0, 2}
    Limits <- AllLimits
    OpsPerRun = 1
    MaxPersistent = 2
    MaxCount = 2
INVARIANTS EventIsolation ExitMeansFinalized
PROPERTIES NothingOverwritten RunStops Terminates
CHECK_DEADLOCK FALSE
