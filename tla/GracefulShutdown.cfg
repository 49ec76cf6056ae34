SPECIFICATION FairSpec
CONSTANTS
    NoEvent = NoEvent
    Events = {0, 1}
    Slots <- AllSlots
    Objects <- AllObjects
    TrackSlots <- TracksOnly
    ModuleCounts = {1}
    Limits <- AllLimits
    OpsPerRun = 0
    MaxPersistent = 0
    MaxCount = 2

PROPERTIES GracefulShutdown
CHECK_DEADLOCK FALSE
