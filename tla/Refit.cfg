SPECIFICATION RefitSpec
CONSTANTS
    w1 = w1
    w2 = w2
    Main = Main
    NoJob = NoJob
    Threads <- TwoWorkers
    Jobs <- Task
    NumTracks = 3
    NumCalls = 2
    MaxVersion = 3
    NumEvents = 6
    Pools <- RefitPools
    MaxStandard = 2
    MaxPriority = 0
    BufferLeft = 0
INVARIANTS NoRefitDuringMove CallOutcome
PROPERTIES CallEnds
CHECK_DEADLOCK FALSE
