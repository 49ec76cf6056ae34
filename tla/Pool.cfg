SPECIFICATION FairSpec
CONSTANTS
    w1 = w1
    w2 = w2
    Main = Main
    NoJob = NoJob
    Threads <- TwoWorkers
    Jobs <- Task
    NumEvents = 4
    Pools <- AllPools
    MaxStandard = 1
    MaxPriority = 2
    BufferLeft = 2
PROPERTIES PlainWaitMeansDone WaitReports CallsReturn FuturesReady PromisesKept
CHECK_DEADLOCK FALSE
