SPECIFICATION Spec
CONSTANTS
    w1 = w1
    w2 = w2
    Main = Main
    NoJob = NoJob
    Threads <- TwoWorkers
    Jobs <- Task
    NumEvents = 1
    Pools <- BufferedPool
    MaxStandard = 1
    MaxPriority = 2
    BufferLeft = 2
SYMMETRY TwoWorkerSymmetry
PROPERTIES WaitMeansDone
CHECK_DEADLOCK FALSE
