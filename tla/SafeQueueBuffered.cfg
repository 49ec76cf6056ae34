SPECIFICATION Spec
CONSTANTS
    t1 = t1
    t2 = t2
    t3 = t3
    j1 = j1
    j2 = j2
    j3 = j3
    NoJob = NoJob
    Threads <- ThreeThreads
    Jobs <- ThreeJobs
    MaxStandard = 1
    MaxPriority = 2
    BufferLeft = 1
    MaxId = 2
    StandardWait = {TRUE}
    PriorityWait = {FALSE}
SYMMETRY SymmetryJobs3
INVARIANTS TypeOK Prefix NoStall NoLostPush NoSleepAfterInvalidate
PROPERTIES LinearRelease
CHECK_DEADLOCK FALSE
