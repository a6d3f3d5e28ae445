CONSTANTS
    Threads = {main, t1}
    Main = main
    Keys = {k1, k2}
    NoKey = NoKey
    CpuCounts = {}
    CudaCounts = {1}
    MaxTasks = 2
    Discipline = {}
SPECIFICATION FairSpec
INVARIANTS
    OneKeyPerProcess
PROPERTIES
    CallsReturn
    ExitCompletes
\* Blocking calls into a StarPU that was shut down wait for ever.
CHECK_DEADLOCK FALSE
