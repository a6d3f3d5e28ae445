CONSTANTS
    Threads = {main, t1}
    Main = main
    Keys = {k1, k2}
    NoKey = NoKey
    CpuCounts = {1}
    CudaCounts = {1}
    MaxTasks = 2
    Discipline = {"alone", "stop", "probe"}
SPECIFICATION Spec
SYMMETRY Symmetry
INVARIANTS
    GpuKeysOutliveTasks
