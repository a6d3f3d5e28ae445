CONSTANTS
    Threads = {main, t1}
    Main = main
    Keys = {k1, k2}
    NoKey = NoKey
    CpuCounts = {1}
    CudaCounts = {1}
    MaxTasks = 3
    Discipline = {"alone", "drain", "stop", "probe"}
SPECIFICATION Spec
SYMMETRY Symmetry
INVARIANTS
    TypeOK
    KeysLive
    ConfigurationApplied
