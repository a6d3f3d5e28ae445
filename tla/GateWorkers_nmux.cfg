CONSTANTS
    Wires = {v, w, x, y}
    Builds = {"hoge"}
    Cells <- OnlyNMUX
    CpuWorkers <- CpuOfBuilds
    CudaWorkers <- CudaOfBuilds
    Idle = Idle
SPECIFICATION Spec
SYMMETRY Symmetry
INVARIANTS
    GateResults
