CONSTANTS
    Wires = {v, w, x, y}
    Builds = {"tangor", "hoge", "iyokan", "ram"}
    Cells <- CellsOfBuilds
    CpuWorkers <- CpuOfBuilds
    CudaWorkers <- CudaOfBuilds
    Idle = Idle
SPECIFICATION Spec
SYMMETRY Symmetry
INVARIANTS
    TypeOK
    GateResults
