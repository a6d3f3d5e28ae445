CONSTANTS
    Threads = {t1, t2}
    TLWEs = {a, b}
    TRLWEs = {w}
    TRGSWs = {s}
    MainRam = MainRam
    Devices = {g1}
    CudaCmux = TRUE
    MaxOps = 2
    MaxRegs = 2
    MaxFailures = 1
    None = None
SPECIFICATION Spec
SYMMETRY Symmetry
INVARIANTS
    CoherenceInv
