CONSTANTS
    Threads = {t1}
    TLWEs = {}
    TRLWEs = {w, x}
    TRGSWs = {s}
    MainRam = MainRam
    Devices = {g1}
    CudaCmux = TRUE
    MaxOps = 3
    MaxRegs = 1
    MaxFailures = 0
    None = None
SPECIFICATION Spec
SYMMETRY Symmetry
INVARIANTS
    CoherentReads
