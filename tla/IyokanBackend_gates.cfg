CONSTANTS
    Threads = {t1}
    TLWEs = {a, b}
    TRLWEs = {}
    TRGSWs = {}
    MainRam = MainRam
    Devices = {g1, g2}
    CudaCmux = FALSE
    MaxOps = 3
    MaxRegs = 2
    MaxFailures = 0
    None = None
SPECIFICATION Spec
SYMMETRY Symmetry
INVARIANTS
    TypeOK
    SynchronizedOutputs
PROPERTIES
    ImplementsDataflow
