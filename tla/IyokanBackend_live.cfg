CONSTANTS
    Threads = {t1, t2}
    TLWEs = {a, b}
    TRLWEs = {}
    TRGSWs = {}
    MainRam = MainRam
    Devices = {g1}
    CudaCmux = FALSE
    MaxOps = 2
    MaxRegs = 2
    MaxFailures = 1
    None = None
SPECIFICATION FairSpec
PROPERTIES
    CallsReturn
    TasksFinish
