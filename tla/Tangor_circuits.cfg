CONSTANTS
    Circuits <- AllCircuits
    Accelerators = {"cufhepp", "hoge"}
    MaxDevices = 2
    MaxFailures = 1
SPECIFICATION FairSpec
INVARIANTS
    TypeOK
    ConesMatch
    ResultsMatch
    KeysDuringTasks
PROPERTIES
    Completes
