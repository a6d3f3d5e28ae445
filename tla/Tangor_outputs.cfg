CONSTANTS
    Circuits <- FeedThroughAndReversed
    Accelerators = {"cpu"}
    MaxDevices = 0
    MaxFailures = 0
SPECIFICATION Spec
INVARIANTS
    EveryOutput
