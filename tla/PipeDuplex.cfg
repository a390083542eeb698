SPECIFICATION FairSpec
CONSTANTS
    Kinds = {"echo", "digest", "source", "quits", "none"}
    InSizes = {0, 2}
    OutSize = 3
    MaxInFlight = 1
    PipeCap = 1
    Loses = TRUE
    OutputFails = TRUE
    InputFails = {"cli", "worker"}
CONSTRAINT OneFailure
INVARIANTS
    TypeOK
    OutputWhole
    InputWhole
    InputConsumed
PROPERTY
    PipeEnds
