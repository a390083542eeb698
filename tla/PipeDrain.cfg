SPECIFICATION Spec
CONSTANTS
    Kinds <- Sources
    InSizes = {0}
    OutSize = 4
    MaxInFlight = 1
    PipeCap = 1
    Loses = FALSE
    OutputFails = FALSE
    InputFails = {}
INVARIANT
    OutputDrained
