SPECIFICATION Spec
CONSTANTS
    None = None
    Units <- MCUnits
    Sources <- SafetySources
    Leftovers <- SafetyLeftovers
    Options <- SafetyOptions
    Threshold = 3
    Align = 2
    PrefixLen = 1
    Faults = {"stat", "open", "read", "create", "write", "rename", "hash"}
    MaxSessions = 2
    MaxFaults = 1
    MaxPauses = 0
    MaxEdits = 1
INVARIANTS
    OffsetsAgree
    CompletedMeansIdentical
    ResumeKeepsProgress
PROPERTIES
    ImplementsFileDelivery
