SPECIFICATION FairSpec
CONSTANTS
    None = None
    Units <- MCUnits
    Sources <- LivenessSources
    Leftovers <- LivenessLeftovers
    Options <- LivenessOptions
    Threshold = 3
    Align = 2
    PrefixLen = 1
    Faults = {"open", "create", "write", "rename", "hash"}
    MaxSessions = 2
    MaxFaults = 1
    MaxPauses = 1
    MaxEdits = 0
INVARIANTS
    TypeOK
PROPERTIES
    SessionSettles
