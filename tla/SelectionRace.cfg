SPECIFICATION FairSpec
CONSTANTS
    None = None
    Transports <- MCTransports
INVARIANTS
    TypeOK
    SshIsLastResort
PROPERTY
    SingleCandidateSettles
