SPECIFICATION FairSpec
CONSTANTS
    None = None
    Clients = {"c1", "c2"}
    Bundles = {"b1", "b2", "b3"}
    Embedded = {"c1", "c2"}
    Retained = 1
    Worlds <- MCWorlds
    MaxFailures = 1
    SlowUploads = TRUE
    Locks = TRUE
INVARIANTS
    TypeOK
    PublishedWhole
    FailureHasCause
    CacheBounded
PROPERTIES
    NeverOverwritten
    BootstrapEnds
