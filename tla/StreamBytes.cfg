SPECIFICATION FairSpec
CONSTANTS
    MaxInFlight = 1
    Total <- MCTotal
    Chunks <- MCChunks
    ReadSizes <- MCReadSizes
    Resets = TRUE
INVARIANTS
    TypeOK
    InFlightExact
    NoLostWakeup
PROPERTIES
    ImplementsByteStream
    LossEndsReaders
    ParkedWritersGoOn
