SPECIFICATION FairSpec
CONSTANTS
    x = x
    a = a
    b = b
    c = c
    o = o
    Sessions = {"s1", "s2"}
    Files <- AllFiles
    Before <- Destinations
    Threshold = 2
    Failing = {"s1"}
    Hole = Hole
    None = None
CONSTRAINT Refusing
INVARIANT
    TypeOK
PROPERTIES
    DeliveredWhole
    RefuseHolds
    ReplacedAtOnce
    SessionsEnd
