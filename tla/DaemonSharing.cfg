SPECIFICATION Spec
CONSTANTS
    x = x
    a = a
    b = b
    c = c
    o = o
    Sessions = {"s1", "s2"}
    Files <- OneFile
    Before <- Nothing
    Threshold = 2
    Failing = {}
    Hole = Hole
    None = None
PROPERTY
    CompleteIsWhole
