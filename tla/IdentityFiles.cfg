SPECIFICATION Spec
CONSTANTS
    p1 = p1
    p2 = p2
    p3 = p3
    t1 = t1
    t2 = t2
    Persistent = {p1, p2, p3}
    Temporary = {t1, t2}
    Absent = Absent
    Partial = Partial
CONSTRAINT OneDirectory
SYMMETRY Symmetry
INVARIANTS
    TypeOK
    Coherent
    IdentityStable
    FailureExplained
