SPECIFICATION Spec
CONSTANTS
    None = None
    Transports <- MCTransports
INVARIANT
    AutoFallsBack
