SPECIFICATION Spec
CONSTANTS
    a = a
    b = b
    c = c
    w1 = w1
    w2 = w2
    w3 = w3
    None = None
    Tasks = {a, b}
    Workers = {w1, w2}
    Deps <- DepChain
    Overlap <- TwoIndependent
    Cap = 2
    MaxAttempts = 2
    SpinLimit = 2
    MaxCrashes = 2
    GapCrash = FALSE
INVARIANTS
    TypeOK
    OnePlace
    ClaimHeld
PROPERTIES
    ExhaustionIsFinal
    SpentNeverClaimed
    DepsFirst
    Implements
SYMMETRY Alike
