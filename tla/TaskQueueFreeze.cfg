SPECIFICATION Spec
CONSTANTS
    a = a
    b = b
    c = c
    w1 = w1
    w2 = w2
    w3 = w3
    None = None
    Tasks = {a, b}
    Workers = {w1, w2}
    Deps <- TwoIndependent
    Overlap <- TwoIndependent
    Cap = 2
    MaxAttempts = 2
    SpinLimit = 2
    MaxCrashes = 0
    GapCrash = FALSE
PROPERTY FreeSlotsAreUsed
