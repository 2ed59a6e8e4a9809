SPECIFICATION Spec
CONSTANTS
    a = a
    b = b
    c = c
    w1 = w1
    w2 = w2
    w3 = w3
    None = None
    Tasks = {a, b, c}
    Workers = {w1, w2, w3}
    Deps <- ThirdWaits
    Overlap <- ClashingOfThree
    Cap = 2
    MaxAttempts = 1
    SpinLimit = 3
    MaxCrashes = 1
    GapCrash = FALSE
INVARIANTS
    CapRespected
    NoOverlapLive
SYMMETRY Alike
