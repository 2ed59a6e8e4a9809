SPECIFICATION FairSpec
CONSTANTS
    a = a
    b = b
    c = c
    w1 = w1
    w2 = w2
    w3 = w3
    None = None
    Tasks = {a, b}
    Workers = {w1}
    Deps <- DepChain
    Overlap <- TwoIndependent
    Cap = 1
    MaxAttempts = 2
    SpinLimit = 4
    MaxCrashes = 1
    GapCrash = FALSE
PROPERTY EveryTaskSettles
