SPECIFICATION Spec
CONSTANTS
    w1 = w1
    w2 = w2
    f1 = f1
    f2 = f2
    Daemon = Daemon
    Workers = {w1, w2}
    Files = {f1, f2}
    Touches <- OneFileEach
    MaxTries <- OneEach
    MaxEdits = 2
    MaxKills = 0
    MaxPins = 0
    MaxGlitches = 1
INVARIANTS
    ClosedIsLanded
CHECK_DEADLOCK FALSE
