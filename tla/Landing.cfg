SPECIFICATION Spec
CONSTANTS
    w1 = w1
    w2 = w2
    f1 = f1
    f2 = f2
    Daemon = Daemon
    Workers = {w1, w2}
    Files = {f1, f2}
    Touches <- OneFileEach
    MaxTries <- TwoAndOne
    MaxEdits = 2
    MaxKills = 1
    MaxPins = 1
    MaxGlitches = 2
INVARIANTS
    TypeOK
    StashAccounted
    UnmergedIsOwned
    RelandingsAccounted
    LossIsWitnessed
PROPERTIES
    ImplementsBranch
CHECK_DEADLOCK FALSE
