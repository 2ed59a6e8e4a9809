SPECIFICATION FairSpec
CONSTANTS
    a = a
    b = b
    c = c
    rebuild = rebuild
    None = None
    Tasks = {a, b, c}
    Jobs = {rebuild}
    Claude = {a}
    SelfHeal = {a}
    Cap = 2
    ClaudeCap = 1
    PoolSize = 2
    MaxAttempts = 2
    MaxStops = 1
INVARIANTS
    TypeOK
    LiveIsTracked
    StoppedIsOwed
    SequentialAlone
    HomesDistinct
    PoolSuffices
    WorkersWithinCap
PROPERTIES
    NeverTwice
    ImplementsPool
    PidfilesAreFreed
    SuspensionEnds
    JobsSettle
