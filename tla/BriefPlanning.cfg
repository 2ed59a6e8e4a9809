SPECIFICATION FairSpec
CONSTANTS
    a = a
    b = b
    t1 = t1
    t2 = t2
    Briefs = {a, b}
    Tasks = {}
    Of <- NoTasks
    Crlf = {}
    ArchiveSpent = TRUE
    FreeTries = 0
    DayAfter = 2
    MaxEdits = 1
    MaxWithdrawn = 0
    MaxCrashes = 1
INVARIANTS
    TypeOK
    FailingBriefRests
PROPERTIES
    EveryContentIsTried
