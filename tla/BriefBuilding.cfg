SPECIFICATION Spec
CONSTANTS
    a = a
    b = b
    t1 = t1
    t2 = t2
    Briefs = {a}
    Tasks = {t1, t2}
    Of <- OneBrief
    Crlf = {}
    ArchiveSpent = TRUE
    FreeTries = 0
    DayAfter = 1
    MaxEdits = 1
    MaxWithdrawn = 1
    MaxCrashes = 1
INVARIANTS
    UnsoundIsPending
    UneditedAreBuilt
PROPERTIES
    ZombiesAreIdle
    ArchivedAreDone
SYMMETRY Alike
