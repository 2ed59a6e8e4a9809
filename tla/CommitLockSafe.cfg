SPECIFICATION FairSpec
CONSTANTS
    v = v
    w = w
    Workers = {v, w}
    Daemon = daemon
    NoPid = NoPid
    StalePid = StalePid
    Garbled = Garbled
    Unread = Unread
    StampMayFail = TRUE
INVARIANTS
    TypeOK
    HoldersExclude
    SparesTheStamped
PROPERTY EveryAttemptEnds
