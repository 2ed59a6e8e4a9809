SPECIFICATION Spec
CONSTANTS
    v = v
    w = w
    Workers = {v, w}
    Daemon = daemon
    NoPid = NoPid
    StalePid = StalePid
    Garbled = Garbled
    Unread = Unread
    StampMayFail = FALSE
INVARIANT PushExcludesCommit
