SPECIFICATION Spec
CONSTANTS
    Coros = {c1, c2, c3}
    Ops = {o1, o2}
    Fds = {d1, d2}
    MaxClock = 0
    MaxChunks = 2
    Duplex = FALSE
    NoOne = NoOne
SYMMETRY Symmetric
CONSTRAINT FewAtOnce
INVARIANTS
    TypeOK
    ResumedOnce
    EveryWaitHasACause
    NoDanglingFuture
    NeverStuck
    WatchedIsArmed
    PendingCountExact
CHECK_DEADLOCK FALSE
