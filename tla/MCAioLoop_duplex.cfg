SPECIFICATION Spec
CONSTANTS
    Coros = {c1}
    Ops = {o1, o2}
    Fds = {d1}
    MaxClock = 0
    MaxChunks = 1
    Duplex = TRUE
    NoOne = NoOne
INVARIANTS
    KeptPerDirection
CHECK_DEADLOCK FALSE
