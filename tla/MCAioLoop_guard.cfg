SPECIFICATION Spec
CONSTANTS
    Coros = {c1, c2}
    Ops = {}
    Fds = {}
    MaxClock = 0
    MaxChunks = 1
    Duplex = FALSE
    NoOne = NoOne
INVARIANTS
    GuardFailureIsRaised
CHECK_DEADLOCK FALSE
