SPECIFICATION LiveSpec
CONSTANTS
    Coros = {c1, c2}
    Ops = {o1}
    Fds = {d1}
    MaxClock = 1
    MaxChunks = 1
    Duplex = FALSE
    NoOne = NoOne
PROPERTIES
    EveryCallAnswers
CHECK_DEADLOCK FALSE
