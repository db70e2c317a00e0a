SPECIFICATION Spec
CONSTANTS
    Threads = {t1, t2}
    MaxNotify = 0
    MaxRounds = 0
INVARIANTS
    NoThreadOnLeftFrame
CHECK_DEADLOCK FALSE
