SPECIFICATION LiveSpec
CONSTANTS
    Threads = {t1, t2, t3}
    MaxNotify = 1
    MaxRounds = 2
INVARIANTS
    TypeOK
    MutualExclusion
    NoLostNotification
    BarrierHolds
    BarrierOpens
    ReturnsCleanly
PROPERTIES
    EveryoneLeaves
CHECK_DEADLOCK FALSE
