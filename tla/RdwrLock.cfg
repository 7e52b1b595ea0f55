CONSTANTS
    Threads = {t1, t2, t3, t4}
    NoThread = NoThread
SPECIFICATION FairSpec
INVARIANTS
    TypeOK
    Exclusion
    CountsAccurate
    NoLostWakeup
    ReadersBlockOnlyOnWriter
PROPERTIES
    Implements
    Served
