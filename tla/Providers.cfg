CONSTANTS
    t1 = t1
    t2 = t2
    Threads = {t1, t2}
    Workloads <- MCWorkloads
    FDLIMIT = 6
    Kinds = {"IN_OPEN", "IN_ATTRIB"}
    Reported = {"IN_OPEN"}
    OPEN = "IN_OPEN"
    OfDirectory = {"IN_OPEN"}
    MaxQueue = 2
    RETSIZE = 5
SPECIFICATION Spec
INVARIANTS
    TypeOK
    ServedUntilFull
    LastReported
    ExactUnlessOverlap
    CleanWhenIdle
PROPERTY
    Returns
CHECK_DEADLOCK FALSE
