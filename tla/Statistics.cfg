CONSTANTS
    Clients = {c1, c2, c3}
    NoOne = NoOne
    MaxStarts = 2
SPECIFICATION Spec
INVARIANTS
    TypeOK
    OwnReport
    Robust
    NameFreed
PROPERTY
    Answered
CHECK_DEADLOCK FALSE
