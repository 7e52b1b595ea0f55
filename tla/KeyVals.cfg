CONSTANTS
    Np = np
    np = np
    r1 = r1
    r2 = r2
    Requests = {r1, r2}
    dir = dir
    subdir = subdir
    count = count
    default = default
    v1 = v1
    v2 = v2
    name = name
    npname = npname
    Keys <- MCKeys
    Vals = {default, v1, v2, name}
    NoVal = NoVal
    FAULT = FAULT
    EndsWith <- MCEndsWith
    Texts <- MCTexts
SPECIFICATION Spec
INVARIANTS
    TypeOK
    AcceptedRight
    ProviderKeys
    LookupRight
CHECK_DEADLOCK FALSE
