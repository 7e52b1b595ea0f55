CONSTANTS
    Apps = {a1}
    NPs = {inotify}
    NoNp = NoNp
    MaxCount = 1
    Requests = {r1, r2}
    Counts = {2}
    WithCount = {inotify}
    APPLIMIT = 1
    NULL = NULL
SPECIFICATION GSpec
INVARIANTS
    GTypeOK
    Tally
    FilesRemoved
PROPERTY
    Finishes
CHECK_DEADLOCK FALSE
