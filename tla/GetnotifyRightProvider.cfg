CONSTANTS
    Apps = {a1}
    NPs = {inotify, tcpdump}
    NoNp = NoNp
    MaxCount = 2
    Requests = {r1, r2}
    Counts = {1}
    WithCount = {inotify, tcpdump}
    APPLIMIT = 32
    NULL = NULL
SPECIFICATION GSpec
INVARIANTS
    RightProvider
CHECK_DEADLOCK FALSE
