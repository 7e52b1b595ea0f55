CONSTANTS
    Apps = {a1, a2, a3}
    NPs = {inotify, tcpdump}
    NoNp = NoNp
    MaxCount = 3
SPECIFICATION Spec
INVARIANT
    StaysAlive
CHECK_DEADLOCK FALSE
