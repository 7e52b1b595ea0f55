CONSTANTS
    Apps = {a1, a2, a3}
    NPs = {inotify, tcpdump}
    NoNp = NoNp
    MaxCount = 3
SPECIFICATION Spec
INVARIANTS
    TypeOK
    NpCountMatches
    NoDangling
    HashOrder
    AppCountAtLeast
PROPERTY
    UnregisterNpExact
CHECK_DEADLOCK FALSE
