CONSTANTS
    Apps = {a1, a2}
    NPs = {inotify, tcpdump}
    NoNp = NoNp
    Handlers = {"app_reg", "app_unreg", "np_reg"}
    MaxRequests = 5
SPECIFICATION FairSpec
INVARIANT
    TypeOK
PROPERTY
    ImplementsRegistry
CHECK_DEADLOCK FALSE
