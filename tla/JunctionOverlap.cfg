CONSTANTS
    Apps = {a1, a2}
    NPs = {inotify}
    NoNp = NoNp
    Handlers = {"app_reg", "app_unreg", "np_reg", "np_unreg"}
    MaxRequests = 5
SPECIFICATION FairSpec
INVARIANTS
    NoDanglingUnlessOverlap
    CountedUnlessOverlap
    NpCountCovers
    Linked
PROPERTY
    Handled
CHECK_DEADLOCK FALSE
