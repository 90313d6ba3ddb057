SPECIFICATION FairSpec
CONSTANTS
    run1 = run1
    run2 = run2
    coder = coder
    Root = Root
    Other = Other
    Traces <- MCTraces
    Followed = run1
    Names <- MCNames
    MaxNames = 1
    MaxQueue = 2
    Batch = 1
    MaxSpans = 2
    MaxLost = 1
    Early = 1
INVARIANTS
    EventsAccounted
    DrainStoresAll
    StreamSeesAll
    MetricsConsistent
PROPERTIES
    ShutdownEnds
CHECK_DEADLOCK FALSE
