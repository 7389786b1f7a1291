CONSTANTS
    s1 = s1
    s2 = s2
    r1 = r1
    r2 = r2
    Streams <- MCStreams
    Requests <- MCRequests
    Capacity = 2
    Sizes = {1, 2}
    MaxBytes = 2
    Deadlines = {1, 2}
    MaxTime = 1
    DefaultDrain = 1
    MaxDrain = 1
    Timeouts = {}
    ReliableCap = 1
    MaxReliable = 2
SPECIFICATION MCSpec
SYMMETRY Symmetry
INVARIANTS
    TypeOK
    NoFatalActivation
    NoStrandedMedia
    MediaAccounted
    ReliableInOrder
PROPERTIES
    CloseAfterDelivery
