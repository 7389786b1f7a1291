\* Draft 18 is the sender that extends; MCSubgroups adds one of an earlier draft.
SPECIFICATION MCSpec
CONSTANTS
    MaxGroup = 5
    Subgroups <- TwoSubgroups
    MaxRanges = 3
    c1 = c1
    Senders = {c1}
    Keys <- SparseGroups
    LastObject = 1
    Draft18 = TRUE
    LiveSource = FALSE
    MaxSparseRanges = 1
    MaxStreams = 3
    MaxUpdates = 2
    Plan <- MCPlan
    Requests = {1, 3}
    TrackOf <- MCTrackOf
    OrderOf <- MCOrderOf
    Priorities = {1, 2}
    Filters <- MCFilters
    Drafts = {16, 21}
    Looping = {TRUE, FALSE}
    MaxLead = 1
    MaxCycle = 2
    MaxPriorityUpdates = 1
    MaxHeap = 3
INVARIANTS
    TrackerSound
    MCStreamsSound
    RenewalSound
    NothingSkipped
    SchedulerSound
PROPERTIES
    ImplementsExactSet
    ServedByPriority
