SPECIFICATION MCSpec
CONSTANTS
  Scenarios <- MCScenarios
  MaxQueued = 2
  s1 = s1
  Streams = {s1}
  Requests = {}
  Capacity = 1
  Sizes = {0, 1}
  MaxBytes = 1
  Deadlines = {1, 3}
  MaxTime = 2
  DefaultDrain = 1
  MaxDrain = 2
  Timeouts = {1, 3}
  ReliableCap = 1
  MaxReliable = 0
INVARIANTS
  ResumeWhole
CHECK_DEADLOCK FALSE
