SPECIFICATION MCSpec
CONSTANTS
  Scenarios <- MCScenarios
  Sockets = {1, 2}
  MaxRead = 2
  Video = {v1, v2}
  Audio = {a1}
  Inits = {i1}
  Times <- QueueTimes
  Durations = {1}
  Sizes = {1}
  MaxBytes = 2
  MaxDuration = 2
  WordMax = 3
  MaxPushes = 4
INVARIANTS
  DashObjects
  DashThreads
  QueueSound
PROPERTIES
  StopReturns
  KeyframeResumes
