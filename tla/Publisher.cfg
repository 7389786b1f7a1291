SPECIFICATION MCSpec
CONSTANTS
  Endpoints = 2
  RetryCount = 1
  QueueDepth = 2
  MaxObjects = 4
  Scenarios <- MCScenarios
  Attempts = 2
  MaxMigrations = 1
  MaxGroupId = 3
  InitialGroupId = 1
  MaxReplay = 2
  MaxDisconnects = 1
INVARIANTS
  ReplaySound
  ResumeSound
  LifecycleSound
PROPERTIES
  StopsEnd
CHECK_DEADLOCK FALSE
