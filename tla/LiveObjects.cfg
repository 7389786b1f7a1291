SPECIFICATION ObjectsSpec
CONSTANTS
  Scenarios <- MCScenarios
  MaxRequests = 2
INVARIANTS
  CatalogTrackSound
  EndsSound
PROPERTIES
  StopEnds
CHECK_DEADLOCK FALSE
