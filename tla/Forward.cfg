SPECIFICATION MCSpec
CONSTANTS
  PublishTracks <- MCTracks
  Plan <- MCPlan
  Loopable = {"video"}
  CatalogTracks = {"catalog"}
  Scenarios <- MCScenarios
  PeerMaxIds = {0, 2, 4}
  MaxUpdates = 2
  MaxOthers = 1
  MaxCycle = 1
  Desired <- MCDesired
  MaxDeltas = 2
  MaxGroup = 4
  Initials = {2}
  MaxOps = 5
INVARIANTS
  ForwardSound
  SrtEndsSound
  CatalogSound
PROPERTIES
  StoppedStaysSilent
  PublishesEnd
CHECK_DEADLOCK FALSE
