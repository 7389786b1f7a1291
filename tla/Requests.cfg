SPECIFICATION MCSpec
CONSTANTS
  Objects <- MCObjects
  Namespace <- MCNamespace
  AskedPrefixes <- MCPrefixes
  Scenarios <- MCScenarios
  MaxRequests = 4
  PeerUni = {3, 7}
  Request = 4
  Media = 2
  ConnectId = 0
  StreamScenarios <- MCStreamScenarios
  Types <- MCTypes
  MaxBytes = 2
  PrefixLimit = 2
INVARIANTS
  AnswersSound
  DiscoverySound
  ReceiveSound
CHECK_DEADLOCK FALSE
