SPECIFICATION CatalogSpec
CONSTANTS
  Desired <- MCDesired
  MaxDeltas = 2
  MaxGroup = 4
  Initials = {2}
  MaxOps = 6
INVARIANT
  EndBroadcastSends
CHECK_DEADLOCK FALSE
