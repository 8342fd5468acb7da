\* Two releases, two pairings, and an operation for every place that holds one.
CONSTANTS
  MaxVersion = 2
  Ids <- MCIds
  Ops <- MCOps
  Home = "windows"
  MaxFaults = 1
SPECIFICATION Spec
INVARIANTS
  ActivePairAgrees
  ProgressTrue
PROPERTIES
  LocalAfterPeer
  NoDowngrade
  UnfinishedResolves
CHECK_DEADLOCK FALSE
