\* Two servers on one store.
CONSTANTS
  s1 = s1
  s2 = s2
  Server <- MCServer
  NoServer = NoServer
  Discovering <- MCDiscovering
  MaxEvents = 3
SPECIFICATION Spec
INVARIANTS
  SignedInStays
  ExchangedOnce
PROPERTIES
  OnlyNeededRefresh
  Recovers
CHECK_DEADLOCK FALSE
