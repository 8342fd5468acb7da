\* Four processes, one update, one fault.
CONSTANTS
  MaxProc = 4
  MaxVersion = 1
  MaxFaults = 1
  None = None
  Manager = Manager
  Launcher = Launcher
SPECIFICATION Spec
INVARIANT ServingIsRegistered
PROPERTIES
  HandoffCompletes
  ServiceFollows
CHECK_DEADLOCK FALSE
