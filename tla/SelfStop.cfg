\* The launcher of the unit after a manager that died.
CONSTANTS
  MaxProc = 4
  MaxVersion = 1
  MaxFaults = 1
  None = None
  Manager = Manager
  Launcher = Launcher
SPECIFICATION Spec
INVARIANT RecoverySparesItself
CHECK_DEADLOCK FALSE
