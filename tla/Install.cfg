\* Three transactions of any kind over nothing or over a legacy layout.
CONSTANTS
  d1 = d1
  d2 = d2
  d3 = d3
  g0 = g0
  Dir <- MCDir
  Initial = g0
  None = None
  MaxFaults = 3
SPECIFICATION Spec
INVARIANTS
  ActivePresent
  
PROPERTIES
  SupersededStays
SYMMETRY MCSymmetry
CHECK_DEADLOCK FALSE
