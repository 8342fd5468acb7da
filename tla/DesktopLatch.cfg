\* One server that may restart, two accounts, two presses of the button.
CONSTANTS
  s1 = s1
  a1 = a1
  a2 = a2
  i1 = i1
  i2 = i2
  Server <- MCServer
  Account <- MCAccount
  Id <- MCIds
  NoServer = NoServer
  NoAccount = NoAccount
  NoId = NoId
  NoReading = NoReading
  Bank = 2
  MaxRemembered = 2
INIT DesktopInit
NEXT DesktopNext
SYMMETRY MCSymmetry
INVARIANTS
  LatchHolds
  NoSecondSpend
