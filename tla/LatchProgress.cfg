\* One server, one account, one press: gate and latch are released.
CONSTANTS
  s1 = s1
  a1 = a1
  a2 = a2
  i1 = i1
  i2 = i2
  Server <- MCServer
  Account <- MCOne
  Id <- MCOneId
  NoServer = NoServer
  NoAccount = NoAccount
  NoId = NoId
  NoReading = NoReading
  Bank = 1
  MaxRemembered = 2
SPECIFICATION DesktopSpec
PROPERTIES
  GateReleased
  LatchReleased
