\* One server process, two accounts, three request ids of which it can
\* remember two.
CONSTANTS
  s1 = s1
  a1 = a1
  a2 = a2
  i1 = i1
  i2 = i2
  i3 = i3
  Server <- MCServer
  Account <- MCAccount
  Id <- MCIds
  NoAccount = NoAccount
  NoId = NoId
  NoReading = NoReading
  Bank = 2
  MaxRemembered = 2
INIT Init
NEXT Next
SYMMETRY MCSymmetry
INVARIANTS
  SubmittedOnce
  NoSecondSpend
  SpendsConfirmedAccount
