\* A desktop package with a CLI entry: only the first of the two stable
\* entries is auxiliary.
CONSTANTS
  g0 = g0
  t1 = t1
  t2 = t2
  Txn <- MCOneTxn
  Initial = g0
  NoGen = NoGen
  NoTxn = NoTxn
  NoBackup = NoBackup
  Entries = 2
  Auxiliary = {1}
  Version <- MCVersion
  MaxFaults = 3
SPECIFICATION Spec
PROPERTIES
  LockReleased
  OpenTransactionEnds
  CommittedUpdateCompletes
