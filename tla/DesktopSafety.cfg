\* A desktop package with a CLI: of the three stable entries the launcher is
\* auxiliary, those of the CLI and of the server are not.
CONSTANTS
  g0 = g0
  t1 = t1
  t2 = t2
  Txn <- MCTxn
  Initial = g0
  NoGen = NoGen
  NoTxn = NoTxn
  NoBackup = NoBackup
  Entries = 3
  Auxiliary = {1}
  Version <- MCVersion
  MaxFaults = 3
SPECIFICATION Spec
INVARIANTS
  ActiveGenerationPresent
  SingleOpenTransaction
  QuiescentConsistent
  RestoreHasBackup
  CandidateStopped
PROPERTIES
  ServiceStopped
  RolledBackRestores
  CompleteReplaces
  CommitBeforeChange
  ImplementsAtomicInstall
