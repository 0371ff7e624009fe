SPECIFICATION FairSpec
CONSTANTS
  MaxWire = 3
  Loss = TRUE
  TxFaults = TRUE
  MaxRestarts = 2
  MaxFaults = 1
INVARIANTS
  TypeOK
  SyncedIffReady
  LinkReadyIsPassing
  HintMeansNeverReady
PROPERTIES
  ReadyIsStable
  BecomesReady
  SilenceIsReported
