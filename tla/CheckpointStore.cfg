SPECIFICATION Spec
CONSTANTS
  Versions <- MCVersions
  Retention = 2
  MaxEdits = 1
  MaxClock = 3
  Corrupt = Corrupt
  NoFile = NoFile
  NoDoc = NoDoc
INVARIANTS TypeOK RollbackIsExact RunMatchesFirmware RestoreIsBest PruneKeepsNewest RollbackAvailable
PROPERTIES UpgradeIsCaptured
