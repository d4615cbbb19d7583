SPECIFICATION FairSpec
CONSTANTS
  Versions <- MCVersions
  Pairs <- MCPairs
  Keys <- MCKeys
  Paths <- MCPaths
  Leaves = {"x", "y"}
  Obj = Obj
  Defaults <- MCDefaults
  NoConfig = NoConfig
INVARIANTS TypeOK InSyncIsComplete NeverStuckMidChain WalkSkipsNothing VersionIsLastStep CommitIsNeeded
PROPERTIES SyncIsTransactional RepairOnlyAdds CallsReturn
