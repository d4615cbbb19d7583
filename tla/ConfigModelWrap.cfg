SPECIFICATION Spec
CONSTANTS
  GenModulus = 2
  NoScalar = NoScalar
  NoKey = NoKey
  Paths <- MCFewPaths
  HandlePaths <- MCFewHandlePaths
  Malformed = Malformed
  Values <- MCFewValues
  BadKeys = {"bad"}
  MaxDepth = 3
  MaxReleases = 3
  MaxNodes = 5
  NoHandle = NoHandle
  NoArena = NoArena
  NoCall = NoCall
  ConfigValues <- MCConfigValues
  Keys <- MCKeys
  Scalars <- MCScalars
INVARIANTS StaleIsAlwaysDetected
