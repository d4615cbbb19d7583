SPECIFICATION Spec
CONSTANTS
  GenModulus = 8
  NoScalar = NoScalar
  NoKey = NoKey
  Paths <- MCPaths
  HandlePaths <- MCHandlePaths
  Malformed = Malformed
  Values <- MCValues
  BadKeys = {"bad"}
  MaxDepth = 3
  MaxReleases = 2
  MaxNodes = 5
  NoHandle = NoHandle
  NoArena = NoArena
  NoCall = NoCall
  ConfigValues <- MCConfigValues
  Keys <- MCKeys
  Scalars <- MCScalars
INVARIANTS ArenaIsTree
PROPERTIES ImplementsValueTree
