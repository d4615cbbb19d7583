SPECIFICATION Spec
CONSTANTS
  MaxIndex = 10
  PathBytes = {"a", "0", "1", ".", "[", "]"}
  MaxPath = 6
  Unit = 4
  IntBits = 6
  Formats <- MCFormats
  NarrowBits = 3
  XmlBytes <- MCXmlBytes
  MaxXml = 4
  Keys = {"a", "b", "c"}
  Paths <- MCPaths
  Leaves = {"x", "y"}
  Obj = Obj
  Cwd <- MCCwd
  FileSystems <- MCFileSystems
  CanonicalPaths <- MCCanonicalPaths
  DirectoryPaths <- MCDirectoryPaths
  NoResult = NoResult
INVARIANTS ParseIsGrammar ScalarsAreExact XmlTextIsExact RepairIsFill IndexIsExact CreateIsExact
