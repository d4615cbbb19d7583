SPECIFICATION Spec
CONSTANTS
  Docs <- MCDocs
  Configs <- MCConfigs
  MaxDepth = 2
  MaxNodes = 4
  MaxVersion = 11
  MaxInt = 10
  MaxParts = 9
  ElementNames = {"a", "b", "item", "version", "a.b"}
  Addressable = {"a", "b", "item", "version", "a:b", "1st"}
  Whitespace = {"sp", "cr", "lf"}
  Forbidden = {"cr"}
  NoKey = NoKey
  NoScalar = NoScalar
  NoDoc = NoDoc
  NoConfig = NoConfig
  NoVersion = NoVersion
INVARIANT LoadMemory
