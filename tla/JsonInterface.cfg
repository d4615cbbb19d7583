SPECIFICATION Spec
CONSTANTS
  Docs <- MCDocs
  Cuts <- MCCuts
  Configs <- MCConfigs
  MaxDepth = 2
  MaxNodes = 4
  MaxVersion = 2
  MaxInt = 4
  VersionKey = "__version"
  BadKeys = {"bad"}
  NonFinite = NonFinite
  BadText = BadText
  NoKey = NoKey
  NoScalar = NoScalar
  NoDoc = NoDoc
  NoConfig = NoConfig
  NoVersion = NoVersion
INVARIANTS LoadIsExact LimitsAgree RoundTrip
