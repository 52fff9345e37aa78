SPECIFICATION Spec
CONSTANTS
  CompLen <- Lengths
  Rank <- Ranks
  Stock <- StockImages
  CpioScripts <- Scripts
  MaxCalls = 3
  HexOf <- Hexes
  RangeOf <- Ranges
  NDrivers = 3
  NFuncs = 4
  ClassPerms <- Perms
  StockPolicy <- Device
  PolicyArgs <- CommandLines
  Dashed <- DashedWords
  Undash <- Undashed
  CompressTo <- Compressors
  Formats = {"gzip", "xz"}
  Octal = {"0750"}
  Schemas <- Structs
  CmdLines <- Invocations
  EntryNames = {"a", "b"}
  Trees <- InitialTrees
  MaxOps = 3
  Namespaces <- MountTabs
  TargetOrder <- SortedTargets
  FileTargets <- InSystem
  CryptStates = {"none", "metadata"}
  RealTrees <- MCRealTrees
  Modules <- MCModules
  ModuleTrees <- MCModuleTrees
  PathEnv <- MCPathEnv
  IsEmulator = FALSE
  ZygiskEnabled = TRUE
  DbVersions = {0, 7, 8, 9, 10, 11, 12, 13, 14, 15, 16}
  MaxCuts = 2
CHECK_DEADLOCK FALSE
INVARIANTS LoadInvertsDump  NoFileIsLost PreinitIsBest  OverlayIsShown MagiskIsInstalled OpenedIsCurrent RecentVersionsOpen
PROPERTIES CommandsKeepEntries BuiltInRulesHold 
