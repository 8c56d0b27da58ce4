\* Five parts in turn: an order book, the catalog of regions, data packs, worlds behind the C interface, snapshots.
CONSTANTS
  MaxU64 = 6
  TicksPerDay = 1
  Good = {"grain", "salt"}
  NoGood = NoGood
  Rank <- MCRank
  Books <- MCBooks
  RegionId = {"north", "northeast"}
  Object <- MCObject
  PartOf <- MCPartOf
  FeatureConfigs <- MCFeatureConfigs
  RegionLinks <- MCRegionLinks
  References <- MCReferences
  Loadable <- MCLoadable
  StreamLimit = 1
  Files <- MCFiles
  Directories <- MCDirectories
  Directly <- MCDirectly
  LoadLimit = 3
  Handle = {h1}
  Null = Null
  Names = {"Arden"}
  Seeds = {0, 1}
  UnitTicks = {1, 3, 5}
  Amounts = {0, 1, 2, 6}
  EventLimit = 4
  Resource = {"grain", "relic", "salt"}
  Town = {"mill", "port"}
  Alphabet <- MCAlphabet
  Food = "grain"
  Appetite <- MCAppetite
  BaseValues <- MCBaseValues
  EngineStates <- MCEngineStates
  Gifts = {1, 5}
  Demands <- MCDemands
  TextLength = 1
  Radix = 2
  CommandLimit = 3
CHECK_DEADLOCK FALSE
SPECIFICATION MCSpec
INVARIANTS
  ClearsTheMarket
  RegionsPartitionTheWorld
  LogTellsTheClock
  SnapshotWarnsOfLoss
  ScenarioAddsUp
PROPERTIES
  LoadsAreSettled
