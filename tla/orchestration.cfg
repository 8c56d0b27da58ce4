\* A host that builds a registry and drives caravans and a contract to their end through it.
CONSTANTS
  MaxU64 = 999
  MaxU32 = 255
  TicksPerDay = 2
  Resource = {"grain", "water"}
  KnownResource = {"grain", "water"}
  ResourceOrder <- MCOrder
  Food = "grain"
  Water = "water"
  Appetite <- MCNoAppetite
  Population <- MCPopulation
  FirstPlace = "mill"
  ContractId = {"c1"}
  NoReference = NoReference
  CaravanId = {"v1", "v2"}
  RouteId = {"road", "lane"}
  SettlementId = {"mill", "port"}
  Faction = {"guild", "crown"}
  NoFaction = NoFaction
  Prices = {}
  Modes = {}
  Offers <- MCOffers
  RouteOffers = {}
  Cargoes = {}
  InitialFleets <- MCFleets
  InitialDepots <- MCDepots
  InitialCoins = {0}
  InitialWorlds <- MCWorlds
  InitialRegistries <- MCRegistries
  FeatureOffers = {"market"}
  DependencyOffers <- MCLinks
  ProcessorOffers <- MCProcessors
  FeatureSwitches = {"market"}
  DependencySwitches <- MCSwitches
  ProcessorRank <- MCRank
  Carriers = {"crown"}
  Configs <- MCConfigs
  Regions <- MCRegions
  StockLimit = 2
  Horizon = 5
  CallLimit = 3
CHECK_DEADLOCK FALSE
SPECIFICATION FairOrchestrationSpec
INVARIANTS
  OrderIsDeterministic
  ArrivalsAnnounced
  DecisionFollowsShortage
  ScoresAreSound
PROPERTIES
  EverythingEnds
