\* Caravans arriving, contracts falling due, and the run that settles on arrival.
CONSTANTS
  MaxU64 = 3
  TicksPerDay = 2
  Resource = {"grain"}
  KnownResource = {}
  ResourceOrder <- MCOneOrder
  Food = "grain"
  Appetite <- MCNoAppetite
  ContractId = {"c1", "c2"}
  NoReference = NoReference
  CaravanId = {v1, v2}
  RouteId = {"road", "lane"}
  SettlementId = {"mill", "port"}
  Faction = {"guild", "crown"}
  NoFaction = NoFaction
  Prices = {}
  Modes = {}
  Offers <- MCArrivalOffers
  RouteOffers = {}
  Cargoes = {}
  InitialFleets <- MCArrivalFleets
  InitialDepots <- MCDepots
  InitialCoins = {1}
  InitialWorlds <- MCArrivalWorlds
SPECIFICATION RuntimeSpec
INVARIANTS
  StepSizeIrrelevant
  LogTellsTheRun
PROPERTIES
  OldestFirst
SYMMETRY MCCaravanSymmetry
