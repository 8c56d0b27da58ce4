\* Every world the runtime reaches, written and read back; saves that fail or die at any step, with a rename or the copy that may tear the file.
CONSTANTS
  MaxU64 = 2
  TicksPerDay = 2
  Resource = {"grain"}
  KnownResource = {"grain"}
  ResourceOrder <- MCOrder
  Food = "grain"
  Appetite <- MCNoAppetite
  ContractId = {"c1"}
  NoReference = NoReference
  CaravanId = {"v1"}
  RouteId = {"road"}
  SettlementId = {"mill", "port"}
  Faction = {"guild", "crown"}
  NoFaction = NoFaction
  Prices = {}
  Modes = {}
  Offers <- MCOffers
  RouteOffers = {}
  Cargoes <- MCCargoes
  InitialFleets <- MCFleets
  InitialDepots <- MCDepots
  InitialCoins = {0}
  InitialWorlds <- MCShortWorlds
SPECIFICATION MCSpec
INVARIANTS
  LoadedIsConsistent
  SaveLoadsBack
  MigrationKeepsWorld
PROPERTIES
  SaveIsAtomic
  EveryStepShows
