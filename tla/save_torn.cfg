\* A file torn by the copy, loaded again.
CONSTANTS
  MaxU64 = 2
  TicksPerDay = 2
  Resource = {"grain"}
  KnownResource = {"grain"}
  ResourceOrder <- MCOrder
  Food = "grain"
  Appetite <- MCNoAppetite
  ContractId = {"c1"}
  NoReference = NoReference
  CaravanId = {"v1"}
  RouteId = {"road"}
  SettlementId = {"mill", "port"}
  Faction = {"guild", "crown"}
  NoFaction = NoFaction
  Prices = {}
  Modes = {}
  Offers <- MCOffers
  RouteOffers = {}
  Cargoes <- MCCargoes
  InitialFleets <- MCShortFleets
  InitialDepots <- MCDepots
  InitialCoins = {0}
  InitialWorlds <- MCShortWorlds
SPECIFICATION MCSpec
INVARIANTS
  TornIsRefused
