\* A save while a caravan is on the road.
CONSTANTS
  MaxU64 = 4
  TicksPerDay = 2
  Resource = {"grain"}
  KnownResource = {"grain"}
  ResourceOrder <- MCOrder
  Food = "grain"
  Appetite <- MCNoAppetite
  ContractId = {"c1"}
  NoReference = NoReference
  CaravanId = {"v1"}
  RouteId = {"road"}
  SettlementId = {"mill", "port"}
  Faction = {"guild", "crown"}
  NoFaction = NoFaction
  Prices = {}
  Modes = {}
  Offers <- MCOffers
  RouteOffers = {}
  Cargoes <- MCCargoes
  InitialFleets <- MCNoFleet
  InitialDepots <- MCDepots
  InitialCoins = {0}
  InitialWorlds <- MCLongWorlds
SPECIFICATION MCSpec
INVARIANTS
  AlwaysSaveable
