\* Goods in stores and on two caravans, with every building call; no contracts.
CONSTANTS
  MaxU64 = 2
  TicksPerDay = 1
  Resource = {"grain", "relic"}
  KnownResource = {"grain"}
  ResourceOrder <- MCOrder
  Food = "grain"
  Appetite <- MCMillEats
  ContractId = {"c1"}
  NoReference = NoReference
  CaravanId = {v1, v2}
  RouteId = {"road", "lane"}
  SettlementId = {"mill", "port"}
  Faction = {}
  NoFaction = NoFaction
  Prices = {}
  Modes = {}
  Offers <- MCNoOffers
  RouteOffers <- MCGoodsRoutes
  Cargoes <- MCCargoes
  InitialFleets <- MCNoFleet
  InitialDepots <- MCDepots
  InitialCoins = {0}
  InitialWorlds <- MCGoodsWorlds
SPECIFICATION RuntimeSpec
INVARIANTS
  DeliveriesLogged
PROPERTIES
  GoodsConserved
  DeliveredWhole
SYMMETRY MCCaravanSymmetry
