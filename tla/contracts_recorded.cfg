\* A host that settles and trades only through the recording calls.
CONSTANTS
  MaxU64 = 4
  TicksPerDay = 2
  Resource = {"grain"}
  ContractId = {"c1", "c2"}
  NoReference = NoReference
  CaravanId = {"v1"}
  RouteId = {"road"}
  SettlementId = {"mill", "port"}
  Faction = {"guild", "crown"}
  NoFaction = NoFaction
  Prices = {0, 2}
  Modes = {"ledger"}
  Offers <- MCOffers
  InitialFleets <- MCFleets
  InitialDepots <- MCDepots
  InitialCoins = {0, 1, 2, 3, 4}
  Standings <- MCStandings
SPECIFICATION Spec
PROPERTIES
  WalletFollowsLedger
  SummaryExplainsMeans
  ImplementsEscrow
