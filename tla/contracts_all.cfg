\* Every settlement call in any order, the unrecorded ones and marks by hand included.
CONSTANTS
  MaxU64 = 3
  TicksPerDay = 2
  Resource = {"grain"}
  ContractId = {"c1", "c2"}
  NoReference = NoReference
  CaravanId = {"v1"}
  RouteId = {"road"}
  SettlementId = {"mill", "port"}
  Faction = {"guild", "crown"}
  NoFaction = NoFaction
  Prices = {0, 2}
  Modes = {"mark", "plain", "reward", "ledger"}
  Offers <- MCOffers
  InitialFleets <- MCFleets
  InitialDepots <- MCDepots
  InitialCoins = {0, 1, 2, 3}
  Standings <- MCStandings
SPECIFICATION Spec
INVARIANTS
  AdviceHolds
  TypeOK
  OneRewardPerContract
  LedgerSurvivesRestore
PROPERTIES
  TerminalIsFinal
  MeansForSomething
