\* A settlement with a farm, sawmills and a ruin, its time cut into steps of any length.
CONSTANTS
  MaxU64 = 11
  TicksPerDay = 3
  Resource = {"grain", "wood", "plank"}
  Definitions <- MCDefinitions
  Food = "grain"
  Population = 9
  PeoplePerFood = 5
  Unregistered = "ruin"
  InitialStores <- MCStores
  InitialBuildings <- MCInitialBuildings
  NewBuildings <- MCNewBuildings
  MaxBuildings = 2
  StockLimit = 3
  Bases <- MCBases
  DemandOffers <- MCDemandOffers
  CriticalAmount = 4
SPECIFICATION DevelopmentSpec
INVARIANTS
  SplitIrrelevant
  OutputIsPaidFor
  PlanCoversTheHorizon
  PlanFollowsTheMarket
  PriceFollowsScarcity
