\* A log replayed after the clock has moved.
CONSTANTS
  MaxU64 = 2
  TicksPerDay = 1
  Resource = {"grain"}
  SettlementId = {"mill", "port"}
  Elsewhere = Elsewhere
  KnownResource = {"grain"}
  Food = "grain"
  Appetite <- MCAppetite
  Faction = {"guild", "crown"}
  NoFaction = NoFaction
  Actors <- MCActors
  Commands <- MCCommands
  Policy <- MCPolicy
  InitialStores <- MCStores
  InitialOwners <- MCOwners
  MaxSubmitted = 2
  MaxDispatched = 3
SPECIFICATION ServerSpec
INVARIANTS
  LogReplays
