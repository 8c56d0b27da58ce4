-------------------------- MODULE MCOrchestration --------------------------
(***************************************************************************)
(* Small instances of Orchestration: a mill with three people and a port,  *)
(* two caravans on roads of two and three ticks, one contract, a registry  *)
(* built from nothing or the standard one, and 64-bit integers so narrow   *)
(* that a hundred times ten wraps around.                                  *)
(***************************************************************************)
EXTENDS Orchestration

MCGoods(grain, water) == [r \in Resource |-> IF r = "grain" THEN grain ELSE water]

MCRoad(id, ticks) ==
  [id |-> id, origin |-> "mill", destination |-> "port", days |-> 0, ticks |-> ticks]

MCWorld(grain, water) ==
  [settlements |-> {"mill", "port"}, routes |-> <<MCRoad("road", 2), MCRoad("lane", 3)>>,
   factions |-> {"guild", "crown"},
   stores |-> [s \in SettlementId |-> IF s = "mill" THEN MCGoods(grain, water) ELSE MCGoods(1, 0)]]

(* Too little, enough, and so much that the products wrap around.          *)
MCWorlds == {MCWorld(1, 0), MCWorld(3, 4), MCWorld(11, 1)}

MCFleets ==
  {<<CaravanForRoute(MCRoad("road", 2), "v1", MCGoods(1, 0)),
     CaravanForRoute(MCRoad("lane", 3), "v2", MCGoods(0, 0))>>}

MCOffers ==
  {[id |-> "c1", issuer |-> "guild", receiver |-> "crown", resource |-> "grain",
    quantity |-> 1, reward |-> 1, dueDay |-> 0, dueTicks |-> 3, status |-> "open"]}

MCOrder == <<"grain", "water">>

MCNoAppetite == [s \in SettlementId |-> 0]

MCDepots == {EmptyStorage}

MCPopulation == [s \in SettlementId |-> IF s = "mill" THEN 3 ELSE 9]

-----------------------------------------------------------------------------
(* Processors of the host: two of the same order, one that gates on a      *)
(* dependency as well, and one that is bound to an engine.                 *)
MCProcessor(id, features, dependencies, agnostic) ==
  [id |-> id, order |-> 60, features |-> features, dependencies |-> dependencies,
   enabled |-> TRUE, agnostic |-> agnostic]

MCProcessors ==
  {MCProcessor("bandits", {"market"}, {<<"weather", "market">>}, TRUE),
   MCProcessor("audit", {"market"}, {}, TRUE), MCProcessor("script", {}, {}, FALSE)}

MCRegistries == {NewRegistry, StandardRegistry}

MCLinks == {<<"weather", "market">>}

MCSwitches == {<<"factions", "logistics">>, <<"weather", "market">>}

MCIds ==
  <<"audit", "authority", "autonomous_actors", "bandits", "content_packs", "contracts", "ecology",
    "events", "factions", "handoff", "logistics", "market", "policies", "population", "production",
    "regional", "resources", "runtime", "save_replay", "scenario_runner", "script", "snapshots", "weather">>

MCRank == [id \in {MCIds[k] : k \in DOMAIN MCIds} |-> CHOOSE k \in DOMAIN MCIds : MCIds[k] = id]

(* Settings at both ends of their ranges, and beyond them; lists of events *)
(* that hold everything, nothing, or the processors but not the arrivals.  *)
MCCore(safety, tax, weather, severity, liquidity) ==
  [buffer |-> 10, safety |-> safety, tax |-> tax, weather |-> weather, season |-> "spring",
   severity |-> severity, risk |-> 90, liquidity |-> liquidity, volatility |-> 20, depth |-> 80]

MCConfigs ==
  {[step |-> 1, maxEvents |-> 64, core |-> MCCore(80, 10, "clear", 0, 80)],
   [step |-> 2, maxEvents |-> 2, core |-> MCCore(0, 100, "storm", 100, 0)],
   [step |-> 1, maxEvents |-> 0, core |-> MCCore(255, 200, "drought", 120, 101)],
   [step |-> 0, maxEvents |-> 64, core |-> MCCore(100, 0, "heatwave", 90, 100)]}

MCRegions ==
  {[road |-> [route |-> "pass", source |-> "north", target |-> "south", capacity |-> 20,
              congestion |-> n, risk |-> 101 - n, chokepoint |-> b, blocked |-> ~b],
    land |-> [region |-> "north", faction |-> "guild", influence |-> n, security |-> 101 - n, conflict |-> n]] :
     n \in {0, 41, 100, 101}, b \in BOOLEAN}
=============================================================================
