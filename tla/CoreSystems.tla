---------------------------- MODULE CoreSystems ----------------------------
(***************************************************************************)
(* The deep and regional evaluators: functions from a few counts and       *)
(* percentages to scores, and to the reasons a report gives for them.      *)
(* None of them changes the runtime, and none of them checks its input:    *)
(* the validators beside them are the caller's to use.                     *)
(*                                                                         *)
(* Amounts are 64 bits wide and scores 32, so that a product or a          *)
(* difference may wrap around at either width.                             *)
(***************************************************************************)
EXTENDS Width, Integers

CONSTANT MaxU32   (* numeric_limits<uint32_t>::max()                         *)

ASSUME CoreSystemsAssumption == MaxU32 \in Nat /\ MaxU32 >= 100

U32 == 0 .. MaxU32

Percent == 0 .. 100

WrapMultiply(a, b) == (a * b) % (MaxU64 + 1)

(* 100 - x of a score, which wraps around for one beyond its range.        *)
Lacking(x) == IF x <= 100 THEN 100 - x ELSE MaxU32 + 101 - x

(* clamp_percent, clamp100, bounded_add and bounded_severity.              *)
Clamped(x) == AtMost(x, 100)

(* add_if: the names of the conditions that hold.                          *)
Holding(conditions) == {name \in DOMAIN conditions : conditions[name]}

-----------------------------------------------------------------------------
(* The validators.                                                         *)

ValidPopulationNeeds(s) ==
  s.settlement # "" /\ s.workforce <= s.population /\ {s.safety, s.tax} \subseteq Percent

ValidWeather(s) == "" \notin {s.scope, s.weather, s.season} /\ s.severity \in Percent

ValidPolicy(s) == "" \notin {s.policy, s.scope} /\ s.tax \in Percent

ValidEcology(s) ==
  s.scope # "" /\ {s.fertility, s.water, s.regeneration, s.extraction, s.pollution} \subseteq Percent

ValidWorldEvent(s) == "" \notin {s.event, s.type, s.scope} /\ s.severity \in Percent

ValidProfile(s) == "" \notin {s.actor, s.type} /\ {s.tolerance, s.threshold} \subseteq Percent

ValidRegionalMarket(s) ==
  "" \notin {s.region, s.resource} /\ {s.liquidity, s.volatility, s.depth} \subseteq Percent

ValidInterRegionRoute(s) ==
  "" \notin {s.route, s.source, s.target} /\ {s.congestion, s.risk} \subseteq Percent

ValidRegionalClimate(s) ==
  "" \notin {s.region, s.zone, s.weather} /\ {s.severity, s.risk} \subseteq Percent

ValidTerritory(s) == s.region # "" /\ {s.influence, s.security, s.conflict} \subseteq Percent

ValidRegionalMigration(s) ==
  "" \notin {s.source, s.target} /\ {s.stability, s.targetStability, s.health} \subseteq Percent

-----------------------------------------------------------------------------
(* Deep systems.                                                           *)

(* A faulty variant: a score beyond 100.                                   *)
SatisfactionUnclamped(available, required) ==
  IF required = 0 THEN 100 ELSE WrapMultiply(available, 100) \div required

Satisfaction(available, required) ==
  IF required = 0 THEN 100 ELSE Clamped(WrapMultiply(available, 100) \div required)

PopulationNeeds(s) ==
  LET food      == Satisfaction(s.food, s.population)
      water     == Satisfaction(s.water, s.population)
      housing   == Satisfaction(s.housing, s.population)
      baseline  == (food + water + housing + Clamped(s.safety)) \div 4
      happiness == baseline - AtMost(baseline, s.tax \div 2)
  IN  [food |-> food, water |-> water, housing |-> housing, happiness |-> happiness,
       migration |-> IF happiness >= 70 THEN WrapMultiply(s.population, happiness - 69) \div 1000
                     ELSE -(WrapMultiply(s.population, 70 - happiness) \div 700),
       reasons   |-> Holding([food |-> food < 80, water |-> water < 80, housing |-> housing < 80,
                              safety |-> s.safety < 70, tax |-> s.tax > 50])]

WeatherImpact(s) ==
  LET severity == Clamped(s.severity)
      severe   == s.weather \in {"storm", "heavy_rain", "blizzard"}
      dry      == s.weather \in {"drought", "heatwave"}
      mild     == s.weather = "clear" /\ s.season = "spring"
  IN  [risk   |-> IF severe THEN severity ELSE 0,
       decay  |-> IF severe THEN severity \div 3 ELSE 0,
       crop   |-> IF dry THEN -severity ELSE IF mild THEN 5 ELSE 0,
       market |-> IF severe THEN severity \div 4 ELSE IF dry THEN severity \div 2 ELSE 0,
       reasons |-> Holding([logistics |-> severe, agriculture |-> dry, season |-> mild])]

PolicyImpact(s) ==
  IF ~s.enabled
  THEN [market |-> 0, production |-> 0, happiness |-> 0, reasons |-> {"disabled"}]
  ELSE [market |-> s.tax \div 2, production |-> s.production,
        happiness |-> s.happiness - s.tax \div 3,
        reasons |-> Holding([tax |-> s.tax > 0, production |-> s.production # 0, expired |-> s.remaining = 0])]

EcologyPressure(s) ==
  LET pressure ==
        AtMost(((s.extraction + s.pollution + Lacking(s.fertility) + Lacking(s.water)) % (MaxU32 + 1)) \div 4, 100)
  IN  [yield |-> (s.fertility + s.water) \div 2 - 100,
       regeneration |-> s.regeneration - (s.extraction + s.pollution) \div 2,
       pressure |-> pressure,
       reasons |-> Holding([water |-> s.water < 40, fertility |-> s.fertility < 40,
                            extraction |-> s.extraction > s.regeneration, pollution |-> s.pollution > 50])]

CrisisPropagation(s) ==
  LET severity == Clamped(s.severity)
      none     == [supply |-> 0, demand |-> 0, liquidity |-> 0, risk |-> 0, stability |-> 0]
  IN  CASE s.type = "food_crisis" ->
             [none EXCEPT !.supply = severity, !.demand = severity \div 2, !.stability = severity \div 2]
        [] s.type = "logistics_crisis" ->
             [none EXCEPT !.supply = severity \div 2, !.liquidity = severity, !.risk = severity]
        [] s.type = "security_crisis" -> [none EXCEPT !.risk = severity, !.stability = severity]
        [] OTHER -> [none EXCEPT !.demand = severity \div 3, !.stability = severity \div 3]

AffectedSystems(type) ==
  CASE type = "food_crisis" -> {"market", "population", "contracts"}
    [] type = "logistics_crisis" -> {"routes", "caravans", "market"}
    [] type = "security_crisis" -> {"factions", "routes", "population"}
    [] OTHER -> {"events"}

Highest(a, b) == IF a >= b THEN a ELSE b

(* choose_autonomous_decision.                                             *)
Decision(profile, population, crisis) ==
  LET shortage == Highest(Highest(100 - population.food, 100 - population.water), crisis.supply)
  IN  CASE ~profile.enabled -> [decision |-> "none", priority |-> 0]
        [] profile.enabled /\ shortage >= profile.threshold ->
             [decision |-> "issue_supply_contract", priority |-> shortage]
        [] profile.enabled /\ shortage < profile.threshold /\ crisis.risk > profile.tolerance ->
             [decision |-> "reroute_caravan", priority |-> crisis.risk]
        [] OTHER -> [decision |-> "hold", priority |-> population.happiness]

-----------------------------------------------------------------------------
(* Regional systems.                                                       *)

InterRegionRoutes ==
  [route : STRING, source : STRING, target : STRING, capacity : U32, congestion : U32,
   risk : U32, chokepoint : BOOLEAN, blocked : BOOLEAN]

Territories ==
  [region : STRING, faction : STRING, influence : U32, security : U32, conflict : U32]

(* static_cast<std::int64_t>.                                              *)
AsSigned(x) == IF x > MaxU64 \div 2 THEN x - (MaxU64 + 1) ELSE x

RegionalMarket(s) ==
  LET surplus  == AsSigned(s.supply) - AsSigned(s.demand)
      shortage == IF surplus < 0 THEN -surplus ELSE 0
      base     == IF s.demand = 0 THEN 0 ELSE WrapMultiply(shortage, 100) \div s.demand
  IN  [surplus |-> surplus,
       price   |-> Clamped(base + s.volatility \div 2 + Lacking(s.liquidity) \div 3),
       liquidityRisk  |-> Lacking(s.liquidity),
       volatilityRisk |-> s.volatility,
       reasons |-> Holding([shortage |-> surplus < 0, surplus |-> surplus > 0, liquidity |-> s.liquidity < 40,
                            volatility |-> s.volatility > 60, depth |-> s.depth < 40])]

InterRegionLogistics(s) ==
  LET loss == IF s.blocked THEN s.capacity ELSE ((s.capacity * s.congestion) % (MaxU32 + 1)) \div 100
      Score(share, extra) ==
        Clamped(s.risk + share + (IF s.chokepoint THEN extra ELSE 0) + (IF s.blocked THEN 100 ELSE 0))
  IN  [capacity   |-> s.capacity - AtMost(s.capacity, loss),
       risk       |-> Score(s.congestion \div 2, 20),
       disruption |-> Score(s.congestion, 25),
       reasons    |-> Holding([blocked |-> s.blocked, chokepoint |-> s.chokepoint,
                               congestion |-> s.congestion > 60, risk |-> s.risk > 60])]

RegionalClimate(s) ==
  LET dry      == s.weather \in {"drought", "heatwave"}
      stormy   == s.weather \in {"storm", "blizzard"}
      disaster == Clamped(s.risk + s.severity \div 3)
  IN  [crop      |-> IF dry THEN s.severity ELSE 0,
       logistics |-> IF stormy THEN s.severity ELSE 0,
       market    |-> IF dry THEN s.severity \div 2 ELSE IF stormy THEN s.severity \div 3 ELSE 0,
       disaster  |-> disaster,
       reasons   |-> Holding([agriculture |-> dry, logistics |-> stormy, market |-> dry \/ stormy,
                              disasters |-> disaster > 50])]

Territory(s) ==
  [routes |-> Clamped(s.influence \div 2 + s.conflict \div 2),
   market |-> Clamped(s.influence),
   unrest |-> Clamped(Lacking(s.security) + s.conflict),
   reasons |-> Holding([controlled |-> s.faction # "", conflict |-> s.conflict > 50, security |-> s.security < 50])]

RegionalMigration(s) ==
  LET instability == IF s.stability >= s.targetStability THEN 0 ELSE s.targetStability - s.stability
  IN  [flow    |-> WrapMultiply(AtMost(s.capacity, s.population), instability) \div 1000,
       refugee |-> Clamped(instability + (IF s.stability < 35 THEN 30 ELSE 0)),
       health  |-> s.health,
       reasons |-> Holding([attraction |-> instability > 0, refugees |-> s.stability < 35, health |-> s.health > 50])]

Maintenance(s) ==
  LET load        == Clamped(s.regions \div 10 + s.markets \div 50 + s.routes \div 50 + s.caravans \div 100)
      compaction  == Clamped(s.events \div 1000 + s.sinceCompaction \div 10000)
      persistence == Clamped((IF s.snapshots = 0 THEN 50 ELSE 0) + s.events \div 2000)
      health      == 100 - Clamped(load \div 3 + compaction \div 3 + persistence \div 3)
  IN  [health |-> health, load |-> load, compaction |-> compaction, persistence |-> persistence,
       reasons |-> Holding([split |-> load > 60, compact |-> compaction > 60, snapshot |-> persistence > 60,
                            window |-> health < 50])]
=============================================================================
