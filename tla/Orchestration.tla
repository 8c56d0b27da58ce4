--------------------------- MODULE Orchestration ---------------------------
(***************************************************************************)
(* A host that drives its runtime through the processor registry: every    *)
(* call of orchestrate_runtime_core_processors takes one step of the clock,*)
(* evaluates the core systems on the world it has reached and returns a    *)
(* bounded list of events.  Between two such calls the host registers      *)
(* features, dependencies and processors, switches them on and off, adds   *)
(* contracts and settles them, and fills or draws its stores.              *)
(***************************************************************************)
EXTENDS Runtime, CoreSystems, FiniteSets

LOCAL INSTANCE SequencesExt

CONSTANTS
  Population,         (* SettlementState::population of each settlement      *)
  FirstPlace,         (* the settlement the host created first               *)
  Water,              (* the resource people drink, "water" in the code      *)
  InitialRegistries,  (* registries the host may start with                  *)
  FeatureOffers, DependencyOffers, ProcessorOffers,  (* what it registers    *)
  FeatureSwitches, DependencySwitches,               (* what it switches     *)
  ProcessorRank,      (* the place of a processor's id among all ids         *)
  Carriers,           (* the factions that own caravans and deliver          *)
  Configs,            (* RuntimeProcessorOrchestrationConfig                 *)
  Regions,            (* inter-region routes and territories a host reviews  *)
  StockLimit,         (* bound: the host fills a store up to this amount     *)
  Horizon,            (* bound: the host stops at this tick                  *)
  CallLimit           (* bound: calls of the host other than orchestrations  *)

VARIABLES
  registry,           (* SimulationProcessorRegistry                         *)
  heard,              (* history: how often each caravan was announced       *)
  lost,               (* history: events dropped so far, up to the fleet     *)
  calls               (* calls counted against CallLimit                     *)

orchestrationVars == <<runtimeVars, registry, heard, lost, calls>>

CoreConfigs ==
  [weather : STRING, season : STRING, severity : U32, risk : U32, buffer : U32, safety : U32,
   tax : U32, liquidity : U32, volatility : U32, depth : U32]

Processors(features, dependencies) ==
  [id : DOMAIN ProcessorRank, order : Nat, features : SUBSET features,
   dependencies : SUBSET dependencies, enabled : BOOLEAN, agnostic : BOOLEAN]

(* What the calls that build a registry leave behind: processors with ids  *)
(* of their own, bound to no engine, that gate on what is registered.      *)
BuiltRegistry(reg) ==
  /\ DOMAIN reg = {"features", "dependencies", "processors"}
  /\ reg.processors \in Seq(Processors(DOMAIN reg.features, DOMAIN reg.dependencies))
  /\ \A k \in DOMAIN reg.processors : reg.processors[k].agnostic
  /\ \A j, k \in DOMAIN reg.processors : reg.processors[j].id = reg.processors[k].id => j = k

ASSUME OrchestrationAssumption ==
  /\ Population \in [SettlementId -> U64]
  /\ \A w \in InitialWorlds : FirstPlace \in w.settlements /\ IsFiniteSet(w.settlements)
  /\ Water \in Resource
  /\ ProcessorRank \in [DOMAIN ProcessorRank -> Nat]
  /\ \A p, q \in DOMAIN ProcessorRank : ProcessorRank[p] = ProcessorRank[q] => p = q
  /\ \A reg \in InitialRegistries : BuiltRegistry(reg)
  /\ ProcessorOffers \subseteq Processors(FeatureOffers, DependencyOffers)
  /\ Configs \subseteq [step : U64, maxEvents : U64, core : CoreConfigs]
  /\ Regions \subseteq [road : InterRegionRoutes, land : Territories]
  /\ Carriers \subseteq Faction
  /\ StockLimit \in U64
  /\ Horizon \in U64

-----------------------------------------------------------------------------
(* The registry: features and dependencies are functions from the ids      *)
(* registered to their toggles, processors are a sequence.                 *)

NewRegistry == [features |-> << >>, dependencies |-> << >>, processors |-> << >>]

(* make_standard_core_processor_registry: every system gates on a feature  *)
(* of its own name and on the links that lead to it; regional.runtime      *)
(* gates the system it comes from.                                         *)
StandardSystems ==
  <<"resources", "production", "population", "weather", "logistics", "market", "policies",
    "factions", "contracts", "ecology", "events", "autonomous_actors", "content_packs",
    "scenario_runner", "runtime", "save_replay", "authority", "snapshots", "regional", "handoff">>

StandardLinks ==
  {<<"resources", "production">>, <<"resources", "population">>, <<"weather", "logistics">>,
   <<"weather", "ecology">>, <<"logistics", "market">>, <<"population", "market">>,
   <<"policies", "market">>, <<"factions", "logistics">>, <<"contracts", "market">>,
   <<"ecology", "market">>, <<"events", "market">>, <<"regional", "runtime">>}

StandardGates(system) ==
  {link \in StandardLinks : IF link[1] = "regional" THEN system = "regional" ELSE system = link[2]}

StandardRegistry ==
  [features     |-> [f \in {StandardSystems[k] : k \in DOMAIN StandardSystems} |-> TRUE],
   dependencies |-> [d \in StandardLinks |-> TRUE],
   processors   |-> [k \in DOMAIN StandardSystems |->
      [id |-> StandardSystems[k], order |-> 10 * k, features |-> {StandardSystems[k]},
       dependencies |-> StandardGates(StandardSystems[k]), enabled |-> TRUE, agnostic |-> TRUE]]]

(* validate_simulation_processor_descriptor and add_simulation_processor.  *)
CanRegister(reg, p) ==
  /\ p.agnostic
  /\ \A k \in DOMAIN reg.processors : reg.processors[k].id # p.id
  /\ p.features \subseteq DOMAIN reg.features
  /\ p.dependencies \subseteq DOMAIN reg.dependencies

(* simulation_feature_enabled and simulation_dependency_enabled.           *)
Enabled(toggles, id) == id \in DOMAIN toggles /\ toggles[id]

(* processor_gates_enabled.                                                *)
GatesOpen(reg, p) ==
  /\ p.enabled
  /\ \A f \in p.features : Enabled(reg.features, f)
  /\ \A d \in p.dependencies : Enabled(reg.dependencies, d)

(* A faulty variant: ties are left as they were registered.                *)
BeforeByOrder(p, q) == p.order < q.order

Before(p, q) == p.order < q.order \/ (p.order = q.order /\ ProcessorRank[p.id] < ProcessorRank[q.id])

(* One more processor in a list that is sorted.                            *)
Inserted(s, p) ==
  LET n == Cardinality({k \in DOMAIN s : Before(s[k], p)})
  IN  SubSeq(s, 1, n) \o <<p>> \o SubSeq(s, n + 1, Len(s))

(* The places of the processors that are enabled, and the sorted list of   *)
(* them, enabled_simulation_processors_in_order.                           *)
OpenPlaces(reg) == {k \in DOMAIN reg.processors : GatesOpen(reg, reg.processors[k])}

EnabledInOrder(reg) ==
  LET sorted[n \in 0 .. Len(reg.processors)] ==
        IF n = 0 THEN << >>
        ELSE LET s == sorted[n - 1]
                 p == reg.processors[n]
             IN  IF GatesOpen(reg, p) THEN Inserted(s, p) ELSE s
  IN  sorted[Len(reg.processors)]

(* The errors of make_deep_simulation_core_readiness_report.               *)
NotReady(reg) ==
  {k \in DOMAIN reg.processors :
     LET p == reg.processors[k]
     IN  ~p.agnostic \/ ~(p.features \subseteq DOMAIN reg.features)
                     \/ ~(p.dependencies \subseteq DOMAIN reg.dependencies)}

-----------------------------------------------------------------------------
(* evaluate_runtime_core_systems: the settlement created first stands for  *)
(* the region, except that the market sees the stores of all.              *)

Here(w, r) == IF settlements = {} THEN 0 ELSE w[FirstPlace][r]

People == IF settlements = {} THEN 0 ELSE Population[FirstPlace]

Housing(c) == WrapAdd(People, WrapMultiply(People, c.buffer) \div 100)

(* total_market_supply, a sum that wraps around.                           *)
MarketSupply(w, r) ==
  LET sum[S \in SUBSET settlements] ==
        IF S = {} THEN 0
        ELSE LET s == CHOOSE s \in S : TRUE IN WrapAdd(sum[S \ {s}], w[s][r])
  IN  sum[settlements]

NeedsState(w, c) ==
  [settlement |-> FirstPlace, population |-> People, workforce |-> People \div 2,
   housing |-> Housing(c), food |-> Here(w, Food),
   water |-> IF Here(w, Water) = 0 THEN Here(w, Food) ELSE Here(w, Water),
   safety |-> c.safety, tax |-> c.tax]

WeatherState(c) ==
  [scope |-> FirstPlace, weather |-> c.weather, season |-> c.season, severity |-> c.severity]

PolicyState(c) ==
  [policy |-> "default_policy", scope |-> FirstPlace, enabled |-> TRUE, tax |-> c.tax,
   production |-> 0, happiness |-> 0, remaining |-> 0]

EcologyState(w) ==
  [scope |-> FirstPlace, fertility |-> 80, water |-> IF Here(w, Water) = 0 THEN 50 ELSE 80,
   regeneration |-> 20, extraction |-> 10, pollution |-> 5]

(* Faulty variants: any food will do; a crisis begins at the last ration.  *)
CrisisWithoutFood(w) == IF Here(w, Food) = 0 THEN "food_crisis" ELSE "stable"

CrisisOf(w) == IF Here(w, Food) < People THEN "food_crisis" ELSE "stable"

EventState(w) ==
  [event |-> "runtime_pressure", type |-> CrisisOf(w), scope |-> FirstPlace,
   severity |-> IF CrisisOf(w) = "food_crisis" THEN 60 ELSE 10]

Actor ==
  [actor |-> "runtime_actor", type |-> "settlement_processor", enabled |-> TRUE,
   tolerance |-> 50, threshold |-> 50]

MarketState(w, c) ==
  [region |-> "default", resource |-> Food, supply |-> MarketSupply(w, Food), demand |-> People,
   liquidity |-> c.liquidity, volatility |-> c.volatility, depth |-> c.depth]

ClimateState(c) ==
  [region |-> "default", zone |-> "temperate", weather |-> c.weather, severity |-> c.severity,
   risk |-> c.risk]

MigrationState(needs, climate, c) ==
  [source |-> "default", target |-> "default", population |-> People, capacity |-> Housing(c),
   stability |-> needs.happiness, targetStability |-> Highest(needs.happiness, 70),
   health |-> climate.disaster]

Upkeep ==
  [regions |-> 1, markets |-> 1, routes |-> Len(routes), caravans |-> Len(fleet), events |-> 0,
   snapshots |-> 1, sinceCompaction |-> tick]

(* The report.  The events of the engine count by the thousand in the      *)
(* maintenance report, and here they are fewer.                            *)
CoreReport(w, c) ==
  LET needs   == PopulationNeeds(NeedsState(w, c))
      crisis  == CrisisPropagation(EventState(w))
      climate == RegionalClimate(ClimateState(c))
  IN  [needs       |-> needs,
       weather     |-> WeatherImpact(WeatherState(c)),
       policy      |-> PolicyImpact(PolicyState(c)),
       ecology     |-> EcologyPressure(EcologyState(w)),
       crisis      |-> crisis,
       decision    |-> Decision(Actor, needs, crisis),
       market      |-> RegionalMarket(MarketState(w, c)),
       climate     |-> climate,
       migration   |-> RegionalMigration(MigrationState(needs, climate, c)),
       maintenance |-> Maintenance(Upkeep)]

-----------------------------------------------------------------------------
(* orchestrate_runtime_core_processors.                                    *)

ProcessorEvent(type, about) == [type |-> type, about |-> about]

(* Every event of a call, in the order it is offered to the bounded list:  *)
(* one for each processor whose gates are open, of which only the number   *)
(* matters here, then the diagnostics, never empty as every crisis report  *)
(* names a system, then the arrivals.                                      *)
Offered(reg, after) ==
  [k \in 1 .. Cardinality(OpenPlaces(reg)) |-> ProcessorEvent("processor.evaluated", "")]
    \o <<ProcessorEvent("runtime.diagnostics", "")>>
    \o FlattenSeq([p \in DOMAIN after.fleet |->
         IF p \in after.arrived
         THEN <<ProcessorEvent("runtime.caravan_arrived", after.fleet[p].id)>> ELSE << >>])

(* A faulty variant: the last event that fits is not counted as dropped.   *)
KeptUncounted(offered, max) ==
  [events |-> SubSeq(offered, 1, AtMost(Len(offered), max)),
   dropped |-> IF Len(offered) > max THEN Len(offered) - max - 1 ELSE 0]

(* append_bounded_event, event by event: what came first stays.            *)
Kept(offered, max) ==
  [events |-> SubSeq(offered, 1, AtMost(Len(offered), max)),
   dropped |-> Len(offered) - AtMost(Len(offered), max)]

Announced(events, id) ==
  Cardinality({k \in DOMAIN events : events[k].type = "runtime.caravan_arrived" /\ events[k].about = id})

Orchestrate(config) ==
  /\ config.step > 0
  /\ tick < Horizon
  /\ \E after \in {Ticked(Now, config.step)} :
     \E kept \in {Kept(Offered(registry, after), config.maxEvents)} :
       /\ Reach(after)
       /\ heard' = [c \in CaravanId |-> heard[c] + Announced(kept.events, c)]
       /\ lost' = AtMost(lost + kept.dropped, Len(fleet))
  /\ UNCHANGED <<call, registry, calls>>

-----------------------------------------------------------------------------
(* The host between two calls.                                             *)

OrchestrationInit ==
  /\ RuntimeInit
  /\ registry \in InitialRegistries
  /\ heard = [c \in CaravanId |-> 0]
  /\ lost = 0
  /\ calls = 0

RegistryOnly == UNCHANGED <<runtimeVars, heard, lost>>

WithToggle(toggles, id, enabled) ==
  [x \in DOMAIN toggles \cup {id} |-> IF x = id THEN enabled ELSE toggles[x]]

(* add_simulation_feature and add_simulation_dependency.                   *)
AddFeature(f, enabled) ==
  /\ f \notin DOMAIN registry.features
  /\ registry' = [registry EXCEPT !.features = WithToggle(@, f, enabled)]
  /\ RegistryOnly

AddDependency(d, enabled) ==
  /\ d \notin DOMAIN registry.dependencies
  /\ registry' = [registry EXCEPT !.dependencies = WithToggle(@, d, enabled)]
  /\ RegistryOnly

AddProcessor(p) ==
  /\ CanRegister(registry, p)
  /\ registry' = [registry EXCEPT !.processors = Append(@, p)]
  /\ RegistryOnly

(* The toggles are public fields, which the host writes.                   *)
SwitchFeature(f) ==
  /\ f \in DOMAIN registry.features
  /\ registry' = [registry EXCEPT !.features[f] = ~@]
  /\ RegistryOnly

SwitchDependency(d) ==
  /\ d \in DOMAIN registry.dependencies
  /\ registry' = [registry EXCEPT !.dependencies[d] = ~@]
  /\ RegistryOnly

HostCall ==
  /\ \/ tick < Horizon /\ \E offer \in Offers : AddRuntimeContract(offer)
     \/ \E r \in {Food, Water} : stores[FirstPlace][r] < StockLimit /\ AddResource(FirstPlace, r, 1)
     \/ \E p \in DOMAIN fleet, f \in Carriers : SetRuntimeCaravanOwner(p, f) \/ FulfillFirst(p, f)
  /\ UNCHANGED <<call, registry, heard, lost>>

RegistryCall ==
  \/ \E f \in FeatureOffers, enabled \in BOOLEAN : AddFeature(f, enabled)
  \/ \E d \in DependencyOffers, enabled \in BOOLEAN : AddDependency(d, enabled)
  \/ \E p \in ProcessorOffers : AddProcessor(p)
  \/ \E f \in FeatureSwitches : SwitchFeature(f)
  \/ \E d \in DependencySwitches : SwitchDependency(d)

OrchestrationNext ==
  \/ \E config \in Configs : Orchestrate(config)
  \/ /\ calls < CallLimit
     /\ calls' = calls + 1
     /\ HostCall \/ RegistryCall

OrchestrationSpec == OrchestrationInit /\ [][OrchestrationNext]_orchestrationVars

(* The library runs nothing by itself.  A host that does not stop calling  *)
(* it is all that is asked for; its other calls need not happen.           *)
FairOrchestrationSpec ==
  OrchestrationSpec /\ WF_orchestrationVars(\E config \in Configs : Orchestrate(config))

-----------------------------------------------------------------------------
(* What a host that orchestrates relies on.                                *)

Exchanged(s, i, j) == [s EXCEPT ![i] = s[j], ![j] = s[i]]

(* However features, dependencies and processors were registered, toggled  *)
(* and interleaved with runs, the registry stays free of readiness errors, *)
(* and the order its processors are evaluated in does not depend on the    *)
(* order they were registered in: exchanging neighbours changes nothing.   *)
OrderIsDeterministic ==
  /\ NotReady(registry) = {}
  /\ LET order == EnabledInOrder(registry)
     IN  \A i, j \in DOMAIN registry.processors : j = i + 1 =>
           EnabledInOrder([registry EXCEPT !.processors = Exchanged(@, i, j)]) = order

(* An arrival is announced once, in the call in which the caravan arrives, *)
(* and never again while it stands at its destination; one that was not    *)
(* announced is among the events the reports count as dropped.             *)
ArrivalsAnnounced ==
  /\ \A p \in DOMAIN fleet : heard[fleet[p].id] <= (IF Arrived(fleet[p]) THEN 1 ELSE 0)
  /\ Cardinality({p \in DOMAIN fleet : Arrived(fleet[p]) /\ heard[fleet[p].id] = 0}) <= lost

(* The stocks are small enough for their product with 100 to fit.          *)
Fits(n) == n * 100 <= MaxU64

(* Three evaluators with rounding and thresholds of their own agree on     *)
(* what a shortage is: the decision asks for supplies whenever the first   *)
(* settlement has less food than people, and never when everybody has food *)
(* and water, whatever the settings the host never validated.              *)
DecisionFollowsShortage ==
  \A config \in Configs :
    LET food  == Here(stores, Food)
        water == Here(stores, Water)
        asks  == CoreReport(stores, config.core).decision.decision = "issue_supply_contract"
    IN  (Fits(People) /\ Fits(food) /\ Fits(water)) =>
          /\ food < People => asks
          /\ (food >= People /\ (water = 0 \/ water >= People)) => ~asks

(* The validators that exist for the states a report is made of, none of   *)
(* which the report calls.                                                 *)
ValidCore(w, c) ==
  /\ ValidPopulationNeeds(NeedsState(w, c))
  /\ ValidWeather(WeatherState(c))
  /\ ValidPolicy(PolicyState(c))
  /\ ValidEcology(EcologyState(w))
  /\ ValidWorldEvent(EventState(w))
  /\ ValidProfile(Actor)
  /\ ValidRegionalMarket(MarketState(w, c))
  /\ ValidRegionalClimate(ClimateState(c))

Scores(r) ==
  {r.needs.food, r.needs.water, r.needs.housing, r.needs.happiness, r.weather.risk, r.weather.market,
   r.ecology.pressure, r.crisis.supply, r.crisis.stability, r.decision.priority, r.market.price,
   r.market.liquidityRisk, r.climate.market, r.climate.disaster, r.migration.refugee, r.maintenance.health}

RegionScoresAreSound ==
  \A s \in {s \in Regions : ValidInterRegionRoute(s.road) /\ ValidTerritory(s.land)} :
    LET road == InterRegionLogistics(s.road)
        land == Territory(s.land)
    IN  /\ {road.risk, road.disruption, land.routes, land.market, land.unrest} \subseteq Percent
        /\ road.capacity <= s.road.capacity

WithOneMore(w) == [w EXCEPT ![FirstPlace] = [w[FirstPlace] EXCEPT ![Food] = w[FirstPlace][Food] + 1]]

ScoresInRange(c) ==
  LET now     == CoreReport(stores, c)
      migrate == MigrationState(now.needs, now.climate, c)
  IN  /\ Scores(now) \subseteq Percent
      /\ ValidRegionalMigration(migrate)
      /\ -People <= now.needs.migration /\ now.needs.migration <= People
      /\ now.migration.flow <= People

MoreFoodHelps(c) ==
  LET now  == CoreReport(stores, c)
      more == CoreReport(WithOneMore(stores), c)
  IN  (Fits(MarketSupply(stores, Food) + 1) /\ Fits(Here(stores, Food) + 1) /\ Fits(People)) =>
        /\ more.needs.happiness >= now.needs.happiness
        /\ more.market.price <= now.market.price

(* When the validators accept what a report is made of, its scores are     *)
(* percentages, also where evaluators feed on the scores of others and     *)
(* where a stock is so large that a product wraps around; nobody leaves    *)
(* who is not there; and as long as the products fit, of the stock of the  *)
(* first settlement as well as of the market's sum, which wraps around,    *)
(* another unit of food makes nobody less content and food no dearer.  So  *)
(* for the inter-region routes and the territories, where no disruption    *)
(* adds capacity.                                                          *)
ScoresAreSound ==
  /\ RegionScoresAreSound
  /\ \A config \in {c \in Configs : ValidCore(stores, c.core)} :
       ScoresInRange(config.core) /\ MoreFoodHelps(config.core)

UnderWay(p) == p \in DOMAIN fleet /\ ~Arrived(fleet[p])

AtItsEnd(p) == p \in DOMAIN fleet /\ Arrived(fleet[p])

Pending(i) == i \in DOMAIN catalog /\ IsOpen(catalog[i])

Ended(i) == i \in DOMAIN catalog /\ ~IsOpen(catalog[i])

(* A host that goes on orchestrating sees every caravan arrive and every   *)
(* contract end, settled or failed, whatever steps it mixes and whatever   *)
(* else it calls in between.                                               *)
EverythingEnds ==
  /\ \A p \in 1 .. Cardinality(CaravanId) : UnderWay(p) ~> AtItsEnd(p)
  /\ \A i \in 1 .. Cardinality(ContractId) : Pending(i) ~> Ended(i)
=============================================================================
