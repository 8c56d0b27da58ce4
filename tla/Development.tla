---------------------------- MODULE Development ----------------------------
(***************************************************************************)
(* What a settlement is advised to do: its buildings seen against the      *)
(* stores and the prices of its market, what it will need over a span of   *)
(* time, and the opportunities a host is shown.  The plan is made from the *)
(* amounts a day needs; the clock of Settlement is what it is about.       *)
(***************************************************************************)
EXTENDS Settlement, Market

CONSTANTS
  Bases,           (* base values of the resources of the registry           *)
  DemandOffers,    (* <<resource, demand>> the host may set                  *)
  CriticalAmount   (* what must be missing to be critical, 50 in the code    *)

VARIABLE demands   (* MarketState; 0 for an absent resource                  *)

developmentVars == <<settlementVars, demands>>

ASSUME DevelopmentAssumption ==
  /\ Bases \in [Resource -> U64]
  /\ DemandOffers \subseteq Resource \X U64
  /\ CriticalAmount \in U64 \ {0}
  /\ IsFiniteSet(Resource)

DevelopmentInit == SettlementInit /\ demands = [r \in Resource |-> 0]

(* MarketState::set_demand.                                                *)
SetDemand(r, n) ==
  /\ demands' = [demands EXCEPT ![r] = n]
  /\ UNCHANGED settlementVars

DevelopmentNext ==
  \/ SettlementNext /\ UNCHANGED demands
  \/ \E offer \in DemandOffers : SetDemand(offer[1], offer[2])

DevelopmentSpec == DevelopmentInit /\ [][DevelopmentNext]_developmentVars

-----------------------------------------------------------------------------
(* make_settlement_production_snapshot_with_market.  A building is its     *)
(* place in `buildings'.                                                   *)

Known == {k \in DOMAIN buildings : buildings[k].definition # Unregistered}

Definition(k) == Definitions[buildings[k].definition]

IdleSlots(k) ==
  IF buildings[k].workers >= Definition(k).slots THEN 0 ELSE Definition(k).slots - buildings[k].workers

TotalSlots == AtMost(MapThenSumSet(LAMBDA k : Definition(k).slots, Known), MaxU64)

AssignedWorkers == AtMost(MapThenSumSet(LAMBDA k : buildings[k].workers, Known), MaxU64)

MissingInputs(k) == {n \in DOMAIN Definition(k).inputs : storage[Definition(k).inputs[n]] = 0}

Quoted == Quotes(storage, demands, Bases)

PressureOn(r) ==
  IF r \in DOMAIN Quoted THEN Pressure(Quoted[r].supply, Quoted[r].demand) ELSE "balanced"

PressuredOutputs(k) ==
  {n \in DOMAIN Definition(k).outputs : PressureOn(Definition(k).outputs[n]) \in {"shortage", "depleted"}}

Active == {k \in Known : buildings[k].workers > 0 /\ MissingInputs(k) = {}}

Blocked == DOMAIN buildings \ Active

-----------------------------------------------------------------------------
(* make_settlement_development_plan, over a horizon of ticks.              *)

(* A faulty variant: a day that has begun is not counted.                  *)
HorizonDaysDown(ticks) == ticks \div TicksPerDay

HorizonDays(ticks) == IF ticks = 0 THEN 0 ELSE (ticks - 1) \div TicksPerDay + 1

NeededResources ==
  {Food} \cup UNION {{Definition(k).inputs[n] : n \in DOMAIN Definition(k).inputs} : k \in Known}

Uses(k, r) == Cardinality({n \in DOMAIN Definition(k).inputs : Definition(k).inputs[n] = r})

ExactDailyNeed(r) ==
  (IF r = Food THEN FoodNeeded ELSE 0)
    + MapThenSumSet(LAMBDA k : buildings[k].workers * Uses(k, r), Known)

DailyNeed(r) == AtMost(ExactDailyNeed(r), MaxU64)

MissingOver(r, ticks) ==
  LET required == SaturatingMultiply(DailyNeed(r), HorizonDays(ticks))
  IN  IF required > storage[r] THEN required - storage[r] ELSE 0

Rank(priority) ==
  CASE priority = "low" -> 0 [] priority = "normal" -> 1 [] priority = "high" -> 2 [] priority = "critical" -> 3

MorePressing(p, q) == IF Rank(p) >= Rank(q) THEN p ELSE q

PriorityOfMissing(n) == IF n >= CriticalAmount THEN "critical" ELSE IF n > 0 THEN "high" ELSE "normal"

(* A faulty variant: a resource that nobody has counts as balanced.        *)
PriorityOfPressureAlike(pressure) ==
  IF pressure = "shortage" THEN "high" ELSE IF pressure = "surplus" THEN "low" ELSE "normal"

PriorityOfPressure(pressure) ==
  CASE pressure = "depleted" -> "critical"
    [] pressure = "shortage" -> "high"
    [] pressure = "balanced" -> "normal"
    [] pressure = "surplus"  -> "low"

NeedPriority(r, ticks) ==
  MorePressing(PriorityOfMissing(MissingOver(r, ticks)), PriorityOfPressure(PressureOn(r)))

(* An opportunity is for a building, and where it is about a resource for  *)
(* the place of the resource among its inputs or outputs.                  *)
Opportunity(k, action, n, priority) == [building |-> k, action |-> action, item |-> n, priority |-> priority]

Registrations ==
  {Opportunity(k, "register_definition", 0, "critical") : k \in DOMAIN buildings \ Known}

Imports == UNION {{Opportunity(k, "import_input", n, "high") : n \in MissingInputs(k)} : k \in Known}

Expansions ==
  UNION {{Opportunity(k, "expand_output", n, PriorityOfPressure(PressureOn(Definition(k).outputs[n]))) :
            n \in PressuredOutputs(k)} : k \in Known}

Opportunities ==
  Registrations \cup Imports \cup Expansions
    \cup {Opportunity(k, "assign_workers", 0, "normal") : k \in {k \in Known : IdleSlots(k) > 0}}
    \cup {Opportunity(k, "keep_running", 0, "low") : k \in {k \in Active : PressuredOutputs(k) = {}}}

(* high_priority_opportunity_count, counted as the plan grows.             *)
HighCount ==
  Cardinality(Registrations) + Cardinality(Imports)
    + Cardinality({o \in Expansions : Rank(o.priority) >= Rank("high")})

(* validate_settlement_development_plan.                                   *)
ValidPlan(ticks) == ticks > 0 /\ AssignedWorkers <= TotalSlots

-----------------------------------------------------------------------------
(* Neither is anything missing over the horizon nor is a need cut short by *)
(* the width of the type: one that saturates is met by a full store, but   *)
(* only on paper.                                                          *)
NothingMissing(ticks) ==
  \A r \in NeededResources :
    /\ MissingOver(r, ticks) = 0
    /\ ~MultiplyOverflows(ExactDailyNeed(r), HorizonDays(ticks))

(* A settlement whose plan misses nothing lives through the horizon of the *)
(* plan without a warning about food or inputs, in one step of the clock   *)
(* or in two, whatever the earlier steps have left in its counters, and    *)
(* whichever buildings share them: only room for outputs may run out.      *)
PlanCoversTheHorizon ==
  \A ticks \in U64 :
    NothingMissing(ticks) =>
      \A a \in 0 .. ticks : Lived(Lived(SettlementNow, a), ticks - a).short \subseteq {"room"}

(* The plan raises its alarms where the market does: a need is high or     *)
(* critical just when something will be missing or its price is above the  *)
(* base value, as far as the type goes; there is an opportunity for every  *)
(* building with room for workers, and as many are counted as high as are; *)
(* what the host has built is valid; the average of the prices lies among  *)
(* them, unless their sum saturates, and every price is in one count.      *)
PlanFollowsTheMarket ==
  /\ \A ticks \in U64, r \in NeededResources :
       NeedPriority(r, ticks) \in {"high", "critical"} <=>
         \/ MissingOver(r, ticks) > 0
         \/ r \in DOMAIN Quoted /\ Quoted[r].price > Quoted[r].base
         \/ r \in DOMAIN Quoted /\ Quoted[r].base = MaxU64 /\ demands[r] > storage[r]
  /\ \A k \in DOMAIN buildings :
       (\E o \in Opportunities : o.building = k) \/ Definition(k).slots = 0
  /\ HighCount = Cardinality({o \in Opportunities : Rank(o.priority) >= Rank("high")})
  /\ (\A k \in Known : buildings[k].workers <= Definition(k).slots) => \A ticks \in U64 \ {0} : ValidPlan(ticks)
  /\ LET report == MarketReport(Quoted)
     IN  /\ report.average <= report.max
         /\ report.average >= report.min
              \/ MapThenSumSet(LAMBDA r : Quoted[r].price, DOMAIN Quoted) > MaxU64
  /\ Cardinality(DOMAIN Quoted) =
       MapThenSumSet(LAMBDA p : PressureCount(Quoted, p), {"balanced", "shortage", "surplus", "depleted"})

(* Prices follow scarcity: whatever the settlement has eaten, made and been*)
(* brought, each price the market quotes is on the side of the base value  *)
(* that its pressure says and never 0, and as long as no product saturates *)
(* more in store would make nothing dearer, nor more demand cheaper,       *)
(* although calculate_price rounds.                                        *)
PriceFollowsScarcity ==
  LET quoted == Quoted
  IN  \A r \in DOMAIN quoted :
        LET q == quoted[r]
        IN  /\ q.price = Price(q.base, q.supply, q.demand)
            /\ PriceInRange(q.base, q.supply, q.demand)
            /\ PriceIsMonotone(q.base, q.supply, q.demand)
=============================================================================
