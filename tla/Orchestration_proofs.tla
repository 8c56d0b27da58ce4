------------------------ MODULE Orchestration_proofs ------------------------
(***************************************************************************)
(* Theorems about a host that drives its runtime through the processor     *)
(* registry: it is a runtime like any other, whatever its registry does,   *)
(* and what the core systems report of the world it reaches.               *)
(***************************************************************************)
EXTENDS Orchestration, Runtime_proofs, SequenceTheorems

LOCAL INSTANCE SequencesExt

-----------------------------------------------------------------------------
(* One orchestration is one run of the clock, of a single step.            *)

LEMMA OneStepRun ==
  ASSUME TypeOK, WorldTypeOK, NEW step \in U64, step > 0
  PROVE  TickRun(step, step, FALSE) = Ticked(Now, step)
<1>1. step \in Nat
  BY DEF U64
<1>2. PICK run \in [0 .. step -> RunStates] :
        /\ run[0] = Now
        /\ \A n \in 1 .. step : run[n] = TickRound(run[n - 1], step, step, FALSE)
        /\ TickRun(step, step, FALSE) = run[step]
  BY TickRunUnrolled
<1> DEFINE first == Ticked(Now, step)
<1>3. Now.elapsed = 0 /\ first.elapsed = step
  BY <1>1 DEF Now, Ticked
<1>4. TickRound(Now, step, step, FALSE) = first
  BY <1>1, <1>3 DEF TickRound, AtMost
<1>5. TickRound(first, step, step, FALSE) = first
  BY <1>1, <1>3 DEF TickRound
<1> HIDE DEF first
<1> DEFINE T == {n \in 0 .. step : n = 0 \/ run[n] = first}
<1>6. 0 \in T
  BY <1>1
<1>7. ASSUME NEW n \in 1 .. step, n - 1 \in T PROVE n \in T
  <2>1. run[n - 1] = Now \/ run[n - 1] = first
    BY <1>2, <1>7
  <2>2. run[n] = first
    BY <1>2, <1>4, <1>5, <2>1
  <2>3. QED
    BY <1>1, <2>2
<1> HIDE DEF T
<1>8. step \in T
  <2>1. \A n \in 0 .. step : n \in T
    BY <1>1, <1>6, <1>7, BoundedInduction
  <2>2. QED
    BY <1>1, <2>1
<1>9. step # 0
  BY <1>1
<1>10. run[step] = first
  BY <1>8, <1>9 DEF T
<1>11. QED
  BY <1>2, <1>10 DEF first

(* Between two calls nothing is left to settle, the settlement that stands *)
(* for the region exists, and there are finitely many.                     *)
HostIdle == call = NoCall /\ FirstPlace \in settlements /\ IsFiniteSet(settlements)

LEMMA OrchestrateRuns ==
  ASSUME RuntimeTypeOK, HostIdle, NEW config \in Configs, Orchestrate(config)
  PROVE  RuntimeNext /\ HostIdle'
<1>1. config.step \in U64 /\ config.step > 0
  BY OrchestrationAssumption DEF Orchestrate
<1>2. Reach(Ticked(Now, config.step)) /\ call' = call
  BY DEF Orchestrate
<1>3. RunTicks(config.step, config.step)
  BY <1>1, <1>2, OneStepRun DEF RunTicks, RuntimeTypeOK
<1>4. TimeCall
  BY <1>1, <1>3 DEF TimeCall
<1>5. settlements' = settlements
  BY <1>2 DEF Reach
<1>6. QED
  BY <1>2, <1>4, <1>5 DEF RuntimeNext, HostIdle

LEMMA HostCallRuns ==
  ASSUME RuntimeTypeOK, HostIdle, HostCall
  PROVE  RuntimeNext /\ HostIdle'
<1>1. call = NoCall /\ call' = NoCall /\ FirstPlace \in settlements
  BY DEF HostIdle, HostCall
<1>2. Food \in Resource /\ Water \in Resource /\ Carriers \subseteq Faction /\ 1 \in U64
  BY RuntimeAssumption, OrchestrationAssumption, WidthAssumption DEF U64
<1>3. ASSUME NEW offer \in Offers, AddRuntimeContract(offer) PROVE BuildCall /\ HostIdle'
  BY <1>1, <1>3 DEF BuildCall, AddRuntimeContract, worldVars, HostIdle
<1>4. ASSUME NEW r \in {Food, Water}, AddResource(FirstPlace, r, 1) PROVE GoodsCall /\ HostIdle'
  BY <1>1, <1>2, <1>4 DEF GoodsCall, AddResource, StoresOnly, HostIdle
<1>5. ASSUME NEW p \in DOMAIN fleet, NEW f \in Carriers, SetRuntimeCaravanOwner(p, f)
      PROVE  BuildCall /\ HostIdle'
  BY <1>1, <1>2, <1>5 DEF BuildCall, SetRuntimeCaravanOwner, worldVars, HostIdle
<1>6. ASSUME NEW p \in DOMAIN fleet, NEW f \in Carriers, FulfillFirst(p, f)
      PROVE  (\E q \in DOMAIN fleet, g \in Faction : FulfillFirst(q, g)) /\ HostIdle'
  <2>1. settlements' = settlements
    BY <1>6 DEF FulfillFirst, worldVars
  <2>2. QED
    BY <1>1, <1>2, <1>6, <2>1 DEF HostIdle
<1>7. QED
  BY <1>1, <1>3, <1>4, <1>5, <1>6 DEF HostCall, RuntimeNext

LEMMA OrchestrationStepRuns ==
  RuntimeTypeOK /\ HostIdle /\ [OrchestrationNext]_orchestrationVars
    => [RuntimeNext]_runtimeVars /\ HostIdle'
<1> SUFFICES ASSUME RuntimeTypeOK, HostIdle, [OrchestrationNext]_orchestrationVars
             PROVE  [RuntimeNext]_runtimeVars /\ HostIdle'
  OBVIOUS
<1>1. CASE UNCHANGED runtimeVars
  BY <1>1 DEF runtimeVars, worldVars, HostIdle
<1>2. ASSUME NEW config \in Configs, Orchestrate(config) PROVE RuntimeNext /\ HostIdle'
  BY <1>2, OrchestrateRuns
<1>3. CASE HostCall
  BY <1>3, HostCallRuns
<1>4. CASE RegistryCall
  <2>1. UNCHANGED runtimeVars
    BY <1>4 DEF RegistryCall, AddFeature, AddDependency, AddProcessor, SwitchFeature,
                SwitchDependency, RegistryOnly
  <2>2. QED
    BY <1>1, <2>1
<1>5. CASE UNCHANGED orchestrationVars
  BY <1>1, <1>5 DEF orchestrationVars
<1>6. QED
  BY <1>2, <1>3, <1>4, <1>5 DEF OrchestrationNext

LEMMA OrchestrationStarts == OrchestrationInit => RuntimeInit /\ HostIdle
BY OrchestrationAssumption DEF OrchestrationInit, RuntimeInit, HostIdle

(* Whatever it registers, switches and settles between its calls, a host   *)
(* that calls orchestrate_runtime_core_processors does nothing to its      *)
(* runtime that the runtime's own calls could not do: every theorem about  *)
(* the runtime is one about it.                                            *)
THEOREM OrchestrationIsARuntime == OrchestrationSpec => RuntimeSpec
<1>1. OrchestrationInit => RuntimeInit /\ HostIdle /\ RuntimeTypeOK /\ CallReal
  BY OrchestrationStarts, RuntimeStart
<1>2. RuntimeTypeOK /\ CallReal /\ HostIdle /\ [OrchestrationNext]_orchestrationVars
        => [RuntimeNext]_runtimeVars /\ RuntimeTypeOK' /\ CallReal' /\ HostIdle'
  BY OrchestrationStepRuns, RuntimeStep
<1>3. QED
  BY <1>1, <1>2, PTL DEF OrchestrationSpec, RuntimeSpec

(* What the runtime promises any host: types, contracts rewarded once and  *)
(* never moved after their end, deliveries that are whole, goods that no   *)
(* call creates or loses.                                                  *)
THEOREM OrchestrationInherits ==
  OrchestrationSpec =>
    /\ [](RuntimeTypeOK /\ OneRewardPerContract /\ LedgerSurvivesRestore)
    /\ TerminalIsFinal /\ DeliveredWhole /\ GoodsConserved
BY OrchestrationIsARuntime, RuntimeTypeCorrect, RuntimeKeepsTheBook, RuntimeContractsAreFinal,
   DeliveriesAreWhole, GoodsAreConserved, PTL

-----------------------------------------------------------------------------
(* What the core systems make of the stocks.                               *)

LEMMA WrapMultiplyType ==
  ASSUME NEW a \in Nat, NEW b \in Nat
  PROVE  WrapMultiply(a, b) \in U64
<1>1. a * b \in Nat /\ MaxU64 \in Nat /\ MaxU64 + 1 > 0
  BY WidthAssumption
<1>2. PICK m \in Nat : m = a * b
  BY <1>1
<1>3. m % (MaxU64 + 1) \in 0 .. MaxU64
  BY <1>1
<1>4. QED
  BY <1>2, <1>3 DEF WrapMultiply, U64

LEMMA SatisfactionType ==
  ASSUME NEW a \in Nat, NEW b \in Nat
  PROVE  Satisfaction(a, b) \in Percent
<1>1. CASE b = 0
  BY <1>1 DEF Satisfaction, Percent
<1>2. CASE b # 0
  <2>1. PICK m \in Nat : m = WrapMultiply(a, 100)
    BY WrapMultiplyType DEF U64
  <2>2. m \div b \in Nat
    BY <1>2
  <2>3. Clamped(m \div b) \in Percent
    BY <2>2 DEF Clamped, AtMost, Percent
  <2>4. QED
    BY <1>2, <2>1, <2>3 DEF Satisfaction
<1>3. QED
  BY <1>1, <1>2

(* Who has as much as is needed is content, if the product fits.           *)
LEMMA EnoughSatisfies ==
  ASSUME NEW a \in Nat, NEW b \in Nat, a >= b, Fits(a)
  PROVE  Satisfaction(a, b) = 100
<1>1. CASE b = 0
  BY <1>1 DEF Satisfaction
<1>2. CASE b # 0
  <2>1. WrapMultiply(a, 100) = a * 100
    BY WidthAssumption DEF Fits, WrapMultiply
  <2>2. (a * 100) \div b >= 100
    BY <1>2
  <2>3. (a * 100) \div b \in Nat
    BY <1>2
  <2>4. QED
    BY <1>2, <2>1, <2>2, <2>3 DEF Satisfaction, Clamped, AtMost
<1>3. QED
  BY <1>1, <1>2

LEMMA StockOfFirst ==
  ASSUME RuntimeTypeOK, HostIdle, NEW r \in Resource
  PROVE  Here(stores, r) \in U64 /\ People \in U64
<1>1. FirstPlace \in SettlementId /\ stores \in [SettlementId -> Storages] /\ settlements # {}
  BY DEF HostIdle, RuntimeTypeOK, WorldTypeOK
<1>2. stores[FirstPlace][r] \in U64 /\ Population[FirstPlace] \in U64
  BY <1>1, OrchestrationAssumption DEF Storages
<1>3. QED
  BY <1>1, <1>2 DEF Here, People

LEMMA CrisisSupply ==
  LET crisis == CrisisPropagation(EventState(stores))
  IN  IF Here(stores, Food) < People THEN crisis.supply = 60 /\ crisis.risk = 0
      ELSE crisis.supply = 0 /\ crisis.risk = 0
<1>1. CASE Here(stores, Food) < People
  <2>1. EventState(stores).type = "food_crisis" /\ EventState(stores).severity = 60
    BY <1>1 DEF EventState, CrisisOf
  <2>2. Clamped(60) = 60
    BY DEF Clamped, AtMost
  <2>3. QED
    BY <1>1, <2>1, <2>2 DEF CrisisPropagation
<1>2. CASE ~(Here(stores, Food) < People)
  <2>1. EventState(stores).type = "stable"
    BY <1>2 DEF EventState, CrisisOf
  <2>2. QED
    BY <1>2, <2>1 DEF CrisisPropagation
<1>3. QED
  BY <1>1, <1>2

LEMMA DecisionIs ==
  ASSUME NEW needs, NEW crisis, needs.food \in Percent, needs.water \in Percent,
         crisis.supply \in Percent, crisis.risk = 0
  PROVE  Decision(Actor, needs, crisis).decision = "issue_supply_contract"
           <=> \/ 100 - needs.food >= 50 \/ 100 - needs.water >= 50 \/ crisis.supply >= 50
<1> DEFINE f == needs.food
           w == needs.water
           c == crisis.supply
           shortage == Highest(Highest(100 - f, 100 - w), c)
<1>1. f \in 0 .. 100 /\ w \in 0 .. 100 /\ c \in 0 .. 100
  BY DEF Percent
<1>2. Actor.enabled /\ Actor.threshold = 50 /\ Actor.tolerance = 50
  BY DEF Actor
<1>3. Decision(Actor, needs, crisis) =
        CASE shortage >= 50 -> [decision |-> "issue_supply_contract", priority |-> shortage]
          [] OTHER -> [decision |-> "hold", priority |-> needs.happiness]
  BY <1>2 DEF Decision
<1> HIDE DEF f, w, c
<1>4. shortage >= 50 <=> 100 - f >= 50 \/ 100 - w >= 50 \/ c >= 50
  BY <1>1 DEF Highest
<1> HIDE DEF shortage
<1>5. Decision(Actor, needs, crisis).decision = "issue_supply_contract" <=> shortage >= 50
  BY <1>3
<1>6. QED
  BY <1>4, <1>5 DEF f, w, c

LEMMA DecisionStep == RuntimeTypeOK /\ HostIdle => DecisionFollowsShortage
<1> SUFFICES ASSUME RuntimeTypeOK, HostIdle, NEW config \in Configs,
                    Fits(People), Fits(Here(stores, Food)), Fits(Here(stores, Water))
             PROVE  LET food  == Here(stores, Food)
                        water == Here(stores, Water)
                        asks  == CoreReport(stores, config.core).decision.decision
                                   = "issue_supply_contract"
                    IN  /\ food < People => asks
                        /\ (food >= People /\ (water = 0 \/ water >= People)) => ~asks
  BY DEF DecisionFollowsShortage
<1> DEFINE food == Here(stores, Food)
           water == Here(stores, Water)
           drink == IF water = 0 THEN food ELSE water
           needs == PopulationNeeds(NeedsState(stores, config.core))
           crisis == CrisisPropagation(EventState(stores))
           asks == CoreReport(stores, config.core).decision.decision = "issue_supply_contract"
<1>1. food \in Nat /\ water \in Nat /\ drink \in Nat /\ People \in Nat
  BY StockOfFirst, RuntimeAssumption, OrchestrationAssumption DEF U64
<1>2. needs.food = Satisfaction(food, People) /\ needs.water = Satisfaction(drink, People)
  BY DEF PopulationNeeds, NeedsState
<1>3. /\ crisis.risk = 0
      /\ food < People => crisis.supply = 60
      /\ ~(food < People) => crisis.supply = 0
  BY CrisisSupply
<1>4. asks <=> Decision(Actor, needs, crisis).decision = "issue_supply_contract"
  BY DEF CoreReport
<1> HIDE DEF needs, crisis, asks
<1>5. needs.food \in Percent /\ needs.water \in Percent /\ crisis.supply \in Percent
  <2> HIDE DEF food, drink
  <2>1. needs.food \in Percent /\ needs.water \in Percent
    BY <1>1, <1>2, SatisfactionType
  <2>2. crisis.supply \in Percent
    BY <1>3 DEF Percent
  <2>3. QED
    BY <2>1, <2>2
<1>6. asks <=> 100 - needs.food >= 50 \/ 100 - needs.water >= 50 \/ crisis.supply >= 50
  BY <1>3, <1>4, <1>5, DecisionIs
<1>7. food < People => asks
  BY <1>3, <1>6
<1>8. ASSUME food >= People, water = 0 \/ water >= People PROVE ~asks
  <2>1. drink >= People /\ Fits(drink)
    BY <1>8
  <2> HIDE DEF drink
  <2>2. needs.food = 100 /\ needs.water = 100
    BY <1>1, <1>2, <1>8, <2>1, EnoughSatisfies
  <2>3. crisis.supply = 0
    BY <1>1, <1>3, <1>8
  <2>4. QED
    BY <1>6, <2>2, <2>3
<1>9. QED
  BY <1>7, <1>8 DEF asks

LEMMA OrchestrationIdle == OrchestrationSpec => [](RuntimeTypeOK /\ HostIdle)
<1>1. OrchestrationInit => RuntimeInit /\ HostIdle /\ RuntimeTypeOK /\ CallReal
  BY OrchestrationStarts, RuntimeStart
<1>2. RuntimeTypeOK /\ CallReal /\ HostIdle /\ [OrchestrationNext]_orchestrationVars
        => RuntimeTypeOK' /\ CallReal' /\ HostIdle'
  BY OrchestrationStepRuns, RuntimeStep
<1>3. QED
  BY <1>1, <1>2, PTL DEF OrchestrationSpec

(* evaluate_runtime_core_systems asks for supplies in every world with     *)
(* less food than people, and in none with enough food and water, for      *)
(* every stock whose product with 100 fits 64 bits and any settings.       *)
THEOREM DecisionsFollowShortage == OrchestrationSpec => []DecisionFollowsShortage
BY DecisionStep, OrchestrationIdle, PTL

-----------------------------------------------------------------------------
(* Arithmetic of the evaluators.                                           *)

LEMMA DivShrinks ==
  ASSUME NEW m \in Nat, NEW d \in Nat \ {0}
  PROVE  m \div d \in Nat /\ m \div d <= m
OBVIOUS

LEMMA DivGrows ==
  ASSUME NEW m \in Nat, NEW n \in Nat, m <= n, NEW d \in Nat \ {0}
  PROVE  m \div d <= n \div d
OBVIOUS

LEMMA WrapMultiplyShrinks ==
  ASSUME NEW a \in Nat, NEW b \in Nat
  PROVE  WrapMultiply(a, b) \in Nat /\ WrapMultiply(a, b) <= a * b
<1>1. PICK m \in Nat : m = a * b
  OBVIOUS
<1>2. m % (MaxU64 + 1) \in Nat /\ m % (MaxU64 + 1) <= m
  BY WidthAssumption
<1>3. QED
  BY <1>1, <1>2 DEF WrapMultiply

(* A share of a number, however its product wraps, is no more than it.     *)
LEMMA ShareOf ==
  ASSUME NEW a \in Nat, NEW b \in Nat, NEW d \in Nat \ {0}, b <= d
  PROVE  WrapMultiply(a, b) \div d \in Nat /\ WrapMultiply(a, b) \div d <= a
<1>1. PICK m \in Nat : m = WrapMultiply(a, b) /\ m <= a * b
  BY WrapMultiplyShrinks
<1>2. a * b <= a * d
  OBVIOUS
<1>3. m <= a * d
  BY <1>1, <1>2
<1>4. m \div d <= a
  BY <1>3
<1>5. QED
  BY <1>1, <1>4, DivShrinks

LEMMA ClampedType ==
  ASSUME NEW x \in Nat
  PROVE  Clamped(x) \in Percent
BY DEF Clamped, AtMost, Percent

LEMMA PercentIs == \A x : x \in Percent <=> x \in Nat /\ x <= 100
BY DEF Percent

LEMMA SatisfactionGrows ==
  ASSUME NEW a \in Nat, NEW more \in Nat, NEW b \in Nat, a <= more, a = more \/ Fits(more)
  PROVE  Satisfaction(a, b) <= Satisfaction(more, b)
<1>1. Satisfaction(a, b) \in Nat /\ Satisfaction(more, b) \in Nat
  BY SatisfactionType, PercentIs
<1>2. CASE a = more
  BY <1>1, <1>2
<1>3. CASE b = 0
  BY <1>3 DEF Satisfaction
<1>4. CASE a # more /\ b # 0
  <2>1. WrapMultiply(a, 100) = a * 100 /\ WrapMultiply(more, 100) = more * 100
    BY <1>4, WidthAssumption DEF Fits, WrapMultiply
  <2>2. PICK m \in Nat, n \in Nat : m = a * 100 /\ n = more * 100 /\ m <= n
    OBVIOUS
  <2>3. m \div b <= n \div b /\ m \div b \in Nat /\ n \div b \in Nat
    BY <1>4, <2>2, DivGrows, DivShrinks
  <2>4. Satisfaction(a, b) = Clamped(m \div b) /\ Satisfaction(more, b) = Clamped(n \div b)
    BY <1>4, <2>1, <2>2 DEF Satisfaction
  <2>5. QED
    BY <2>3, <2>4 DEF Clamped, AtMost
<1>5. QED
  BY <1>2, <1>3, <1>4

-----------------------------------------------------------------------------
(* One evaluator after the other.                                          *)

LEMMA NeedsScores ==
  ASSUME NEW s, s.population \in Nat, s.food \in Nat, s.water \in Nat, s.housing \in Nat,
         s.safety \in Nat, s.tax \in Nat
  PROVE  LET n == PopulationNeeds(s)
         IN  /\ n.food \in Percent /\ n.water \in Percent /\ n.housing \in Percent
             /\ n.happiness \in Percent
             /\ -s.population <= n.migration /\ n.migration <= s.population
<1> DEFINE f == Satisfaction(s.food, s.population)
           w == Satisfaction(s.water, s.population)
           h == Satisfaction(s.housing, s.population)
           c == Clamped(s.safety)
           baseline == (f + w + h + c) \div 4
           happiness == baseline - AtMost(baseline, s.tax \div 2)
           pop == s.population
           n == PopulationNeeds(s)
<1>1. /\ n.food = f /\ n.water = w /\ n.housing = h /\ n.happiness = happiness
      /\ n.migration = IF happiness >= 70 THEN WrapMultiply(pop, happiness - 69) \div 1000
                       ELSE -(WrapMultiply(pop, 70 - happiness) \div 700)
  BY DEF PopulationNeeds
<1>2. f \in Percent /\ w \in Percent /\ h \in Percent /\ c \in Percent
  BY SatisfactionType, ClampedType
<1>3. f \in 0 .. 100 /\ w \in 0 .. 100 /\ h \in 0 .. 100 /\ c \in 0 .. 100
  BY <1>2 DEF Percent
<1> HIDE DEF f, w, h, c, n
<1>4. baseline \in 0 .. 100
  BY <1>3
<1>5. s.tax \div 2 \in Nat
  OBVIOUS
<1> HIDE DEF baseline
<1>6. happiness \in 0 .. 100
  BY <1>4, <1>5 DEF AtMost
<1>7. PICK p \in Nat : p = pop
  OBVIOUS
<1> HIDE DEF happiness, pop
<1>8. -p <= n.migration /\ n.migration <= p
  <2>1. CASE happiness >= 70
    <3>1. PICK k \in Nat : k = happiness - 69 /\ k <= 1000
      BY <1>6, <2>1
    <3>2. PICK share \in Nat : share = WrapMultiply(p, k) \div 1000 /\ share <= p
      BY <3>1, ShareOf
    <3>3. n.migration = share
      BY <1>1, <1>7, <2>1, <3>1, <3>2
    <3>4. QED
      BY <3>2, <3>3
  <2>2. CASE ~(happiness >= 70)
    <3>1. PICK k \in Nat : k = 70 - happiness /\ k <= 700
      BY <1>6, <2>2
    <3>2. PICK share \in Nat : share = WrapMultiply(p, k) \div 700 /\ share <= p
      BY <3>1, ShareOf
    <3>3. n.migration = -share
      BY <1>1, <1>7, <2>2, <3>1, <3>2
    <3>4. QED
      BY <3>2, <3>3
  <2>3. QED
    BY <2>1, <2>2
<1>9. QED
  BY <1>1, <1>2, <1>6, <1>7, <1>8 DEF Percent, n, pop

LEMMA WeatherScores ==
  ASSUME NEW s, s.severity \in Nat
  PROVE  WeatherImpact(s).risk \in Percent /\ WeatherImpact(s).market \in Percent
<1>1. PICK v \in 0 .. 100 : v = Clamped(s.severity)
  BY ClampedType DEF Percent
<1>2. v \div 4 \in 0 .. 100 /\ v \div 2 \in 0 .. 100
  OBVIOUS
<1>3. /\ WeatherImpact(s).risk \in {v, 0}
      /\ WeatherImpact(s).market \in {v \div 4, v \div 2, 0}
  BY <1>1 DEF WeatherImpact
<1>4. QED
  BY <1>2, <1>3 DEF Percent

LEMMA EcologyScore ==
  ASSUME NEW w
  PROVE  EcologyPressure(EcologyState(w)).pressure \in Percent
<1> DEFINE s == EcologyState(w)
           load == s.extraction + s.pollution + Lacking(s.fertility) + Lacking(s.water)
<1>1. load \in Nat
  BY DEF EcologyState, Lacking
<1>2. EcologyPressure(s).pressure = AtMost((load % (MaxU32 + 1)) \div 4, 100)
  BY DEF EcologyPressure
<1> HIDE DEF load
<1>3. PICK m \in Nat : m = load % (MaxU32 + 1)
  BY <1>1, CoreSystemsAssumption
<1>4. PICK q \in Nat : q = m \div 4
  OBVIOUS
<1>5. EcologyPressure(s).pressure = AtMost(q, 100)
  BY <1>2, <1>3, <1>4
<1>6. QED
  BY <1>5 DEF AtMost, Percent

LEMMA CrisisScores ==
  LET crisis == CrisisPropagation(EventState(stores))
  IN  crisis.supply \in Percent /\ crisis.stability \in Percent /\ crisis.risk \in Percent
<1> DEFINE crisis == CrisisPropagation(EventState(stores))
<1>1. CASE Here(stores, Food) < People
  <2>1. EventState(stores).type = "food_crisis" /\ EventState(stores).severity = 60
    BY <1>1 DEF EventState, CrisisOf
  <2>2. Clamped(60) = 60
    BY DEF Clamped, AtMost
  <2>3. 60 \div 2 = 30
    OBVIOUS
  <2>4. crisis.supply = 60 /\ crisis.stability = 30 /\ crisis.risk = 0
    BY <2>1, <2>2, <2>3 DEF CrisisPropagation
  <2>5. QED
    BY <2>4 DEF Percent
<1>2. CASE ~(Here(stores, Food) < People)
  <2>1. EventState(stores).type = "stable" /\ EventState(stores).severity = 10
    BY <1>2 DEF EventState, CrisisOf
  <2>2. Clamped(10) = 10
    BY DEF Clamped, AtMost
  <2>3. 10 \div 3 = 3
    OBVIOUS
  <2>4. crisis.supply = 0 /\ crisis.stability = 3 /\ crisis.risk = 0
    BY <2>1, <2>2, <2>3 DEF CrisisPropagation
  <2>5. QED
    BY <2>4 DEF Percent
<1>3. QED
  BY <1>1, <1>2

LEMMA PriorityScore ==
  ASSUME NEW needs, NEW crisis, needs.food \in Percent, needs.water \in Percent,
         needs.happiness \in Percent, crisis.supply \in Percent, crisis.risk \in Percent
  PROVE  Decision(Actor, needs, crisis).priority \in Percent
<1> DEFINE shortage == Highest(Highest(100 - needs.food, 100 - needs.water), crisis.supply)
<1>1. shortage \in Percent
  BY DEF Highest, Percent
<1>2. Actor.enabled
  BY DEF Actor
<1>3. \/ Decision(Actor, needs, crisis) = [decision |-> "issue_supply_contract", priority |-> shortage]
      \/ Decision(Actor, needs, crisis) = [decision |-> "reroute_caravan", priority |-> crisis.risk]
      \/ Decision(Actor, needs, crisis) = [decision |-> "hold", priority |-> needs.happiness]
  BY <1>2 DEF Decision
<1> HIDE DEF shortage
<1>4. QED
  BY <1>1, <1>3

LEMMA LackingType ==
  ASSUME NEW x \in Percent
  PROVE  Lacking(x) \in Percent
BY DEF Lacking, Percent

LEMMA MarketScores ==
  ASSUME NEW s, s.supply \in U64, s.demand \in U64, s.liquidity \in Percent, s.volatility \in Percent
  PROVE  RegionalMarket(s).price \in Percent /\ RegionalMarket(s).liquidityRisk \in Percent
<1> DEFINE surplus == AsSigned(s.supply) - AsSigned(s.demand)
           shortage == IF surplus < 0 THEN -surplus ELSE 0
           base == IF s.demand = 0 THEN 0 ELSE WrapMultiply(shortage, 100) \div s.demand
<1>1. /\ RegionalMarket(s).price = Clamped(base + s.volatility \div 2 + Lacking(s.liquidity) \div 3)
      /\ RegionalMarket(s).liquidityRisk = Lacking(s.liquidity)
  BY DEF RegionalMarket
<1>2. surplus \in Int
  BY WidthAssumption DEF AsSigned, U64
<1> HIDE DEF surplus
<1>3. shortage \in Nat
  BY <1>2
<1> HIDE DEF shortage
<1>4. base \in Nat
  <2>1. PICK m \in Nat : m = WrapMultiply(shortage, 100)
    BY <1>3, WrapMultiplyShrinks
  <2> s.demand \in Nat
    BY DEF U64
  <2>2. CASE s.demand = 0
    BY <2>2
  <2>3. CASE s.demand # 0
    <3>1. m \div s.demand \in Nat
      BY <2>3, DivShrinks
    <3>2. QED
      BY <2>1, <2>3, <3>1
  <2>4. QED
    BY <2>2, <2>3
<1> HIDE DEF base
<1>5. Lacking(s.liquidity) \in Percent
  BY LackingType
<1>6. base + s.volatility \div 2 + Lacking(s.liquidity) \div 3 \in Nat
  BY <1>4, <1>5 DEF Percent
<1>7. QED
  BY <1>1, <1>5, <1>6, ClampedType

LEMMA ClimateScores ==
  ASSUME NEW s, s.severity \in Percent, s.risk \in Percent
  PROVE  RegionalClimate(s).market \in Percent /\ RegionalClimate(s).disaster \in Percent
<1>1. PICK v \in 0 .. 100 : v = s.severity
  BY DEF Percent
<1>2. v \div 2 \in 0 .. 100 /\ v \div 3 \in 0 .. 100
  OBVIOUS
<1>3. s.risk + v \div 3 \in Nat
  BY <1>2 DEF Percent
<1>4. /\ RegionalClimate(s).market \in {v \div 2, v \div 3, 0}
      /\ RegionalClimate(s).disaster = Clamped(s.risk + v \div 3)
  BY <1>1 DEF RegionalClimate
<1>5. QED
  BY <1>2, <1>3, <1>4, ClampedType DEF Percent

LEMMA MigrationScores ==
  ASSUME NEW s, s.population \in Nat, s.capacity \in Nat, s.stability \in Percent,
         s.targetStability \in Percent
  PROVE  RegionalMigration(s).refugee \in Percent /\ RegionalMigration(s).flow <= s.population
<1> DEFINE instability == IF s.stability >= s.targetStability THEN 0 ELSE s.targetStability - s.stability
           movers == AtMost(s.capacity, s.population)
<1>1. s.stability \in 0 .. 100 /\ s.targetStability \in 0 .. 100
  BY DEF Percent
<1>10. instability \in Nat /\ instability <= 1000
  <2>1. PICK a \in 0 .. 100, b \in 0 .. 100 : a = s.stability /\ b = s.targetStability
    BY <1>1
  <2>2. instability = IF a >= b THEN 0 ELSE b - a
    BY <2>1
  <2> HIDE DEF instability
  <2>3. QED
    BY <2>2
<1>11. movers \in Nat /\ movers <= s.population
  BY DEF AtMost
<1>2. /\ RegionalMigration(s).flow = WrapMultiply(movers, instability) \div 1000
      /\ RegionalMigration(s).refugee = Clamped(instability + (IF s.stability < 35 THEN 30 ELSE 0))
  BY DEF RegionalMigration
<1> HIDE DEF instability, movers
<1>3. PICK share \in Nat : share = WrapMultiply(movers, instability) \div 1000 /\ share <= movers
  BY <1>10, <1>11, ShareOf
<1>4. PICK sum \in Nat : sum = instability + (IF s.stability < 35 THEN 30 ELSE 0)
  BY <1>10
<1>5. RegionalMigration(s).flow <= s.population
  BY <1>11, <1>2, <1>3
<1>6. RegionalMigration(s).refugee \in Percent
  BY <1>2, <1>4, ClampedType
<1>7. QED
  BY <1>5, <1>6

LEMMA MaintenanceScore ==
  ASSUME RuntimeTypeOK
  PROVE  Maintenance(Upkeep).health \in Percent
<1>1. tick \in Nat /\ Len(routes) \in Nat /\ Len(fleet) \in Nat
  BY DEF RuntimeTypeOK, TypeOK, WorldTypeOK, U64
<1> DEFINE load == Clamped(1 \div 10 + 1 \div 50 + Len(routes) \div 50 + Len(fleet) \div 100)
           compaction == Clamped(0 \div 1000 + tick \div 10000)
           persistence == Clamped(0 + 0 \div 2000)
<1>2. load \in Percent /\ compaction \in Percent /\ persistence \in Percent
  <2>1. PICK a \in Nat, b \in Nat : a = Len(routes) \div 50 /\ b = Len(fleet) \div 100
    BY <1>1
  <2>2. PICK t \in Nat : t = tick \div 10000
    BY <1>1
  <2>3. 1 \div 10 = 0 /\ 1 \div 50 = 0 /\ 0 \div 1000 = 0 /\ 0 \div 2000 = 0
    OBVIOUS
  <2>4. load = Clamped(a + b) /\ compaction = Clamped(t) /\ persistence = Clamped(0)
    BY <2>1, <2>2, <2>3
  <2>5. QED
    BY <2>4, ClampedType
<1>3. Maintenance(Upkeep).health = 100 - Clamped(load \div 3 + compaction \div 3 + persistence \div 3)
  BY DEF Maintenance, Upkeep
<1> HIDE DEF load, compaction, persistence
<1>4. load \div 3 + compaction \div 3 + persistence \div 3 \in Nat
  BY <1>2 DEF Percent
<1>5. Clamped(load \div 3 + compaction \div 3 + persistence \div 3) \in Percent
  BY <1>4, ClampedType
<1>6. QED
  BY <1>3, <1>5 DEF Percent

-----------------------------------------------------------------------------
(* The sum of the stocks, which wraps around.                              *)

(* One more in one of the parts is one more in the sum.                    *)
LEMMA WrapAddOneMore ==
  ASSUME NEW a \in U64, NEW b \in U64
  PROVE  /\ WrapAdd(WrapAdd(a, 1), b) = WrapAdd(WrapAdd(a, b), 1)
         /\ b + 1 <= MaxU64 => WrapAdd(a, b + 1) = WrapAdd(WrapAdd(a, b), 1)
BY WidthAssumption DEF WrapAdd, U64

(* total_market_supply as a walk over the settlements.                     *)
AddsUp(f, w, r) ==
  /\ f \in [SUBSET settlements -> U64]
  /\ \A S \in SUBSET settlements :
       f[S] = IF S = {} THEN 0 ELSE WrapAdd(f[S \ {AnyOf(S)}], w[AnyOf(S)][r])
  /\ MarketSupply(w, r) = f[settlements]

LEMMA SupplyAddsUp ==
  ASSUME IsFiniteSet(settlements), NEW w, NEW r, \A s \in settlements : w[s][r] \in U64
  PROVE  \E f : AddsUp(f, w, r)
<1> DEFINE Eq(f) == f = [S \in SUBSET settlements |->
                           IF S = {} THEN 0
                           ELSE LET s == CHOOSE s \in S : TRUE IN WrapAdd(f[S \ {s}], w[s][r])]
           add == [s \in settlements |-> [n \in U64 |-> WrapAdd(n, w[s][r])]]
           sum == CHOOSE f : Eq(f)
<1>1. 0 \in U64
  BY WidthAssumption DEF U64
<1>2. add \in [settlements -> [U64 -> U64]]
  BY WrapAddType
<1>3. PICK g \in [SUBSET settlements -> U64] : IsGathered(g, settlements, 0, add)
  <2> HIDE DEF add
  <2>1. QED
    BY <1>1, <1>2, GatheredExists
<1>4. ASSUME NEW S \in SUBSET settlements
      PROVE  g[S] = IF S = {} THEN 0 ELSE WrapAdd(g[S \ {AnyOf(S)}], w[AnyOf(S)][r])
  <2>1. CASE S = {}
    BY <1>3, <2>1 DEF IsGathered
  <2>2. CASE S # {}
    <3>1. g[S] = add[AnyOf(S)][g[S \ {AnyOf(S)}]]
      BY <1>3, <2>2 DEF IsGathered
    <3>2. AnyOf(S) \in settlements /\ S \ {AnyOf(S)} \in SUBSET settlements
      BY <2>2, AnyOfIsIn
    <3>3. QED
      BY <2>2, <3>1, <3>2
  <2>3. QED
    BY <2>1, <2>2
<1>5. Eq(g)
  BY <1>4 DEF AnyOf
<1>6. \E f : Eq(f)
  BY <1>5
<1> HIDE DEF Eq
<1>7. Eq(sum)
  BY <1>6, Zenon
<1>8. MarketSupply(w, r) = sum[settlements]
  BY Zenon DEF MarketSupply, Eq
<1> HIDE DEF sum
<1>9. \A S \in SUBSET settlements :
        sum[S] = IF S = {} THEN 0 ELSE WrapAdd(sum[S \ {AnyOf(S)}], w[AnyOf(S)][r])
  BY <1>7 DEF Eq, AnyOf
<1>10. sum = [S \in SUBSET settlements |-> sum[S]]
  BY <1>7 DEF Eq
<1> DEFINE P == {S \in SUBSET settlements : sum[S] \in U64}
<1>11. {} \in P
  BY <1>1, <1>9
<1>12. ASSUME NEW S \in SUBSET settlements, S # {}, S \ {AnyOf(S)} \in P PROVE S \in P
  <2>1. w[AnyOf(S)][r] \in U64
    BY <1>12, AnyOfIsIn
  <2>2. sum[S] = WrapAdd(sum[S \ {AnyOf(S)}], w[AnyOf(S)][r])
    BY <1>9, <1>12
  <2>3. QED
    BY <1>12, <2>1, <2>2, WrapAddType
<1> HIDE DEF P
<1>13. \A S \in SUBSET settlements : S \in P
  BY <1>11, <1>12, SetInduction
<1>14. sum \in [SUBSET settlements -> U64]
  BY <1>10, <1>13 DEF P
<1>15. QED
  BY <1>8, <1>9, <1>14 DEF AddsUp

(* A unit of food more in one settlement is one more in the market.        *)
LEMMA SupplyOneMore ==
  ASSUME IsFiniteSet(settlements), NEW w, NEW more, NEW r, NEW t \in settlements,
         \A s \in settlements : w[s][r] \in U64,
         \A s \in settlements : s # t => more[s][r] = w[s][r],
         more[t][r] = w[t][r] + 1, w[t][r] + 1 <= MaxU64
  PROVE  /\ MarketSupply(w, r) \in U64
         /\ MarketSupply(more, r) = WrapAdd(MarketSupply(w, r), 1)
<1>1. \A s \in settlements : more[s][r] \in U64
  <2>1. more[t][r] \in U64
    BY WidthAssumption DEF U64
  <2>2. QED
    BY <2>1
<1>2. PICK f : AddsUp(f, w, r)
  BY SupplyAddsUp
<1>3. PICK g : AddsUp(g, more, r)
  BY <1>1, SupplyAddsUp
<1> DEFINE P == {S \in SUBSET settlements : g[S] = IF t \in S THEN WrapAdd(f[S], 1) ELSE f[S]}
<1>4. {} \in P
  BY <1>2, <1>3 DEF AddsUp
<1>5. ASSUME NEW S \in SUBSET settlements, S # {}, S \ {AnyOf(S)} \in P PROVE S \in P
  <2> DEFINE s == AnyOf(S)
             R == S \ {s}
  <2>1. s \in S /\ s \in settlements /\ R \in SUBSET settlements
    BY <1>5, AnyOfIsIn
  <2>2. f[S] = WrapAdd(f[R], w[s][r]) /\ g[S] = WrapAdd(g[R], more[s][r])
    BY <1>2, <1>3, <1>5 DEF AddsUp
  <2>3. f[R] \in U64 /\ w[s][r] \in U64
    BY <1>2, <2>1 DEF AddsUp
  <2>4. g[R] = IF t \in R THEN WrapAdd(f[R], 1) ELSE f[R]
    BY <1>5
  <2>5. CASE s = t
    <3>1. t \in S /\ t \notin R /\ more[s][r] = w[s][r] + 1
      BY <2>1, <2>5
    <3>2. w[s][r] + 1 <= MaxU64
      BY <2>5
    <3> HIDE DEF s, R
    <3>3. WrapAdd(f[R], w[s][r] + 1) = WrapAdd(WrapAdd(f[R], w[s][r]), 1)
      BY <2>3, <3>2, WrapAddOneMore
    <3>4. g[S] = WrapAdd(f[S], 1)
      BY <2>2, <2>4, <3>1, <3>3
    <3>5. QED
      BY <3>1, <3>4
  <2>6. CASE s # t
    <3>1. (t \in R <=> t \in S) /\ more[s][r] = w[s][r]
      BY <2>1, <2>6
    <3> HIDE DEF s, R
    <3>2. WrapAdd(WrapAdd(f[R], 1), w[s][r]) = WrapAdd(WrapAdd(f[R], w[s][r]), 1)
      BY <2>3, WrapAddOneMore
    <3>3. g[S] = IF t \in S THEN WrapAdd(f[S], 1) ELSE f[S]
      BY <2>2, <2>4, <3>1, <3>2
    <3>4. QED
      BY <3>3
  <2>7. QED
    BY <2>5, <2>6
<1> HIDE DEF P
<1>6. \A S \in SUBSET settlements : S \in P
  BY <1>4, <1>5, SetInduction
<1>7. g[settlements] = WrapAdd(f[settlements], 1)
  BY <1>6 DEF P
<1>8. f[settlements] \in U64
  BY <1>2 DEF AddsUp
<1>9. QED
  BY <1>2, <1>3, <1>7, <1>8 DEF AddsUp

-----------------------------------------------------------------------------
(* The report, whose evaluators feed on each other's scores.               *)

(* What the validators that nobody calls would have let through.           *)
LEMMA CoreFields ==
  ASSUME NEW c \in CoreConfigs, NEW w, ValidCore(w, c)
  PROVE  /\ c.buffer \in Nat
         /\ {c.severity, c.risk, c.safety, c.tax, c.liquidity, c.volatility} \subseteq Percent
<1>1. c.buffer \in Nat
  BY CoreSystemsAssumption DEF CoreConfigs, U32
<1>2. c.safety \in Percent /\ c.tax \in Percent
  BY DEF ValidCore, ValidPopulationNeeds, NeedsState
<1>3. c.liquidity \in Percent /\ c.volatility \in Percent
  BY DEF ValidCore, ValidRegionalMarket, MarketState
<1>4. c.severity \in Percent /\ c.risk \in Percent
  BY DEF ValidCore, ValidRegionalClimate, ClimateState
<1>5. QED
  BY <1>1, <1>2, <1>3, <1>4

LEMMA HousingType ==
  ASSUME People \in U64, NEW c, c.buffer \in Nat
  PROVE  Housing(c) \in U64
<1>1. PICK m \in U64 : m = WrapMultiply(People, c.buffer)
  <2>1. People \in Nat
    BY DEF U64
  <2>2. QED
    BY <2>1, WrapMultiplyType
<1>2. PICK q \in Nat : q = m \div 100 /\ q <= m
  BY DivShrinks DEF U64
<1>3. q \in U64
  BY <1>2, WidthAssumption DEF U64
<1>4. QED
  BY <1>1, <1>2, <1>3, WrapAddType DEF Housing

LEMMA StocksOfAll ==
  ASSUME RuntimeTypeOK, NEW r \in Resource
  PROVE  \A s \in settlements : stores[s][r] \in U64
BY DEF RuntimeTypeOK, WorldTypeOK, Storages

LEMMA SupplyType ==
  ASSUME RuntimeTypeOK, HostIdle
  PROVE  MarketSupply(stores, Food) \in U64
<1>1. \A s \in settlements : stores[s][Food] \in U64
  BY StocksOfAll, RuntimeAssumption
<1>2. PICK f : AddsUp(f, stores, Food)
  BY <1>1, SupplyAddsUp DEF HostIdle
<1>3. QED
  BY <1>2 DEF AddsUp

LEMMA ScoresStep ==
  ASSUME RuntimeTypeOK, HostIdle, NEW c \in CoreConfigs, ValidCore(stores, c)
  PROVE  ScoresInRange(c)
<1> DEFINE now == CoreReport(stores, c)
           migrate == MigrationState(now.needs, now.climate, c)
           ns == NeedsState(stores, c)
           ws == WeatherState(c)
           ms == MarketState(stores, c)
           cs == ClimateState(c)
<1>1. /\ c.buffer \in Nat
      /\ {c.severity, c.risk, c.safety, c.tax, c.liquidity, c.volatility} \subseteq Percent
  BY CoreFields
<1>2. People \in U64 /\ Here(stores, Food) \in U64 /\ Here(stores, Water) \in U64
  BY StockOfFirst, RuntimeAssumption, OrchestrationAssumption
<1>3. Housing(c) \in U64
  BY <1>1, <1>2, HousingType
<1>4. MarketSupply(stores, Food) \in U64
  BY SupplyType
<1>5. /\ ns.population = People /\ People \in Nat
      /\ ns.food \in Nat /\ ns.water \in Nat /\ ns.housing \in Nat /\ ns.safety \in Nat /\ ns.tax \in Nat
  BY <1>1, <1>2, <1>3 DEF NeedsState, U64, Percent
<1>6. ws.severity \in Nat
  BY <1>1 DEF WeatherState, Percent
<1>7. ms.supply \in U64 /\ ms.demand \in U64 /\ ms.liquidity \in Percent /\ ms.volatility \in Percent
  BY <1>1, <1>2, <1>4 DEF MarketState
<1>8. cs.severity \in Percent /\ cs.risk \in Percent
  BY <1>1 DEF ClimateState
<1>9. /\ now.needs = PopulationNeeds(ns)
      /\ now.weather = WeatherImpact(ws)
      /\ now.ecology = EcologyPressure(EcologyState(stores))
      /\ now.crisis = CrisisPropagation(EventState(stores))
      /\ now.decision = Decision(Actor, now.needs, now.crisis)
      /\ now.market = RegionalMarket(ms)
      /\ now.climate = RegionalClimate(cs)
      /\ now.migration = RegionalMigration(migrate)
      /\ now.maintenance = Maintenance(Upkeep)
  BY DEF CoreReport
<1>10. /\ migrate.population = People /\ migrate.capacity = Housing(c)
       /\ migrate.source = "default" /\ migrate.target = "default"
       /\ migrate.stability = now.needs.happiness
       /\ migrate.targetStability = Highest(now.needs.happiness, 70)
       /\ migrate.health = now.climate.disaster
  BY DEF MigrationState
<1> HIDE DEF now, migrate, ns, ws, ms, cs
<1>11. /\ now.needs.food \in Percent /\ now.needs.water \in Percent /\ now.needs.housing \in Percent
       /\ now.needs.happiness \in Percent
       /\ -People <= now.needs.migration /\ now.needs.migration <= People
  BY <1>5, <1>9, NeedsScores
<1>12. now.weather.risk \in Percent /\ now.weather.market \in Percent
  BY <1>6, <1>9, WeatherScores
<1>13. now.ecology.pressure \in Percent
  BY <1>9, EcologyScore
<1>14. now.crisis.supply \in Percent /\ now.crisis.stability \in Percent /\ now.crisis.risk \in Percent
  BY <1>9, CrisisScores
<1>15. now.decision.priority \in Percent
  BY <1>9, <1>11, <1>14, PriorityScore
<1>16. now.market.price \in Percent /\ now.market.liquidityRisk \in Percent
  BY <1>7, <1>9, MarketScores
<1>17. now.climate.market \in Percent /\ now.climate.disaster \in Percent
  BY <1>8, <1>9, ClimateScores
<1>18. migrate.stability \in Percent /\ migrate.targetStability \in Percent
  BY <1>10, <1>11 DEF Highest, Percent
<1>19. now.migration.refugee \in Percent /\ now.migration.flow <= People
  <2>1. migrate.population \in Nat /\ migrate.capacity \in Nat
    BY <1>3, <1>5, <1>10 DEF U64
  <2>2. QED
    BY <1>9, <1>10, <1>18, <2>1, MigrationScores
<1>20. now.maintenance.health \in Percent
  BY <1>9, MaintenanceScore
<1>21. ValidRegionalMigration(migrate)
  BY <1>10, <1>17, <1>18 DEF ValidRegionalMigration
<1>22. Scores(now) \subseteq Percent
  BY <1>11, <1>12, <1>13, <1>14, <1>15, <1>16, <1>17, <1>19, <1>20 DEF Scores
<1>23. QED
  BY <1>11, <1>19, <1>21, <1>22 DEF ScoresInRange, now, migrate

LEMMA RegionScores == RegionScoresAreSound
<1> SUFFICES ASSUME NEW s \in Regions, ValidInterRegionRoute(s.road), ValidTerritory(s.land)
             PROVE  LET road == InterRegionLogistics(s.road)
                        land == Territory(s.land)
                    IN  /\ {road.risk, road.disruption, land.routes, land.market, land.unrest}
                             \subseteq Percent
                        /\ road.capacity <= s.road.capacity
  BY DEF RegionScoresAreSound
<1> DEFINE road == InterRegionLogistics(s.road)
           land == Territory(s.land)
<1>1. s.road \in InterRegionRoutes
  BY OrchestrationAssumption
<1>2. PICK cap \in Nat : cap = s.road.capacity
  BY <1>1, CoreSystemsAssumption DEF InterRegionRoutes, U32
<1>3. PICK jam \in 0 .. 100, risk \in 0 .. 100 : jam = s.road.congestion /\ risk = s.road.risk
  BY DEF ValidInterRegionRoute, Percent
<1>4. PICK influence \in 0 .. 100, security \in 0 .. 100, conflict \in 0 .. 100 :
        /\ influence = s.land.influence /\ security = s.land.security
        /\ conflict = s.land.conflict
  BY DEF ValidTerritory, Percent
<1>5. road.risk \in Percent /\ road.disruption \in Percent
  <2>1. PICK extra \in Nat, block \in Nat, more \in Nat :
          /\ extra = (IF s.road.chokepoint THEN 20 ELSE 0)
          /\ more = (IF s.road.chokepoint THEN 25 ELSE 0)
          /\ block = (IF s.road.blocked THEN 100 ELSE 0)
    OBVIOUS
  <2>2. PICK half \in Nat : half = jam \div 2
    OBVIOUS
  <2>3. /\ road.risk = Clamped(risk + half + extra + block)
        /\ road.disruption = Clamped(risk + jam + more + block)
    BY <1>3, <2>1, <2>2 DEF InterRegionLogistics
  <2>4. risk + half + extra + block \in Nat /\ risk + jam + more + block \in Nat
    OBVIOUS
  <2>5. QED
    BY <2>3, <2>4, ClampedType
<1>6. road.capacity <= s.road.capacity
  <2>1. PICK m \in Nat : m = (cap * jam) % (MaxU32 + 1)
    <3>1. PICK n \in Nat : n = cap * jam
      OBVIOUS
    <3>2. n % (MaxU32 + 1) \in Nat
      BY CoreSystemsAssumption
    <3>3. QED
      BY <3>1, <3>2
  <2>2. PICK loss \in Nat : loss = IF s.road.blocked THEN cap ELSE m \div 100
    BY DivShrinks
  <2>3. road.capacity = cap - AtMost(cap, loss)
    BY <1>2, <1>3, <2>1, <2>2 DEF InterRegionLogistics
  <2>4. QED
    BY <1>2, <2>3 DEF AtMost
<1>7. land.routes \in Percent /\ land.market \in Percent /\ land.unrest \in Percent
  <2>1. PICK a \in Nat, b \in Nat : a = influence \div 2 /\ b = conflict \div 2
    OBVIOUS
  <2>2. PICK lacking \in Nat : lacking = Lacking(security)
    BY DEF Lacking
  <2>3. /\ land.routes = Clamped(a + b) /\ land.market = Clamped(influence)
        /\ land.unrest = Clamped(lacking + conflict)
    BY <1>4, <2>1, <2>2 DEF Territory
  <2>4. a + b \in Nat /\ influence \in Nat /\ lacking + conflict \in Nat
    OBVIOUS
  <2>5. QED
    BY <2>3, <2>4, ClampedType
<1>8. QED
  BY <1>5, <1>6, <1>7

-----------------------------------------------------------------------------
(* Another unit of food.                                                   *)

LEMMA HappinessGrows ==
  ASSUME NEW s, NEW m, s.population \in Nat, s.food \in Nat, s.water \in Nat, s.housing \in Nat,
         s.safety \in Nat, s.tax \in Nat, m.food \in Nat, m.water \in Nat,
         m.population = s.population, m.housing = s.housing, m.safety = s.safety, m.tax = s.tax,
         s.food <= m.food, s.food = m.food \/ Fits(m.food),
         s.water <= m.water, s.water = m.water \/ Fits(m.water)
  PROVE  PopulationNeeds(s).happiness <= PopulationNeeds(m).happiness
<1> DEFINE Base(f, w) == (f + w + Satisfaction(s.housing, s.population) + Clamped(s.safety)) \div 4
           Content(f, w) == Base(f, w) - AtMost(Base(f, w), s.tax \div 2)
           f == Satisfaction(s.food, s.population)
           w == Satisfaction(s.water, s.population)
           g == Satisfaction(m.food, s.population)
           v == Satisfaction(m.water, s.population)
<1>1. PopulationNeeds(s).happiness = Content(f, w) /\ PopulationNeeds(m).happiness = Content(g, v)
  BY DEF PopulationNeeds
<1>2. f <= g /\ w <= v
  BY SatisfactionGrows
<1>3. f \in Percent /\ w \in Percent /\ g \in Percent /\ v \in Percent
  BY SatisfactionType
<1> HIDE DEF f, w, g, v
<1>4. PICK h \in Nat, c \in Nat : h = Satisfaction(s.housing, s.population) /\ c = Clamped(s.safety)
  <2>1. Satisfaction(s.housing, s.population) \in Percent
    BY SatisfactionType
  <2>2. Clamped(s.safety) \in Percent
    BY ClampedType
  <2>3. QED
    BY <2>1, <2>2, PercentIs
<1>5. PICK p \in Nat, q \in Nat : p = f + w + h + c /\ q = g + v + h + c /\ p <= q
  BY <1>2, <1>3 DEF Percent
<1>6. PICK a \in Nat, b \in Nat : a = p \div 4 /\ b = q \div 4 /\ a <= b
  <2>1. p \div 4 \in Nat /\ q \div 4 \in Nat /\ p \div 4 <= q \div 4
    BY <1>5
  <2>2. QED
    BY <2>1
<1>7. PICK t \in Nat : t = s.tax \div 2
  BY DivShrinks
<1>8. Content(f, w) = a - AtMost(a, t) /\ Content(g, v) = b - AtMost(b, t)
  BY <1>4, <1>5, <1>6, <1>7
<1> HIDE DEF Content
<1>9. a - AtMost(a, t) <= b - AtMost(b, t)
  BY <1>6 DEF AtMost
<1>10. QED
  BY <1>1, <1>8, <1>9

LEMMA PriceFalls ==
  ASSUME NEW s, NEW m, s.supply \in Nat, m.supply = s.supply + 1, Fits(m.supply),
         s.demand \in Nat, Fits(s.demand), s.liquidity \in Percent, s.volatility \in Percent,
         m.demand = s.demand, m.liquidity = s.liquidity, m.volatility = s.volatility
  PROVE  RegionalMarket(m).price <= RegionalMarket(s).price
<1> DEFINE Missing(x) == IF x < 0 THEN -x ELSE 0
           Base(x) == IF s.demand = 0 THEN 0 ELSE WrapMultiply(Missing(x), 100) \div s.demand
           x == s.supply - s.demand
           y == s.supply + 1 - s.demand
<1>1. MaxU64 \div 2 \in Nat /\ 2 * (MaxU64 \div 2) + 1 >= MaxU64 /\ MaxU64 \in Nat
  BY WidthAssumption
<1>2. /\ AsSigned(s.supply) = s.supply /\ AsSigned(m.supply) = s.supply + 1
      /\ AsSigned(s.demand) = s.demand
  BY <1>1 DEF AsSigned, Fits
<1>3. PICK half \in Nat, third \in Nat :
        half = s.volatility \div 2 /\ third = Lacking(s.liquidity) \div 3
  <2>1. PICK a \in 0 .. 100, b \in 0 .. 100 : a = s.volatility /\ b = Lacking(s.liquidity)
    BY LackingType DEF Percent
  <2>2. a \div 2 \in Nat /\ b \div 3 \in Nat
    OBVIOUS
  <2>3. QED
    BY <2>1, <2>2
<1>4. /\ RegionalMarket(s).price = Clamped(Base(x) + half + third)
      /\ RegionalMarket(m).price = Clamped(Base(y) + half + third)
  BY <1>2, <1>3 DEF RegionalMarket
<1>5. PICK p \in Nat, q \in Nat :
        p = Missing(y) /\ q = Missing(x) /\ p <= q /\ q <= s.demand
  OBVIOUS
<1>6. WrapMultiply(p, 100) = p * 100 /\ WrapMultiply(q, 100) = q * 100
  <2>1. p * 100 <= MaxU64 /\ q * 100 <= MaxU64
    BY <1>1, <1>5 DEF Fits
  <2>2. PICK i \in Nat, j \in Nat : i = p * 100 /\ j = q * 100
    OBVIOUS
  <2>3. i % (MaxU64 + 1) = i /\ j % (MaxU64 + 1) = j
    BY <1>1, <2>1, <2>2
  <2>4. QED
    BY <2>2, <2>3 DEF WrapMultiply
<1>7. PICK a \in Nat, b \in Nat : a = Base(y) /\ b = Base(x) /\ a <= b
  <2>1. CASE s.demand = 0
    BY <2>1
  <2>2. CASE s.demand # 0
    <3>1. PICK i \in Nat, j \in Nat : i = p * 100 /\ j = q * 100 /\ i <= j
      BY <1>5
    <3>2. i \div s.demand \in Nat /\ j \div s.demand \in Nat /\ i \div s.demand <= j \div s.demand
      BY <2>2, <3>1, DivGrows, DivShrinks
    <3>3. Base(y) = i \div s.demand /\ Base(x) = j \div s.demand
      BY <1>5, <1>6, <2>2, <3>1
    <3> HIDE DEF Base
    <3>4. QED
      BY <3>2, <3>3
  <2>3. QED
    BY <2>1, <2>2
<1> HIDE DEF Base, x, y
<1>8. Clamped(a + half + third) <= Clamped(b + half + third)
  BY <1>7 DEF Clamped, AtMost
<1>9. QED
  BY <1>4, <1>7, <1>8

LEMMA OneMoreIs ==
  ASSUME RuntimeTypeOK, HostIdle
  PROVE  /\ \A s \in settlements, r \in Resource :
              WithOneMore(stores)[s][r] =
                IF s = FirstPlace /\ r = Food THEN stores[s][r] + 1 ELSE stores[s][r]
         /\ \A r \in Resource :
              Here(WithOneMore(stores), r) = IF r = Food THEN Here(stores, r) + 1 ELSE Here(stores, r)
<1>1. FirstPlace \in SettlementId /\ stores \in [SettlementId -> Storages] /\ settlements \subseteq SettlementId
  BY DEF HostIdle, RuntimeTypeOK, WorldTypeOK
<1>2. ASSUME NEW s \in SettlementId PROVE DOMAIN stores[s] = Resource
  BY <1>1, <1>2 DEF Storages
<1>3. ASSUME NEW s \in settlements, NEW r \in Resource
      PROVE  WithOneMore(stores)[s][r] =
               IF s = FirstPlace /\ r = Food THEN stores[s][r] + 1 ELSE stores[s][r]
  BY <1>1, <1>2, RuntimeAssumption DEF WithOneMore
<1>4. FirstPlace \in settlements /\ settlements # {}
  BY DEF HostIdle
<1>5. QED
  BY <1>3, <1>4 DEF Here

LEMMA MoreFoodStep ==
  ASSUME RuntimeTypeOK, HostIdle, NEW c \in CoreConfigs, ValidCore(stores, c)
  PROVE  MoreFoodHelps(c)
<1> DEFINE now == CoreReport(stores, c)
           more == CoreReport(WithOneMore(stores), c)
           ns == NeedsState(stores, c)
           nm == NeedsState(WithOneMore(stores), c)
           ms == MarketState(stores, c)
           mm == MarketState(WithOneMore(stores), c)
           food == Here(stores, Food)
           water == Here(stores, Water)
           supply == MarketSupply(stores, Food)
<1> SUFFICES ASSUME Fits(supply + 1), Fits(food + 1), Fits(People)
             PROVE  more.needs.happiness >= now.needs.happiness /\ more.market.price <= now.market.price
  BY DEF MoreFoodHelps
<1>1. /\ c.buffer \in Nat
      /\ {c.severity, c.risk, c.safety, c.tax, c.liquidity, c.volatility} \subseteq Percent
  BY CoreFields
<1>2. People \in U64 /\ food \in U64 /\ water \in U64 /\ supply \in U64
  BY StockOfFirst, SupplyType, RuntimeAssumption, OrchestrationAssumption
<1>3. Housing(c) \in Nat
  BY <1>1, <1>2, HousingType DEF U64
<1>4. food + 1 <= MaxU64 /\ supply + 1 <= MaxU64
  BY <1>2, WidthAssumption DEF Fits, U64
<1>5. /\ Here(WithOneMore(stores), Food) = food + 1
      /\ Here(WithOneMore(stores), Water) = IF Water = Food THEN food + 1 ELSE water
      /\ Water = Food => water = food
  BY OneMoreIs, RuntimeAssumption, OrchestrationAssumption
<1>6. MarketSupply(WithOneMore(stores), Food) = supply + 1
  <2>1. /\ \A s \in settlements : stores[s][Food] \in U64
        /\ FirstPlace \in settlements /\ settlements # {} /\ IsFiniteSet(settlements)
    BY StocksOfAll, RuntimeAssumption DEF HostIdle
  <2>2. food = stores[FirstPlace][Food]
    BY <2>1 DEF Here
  <2>3. /\ \A s \in settlements : s # FirstPlace => WithOneMore(stores)[s][Food] = stores[s][Food]
        /\ WithOneMore(stores)[FirstPlace][Food] = stores[FirstPlace][Food] + 1
    BY <2>1, OneMoreIs, RuntimeAssumption
  <2>4. stores[FirstPlace][Food] + 1 <= MaxU64
    BY <1>4, <2>2
  <2>5. MarketSupply(WithOneMore(stores), Food) = WrapAdd(supply, 1)
    BY <2>1, <2>3, <2>4, SupplyOneMore
  <2> HIDE DEF supply
  <2>6. PICK n \in Nat : n = supply /\ n + 1 <= MaxU64
    BY <1>2, <1>4 DEF U64
  <2>7. WrapAdd(n, 1) = n + 1
    BY <2>6, WidthAssumption DEF WrapAdd
  <2>8. QED
    BY <2>5, <2>6, <2>7
<1>7. /\ now.needs = PopulationNeeds(ns) /\ more.needs = PopulationNeeds(nm)
      /\ now.market = RegionalMarket(ms) /\ more.market = RegionalMarket(mm)
  BY DEF CoreReport
<1>8. /\ ns.population = People /\ nm.population = People
      /\ ns.housing = Housing(c) /\ nm.housing = Housing(c)
      /\ ns.safety = c.safety /\ nm.safety = c.safety /\ ns.tax = c.tax /\ nm.tax = c.tax
      /\ ns.food = food /\ nm.food = food + 1
      /\ ns.water = IF water = 0 THEN food ELSE water
      /\ nm.water = IF (IF Water = Food THEN food + 1 ELSE water) = 0 THEN food + 1
                    ELSE IF Water = Food THEN food + 1 ELSE water
  BY <1>5 DEF NeedsState
<1>9. /\ ms.supply = supply /\ mm.supply = supply + 1 /\ ms.demand = People /\ mm.demand = People
      /\ ms.liquidity = c.liquidity /\ mm.liquidity = c.liquidity
      /\ ms.volatility = c.volatility /\ mm.volatility = c.volatility
  BY <1>6 DEF MarketState
<1> HIDE DEF now, more, ns, nm, ms, mm, food, water, supply
<1>10. People \in Nat /\ food \in Nat /\ water \in Nat /\ supply \in Nat /\ c.safety \in Nat /\ c.tax \in Nat
  BY <1>1, <1>2 DEF U64, Percent
<1>11. /\ ns.water \in Nat /\ nm.water \in Nat /\ ns.water <= nm.water
       /\ ns.water = nm.water \/ Fits(nm.water)
  BY <1>5, <1>8, <1>10
<1>12. PopulationNeeds(ns).happiness <= PopulationNeeds(nm).happiness
  <2>1. ns.food \in Nat /\ nm.food \in Nat /\ ns.food <= nm.food /\ Fits(nm.food)
    BY <1>8, <1>10
  <2>2. QED
    BY <1>3, <1>8, <1>10, <1>11, <2>1, HappinessGrows
<1>13. RegionalMarket(mm).price <= RegionalMarket(ms).price
  <2>1. /\ ms.supply \in Nat /\ mm.supply = ms.supply + 1 /\ Fits(mm.supply)
        /\ ms.demand \in Nat /\ Fits(ms.demand)
        /\ ms.liquidity \in Percent /\ ms.volatility \in Percent
        /\ mm.demand = ms.demand /\ mm.liquidity = ms.liquidity /\ mm.volatility = ms.volatility
    BY <1>1, <1>9, <1>10
  <2>2. QED
    BY <2>1, PriceFalls
<1>14. /\ PopulationNeeds(ns).happiness \in Percent /\ PopulationNeeds(nm).happiness \in Percent
  BY <1>3, <1>8, <1>10, <1>11, NeedsScores
<1>15. QED
  BY <1>7, <1>12, <1>13, <1>14, PercentIs

LEMMA ScoresAreSoundStep == RuntimeTypeOK /\ HostIdle => ScoresAreSound
<1> SUFFICES ASSUME RuntimeTypeOK, HostIdle PROVE ScoresAreSound
  OBVIOUS
<1>1. ASSUME NEW config \in Configs, ValidCore(stores, config.core)
      PROVE  ScoresInRange(config.core) /\ MoreFoodHelps(config.core)
  <2>1. config.core \in CoreConfigs
    BY OrchestrationAssumption
  <2>2. QED
    BY <1>1, <2>1, ScoresStep, MoreFoodStep
<1>2. QED
  BY <1>1, RegionScores DEF ScoresAreSound

(* Whatever the stocks and the settings that the validators accept, every  *)
(* score of a report is a percentage, nobody leaves who is not there, and  *)
(* another unit of food makes nobody less content and food no dearer while *)
(* the products fit 64 bits.                                               *)
THEOREM ScoresStaySound == OrchestrationSpec => []ScoresAreSound
BY ScoresAreSoundStep, OrchestrationIdle, PTL

-----------------------------------------------------------------------------
(* Lists, piece by piece.                                                  *)

LEMMA SameForAll ==
  ASSUME NEW S, NEW x \in S, NEW n \in Nat
  PROVE  [k \in 1 .. n |-> x] \in Seq(S) /\ Len([k \in 1 .. n |-> x]) = n
OBVIOUS

LEMMA OnlyOne ==
  ASSUME NEW S, NEW x \in S
  PROVE  <<x>> \in Seq(S) /\ Len(<<x>>) = 1 /\ <<x>>[1] = x
OBVIOUS

LEMMA Joined ==
  ASSUME NEW S, NEW s \in Seq(S), NEW t \in Seq(S), NEW a, Len(s) = a
  PROVE  /\ s \o t \in Seq(S)
         /\ Len(s \o t) = a + Len(t)
         /\ a \in Nat /\ Len(t) \in Nat /\ DOMAIN s = 1 .. a /\ DOMAIN t = 1 .. Len(t)
         /\ \A k \in 1 .. a + Len(t) : (s \o t)[k] = IF k <= a THEN s[k] ELSE t[k - a]
<1>1. Len(s) \in Nat /\ Len(t) \in Nat /\ DOMAIN s = 1 .. Len(s) /\ DOMAIN t = 1 .. Len(t)
  OBVIOUS
<1>2. /\ s \o t \in Seq(S)
      /\ Len(s \o t) = Len(s) + Len(t)
      /\ \A k \in 1 .. Len(s) + Len(t) : (s \o t)[k] = IF k <= Len(s) THEN s[k] ELSE t[k - Len(s)]
  BY ConcatProperties
<1>3. QED
  BY <1>1, <1>2

(* Laying the pieces of a list end to end.                                 *)

(* The list s holds the entries e of the places in A, each of them once,   *)
(* at the position pos gives it, and nothing else.                         *)
Laid(s, e, A, pos) ==
  /\ pos \in [A -> DOMAIN s]
  /\ \A p, q \in A : pos[p] = pos[q] => p = q
  /\ \A k \in DOMAIN s : \E p \in A : pos[p] = k
  /\ \A p \in A : s[pos[p]] = e[p]

LEMMA OneMoreLaid ==
  ASSUME NEW E, NEW s \in Seq(E), NEW A, NEW e, NEW pos, Laid(s, e, A, pos),
         NEW p, p \notin A, e[p] \in E
  PROVE  \E new : Laid(Append(s, e[p]), e, A \cup {p}, new)
<1> DEFINE n == Len(s)
           t == Append(s, e[p])
           new == [q \in A \cup {p} |-> IF q = p THEN n + 1 ELSE pos[q]]
<1>1. /\ n \in Nat /\ DOMAIN s = 1 .. n /\ DOMAIN t = 1 .. n + 1
      /\ t[n + 1] = e[p] /\ \A k \in 1 .. n : t[k] = s[k]
  OBVIOUS
<1>2. \A k \in 1 .. n + 1 : k = n + 1 \/ k \in 1 .. n
  BY <1>1
<1>3. /\ \A q \in A : q # p /\ new[q] = pos[q] /\ pos[q] \in 1 .. n
      /\ new[p] = n + 1
      /\ \A k \in 1 .. n : k # n + 1 /\ k \in 1 .. n + 1
      /\ n + 1 \in 1 .. n + 1
  BY <1>1 DEF Laid
<1> HIDE DEF n, t
<1>4. new \in [A \cup {p} -> DOMAIN t]
  BY <1>1, <1>3
<1>5. DOMAIN new = A \cup {p}
  OBVIOUS
<1> HIDE DEF new
<1>6. \A q, r \in A \cup {p} : new[q] = new[r] => q = r
  BY <1>3 DEF Laid
<1>7. ASSUME NEW k \in DOMAIN t PROVE \E q \in A \cup {p} : new[q] = k
  BY <1>1, <1>2, <1>3 DEF Laid
<1>8. \A q \in A \cup {p} : t[new[q]] = e[q]
  BY <1>1, <1>3 DEF Laid
<1>9. QED
  BY <1>4, <1>6, <1>7, <1>8 DEF Laid, t

(* What FlattenSeq makes of a list of lists with one entry or none.        *)
LEMMA FlattenLays ==
  ASSUME NEW n \in Nat, NEW E, NEW e \in [1 .. n -> E], NEW A \in SUBSET (1 .. n)
  PROVE  LET flat == FlattenSeq([p \in 1 .. n |-> IF p \in A THEN <<e[p]>> ELSE << >>])
         IN  flat \in Seq(E) /\ \E pos : Laid(flat, e, A, pos)
<1> DEFINE seqs == [p \in 1 .. n |-> IF p \in A THEN <<e[p]>> ELSE << >>]
           Eq(f) == f = [i \in 1 .. Len(seqs) |-> IF i = 1 THEN seqs[i] ELSE f[i - 1] \o seqs[i]]
           flat == CHOOSE f : Eq(f)
<1>1. /\ seqs \in Seq(Seq(E)) /\ Len(seqs) = n
      /\ \A p \in 1 .. n : seqs[p] = IF p \in A THEN <<e[p]>> ELSE << >>
  OBVIOUS
<1>2. FlattenSeq(seqs) = IF n = 0 THEN seqs ELSE flat[n]
  <2>1. FlattenSeq(seqs) = IF Len(seqs) = 0 THEN seqs ELSE flat[Len(seqs)]
    BY Zenon DEF FlattenSeq
  <2> HIDE DEF seqs, flat
  <2>2. QED
    BY <1>1, <2>1
<1>3. CASE n = 0
  <2>1. A = {} /\ seqs = << >>
    BY <1>1, <1>3
  <2> HIDE DEF seqs
  <2>2. Laid(<< >>, e, {}, [p \in {} |-> 1])
    BY DEF Laid
  <2>3. << >> \in Seq(E)
    OBVIOUS
  <2>4. QED
    BY <1>2, <1>3, <2>1, <2>2, <2>3 DEF seqs
<1>4. CASE n # 0
  <2>1. \E f : Eq(f)
    <3> DEFINE round == [i \in 1 .. n |-> [s \in Seq(E) |-> s \o seqs[i]]]
    <3>1. round \in [1 .. n -> [Seq(E) -> Seq(E)]]
      BY <1>1
    <3>2. << >> \in Seq(E)
      OBVIOUS
    <3>3. \A i \in 1 .. n : seqs[i] \in Seq(E)
      BY <1>1
    <3> HIDE DEF round, seqs
    <3>4. PICK f \in [0 .. n -> Seq(E)] : IsLoop(f, n, << >>, round)
      BY <3>1, <3>2, LoopExists
    <3> DEFINE g == [i \in 1 .. n |-> f[i]]
    <3>5. ASSUME NEW i \in 1 .. n
          PROVE  g[i] = IF i = 1 THEN seqs[i] ELSE g[i - 1] \o seqs[i]
      <4>0. i \in 0 .. n /\ i # 0 /\ i - 1 \in 0 .. n /\ 0 \in 0 .. n
        OBVIOUS
      <4>1. f[0] = << >> /\ f[i] = round[i][f[i - 1]]
        BY <3>4, <4>0 DEF IsLoop
      <4>2. f[i] = f[i - 1] \o seqs[i]
        BY <4>0, <4>1 DEF round
      <4>3. CASE i = 1
        <5>0. i - 1 = 0
          BY <4>3
        <5>1. f[i] = << >> \o seqs[i]
          BY <4>1, <4>2, <5>0
        <5>2. << >> \o seqs[i] = seqs[i]
          BY <3>3, ConcatEmptySeq
        <5>3. QED
          BY <4>3, <5>1, <5>2
      <4>4. CASE i # 1
        <5>1. i - 1 \in 1 .. n
          BY <4>4
        <5>2. QED
          BY <4>2, <4>4, <5>1
      <4>5. QED
        BY <4>3, <4>4
    <3>6. g = [i \in 1 .. n |-> IF i = 1 THEN seqs[i] ELSE g[i - 1] \o seqs[i]]
      BY <3>5
    <3> HIDE DEF g
    <3>7. Eq(g)
      BY <1>1, <3>6
    <3>8. QED
      BY <3>7
  <2>2. Eq(flat)
    <3> HIDE DEF Eq
    <3>1. QED
      BY <2>1, Zenon
  <2> HIDE DEF flat
  <2>3. \A i \in 1 .. n : flat[i] = IF i = 1 THEN seqs[i] ELSE flat[i - 1] \o seqs[i]
    BY <1>1, <2>2
  <2> DEFINE Done(s, i) == s \in Seq(E) /\ \E pos : Laid(s, e, A \cap (1 .. i), pos)
             T == {i \in 0 .. n : i = 0 \/ Done(flat[i], i)}
  <2> HIDE DEF seqs
  <2>4. ASSUME NEW i \in 1 .. n, NEW s, Done(s, i - 1) PROVE Done(s \o seqs[i], i)
    <3>1. s \in Seq(E) /\ e[i] \in E
      BY <2>4
    <3>2. PICK pos : Laid(s, e, A \cap (1 .. i - 1), pos)
      BY <2>4
    <3>3. CASE i \in A
      <4>1. s \o seqs[i] = Append(s, e[i])
        BY <1>1, <3>1, <3>3, AppendIsConcat
      <4>2. A \cap (1 .. i) = (A \cap (1 .. i - 1)) \cup {i} /\ i \notin A \cap (1 .. i - 1)
        BY <3>3
      <4>3. \E new : Laid(Append(s, e[i]), e, (A \cap (1 .. i - 1)) \cup {i}, new)
        BY <3>1, <3>2, <4>2, OneMoreLaid
      <4>4. Append(s, e[i]) \in Seq(E)
        BY <3>1
      <4>5. QED
        BY <4>1, <4>2, <4>3, <4>4
    <3>4. CASE i \notin A
      <4>1. s \o seqs[i] = s
        BY <1>1, <3>1, <3>4, ConcatEmptySeq
      <4>2. A \cap (1 .. i) = A \cap (1 .. i - 1)
        BY <3>4
      <4>3. QED
        BY <3>1, <3>2, <4>1, <4>2
    <3>5. QED
      BY <3>3, <3>4
  <2>5. Done(<< >>, 0)
    <3>1. Laid(<< >>, e, A \cap (1 .. 0), [p \in {} |-> 1])
      BY DEF Laid
    <3>2. QED
      BY <3>1
  <2>6. ASSUME NEW i \in 1 .. n, i - 1 \in T PROVE i \in T
    <3>1. CASE i = 1
      <4> HIDE DEF Done
      <4>1. << >> \o seqs[i] = seqs[i] /\ flat[i] = seqs[i]
        <5>1. seqs[i] \in Seq(E)
          BY <1>1
        <5>2. QED
          BY <2>3, <3>1, <5>1, ConcatEmptySeq
      <4>2. Done(<< >> \o seqs[i], i)
        <5>1. i - 1 = 0
          BY <3>1
        <5>2. Done(<< >>, i - 1)
          BY <2>5, <5>1
        <5>3. QED
          BY <2>4, <5>2
      <4>3. QED
        BY <4>1, <4>2
    <3>2. CASE i # 1
      <4> HIDE DEF Done
      <4>1. i - 1 # 0 /\ Done(flat[i - 1], i - 1)
        BY <2>6, <3>2
      <4>2. Done(flat[i - 1] \o seqs[i], i)
        BY <2>4, <4>1
      <4>3. QED
        BY <2>3, <3>2, <4>2
    <3>3. QED
      BY <3>1, <3>2
  <2> HIDE DEF Done
  <2>7. 0 \in T
    OBVIOUS
  <2>8. \A i \in 0 .. n : i \in T
    <3> HIDE DEF T
    <3>1. QED
      BY <2>6, <2>7, BoundedInduction
  <2>9. Done(flat[n], n)
    BY <1>4, <2>8
  <2>10. A \cap (1 .. n) = A
    OBVIOUS
  <2>11. QED
    BY <1>2, <1>4, <2>9, <2>10 DEF Done, seqs
<1>5. QED
  BY <1>3, <1>4

-----------------------------------------------------------------------------
(* The registry: however it is built, what it gates on is registered.      *)

LEMMA ToggleAdded ==
  ASSUME NEW toggles, NEW id, NEW enabled
  PROVE  DOMAIN toggles \subseteq DOMAIN WithToggle(toggles, id, enabled)
BY DEF WithToggle

LEMMA MoreToGateOn ==
  ASSUME NEW F, NEW G, NEW D, NEW E, F \subseteq G, D \subseteq E,
         NEW s \in Seq(Processors(F, D))
  PROVE  s \in Seq(Processors(G, E))
<1>1. Processors(F, D) \subseteq Processors(G, E)
  BY DEF Processors
<1>2. QED
  BY <1>1

LEMMA RegistryStaysBuilt ==
  ASSUME BuiltRegistry(registry), RegistryCall
  PROVE  BuiltRegistry(registry')
<1> DEFINE F == DOMAIN registry.features
           D == DOMAIN registry.dependencies
           ps == registry.processors
<1>1. DOMAIN registry = {"features", "dependencies", "processors"} /\ ps \in Seq(Processors(F, D))
  BY DEF BuiltRegistry
<1>2. ASSUME registry'.processors = ps, DOMAIN registry' = DOMAIN registry,
             F \subseteq DOMAIN registry'.features, D \subseteq DOMAIN registry'.dependencies
      PROVE  BuiltRegistry(registry')
  <2>1. ps \in Seq(Processors(DOMAIN registry'.features, DOMAIN registry'.dependencies))
    <3> HIDE DEF ps, F, D
    <3>1. QED
      BY <1>1, <1>2, MoreToGateOn
  <2>2. QED
    BY <1>1, <1>2, <2>1 DEF BuiltRegistry
<1>3. ASSUME NEW f \in FeatureOffers, NEW enabled \in BOOLEAN, AddFeature(f, enabled)
      PROVE  BuiltRegistry(registry')
  <2>1. /\ registry'.processors = ps /\ DOMAIN registry' = DOMAIN registry
        /\ registry'.features = WithToggle(registry.features, f, enabled)
        /\ registry'.dependencies = registry.dependencies
    BY <1>1, <1>3 DEF AddFeature
  <2>2. QED
    BY <1>2, <2>1, ToggleAdded
<1>4. ASSUME NEW d \in DependencyOffers, NEW enabled \in BOOLEAN, AddDependency(d, enabled)
      PROVE  BuiltRegistry(registry')
  <2>1. /\ registry'.processors = ps /\ DOMAIN registry' = DOMAIN registry
        /\ registry'.dependencies = WithToggle(registry.dependencies, d, enabled)
        /\ registry'.features = registry.features
    BY <1>1, <1>4 DEF AddDependency
  <2>2. QED
    BY <1>2, <2>1, ToggleAdded
<1>5. ASSUME NEW f \in FeatureSwitches, SwitchFeature(f) PROVE BuiltRegistry(registry')
  <2>1. /\ registry'.processors = ps /\ DOMAIN registry' = DOMAIN registry
        /\ registry'.features = [registry.features EXCEPT ![f] = ~@]
        /\ registry'.dependencies = registry.dependencies
    BY <1>1, <1>5 DEF SwitchFeature
  <2>2. QED
    BY <1>2, <2>1
<1>6. ASSUME NEW d \in DependencySwitches, SwitchDependency(d) PROVE BuiltRegistry(registry')
  <2>1. /\ registry'.processors = ps /\ DOMAIN registry' = DOMAIN registry
        /\ registry'.dependencies = [registry.dependencies EXCEPT ![d] = ~@]
        /\ registry'.features = registry.features
    BY <1>1, <1>6 DEF SwitchDependency
  <2>2. QED
    BY <1>2, <2>1
<1>7. ASSUME NEW p \in ProcessorOffers, AddProcessor(p) PROVE BuiltRegistry(registry')
  <2>1. /\ registry'.processors = Append(ps, p) /\ DOMAIN registry' = DOMAIN registry
        /\ registry'.features = registry.features
        /\ registry'.dependencies = registry.dependencies
    BY <1>1, <1>7 DEF AddProcessor
  <2>2. /\ p.agnostic /\ p.features \subseteq F /\ p.dependencies \subseteq D
        /\ \A k \in DOMAIN ps : ps[k].id # p.id
    BY <1>7 DEF AddProcessor, CanRegister
  <2>3. p \in Processors(F, D)
    BY <2>2, OrchestrationAssumption DEF Processors
  <2> DEFINE n == Len(ps)
             t == Append(ps, p)
  <2>4. /\ n \in Nat /\ DOMAIN ps = 1 .. n /\ DOMAIN t = 1 .. n + 1
        /\ t[n + 1] = p /\ \A k \in 1 .. n : t[k] = ps[k]
        /\ t \in Seq(Processors(F, D))
    <3>1. PICK E : E = Processors(F, D)
      OBVIOUS
    <3>2. ps \in Seq(E) /\ p \in E
      BY <1>1, <2>3, <3>1
    <3> HIDE DEF ps, F, D
    <3>3. /\ n \in Nat /\ DOMAIN ps = 1 .. n /\ DOMAIN t = 1 .. n + 1
          /\ t[n + 1] = p /\ \A k \in 1 .. n : t[k] = ps[k]
          /\ t \in Seq(E)
      BY <3>2
    <3>4. QED
      BY <3>1, <3>3
  <2>5. \A k \in 1 .. n + 1 : k = n + 1 \/ k \in 1 .. n
    BY <2>4
  <2>6. \A k \in DOMAIN ps : ps[k].agnostic
    BY DEF BuiltRegistry
  <2>7. \A j, k \in DOMAIN ps : ps[j].id = ps[k].id => j = k
    BY DEF BuiltRegistry
  <2> HIDE DEF n, t, ps
  <2>8. \A k \in DOMAIN t : t[k].agnostic
    BY <2>2, <2>4, <2>5, <2>6
  <2>9. \A j, k \in DOMAIN t : t[j].id = t[k].id => j = k
    BY <2>2, <2>4, <2>5, <2>7
  <2>10. registry'.processors = t
    BY <2>1 DEF t
  <2>11. QED
    BY <1>1, <2>1, <2>4, <2>8, <2>9, <2>10 DEF BuiltRegistry
<1>8. QED
  BY <1>3, <1>4, <1>5, <1>6, <1>7 DEF RegistryCall

-----------------------------------------------------------------------------
(* Before is a strict order of the processors of a registry.               *)

Ranked(S) ==
  /\ \A p \in S : ~Before(p, p)
  /\ \A p, q \in S : p # q => Before(p, q) \/ Before(q, p)
  /\ \A p, q \in S : Before(p, q) => ~Before(q, p)
  /\ \A p, q, r \in S : Before(p, q) /\ Before(q, r) => Before(p, r)

LEMMA RankedByOrder ==
  ASSUME NEW F, NEW D, NEW S \in SUBSET Processors(F, D), \A p, q \in S : p.id = q.id => p = q
  PROVE  Ranked(S)
<1>1. \A p \in S : p.order \in Nat /\ ProcessorRank[p.id] \in Nat
  BY OrchestrationAssumption DEF Processors
<1>2. \A p, q \in S : p # q => ProcessorRank[p.id] # ProcessorRank[q.id]
  BY OrchestrationAssumption DEF Processors
<1>3. \A p \in S : ~Before(p, p)
  BY <1>1 DEF Before
<1>4. \A p, q \in S : p # q => Before(p, q) \/ Before(q, p)
  BY <1>1, <1>2 DEF Before
<1>5. \A p, q \in S : Before(p, q) => ~Before(q, p)
  BY <1>1 DEF Before
<1>6. \A p, q, r \in S : Before(p, q) /\ Before(q, r) => Before(p, r)
  BY <1>1 DEF Before
<1>7. QED
  BY <1>3, <1>4, <1>5, <1>6 DEF Ranked

(* The sequence s lists the set S, every processor before the later ones.  *)
ListsInOrder(s, S) ==
  /\ s \in Seq(S)
  /\ \A p \in S : \E k \in 1 .. Len(s) : s[k] = p
  /\ \A j, k \in 1 .. Len(s) : j < k => Before(s[j], s[k])

LEMMA SamePrefix ==
  ASSUME NEW S, Ranked(S), NEW s, NEW t, ListsInOrder(s, S), ListsInOrder(t, S)
  PROVE  Len(s) <= Len(t) /\ \A k \in 1 .. Len(s) : s[k] = t[k]
<1> DEFINE L == Len(s)
           M == Len(t)
<1>1. /\ L \in Nat /\ M \in Nat
      /\ \A k \in 1 .. L : s[k] \in S
      /\ \A k \in 1 .. M : t[k] \in S
  BY DEF ListsInOrder
<1>2. /\ \A p \in S : \E k \in 1 .. L : s[k] = p
      /\ \A p \in S : \E k \in 1 .. M : t[k] = p
      /\ \A j, k \in 1 .. L : j < k => Before(s[j], s[k])
      /\ \A j, k \in 1 .. M : j < k => Before(t[j], t[k])
  BY DEF ListsInOrder
<1> HIDE DEF L, M
<1> DEFINE T == {n \in 0 .. L : n <= M /\ \A k \in 1 .. n : s[k] = t[k]}
<1>3. 0 \in T
  BY <1>1
<1>4. ASSUME NEW n \in 1 .. L, n - 1 \in T PROVE n \in T
  <2>1. n - 1 <= M /\ \A k \in 1 .. n - 1 : s[k] = t[k]
    BY <1>4
  <2>2. s[n] \in S
    BY <1>1
  <2>3. PICK j \in 1 .. M : t[j] = s[n]
    BY <1>2, <2>2
  <2>4. j >= n
    <3> SUFFICES ASSUME j < n PROVE FALSE
      BY <1>1
    <3>1. j \in 1 .. n - 1 /\ j \in 1 .. L
      BY <1>1
    <3>2. s[j] = s[n] /\ Before(s[j], s[n])
      BY <1>2, <2>1, <2>3, <3>1
    <3>3. QED
      BY <2>2, <3>2 DEF Ranked
  <2>5. n \in 1 .. M /\ t[n] \in S
    BY <1>1, <2>4
  <2>6. PICK i \in 1 .. L : s[i] = t[n]
    BY <1>2, <2>5
  <2>7. i >= n
    <3> SUFFICES ASSUME i < n PROVE FALSE
      BY <1>1
    <3>1. i \in 1 .. n - 1 /\ i \in 1 .. M
      BY <1>1, <2>5
    <3>2. t[i] = t[n] /\ Before(t[i], t[n])
      BY <1>2, <2>1, <2>5, <2>6, <3>1
    <3>3. QED
      BY <2>5, <3>2 DEF Ranked
  <2>8. i = n
    <3> SUFFICES ASSUME i > n PROVE FALSE
      BY <1>1, <2>7
    <3>1. Before(t[j], t[n])
      BY <1>2, <2>3, <2>6
    <3>2. j = n \/ Before(t[n], t[j])
      BY <1>1, <1>2, <2>4, <2>5
    <3>3. QED
      BY <2>2, <2>3, <2>5, <3>1, <3>2 DEF Ranked
  <2>9. \A k \in 1 .. n : k = n \/ k \in 1 .. n - 1
    BY <1>1
  <2>10. \A k \in 1 .. n : s[k] = t[k]
    BY <2>1, <2>6, <2>8, <2>9
  <2>11. QED
    BY <1>1, <2>5, <2>10
<1>5. L \in T
  <2> HIDE DEF T
  <2>1. \A n \in 0 .. L : n \in T
    BY <1>1, <1>3, <1>4, BoundedInduction
  <2>2. QED
    BY <1>1, <2>1
<1>6. QED
  BY <1>5 DEF L, M

LEMMA OneOrder ==
  ASSUME NEW S, Ranked(S), NEW s, NEW t, ListsInOrder(s, S), ListsInOrder(t, S)
  PROVE  s = t
<1>1. Len(s) <= Len(t) /\ \A k \in 1 .. Len(s) : s[k] = t[k]
  BY SamePrefix
<1>2. Len(t) <= Len(s)
  BY SamePrefix
<1>3. s \in Seq(S) /\ t \in Seq(S)
  BY DEF ListsInOrder
<1>4. Len(s) = Len(t)
  BY <1>1, <1>2, <1>3
<1>5. QED
  BY <1>1, <1>3, <1>4

(* The processors of a list that come before another one, and the list     *)
(* with that one put in after n others.                                    *)
Earlier(s, p) == {k \in 1 .. Len(s) : Before(s[k], p)}

PutAfter(s, p, n, t) ==
  /\ Len(t) = Len(s) + 1
  /\ \A k \in 1 .. Len(s) + 1 :
       t[k] = IF k <= n THEN s[k] ELSE IF k = n + 1 THEN p ELSE s[k - 1]

LEMMA InsertedIs ==
  ASSUME NEW S, NEW s \in Seq(S), NEW p \in S
  PROVE  /\ Cardinality(Earlier(s, p)) \in 0 .. Len(s)
         /\ Inserted(s, p) \in Seq(S)
         /\ PutAfter(s, p, Cardinality(Earlier(s, p)), Inserted(s, p))
<1> DEFINE L == Len(s)
           K == {k \in 1 .. L : Before(s[k], p)}
           n == Cardinality(K)
           a == SubSeq(s, 1, n)
           b == <<p>>
           c == SubSeq(s, n + 1, L)
           ab == a \o b
<1>1. L \in Nat /\ DOMAIN s = 1 .. L /\ \A k \in 1 .. L : s[k] \in S
  OBVIOUS
<1>2. Inserted(s, p) = ab \o c
  BY <1>1 DEF Inserted
<1> HIDE DEF L
<1>3. n \in Nat /\ n <= L
  <2>1. K \in SUBSET (1 .. L)
    OBVIOUS
  <2> HIDE DEF K
  <2>2. IsFiniteSet(1 .. L) /\ Cardinality(1 .. L) = L
    BY <1>1, UpTo
  <2>4. IsFiniteSet(K) /\ Cardinality(K) <= Cardinality(1 .. L)
    BY <2>1, <2>2, FS_Subset
  <2>5. Cardinality(K) \in Nat
    BY <2>4, FS_CardinalityType
  <2>6. QED
    BY <2>2, <2>4, <2>5
<1> HIDE DEF n
<1>4. a \in Seq(S) /\ Len(a) = n /\ \A k \in 1 .. n : a[k] = s[k]
  <2>1. \A k \in 1 .. n : s[k] \in S
    BY <1>1, <1>3
  <2>2. /\ a \in Seq(S) /\ Len(a) = IF 1 <= n THEN n - 1 + 1 ELSE 0
        /\ \A k \in 1 .. n - 1 + 1 : a[k] = s[1 + k - 1]
    BY <1>3, <2>1, SubSeqProperties
  <2>3. n - 1 + 1 = n /\ \A k \in 1 .. n : 1 + k - 1 = k
    BY <1>3
  <2>4. QED
    BY <1>3, <2>2, <2>3
<1>5. c \in Seq(S) /\ Len(c) = L - n /\ \A k \in 1 .. L - n : c[k] = s[n + k]
  <2>1. \A k \in n + 1 .. L : s[k] \in S
    BY <1>1, <1>3
  <2>2. /\ c \in Seq(S) /\ Len(c) = IF n + 1 <= L THEN L - (n + 1) + 1 ELSE 0
        /\ \A k \in 1 .. L - (n + 1) + 1 : c[k] = s[n + 1 + k - 1]
    BY <1>1, <1>3, <2>1, SubSeqProperties
  <2>3. L - (n + 1) + 1 = L - n /\ \A k \in 1 .. L - n : n + 1 + k - 1 = n + k
    BY <1>1, <1>3
  <2>4. QED
    BY <1>1, <1>3, <2>2, <2>3
<1>6. b \in Seq(S) /\ Len(b) = 1 /\ b[1] = p
  BY OnlyOne
<1> HIDE DEF a, b, c
<1>7. ab \in Seq(S) /\ Len(ab) = n + 1
      /\ \A k \in 1 .. n + 1 : ab[k] = IF k <= n THEN a[k] ELSE b[k - n]
  <2>0. a \in Seq(S) /\ b \in Seq(S) /\ Len(a) = n
    BY <1>4, <1>6
  <2>1. /\ a \o b \in Seq(S) /\ Len(a \o b) = n + Len(b)
        /\ \A k \in 1 .. n + Len(b) : (a \o b)[k] = IF k <= n THEN a[k] ELSE b[k - n]
    BY <2>0, Joined
  <2>2. n + Len(b) = n + 1
    BY <1>6
  <2>3. QED
    BY <2>1, <2>2
<1> HIDE DEF ab
<1>8. /\ ab \o c \in Seq(S) /\ Len(ab \o c) = n + 1 + (L - n)
      /\ \A k \in 1 .. n + 1 + (L - n) :
           (ab \o c)[k] = IF k <= n + 1 THEN ab[k] ELSE c[k - (n + 1)]
  BY <1>5, <1>7, Joined
<1>9. n + 1 + (L - n) = L + 1
  BY <1>1, <1>3
<1>10. ASSUME NEW k \in 1 .. L + 1
       PROVE  (ab \o c)[k] = IF k <= n THEN s[k] ELSE IF k = n + 1 THEN p ELSE s[k - 1]
  <2>1. CASE k <= n
    <3>1. k \in 1 .. n /\ k \in 1 .. n + 1 /\ k <= n + 1
      BY <1>3, <2>1
    <3>2. QED
      BY <1>4, <1>7, <1>8, <1>9, <2>1, <3>1
  <2>2. CASE k = n + 1
    <3>1. k \in 1 .. n + 1 /\ ~(k <= n) /\ k - n = 1 /\ k <= n + 1
      BY <1>3, <2>2
    <3>2. QED
      BY <1>6, <1>7, <1>8, <1>9, <2>2, <3>1
  <2>3. CASE k > n + 1
    <3>1. ~(k <= n + 1) /\ ~(k <= n) /\ k # n + 1 /\ k - (n + 1) \in 1 .. L - n
          /\ n + (k - (n + 1)) = k - 1
      BY <1>1, <1>3, <2>3
    <3>2. QED
      BY <1>5, <1>8, <1>9, <3>1
  <2>4. k <= n \/ k = n + 1 \/ k > n + 1
    BY <1>1, <1>3
  <2> HIDE DEF ab
  <2>5. QED
    BY <2>1, <2>2, <2>3, <2>4
<1>11. n \in 0 .. L
  BY <1>1, <1>3
<1>12. QED
  <2>1. Cardinality(Earlier(s, p)) = n
    BY DEF Earlier, n, L
  <2> HIDE DEF K
  <2>2. PutAfter(s, p, n, ab \o c)
    BY <1>8, <1>9, <1>10 DEF PutAfter, L
  <2>3. QED
    BY <1>2, <1>8, <1>11, <2>1, <2>2 DEF L

LEMMA InsertedInOrder ==
  ASSUME NEW S, NEW s, ListsInOrder(s, S), NEW p, p \notin S, Ranked(S \cup {p})
  PROVE  ListsInOrder(Inserted(s, p), S \cup {p})
<1> DEFINE T == S \cup {p}
           L == Len(s)
           K == Earlier(s, p)
           n == Cardinality(K)
           t == Inserted(s, p)
<1>1. /\ L \in Nat /\ s \in Seq(S) /\ \A k \in 1 .. L : s[k] \in S /\ s[k] \in T
      /\ \A q \in S : \E k \in 1 .. L : s[k] = q
      /\ \A j, k \in 1 .. L : j < k => Before(s[j], s[k])
  BY DEF ListsInOrder
<1>2. s \in Seq(T) /\ p \in T
  BY <1>1
<1>3. /\ n \in 0 .. L /\ t \in Seq(T) /\ Len(t) = L + 1
      /\ \A k \in 1 .. L + 1 : t[k] = IF k <= n THEN s[k] ELSE IF k = n + 1 THEN p ELSE s[k - 1]
  <2>1. n \in 0 .. L /\ t \in Seq(T) /\ PutAfter(s, p, n, t)
    <3> HIDE DEF T
    <3>1. QED
      BY <1>2, InsertedIs
  <2> HIDE DEF n, t
  <2>2. QED
    BY <2>1 DEF PutAfter
<1>10. K = {k \in 1 .. L : Before(s[k], p)}
  BY DEF Earlier
<1>11. n = Cardinality(K)
  OBVIOUS
<1>12. n \in 0 .. L
  BY <1>3
<1> HIDE DEF L, t, n, K
<1>4. \A k \in 1 .. L : k <= n <=> Before(s[k], p)
  <2>1. ASSUME NEW k \in K, NEW j \in 1 .. k PROVE j \in K
    <3>1. j \in 1 .. L /\ k \in 1 .. L /\ (j = k \/ j < k) /\ Before(s[k], p)
      BY <1>1, <1>10
    <3>2. CASE j < k
      <4>1. Before(s[j], s[k])
        BY <1>1, <3>1, <3>2
      <4>2. Before(s[j], p)
        BY <1>1, <1>2, <3>1, <4>1 DEF Ranked
      <4>3. QED
        BY <1>10, <3>1, <4>2
    <3>3. QED
      BY <3>1, <3>2
  <2>2. K \in SUBSET (1 .. L)
    BY <1>10
  <2>3. K = 1 .. Cardinality(K)
    BY <1>1, <2>1, <2>2, InitialPart
  <2>4. K = 1 .. n
    BY <1>11, <2>3
  <2>5. ASSUME NEW k \in 1 .. L PROVE k <= n <=> Before(s[k], p)
    <3>1. k \in K <=> Before(s[k], p)
      BY <1>10
    <3>2. k \in 1 .. n <=> k <= n
      BY <1>1, <1>3
    <3>3. QED
      BY <2>4, <3>1, <3>2
  <2>6. QED
    BY <2>5
<1>5. /\ \A k \in 1 .. L : k <= n => t[k] = s[k]
      /\ t[n + 1] = p
      /\ \A k \in 1 .. L : k > n => t[k + 1] = s[k]
  <2>1. ASSUME NEW k \in 1 .. L, k <= n PROVE t[k] = s[k]
    <3>1. k \in 1 .. L + 1
      BY <1>1
    <3>2. QED
      BY <1>3, <2>1, <3>1
  <2>2. t[n + 1] = p
    BY <1>1, <1>3, <1>12
  <2>3. ASSUME NEW k \in 1 .. L, k > n PROVE t[k + 1] = s[k]
    <3>1. k + 1 \in 1 .. L + 1 /\ ~(k + 1 <= n) /\ k + 1 # n + 1 /\ k + 1 - 1 = k
      BY <1>1, <1>12, <2>3
    <3>2. QED
      BY <1>3, <3>1
  <2>4. QED
    BY <2>1, <2>2, <2>3
<1>6. ASSUME NEW q \in T PROVE \E k \in 1 .. L + 1 : t[k] = q
  <2>1. CASE q = p
    <3>1. n + 1 \in 1 .. L + 1
      BY <1>1, <1>12
    <3>2. QED
      BY <1>5, <2>1, <3>1
  <2>2. CASE q \in S
    <3>1. PICK k \in 1 .. L : s[k] = q
      BY <1>1, <1>12, <2>2
    <3>2. k \in 1 .. L + 1 /\ k + 1 \in 1 .. L + 1 /\ (k <= n \/ k > n)
      BY <1>1, <1>12
    <3>3. QED
      BY <1>5, <3>1, <3>2
  <2>3. QED
    BY <2>1, <2>2
<1>7. ASSUME NEW j \in 1 .. L + 1, NEW k \in 1 .. L + 1, j < k PROVE Before(t[j], t[k])
  <2>1. CASE k <= n
    <3>1. j \in 1 .. L /\ k \in 1 .. L /\ j <= n
      BY <1>1, <1>12, <1>7, <2>1
    <3>2. QED
      BY <1>1, <1>12, <1>5, <1>7, <2>1, <3>1
  <2>2. CASE k = n + 1
    <3>1. j \in 1 .. L /\ j <= n
      BY <1>1, <1>12, <1>7, <2>2
    <3>2. t[j] = s[j] /\ t[k] = p /\ Before(s[j], p)
      BY <1>4, <1>5, <2>2, <3>1
    <3>3. QED
      BY <3>2
  <2>3. CASE k > n + 1
    <3>1. PICK i \in 1 .. L : k = i + 1 /\ i > n /\ t[k] = s[i]
      <4>1. k - 1 \in 1 .. L /\ k = k - 1 + 1 /\ k - 1 > n
        BY <1>1, <1>12, <2>3
      <4>2. QED
        BY <1>5, <4>1
    <3>2. CASE j <= n
      <4>1. j \in 1 .. L /\ j < i
        BY <1>1, <1>12, <3>1, <3>2
      <4>2. QED
        BY <1>1, <1>12, <1>5, <3>1, <3>2, <4>1
    <3>3. CASE j = n + 1
      <4>1. ~Before(s[i], p) /\ s[i] \in S
        BY <1>1, <1>12, <1>4, <3>1
      <4>2. s[i] # p
        BY <4>1
      <4>3. Before(p, s[i])
        BY <1>2, <4>1, <4>2 DEF Ranked
      <4>4. QED
        BY <1>5, <3>1, <3>3, <4>3
    <3>4. CASE j > n + 1
      <4>1. PICK h \in 1 .. L : j = h + 1 /\ h > n /\ t[j] = s[h]
        <5>1. j - 1 \in 1 .. L /\ j = j - 1 + 1 /\ j - 1 > n
          BY <1>1, <1>12, <3>4
        <5>2. QED
          BY <1>5, <5>1
      <4>2. h < i
        BY <1>7, <3>1, <4>1
      <4>3. QED
        BY <1>1, <1>12, <3>1, <4>1, <4>2
    <3>5. QED
      BY <1>12, <3>2, <3>3, <3>4
  <2>4. QED
    BY <1>12, <2>1, <2>2, <2>3
<1>8. QED
  BY <1>3, <1>6, <1>7 DEF ListsInOrder, t

-----------------------------------------------------------------------------
(* What enabled_simulation_processors_in_order makes of a registry.        *)

(* The processors whose gates are open, all of them or up to a place.      *)
Evaluated(reg) == {reg.processors[k] : k \in OpenPlaces(reg)}

OpenUpTo(reg, n) == {reg.processors[k] : k \in OpenPlaces(reg) \cap (1 .. n)}

LEMMA OrderIsListed ==
  ASSUME NEW reg, BuiltRegistry(reg)
  PROVE  ListsInOrder(EnabledInOrder(reg), Evaluated(reg))
<1> DEFINE ps == reg.processors
           N == Len(ps)
           P == Processors(DOMAIN reg.features, DOMAIN reg.dependencies)
           E == {ps[k] : k \in DOMAIN ps}
           Next1(s, n) == IF GatesOpen(reg, ps[n]) THEN Inserted(s, ps[n]) ELSE s
           Eq(f) == f = [n \in 0 .. N |-> IF n = 0 THEN << >> ELSE Next1(f[n - 1], n)]
           sorted == CHOOSE f : Eq(f)
           round == [n \in 1 .. N |-> [s \in Seq(E) |-> Next1(s, n)]]
<1>1. N \in Nat /\ DOMAIN ps = 1 .. N /\ \A n \in 1 .. N : ps[n] \in E /\ ps[n] \in P
  BY DEF BuiltRegistry
<1>2. \A j, k \in 1 .. N : ps[j].id = ps[k].id => j = k
  BY <1>1 DEF BuiltRegistry
<1>3. EnabledInOrder(reg) = sorted[N]
  BY Zenon DEF EnabledInOrder
<1>4. Ranked(E)
  <2>1. E \in SUBSET P
    BY <1>1
  <2>2. \A p, q \in E : p.id = q.id => p = q
    BY <1>1, <1>2
  <2> HIDE DEF E, ps
  <2>3. QED
    BY <2>1, <2>2, RankedByOrder
<1> HIDE DEF N, ps, P
<1>5. ASSUME NEW n \in 1 .. N, NEW s \in Seq(E) PROVE Next1(s, n) \in Seq(E)
  <2>1. ps[n] \in E
    BY <1>1
  <2> HIDE DEF E
  <2>2. Inserted(s, ps[n]) \in Seq(E)
    BY <2>1, InsertedIs
  <2>3. QED
    BY <2>2
<1>6. Eq(sorted)
  <2>1. round \in [1 .. N -> [Seq(E) -> Seq(E)]]
    BY <1>5
  <2>2. << >> \in Seq(E)
    OBVIOUS
  <2>3. PICK f \in [0 .. N -> Seq(E)] : IsLoop(f, N, << >>, round)
    <3> HIDE DEF round, E
    <3>1. QED
      BY <1>1, <2>1, <2>2, LoopExists
  <2>4. ASSUME NEW n \in 0 .. N, n # 0 PROVE round[n][f[n - 1]] = Next1(f[n - 1], n)
    <3>1. n \in 1 .. N /\ f[n - 1] \in Seq(E)
      BY <1>1, <2>4
    <3> HIDE DEF Next1
    <3>2. QED
      BY <3>1
  <2> HIDE DEF round, Next1
  <2>5. Eq(f)
    BY <2>3, <2>4 DEF IsLoop
  <2> HIDE DEF Eq
  <2>6. QED
    BY <2>5, Zenon
<1> HIDE DEF sorted
<1>7. /\ sorted[0] = << >>
      /\ \A n \in 1 .. N : sorted[n] = Next1(sorted[n - 1], n)
  <2> HIDE DEF Next1
  <2>1. \A n \in 0 .. N : sorted[n] = IF n = 0 THEN << >> ELSE Next1(sorted[n - 1], n)
    BY <1>6
  <2>2. 0 \in 0 .. N /\ \A n \in 1 .. N : n \in 0 .. N /\ n # 0
    BY <1>1
  <2>3. QED
    BY <2>1, <2>2
<1> HIDE DEF E, Eq, round
<1> DEFINE T == {n \in 0 .. N : ListsInOrder(sorted[n], OpenUpTo(reg, n))}
<1>8. 0 \in T
  <2>1. OpenUpTo(reg, 0) = {}
    BY DEF OpenUpTo
  <2>2. << >> \in Seq({}) /\ Len(<< >>) = 0
    OBVIOUS
  <2>3. ListsInOrder(<< >>, {})
    BY <2>2 DEF ListsInOrder
  <2>4. ListsInOrder(sorted[0], OpenUpTo(reg, 0))
    BY <1>7, <2>1, <2>3
  <2>5. QED
    BY <1>1, <2>4
<1>9. ASSUME NEW n \in 1 .. N, n - 1 \in T PROVE n \in T
  <2> DEFINE before == OpenUpTo(reg, n - 1)
             now == OpenUpTo(reg, n)
             s == sorted[n - 1]
  <2>1. ListsInOrder(s, before)
    BY <1>9
  <2>2. OpenPlaces(reg) = {k \in 1 .. N : GatesOpen(reg, ps[k])}
    BY <1>1 DEF OpenPlaces, ps
  <2>3. sorted[n] = Next1(s, n)
    BY <1>7
  <2>4. CASE GatesOpen(reg, ps[n])
    <3>1. now = before \cup {ps[n]}
      <4>1. OpenPlaces(reg) \cap (1 .. n) = (OpenPlaces(reg) \cap (1 .. n - 1)) \cup {n}
        BY <1>1, <2>2, <2>4
      <4>2. QED
        BY <4>1 DEF OpenUpTo, ps
    <3>2. ps[n] \notin before
      <4> SUFFICES ASSUME ps[n] \in before PROVE FALSE
        OBVIOUS
      <4>1. PICK k \in OpenPlaces(reg) \cap (1 .. n - 1) : ps[n] = ps[k]
        BY DEF OpenUpTo, ps
      <4>2. k \in 1 .. N /\ k # n
        <5>1. k \in 1 .. n - 1
          BY <4>1
        <5>2. QED
          BY <1>1, <5>1
      <4>3. QED
        BY <1>2, <4>1, <4>2
    <3>3. Ranked(before \cup {ps[n]})
      <4>1. before \cup {ps[n]} \in SUBSET E
        BY <1>1, <2>2 DEF OpenUpTo, ps
      <4> HIDE DEF E, before
      <4>2. QED
        BY <1>4, <4>1 DEF Ranked
    <3>4. sorted[n] = Inserted(s, ps[n])
      BY <2>3, <2>4
    <3> HIDE DEF before, now, s
    <3>5. ListsInOrder(Inserted(s, ps[n]), before \cup {ps[n]})
      BY <2>1, <3>2, <3>3, InsertedInOrder
    <3>6. ListsInOrder(sorted[n], now)
      BY <3>1, <3>4, <3>5
    <3>7. QED
      BY <1>1, <3>6 DEF now
  <2>5. CASE ~GatesOpen(reg, ps[n])
    <3>1. OpenPlaces(reg) \cap (1 .. n) = OpenPlaces(reg) \cap (1 .. n - 1)
      BY <1>1, <2>2, <2>5
    <3>2. now = before
      BY <3>1 DEF OpenUpTo
    <3>3. sorted[n] = s
      BY <2>3, <2>5
    <3> HIDE DEF before, s
    <3>4. QED
      BY <1>1, <2>1, <3>2, <3>3
  <2>6. QED
    BY <2>4, <2>5
<1> HIDE DEF T
<1>10. N \in T
  <2>1. \A n \in 0 .. N : n \in T
    BY <1>1, <1>8, <1>9, BoundedInduction
  <2>2. QED
    BY <1>1, <2>1
<1>11. OpenUpTo(reg, N) = Evaluated(reg)
  <2>1. OpenPlaces(reg) \cap (1 .. N) = OpenPlaces(reg)
    BY <1>1 DEF OpenPlaces, ps
  <2>2. QED
    BY <2>1 DEF OpenUpTo, Evaluated
<1>12. ListsInOrder(sorted[N], OpenUpTo(reg, N))
  BY <1>10 DEF T
<1>13. QED
  BY <1>3, <1>11, <1>12 DEF ps

(* Two neighbours exchanged leave the same processors with open gates.     *)
LEMMA SameOpen ==
  ASSUME NEW reg, BuiltRegistry(reg), NEW i \in DOMAIN reg.processors, NEW j \in DOMAIN reg.processors,
         NEW other, other = [reg EXCEPT !.processors = Exchanged(@, i, j)]
  PROVE  /\ BuiltRegistry(other)
         /\ Evaluated(other) = Evaluated(reg)
<1> DEFINE ps == reg.processors
           qs == other.processors
           P == Processors(DOMAIN reg.features, DOMAIN reg.dependencies)
           swap == [k \in DOMAIN ps |-> IF k = i THEN j ELSE IF k = j THEN i ELSE k]
<1>1. /\ DOMAIN reg = {"features", "dependencies", "processors"} /\ ps \in Seq(P)
      /\ \A k \in DOMAIN ps : ps[k].agnostic
      /\ \A k, l \in DOMAIN ps : ps[k].id = ps[l].id => k = l
  BY DEF BuiltRegistry
<1>2. /\ qs = Exchanged(ps, i, j) /\ DOMAIN other = DOMAIN reg
      /\ other.features = reg.features /\ other.dependencies = reg.dependencies
  BY <1>1
<1>3. DOMAIN qs = DOMAIN ps /\ \A k \in DOMAIN ps : swap[k] \in DOMAIN ps /\ qs[k] = ps[swap[k]]
  BY <1>2 DEF Exchanged
<1>4. \A k \in DOMAIN ps : swap[swap[k]] = k
  OBVIOUS
<1>5. qs \in Seq(P)
  <2>1. PICK n \in Nat : DOMAIN ps = 1 .. n /\ \A k \in 1 .. n : ps[k] \in P
    BY <1>1
  <2> HIDE DEF ps, P, swap
  <2>2. qs \in [1 .. n -> P]
    <3>1. \A k \in 1 .. n : qs[k] \in P
      BY <1>3, <2>1
    <3>2. qs = [k \in 1 .. n |-> qs[k]]
      BY <1>2, <2>1 DEF Exchanged
    <3>3. QED
      BY <3>1, <3>2
  <2>3. QED
    BY <2>2
<1> HIDE DEF ps, qs, swap, P
<1>6. \A k \in DOMAIN qs : qs[k].agnostic
  BY <1>1, <1>3
<1>7. ASSUME NEW k \in DOMAIN qs, NEW l \in DOMAIN qs, qs[k].id = qs[l].id PROVE k = l
  <2>1. /\ k \in DOMAIN ps /\ l \in DOMAIN ps
        /\ swap[k] \in DOMAIN ps /\ swap[l] \in DOMAIN ps
        /\ ps[swap[k]].id = ps[swap[l]].id
    BY <1>3, <1>7
  <2>2. swap[k] = swap[l]
    BY <1>1, <2>1
  <2>3. swap[swap[k]] = swap[swap[l]]
    BY <2>2
  <2>4. QED
    BY <1>4, <2>1, <2>3
<1>8. BuiltRegistry(other)
  BY <1>1, <1>2, <1>5, <1>6, <1>7 DEF BuiltRegistry, P, qs
<1>9. \A p : GatesOpen(other, p) <=> GatesOpen(reg, p)
  BY <1>2 DEF GatesOpen
<1>10. \A k \in DOMAIN ps : k \in OpenPlaces(other) <=> swap[k] \in OpenPlaces(reg)
  BY <1>3, <1>9 DEF OpenPlaces, ps, qs
<1>11. OpenPlaces(reg) \subseteq DOMAIN ps /\ OpenPlaces(other) \subseteq DOMAIN ps
  BY <1>3 DEF OpenPlaces, ps, qs
<1>12. \A k \in OpenPlaces(other) : swap[k] \in OpenPlaces(reg) /\ qs[k] = ps[swap[k]]
  BY <1>3, <1>10, <1>11
<1>13. \A k \in OpenPlaces(reg) : swap[k] \in OpenPlaces(other) /\ qs[swap[k]] = ps[k]
  BY <1>3, <1>4, <1>10, <1>11
<1>14. {qs[k] : k \in OpenPlaces(other)} = {ps[k] : k \in OpenPlaces(reg)}
  BY <1>12, <1>13
<1>15. QED
  BY <1>8, <1>14 DEF Evaluated, ps, qs

LEMMA OrderStep == BuiltRegistry(registry) => OrderIsDeterministic
<1> SUFFICES ASSUME BuiltRegistry(registry) PROVE OrderIsDeterministic
  OBVIOUS
<1> DEFINE ps == registry.processors
           S == Evaluated(registry)
           P == Processors(DOMAIN registry.features, DOMAIN registry.dependencies)
<1>1. /\ ps \in Seq(P) /\ \A k \in DOMAIN ps : ps[k].agnostic
      /\ \A k, l \in DOMAIN ps : ps[k].id = ps[l].id => k = l
  BY DEF BuiltRegistry
<1>2. \A k \in DOMAIN ps : ps[k] \in P
  BY <1>1
<1>3. NotReady(registry) = {}
  BY <1>1, <1>2 DEF NotReady, Processors
<1>4. Ranked(S)
  <2>1. S \in SUBSET P
    BY <1>2 DEF Evaluated, OpenPlaces
  <2>2. \A p, q \in S : p.id = q.id => p = q
    BY <1>1 DEF Evaluated, OpenPlaces
  <2> HIDE DEF S
  <2>3. QED
    BY <2>1, <2>2, RankedByOrder
<1>5. ASSUME NEW i \in DOMAIN ps, NEW j \in DOMAIN ps
      PROVE  EnabledInOrder([registry EXCEPT !.processors = Exchanged(@, i, j)])
               = EnabledInOrder(registry)
  <2>1. PICK other : other = [registry EXCEPT !.processors = Exchanged(@, i, j)]
    OBVIOUS
  <2>2. BuiltRegistry(other) /\ Evaluated(other) = S
    BY <2>1, SameOpen
  <2>3. ListsInOrder(EnabledInOrder(other), S)
    BY <2>2, OrderIsListed
  <2>4. ListsInOrder(EnabledInOrder(registry), S)
    BY OrderIsListed
  <2> HIDE DEF S
  <2>5. EnabledInOrder(other) = EnabledInOrder(registry)
    BY <1>4, <2>3, <2>4, OneOrder
  <2>6. QED
    BY <2>1, <2>5
<1>6. QED
  BY <1>3, <1>5 DEF OrderIsDeterministic

LEMMA BuiltStep ==
  BuiltRegistry(registry) /\ [OrchestrationNext]_orchestrationVars => BuiltRegistry(registry)'
<1> SUFFICES ASSUME BuiltRegistry(registry), [OrchestrationNext]_orchestrationVars
             PROVE  BuiltRegistry(registry')
  OBVIOUS
<1>1. CASE registry' = registry
  BY <1>1
<1>2. CASE RegistryCall
  BY <1>2, RegistryStaysBuilt
<1>3. QED
  BY <1>1, <1>2 DEF OrchestrationNext, Orchestrate, HostCall, orchestrationVars

(* The list has one entry for each processor whose gates are open, so that *)
(* a call offers one event for each entry.                                 *)
LEMMA EachEvaluatedOnce ==
  ASSUME NEW reg, BuiltRegistry(reg)
  PROVE  Len(EnabledInOrder(reg)) = Cardinality(OpenPlaces(reg))
<1> DEFINE ps == reg.processors
           order == EnabledInOrder(reg)
           N == Len(order)
           P == Processors(DOMAIN reg.features, DOMAIN reg.dependencies)
           f == [k \in OpenPlaces(reg) |-> CHOOSE n \in 1 .. N : order[n] = ps[k]]
<1>1. ps \in Seq(P) /\ \A k, l \in DOMAIN ps : ps[k].id = ps[l].id => k = l
  BY DEF BuiltRegistry
<1>2. OpenPlaces(reg) \subseteq DOMAIN ps /\ \A k \in DOMAIN ps : ps[k] \in P
  BY <1>1 DEF OpenPlaces
<1>3. PICK m \in Nat : DOMAIN ps = 1 .. m
  BY <1>1
<1>4. IsFiniteSet(OpenPlaces(reg))
  <2>1. IsFiniteSet(1 .. m)
    BY UpTo
  <2>2. OpenPlaces(reg) \in SUBSET (1 .. m)
    BY <1>2, <1>3
  <2>3. QED
    BY <2>1, <2>2, FS_Subset
<1>5. ListsInOrder(order, Evaluated(reg))
  BY OrderIsListed
<1>6. Ranked(Evaluated(reg))
  <2>1. Evaluated(reg) \in SUBSET P
    BY <1>2 DEF Evaluated
  <2>2. \A p, q \in Evaluated(reg) : p.id = q.id => p = q
    BY <1>1, <1>2 DEF Evaluated
  <2>3. QED
    BY <2>1, <2>2, RankedByOrder
<1> HIDE DEF order
<1>7. /\ N \in Nat /\ \A n \in 1 .. N : order[n] \in Evaluated(reg)
      /\ \A p \in Evaluated(reg) : \E n \in 1 .. N : order[n] = p
      /\ \A j, k \in 1 .. N : j < k => Before(order[j], order[k])
  BY <1>5 DEF ListsInOrder
<1> HIDE DEF N, P
<1>8. ASSUME NEW k \in OpenPlaces(reg) PROVE f[k] \in 1 .. N /\ order[f[k]] = ps[k]
  <2>1. ps[k] \in Evaluated(reg)
    BY DEF Evaluated
  <2>2. \E n \in 1 .. N : order[n] = ps[k]
    BY <1>7, <2>1
  <2>3. QED
    BY <2>2
<1>9. f \in [OpenPlaces(reg) -> 1 .. N]
  BY <1>8
<1> HIDE DEF f
<1>10. ASSUME NEW k \in OpenPlaces(reg), NEW l \in OpenPlaces(reg), f[k] = f[l] PROVE k = l
  <2>1. ps[k] = ps[l]
    BY <1>8, <1>10
  <2>2. QED
    BY <1>1, <1>2, <2>1
<1>11. ASSUME NEW n \in 1 .. N PROVE \E k \in OpenPlaces(reg) : f[k] = n
  <2>1. order[n] \in Evaluated(reg)
    BY <1>7
  <2>2. PICK k \in OpenPlaces(reg) : ps[k] = order[n]
    BY <2>1 DEF Evaluated
  <2>3. f[k] \in 1 .. N /\ order[f[k]] = order[n]
    BY <1>8, <2>2
  <2>4. ~Before(order[n], order[n])
    BY <1>6, <2>1 DEF Ranked
  <2>5. f[k] = n \/ f[k] < n \/ n < f[k]
    BY <1>7, <2>3
  <2>6. f[k] = n
    BY <1>7, <2>3, <2>4, <2>5
  <2>7. QED
    BY <2>6
<1>12. Cardinality(1 .. N) = Cardinality(OpenPlaces(reg))
  BY <1>4, <1>9, <1>10, <1>11, SameSize
<1>13. Cardinality(1 .. N) = N
  BY <1>7, UpTo
<1>14. QED
  BY <1>12, <1>13 DEF N, order

(* However a registry is built and toggled between the runs, nothing in it *)
(* fails the readiness report, and enabled_simulation_processors_in_order  *)
(* lists the same processors in the same order when two of them were       *)
(* registered the other way round, each of them once.                      *)
THEOREM OrderStaysDeterministic ==
  OrchestrationSpec =>
    [](OrderIsDeterministic /\ Len(EnabledInOrder(registry)) = Cardinality(OpenPlaces(registry)))
<1>1. OrchestrationInit => BuiltRegistry(registry)
  BY OrchestrationAssumption DEF OrchestrationInit
<1>2. BuiltRegistry(registry) =>
        OrderIsDeterministic /\ Len(EnabledInOrder(registry)) = Cardinality(OpenPlaces(registry))
  BY OrderStep, EachEvaluatedOnce
<1>3. QED
  BY <1>1, <1>2, BuiltStep, PTL DEF OrchestrationSpec

-----------------------------------------------------------------------------
(* The events of a call.                                                   *)

Events ==
  {ProcessorEvent("processor.evaluated", ""), ProcessorEvent("runtime.diagnostics", "")}
    \cup {ProcessorEvent("runtime.caravan_arrived", id) : id \in CaravanId}

IsArrivalOf(event, id) == event.type = "runtime.caravan_arrived" /\ event.about = id

LEMMA OnlyArrivalsAnnounce ==
  \A id : /\ ~IsArrivalOf(ProcessorEvent("processor.evaluated", ""), id)
          /\ ~IsArrivalOf(ProcessorEvent("runtime.diagnostics", ""), id)
          /\ \A c : IsArrivalOf(ProcessorEvent("runtime.caravan_arrived", c), id) <=> c = id
BY DEF IsArrivalOf, ProcessorEvent

(* Offered events are some that announce nothing, and then each arrival    *)
(* once: that of p at the position pos gives it.                           *)
OffersArrivals(offered, after, pos) ==
  /\ \A p \in after.arrived : pos[p] \in 1 .. Len(offered)
  /\ \A p \in after.arrived : IsArrivalOf(offered[pos[p]], after.fleet[p].id)
  /\ \A p, q \in after.arrived : pos[p] = pos[q] => p = q
  /\ \A k \in 1 .. Len(offered), id \in CaravanId :
       IsArrivalOf(offered[k], id) => \E p \in after.arrived : pos[p] = k

LEMMA OfferedArrivals ==
  ASSUME NEW reg, NEW m \in Nat, DOMAIN reg.processors = 1 .. m,
         NEW after, NEW n \in Nat, after.fleet \in [1 .. n -> Caravans],
         after.arrived \in SUBSET (1 .. n)
  PROVE  /\ Offered(reg, after) \in Seq(Events)
         /\ \E pos \in [after.arrived -> Nat] : OffersArrivals(Offered(reg, after), after, pos)
<1> DEFINE c == Cardinality(OpenPlaces(reg))
           x == ProcessorEvent("processor.evaluated", "")
           y == ProcessorEvent("runtime.diagnostics", "")
           evaluated == [k \in 1 .. c |-> x]
           first == evaluated \o <<y>>
           e == [p \in 1 .. n |-> ProcessorEvent("runtime.caravan_arrived", after.fleet[p].id)]
           A == after.arrived
           flat == FlattenSeq([p \in 1 .. n |-> IF p \in A THEN <<e[p]>> ELSE << >>])
           b == c + 1
<1>1. c \in Nat /\ b \in Nat /\ b = c + 1
  <2>1. IsFiniteSet(1 .. m)
    BY UpTo
  <2>2. OpenPlaces(reg) \in SUBSET (1 .. m)
    BY DEF OpenPlaces
  <2>3. Cardinality(OpenPlaces(reg)) \in Nat
    BY <2>1, <2>2, FS_Subset, FS_CardinalityType
  <2>4. QED
    BY <2>3
<1>2. e \in [1 .. n -> Events]
  <2>1. \A p \in 1 .. n : after.fleet[p].id \in CaravanId
    BY DEF Caravans
  <2>2. QED
    BY <2>1 DEF Events
<1>3. Offered(reg, after) = first \o flat
  <2>1. DOMAIN after.fleet = 1 .. n
    OBVIOUS
  <2>2. [p \in DOMAIN after.fleet |->
           IF p \in after.arrived
           THEN <<ProcessorEvent("runtime.caravan_arrived", after.fleet[p].id)>> ELSE << >>]
         = [p \in 1 .. n |-> IF p \in A THEN <<e[p]>> ELSE << >>]
    BY <2>1
  <2> HIDE DEF e
  <2>3. QED
    BY <2>2 DEF Offered
<1> HIDE DEF e, c, b
<1>4. x \in Events /\ y \in Events /\ \A id : ~IsArrivalOf(x, id) /\ ~IsArrivalOf(y, id)
  BY OnlyArrivalsAnnounce DEF Events
<1> HIDE DEF x, y
<1>5. PICK pos : Laid(flat, e, A, pos)
  BY <1>2, FlattenLays
<1>6. flat \in Seq(Events)
  BY <1>2, FlattenLays
<1> DEFINE offered == first \o flat
<1>7. /\ first \in Seq(Events) /\ Len(first) = b
      /\ \A k \in 1 .. b, id \in CaravanId : ~IsArrivalOf(first[k], id)
  <2>1. evaluated \in Seq(Events) /\ Len(evaluated) = c
    BY <1>1, <1>4, SameForAll
  <2>2. <<y>> \in Seq(Events) /\ Len(<<y>>) = 1 /\ <<y>>[1] = y
    BY <1>4, OnlyOne
  <2> DEFINE last == <<y>>
  <2>3. \A k \in 1 .. c : evaluated[k] = x
    OBVIOUS
  <2>10. last \in Seq(Events)
    BY <2>2
  <2> HIDE DEF evaluated, last
  <2>4. /\ evaluated \o last \in Seq(Events)
        /\ Len(evaluated \o last) = c + Len(last)
        /\ \A k \in 1 .. c + Len(last) :
             (evaluated \o last)[k] = IF k <= c THEN evaluated[k] ELSE last[k - c]
    BY <2>1, <2>10, Joined
  <2>5. Len(last) = 1 /\ last[1] = y /\ first = evaluated \o last
    BY <2>2 DEF last
  <2> HIDE DEF first
  <2>6. /\ first \in Seq(Events) /\ Len(first) = b
        /\ \A k \in 1 .. b : first[k] = IF k <= c THEN evaluated[k] ELSE last[k - c]
    BY <1>1, <2>4, <2>5
  <2>7. \A k \in 1 .. b : (k \in 1 .. c /\ k <= c) \/ (~(k <= c) /\ k - c = 1)
    BY <1>1
  <2>8. \A k \in 1 .. b : first[k] = x \/ first[k] = y
    BY <2>3, <2>5, <2>6, <2>7
  <2>9. QED
    BY <1>4, <2>6, <2>8
<1> HIDE DEF evaluated, flat, first
<1>8. /\ offered \in Seq(Events) /\ Len(offered) = b + Len(flat) /\ Len(flat) \in Nat
      /\ \A k \in 1 .. b + Len(flat) : offered[k] = IF k <= b THEN first[k] ELSE flat[k - b]
      /\ DOMAIN flat = 1 .. Len(flat)
  BY <1>6, <1>7, Joined
<1> DEFINE at == [p \in A |-> b + pos[p]]
<1> HIDE DEF offered
<1>9. \A p \in A : pos[p] \in 1 .. Len(flat) /\ flat[pos[p]] = e[p] /\ p \in 1 .. n
  BY <1>5, <1>8 DEF Laid
<1>10. /\ at \in [A -> Nat]
       /\ \A p \in A : at[p] \in 1 .. Len(offered) /\ ~(at[p] <= b) /\ at[p] - b = pos[p]
  BY <1>1, <1>8, <1>9
<1>11. \A p \in A : offered[at[p]] = e[p]
  BY <1>8, <1>9, <1>10
<1>12. ASSUME NEW p \in A PROVE IsArrivalOf(offered[at[p]], after.fleet[p].id)
  <2> HIDE DEF at
  <2>1. PICK id : id = after.fleet[p].id
    OBVIOUS
  <2>2. offered[at[p]] = ProcessorEvent("runtime.caravan_arrived", id)
    BY <1>9, <1>11, <2>1 DEF e
  <2>3. IsArrivalOf(ProcessorEvent("runtime.caravan_arrived", id), id)
    BY DEF IsArrivalOf, ProcessorEvent
  <2>4. IsArrivalOf(offered[at[p]], id)
    BY <2>2, <2>3
  <2>5. QED
    BY <2>1, <2>4
<1>13. \A p, q \in A : at[p] = at[q] => p = q
  <2> HIDE DEF at
  <2>1. ASSUME NEW p \in A, NEW q \in A, at[p] = at[q] PROVE p = q
    <3>1. pos[p] = pos[q]
      BY <1>10, <2>1
    <3>2. QED
      BY <1>5, <3>1 DEF Laid
  <2>2. QED
    BY <2>1
<1>14. ASSUME NEW k \in 1 .. Len(offered), NEW id \in CaravanId, IsArrivalOf(offered[k], id)
       PROVE  \E p \in A : at[p] = k
  <2>1. ~(k <= b)
    <3> SUFFICES ASSUME k <= b PROVE FALSE
      OBVIOUS
    <3>1. k \in 1 .. b /\ offered[k] = first[k]
      BY <1>1, <1>8
    <3>2. QED
      BY <1>7, <1>14, <3>1
  <2>2. k - b \in DOMAIN flat
    BY <1>1, <1>8, <2>1
  <2>3. PICK p \in A : pos[p] = k - b
    BY <1>5, <2>2 DEF Laid
  <2>4. at[p] = k
    BY <1>1, <2>3
  <2>5. QED
    BY <2>4
<1>15. OffersArrivals(offered, after, at)
  <2> HIDE DEF at
  <2>1. QED
    BY <1>10, <1>12, <1>13, <1>14 DEF OffersArrivals
<1>16. QED
  BY <1>3, <1>8, <1>10, <1>15 DEF offered, first

-----------------------------------------------------------------------------
(* What is kept of the events of a call, and what a host has heard.        *)

(* Every caravan has an id of its own, and the history is a count.         *)
OwnIds == \A p, q \in DOMAIN fleet : fleet[p].id = fleet[q].id => p = q

HistoryCounts == heard \in [CaravanId -> Nat] /\ lost \in Nat

Silent == {p \in DOMAIN fleet : Arrived(fleet[p]) /\ heard[fleet[p].id] = 0}

(* The part of the sequence that was kept announces a caravan that arrives *)
(* once if the place of its arrival is among the first n, and no other.    *)
LEMMA AnnouncedIs ==
  ASSUME NEW offered \in Seq(Events), NEW n \in Nat, n <= Len(offered),
         NEW after, NEW pos \in [after.arrived -> Nat], OffersArrivals(offered, after, pos),
         NEW m \in Nat, after.fleet \in [1 .. m -> Caravans], after.arrived \in SUBSET (1 .. m),
         \A p, q \in 1 .. m : after.fleet[p].id = after.fleet[q].id => p = q,
         NEW p \in 1 .. m
  PROVE  Announced(SubSeq(offered, 1, n), after.fleet[p].id)
           = IF p \in after.arrived /\ pos[p] <= n THEN 1 ELSE 0
<1> DEFINE id == after.fleet[p].id
           s == SubSeq(offered, 1, n)
           K == {k \in DOMAIN s : IsArrivalOf(s[k], id)}
<1>1. DOMAIN s = 1 .. n /\ \A k \in 1 .. n : s[k] = offered[k] /\ k \in 1 .. Len(offered)
  BY SubSeqProperties
<1>2. Announced(s, id) = Cardinality(K)
  BY DEF Announced, IsArrivalOf
<1>3. id \in CaravanId
  BY DEF Caravans
<1> HIDE DEF s
<1>4. ASSUME NEW k \in K PROVE p \in after.arrived /\ pos[p] = k /\ k <= n
  <2>1. k \in 1 .. n /\ IsArrivalOf(offered[k], id) /\ k \in 1 .. Len(offered)
    BY <1>1
  <2>2. PICK q \in after.arrived : pos[q] = k
    BY <1>3, <2>1 DEF OffersArrivals
  <2>3. IsArrivalOf(offered[k], after.fleet[q].id)
    BY <2>2 DEF OffersArrivals
  <2>4. after.fleet[q].id = id
    BY <2>1, <2>3 DEF IsArrivalOf
  <2>5. q = p
    BY <2>4
  <2>6. QED
    BY <2>1, <2>2, <2>5
<1>5. ASSUME p \in after.arrived, pos[p] <= n PROVE pos[p] \in K
  <2>1. pos[p] \in 1 .. Len(offered) /\ IsArrivalOf(offered[pos[p]], id)
    BY <1>5 DEF OffersArrivals
  <2>2. pos[p] \in 1 .. n
    BY <1>5, <2>1
  <2>3. QED
    BY <1>1, <2>1, <2>2
<1> HIDE DEF K
<1>6. CASE p \in after.arrived /\ pos[p] <= n
  <2>1. K = {pos[p]}
    BY <1>4, <1>5, <1>6
  <2>2. Cardinality(K) = 1
    BY <2>1, FS_Singleton
  <2>3. QED
    BY <1>2, <1>6, <2>2 DEF s
<1>7. CASE ~(p \in after.arrived /\ pos[p] <= n)
  <2>1. K = {}
    BY <1>4, <1>7
  <2>2. Cardinality(K) = 0
    BY <2>1, FS_EmptySet
  <2>3. QED
    BY <1>2, <1>7, <2>2 DEF s
<1>8. QED
  BY <1>6, <1>7

LEMMA AnnouncedType ==
  ASSUME NEW s, NEW n \in Nat, DOMAIN s = 1 .. n, NEW id
  PROVE  Announced(s, id) \in Nat
<1> DEFINE K == {k \in DOMAIN s : s[k].type = "runtime.caravan_arrived" /\ s[k].about = id}
<1>1. IsFiniteSet(1 .. n) /\ K \in SUBSET (1 .. n)
  <2>1. IsFiniteSet(1 .. n)
    BY FS_Interval
  <2>2. QED
    BY <2>1
<1> HIDE DEF K
<1>2. Cardinality(K) \in Nat
  BY <1>1, FS_Subset, FS_CardinalityType
<1>3. QED
  BY <1>2 DEF Announced, K

LEMMA AdvancedCaravan ==
  ASSUME NEW c \in Caravans, NEW ticks \in Nat
  PROVE  /\ Advance(c, ticks).id = c.id
         /\ Arrived(Advance(c, ticks)) <=> Arrived(c) \/ ArrivesWithin(c, ticks)
         /\ ArrivesWithin(c, ticks) => ~Arrived(c)
<1>1. TicksLeft(c) \in Nat
  BY TicksLeftType DEF U64
<1>2. Advance(c, ticks).id = c.id
  BY DEF Advance, Caravans
<1>3. TicksLeft(Advance(c, ticks)) = TicksLeft(c) - AtMost(TicksLeft(c), ticks)
  BY LeftAfterAdvance
<1>4. QED
  BY <1>1, <1>2, <1>3 DEF Arrived, ArrivesWithin, AtMost

LEMMA SilentIsFinite ==
  ASSUME TypeOK
  PROVE  IsFiniteSet(Silent) /\ Cardinality(Silent) \in Nat
<1>1. PICK n \in Nat : DOMAIN fleet = 1 .. n
  BY DEF TypeOK
<1>2. IsFiniteSet(1 .. n)
  BY <1>1, FS_Interval
<1>3. Silent \in SUBSET (1 .. n)
  BY <1>1 DEF Silent
<1>4. QED
  BY <1>2, <1>3, FS_Subset, FS_CardinalityType

LEMMA OrchestrateAnnounces ==
  ASSUME RuntimeTypeOK, BuiltRegistry(registry), OwnIds, HistoryCounts, ArrivalsAnnounced,
         NEW config \in Configs, Orchestrate(config)
  PROVE  OwnIds' /\ HistoryCounts' /\ ArrivalsAnnounced'
<1>1. config.step \in U64 /\ config.step \in Nat /\ config.maxEvents \in Nat
  BY OrchestrationAssumption DEF U64
<1> DEFINE after == Ticked(Now, config.step)
           offered == Offered(registry, after)
           kept == Kept(offered, config.maxEvents)
<1>2. /\ fleet' = after.fleet
      /\ heard' = [c \in CaravanId |-> heard[c] + Announced(kept.events, c)]
      /\ lost' = AtMost(lost + kept.dropped, Len(fleet))
  BY DEF Orchestrate, Reach
<1>3. PICK n \in Nat : DOMAIN fleet = 1 .. n /\ Len(fleet) = n /\ fleet \in [1 .. n -> Caravans]
  BY DEF RuntimeTypeOK, TypeOK
<1>4. /\ after.fleet = [p \in 1 .. n |-> Advance(fleet[p], config.step)]
      /\ after.arrived = {p \in 1 .. n : ArrivesWithin(fleet[p], config.step)}
  BY <1>3 DEF Ticked, Now
<1>5. after.fleet \in [1 .. n -> Caravans]
  BY <1>1, <1>3, <1>4, AdvanceType
<1> HIDE DEF after
<1>6. \A p \in 1 .. n :
        /\ after.fleet[p].id = fleet[p].id
        /\ Arrived(after.fleet[p]) <=> Arrived(fleet[p]) \/ p \in after.arrived
        /\ p \in after.arrived => ~Arrived(fleet[p])
        /\ fleet[p].id \in CaravanId
  BY <1>1, <1>3, <1>4, AdvancedCaravan DEF Caravans
<1>7. \A p, q \in 1 .. n : after.fleet[p].id = after.fleet[q].id => p = q
  BY <1>3, <1>6 DEF OwnIds
<1>8. after.arrived \in SUBSET (1 .. n)
  BY <1>4
<1>9. PICK places \in Nat : DOMAIN registry.processors = 1 .. places
  BY DEF BuiltRegistry
<1>10. offered \in Seq(Events)
  BY <1>5, <1>8, <1>9, OfferedArrivals
<1>11. PICK pos \in [after.arrived -> Nat] : OffersArrivals(offered, after, pos)
  BY <1>5, <1>8, <1>9, OfferedArrivals
<1> DEFINE L == Len(offered)
           m == AtMost(L, config.maxEvents)
           D == {p \in after.arrived : pos[p] > m}
<1>12. L \in Nat /\ m \in Nat /\ m <= L
  BY <1>1, <1>10 DEF AtMost
<1>13. kept.events = SubSeq(offered, 1, m) /\ kept.dropped = L - m
  BY DEF Kept
<1> HIDE DEF offered, kept
<1>14. ASSUME NEW p \in 1 .. n
       PROVE  Announced(kept.events, fleet[p].id) = IF p \in after.arrived /\ pos[p] <= m THEN 1 ELSE 0
  <2>3. m \in Nat /\ m <= Len(offered)
    BY <1>12
  <2> HIDE DEF m, L, D
  <2>1. Announced(SubSeq(offered, 1, m), after.fleet[p].id)
          = IF p \in after.arrived /\ pos[p] <= m THEN 1 ELSE 0
    BY <1>5, <1>7, <1>8, <1>10, <1>11, <2>3, AnnouncedIs
  <2>2. QED
    BY <1>6, <1>13, <2>1
<1>15. IsFiniteSet(D) /\ Cardinality(D) <= L - m
  <2>1. /\ \A p \in after.arrived : pos[p] \in 1 .. L
        /\ \A p, q \in after.arrived : pos[p] = pos[q] => p = q
    BY <1>11 DEF OffersArrivals
  <2> HIDE DEF L, m
  <2>2. QED
    BY <1>8, <1>11, <1>12, <2>1, PlacesBeyond
<1> HIDE DEF L, m
<1>16. heard' \in [CaravanId -> Nat]
  <2>1. DOMAIN kept.events = 1 .. m
    BY <1>12, <1>13, SubSeqProperties
  <2>2. \A c \in CaravanId : Announced(kept.events, c) \in Nat
    BY <1>12, <2>1, AnnouncedType
  <2>3. \A c \in CaravanId : heard[c] \in Nat /\ heard[c] + Announced(kept.events, c) \in Nat
    BY <2>2 DEF HistoryCounts
  <2>4. QED
    BY <1>2, <2>3
<1>17. \A p \in 1 .. n :
         heard'[fleet[p].id] = heard[fleet[p].id] + Announced(kept.events, fleet[p].id)
  BY <1>2, <1>6
<1>18. lost' \in Nat /\ lost' = AtMost(lost + (L - m), n)
  BY <1>2, <1>3, <1>12, <1>13 DEF AtMost, HistoryCounts
<1>19. OwnIds' /\ HistoryCounts'
  BY <1>2, <1>5, <1>7, <1>16, <1>18 DEF OwnIds, HistoryCounts
<1>20. \A p \in 1 .. n : heard[fleet[p].id] \in Nat
  BY <1>6 DEF HistoryCounts
<1>21. ASSUME NEW p \in 1 .. n
       PROVE  heard'[after.fleet[p].id] <= (IF Arrived(after.fleet[p]) THEN 1 ELSE 0)
  <2>1. heard[fleet[p].id] <= (IF Arrived(fleet[p]) THEN 1 ELSE 0)
    BY <1>3 DEF ArrivalsAnnounced
  <2>2. heard'[after.fleet[p].id]
          = heard[fleet[p].id] + (IF p \in after.arrived /\ pos[p] <= m THEN 1 ELSE 0)
    BY <1>6, <1>14, <1>17
  <2>3. QED
    BY <1>6, <1>20, <2>1, <2>2
<1> DEFINE now == {p \in 1 .. n : Arrived(after.fleet[p]) /\ heard'[after.fleet[p].id] = 0}
<1>22. ASSUME NEW p \in now PROVE p \in Silent \cup D
  <2>1. p \in 1 .. n /\ Arrived(after.fleet[p])
    OBVIOUS
  <2>2. heard'[after.fleet[p].id] = 0
    OBVIOUS
  <2>3. heard[fleet[p].id] + (IF p \in after.arrived /\ pos[p] <= m THEN 1 ELSE 0) = 0
    BY <1>6, <1>14, <1>17, <2>1, <2>2
  <2>4. heard[fleet[p].id] = 0 /\ ~(p \in after.arrived /\ pos[p] <= m)
    BY <1>20, <2>1, <2>3
  <2>5. CASE p \in after.arrived
    <3>1. pos[p] > m
      BY <1>12, <2>4, <2>5
    <3>2. QED
      BY <2>5, <3>1
  <2>6. CASE p \notin after.arrived
    BY <1>3, <1>6, <2>1, <2>4, <2>6 DEF Silent
  <2>7. QED
    BY <2>5, <2>6
<1>23. Silent' = now
  BY <1>2, <1>5 DEF Silent
<1> HIDE DEF D, now
<1>24. Cardinality(now) <= lost'
  <2>1. IsFiniteSet(Silent) /\ Cardinality(Silent) \in Nat
    BY SilentIsFinite DEF RuntimeTypeOK
  <2>2. Cardinality(Silent) <= lost
    BY DEF ArrivalsAnnounced, Silent
  <2>3. IsFiniteSet(Silent \cup D) /\ Cardinality(D) \in Nat /\ Cardinality(Silent \cap D) \in Nat
    <3>1. Silent \cap D \in SUBSET D
      OBVIOUS
    <3>2. IsFiniteSet(Silent \cap D)
      BY <1>15, <3>1, FS_Subset
    <3>3. IsFiniteSet(Silent \cup D)
      BY <1>15, <2>1, FS_Union
    <3>4. QED
      BY <1>15, <3>2, <3>3, FS_CardinalityType
  <2>4. Cardinality(Silent \cup D) = Cardinality(Silent) + Cardinality(D) - Cardinality(Silent \cap D)
    BY <1>15, <2>1, FS_Union
  <2>5. now \in SUBSET (Silent \cup D)
    BY <1>22
  <2>6. IsFiniteSet(now) /\ Cardinality(now) <= Cardinality(Silent \cup D)
    BY <2>3, <2>5, FS_Subset
  <2>7. Cardinality(now) <= n
    <3>1. IsFiniteSet(1 .. n) /\ Cardinality(1 .. n) = n
      BY UpTo
    <3>2. now \in SUBSET (1 .. n)
      BY DEF now
    <3>3. Cardinality(now) <= Cardinality(1 .. n)
      BY <3>1, <3>2, FS_Subset
    <3>4. QED
      BY <3>1, <3>3
  <2>8. Cardinality(now) \in Nat
    BY <2>6, FS_CardinalityType
  <2>9. PICK a \in Nat, b \in Nat, c \in Nat, d \in Nat :
          /\ a = Cardinality(Silent) /\ b = Cardinality(D) /\ c = Cardinality(Silent \cap D)
          /\ d = Cardinality(now)
    BY <2>1, <2>3, <2>8
  <2>10. d <= a + b - c /\ a <= lost /\ b <= L - m /\ d <= n
    BY <1>15, <2>2, <2>4, <2>6, <2>7, <2>9
  <2>11. lost \in Nat
    BY DEF HistoryCounts
  <2>12. d <= AtMost(lost + (L - m), n)
    BY <1>12, <2>10, <2>11 DEF AtMost
  <2>13. QED
    BY <1>18, <2>9, <2>12
<1>25. ArrivalsAnnounced'
  <2>1. DOMAIN after.fleet = 1 .. n
    BY <1>5
  <2>2. \A p \in DOMAIN fleet' : heard'[fleet'[p].id] <= (IF Arrived(fleet'[p]) THEN 1 ELSE 0)
    BY <1>2, <1>21, <2>1
  <2>3. Cardinality({p \in DOMAIN fleet' : Arrived(fleet'[p]) /\ heard'[fleet'[p].id] = 0}) <= lost'
    BY <1>2, <1>24, <2>1 DEF now
  <2>4. QED
    BY <2>2, <2>3 DEF ArrivalsAnnounced
<1>26. QED
  BY <1>19, <1>25

(* What leaves the clock, the ids and the counts alone.                    *)
LEMMA OthersAnnounceNothing ==
  ASSUME TypeOK, OwnIds, HistoryCounts, ArrivalsAnnounced, UNCHANGED <<heard, lost>>,
         \/ fleet' = fleet
         \/ \E p \in DOMAIN fleet, cargo \in Storages : fleet' = WithCargo(p, cargo)
  PROVE  OwnIds' /\ HistoryCounts' /\ ArrivalsAnnounced'
<1>1. /\ DOMAIN fleet' = DOMAIN fleet
      /\ \A p \in DOMAIN fleet : fleet'[p].id = fleet[p].id /\ (Arrived(fleet'[p]) <=> Arrived(fleet[p]))
  <2>1. CASE fleet' = fleet
    BY <2>1
  <2>2. ASSUME NEW q \in DOMAIN fleet, NEW cargo \in Storages, fleet' = WithCargo(q, cargo)
        PROVE  /\ DOMAIN fleet' = DOMAIN fleet
               /\ \A p \in DOMAIN fleet :
                    fleet'[p].id = fleet[p].id /\ (Arrived(fleet'[p]) <=> Arrived(fleet[p]))
    <3>1. DOMAIN fleet' = DOMAIN fleet /\ \A p \in DOMAIN fleet : p # q => fleet'[p] = fleet[p]
      BY <2>2 DEF WithCargo
    <3>2. fleet'[q] = [fleet[q] EXCEPT !.cargo = cargo]
      BY <2>2 DEF WithCargo
    <3>3. fleet[q] \in Caravans
      BY DEF TypeOK
    <3>4. /\ fleet'[q].id = fleet[q].id
          /\ fleet'[q].ticksLeft = fleet[q].ticksLeft /\ fleet'[q].daysLeft = fleet[q].daysLeft
      BY <3>2, <3>3 DEF Caravans
    <3>5. Arrived(fleet'[q]) <=> Arrived(fleet[q])
      BY <3>4 DEF Arrived, TicksLeft
    <3>6. QED
      BY <3>1, <3>4, <3>5
  <2>3. QED
    BY <2>1, <2>2
<1>2. OwnIds' /\ HistoryCounts'
  BY <1>1 DEF OwnIds, HistoryCounts
<1>3. {p \in DOMAIN fleet' : Arrived(fleet'[p]) /\ heard'[fleet'[p].id] = 0}
        = {p \in DOMAIN fleet : Arrived(fleet[p]) /\ heard[fleet[p].id] = 0}
  BY <1>1
<1>4. \A p \in DOMAIN fleet' : heard'[fleet'[p].id] <= (IF Arrived(fleet'[p]) THEN 1 ELSE 0)
  BY <1>1 DEF ArrivalsAnnounced
<1>5. ArrivalsAnnounced'
  BY <1>3, <1>4 DEF ArrivalsAnnounced
<1>6. QED
  BY <1>2, <1>5

LEMMA HostAnnouncesNothing ==
  ASSUME RuntimeTypeOK, OwnIds, HistoryCounts, ArrivalsAnnounced, HostCall
  PROVE  OwnIds' /\ HistoryCounts' /\ ArrivalsAnnounced'
<1>1. TypeOK /\ UNCHANGED <<heard, lost>>
  BY DEF RuntimeTypeOK, HostCall
<1>2. ASSUME NEW p \in DOMAIN fleet, NEW f \in Carriers, FulfillFirst(p, f)
      PROVE  \E cargo \in Storages : fleet' = WithCargo(p, cargo)
  <2>1. PICK i \in DOMAIN catalog : FulfillFromArrivedCaravan(i, p, "ledger")
    BY <1>2 DEF FulfillFirst
  <2>2. catalog[i] \in ContractRecords
    BY <1>1 DEF TypeOK
  <2>3. fleet[p].cargo \in Storages /\ catalog[i].resource \in Resource /\ catalog[i].quantity \in U64
    BY <1>1, <2>2, CaravanFields DEF ContractRecords
  <2>4. Delivered(i, fleet[p].cargo) \in Storages
    BY <2>1, <2>3, TakeType DEF Delivered, FulfillFromArrivedCaravan, CanSettleFromCaravan, CanSettle
  <2>5. fleet' = WithCargo(p, Delivered(i, fleet[p].cargo))
    BY <2>1 DEF FulfillFromArrivedCaravan, WithCargo
  <2>6. QED
    BY <2>4, <2>5
<1>3. \/ fleet' = fleet
      \/ \E p \in DOMAIN fleet, cargo \in Storages : fleet' = WithCargo(p, cargo)
  <2>1. ASSUME NEW offer \in Offers, AddRuntimeContract(offer) PROVE fleet' = fleet
    BY <2>1 DEF AddRuntimeContract, AddContract
  <2>2. ASSUME NEW r \in {Food, Water}, AddResource(FirstPlace, r, 1) PROVE fleet' = fleet
    BY <2>2 DEF AddResource, StoresOnly, vars
  <2>3. ASSUME NEW p \in DOMAIN fleet, NEW f \in Carriers, SetRuntimeCaravanOwner(p, f)
        PROVE  fleet' = fleet
    BY <2>3 DEF SetRuntimeCaravanOwner, SetCaravanOwner
  <2>4. QED
    BY <1>2, <2>1, <2>2, <2>3 DEF HostCall
<1>4. QED
  BY <1>1, <1>3, OthersAnnounceNothing

Announcing == BuiltRegistry(registry) /\ OwnIds /\ HistoryCounts /\ ArrivalsAnnounced

LEMMA AnnouncingStep ==
  RuntimeTypeOK /\ Announcing /\ [OrchestrationNext]_orchestrationVars => Announcing'
<1> SUFFICES ASSUME RuntimeTypeOK, Announcing, [OrchestrationNext]_orchestrationVars
             PROVE  Announcing'
  OBVIOUS
<1>1. TypeOK
  BY DEF RuntimeTypeOK
<1>2. ASSUME NEW config \in Configs, Orchestrate(config) PROVE Announcing'
  <2>1. registry' = registry
    BY <1>2 DEF Orchestrate
  <2>2. QED
    BY <1>2, <2>1, OrchestrateAnnounces DEF Announcing
<1>3. CASE HostCall
  <2>1. registry' = registry
    BY <1>3 DEF HostCall
  <2>2. QED
    BY <1>3, <2>1, HostAnnouncesNothing DEF Announcing
<1>4. CASE RegistryCall
  <2>1. BuiltRegistry(registry')
    BY <1>4, RegistryStaysBuilt DEF Announcing
  <2>2. fleet' = fleet /\ UNCHANGED <<heard, lost>>
    BY <1>4 DEF RegistryCall, AddFeature, AddDependency, AddProcessor, SwitchFeature,
                SwitchDependency, RegistryOnly, runtimeVars, vars
  <2>3. OwnIds' /\ HistoryCounts' /\ ArrivalsAnnounced'
    BY <1>1, <2>2, OthersAnnounceNothing DEF Announcing
  <2>4. QED
    BY <2>1, <2>3 DEF Announcing
<1>5. CASE UNCHANGED orchestrationVars
  <2>1. UNCHANGED <<fleet, registry, heard, lost>>
    BY <1>5 DEF orchestrationVars, runtimeVars, vars
  <2>2. QED
    BY <1>1, <2>1, OthersAnnounceNothing DEF Announcing
<1>6. QED
  BY <1>2, <1>3, <1>4, <1>5 DEF OrchestrationNext

(* The world a host starts with: no two of its caravans share an id, and   *)
(* none has arrived before the first call.                                 *)
Setting == OwnIds /\ \A p \in DOMAIN fleet : ~Arrived(fleet[p])

LEMMA AnnouncingStart == OrchestrationInit /\ Setting => Announcing
<1> SUFFICES ASSUME OrchestrationInit, Setting PROVE Announcing
  OBVIOUS
<1>1. BuiltRegistry(registry)
  BY OrchestrationAssumption DEF OrchestrationInit
<1>2. heard = [c \in CaravanId |-> 0] /\ lost = 0
  BY DEF OrchestrationInit
<1>3. HistoryCounts
  BY <1>2 DEF HistoryCounts
<1>4. fleet \in Seq(Caravans)
  BY RuntimeStart DEF OrchestrationInit, RuntimeTypeOK, TypeOK
<1>5. ASSUME NEW p \in DOMAIN fleet PROVE fleet[p].id \in CaravanId
  <2>1. fleet[p] \in Caravans
    BY <1>4
  <2>2. QED
    BY <2>1 DEF Caravans
<1>6. \A p \in DOMAIN fleet : heard[fleet[p].id] = 0
  BY <1>2, <1>5
<1>7. {p \in DOMAIN fleet : Arrived(fleet[p]) /\ heard[fleet[p].id] = 0} = {}
  BY DEF Setting
<1>8. Cardinality({p \in DOMAIN fleet : Arrived(fleet[p]) /\ heard[fleet[p].id] = 0}) = 0
  BY <1>7, FS_EmptySet
<1>9. ArrivalsAnnounced
  BY <1>2, <1>6, <1>8 DEF ArrivalsAnnounced
<1>10. QED
  BY <1>1, <1>3, <1>9 DEF Announcing, Setting

(* Whatever steps, bounds on the events and other calls a host mixes, an   *)
(* arrival is announced in the call in which the caravan arrives and never *)
(* again, and the arrivals that were not announced are no more than the    *)
(* events counted as dropped.                                              *)
THEOREM ArrivalsStayAnnounced == OrchestrationSpec /\ Setting => []ArrivalsAnnounced
<1>1. Announcing => ArrivalsAnnounced
  BY DEF Announcing
<1>2. QED
  BY <1>1, AnnouncingStart, AnnouncingStep, OrchestrationIdle, PTL DEF OrchestrationSpec
=============================================================================
