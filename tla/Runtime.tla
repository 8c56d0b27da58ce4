------------------------------ MODULE Runtime ------------------------------
(***************************************************************************)
(* SimulationRuntime as a host drives it: settlements and their stores,    *)
(* routes, caravans that load at their origin, travel and deliver, and the *)
(* contracts of module Contracts, settled by hand or by the calls that run *)
(* the clock until a caravan arrives and then settle what it can.          *)
(*                                                                         *)
(* A call that the code refuses changes nothing and is not a step, except  *)
(* the two deliveries, which move goods before they fail: those are steps  *)
(* whatever their outcome.  The host is one thread, so nothing comes       *)
(* between the halves of a call; `call' holds the one call that takes two  *)
(* steps here, run-until-arrival-and-fulfil.                               *)
(***************************************************************************)
EXTENDS Contracts, FiniteSets

CONSTANTS
  KnownResource,   (* resources of the engine's DataRegistry                 *)
  ResourceOrder,   (* every resource once, sorted by its id                  *)
  Food,            (* the resource people eat, "grain" in the code           *)
  Appetite,        (* food_needed_for_population of each settlement          *)
  RouteOffers,     (* routes the host tries to add                           *)
  Cargoes,         (* cargo a caravan may be created with                    *)
  InitialWorlds    (* worlds the host starts from, empty or restored         *)

VARIABLES
  settlements,     (* ids of SimulationEngine::settlements_                  *)
  stores,          (* their storages; empty for an id that does not exist    *)
  routes,          (* SettlementRouteCatalog::routes                         *)
  factions,        (* FactionCatalog::factions                               *)
  day,             (* SimulationEngine::current_day_                         *)
  call             (* the arrival a run stopped at, not yet settled          *)

worldVars == <<settlements, stores, routes, factions, day>>

runtimeVars == <<vars, worldVars, call>>

NoCall == [faction |-> NoFaction]

ASSUME RuntimeAssumption ==
  /\ IsFiniteSet(SettlementId)
  /\ KnownResource \subseteq Resource
  /\ ResourceOrder \in Seq(Resource)
  /\ \A r \in Resource : \E k \in DOMAIN ResourceOrder : ResourceOrder[k] = r
  /\ \A j, k \in DOMAIN ResourceOrder : ResourceOrder[j] = ResourceOrder[k] => j = k
  /\ Food \in Resource
  /\ Appetite \in [SettlementId -> U64]
  /\ RouteOffers \subseteq Routes
  /\ Cargoes \subseteq Storages
  /\ \A w \in InitialWorlds :
       /\ w.settlements \subseteq SettlementId
       /\ w.stores \in [SettlementId -> Storages]
       /\ w.routes \in Seq(Routes)
       /\ w.factions \subseteq Faction

RuntimeInit ==
  /\ Init
  /\ \E w \in InitialWorlds :
       /\ settlements = w.settlements
       /\ stores = w.stores
       /\ routes = w.routes
       /\ factions = w.factions
  /\ day = 0
  /\ call = NoCall

-----------------------------------------------------------------------------
(* Building the world.                                                     *)

CreateSettlement(s) ==
  /\ s \notin settlements
  /\ settlements' = settlements \cup {s}
  /\ UNCHANGED <<vars, stores, routes, factions, day>>

AddFaction(f) ==
  /\ f \notin factions
  /\ factions' = factions \cup {f}
  /\ UNCHANGED <<vars, settlements, stores, routes, day>>

(* add_runtime_route; add_settlement_route fills in the travel ticks.      *)
AddRoute(route) ==
  /\ ValidRoute(route, settlements)
  /\ \A k \in DOMAIN routes : routes[k].id # route.id
  /\ routes' = Append(routes, [route EXCEPT !.ticks = RouteTicks(route)])
  /\ UNCHANGED <<vars, settlements, stores, factions, day>>

AddRuntimeContract(offer) ==
  /\ {offer.issuer, offer.receiver} \subseteq factions
  /\ AddContract(offer)
  /\ UNCHANGED worldVars

SetRuntimeCaravanOwner(p, f) ==
  /\ f \in factions
  /\ SetCaravanOwner(p, f)
  /\ UNCHANGED worldVars

(* create_runtime_caravan_for_route, with add_caravan.                     *)
CreateCaravan(k, id, cargo) ==
  LET c == CaravanForRoute(routes[k], id, cargo)
  IN  /\ ValidCaravan(c)
      /\ \A p \in DOMAIN fleet : fleet[p].id # id
      /\ fleet' = Append(fleet, c)
      /\ UNCHANGED <<tick, owner, catalog, wallet, ledger, depot, worldVars>>

-----------------------------------------------------------------------------
(* Goods in the stores of settlements and on caravans.                     *)

StoresOnly == UNCHANGED <<vars, settlements, routes, factions, day>>

GoodsOnly ==
  UNCHANGED <<tick, owner, catalog, wallet, ledger, depot, settlements, routes, factions, day>>

WithCargo(p, cargo) == [fleet EXCEPT ![p] = [fleet[p] EXCEPT !.cargo = cargo]]

AddResource(s, r, n) ==
  /\ r \in KnownResource
  /\ CanPut(stores[s], r, n)
  /\ stores' = [stores EXCEPT ![s] = Put(stores[s], r, n)]
  /\ StoresOnly

RemoveResource(s, r, n) ==
  /\ r \in KnownResource
  /\ CanTake(stores[s], r, n)
  /\ stores' = [stores EXCEPT ![s] = Take(stores[s], r, n)]
  /\ StoresOnly

(* transfer works on copies of both storages.                              *)
TransferResource(s, t, r, n) ==
  /\ s # t
  /\ r \in KnownResource
  /\ CanTake(stores[s], r, n)
  /\ CanPut(stores[t], r, n)
  /\ stores' = [stores EXCEPT ![s] = Take(stores[s], r, n), ![t] = Put(stores[t], r, n)]
  /\ StoresOnly

Load(p, r, n) ==
  LET c == fleet[p]
  IN  /\ c.origin \in settlements
      /\ AtOrigin(c)
      /\ r \in KnownResource
      /\ CanTake(stores[c.origin], r, n)
      /\ CanPut(c.cargo, r, n)
      /\ stores' = [stores EXCEPT ![c.origin] = Take(stores[c.origin], r, n)]
      /\ fleet' = WithCargo(p, Put(c.cargo, r, n))
      /\ GoodsOnly

Unload(p, r, n) ==
  LET c == fleet[p]
  IN  /\ c.destination \in settlements
      /\ Arrived(c)
      /\ r \in KnownResource
      /\ CanTake(c.cargo, r, n)
      /\ CanPut(stores[c.destination], r, n)
      /\ fleet' = WithCargo(p, Take(c.cargo, r, n))
      /\ stores' = [stores EXCEPT ![c.destination] = Put(stores[c.destination], r, n)]
      /\ GoodsOnly

-----------------------------------------------------------------------------
(* Delivering the whole cargo of a caravan, and of every caravan.          *)

CargoTotal(cargo) ==
  LET sum[k \in 0 .. Len(ResourceOrder)] ==
        IF k = 0 THEN 0 ELSE sum[k - 1] + cargo[ResourceOrder[k]]
  IN  sum[Len(ResourceOrder)]

(* The entries the delivery moves before the engine refuses one, in the    *)
(* order of their ids: all of them if every resource is registered.        *)
MovedEntries(cargo) ==
  {ResourceOrder[k] : k \in {k \in DOMAIN ResourceOrder :
     \A j \in 1 .. k : cargo[ResourceOrder[j]] > 0 => ResourceOrder[j] \in KnownResource}}

(* What the loop moved, and rollback_delivered_cargo moving it back.       *)
MovedOut(cargo) == [r \in Resource |-> IF r \in MovedEntries(cargo) THEN 0 ELSE cargo[r]]

MovedIn(store, cargo) ==
  [r \in Resource |-> IF r \in MovedEntries(cargo) THEN WrapAdd(store[r], cargo[r]) ELSE store[r]]

(* Faulty variants: the rollback forgets the caravan, or the store.        *)
PutBackNothing(moved, cargo) == moved

TakenBackNothing(store, cargo) == store

PutBack(moved, cargo) ==
  [r \in Resource |-> IF r \in MovedEntries(cargo) THEN WrapAdd(moved[r], cargo[r]) ELSE moved[r]]

TakenBack(store, cargo) ==
  [r \in Resource |-> IF r \in MovedEntries(cargo) THEN store[r] - cargo[r] ELSE store[r]]

(* deliver_runtime_arrived_caravan_cargo_to_destination, as a function of  *)
(* the caravan and the store of its destination.                           *)
DeliveryOf(c, store) ==
  LET checked == /\ c.destination \in settlements
                 /\ Arrived(c)
                 /\ CargoTotal(c.cargo) <= MaxU64
                 /\ \A r \in Resource : CanAdd(store[r], c.cargo[r])
      all     == \A r \in Resource : c.cargo[r] > 0 => r \in MovedEntries(c.cargo)
      cargo   == MovedOut(c.cargo)
      filled  == MovedIn(store, c.cargo)
  IN  IF ~checked THEN [ok |-> FALSE, cargo |-> c.cargo, store |-> store]
      ELSE IF all THEN [ok |-> TRUE, cargo |-> cargo, store |-> filled]
      ELSE [ok |-> FALSE, cargo |-> PutBack(cargo, c.cargo), store |-> TakenBack(filled, c.cargo)]

Deliver(p) ==
  LET c == fleet[p]
      d == DeliveryOf(c, stores[c.destination])
  IN  /\ fleet' = WithCargo(p, d.cargo)
      /\ stores' = [stores EXCEPT ![c.destination] = d.store]
      /\ GoodsOnly

Deliverable(c) == Arrived(c) /\ ~IsEmpty(c.cargo)

(* The loop of deliver_all, up to the n-th caravan: it stops at the first  *)
(* delivery that fails, or whose amount the running total cannot hold, and *)
(* undoes none of the earlier ones.                                        *)
Bulk ==
  LET after[n \in 0 .. Len(fleet)] ==
        IF n = 0 THEN [go |-> TRUE, fleet |-> fleet, stores |-> stores, total |-> 0]
        ELSE LET b == after[n - 1]
                 c == fleet[n]
                 d == DeliveryOf(c, b.stores[c.destination])
             IN  IF ~b.go \/ ~Deliverable(c) THEN b
                 ELSE [go     |-> d.ok /\ CanAdd(b.total, CargoTotal(c.cargo)),
                       fleet  |-> [b.fleet EXCEPT ![n] = [c EXCEPT !.cargo = d.cargo]],
                       stores |-> [b.stores EXCEPT ![c.destination] = d.store],
                       total  |-> b.total + CargoTotal(c.cargo)]
  IN  after[Len(fleet)]

DeliverAll ==
  /\ \A p \in DOMAIN fleet : Deliverable(fleet[p]) => fleet[p].destination \in settlements
  /\ fleet' = Bulk.fleet
  /\ stores' = Bulk.stores
  /\ GoodsOnly

-----------------------------------------------------------------------------
(* Time.  A run is a loop of steps over the clock, the day, the stores,    *)
(* the fleet and the catalog.                                              *)

Now == [tick |-> tick, day |-> day, stores |-> stores, fleet |-> fleet,
        catalog |-> catalog, elapsed |-> 0, arrived |-> {}]

(* advance_runtime_ticks.                                                  *)
Ticked(s, ticks) ==
  LET t == AdvanceTime(s.tick, ticks)
  IN  [s EXCEPT !.tick = t,
                !.fleet = [p \in DOMAIN s.fleet |-> Advance(s.fleet[p], ticks)],
                !.catalog = FailedIn(s.catalog, t),
                !.elapsed = s.elapsed + ticks,
                !.arrived = {p \in DOMAIN s.fleet : ArrivesWithin(s.fleet[p], ticks)}]

(* SimulationEngine::advance_day in a world without buildings: the day     *)
(* counter, a bare ++, and the food of every settlement's population.      *)
Fed(store, s) == [store EXCEPT ![Food] = store[Food] - RemovedUpTo(store, Food, Appetite[s])]

DayPassed(s) ==
  Ticked([s EXCEPT !.day = WrapAdd(s.day, 1),
                   !.stores = [x \in SettlementId |->
                                 IF x \in settlements THEN Fed(s.stores[x], x) ELSE s.stores[x]]],
         TicksPerDay)

(* A faulty variant: the last step is as long as the others.               *)
TickRunWholeSteps(total, step, untilArrival) ==
  LET run[n \in 0 .. total] ==
        IF n = 0 THEN Now
        ELSE LET s == run[n - 1]
             IN  IF s.elapsed >= total \/ (untilArrival /\ s.arrived # {}) THEN s
                 ELSE Ticked(s, step)
  IN  run[total]

(* run_runtime_ticks, and with untilArrival the run that breaks off at the *)
(* first step in which a caravan arrives.                                  *)
TickRun(total, step, untilArrival) ==
  LET run[n \in 0 .. total] ==
        IF n = 0 THEN Now
        ELSE LET s == run[n - 1]
             IN  IF s.elapsed >= total \/ (untilArrival /\ s.arrived # {}) THEN s
                 ELSE Ticked(s, AtMost(step, total - s.elapsed))
  IN  run[total]

(* run_runtime_days, run_runtime_until_first_caravan_arrival.              *)
DayRun(days, untilArrival) ==
  LET run[n \in 0 .. days] ==
        IF n = 0 THEN Now
        ELSE LET s == run[n - 1]
             IN  IF untilArrival /\ s.arrived # {} THEN s ELSE DayPassed(s)
  IN  run[days]

Reach(s) ==
  /\ tick' = s.tick
  /\ day' = s.day
  /\ stores' = s.stores
  /\ fleet' = s.fleet
  /\ catalog' = s.catalog
  /\ UNCHANGED <<owner, wallet, ledger, depot, settlements, routes, factions>>

AdvanceCaravanDay(p) ==
  /\ fleet' = [fleet EXCEPT ![p] = Advance(fleet[p], TicksPerDay)]
  /\ UNCHANGED <<tick, owner, catalog, wallet, ledger, depot, worldVars>>

RunTicks(total, step) == step > 0 /\ Reach(TickRun(total, step, FALSE))

RunDays(days) == Reach(DayRun(days, FALSE))

(* The first half of ..._and_fulfill_contract.  The arrival it settles is  *)
(* the first in fleet order among those of the last step.                  *)
Settling(s, f) ==
  IF s.arrived = {} THEN NoCall
  ELSE [faction |-> f, caravan |-> CHOOSE p \in s.arrived : \A q \in s.arrived : p <= q]

RunUntilArrival(max, step, f) ==
  /\ step > 0
  /\ Reach(TickRun(max, step, TRUE))
  /\ call' = Settling(TickRun(max, step, TRUE), f)

RunUntilArrivalDays(days, f) ==
  /\ Reach(DayRun(days, TRUE))
  /\ call' = Settling(DayRun(days, TRUE), f)

-----------------------------------------------------------------------------
(* fulfill_first_runtime_contract_for_owned_arrived_caravan: the first     *)
(* contract of the catalog whose fulfilment the recording call accepts.    *)

Settles(i, p, f) == OwnedBy(p, f) /\ CanSettleFromCaravan(i, p, "ledger")

(* A faulty variant: any contract that can be settled, not the first.      *)
FulfillAny(p, f) ==
  /\ \E i \in DOMAIN catalog :
       Settles(i, p, f) /\ FulfillFromArrivedCaravan(i, p, "ledger")
  /\ UNCHANGED worldVars

FulfillFirst(p, f) ==
  /\ \E i \in DOMAIN catalog :
       /\ Settles(i, p, f)
       /\ \A k \in 1 .. i - 1 : ~Settles(k, p, f)
       /\ FulfillFromArrivedCaravan(i, p, "ledger")
  /\ UNCHANGED worldVars

(* The second half of ..._and_fulfill_contract.                            *)
FulfillArrival ==
  /\ call # NoCall
  /\ call' = NoCall
  /\ \/ FulfillFirst(call.caravan, call.faction)
     \/ /\ \A i \in DOMAIN catalog : ~Settles(i, call.caravan, call.faction)
        /\ UNCHANGED <<vars, worldVars>>

-----------------------------------------------------------------------------
BuildCall ==
  \/ \E s \in SettlementId : CreateSettlement(s)
  \/ \E f \in Faction : AddFaction(f)
  \/ \E route \in RouteOffers : AddRoute(route)
  \/ \E offer \in Offers : AddRuntimeContract(offer)
  \/ \E p \in DOMAIN fleet, f \in Faction : SetRuntimeCaravanOwner(p, f)
  \/ \E k \in DOMAIN routes, id \in CaravanId, cargo \in Cargoes : CreateCaravan(k, id, cargo)

GoodsCall ==
  \/ \E s \in settlements, r \in Resource, n \in U64 : AddResource(s, r, n) \/ RemoveResource(s, r, n)
  \/ \E s, t \in settlements, r \in Resource, n \in U64 : TransferResource(s, t, r, n)
  \/ \E p \in DOMAIN fleet, r \in Resource, n \in U64 : Load(p, r, n) \/ Unload(p, r, n)
  \/ \E p \in DOMAIN fleet : Deliver(p)
  \/ DeliverAll

(* The contract calls a runtime makes on its own catalog.                  *)
BookCall ==
  /\ \/ \E i \in DOMAIN catalog : ContractCall(i)
     \/ \E t \in U64 : FailOverdue(t)
  /\ UNCHANGED worldVars

TimeCall ==
  \/ \E p \in DOMAIN fleet : AdvanceCaravanDay(p)
  \/ \E total, step \in U64 : RunTicks(total, step)
  \/ \E days \in U64 : RunDays(days)

ArrivalCall ==
  \E f \in Faction :
    \/ \E max, step \in U64 : RunUntilArrival(max, step, f)
    \/ \E days \in U64 : RunUntilArrivalDays(days, f)

RuntimeNext ==
  \/ /\ call = NoCall
     /\ \/ /\ call' = NoCall
           /\ \/ BuildCall \/ GoodsCall \/ BookCall \/ TimeCall
              \/ \E p \in DOMAIN fleet, f \in Faction : FulfillFirst(p, f)
        \/ ArrivalCall
  \/ FulfillArrival

RuntimeSpec == RuntimeInit /\ [][RuntimeNext]_runtimeVars

-----------------------------------------------------------------------------
(* Where goods, caravans and contracts may go.                             *)

OnRoute(c) ==
  /\ {c.origin, c.destination} \subseteq settlements
  /\ TicksLeft(c) <= TotalTicks(c)
  /\ \E k \in DOMAIN routes :
       /\ c.route = routes[k].id
       /\ c.origin = routes[k].origin
       /\ c.destination = routes[k].destination
       /\ TotalTicks(c) = RouteTicks(routes[k])

(* Every caravan travels a route of the catalog between settlements that   *)
(* exist, on that route's terms and never with more way to go than the     *)
(* route has, and its id names it alone: the lookups of a delivery cannot  *)
(* miss or find the wrong caravan.                                         *)
FleetOnRoutes ==
  /\ \A p, q \in DOMAIN fleet : fleet[p].id = fleet[q].id => p = q
  /\ \A p \in DOMAIN fleet : OnRoute(fleet[p])

CargoChanged(p) == fleet'[p].cargo # fleet[p].cargo

EmptiedBy(p) == IsEmpty(fleet'[p].cargo)

UnloadsWhole ==
  (tick' = tick /\ catalog' = catalog) =>
    LET touched == {p \in DOMAIN fleet : CargoChanged(p)}
    IN  \A p \in touched :
          /\ (\E q \in touched \ {p} : TRUE)
               => /\ EmptiedBy(p)
                  /\ \A q \in 1 .. p - 1 : Deliverable(fleet[q]) => EmptiedBy(q)
          /\ (\E r, x \in Resource : r # x /\ fleet'[p].cargo[r] # fleet[p].cargo[r]
                                           /\ fleet'[p].cargo[x] # fleet[p].cargo[x])
               => EmptiedBy(p)

(* A delivery is all or nothing for each caravan: one that loses more than *)
(* one resource in a step is empty after it, and so is each of several     *)
(* caravans unloaded by one bulk delivery, which takes them in fleet       *)
(* order and skips none that could be delivered before the last of them.   *)
DeliveredWhole == [][UnloadsWhole]_runtimeVars

(* What the stores of all settlements hold of a resource.                  *)
InStores(st, r) ==
  LET sum[S \in SUBSET SettlementId] ==
        IF S = {} THEN 0
        ELSE LET s == CHOOSE s \in S : TRUE IN st[s][r] + sum[S \ {s}]
  IN  sum[SettlementId]

KeepsGoods ==
  (Len(fleet') = Len(fleet) /\ day' = day) =>
    \A r \in Resource :
      LET before == InStores(stores, r) + Freight(fleet, r)
          after  == InStores(stores', r) + Freight(fleet', r)
      IN  after # before =>
            \/ /\ \A p \in DOMAIN fleet : ~CargoChanged(p)
               /\ \E s \in settlements : \A t \in SettlementId \ {s} : stores'[t] = stores[t]
            \/ /\ stores' = stores
               /\ \E i \in DOMAIN catalog :
                    /\ IsOpen(catalog[i]) /\ catalog' = WithStatus(i, "fulfilled")
                    /\ catalog[i].resource = r
                    /\ after + catalog[i].quantity = before

(* Loading, unloading, a transfer and every delivery, one that fails in    *)
(* the middle and is rolled back included, and a run of the clock neither  *)
(* create nor lose goods: the stock of the world changes only where a      *)
(* single store is filled or drawn by hand, by the quantity of the one     *)
(* contract that a caravan's cargo settled, where a caravan is created     *)
(* with cargo, or on a new day, when people eat.                           *)
GoodsConserved == [][KeepsGoods]_runtimeVars

(* An open contract the caravan cannot settle: too little cargo, or no     *)
(* room in the wallet.                                                     *)
OutOfReach(i) ==
  \/ fleet[call.caravan].cargo[catalog[i].resource] < catalog[i].quantity
  \/ ~CanAdd(wallet, catalog[i].reward)

ServesTheOldest ==
  call # NoCall =>
    /\ Arrived(fleet[call.caravan])
    /\ \A i \in DOMAIN catalog : ~IsOverdue(catalog[i], tick)
    /\ \A j \in DOMAIN catalog : (IsOpen(catalog[j]) /\ ~IsOpen(catalog'[j])) =>
         \A i \in 1 .. j - 1 : IsOpen(catalog[i]) => OutOfReach(i)

(* The automatic settlement uses the report of a run that is over: the     *)
(* arrival is real and no contract left open is overdue.  It serves the    *)
(* contracts of the book in the order they were added: it passes over an   *)
(* open contract only if the caravan's cargo or the wallet could not have  *)
(* settled that one.                                                       *)
OldestFirst == [][ServesTheOldest]_runtimeVars

(* How a host cuts a span of time into steps does not change where the     *)
(* world is at its end: run_runtime_ticks reaches the same clock, fleet    *)
(* and catalog with every step size; and a run until an arrival notices    *)
(* one that falls within the span with every step size, and stops less     *)
(* than one step after the caravan really arrived.                         *)
StepSizeIrrelevant ==
  \A total \in U64, step \in U64 \ {0} :
    LET fine   == TickRun(total, step, FALSE)
        whole  == TickRun(total, total, FALSE)
        exact  == TickRun(total, 1, TRUE)
        coarse == TickRun(total, step, TRUE)
    IN  /\ total > 0 => /\ fine.tick = whole.tick
                        /\ fine.fleet = whole.fleet
                        /\ fine.catalog = whole.catalog
        /\ coarse.arrived = {} <=> exact.arrived = {}
        /\ exact.arrived \subseteq coarse.arrived
        /\ coarse.elapsed < exact.elapsed + step
=============================================================================
