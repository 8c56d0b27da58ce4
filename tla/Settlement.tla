----------------------------- MODULE Settlement -----------------------------
(***************************************************************************)
(* One settlement over time: its people eat and its buildings turn inputs  *)
(* into outputs, in whole units.  What a step of the clock leaves short of *)
(* a whole unit is kept in tick_remainders, under a key of its own for     *)
(* every kind of consumption, and counts in the next step.                 *)
(*                                                                         *)
(* The storage that Runtime keeps for a settlement and draws food from is  *)
(* the one seen here from the inside, with buildings.                      *)
(***************************************************************************)
EXTENDS Storage, Sequences

CONSTANTS
  Definitions,     (* building definitions by id, of the DataRegistry        *)
  Food,            (* the resource people eat, "grain" in the code           *)
  Population,      (* SettlementState::population                            *)
  PeoplePerFood,   (* k_people_per_food_unit, 10 in the code                 *)
  Unregistered,    (* a building id the registry does not have               *)
  InitialStores,   (* storages the settlement may start with                 *)
  InitialBuildings,(* buildings it may have at the start, e.g. from a save   *)
  NewBuildings,    (* buildings the host tries to add                        *)
  MaxBuildings,    (* bound: buildings of the settlement                     *)
  StockLimit       (* bound: the host refills a resource up to this          *)

VARIABLES
  storage,         (* SettlementState::storage                               *)
  buildings,       (* SettlementState::buildings, in order                   *)
  remainders       (* SettlementState::tick_remainders; 0 for an absent key  *)

settlementVars == <<storage, buildings, remainders>>

BuildingId == DOMAIN Definitions

BuildingDefinitions == [slots : U64, inputs : Seq(Resource), outputs : Seq(Resource)]

BuildingInstances == [definition : BuildingId \cup {Unregistered}, workers : U64]

Keys == {<<"food", Food>>} \cup ({"input", "output"} \X BuildingId)

ASSUME SettlementAssumption ==
  /\ \A b \in BuildingId : Definitions[b] \in BuildingDefinitions
  /\ Unregistered \notin BuildingId
  /\ Food \in Resource
  /\ Population \in U64
  /\ PeoplePerFood \in Nat \ {0}
  /\ InitialStores \subseteq Storages
  /\ InitialBuildings \subseteq Seq(BuildingInstances)
  /\ NewBuildings \subseteq BuildingInstances
  /\ MaxBuildings \in Nat
  /\ StockLimit \in U64

SettlementInit ==
  /\ storage \in InitialStores
  /\ buildings \in InitialBuildings
  /\ remainders = [k \in Keys |-> 0]

-----------------------------------------------------------------------------
(* One step of the clock, as a function of the storage and the remainders. *)

FoodNeeded == IF Population = 0 THEN 0 ELSE (Population - 1) \div PeoplePerFood + 1

SaturatingMultiply(a, b) == IF MultiplyOverflows(a, b) THEN MaxU64 ELSE a * b

(* A faulty variant: what is left of the last step is forgotten.           *)
ScaledAnew(rest, key, perDay, ticks) ==
  LET numerator == SaturatingMultiply(perDay, ticks)
  IN  IF perDay = 0 \/ ticks = 0 THEN [units |-> 0, rest |-> rest]
      ELSE [units |-> numerator \div TicksPerDay,
            rest  |-> [rest EXCEPT ![key] = numerator % TicksPerDay]]

(* consume_scaled_units: the whole units due under a key, and what is left.*)
Scaled(rest, key, perDay, ticks) ==
  LET numerator == SaturatingAdd(rest[key], SaturatingMultiply(perDay, ticks))
  IN  IF perDay = 0 \/ ticks = 0 THEN [units |-> 0, rest |-> rest]
      ELSE [units |-> numerator \div TicksPerDay,
            rest  |-> [rest EXCEPT ![key] = numerator % TicksPerDay]]

SettlementNow == [storage |-> storage, rest |-> remainders, short |-> {}]

(* The people eat first, and what they do not find they do not get later.  *)
Eating(s, ticks) ==
  LET due == Scaled(s.rest, <<"food", Food>>, FoodNeeded, ticks)
      found == RemovedUpTo(s.storage, Food, due.units)
  IN  [storage |-> [s.storage EXCEPT ![Food] = @ - found],
       rest    |-> due.rest,
       short   |-> s.short \cup IF found < due.units THEN {"food"} ELSE {}]

(* A faulty variant: nobody looks whether the inputs are there.            *)
HasInputsAlways(held, inputs, n) == TRUE

HasInputs(held, inputs, n) == \A k \in DOMAIN inputs : held[inputs[k]] >= n

(* consume_inputs, input by input.                                         *)
WithoutInputs(held, inputs, n) ==
  LET after[k \in 0 .. Len(inputs)] ==
        IF k = 0 THEN held
        ELSE IF CanTake(after[k - 1], inputs[k], n) THEN Take(after[k - 1], inputs[k], n)
        ELSE after[k - 1]
  IN  after[Len(inputs)]

(* The outputs, one by one; one that does not fit is lost.                 *)
WithOutputs(held, outputs, n) ==
  LET after[k \in 0 .. Len(outputs)] ==
        IF k = 0 THEN [storage |-> held, lost |-> {}]
        ELSE IF CanPut(after[k - 1].storage, outputs[k], n)
        THEN [after[k - 1] EXCEPT !.storage = Put(@, outputs[k], n)]
        ELSE [after[k - 1] EXCEPT !.lost = IF n > 0 THEN {"room"} ELSE @]
  IN  after[Len(outputs)]

(* One building of the loop.  Its two counters move before it is known     *)
(* whether the inputs are there: a skipped building has lost that time.    *)
Working(s, building, ticks) ==
  LET def     == Definitions[building.definition]
      workers == AtMost(building.workers, def.slots)
      input   == Scaled(s.rest, <<"input", building.definition>>, workers, ticks)
      output  == Scaled(input.rest, <<"output", building.definition>>, workers, ticks)
      counted == [s EXCEPT !.rest = output.rest]
      made    == WithOutputs(WithoutInputs(s.storage, def.inputs, input.units), def.outputs, output.units)
  IN  IF building.definition = Unregistered \/ workers = 0 THEN s
      ELSE IF input.units = 0 /\ output.units = 0 THEN counted
      ELSE IF ~HasInputs(s.storage, def.inputs, input.units) THEN [counted EXCEPT !.short = @ \cup {"inputs"}]
      ELSE [counted EXCEPT !.storage = made.storage, !.short = @ \cup made.lost]

(* advance_settlement_ticks.  `short' says what warnings were about:       *)
(* missing food, missing inputs or missing room.                           *)
Lived(s, ticks) ==
  LET after[n \in 0 .. Len(buildings)] ==
        IF n = 0 THEN Eating(s, ticks) ELSE Working(after[n - 1], buildings[n], ticks)
  IN  after[Len(buildings)]

-----------------------------------------------------------------------------
AdvanceSettlement(ticks) ==
  /\ storage' = Lived(SettlementNow, ticks).storage
  /\ remainders' = Lived(SettlementNow, ticks).rest
  /\ UNCHANGED buildings

(* add_building.                                                           *)
AddBuilding(building) ==
  /\ Len(buildings) < MaxBuildings
  /\ building.definition \in BuildingId
  /\ building.workers <= Definitions[building.definition].slots
  /\ buildings' = Append(buildings, building)
  /\ UNCHANGED <<storage, remainders>>

(* The host brings goods in, or takes them.                                *)
Supply(r, n) ==
  /\ storage[r] + n <= StockLimit
  /\ CanPut(storage, r, n)
  /\ storage' = Put(storage, r, n)
  /\ UNCHANGED <<buildings, remainders>>

Draw(r, n) ==
  /\ CanTake(storage, r, n)
  /\ storage' = Take(storage, r, n)
  /\ UNCHANGED <<buildings, remainders>>

SettlementNext ==
  \/ \E ticks \in U64 : AdvanceSettlement(ticks)
  \/ \E building \in NewBuildings : AddBuilding(building)
  \/ \E r \in Resource, n \in U64 : Supply(r, n) \/ Draw(r, n)

SettlementSpec == SettlementInit /\ [][SettlementNext]_settlementVars

-----------------------------------------------------------------------------
(* What a settlement's clock must not do.                                  *)

(* The span does not reach the saturation of the counters.                 *)
Countable(ticks) ==
  \A n \in {FoodNeeded} \cup {buildings[k].workers : k \in DOMAIN buildings} :
    n * ticks + TicksPerDay <= MaxU64

ListsOnce(items, r) == \A j, k \in DOMAIN items : items[j] = r /\ items[k] = r => j = k

(* No definition lists an input twice.  The code allows it, looks only     *)
(* whether there is enough for one of the two, and tells nobody when the   *)
(* second is missing.                                                      *)
InputsListedOnce == \A b \in BuildingId, r \in Resource : ListsOnce(Definitions[b].inputs, r)

(* Cutting a span of time in two changes nothing, neither in the stores    *)
(* nor in the remainders, unless food, an input or room ran short: no unit *)
(* is rounded away and none is counted twice, from whatever remainders the *)
(* earlier steps, in whatever sizes, have left behind.                     *)
SplitIrrelevant ==
  InputsListedOnce =>
    \A a, b \in U64 :
      LET parts == Lived(Lived(SettlementNow, a), b)
          whole == Lived(SettlementNow, a + b)
      IN  (Countable(a + b) /\ parts.short = {} /\ whole.short = {}) => parts = whole

Makers(r) == {b \in BuildingId : \E k \in DOMAIN Definitions[b].outputs : Definitions[b].outputs[k] = r}

(* r has makers, each of which lists it once and needs i, and nobody makes *)
(* i.                                                                      *)
Cost(r, i) ==
  /\ Makers(r) # {} /\ Makers(i) = {}
  /\ \A b \in Makers(r) :
       /\ ListsOnce(Definitions[b].outputs, r)
       /\ \E k \in DOMAIN Definitions[b].inputs : Definitions[b].inputs[k] = i

(* Nothing is made from nothing: while the clock runs, a resource grows by *)
(* at most what its makers took of an input that all of them need, however *)
(* many buildings worked and whichever of them had to be skipped.          *)
OutputIsPaidFor ==
  \A ticks \in U64, r, i \in Resource : Cost(r, i) =>
    LET after == Lived(SettlementNow, ticks).storage
    IN  after[r] + after[i] <= storage[r] + storage[i]
=============================================================================
