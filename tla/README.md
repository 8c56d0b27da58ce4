# City Life Core in TLA+

Specifications, model checks and proofs of the simulation core of City Life Core:
what a host can rely on when it drives settlements, caravans, contracts, saves
and server commands through the C++ API.  Paths below are relative to the
repository; `sim/`, `economy/` and `core/` stand for `src/clc/sim/` and so on.

## The system

City Life Core is a library. A host owns a `SimulationRuntime`, calls functions
on it from one thread and gets reports back. There are no threads, timers or
sockets inside: what interleaves is the *sequence of calls* a host makes, the
steps inside a call that may fail half-way, the process that may die while it
writes a save, and the network between players and an authoritative server.

| Component | State | Operations | What can go wrong |
|---|---|---|---|
| Time (`core/Time`) | a 64-bit tick | advance, days to ticks | saturation here, wrap-around elsewhere |
| Storage (`sim/Storage`) | resource to amount | add, try_remove, remove_up_to, transfer | overflow, half a transfer |
| Wallet, trade, ledger (`economy/Trade`, `economy/Ledger`) | coins; entries and the next sequence number | buy, sell, record, record_contract_reward, restore_entries | coins without entry, exhausted counter, a ledger that a save cannot restore |
| Routes and caravans (`sim/Routes`, `sim/Caravans`) | catalogs; a caravan has its way in days *and* in ticks | create, load, unload, advance | the two clocks disagree, goods move on the road, dangling references |
| Contracts (`sim/Contracts`, `sim/ContractRewards`) | catalog of contracts with a status | add, cancel, fail, mark, the deadline sweep, nine ways to fulfil | paid twice, fulfilled without goods, revived after the end |
| Factions, ownership (`sim/Factions`, `sim/Ownership`) | ids, owner of a caravan or settlement | add, set owner | an owner changes between a request and its execution |
| Runtime (`SimulationRuntimeWorkflow`, `SimulationRuntimeTick`) | all of the above | cargo delivery with rollback, bulk delivery, runs of ticks or days, runs until an arrival | a call that fails half-way, arrival against deadline, results that depend on the step size |
| Engine, settlements (`SimulationEngine`, `Settlement`) | day, settlements, buildings, tick remainders, events | resource commands, advance a day or some ticks | rounding drift, output without input |
| Persistence (`SimulationWorldState*`, `SimulationRuntimePersistence`) | the save file and its temporary file | capture, validate, serialise, write, rename or copy, parse, restore | a torn file, a world that cannot be saved or comes back different |
| Orders, market (`economy/Orders`, `economy/Market`) | two lists of orders during a call; demand | match orders, calculate a price, report a market | ties in the sort, partial fills, rounding against scarcity, sums that saturate |
| Development, production (`SettlementDevelopment`, `Production`) | none | production snapshot, plan over a horizon | a plan in whole days beside a clock that carries fractions |
| Snapshots, scenarios (`SimulationEngine`, `SimulationPersistence`) | the engine; a snapshot file | restore, run days or a scenario, snapshot, save in place, load | a file cut anywhere, a summary that does not add up |
| Processors, orchestration (`SimulationProcessor`, `RuntimeProcessorOrchestration`, `RuntimeCoreSystems`) | features, dependencies, processors | register, switch, order, one orchestrated step with a bounded list of events | an order that depends on how the registry was built, arrivals that are dropped |
| Deep and regional systems (`DeepSimulationSystems`, `RegionalSimulationSystems`) | none | evaluate needs, weather, policy, ecology, crises, markets, climate, migration | wrap-around of a product, scores out of range, evaluators that disagree |
| Large world (`LargeWorld`) | regions, assignments, configurations, references | add, assign, summarise | a catalog that is not told when the runtime changes |
| Data packs (`data/`) | definitions by id | load a text, a file, a directory; validate references | a failed load that is half registered, the order of files |
| World handle (`c/CityLifeCoreC`, `core/World`) | per handle a clock and an event log | create, advance, read, destroy | clock and log disagree after a failed call |
| Advice and summaries (`EconomyDepth`, `make_ledger_summary`, `make_contract_lifecycle_summary`) | none | assess a contract, plan a flow, sum up the books | advice that the call it is about does not keep |
| Event log (`SimulationRuntimeEvents`) | a list of events | append the events of a run, an arrival, a delivery; validate | events out of order, twice or missing |
| Formats and replay (`SimulationPersistenceReplay`) | none | review, migrate, compare | a migration that changes the world, a difference nobody sees |
| Server (`ActionAuthority`, `ServerAuthoritative`, `ActionBridge`, `MultiplayerReplay`) | envelopes, audits | review, dispatch, validate a sequence, replay | late, duplicated, reordered commands; changed owners; a replay that diverges |

How they meet: the runtime holds the catalogs, the wallet, the ledger and the
engine by value, and its workflow functions pass them to the functions of the
components. Settling a contract touches four of them at once (goods, contract,
wallet, ledger). Advancing the runtime moves the clock, every caravan and then
the contracts that are overdue at the new tick. The server reviews a command
against the runtime of the moment and passes it to the engine. Summaries, advice
and event logs are made from the state or from the reports of calls, and change
nothing: what can be wrong with them is how they relate to what the calls do.
The orchestration is a host's loop around the runtime's tick. The catalog of a large
world, the data registry while it is loaded, a snapshot file and a world behind the C
interface share no state with the runtime: the host alone relates them.

## Modules

| Module | Models |
|---|---|
| `Width` | unsigned integers of a fixed width, ticks and days |
| `Storage` | `ResourceStorage` |
| `Ledger` | `EconomyLedger` and the restoring of its entries |
| `Caravans` | routes, caravans, their validation and their advance |
| `Contracts` | the state machine of contracts, trades, the wallet, the ledger, owners and time |
| `Escrow` | the abstract book of contracts that `Contracts` implements |
| `Contracts_proofs` | theorems about `Contracts`; about a host that uses its recording calls (coins, the refinement to `Escrow`); about the advice of `ContractEconomy` |
| `Iteration` | induction, loops and sums over finite sets, for the proofs |
| `Runtime_proofs`, `Persistence_proofs`, `ServerActions_proofs`, `Orchestration_proofs`, `Settlement_proofs` | theorems about the module they are named after |
| `Standalone_proofs` | theorems about `WorldHandle`, `LargeWorld`, `DataPacks` and `Orders` |
| `ContractEconomy` | the assessment of a contract and the flow plans, beside the calls they are about |
| `Accounts` | the summaries of ledger and contracts |
| `Runtime` | the world around `Contracts`: settlements, routes, loading, delivery, runs |
| `RuntimeEvents` | the reports of runs, the event log made of them and its validation |
| `Settlement` | food and production of one settlement over ticks |
| `Persistence` | saving and loading the world of `Runtime` |
| `Migration` | the review of a save's format, its migration, the comparison of two runtimes |
| `Development` | production snapshot and development plan of that settlement, and its market |
| `CoreSystems` | the evaluators and validators of the deep and regional systems |
| `Orchestration` | the processor registry and a host that orchestrates `Runtime` |
| `Orders` | one call of `match_orders` |
| `Market` | prices, quotes and the report of a market |
| `Snapshots` | an engine of several settlements, its scenarios, its snapshots and their file |
| `LargeWorld` | the catalog of regions beside a runtime |
| `DataPacks` | the data registry and the loader of packs |
| `WorldHandle` | worlds behind the C interface |
| `ServerActions` | reviewed commands on the engine, their log and its replay |
| `MC...` | the small instances TLC checks |

`Width`, `Storage`, `Ledger`, `Caravans`, `Market` and `CoreSystems` have no variables:
they are the operators the state machines share. `Contracts` extends `Ledger` and `Caravans`,
`Runtime` extends `Contracts`, `Persistence` extends `Runtime`; each adds its
variables and leaves those of the lower module to it. `ContractEconomy` and
`Accounts` (over `Contracts`), `RuntimeEvents` (over `Runtime`) and `Migration` (over
`Persistence`) have no variables of their own: they are read-only in the code, and
their operators and properties speak of the states and steps below them.
`Development` extends `Settlement` and `Market` with the demands of the market, and
`Orchestration` extends `Runtime` and `CoreSystems` with the registry and what the host
heard. `ServerActions` stands beside on `Storage`, `Orders` on `Width`, `Snapshots` on
`Storage` and `Market`; `LargeWorld`, `DataPacks` and `WorldHandle` stand alone.
`MCStandalone` checks those that share no state in one run, each by itself: the variable
`part` chooses one and the others stay as they are.

Conventions:

* **A call is a step.** A call that the code refuses changes nothing and so is no
  step. The exceptions are written as steps: deliveries move goods before they
  fail, and a save fails in the middle. `run..._and_fulfill_contract` takes two
  steps, with the arrival it stopped at in `call`, so that the arrival can be
  looked at before it is settled; nothing comes between them.
* **Overflow.** `MaxU64` is the largest value of `std::uint64_t`. The instances
  give it a value from 2 to 11 (999 where percentages are computed, beside a `MaxU32` of
  255), so every overflow guard, every saturation and the
  exhaustion of the sequence counter are reached. It is also what keeps the state
  space finite: the state machines over the runtime need no other bound on their
  counters. Where the code writes a bare `+`, the model wraps around (`WrapAdd`).
* **Data.** Ids are strings or model values of small sets. A storage is a total
  function; an amount of 0 is an absent entry. Display names, notes and messages
  are left out. A world, a contract or a caravan is a record with the fields of its
  struct.
* **Faulty variants.** Operators commented as such are not used by the
  specification. Each is a plausible mistake in the operator below it; put in
  its place it makes one property fail, which shows that the property is able to.

### Contracts

One action per call: `AddContract`, `MarkContract` (cancel, fail, mark as
fulfilled), `FailOverdue`, `FulfillFromStorage`, `FulfillFromArrivedCaravan`,
`FulfillFromOwnedCaravan`, each in the modes `plain`, `reward` and `ledger` (the
nine fulfil functions), `SetCaravanOwner`, `Buy` and `Sell` with or without
recording, and `AdvanceTicks`. `CanSettle` collects the checks of the fulfil
functions in one place; the recording variants work on copies and commit after
the ledger accepted, so the step is atomic in the code as well.

### Runtime

`RuntimeNext` is one call of a host: building calls, goods calls, contract calls,
time calls and arrival calls. `DeliveryOf` is
`deliver_runtime_arrived_caravan_cargo_to_destination` including its rollback: the
cargo is moved entry by entry in the order of the resource ids until the engine
refuses one that its registry does not know, and what was moved is moved back.
`Bulk` is the loop over caravans, `TickRun` and `DayRun` are the loops over steps.
A settlement here has no buildings; production is the subject of `Settlement`.

### Advice, summaries and the event log

`DeliverableContract`, `StoragePlan` and `CaravanPlan` are translated from
`EconomyDepth`, and the properties compare them with `CanSettle` and the sweep of
`Contracts`, which come from other files. Reputations are functions of two factions
(`Standings`); the instance has the values at both sides of every threshold of
`classify_faction_access`. `Accounts` gives the figures of one resource; sums saturate
as in the code, net figures at half the width.

A report of `RuntimeEvents` is what one step of a run changed, and `Calls` is every run a
host might start in the present state, of ticks or days, with or without a stop at an
arrival and a settlement after it. An event is its tick, its type and the id or number it is
about; the wording of payloads is left out.

### Settlement

`Scaled` is `consume_scaled_units`: units per day times ticks, plus what the last
step left, divided by the ticks of a day. `Lived` is `advance_settlement_ticks`:
people eat first, then each building in turn counts its input and output units,
looks for its inputs and produces. A building that lacks inputs has lost the
counted time. Buildings of one kind share their counters. A restored building may
be unknown to the registry or have more workers than slots, as in the instance.

`Development` sees the buildings against the stores and the market. `MissingOver` and
`Opportunities` are the two lists of `make_settlement_development_plan`; the plan's
arithmetic is in whole days (`HorizonDays`), the settlement's in ticks.

### Persistence

A save is seven steps of one call (`BeginSave`, `OpenFails`, `WritePart`,
`WriteFails`, `WriteRest`, `Rename`, then `CopyPart`, `CopyRest` or `CopyFails` where
the system refuses the rename), and `Crash` may come after any of them: the
files stay, the runtime is new. A file is a prefix of the rows of a world;
the row it ends in may be torn, which is an error to the reader, or, for a route
or a caravan cut after its day fields, read as a row of an older version.
`Rows`, `AfterRow` and `Parsed` are serialise and deserialise, row by row, with the
fall-backs for older rows (`RouteFrom`, `CaravanFrom`, `ContractFrom`); `ReadOn` is the reader from
any of its states on, so that a file can be read section by section. `PersistAssumption` says
where a host starts: with a world its calls could have built (`Built`), ids unique, caravans on
its routes, goods of registered resources in settlements that exist.
`LoadSave` validates and installs a file, or is no step.
Two things are finer in the code: a number at the end of a row that is cut
may read as a smaller number, and a cut text field as a shorter text.
The operating system is taken at its word: `flush` and `rename` are not lost
afterwards (the code does not call `fsync`; a power failure is outside the model).
The rows follow the record order of the catalogs; settlements and factions come in
some fixed order.

`Migration` takes the rows of a world as an older version wrote them (`OlderRows`:
without the clock, or without the tick fields of routes, caravans or contracts, in
every combination, whole or cut anywhere), reviews them, migrates them and loads the
result with the reader of `Persistence`. `Mismatches` counts the rows that two
runtimes do not share.

### CoreSystems and Orchestration

`CoreSystems` has one operator per evaluator, a function from a record of counts and
percentages to a record of scores and the set of its reasons, with the wrap-around of both
widths. `CoreReport` feeds them as `evaluate_runtime_core_systems` does, from the first
settlement, the stores and the catalogs. `Orchestrate` is one orchestrated step: the
tick of `Runtime`, then the events offered to the bounded list (`Kept`), processors first,
diagnostics, arrivals last. `heard` and `lost` are history: what the host was told of each
caravan and what was dropped. `HostCall` and `RegistryCall` are what it does between two
steps; `StandardRegistry` is `make_standard_core_processor_registry`. Gates and order are
`EnabledInOrder`, where ids are compared by their rank. It sorts by insertion: as no two processors share
an id, `Before` is a strict order and leaves `std::sort` no choice. Which processors are evaluated
is not told in the events, only how many; that the list has as many entries is proved.

### Orders and Market

A state of `Orders` is one turn of the two loops of `match_orders`: `Trade`, `Pass` (the
`continue`s) or `LeaveBuy` (the `break` and the end of the inner loop). `OrdersInit`
drops invalid orders and sorts the rest; `std::sort` is not stable, so that every order
of ties is an initial state. `Volume` and `Worth` are what the call should come to, defined by the
two curves of the submitted orders alone, without a matching. `Idle` is the caller after the return, so that TLC can tell
the end of the call from a deadlock. `Market` is `calculate_price` and the quotes and report made
of it, checked where a settlement's store and demands change (`Development`).

### Snapshots

`Command` is a call of the engine, `Commanded` what a command leaves, an event also
when it was refused. `SnapshotOf` is `snapshot()` with its market report, `Rows` and `Read`
are serialise and deserialise. `SaveSnapshot` writes over the old file and leaves it
whole or cut at any character (`Torn`): between rows, inside one, or inside its
last field, where a number reads as its first digits and a text as its beginning.
The report of the save is no help: it is made before the stream is closed. `saved` remembers
what was to be written. The towns have no buildings.

### LargeWorld, DataPacks and WorldHandle

`LargeWorld` has one action per call that changes the catalog, and the three things that
happen beside it: an object is created, the runtime is replaced by a loaded one, an event is
logged. `wished` is history. That the stream of a region is found by its id anywhere in a text
is the constant `PartOf`.

`DataPacks` gives a file as its lines. `Parses`, `Registered` and `Unresolved` are the
three parts of a load; a load that fails keeps what `Registered` added, and a directory goes on
with its next file. `loaded` is history.

`WorldHandle` has the calls of one host on worlds behind pointers. An advance that runs
out of memory (`AdvancedInVain`) has moved the clock and answers 0; `answers` is history.

### ServerActions

`Submit` puts an envelope on its way, `Dispatch` delivers one of those sent, any
number of times and in any order; `AdvanceClock` and `SetSettlementOwner` are the
rest of the server changing the runtime meanwhile. `Authorized` is
`review_runtime_action_authority`, `EngineAfter` what the Action Bridge makes the
engine do, and `Replayed` the replay of the whole log into a new runtime. The engine
is its day, its stores and the number of its events.

## What is checked

Every run takes less than three minutes with two workers. All but one property are safety
and hold without fairness: a library that only acts when called promises no progress of its
own. `orchestration` assumes weak fairness of one thing, that a host which can go
on orchestrating does so, with any settings whose step is not 0; that is the main loop of a
host, and nothing is asked of its other calls.

| Run | Question | Bounds |
|---|---|---|
| `contracts_all` | Can a host that mixes all settlement calls, retries and trades get a contract paid twice, an ambiguous id, an unrestorable ledger, goods for nothing or coins from nowhere? Does the library's advice come true? | width 0..3, two contract ids, six offers (three invalid), one caravan, one depot, four wallets, nine reputations |
| `contracts_recorded` | With the recording calls only, do wallet, ledger and their summaries agree, and is every run one of `Escrow`? | width 0..4, as above |
| `runtime_goods` | Are goods conserved, also by deliveries that fail half-way, and what does the log say of them? | width 0..2, two resources (one unknown to the registry), two settlements, two caravans, five routes (three invalid or unusable) |
| `runtime_arrival` | Deadlines, arrivals, order of settlement, independence of step size, and the log of every run | width 0..3, day of 2 ticks, two caravans already on roads of 2 and 3 ticks, two contracts; every span and step size of the width |
| `saves` | Is a save atomic but for the copy, and a load consistent? Does every reachable world come back, also from the rows of older versions? Does the comparison see every step? | width 0..2, a road of one day of 2 ticks, one caravan, one contract. Two scenes: the calls that tell saves apart with failure and crash at every step and every prefix of the rows; every runtime call with the file system idle |
| `settlement_time` | Does cutting time change the result, is output paid for, does the development plan come true, do prices follow scarcity? | width 0..11, day of 3 ticks, two kinds of buildings and an unknown one, up to two buildings; every horizon of the width, cut anywhere |
| `server_actions` | Entitlement, audit and replay under delay, reordering and repetition | two submissions and two dispatches of five commands by two actors; clock 0..2, oldest command 1 tick |
| `orchestration` | Is the order of processors the registry's own, is every arrival told or counted as dropped, are the scores sound, and does everything end? | amounts 0..999, scores 0..255, two caravans, one contract, the empty and the standard registry, three more processors, four settings (one beyond the validators), `Horizon` 5, three other calls |
| `standalone` | Orders under every order of ties; a large world's catalog; retried loads of packs; the clock and log of a handle; torn snapshots and scenarios | see below |
| `save_midway`, `save_torn`, `server_replay` | see Disagreements found | a road of two days; as `saves`; as `server_actions` |

`standalone`: width 0..6. Every two books of up to two orders out of ten, and books of three
that tie. Two regions, one's id inside the other's, three objects, one
logged event. Nine packs (six of them faulty) and four directories in sequences of three loads. One
handle, advances in three units, four of them. Two towns, three resources (one unknown),
restored states near the last day and with nearly full stores, sequences of three calls with scenarios
of up to two days.

Two contracts and two caravans are enough for what relates two of them (double
payment, ambiguous ids, order of settlement, bulk delivery stopping at the first
of two). Two dispatches are enough for a duplicate, a reordering and a loss; three loads for
a failure, the missing pack and the retry; three engine calls for a state, a save over it and what
follows. `Offers`, `Cargoes`, `RouteOffers`, `Commands`, `Files` and `Configs` contain
invalid members, so the refusals are exercised. The bounds that the code does not have
are `MaxSubmitted`, `MaxDispatched` (`ServerActions`), `MaxBuildings` (`Settlement`),
`StockLimit` (`Settlement`, `Orchestration`), `Horizon`, `CallLimit` (`Orchestration`), `StreamLimit`,
`LoadLimit`, `EventLimit` and `CommandLimit` (parts of `standalone`). `CaravanId` is a symmetry set
in `runtime_arrival` and `runtime_goods`: ids are only compared, and the properties are safety properties.
`orchestration` and `standalone` do not check for deadlock, because their hosts stop at `Horizon`,
`CallLimit` and the bounds of the parts; `Horizon` lies after the last deadline and the longest road.

The properties that carry most:

* `OneRewardPerContract`: every reward in the ledger is that of one fulfilled
  contract on its terms, and no contract has two.
* `ImplementsEscrow`: refinement of `Contracts` to `Escrow`; offered once, settled at
  most once, paid exactly when settled, receipts numbered once.
* `WalletFollowsLedger`: coins move exactly as the entry appended in the same step says.
* `MeansForSomething`: in any mix of calls, recorded or not, goods leave the host only for coins or for one
  contract, and coins change by exactly one contract's reward
  or by a trade at its exact value, however full the wallet is. (`TypeOK` says less: the sums of the model
  wrap around within the type, as those of the code do, so that only a subtraction can violate it.)
* `GoodsConserved`: the goods of a world change only by hand, by one contract or on a new day.
* `DeliveredWhole`: a delivery moves all of a caravan or nothing.
* `StepSizeIrrelevant`, `SplitIrrelevant`: what a span of time does does not depend on
  how a host cuts it, for the clock, arrivals, deadlines and contracts, and, while nothing runs short,
  for a settlement.
* `SaveIsAtomic`, `LoadedIsConsistent`, `SaveLoadsBack`.
* `MigrationKeepsWorld`: whatever an older version left out, and wherever its file was
  cut, the migrated rows load as the same world or not at all.
* `EveryStepShows`: two runtimes of which one made a call more never match, although
  rows are compared sorted.
* `AdviceHolds`: advice about a contract, written a second time in another file, is exactly
  what the calls then do.
* `SummaryExplainsMeans`: coins and goods of a host change by what its ledger summary says.
* `LogTellsTheRun`: the log of a run is its history; each fate of a contract once and at
  its tick, arrivals once in the reports (and again and again in the log).
* `OldestFirst`: an automatic settlement takes the first contract of the book that it could settle.
* `PlanCoversTheHorizon`: a settlement whose plan misses nothing, and whose needs the type can hold, lives
  through the horizon without want, whatever fractions its counters carry and whichever buildings share them.
* `PlanFollowsTheMarket`: needs are pressing just when something will be missing or dear.
* `EverythingEnds` (liveness): every caravan arrives and every contract ends.
* `ArrivalsAnnounced`: an arrival is told in one call and never again; if it was dropped, the
  drop was counted.
* `OrderIsDeterministic`: processors run in an order that forgets how the registry was built.
* `DecisionFollowsShortage`, `ScoresAreSound`: three evaluators agree on what a shortage is, and
  valid settings give percentages, also where a product wraps around.
* `PriceFollowsScarcity`: prices follow supply and demand although two quotients are rounded and products saturate.
* `ClearsTheMarket`: the greedy matching trades as many units as can be traded at prices
  both sides accept, the cheapest, and nobody above his limit, in any order of ties.
* `SnapshotWarnsOfLoss`: wherever a snapshot was cut, what loads without a warning has the day and
  every settlement and amount that were saved.
* `ScenarioAddsUp`: snapshots, reports and summary of a scenario tell the same story: what was eaten is what
  the second snapshot lacks, each settlement is warned of on just the days its first stock does not last for, and the
  summary counts each such warning twice, once for the day and once for the settlement's tick
  (`SimulationEngine.cpp:99` and `:107`; `tests/simulation_tests.cpp:169` and `:195` expect it).
* `RegionsPartitionTheWorld`, `LoadsAreSettled`, `LogTellsTheClock`: what the catalog says of objects that
  are gone, what a retried load may change, and what a host that polls the log may conclude of the clock.
* `ChangeIsEntitled`: whatever changed while a command was on its way, the engine
  changes only by a command fresh and entitled at the moment it is dispatched.
* `ValidLogIsExactlyOnce`: the dispatch accepts duplicates; a log that the sequence
  validation accepts has none.

## Disagreements found

Three runs are expected to fail; each checks a sentence of the documentation.

* `save_midway` (`AlwaysSaveable`): `validate_caravan` demands that days and ticks
  left agree exactly, and `advance_caravan_ticks` rounds the days down. A caravan
  inside a day with a full day still to go makes the save refuse the whole
  runtime. `docs/core-concepts.md:17` promises save/load round trips, and
  `tests/runtime_full_roundtrip_tests.cpp:75` saves "mid-scenario", at a day's end.
* `save_torn` (`TornIsRefused`): where rename fails, the copy may leave a prefix of the
  rows. The format has no end mark, and a prefix between two rows loads as a smaller
  world. `docs/detailed-ai-roadmap.md:422`: corrupted saves do not fail silently.
* `server_replay` (`LogReplays`): the replay never moves the clock of its runtime, so
  that commands submitted after tick 0 come "from the future" and stale ones are fresh.
  `docs/persistence-replay-migration.md:82` advises to keep command logs between
  checkpoints. `ReplayReproduces` is what does hold: the replay is exact if owners
  never changed and the same envelopes are fresh.

## What is proved

Everything is proved for every value of the constants: every width of the integers, day
length, set of ids, offers, fleets, routes, stores and settings, from the named assumptions of the
modules. These say that constants have their types, that the empty owner and reference are no ids, and
that what the code adds up is finite (`RuntimeAssumption`, `ServerAssumption`,
`OrchestrationAssumption`, `DevelopmentAssumption`).

| Module | Theorem | Statement |
|---|---|---|
| `Contracts_proofs` | `TypeCorrect` | `Spec => []TypeOK` |
| | `TerminalContractsAreFinal` | `Spec => TerminalIsFinal` |
| | `LedgerRoundTrips` | `Spec => []LedgerSurvivesRestore` |
| | `ContractsStayUnique` | `Spec => []UniqueContracts` |
| | `NoContractPaidTwice` | `Spec => []OneRewardPerContract` |
| | `CoinsFollowTheLedger` | `Modes \subseteq {"ledger"}` implies `Spec => WalletFollowsLedger` |
| | `RecordingHostImplementsEscrow` | `Modes \subseteq {"ledger"}` implies `Spec => ImplementsEscrow` |
| | `AdviceIsRight` | `Spec => []AdviceHolds` |
| | `MeansMoveForSomething` | `Spec => MeansForSomething` |
| `Runtime_proofs` | `RuntimeTypeCorrect` | `RuntimeSpec => [](RuntimeTypeOK /\ CallReal)` |
| | `AnyStepSizeWillDo` | `RuntimeSpec => []StepSizeIrrelevant` |
| | `DeliveriesAreWhole` | `RuntimeSpec => DeliveredWhole` |
| | `RuntimeKeepsTheBook` | what `Contracts_proofs` says of the book, under every call of the runtime |
| | `RuntimeContractsAreFinal` | `RuntimeSpec => TerminalIsFinal` |
| | `TheOldestIsServed` | `RuntimeSpec => OldestFirst` |
| | `GoodsAreConserved` | `RuntimeSpec => GoodsConserved` |
| | `CaravansStayOnRoutes` | `RuntimeSpec /\ FleetOnRoutes /\ RoadsJoin => []FleetOnRoutes` |
| `Persistence_proofs` | `SavesAreAtomic` | `PersistSpec => SaveIsAtomic` |
| | `LoadsAreConsistent` | `PersistSpec => []LoadedIsConsistent` |
| | `SavesLoadBack` | `PersistSpec => []SaveLoadsBack` |
| `ServerActions_proofs` | `ServerTypeCorrect` | `ServerSpec => [](ServerTypeOK /\ SentNumbered)` |
| | `OnlyEntitledChanges` | `StrictPolicy /\ ServerSpec => ChangeIsEntitled` |
| | `ValidLogsAreExact` | `ServerSpec => []ValidLogIsExactlyOnce` |
| | `ReplaysReproduce` | `ServerSpec => []ReplayReproduces` |
| | `AuditsBalance` | `ServerSpec => []AuditBalances` |
| `Orchestration_proofs` | `OrchestrationIsARuntime` | `OrchestrationSpec => RuntimeSpec` |
| | `OrchestrationInherits` | the theorems about the runtime under the orchestration |
| | `DecisionsFollowShortage` | `OrchestrationSpec => []DecisionFollowsShortage` |
| | `ScoresStaySound` | `OrchestrationSpec => []ScoresAreSound` |
| | `OrderStaysDeterministic` | `OrchestrationSpec => []OrderIsDeterministic`, and no processor is left out or doubled |
| | `ArrivalsStayAnnounced` | `OrchestrationSpec /\ Setting => []ArrivalsAnnounced` |
| `Settlement_proofs` | `OutputsArePaidFor` | `SettlementSpec => []OutputIsPaidFor` |
| | `AnySplitWillDo` | `SettlementSpec => []SplitIrrelevant` |
| | `DevelopmentIsASettlement` | `DevelopmentSpec => SettlementSpec` |
| | `PricesFollowScarcity` | `DevelopmentSpec => []PriceFollowsScarcity` |
| | `PlansCoverTheHorizon` | `DevelopmentSpec => []PlanCoversTheHorizon` |
| | `PlansFollowTheMarket` | `DevelopmentSpec => []PlanFollowsTheMarket` |
| `Standalone_proofs` | `LogsTellTheClock` | `WorldHandleSpec => []LogTellsTheClock` |
| | `RegionsShareOutTheWorld` | `LargeWorldSpec => []RegionsPartitionTheWorld` |
| | `LoadsStaySettled` | `DataPacksSpec => LoadsAreSettled` |
| | `CallsClearTheMarket` | `OrdersSpec => []ClearsTheMarket` |

### Loops

The loops of the code are recursive functions of the models, whose n-th value is the state
after n rounds. `Iteration` has what is needed to reason about them: a nonempty set of naturals
has a least element (from the well-foundedness of `<`), hence induction up to a bound over a *set*
of numbers; a loop with a typed round has a function (`LoopExists`); the
same for sums over a row of numbers (`TotalExists`, `TotalGrows`) and over a finite set taken in an
unknown order (`SumExists`, `SumChanges`). Each
loop of a model is first unrolled (`TickRunUnrolled`, `BulkUnrolled`, `ReplayUnrolled`, `LivedUnrolled`,
...): there is a sequence of states from the start, each the round of the one before, and
the operator is its last. What it computes then follows from a loop invariant.

### Contracts and books

`TypeOK` is inductive once every action is shown to respect the guards before its
subtractions, and lemmas about `Put`, `Take`, `Advance` and the ledger carry it. A sum keeps its type
whether it wraps around or not; that the overflow checks of the code do their work is `MeansMoveForSomething`: under
them a reward or a price is added as it is (`AddsExactly`), and a trade changes the value of storage and
wallet together by nothing (`WorthMore`). The ledger needs the invariant that its
next number is one more than the number of its entries and the i-th entry has number i; the
counter is never handed out at its maximum, so the numbers restore in order.
`OneRewardPerContract` alone is not inductive: that no *second* entry for a
contract is written follows from the contract being open before the step,
the entries naming only fulfilled contracts, and ids being unique. The
inductive invariant is the conjunction with `UniqueContracts`; both directions are
one lemma per action.

`CoinsFollowTheLedger` and `RecordingHostImplementsEscrow` assume a host that settles and trades through the
recording calls only (`RecordingHost`; the other calls pay without a receipt, and `Escrow` forbids that).
Each of its steps is then quiet, one reward, or one recorded trade (`RecordedStep`). For the
refinement, `TypeOK`, `UniqueContracts` and `LedgerNumbered` together are the invariant: with unique
ids the state and price shown for an id are those of its one contract (`ShownAt`), and with
numbered entries the number of a new receipt is fresh (`ReceiptAdded`). Adding maps to
`Offer`, a reward to `Settle`, failing, cancelling and the sweep to `Drop` of the set that ended,
a trade to `Trade`, and every other call to a stutter. `AdviceIsRight` compares two formulations
of one decision; besides types it needs that every contract of the book is valid (`BookValid`).
What `MeansForSomething` says of goods is about a sum over all caravans, which changes by as much as the cargo of one of them
does (`FreightChanges`, from `TotalGrows` of `Iteration`).
The module stands over `ContractEconomy`, so that those above it carry its constant `Standings`, which their theorems do not use.

### Runtime

Every step of a runtime is a step of its book, of its fleet and of its roads (`StepShape`), one lemma
per group of calls. The book's part is a step of `Contracts`, a run of the clock with its sweeps, or a
settlement, so that the invariants of the book carry over.

* `StepSizeIrrelevant`: after n rounds of a run the state is the one a single advance by the elapsed
  ticks gives (`Reached`). Two advances add up because the rounding of days never reads what it wrote
  (`AdvanceAddsUp`), and the sweep of a later clock covers that of an earlier one (`SweepTwice`). For a run
  that watches for an arrival, `Watching` says that nobody who was under way has arrived before the last round.
* `DeliveredWhole`: a delivery that is refused half-way puts back what it moved (`RollbackRestores`); a
  bulk delivery has emptied or left each caravan, in order (`BulkSoFar`).
* `GoodsConserved`: the goods of the world are a sum over the stores and one over the fleet. A move between a
  store and a caravan changes both by as much (`GoodsMoved`), a refused delivery neither, and so each round of a bulk
  delivery leaves the total as it was (`BulkKeepsGoods`). A run leaves the stores alone until a day has passed, and
  the wrapping day counter cannot come back to where it was within one run (`DayRunDay`).
* `OldestFirst`: the run whose arrival is being settled has swept the book clean at its clock, and the
  call remembers an arrival of the fleet (`Outcome`, `CallReal`).
* `FleetOnRoutes` is no invariant from every start: a host may begin with a restored world. It is
  from every world with sound references, as `validate_simulation_world_state` demands them. Then it needs
  `RoadsJoin` beside it, that routes join settlements that exist.

### Saves and commands

`SaveIsAtomic` needs that a save under way was begun with a valid world, and that the
temporary file is whole by the time it is moved (`SaveUnderWay`).

`LoadedIsConsistent` follows a world into the file, through a crash, and out of it again. The ids, routes and
owners of what is loaded are checked by the reader, whatever the file holds. That every *reward* belongs to a
contract is not checked: it holds because a file is a part of a world the runtime had, and what is cut off is the end. The
contracts come before the ledger, so that a prefix with an entry has all contracts (`FileBooked`).

`SavesLoadBack` is the round trip of `RoundTrip`: the rows of a world are read back as that world with its stores and
cargoes. The reader is followed section by section (`ReadOn` from the state the section before has left):
settlements and their goods, routes, caravans and their cargoes, factions, owners, contracts, ledger, each by an
induction over its rows. The goods of a store are read in the order of `ResourceOrder`, hence its assumption that no
resource is listed twice: one would be written twice and read as the double. The reader finds a caravan for a row of cargo by
its id, and an owner's row names a caravan that exists, by the world being valid. What the
rows leave out must be nothing: goods outside of the settlements that exist or of
unregistered resources are an invariant of their own (`Stocked`), and so are routes and caravans that count in
ticks and a clock that has moved when a day has passed (`Clocked`), because the reader takes ticks of 0 for a
row of an older version.

`ChangeIsEntitled` holds under the switches `ActionAuthorityPolicy` declares
(`ActionAuthority.hpp:51`); a host that turns off a switch gives up the rule by intent.
That a valid log is exactly once needs that every submitted envelope has a number
of its own (`SentNumbered`). `ReplayReproduces` is inductive because a replay of a longer log is the replay of the
shorter one followed by one more dispatch (`ReplayAppend`). `AuditBalances` relates two sums, one over
settlements and one over the log: a command changes the stock of a resource by what its entry says
(`StockBalance`), as a sum over a finite set changes by what one of its terms does.

### Orchestration

An orchestrated step is a run of a single step (`OneStepRun`), and between two calls nothing is
left to settle (`HostIdle`). That makes the orchestration a refinement of `Runtime` with the same
variables, and every theorem about the runtime one about it. The evaluators are proved one by
one, from records of percentages to records of percentages. That more food makes nothing worse goes
through the sum of all stores (`SupplyOneMore`), the satisfaction and the price, each monotone
while its product fits.

`OrderIsDeterministic` rests on the invariant `BuiltRegistry`: ids are unique, every gate names something that is
registered, no processor belongs to an engine. The list of `EnabledInOrder` holds the processors with open gates
and grows strictly by `Before` (`OrderIsListed`); there is one such list of a set (`OneOrder`);
exchanging two registrations leaves the set as it was (`SameOpen`).

`ArrivalsAnnounced` is about counts. The events of a call hold each arrival at a place of its own and nothing else
about caravans (`OfferedArrivals`), and a cut keeps those before it. The arrivals it drops stand at different places
behind the cut, so that there are no more of them than events dropped (`PlacesBeyond`). The theorem
needs `Setting`: a host that starts with arrived caravans is never told of those.

### Settlements

Input and output counters of a kind of building move alike and start alike, so that they
never part (`CountersMoveAlike`): a building takes as many units of each input as it
makes of each output. With that, one building makes nothing unpaid (`MadeIsPaid`), nor does the loop.

`SplitIrrelevant` compares three runs of a loop whose rounds do *not* agree: a building may
make its unit in the first part of a span where the whole span makes it in another round, as buildings of a kind
share a counter. What does agree is the `Worth` of a settlement in fractions of a unit: what is
stored, plus what every counter has earned and still owes. A building that works moves it by its hands times the
ticks, whole units or not (`WorkingExactly`, `WorthMoves`), so that a span changes it by a number that
depends only on buildings, people and length (`LivedIsWorth`). The counters likewise gain
by the tick, up to whole units (`BuildingsCount`, `PeopleCount`); both ends being less than one unit, the remainders are the
same (`SplitRests`), and then the same worth leaves the same stores (`SplitAlike`).

`PriceFollowsScarcity` is about quotients. A larger shortage is a larger share of a larger demand
(`SharesGrow`, by multiplying crosswise), and division keeps the order (`QuotientsGrow`). Demands and stores keep
their width, so that this is so of every quote.

`PlanCoversTheHorizon` compares a sum of the plan, building by building and in whole days, with a loop that rounds
by the tick and lets buildings of a kind share a counter. Between the two stands `Stocked`: of each needed
resource there is as much as the counters will call for when they have earned what is still ahead of them, kind by
kind, with what the people will eat. The plan implies it at the start: a counter never carries a whole unit, so that it
hands out at most its daily units times the days begun (`UnitsOfDays`), and a sum over kinds is one over buildings
(`KindsWantNoMore`, from `SumOfPlaces`). Each round keeps it: a building finds its inputs, because its own call is part of
the sum, and takes of each what its counter's call falls by (`WorksFromStock`, `UnitsShared`), and
outputs only add. What is ahead of the second span is part of `Stocked` throughout the first.

`PlanFollowsTheMarket` relates two formulations of each fact: a need's priority and the price's side of the base value
(`NeedsArePressing`, from `PriceSides`), the count kept while three lists grow and the finished plan
(`HighAreCounted`: the lists share nothing and are finite), the sums of workers and of slots (`SumShrinks`), the average and
the extremes (`AveragesLieBetween`), the four counts of pressures and the number of quotes (`PartsAddUp`).

### Handles, regions and packs

`LogTellsTheClock` holds by an invariant of each world (`Sound`). The C calls mark the end of a log by the
id 0, which the id counter reaches when it wraps around; that no event has it needs that a log of `EventLimit` events
fits the width (`WorldHandleAssumption`: 2^64 of them do not fit a memory), and that the counter moves even when the
memory for the event is missing (`IdsLeft`).

`RegionsPartitionTheWorld` needs `CatalogOK`: one entry for each object, the last wish in it, its region
registered. Each object is then counted in exactly one summary (`PartsAddUp`), and the entries correspond one to one to the
objects they name, those in a region and those that are gone (`SameSize`).

`LoadsAreSettled` compares two loads of the same files in opposite orders. Every part of a load, one record, a
section, a file, a directory, stands in one relation to the records it has gone through (`Passed`): what was
defined stays, an acceptable record has its id taken, what is new is one of the records, and while no error was reported every
record stands in the registry. The relation is put together from its rounds (`PassedOn`, `PassedLoop`), and its
records are a *set*, the same for a directory backwards (`BackwardsType`). If nothing was reported, two
registries in this relation are equal (`SameDefinitions`). That a second load adds nothing needs the invariant
`PacksInv`: the records of every file tried before are taken, whether its load failed or not.

### Orders

`ClearsTheMarket` compares the loops with the crossing of two curves. `OrdersInv` says that the books left over
come from *some* sorting of the submitted orders (`Matching`), and that at every price the trades and what is left make up
what was submitted: exactly for the offers (`SellsBalance`), within bounds for the bids (`BuysBalance`), as a bid may have
bought below its price. At the return no price has both bids and offers left (`OneSideIsDone`, from the pairs
already seen), so that nowhere could more have been traded (`TradedEnough`). That not less was possible
either needs a *marginal* price for each resource, where the trades stem from bids at or above and offers at or below it:
the limit of the last bid that traded (`PairIsMarginal`), as bids before it are no cheaper and offers
still untouched no cheaper than those used (`CheapestFirst`). `Spent` is `Worth` because an execution at unit price u counts once for each price below u
(`SumBelow`). The totals are remainders of sums that wrapped around any number of times (`WrapsTo`), and no pair
trips over the guard against overflow, because what is left of a valid bid fits at its own limit (`PairsFit`).

### What the proofs found

* `ScoresAreSound` said that more food never makes content less, and holds only while the stock's product
  with 100 still fits after the unit is added; TLC had no state at that border.
* In two evaluators of `CoreSystems` a missing pair of parentheses made TLC compute
  `x % ((MaxU32 + 1) \div 4)`; the range lemma could not be proved.
* `SplitIrrelevant` and `OutputIsPaidFor` fail for a building that lists a resource twice, which the
  code accepts: it looks whether there is enough for one of the two inputs, and drops the second silently.
  The instances had no such building. Both properties now state the condition, and the case is a hazard
  of the code.

* `GoodsConserved` looked away when a step moved the clock, and took people's meals for such a step. A clock
  that stands at its last tick does not move while people eat on. The property now speaks of the day, and
  about settlements of contracts as well, which it left out.
* `PlanCoversTheHorizon` fails where the plan's own sum saturates: two buildings that need 6 units a day of which
  the type holds 3 find the plan content with a full store. No instance had two buildings that hungry. The
  property now asks that the exact need fits (`NothingMissing`); in 64 bits it fits unless the horizon is
  longer than any host would plan.

### Only model-checked

* `EverythingEnds` is liveness under fairness, out of the prover's reach.
* `DeliveriesLogged`, `LogTellsTheRun`, `SummaryExplainsMeans` and `ScenarioAddsUp` sum up
  or select with the folds and sequence operators of the libraries. A law about those takes an operator
  as its parameter, which no installed prover can instantiate, so that every use would have to be unrolled by itself.
* `MigrationKeepsWorld`, `EveryStepShows` and `SnapshotWarnsOfLoss`: not proved yet.
  `EveryStepShows` and the loading of rows also select and sort.

## Not modelled

Runtime scenarios (fixed scripts over calls that `Runtime` explores in every order), logistics
snapshots, snapshot summaries for synchronisation, the platform registry, the reviews of
multiplayer economy audits, portfolios and route analyses, the JSON text of actions, readiness
reports, audits, digests, game profiles and catalogs: they keep no state, and are constant
tables, lists or formatting. `PROJECT.json` gives the reason for each. Of the C interface, the calls
that return version, feature and catalog text are left out; its promise that strings may be
invalidated by a later advance (`docs/C_ABI.md:194`) is about memory, which the model does not have.
In the save, rows of buildings, remainders, demands, events, reputations and settlement
owners are left out; they follow the scheme of the rows that are there.

## Plan

1. *Core* (done): time, storage, ledger, caravans, contracts and their abstract book;
   the runtime; settlements; saves; server commands; the first theorems.
2. *Around the core* (done): the event log, advice and summaries, migration and
   comparison of saves, orders and prices.
3. *Extended* (done): processors, their orchestration and core systems, with liveness; development and
   production; the engine's snapshots and scenarios; the large world, data packs, the C handle.
4. *Prove* (well under way): contracts, their book and the advice, the runtime, saves, server commands,
   the orchestration, settlements and their plans, prices, orders, regions, data packs and the log of a world are
   proved. Next: `MigrationKeepsWorld`, `EveryStepShows`, `SnapshotWarnsOfLoss`.
5. *Later*: buildings, remainders, reputations and owners in the rows of a save; the reports of
   reputation and trade access; portfolios.
