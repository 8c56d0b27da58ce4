----------------------------- MODULE Snapshots -----------------------------
(***************************************************************************)
(* A SimulationEngine that a host commands, restores and runs scenarios    *)
(* on, and the snapshots it writes to a file for tools to read.  A file is *)
(* written in place, and the report of a save is made before the stream is *)
(* closed: a save that answers without an error may leave a torn file.     *)
(*                                                                         *)
(* The towns have no buildings, which module Settlement models; their rows *)
(* are written and read as those of storages.  A text is its length.       *)
(***************************************************************************)
EXTENDS Storage, Market, Sequences

LOCAL INSTANCE SequencesExt
LOCAL INSTANCE Functions

CONSTANTS
  Town,            (* settlement definitions of the registry                 *)
  Alphabet,        (* every resource, sorted by its id                       *)
  Food, Appetite,  (* what a day costs each town                             *)
  BaseValues,      (* base values of the resources of the registry           *)
  EngineStates,    (* states the host restores                               *)
  Gifts, Demands,  (* amounts the host adds, <<resource, demand>> it sets    *)
  TextLength,      (* the length of every text                               *)
  Radix,           (* numbers are written in it, 10 in the code              *)
  CommandLimit     (* bound: calls of the host                               *)

VARIABLES
  engine,          (* current_day_, settlements_, market_ and events_        *)
  file,            (* rows of the snapshot file                              *)
  saved,           (* history: the last snapshot whose save opened the file  *)
  scenario,        (* the last SimulationScenarioResult                      *)
  commands         (* calls counted against CommandLimit                     *)

engineVars == <<engine, file, saved, scenario, commands>>

None == [none |-> TRUE]

ASSUME SnapshotsAssumption ==
  /\ Alphabet \in Seq(Resource) /\ IsInjective(Alphabet) /\ ToSet(Alphabet) = Resource
  /\ Food \in Resource
  /\ Appetite \in [Town -> U64]
  /\ DOMAIN BaseValues \subseteq Resource
  /\ TextLength \in Nat \ {0} /\ Radix \in Nat \ {0, 1}

NoDemand == [r \in Resource |-> 0]

SnapshotsInit ==
  /\ engine = [day |-> 0, towns |-> << >>, demands |-> NoDemand, events |-> << >>]
  /\ file = << >>
  /\ saved = None
  /\ scenario = None
  /\ commands = 0

-----------------------------------------------------------------------------
(* Commands and days.                                                      *)

Note(day, type) == [day |-> day, type |-> type, text |-> TextLength]

NewTown(id) == [id |-> id, stock |-> EmptyStorage]

HasTown(e, id) == \E k \in DOMAIN e.towns : e.towns[k].id = id

(* What a command changed, with the event it leaves also when refused.     *)
Commanded(e, ok, towns) ==
  IF ok THEN [e EXCEPT !.towns = towns, !.events = Append(@, Note(e.day, "command.succeeded"))]
  ELSE [e EXCEPT !.events = Append(@, Note(e.day, "command.failed"))]

CreateTown(id) == Commanded(engine, ~HasTown(engine, id), Append(engine.towns, NewTown(id)))

GiveTown(id, r, n) ==
  LET given == {k \in DOMAIN engine.towns : engine.towns[k].id = id /\ CanPut(engine.towns[k].stock, r, n)}
  IN  Commanded(engine, r \in DOMAIN BaseValues /\ given # {},
                [k \in DOMAIN engine.towns |->
                   IF k \in given THEN [engine.towns[k] EXCEPT !.stock = Put(@, r, n)] ELSE engine.towns[k]])

(* SimulationEngine::restore_state; a state that is refused changes nothing*)
Restorable(state) ==
  /\ \A j, k \in DOMAIN state.towns : state.towns[j].id = state.towns[k].id => j = k
  /\ \A r \in Resource \ DOMAIN BaseValues :
       state.demands[r] = 0 /\ \A k \in DOMAIN state.towns : state.towns[k].stock[r] = 0

Eaten(town) == RemovedUpTo(town.stock, Food, Appetite[town.id])

(* SettlementTickReport of a day.                                          *)
TownTick(town) ==
  [eaten    |-> Eaten(town),
   warnings |-> IF Eaten(town) < Appetite[town.id] THEN <<"not enough food">> ELSE << >>]

DayEvents(e) ==
  LET day == WrapAdd(e.day, 1)
  IN  <<Note(day, "day.started")>>
        \o [k \in DOMAIN e.towns |-> Note(day, "settlement.advanced")]
        \o <<Note(day, "day.completed")>>

(* advance_day: the engine after it, and its report.                       *)
DayAdvanced(e) ==
  [e EXCEPT !.day = WrapAdd(@, 1),
            !.towns = [k \in DOMAIN e.towns |->
                         [e.towns[k] EXCEPT !.stock = Take(@, Food, Eaten(e.towns[k]))]],
            !.events = @ \o DayEvents(e)]

(* A day's warnings are those of its settlements, each with the id of its  *)
(* settlement before it, which is all that is kept of them here.           *)
DayReport(e) ==
  LET ticks == [k \in DOMAIN e.towns |-> TownTick(e.towns[k])]
  IN  [day |-> WrapAdd(e.day, 1), events |-> DayEvents(e), ticks |-> ticks,
       warnings |-> FlattenSeq([k \in DOMAIN ticks |->
                                  [w \in DOMAIN ticks[k].warnings |-> e.towns[k].id]])]

(* run_days: the states from the first to the last.                        *)
DaysRun(e, days) ==
  LET after[n \in 0 .. days] == IF n = 0 THEN e ELSE DayAdvanced(after[n - 1])
  IN  [n \in 1 .. days + 1 |-> after[n - 1]]

-----------------------------------------------------------------------------
(* SimulationEngine::snapshot.                                             *)

(* aggregate_storage: what would overflow is left out of the sum.          *)
Aggregate(towns) ==
  FoldLeft(LAMBDA sum, town : [r \in Resource |-> IF CanAdd(sum[r], town.stock[r]) THEN sum[r] + town.stock[r] ELSE sum[r]],
           EmptyStorage, towns)

TotalStored(stock) == FoldLeft(LAMBDA sum, r : SaturatingAdd(sum, stock[r]), 0, Alphabet)

TownReport(town) ==
  [id |-> town.id, total |-> TotalStored(town.stock),
   stored |-> LET held == SelectSeq(Alphabet, LAMBDA r : town.stock[r] > 0)
              IN  [k \in DOMAIN held |-> [resource |-> held[k], amount |-> town.stock[held[k]]]]]

SnapshotOf(e) ==
  LET quotes == Quotes(Aggregate(e.towns), e.demands, BaseValues)
      quoted == SelectSeq(Alphabet, LAMBDA r : r \in DOMAIN quotes)
      report == MarketReport(quotes)
  IN  [day    |-> e.day,
       towns  |-> [k \in DOMAIN e.towns |-> TownReport(e.towns[k])],
       market |-> [average |-> report.average, min |-> report.min, max |-> report.max],
       prices |-> [k \in DOMAIN quoted |-> [resource |-> quoted[k], quote |-> quotes[quoted[k]], text |-> TextLength]],
       events |-> e.events]

-----------------------------------------------------------------------------
(* serialize_simulation_snapshot.  A row is its kind, its fields and its   *)
(* last field, which is all that remains of a row whose end is missing.    *)

Row(kind, fields, last) == [kind |-> kind, fields |-> fields, last |-> last]

TownRows(town) ==
  <<Row("settlement", <<town.id>>, town.total)>>
    \o [k \in DOMAIN town.stored |-> Row("storage", <<town.id, town.stored[k].resource>>, town.stored[k].amount)]

MarketRows(s) ==
  <<Row("market", <<s.market.average, s.market.min>>, s.market.max)>>
    \o [k \in DOMAIN s.prices |-> Row("price", <<s.prices[k].resource, s.prices[k].quote>>, s.prices[k].text)]

Heading(s) == <<Row("CLC_SIM_SNAPSHOT", << >>, 1), Row("day", << >>, s.day)>>

EventRows(s) ==
  [k \in DOMAIN s.events |-> Row("event", <<s.events[k].day, s.events[k].type>>, s.events[k].text)]

(* A faulty variant: the market comes before the settlements.              *)
RowsMarketFirst(s) ==
  Heading(s) \o MarketRows(s) \o FlattenSeq([k \in DOMAIN s.towns |-> TownRows(s.towns[k])]) \o EventRows(s)

Rows(s) ==
  Heading(s) \o FlattenSeq([k \in DOMAIN s.towns |-> TownRows(s.towns[k])]) \o MarketRows(s) \o EventRows(s)

(* What is left of a last field that lost its end: the first digits of a   *)
(* number, or the beginning of a text, which may be empty.                 *)
Beginnings(row) ==
  IF row.kind \in {"price", "event"} THEN 0 .. row.last - 1
  ELSE {row.last \div Radix ^ k : k \in 1 .. MaxU64} \ {0}

Malformed == Row("malformed", << >>, 0)

(* The files a save may leave that is cut off at any character.            *)
Torn(rows) ==
  {SubSeq(rows, 1, k) : k \in 0 .. Len(rows) - 1}
    \cup UNION {{SubSeq(rows, 1, k - 1) \o <<[rows[k] EXCEPT !.last = n]>> : n \in Beginnings(rows[k])} : k \in DOMAIN rows}
    \cup {Append(SubSeq(rows, 1, k - 1), Malformed) : k \in DOMAIN rows}

-----------------------------------------------------------------------------
(* deserialize_simulation_snapshot, row after row.                         *)

NothingRead ==
  [ok |-> TRUE, header |-> FALSE, market |-> FALSE,
   snapshot |-> [day |-> 0, towns |-> << >>, market |-> [average |-> 0, min |-> 0, max |-> 0],
                 prices |-> << >>, events |-> << >>]]

Refused(s) == [s EXCEPT !.ok = FALSE]

StorageRead(s, row) ==
  LET k == SelectInSeq(s.snapshot.towns, LAMBDA town : town.id = row.fields[1])
  IN  IF k = 0 THEN Refused(s)
      ELSE [s EXCEPT !.snapshot.towns[k].stored = Append(@, [resource |-> row.fields[2], amount |-> row.last])]

DataRead(s, row) ==
  CASE row.kind = "malformed" -> Refused(s)
    [] row.kind = "storage" -> StorageRead(s, row)
    [] row.kind = "day" -> [s EXCEPT !.snapshot.day = row.last]
    [] row.kind = "settlement" ->
         [s EXCEPT !.snapshot.towns = Append(@, [id |-> row.fields[1], total |-> row.last, stored |-> << >>])]
    [] row.kind = "market" ->
         [s EXCEPT !.market = TRUE,
                   !.snapshot.market = [average |-> row.fields[1], min |-> row.fields[2], max |-> row.last]]
    [] row.kind = "price" ->
         [s EXCEPT !.snapshot.prices =
            Append(@, [resource |-> row.fields[1], quote |-> row.fields[2], text |-> row.last])]
    [] row.kind = "event" ->
         [s EXCEPT !.snapshot.events = Append(@, [day |-> row.fields[1], type |-> row.fields[2], text |-> row.last])]

RowRead(s, row) ==
  IF row.kind = "CLC_SIM_SNAPSHOT" THEN [s EXCEPT !.header = TRUE, !.ok = @ /\ row.last = 1]
  ELSE IF s.header THEN DataRead(s, row)
  ELSE Refused(s)

Read(rows) ==
  LET end == FoldLeft(RowRead, NothingRead, rows)
  IN  [ok |-> end.ok /\ end.header, warned |-> ~end.market, snapshot |-> end.snapshot]

-----------------------------------------------------------------------------
Call ==
  /\ commands < CommandLimit
  /\ commands' = commands + 1

Command(e) ==
  /\ Call
  /\ engine' = e
  /\ UNCHANGED <<file, saved, scenario>>

RestoreState(state) == Restorable(state) /\ Command(state)

(* MarketState::set_demand.                                                *)
SetTownDemand(r, n) == Command([engine EXCEPT !.demands[r] = n])

ClearEvents == Command([engine EXCEPT !.events = << >>])

AdvanceDay == Command(DayAdvanced(engine))

(* save_simulation_snapshot_to_file, once the file is open: it is whole,   *)
(* or torn by a write that fails, or by a close that fails or never comes, *)
(* which no report tells.                                                  *)
SaveSnapshot ==
  LET rows == Rows(SnapshotOf(engine))
  IN  /\ Call
      /\ file' \in {rows} \cup Torn(rows)
      /\ saved' = SnapshotOf(engine)
      /\ UNCHANGED <<engine, scenario>>

(* The ticks, the warnings and the events of all days, one after the other.*)
TicksOf(reports) == FlattenSeq([n \in DOMAIN reports |-> reports[n].ticks])

WarningsOf(reports) == FlattenSeq([n \in DOMAIN reports |-> reports[n].warnings])

EventsOf(reports) == FlattenSeq([n \in DOMAIN reports |-> reports[n].events])

(* A faulty variant: the settlements' own warnings are not counted again.  *)
WarningsOfDays(reports) == Len(WarningsOf(reports))

(* The warnings of a day's report are those of its settlements; the code   *)
(* adds them, and then those of every settlement's tick once more.         *)
WarningsCounted(reports) ==
  FoldLeft(LAMBDA n, t : n + Len(t.warnings), Len(WarningsOf(reports)), TicksOf(reports))

(* summarize_day_reports.                                                  *)
ReportSummary(reports) ==
  [days     |-> Len(reports),
   first    |-> IF reports = << >> THEN 0 ELSE Head(reports).day,
   last     |-> IF reports = << >> THEN 0 ELSE Last(reports).day,
   ticks    |-> Len(TicksOf(reports)),
   events   |-> Len(EventsOf(reports)),
   eaten    |-> FoldLeft(LAMBDA n, t : WrapAdd(n, t.eaten), 0, TicksOf(reports)),
   warnings |-> WarningsCounted(reports)]

(* run_scenario, and run_scenario_preset, which does nothing for 0 days.   *)
RunScenario(days) ==
  LET states  == DaysRun(engine, days)
      after   == states[days + 1]
      reports == [n \in 1 .. days |-> DayReport(states[n])]
  IN  /\ Call
      /\ engine' = after
      /\ scenario' = [initial |-> SnapshotOf(engine), final |-> SnapshotOf(after),
                      summary |-> ReportSummary(reports),
                      warnings |-> WarningsOf(reports),
                      delta |-> SubSeq(after.events, Len(engine.events) + 1, Len(after.events))]
      /\ UNCHANGED <<file, saved>>

(* scenario_result_duration_days, scenario_succeeded.                      *)
ScenarioDays(result) == IF result.final.day < result.initial.day THEN 0 ELSE result.final.day - result.initial.day

Succeeded(result) == result.warnings = << >>

SnapshotsNext ==
  \/ \E id \in Town : Command(CreateTown(id))
  \/ \E id \in Town, r \in Resource, n \in Gifts : Command(GiveTown(id, r, n))
  \/ \E state \in EngineStates : RestoreState(state)
  \/ \E d \in Demands : SetTownDemand(d[1], d[2])
  \/ ClearEvents
  \/ AdvanceDay
  \/ SaveSnapshot
  \/ \E days \in 0 .. 2 : RunScenario(days)

SnapshotsSpec == SnapshotsInit /\ [][SnapshotsNext]_engineVars

-----------------------------------------------------------------------------
Held(town, r) ==
  FoldLeft(LAMBDA n, e : IF e.resource = r THEN n + e.amount ELSE n, 0, town.stored)

StoredIn(snapshot, r) == FoldLeft(LAMBDA sum, town : sum + Held(town, r), 0, snapshot.towns)

(* Wherever a file was cut off, also in the middle of a number: what loads *)
(* without an error or a warning has the day, every settlement and every   *)
(* amount that were saved, though it may lack prices and events at its     *)
(* end; a load with only a warning names settlements in the order saved;   *)
(* and a whole file gives the snapshot it was made from.                   *)
SnapshotWarnsOfLoss ==
  LET read == Read(file)
      got  == read.snapshot
  IN  saved # None /\ read.ok =>
        /\ \A k \in DOMAIN got.towns : got.towns[k].id = saved.towns[k].id
        /\ ~read.warned =>
             /\ got.day = saved.day /\ got.towns = saved.towns
             /\ IsPrefix(SubSeq(got.events, 1, Len(got.events) - 1), saved.events)
             /\ got.events # << >> => Len(got.prices) = Len(saved.prices) /\ got.market = saved.market
        /\ file = Rows(saved) => ~read.warned /\ got = saved

HungryDays(town, days) == {n \in 1 .. days : n * Appetite[town.id] > Held(town, Food)}

(* A scenario's result is of one piece: its two snapshots bracket the      *)
(* events of its reports, one of each settlement and two more of every day,*)
(* dated by the days that passed; what its summary says was eaten is what  *)
(* the second snapshot lacks; it warns of each settlement on just the days *)
(* its first stock does not last for, the summary counts every warning     *)
(* twice (tests/simulation_tests.cpp:195), and it succeeds just when       *)
(* everybody had enough; its duration is the number of its days, and the   *)
(* days it names are the first and the last of them, until the day wraps.  *)
ScenarioAddsUp ==
  scenario # None =>
    LET s == scenario.summary
        towns == scenario.initial.towns
        missing == StoredIn(scenario.initial, Food) - StoredIn(scenario.final, Food)
    IN  /\ scenario.final.events = scenario.initial.events \o scenario.delta
        /\ Len(scenario.delta) = s.events /\ s.events = s.ticks + 2 * s.days
        /\ s.ticks = s.days * Len(towns)
        /\ \A k \in DOMAIN scenario.delta :
             scenario.delta[k].day = WrapAdd(scenario.initial.day, 1 + (k - 1) \div (Len(towns) + 2))
        /\ s.eaten = missing % (MaxU64 + 1)
        /\ \A k \in DOMAIN towns :
             Cardinality({w \in DOMAIN scenario.warnings : scenario.warnings[w] = towns[k].id})
               = Cardinality(HungryDays(towns[k], s.days))
        /\ s.warnings = 2 * Len(scenario.warnings)
        /\ Succeeded(scenario) <=>
             missing = s.days * FoldLeft(LAMBDA n, town : n + Appetite[town.id], 0, towns)
        /\ ScenarioDays(scenario) = s.days \/ ~CanAdd(scenario.initial.day, s.days)
        /\ s.days > 0 => /\ s.first = WrapAdd(scenario.initial.day, 1)
                         /\ s.last = scenario.final.day
=============================================================================
