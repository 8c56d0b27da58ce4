---------------------------- MODULE Persistence ----------------------------
(***************************************************************************)
(* Saving a runtime to a file and loading it back.                         *)
(*                                                                         *)
(* A save validates the world, writes it row by row to <path>.tmp, renames *)
(* that over <path> and, where the system refuses the rename, copies it    *)
(* over <path> instead.  The process may die between any two of these      *)
(* steps and starts again with a new world; the files stay.  What a write  *)
(* cut short leaves is a prefix of the rows, the last of them perhaps torn.*)
(***************************************************************************)
EXTENDS Runtime, SequencesExt

VARIABLES
  saved,           (* the file at path                                       *)
  temp,            (* the file at path.tmp                                   *)
  phase,           (* how far the save under way has come                    *)
  report           (* what the last save told the host                       *)

fileVars == <<saved, temp, phase, report>>

persistVars == <<runtimeVars, fileVars>>

NoFile == [rows |-> 0]

-----------------------------------------------------------------------------
(* SimulationWorldState: capture, and the check before a save and a load.  *)

World ==
  [day |-> day, tick |-> tick, wallet |-> wallet, settlements |-> settlements,
   stores |-> stores, routes |-> routes, fleet |-> fleet, factions |-> factions,
   owner |-> owner, catalog |-> catalog, entries |-> ledger.entries]

NewWorld ==
  [day |-> 0, tick |-> 0, wallet |-> 0, settlements |-> {},
   stores |-> [s \in SettlementId |-> EmptyStorage], routes |-> << >>, fleet |-> << >>,
   factions |-> {}, owner |-> [c \in CaravanId |-> NoFaction], catalog |-> << >>,
   entries |-> << >>]

UniqueIds(records) ==
  \A i, j \in DOMAIN records : records[i].id = records[j].id => i = j

(* validate_simulation_world_state.                                        *)
ValidWorld(w) ==
  /\ UniqueIds(w.routes) /\ UniqueIds(w.fleet) /\ UniqueIds(w.catalog)
  /\ \A k \in DOMAIN w.routes : ValidRoute(w.routes[k], w.settlements)
  /\ \A p \in DOMAIN w.fleet :
       \E k \in DOMAIN w.routes : MatchesRoute(w.fleet[p], w.routes[k])
  /\ \A c \in CaravanId : w.owner[c] # NoFaction =>
       w.owner[c] \in w.factions /\ \E p \in DOMAIN w.fleet : w.fleet[p].id = c
  /\ \A i \in DOMAIN w.catalog :
       ValidContract(w.catalog[i]) /\ {w.catalog[i].issuer, w.catalog[i].receiver} \subseteq w.factions
  /\ Restorable(w.entries)

-----------------------------------------------------------------------------
(* Rows: one per record, and one per resource a store or a cargo holds.    *)

AmountRows(kind, id, storage) ==
  FlattenSeq([k \in DOMAIN ResourceOrder |->
    LET r == ResourceOrder[k]
    IN  IF storage[r] > 0 THEN <<[kind |-> kind, id |-> id, resource |-> r, n |-> storage[r]]>> ELSE << >>])

RowsOf(kind, records) == [k \in DOMAIN records |-> [kind |-> kind, record |-> records[k]]]

(* serialize_simulation_world_state writes the ticks it falls back on.     *)
RouteRow(route) == [kind |-> "route", record |-> [route EXCEPT !.ticks = RouteTicks(route)]]

CaravanRow(c) ==
  [kind |-> "caravan",
   record |-> [c EXCEPT !.totalTicks = TotalTicks(c), !.ticksLeft = TicksLeft(c), !.cargo = EmptyStorage]]

SettlementRows(w) ==
  LET places == SetToSeq(w.settlements)
  IN  FlattenSeq([k \in DOMAIN places |->
        <<[kind |-> "settlement", id |-> places[k]]>>
        \o AmountRows("settlement_storage", places[k], w.stores[places[k]])])

FleetRows(w) ==
  FlattenSeq([p \in DOMAIN w.fleet |->
    <<CaravanRow(w.fleet[p])>> \o AmountRows("caravan_cargo", w.fleet[p].id, w.fleet[p].cargo)])

OwnerRows(w) ==
  LET owned == SetToSeq({c \in CaravanId : w.owner[c] # NoFaction})
  IN  [k \in DOMAIN owned |-> [kind |-> "caravan_owner", id |-> owned[k], faction |-> w.owner[owned[k]]]]

ContractRows(w) ==
  RowsOf("contract", [i \in DOMAIN w.catalog |-> [w.catalog[i] EXCEPT !.dueTicks = DueTicks(w.catalog[i])]])

LedgerRows(w) == RowsOf("ledger", w.entries)

Header == "CLC_SIM_WORLD_STATE"

(* serialize_simulation_world_state, in the order it writes the rows.      *)
Rows(w) ==
  <<[kind |-> Header], [kind |-> "day", n |-> w.day],
    [kind |-> "time", n |-> w.tick], [kind |-> "wallet", n |-> w.wallet]>>
  \o SettlementRows(w)
  \o [k \in DOMAIN w.routes |-> RouteRow(w.routes[k])]
  \o FleetRows(w)
  \o RowsOf("faction", SetToSeq(w.factions))
  \o OwnerRows(w)
  \o ContractRows(w)
  \o LedgerRows(w)

(* Older versions wrote some rows without the fields that count in ticks.  *)
TickFields ==
  [route |-> {"ticks"}, caravan |-> {"totalTicks", "ticksLeft"}, contract |-> {"dueTicks"}]

LegacyRow(row) ==
  [row EXCEPT !.record = Restrict(row.record, DOMAIN row.record \ TickFields[row.kind])]

(* A file holds the first rows of a world and, where it was cut, nothing   *)
(* or the beginning of the next one.  A route or a caravan loses its ticks *)
(* first: the rest of the row reads as a legacy row.                       *)
Whole(w) == [rows |-> Len(Rows(w)), tail |-> "none", world |-> w]

Parts(w) ==
  {file \in [rows : 0 .. Len(Rows(w)) - 1, tail : {"none", "torn", "legacy"}, world : {w}] :
     file.tail = "legacy" => Rows(w)[file.rows + 1].kind \in {"route", "caravan"}}

Content(file) ==
  LET rows == SubSeq(Rows(file.world), 1, file.rows)
  IN  CASE file.tail = "none" -> rows
        [] file.tail = "torn" -> Append(rows, [kind |-> "torn"])
        [] file.tail = "legacy" -> Append(rows, LegacyRow(Rows(file.world)[file.rows + 1]))

-----------------------------------------------------------------------------
(* deserialize_simulation_world_state, one row at a time.  A torn row has  *)
(* too few fields or an empty number, and is an error.                     *)

(* The record of a row: ticks it lacks are those of its days.              *)
Completed(r, fallback) ==
  [f \in DOMAIN r \cup DOMAIN fallback |-> IF f \in DOMAIN r THEN r[f] ELSE fallback[f]]

RouteFrom(r) == Completed(r, [ticks |-> DaysToTicks(r.days)])

CaravanFrom(r) ==
  Completed(r, [totalTicks |-> DaysToTicks(r.totalDays), ticksLeft |-> DaysToTicks(r.daysLeft)])

ContractFrom(r) == Completed(r, [dueTicks |-> DaysToTicks(r.dueDay)])

(* caravan_cargo_by_id: the first caravan of that id.                      *)
Carriers(w, row) == {p \in DOMAIN w.fleet : w.fleet[p].id = row.id}

Carrier(w, row) == CHOOSE p \in Carriers(w, row) : \A q \in Carriers(w, row) : p <= q

WithStock(st, row) == [st EXCEPT ![row.id] = Put(st[row.id], row.resource, row.n)]

WithGoods(f, p, row) == [f EXCEPT ![p] = [f[p] EXCEPT !.cargo = Put(f[p].cargo, row.resource, row.n)]]

(* The goods of a row have a place, and fit into it.                       *)
Fits(w, row) ==
  /\ row.kind = "settlement_storage" =>
       row.id \in w.settlements /\ CanPut(w.stores[row.id], row.resource, row.n)
  /\ row.kind = "caravan_cargo" =>
       Carriers(w, row) # {} /\ CanPut(w.fleet[Carrier(w, row)].cargo, row.resource, row.n)

WithRow(w, row) ==
  CASE row.kind = "day" -> [w EXCEPT !.day = row.n]
    [] row.kind = "time" -> [w EXCEPT !.tick = row.n]
    [] row.kind = "wallet" -> [w EXCEPT !.wallet = row.n]
    [] row.kind = "settlement" -> [w EXCEPT !.settlements = @ \cup {row.id}]
    [] row.kind = "settlement_storage" -> [w EXCEPT !.stores = WithStock(@, row)]
    [] row.kind = "route" -> [w EXCEPT !.routes = Append(@, RouteFrom(row.record))]
    [] row.kind = "caravan" -> [w EXCEPT !.fleet = Append(@, CaravanFrom(row.record))]
    [] row.kind = "caravan_cargo" -> [w EXCEPT !.fleet = WithGoods(@, Carrier(w, row), row)]
    [] row.kind = "faction" -> [w EXCEPT !.factions = @ \cup {row.record}]
    [] row.kind = "caravan_owner" -> [w EXCEPT !.owner = [w.owner EXCEPT ![row.id] = row.faction]]
    [] row.kind = "contract" -> [w EXCEPT !.catalog = Append(@, ContractFrom(row.record))]
    [] row.kind = "ledger" -> [w EXCEPT !.entries = Append(@, row.record)]

AfterRow(s, row) ==
  IF row.kind = Header THEN [s EXCEPT !.header = TRUE]
  ELSE IF s.header /\ row.kind # "torn" /\ Fits(s.world, row)
  THEN [s EXCEPT !.world = WithRow(s.world, row)]
  ELSE [s EXCEPT !.ok = FALSE]

(* Rows read one after the other, from a state of the reader on.           *)
ReadOn(s, rows) ==
  LET after[k \in 0 .. Len(rows)] == IF k = 0 THEN s ELSE AfterRow(after[k - 1], rows[k])
  IN  after[Len(rows)]

Parsed(rows) == ReadOn([ok |-> TRUE, header |-> FALSE, world |-> NewWorld], rows)

(* A faulty variant: the clock always follows the day.                     *)
RestoredFromDay(w) == DaysToTicks(w.day)

(* restored_runtime_time: a save of a host that only counted days.         *)
RestoredTime(w) == IF w.tick > 0 \/ w.day = 0 THEN w.tick ELSE DaysToTicks(w.day)

WithTime(w) == [w EXCEPT !.tick = RestoredTime(w)]

(* restore_state of the engine takes the stores: it knows every resource.  *)
EngineRestores(w) ==
  \A s \in SettlementId, r \in Resource : w.stores[s][r] > 0 => r \in KnownResource

(* load_simulation_runtime_from_file accepts: the rows parse, the world is *)
(* valid, and the engine restores it.                                      *)
Accepted(read) ==
  /\ read.ok /\ read.header
  /\ ValidWorld(read.world)
  /\ EngineRestores(read.world)

Loads(rows) == Accepted(Parsed(rows))

LoadedFrom(rows) == WithTime(Parsed(rows).world)

-----------------------------------------------------------------------------
(* A world the host starts from, one that the calls of the runtime build:  *)
(* its caravans are on its routes, both count in ticks, and what goods     *)
(* there are belong to settlements that exist.                             *)
Built(w, f) ==
  /\ UniqueIds(w.routes) /\ UniqueIds(f)
  /\ \A k \in DOMAIN w.routes : ValidRoute(w.routes[k], w.settlements) /\ w.routes[k].ticks > 0
  /\ \A p \in DOMAIN f : f[p].totalTicks > 0 /\ f[p].ticksLeft = TicksLeft(f[p])
  /\ \A p \in DOMAIN f : \E k \in DOMAIN w.routes : MatchesRoute(f[p], w.routes[k])
  /\ \A s \in SettlementId, r \in Resource :
       w.stores[s][r] > 0 => s \in w.settlements /\ r \in KnownResource

ASSUME PersistAssumption ==
  /\ IsFiniteSet(SettlementId) /\ IsFiniteSet(CaravanId) /\ IsFiniteSet(Faction)
  /\ \A w \in InitialWorlds, f \in InitialFleets : Built(w, f)

PersistInit ==
  /\ RuntimeInit
  /\ saved = NoFile
  /\ temp = NoFile
  /\ phase = "idle"
  /\ report = "none"

(* The process: save_simulation_runtime_to_file, step by step.             *)

Saving == UNCHANGED runtimeVars

Finish(outcome) == phase' = "idle" /\ report' = outcome

(* The world is captured and valid; an old temporary file is removed.      *)
BeginSave ==
  /\ phase = "idle" /\ call = NoCall
  /\ ValidWorld(World)
  /\ temp' = NoFile
  /\ phase' = "begun"
  /\ report' = "none"
  /\ UNCHANGED saved /\ Saving

OpenFails ==
  /\ phase = "begun"
  /\ Finish("failed")
  /\ UNCHANGED <<saved, temp>> /\ Saving

(* A faulty variant: the save goes straight to its path.                   *)
WriteInPlace ==
  /\ phase = "begun"
  /\ saved' \in Parts(World)
  /\ phase' = "writing"
  /\ UNCHANGED <<temp, report>> /\ Saving

(* Nobody reads the temporary file before it is complete, so that one way  *)
(* of being incomplete stands for all.                                     *)
WritePart ==
  /\ phase = "begun"
  /\ temp' = [rows |-> Len(Rows(World)) - 1, tail |-> "torn", world |-> World]
  /\ phase' = "writing"
  /\ UNCHANGED <<saved, report>> /\ Saving

WriteFails ==
  /\ phase = "writing"
  /\ temp' = NoFile
  /\ Finish("failed")
  /\ UNCHANGED saved /\ Saving

WriteRest ==
  /\ phase = "writing"
  /\ temp' = Whole(World)
  /\ phase' = "written"
  /\ UNCHANGED <<saved, report>> /\ Saving

Rename ==
  /\ phase = "written"
  /\ saved' = temp
  /\ temp' = NoFile
  /\ Finish("ok")
  /\ Saving

(* copy_file with overwrite_existing: it truncates the old save and fills  *)
(* it from the temporary file, or cannot even open it.                     *)
CopyPart ==
  /\ phase = "written"
  /\ saved' \in Parts(temp.world)
  /\ phase' = "overwriting"
  /\ UNCHANGED <<temp, report>> /\ Saving

CopyRest ==
  /\ phase = "overwriting"
  /\ saved' = temp
  /\ temp' = NoFile
  /\ Finish("ok")
  /\ Saving

CopyFails ==
  /\ phase \in {"written", "overwriting"}
  /\ temp' = NoFile
  /\ Finish("failed")
  /\ UNCHANGED saved /\ Saving

(* A faulty variant: the owners of the old runtime stay.                   *)
InstallKeepingOwners(w) ==
  /\ day' = w.day /\ tick' = w.tick /\ wallet' = w.wallet
  /\ settlements' = w.settlements /\ stores' = w.stores /\ routes' = w.routes
  /\ fleet' = w.fleet /\ factions' = w.factions /\ owner' = owner
  /\ catalog' = w.catalog /\ ledger' = Restored(w.entries)
  /\ call' = NoCall

(* A refused load leaves the runtime as it is, and is no step.             *)
Install(w) ==
  /\ day' = w.day /\ tick' = w.tick /\ wallet' = w.wallet
  /\ settlements' = w.settlements /\ stores' = w.stores /\ routes' = w.routes
  /\ fleet' = w.fleet /\ factions' = w.factions /\ owner' = w.owner
  /\ catalog' = w.catalog /\ ledger' = Restored(w.entries)
  /\ call' = NoCall

LoadSave(file) ==
  /\ phase = "idle" /\ call = NoCall
  /\ file # NoFile /\ Loads(Content(file))
  /\ Install(LoadedFrom(Content(file)))
  /\ UNCHANGED <<depot, fileVars>>

(* The process dies, and the host starts again with a new world.           *)
Crash ==
  /\ \E w \in InitialWorlds, coins \in InitialCoins, f \in InitialFleets :
       Install([NewWorld EXCEPT !.settlements = w.settlements, !.stores = w.stores, !.fleet = f,
                                !.routes = w.routes, !.factions = w.factions, !.wallet = coins])
  /\ depot' \in InitialDepots
  /\ Finish("none")
  /\ UNCHANGED <<saved, temp>>

SaveStep ==
  \/ BeginSave \/ OpenFails \/ WritePart \/ WriteFails \/ WriteRest
  \/ Rename \/ CopyPart \/ CopyRest \/ CopyFails

PersistNext ==
  \/ phase = "idle" /\ RuntimeNext /\ UNCHANGED fileVars
  \/ SaveStep
  \/ LoadSave(saved)
  \/ Crash

PersistSpec == PersistInit /\ [][PersistNext]_persistVars

-----------------------------------------------------------------------------
(* What a save is worth.                                                   *)

IsWhole(file) == file # NoFile /\ file = Whole(file.world)

(* A world that may be saved comes back from its rows as it was: the       *)
(* normalised ticks, the clock, the goods of every store and cargo, and    *)
(* the ledger with the sequence number it continues with.                  *)
SaveLoadsBack ==
  (call = NoCall /\ ValidWorld(World)) =>
    /\ Loads(Rows(World))
    /\ LoadedFrom(Rows(World)) = World
    /\ Restored(LoadedFrom(Rows(World)).entries) = ledger

ReplacesBySave ==
  saved' # saved /\ phase' # "overwriting" =>
    IsWhole(saved') /\ saved'.world = World /\ ValidWorld(World)

(* Failures and crashes never harm the save that is there: the file only   *)
(* goes from one whole save to the next whole save, of the valid world the *)
(* call was given.  The one exception is the copy, after the system has    *)
(* refused the rename: until it ends, the file is in pieces.               *)
SaveIsAtomic == [][ReplacesBySave]_persistVars

(* A load installs nothing inconsistent, even from a file that a failed    *)
(* copy tore apart: caravans are on routes, ids are unique, owners exist   *)
(* and every reward belongs to a contract.                                 *)
LoadedIsConsistent ==
  /\ FleetOnRoutes /\ UniqueContracts /\ OneRewardPerContract /\ LedgerSurvivesRestore
  /\ \A c \in CaravanId : owner[c] # NoFaction => owner[c] \in factions

(* The host can save whenever it likes: no call of the runtime brings the  *)
(* world into a state that the save refuses.                               *)
AlwaysSaveable == call = NoCall => ValidWorld(World)

(* A file that is not a whole save does not load.                          *)
TornIsRefused ==
  saved # NoFile => (Loads(Content(saved)) => IsWhole(saved))
=============================================================================
