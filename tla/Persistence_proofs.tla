------------------------- MODULE Persistence_proofs -------------------------
(***************************************************************************)
(* Theorems about the save of a runtime to its file and about the reader:  *)
(* failures at any step of a save, and crashes between them; what a load   *)
(* accepts; that the rows of a reachable world load as that world.         *)
(***************************************************************************)
EXTENDS Persistence, Runtime_proofs

-----------------------------------------------------------------------------
(* Sequences of the library.                                               *)

(* A set is written as a sequence of each of its elements, once.           *)
LEMMA SetAsSequence ==
  ASSUME NEW S, IsFiniteSet(S)
  PROVE  /\ SetToSeq(S) \in Seq(S)
         /\ \A i, j \in DOMAIN SetToSeq(S) : SetToSeq(S)[i] = SetToSeq(S)[j] => i = j
         /\ \A x \in S : \E i \in DOMAIN SetToSeq(S) : SetToSeq(S)[i] = x
<1> DEFINE n == Cardinality(S)
<1>1. n \in Nat
  BY FS_CardinalityType
<1>2. \E f \in [1 .. n -> S] : IsInjective(f)
  <2>1. PICK m \in Nat : ExistsBijection(1 .. m, S)
    BY FS_NatBijection
  <2>2. n = m
    BY <2>1, FS_CountingElements
  <2>3. PICK f \in Bijection(1 .. m, S) : TRUE
    BY <2>1 DEF ExistsBijection
  <2>4. f \in [1 .. m -> S] /\ IsInjective(f)
    BY <2>3 DEF Bijection, Injection, IsInjective
  <2>5. QED
    BY <2>2, <2>4
<1>3. SetToSeq(S) \in [1 .. n -> S] /\ IsInjective(SetToSeq(S))
  BY <1>2 DEF SetToSeq
<1>4. PICK q \in [1 .. n -> S] : q = SetToSeq(S) /\ IsInjective(q)
  BY <1>3
<1>5. q \in Seq(S) /\ \A i, j \in DOMAIN q : q[i] = q[j] => i = j
  BY <1>1, <1>4 DEF IsInjective
<1>6. \A x \in S : \E i \in 1 .. n : q[i] = x
  <2>1. q \in Injection(1 .. n, S)
    BY <1>4 DEF Injection, IsInjective
  <2>2. IsFiniteSet(1 .. n) /\ Cardinality(1 .. n) = Cardinality(S)
    BY <1>1, UpTo
  <2>3. q \in Surjection(1 .. n, S)
    BY <2>1, <2>2, FS_Injection
  <2>4. QED
    BY <2>3 DEF Surjection
<1>7. QED
  BY <1>4, <1>5, <1>6

(* Sequences written one after the other.                                  *)
LEMMA FlattenUnrolled ==
  ASSUME NEW T, NEW seqs \in Seq(Seq(T))
  PROVE  \E f \in [0 .. Len(seqs) -> Seq(T)] :
           /\ f[0] = << >>
           /\ \A i \in 1 .. Len(seqs) : f[i] = f[i - 1] \o seqs[i]
           /\ FlattenSeq(seqs) = f[Len(seqs)]
<1> DEFINE n == Len(seqs)
           round == [i \in 1 .. n |-> [s \in Seq(T) |-> s \o seqs[i]]]
<1>1. n \in Nat /\ \A i \in 1 .. n : seqs[i] \in Seq(T)
  OBVIOUS
<1>2. round \in [1 .. n -> [Seq(T) -> Seq(T)]]
  BY <1>1
<1>3. << >> \in Seq(T)
  OBVIOUS
<1>4. PICK f \in [0 .. n -> Seq(T)] : IsLoop(f, n, << >>, round)
  <2> HIDE DEF n, round
  <2>1. QED
    BY <1>1, <1>2, <1>3, LoopExists
<1>5. f[0] = << >> /\ \A i \in 1 .. n : f[i] = f[i - 1] \o seqs[i]
  <2>1. \A i \in 0 .. n : f[i] = IF i = 0 THEN << >> ELSE round[i][f[i - 1]]
    BY <1>4 DEF IsLoop
  <2>2. \A i \in 1 .. n : i \in 0 .. n /\ i # 0 /\ i - 1 \in 0 .. n
    BY <1>1
  <2>3. 0 \in 0 .. n
    BY <1>1
  <2>4. QED
    BY <2>1, <2>2, <2>3
<1> HIDE DEF round
<1>6. CASE n = 0
  <2>1. seqs = << >>
    BY <1>6
  <2>2. FlattenSeq(seqs) = seqs
    BY <1>6 DEF FlattenSeq
  <2>3. QED
    BY <1>5, <1>6, <2>1, <2>2
<1>7. CASE n # 0
  <2> DEFINE Eq(g) == g = [i \in 1 .. n |-> IF i = 1 THEN seqs[i] ELSE g[i - 1] \o seqs[i]]
             h == [i \in 1 .. n |-> f[i]]
             g0 == CHOOSE g : Eq(g)
  <2>1. ASSUME NEW i \in 1 .. n PROVE h[i] = IF i = 1 THEN seqs[i] ELSE h[i - 1] \o seqs[i]
    <3>1. CASE i = 1
      <4> HIDE DEF n, h
      <4>1. f[1] = f[1 - 1] \o seqs[1] /\ 1 \in 1 .. n
        BY <1>5, <3>1
      <4>2. f[1] = seqs[1]
        <5>1. 1 - 1 = 0
          OBVIOUS
        <5>2. seqs[1] \in Seq(T) /\ f[1] = << >> \o seqs[1]
          BY <1>1, <1>5, <4>1, <5>1
        <5>3. QED
          BY <5>2, ConcatEmptySeq
      <4>3. QED
        BY <3>1, <4>2 DEF h
    <3>2. CASE i # 1
      <4>1. i - 1 \in 1 .. n
        BY <1>1, <3>2
      <4>2. QED
        BY <1>5, <3>2, <4>1
    <3>3. QED
      BY <3>1, <3>2
  <2>2. Eq(h)
    BY <2>1
  <2>3. Eq(g0)
    <3> HIDE DEF h, Eq
    <3>1. QED
      BY <2>2
  <2>4. FlattenSeq(seqs) = g0[n]
    BY <1>7 DEF FlattenSeq
  <2>5. \A i \in 0 .. n : i \in {j \in 0 .. n : j = 0 \/ g0[j] = f[j]}
    <3> DEFINE S == {j \in 0 .. n : j = 0 \/ g0[j] = f[j]}
    <3>1. 0 \in S
      BY <1>1
    <3>2. ASSUME NEW i \in 1 .. n, i - 1 \in S PROVE i \in S
      <4>1. g0[i] = IF i = 1 THEN seqs[i] ELSE g0[i - 1] \o seqs[i]
        BY <2>3
      <4>2. h[i] = f[i] /\ i \in 0 .. n
        BY <1>1
      <4>3. CASE i = 1
        BY <2>1, <4>1, <4>2, <4>3
      <4>4. CASE i # 1
        <5>1. i - 1 \in 1 .. n /\ i - 1 # 0
          BY <1>1, <4>4
        <5>2. g0[i - 1] = f[i - 1] /\ h[i - 1] = f[i - 1]
          BY <3>2, <5>1
        <5>3. h[i] = h[i - 1] \o seqs[i] /\ g0[i] = g0[i - 1] \o seqs[i]
          BY <2>1, <4>1, <4>4
        <5> HIDE DEF h, g0
        <5>4. g0[i] = f[i]
          BY <4>2, <5>2, <5>3
        <5>5. QED
          BY <4>2, <5>4
      <4>5. QED
        BY <4>3, <4>4
    <3> HIDE DEF S
    <3>3. QED
      BY <1>1, <3>1, <3>2, BoundedInduction DEF S
  <2>6. g0[n] = f[n]
    <3>1. n \in 0 .. n
      BY <1>1
    <3> HIDE DEF g0, n
    <3>2. QED
      BY <1>7, <2>5, <3>1
  <2>7. QED
    BY <1>5, <2>4, <2>6
<1>8. QED
  BY <1>6, <1>7

-----------------------------------------------------------------------------
(* Files are replaced by whole saves.                                      *)

(* While a save is under way the world is one that may be saved, and once  *)
(* the temporary file is written it holds all of that world.               *)
SaveUnderWay ==
  /\ phase # "idle" => ValidWorld(World)
  /\ phase \in {"written", "overwriting"} => temp = Whole(World)

LEMMA WholeIsWhole ==
  ASSUME NEW w
  PROVE  IsWhole(Whole(w)) /\ Whole(w).world = w
<1>1. Whole(w).world = w
  BY DEF Whole
<1>2. "tail" \in DOMAIN Whole(w) /\ "tail" \notin DOMAIN NoFile
  BY DEF Whole, NoFile
<1>3. Whole(w) # NoFile
  BY <1>2
<1>4. QED
  BY <1>1, <1>3 DEF IsWhole

(* The world does not change under a save.                                 *)
LEMMA SameWorld ==
  ASSUME UNCHANGED runtimeVars
  PROVE  World' = World
<1>1. /\ day' = day /\ tick' = tick /\ wallet' = wallet /\ settlements' = settlements
      /\ stores' = stores /\ routes' = routes /\ fleet' = fleet /\ factions' = factions
      /\ owner' = owner /\ catalog' = catalog /\ ledger' = ledger
  BY DEF runtimeVars, vars, worldVars
<1>2. QED
  BY <1>1 DEF World

LEMMA SaveUnderWayStart == PersistInit => SaveUnderWay
BY DEF PersistInit, SaveUnderWay

LEMMA SaveUnderWayStep == SaveUnderWay /\ [PersistNext]_persistVars => SaveUnderWay'
<1> SUFFICES ASSUME SaveUnderWay, [PersistNext]_persistVars PROVE SaveUnderWay'
  OBVIOUS
<1>1. ASSUME phase' = "idle" PROVE SaveUnderWay'
  BY <1>1 DEF SaveUnderWay
<1>2. CASE UNCHANGED persistVars
  <2>1. UNCHANGED runtimeVars /\ temp' = temp /\ phase' = phase
    BY <1>2 DEF persistVars, fileVars
  <2>2. QED
    BY <2>1, SameWorld DEF SaveUnderWay
<1>3. CASE phase = "idle" /\ RuntimeNext /\ UNCHANGED fileVars
  BY <1>1, <1>3 DEF fileVars
<1>4. CASE SaveStep
  <2>1. UNCHANGED runtimeVars
    BY <1>4 DEF SaveStep, BeginSave, OpenFails, WritePart, WriteFails, WriteRest,
                Rename, CopyPart, CopyRest, CopyFails, Saving
  <2>2. World' = World
    BY <2>1, SameWorld
  <2>3. CASE BeginSave
    BY <2>2, <2>3 DEF BeginSave, SaveUnderWay
  <2>4. CASE WritePart
    BY <2>2, <2>4 DEF WritePart, SaveUnderWay
  <2>5. CASE WriteRest
    BY <2>2, <2>5 DEF WriteRest, SaveUnderWay
  <2>6. CASE CopyPart
    BY <2>2, <2>6 DEF CopyPart, SaveUnderWay
  <2>7. QED
    BY <1>1, <1>4, <2>3, <2>4, <2>5, <2>6
       DEF SaveStep, OpenFails, WriteFails, Rename, CopyRest, CopyFails, Finish
<1>5. CASE LoadSave(saved)
  BY <1>1, <1>5 DEF LoadSave, fileVars
<1>6. CASE Crash
  BY <1>1, <1>6 DEF Crash, Finish
<1>7. QED
  BY <1>2, <1>3, <1>4, <1>5, <1>6 DEF PersistNext

LEMMA OnlyWholeSaves ==
  ASSUME SaveUnderWay, [PersistNext]_persistVars
  PROVE  ReplacesBySave
<1> SUFFICES ASSUME saved' # saved, phase' # "overwriting"
             PROVE  IsWhole(saved') /\ saved'.world = World /\ ValidWorld(World)
  BY DEF ReplacesBySave
<1>1. CASE Rename \/ CopyRest
  <2>1. phase \in {"written", "overwriting"} /\ saved' = temp
    BY <1>1 DEF Rename, CopyRest
  <2>2. ValidWorld(World) /\ temp = Whole(World)
    BY <2>1 DEF SaveUnderWay
  <2>3. QED
    BY <2>1, <2>2, WholeIsWhole
<1>2. CASE ~(Rename \/ CopyRest)
  <2>1. ~SaveStep
    BY <1>2 DEF SaveStep, BeginSave, OpenFails, WritePart, WriteFails, WriteRest, CopyPart, CopyFails
  <2>2. ~LoadSave(saved) /\ ~Crash /\ ~UNCHANGED persistVars /\ ~UNCHANGED fileVars
    BY DEF LoadSave, Crash, persistVars, fileVars
  <2>3. QED
    BY <2>1, <2>2 DEF PersistNext
<1>3. QED
  BY <1>1, <1>2

(* save_simulation_runtime_to_file may fail or die at any step: the file   *)
(* at the path is only ever replaced by the whole of a valid world, the    *)
(* one the call was given, except between the two halves of the copy that  *)
(* follows a rename the system refused.                                    *)
THEOREM SavesAreAtomic == PersistSpec => SaveIsAtomic
<1>1. SaveUnderWay /\ [PersistNext]_persistVars => [ReplacesBySave]_persistVars
  BY OnlyWholeSaves
<1>2. QED
  BY <1>1, SaveUnderWayStart, SaveUnderWayStep, PTL DEF PersistSpec, SaveIsAtomic

-----------------------------------------------------------------------------
(* What a file may hold, and what the reader makes of it.                  *)

(* Records whose ticks are those the program falls back on.                *)
FilledRoutes == {r \in Routes : r.ticks = RouteTicks(r)}

FilledCaravans == {c \in Caravans : c.totalTicks = TotalTicks(c) /\ c.ticksLeft = TicksLeft(c)}

FilledContracts == {c \in ContractRecords : c.dueTicks = DueTicks(c)}

WorldRecords ==
  [day : U64, tick : U64, wallet : U64, settlements : SUBSET SettlementId,
   stores : [SettlementId -> Storages], routes : Seq(FilledRoutes),
   fleet : Seq(FilledCaravans), factions : SUBSET Faction,
   owner : [CaravanId -> Faction \cup {NoFaction}],
   catalog : Seq(FilledContracts), entries : Seq(Entries)]

ReaderStates == [ok : BOOLEAN, header : BOOLEAN, world : WorldRecords]

(* Routes and caravans as older versions wrote them.                       *)
OldRoutes ==
  [id : RouteId, origin : SettlementId, destination : SettlementId, days : U64]

OldCaravans ==
  [id : CaravanId, route : RouteId, origin : SettlementId, destination : SettlementId,
   totalDays : U64, daysLeft : U64, cargo : Storages]

HeaderRows == [kind : {Header}]
NumberRows == [kind : {"day", "time", "wallet"}, n : U64]
PlaceRows == [kind : {"settlement"}, id : SettlementId]
StoreRows == [kind : {"settlement_storage"}, id : SettlementId, resource : Resource, n : U64]
RoadRows == [kind : {"route"}, record : FilledRoutes \cup OldRoutes]
CarrierRows == [kind : {"caravan"}, record : FilledCaravans \cup OldCaravans]
CargoRows == [kind : {"caravan_cargo"}, id : CaravanId, resource : Resource, n : U64]
FactionRows == [kind : {"faction"}, record : Faction]
OwnedRows == [kind : {"caravan_owner"}, id : CaravanId, faction : Faction]
OfferRows == [kind : {"contract"}, record : FilledContracts]
EntryRows == [kind : {"ledger"}, record : Entries]

(* The rows before those of the contracts.                                 *)
BodyRows ==
  HeaderRows \cup NumberRows \cup PlaceRows \cup StoreRows \cup RoadRows \cup CarrierRows
    \cup CargoRows \cup FactionRows \cup OwnedRows

(* A row that was cut short.                                               *)
TornRows == [kind : {"torn"}]

RowSet == BodyRows \cup OfferRows \cup EntryRows \cup TornRows

LEMMA NewWorldType == NewWorld \in WorldRecords
<1>1. 0 \in U64 /\ EmptyStorage \in Storages
  BY WidthAssumption DEF U64, EmptyStorage, Storages
<1>2. QED
  BY <1>1 DEF NewWorld, WorldRecords

LEMMA RouteFromType ==
  ASSUME NEW r \in FilledRoutes \cup OldRoutes
  PROVE  RouteFrom(r) \in FilledRoutes
<1>1. r.days \in U64 /\ DaysToTicks(r.days) \in U64
  BY DaysToTicksType DEF FilledRoutes, Routes, OldRoutes
<1>2. CASE r \in FilledRoutes
  <2>1. r \in Routes
    BY <1>2 DEF FilledRoutes
  <2>2. RouteFrom(r) = r
    BY <2>1 DEF RouteFrom, Completed, Routes
  <2>3. QED
    BY <1>2, <2>2
<1>3. CASE r \in OldRoutes
  <2>1. DOMAIN r = {"id", "origin", "destination", "days"}
    BY <1>3 DEF OldRoutes
  <2>2. RouteFrom(r) = [id |-> r.id, origin |-> r.origin, destination |-> r.destination,
                        days |-> r.days, ticks |-> DaysToTicks(r.days)]
    BY <2>1 DEF RouteFrom, Completed
  <2>3. RouteFrom(r) \in Routes
    BY <1>1, <1>3, <2>2 DEF Routes, OldRoutes
  <2>4. RouteTicks(RouteFrom(r)) = RouteFrom(r).ticks
    BY <1>1, <2>2 DEF RouteTicks, TicksOr, U64
  <2>5. QED
    BY <2>3, <2>4 DEF FilledRoutes
<1>4. QED
  BY <1>2, <1>3

LEMMA CaravanFromType ==
  ASSUME NEW r \in FilledCaravans \cup OldCaravans
  PROVE  CaravanFrom(r) \in FilledCaravans
<1>1. /\ r.totalDays \in U64 /\ DaysToTicks(r.totalDays) \in U64
      /\ r.daysLeft \in U64 /\ DaysToTicks(r.daysLeft) \in U64
  BY DaysToTicksType DEF FilledCaravans, Caravans, OldCaravans
<1>2. CASE r \in FilledCaravans
  <2>1. r \in Caravans
    BY <1>2 DEF FilledCaravans
  <2>2. CaravanFrom(r) = r
    BY <2>1 DEF CaravanFrom, Completed, Caravans
  <2>3. QED
    BY <1>2, <2>2
<1>3. CASE r \in OldCaravans
  <2>1. DOMAIN r = {"id", "route", "origin", "destination", "totalDays", "daysLeft", "cargo"}
    BY <1>3 DEF OldCaravans
  <2>2. CaravanFrom(r) =
          [id |-> r.id, route |-> r.route, origin |-> r.origin, destination |-> r.destination,
           totalDays |-> r.totalDays, daysLeft |-> r.daysLeft,
           totalTicks |-> DaysToTicks(r.totalDays), ticksLeft |-> DaysToTicks(r.daysLeft),
           cargo |-> r.cargo]
    BY <2>1 DEF CaravanFrom, Completed
  <2>3. CaravanFrom(r) \in Caravans
    BY <1>1, <1>3, <2>2 DEF Caravans, OldCaravans
  <2>4. /\ TotalTicks(CaravanFrom(r)) = CaravanFrom(r).totalTicks
        /\ TicksLeft(CaravanFrom(r)) = CaravanFrom(r).ticksLeft
    BY <1>1, <2>2 DEF TotalTicks, TicksLeft, TicksOr, U64
  <2>5. QED
    BY <2>3, <2>4 DEF FilledCaravans
<1>4. QED
  BY <1>2, <1>3

LEMMA ContractFromSame ==
  ASSUME NEW r \in ContractRecords
  PROVE  ContractFrom(r) = r
BY DEF ContractFrom, Completed, ContractRecords

LEMMA RouteFromSame ==
  ASSUME NEW r \in Routes
  PROVE  RouteFrom(r) = r
BY DEF RouteFrom, Completed, Routes

LEMMA CaravanFromSame ==
  ASSUME NEW r \in Caravans
  PROVE  CaravanFrom(r) = r
BY DEF CaravanFrom, Completed, Caravans

(* The goods of a caravan do not matter for its ticks.                     *)
LEMMA ReloadedFilled ==
  ASSUME NEW c \in FilledCaravans, NEW cargo \in Storages
  PROVE  [c EXCEPT !.cargo = cargo] \in FilledCaravans
<1> DEFINE d == [c EXCEPT !.cargo = cargo]
<1>1. c \in Caravans /\ c.totalTicks = TotalTicks(c) /\ c.ticksLeft = TicksLeft(c)
  BY DEF FilledCaravans
<1>2. /\ d \in Caravans
      /\ d.totalTicks = c.totalTicks /\ d.totalDays = c.totalDays
      /\ d.ticksLeft = c.ticksLeft /\ d.daysLeft = c.daysLeft
  BY <1>1 DEF Caravans
<1> HIDE DEF d
<1>3. d.totalTicks = TotalTicks(d) /\ d.ticksLeft = TicksLeft(d)
  BY <1>1, <1>2 DEF TotalTicks, TicksLeft
<1>4. QED
  BY <1>2, <1>3 DEF FilledCaravans, d

LEMMA CarrierIsOne ==
  ASSUME NEW w \in WorldRecords, NEW row, Carriers(w, row) # {}
  PROVE  /\ Carrier(w, row) \in DOMAIN w.fleet
         /\ w.fleet[Carrier(w, row)].id = row.id
<1>1. w.fleet \in Seq(FilledCaravans)
  BY DEF WorldRecords
<1>2. Carriers(w, row) \subseteq Nat
  BY <1>1 DEF Carriers
<1>3. \E p \in Carriers(w, row) : \A q \in Carriers(w, row) : p <= q
  BY <1>2, LeastNumber
<1>4. Carrier(w, row) \in Carriers(w, row)
  BY <1>3 DEF Carrier
<1>5. QED
  BY <1>4 DEF Carriers

(* A row keeps the world a world.                                          *)
LEMMA WithRowType ==
  ASSUME NEW w \in WorldRecords, NEW row \in RowSet, row.kind # Header, row.kind # "torn", Fits(w, row)
  PROVE  WithRow(w, row) \in WorldRecords
<1>1. CASE row \in NumberRows
  <2>1. row.n \in U64 /\ row.kind \in {"day", "time", "wallet"}
    BY <1>1 DEF NumberRows
  <2>2. CASE row.kind = "day"
    BY <2>1, <2>2 DEF WithRow, WorldRecords
  <2>3. CASE row.kind = "time"
    BY <2>1, <2>3 DEF WithRow, WorldRecords
  <2>4. CASE row.kind = "wallet"
    BY <2>1, <2>4 DEF WithRow, WorldRecords
  <2>5. QED
    BY <2>1, <2>2, <2>3, <2>4
<1>2. CASE row \in PlaceRows
  BY <1>2 DEF PlaceRows, WithRow, WorldRecords
<1>3. CASE row \in StoreRows
  <2>1. row.kind = "settlement_storage" /\ row.id \in SettlementId /\ row.resource \in Resource /\ row.n \in U64
    BY <1>3 DEF StoreRows
  <2>2. w.stores \in [SettlementId -> Storages] /\ w.stores[row.id] \in Storages
    BY <2>1 DEF WorldRecords
  <2>3. Put(w.stores[row.id], row.resource, row.n) \in Storages
    BY <2>1, <2>2, PutType DEF Fits, CanPut
  <2> DEFINE stores1 == [w.stores EXCEPT ![row.id] = Put(w.stores[row.id], row.resource, row.n)]
  <2>4. stores1 \in [SettlementId -> Storages]
    BY <2>2, <2>3
  <2>5. WithRow(w, row) = [w EXCEPT !.stores = stores1]
    BY <2>1 DEF WithRow, WithStock
  <2> HIDE DEF stores1
  <2>6. QED
    BY <2>4, <2>5 DEF WorldRecords
<1>4. CASE row \in RoadRows
  <2>1. row.kind = "route" /\ RouteFrom(row.record) \in FilledRoutes
    BY <1>4, RouteFromType DEF RoadRows
  <2>2. PICK s \in Seq(FilledRoutes) : s = w.routes
    BY DEF WorldRecords
  <2>3. Append(s, RouteFrom(row.record)) \in Seq(FilledRoutes)
    BY <2>1
  <2>4. WithRow(w, row) = [w EXCEPT !.routes = Append(s, RouteFrom(row.record))]
    BY <2>1, <2>2 DEF WithRow
  <2>5. QED
    BY <2>3, <2>4 DEF WorldRecords
<1>5. CASE row \in CarrierRows
  <2>1. row.kind = "caravan" /\ CaravanFrom(row.record) \in FilledCaravans
    BY <1>5, CaravanFromType DEF CarrierRows
  <2>2. PICK s \in Seq(FilledCaravans) : s = w.fleet
    BY DEF WorldRecords
  <2>3. Append(s, CaravanFrom(row.record)) \in Seq(FilledCaravans)
    BY <2>1
  <2>4. WithRow(w, row) = [w EXCEPT !.fleet = Append(s, CaravanFrom(row.record))]
    BY <2>1, <2>2 DEF WithRow
  <2>5. QED
    BY <2>3, <2>4 DEF WorldRecords
<1>6. CASE row \in CargoRows
  <2>1. row.kind = "caravan_cargo" /\ row.resource \in Resource /\ row.n \in U64
    BY <1>6 DEF CargoRows
  <2>2. PICK p : p = Carrier(w, row)
    OBVIOUS
  <2>3. p \in DOMAIN w.fleet /\ CanPut(w.fleet[p].cargo, row.resource, row.n)
    BY <2>1, <2>2, CarrierIsOne DEF Fits
  <2>4. PICK s \in Seq(FilledCaravans) : s = w.fleet
    BY DEF WorldRecords
  <2>5. s[p] \in FilledCaravans /\ s[p] \in Caravans /\ s[p].cargo \in Storages
    <3>1. s[p] \in FilledCaravans
      BY <2>3, <2>4
    <3>2. QED
      BY <3>1 DEF FilledCaravans, Caravans
  <2>6. Put(s[p].cargo, row.resource, row.n) \in Storages
    BY <2>1, <2>3, <2>4, <2>5, PutType DEF CanPut
  <2>7. [s[p] EXCEPT !.cargo = Put(s[p].cargo, row.resource, row.n)] \in FilledCaravans
    BY <2>5, <2>6, ReloadedFilled
  <2>8. WithGoods(s, p, row) \in Seq(FilledCaravans)
    BY <2>3, <2>4, <2>7, ExceptSeq DEF WithGoods
  <2>9. WithRow(w, row) = [w EXCEPT !.fleet = WithGoods(s, p, row)]
    BY <2>1, <2>2, <2>4 DEF WithRow
  <2>10. QED
    BY <2>8, <2>9 DEF WorldRecords
<1>7. CASE row \in FactionRows
  BY <1>7 DEF FactionRows, WithRow, WorldRecords
<1>8. CASE row \in OwnedRows
  BY <1>8 DEF OwnedRows, WithRow, WorldRecords
<1>9. CASE row \in OfferRows
  <2>1. row.kind = "contract" /\ ContractFrom(row.record) \in FilledContracts
    BY <1>9, ContractFromSame DEF OfferRows, FilledContracts
  <2>2. PICK s \in Seq(FilledContracts) : s = w.catalog
    BY DEF WorldRecords
  <2>3. Append(s, ContractFrom(row.record)) \in Seq(FilledContracts)
    BY <2>1
  <2>4. WithRow(w, row) = [w EXCEPT !.catalog = Append(s, ContractFrom(row.record))]
    BY <2>1, <2>2 DEF WithRow
  <2>5. QED
    BY <2>3, <2>4 DEF WorldRecords
<1>10. CASE row \in EntryRows
  <2>1. row.kind = "ledger" /\ row.record \in Entries
    BY <1>10 DEF EntryRows
  <2>2. PICK s \in Seq(Entries) : s = w.entries
    BY DEF WorldRecords
  <2>3. Append(s, row.record) \in Seq(Entries)
    BY <2>1
  <2>4. WithRow(w, row) = [w EXCEPT !.entries = Append(s, row.record)]
    BY <2>1, <2>2 DEF WithRow
  <2>5. QED
    BY <2>3, <2>4 DEF WorldRecords
<1>11. row \notin HeaderRows /\ row \notin TornRows
  BY DEF HeaderRows, TornRows
<1>12. QED
  BY <1>1, <1>2, <1>3, <1>4, <1>5, <1>6, <1>7, <1>8, <1>9, <1>10, <1>11 DEF RowSet, BodyRows

LEMMA AfterRowType ==
  ASSUME NEW s \in ReaderStates, NEW row \in RowSet
  PROVE  AfterRow(s, row) \in ReaderStates
<1>1. s.world \in WorldRecords
  BY DEF ReaderStates
<1>2. row.kind # Header /\ row.kind # "torn" /\ Fits(s.world, row) => WithRow(s.world, row) \in WorldRecords
  BY <1>1, WithRowType
<1>3. CASE row.kind = Header
  BY <1>3 DEF AfterRow, ReaderStates
<1>4. CASE row.kind # Header /\ s.header /\ row.kind # "torn" /\ Fits(s.world, row)
  BY <1>2, <1>4 DEF AfterRow, ReaderStates
<1>5. CASE row.kind # Header /\ ~(s.header /\ row.kind # "torn" /\ Fits(s.world, row))
  BY <1>5 DEF AfterRow, ReaderStates
<1>6. QED
  BY <1>3, <1>4, <1>5

(* The states of the reader, row after row.                                *)
Follows(f, s, rows, n) ==
  f[0] = s /\ \A k \in 1 .. n : f[k] = AfterRow(f[k - 1], rows[k])

IsReading(f, s, rows) ==
  f \in [0 .. Len(rows) -> ReaderStates] /\ Follows(f, s, rows, Len(rows))

LEMMA SameReading ==
  ASSUME NEW s, NEW rows, NEW n \in Nat, NEW f, NEW g, Follows(f, s, rows, n), Follows(g, s, rows, n)
  PROVE  \A k \in 0 .. n : f[k] = g[k]
<1> DEFINE S == {k \in 0 .. n : f[k] = g[k]}
<1>1. 0 \in S
  BY DEF Follows
<1>2. ASSUME NEW k \in 1 .. n, k - 1 \in S PROVE k \in S
  BY <1>2 DEF Follows
<1> HIDE DEF S
<1>3. \A k \in 0 .. n : k \in S
  BY <1>1, <1>2, BoundedInduction
<1>4. QED
  BY <1>3 DEF S

LEMMA ReadingExists ==
  ASSUME NEW s \in ReaderStates, NEW rows \in Seq(RowSet)
  PROVE  \E f : IsReading(f, s, rows) /\ ReadOn(s, rows) = f[Len(rows)]
<1> DEFINE n == Len(rows)
           round == [k \in 1 .. n |-> [t \in ReaderStates |-> AfterRow(t, rows[k])]]
<1>1. n \in Nat /\ \A k \in 1 .. n : rows[k] \in RowSet
  OBVIOUS
<1>2. round \in [1 .. n -> [ReaderStates -> ReaderStates]]
  BY <1>1, AfterRowType
<1>3. PICK f \in [0 .. n -> ReaderStates] : IsLoop(f, n, s, round)
  <2> HIDE DEF n, round
  <2>1. QED
    BY <1>1, <1>2, LoopExists
<1>4. \A k \in 0 .. n : f[k] = IF k = 0 THEN s ELSE AfterRow(f[k - 1], rows[k])
  <2>1. \A k \in 0 .. n : f[k] = IF k = 0 THEN s ELSE round[k][f[k - 1]]
    BY <1>3 DEF IsLoop
  <2> HIDE DEF n
  <2>2. \A k \in 0 .. n : k # 0 => k \in 1 .. n /\ k - 1 \in 0 .. n
    BY <1>1
  <2>3. \A k \in 1 .. n : \A t \in ReaderStates : round[k][t] = AfterRow(t, rows[k])
    OBVIOUS
  <2> HIDE DEF round
  <2>4. QED
    BY <1>3, <2>1, <2>2, <2>3
<1> HIDE DEF round
<1>5. /\ f[0] = s
      /\ \A k \in 1 .. n : f[k] = AfterRow(f[k - 1], rows[k])
  <2> HIDE DEF n
  <2>1. 0 \in 0 .. n /\ \A k \in 1 .. n : k \in 0 .. n /\ k # 0
    BY <1>1
  <2>2. QED
    BY <1>4, <2>1
<1>6. IsReading(f, s, rows)
  BY <1>3, <1>5 DEF IsReading, Follows
<1> DEFINE Eq(g) == g = [k \in 0 .. n |-> IF k = 0 THEN s ELSE AfterRow(g[k - 1], rows[k])]
           g0 == CHOOSE g : Eq(g)
<1>7. Eq(f)
  BY <1>3, <1>4
<1>8. Eq(g0)
  <2> HIDE DEF Eq
  <2>1. QED
    BY <1>7
<1>9. ReadOn(s, rows) = g0[n]
  BY DEF ReadOn
<1>10. \A k \in 0 .. n : g0[k] = IF k = 0 THEN s ELSE AfterRow(g0[k - 1], rows[k])
  BY <1>8
<1> HIDE DEF g0, Eq, n
<1>11. /\ g0[0] = s
       /\ \A k \in 1 .. n : g0[k] = AfterRow(g0[k - 1], rows[k])
  <2>1. 0 \in 0 .. n /\ \A k \in 1 .. n : k \in 0 .. n /\ k # 0
    BY <1>1
  <2>2. QED
    BY <1>10, <2>1
<1>12. \A k \in 0 .. n : f[k] = g0[k]
  <2>1. Follows(f, s, rows, n) /\ Follows(g0, s, rows, n)
    BY <1>5, <1>11 DEF Follows
  <2>2. QED
    BY <1>1, <2>1, SameReading
<1>13. ReadOn(s, rows) = f[n]
  BY <1>1, <1>9, <1>12
<1>14. QED
  BY <1>6, <1>13 DEF n

LEMMA ReadOnType ==
  ASSUME NEW s \in ReaderStates, NEW rows \in Seq(RowSet)
  PROVE  ReadOn(s, rows) \in ReaderStates
<1>1. PICK f : IsReading(f, s, rows) /\ ReadOn(s, rows) = f[Len(rows)]
  BY ReadingExists
<1>2. Len(rows) \in 0 .. Len(rows)
  OBVIOUS
<1>3. QED
  BY <1>1, <1>2 DEF IsReading

LEMMA ReadNothing ==
  ASSUME NEW s \in ReaderStates
  PROVE  ReadOn(s, << >>) = s
<1>1. << >> \in Seq(RowSet) /\ Len(<< >>) = 0
  OBVIOUS
<1>2. PICK f : IsReading(f, s, << >>) /\ ReadOn(s, << >>) = f[Len(<< >>)]
  BY <1>1, ReadingExists
<1>3. QED
  BY <1>1, <1>2 DEF IsReading, Follows

LEMMA ReadOneMore ==
  ASSUME NEW s \in ReaderStates, NEW rows \in Seq(RowSet), NEW row \in RowSet
  PROVE  ReadOn(s, Append(rows, row)) = AfterRow(ReadOn(s, rows), row)
<1> DEFINE n == Len(rows)
           more == Append(rows, row)
<1>1. /\ n \in Nat /\ more \in Seq(RowSet) /\ Len(more) = n + 1
      /\ more[n + 1] = row /\ \A k \in 1 .. n : more[k] = rows[k]
  OBVIOUS
<1>2. PICK f : IsReading(f, s, rows) /\ ReadOn(s, rows) = f[n]
  BY ReadingExists
<1>3. PICK g : IsReading(g, s, more) /\ ReadOn(s, more) = g[n + 1]
  BY <1>1, ReadingExists
<1> HIDE DEF n, more
<1>4. \A k \in 1 .. n : k \in 1 .. n + 1
  BY <1>1
<1>5. \A k \in 1 .. n : f[k] = AfterRow(f[k - 1], rows[k]) /\ g[k] = AfterRow(g[k - 1], rows[k])
  BY <1>1, <1>2, <1>3, <1>4 DEF IsReading, Follows, n
<1>6. f[0] = s /\ g[0] = s
  BY <1>2, <1>3 DEF IsReading, Follows
<1>7. \A k \in 0 .. n : f[k] = g[k]
  <2>1. Follows(f, s, rows, n) /\ Follows(g, s, rows, n)
    BY <1>5, <1>6 DEF Follows
  <2>2. QED
    BY <1>1, <2>1, SameReading
<1>8. g[n + 1] = AfterRow(g[n], row)
  <2>1. PICK m \in 1 .. Len(more) : m = n + 1 /\ m - 1 = n
    BY <1>1
  <2>2. g[m] = AfterRow(g[m - 1], more[m])
    BY <1>3 DEF IsReading, Follows
  <2>3. QED
    BY <1>1, <2>1, <2>2
<1>9. f[n] = g[n]
  BY <1>1, <1>7
<1>10. QED
  BY <1>2, <1>3, <1>8, <1>9 DEF more

(* Rows that follow others are read from where those left the reader.      *)
LEMMA ReadOnward ==
  ASSUME NEW s \in ReaderStates, NEW a \in Seq(RowSet), NEW b \in Seq(RowSet)
  PROVE  ReadOn(s, a \o b) = ReadOn(ReadOn(s, a), b)
<1> DEFINE m == Len(a)
           n == Len(b)
           both == a \o b
<1>1. /\ m \in Nat /\ n \in Nat /\ both \in Seq(RowSet) /\ Len(both) = m + n
      /\ \A k \in 1 .. m : both[k] = a[k]
      /\ \A k \in 1 .. n : both[m + k] = b[k]
  <2>1. \A k \in 1 .. n : m + k > m /\ m + k \in 1 .. m + n /\ m + k - m = k
    OBVIOUS
  <2>2. QED
    BY <2>1, ConcatProperties
<1>2. PICK f : IsReading(f, s, both) /\ ReadOn(s, both) = f[Len(both)]
  BY <1>1, ReadingExists
<1>3. PICK g : IsReading(g, s, a) /\ ReadOn(s, a) = g[m]
  BY ReadingExists
<1>4. ReadOn(s, a) \in ReaderStates
  BY ReadOnType
<1>5. PICK h : IsReading(h, ReadOn(s, a), b) /\ ReadOn(ReadOn(s, a), b) = h[n]
  BY <1>4, ReadingExists
<1>6. Follows(f, s, both, m + n) /\ Follows(g, s, a, m) /\ Follows(h, ReadOn(s, a), b, n)
  BY <1>1, <1>2, <1>3, <1>5 DEF IsReading
<1> HIDE DEF m, n, both
<1>7. f[m] = g[m]
  <2>1. \A k \in 1 .. m : k \in 1 .. m + n
    BY <1>1
  <2>2. Follows(f, s, a, m)
    BY <1>1, <1>6, <2>1 DEF Follows
  <2>3. m \in 0 .. m
    BY <1>1
  <2>4. QED
    BY <1>1, <1>6, <2>2, <2>3, SameReading
<1> DEFINE t == [k \in 0 .. n |-> f[m + k]]
<1>8. t[0] = ReadOn(s, a) /\ t[n] = f[m + n]
  <2>1. m + 0 = m /\ 0 \in 0 .. n /\ n \in 0 .. n
    BY <1>1
  <2>2. QED
    BY <1>3, <1>7, <2>1
<1>9. ASSUME NEW k \in 1 .. n PROVE t[k] = AfterRow(t[k - 1], b[k])
  <2>1. PICK j \in 1 .. m + n : j = m + k /\ j - 1 = m + (k - 1)
    BY <1>1
  <2>2. f[j] = AfterRow(f[j - 1], both[j])
    BY <1>6, <2>1 DEF Follows
  <2>3. both[j] = b[k] /\ k \in 0 .. n /\ k - 1 \in 0 .. n
    BY <1>1, <2>1
  <2>4. t[k] = f[j] /\ t[k - 1] = f[j - 1]
    BY <2>1, <2>3
  <2> HIDE DEF t
  <2>5. QED
    BY <2>2, <2>3, <2>4
<1> HIDE DEF t
<1>10. Follows(t, ReadOn(s, a), b, n)
  BY <1>8, <1>9 DEF Follows
<1>11. n \in 0 .. n
  BY <1>1
<1>12. t[n] = h[n]
  BY <1>1, <1>6, <1>10, <1>11, SameReading
<1>13. QED
  BY <1>1, <1>2, <1>5, <1>8, <1>12 DEF both

-----------------------------------------------------------------------------
(* The rows of a world.                                                    *)

LEMMA SingleRow ==
  ASSUME NEW T, NEW x \in T
  PROVE  <<x>> \in Seq(T) /\ Len(<<x>>) = 1 /\ <<x>>[1] = x
OBVIOUS

LEMMA AmountRowsType ==
  ASSUME NEW kind, NEW Id, NEW id \in Id, NEW storage \in Storages
  PROVE  AmountRows(kind, id, storage) \in
           Seq([kind : {kind}, id : Id, resource : Resource, n : U64])
<1> DEFINE T == [kind : {kind}, id : Id, resource : Resource, n : U64]
           one(k) == IF storage[ResourceOrder[k]] > 0
                     THEN <<[kind |-> kind, id |-> id, resource |-> ResourceOrder[k],
                             n |-> storage[ResourceOrder[k]]]>>
                     ELSE << >>
           parts == [k \in DOMAIN ResourceOrder |-> one(k)]
<1>1. ASSUME NEW k \in DOMAIN ResourceOrder PROVE one(k) \in Seq(T)
  <2>1. ResourceOrder[k] \in Resource /\ storage[ResourceOrder[k]] \in U64
    BY RuntimeAssumption DEF Storages
  <2>2. [kind |-> kind, id |-> id, resource |-> ResourceOrder[k], n |-> storage[ResourceOrder[k]]] \in T
    BY <2>1
  <2> HIDE DEF T
  <2>3. QED
    BY <2>2, SingleRow
<1>2. parts \in Seq(Seq(T))
  <2>1. ResourceOrder \in Seq(Resource)
    BY RuntimeAssumption
  <2>2. DOMAIN ResourceOrder = 1 .. Len(ResourceOrder) /\ Len(ResourceOrder) \in Nat
    BY <2>1
  <2> HIDE DEF T, one
  <2>3. QED
    BY <1>1, <2>2
<1>3. AmountRows(kind, id, storage) = FlattenSeq(parts)
  BY DEF AmountRows
<1> HIDE DEF T, parts
<1>4. PICK f \in [0 .. Len(parts) -> Seq(T)] : FlattenSeq(parts) = f[Len(parts)]
  BY <1>2, FlattenUnrolled
<1>5. Len(parts) \in 0 .. Len(parts)
  BY <1>2
<1>6. QED
  BY <1>3, <1>4, <1>5 DEF T

LEMMA FlattenType ==
  ASSUME NEW T, NEW seqs \in Seq(Seq(T))
  PROVE  FlattenSeq(seqs) \in Seq(T)
<1>1. PICK f \in [0 .. Len(seqs) -> Seq(T)] : FlattenSeq(seqs) = f[Len(seqs)]
  BY FlattenUnrolled
<1>2. Len(seqs) \in 0 .. Len(seqs)
  OBVIOUS
<1>3. QED
  BY <1>1, <1>2

(* One row, or some rows, for each of a sequence of records.               *)
LEMMA EachType ==
  ASSUME NEW R, NEW q \in Seq(R), NEW T, NEW rows, DOMAIN rows = DOMAIN q,
         rows = [k \in DOMAIN rows |-> rows[k]], \A k \in DOMAIN q : rows[k] \in T
  PROVE  rows \in Seq(T) /\ Len(rows) = Len(q)
<1>1. DOMAIN q = 1 .. Len(q) /\ Len(q) \in Nat
  OBVIOUS
<1>2. rows \in [1 .. Len(q) -> T]
  BY <1>1
<1>3. QED
  BY <1>1, <1>2

Body(w) ==
  <<[kind |-> Header], [kind |-> "day", n |-> w.day],
    [kind |-> "time", n |-> w.tick], [kind |-> "wallet", n |-> w.wallet]>>
  \o SettlementRows(w)
  \o [k \in DOMAIN w.routes |-> RouteRow(w.routes[k])]
  \o FleetRows(w)
  \o RowsOf("faction", SetToSeq(w.factions))
  \o OwnerRows(w)

LEMMA SettlementRowsType ==
  ASSUME NEW w \in WorldRecords
  PROVE  SettlementRows(w) \in Seq(BodyRows)
<1> DEFINE q == SetToSeq(w.settlements)
           part(k) == <<[kind |-> "settlement", id |-> q[k]]>>
                      \o AmountRows("settlement_storage", q[k], w.stores[q[k]])
           parts == [k \in DOMAIN q |-> part(k)]
<1>1. w.settlements \subseteq SettlementId /\ w.stores \in [SettlementId -> Storages]
  BY DEF WorldRecords
<1>2. IsFiniteSet(w.settlements)
  BY <1>1, PersistAssumption, FS_Subset
<1>3. q \in Seq(w.settlements)
  BY <1>2, SetAsSequence
<1> HIDE DEF q
<1>4. ASSUME NEW k \in DOMAIN q PROVE part(k) \in Seq(BodyRows)
  <2>1. q[k] \in SettlementId /\ w.stores[q[k]] \in Storages
    BY <1>1, <1>3
  <2>2. [kind |-> "settlement", id |-> q[k]] \in BodyRows
    BY <2>1 DEF BodyRows, PlaceRows
  <2>3. AmountRows("settlement_storage", q[k], w.stores[q[k]]) \in Seq(StoreRows)
    BY <2>1, AmountRowsType DEF StoreRows
  <2>4. StoreRows \subseteq BodyRows
    BY DEF BodyRows
  <2>5. AmountRows("settlement_storage", q[k], w.stores[q[k]]) \in Seq(BodyRows)
    BY <2>3, <2>4, SeqMonotonic
  <2>6. <<[kind |-> "settlement", id |-> q[k]]>> \in Seq(BodyRows)
    BY <2>2, SingleRow
  <2>7. QED
    BY <2>5, <2>6, ConcatProperties
<1>5. parts \in Seq(Seq(BodyRows))
  <2>1. DOMAIN parts = DOMAIN q /\ parts = [k \in DOMAIN parts |-> parts[k]]
    OBVIOUS
  <2>2. \A k \in DOMAIN q : parts[k] \in Seq(BodyRows)
    BY <1>4
  <2> HIDE DEF parts
  <2>3. QED
    BY <1>3, <2>1, <2>2, EachType
<1>6. SettlementRows(w) = FlattenSeq(parts)
  BY DEF SettlementRows, q
<1> HIDE DEF parts
<1>7. QED
  BY <1>5, <1>6, FlattenType

LEMMA FilledRecords ==
  /\ FilledRoutes \subseteq Routes /\ FilledCaravans \subseteq Caravans
  /\ FilledContracts \subseteq ContractRecords
BY DEF FilledRoutes, FilledCaravans, FilledContracts

(* What is written is what is held.                                        *)
LEMMA CaravanRowType ==
  ASSUME NEW c \in FilledCaravans
  PROVE  /\ CaravanRow(c) \in CarrierRows
         /\ CaravanRow(c) = [kind |-> "caravan", record |-> [c EXCEPT !.cargo = EmptyStorage]]
         /\ CaravanRow(c).record \in FilledCaravans
<1>1. c \in Caravans /\ c.totalTicks = TotalTicks(c) /\ c.ticksLeft = TicksLeft(c)
  BY DEF FilledCaravans
<1>2. EmptyStorage \in Storages
  BY WidthAssumption DEF EmptyStorage, Storages, U64
<1>3. [c EXCEPT !.totalTicks = TotalTicks(c), !.ticksLeft = TicksLeft(c), !.cargo = EmptyStorage]
        = [c EXCEPT !.cargo = EmptyStorage]
  BY <1>1 DEF Caravans
<1>4. [c EXCEPT !.cargo = EmptyStorage] \in FilledCaravans
  BY <1>2, ReloadedFilled
<1>5. QED
  BY <1>3, <1>4 DEF CaravanRow, CarrierRows

LEMMA FleetRowsType ==
  ASSUME NEW w \in WorldRecords
  PROVE  FleetRows(w) \in Seq(BodyRows)
<1>1. PICK q \in Seq(FilledCaravans) : q = w.fleet
  BY DEF WorldRecords
<1> DEFINE part(p) == <<CaravanRow(q[p])>> \o AmountRows("caravan_cargo", q[p].id, q[p].cargo)
           parts == [p \in DOMAIN q |-> part(p)]
<1>2. ASSUME NEW p \in DOMAIN q PROVE part(p) \in Seq(BodyRows)
  <2>1. q[p] \in FilledCaravans
    OBVIOUS
  <2>2. q[p].id \in CaravanId /\ q[p].cargo \in Storages
    BY <2>1, FilledRecords DEF Caravans
  <2>3. CaravanRow(q[p]) \in BodyRows
    BY <2>1, CaravanRowType DEF BodyRows
  <2>4. AmountRows("caravan_cargo", q[p].id, q[p].cargo) \in Seq(CargoRows)
    BY <2>2, AmountRowsType DEF CargoRows
  <2>5. CargoRows \subseteq BodyRows
    BY DEF BodyRows
  <2>6. AmountRows("caravan_cargo", q[p].id, q[p].cargo) \in Seq(BodyRows)
    BY <2>4, <2>5, SeqMonotonic
  <2>7. <<CaravanRow(q[p])>> \in Seq(BodyRows)
    BY <2>3, SingleRow
  <2>8. QED
    BY <2>6, <2>7, ConcatProperties
<1>3. parts \in Seq(Seq(BodyRows))
  <2>1. DOMAIN parts = DOMAIN q /\ parts = [p \in DOMAIN parts |-> parts[p]]
    OBVIOUS
  <2>2. \A p \in DOMAIN q : parts[p] \in Seq(BodyRows)
    BY <1>2
  <2> HIDE DEF parts
  <2>3. QED
    BY <1>1, <2>1, <2>2, EachType
<1>4. FleetRows(w) = FlattenSeq(parts)
  BY <1>1 DEF FleetRows
<1> HIDE DEF parts
<1>5. QED
  BY <1>3, <1>4, FlattenType

LEMMA OwnerRowsType ==
  ASSUME NEW w \in WorldRecords
  PROVE  OwnerRows(w) \in Seq(BodyRows)
<1> DEFINE O == {c \in CaravanId : w.owner[c] # NoFaction}
           q == SetToSeq(O)
           rows == [k \in DOMAIN q |-> [kind |-> "caravan_owner", id |-> q[k], faction |-> w.owner[q[k]]]]
<1>1. w.owner \in [CaravanId -> Faction \cup {NoFaction}]
  BY DEF WorldRecords
<1>2. IsFiniteSet(O)
  BY PersistAssumption, FS_Subset
<1>3. q \in Seq(O)
  <2> HIDE DEF O
  <2>1. QED
    BY <1>2, SetAsSequence
<1>4. OwnerRows(w) = rows
  BY DEF OwnerRows
<1> HIDE DEF q
<1>5. \A k \in DOMAIN q : rows[k] \in OwnedRows
  BY <1>1, <1>3 DEF OwnedRows
<1>6. rows \in Seq(OwnedRows)
  <2>1. DOMAIN rows = DOMAIN q /\ rows = [k \in DOMAIN rows |-> rows[k]]
    OBVIOUS
  <2> HIDE DEF rows, O
  <2>2. QED
    BY <1>3, <1>5, <2>1, EachType
<1>7. OwnedRows \subseteq BodyRows
  BY DEF BodyRows
<1> HIDE DEF rows
<1>8. QED
  BY <1>4, <1>6, <1>7, SeqMonotonic

LEMMA FactionRowsType ==
  ASSUME NEW w \in WorldRecords
  PROVE  RowsOf("faction", SetToSeq(w.factions)) \in Seq(BodyRows)
<1> DEFINE q == SetToSeq(w.factions)
           rows == [k \in DOMAIN q |-> [kind |-> "faction", record |-> q[k]]]
<1>1. w.factions \subseteq Faction
  BY DEF WorldRecords
<1>2. IsFiniteSet(w.factions)
  BY <1>1, PersistAssumption, FS_Subset
<1>3. q \in Seq(w.factions)
  BY <1>2, SetAsSequence
<1>4. RowsOf("faction", q) = rows
  BY DEF RowsOf
<1> HIDE DEF q
<1>5. \A k \in DOMAIN q : rows[k] \in BodyRows
  BY <1>1, <1>3 DEF FactionRows, BodyRows
<1>6. rows \in Seq(BodyRows)
  <2>1. DOMAIN rows = DOMAIN q /\ rows = [k \in DOMAIN rows |-> rows[k]]
    OBVIOUS
  <2> HIDE DEF rows
  <2>2. QED
    BY <1>3, <1>5, <2>1, EachType
<1>7. QED
  BY <1>4, <1>6 DEF q

LEMMA RouteRowSame ==
  ASSUME NEW r \in FilledRoutes
  PROVE  RouteRow(r) = [kind |-> "route", record |-> r]
<1>1. r \in Routes /\ r.ticks = RouteTicks(r)
  BY DEF FilledRoutes
<1>2. [r EXCEPT !.ticks = RouteTicks(r)] = r
  BY <1>1 DEF Routes
<1>3. QED
  BY <1>2 DEF RouteRow

LEMMA RoadRowsType ==
  ASSUME NEW w \in WorldRecords
  PROVE  [k \in DOMAIN w.routes |-> RouteRow(w.routes[k])] \in Seq(BodyRows)
<1> DEFINE rows == [k \in DOMAIN w.routes |-> RouteRow(w.routes[k])]
<1>1. PICK q \in Seq(FilledRoutes) : q = w.routes
  BY DEF WorldRecords
<1>2. ASSUME NEW k \in DOMAIN q PROVE rows[k] \in BodyRows
  <2>1. q[k] \in FilledRoutes
    OBVIOUS
  <2>2. RouteRow(q[k]) = [kind |-> "route", record |-> q[k]]
    BY <2>1, RouteRowSame
  <2>3. RouteRow(q[k]) \in RoadRows
    BY <2>1, <2>2 DEF RoadRows
  <2>4. QED
    BY <1>1, <2>3 DEF BodyRows
<1>3. DOMAIN rows = DOMAIN q /\ rows = [k \in DOMAIN rows |-> rows[k]]
  BY <1>1
<1> HIDE DEF rows
<1>4. rows \in Seq(BodyRows)
  BY <1>2, <1>3, EachType
<1>5. QED
  BY <1>4 DEF rows

LEMMA BodyType ==
  ASSUME NEW w \in WorldRecords
  PROVE  Body(w) \in Seq(BodyRows)
<1> DEFINE head == <<[kind |-> Header], [kind |-> "day", n |-> w.day],
                     [kind |-> "time", n |-> w.tick], [kind |-> "wallet", n |-> w.wallet]>>
<1>1. head \in Seq(BodyRows)
  <2>1. w.day \in U64 /\ w.tick \in U64 /\ w.wallet \in U64
    BY DEF WorldRecords
  <2>2. /\ [kind |-> Header] \in BodyRows
        /\ [kind |-> "day", n |-> w.day] \in BodyRows
        /\ [kind |-> "time", n |-> w.tick] \in BodyRows
        /\ [kind |-> "wallet", n |-> w.wallet] \in BodyRows
    BY <2>1 DEF BodyRows, HeaderRows, NumberRows
  <2>3. QED
    BY <2>2
<1> HIDE DEF head
<1>2. head \o SettlementRows(w) \in Seq(BodyRows)
  BY <1>1, SettlementRowsType, ConcatProperties
<1>3. head \o SettlementRows(w) \o [k \in DOMAIN w.routes |-> RouteRow(w.routes[k])] \in Seq(BodyRows)
  BY <1>2, RoadRowsType, ConcatProperties
<1>4. head \o SettlementRows(w) \o [k \in DOMAIN w.routes |-> RouteRow(w.routes[k])]
      \o FleetRows(w) \in Seq(BodyRows)
  BY <1>3, FleetRowsType, ConcatProperties
<1>5. head \o SettlementRows(w) \o [k \in DOMAIN w.routes |-> RouteRow(w.routes[k])]
      \o FleetRows(w) \o RowsOf("faction", SetToSeq(w.factions)) \in Seq(BodyRows)
  BY <1>4, FactionRowsType, ConcatProperties
<1>6. head \o SettlementRows(w) \o [k \in DOMAIN w.routes |-> RouteRow(w.routes[k])]
      \o FleetRows(w) \o RowsOf("faction", SetToSeq(w.factions)) \o OwnerRows(w) \in Seq(BodyRows)
  BY <1>5, OwnerRowsType, ConcatProperties
<1>7. QED
  BY <1>6 DEF Body, head

(* The contract and the ledger rows, and the records in them.              *)
Booked(w) == [i \in DOMAIN w.catalog |-> [w.catalog[i] EXCEPT !.dueTicks = DueTicks(w.catalog[i])]]

LEMMA RowsOfType ==
  ASSUME NEW R, NEW q \in Seq(R), NEW kind
  PROVE  /\ RowsOf(kind, q) \in Seq([kind : {kind}, record : R])
         /\ Len(RowsOf(kind, q)) = Len(q)
         /\ \A k \in 1 .. Len(q) : RowsOf(kind, q)[k] = [kind |-> kind, record |-> q[k]]
<1> DEFINE rows == RowsOf(kind, q)
           T == [kind : {kind}, record : R]
<1>1. DOMAIN rows = DOMAIN q /\ rows = [k \in DOMAIN rows |-> rows[k]]
  BY DEF RowsOf
<1>2. DOMAIN q = 1 .. Len(q) /\ \A k \in DOMAIN q : rows[k] = [kind |-> kind, record |-> q[k]]
  BY DEF RowsOf
<1>3. ASSUME NEW k \in DOMAIN q PROVE rows[k] \in T
  <2>1. PICK r \in R : r = q[k]
    OBVIOUS
  <2>2. [kind |-> kind, record |-> r] \in T
    OBVIOUS
  <2> HIDE DEF T, rows
  <2>3. QED
    BY <1>2, <2>1, <2>2
<1> HIDE DEF rows, T
<1>4. rows \in Seq(T) /\ Len(rows) = Len(q)
  BY <1>1, <1>3, EachType
<1>5. QED
  BY <1>2, <1>4 DEF rows, T

LEMMA BookedSame ==
  ASSUME NEW w \in WorldRecords
  PROVE  Booked(w) = w.catalog
<1>1. PICK q \in Seq(FilledContracts) : q = w.catalog
  BY DEF WorldRecords
<1>2. ASSUME NEW i \in DOMAIN q PROVE [q[i] EXCEPT !.dueTicks = DueTicks(q[i])] = q[i]
  <2>1. PICK c \in FilledContracts : c = q[i]
    OBVIOUS
  <2>2. c \in ContractRecords /\ c.dueTicks = DueTicks(c)
    BY DEF FilledContracts
  <2>3. [c EXCEPT !.dueTicks = DueTicks(c)] = c
    BY <2>2 DEF ContractRecords
  <2>4. QED
    BY <2>1, <2>3
<1>3. Booked(w) = [i \in DOMAIN q |-> [q[i] EXCEPT !.dueTicks = DueTicks(q[i])]]
  BY <1>1 DEF Booked
<1>4. Booked(w) = [i \in DOMAIN q |-> q[i]]
  BY <1>2, <1>3
<1>5. QED
  BY <1>1, <1>4

LEMMA BookedType ==
  ASSUME NEW w \in WorldRecords
  PROVE  Booked(w) \in Seq(FilledContracts) /\ Len(Booked(w)) = Len(w.catalog)
BY BookedSame DEF WorldRecords

LEMMA RowsAre ==
  ASSUME NEW w \in WorldRecords
  PROVE  /\ Rows(w) = Body(w) \o ContractRows(w) \o LedgerRows(w)
         /\ Body(w) \in Seq(BodyRows) /\ ContractRows(w) \in Seq(OfferRows)
         /\ LedgerRows(w) \in Seq(EntryRows) /\ Rows(w) \in Seq(RowSet)
<1>1. Rows(w) = Body(w) \o ContractRows(w) \o LedgerRows(w)
  BY DEF Rows, Body
<1>2. Body(w) \in Seq(BodyRows)
  BY BodyType
<1>3. ContractRows(w) \in Seq(OfferRows)
  <2>1. ContractRows(w) = RowsOf("contract", Booked(w))
    BY DEF ContractRows, Booked
  <2>2. QED
    BY <2>1, BookedType, RowsOfType DEF OfferRows
<1>4. LedgerRows(w) \in Seq(EntryRows)
  <2>1. w.entries \in Seq(Entries)
    BY DEF WorldRecords
  <2>2. QED
    BY <2>1, RowsOfType DEF LedgerRows, EntryRows
<1>5. BodyRows \subseteq RowSet /\ OfferRows \subseteq RowSet /\ EntryRows \subseteq RowSet
  BY DEF RowSet
<1>6. Body(w) \in Seq(RowSet) /\ ContractRows(w) \in Seq(RowSet) /\ LedgerRows(w) \in Seq(RowSet)
  BY <1>2, <1>3, <1>4, <1>5, SeqMonotonic
<1>7. Body(w) \o ContractRows(w) \in Seq(RowSet)
  BY <1>6, ConcatProperties
<1>8. QED
  BY <1>1, <1>2, <1>3, <1>4, <1>6, <1>7, ConcatProperties

-----------------------------------------------------------------------------
(* What the reader makes of the contracts and of the ledger.               *)

(* The rows of one world, in order: b of them before the contracts, then   *)
(* the c contracts, then the ledger.                                       *)
InOrder(rows, b, offers, entries) ==
  /\ \A k \in DOMAIN rows : k <= b => rows[k] \in BodyRows
  /\ \A k \in DOMAIN rows : k > b /\ k <= b + Len(offers) =>
       rows[k] = [kind |-> "contract", record |-> offers[k - b]]
  /\ \A k \in DOMAIN rows : k > b + Len(offers) =>
       rows[k] = [kind |-> "ledger", record |-> entries[k - b - Len(offers)]]

OffersRead(k, b, c) == IF k <= b THEN 0 ELSE IF k <= b + c THEN k - b ELSE c

EntriesRead(k, b, c) == IF k <= b + c THEN 0 ELSE k - b - c

(* What a reader that has met no error holds after k of these rows.        *)
Held(s, k, b, offers, entries) ==
  s.ok =>
    /\ Len(s.world.catalog) = OffersRead(k, b, Len(offers))
    /\ \A i \in 1 .. OffersRead(k, b, Len(offers)) : s.world.catalog[i] = offers[i]
    /\ Len(s.world.entries) = EntriesRead(k, b, Len(offers))
    /\ \A i \in 1 .. EntriesRead(k, b, Len(offers)) : s.world.entries[i] = entries[i]

(* An error stays one.                                                     *)
LEMMA ErrorStays ==
  ASSUME NEW s \in ReaderStates, NEW row, AfterRow(s, row).ok
  PROVE  /\ s.ok
         /\ row.kind # "torn"
         /\ row.kind # Header => /\ s.header /\ Fits(s.world, row)
                                 /\ AfterRow(s, row).world = WithRow(s.world, row)
         /\ row.kind = Header => AfterRow(s, row).world = s.world
<1>1. CASE row.kind = Header
  BY <1>1 DEF AfterRow, ReaderStates, Header
<1>2. CASE row.kind # Header /\ s.header /\ row.kind # "torn" /\ Fits(s.world, row)
  BY <1>2 DEF AfterRow, ReaderStates
<1>3. CASE row.kind # Header /\ ~(s.header /\ row.kind # "torn" /\ Fits(s.world, row))
  BY <1>3 DEF AfterRow, ReaderStates
<1>4. QED
  BY <1>1, <1>2, <1>3

(* The rows before the contracts leave the book and the ledger alone.      *)
LEMMA BodyKeepsBook ==
  ASSUME NEW w \in WorldRecords, NEW row \in BodyRows, row.kind # Header
  PROVE  WithRow(w, row).catalog = w.catalog /\ WithRow(w, row).entries = w.entries
<1>1. CASE row \in NumberRows
  <2>1. row.kind \in {"day", "time", "wallet"}
    BY <1>1 DEF NumberRows
  <2>2. CASE row.kind = "day"
    BY <2>2 DEF WithRow, WorldRecords
  <2>3. CASE row.kind = "time"
    BY <2>3 DEF WithRow, WorldRecords
  <2>4. CASE row.kind = "wallet"
    BY <2>4 DEF WithRow, WorldRecords
  <2>5. QED
    BY <2>1, <2>2, <2>3, <2>4
<1>2. CASE row \in PlaceRows
  BY <1>2 DEF PlaceRows, WithRow, WorldRecords
<1>3. CASE row \in StoreRows
  BY <1>3 DEF StoreRows, WithRow, WorldRecords
<1>4. CASE row \in RoadRows
  BY <1>4 DEF RoadRows, WithRow, WorldRecords
<1>5. CASE row \in CarrierRows
  BY <1>5 DEF CarrierRows, WithRow, WorldRecords
<1>6. CASE row \in CargoRows
  BY <1>6 DEF CargoRows, WithRow, WorldRecords
<1>7. CASE row \in FactionRows
  BY <1>7 DEF FactionRows, WithRow, WorldRecords
<1>8. CASE row \in OwnedRows
  BY <1>8 DEF OwnedRows, WithRow, WorldRecords
<1>9. row \notin HeaderRows
  BY DEF HeaderRows
<1>10. QED
  BY <1>1, <1>2, <1>3, <1>4, <1>5, <1>6, <1>7, <1>8, <1>9 DEF BodyRows

LEMMA AppendedTo ==
  ASSUME NEW T, NEW q \in Seq(T), NEW r \in T, NEW n \in Nat, Len(q) = n - 1
  PROVE  /\ Append(q, r) \in Seq(T) /\ Len(Append(q, r)) = n /\ Append(q, r)[n] = r
         /\ \A i \in 1 .. n - 1 : Append(q, r)[i] = q[i]
<1>1. n = Len(q) + 1
  OBVIOUS
<1>2. QED
  BY <1>1

LEMMA HeldOn ==
  ASSUME NEW s \in ReaderStates, NEW rows \in Seq(RowSet), NEW b \in Nat,
         NEW offers \in Seq(FilledContracts), NEW entries \in Seq(Entries),
         InOrder(rows, b, offers, entries), NEW k \in 1 .. Len(rows),
         Held(s, k - 1, b, offers, entries)
  PROVE  Held(AfterRow(s, rows[k]), k, b, offers, entries)
<1> DEFINE c == Len(offers)
           row == rows[k]
           t == AfterRow(s, row)
<1>1. k \in Nat /\ k >= 1 /\ c \in Nat /\ k \in DOMAIN rows /\ row \in RowSet
  OBVIOUS
<1>2. /\ s.world \in WorldRecords
      /\ s.world.catalog \in Seq(FilledContracts) /\ s.world.entries \in Seq(Entries)
  BY DEF ReaderStates, WorldRecords
<1> SUFFICES ASSUME t.ok
             PROVE  /\ Len(t.world.catalog) = OffersRead(k, b, c)
                    /\ \A i \in 1 .. OffersRead(k, b, c) : t.world.catalog[i] = offers[i]
                    /\ Len(t.world.entries) = EntriesRead(k, b, c)
                    /\ \A i \in 1 .. EntriesRead(k, b, c) : t.world.entries[i] = entries[i]
  BY DEF Held
<1>3. s.ok /\ (row.kind # Header => t.world = WithRow(s.world, row))
      /\ (row.kind = Header => t.world = s.world)
  BY ErrorStays
<1>4. /\ Len(s.world.catalog) = OffersRead(k - 1, b, c)
      /\ \A i \in 1 .. OffersRead(k - 1, b, c) : s.world.catalog[i] = offers[i]
      /\ Len(s.world.entries) = EntriesRead(k - 1, b, c)
      /\ \A i \in 1 .. EntriesRead(k - 1, b, c) : s.world.entries[i] = entries[i]
  BY <1>3 DEF Held
<1> HIDE DEF c, row, t
<1>5. CASE k <= b
  <2>1. row \in BodyRows
    BY <1>1, <1>5 DEF InOrder, row
  <2>2. t.world.catalog = s.world.catalog /\ t.world.entries = s.world.entries
    BY <1>2, <1>3, <2>1, BodyKeepsBook
  <2>3. /\ OffersRead(k, b, c) = OffersRead(k - 1, b, c)
        /\ EntriesRead(k, b, c) = EntriesRead(k - 1, b, c)
    BY <1>1, <1>5 DEF OffersRead, EntriesRead
  <2>4. QED
    BY <1>4, <2>2, <2>3
<1>6. CASE k > b /\ k <= b + c
  <2>1. row = [kind |-> "contract", record |-> offers[k - b]]
    BY <1>1, <1>6 DEF InOrder, row, c
  <2>2. PICK r \in FilledContracts : r = offers[k - b]
    BY <1>1, <1>6 DEF c
  <2>3. PICK q \in Seq(FilledContracts) : q = s.world.catalog
    BY <1>2
  <2>4. t.world = [s.world EXCEPT !.catalog = Append(q, r)]
    BY <1>3, <2>1, <2>2, <2>3, ContractFromSame, FilledRecords DEF WithRow, Header
  <2>5. t.world.catalog = Append(q, r) /\ t.world.entries = s.world.entries
    BY <1>2, <2>4 DEF WorldRecords
  <2>6. /\ OffersRead(k, b, c) = k - b /\ OffersRead(k - 1, b, c) = k - b - 1
        /\ EntriesRead(k, b, c) = 0 /\ EntriesRead(k - 1, b, c) = 0
    BY <1>1, <1>6 DEF OffersRead, EntriesRead
  <2>7. PICK n \in Nat : n = k - b /\ n - 1 = k - b - 1 /\ n >= 1
    BY <1>1, <1>6
  <2>8. /\ Len(q) = n - 1 /\ Len(Append(q, r)) = n /\ Append(q, r)[n] = r
        /\ \A i \in 1 .. n - 1 : Append(q, r)[i] = q[i]
    BY <1>4, <2>3, <2>6, <2>7, AppendedTo
  <2>9. ASSUME NEW i \in 1 .. n PROVE Append(q, r)[i] = offers[i]
    <3>1. CASE i = n
      BY <2>2, <2>7, <2>8, <3>1
    <3>2. CASE i # n
      <4>1. i \in 1 .. n - 1
        BY <2>7, <3>2
      <4>2. QED
        BY <1>4, <2>3, <2>6, <2>7, <2>8, <4>1
    <3>3. QED
      BY <3>1, <3>2
  <2>10. t.world.catalog = Append(q, r) /\ Len(t.world.catalog) = OffersRead(k, b, c)
    BY <2>5, <2>6, <2>7, <2>8
  <2>11. \A i \in 1 .. OffersRead(k, b, c) : t.world.catalog[i] = offers[i]
    BY <2>6, <2>7, <2>9, <2>10
  <2>12. Len(t.world.entries) = EntriesRead(k, b, c) /\ EntriesRead(k, b, c) = 0
    BY <1>4, <2>5, <2>6
  <2>13. QED
    BY <2>10, <2>11, <2>12
<1>7. CASE k > b + c
  <2>1. row = [kind |-> "ledger", record |-> entries[k - b - c]]
    BY <1>1, <1>7 DEF InOrder, row, c
  <2>2. PICK r \in Entries : r = row.record
    <3>1. row \in RowSet /\ row.kind = "ledger"
      BY <1>1, <2>1
    <3>2. row \in EntryRows
      BY <3>1 DEF RowSet, BodyRows, OfferRows, TornRows, HeaderRows, NumberRows, PlaceRows,
                  StoreRows, RoadRows, CarrierRows, CargoRows, FactionRows, OwnedRows, Header
    <3>3. QED
      BY <3>2 DEF EntryRows
  <2>3. PICK q \in Seq(Entries) : q = s.world.entries
    BY <1>2
  <2>4. t.world = [s.world EXCEPT !.entries = Append(q, r)]
    BY <1>3, <2>1, <2>2, <2>3 DEF WithRow, Header
  <2>5. t.world.entries = Append(q, r) /\ t.world.catalog = s.world.catalog
    BY <1>2, <2>4 DEF WorldRecords
  <2>6. /\ OffersRead(k, b, c) = c /\ OffersRead(k - 1, b, c) = c
        /\ EntriesRead(k, b, c) = k - b - c /\ EntriesRead(k - 1, b, c) = k - b - c - 1
    BY <1>1, <1>7 DEF OffersRead, EntriesRead
  <2>7. PICK n \in Nat : n = k - b - c /\ n - 1 = k - b - c - 1 /\ n >= 1
    BY <1>1, <1>7
  <2>8. /\ Len(q) = n - 1 /\ Len(Append(q, r)) = n /\ Append(q, r)[n] = r
        /\ \A i \in 1 .. n - 1 : Append(q, r)[i] = q[i]
    BY <1>4, <2>3, <2>6, <2>7, AppendedTo
  <2>9. r = entries[n]
    BY <2>1, <2>2, <2>7
  <2>10. ASSUME NEW i \in 1 .. n PROVE Append(q, r)[i] = entries[i]
    <3>1. CASE i = n
      BY <2>8, <2>9, <3>1
    <3>2. CASE i # n
      <4>1. i \in 1 .. n - 1
        BY <2>7, <3>2
      <4>2. QED
        BY <1>4, <2>3, <2>6, <2>7, <2>8, <4>1
    <3>3. QED
      BY <3>1, <3>2
  <2>11. QED
    BY <1>4, <2>5, <2>6, <2>7, <2>8, <2>10
<1>8. QED
  BY <1>1, <1>5, <1>6, <1>7

NoBook(s) == s.world.catalog = << >> /\ s.world.entries = << >>

LEMMA ReadBook ==
  ASSUME NEW s \in ReaderStates, NoBook(s), NEW rows \in Seq(RowSet), NEW b \in Nat,
         NEW offers \in Seq(FilledContracts), NEW entries \in Seq(Entries),
         InOrder(rows, b, offers, entries)
  PROVE  Held(ReadOn(s, rows), Len(rows), b, offers, entries)
<1>1. PICK f : IsReading(f, s, rows) /\ ReadOn(s, rows) = f[Len(rows)]
  BY ReadingExists
<1>2. /\ f \in [0 .. Len(rows) -> ReaderStates] /\ f[0] = s
      /\ \A k \in 1 .. Len(rows) : f[k] = AfterRow(f[k - 1], rows[k])
  BY <1>1 DEF IsReading, Follows
<1> DEFINE S == {k \in 0 .. Len(rows) : Held(f[k], k, b, offers, entries)}
<1>3. Len(rows) \in Nat /\ Len(offers) \in Nat
  OBVIOUS
<1>4. 0 \in S
  <2>1. OffersRead(0, b, Len(offers)) = 0 /\ EntriesRead(0, b, Len(offers)) = 0
    BY <1>3 DEF OffersRead, EntriesRead
  <2>2. Held(s, 0, b, offers, entries)
    BY <2>1 DEF Held, NoBook
  <2>3. QED
    BY <1>2, <1>3, <2>2
<1>5. ASSUME NEW k \in 1 .. Len(rows), k - 1 \in S PROVE k \in S
  <2>1. k - 1 \in 0 .. Len(rows) /\ k \in 0 .. Len(rows)
    BY <1>3
  <2>2. f[k - 1] \in ReaderStates /\ Held(f[k - 1], k - 1, b, offers, entries)
    BY <1>2, <1>5, <2>1
  <2>3. Held(AfterRow(f[k - 1], rows[k]), k, b, offers, entries)
    BY <2>2, HeldOn
  <2>4. QED
    BY <1>2, <2>1, <2>3
<1> HIDE DEF S
<1>6. \A k \in 0 .. Len(rows) : k \in S
  BY <1>3, <1>4, <1>5, BoundedInduction
<1>7. Len(rows) \in S
  BY <1>3, <1>6
<1>8. QED
  BY <1>1, <1>7 DEF S

(* Three sequences one after the other.                                    *)
ThreeParts(rows, x, y, z, m, n, e) ==
  /\ DOMAIN rows = 1 .. m + n + e /\ Len(rows) = m + n + e
  /\ \A k \in 1 .. m : rows[k] = x[k]
  /\ \A k \in 1 .. m + n : k > m => rows[k] = y[k - m]
  /\ \A k \in 1 .. m + n + e : k > m + n => rows[k] = z[k - m - n]

LEMMA PastBoth ==
  ASSUME NEW k \in Nat, NEW b \in Nat, NEW c \in Nat, NEW e \in Nat, k <= b + c + e
  PROVE  k - b - c <= e
OBVIOUS

LEMMA TwoInARow ==
  ASSUME NEW T, NEW x \in Seq(T), NEW y \in Seq(T), NEW m \in Nat, NEW n \in Nat,
         m = Len(x), n = Len(y)
  PROVE  /\ x \o y \in Seq(T) /\ Len(x \o y) = m + n
         /\ \A k \in 1 .. m + n : (x \o y)[k] = IF k <= m THEN x[k] ELSE y[k - m]
BY ConcatProperties

LEMMA ThreeInARow ==
  ASSUME NEW T, NEW x \in Seq(T), NEW y \in Seq(T), NEW z \in Seq(T),
         NEW m \in Nat, NEW n \in Nat, NEW e \in Nat, m = Len(x), n = Len(y), e = Len(z)
  PROVE  ThreeParts(x \o y \o z, x, y, z, m, n, e)
<1>1. PICK v \in Seq(T) : v = x \o y
  BY ConcatProperties
<1>2. /\ Len(v) = m + n
      /\ \A k \in 1 .. m + n : v[k] = IF k <= m THEN x[k] ELSE y[k - m]
  BY <1>1, ConcatProperties
<1>3. PICK q \in Nat : q = m + n /\ Len(v) = q
  BY <1>2
<1>4. /\ v \o z \in Seq(T) /\ Len(v \o z) = q + e
      /\ \A k \in 1 .. q + e : (v \o z)[k] = IF k <= q THEN v[k] ELSE z[k - q]
  <2>1. q = Len(v) /\ e = Len(z)
    BY <1>3
  <2>2. v \o z \in Seq(T)
    BY <2>1, TwoInARow
  <2>3. Len(v \o z) = q + e
    BY <2>1, TwoInARow
  <2>4. QED
    BY <2>1, <2>2, <2>3, TwoInARow
<1> DEFINE rows == v \o z
<1>5. DOMAIN rows = 1 .. q + e
  BY <1>4
<1> HIDE DEF rows
<1>6. \A k \in 1 .. m : rows[k] = x[k]
  BY <1>2, <1>3, <1>4 DEF rows
<1>7. \A k \in 1 .. m + n : k > m => rows[k] = y[k - m]
  BY <1>2, <1>3, <1>4 DEF rows
<1>8. \A k \in 1 .. m + n + e : k > m + n => rows[k] = z[k - m - n]
  BY <1>3, <1>4 DEF rows
<1>9. QED
  BY <1>1, <1>3, <1>4, <1>5, <1>6, <1>7, <1>8 DEF rows, ThreeParts

LEMMA PartsInOrder ==
  ASSUME NEW rows, NEW x, NEW y, NEW z, NEW m \in Nat, NEW n \in Nat, NEW e \in Nat,
         ThreeParts(rows, x, y, z, m, n, e), \A k \in 1 .. m : x[k] \in BodyRows,
         NEW offers, n = Len(offers), NEW entries,
         \A k \in 1 .. n : y[k] = [kind |-> "contract", record |-> offers[k]],
         \A k \in 1 .. e : z[k] = [kind |-> "ledger", record |-> entries[k]]
  PROVE  InOrder(rows, m, offers, entries)
<1>1. DOMAIN rows = 1 .. m + n + e
  BY DEF ThreeParts
<1>2. ASSUME NEW k \in DOMAIN rows, k <= m PROVE rows[k] \in BodyRows
  BY <1>1, <1>2 DEF ThreeParts
<1>3. ASSUME NEW k \in DOMAIN rows, k > m, k <= m + n
      PROVE  rows[k] = [kind |-> "contract", record |-> offers[k - m]]
  <2>1. k \in 1 .. m + n /\ k - m \in 1 .. n
    BY <1>1, <1>3
  <2>2. QED
    BY <1>3, <2>1 DEF ThreeParts
<1>4. ASSUME NEW k \in DOMAIN rows, k > m + n
      PROVE  rows[k] = [kind |-> "ledger", record |-> entries[k - m - n]]
  <2>1. k \in 1 .. m + n + e /\ k - m - n \in 1 .. e
    BY <1>1, <1>4
  <2>2. QED
    BY <1>4, <2>1 DEF ThreeParts
<1>5. QED
  BY <1>2, <1>3, <1>4 DEF InOrder

(* The rows of a world are its body, its contracts and its ledger.         *)
LEMMA RowsInOrder ==
  ASSUME NEW w \in WorldRecords
  PROVE  /\ InOrder(Rows(w), Len(Body(w)), Booked(w), w.entries)
         /\ Len(Rows(w)) = Len(Body(w)) + Len(Booked(w)) + Len(w.entries)
<1> DEFINE x == Body(w)
           y == ContractRows(w)
           z == LedgerRows(w)
           offers == Booked(w)
<1>1. /\ Rows(w) = x \o y \o z
      /\ x \in Seq(BodyRows) /\ y \in Seq(OfferRows) /\ z \in Seq(EntryRows)
  BY RowsAre
<1>2. offers \in Seq(FilledContracts) /\ w.entries \in Seq(Entries)
  BY BookedType DEF WorldRecords
<1>3. y = RowsOf("contract", offers) /\ z = RowsOf("ledger", w.entries)
  BY DEF ContractRows, Booked, LedgerRows
<1> HIDE DEF x, y, z, offers
<1>4. PICK entries \in Seq(Entries) : entries = w.entries
  BY <1>2
<1>5. PICK m \in Nat, n \in Nat, e \in Nat : m = Len(x) /\ n = Len(offers) /\ e = Len(entries)
  BY <1>1, <1>2
<1>6. Len(y) = n /\ \A k \in 1 .. n : y[k] = [kind |-> "contract", record |-> offers[k]]
  <2>1. Len(y) = Len(offers)
    BY <1>2, <1>3, RowsOfType
  <2>2. DOMAIN offers = 1 .. n
    BY <1>2, <1>5
  <2>3. QED
    BY <1>3, <1>5, <2>1, <2>2 DEF RowsOf
<1>7. Len(z) = e /\ \A k \in 1 .. e : z[k] = [kind |-> "ledger", record |-> entries[k]]
  <2>1. Len(z) = Len(entries)
    BY <1>3, <1>4, RowsOfType
  <2>2. DOMAIN entries = 1 .. e
    BY <1>4, <1>5
  <2>3. QED
    BY <1>3, <1>4, <1>5, <2>1, <2>2 DEF RowsOf
<1> DEFINE T == BodyRows \cup OfferRows \cup EntryRows
<1>8. x \in Seq(T) /\ y \in Seq(T) /\ z \in Seq(T)
  <2>1. BodyRows \subseteq T /\ OfferRows \subseteq T /\ EntryRows \subseteq T
    OBVIOUS
  <2> HIDE DEF T
  <2>2. QED
    BY <1>1, <2>1, SeqMonotonic
<1> HIDE DEF T
<1>9. ThreeParts(Rows(w), x, y, z, m, n, e)
  BY <1>1, <1>5, <1>6, <1>7, <1>8, ThreeInARow
<1>10. \A k \in 1 .. m : x[k] \in BodyRows
  BY <1>1, <1>5
<1>11. InOrder(Rows(w), m, offers, entries)
  BY <1>5, <1>6, <1>7, <1>9, <1>10, PartsInOrder
<1>12. QED
  BY <1>4, <1>5, <1>9, <1>11 DEF ThreeParts, x, offers

(* A row without its ticks is a row of the body still.                     *)
LEMMA LegacyRowType ==
  ASSUME NEW row \in BodyRows, row.kind \in {"route", "caravan"}
  PROVE  LegacyRow(row) \in BodyRows
<1> DEFINE fields == DOMAIN row.record \ TickFields[row.kind]
           old == [f \in fields |-> row.record[f]]
<1>1. LegacyRow(row) = [row EXCEPT !.record = old]
  BY DEF LegacyRow, Restrict
<1>2. CASE row.kind = "route"
  <2>1. row \in RoadRows
    BY <1>2 DEF BodyRows, HeaderRows, NumberRows, PlaceRows, StoreRows, CarrierRows, CargoRows,
                FactionRows, OwnedRows, Header
  <2>2. TickFields[row.kind] = {"ticks"}
    BY <1>2 DEF TickFields
  <2>3. PICK r \in FilledRoutes \cup OldRoutes : r = row.record
    BY <2>1 DEF RoadRows
  <2>4. old \in OldRoutes
    <3>1. fields = {"id", "origin", "destination", "days"}
      BY <2>2, <2>3 DEF FilledRoutes, Routes, OldRoutes
    <3>2. old = [id |-> r.id, origin |-> r.origin, destination |-> r.destination, days |-> r.days]
      BY <2>3, <3>1
    <3>3. QED
      BY <2>3, <3>2 DEF FilledRoutes, Routes, OldRoutes
  <2> HIDE DEF old
  <2>5. LegacyRow(row) \in RoadRows
    BY <1>1, <2>1, <2>4 DEF RoadRows
  <2>6. QED
    BY <2>5 DEF BodyRows
<1>3. CASE row.kind = "caravan"
  <2>1. row \in CarrierRows
    BY <1>3 DEF BodyRows, HeaderRows, NumberRows, PlaceRows, StoreRows, RoadRows, CargoRows,
                FactionRows, OwnedRows, Header
  <2>2. TickFields[row.kind] = {"totalTicks", "ticksLeft"}
    BY <1>3 DEF TickFields
  <2>3. PICK r \in FilledCaravans \cup OldCaravans : r = row.record
    BY <2>1 DEF CarrierRows
  <2>4. old \in OldCaravans
    <3>1. fields = {"id", "route", "origin", "destination", "totalDays", "daysLeft", "cargo"}
      BY <2>2, <2>3 DEF FilledCaravans, Caravans, OldCaravans
    <3>2. old = [id |-> r.id, route |-> r.route, origin |-> r.origin, destination |-> r.destination,
                 totalDays |-> r.totalDays, daysLeft |-> r.daysLeft, cargo |-> r.cargo]
      BY <2>3, <3>1
    <3>3. QED
      BY <2>3, <3>2 DEF FilledCaravans, Caravans, OldCaravans
  <2> HIDE DEF old
  <2>5. LegacyRow(row) \in CarrierRows
    BY <1>1, <2>1, <2>4 DEF CarrierRows
  <2>6. QED
    BY <2>5 DEF BodyRows
<1>4. QED
  BY <1>2, <1>3

(* What a file holds that a save wrote, or began to write.                 *)
FileOf(file, w) == file = Whole(w) \/ file \in Parts(w)

LEMMA ContentType ==
  ASSUME NEW w \in WorldRecords, NEW file, FileOf(file, w)
  PROVE  /\ Content(file) \in Seq(RowSet)
         /\ \/ /\ InOrder(Content(file), Len(Body(w)), Booked(w), w.entries)
               /\ Len(Content(file)) <= Len(Rows(w))
            \/ \E rows \in Seq(RowSet) : Content(file) = Append(rows, [kind |-> "torn"])
<1>1. PICK q \in Seq(RowSet) : q = Rows(w)
  BY RowsAre
<1>2. PICK b \in Nat : b = Len(Body(w))
  BY RowsAre
<1>3. PICK offers \in Seq(FilledContracts) : offers = Booked(w)
  BY BookedType
<1>4. PICK entries \in Seq(Entries) : entries = w.entries
  BY DEF WorldRecords
<1>5. /\ InOrder(q, b, offers, entries)
      /\ Len(q) \in Nat /\ Len(offers) \in Nat /\ DOMAIN q = 1 .. Len(q)
  <2>1. InOrder(q, b, offers, entries)
    BY <1>1, <1>2, <1>3, <1>4, RowsInOrder
  <2>2. QED
    BY <2>1
<1>6. /\ file.world = w /\ file.rows \in 0 .. Len(q) /\ file.tail \in {"none", "torn", "legacy"}
      /\ file.tail = "legacy" => file.rows + 1 \in 1 .. Len(q) /\ q[file.rows + 1].kind \in {"route", "caravan"}
  <2>1. CASE file = Whole(w)
    BY <1>1, <1>5, <2>1 DEF Whole
  <2>2. CASE file \in Parts(w)
    BY <1>1, <1>5, <2>2 DEF Parts
  <2>3. QED
    BY <2>1, <2>2 DEF FileOf
<1>7. PICK n \in 0 .. Len(q) : n = file.rows
  BY <1>6
<1> DEFINE p == SubSeq(q, 1, n)
<1>8. /\ p \in Seq(RowSet) /\ Len(p) = n /\ \A k \in 1 .. n : p[k] = q[k]
      /\ DOMAIN p = 1 .. n /\ DOMAIN q = 1 .. Len(q) /\ n \in Nat /\ n <= Len(q)
  BY <1>5, <1>7
<1>9. InOrder(p, b, offers, entries)
  <2>1. \A k \in DOMAIN p : k \in DOMAIN q /\ p[k] = q[k]
    BY <1>5, <1>8
  <2> HIDE DEF p
  <2>2. QED
    BY <1>5, <2>1 DEF InOrder
<1> HIDE DEF p
<1>10. CASE file.tail = "none"
  <2>1. Content(file) = p
    BY <1>1, <1>6, <1>7, <1>10 DEF Content, p
  <2>2. QED
    BY <1>1, <1>2, <1>3, <1>4, <1>8, <1>9, <2>1
<1>11. CASE file.tail = "torn"
  <2>1. Content(file) = Append(p, [kind |-> "torn"])
    BY <1>1, <1>6, <1>7, <1>11 DEF Content, p
  <2>2. [kind |-> "torn"] \in RowSet
    BY DEF RowSet, TornRows
  <2>3. QED
    BY <1>8, <2>1, <2>2
<1>12. CASE file.tail = "legacy"
  <2>1. PICK m \in 1 .. Len(q) : m = n + 1 /\ m - 1 = n
    BY <1>5, <1>6, <1>7, <1>12
  <2>2. q[m].kind \in {"route", "caravan"}
    BY <1>6, <1>7, <1>12, <2>1
  <2>3. m <= b
    <3>1. m \in DOMAIN q /\ m \in Nat
      BY <2>1
    <3>2. CASE m > b /\ m <= b + Len(offers)
      BY <1>5, <2>2, <3>1, <3>2 DEF InOrder
    <3>3. CASE m > b + Len(offers)
      BY <1>5, <2>2, <3>1, <3>3 DEF InOrder
    <3>4. QED
      BY <1>2, <1>5, <3>1, <3>2, <3>3
  <2>4. LegacyRow(q[m]) \in BodyRows
    <3>1. q[m] \in BodyRows
      BY <1>5, <2>1, <2>3 DEF InOrder
    <3>2. QED
      BY <1>1, <2>1, <2>2, <3>1, LegacyRowType
  <2> DEFINE r == LegacyRow(q[m])
             long == Append(p, r)
  <2>5. Content(file) = long
    BY <1>1, <1>6, <1>7, <1>12, <2>1 DEF Content, p
  <2>6. r \in RowSet
    BY <2>4 DEF RowSet
  <2> HIDE DEF r
  <2>7. /\ long \in Seq(RowSet) /\ Len(long) = m /\ long[m] = r
        /\ \A k \in 1 .. m - 1 : long[k] = p[k]
    BY <1>8, <2>1, <2>6, AppendedTo
  <2> HIDE DEF long
  <2>8. InOrder(long, b, offers, entries)
    <3>1. \A k \in DOMAIN long : k = m \/ (k \in DOMAIN p /\ long[k] = p[k])
      BY <1>8, <2>1, <2>7
    <3>2. ~(m > b) /\ ~(m > b + Len(offers))
      BY <1>5, <2>1, <2>3
    <3>3. QED
      BY <1>9, <2>4, <2>7, <3>1, <3>2 DEF InOrder, r
  <2>9. Len(long) <= Len(q)
    BY <1>5, <2>1, <2>7
  <2>10. QED
    BY <1>1, <1>2, <1>3, <1>4, <2>5, <2>7, <2>8, <2>9
<1>13. QED
  BY <1>6, <1>10, <1>11, <1>12

LEMMA TornIsAnError ==
  ASSUME NEW s \in ReaderStates, NEW rows \in Seq(RowSet)
  PROVE  ~ReadOn(s, Append(rows, [kind |-> "torn"])).ok
<1>1. [kind |-> "torn"] \in RowSet
  BY DEF RowSet, TornRows
<1>2. PICK t \in ReaderStates : t = ReadOn(s, rows)
  BY ReadOnType
<1>3. ReadOn(s, Append(rows, [kind |-> "torn"])) = AfterRow(t, [kind |-> "torn"])
  BY <1>1, <1>2, ReadOneMore
<1>4. AfterRow(t, [kind |-> "torn"]) = [t EXCEPT !.ok = FALSE]
  BY DEF AfterRow, Header
<1>5. QED
  BY <1>2, <1>3, <1>4 DEF ReaderStates

(* A file that parses holds no entry of the ledger, or all contracts and   *)
(* the first entries.                                                      *)
LEMMA ParsedBook ==
  ASSUME NEW w \in WorldRecords, NEW file, FileOf(file, w), Parsed(Content(file)).ok
  PROVE  LET r == Parsed(Content(file)).world
         IN  /\ r \in WorldRecords
             /\ \/ r.entries = << >>
                \/ /\ Len(r.catalog) = Len(w.catalog)
                   /\ \A i \in 1 .. Len(w.catalog) : r.catalog[i] = Booked(w)[i]
                   /\ Len(r.entries) <= Len(w.entries)
                   /\ \A i \in 1 .. Len(r.entries) : r.entries[i] = w.entries[i]
<1> DEFINE start == [ok |-> TRUE, header |-> FALSE, world |-> NewWorld]
           rows == Content(file)
<1>1. start \in ReaderStates /\ NoBook(start)
  BY NewWorldType DEF ReaderStates, NoBook, NewWorld
<1>2. Parsed(rows) = ReadOn(start, rows)
  BY DEF Parsed
<1>3. rows \in Seq(RowSet)
  BY ContentType
<1> HIDE DEF start, rows
<1>4. PICK t \in ReaderStates : t = Parsed(rows)
  BY <1>1, <1>2, <1>3, ReadOnType
<1>5. InOrder(rows, Len(Body(w)), Booked(w), w.entries) /\ Len(rows) <= Len(Rows(w))
  <2>1. ~ \E q \in Seq(RowSet) : rows = Append(q, [kind |-> "torn"])
    BY <1>1, <1>2, TornIsAnError DEF rows
  <2>2. QED
    BY <2>1, ContentType DEF rows
<1>6. PICK b \in Nat, k \in Nat, c \in Nat : b = Len(Body(w)) /\ k = Len(rows) /\ c = Len(Booked(w))
  BY <1>3, RowsAre, BookedType
<1>7. Booked(w) \in Seq(FilledContracts) /\ w.entries \in Seq(Entries) /\ c = Len(w.catalog)
  BY <1>6, BookedType DEF WorldRecords
<1>8. Held(t, k, b, Booked(w), w.entries)
  BY <1>1, <1>2, <1>3, <1>4, <1>5, <1>6, <1>7, ReadBook
<1>9. t.ok /\ t.world \in WorldRecords
  BY <1>4 DEF ReaderStates, rows
<1>10. k <= b + c + Len(w.entries)
  BY <1>5, <1>6, RowsInOrder
<1>11. CASE k <= b + c
  <2>1. Len(t.world.entries) = 0 /\ t.world.entries \in Seq(Entries)
    BY <1>6, <1>8, <1>9, <1>11 DEF Held, EntriesRead, WorldRecords
  <2>2. t.world.entries = << >>
    BY <2>1
  <2>3. QED
    BY <1>4, <1>9, <2>2 DEF rows
<1>12. CASE k > b + c
  <2>1. EntriesRead(k, b, c) = k - b - c /\ OffersRead(k, b, c) = c
    BY <1>6, <1>12 DEF EntriesRead, OffersRead
  <2>2. /\ Len(t.world.catalog) = c /\ \A i \in 1 .. c : t.world.catalog[i] = Booked(w)[i]
        /\ Len(t.world.entries) = k - b - c
        /\ \A i \in 1 .. k - b - c : t.world.entries[i] = w.entries[i]
    BY <1>6, <1>8, <1>9, <2>1 DEF Held
  <2>3. k - b - c <= Len(w.entries)
    <3>1. PICK e \in Nat : e = Len(w.entries)
      BY <1>7
    <3>2. k <= b + c + e
      BY <1>10, <3>1
    <3>3. k - b - c <= e
      BY <3>2, PastBoth
    <3>4. QED
      BY <3>1, <3>3
  <2>4. QED
    BY <1>4, <1>7, <1>9, <2>2, <2>3 DEF rows
<1>13. QED
  BY <1>6, <1>11, <1>12

-----------------------------------------------------------------------------
(* The ticks of the records a runtime holds are filled in.                 *)
AllFilled ==
  /\ routes \in Seq(FilledRoutes) /\ fleet \in Seq(FilledCaravans)
  /\ catalog \in Seq(FilledContracts)

LEMMA AddedRouteFilled ==
  ASSUME NEW route \in Routes
  PROVE  [route EXCEPT !.ticks = RouteTicks(route)] \in FilledRoutes
<1> DEFINE r == [route EXCEPT !.ticks = RouteTicks(route)]
<1>1. r \in Routes /\ RouteTicks(route) \in U64 /\ route.ticks \in U64 /\ route.days \in U64
  BY RouteType DEF Routes
<1>2. r.ticks = RouteTicks(route) /\ r.days = route.days
  BY DEF Routes
<1> HIDE DEF r
<1>3. RouteTicks(r) = r.ticks
  BY <1>1, <1>2 DEF RouteTicks, TicksOr, U64
<1>4. QED
  BY <1>1, <1>3 DEF FilledRoutes, r

LEMMA NewCaravanFilled ==
  ASSUME NEW route \in Routes, NEW id \in CaravanId, NEW cargo \in Cargoes
  PROVE  CaravanForRoute(route, id, cargo) \in FilledCaravans
<1> DEFINE c == CaravanForRoute(route, id, cargo)
<1>1. c \in Caravans
  BY NewCaravanType
<1>2. RouteTicks(route) \in U64 /\ route.ticks \in U64 /\ route.days \in U64
  BY RouteType DEF Routes
<1>3. /\ c.totalTicks = RouteTicks(route) /\ c.ticksLeft = RouteTicks(route)
      /\ c.totalDays = route.days /\ c.daysLeft = route.days
  BY DEF CaravanForRoute
<1> HIDE DEF c
<1>4. TotalTicks(c) = RouteTicks(route) /\ TicksLeft(c) = RouteTicks(route)
  BY <1>2, <1>3 DEF TotalTicks, TicksLeft, RouteTicks, TicksOr, U64
<1>5. QED
  BY <1>1, <1>3, <1>4 DEF FilledCaravans, c

LEMMA AdvancedFilled ==
  ASSUME NEW c \in FilledCaravans, NEW ticks \in Nat
  PROVE  Advance(c, ticks) \in FilledCaravans
<1> DEFINE after == TicksLeft(c) - AtMost(TicksLeft(c), ticks)
           d == [c EXCEPT !.ticksLeft = after, !.daysLeft = after \div TicksPerDay]
<1>1. c \in Caravans /\ c.totalTicks = TotalTicks(c)
  BY DEF FilledCaravans
<1>2. TicksLeft(c) \in U64 /\ after \in U64
  BY <1>1, TicksLeftType, WidthAssumption DEF AtMost, U64
<1>3. after \div TicksPerDay \in U64
  BY <1>2, QuotientType
<1>4. Advance(c, ticks) = d
  BY DEF Advance
<1>5. TicksLeft(Advance(c, ticks)) = after
  BY <1>1, LeftAfterAdvance
<1> HIDE DEF after
<1>6. /\ d \in Caravans /\ d.totalTicks = c.totalTicks /\ d.totalDays = c.totalDays
      /\ d.ticksLeft = after
  BY <1>1, <1>2, <1>3 DEF Caravans
<1> HIDE DEF d
<1>7. TotalTicks(d) = d.totalTicks
  BY <1>1, <1>6 DEF TotalTicks
<1>8. QED
  BY <1>4, <1>5, <1>6, <1>7 DEF FilledCaravans

LEMMA OfferFilled ==
  ASSUME NEW offer \in ContractRecords
  PROVE  WithDueTicks(offer) \in FilledContracts
<1>1. offer.dueTicks \in U64 /\ offer.dueDay \in U64 /\ DaysToTicks(offer.dueDay) \in U64
  BY DaysToTicksType DEF ContractRecords
<1>2. DaysToTicks(0) = 0
  BY WidthAssumption DEF DaysToTicks, MultiplyOverflows
<1>3. CASE offer.dueTicks = 0 /\ offer.dueDay > 0
  <2> DEFINE c == [offer EXCEPT !.dueTicks = DaysToTicks(offer.dueDay)]
  <2>1. c \in ContractRecords /\ c.dueTicks = DaysToTicks(offer.dueDay) /\ c.dueDay = offer.dueDay
    BY <1>1 DEF ContractRecords
  <2>2. WithDueTicks(offer) = c
    BY <1>3 DEF WithDueTicks
  <2> HIDE DEF c
  <2>3. DueTicks(c) = c.dueTicks
    BY <1>1, <2>1 DEF DueTicks, TicksOr, U64
  <2>4. QED
    BY <2>1, <2>2, <2>3 DEF FilledContracts
<1>4. CASE ~(offer.dueTicks = 0 /\ offer.dueDay > 0)
  <2>1. DueTicks(offer) = offer.dueTicks
    BY <1>1, <1>2, <1>4 DEF DueTicks, TicksOr, U64
  <2>2. QED
    BY <1>4, <2>1 DEF WithDueTicks, FilledContracts
<1>5. QED
  BY <1>3, <1>4

LEMMA StatusFilled ==
  ASSUME NEW c \in FilledContracts, NEW status \in Statuses
  PROVE  [c EXCEPT !.status = status] \in FilledContracts
<1> DEFINE d == [c EXCEPT !.status = status]
<1>1. c \in ContractRecords /\ c.dueTicks = DueTicks(c)
  BY DEF FilledContracts
<1>2. d \in ContractRecords /\ d.dueTicks = c.dueTicks /\ d.dueDay = c.dueDay
  BY <1>1 DEF ContractRecords
<1> HIDE DEF d
<1>3. DueTicks(d) = d.dueTicks
  BY <1>1, <1>2 DEF DueTicks
<1>4. QED
  BY <1>2, <1>3 DEF FilledContracts, d

LEMMA BookStaysFilled ==
  ASSUME catalog \in Seq(FilledContracts), BookStep
  PROVE  catalog' \in Seq(FilledContracts)
<1>1. ASSUME catalog' = catalog PROVE catalog' \in Seq(FilledContracts)
  BY <1>1
<1>2. ASSUME NEW offer \in Offers, AddContract(offer) PROVE catalog' \in Seq(FilledContracts)
  <2>1. WithDueTicks(offer) \in FilledContracts
    BY ContractsAssumption, OfferFilled
  <2>2. QED
    BY <1>2, <2>1 DEF AddContract
<1>3. ASSUME NEW i \in DOMAIN catalog, NEW status \in Statuses, catalog' = WithStatus(i, status)
      PROVE  catalog' \in Seq(FilledContracts)
  <2>1. [catalog[i] EXCEPT !.status = status] \in FilledContracts
    BY StatusFilled
  <2>2. QED
    BY <1>3, <2>1 DEF WithStatus
<1>4. ASSUME NEW t \in U64, catalog' = FailedAt(t) PROVE catalog' \in Seq(FilledContracts)
  <2>1. "failed" \in Statuses
    BY DEF Statuses
  <2>2. \A i \in DOMAIN catalog : catalog'[i] \in FilledContracts
    BY <1>4, <2>1, StatusFilled DEF FailedAt, FailedIn
  <2>3. DOMAIN catalog' = DOMAIN catalog /\ catalog' = [i \in DOMAIN catalog' |-> catalog'[i]]
    BY <1>4 DEF FailedAt, FailedIn
  <2>4. QED
    BY <2>2, <2>3, EachType
<1>5. "fulfilled" \in Statuses
  BY DEF Statuses
<1>6. CASE BookOnly
  BY <1>1, <1>2, <1>3, <1>4, <1>6 DEF BookOnly
<1>7. CASE \E i \in DOMAIN catalog : Rewarding(i)
  BY <1>3, <1>5, <1>7 DEF Rewarding
<1>8. QED
  BY <1>1, <1>6, <1>7 DEF BookStep, Trading

LEMMA FleetStaysFilled ==
  ASSUME RuntimeTypeOK, fleet \in Seq(FilledCaravans), FleetStep
  PROVE  fleet' \in Seq(FilledCaravans)
<1>1. TypeOK /\ WorldTypeOK
  BY DEF RuntimeTypeOK
<1>2. ASSUME NEW k \in DOMAIN routes, NEW id \in CaravanId, NEW cargo \in Cargoes,
             CreateCaravan(k, id, cargo)
      PROVE  fleet' \in Seq(FilledCaravans)
  <2>1. routes[k] \in Routes
    BY <1>1 DEF WorldTypeOK
  <2>2. CaravanForRoute(routes[k], id, cargo) \in FilledCaravans
    BY <2>1, NewCaravanFilled
  <2>3. QED
    BY <1>2, <2>2 DEF CreateCaravan
<1>3. ASSUME NEW ticks \in Nat, Travelling(ticks) PROVE fleet' \in Seq(FilledCaravans)
  <2>1. \A p \in DOMAIN fleet : fleet'[p] \in FilledCaravans
    BY <1>3, AdvancedFilled DEF Travelling
  <2>2. DOMAIN fleet' = DOMAIN fleet /\ fleet' = [p \in DOMAIN fleet' |-> fleet'[p]]
    BY <1>3 DEF Travelling
  <2>3. QED
    BY <2>1, <2>2, EachType
<1>4. ASSUME NEW p \in DOMAIN fleet, fleet' = [fleet EXCEPT ![p] = Advance(fleet[p], TicksPerDay)]
      PROVE  fleet' \in Seq(FilledCaravans)
  <2>1. TicksPerDay \in Nat
    BY WidthAssumption
  <2>2. Advance(fleet[p], TicksPerDay) \in FilledCaravans
    BY <2>1, AdvancedFilled
  <2>3. QED
    BY <1>4, <2>2
<1>5. ASSUME NEW p \in DOMAIN fleet, NEW cargo \in Storages, Reloading(p, cargo)
      PROVE  fleet' \in Seq(FilledCaravans)
  <2>1. [fleet[p] EXCEPT !.cargo = cargo] \in FilledCaravans
    BY ReloadedFilled
  <2>2. QED
    BY <1>5, <2>1 DEF Reloading, WithCargo
<1>6. ASSUME fleet' = Bulk.fleet PROVE fleet' \in Seq(FilledCaravans)
  <2>1. Bulk \in BulkStates /\ BulkSoFar(Bulk, Len(fleet))
    BY <1>1, BulkWhole
  <2>2. fleet' \in [DOMAIN fleet -> Caravans]
    BY <1>6, <2>1 DEF BulkStates
  <2>3. ASSUME NEW p \in DOMAIN fleet PROVE fleet'[p] \in FilledCaravans
    <3>1. fleet'[p] = [fleet[p] EXCEPT !.cargo = fleet'[p].cargo]
      BY <1>6, <2>1 DEF BulkSoFar
    <3>2. fleet'[p].cargo \in Storages
      BY <2>2 DEF Caravans
    <3>3. QED
      BY <3>1, <3>2, ReloadedFilled
  <2>4. DOMAIN fleet' = DOMAIN fleet /\ fleet' = [p \in DOMAIN fleet' |-> fleet'[p]]
    BY <2>2
  <2>5. QED
    BY <2>3, <2>4, EachType
<1>7. QED
  BY <1>2, <1>3, <1>4, <1>5, <1>6 DEF FleetStep

LEMMA FilledStep ==
  ASSUME RuntimeTypeOK, CallReal, AllFilled, [RuntimeNext]_runtimeVars
  PROVE  AllFilled'
<1>1. StepShape
  BY EveryShape
<1>2. catalog' \in Seq(FilledContracts)
  BY <1>1, BookStaysFilled DEF StepShape, AllFilled
<1>3. fleet' \in Seq(FilledCaravans)
  BY <1>1, FleetStaysFilled DEF StepShape, AllFilled
<1>4. routes' \in Seq(FilledRoutes)
  <2>1. ASSUME NEW route \in RouteOffers, AddRoute(route) PROVE routes' \in Seq(FilledRoutes)
    <3>1. [route EXCEPT !.ticks = RouteTicks(route)] \in FilledRoutes
      BY RuntimeAssumption, AddedRouteFilled
    <3>2. QED
      BY <2>1, <3>1 DEF AddRoute, AllFilled
  <2>2. QED
    BY <1>1, <2>1 DEF StepShape, RoadStep, AllFilled
<1>5. QED
  BY <1>2, <1>3, <1>4 DEF AllFilled

-----------------------------------------------------------------------------
(* A load installs a consistent world.                                     *)

(* OneRewardPerContract and LedgerNumbered, of a world.                    *)
BookedRewards(w) ==
  \A i \in DOMAIN w.entries : IsReward(w.entries[i]) =>
    /\ \E j \in DOMAIN w.catalog : PaysContract(w.entries[i], w.catalog[j])
    /\ \A k \in DOMAIN w.entries :
         IsReward(w.entries[k]) /\ w.entries[k].reference = w.entries[i].reference => k = i

NumberedEntries(w) ==
  /\ Len(w.entries) < MaxU64
  /\ \A i \in DOMAIN w.entries : ValidPayload(w.entries[i]) /\ w.entries[i].sequence = i

(* What the calls of the runtime rely on.                                  *)
Consistent(w) ==
  /\ \A i \in DOMAIN w.catalog : ValidContract(w.catalog[i])
  /\ UniqueIds(w.catalog) /\ UniqueIds(w.fleet)
  /\ NumberedEntries(w) /\ BookedRewards(w)
  /\ \A k \in DOMAIN w.routes : ValidRoute(w.routes[k], w.settlements)
  /\ \A p \in DOMAIN w.fleet : \E k \in DOMAIN w.routes : MatchesRoute(w.fleet[p], w.routes[k])
  /\ \A c \in CaravanId : w.owner[c] # NoFaction => w.owner[c] \in w.factions

OwnersKnown == \A c \in CaravanId : owner[c] # NoFaction => owner[c] \in factions

Running ==
  /\ RuntimeTypeOK /\ CallReal /\ RuntimeBook /\ AllFilled
  /\ FleetOnRoutes /\ RoadsJoin /\ OwnersKnown

LEMMA RunningIsConsistent == Running => LoadedIsConsistent
BY NumberedSurvives DEF Running, RuntimeTypeOK, RuntimeBook, OwnersKnown, LoadedIsConsistent

LEMMA WorldType == RuntimeTypeOK /\ AllFilled => World \in WorldRecords
<1> SUFFICES ASSUME RuntimeTypeOK, AllFilled PROVE World \in WorldRecords
  OBVIOUS
<1>1. ledger.entries \in Seq(Entries)
  BY DEF RuntimeTypeOK, TypeOK, Ledgers
<1>2. QED
  BY <1>1 DEF RuntimeTypeOK, TypeOK, WorldTypeOK, AllFilled, World, WorldRecords

LEMMA WorldBooked == Running => NumberedEntries(World) /\ BookedRewards(World)
<1> SUFFICES ASSUME Running PROVE NumberedEntries(World) /\ BookedRewards(World)
  OBVIOUS
<1>1. World.entries = ledger.entries /\ World.catalog = catalog
  BY DEF World
<1>2. ledger.next \in U64 /\ ledger.entries \in Seq(Entries)
  BY DEF Running, RuntimeTypeOK, TypeOK, Ledgers
<1>3. Len(ledger.entries) < MaxU64
  BY <1>2, WidthAssumption DEF Running, RuntimeBook, LedgerNumbered, U64
<1>4. NumberedEntries(World)
  BY <1>1, <1>3 DEF Running, RuntimeBook, LedgerNumbered, NumberedEntries
<1>5. BookedRewards(World)
  BY <1>1 DEF Running, RuntimeBook, OneRewardPerContract, Rewards, BookedRewards
<1>6. QED
  BY <1>4, <1>5

LEMMA InstalledRuns ==
  ASSUME NEW w \in WorldRecords, Consistent(w), Install(w), depot' \in Storages
  PROVE  Running'
<1>1. /\ day' = w.day /\ tick' = w.tick /\ wallet' = w.wallet
      /\ settlements' = w.settlements /\ stores' = w.stores /\ routes' = w.routes
      /\ fleet' = w.fleet /\ factions' = w.factions /\ owner' = w.owner
      /\ catalog' = w.catalog /\ ledger' = Restored(w.entries) /\ call' = NoCall
  BY DEF Install
<1>2. /\ w.day \in U64 /\ w.tick \in U64 /\ w.wallet \in U64
      /\ w.settlements \subseteq SettlementId /\ w.stores \in [SettlementId -> Storages]
      /\ w.routes \in Seq(FilledRoutes) /\ w.fleet \in Seq(FilledCaravans)
      /\ w.factions \subseteq Faction /\ w.owner \in [CaravanId -> Faction \cup {NoFaction}]
      /\ w.catalog \in Seq(FilledContracts) /\ w.entries \in Seq(Entries)
  BY DEF WorldRecords
<1>3. PICK n \in Nat : n = Len(w.entries)
  BY <1>2
<1>4. n < MaxU64 /\ MaxU64 \in Nat
  BY <1>3, WidthAssumption DEF Consistent, NumberedEntries
<1>5. ledger' = [entries |-> w.entries, next |-> n + 1]
  <2>1. AtMost(n + 1, MaxU64) = n + 1
    BY <1>4 DEF AtMost
  <2>2. QED
    BY <1>1, <1>3, <2>1 DEF Restored
<1>6. ledger'.entries = w.entries /\ ledger'.next = n + 1 /\ ledger' \in Ledgers
  <2>1. n + 1 \in U64
    BY <1>4 DEF U64
  <2>2. QED
    BY <1>2, <1>5, <2>1 DEF Ledgers
<1>7. TypeOK' /\ AllFilled'
  <2>1. w.fleet \in Seq(Caravans) /\ w.catalog \in Seq(ContractRecords)
    BY <1>2, FilledRecords, SeqMonotonic
  <2>2. QED
    BY <1>1, <1>2, <1>6, <2>1 DEF TypeOK, AllFilled
<1>8. WorldTypeOK'
  <2>1. w.routes \in Seq(Routes)
    BY <1>2, FilledRecords, SeqMonotonic
  <2>2. QED
    BY <1>1, <1>2, <2>1 DEF WorldTypeOK
<1>9. CallTypeOK' /\ CallReal'
  BY <1>1 DEF CallTypeOK, CallReal
<1>10. BookValid' /\ UniqueContracts'
  BY <1>1 DEF Consistent, BookValid, UniqueContracts, UniqueIds
<1>11. LedgerNumbered'
  BY <1>3, <1>6 DEF Consistent, NumberedEntries, LedgerNumbered
<1>12. OneRewardPerContract'
  BY <1>1, <1>6 DEF Consistent, BookedRewards, OneRewardPerContract, Rewards
<1>13. RoadsJoin' /\ OwnersKnown'
  BY <1>1 DEF Consistent, ValidRoute, RoadsJoin, OwnersKnown
<1>14. FleetOnRoutes'
  <2>1. ASSUME NEW p \in DOMAIN fleet' PROVE OnRoute(fleet[p])'
    <3>1. PICK k \in DOMAIN w.routes : MatchesRoute(w.fleet[p], w.routes[k])
      BY <1>1, <2>1 DEF Consistent
    <3>2. ValidRoute(w.routes[k], w.settlements)
      BY DEF Consistent
    <3>3. QED
      BY <1>1, <3>1, <3>2 DEF MatchesRoute, ValidCaravan, ValidRoute, OnRoute
  <2>2. \A p, q \in DOMAIN fleet' : fleet'[p].id = fleet'[q].id => p = q
    BY <1>1 DEF Consistent, UniqueIds
  <2>3. QED
    BY <2>1, <2>2 DEF FleetOnRoutes
<1>15. QED
  BY <1>7, <1>8, <1>9, <1>10, <1>11, <1>12, <1>13, <1>14 DEF Running, RuntimeTypeOK, RuntimeBook

(* A file that loads.                                                      *)
LEMMA LoadedWorld ==
  ASSUME NEW w \in WorldRecords, NumberedEntries(w), BookedRewards(w), NEW file, FileOf(file, w),
         Loads(Content(file))
  PROVE  LoadedFrom(Content(file)) \in WorldRecords /\ Consistent(LoadedFrom(Content(file)))
<1> DEFINE rows == Content(file)
           x == LoadedFrom(rows)
<1>1. Parsed(rows).ok = TRUE /\ ValidWorld(Parsed(rows).world)
  BY DEF Loads, Accepted
<1>2. PICK r : r = Parsed(rows).world
  OBVIOUS
<1>3. /\ r \in WorldRecords
      /\ \/ r.entries = << >>
         \/ /\ Len(r.catalog) = Len(w.catalog)
            /\ \A i \in 1 .. Len(w.catalog) : r.catalog[i] = Booked(w)[i]
            /\ Len(r.entries) <= Len(w.entries)
            /\ \A i \in 1 .. Len(r.entries) : r.entries[i] = w.entries[i]
  BY <1>1, <1>2, ParsedBook
<1>4. x = [r EXCEPT !.tick = RestoredTime(r)]
  BY <1>2 DEF LoadedFrom, WithTime
<1>5. RestoredTime(r) \in U64
  <2>1. r.tick \in U64 /\ r.day \in U64
    BY <1>3 DEF WorldRecords
  <2>2. QED
    BY <2>1, DaysToTicksType DEF RestoredTime
<1>6. x \in WorldRecords /\ x.catalog = r.catalog /\ x.fleet = r.fleet /\ x.entries = r.entries
      /\ x.routes = r.routes /\ x.settlements = r.settlements /\ x.owner = r.owner
      /\ x.factions = r.factions
  BY <1>3, <1>4, <1>5 DEF WorldRecords
<1> HIDE DEF x, rows
<1>7. ValidWorld(r)
  BY <1>1, <1>2
<1>8. r.entries \in Seq(Entries) /\ w.entries \in Seq(Entries) /\ r.catalog \in Seq(ContractRecords)
      /\ w.catalog \in Seq(ContractRecords)
  <2>1. /\ r.entries \in Seq(Entries) /\ w.entries \in Seq(Entries)
        /\ r.catalog \in Seq(FilledContracts) /\ w.catalog \in Seq(FilledContracts)
    BY <1>3 DEF WorldRecords
  <2>2. QED
    BY <2>1, FilledRecords, SeqMonotonic
<1>9. PICK m \in Nat, n \in Nat : m = Len(r.entries) /\ n = Len(w.entries)
  BY <1>8
<1>10. n < MaxU64 /\ MaxU64 \in Nat
  BY <1>9, WidthAssumption DEF NumberedEntries
<1>11. NumberedEntries(x) /\ BookedRewards(x)
  <2>1. CASE r.entries = << >>
    BY <1>6, <2>1, WidthAssumption DEF NumberedEntries, BookedRewards
  <2>2. CASE /\ Len(r.catalog) = Len(w.catalog)
             /\ \A i \in 1 .. Len(w.catalog) : r.catalog[i] = Booked(w)[i]
             /\ Len(r.entries) <= Len(w.entries)
             /\ \A i \in 1 .. Len(r.entries) : r.entries[i] = w.entries[i]
    <3>1. m <= n /\ DOMAIN r.entries = 1 .. m /\ DOMAIN w.entries = 1 .. n
      BY <1>8, <1>9, <2>2
    <3>2. \A i \in DOMAIN r.entries : i \in DOMAIN w.entries /\ r.entries[i] = w.entries[i]
      BY <1>9, <2>2, <3>1
    <3>3. NumberedEntries(x)
      BY <1>6, <1>9, <1>10, <3>1, <3>2 DEF NumberedEntries
    <3>4. DOMAIN r.catalog = 1 .. Len(w.catalog) /\ DOMAIN w.catalog = 1 .. Len(w.catalog)
      BY <1>8, <2>2
    <3>5. ASSUME NEW j \in DOMAIN w.catalog, NEW e, PaysContract(e, w.catalog[j])
          PROVE  j \in DOMAIN r.catalog /\ PaysContract(e, r.catalog[j])
      <4>1. PICK c \in ContractRecords : c = w.catalog[j]
        BY <1>8
      <4>2. r.catalog[j] = [c EXCEPT !.dueTicks = DueTicks(c)]
        BY <2>2, <3>4, <4>1 DEF Booked
      <4>3. QED
        BY <3>4, <3>5, <4>1, <4>2 DEF PaysContract, ContractRecords
    <3>6. BookedRewards(x)
      <4> SUFFICES ASSUME NEW i \in DOMAIN r.entries, IsReward(r.entries[i])
                   PROVE  /\ \E j \in DOMAIN r.catalog : PaysContract(r.entries[i], r.catalog[j])
                          /\ \A k \in DOMAIN r.entries :
                               IsReward(r.entries[k]) /\ r.entries[k].reference = r.entries[i].reference
                                 => k = i
        BY <1>6 DEF BookedRewards
      <4>1. i \in DOMAIN w.entries /\ IsReward(w.entries[i]) /\ r.entries[i] = w.entries[i]
        BY <3>2
      <4>2. PICK j \in DOMAIN w.catalog : PaysContract(w.entries[i], w.catalog[j])
        BY <4>1 DEF BookedRewards
      <4>3. j \in DOMAIN r.catalog /\ PaysContract(w.entries[i], r.catalog[j])
        BY <3>5, <4>2
      <4>4. \A k \in DOMAIN r.entries :
              IsReward(r.entries[k]) /\ r.entries[k].reference = r.entries[i].reference => k = i
        BY <3>2, <4>1 DEF BookedRewards
      <4>5. QED
        BY <4>1, <4>3, <4>4
    <3>7. QED
      BY <3>3, <3>6
  <2>3. QED
    BY <1>3, <2>1, <2>2
<1>12. Consistent(x)
  BY <1>6, <1>7, <1>11 DEF ValidWorld, Consistent
<1>13. QED
  BY <1>6, <1>12 DEF x, rows

LEMMA BuiltFilled ==
  ASSUME NEW w \in InitialWorlds, NEW f \in InitialFleets
  PROVE  w.routes \in Seq(FilledRoutes) /\ f \in Seq(FilledCaravans)
<1>1. Built(w, f)
  BY PersistAssumption
<1>2. w.routes \in Seq(Routes) /\ f \in Seq(Caravans)
  BY RuntimeAssumption, ContractsAssumption
<1>3. \A k \in DOMAIN w.routes : w.routes[k] \in FilledRoutes
  BY <1>1, <1>2 DEF Built, FilledRoutes, RouteTicks, TicksOr
<1>4. \A p \in DOMAIN f : f[p] \in FilledCaravans
  BY <1>1, <1>2 DEF Built, FilledCaravans, TotalTicks, TicksOr
<1>5. w.routes = [k \in DOMAIN w.routes |-> w.routes[k]] /\ f = [p \in DOMAIN f |-> f[p]]
  BY <1>2
<1>6. QED
  BY <1>2, <1>3, <1>4, <1>5, EachType

(* A new process.                                                          *)
LEMMA CrashRuns == RuntimeTypeOK /\ Crash => Running'
<1> SUFFICES ASSUME Crash PROVE Running'
  OBVIOUS
<1>1. PICK w \in InitialWorlds, coins \in InitialCoins, f \in InitialFleets :
        Install([NewWorld EXCEPT !.settlements = w.settlements, !.stores = w.stores, !.fleet = f,
                                 !.routes = w.routes, !.factions = w.factions, !.wallet = coins])
  BY DEF Crash
<1> DEFINE x == [NewWorld EXCEPT !.settlements = w.settlements, !.stores = w.stores, !.fleet = f,
                                 !.routes = w.routes, !.factions = w.factions, !.wallet = coins]
<1>2. /\ w.settlements \subseteq SettlementId /\ w.stores \in [SettlementId -> Storages]
      /\ w.routes \in Seq(FilledRoutes) /\ w.factions \subseteq Faction
      /\ f \in Seq(FilledCaravans) /\ coins \in U64
  BY RuntimeAssumption, ContractsAssumption, BuiltFilled
<1>3. Built(w, f)
  BY PersistAssumption
<1>4. depot' \in Storages
  BY ContractsAssumption DEF Crash
<1>5. /\ x.settlements = w.settlements /\ x.routes = w.routes /\ x.fleet = f
      /\ x.factions = w.factions /\ x.catalog = << >> /\ x.entries = << >>
      /\ x.owner = [c \in CaravanId |-> NoFaction]
  BY DEF NewWorld
<1>6. x \in WorldRecords
  <2>1. PICK v \in WorldRecords : v = NewWorld
    BY NewWorldType
  <2>2. [v EXCEPT !.settlements = w.settlements, !.stores = w.stores, !.fleet = f,
                  !.routes = w.routes, !.factions = w.factions, !.wallet = coins] \in WorldRecords
    BY <1>2 DEF WorldRecords
  <2>3. QED
    BY <2>1, <2>2
<1> HIDE DEF x
<1>7. NumberedEntries(x) /\ BookedRewards(x)
  BY <1>5, WidthAssumption DEF NumberedEntries, BookedRewards
<1>8. Consistent(x)
  BY <1>3, <1>5, <1>7 DEF Built, Consistent, UniqueIds
<1>9. QED
  BY <1>1, <1>4, <1>6, <1>8, InstalledRuns DEF x

(* A call of the runtime knows the owner it sets.                          *)
LEMMA OwnerStep ==
  ASSUME RuntimeTypeOK, [RuntimeNext]_runtimeVars
  PROVE  /\ factions \subseteq factions'
         /\ \/ owner' = owner
            \/ \E p \in DOMAIN fleet, f \in factions : owner' = [owner EXCEPT ![fleet[p].id] = f]
<1> DEFINE Goal == /\ factions \subseteq factions'
                   /\ \/ owner' = owner
                      \/ \E p \in DOMAIN fleet, f \in factions :
                           owner' = [owner EXCEPT ![fleet[p].id] = f]
<1>1. ASSUME factions' = factions, owner' = owner PROVE Goal
  BY <1>1
<1>2. ASSUME UNCHANGED runtimeVars PROVE Goal
  BY <1>1, <1>2 DEF runtimeVars, vars, worldVars
<1>3. ASSUME BuildCall PROVE Goal
  <2>1. ASSUME NEW s \in SettlementId, CreateSettlement(s) PROVE Goal
    BY <1>1, <2>1 DEF CreateSettlement, vars
  <2>2. ASSUME NEW f \in Faction, AddFaction(f) PROVE Goal
    BY <2>2 DEF AddFaction, vars
  <2>3. ASSUME NEW route \in RouteOffers, AddRoute(route) PROVE Goal
    BY <1>1, <2>3 DEF AddRoute, vars
  <2>4. ASSUME NEW offer \in Offers, AddRuntimeContract(offer) PROVE Goal
    BY <1>1, <2>4 DEF AddRuntimeContract, AddContract, worldVars
  <2>5. ASSUME NEW p \in DOMAIN fleet, NEW f \in Faction, SetRuntimeCaravanOwner(p, f) PROVE Goal
    BY <2>5 DEF SetRuntimeCaravanOwner, SetCaravanOwner, worldVars
  <2>6. ASSUME NEW k \in DOMAIN routes, NEW id \in CaravanId, NEW cargo \in Cargoes,
               CreateCaravan(k, id, cargo)
        PROVE  Goal
    BY <1>1, <2>6 DEF CreateCaravan, worldVars
  <2>7. QED
    BY <1>3, <2>1, <2>2, <2>3, <2>4, <2>5, <2>6 DEF BuildCall
<1>4. ASSUME GoodsCall PROVE Goal
  <2>1. factions' = factions /\ owner' = owner
    BY <1>4 DEF GoodsCall, AddResource, RemoveResource, TransferResource, Load, Unload, Deliver,
                DeliverAll, StoresOnly, GoodsOnly, vars
  <2>2. QED
    BY <1>1, <2>1
<1>5. ASSUME NEW i, NEW p, NEW mode, FulfillFromArrivedCaravan(i, p, mode) PROVE owner' = owner
  BY <1>5 DEF FulfillFromArrivedCaravan, SettleBooks
<1>6. ASSUME BookCall PROVE Goal
  <2>1. ASSUME NEW i \in DOMAIN catalog, ContractCall(i) PROVE owner' = owner
    <3>1. ASSUME NEW status, MarkContract(i, status) PROVE owner' = owner
      BY <3>1 DEF MarkContract
    <3>2. ASSUME NEW mode, FulfillFromStorage(i, mode) PROVE owner' = owner
      BY <3>2 DEF FulfillFromStorage, SettleBooks
    <3>3. QED
      BY <1>5, <2>1, <3>1, <3>2 DEF ContractCall, FulfillFromOwnedCaravan
  <2>2. ASSUME NEW t \in U64, FailOverdue(t) PROVE owner' = owner
    BY <2>2 DEF FailOverdue
  <2>3. QED
    BY <1>1, <1>6, <2>1, <2>2 DEF BookCall, worldVars
<1>7. ASSUME NEW s, Reach(s) PROVE Goal
  BY <1>1, <1>7 DEF Reach
<1>8. ASSUME TimeCall PROVE Goal
  <2>1. ASSUME NEW p \in DOMAIN fleet, AdvanceCaravanDay(p) PROVE Goal
    BY <1>1, <2>1 DEF AdvanceCaravanDay, worldVars
  <2>2. QED
    BY <1>7, <1>8, <2>1 DEF TimeCall, RunTicks, RunDays
<1>9. ASSUME NEW p, NEW f, FulfillFirst(p, f) PROVE Goal
  BY <1>1, <1>5, <1>9 DEF FulfillFirst, worldVars
<1>10. ASSUME ArrivalCall PROVE Goal
  BY <1>7, <1>10 DEF ArrivalCall, RunUntilArrival, RunUntilArrivalDays
<1>11. ASSUME FulfillArrival PROVE Goal
  <2>1. CASE UNCHANGED <<vars, worldVars>>
    BY <1>1, <2>1 DEF vars, worldVars
  <2>2. QED
    BY <1>9, <1>11, <2>1 DEF FulfillArrival
<1> HIDE DEF Goal
<1>12. Goal
  BY <1>2, <1>3, <1>4, <1>6, <1>8, <1>9, <1>10, <1>11 DEF RuntimeNext
<1>13. QED
  BY <1>12 DEF Goal

LEMMA RunningStep == Running /\ [RuntimeNext]_runtimeVars => Running'
<1> SUFFICES ASSUME Running, [RuntimeNext]_runtimeVars PROVE Running'
  OBVIOUS
<1>1. RuntimeTypeOK' /\ CallReal' /\ RuntimeBook' /\ FleetOnRoutes' /\ RoadsJoin'
  BY RuntimeStep, RuntimeBookStep, FleetOnRoutesStep DEF Running
<1>3. AllFilled'
  BY FilledStep DEF Running
<1>2. OwnersKnown'
  <2>1. owner \in [CaravanId -> Faction \cup {NoFaction}]
    BY DEF Running, RuntimeTypeOK, TypeOK
  <2>2. /\ factions \subseteq factions'
        /\ \/ owner' = owner
           \/ \E p \in DOMAIN fleet, f \in factions : owner' = [owner EXCEPT ![fleet[p].id] = f]
    BY OwnerStep DEF Running
  <2>3. CASE owner' = owner
    BY <2>2, <2>3 DEF Running, OwnersKnown
  <2>4. ASSUME NEW p \in DOMAIN fleet, NEW f \in factions, owner' = [owner EXCEPT ![fleet[p].id] = f]
        PROVE  OwnersKnown'
    BY <2>1, <2>2, <2>4 DEF Running, OwnersKnown
  <2>5. QED
    BY <2>2, <2>3, <2>4
<1>4. QED
  BY <1>1, <1>2, <1>3 DEF Running

LEMMA RunningStart == PersistInit => Running
<1> SUFFICES ASSUME PersistInit PROVE Running
  OBVIOUS
<1>1. RuntimeInit /\ Init
  BY DEF PersistInit, RuntimeInit
<1>2. RuntimeTypeOK /\ CallReal /\ RuntimeBook
  BY <1>1, RuntimeStart, RuntimeBookStart
<1>3. PICK w \in InitialWorlds : /\ settlements = w.settlements /\ stores = w.stores
                                 /\ routes = w.routes /\ factions = w.factions
  BY <1>1 DEF RuntimeInit
<1>4. fleet \in InitialFleets /\ owner = [c \in CaravanId |-> NoFaction]
  BY <1>1 DEF Init
<1>5. Built(w, fleet)
  BY <1>4, PersistAssumption
<1>6. OwnersKnown /\ RoadsJoin
  BY <1>3, <1>4, <1>5 DEF OwnersKnown, RoadsJoin, Built, ValidRoute
<1>7. FleetOnRoutes
  <2>1. ASSUME NEW p \in DOMAIN fleet PROVE OnRoute(fleet[p])
    <3>1. PICK k \in DOMAIN routes : MatchesRoute(fleet[p], routes[k])
      BY <1>3, <1>5 DEF Built
    <3>2. ValidRoute(routes[k], settlements)
      BY <1>3, <1>5 DEF Built
    <3>3. QED
      BY <3>1, <3>2 DEF MatchesRoute, ValidCaravan, ValidRoute, OnRoute
  <2>2. QED
    BY <1>5, <2>1 DEF Built, UniqueIds, FleetOnRoutes
<1>8. AllFilled
  BY <1>1, <1>3, <1>4, BuiltFilled DEF AllFilled, Init
<1>9. QED
  BY <1>2, <1>6, <1>7, <1>8 DEF Running

(* The file at the path is the whole or a part of a world whose rewards    *)
(* are booked, whatever has happened to the runtime since.                 *)
FileBooked ==
  saved # NoFile =>
    \E w \in WorldRecords : FileOf(saved, w) /\ NumberedEntries(w) /\ BookedRewards(w)

SaveInvariant == Running /\ SaveUnderWay /\ FileBooked

LEMMA SaveInvariantStart == PersistInit => SaveInvariant
BY RunningStart, SaveUnderWayStart DEF SaveInvariant, PersistInit, FileBooked

LEMMA FileBookedStep ==
  ASSUME SaveInvariant, [PersistNext]_persistVars
  PROVE  FileBooked'
<1>1. World \in WorldRecords /\ NumberedEntries(World) /\ BookedRewards(World)
  BY WorldType, WorldBooked DEF SaveInvariant, Running
<1>2. CASE saved' = saved
  BY <1>2 DEF SaveInvariant, FileBooked
<1>3. ASSUME phase \in {"written", "overwriting"}, saved' = temp PROVE FileBooked'
  <2>1. FileOf(saved', World)
    BY <1>3 DEF SaveInvariant, SaveUnderWay, FileOf
  <2>2. QED
    BY <1>1, <2>1 DEF FileBooked
<1>4. ASSUME CopyPart PROVE FileBooked'
  <2>1. temp = Whole(World) /\ saved' \in Parts(temp.world)
    BY <1>4 DEF CopyPart, SaveInvariant, SaveUnderWay
  <2>2. FileOf(saved', World)
    BY <2>1, WholeIsWhole DEF FileOf
  <2>3. QED
    BY <1>1, <2>2 DEF FileBooked
<1>5. ASSUME SaveStep PROVE FileBooked'
  BY <1>2, <1>3, <1>4, <1>5
     DEF SaveStep, BeginSave, OpenFails, WritePart, WriteFails, WriteRest, Rename, CopyRest, CopyFails
<1>6. QED
  BY <1>2, <1>5 DEF PersistNext, LoadSave, Crash, persistVars, fileVars

LEMMA SaveInvariantStep == SaveInvariant /\ [PersistNext]_persistVars => SaveInvariant'
<1> SUFFICES ASSUME SaveInvariant, [PersistNext]_persistVars PROVE SaveInvariant'
  OBVIOUS
<1>1. Running /\ RuntimeTypeOK
  BY DEF SaveInvariant, Running
<1>2. ASSUME UNCHANGED runtimeVars PROVE Running'
  BY <1>1, <1>2, RunningStep
<1>3. ASSUME UNCHANGED persistVars PROVE Running'
  BY <1>2, <1>3 DEF persistVars
<1>4. ASSUME phase = "idle", RuntimeNext PROVE Running'
  BY <1>1, <1>4, RunningStep
<1>5. ASSUME SaveStep PROVE Running'
  BY <1>2, <1>5 DEF SaveStep, BeginSave, OpenFails, WritePart, WriteFails, WriteRest,
                    Rename, CopyPart, CopyRest, CopyFails, Saving
<1>6. ASSUME LoadSave(saved) PROVE Running'
  <2>1. PICK w \in WorldRecords : FileOf(saved, w) /\ NumberedEntries(w) /\ BookedRewards(w)
    BY <1>6 DEF LoadSave, SaveInvariant, FileBooked
  <2>2. Loads(Content(saved)) /\ Install(LoadedFrom(Content(saved))) /\ depot' = depot
    BY <1>6 DEF LoadSave
  <2>3. LoadedFrom(Content(saved)) \in WorldRecords /\ Consistent(LoadedFrom(Content(saved)))
    BY <2>1, <2>2, LoadedWorld
  <2>4. depot' \in Storages
    BY <1>1, <2>2 DEF RuntimeTypeOK, TypeOK
  <2>5. QED
    BY <2>2, <2>3, <2>4, InstalledRuns
<1>7. ASSUME Crash PROVE Running'
  BY <1>1, <1>7, CrashRuns
<1>8. Running'
  BY <1>3, <1>4, <1>5, <1>6, <1>7 DEF PersistNext
<1>9. QED
  BY <1>8, FileBookedStep, SaveUnderWayStep DEF SaveInvariant

(* load_simulation_runtime_from_file, from a whole save or from any piece  *)
(* of one that a torn copy left, in the middle of a row too, by a host     *)
(* that goes on, dies and starts again as it likes: the runtime it works   *)
(* with has its caravans on its routes, unique ids, owners that exist, a   *)
(* ledger that continues its numbers and no reward that is not the reward  *)
(* of a contract.                                                          *)
THEOREM LoadsAreConsistent == PersistSpec => []LoadedIsConsistent
<1>1. SaveInvariant => LoadedIsConsistent
  BY RunningIsConsistent DEF SaveInvariant
<1>2. QED
  BY <1>1, SaveInvariantStart, SaveInvariantStep, PTL DEF PersistSpec

-----------------------------------------------------------------------------
(* Reading back the rows of a world, one section after the other.          *)

(* The reader after rows without an error.                                 *)
Good(v) == [ok |-> TRUE, header |-> TRUE, world |-> v]

LEMMA GoodType ==
  ASSUME NEW v \in WorldRecords
  PROVE  Good(v) \in ReaderStates
BY DEF Good, ReaderStates

Ordinary(row) == row.kind # Header /\ row.kind # "torn"

LEMMA OtherWorld ==
  ASSUME NEW u, NEW v
  PROVE  [[ok |-> TRUE, header |-> TRUE, world |-> v] EXCEPT !.world = u]
           = [ok |-> TRUE, header |-> TRUE, world |-> u]
OBVIOUS

LEMMA GoodRow ==
  ASSUME NEW v \in WorldRecords, NEW row \in RowSet, Ordinary(row), Fits(v, row)
  PROVE  AfterRow(Good(v), row) = Good(WithRow(v, row)) /\ WithRow(v, row) \in WorldRecords
<1>1. WithRow(v, row) \in WorldRecords
  BY WithRowType DEF Ordinary
<1>2. PICK u \in WorldRecords : u = WithRow(v, row)
  BY <1>1
<1>3. [[ok |-> TRUE, header |-> TRUE, world |-> v] EXCEPT !.world = u]
        = [ok |-> TRUE, header |-> TRUE, world |-> u]
  BY OtherWorld
<1>4. PICK g : g = [ok |-> TRUE, header |-> TRUE, world |-> v]
  OBVIOUS
<1>5. g.header = TRUE /\ g.world = v
  BY <1>4
<1>6. [g EXCEPT !.world = u] = [ok |-> TRUE, header |-> TRUE, world |-> u]
  BY <1>3, <1>4, Zenon
<1>7. AfterRow(g, row) = [g EXCEPT !.world = u]
  BY <1>2, <1>5 DEF AfterRow, Ordinary
<1>8. QED
  BY <1>2, <1>4, <1>6, <1>7 DEF Good

(* Worlds that rows build, each from the one before.                       *)
Builds(st, rows) ==
  /\ st \in [0 .. Len(rows) -> WorldRecords]
  /\ \A k \in 1 .. Len(rows) :
       Ordinary(rows[k]) /\ Fits(st[k - 1], rows[k]) /\ st[k] = WithRow(st[k - 1], rows[k])

LEMMA ReadRows ==
  ASSUME NEW rows \in Seq(RowSet), NEW st, Builds(st, rows)
  PROVE  ReadOn(Good(st[0]), rows) = Good(st[Len(rows)])
<1> DEFINE n == Len(rows)
           g == [k \in 0 .. n |-> Good(st[k])]
<1>1. n \in Nat /\ (\A k \in 1 .. n : rows[k] \in RowSet) /\ 0 \in 0 .. n /\ n \in 0 .. n
      /\ \A k \in 1 .. n : k \in 0 .. n /\ k - 1 \in 0 .. n
  OBVIOUS
<1>2. st \in [0 .. n -> WorldRecords] /\ \A k \in 0 .. n : st[k] \in WorldRecords
  BY DEF Builds
<1>3. Good(st[0]) \in ReaderStates
  BY <1>1, <1>2, GoodType
<1>4. PICK f : IsReading(f, Good(st[0]), rows) /\ ReadOn(Good(st[0]), rows) = f[n]
  BY <1>3, ReadingExists
<1>5. ASSUME NEW k \in 1 .. n PROVE g[k] = AfterRow(g[k - 1], rows[k])
  <2>1. /\ Ordinary(rows[k]) /\ Fits(st[k - 1], rows[k]) /\ st[k] = WithRow(st[k - 1], rows[k])
    BY DEF Builds
  <2>2. st[k - 1] \in WorldRecords /\ rows[k] \in RowSet
    BY <1>1, <1>2
  <2>3. AfterRow(Good(st[k - 1]), rows[k]) = Good(st[k])
    BY <2>1, <2>2, GoodRow
  <2>4. g[k] = Good(st[k]) /\ g[k - 1] = Good(st[k - 1])
    BY <1>1
  <2>5. QED
    BY <2>3, <2>4
<1>6. g[0] = Good(st[0]) /\ g[n] = Good(st[n])
  BY <1>1
<1> HIDE DEF g, n
<1>7. Follows(g, Good(st[0]), rows, n)
  BY <1>5, <1>6 DEF Follows
<1>8. Follows(f, Good(st[0]), rows, n)
  BY <1>4 DEF IsReading, n
<1>9. f[n] = g[n]
  BY <1>1, <1>7, <1>8, SameReading
<1>10. QED
  BY <1>4, <1>6, <1>9 DEF n

(* The same for parts of several rows.                                     *)
LEMMA ReadParts ==
  ASSUME NEW parts \in Seq(Seq(RowSet)), NEW st \in [0 .. Len(parts) -> WorldRecords],
         \A k \in 1 .. Len(parts) : ReadOn(Good(st[k - 1]), parts[k]) = Good(st[k])
  PROVE  ReadOn(Good(st[0]), FlattenSeq(parts)) = Good(st[Len(parts)])
<1> DEFINE n == Len(parts)
<1>1. n \in Nat /\ (\A k \in 1 .. n : parts[k] \in Seq(RowSet)) /\ 0 \in 0 .. n /\ n \in 0 .. n
      /\ \A k \in 1 .. n : k \in 0 .. n /\ k - 1 \in 0 .. n
  OBVIOUS
<1>2. PICK f \in [0 .. n -> Seq(RowSet)] :
        /\ f[0] = << >>
        /\ \A k \in 1 .. n : f[k] = f[k - 1] \o parts[k]
        /\ FlattenSeq(parts) = f[n]
  BY FlattenUnrolled
<1> DEFINE s == Good(st[0])
<1>3. s \in ReaderStates
  BY <1>1, GoodType
<1> DEFINE S == {k \in 0 .. n : ReadOn(s, f[k]) = Good(st[k])}
<1>4. 0 \in S
  BY <1>1, <1>2, <1>3, ReadNothing
<1> HIDE DEF s, n
<1>5. ASSUME NEW k \in 1 .. n, k - 1 \in S PROVE k \in S
  <2>1. f[k - 1] \in Seq(RowSet) /\ parts[k] \in Seq(RowSet) /\ k \in 0 .. n
    BY <1>1, <1>2
  <2>2. ReadOn(s, f[k - 1] \o parts[k]) = ReadOn(ReadOn(s, f[k - 1]), parts[k])
    BY <1>3, <2>1, ReadOnward
  <2>3. ReadOn(s, f[k - 1]) = Good(st[k - 1])
    BY <1>5
  <2>4. ReadOn(Good(st[k - 1]), parts[k]) = Good(st[k])
    BY DEF n
  <2>5. ReadOn(s, f[k]) = Good(st[k])
    BY <1>2, <2>2, <2>3, <2>4
  <2>6. QED
    BY <2>1, <2>5
<1> HIDE DEF S
<1>6. n \in S
  BY <1>1, <1>4, <1>5, BoundedInduction
<1>7. ReadOn(s, f[n]) = Good(st[n])
  BY <1>6 DEF S
<1>8. QED
  BY <1>2, <1>7 DEF s, n

(* The goods of the first resources.                                       *)
FirstGoods(storage, k) ==
  [r \in Resource |-> IF \E j \in 1 .. k : ResourceOrder[j] = r THEN storage[r] ELSE 0]

LEMMA FirstGoodsGrow ==
  ASSUME NEW storage \in Storages
  PROVE  /\ FirstGoods(storage, 0) = EmptyStorage
         /\ FirstGoods(storage, Len(ResourceOrder)) = storage
         /\ \A k \in 0 .. Len(ResourceOrder) : FirstGoods(storage, k) \in Storages
         /\ \A k \in 1 .. Len(ResourceOrder) :
              LET r == ResourceOrder[k]
                  before == FirstGoods(storage, k - 1)
              IN  /\ storage[r] > 0 => /\ CanPut(before, r, storage[r])
                                       /\ Put(before, r, storage[r]) = FirstGoods(storage, k)
                  /\ ~(storage[r] > 0) => FirstGoods(storage, k) = before
<1> DEFINE n == Len(ResourceOrder)
<1>1. ResourceOrder \in Seq(Resource)
  BY RuntimeAssumption
<1>2. n \in Nat /\ DOMAIN ResourceOrder = 1 .. n /\ \A k \in 1 .. n : ResourceOrder[k] \in Resource
  BY <1>1
<1>3. \A r \in Resource : \E k \in 1 .. n : ResourceOrder[k] = r
  BY <1>2, RuntimeAssumption
<1>4. \A j, k \in 1 .. n : ResourceOrder[j] = ResourceOrder[k] => j = k
  BY <1>2, RuntimeAssumption
<1> HIDE DEF n
<1>5. (\A r \in Resource : storage[r] \in U64) /\ storage = [r \in Resource |-> storage[r]] /\ 0 \in U64
  BY WidthAssumption DEF Storages, U64
<1>6. FirstGoods(storage, 0) = EmptyStorage
  BY DEF FirstGoods, EmptyStorage
<1>7. FirstGoods(storage, n) = storage
  BY <1>3, <1>5 DEF FirstGoods
<1>8. \A k \in 0 .. n : FirstGoods(storage, k) \in Storages
  BY <1>5 DEF FirstGoods, Storages
<1>9. ASSUME NEW k \in 1 .. n
      PROVE  LET r == ResourceOrder[k]
                 before == FirstGoods(storage, k - 1)
             IN  /\ storage[r] > 0 => /\ CanPut(before, r, storage[r])
                                      /\ Put(before, r, storage[r]) = FirstGoods(storage, k)
                 /\ ~(storage[r] > 0) => FirstGoods(storage, k) = before
  <2> DEFINE r == ResourceOrder[k]
             before == FirstGoods(storage, k - 1)
             after == FirstGoods(storage, k)
  <2>1. r \in Resource
    BY <1>2
  <2>2. ~ \E j \in 1 .. k - 1 : ResourceOrder[j] = r
    <3>1. \A j \in 1 .. k - 1 : j \in 1 .. n /\ j # k
      BY <1>2
    <3>2. QED
      BY <1>4, <3>1
  <2>3. before[r] = 0
    BY <2>1, <2>2 DEF FirstGoods
  <2>4. \A x \in Resource : x # r => after[x] = before[x]
    <3> SUFFICES ASSUME NEW x \in Resource, x # r PROVE after[x] = before[x]
      OBVIOUS
    <3>1. (\E j \in 1 .. k : ResourceOrder[j] = x) <=> (\E j \in 1 .. k - 1 : ResourceOrder[j] = x)
      <4>1. \A j \in 1 .. k : j = k \/ j \in 1 .. k - 1
        OBVIOUS
      <4>2. \A j \in 1 .. k - 1 : j \in 1 .. k
        OBVIOUS
      <4>3. QED
        BY <4>1, <4>2
    <3>2. QED
      BY <3>1 DEF FirstGoods
  <2>5. after[r] = storage[r]
    <3>1. k \in 1 .. k
      OBVIOUS
    <3>2. QED
      BY <2>1, <3>1 DEF FirstGoods
  <2>6. DOMAIN after = Resource /\ DOMAIN before = Resource
        /\ after = [x \in Resource |-> after[x]] /\ before = [x \in Resource |-> before[x]]
    BY DEF FirstGoods
  <2>7. storage[r] \in U64
    BY <1>5, <2>1
  <2>8. CanAdd(0, storage[r]) /\ WrapAdd(0, storage[r]) = storage[r]
    BY <2>7, WidthAssumption DEF CanAdd, WrapAdd, U64
  <2> HIDE DEF before, after, r
  <2>9. Put(before, r, storage[r]) = after
    BY <2>1, <2>3, <2>4, <2>5, <2>6, <2>8 DEF Put
  <2>10. storage[r] > 0 => CanPut(before, r, storage[r])
    BY <2>3, <2>8 DEF CanPut
  <2>11. ~(storage[r] > 0) => after = before
    <3> SUFFICES ASSUME ~(storage[r] > 0) PROVE after = before
      OBVIOUS
    <3>1. storage[r] = 0
      BY <2>7 DEF U64
    <3>2. \A x \in Resource : after[x] = before[x]
      BY <2>3, <2>4, <2>5, <3>1
    <3>3. QED
      BY <2>6, <3>2
  <2>12. QED
    BY <2>9, <2>10, <2>11 DEF before, after, r
<1>10. QED
  BY <1>6, <1>7, <1>8, <1>9 DEF n

LEMMA ReadSingle ==
  ASSUME NEW s \in ReaderStates, NEW row \in RowSet
  PROVE  ReadOn(s, <<row>>) = AfterRow(s, row)
<1>1. << >> \in Seq(RowSet) /\ Append(<< >>, row) = <<row>>
  OBVIOUS
<1>2. QED
  BY <1>1, ReadNothing, ReadOneMore

(* The row of the k-th resource, and the worlds such rows build.           *)
AmountRow(kind, id, storage, k) ==
  [kind |-> kind, id |-> id, resource |-> ResourceOrder[k], n |-> storage[ResourceOrder[k]]]

BuildsGoods(st, kind, id, storage) ==
  /\ st \in [0 .. Len(ResourceOrder) -> WorldRecords]
  /\ \A k \in 1 .. Len(ResourceOrder) :
       IF storage[ResourceOrder[k]] > 0
       THEN /\ Fits(st[k - 1], AmountRow(kind, id, storage, k))
            /\ st[k] = WithRow(st[k - 1], AmountRow(kind, id, storage, k))
       ELSE st[k] = st[k - 1]

LEMMA ReadAmounts ==
  ASSUME NEW kind \in {"settlement_storage", "caravan_cargo"}, NEW id, NEW storage \in Storages,
         kind = "settlement_storage" => id \in SettlementId,
         kind = "caravan_cargo" => id \in CaravanId,
         NEW st, BuildsGoods(st, kind, id, storage)
  PROVE  ReadOn(Good(st[0]), AmountRows(kind, id, storage)) = Good(st[Len(ResourceOrder)])
<1> DEFINE n == Len(ResourceOrder)
           one(k) == IF storage[ResourceOrder[k]] > 0
                     THEN <<AmountRow(kind, id, storage, k)>> ELSE << >>
           parts == [k \in DOMAIN ResourceOrder |-> one(k)]
<1>1. ResourceOrder \in Seq(Resource)
  BY RuntimeAssumption
<1>2. n \in Nat /\ DOMAIN ResourceOrder = 1 .. n /\ \A k \in 1 .. n : ResourceOrder[k] \in Resource
  BY <1>1
<1>3. st \in [0 .. n -> WorldRecords] /\ \A k \in 1 .. n : st[k - 1] \in WorldRecords
  BY <1>2 DEF BuildsGoods
<1>4. ASSUME NEW k \in 1 .. n PROVE AmountRow(kind, id, storage, k) \in RowSet
                                    /\ Ordinary(AmountRow(kind, id, storage, k))
  <2>1. ResourceOrder[k] \in Resource /\ storage[ResourceOrder[k]] \in U64
    BY <1>2 DEF Storages
  <2>2. PICK row : row = AmountRow(kind, id, storage, k)
    OBVIOUS
  <2>3. row = [kind |-> kind, id |-> id, resource |-> ResourceOrder[k], n |-> storage[ResourceOrder[k]]]
    BY <2>2 DEF AmountRow
  <2>4. CASE kind = "settlement_storage"
    <3>1. row \in StoreRows
      BY <2>1, <2>3, <2>4 DEF StoreRows
    <3>2. row.kind = "settlement_storage"
      BY <2>3, <2>4
    <3>3. QED
      BY <2>2, <3>1, <3>2 DEF RowSet, BodyRows, Ordinary, Header
  <2>5. CASE kind = "caravan_cargo"
    <3>1. row \in CargoRows
      BY <2>1, <2>3, <2>5 DEF CargoRows
    <3>2. row.kind = "caravan_cargo"
      BY <2>3, <2>5
    <3>3. QED
      BY <2>2, <3>1, <3>2 DEF RowSet, BodyRows, Ordinary, Header
  <2>6. QED
    BY <2>4, <2>5
<1> DEFINE R == RowSet
<1> HIDE DEF R
<1>5. ASSUME NEW k \in 1 .. n PROVE one(k) \in Seq(R) /\ ReadOn(Good(st[k - 1]), one(k)) = Good(st[k])
  <2>1. st[k - 1] \in WorldRecords /\ Good(st[k - 1]) \in ReaderStates
    BY <1>3, GoodType
  <2>2. PICK row \in RowSet : row = AmountRow(kind, id, storage, k) /\ Ordinary(row)
    BY <1>4
  <2>3. CASE storage[ResourceOrder[k]] > 0
    <3>1. Fits(st[k - 1], row) /\ st[k] = WithRow(st[k - 1], row)
      BY <2>2, <2>3 DEF BuildsGoods
    <3>2. AfterRow(Good(st[k - 1]), row) = Good(st[k])
      BY <2>1, <2>2, <3>1, GoodRow
    <3>3. ReadOn(Good(st[k - 1]), <<row>>) = Good(st[k])
      BY <2>1, <3>2, ReadSingle
    <3>4. one(k) = <<row>>
      BY <2>2, <2>3
    <3>5. row \in R
      BY DEF R
    <3>6. QED
      BY <3>3, <3>4, <3>5, SingleRow
  <2>4. CASE ~(storage[ResourceOrder[k]] > 0)
    <3>1. st[k] = st[k - 1]
      BY <2>4 DEF BuildsGoods
    <3>2. one(k) = << >>
      BY <2>4
    <3>3. QED
      BY <2>1, <3>1, <3>2, ReadNothing
  <2>5. QED
    BY <2>3, <2>4
<1>6. AmountRows(kind, id, storage) = FlattenSeq(parts)
  BY DEF AmountRows, AmountRow
<1>7. parts \in Seq(Seq(R)) /\ Len(parts) = n
  <2>1. DOMAIN parts = DOMAIN ResourceOrder /\ parts = [k \in DOMAIN parts |-> parts[k]]
    OBVIOUS
  <2>2. \A k \in DOMAIN ResourceOrder : parts[k] \in Seq(R)
    BY <1>2, <1>5
  <2> HIDE DEF parts
  <2>3. QED
    BY <1>1, <2>1, <2>2, EachType
<1>8. \A k \in 1 .. Len(parts) : ReadOn(Good(st[k - 1]), parts[k]) = Good(st[k])
  BY <1>2, <1>5, <1>7
<1> HIDE DEF parts, n, one
<1>9. ReadOn(Good(st[0]), FlattenSeq(parts)) = Good(st[Len(parts)])
  BY <1>3, <1>7, <1>8, ReadParts DEF R
<1>10. QED
  BY <1>6, <1>7, <1>9 DEF n

(* The goods of a settlement.                                              *)
LEMMA ReadStock ==
  ASSUME NEW v \in WorldRecords, NEW s \in v.settlements, v.stores[s] = EmptyStorage,
         NEW storage \in Storages
  PROVE  LET u == [v EXCEPT !.stores = [v.stores EXCEPT ![s] = storage]]
         IN  /\ u \in WorldRecords
             /\ ReadOn(Good(v), AmountRows("settlement_storage", s, storage)) = Good(u)
<1> DEFINE n == Len(ResourceOrder)
           with(goods) == [v EXCEPT !.stores = [v.stores EXCEPT ![s] = goods]]
           st == [k \in 0 .. n |-> with(FirstGoods(storage, k))]
<1>1. ResourceOrder \in Seq(Resource)
  BY RuntimeAssumption
<1>2. n \in Nat /\ 0 \in 0 .. n /\ n \in 0 .. n
      /\ \A k \in 1 .. n : k \in 0 .. n /\ k - 1 \in 0 .. n /\ ResourceOrder[k] \in Resource
  BY <1>1
<1>3. s \in SettlementId /\ v.stores \in [SettlementId -> Storages]
  BY DEF WorldRecords
<1>4. ASSUME NEW goods \in Storages
      PROVE  /\ with(goods) \in WorldRecords
             /\ with(goods).stores[s] = goods /\ s \in with(goods).settlements
  <2>1. [v.stores EXCEPT ![s] = goods] \in [SettlementId -> Storages]
    BY <1>3
  <2>2. PICK t \in [SettlementId -> Storages] : t = [v.stores EXCEPT ![s] = goods]
    BY <2>1
  <2>3. [v EXCEPT !.stores = t] \in WorldRecords /\ [v EXCEPT !.stores = t].stores = t
        /\ [v EXCEPT !.stores = t].settlements = v.settlements
    BY DEF WorldRecords
  <2>4. t[s] = goods
    BY <1>3, <2>2
  <2>5. QED
    BY <2>2, <2>3, <2>4
<1>5. \A k \in 0 .. n : FirstGoods(storage, k) \in Storages
  BY FirstGoodsGrow
<1>6. ASSUME NEW goods \in Storages, NEW more \in Storages, NEW k \in 1 .. n,
             LET r == ResourceOrder[k]
             IN  CanPut(goods, r, storage[r]) /\ Put(goods, r, storage[r]) = more
      PROVE  LET row == AmountRow("settlement_storage", s, storage, k)
             IN  Fits(with(goods), row) /\ with(more) = WithRow(with(goods), row)
  <2> DEFINE row == AmountRow("settlement_storage", s, storage, k)
  <2>1. PICK x \in WorldRecords : x = with(goods)
    BY <1>4
  <2>2. x.stores[s] = goods /\ s \in x.settlements
    BY <1>4, <2>1
  <2>3. row.kind = "settlement_storage" /\ row.id = s /\ row.resource = ResourceOrder[k]
        /\ row.n = storage[ResourceOrder[k]]
    BY DEF AmountRow
  <2> HIDE DEF row
  <2>4. Fits(x, row)
    BY <1>6, <2>2, <2>3 DEF Fits
  <2>5. WithRow(x, row) = [x EXCEPT !.stores = [x.stores EXCEPT ![s] = more]]
    BY <1>6, <2>2, <2>3 DEF WithRow, WithStock
  <2>6. x.stores = [v.stores EXCEPT ![s] = goods]
    BY <2>1 DEF WorldRecords
  <2>7. [x.stores EXCEPT ![s] = more] = [v.stores EXCEPT ![s] = more]
    BY <1>3, <2>6
  <2>8. [x EXCEPT !.stores = [v.stores EXCEPT ![s] = more]] = with(more)
    BY <2>1 DEF WorldRecords
  <2>9. QED
    BY <2>1, <2>4, <2>5, <2>7, <2>8 DEF row
<1> HIDE DEF with
<1>7. st \in [0 .. n -> WorldRecords]
  BY <1>4, <1>5
<1>8. ASSUME NEW k \in 1 .. n
      PROVE  IF storage[ResourceOrder[k]] > 0
             THEN /\ Fits(st[k - 1], AmountRow("settlement_storage", s, storage, k))
                  /\ st[k] = WithRow(st[k - 1], AmountRow("settlement_storage", s, storage, k))
             ELSE st[k] = st[k - 1]
  <2>1. FirstGoods(storage, k - 1) \in Storages /\ FirstGoods(storage, k) \in Storages
    BY <1>2, <1>5
  <2>2. st[k] = with(FirstGoods(storage, k)) /\ st[k - 1] = with(FirstGoods(storage, k - 1))
    BY <1>2
  <2> HIDE DEF st
  <2>3. LET r == ResourceOrder[k]
            before == FirstGoods(storage, k - 1)
        IN  /\ storage[r] > 0 => /\ CanPut(before, r, storage[r])
                                 /\ Put(before, r, storage[r]) = FirstGoods(storage, k)
            /\ ~(storage[r] > 0) => FirstGoods(storage, k) = before
    BY FirstGoodsGrow
  <2>4. QED
    BY <1>6, <2>1, <2>2, <2>3
<1>9. BuildsGoods(st, "settlement_storage", s, storage)
  BY <1>7, <1>8 DEF BuildsGoods
<1>10. st[0] = with(EmptyStorage) /\ st[n] = with(storage)
  BY <1>2, FirstGoodsGrow
<1>11. with(EmptyStorage) = v
  <2>1. [v.stores EXCEPT ![s] = EmptyStorage] = v.stores
    BY <1>3
  <2>2. [v EXCEPT !.stores = v.stores] = v
    BY DEF WorldRecords
  <2>3. QED
    BY <2>1, <2>2 DEF with
<1> HIDE DEF st
<1>12. ReadOn(Good(st[0]), AmountRows("settlement_storage", s, storage)) = Good(st[n])
  BY <1>3, <1>9, ReadAmounts DEF n
<1>13. with(storage) \in WorldRecords
  BY <1>4
<1>14. QED
  BY <1>10, <1>11, <1>12, <1>13 DEF with

(* The first elements of a set that is written in order.                   *)
FirstOf(q, k) == {q[j] : j \in 1 .. k}

LEMMA FirstOfGrows ==
  ASSUME NEW S, IsFiniteSet(S), NEW q, q = SetToSeq(S)
  PROVE  /\ q \in Seq(S)
         /\ FirstOf(q, 0) = {} /\ FirstOf(q, Len(q)) = S
         /\ \A k \in 0 .. Len(q) : FirstOf(q, k) \subseteq S
         /\ \A k \in 1 .. Len(q) : /\ FirstOf(q, k) = FirstOf(q, k - 1) \cup {q[k]}
                                   /\ q[k] \in S /\ q[k] \notin FirstOf(q, k - 1)
<1>1. /\ q \in Seq(S)
      /\ \A i, j \in DOMAIN q : q[i] = q[j] => i = j
      /\ \A x \in S : \E i \in DOMAIN q : q[i] = x
  BY SetAsSequence
<1>2. PICK n \in Nat : n = Len(q) /\ DOMAIN q = 1 .. n
  BY <1>1
<1>3. \A k \in 1 .. n : q[k] \in S
  BY <1>1, <1>2
<1>4. FirstOf(q, 0) = {} /\ FirstOf(q, n) = S
  BY <1>1, <1>2, <1>3 DEF FirstOf
<1>5. \A k \in 0 .. n : FirstOf(q, k) \subseteq S
  BY <1>2, <1>3 DEF FirstOf
<1>6. ASSUME NEW k \in 1 .. n
      PROVE  FirstOf(q, k) = FirstOf(q, k - 1) \cup {q[k]} /\ q[k] \notin FirstOf(q, k - 1)
  <2>1. \A j \in 1 .. k : j = k \/ j \in 1 .. k - 1
    BY <1>2
  <2>2. \A j \in 1 .. k - 1 : j \in 1 .. k /\ j \in 1 .. n /\ j # k
    BY <1>2
  <2>3. k \in 1 .. k
    BY <1>2
  <2>4. QED
    BY <1>1, <1>2, <2>1, <2>2, <2>3 DEF FirstOf
<1>7. QED
  BY <1>1, <1>2, <1>3, <1>4, <1>5, <1>6

(* The settlements, each with its goods.                                   *)
LEMMA ReadPlaces ==
  ASSUME NEW v \in WorldRecords, NEW w \in WorldRecords,
         v.settlements = {}, v.stores = [s \in SettlementId |-> EmptyStorage],
         \A s \in SettlementId : s \notin w.settlements => w.stores[s] = EmptyStorage
  PROVE  LET u == [v EXCEPT !.settlements = w.settlements, !.stores = w.stores]
         IN  /\ u \in WorldRecords
             /\ ReadOn(Good(v), SettlementRows(w)) = Good(u)
<1>1. /\ w.settlements \subseteq SettlementId /\ w.stores \in [SettlementId -> Storages]
      /\ IsFiniteSet(w.settlements)
  <2>1. w.settlements \subseteq SettlementId /\ w.stores \in [SettlementId -> Storages]
    BY DEF WorldRecords
  <2>2. QED
    BY <2>1, PersistAssumption, FS_Subset
<1>2. PICK q : q = SetToSeq(w.settlements)
  OBVIOUS
<1> DEFINE n == Len(q)
           with(S) == [v EXCEPT !.settlements = S,
                                !.stores = [s \in SettlementId |-> IF s \in S THEN w.stores[s] ELSE EmptyStorage]]
           st == [k \in 0 .. n |-> with(FirstOf(q, k))]
           part(k) == <<[kind |-> "settlement", id |-> q[k]]>>
                      \o AmountRows("settlement_storage", q[k], w.stores[q[k]])
           parts == [k \in DOMAIN q |-> part(k)]
<1>3. /\ q \in Seq(w.settlements)
      /\ FirstOf(q, 0) = {} /\ FirstOf(q, n) = w.settlements
      /\ \A k \in 0 .. n : FirstOf(q, k) \subseteq w.settlements
      /\ \A k \in 1 .. n : /\ FirstOf(q, k) = FirstOf(q, k - 1) \cup {q[k]}
                           /\ q[k] \in w.settlements /\ q[k] \notin FirstOf(q, k - 1)
  BY <1>1, <1>2, FirstOfGrows
<1>4. n \in Nat /\ DOMAIN q = 1 .. n /\ 0 \in 0 .. n /\ n \in 0 .. n
      /\ \A k \in 1 .. n : k \in 0 .. n /\ k - 1 \in 0 .. n
  BY <1>3
<1>5. EmptyStorage \in Storages
  BY WidthAssumption DEF EmptyStorage, Storages, U64
<1>6. ASSUME NEW S \in SUBSET SettlementId
      PROVE  /\ with(S) \in WorldRecords /\ with(S).settlements = S
             /\ with(S).stores = [s \in SettlementId |-> IF s \in S THEN w.stores[s] ELSE EmptyStorage]
  <2> DEFINE t == [s \in SettlementId |-> IF s \in S THEN w.stores[s] ELSE EmptyStorage]
  <2>1. t \in [SettlementId -> Storages]
    BY <1>1, <1>5
  <2> HIDE DEF t
  <2>2. /\ [v EXCEPT !.settlements = S, !.stores = t] \in WorldRecords
        /\ [v EXCEPT !.settlements = S, !.stores = t].settlements = S
        /\ [v EXCEPT !.settlements = S, !.stores = t].stores = t
    BY <2>1 DEF WorldRecords
  <2>3. QED
    BY <2>2 DEF t
<1>7. ASSUME NEW S \in SUBSET SettlementId, NEW p \in SettlementId, p \notin S
      PROVE  LET x == with(S)
                 rows == <<[kind |-> "settlement", id |-> p]>>
                         \o AmountRows("settlement_storage", p, w.stores[p])
             IN  rows \in Seq(RowSet) /\ ReadOn(Good(x), rows) = Good(with(S \cup {p}))
  <2> DEFINE row == [kind |-> "settlement", id |-> p]
             goods == AmountRows("settlement_storage", p, w.stores[p])
  <2>1. PICK x \in WorldRecords : x = with(S)
    BY <1>6
  <2>2. x.settlements = S
        /\ x.stores = [s \in SettlementId |-> IF s \in S THEN w.stores[s] ELSE EmptyStorage]
    BY <1>6, <2>1
  <2>3. row \in RowSet /\ Ordinary(row) /\ row.kind = "settlement" /\ row.id = p
    BY DEF RowSet, BodyRows, PlaceRows, Ordinary, Header
  <2> HIDE DEF row
  <2>4. Fits(x, row)
    BY <2>3 DEF Fits
  <2>5. PICK y \in WorldRecords : y = WithRow(x, row) /\ AfterRow(Good(x), row) = Good(y)
    BY <2>3, <2>4, GoodRow
  <2>6. y = [x EXCEPT !.settlements = S \cup {p}]
    BY <2>2, <2>3, <2>5 DEF WithRow
  <2>7. y.settlements = S \cup {p} /\ y.stores = x.stores
    BY <2>6 DEF WorldRecords
  <2>8. y.stores[p] = EmptyStorage /\ p \in y.settlements
    BY <1>7, <2>2, <2>7
  <2>9. w.stores[p] \in Storages
    BY <1>1
  <2>10. ReadOn(Good(y), goods) = Good([y EXCEPT !.stores = [y.stores EXCEPT ![p] = w.stores[p]]])
    BY <2>8, <2>9, ReadStock
  <2>11. [y.stores EXCEPT ![p] = w.stores[p]]
           = [s \in SettlementId |-> IF s \in S \cup {p} THEN w.stores[s] ELSE EmptyStorage]
    BY <2>2, <2>7
  <2>12. [y EXCEPT !.stores = [y.stores EXCEPT ![p] = w.stores[p]]] = with(S \cup {p})
    <3>1. PICK t : t = [s \in SettlementId |-> IF s \in S \cup {p} THEN w.stores[s] ELSE EmptyStorage]
      OBVIOUS
    <3>2. [y EXCEPT !.stores = t] = [v EXCEPT !.settlements = S \cup {p}, !.stores = t]
      BY <2>1, <2>6 DEF WorldRecords
    <3>3. QED
      BY <2>11, <3>1, <3>2
  <2>13. goods \in Seq(RowSet) /\ <<row>> \in Seq(RowSet)
    <3>1. goods \in Seq(StoreRows)
      BY <2>9, AmountRowsType DEF StoreRows
    <3>2. StoreRows \subseteq RowSet
      BY DEF RowSet, BodyRows
    <3>3. QED
      BY <2>3, <3>1, <3>2, SeqMonotonic, SingleRow
  <2> HIDE DEF goods
  <2>14. Good(x) \in ReaderStates
    BY GoodType
  <2>15. ReadOn(Good(x), <<row>> \o goods) = ReadOn(ReadOn(Good(x), <<row>>), goods)
    BY <2>13, <2>14, ReadOnward
  <2>16. ReadOn(Good(x), <<row>>) = Good(y)
    BY <2>3, <2>5, <2>14, ReadSingle
  <2>17. <<row>> \o goods \in Seq(RowSet)
    BY <2>13, ConcatProperties
  <2> HIDE DEF with
  <2>18. QED
    BY <2>1, <2>10, <2>12, <2>15, <2>16, <2>17 DEF row, goods
<1>8. with({}) = v /\ with(w.settlements) = [v EXCEPT !.settlements = w.settlements, !.stores = w.stores]
  <2>1. [s \in SettlementId |-> IF s \in {} THEN w.stores[s] ELSE EmptyStorage] = v.stores
    OBVIOUS
  <2>2. [s \in SettlementId |-> IF s \in w.settlements THEN w.stores[s] ELSE EmptyStorage] = w.stores
    BY <1>1
  <2>3. [v EXCEPT !.settlements = {}, !.stores = v.stores] = v
    BY DEF WorldRecords
  <2>4. QED
    BY <2>1, <2>2, <2>3
<1> HIDE DEF with
<1>9. ASSUME NEW k \in 1 .. n
      PROVE  part(k) \in Seq(RowSet) /\ ReadOn(Good(st[k - 1]), part(k)) = Good(st[k])
  <2>1. FirstOf(q, k - 1) \in SUBSET SettlementId /\ q[k] \in SettlementId
        /\ q[k] \notin FirstOf(q, k - 1) /\ FirstOf(q, k) = FirstOf(q, k - 1) \cup {q[k]}
    BY <1>1, <1>3, <1>4
  <2>2. st[k - 1] = with(FirstOf(q, k - 1)) /\ st[k] = with(FirstOf(q, k))
    BY <1>4
  <2> HIDE DEF st
  <2>3. QED
    BY <1>7, <2>1, <2>2
<1> DEFINE R == RowSet
<1> HIDE DEF R
<1>10. parts \in Seq(Seq(R)) /\ Len(parts) = n
  <2>1. DOMAIN parts = DOMAIN q /\ parts = [k \in DOMAIN parts |-> parts[k]]
    OBVIOUS
  <2>2. \A k \in DOMAIN q : parts[k] \in Seq(R)
    BY <1>4, <1>9 DEF R
  <2> HIDE DEF parts
  <2>3. QED
    BY <1>3, <2>1, <2>2, EachType
<1>11. \A k \in 1 .. Len(parts) : ReadOn(Good(st[k - 1]), parts[k]) = Good(st[k])
  BY <1>4, <1>9, <1>10
<1>12. st \in [0 .. Len(parts) -> WorldRecords]
  BY <1>1, <1>3, <1>4, <1>6, <1>10
<1>13. SettlementRows(w) = FlattenSeq(parts)
  BY <1>2 DEF SettlementRows
<1>14. st[0] = with({}) /\ st[n] = with(w.settlements)
  BY <1>3, <1>4
<1>15. with(w.settlements) \in WorldRecords
  BY <1>1, <1>6
<1> HIDE DEF parts, st, n
<1>16. ReadOn(Good(st[0]), FlattenSeq(parts)) = Good(st[Len(parts)])
  BY <1>10, <1>11, <1>12, ReadParts DEF R
<1>17. QED
  BY <1>8, <1>10, <1>13, <1>14, <1>15, <1>16

(* The first of a sequence of records.                                     *)
FirstRecords(q, k) == [j \in 1 .. k |-> q[j]]

LEMMA FirstRecordsGrow ==
  ASSUME NEW S, NEW q \in Seq(S)
  PROVE  /\ FirstRecords(q, 0) = << >> /\ FirstRecords(q, Len(q)) = q
         /\ \A k \in 0 .. Len(q) : FirstRecords(q, k) \in Seq(S) /\ Len(FirstRecords(q, k)) = k
         /\ \A k \in 1 .. Len(q) : Append(FirstRecords(q, k - 1), q[k]) = FirstRecords(q, k)
<1>1. PICK n \in Nat : n = Len(q) /\ DOMAIN q = 1 .. n /\ \A k \in 1 .. n : q[k] \in S
  OBVIOUS
<1>2. FirstRecords(q, 0) = << >> /\ FirstRecords(q, n) = q
  BY <1>1 DEF FirstRecords
<1>3. ASSUME NEW k \in 0 .. n PROVE FirstRecords(q, k) \in Seq(S) /\ Len(FirstRecords(q, k)) = k
  <2>1. FirstRecords(q, k) \in [1 .. k -> S] /\ k \in Nat
    BY <1>1 DEF FirstRecords
  <2>2. QED
    BY <2>1
<1>4. ASSUME NEW k \in 1 .. n PROVE Append(FirstRecords(q, k - 1), q[k]) = FirstRecords(q, k)
  <2>1. PICK j \in 0 .. n : j = k - 1
    BY <1>1
  <2>2. PICK f \in Seq(S) : f = FirstRecords(q, j)
    BY <1>3
  <2>3. Len(f) = j /\ f = [i \in 1 .. j |-> q[i]]
    BY <1>3, <2>2 DEF FirstRecords
  <2>4. k = j + 1 /\ q[k] \in S
    BY <1>1, <2>1
  <2>5. Append(f, q[k]) = [i \in 1 .. j + 1 |-> IF i = j + 1 THEN q[k] ELSE f[i]]
    BY <2>3, <2>4
  <2>6. \A i \in 1 .. k : IF i = k THEN i = j + 1 ELSE i \in 1 .. j
    BY <2>1, <2>4
  <2>7. Append(f, q[k]) = [i \in 1 .. k |-> q[i]]
    BY <2>3, <2>4, <2>5, <2>6
  <2>8. QED
    BY <2>1, <2>2, <2>7 DEF FirstRecords
<1>5. QED
  BY <1>1, <1>2, <1>3, <1>4

(* The goods of a caravan.                                                 *)
LEMMA ReadCargo ==
  ASSUME NEW v \in WorldRecords, NEW p \in DOMAIN v.fleet, UniqueIds(v.fleet),
         v.fleet[p].cargo = EmptyStorage, NEW storage \in Storages
  PROVE  LET u == [v EXCEPT !.fleet = [v.fleet EXCEPT ![p] = [v.fleet[p] EXCEPT !.cargo = storage]]]
         IN  /\ u \in WorldRecords
             /\ ReadOn(Good(v), AmountRows("caravan_cargo", v.fleet[p].id, storage)) = Good(u)
<1> DEFINE n == Len(ResourceOrder)
<1>1. ResourceOrder \in Seq(Resource)
  BY RuntimeAssumption
<1>2. n \in Nat /\ 0 \in 0 .. n /\ n \in 0 .. n
      /\ \A k \in 1 .. n : k \in 0 .. n /\ k - 1 \in 0 .. n /\ ResourceOrder[k] \in Resource
  BY <1>1
<1>3. PICK f \in Seq(FilledCaravans) : f = v.fleet
  BY DEF WorldRecords
<1>4. PICK c \in FilledCaravans : c = f[p]
  BY <1>3
<1>5. PICK id \in CaravanId : id = c.id
  BY FilledRecords DEF Caravans
<1> DEFINE with(goods) == [v EXCEPT !.fleet = [f EXCEPT ![p] = [c EXCEPT !.cargo = goods]]]
           st == [k \in 0 .. n |-> with(FirstGoods(storage, k))]
<1>6. c \in Caravans /\ c.cargo = EmptyStorage
  BY <1>3, <1>4, FilledRecords
<1>7. ASSUME NEW goods \in Storages
      PROVE  /\ with(goods) \in WorldRecords
             /\ with(goods).fleet = [f EXCEPT ![p] = [c EXCEPT !.cargo = goods]]
             /\ with(goods).fleet[p] = [c EXCEPT !.cargo = goods]
  <2>1. PICK d \in FilledCaravans : d = [c EXCEPT !.cargo = goods]
    BY ReloadedFilled
  <2>0. p \in DOMAIN f /\ p \in 1 .. Len(f)
    BY <1>3
  <2> DEFINE e == [f EXCEPT ![p] = d]
  <2>9. e \in Seq(FilledCaravans)
    BY <2>0, ExceptSeq
  <2> HIDE DEF e
  <2>2. PICK g \in Seq(FilledCaravans) : g = e
    BY <2>9
  <2>3. [v EXCEPT !.fleet = g] \in WorldRecords /\ [v EXCEPT !.fleet = g].fleet = g
    BY DEF WorldRecords
  <2>4. g[p] = d
    BY <2>0, <2>2 DEF e
  <2>5. QED
    BY <2>1, <2>2, <2>3, <2>4 DEF e
<1>8. \A k \in 0 .. n : FirstGoods(storage, k) \in Storages
  BY FirstGoodsGrow
<1>9. ASSUME NEW goods \in Storages, NEW row, row.id = id
      PROVE  Carriers(with(goods), row) = {p} /\ Carrier(with(goods), row) = p
  <2>1. PICK x \in WorldRecords : x = with(goods)
    BY <1>7
  <2>2. x.fleet = [f EXCEPT ![p] = [c EXCEPT !.cargo = goods]]
    BY <1>7, <2>1
  <2>3. [c EXCEPT !.cargo = goods].id = id
    BY <1>5, <1>6 DEF Caravans
  <2>4. \A q \in DOMAIN f : x.fleet[q].id = f[q].id
    BY <1>3, <1>4, <1>5, <2>2, <2>3
  <2>5. \A q \in DOMAIN f : f[q].id = id => q = p
    BY <1>3, <1>4, <1>5 DEF UniqueIds
  <2>6. DOMAIN x.fleet = DOMAIN f /\ p \in DOMAIN f /\ p \in Nat
    BY <1>3, <2>2
  <2>7. Carriers(x, row) = {p}
    BY <1>4, <1>5, <1>9, <2>4, <2>5, <2>6 DEF Carriers
  <2>8. Carrier(x, row) = p
    BY <2>6, <2>7 DEF Carrier
  <2>9. QED
    BY <2>1, <2>7, <2>8
<1>10. ASSUME NEW goods \in Storages, NEW more \in Storages, NEW k \in 1 .. n,
              LET r == ResourceOrder[k]
              IN  CanPut(goods, r, storage[r]) /\ Put(goods, r, storage[r]) = more
       PROVE  LET row == AmountRow("caravan_cargo", id, storage, k)
              IN  Fits(with(goods), row) /\ with(more) = WithRow(with(goods), row)
  <2> DEFINE row == AmountRow("caravan_cargo", id, storage, k)
  <2>1. PICK x \in WorldRecords : x = with(goods)
    BY <1>7
  <2>2. x.fleet = [f EXCEPT ![p] = [c EXCEPT !.cargo = goods]] /\ x.fleet[p] = [c EXCEPT !.cargo = goods]
    BY <1>7, <2>1
  <2>3. row.kind = "caravan_cargo" /\ row.id = id /\ row.resource = ResourceOrder[k]
        /\ row.n = storage[ResourceOrder[k]]
    BY DEF AmountRow
  <2> HIDE DEF row
  <2>4. Carriers(x, row) = {p} /\ Carrier(x, row) = p
    BY <1>9, <2>1, <2>3
  <2>5. x.fleet[p].cargo = goods
    BY <1>6, <2>2 DEF Caravans
  <2>6. Fits(x, row)
    BY <1>10, <2>3, <2>4, <2>5 DEF Fits
  <2>7. WithGoods(x.fleet, p, row) = [x.fleet EXCEPT ![p] = [x.fleet[p] EXCEPT !.cargo = more]]
    BY <1>10, <2>3, <2>5 DEF WithGoods
  <2>8. WithRow(x, row) = [x EXCEPT !.fleet = [x.fleet EXCEPT ![p] = [x.fleet[p] EXCEPT !.cargo = more]]]
    BY <2>3, <2>4, <2>7 DEF WithRow
  <2>9. [x.fleet[p] EXCEPT !.cargo = more] = [c EXCEPT !.cargo = more]
    BY <1>6, <2>2 DEF Caravans
  <2>10. [x.fleet EXCEPT ![p] = [c EXCEPT !.cargo = more]] = [f EXCEPT ![p] = [c EXCEPT !.cargo = more]]
    BY <1>3, <2>2
  <2>11. [x EXCEPT !.fleet = [f EXCEPT ![p] = [c EXCEPT !.cargo = more]]] = with(more)
    BY <2>1 DEF WorldRecords
  <2>12. QED
    BY <2>1, <2>6, <2>8, <2>9, <2>10, <2>11 DEF row
<1> HIDE DEF with
<1>11. st \in [0 .. n -> WorldRecords]
  BY <1>7, <1>8
<1>12. ASSUME NEW k \in 1 .. n
       PROVE  IF storage[ResourceOrder[k]] > 0
              THEN /\ Fits(st[k - 1], AmountRow("caravan_cargo", id, storage, k))
                   /\ st[k] = WithRow(st[k - 1], AmountRow("caravan_cargo", id, storage, k))
              ELSE st[k] = st[k - 1]
  <2>1. FirstGoods(storage, k - 1) \in Storages /\ FirstGoods(storage, k) \in Storages
    BY <1>2, <1>8
  <2>2. st[k] = with(FirstGoods(storage, k)) /\ st[k - 1] = with(FirstGoods(storage, k - 1))
    BY <1>2
  <2> HIDE DEF st
  <2>3. LET r == ResourceOrder[k]
            before == FirstGoods(storage, k - 1)
        IN  /\ storage[r] > 0 => /\ CanPut(before, r, storage[r])
                                 /\ Put(before, r, storage[r]) = FirstGoods(storage, k)
            /\ ~(storage[r] > 0) => FirstGoods(storage, k) = before
    BY FirstGoodsGrow
  <2>4. QED
    BY <1>10, <2>1, <2>2, <2>3
<1>13. BuildsGoods(st, "caravan_cargo", id, storage)
  BY <1>11, <1>12 DEF BuildsGoods
<1>14. st[0] = with(EmptyStorage) /\ st[n] = with(storage)
  BY <1>2, FirstGoodsGrow
<1>15. with(EmptyStorage) = v
  <2>1. [c EXCEPT !.cargo = EmptyStorage] = c
    BY <1>6 DEF Caravans
  <2>2. [f EXCEPT ![p] = c] = f
    BY <1>3, <1>4
  <2>3. [v EXCEPT !.fleet = f] = v
    BY <1>3 DEF WorldRecords
  <2>4. QED
    BY <2>1, <2>2, <2>3 DEF with
<1> HIDE DEF st
<1>16. ReadOn(Good(st[0]), AmountRows("caravan_cargo", id, storage)) = Good(st[n])
  BY <1>13, ReadAmounts DEF n
<1>17. with(storage) \in WorldRecords
  BY <1>7
<1>18. with(storage) = [v EXCEPT !.fleet = [v.fleet EXCEPT ![p] = [v.fleet[p] EXCEPT !.cargo = storage]]]
       /\ id = v.fleet[p].id
  BY <1>3, <1>4, <1>5 DEF with
<1>19. QED
  BY <1>14, <1>15, <1>16, <1>17, <1>18

LEMMA LastReplaced ==
  ASSUME NEW S, NEW f \in Seq(S), NEW c \in S, NEW d \in S, NEW p, p = Len(f) + 1
  PROVE  /\ Append(f, d) \in Seq(S) /\ p \in DOMAIN Append(f, d) /\ Append(f, d)[p] = d
         /\ DOMAIN Append(f, d) = DOMAIN Append(f, c)
         /\ \A k \in DOMAIN Append(f, d) : k # p => Append(f, d)[k] = Append(f, c)[k]
         /\ [Append(f, d) EXCEPT ![p] = c] = Append(f, c)
<1>1. PICK n \in Nat : n = Len(f)
  OBVIOUS
<1>2. /\ Append(f, d) = [k \in 1 .. n + 1 |-> IF k = n + 1 THEN d ELSE f[k]]
      /\ Append(f, c) = [k \in 1 .. n + 1 |-> IF k = n + 1 THEN c ELSE f[k]]
  <2>1. f = [k \in 1 .. n |-> f[k]] /\ Len(f) = n
    BY <1>1
  <2>2. QED
    BY <1>1, <2>1
<1>3. Append(f, d) \in Seq(S) /\ p = n + 1 /\ p \in 1 .. n + 1
  BY <1>1
<1>4. QED
  BY <1>2, <1>3

(* The rows of one caravan, which joins those that were read before it.    *)
LEMMA ReadCaravan ==
  ASSUME NEW v \in WorldRecords, NEW c \in FilledCaravans, UniqueIds(Append(v.fleet, c))
  PROVE  LET rows == <<CaravanRow(c)>> \o AmountRows("caravan_cargo", c.id, c.cargo)
             u == [v EXCEPT !.fleet = Append(v.fleet, c)]
         IN  /\ rows \in Seq(RowSet) /\ u \in WorldRecords
             /\ ReadOn(Good(v), rows) = Good(u)
<1> DEFINE d == [c EXCEPT !.cargo = EmptyStorage]
           row == CaravanRow(c)
           goods == AmountRows("caravan_cargo", c.id, c.cargo)
<1>1. PICK f \in Seq(FilledCaravans) : f = v.fleet
  BY DEF WorldRecords
<1>2. /\ row \in CarrierRows /\ row = [kind |-> "caravan", record |-> d]
      /\ d \in FilledCaravans
  BY CaravanRowType
<1>3. c \in Caravans /\ c.id \in CaravanId /\ c.cargo \in Storages
  BY FilledRecords DEF Caravans
<1>4. d.id = c.id /\ d.cargo = EmptyStorage /\ [d EXCEPT !.cargo = c.cargo] = c
  BY <1>3 DEF Caravans
<1>5. CaravanFrom(d) = d
  BY <1>2, FilledRecords, CaravanFromSame
<1>6. row \in RowSet /\ row.kind = "caravan" /\ row.record = d
  BY <1>2 DEF RowSet, BodyRows
<1> HIDE DEF row
<1>7. Ordinary(row) /\ Fits(v, row)
  BY <1>6 DEF Ordinary, Header, Fits
<1>8. PICK y \in WorldRecords : y = WithRow(v, row) /\ AfterRow(Good(v), row) = Good(y)
  BY <1>6, <1>7, GoodRow
<1> HIDE DEF d
<1>9. y = [v EXCEPT !.fleet = Append(f, d)]
  BY <1>1, <1>5, <1>6, <1>8 DEF WithRow
<1>10. y.fleet = Append(f, d)
  BY <1>9 DEF WorldRecords
<1>11. PICK p : p = Len(f) + 1
  OBVIOUS
<1>12. /\ p \in DOMAIN y.fleet /\ y.fleet[p] = d
       /\ DOMAIN y.fleet = DOMAIN Append(f, c)
       /\ \A k \in DOMAIN y.fleet : k # p => y.fleet[k] = Append(f, c)[k]
       /\ [y.fleet EXCEPT ![p] = c] = Append(f, c)
  BY <1>2, <1>10, <1>11, LastReplaced
<1>13. Append(f, c) \in Seq(FilledCaravans) /\ Append(f, c)[p] = c
  BY <1>11
<1>14. UniqueIds(y.fleet)
  <2>1. \A k \in DOMAIN y.fleet : y.fleet[k].id = Append(f, c)[k].id
    BY <1>4, <1>12, <1>13
  <2>2. QED
    BY <1>1, <1>12, <2>1 DEF UniqueIds
<1>15. LET u == [y EXCEPT !.fleet = [y.fleet EXCEPT ![p] = [y.fleet[p] EXCEPT !.cargo = c.cargo]]]
       IN  /\ u \in WorldRecords
           /\ ReadOn(Good(y), AmountRows("caravan_cargo", y.fleet[p].id, c.cargo)) = Good(u)
  <2>1. y.fleet[p].cargo = EmptyStorage /\ p \in DOMAIN y.fleet
    BY <1>4, <1>12
  <2>2. QED
    BY <1>3, <1>14, <2>1, ReadCargo
<1>16. [y.fleet EXCEPT ![p] = [y.fleet[p] EXCEPT !.cargo = c.cargo]] = Append(f, c)
  BY <1>4, <1>12
<1>17. [y EXCEPT !.fleet = Append(f, c)] = [v EXCEPT !.fleet = Append(f, c)]
  BY <1>9 DEF WorldRecords
<1>18. ReadOn(Good(y), goods) = Good([v EXCEPT !.fleet = Append(f, c)])
       /\ [v EXCEPT !.fleet = Append(f, c)] \in WorldRecords
  BY <1>4, <1>12, <1>15, <1>16, <1>17
<1>19. goods \in Seq(RowSet) /\ <<row>> \in Seq(RowSet)
  <2>1. goods \in Seq(CargoRows)
    BY <1>3, AmountRowsType DEF CargoRows
  <2>2. CargoRows \subseteq RowSet
    BY DEF RowSet, BodyRows
  <2>3. QED
    BY <1>6, <2>1, <2>2, SeqMonotonic, SingleRow
<1> HIDE DEF goods
<1>20. Good(v) \in ReaderStates
  BY GoodType
<1>21. ReadOn(Good(v), <<row>> \o goods) = ReadOn(ReadOn(Good(v), <<row>>), goods)
  BY <1>19, <1>20, ReadOnward
<1>22. ReadOn(Good(v), <<row>>) = Good(y)
  BY <1>6, <1>8, <1>20, ReadSingle
<1>23. <<row>> \o goods \in Seq(RowSet)
  BY <1>19, ConcatProperties
<1>24. QED
  BY <1>1, <1>18, <1>21, <1>22, <1>23 DEF row, goods

(* The first records of some with unique ids have unique ids.              *)
LEMMA FirstAreUnique ==
  ASSUME NEW S, NEW q \in Seq(S), UniqueIds(q), NEW k \in 0 .. Len(q)
  PROVE  UniqueIds(FirstRecords(q, k))
<1>1. PICK n \in Nat : n = Len(q) /\ DOMAIN q = 1 .. n
  OBVIOUS
<1>2. FirstRecords(q, k) = [j \in 1 .. k |-> q[j]] /\ \A j \in 1 .. k : j \in DOMAIN q
  BY <1>1 DEF FirstRecords
<1>3. QED
  BY <1>2 DEF UniqueIds

(* The caravans, each with its goods.                                      *)
LEMMA ReadFleet ==
  ASSUME NEW v \in WorldRecords, NEW w \in WorldRecords, v.fleet = << >>, UniqueIds(w.fleet)
  PROVE  LET u == [v EXCEPT !.fleet = w.fleet]
         IN  /\ u \in WorldRecords
             /\ ReadOn(Good(v), FleetRows(w)) = Good(u)
<1>1. PICK q \in Seq(FilledCaravans) : q = w.fleet
  BY DEF WorldRecords
<1> DEFINE n == Len(q)
           with(g) == [v EXCEPT !.fleet = g]
           st == [k \in 0 .. n |-> with(FirstRecords(q, k))]
           part(p) == <<CaravanRow(q[p])>> \o AmountRows("caravan_cargo", q[p].id, q[p].cargo)
           parts == [p \in DOMAIN q |-> part(p)]
<1>2. n \in Nat /\ DOMAIN q = 1 .. n /\ 0 \in 0 .. n /\ n \in 0 .. n
      /\ \A k \in 1 .. n : k \in 0 .. n /\ k - 1 \in 0 .. n /\ q[k] \in FilledCaravans
  OBVIOUS
<1>3. /\ FirstRecords(q, 0) = << >> /\ FirstRecords(q, n) = q
      /\ \A k \in 0 .. n : FirstRecords(q, k) \in Seq(FilledCaravans)
      /\ \A k \in 1 .. n : Append(FirstRecords(q, k - 1), q[k]) = FirstRecords(q, k)
  BY FirstRecordsGrow
<1>4. ASSUME NEW g \in Seq(FilledCaravans)
      PROVE  with(g) \in WorldRecords /\ with(g).fleet = g
  BY DEF WorldRecords
<1>5. ASSUME NEW g \in Seq(FilledCaravans), NEW h \in Seq(FilledCaravans)
      PROVE  [with(g) EXCEPT !.fleet = h] = with(h)
  BY DEF WorldRecords
<1>6. with(<< >>) = v /\ with(q) = [v EXCEPT !.fleet = w.fleet]
  BY <1>1 DEF WorldRecords
<1> HIDE DEF with
<1>7. ASSUME NEW k \in 1 .. n
      PROVE  part(k) \in Seq(RowSet) /\ ReadOn(Good(st[k - 1]), part(k)) = Good(st[k])
  <2>1. PICK g \in Seq(FilledCaravans) : g = FirstRecords(q, k - 1)
    BY <1>2, <1>3
  <2>2. PICK h \in Seq(FilledCaravans) : h = FirstRecords(q, k)
    BY <1>2, <1>3
  <2>3. Append(g, q[k]) = h /\ q[k] \in FilledCaravans
    BY <1>2, <1>3, <2>1, <2>2
  <2>4. UniqueIds(h)
    BY <1>1, <1>2, <2>2, FirstAreUnique
  <2>5. PICK x \in WorldRecords : x = with(g) /\ x.fleet = g
    BY <1>4
  <2>6. /\ part(k) \in Seq(RowSet)
        /\ ReadOn(Good(x), part(k)) = Good([x EXCEPT !.fleet = Append(x.fleet, q[k])])
    BY <2>3, <2>4, <2>5, ReadCaravan
  <2>7. [x EXCEPT !.fleet = Append(x.fleet, q[k])] = with(h)
    BY <1>5, <2>3, <2>5
  <2>8. st[k - 1] = x /\ st[k] = with(h)
    BY <1>2, <2>1, <2>2, <2>5
  <2> HIDE DEF st
  <2>9. QED
    BY <2>6, <2>7, <2>8
<1> DEFINE R == RowSet
<1> HIDE DEF R
<1>8. parts \in Seq(Seq(R)) /\ Len(parts) = n
  <2>1. DOMAIN parts = DOMAIN q /\ parts = [k \in DOMAIN parts |-> parts[k]]
    OBVIOUS
  <2>2. \A k \in DOMAIN q : parts[k] \in Seq(R)
    BY <1>2, <1>7 DEF R
  <2> HIDE DEF parts
  <2>3. QED
    BY <2>1, <2>2, EachType
<1>9. \A k \in 1 .. Len(parts) : ReadOn(Good(st[k - 1]), parts[k]) = Good(st[k])
  BY <1>2, <1>7, <1>8
<1>10. st \in [0 .. Len(parts) -> WorldRecords]
  BY <1>2, <1>3, <1>4, <1>8
<1>11. FleetRows(w) = FlattenSeq(parts)
  BY <1>1 DEF FleetRows
<1>12. st[0] = with(<< >>) /\ st[n] = with(q)
  BY <1>2, <1>3
<1>13. with(q) \in WorldRecords
  BY <1>4
<1> HIDE DEF parts, st, n
<1>14. ReadOn(Good(st[0]), FlattenSeq(parts)) = Good(st[Len(parts)])
  BY <1>8, <1>9, <1>10, ReadParts DEF R
<1>15. QED
  BY <1>6, <1>8, <1>11, <1>12, <1>13, <1>14

(* Rows that each append a record, and rows that each add an element.      *)
Joins(with, R, q, rows) ==
  \A g \in Seq(R), k \in 1 .. Len(q) :
    /\ Ordinary(rows[k]) /\ Fits(with[g], rows[k])
    /\ with[Append(g, q[k])] = WithRow(with[g], rows[k])

LEMMA ReadRecords ==
  ASSUME NEW R, NEW q \in Seq(R), NEW rows \in Seq(RowSet), Len(rows) = Len(q),
         NEW with \in [Seq(R) -> WorldRecords], Joins(with, R, q, rows)
  PROVE  ReadOn(Good(with[<< >>]), rows) = Good(with[q])
<1>1. PICK n \in Nat : n = Len(q)
  OBVIOUS
<1> DEFINE st == [k \in 0 .. n |-> with[FirstRecords(q, k)]]
<1>2. /\ FirstRecords(q, 0) = << >> /\ FirstRecords(q, n) = q
      /\ \A k \in 0 .. n : FirstRecords(q, k) \in Seq(R)
      /\ \A k \in 1 .. n : Append(FirstRecords(q, k - 1), q[k]) = FirstRecords(q, k)
  BY <1>1, FirstRecordsGrow
<1>3. 0 \in 0 .. n /\ n \in 0 .. n /\ \A k \in 1 .. n : k \in 0 .. n /\ k - 1 \in 0 .. n
  BY <1>1
<1>4. st \in [0 .. n -> WorldRecords] /\ st[0] = with[<< >>] /\ st[n] = with[q]
  BY <1>2, <1>3
<1>5. ASSUME NEW k \in 1 .. n
      PROVE  Ordinary(rows[k]) /\ Fits(st[k - 1], rows[k]) /\ st[k] = WithRow(st[k - 1], rows[k])
  <2>1. PICK g \in Seq(R) : g = FirstRecords(q, k - 1)
    BY <1>2, <1>3
  <2>2. st[k - 1] = with[g] /\ st[k] = with[Append(g, q[k])]
    BY <1>2, <1>3, <2>1
  <2> HIDE DEF st
  <2>3. QED
    BY <1>1, <2>2 DEF Joins
<1> HIDE DEF st
<1>6. Builds(st, rows)
  BY <1>1, <1>4, <1>5 DEF Builds
<1>7. QED
  BY <1>1, <1>4, <1>6, ReadRows

Adds(with, S, q, rows) ==
  \A G \in SUBSET S, k \in 1 .. Len(q) :
    /\ Ordinary(rows[k]) /\ Fits(with[G], rows[k])
    /\ with[G \cup {q[k]}] = WithRow(with[G], rows[k])

LEMMA ReadElements ==
  ASSUME NEW S, IsFiniteSet(S), NEW q, q = SetToSeq(S), NEW rows \in Seq(RowSet), Len(rows) = Len(q),
         NEW with \in [SUBSET S -> WorldRecords], Adds(with, S, q, rows)
  PROVE  ReadOn(Good(with[{}]), rows) = Good(with[S])
<1>1. PICK n \in Nat : n = Len(q)
  BY FirstOfGrows
<1> DEFINE st == [k \in 0 .. n |-> with[FirstOf(q, k)]]
<1>2. /\ FirstOf(q, 0) = {} /\ FirstOf(q, n) = S
      /\ \A k \in 0 .. n : FirstOf(q, k) \subseteq S
      /\ \A k \in 1 .. n : FirstOf(q, k) = FirstOf(q, k - 1) \cup {q[k]}
  BY <1>1, FirstOfGrows
<1>3. 0 \in 0 .. n /\ n \in 0 .. n /\ \A k \in 1 .. n : k \in 0 .. n /\ k - 1 \in 0 .. n
  BY <1>1
<1>4. st \in [0 .. n -> WorldRecords] /\ st[0] = with[{}] /\ st[n] = with[S]
  BY <1>2, <1>3
<1>5. ASSUME NEW k \in 1 .. n
      PROVE  Ordinary(rows[k]) /\ Fits(st[k - 1], rows[k]) /\ st[k] = WithRow(st[k - 1], rows[k])
  <2>1. PICK G \in SUBSET S : G = FirstOf(q, k - 1)
    BY <1>2, <1>3
  <2>2. st[k - 1] = with[G] /\ st[k] = with[G \cup {q[k]}]
    BY <1>2, <1>3, <2>1
  <2> HIDE DEF st
  <2>3. QED
    BY <1>1, <2>2 DEF Adds
<1> HIDE DEF st
<1>6. Builds(st, rows)
  BY <1>1, <1>4, <1>5 DEF Builds
<1>7. QED
  BY <1>1, <1>4, <1>6, ReadRows

LEMMA ReadRoads ==
  ASSUME NEW v \in WorldRecords, NEW w \in WorldRecords, v.routes = << >>
  PROVE  LET u == [v EXCEPT !.routes = w.routes]
         IN  /\ u \in WorldRecords
             /\ ReadOn(Good(v), [k \in DOMAIN w.routes |-> RouteRow(w.routes[k])]) = Good(u)
<1>1. PICK q \in Seq(FilledRoutes) : q = w.routes
  BY DEF WorldRecords
<1> DEFINE rows == [k \in DOMAIN w.routes |-> RouteRow(w.routes[k])]
           with == [g \in Seq(FilledRoutes) |-> [v EXCEPT !.routes = g]]
<1>2. with \in [Seq(FilledRoutes) -> WorldRecords]
      /\ \A g \in Seq(FilledRoutes) : with[g] = [v EXCEPT !.routes = g] /\ with[g].routes = g
  BY DEF WorldRecords
<1>3. ASSUME NEW k \in 1 .. Len(q) PROVE rows[k] = [kind |-> "route", record |-> q[k]]
  BY <1>1, RouteRowSame
<1>4. rows \in Seq(RowSet) /\ Len(rows) = Len(q)
  <2>1. rows \in Seq(BodyRows)
    BY RoadRowsType
  <2>2. BodyRows \subseteq RowSet
    BY DEF RowSet
  <2>3. Len(rows) = Len(q)
    BY <1>1
  <2>4. QED
    BY <2>1, <2>2, <2>3, SeqMonotonic
<1> HIDE DEF rows, with
<1>5. ASSUME NEW g \in Seq(FilledRoutes), NEW k \in 1 .. Len(q)
      PROVE  /\ Ordinary(rows[k]) /\ Fits(with[g], rows[k])
             /\ with[Append(g, q[k])] = WithRow(with[g], rows[k])
  <2>1. PICK r \in FilledRoutes : r = q[k]
    OBVIOUS
  <2>2. PICK row : row = rows[k]
    OBVIOUS
  <2>11. row = [kind |-> "route", record |-> r]
    BY <1>3, <2>1, <2>2
  <2>3. row.kind = "route" /\ row.record = r
    BY <2>11
  <2>4. RouteFrom(r) = r
    BY FilledRecords, RouteFromSame
  <2>5. PICK x \in WorldRecords : x = with[g] /\ x.routes = g /\ x = [v EXCEPT !.routes = g]
    BY <1>2
  <2>6. WithRow(x, row) = [x EXCEPT !.routes = Append(g, r)]
    BY <2>3, <2>4, <2>5 DEF WithRow
  <2>7. [x EXCEPT !.routes = Append(g, r)] = [v EXCEPT !.routes = Append(g, r)]
    BY <2>5 DEF WorldRecords
  <2>12. PICK h \in Seq(FilledRoutes) : h = Append(g, r)
    BY AppendProperties
  <2>8. with[Append(g, r)] = [v EXCEPT !.routes = Append(g, r)]
    BY <1>2, <2>12
  <2>9. Ordinary(row) /\ Fits(x, row)
    BY <2>3 DEF Ordinary, Header, Fits
  <2>10. QED
    BY <2>1, <2>2, <2>5, <2>6, <2>7, <2>8, <2>9
<1>6. Joins(with, FilledRoutes, q, rows)
  BY <1>5 DEF Joins
<1>7. ReadOn(Good(with[<< >>]), rows) = Good(with[q])
  <2>1. with \in [Seq(FilledRoutes) -> WorldRecords] /\ rows \in Seq(RowSet) /\ Len(rows) = Len(q)
    BY <1>2, <1>4
  <2>2. QED
    BY <1>6, <2>1, ReadRecords
<1>8. with[<< >>] = v
  BY <1>2 DEF WorldRecords
<1>9. PICK u \in WorldRecords : u = with[q]
  BY <1>2
<1>10. u = [v EXCEPT !.routes = w.routes]
  BY <1>1, <1>2, <1>9
<1>11. ReadOn(Good(v), [k \in DOMAIN w.routes |-> RouteRow(w.routes[k])]) = Good(u)
  BY <1>7, <1>8, <1>9 DEF rows
<1>12. QED
  BY <1>10, <1>11

LEMMA ReadOffers ==
  ASSUME NEW v \in WorldRecords, NEW w \in WorldRecords, v.catalog = << >>
  PROVE  LET u == [v EXCEPT !.catalog = w.catalog]
         IN  /\ u \in WorldRecords
             /\ ReadOn(Good(v), ContractRows(w)) = Good(u)
<1>1. PICK q \in Seq(FilledContracts) : q = w.catalog
  BY DEF WorldRecords
<1> DEFINE rows == ContractRows(w)
           with == [g \in Seq(FilledContracts) |-> [v EXCEPT !.catalog = g]]
<1>2. with \in [Seq(FilledContracts) -> WorldRecords]
      /\ \A g \in Seq(FilledContracts) : with[g] = [v EXCEPT !.catalog = g] /\ with[g].catalog = g
  BY DEF WorldRecords
<1>3. rows = RowsOf("contract", q)
  BY <1>1, BookedSame DEF ContractRows, Booked
<1> HIDE DEF rows, with
<1>4. rows \in Seq(RowSet) /\ Len(rows) = Len(q)
      /\ \A k \in 1 .. Len(q) : rows[k] = [kind |-> "contract", record |-> q[k]]
  <2>1. rows \in Seq(OfferRows) /\ Len(rows) = Len(q)
        /\ \A k \in 1 .. Len(q) : rows[k] = [kind |-> "contract", record |-> q[k]]
    BY <1>3, RowsOfType DEF OfferRows
  <2>2. OfferRows \subseteq RowSet
    BY DEF RowSet
  <2>3. QED
    BY <2>1, <2>2, SeqMonotonic
<1>5. ASSUME NEW g \in Seq(FilledContracts), NEW k \in 1 .. Len(q)
      PROVE  /\ Ordinary(rows[k]) /\ Fits(with[g], rows[k])
             /\ with[Append(g, q[k])] = WithRow(with[g], rows[k])
  <2>1. PICK r \in FilledContracts : r = q[k]
    OBVIOUS
  <2>2. PICK row : row = rows[k]
    OBVIOUS
  <2>11. row = [kind |-> "contract", record |-> r]
    BY <1>4, <2>1, <2>2
  <2>3. row.kind = "contract" /\ row.record = r
    BY <2>11
  <2>4. ContractFrom(r) = r
    BY FilledRecords, ContractFromSame
  <2>5. PICK x \in WorldRecords : x = with[g] /\ x.catalog = g /\ x = [v EXCEPT !.catalog = g]
    BY <1>2
  <2>6. WithRow(x, row) = [x EXCEPT !.catalog = Append(g, r)]
    BY <2>3, <2>4, <2>5 DEF WithRow
  <2>7. [x EXCEPT !.catalog = Append(g, r)] = [v EXCEPT !.catalog = Append(g, r)]
    BY <2>5 DEF WorldRecords
  <2>12. PICK h \in Seq(FilledContracts) : h = Append(g, r)
    BY AppendProperties
  <2>8. with[Append(g, r)] = [v EXCEPT !.catalog = Append(g, r)]
    BY <1>2, <2>12
  <2>9. Ordinary(row) /\ Fits(x, row)
    BY <2>3 DEF Ordinary, Header, Fits
  <2>10. QED
    BY <2>1, <2>2, <2>5, <2>6, <2>7, <2>8, <2>9
<1>6. Joins(with, FilledContracts, q, rows)
  BY <1>5 DEF Joins
<1>7. ReadOn(Good(with[<< >>]), rows) = Good(with[q])
  <2>1. with \in [Seq(FilledContracts) -> WorldRecords] /\ rows \in Seq(RowSet) /\ Len(rows) = Len(q)
    BY <1>2, <1>4
  <2>2. QED
    BY <1>6, <2>1, ReadRecords
<1>8. with[<< >>] = v
  BY <1>2 DEF WorldRecords
<1>9. PICK u \in WorldRecords : u = with[q]
  BY <1>2
<1>10. u = [v EXCEPT !.catalog = w.catalog]
  BY <1>1, <1>2, <1>9
<1>11. ReadOn(Good(v), ContractRows(w)) = Good(u)
  BY <1>7, <1>8, <1>9 DEF rows
<1>12. QED
  BY <1>10, <1>11

LEMMA ReadEntries ==
  ASSUME NEW v \in WorldRecords, NEW w \in WorldRecords, v.entries = << >>
  PROVE  LET u == [v EXCEPT !.entries = w.entries]
         IN  /\ u \in WorldRecords
             /\ ReadOn(Good(v), LedgerRows(w)) = Good(u)
<1>1. PICK q \in Seq(Entries) : q = w.entries
  BY DEF WorldRecords
<1> DEFINE rows == LedgerRows(w)
           with == [g \in Seq(Entries) |-> [v EXCEPT !.entries = g]]
<1>2. with \in [Seq(Entries) -> WorldRecords]
      /\ \A g \in Seq(Entries) : with[g] = [v EXCEPT !.entries = g] /\ with[g].entries = g
  BY DEF WorldRecords
<1>3. rows = RowsOf("ledger", q)
  BY <1>1 DEF LedgerRows
<1> HIDE DEF rows, with
<1>4. rows \in Seq(RowSet) /\ Len(rows) = Len(q)
      /\ \A k \in 1 .. Len(q) : rows[k] = [kind |-> "ledger", record |-> q[k]]
  <2>1. rows \in Seq(EntryRows) /\ Len(rows) = Len(q)
        /\ \A k \in 1 .. Len(q) : rows[k] = [kind |-> "ledger", record |-> q[k]]
    BY <1>3, RowsOfType DEF EntryRows
  <2>2. EntryRows \subseteq RowSet
    BY DEF RowSet
  <2>3. QED
    BY <2>1, <2>2, SeqMonotonic
<1>5. ASSUME NEW g \in Seq(Entries), NEW k \in 1 .. Len(q)
      PROVE  /\ Ordinary(rows[k]) /\ Fits(with[g], rows[k])
             /\ with[Append(g, q[k])] = WithRow(with[g], rows[k])
  <2>1. PICK r \in Entries : r = q[k]
    OBVIOUS
  <2>2. PICK row : row = rows[k]
    OBVIOUS
  <2>11. row = [kind |-> "ledger", record |-> r]
    BY <1>4, <2>1, <2>2
  <2>3. row.kind = "ledger" /\ row.record = r
    BY <2>11
  <2>5. PICK x \in WorldRecords : x = with[g] /\ x.entries = g /\ x = [v EXCEPT !.entries = g]
    BY <1>2
  <2>6. WithRow(x, row) = [x EXCEPT !.entries = Append(g, r)]
    BY <2>3, <2>5 DEF WithRow
  <2>7. [x EXCEPT !.entries = Append(g, r)] = [v EXCEPT !.entries = Append(g, r)]
    BY <2>5 DEF WorldRecords
  <2>12. PICK h \in Seq(Entries) : h = Append(g, r)
    BY AppendProperties
  <2>8. with[Append(g, r)] = [v EXCEPT !.entries = Append(g, r)]
    BY <1>2, <2>12
  <2>9. Ordinary(row) /\ Fits(x, row)
    BY <2>3 DEF Ordinary, Header, Fits
  <2>10. QED
    BY <2>1, <2>2, <2>5, <2>6, <2>7, <2>8, <2>9
<1>6. Joins(with, Entries, q, rows)
  BY <1>5 DEF Joins
<1>7. ReadOn(Good(with[<< >>]), rows) = Good(with[q])
  <2>1. with \in [Seq(Entries) -> WorldRecords] /\ rows \in Seq(RowSet) /\ Len(rows) = Len(q)
    BY <1>2, <1>4
  <2>2. QED
    BY <1>6, <2>1, ReadRecords
<1>8. with[<< >>] = v
  BY <1>2 DEF WorldRecords
<1>9. with[q] = [v EXCEPT !.entries = w.entries] /\ with[q] \in WorldRecords
  BY <1>1, <1>2
<1>10. QED
  BY <1>7, <1>8, <1>9 DEF rows

LEMMA ReadFactions ==
  ASSUME NEW v \in WorldRecords, NEW w \in WorldRecords, v.factions = {}
  PROVE  LET u == [v EXCEPT !.factions = w.factions]
         IN  /\ u \in WorldRecords
             /\ ReadOn(Good(v), RowsOf("faction", SetToSeq(w.factions))) = Good(u)
<1>1. PICK S \in SUBSET Faction : S = w.factions
  BY DEF WorldRecords
<1>2. IsFiniteSet(S)
  BY PersistAssumption, FS_Subset
<1>3. PICK q : q = SetToSeq(S)
  OBVIOUS
<1>4. q \in Seq(S)
  BY <1>2, <1>3, FirstOfGrows
<1> DEFINE rows == RowsOf("faction", q)
           with == [G \in SUBSET S |-> [v EXCEPT !.factions = G]]
<1>5. with \in [SUBSET S -> WorldRecords]
  BY DEF WorldRecords
<1>6. \A G \in SUBSET S : with[G] = [v EXCEPT !.factions = G] /\ with[G].factions = G
  BY DEF WorldRecords
<1> HIDE DEF rows, with
<1>7. rows \in Seq(RowSet) /\ Len(rows) = Len(q)
      /\ \A k \in 1 .. Len(q) : rows[k] = [kind |-> "faction", record |-> q[k]] /\ q[k] \in S
  <2>1. rows \in Seq(BodyRows)
    BY <1>1, <1>3, FactionRowsType DEF rows
  <2>2. Len(rows) = Len(q)
        /\ \A k \in 1 .. Len(q) : rows[k] = [kind |-> "faction", record |-> q[k]]
    BY <1>4 DEF rows, RowsOf
  <2>3. BodyRows \subseteq RowSet
    BY DEF RowSet
  <2>4. QED
    BY <1>4, <2>1, <2>2, <2>3, SeqMonotonic
<1>8. ASSUME NEW G \in SUBSET S, NEW k \in 1 .. Len(q)
      PROVE  /\ Ordinary(rows[k]) /\ Fits(with[G], rows[k])
             /\ with[G \cup {q[k]}] = WithRow(with[G], rows[k])
  <2>1. PICK r \in S : r = q[k]
    BY <1>7
  <2>2. PICK row : row = rows[k]
    OBVIOUS
  <2>3. row = [kind |-> "faction", record |-> r]
    BY <1>7, <2>1, <2>2
  <2>4. row.kind = "faction" /\ row.record = r
    BY <2>3
  <2>5. PICK x \in WorldRecords : x = with[G] /\ x.factions = G /\ x = [v EXCEPT !.factions = G]
    BY <1>5, <1>6
  <2>6. WithRow(x, row) = [x EXCEPT !.factions = G \cup {r}]
    BY <2>4, <2>5 DEF WithRow
  <2>7. [x EXCEPT !.factions = G \cup {r}] = [v EXCEPT !.factions = G \cup {r}]
    BY <2>5 DEF WorldRecords
  <2>8. PICK H \in SUBSET S : H = G \cup {r}
    OBVIOUS
  <2>9. with[G \cup {r}] = [v EXCEPT !.factions = G \cup {r}]
    BY <1>6, <2>8
  <2>10. Ordinary(row) /\ Fits(x, row)
    BY <2>4 DEF Ordinary, Header, Fits
  <2>11. QED
    BY <2>1, <2>2, <2>5, <2>6, <2>7, <2>9, <2>10
<1>9. Adds(with, S, q, rows)
  BY <1>8 DEF Adds
<1>10. ReadOn(Good(with[{}]), rows) = Good(with[S])
  <2>1. rows \in Seq(RowSet) /\ Len(rows) = Len(q)
    BY <1>7
  <2>2. QED
    BY <1>2, <1>3, <1>5, <1>9, <2>1, ReadElements
<1>11. with[{}] = v
  <2>1. [v EXCEPT !.factions = {}] = v
    BY DEF WorldRecords
  <2>2. with[{}] = [v EXCEPT !.factions = {}]
    BY <1>6
  <2>3. QED
    BY <2>1, <2>2
<1>12. with[S] = [v EXCEPT !.factions = w.factions] /\ with[S] \in WorldRecords
  BY <1>1, <1>5, <1>6
<1>13. QED
  BY <1>1, <1>3, <1>10, <1>11, <1>12 DEF rows

LEMMA ReadOwners ==
  ASSUME NEW v \in WorldRecords, NEW w \in WorldRecords, v.owner = [c \in CaravanId |-> NoFaction]
  PROVE  LET u == [v EXCEPT !.owner = w.owner]
         IN  /\ u \in WorldRecords
             /\ ReadOn(Good(v), OwnerRows(w)) = Good(u)
<1> DEFINE O == {c \in CaravanId : w.owner[c] # NoFaction}
<1>1. w.owner \in [CaravanId -> Faction \cup {NoFaction}]
  BY DEF WorldRecords
<1>20. O \in SUBSET CaravanId /\ \A c \in CaravanId : c \in O <=> w.owner[c] # NoFaction
  OBVIOUS
<1>2. PICK S \in SUBSET CaravanId : S = O /\ \A c \in CaravanId : c \in S <=> w.owner[c] # NoFaction
  <2> HIDE DEF O
  <2>1. QED
    BY <1>20
<1>3. PICK q : q = SetToSeq(S)
  OBVIOUS
<1>4. q \in Seq(S) /\ IsFiniteSet(S)
  <2>1. IsFiniteSet(S)
    BY PersistAssumption, FS_Subset
  <2>2. QED
    BY <1>3, <2>1, FirstOfGrows
<1> DEFINE of(G) == [c \in CaravanId |-> IF c \in G THEN w.owner[c] ELSE NoFaction]
           rows == [k \in DOMAIN q |-> [kind |-> "caravan_owner", id |-> q[k], faction |-> w.owner[q[k]]]]
           with == [G \in SUBSET S |-> [v EXCEPT !.owner = of(G)]]
<1>5. rows = OwnerRows(w)
  BY <1>2, <1>3 DEF OwnerRows
<1> HIDE DEF O
<1>6. \A G \in SUBSET S : of(G) \in [CaravanId -> Faction \cup {NoFaction}]
  BY <1>1
<1>7. of({}) = v.owner /\ of(S) = w.owner
  BY <1>1, <1>2
<1>8. ASSUME NEW G \in SUBSET S, NEW c \in S
      PROVE  [of(G) EXCEPT ![c] = w.owner[c]] = of(G \cup {c})
  OBVIOUS
<1> HIDE DEF of
<1>9. with \in [SUBSET S -> WorldRecords]
  BY <1>6 DEF WorldRecords
<1>10. \A G \in SUBSET S : with[G] = [v EXCEPT !.owner = of(G)] /\ with[G].owner = of(G)
  BY DEF WorldRecords
<1>11. rows \in Seq(RowSet)
  <2>1. rows \in Seq(BodyRows)
    BY <1>5, OwnerRowsType
  <2>2. BodyRows \subseteq RowSet
    BY DEF RowSet
  <2>3. QED
    BY <2>1, <2>2, SeqMonotonic
<1>12. Len(rows) = Len(q) /\ \A k \in 1 .. Len(q) :
         rows[k] = [kind |-> "caravan_owner", id |-> q[k], faction |-> w.owner[q[k]]] /\ q[k] \in S
  BY <1>4
<1> HIDE DEF rows, with
<1>13. ASSUME NEW G \in SUBSET S, NEW k \in 1 .. Len(q)
       PROVE  /\ Ordinary(rows[k]) /\ Fits(with[G], rows[k])
              /\ with[G \cup {q[k]}] = WithRow(with[G], rows[k])
  <2>1. PICK c \in S : c = q[k]
    BY <1>12
  <2>2. PICK row : row = rows[k]
    OBVIOUS
  <2>3. row = [kind |-> "caravan_owner", id |-> c, faction |-> w.owner[c]]
    BY <1>12, <2>1, <2>2
  <2>4. row.kind = "caravan_owner" /\ row.id = c /\ row.faction = w.owner[c]
    BY <2>3
  <2>5. PICK x \in WorldRecords : x = with[G] /\ x.owner = of(G) /\ x = [v EXCEPT !.owner = of(G)]
    BY <1>9, <1>10
  <2>12. [x.owner EXCEPT ![c] = w.owner[c]] = of(G \cup {c})
    BY <1>8, <2>5
  <2>13. WithRow(x, row) = [x EXCEPT !.owner = [x.owner EXCEPT ![c] = w.owner[c]]]
    BY <2>4 DEF WithRow
  <2>6. WithRow(x, row) = [x EXCEPT !.owner = of(G \cup {c})]
    BY <2>12, <2>13
  <2>7. [x EXCEPT !.owner = of(G \cup {c})] = [v EXCEPT !.owner = of(G \cup {c})]
    BY <2>5 DEF WorldRecords
  <2>8. PICK H \in SUBSET S : H = G \cup {c}
    OBVIOUS
  <2>9. with[G \cup {c}] = [v EXCEPT !.owner = of(G \cup {c})]
    BY <1>10, <2>8
  <2>10. Ordinary(row) /\ Fits(x, row)
    BY <2>4 DEF Ordinary, Header, Fits
  <2>11. QED
    BY <2>1, <2>2, <2>5, <2>6, <2>7, <2>9, <2>10
<1>14. Adds(with, S, q, rows)
  BY <1>13 DEF Adds
<1>15. ReadOn(Good(with[{}]), rows) = Good(with[S])
  <2>1. rows \in Seq(RowSet) /\ Len(rows) = Len(q)
    BY <1>11, <1>12
  <2>2. QED
    BY <1>3, <1>4, <1>9, <1>14, <2>1, ReadElements
<1>16. with[{}] = v
  <2>1. PICK G \in SUBSET S : G = {}
    OBVIOUS
  <2>2. with[G] = [v EXCEPT !.owner = of(G)]
    BY <1>10
  <2>3. of(G) = v.owner
    BY <1>7, <2>1
  <2>4. [v EXCEPT !.owner = v.owner] = v
    BY DEF WorldRecords
  <2>5. QED
    BY <2>1, <2>2, <2>3, <2>4
<1>17. with[S] = [v EXCEPT !.owner = w.owner] /\ with[S] \in WorldRecords
  BY <1>7, <1>9, <1>10
<1>18. QED
  BY <1>5, <1>15, <1>16, <1>17

LEMMA OtherHeader ==
  ASSUME NEW v, NEW b, NEW c, NEW d
  PROVE  [[ok |-> b, header |-> c, world |-> v] EXCEPT !.header = d]
           = [ok |-> b, header |-> d, world |-> v]
OBVIOUS

LEMMA FourInARow ==
  ASSUME NEW S, NEW a \in S, NEW b \in S, NEW c \in S, NEW d \in S
  PROVE  /\ <<a, b, c, d>> \in Seq(S) /\ Len(<<a, b, c, d>>) = 4
         /\ <<a, b, c, d>>[1] = a /\ <<a, b, c, d>>[2] = b
         /\ <<a, b, c, d>>[3] = c /\ <<a, b, c, d>>[4] = d
OBVIOUS

(* The four rows a file begins with.                                       *)
LEMMA ReadNumber ==
  ASSUME NEW v \in WorldRecords, NEW kind \in {"day", "time", "wallet"}, NEW n \in U64
  PROVE  LET row == [kind |-> kind, n |-> n]
         IN  /\ row \in RowSet /\ WithRow(v, row) \in WorldRecords
             /\ AfterRow(Good(v), row) = Good(WithRow(v, row))
<1>1. PICK row : row = [kind |-> kind, n |-> n]
  OBVIOUS
<1>2. row \in RowSet /\ row.kind = kind
  BY <1>1 DEF RowSet, BodyRows, NumberRows
<1>3. Ordinary(row) /\ Fits(v, row)
  BY <1>2 DEF Ordinary, Header, Fits
<1>4. QED
  BY <1>1, <1>2, <1>3, GoodRow

LEMMA ReadHead ==
  ASSUME NEW w \in WorldRecords
  PROVE  LET u == [NewWorld EXCEPT !.day = w.day, !.tick = w.tick, !.wallet = w.wallet]
         IN  /\ u \in WorldRecords
             /\ ReadOn([ok |-> TRUE, header |-> FALSE, world |-> NewWorld],
                       <<[kind |-> Header], [kind |-> "day", n |-> w.day],
                         [kind |-> "time", n |-> w.tick], [kind |-> "wallet", n |-> w.wallet]>>)
                  = Good(u)
<1>1. PICK s : s = [ok |-> TRUE, header |-> FALSE, world |-> NewWorld]
  OBVIOUS
<1>2. s \in ReaderStates
  BY <1>1, NewWorldType DEF ReaderStates
<1>3. PICK a, b, c \in U64 : a = w.day /\ b = w.tick /\ c = w.wallet
  BY DEF WorldRecords
<1>4. PICK r0 \in RowSet : r0 = [kind |-> Header]
  BY DEF RowSet, BodyRows, HeaderRows
<1>5. AfterRow(s, r0) = Good(NewWorld)
  <2>1. AfterRow(s, r0) = [s EXCEPT !.header = TRUE]
    BY <1>4 DEF AfterRow
  <2>2. [s EXCEPT !.header = TRUE] = [ok |-> TRUE, header |-> TRUE, world |-> NewWorld]
    <3>1. PICK yes, no : yes = TRUE /\ no = FALSE
      BY Zenon
    <3>2. PICK v : v = NewWorld
      BY Zenon
    <3>3. [[ok |-> yes, header |-> no, world |-> v] EXCEPT !.header = yes]
            = [ok |-> yes, header |-> yes, world |-> v]
      BY OtherHeader
    <3>4. QED
      BY <1>1, <3>1, <3>2, <3>3, Zenon
  <2>3. QED
    BY <2>1, <2>2 DEF Good
<1>6. PICK r1 \in RowSet : r1 = [kind |-> "day", n |-> a]
  BY NewWorldType, ReadNumber
<1>7. PICK v1 \in WorldRecords : v1 = WithRow(NewWorld, r1) /\ AfterRow(Good(NewWorld), r1) = Good(v1)
  BY <1>6, NewWorldType, ReadNumber
<1>8. PICK r2 \in RowSet : r2 = [kind |-> "time", n |-> b]
  BY NewWorldType, ReadNumber
<1>9. PICK v2 \in WorldRecords : v2 = WithRow(v1, r2) /\ AfterRow(Good(v1), r2) = Good(v2)
  BY <1>8, ReadNumber
<1>10. PICK r3 \in RowSet : r3 = [kind |-> "wallet", n |-> c]
  BY NewWorldType, ReadNumber
<1>11. PICK v3 \in WorldRecords : v3 = WithRow(v2, r3) /\ AfterRow(Good(v2), r3) = Good(v3)
  BY <1>10, ReadNumber
<1>12. v3 = [NewWorld EXCEPT !.day = a, !.tick = b, !.wallet = c]
  <2>1. v1 = [NewWorld EXCEPT !.day = a]
    BY <1>6, <1>7 DEF WithRow
  <2>2. v2 = [v1 EXCEPT !.tick = b]
    BY <1>8, <1>9 DEF WithRow
  <2>3. v3 = [v2 EXCEPT !.wallet = c]
    BY <1>10, <1>11 DEF WithRow
  <2>4. QED
    BY <2>1, <2>2, <2>3, NewWorldType DEF WorldRecords
<1>13. PICK rows \in Seq(RowSet) :
         /\ rows = <<r0, r1, r2, r3>> /\ Len(rows) = 4
         /\ rows[1] = r0 /\ rows[2] = r1 /\ rows[3] = r2 /\ rows[4] = r3
  <2>1. PICK rows : rows = <<r0, r1, r2, r3>>
    OBVIOUS
  <2>2. rows \in Seq(RowSet) /\ Len(rows) = 4
        /\ rows[1] = r0 /\ rows[2] = r1 /\ rows[3] = r2 /\ rows[4] = r3
    BY <2>1, FourInARow
  <2>3. QED
    BY <2>1, <2>2
<1>14. PICK f : IsReading(f, s, rows) /\ ReadOn(s, rows) = f[4]
  BY <1>2, <1>13, ReadingExists
<1>15. /\ f[0] = s /\ f[1] = AfterRow(f[0], r0) /\ f[2] = AfterRow(f[1], r1)
       /\ f[3] = AfterRow(f[2], r2) /\ f[4] = AfterRow(f[3], r3)
  <2>1. /\ 1 \in 1 .. 4 /\ 2 \in 1 .. 4 /\ 3 \in 1 .. 4 /\ 4 \in 1 .. 4
        /\ 1 - 1 = 0 /\ 2 - 1 = 1 /\ 3 - 1 = 2 /\ 4 - 1 = 3
    OBVIOUS
  <2>2. f[0] = s /\ \A k \in 1 .. 4 : f[k] = AfterRow(f[k - 1], rows[k])
    BY <1>13, <1>14 DEF IsReading, Follows
  <2>3. QED
    BY <1>13, <2>1, <2>2
<1>16. ReadOn(s, <<r0, r1, r2, r3>>) = Good(v3)
  BY <1>5, <1>7, <1>9, <1>11, <1>13, <1>14, <1>15
<1>17. QED
  BY <1>1, <1>3, <1>4, <1>6, <1>8, <1>10, <1>12, <1>16

LEMMA NextRows ==
  ASSUME NEW s \in ReaderStates, NEW a \in Seq(RowSet), NEW b \in Seq(RowSet), NEW v, NEW u,
         ReadOn(s, a) = Good(v), ReadOn(Good(v), b) = Good(u)
  PROVE  a \o b \in Seq(RowSet) /\ ReadOn(s, a \o b) = Good(u)
BY ReadOnward, ConcatProperties

(* A whole file, from its header to the ledger, is read as the world it is of. *)
LEMMA RoundTrip ==
  ASSUME NEW w \in WorldRecords, UniqueIds(w.fleet),
         \A s \in SettlementId : s \notin w.settlements => w.stores[s] = EmptyStorage
  PROVE  Parsed(Rows(w)) = Good(w)
<1> DEFINE head == <<[kind |-> Header], [kind |-> "day", n |-> w.day],
                     [kind |-> "time", n |-> w.tick], [kind |-> "wallet", n |-> w.wallet]>>
           roads == [k \in DOMAIN w.routes |-> RouteRow(w.routes[k])]
           owners == RowsOf("faction", SetToSeq(w.factions))
<1>1. PICK s : s = [ok |-> TRUE, header |-> FALSE, world |-> NewWorld]
  OBVIOUS
<1>2. s \in ReaderStates
  BY <1>1, NewWorldType DEF ReaderStates
<1>3. PICK v0 \in WorldRecords :
        /\ v0 = [NewWorld EXCEPT !.day = w.day, !.tick = w.tick, !.wallet = w.wallet]
        /\ ReadOn(s, head) = Good(v0)
  BY <1>1, ReadHead
<1>4. /\ v0.settlements = {} /\ v0.stores = [p \in SettlementId |-> EmptyStorage]
      /\ v0.routes = << >> /\ v0.fleet = << >> /\ v0.factions = {}
      /\ v0.owner = [c \in CaravanId |-> NoFaction] /\ v0.catalog = << >> /\ v0.entries = << >>
      /\ v0.day = w.day /\ v0.tick = w.tick /\ v0.wallet = w.wallet
  BY <1>3 DEF NewWorld
<1>5. PICK v1 \in WorldRecords :
        /\ v1 = [v0 EXCEPT !.settlements = w.settlements, !.stores = w.stores]
        /\ ReadOn(Good(v0), SettlementRows(w)) = Good(v1)
  BY <1>4, ReadPlaces
<1>6. /\ v1.settlements = w.settlements /\ v1.stores = w.stores
      /\ v1.routes = << >> /\ v1.fleet = << >> /\ v1.factions = {}
      /\ v1.owner = [c \in CaravanId |-> NoFaction] /\ v1.catalog = << >> /\ v1.entries = << >>
      /\ v1.day = w.day /\ v1.tick = w.tick /\ v1.wallet = w.wallet
  BY <1>4, <1>5 DEF WorldRecords
<1>7. PICK v2 \in WorldRecords :
        /\ v2 = [v1 EXCEPT !.routes = w.routes]
        /\ ReadOn(Good(v1), roads) = Good(v2)
  BY <1>6, ReadRoads
<1>8. /\ v2.settlements = w.settlements /\ v2.stores = w.stores
      /\ v2.routes = w.routes /\ v2.fleet = << >> /\ v2.factions = {}
      /\ v2.owner = [c \in CaravanId |-> NoFaction] /\ v2.catalog = << >> /\ v2.entries = << >>
      /\ v2.day = w.day /\ v2.tick = w.tick /\ v2.wallet = w.wallet
  BY <1>6, <1>7 DEF WorldRecords
<1>9. PICK v3 \in WorldRecords :
        /\ v3 = [v2 EXCEPT !.fleet = w.fleet]
        /\ ReadOn(Good(v2), FleetRows(w)) = Good(v3)
  BY <1>8, ReadFleet
<1>10. /\ v3.settlements = w.settlements /\ v3.stores = w.stores
       /\ v3.routes = w.routes /\ v3.fleet = w.fleet /\ v3.factions = {}
       /\ v3.owner = [c \in CaravanId |-> NoFaction] /\ v3.catalog = << >> /\ v3.entries = << >>
       /\ v3.day = w.day /\ v3.tick = w.tick /\ v3.wallet = w.wallet
  BY <1>8, <1>9 DEF WorldRecords
<1>11. PICK v4 \in WorldRecords :
         /\ v4 = [v3 EXCEPT !.factions = w.factions]
         /\ ReadOn(Good(v3), owners) = Good(v4)
  BY <1>10, ReadFactions
<1>12. /\ v4.settlements = w.settlements /\ v4.stores = w.stores
       /\ v4.routes = w.routes /\ v4.fleet = w.fleet /\ v4.factions = w.factions
       /\ v4.owner = [c \in CaravanId |-> NoFaction] /\ v4.catalog = << >> /\ v4.entries = << >>
       /\ v4.day = w.day /\ v4.tick = w.tick /\ v4.wallet = w.wallet
  BY <1>10, <1>11 DEF WorldRecords
<1>13. PICK v5 \in WorldRecords :
         /\ v5 = [v4 EXCEPT !.owner = w.owner]
         /\ ReadOn(Good(v4), OwnerRows(w)) = Good(v5)
  BY <1>12, ReadOwners
<1>14. /\ v5.settlements = w.settlements /\ v5.stores = w.stores
       /\ v5.routes = w.routes /\ v5.fleet = w.fleet /\ v5.factions = w.factions
       /\ v5.owner = w.owner /\ v5.catalog = << >> /\ v5.entries = << >>
       /\ v5.day = w.day /\ v5.tick = w.tick /\ v5.wallet = w.wallet
  BY <1>12, <1>13 DEF WorldRecords
<1>15. PICK v6 \in WorldRecords :
         /\ v6 = [v5 EXCEPT !.catalog = w.catalog]
         /\ ReadOn(Good(v5), ContractRows(w)) = Good(v6)
  BY <1>14, ReadOffers
<1>16. /\ v6.settlements = w.settlements /\ v6.stores = w.stores
       /\ v6.routes = w.routes /\ v6.fleet = w.fleet /\ v6.factions = w.factions
       /\ v6.owner = w.owner /\ v6.catalog = w.catalog /\ v6.entries = << >>
       /\ v6.day = w.day /\ v6.tick = w.tick /\ v6.wallet = w.wallet
  BY <1>14, <1>15 DEF WorldRecords
<1>17. PICK v7 \in WorldRecords :
         /\ v7 = [v6 EXCEPT !.entries = w.entries]
         /\ ReadOn(Good(v6), LedgerRows(w)) = Good(v7)
  BY <1>16, ReadEntries
<1>18. v7 = w
  BY <1>16, <1>17 DEF WorldRecords
<1>19. BodyRows \subseteq RowSet /\ OfferRows \subseteq RowSet /\ EntryRows \subseteq RowSet
  BY DEF RowSet
<1>20. /\ head \in Seq(RowSet) /\ SettlementRows(w) \in Seq(RowSet) /\ roads \in Seq(RowSet)
       /\ FleetRows(w) \in Seq(RowSet) /\ owners \in Seq(RowSet) /\ OwnerRows(w) \in Seq(RowSet)
       /\ ContractRows(w) \in Seq(RowSet) /\ LedgerRows(w) \in Seq(RowSet)
  <2>1. head \in Seq(BodyRows)
    <3>1. w.day \in U64 /\ w.tick \in U64 /\ w.wallet \in U64
      BY DEF WorldRecords
    <3>2. /\ [kind |-> Header] \in BodyRows
          /\ [kind |-> "day", n |-> w.day] \in BodyRows
          /\ [kind |-> "time", n |-> w.tick] \in BodyRows
          /\ [kind |-> "wallet", n |-> w.wallet] \in BodyRows
      BY <3>1 DEF BodyRows, HeaderRows, NumberRows
    <3>3. QED
      BY <3>2
  <2>2. SettlementRows(w) \in Seq(BodyRows) /\ roads \in Seq(BodyRows) /\ FleetRows(w) \in Seq(BodyRows)
        /\ owners \in Seq(BodyRows) /\ OwnerRows(w) \in Seq(BodyRows)
    BY SettlementRowsType, RoadRowsType, FleetRowsType, FactionRowsType, OwnerRowsType
  <2>3. ContractRows(w) \in Seq(OfferRows) /\ LedgerRows(w) \in Seq(EntryRows)
    BY RowsAre
  <2> HIDE DEF head, roads, owners
  <2>4. QED
    BY <1>19, <2>1, <2>2, <2>3, SeqMonotonic
<1>21. Rows(w) = head \o SettlementRows(w) \o roads \o FleetRows(w) \o owners \o OwnerRows(w)
                 \o ContractRows(w) \o LedgerRows(w)
  BY DEF Rows
<1> HIDE DEF head, roads, owners
<1> DEFINE a1 == head \o SettlementRows(w)
           a2 == a1 \o roads
           a3 == a2 \o FleetRows(w)
           a4 == a3 \o owners
           a5 == a4 \o OwnerRows(w)
           a6 == a5 \o ContractRows(w)
           a7 == a6 \o LedgerRows(w)
<1>22. a1 \in Seq(RowSet) /\ ReadOn(s, a1) = Good(v1)
  BY <1>2, <1>3, <1>5, <1>20, NextRows
<1> HIDE DEF a1
<1>23. a2 \in Seq(RowSet) /\ ReadOn(s, a2) = Good(v2)
  BY <1>2, <1>7, <1>20, <1>22, NextRows
<1> HIDE DEF a2
<1>24. a3 \in Seq(RowSet) /\ ReadOn(s, a3) = Good(v3)
  BY <1>2, <1>9, <1>20, <1>23, NextRows
<1> HIDE DEF a3
<1>25. a4 \in Seq(RowSet) /\ ReadOn(s, a4) = Good(v4)
  BY <1>2, <1>11, <1>20, <1>24, NextRows
<1> HIDE DEF a4
<1>26. a5 \in Seq(RowSet) /\ ReadOn(s, a5) = Good(v5)
  BY <1>2, <1>13, <1>20, <1>25, NextRows
<1> HIDE DEF a5
<1>27. a6 \in Seq(RowSet) /\ ReadOn(s, a6) = Good(v6)
  BY <1>2, <1>15, <1>20, <1>26, NextRows
<1> HIDE DEF a6
<1>28. ReadOn(s, a7) = Good(v7)
  BY <1>2, <1>17, <1>20, <1>27, NextRows
<1>29. Rows(w) = a7
  BY <1>21 DEF a1, a2, a3, a4, a5, a6
<1> HIDE DEF a7
<1>30. QED
  BY <1>1, <1>18, <1>28, <1>29 DEF Parsed

-----------------------------------------------------------------------------
(* Goods belong to settlements that exist, and a clock that has reached a  *)
(* day has ticked.                                                         *)
Kept(b) ==
  \A s \in SettlementId, r \in Resource : b[s][r] > 0 => s \in settlements /\ r \in KnownResource

Stocked == Kept(stores)

Clocked == day > 0 => tick > 0

(* A store that gets only resources of the engine.                         *)
Supplied(store, old) == \A r \in Resource : store[r] > 0 => old[r] > 0 \/ r \in KnownResource

LEMMA KeptStore ==
  ASSUME NEW b \in [SettlementId -> Storages], Kept(b), NEW s \in SettlementId, s \in settlements,
         NEW store, Supplied(store, b[s])
  PROVE  Kept([b EXCEPT ![s] = store])
BY DEF Kept, Supplied

LEMMA TakenSupplied ==
  ASSUME NEW store \in Storages, NEW r \in Resource, NEW n \in U64, CanTake(store, r, n)
  PROVE  Supplied(Take(store, r, n), store)
<1>1. store[r] \in Nat /\ n \in Nat /\ n > 0
  BY DEF Storages, U64, CanTake
<1>2. store[r] - n > 0 => store[r] > 0
  BY <1>1
<1>3. QED
  BY <1>2 DEF Supplied, Take, Storages

LEMMA PutSupplied ==
  ASSUME NEW store \in Storages, NEW r \in KnownResource, NEW n
  PROVE  Supplied(Put(store, r, n), store)
BY DEF Supplied, Put, Storages

(* What a delivery may move is registered.                                 *)
LEMMA DeliverySupplies ==
  ASSUME NEW c \in Caravans, NEW store \in Storages
  PROVE  \/ DeliveryOf(c, store).store = store
         \/ c.destination \in settlements /\ Supplied(DeliveryOf(c, store).store, store)
<1> DEFINE d == DeliveryOf(c, store)
           checked == /\ c.destination \in settlements
                      /\ Arrived(c)
                      /\ CargoTotal(c.cargo) <= MaxU64
                      /\ \A r \in Resource : CanAdd(store[r], c.cargo[r])
           all == \A r \in Resource : c.cargo[r] > 0 => r \in MovedEntries(c.cargo)
<1>1. c.cargo \in Storages
  BY DEF Caravans
<1>2. \A r \in Resource : c.cargo[r] \in U64 /\ store[r] \in U64
  BY <1>1 DEF Storages
<1>3. d = IF ~checked THEN [ok |-> FALSE, cargo |-> c.cargo, store |-> store]
          ELSE IF all THEN [ok |-> TRUE, cargo |-> MovedOut(c.cargo), store |-> MovedIn(store, c.cargo)]
          ELSE [ok |-> FALSE, cargo |-> PutBack(MovedOut(c.cargo), c.cargo),
                store |-> TakenBack(MovedIn(store, c.cargo), c.cargo)]
  BY DEF DeliveryOf
<1>4. CASE ~checked
  BY <1>3, <1>4
<1>5. CASE checked /\ all
  <2>1. d.store = MovedIn(store, c.cargo)
    BY <1>3, <1>5
  <2>2. \A r \in Resource : c.cargo[r] = 0 => WrapAdd(store[r], c.cargo[r]) = store[r]
    BY <1>2, WidthAssumption DEF WrapAdd, U64
  <2>3. \A r \in MovedEntries(c.cargo) : c.cargo[r] > 0 => r \in KnownResource
    <3>1. ASSUME NEW k \in DOMAIN ResourceOrder,
                 \A j \in 1 .. k : c.cargo[ResourceOrder[j]] > 0 => ResourceOrder[j] \in KnownResource
          PROVE  c.cargo[ResourceOrder[k]] > 0 => ResourceOrder[k] \in KnownResource
      <4>1. k \in 1 .. k
        BY RuntimeAssumption
      <4>2. QED
        BY <3>1, <4>1
    <3>2. QED
      BY <3>1 DEF MovedEntries
  <2>4. \A r \in Resource : c.cargo[r] = 0 \/ c.cargo[r] > 0
    BY <1>2 DEF U64
  <2>5. \A r \in Resource : MovedIn(store, c.cargo)[r] =
          IF r \in MovedEntries(c.cargo) THEN WrapAdd(store[r], c.cargo[r]) ELSE store[r]
    BY DEF MovedIn
  <2>6. Supplied(MovedIn(store, c.cargo), store)
    BY <2>2, <2>3, <2>4, <2>5 DEF Supplied
  <2>7. QED
    BY <1>5, <2>1, <2>6
<1>6. CASE checked /\ ~all
  <2>1. TakenBack(MovedIn(store, c.cargo), c.cargo) = store
    BY <1>1, <1>6, RollbackRestores
  <2>2. QED
    BY <1>3, <1>6, <2>1
<1>7. QED
  BY <1>4, <1>5, <1>6

LEMMA DeliveryKeeps ==
  ASSUME NEW c \in Caravans, NEW b \in [SettlementId -> Storages], Kept(b)
  PROVE  Kept([b EXCEPT ![c.destination] = DeliveryOf(c, b[c.destination]).store])
<1>1. PICK s \in SettlementId : s = c.destination
  BY DEF Caravans
<1>2. b[s] \in Storages
  OBVIOUS
<1>3. PICK store : store = DeliveryOf(c, b[s]).store
  OBVIOUS
<1>4. store = b[s] \/ (s \in settlements /\ Supplied(store, b[s]))
  BY <1>1, <1>2, <1>3, DeliverySupplies
<1>5. CASE store = b[s]
  <2>1. [b EXCEPT ![s] = store] = b
    BY <1>5
  <2>2. QED
    BY <1>1, <1>3, <2>1
<1>6. CASE s \in settlements /\ Supplied(store, b[s])
  <2>1. Kept([b EXCEPT ![s] = store])
    BY <1>6, KeptStore
  <2>2. QED
    BY <1>1, <1>3, <2>1
<1>7. QED
  BY <1>4, <1>5, <1>6

LEMMA BulkKeeps ==
  ASSUME TypeOK, WorldTypeOK, Stocked
  PROVE  Kept(Bulk.stores)
<1> DEFINE N == Len(fleet)
<1>1. N \in Nat /\ DOMAIN fleet = 1 .. N
  BY DEF TypeOK
<1>2. PICK after \in [0 .. N -> BulkStates] :
        /\ after[0] = BulkStart
        /\ \A n \in 1 .. N : after[n] = BulkRound(after[n - 1], n)
        /\ Bulk = after[N]
  BY BulkUnrolled
<1> DEFINE T == {n \in 0 .. N : Kept(after[n].stores)}
<1>3. 0 \in T
  BY <1>1, <1>2 DEF BulkStart, Stocked
<1>4. ASSUME NEW n \in 1 .. N, n - 1 \in T PROVE n \in T
  <2>1. n - 1 \in 0 .. N /\ n \in 0 .. N
    BY <1>1
  <2>2. PICK b \in BulkStates : b = after[n - 1]
    BY <1>2, <2>1
  <2>3. after[n] = BulkRound(b, n)
    BY <1>2, <2>2
  <2>4. PICK c \in Caravans : c = fleet[n]
    BY <1>1 DEF TypeOK
  <2>5. b.stores \in [SettlementId -> Storages] /\ Kept(b.stores)
    BY <1>4, <2>2 DEF BulkStates
  <2>6. Kept([b.stores EXCEPT ![c.destination] = DeliveryOf(c, b.stores[c.destination]).store])
    BY <2>5, DeliveryKeeps
  <2>7. \/ BulkRound(b, n).stores = b.stores
        \/ BulkRound(b, n).stores
             = [b.stores EXCEPT ![c.destination] = DeliveryOf(c, b.stores[c.destination]).store]
    BY <2>4 DEF BulkRound
  <2>8. QED
    BY <2>1, <2>3, <2>5, <2>6, <2>7
<1> HIDE DEF T
<1>5. N \in T
  <2> HIDE DEF N
  <2>1. \A n \in 0 .. N : n \in T
    BY <1>1, <1>3, <1>4, BoundedInduction
  <2>2. QED
    BY <1>1, <2>1
<1>6. QED
  BY <1>2, <1>5 DEF T

(* The rounds of a run.                                                    *)
Sound(s) == Kept(s.stores) /\ (s.day > 0 => s.tick > 0)

LEMMA ClockGrows ==
  ASSUME NEW t \in U64, NEW ticks \in Nat
  PROVE  /\ t > 0 => AdvanceTime(t, ticks) > 0
         /\ ticks > 0 => AdvanceTime(t, ticks) > 0
BY WidthAssumption DEF AdvanceTime, SaturatingAdd, CanAdd, U64

LEMMA TickedSound ==
  ASSUME NEW s \in RunStates, NEW ticks \in U64, Kept(s.stores), s.day > 0 => s.tick > 0 \/ ticks > 0
  PROVE  Sound(Ticked(s, ticks))
<1>1. s.tick \in U64 /\ ticks \in Nat
  BY DEF RunStates, U64
<1>2. Ticked(s, ticks).stores = s.stores /\ Ticked(s, ticks).day = s.day
      /\ Ticked(s, ticks).tick = AdvanceTime(s.tick, ticks)
  BY DEF Ticked, RunStates
<1>3. QED
  BY <1>1, <1>2, ClockGrows DEF Sound

LEMMA FedSupplied ==
  ASSUME NEW store \in Storages, NEW x \in SettlementId
  PROVE  \A r \in Resource : Fed(store, x)[r] > 0 => store[r] > 0
<1>1. Food \in Resource /\ Appetite[x] \in U64
  BY RuntimeAssumption
<1>2. store[Food] \in U64
  BY <1>1 DEF Storages
<1>3. store[Food] - RemovedUpTo(store, Food, Appetite[x]) > 0 => store[Food] > 0
  BY <1>1, <1>2, WidthAssumption DEF RemovedUpTo, AtMost, U64
<1>4. QED
  BY <1>3 DEF Fed, Storages

LEMMA DaySound ==
  ASSUME NEW s \in RunStates, Sound(s)
  PROVE  Sound(DayPassed(s))
<1> DEFINE fed == [x \in SettlementId |->
                     IF x \in settlements THEN Fed(s.stores[x], x) ELSE s.stores[x]]
           dawn == [s EXCEPT !.day = WrapAdd(s.day, 1), !.stores = fed]
<1>1. s.day \in U64 /\ s.stores \in [SettlementId -> Storages] /\ 1 \in U64 /\ TicksPerDay \in U64
      /\ TicksPerDay > 0
  BY WidthAssumption DEF RunStates, U64
<1>2. fed \in [SettlementId -> Storages]
  BY <1>1, FedType
<1>3. WrapAdd(s.day, 1) \in U64
  BY <1>1, WrapAddType
<1>4. Kept(fed)
  <2>1. \A x \in SettlementId : \A r \in Resource : fed[x][r] > 0 => s.stores[x][r] > 0
    BY <1>1, FedSupplied
  <2> HIDE DEF fed
  <2>2. QED
    BY <2>1 DEF Kept, Sound
<1> HIDE DEF fed
<1>5. dawn \in RunStates /\ dawn.stores = fed
  BY <1>2, <1>3 DEF RunStates
<1> HIDE DEF dawn
<1>6. Sound(Ticked(dawn, TicksPerDay))
  BY <1>1, <1>4, <1>5, TickedSound
<1>7. QED
  BY <1>6 DEF DayPassed, dawn, fed

LEMMA TickRunSound ==
  ASSUME TypeOK, WorldTypeOK, Stocked, Clocked,
         NEW total \in U64, NEW step \in U64, NEW untilArrival \in BOOLEAN
  PROVE  Sound(TickRun(total, step, untilArrival))
<1>1. total \in Nat
  BY DEF U64
<1>2. PICK run \in [0 .. total -> RunStates] :
        /\ run[0] = Now
        /\ \A n \in 1 .. total : run[n] = TickRound(run[n - 1], total, step, untilArrival)
        /\ TickRun(total, step, untilArrival) = run[total]
  BY TickRunUnrolled
<1> DEFINE T == {n \in 0 .. total : Sound(run[n])}
<1>3. 0 \in T
  BY <1>1, <1>2 DEF Now, Sound, Stocked, Clocked
<1>4. ASSUME NEW n \in 1 .. total, n - 1 \in T PROVE n \in T
  <2>1. n - 1 \in 0 .. total /\ n \in 0 .. total
    BY <1>1
  <2>2. PICK s \in RunStates : s = run[n - 1]
    BY <1>2, <2>1
  <2>3. run[n] = TickRound(s, total, step, untilArrival) /\ Sound(s)
    BY <1>2, <1>4, <2>2
  <2>4. ~(s.elapsed >= total) => AtMost(step, total - s.elapsed) \in U64
    <3>1. s.elapsed \in Nat
      BY DEF RunStates
    <3>2. QED
      BY <1>1, <3>1, WidthAssumption DEF AtMost, U64
  <2>5. Sound(run[n])
    <3>1. Kept(s.stores) /\ (s.day > 0 => s.tick > 0)
      BY <2>3 DEF Sound
    <3>2. QED
      BY <2>3, <2>4, <3>1, TickedSound DEF TickRound
  <2>6. QED
    BY <2>1, <2>5
<1> HIDE DEF T
<1>5. \A n \in 0 .. total : n \in T
  BY <1>1, <1>3, <1>4, BoundedInduction
<1>6. QED
  BY <1>1, <1>2, <1>5 DEF T

LEMMA DayRunSound ==
  ASSUME TypeOK, WorldTypeOK, Stocked, Clocked, NEW days \in U64, NEW untilArrival \in BOOLEAN
  PROVE  Sound(DayRun(days, untilArrival))
<1>1. days \in Nat
  BY DEF U64
<1>2. PICK run \in [0 .. days -> RunStates] :
        /\ run[0] = Now
        /\ \A n \in 1 .. days : run[n] = DayRound(run[n - 1], untilArrival)
        /\ DayRun(days, untilArrival) = run[days]
  BY DayRunUnrolled
<1> DEFINE T == {n \in 0 .. days : Sound(run[n])}
<1>3. 0 \in T
  BY <1>1, <1>2 DEF Now, Sound, Stocked, Clocked
<1>4. ASSUME NEW n \in 1 .. days, n - 1 \in T PROVE n \in T
  <2>1. n - 1 \in 0 .. days /\ n \in 0 .. days
    BY <1>1
  <2>2. run[n - 1] \in RunStates /\ run[n] = DayRound(run[n - 1], untilArrival)
    BY <1>2, <2>1
  <2>3. Sound(run[n - 1])
    BY <1>4
  <2>4. Sound(run[n])
    BY <2>2, <2>3, DaySound DEF DayRound
  <2>5. QED
    BY <2>1, <2>4
<1> HIDE DEF T
<1>5. \A n \in 0 .. days : n \in T
  BY <1>1, <1>3, <1>4, BoundedInduction
<1>6. QED
  BY <1>1, <1>2, <1>5 DEF T

(* Every call of the runtime.                                              *)
LEMMA GoodsKept ==
  ASSUME RuntimeTypeOK, GoodsCall, Stocked
  PROVE  Kept(stores')
<1>1. /\ TypeOK /\ WorldTypeOK
      /\ stores \in [SettlementId -> Storages] /\ settlements \subseteq SettlementId /\ Kept(stores)
  BY DEF RuntimeTypeOK, WorldTypeOK, Stocked
<1>2. \A s \in settlements : s \in SettlementId /\ stores[s] \in Storages
  BY <1>1
<1>3. ASSUME NEW s \in settlements, NEW r \in Resource, NEW n \in U64, AddResource(s, r, n)
      PROVE  Kept(stores')
  <2>1. Supplied(Put(stores[s], r, n), stores[s])
    BY <1>2, <1>3, PutSupplied DEF AddResource
  <2>2. QED
    BY <1>1, <1>2, <1>3, <2>1, KeptStore DEF AddResource
<1>4. ASSUME NEW s \in settlements, NEW r \in Resource, NEW n \in U64, RemoveResource(s, r, n)
      PROVE  Kept(stores')
  <2>1. Supplied(Take(stores[s], r, n), stores[s])
    BY <1>2, <1>4, TakenSupplied DEF RemoveResource
  <2>2. QED
    BY <1>1, <1>2, <1>4, <2>1, KeptStore DEF RemoveResource
<1>5. ASSUME NEW s \in settlements, NEW t \in settlements, NEW r \in Resource, NEW n \in U64,
             TransferResource(s, t, r, n)
      PROVE  Kept(stores')
  <2>1. PICK a \in Storages : a = Take(stores[s], r, n)
    BY <1>2, <1>5, TakeType DEF TransferResource
  <2>2. Supplied(a, stores[s])
    BY <1>2, <1>5, <2>1, TakenSupplied DEF TransferResource
  <2>3. PICK b \in [SettlementId -> Storages] : b = [stores EXCEPT ![s] = a]
    BY <1>1
  <2>4. Kept(b) /\ b[t] = stores[t]
    BY <1>1, <1>2, <1>5, <2>2, <2>3, KeptStore DEF TransferResource
  <2>5. Supplied(Put(stores[t], r, n), b[t])
    BY <1>2, <1>5, <2>4, PutSupplied DEF TransferResource
  <2>6. Kept([b EXCEPT ![t] = Put(stores[t], r, n)])
    BY <1>2, <2>4, <2>5, KeptStore
  <2>7. stores' = [b EXCEPT ![t] = Put(stores[t], r, n)]
    BY <1>1, <1>5, <2>1, <2>3 DEF TransferResource
  <2>8. QED
    BY <2>6, <2>7
<1>6. ASSUME NEW p \in DOMAIN fleet, NEW r \in Resource, NEW n \in U64, Load(p, r, n)
      PROVE  Kept(stores')
  <2>1. PICK s \in settlements : s = fleet[p].origin
    BY <1>6 DEF Load
  <2>2. CanTake(stores[s], r, n) /\ stores' = [stores EXCEPT ![s] = Take(stores[s], r, n)]
    BY <1>6, <2>1 DEF Load
  <2>3. Supplied(Take(stores[s], r, n), stores[s])
    BY <1>2, <2>2, TakenSupplied
  <2>4. QED
    BY <1>1, <1>2, <2>2, <2>3, KeptStore
<1>7. ASSUME NEW p \in DOMAIN fleet, NEW r \in Resource, NEW n \in U64, Unload(p, r, n)
      PROVE  Kept(stores')
  <2>1. PICK s \in settlements : s = fleet[p].destination
    BY <1>7 DEF Unload
  <2>2. r \in KnownResource /\ stores' = [stores EXCEPT ![s] = Put(stores[s], r, n)]
    BY <1>7, <2>1 DEF Unload
  <2>3. Supplied(Put(stores[s], r, n), stores[s])
    BY <1>2, <2>2, PutSupplied
  <2>4. QED
    BY <1>1, <1>2, <2>2, <2>3, KeptStore
<1>8. ASSUME NEW p \in DOMAIN fleet, Deliver(p) PROVE Kept(stores')
  <2>1. PICK c \in Caravans : c = fleet[p]
    BY <1>1, CaravanFields
  <2>2. stores' = [stores EXCEPT ![c.destination] = DeliveryOf(c, stores[c.destination]).store]
    BY <1>8, <2>1 DEF Deliver
  <2>3. QED
    BY <1>1, <2>2, DeliveryKeeps
<1>9. ASSUME DeliverAll PROVE Kept(stores')
  BY <1>1, <1>9, BulkKeeps DEF DeliverAll, Stocked
<1>10. QED
  BY <1>3, <1>4, <1>5, <1>6, <1>7, <1>8, <1>9 DEF GoodsCall

LEMMA StockedStep ==
  ASSUME RuntimeTypeOK, CallReal, Stocked, Clocked, [RuntimeNext]_runtimeVars
  PROVE  Stocked' /\ Clocked'
<1> DEFINE Goal == Kept(stores') /\ (day' > 0 => tick' > 0)
<1>1. ASSUME stores' = stores, day' = day, tick' = tick PROVE Goal
  BY <1>1 DEF Stocked, Clocked
<1>2. ASSUME UNCHANGED runtimeVars PROVE Goal
  BY <1>1, <1>2 DEF runtimeVars, vars, worldVars
<1>3. ASSUME BuildCall PROVE Goal
  <2>1. stores' = stores /\ day' = day /\ tick' = tick
    BY <1>3 DEF BuildCall, CreateSettlement, AddFaction, AddRoute, AddRuntimeContract, AddContract,
                SetRuntimeCaravanOwner, SetCaravanOwner, CreateCaravan, vars, worldVars
  <2>2. QED
    BY <1>1, <2>1
<1>4. ASSUME GoodsCall PROVE Goal
  <2>1. day' = day /\ tick' = tick
    BY <1>4 DEF GoodsCall, AddResource, RemoveResource, TransferResource, Load, Unload, Deliver,
                DeliverAll, StoresOnly, GoodsOnly, vars
  <2>2. QED
    BY <1>4, <2>1, GoodsKept DEF Clocked
<1>5. ASSUME NEW i, NEW p, NEW mode, FulfillFromArrivedCaravan(i, p, mode) PROVE tick' = tick
  BY <1>5 DEF FulfillFromArrivedCaravan, SettleBooks
<1>6. ASSUME BookCall PROVE Goal
  <2>1. ASSUME NEW i \in DOMAIN catalog, ContractCall(i) PROVE tick' = tick
    <3>1. ASSUME NEW status, MarkContract(i, status) PROVE tick' = tick
      BY <3>1 DEF MarkContract
    <3>2. ASSUME NEW mode, FulfillFromStorage(i, mode) PROVE tick' = tick
      BY <3>2 DEF FulfillFromStorage, SettleBooks
    <3>3. QED
      BY <1>5, <2>1, <3>1, <3>2 DEF ContractCall, FulfillFromOwnedCaravan
  <2>2. ASSUME NEW t \in U64, FailOverdue(t) PROVE tick' = tick
    BY <2>2 DEF FailOverdue
  <2>3. QED
    BY <1>1, <1>6, <2>1, <2>2 DEF BookCall, worldVars
<1>7. ASSUME NEW s, Sound(s), Reach(s) PROVE Goal
  BY <1>7 DEF Reach, Sound
<1>8. TypeOK /\ WorldTypeOK
  BY DEF RuntimeTypeOK
<1>9. ASSUME TimeCall PROVE Goal
  <2>1. ASSUME NEW p \in DOMAIN fleet, AdvanceCaravanDay(p) PROVE Goal
    BY <1>1, <2>1 DEF AdvanceCaravanDay, worldVars
  <2>2. ASSUME NEW total \in U64, NEW step \in U64, RunTicks(total, step) PROVE Goal
    BY <1>7, <1>8, <2>2, TickRunSound DEF RunTicks
  <2>3. ASSUME NEW days \in U64, RunDays(days) PROVE Goal
    BY <1>7, <1>8, <2>3, DayRunSound DEF RunDays
  <2>4. QED
    BY <1>9, <2>1, <2>2, <2>3 DEF TimeCall
<1>10. ASSUME NEW p, NEW f, FulfillFirst(p, f) PROVE Goal
  BY <1>1, <1>5, <1>10 DEF FulfillFirst, worldVars
<1>11. ASSUME ArrivalCall PROVE Goal
  <2>1. ASSUME NEW f \in Faction, NEW max \in U64, NEW step \in U64, RunUntilArrival(max, step, f)
        PROVE  Goal
    BY <1>7, <1>8, <2>1, TickRunSound DEF RunUntilArrival
  <2>2. ASSUME NEW f \in Faction, NEW days \in U64, RunUntilArrivalDays(days, f) PROVE Goal
    BY <1>7, <1>8, <2>2, DayRunSound DEF RunUntilArrivalDays
  <2>3. QED
    BY <1>11, <2>1, <2>2 DEF ArrivalCall
<1>12. ASSUME FulfillArrival PROVE Goal
  <2>1. CASE UNCHANGED <<vars, worldVars>>
    BY <1>1, <2>1 DEF vars, worldVars
  <2>2. QED
    BY <1>10, <1>12, <2>1 DEF FulfillArrival
<1> HIDE DEF Goal
<1>13. Goal
  BY <1>2, <1>3, <1>4, <1>6, <1>9, <1>10, <1>11, <1>12 DEF RuntimeNext
<1>14. settlements \subseteq settlements'
  BY EveryShape DEF StepShape, RoadStep
<1>15. QED
  BY <1>13, <1>14 DEF Goal, Kept, Stocked, Clocked

(* What the reader puts into a store is in a store that exists.            *)
Housed(w) == \A s \in SettlementId, r \in Resource : w.stores[s][r] > 0 => s \in w.settlements

LEMMA RowHoused ==
  ASSUME NEW w \in WorldRecords, NEW row \in RowSet, row.kind # Header, row.kind # "torn", Fits(w, row),
         Housed(w)
  PROVE  Housed(WithRow(w, row))
<1>1. w.stores \in [SettlementId -> Storages]
  BY DEF WorldRecords
<1>2. CASE row \in StoreRows
  <2>1. row.kind = "settlement_storage" /\ row.id \in w.settlements
    BY <1>2 DEF StoreRows, Fits
  <2>2. WithRow(w, row).stores = WithStock(w.stores, row) /\ WithRow(w, row).settlements = w.settlements
    BY <2>1 DEF WithRow, WorldRecords
  <2>3. \A s \in SettlementId : s # row.id => WithStock(w.stores, row)[s] = w.stores[s]
    BY <1>1 DEF WithStock
  <2>4. QED
    BY <2>1, <2>2, <2>3 DEF Housed
<1>3. CASE row \in PlaceRows
  <2>1. WithRow(w, row).stores = w.stores /\ w.settlements \subseteq WithRow(w, row).settlements
    BY <1>3 DEF PlaceRows, WithRow, WorldRecords
  <2>2. QED
    BY <2>1 DEF Housed
<1>4. ASSUME WithRow(w, row).stores = w.stores, WithRow(w, row).settlements = w.settlements
      PROVE  Housed(WithRow(w, row))
  BY <1>4 DEF Housed
<1>5. CASE row \in NumberRows
  <2>1. row.kind \in {"day", "time", "wallet"}
    BY <1>5 DEF NumberRows
  <2>2. CASE row.kind = "day"
    BY <1>4, <2>2 DEF WithRow, WorldRecords
  <2>3. CASE row.kind = "time"
    BY <1>4, <2>3 DEF WithRow, WorldRecords
  <2>4. CASE row.kind = "wallet"
    BY <1>4, <2>4 DEF WithRow, WorldRecords
  <2>5. QED
    BY <2>1, <2>2, <2>3, <2>4
<1>6. CASE row \in RoadRows
  BY <1>4, <1>6 DEF RoadRows, WithRow, WorldRecords
<1>7. CASE row \in CarrierRows
  BY <1>4, <1>7 DEF CarrierRows, WithRow, WorldRecords
<1>8. CASE row \in CargoRows
  BY <1>4, <1>8 DEF CargoRows, WithRow, WorldRecords
<1>9. CASE row \in FactionRows
  BY <1>4, <1>9 DEF FactionRows, WithRow, WorldRecords
<1>10. CASE row \in OwnedRows
  BY <1>4, <1>10 DEF OwnedRows, WithRow, WorldRecords
<1>11. CASE row \in OfferRows
  BY <1>4, <1>11 DEF OfferRows, WithRow, WorldRecords
<1>12. CASE row \in EntryRows
  BY <1>4, <1>12 DEF EntryRows, WithRow, WorldRecords
<1>13. row \notin HeaderRows /\ row \notin TornRows
  BY DEF HeaderRows, TornRows
<1>14. QED
  BY <1>2, <1>3, <1>5, <1>6, <1>7, <1>8, <1>9, <1>10, <1>11, <1>12, <1>13 DEF RowSet, BodyRows

LEMMA ReadHoused ==
  ASSUME NEW s \in ReaderStates, Housed(s.world), NEW rows \in Seq(RowSet)
  PROVE  Housed(ReadOn(s, rows).world)
<1>1. PICK f : IsReading(f, s, rows) /\ ReadOn(s, rows) = f[Len(rows)]
  BY ReadingExists
<1>2. /\ f \in [0 .. Len(rows) -> ReaderStates] /\ f[0] = s
      /\ \A k \in 1 .. Len(rows) : f[k] = AfterRow(f[k - 1], rows[k])
  BY <1>1 DEF IsReading, Follows
<1> DEFINE S == {k \in 0 .. Len(rows) : Housed(f[k].world)}
<1>3. Len(rows) \in Nat
  OBVIOUS
<1>4. 0 \in S
  BY <1>2, <1>3
<1>5. ASSUME NEW k \in 1 .. Len(rows), k - 1 \in S PROVE k \in S
  <2>1. k - 1 \in 0 .. Len(rows) /\ k \in 0 .. Len(rows)
    BY <1>3
  <2>2. PICK t \in ReaderStates : t = f[k - 1]
    BY <1>2, <2>1
  <2>3. PICK row \in RowSet : row = rows[k]
    BY <1>3
  <2>4. Housed(t.world) /\ t.world \in WorldRecords /\ f[k] = AfterRow(t, row)
    BY <1>2, <1>5, <2>2, <2>3 DEF ReaderStates
  <2>5. CASE row.kind # Header /\ t.header /\ row.kind # "torn" /\ Fits(t.world, row)
    <3>1. Housed(WithRow(t.world, row))
      BY <2>4, <2>5, RowHoused
    <3>2. AfterRow(t, row).world = WithRow(t.world, row)
      BY <2>5 DEF AfterRow, ReaderStates
    <3>3. QED
      BY <2>1, <2>4, <3>1, <3>2
  <2>6. CASE ~(row.kind # Header /\ t.header /\ row.kind # "torn" /\ Fits(t.world, row))
    <3>1. AfterRow(t, row).world = t.world
      BY <2>6 DEF AfterRow, ReaderStates
    <3>2. QED
      BY <2>1, <2>4, <3>1
  <2>7. QED
    BY <2>5, <2>6
<1> HIDE DEF S
<1>6. \A k \in 0 .. Len(rows) : k \in S
  BY <1>3, <1>4, <1>5, BoundedInduction
<1>7. Len(rows) \in S
  BY <1>3, <1>6
<1>8. QED
  BY <1>1, <1>7 DEF S

(* A file that loads: its goods have a place, and its clock has ticked.    *)
LEMMA LoadedWhole ==
  ASSUME NEW w \in WorldRecords, NEW file, FileOf(file, w), Loads(Content(file)),
         Install(LoadedFrom(Content(file)))
  PROVE  Stocked' /\ Clocked'
<1> DEFINE start == [ok |-> TRUE, header |-> FALSE, world |-> NewWorld]
           rows == Content(file)
<1>1. start \in ReaderStates
  BY NewWorldType DEF ReaderStates
<1>2. Housed(start.world)
  BY DEF Housed, NewWorld, EmptyStorage
<1>3. rows \in Seq(RowSet)
  BY ContentType
<1>4. Parsed(rows) = ReadOn(start, rows)
  BY DEF Parsed
<1> HIDE DEF start, rows
<1>5. PICK t \in ReaderStates : t = Parsed(rows)
  BY <1>1, <1>3, <1>4, ReadOnType
<1>6. PICK r \in WorldRecords : r = t.world
  BY DEF ReaderStates
<1>7. Housed(r) /\ EngineRestores(r)
  <2>1. Housed(r)
    BY <1>1, <1>2, <1>3, <1>4, <1>5, <1>6, ReadHoused
  <2>2. QED
    BY <1>5, <1>6, <2>1 DEF Loads, Accepted, rows
<1>8. r.day \in U64 /\ r.tick \in U64
  BY DEF WorldRecords
<1>9. r.day > 0 => RestoredTime(r) > 0
  <2>1. r.day \in Nat /\ r.day > 0 => DaysToTicks(r.day) > 0
    <3>1. r.day \in Nat /\ r.day > 0 => r.day * TicksPerDay > 0
      BY WidthAssumption, ProductsGrow
    <3>2. QED
      BY <3>1, WidthAssumption DEF DaysToTicks
  <2>2. QED
    BY <1>8, <2>1 DEF RestoredTime, U64
<1>10. LoadedFrom(rows) = [r EXCEPT !.tick = RestoredTime(r)]
  BY <1>5, <1>6 DEF LoadedFrom, WithTime
<1>11. day' = r.day /\ tick' = RestoredTime(r) /\ stores' = r.stores /\ settlements' = r.settlements
  BY <1>10 DEF Install, WorldRecords, rows
<1>12. QED
  BY <1>7, <1>9, <1>11 DEF Housed, EngineRestores, Stocked, Kept, Clocked

LEMMA CrashWhole == Crash => Stocked' /\ Clocked'
<1> SUFFICES ASSUME Crash PROVE Stocked' /\ Clocked'
  OBVIOUS
<1>1. PICK w \in InitialWorlds, coins \in InitialCoins, f \in InitialFleets :
        Install([NewWorld EXCEPT !.settlements = w.settlements, !.stores = w.stores, !.fleet = f,
                                 !.routes = w.routes, !.factions = w.factions, !.wallet = coins])
  BY DEF Crash
<1>2. Built(w, f)
  BY PersistAssumption
<1>3. day' = 0 /\ stores' = w.stores /\ settlements' = w.settlements
  BY <1>1 DEF Install, NewWorld
<1>4. QED
  BY <1>2, <1>3 DEF Built, Stocked, Kept, Clocked

LEMMA StartWhole == PersistInit => Stocked /\ Clocked
<1> SUFFICES ASSUME PersistInit PROVE Stocked /\ Clocked
  OBVIOUS
<1>1. RuntimeInit /\ fleet \in InitialFleets
  BY DEF PersistInit, RuntimeInit, Init
<1>2. PICK w \in InitialWorlds : settlements = w.settlements /\ stores = w.stores /\ day = 0
  BY <1>1 DEF RuntimeInit
<1>3. Built(w, fleet)
  BY <1>1, PersistAssumption
<1>4. QED
  BY <1>2, <1>3 DEF Built, Stocked, Kept, Clocked

WholeInvariant == SaveInvariant /\ Stocked /\ Clocked

LEMMA WholeInvariantStart == PersistInit => WholeInvariant
BY SaveInvariantStart, StartWhole DEF WholeInvariant

LEMMA WholeInvariantStep == WholeInvariant /\ [PersistNext]_persistVars => WholeInvariant'
<1> SUFFICES ASSUME WholeInvariant, [PersistNext]_persistVars PROVE WholeInvariant'
  OBVIOUS
<1>1. SaveInvariant /\ RuntimeTypeOK /\ CallReal /\ Stocked /\ Clocked
  BY DEF WholeInvariant, SaveInvariant, Running
<1>2. ASSUME [RuntimeNext]_runtimeVars PROVE Stocked' /\ Clocked'
  BY <1>1, <1>2, StockedStep
<1>3. ASSUME SaveStep PROVE UNCHANGED runtimeVars
  BY <1>3 DEF SaveStep, BeginSave, OpenFails, WritePart, WriteFails, WriteRest,
              Rename, CopyPart, CopyRest, CopyFails, Saving
<1>4. ASSUME LoadSave(saved) PROVE Stocked' /\ Clocked'
  <2>1. PICK w \in WorldRecords : FileOf(saved, w)
    BY <1>1, <1>4 DEF LoadSave, SaveInvariant, FileBooked
  <2>2. Loads(Content(saved)) /\ Install(LoadedFrom(Content(saved)))
    BY <1>4 DEF LoadSave
  <2>3. QED
    BY <2>1, <2>2, LoadedWhole
<1>5. Stocked' /\ Clocked'
  BY <1>2, <1>3, <1>4, CrashWhole DEF PersistNext, persistVars
<1>6. QED
  BY <1>1, <1>5, SaveInvariantStep DEF WholeInvariant

(* What a host saves when it may is what the next one loads.               *)
LEMMA WorldComesBack == WholeInvariant => SaveLoadsBack
<1> SUFFICES ASSUME WholeInvariant, ValidWorld(World)
             PROVE  /\ Loads(Rows(World))
                    /\ LoadedFrom(Rows(World)) = World
                    /\ Restored(LoadedFrom(Rows(World)).entries) = ledger
  BY DEF SaveLoadsBack
<1>1. Running /\ Stocked /\ Clocked /\ RuntimeTypeOK /\ AllFilled
  BY DEF WholeInvariant, SaveInvariant, Running
<1>2. PICK w \in WorldRecords : w = World
  BY <1>1, WorldType
<1>3. /\ w.stores = stores /\ w.settlements = settlements /\ w.day = day /\ w.tick = tick
      /\ w.entries = ledger.entries
  BY <1>2 DEF World
<1>4. ASSUME NEW s \in SettlementId, s \notin w.settlements PROVE w.stores[s] = EmptyStorage
  <2>1. stores[s] \in Storages
    BY <1>1 DEF RuntimeTypeOK, WorldTypeOK
  <2>2. \A r \in Resource : stores[s][r] \in Nat /\ ~(stores[s][r] > 0)
    BY <1>1, <1>3, <1>4, <2>1 DEF Stocked, Kept, Storages, U64
  <2>3. \A r \in Resource : stores[s][r] = 0
    BY <2>2
  <2>4. QED
    BY <1>3, <2>1, <2>3 DEF EmptyStorage, Storages
<1>5. UniqueIds(w.fleet)
  BY <1>2 DEF ValidWorld
<1>6. Parsed(Rows(w)) = Good(w)
  BY <1>4, <1>5, RoundTrip
<1>7. Parsed(Rows(w)).ok = TRUE /\ Parsed(Rows(w)).header = TRUE /\ Parsed(Rows(w)).world = w
  BY <1>6 DEF Good
<1>8. EngineRestores(w)
  BY <1>1, <1>3 DEF Stocked, Kept, EngineRestores
<1>9. Loads(Rows(w))
  BY <1>2, <1>7, <1>8 DEF Loads, Accepted
<1>10. LoadedFrom(Rows(w)) = w
  <2>1. w.tick \in Nat /\ w.day \in Nat /\ (w.day > 0 => w.tick > 0)
    BY <1>1, <1>3 DEF Clocked, WorldRecords, U64
  <2>2. RestoredTime(w) = w.tick
    BY <2>1 DEF RestoredTime
  <2>3. LoadedFrom(Rows(w)) = [w EXCEPT !.tick = w.tick]
    BY <1>7, <2>2 DEF LoadedFrom, WithTime
  <2>4. QED
    BY <2>3 DEF WorldRecords
<1>11. Restored(w.entries) = ledger
  BY <1>1, <1>3, NumberedSurvives DEF Running, RuntimeBook, RuntimeTypeOK, LedgerSurvivesRestore
<1>12. QED
  BY <1>2, <1>9, <1>10, <1>11

(* save_simulation_runtime_to_file and then load_...: whatever the host    *)
(* has done, a world it may save comes back from the rows of its save as   *)
(* it was, with every id, owner, cargo and store, with its clock, and with *)
(* a ledger that continues with the same number.                           *)
THEOREM SavesLoadBack == PersistSpec => []SaveLoadsBack
BY WorldComesBack, WholeInvariantStart, WholeInvariantStep, PTL DEF PersistSpec
=============================================================================
