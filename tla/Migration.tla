------------------------------ MODULE Migration ------------------------------
(***************************************************************************)
(* The review of a save's format and the migration of saves that older     *)
(* versions wrote: without the row of the clock, or with routes, caravans  *)
(* and contracts that count in days only.  Both read the rows of a file    *)
(* and change nothing but the copy they return.                            *)
(***************************************************************************)
EXTENDS Persistence

LOCAL INSTANCE SequencesExt
LOCAL INSTANCE FiniteSetsExt

(* What an older version may lack.                                         *)
LegacyGroups == {"time", "route", "caravan", "contract"}

IsLegacy(row) ==
  row.kind \in DOMAIN TickFields /\ TickFields[row.kind] \cap DOMAIN row.record = {}

(* The rows of a world as a version wrote them that lacked these groups.   *)
OlderRows(w, groups) ==
  LET kept == SelectSeq(Rows(w), LAMBDA row : ~("time" \in groups /\ row.kind = "time"))
  IN  [k \in DOMAIN kept |->
         IF kept[k].kind \in groups \cap DOMAIN TickFields THEN LegacyRow(kept[k]) ELSE kept[k]]

-----------------------------------------------------------------------------
(* review_simulation_world_state_save_format.                              *)

HasHeader(rows) == rows # << >> /\ rows[1].kind = Header

HasKind(rows, kind) == \E k \in DOMAIN rows : rows[k].kind = kind

Compatibility(rows) ==
  IF ~HasHeader(rows) THEN "unsupported"
  ELSE IF HasKind(rows, "time") /\ ~\E k \in DOMAIN rows : IsLegacy(rows[k]) THEN "current"
  ELSE "migratable_legacy"

Loadable(rows) == Compatibility(rows) # "unsupported"

(* A faulty variant: the clock is set to the number of the day.            *)
DerivedTimeInDays(rows) ==
  IF HasKind(rows, "day") THEN rows[SelectInSeq(rows, LAMBDA row : row.kind = "day")].n ELSE 0

(* The clock a save without one is given.                                  *)
DerivedTime(rows) ==
  IF HasKind(rows, "day")
  THEN DaysToTicks(rows[SelectInSeq(rows, LAMBDA row : row.kind = "day")].n)
  ELSE 0

(* migrate_simulation_world_state_content: the clock goes after the first  *)
(* row of a day, or before everything; legacy rows stay as they are.       *)
Migrated(rows) ==
  IF ~Loadable(rows) \/ HasKind(rows, "time") THEN rows
  ELSE InsertAt(rows, SelectInSeq(rows, LAMBDA row : row.kind = "day") + 1,
                [kind |-> "time", n |-> DerivedTime(rows)])

MigrationOk(rows) == Loadable(rows) /\ Loadable(Migrated(rows))

-----------------------------------------------------------------------------
(* compare_simulation_replay_diagnostics, with the validation it calls.    *)

(* The rows, equal ones told apart by their number: a sorted list.         *)
Numbered(rows) ==
  {<<rows[k], Cardinality({j \in 1 .. k : rows[j] = rows[k]})>> : k \in DOMAIN rows}

(* A faulty variant: the two lists of rows are only counted.               *)
MismatchesCounted(expected, actual) == AtMost(Len(expected) - AtMost(Len(expected), Len(actual)), 1)

(* Rows of either side that the other lacks, each as often as it lacks it: *)
(* both lists are sorted and merged.                                       *)
Mismatches(expected, actual) ==
  Cardinality(Numbered(expected) \ Numbered(actual)) +
    Cardinality(Numbered(actual) \ Numbered(expected))

Matches(expected, actual) ==
  /\ ValidWorld(expected) /\ ValidWorld(actual)
  /\ Mismatches(Rows(expected), Rows(actual)) = 0

-----------------------------------------------------------------------------
(* The ticks of a world that an older version would have lost are those of *)
(* its days.                                                               *)
CountsInDays(w, groups) ==
  /\ "time" \in groups => w.tick = DaysToTicks(w.day)
  /\ "route" \in groups => \A k \in DOMAIN w.routes : RouteTicks(w.routes[k]) = DaysToTicks(w.routes[k].days)
  /\ "caravan" \in groups =>
       \A p \in DOMAIN w.fleet :
         /\ TotalTicks(w.fleet[p]) = DaysToTicks(w.fleet[p].totalDays)
         /\ TicksLeft(w.fleet[p]) = DaysToTicks(w.fleet[p].daysLeft)
  /\ "contract" \in groups => \A i \in DOMAIN w.catalog : DueTicks(w.catalog[i]) = DaysToTicks(w.catalog[i].dueDay)

(* A save cut after its first rows and its migration load as the same      *)
(* world, or not at all, and migrating again adds nothing; one that loads  *)
(* but is refused by the migration is an empty world, cut before its day.  *)
CutKeepsWorld(cut) ==
  LET new    == Migrated(cut)
      before == Parsed(cut)
      after  == Parsed(new)
  IN  IF MigrationOk(cut)
      THEN new # cut =>
             /\ Accepted(after) <=> Accepted(before)
             /\ WithTime(after.world) = WithTime(before.world)
             /\ Migrated(new) = new
      ELSE Accepted(before) => before.world = NewWorld

(* Whatever an older version lacked: the save of a world that counted in   *)
(* days comes back as that world, and is current after the migration       *)
(* unless it has rows that only the reader understands.  Wherever the      *)
(* oldest form of a save was cut, the migration makes nothing else of it.  *)
MigrationKeepsWorld ==
  (call = NoCall /\ ValidWorld(World)) =>
    /\ \A groups \in SUBSET LegacyGroups :
         LET whole == OlderRows(World, groups)
         IN  /\ CountsInDays(World, groups) =>
                  LoadedFrom(Migrated(whole)) = World /\ MigrationOk(whole)
             /\ Compatibility(Migrated(whole)) = "current" <=>
                  ~\E k \in DOMAIN whole : IsLegacy(whole[k])
    /\ LET oldest == OlderRows(World, LegacyGroups)
       IN  \A k \in 0 .. Len(oldest) : CutKeepsWorld(SubSeq(oldest, 1, k))

StepShows == call = NoCall /\ call' = NoCall /\ World' # World => ~Matches(World, World')

(* The comparison of a run with its replay sees every step: no call of the *)
(* runtime changes the world into another that still matches it, although  *)
(* rows are compared without their order and without what is not written.  *)
EveryStepShows == [][StepShows]_persistVars
=============================================================================
