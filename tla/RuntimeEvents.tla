--------------------------- MODULE RuntimeEvents ---------------------------
(***************************************************************************)
(* The reports a run of the runtime returns, and the event log a host      *)
(* makes of them.  Nothing here changes the runtime: reports and logs are  *)
(* functions of the state a call starts in and of its arguments, so the    *)
(* properties speak of every call the host might make next.                *)
(*                                                                         *)
(* An event is its tick, its type and what it is about: the days or ticks  *)
(* completed, a caravan, or a contract.                                    *)
(***************************************************************************)
EXTENDS Runtime

LOCAL INSTANCE SequencesExt
LOCAL INSTANCE FiniteSetsExt

EventTypes ==
  {"day.completed", "tick.completed", "caravan.progress", "caravan.arrived",
   "caravan.cargo_delivered", "contract.fulfilled", "contract.failed"}

Event(t, type, about) == [tick |-> t, type |-> type, about |-> about]

-----------------------------------------------------------------------------
(* Reports.  The state after the k-th step of a run is that of the same    *)
(* run cut off there.                                                      *)

TickStates(total, step, untilArrival) ==
  LET steps == (TickRun(total, step, untilArrival).elapsed + step - 1) \div step
  IN  [k \in 0 .. steps |-> TickRun(AtMost(k * step, total), step, untilArrival)]

DayStates(days, untilArrival) ==
  [k \in 0 .. DayRun(days, untilArrival).elapsed \div TicksPerDay |-> DayRun(k, untilArrival)]

(* A faulty variant: the sweep reports whatever is late.                   *)
LateIn(cat, t) == SelectSeq(cat, LAMBDA c : IsLate(c, t))

(* failed_contract_ids.                                                    *)
SweptIn(cat, t) == SelectSeq(cat, LAMBDA c : IsOverdue(c, t))

(* SimulationRuntimeTickReport, and SimulationRuntimeDayReport of days.    *)
Report(s, t) ==
  [tick    |-> t.tick,
   day     |-> t.day,
   elapsed |-> t.elapsed - s.elapsed,
   at      |-> [p \in DOMAIN t.fleet |-> Arrived(t.fleet[p])],
   arrived |-> t.arrived,
   failed  |-> SweptIn(s.catalog, t.tick)]

Reports(states) ==
  [k \in DOMAIN states \ {0} |-> Report(states[k - 1], states[k])]

(* summarize_runtime_tick_reports: caravan_arrivals.                       *)
ArrivalsCounted(reports) ==
  MapThenSumSet(LAMBDA k : Cardinality(reports[k].arrived), DOMAIN reports)

-----------------------------------------------------------------------------
(* The log.                                                                *)

CompletedEvent(r, unit) ==
  Event(r.tick, unit \o ".completed", IF unit = "day" THEN r.day ELSE r.elapsed)

CaravanEvents(r) ==
  [p \in DOMAIN r.at |->
     Event(r.tick, IF r.at[p] THEN "caravan.arrived" ELSE "caravan.progress", fleet[p].id)]

FailedEvents(r) ==
  [n \in DOMAIN r.failed |-> Event(r.tick, "contract.failed", r.failed[n].id)]

(* append_runtime_tick_report_events and its day variant.                  *)
ReportEvents(r, unit) == <<CompletedEvent(r, unit)>> \o CaravanEvents(r) \o FailedEvents(r)

(* append_runtime_run_events.                                              *)
RunEvents(reports, unit) ==
  FlattenSeq([k \in DOMAIN reports |-> ReportEvents(reports[k], unit)])

(* fulfilled_contract_event_tick; a settlement follows an arrival, so the  *)
(* run has at least one report.                                            *)
FulfilledTick(reports) == reports[Len(reports)].tick

(* The contract that fulfill_first_... would settle at the end of a run.   *)
SettledAfter(s, f) ==
  LET p  == Settling(s, f).caravan
      Ok(c) == /\ IsOpen(c) /\ OwnedBy(p, f)
               /\ CanTake(s.fleet[p].cargo, c.resource, c.quantity)
               /\ CanAdd(wallet, c.reward)
               /\ CanRecordReward(ledger, c.quantity, c.reward)
  IN  IF s.arrived = {} THEN << >> ELSE SelectSeq(s.catalog, Ok)

(* append_runtime_arrival_contract_events and its tick variant.            *)
ArrivalEvents(run, unit, f) ==
  LET settled == SettledAfter(run.end, f)
  IN  RunEvents(run.reports, unit) \o
        IF settled = << >> THEN << >>
        ELSE <<Event(FulfilledTick(run.reports), "contract.fulfilled", settled[1].id)>>

(* append_runtime_caravan_cargo_delivery_event: only a delivery that moved *)
(* something is logged.                                                    *)
DeliveryEvents(p) ==
  IF CargoTotal(fleet[p].cargo) = 0 THEN << >>
  ELSE <<Event(tick, "caravan.cargo_delivered",
               [caravan |-> fleet[p].id, destination |-> fleet[p].destination,
                total |-> CargoTotal(fleet[p].cargo)])>>

Aboard(s, r, aboard) ==
  MapThenSumSet(LAMBDA p : fleet[p].cargo[r], {p \in aboard : fleet[p].destination = s})

(* validate_runtime_bulk_cargo_delivery_result_for_runtime, of the result  *)
(* of a bulk delivery that went through.                                   *)
BulkAccepted ==
  LET delivered == {p \in DOMAIN fleet : Deliverable(fleet[p])}
  IN  /\ \A p \in delivered : IsEmpty(Bulk.fleet[p].cargo)
      /\ \A s \in SettlementId, r \in Resource : Bulk.stores[s][r] >= Aboard(s, r, delivered)

(* A faulty variant: every arrived caravan is said to have delivered.      *)
BulkEventsOfArrived ==
  IF ~(Bulk.go /\ BulkAccepted) THEN << >>
  ELSE FlattenSeq([p \in DOMAIN fleet |->
         IF Arrived(fleet[p]) THEN <<Event(tick, "caravan.cargo_delivered",
           [caravan |-> fleet[p].id, destination |-> fleet[p].destination,
            total |-> CargoTotal(fleet[p].cargo)])>> ELSE << >>])

BulkEvents ==
  IF ~(Bulk.go /\ BulkAccepted) THEN << >>
  ELSE FlattenSeq([p \in DOMAIN fleet |->
         IF Deliverable(fleet[p]) THEN DeliveryEvents(p) ELSE << >>])

-----------------------------------------------------------------------------
(* validate_runtime_event_log: order, types and payloads.                  *)
ValidLog(log) ==
  /\ \A k \in DOMAIN log \ {1} : log[k].tick >= log[k - 1].tick
  /\ \A k \in DOMAIN log :
       /\ log[k].type \in EventTypes
       /\ log[k].type = "tick.completed" => log[k].about > 0
       /\ log[k].type = "caravan.cargo_delivered" => log[k].about.total > 0

(* Every run the host might start now: the states it passes, its reports   *)
(* and its log.  A step longer than the whole span is cut to the span.     *)
Run(states) ==
  [states |-> states, reports |-> Reports(states), end |-> states[Len(Reports(states))]]

TickRuns(untilArrival) ==
  {Run(TickStates(n, step, untilArrival)) :
     <<n, step>> \in {span \in U64 \X U64 : 0 < span[2] /\ span[2] <= span[1]}}

DayRuns(untilArrival) == {Run(DayStates(n, untilArrival)) : n \in U64}

Logged(run, log) == [run |-> run, log |-> log]

Calls ==
  {Logged(run, RunEvents(run.reports, "tick")) : run \in TickRuns(FALSE)}
  \cup {Logged(run, RunEvents(run.reports, "day")) : run \in DayRuns(FALSE)}
  \cup {Logged(run, ArrivalEvents(run, "tick", f)) : run \in TickRuns(TRUE), f \in Faction}
  \cup {Logged(run, ArrivalEvents(run, "day", f)) : run \in DayRuns(TRUE), f \in Faction}

About(log, types, about) == {k \in DOMAIN log : log[k].type \in types /\ log[k].about = about}

ContractEvents == {"contract.failed", "contract.fulfilled"}

(* The log of every run passes its validation and tells the fate of every  *)
(* contract once and right: a contract the run failed has one event, dated *)
(* the first step after which it had failed, also if the run went on; the  *)
(* one settled has one event, dated the end of the run, and had not failed *)
(* before it; any other has none.                                          *)
LogTellsContracts ==
  call = NoCall =>
    \A c \in Calls :
      /\ ValidLog(c.log)
      /\ \A i \in DOMAIN catalog :
           LET told == About(c.log, ContractEvents, catalog[i].id)
               failed == {k \in DOMAIN c.run.states : c.run.states[k].catalog[i] # catalog[i]}
           IN  IF failed # {}
               THEN \E k \in DOMAIN c.log :
                      /\ told = {k} /\ c.log[k].type = "contract.failed"
                      /\ c.log[k].tick = c.run.states[Min(failed)].tick
               ELSE \/ told = {}
                    \/ /\ told = {Len(c.log)} /\ c.log[Len(c.log)].type = "contract.fulfilled"
                       /\ c.log[Len(c.log)].tick = c.run.end.tick
                       /\ IsOpen(catalog[i]) /\ c.run.end.arrived # {}

(* A caravan on the road is in progress for as many steps as end before it *)
(* has covered its way, and said to have arrived from then on; the reports *)
(* count each arrival once, and a caravan that stands at its destination   *)
(* never again, although the log goes on saying that it arrived.           *)
LogTellsArrivals ==
  call = NoCall =>
    \A c \in Calls :
      /\ \A p \in DOMAIN fleet :
           LET id == fleet[p].id
               late == About(c.log, {"caravan.arrived"}, id)
               early == About(c.log, {"caravan.progress"}, id)
               short == {k \in DOMAIN c.run.states \ {0} : c.run.states[k].elapsed < TicksLeft(fleet[p])}
           IN  /\ Cardinality(early) = Cardinality(short)
               /\ Cardinality(late) = Len(c.run.reports) - Cardinality(short)
               /\ \A k \in early, l \in late : k < l
      /\ ArrivalsCounted(c.run.reports) =
           Cardinality({p \in DOMAIN fleet : ~Arrived(fleet[p]) /\ Arrived(c.run.end.fleet[p])})

(* The log of any run the host may start is a true account of it.          *)
LogTellsTheRun == LogTellsContracts /\ LogTellsArrivals

(* A bulk delivery that goes through passes its own validation, and its    *)
(* log accounts for every unit that reached a settlement: one event for    *)
(* each caravan that unloaded, of what it unloaded.  One that stops at a   *)
(* caravan logs nothing, although earlier caravans have unloaded.          *)
DeliveriesLogged ==
  LET bulk == Bulk
      log  == BulkEvents
      Gain(s) == MapThenSumSet(LAMBDA r : bulk.stores[s][r] - stores[s][r], Resource)
      Told(s) == MapThenSumSet(LAMBDA k : log[k].about.total,
                               {k \in DOMAIN log : log[k].about.destination = s})
  IN  bulk.go => ValidLog(log) /\ \A s \in SettlementId : Gain(s) = Told(s)
=============================================================================
