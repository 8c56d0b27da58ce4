------------------------------ MODULE Caravans ------------------------------
(***************************************************************************)
(* Routes and the caravans that travel them.  A caravan carries two        *)
(* clocks, in days and in ticks; the tick clock is the one that moves it   *)
(* and the day clock is recomputed from it, rounded down.                  *)
(***************************************************************************)
EXTENDS Storage

CONSTANTS
  CaravanId,     (* ids a caravan may have                                   *)
  RouteId,       (* ids a route may have                                     *)
  SettlementId   (* ids a settlement may have                                *)

Routes ==
  [id : RouteId, origin : SettlementId, destination : SettlementId,
   days : U64, ticks : U64]

Caravans ==
  [id : CaravanId, route : RouteId,
   origin : SettlementId, destination : SettlementId,
   totalDays : U64, daysLeft : U64, totalTicks : U64, ticksLeft : U64,
   cargo : Storages]

(* A tick field that is not set falls back on the day field.               *)
TicksOr(ticks, days) == IF ticks > 0 THEN ticks ELSE DaysToTicks(days)

RouteTicks(route) == TicksOr(route.ticks, route.days)

TotalTicks(c) == TicksOr(c.totalTicks, c.totalDays)

TicksLeft(c) == TicksOr(c.ticksLeft, c.daysLeft)

Arrived(c) == TicksLeft(c) = 0

AtOrigin(c) == TicksLeft(c) = TotalTicks(c)

(* Two clocks that are both set must agree.                                *)
SameTravel(days, ticks) == days > 0 /\ ticks > 0 => ticks = DaysToTicks(days)

(* validate_settlement_route_for_settlements.                              *)
ValidRoute(route, places) ==
  /\ route.origin # route.destination
  /\ RouteTicks(route) > 0
  /\ {route.origin, route.destination} \subseteq places

(* validate_caravan.                                                       *)
ValidCaravan(c) ==
  /\ c.origin # c.destination
  /\ TotalTicks(c) > 0
  /\ TicksLeft(c) <= TotalTicks(c)
  /\ SameTravel(c.totalDays, c.totalTicks)
  /\ SameTravel(c.daysLeft, c.ticksLeft)

(* create_caravan_for_route.                                               *)
CaravanForRoute(route, id, cargo) ==
  [id |-> id, route |-> route.id,
   origin |-> route.origin, destination |-> route.destination,
   totalDays |-> route.days, daysLeft |-> route.days,
   totalTicks |-> RouteTicks(route), ticksLeft |-> RouteTicks(route),
   cargo |-> cargo]

(* advance_caravan_ticks.                                                  *)
Advance(c, ticks) ==
  LET after == TicksLeft(c) - AtMost(TicksLeft(c), ticks)
  IN  [c EXCEPT !.ticksLeft = after, !.daysLeft = after \div TicksPerDay]

(* The advance report says the caravan arrived in this very step.          *)
ArrivesWithin(c, ticks) == AtMost(TicksLeft(c), ticks) > 0 /\ Arrived(Advance(c, ticks))

(* validate_caravan_for_route.                                             *)
MatchesRoute(c, route) ==
  /\ ValidCaravan(c)
  /\ c.route = route.id
  /\ c.origin = route.origin
  /\ c.destination = route.destination
  /\ TotalTicks(c) = RouteTicks(route)
=============================================================================
