-------------------------- MODULE ContractEconomy --------------------------
(***************************************************************************)
(* The advice a host asks for before it acts on a contract: the economic   *)
(* assessment and the two resource flow plans of EconomyDepth, with the    *)
(* standing of factions they look at.  They read the state and change      *)
(* nothing; what they promise is about the calls of module Contracts.      *)
(***************************************************************************)
EXTENDS Contracts, Integers

CONSTANT
  Standings   (* FactionCatalog::reputations, as functions of two factions   *)

ASSUME EconomyAssumption == Standings \subseteq [Faction \X Faction -> Int]

(* classify_faction_access, and what make_faction_access_report allows two *)
(* known factions that differ.                                             *)
AccessLevel(reputation) ==
  CASE reputation <= -75 -> "blocked"
    [] reputation > -75 /\ reputation < 0 -> "restricted"
    [] reputation >= 75 -> "allied"
    [] reputation >= 25 /\ reputation < 75 -> "trusted"
    [] OTHER -> "neutral"

CanIssueContract(standing, from, to) ==
  AccessLevel(standing[from, to]) \notin {"blocked", "restricted"}

CanReceiveContract(standing, from, to) == AccessLevel(standing[from, to]) # "blocked"

-----------------------------------------------------------------------------
(* A faulty variant: the due tick itself counts as too late.               *)
TicksUntilDueExclusive(c, t) == IF t >= DueTicks(c) THEN 0 ELSE DueTicks(c) - t - 1

TicksUntilDue(c, t) ==
  IF IsOverdue(c, t) \/ t >= DueTicks(c) THEN 0 ELSE DueTicks(c) - t

MissingFrom(goods, c) == c.quantity - AtMost(goods[c.resource], c.quantity)

AcceptedByFactions(c, standing) ==
  /\ CanIssueContract(standing, c.issuer, c.receiver)
  /\ CanReceiveContract(standing, c.issuer, c.receiver)

(* make_contract_economy_assessment: deliverable.                          *)
DeliverableContract(c, t, goods, standing) ==
  /\ IsOpen(c)
  /\ ~IsOverdue(c, t)
  /\ AcceptedByFactions(c, standing)
  /\ MissingFrom(goods, c) = 0

(* plan_contract_flow_from_storage: can_fulfill.                           *)
StoragePlan(c, goods) == IsOpen(c) /\ MissingFrom(goods, c) = 0

(* A faulty variant: an owner that is not asked for must match too.        *)
CaravanPlanAlwaysOwned(c, p, faction) ==
  /\ IsOpen(c)
  /\ Arrived(fleet[p])
  /\ owner[fleet[p].id] = faction
  /\ MissingFrom(fleet[p].cargo, c) = 0

(* plan_contract_flow_from_caravan: can_fulfill.  No expected owner means  *)
(* that any will do.                                                       *)
CaravanPlan(c, p, faction) ==
  /\ IsOpen(c)
  /\ Arrived(fleet[p])
  /\ faction = NoFaction \/ owner[fleet[p].id] = faction
  /\ MissingFrom(fleet[p].cargo, c) = 0

(* make_contract_lifecycle_summary: overdue_open_contract_ids.             *)
OverdueIn(cat, t) == {i \in DOMAIN cat : cat[i].status = "open" /\ t > 0 /\ t > DueTicks(cat[i])}

-----------------------------------------------------------------------------
(* The forecast of a deadline is exact: an advance of n ticks fails an     *)
(* open contract if and only if the assessment said that it is overdue or  *)
(* that it has fewer ticks left than that, except where the deadline is    *)
(* the last tick the clock can show and so never passes; and the contracts *)
(* the lifecycle summary counts as overdue are those a sweep now fails.    *)
DeadlineForecast ==
  /\ \A i \in DOMAIN catalog : IsOpen(catalog[i]) =>
       \A n \in U64 :
         FailedAt(AdvanceTime(tick, n))[i].status = "failed" <=>
           \/ IsOverdue(catalog[i], tick)
           \/ n > TicksUntilDue(catalog[i], tick) /\ DueTicks(catalog[i]) < MaxU64
  /\ OverdueIn(catalog, tick) = {i \in DOMAIN catalog : FailedAt(tick)[i] # catalog[i]}

(* A plan is right about the call it plans: the host's storage, a caravan, *)
(* or a caravan with the owner asked for settles the contract, unpaid, if  *)
(* and only if the plan says that it can.  A contract is assessed as       *)
(* deliverable if and only if a host that sweeps the deadlines first can   *)
(* settle it at once and the factions accept it.                           *)
PlansComeTrue ==
  \A i \in DOMAIN catalog :
    /\ \A standing \in Standings :
         DeliverableContract(catalog[i], tick, depot, standing) <=>
           /\ CanSettle(i, depot, "plain")
           /\ FailedAt(tick)[i] = catalog[i]
           /\ AcceptedByFactions(catalog[i], standing)
    /\ StoragePlan(catalog[i], depot) <=> CanSettle(i, depot, "plain")
    /\ \A p \in DOMAIN fleet :
         /\ CaravanPlan(catalog[i], p, NoFaction) <=> CanSettleFromCaravan(i, p, "plain")
         /\ \A faction \in Faction :
              CaravanPlan(catalog[i], p, faction) <=>
                OwnedBy(p, faction) /\ CanSettleFromCaravan(i, p, "plain")

(* What the library says about a contract before any call is what its      *)
(* calls then do.                                                          *)
AdviceHolds == DeadlineForecast /\ PlansComeTrue
=============================================================================
