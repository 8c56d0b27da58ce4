----------------------------- MODULE MCRuntime -----------------------------
(***************************************************************************)
(* Small instances of Runtime.  "grain" is a resource of the registry and  *)
(* "relic" is not: cargo may hold it, a settlement may not.                *)
(***************************************************************************)
EXTENDS RuntimeEvents

LOCAL INSTANCE TLC

MCGoods(grain, relic) == [r \in Resource |-> IF r = "grain" THEN grain ELSE relic]

MCRoute(id, from, to, days, ticks) ==
  [id |-> id, origin |-> from, destination |-> to, days |-> days, ticks |-> ticks]

MCWorld(places, stocks, roads, folk) ==
  [settlements |-> places, stores |-> stocks, routes |-> roads, factions |-> folk]

MCStores(grain) ==
  [s \in SettlementId |-> IF s = "mill" THEN MCGoods(grain, 0) ELSE EmptyStorage]

MCOffer(id, quantity, reward, ticks) ==
  [id |-> id, issuer |-> "guild", receiver |-> "crown", resource |-> "grain",
   quantity |-> quantity, reward |-> reward, dueDay |-> 0, dueTicks |-> ticks,
   status |-> "open"]

MCOrder == <<"grain", "relic">>

MCOneOrder == <<"grain">>

MCDepots == {EmptyStorage}

MCNoFleet == {<< >>}

MCNoAppetite == [s \in SettlementId |-> 0]

MCMillEats == [s \in SettlementId |-> IF s = "mill" THEN 1 ELSE 0]

-----------------------------------------------------------------------------
(* Goods: two caravans on one road, the port still to be founded.  One     *)
(* route of the offers leads nowhere, one has no length, one contradicts   *)
(* itself and can carry no caravan.                                        *)
MCGoodsRoutes ==
  {MCRoute("road", "mill", "port", 0, 2), MCRoute("road", "port", "mill", 1, 2),
   MCRoute("lane", "mill", "mill", 0, 1), MCRoute("lane", "mill", "port", 0, 0),
   MCRoute("lane", "port", "mill", 1, 0)}

MCCargoes == {MCGoods(0, 0), MCGoods(1, 1), MCGoods(1, 0)}

MCGoodsWorlds == {MCWorld({"mill"}, MCStores(1), << >>, {})}

MCNoOffers == {}

-----------------------------------------------------------------------------
(* Arrivals: the registry knows no resource, so that goods stay where they *)
(* are and only time, caravans and contracts move.                         *)
MCArrivalRoads == <<MCRoute("road", "mill", "port", 0, 2), MCRoute("lane", "mill", "port", 0, 3)>>

MCArrivalWorlds == {MCWorld({"mill", "port"}, MCStores(0), MCArrivalRoads, {"guild", "crown"})}

MCArrivalOffers == {MCOffer("c1", 2, 2, 2), MCOffer("c2", 1, 1, 3)}

MCArrivalFleets ==
  {<<CaravanForRoute(MCArrivalRoads[k], v, MCGoods(2, 0)),
     CaravanForRoute(MCArrivalRoads[3 - k], w, MCGoods(2, 0))>> :
     k \in {1, 2}, <<v, w>> \in {p \in CaravanId \X CaravanId : p[1] # p[2]}}

(* Caravan ids are only compared, and every property here is a safety one. *)
MCCaravanSymmetry == Permutations(CaravanId)
=============================================================================
