---------------------------- MODULE MCSettlement ----------------------------
(***************************************************************************)
(* A small instance of Settlement: a farm that makes grain from nothing, a *)
(* sawmill that makes planks from wood, and a ruin the registry does not   *)
(* know; nine people, who eat two units a day.                              *)
(***************************************************************************)
EXTENDS Development

MCDefinitions ==
  [b \in {"farm", "sawmill"} |->
     IF b = "farm" THEN [slots |-> 1, inputs |-> << >>, outputs |-> <<"grain">>]
     ELSE [slots |-> 2, inputs |-> <<"wood">>, outputs |-> <<"plank">>]]

MCBuilding(definition, workers) == [definition |-> definition, workers |-> workers]

MCStore(grain, wood, plank) ==
  [r \in Resource |-> CASE r = "grain" -> grain [] r = "wood" -> wood [] r = "plank" -> plank]

(* Stores with room, and one where the planks are at their limit.          *)
MCStores == {MCStore(2, 2, 0), MCStore(0, 2, MaxU64 - 1)}

(* A save may hold a building whose definition is gone, or with more       *)
(* workers than it has slots by now.                                       *)
MCInitialBuildings ==
  {<<MCBuilding("sawmill", 1)>>, <<MCBuilding("ruin", 1), MCBuilding("sawmill", 3)>>}

MCNewBuildings ==
  {MCBuilding("farm", 1), MCBuilding("sawmill", 2), MCBuilding("farm", 2)}

(* Prices near the limit of the type and far from it.                      *)
MCBases == [r \in Resource |-> CASE r = "grain" -> 3 [] r = "wood" -> 0 [] r = "plank" -> MaxU64]

MCDemandOffers == {<<"grain", 4>>, <<"plank", 2>>}
=============================================================================
