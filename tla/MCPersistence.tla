--------------------------- MODULE MCPersistence ---------------------------
(***************************************************************************)
(* Small instances of Persistence: one caravan, one contract, one road.    *)
(***************************************************************************)
EXTENDS Migration

MCGrain(n) == [r \in Resource |-> n]

MCRoad(days, ticks) ==
  [id |-> "road", origin |-> "mill", destination |-> "port", days |-> days, ticks |-> ticks]

MCWorldOn(road, grain) ==
  [settlements |-> {"mill", "port"}, routes |-> <<road>>, factions |-> {"guild", "crown"},
   stores |-> [s \in SettlementId |-> MCGrain(IF s = "mill" THEN grain ELSE 0)]]

MCOffers ==
  {[id |-> "c1", issuer |-> "guild", receiver |-> "crown", resource |-> "grain",
    quantity |-> 1, reward |-> 1, dueDay |-> 1, dueTicks |-> 0, status |-> "open"]}

MCOrder == <<"grain">>

MCNoAppetite == [s \in SettlementId |-> 0]

MCDepots == {EmptyStorage}

MCCargoes == {MCGrain(1)}

MCShortWorlds == {MCWorldOn(MCRoad(1, 2), 1)}

MCLongWorlds == {MCWorldOn(MCRoad(2, 4), 1)}

(* A caravan about to set out, or none.                                    *)
MCFleets == {<<CaravanForRoute(MCRoad(1, 2), "v1", MCGrain(1))>>, << >>}

MCShortFleets == {f \in MCFleets : f # << >>}

MCNoFleet == {<< >>}

-----------------------------------------------------------------------------
(* Two scenes.  "files": a road of one day of two ticks and a caravan about*)
(* to set out.  The host makes only the calls that tell saves apart: the   *)
(* contract, its owner, the clock tick by tick and the settlement; where a *)
(* copy left its save in pieces, it loads, saves or dies before it goes on.*)
(* "worlds": goods in the stores and every call of the runtime, the file   *)
(* system idle.                                                            *)
VARIABLE scene

MCHostCall ==
  /\ phase = "idle"
  /\ saved = NoFile \/ IsWhole(saved)
  /\ \/ \E offer \in Offers : AddRuntimeContract(offer)
     \/ \E p \in DOMAIN fleet : SetRuntimeCaravanOwner(p, "crown") \/ FulfillFirst(p, "crown")
     \/ tick < 2 /\ RunTicks(1, 1)
  /\ UNCHANGED <<call, fileVars>>

MCFiles ==
  \/ MCHostCall
  \/ SaveStep
  \/ LoadSave(saved)
  \/ Crash /\ fleet' \in MCShortFleets

MCWorlds == RuntimeNext /\ UNCHANGED fileVars

MCInit == PersistInit /\ scene = IF fleet = << >> THEN "worlds" ELSE "files"

MCNext ==
  /\ \/ scene = "files" /\ MCFiles
     \/ scene = "worlds" /\ MCWorlds
  /\ UNCHANGED scene

MCSpec == MCInit /\ [][MCNext]_<<persistVars, scene>>
=============================================================================
