---------------------------- MODULE MCContracts ----------------------------
(***************************************************************************)
(* Small instances of Contracts: one resource, two contracts, two factions,*)
(* one caravan and the host's depot, on a type so narrow that a wallet     *)
(* fills up, the ledger runs out of sequence numbers and the clock stops   *)
(* within a few calls.                                                     *)
(***************************************************************************)
EXTENDS Accounts

MCOffer(id, quantity, reward, days, ticks) ==
  [id |-> id, issuer |-> "guild", receiver |-> "crown", resource |-> "grain",
   quantity |-> quantity, reward |-> reward, dueDay |-> days, dueTicks |-> ticks,
   status |-> "open"]

(* Two offers for the first id, due in days and in ticks, one for the      *)
(* second, and three that add_contract has to refuse.                      *)
MCOffers ==
  {MCOffer("c1", 1, 2, 1, 0), MCOffer("c1", 2, 1, 0, 1), MCOffer("c2", 1, 1, 0, 3),
   MCOffer("c2", 0, 1, 0, 3), MCOffer("c2", 1, 1, 1, 3),
   [MCOffer("c2", 1, 1, 0, 3) EXCEPT !.status = "fulfilled"]}

MCGrain(n) == [r \in Resource |-> IF r = "grain" THEN n ELSE 0]

MCCaravan(id, ticks, grain) ==
  CaravanForRoute([id |-> "road", origin |-> "mill", destination |-> "port", days |-> 0, ticks |-> ticks],
                  id, MCGrain(grain))

(* One caravan on the road, with the goods of both contracts and one more. *)
MCFleets == {<<MCCaravan("v1", 2, 3)>>}

MCDepots == {MCGrain(1)}

(* The issuer's opinion of the receiver, at both sides of every threshold. *)
MCStandings ==
  {[pair \in Faction \X Faction |-> IF pair[1] = "guild" THEN r ELSE 0] :
     r \in {-100, -75, -74, -1, 0, 24, 25, 74, 75}}

=============================================================================
