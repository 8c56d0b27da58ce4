-------------------------- MODULE MCServerActions --------------------------
(***************************************************************************)
(* Small instances of ServerActions: the owner of the mill, the server's   *)
(* admin, and commands that move goods or days.                            *)
(***************************************************************************)
EXTENDS ServerActions

MCActor(name, faction, admin, time) ==
  [actor |-> name, player |-> name, faction |-> faction, admin |-> admin, tool |-> FALSE,
   time |-> time, resources |-> {}, actions |-> {}]

(* ann's faction owns the mill, root administers and may do everything.    *)
MCActors ==
  {MCActor("ann", "guild", FALSE, TRUE), MCActor("root", NoFaction, TRUE, FALSE)}

MCCommand(name, type, target, other, amount) ==
  [type |-> type, actor |-> name, player |-> name, target |-> target, other |-> other,
   resource |-> "grain", amount |-> amount]

MCCommands ==
  {MCCommand("ann", "add_resource", "mill", Elsewhere, 2),
   MCCommand("ann", "remove_resource", "mill", Elsewhere, 1),
   MCCommand("root", "transfer_resource", "mill", "port", 1),
   MCCommand("ann", "advance_days", Elsewhere, Elsewhere, 1),
   MCCommand("root", "add_resource", "mill", Elsewhere, 0)}

MCPolicy ==
  [maxAge |-> 1, actorMatch |-> TRUE, ownedTarget |-> TRUE, adminMutation |-> TRUE,
   rules |-> DefaultMatrix]

MCStores == [s \in SettlementId |-> [r \in Resource |-> 1]]

MCOwners == [s \in SettlementId |-> IF s = "mill" THEN "guild" ELSE NoFaction]

MCAppetite == [s \in SettlementId |-> IF s = "port" THEN 1 ELSE 0]
=============================================================================
