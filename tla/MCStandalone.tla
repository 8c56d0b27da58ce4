---------------------------- MODULE MCStandalone ----------------------------
(***************************************************************************)
(* Small instances of the parts of the engine that share no state: one run *)
(* takes one of them and leaves the others as they are at the start.       *)
(***************************************************************************)
EXTENDS Orders, LargeWorld, DataPacks, WorldHandle, Snapshots

VARIABLE part

(* Orders: every pair of short books over a handful of orders: bids and    *)
(* offers of one resource that tie, cross and miss each other, a second    *)
(* resource at the same price, and the three kinds of invalid order.       *)
MCOrder(good, quantity, limit) == [good |-> good, quantity |-> quantity, limit |-> limit]

MCOrders ==
  {MCOrder("grain", q, p) : q \in {1, 2}, p \in {1, 2, 3}}
    \cup {MCOrder("salt", 2, 2), MCOrder("grain", 3, 3), MCOrder(NoGood, 1, 2), MCOrder("grain", 0, 2)}

MCLists(n, orders) == UNION {[1 .. k -> orders] : k \in 0 .. n}

MCBooks ==
  [buys : MCLists(2, MCOrders), sells : MCLists(2, MCOrders)]
    \cup [buys : {<<MCOrder("grain", 1, 3), MCOrder("grain", 2, 3), MCOrder("salt", 2, 2)>>},
          sells : MCLists(3, {MCOrder("grain", 1, 2), MCOrder("grain", 2, 2), MCOrder("salt", 2, 1)})]

MCRank == [g \in Good |-> IF g = "grain" THEN 1 ELSE 2]

-----------------------------------------------------------------------------
(* The catalog of a large world: two regions, the id of one a part of the  *)
(* other's, two settlements and a route; saves that lack an object.        *)
MCObject == [k \in Kind |-> IF k = "settlement" THEN {"mill", "port"} ELSE IF k = "route" THEN {"road"} ELSE {}]

MCPartOf == {<<"north", "northeast">>}

MCFeatureConfigs ==
  {[region |-> "north", enabled |-> e] : e \in {{}, {"market"}, {""}}}

MCRegionLinks == {[region |-> "northeast", dependency |-> "market", enabled |-> b] : b \in BOOLEAN}

MCReferences == {[id |-> "x1", source |-> "north", target |-> "northeast"]}

MCLoadable ==
  {[k \in Kind |-> {}], [k \in Kind |-> MCObject[k] \ {"port"}]}

-----------------------------------------------------------------------------
(* Packs: resources, a building that needs a profession of another file,   *)
(* a definition that disagrees with an earlier one, a repeated key, another*)
(* schema, numbers out of range, records without a section.                *)
MCHeader(name) == [kind |-> "section", name |-> name]

MCPair(key, value) == [kind |-> "pair", key |-> key, value |-> value]

MCSchema == MCPair("schema_version", "0.2.2")

MCResource(id, name, value) ==
  <<MCHeader("resource"), MCPair("id", id), MCPair("display_name", name), MCPair("base_value", value)>>

MCNamed(section, id) == <<MCHeader(section), MCPair("id", id), MCPair("display_name", id)>>

MCFarm ==
  MCNamed("building", "farm") \o
    <<MCPair("worker_slots", "some"), MCPair("required_profession_id", "farmer"),
      [kind |-> "pair", key |-> "output_resource_ids", value |-> {"grain"}]>>

MCBasics == <<MCSchema>> \o MCResource("grain", "Grain", "some") \o MCNamed("profession", "farmer")

MCRival == <<MCSchema>> \o MCResource("grain", "Barley", "some") \o MCResource("iron", "Iron", "some")

MCFiles ==
  {MCBasics, <<MCSchema>> \o MCFarm, MCRival,
   <<MCSchema>> \o MCResource("iron", "Iron", "some") \o <<MCPair("id", "iron")>>,
   <<MCPair("schema_version", "0.2.1")>> \o MCResource("iron", "Iron", "some"),
   <<MCSchema>> \o MCNamed("guild", "masons"),
   <<MCSchema>> \o MCNamed("currency", "florin") \o <<MCPair("fractional_digits", "many")>>
     \o MCResource("iron", "Iron", "zero") \o MCNamed("settlement", "mill")
     \o <<MCPair("starting_population", "some")>>,
   MCResource("iron", "Iron", "some") \o <<MCHeader(""), MCSchema>>,
   <<MCSchema, [kind |-> "neither"]>>}

MCDirectories ==
  {<<MCBasics, <<MCSchema>> \o MCFarm>>, <<<<MCSchema>> \o MCFarm, MCBasics>>, <<MCBasics, MCRival>>, <<MCRival, MCBasics>>}

MCRecord(id, name) == [key \in {"id", "display_name"} |-> IF key = "id" THEN id ELSE name]

MCDirectly ==
  {[section |-> "resource", record |-> MCRecord("iron", "Iron ore")],
   [section |-> "profession", record |-> MCRecord("farmer", "Farmer")]}

-----------------------------------------------------------------------------
(* Snapshots: two towns that eat, a resource the registry does not know,   *)
(* states restored near the last day and with nearly full stores.          *)
MCAlphabet == <<"grain", "relic", "salt">>

MCAppetite == [town \in Town |-> IF town = "mill" THEN 1 ELSE 2]

MCBaseValues == [r \in {"grain", "salt"} |-> IF r = "grain" THEN 3 ELSE 0]

MCTown(id, grain, relic) ==
  [id |-> id, stock |-> [r \in Resource |-> CASE r = "grain" -> grain [] r = "relic" -> relic [] OTHER -> 0]]

MCEngine(day, towns) ==
  [day |-> day, towns |-> towns, demands |-> [r \in Resource |-> 0], events |-> << >>]

MCEngineStates ==
  {MCEngine(MaxU64 - 1, <<MCTown("port", 4, 0), MCTown("mill", 4, 0)>>),
   MCEngine(1, <<MCTown("mill", 2, 1)>>),
   MCEngine(1, <<MCTown("mill", 2, 0), MCTown("mill", 1, 0)>>)}

MCDemands == {<<"salt", 2>>, <<"relic", 1>>}

-----------------------------------------------------------------------------
OrdersStill == OrdersInit /\ submitted = [buys |-> << >>, sells |-> << >>]

LargeWorldStill == LargeWorldInit /\ objects = [k \in Kind |-> {}]

MCInit ==
  /\ part \in {"orders", "regions", "packs", "handles", "snapshots"}
  /\ IF part = "orders" THEN OrdersInit ELSE OrdersStill
  /\ IF part = "regions" THEN LargeWorldInit ELSE LargeWorldStill
  /\ DataPacksInit
  /\ WorldHandleInit
  /\ SnapshotsInit

MCNext ==
  /\ \/ part = "orders" /\ OrdersNext /\ UNCHANGED <<largeWorldVars, packVars, handleVars, engineVars>>
     \/ part = "regions" /\ LargeWorldNext /\ UNCHANGED <<orderVars, packVars, handleVars, engineVars>>
     \/ part = "packs" /\ DataPacksNext /\ UNCHANGED <<orderVars, largeWorldVars, handleVars, engineVars>>
     \/ part = "handles" /\ WorldHandleNext /\ UNCHANGED <<orderVars, largeWorldVars, packVars, engineVars>>
     \/ part = "snapshots" /\ SnapshotsNext /\ UNCHANGED <<orderVars, largeWorldVars, packVars, handleVars>>
  /\ UNCHANGED part

MCSpec == MCInit /\ [][MCNext]_<<orderVars, largeWorldVars, packVars, handleVars, engineVars, part>>

=============================================================================
