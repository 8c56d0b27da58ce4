---------------------------- MODULE LargeWorld ----------------------------
(***************************************************************************)
(* The catalog a host of a large world keeps beside its runtime: regions,  *)
(* the region of every settlement, route and caravan, what is switched on  *)
(* in a region, and references from one region to another.  The catalog    *)
(* names objects of the runtime by id and is not told when the runtime     *)
(* gains an object, or is replaced by one that was loaded.                 *)
(***************************************************************************)
EXTENDS Naturals, Sequences, FiniteSets

CONSTANTS
  RegionId,          (* ids of regions, the empty id not among them          *)
  Object,            (* per kind, the ids an object of it may have           *)
  PartOf,            (* pairs of regions, the id of one a part of the other's*)
  FeatureConfigs,    (* RegionalFeatureConfig the host tries to add          *)
  RegionLinks,       (* RegionalDependencyConfig                             *)
  References,        (* CrossRegionReference                                 *)
  Loadable,          (* object sets of the runtimes the host may load        *)
  StreamLimit        (* bound: events the host logs                          *)

VARIABLES
  regions,           (* LargeWorldCatalog::regions, by id                    *)
  assigned,          (* per kind, its LargeWorldRegionAssignments            *)
  features, links, references,   (* the other vectors of the catalog         *)
  objects,           (* per kind, the ids that exist in the runtime          *)
  stream,            (* the event log: the region each event is about        *)
  wished             (* history: the last region asked for each object       *)

catalogVars == <<regions, assigned, features, links, references>>

largeWorldVars == <<catalogVars, objects, stream, wished>>

(* The empty id.                                                           *)
Unnamed == ""

Kind == {"settlement", "route", "caravan"}

ASSUME LargeWorldAssumption ==
  /\ Unnamed \notin RegionId
  /\ DOMAIN Object = Kind
  /\ PartOf \subseteq RegionId \X RegionId
  /\ \A w \in Loadable : \A k \in Kind : IsFiniteSet(w[k])
  /\ Loadable \subseteq [Kind -> SUBSET UNION {Object[k] : k \in Kind}]

LargeWorldInit ==
  /\ regions = {}
  /\ assigned = [k \in Kind |-> << >>]
  /\ features = << >> /\ links = << >> /\ references = << >>
  /\ objects \in Loadable
  /\ stream = << >>
  /\ wished = [k \in Kind |-> [o \in Object[k] |-> Unnamed]]

(* The first of the places found, or 0.                                    *)
FirstIn(found) == IF found = {} THEN 0 ELSE CHOOSE i \in found : \A j \in found : i <= j

EntryOf(s, id) == FirstIn({i \in DOMAIN s : s[i].object = id})

-----------------------------------------------------------------------------
(* Changing the catalog.                                                   *)

AddRegion(r) ==
  /\ r \notin regions
  /\ regions' = regions \cup {r}
  /\ UNCHANGED <<assigned, features, links, references, objects, stream, wished>>

(* A faulty variant: an object that moves gets a second entry.             *)
WithAppended(s, id, r) == Append(s, [object |-> id, region |-> r])

(* The end of assign_region.                                               *)
WithAssignment(s, id, r) ==
  IF EntryOf(s, id) > 0 THEN [s EXCEPT ![EntryOf(s, id)] = [object |-> id, region |-> r]]
  ELSE Append(s, [object |-> id, region |-> r])

Assign(k, id, r) ==
  /\ r \in regions
  /\ assigned' = [assigned EXCEPT ![k] = WithAssignment(@, id, r)]
  /\ wished' = [wished EXCEPT ![k][id] = r]
  /\ UNCHANGED <<regions, features, links, references, objects, stream>>

(* validate_regional_feature_config; disabled features are left out.       *)
FeaturesAccepted(config) == config.region \in regions /\ Unnamed \notin config.enabled

AddFeatures(config) ==
  LET k == FirstIn({i \in DOMAIN features : features[i].region = config.region})
  IN  /\ FeaturesAccepted(config)
      /\ features' = IF k > 0 THEN [features EXCEPT ![k] = config] ELSE Append(features, config)
      /\ UNCHANGED <<regions, assigned, links, references, objects, stream, wished>>

SameLink(a, b) == a.region = b.region /\ a.dependency = b.dependency

LinkAccepted(config) == config.region \in regions /\ config.dependency # Unnamed

AddLink(config) ==
  LET k == FirstIn({i \in DOMAIN links : SameLink(links[i], config)})
  IN  /\ LinkAccepted(config)
      /\ links' = IF k > 0 THEN [links EXCEPT ![k] = config] ELSE Append(links, config)
      /\ UNCHANGED <<regions, assigned, features, references, objects, stream, wished>>

(* validate_cross_region_reference; the type of a reference is left out.   *)
ReferenceAccepted(ref) == ref.id # Unnamed /\ {ref.source, ref.target} \subseteq regions

AddReference(ref) ==
  /\ ReferenceAccepted(ref)
  /\ \A i \in DOMAIN references : references[i].id # ref.id
  /\ references' = Append(references, ref)
  /\ UNCHANGED <<regions, assigned, features, links, objects, stream, wished>>

-----------------------------------------------------------------------------
(* What happens beside it: objects are created, the runtime is replaced by *)
(* a loaded one, events are logged.                                        *)

ObjectCreated(k, id) ==
  /\ id \notin objects[k]
  /\ objects' = [objects EXCEPT ![k] = @ \cup {id}]
  /\ UNCHANGED <<catalogVars, stream, wished>>

RuntimeLoaded(w) ==
  /\ objects # w
  /\ objects' = w
  /\ UNCHANGED <<catalogVars, stream, wished>>

EventLogged(r) ==
  /\ Len(stream) < StreamLimit
  /\ stream' = Append(stream, r)
  /\ UNCHANGED <<catalogVars, objects, wished>>

LargeWorldNext ==
  \/ \E r \in RegionId : AddRegion(r) \/ EventLogged(r)
  \/ \E k \in Kind : \E id \in Object[k] : ObjectCreated(k, id) \/ \E r \in RegionId : Assign(k, id, r)
  \/ \E config \in FeatureConfigs : AddFeatures(config)
  \/ \E config \in RegionLinks : AddLink(config)
  \/ \E ref \in References : AddReference(ref)
  \/ \E w \in Loadable : RuntimeLoaded(w)

LargeWorldSpec == LargeWorldInit /\ [][LargeWorldNext]_largeWorldVars

-----------------------------------------------------------------------------
(* What the catalog reports.                                               *)

(* assignment_region: the empty id where there is no assignment.           *)
RegionOf(k, id) == IF EntryOf(assigned[k], id) = 0 THEN Unnamed ELSE assigned[k][EntryOf(assigned[k], id)].region

(* make_large_world_summary.                                               *)
Unassigned(k) == {id \in objects[k] : RegionOf(k, id) = Unnamed}

Summary ==
  [regions |-> Cardinality(regions),
   assigned |-> [k \in Kind |-> Len(assigned[k])],
   unassigned |-> [k \in Kind |-> Cardinality(Unassigned(k))],
   features |-> Len(features), links |-> Len(links), references |-> Len(references)]

(* make_regional_snapshot_summary; the region need not be registered.      *)
RegionSummary(r) ==
  [visible |-> [k \in Kind |-> Cardinality({id \in objects[k] : RegionOf(k, id) = r})],
   enabled |-> UNION {features[i].enabled : i \in {i \in DOMAIN features : features[i].region = r}},
   links   |-> Cardinality({i \in DOMAIN links : links[i].region = r})]

(* make_regional_event_stream_summary looks for the id of the region       *)
(* anywhere in the text of an event.                                       *)
Stream(r) ==
  IF r \notin regions THEN {} ELSE {i \in DOMAIN stream : stream[i] = r \/ <<r, stream[i]>> \in PartOf}

(* The errors of validate_large_world_catalog: objects that do not exist   *)
(* in the runtime, assignments to regions that are not registered, and     *)
(* what would not be added any more.                                       *)
Errors ==
  [gone    |-> [k \in Kind |-> {i \in DOMAIN assigned[k] : assigned[k][i].object \notin objects[k]}],
   nowhere |-> UNION {{i \in DOMAIN assigned[k] : assigned[k][i].region \notin regions} : k \in Kind},
   refused |-> {i \in DOMAIN features : ~FeaturesAccepted(features[i])}
                 \cup {i \in DOMAIN links : ~LinkAccepted(links[i])}
                 \cup {i \in DOMAIN references : ~ReferenceAccepted(references[i])}]

(* What the summaries of some regions add up to.                           *)
SeenIn(k, all) ==
  LET sum[R \in SUBSET all] ==
        IF R = {} THEN 0
        ELSE LET r == CHOOSE r \in R : TRUE IN RegionSummary(r).visible[k] + sum[R \ {r}]
  IN  sum[all]

(* Whatever is assigned, moved, created or lost in between, the regions and*)
(* the empty id partition the objects of the runtime, each object is where *)
(* it was last assigned, the assignments that are in nobody's sum are those*)
(* of objects that are gone, and they are what validation complains about. *)
(* No event about a region is missing from its stream.                     *)
RegionsPartitionTheWorld ==
  /\ \A k \in Kind : \A id \in Object[k] : RegionOf(k, id) = wished[k][id]
  /\ \A k \in Kind :
       /\ SeenIn(k, regions \cup {Unnamed}) = Cardinality(objects[k])
       /\ RegionSummary(Unnamed).visible[k] = Summary.unassigned[k]
       /\ Summary.assigned[k] = SeenIn(k, regions) + Cardinality(Errors.gone[k])
  /\ Errors.nowhere = {} /\ Errors.refused = {}
  /\ \A r \in regions : {i \in DOMAIN stream : stream[i] = r} \subseteq Stream(r)
=============================================================================
