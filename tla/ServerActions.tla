--------------------------- MODULE ServerActions ---------------------------
(***************************************************************************)
(* Commands of players, as an authoritative server dispatches them: every  *)
(* command travels in an envelope with a sequence number and the tick it   *)
(* was submitted at, ActionAuthority reviews it against the runtime of the *)
(* moment, the Action Bridge runs it on the engine, and an audit record is *)
(* kept.  MultiplayerReplay dispatches a log of envelopes once more.       *)
(*                                                                         *)
(* The library has no network: envelopes reach the server late, out of     *)
(* order and more than once, as the host's transport delivers them.        *)
(***************************************************************************)
EXTENDS Storage, Sequences, FiniteSets

CONSTANTS
  SettlementId,    (* settlements of the engine                              *)
  Elsewhere,       (* a target that is no settlement                         *)
  KnownResource,   (* resources of the engine's DataRegistry                 *)
  Food, Appetite,  (* what a day costs each settlement                       *)
  Faction, NoFaction,
  Actors,          (* the ActorAuthority records the host knows              *)
  Commands,        (* what players submit: a RuntimeAction and its player    *)
  Policy,          (* ActionAuthorityPolicy                                  *)
  InitialStores, InitialOwners,
  MaxSubmitted,    (* bound: envelopes submitted                             *)
  MaxDispatched    (* bound: envelopes dispatched, repetitions included      *)

VARIABLES
  tick,            (* SimulationRuntime::time                                *)
  owners,          (* OwnershipCatalog::settlements                          *)
  engine,          (* the engine: its day, stores and the number of events   *)
  sent,            (* envelopes on their way, or delivered already           *)
  log              (* envelopes dispatched, with their actors and audits     *)

serverVars == <<tick, owners, engine, sent, log>>

ResourceActions == {"add_resource", "remove_resource", "transfer_resource"}

ActionTypes == ResourceActions \cup {"advance_days"}

Targets == SettlementId \cup {Elsewhere}

RuntimeActions ==
  [type : ActionTypes, actor : STRING, player : STRING, target : Targets, other : Targets,
   resource : Resource, amount : U64]

ActorAuthority ==
  [actor : STRING, player : STRING, faction : Faction \cup {NoFaction}, admin : BOOLEAN,
   tool : BOOLEAN, time : BOOLEAN, resources : SUBSET Resource, actions : SUBSET {"trade", "advance_time"}]

PermissionRules ==
  [admin : BOOLEAN, tool : BOOLEAN, faction : BOOLEAN, needsFaction : BOOLEAN, explicit : BOOLEAN]

Policies ==
  [maxAge : U64, actorMatch : BOOLEAN, ownedTarget : BOOLEAN, adminMutation : BOOLEAN,
   rules : [{"trade", "advance_time"} -> PermissionRules]]

ASSUME ServerAssumption ==
  /\ Elsewhere \notin SettlementId
  /\ NoFaction \notin Faction
  /\ IsFiniteSet(SettlementId)
  /\ Food \in Resource
  /\ Appetite \in [SettlementId -> U64]
  /\ \A a \in Actors : a \in ActorAuthority
  /\ \A c \in Commands : c \in RuntimeActions
  /\ Policy \in Policies
  /\ InitialStores \in [SettlementId -> Storages]
  /\ InitialOwners \in [SettlementId -> Faction \cup {NoFaction}]
  /\ MaxSubmitted \in Nat /\ MaxDispatched \in Nat

-----------------------------------------------------------------------------
(* ActionAuthority: who may do what, decided on the state of the moment.   *)

(* The two rules of make_default_system_permission_matrix that apply here. *)
DefaultRule ==
  [admin |-> TRUE, tool |-> FALSE, faction |-> TRUE, needsFaction |-> TRUE, explicit |-> FALSE]

DefaultMatrix == [action \in {"trade", "advance_time"} |-> DefaultRule]

(* An empty list of grants grants everything.                              *)
Grants(list, x) == list = {} \/ x \in list

HasPermission(a, action) ==
  LET rule == Policy.rules[action]
  IN  \/ a.admin /\ rule.admin
      \/ a.tool /\ rule.tool /\ Grants(a.actions, action)
      \/ /\ rule.needsFaction => a.faction # NoFaction
         /\ rule.faction
         /\ rule.explicit => Grants(a.actions, action)

(* validate_actor_authority.                                               *)
ValidActor(a) == a.faction # NoFaction \/ a.admin \/ a.tool

(* validate_runtime_action and validate_server_runtime_action_envelope.    *)
ValidEnvelope(e) == e.sequence > 0 /\ e.command.amount > 0

(* submitted_tick against the clock: not in the future, not too old.       *)
Fresh(e, now) == e.submitted <= now /\ now - e.submitted <= Policy.maxAge

OwnsTarget(a, s, own) == own[s] # NoFaction /\ own[s] = a.faction

(* A faulty variant: nobody asks who owns the target.                      *)
MayTradeAnywhere(a, c, own, stores) ==
  /\ HasPermission(a, "trade")
  /\ Grants(a.resources, c.resource)
  /\ c.target \in SettlementId
  /\ c.type = "transfer_resource" => c.other \in SettlementId
  /\ c.type # "add_resource" => stores[c.target][c.resource] >= c.amount

MayTrade(a, c, own, stores) ==
  /\ HasPermission(a, "trade")
  /\ Grants(a.resources, c.resource)
  /\ c.target \in SettlementId
  /\ c.type = "transfer_resource" => c.other \in SettlementId
  /\ (Policy.ownedTarget /\ ~(a.admin /\ Policy.adminMutation)) => OwnsTarget(a, c.target, own)
  /\ c.type # "add_resource" => stores[c.target][c.resource] >= c.amount

MayAdvanceTime(a) == (a.time \/ a.admin) /\ HasPermission(a, "advance_time")

(* review_runtime_action_authority.                                        *)
Authorized(s, e, a) ==
  LET c == e.command
  IN  /\ ValidEnvelope(e) /\ ValidActor(a) /\ Policy.maxAge > 0
      /\ Policy.actorMatch => c.actor = a.actor /\ c.player = a.player
      /\ Fresh(e, s.tick)
      /\ IF c.type = "advance_days" THEN MayAdvanceTime(a)
         ELSE MayTrade(a, c, s.owners, s.engine.stores)

-----------------------------------------------------------------------------
(* dispatch_runtime_action: the engine's own checks and what it does.      *)

Accepts(stores, c) ==
  LET held == stores[c.target]
  IN  \/ c.type = "advance_days"
      \/ /\ c.resource \in KnownResource
         /\ c.target \in SettlementId
         /\ CASE c.type = "add_resource" -> CanPut(held, c.resource, c.amount)
              [] c.type = "remove_resource" -> CanTake(held, c.resource, c.amount)
              [] c.type = "transfer_resource" ->
                   /\ c.other \in SettlementId \ {c.target}
                   /\ CanTake(held, c.resource, c.amount)
                   /\ CanPut(stores[c.other], c.resource, c.amount)

Eaten(stores, s, days) == AtMost(stores[s][Food], days * Appetite[s])

(* A command that changes goods leaves one event, also if it fails; a day  *)
(* leaves one per settlement and two of its own.                           *)
EventsOf(c) == IF c.type = "advance_days" THEN c.amount * (Cardinality(SettlementId) + 2) ELSE 1

StoresAfter(stores, c) ==
  CASE c.type = "add_resource" ->
         [stores EXCEPT ![c.target] = Put(stores[c.target], c.resource, c.amount)]
    [] c.type = "remove_resource" ->
         [stores EXCEPT ![c.target] = Take(stores[c.target], c.resource, c.amount)]
    [] c.type = "transfer_resource" ->
         [stores EXCEPT ![c.target] = Take(stores[c.target], c.resource, c.amount),
                        ![c.other] = Put(stores[c.other], c.resource, c.amount)]
    [] c.type = "advance_days" ->
         [s \in SettlementId |-> [stores[s] EXCEPT ![Food] = @ - Eaten(stores, s, c.amount)]]

EngineAfter(eng, c) ==
  LET noted == [eng EXCEPT !.events = @ + EventsOf(c)]
  IN  IF ~Accepts(eng.stores, c) THEN noted
      ELSE [noted EXCEPT !.stores = StoresAfter(eng.stores, c),
                         !.day = IF c.type = "advance_days" THEN WrapAdd(@, c.amount) ELSE @]

(* A faulty variant: the audit holds the verdict of the review alone.      *)
DispatchedAsReviewed(s, e, a) ==
  LET ok == Authorized(s, e, a)
  IN  [s EXCEPT !.engine = IF ok THEN EngineAfter(@, e.command) ELSE @,
                !.log = Append(@, [envelope |-> e, actor |-> a, authorized |-> ok, accepted |-> ok,
                                   at |-> s.tick, moved |-> s.owners # InitialOwners])]

(* dispatch_authorized_server_runtime_action, as a function of the runtime *)
(* it is called on.  The Action Bridge never moves the runtime's clock.    *)
(* An entry's tick, and whether owners had moved, are history: no audit    *)
(* has them.                                                               *)
Dispatched(s, e, a) ==
  LET ok == Authorized(s, e, a)
      accepted == ok /\ Accepts(s.engine.stores, e.command)
  IN  [s EXCEPT !.engine = IF ok THEN EngineAfter(@, e.command) ELSE @,
                !.log = Append(@, [envelope |-> e, actor |-> a, authorized |-> ok,
                                   accepted |-> accepted, at |-> s.tick, moved |-> s.owners # InitialOwners])]

Runtime == [tick |-> tick, owners |-> owners, engine |-> engine, log |-> log]

NewEngine == [day |-> 0, stores |-> InitialStores, events |-> 0]

-----------------------------------------------------------------------------
ServerInit ==
  /\ tick = 0
  /\ owners = InitialOwners
  /\ engine = NewEngine
  /\ sent = {}
  /\ log = << >>

Submit(c) ==
  /\ Cardinality(sent) < MaxSubmitted
  /\ sent' = sent \cup {[sequence |-> Cardinality(sent) + 1, submitted |-> tick, command |-> c]}
  /\ UNCHANGED <<tick, owners, engine, log>>

Dispatch(e, a) ==
  /\ Len(log) < MaxDispatched
  /\ engine' = Dispatched(Runtime, e, a).engine
  /\ log' = Dispatched(Runtime, e, a).log
  /\ UNCHANGED <<tick, owners, sent>>

(* advance_runtime_ticks.                                                  *)
AdvanceClock(ticks) ==
  /\ tick' = AdvanceTime(tick, ticks)
  /\ UNCHANGED <<owners, engine, sent, log>>

(* set_runtime_settlement_owner.                                           *)
SetSettlementOwner(s, f) ==
  /\ owners' = [owners EXCEPT ![s] = f]
  /\ UNCHANGED <<tick, engine, sent, log>>

ServerNext ==
  \/ \E c \in Commands : Submit(c)
  \/ \E e \in sent, a \in Actors : Dispatch(e, a)
  \/ \E ticks \in U64 : AdvanceClock(ticks)
  \/ \E s \in SettlementId, f \in Faction : SetSettlementOwner(s, f)

ServerSpec == ServerInit /\ [][ServerNext]_serverVars

-----------------------------------------------------------------------------
(* MultiplayerReplay: a log of envelopes dispatched into a new runtime     *)
(* whose settlements have their first owners and whose clock stands at 0.  *)

NewRuntime == [tick |-> 0, owners |-> InitialOwners, engine |-> NewEngine, log |-> << >>]

(* A faulty variant: the replay does not review the envelopes again.       *)
ReplayedUnreviewed ==
  LET after[k \in 0 .. Len(log)] ==
        IF k = 0 THEN [NewRuntime EXCEPT !.log = log]
        ELSE [after[k - 1] EXCEPT !.engine = EngineAfter(@, log[k].envelope.command)]
  IN  after[Len(log)]

ReplayOf(l) ==
  LET after[k \in 0 .. Len(l)] ==
        IF k = 0 THEN NewRuntime
        ELSE Dispatched(after[k - 1], l[k].envelope, l[k].actor)
  IN  after[Len(l)]

Replayed == ReplayOf(log)

Reproduced ==
  /\ Replayed.engine = engine
  /\ \A i \in DOMAIN log : Replayed.log[i].accepted = log[i].accepted

(* A faulty variant: the first sequence number may be any.                 *)
SequenceValidFromAnywhere ==
  \A i \in 2 .. Len(log) : log[i].envelope.sequence = log[i - 1].envelope.sequence + 1

(* validate_server_action_sequence finds no error.                         *)
SequenceValid ==
  log # << >> =>
    /\ log[1].envelope.sequence = 1
    /\ \A i \in 2 .. Len(log) : log[i].envelope.sequence = log[i - 1].envelope.sequence + 1

-----------------------------------------------------------------------------
(* What an authoritative server relies on.                                 *)

Entry == log'[Len(log')]

Entitled(a, s) == OwnsTarget(a, s, owners) \/ a.admin

EntitledStep ==
  engine' # engine =>
    /\ Entry.authorized
    /\ Fresh(Entry.envelope, tick)
    /\ Entry.envelope.command.player = Entry.actor.player
    /\ \A s \in SettlementId, r \in Resource :
         LET c == Entry.envelope.command
         IN  \/ engine'.stores[s][r] = engine.stores[s][r]
             \/ c.type = "advance_days" /\ (Entry.actor.time \/ Entry.actor.admin)
             \/ c.target = s /\ Entitled(Entry.actor, s)
             \/ c.other = s /\ Entitled(Entry.actor, c.target)
                /\ engine'.stores[s][r] > engine.stores[s][r]

(* The engine changes only by a command that was authorized at the moment  *)
(* it is dispatched: fresh by the clock of that moment, of the actor and   *)
(* player it names, and taking goods or adding them only where that actor  *)
(* is entitled by the owners of that moment, whatever changed on the way.  *)
ChangeIsEntitled == [][EntitledStep]_serverVars

(* What an entry of the log says was moved of a resource.                  *)
Logged(x, type, r) ==
  LET c == x.envelope.command
  IN  IF x.accepted /\ c.type = type /\ c.resource = r THEN c.amount ELSE 0

LoggedIn(l, type, r) ==
  LET sum[k \in 0 .. Len(l)] == IF k = 0 THEN 0 ELSE sum[k - 1] + Logged(l[k], type, r)
  IN  sum[Len(l)]

Stock(stores, r) ==
  LET sum[S \in SUBSET SettlementId] ==
        IF S = {} THEN 0
        ELSE LET s == CHOOSE s \in S : TRUE IN stores[s][r] + sum[S \ {s}]
  IN  sum[SettlementId]

DaysPassed == \E i \in DOMAIN log : log[i].accepted /\ log[i].envelope.command.type = "advance_days"

(* The audit tells the truth: the stock of a resource is the initial one,  *)
(* plus what the accepted commands added and minus what they removed,      *)
(* however often an envelope was delivered; only days eat, and only food.  *)
AuditBalances ==
  \A r \in Resource :
    LET have == Stock(engine.stores, r) + LoggedIn(log, "remove_resource", r)
        due == Stock(InitialStores, r) + LoggedIn(log, "add_resource", r)
    IN  have <= due /\ ((r # Food \/ ~DaysPassed) => have = due)

(* A log that validate_server_action_sequence accepts holds the envelopes  *)
(* submitted so far once each and in order: the duplicated, reordered and  *)
(* lost ones are all found out, though the dispatch let them pass.         *)
ValidLogIsExactlyOnce ==
  SequenceValid =>
    \A i \in DOMAIN log :
      /\ log[i].envelope.sequence = i
      /\ \A e \in sent : e.sequence < i => \E j \in 1 .. i - 1 : log[j].envelope = e

(* Replaying a log reproduces the engine and every verdict, refusals and   *)
(* repetitions included, if the owners never changed and the new clock     *)
(* finds the same envelopes fresh as the old one did.                      *)
ReplayReproduces ==
  (\A i \in DOMAIN log :
     /\ ~log[i].moved
     /\ Fresh(log[i].envelope, 0) <=> Fresh(log[i].envelope, log[i].at)) => Reproduced

(* Replaying a log reproduces the engine as long as the owners are the     *)
(* same: what a host that keeps command logs between checkpoints expects.  *)
LogReplays == (\A i \in DOMAIN log : ~log[i].moved) => Reproduced
=============================================================================
