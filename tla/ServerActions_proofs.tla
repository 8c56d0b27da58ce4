------------------------ MODULE ServerActions_proofs ------------------------
(***************************************************************************)
(* Theorems about the authoritative server, for any number of players,     *)
(* commands, settlements and envelopes, delivered in any order and as      *)
(* often as the transport likes, and for a clock of any width.             *)
(***************************************************************************)
EXTENDS ServerActions, FiniteSetTheorems, Iteration

-----------------------------------------------------------------------------
(* The types of the server.                                                *)

Envelopes == [sequence : Nat \ {0}, submitted : U64, command : Commands]

Engines == [day : U64, stores : [SettlementId -> Storages], events : Nat]

Owners == [SettlementId -> Faction \cup {NoFaction}]

LogEntries ==
  [envelope : Envelopes, actor : Actors, authorized : BOOLEAN, accepted : BOOLEAN,
   at : U64, moved : BOOLEAN]

Runtimes == [tick : U64, owners : Owners, engine : Engines, log : Seq(LogEntries)]

ServerTypeOK ==
  /\ tick \in U64
  /\ owners \in Owners
  /\ engine \in Engines
  /\ sent \subseteq Envelopes
  /\ log \in Seq(LogEntries)

(* Every envelope sent has a number of its own, from 1 up, and the log     *)
(* holds nothing else.                                                     *)
SentNumbered ==
  /\ IsFiniteSet(sent)
  /\ \A e \in sent : e.sequence \in 1 .. Cardinality(sent)
  /\ \A e, f \in sent : e.sequence = f.sequence => e = f
  /\ \A i \in DOMAIN log : log[i].envelope \in sent

-----------------------------------------------------------------------------
(* What one command does to the stores.                                    *)

LEMMA GoodsIn ==
  ASSUME NEW s \in Storages, NEW r \in Resource, NEW n \in U64, CanPut(s, r, n)
  PROVE  /\ Put(s, r, n) \in Storages
         /\ Put(s, r, n)[r] > s[r]
         /\ \A x \in Resource \ {r} : Put(s, r, n)[x] = s[x]
BY WidthAssumption DEF Put, CanPut, Storages, CanAdd, WrapAdd, U64

LEMMA GoodsOut ==
  ASSUME NEW s \in Storages, NEW r \in Resource, NEW n \in U64, CanTake(s, r, n)
  PROVE  /\ Take(s, r, n) \in Storages
         /\ \A x \in Resource \ {r} : Take(s, r, n)[x] = s[x]
BY WidthAssumption DEF Take, CanTake, Storages, U64

LEMMA EatenType ==
  ASSUME NEW stores \in [SettlementId -> Storages], NEW s \in SettlementId, NEW days \in U64
  PROVE  [stores[s] EXCEPT ![Food] = stores[s][Food] - Eaten(stores, s, days)] \in Storages
<1>1. Food \in Resource /\ Appetite[s] \in Nat /\ days \in Nat
  BY ServerAssumption DEF U64
<1>2. stores[s] \in Storages /\ stores[s][Food] \in U64 /\ days * Appetite[s] \in Nat
  BY <1>1 DEF Storages
<1>3. stores[s][Food] - Eaten(stores, s, days) \in U64
  BY <1>2, WidthAssumption DEF Eaten, AtMost, U64
<1>4. QED
  BY <1>2, <1>3 DEF Storages

LEMMA StoresAfterType ==
  ASSUME NEW stores \in [SettlementId -> Storages], NEW c \in RuntimeActions, Accepts(stores, c)
  PROVE  StoresAfter(stores, c) \in [SettlementId -> Storages]
<1>1. c.type \in ActionTypes /\ c.amount \in U64 /\ c.resource \in Resource
  BY DEF RuntimeActions
<1>2. CASE c.type = "add_resource"
  <2>1. c.target \in SettlementId /\ CanPut(stores[c.target], c.resource, c.amount)
    BY <1>2 DEF Accepts
  <2>2. Put(stores[c.target], c.resource, c.amount) \in Storages
    BY <1>1, <2>1, GoodsIn
  <2>3. QED
    BY <1>2, <2>1, <2>2 DEF StoresAfter
<1>3. CASE c.type = "remove_resource"
  <2>1. c.target \in SettlementId /\ CanTake(stores[c.target], c.resource, c.amount)
    BY <1>3 DEF Accepts
  <2>2. Take(stores[c.target], c.resource, c.amount) \in Storages
    BY <1>1, <2>1, GoodsOut
  <2>3. QED
    BY <1>3, <2>1, <2>2 DEF StoresAfter
<1>4. CASE c.type = "transfer_resource"
  <2>1. /\ c.target \in SettlementId /\ c.other \in SettlementId
        /\ CanTake(stores[c.target], c.resource, c.amount)
        /\ CanPut(stores[c.other], c.resource, c.amount)
    BY <1>4 DEF Accepts
  <2>2. /\ Take(stores[c.target], c.resource, c.amount) \in Storages
        /\ Put(stores[c.other], c.resource, c.amount) \in Storages
    BY <1>1, <2>1, GoodsIn, GoodsOut
  <2>3. QED
    BY <1>4, <2>1, <2>2 DEF StoresAfter
<1>5. CASE c.type = "advance_days"
  BY <1>1, <1>5, EatenType DEF StoresAfter
<1>6. QED
  BY <1>1, <1>2, <1>3, <1>4, <1>5 DEF ActionTypes, ResourceActions

LEMMA EventsType ==
  ASSUME NEW c \in RuntimeActions
  PROVE  EventsOf(c) \in Nat
<1>1. Cardinality(SettlementId) \in Nat /\ c.amount \in Nat
  BY ServerAssumption, FS_CardinalityType DEF RuntimeActions, U64
<1>2. c.amount * (Cardinality(SettlementId) + 2) \in Nat
  BY <1>1
<1>3. QED
  BY <1>2 DEF EventsOf

LEMMA EngineAfterType ==
  ASSUME NEW eng \in Engines, NEW c \in RuntimeActions
  PROVE  /\ EngineAfter(eng, c) \in Engines
         /\ EngineAfter(eng, c).stores = IF Accepts(eng.stores, c) THEN StoresAfter(eng.stores, c)
                                         ELSE eng.stores
<1>1. eng.stores \in [SettlementId -> Storages] /\ eng.day \in U64 /\ eng.events \in Nat
  BY DEF Engines
<1>2. EventsOf(c) \in Nat /\ eng.events + EventsOf(c) \in Nat
  BY <1>1, EventsType
<1>3. c.amount \in U64
  BY DEF RuntimeActions
<1>4. WrapAdd(eng.day, c.amount) \in U64
  BY <1>1, <1>3, WidthAssumption DEF WrapAdd, U64
<1>5. CASE ~Accepts(eng.stores, c)
  <2>1. EngineAfter(eng, c) = [eng EXCEPT !.events = eng.events + EventsOf(c)]
    BY <1>5 DEF EngineAfter
  <2>2. QED
    BY <1>1, <1>2, <1>5, <2>1 DEF Engines
<1>6. CASE Accepts(eng.stores, c)
  <2>1. StoresAfter(eng.stores, c) \in [SettlementId -> Storages]
    BY <1>1, <1>6, StoresAfterType
  <2>2. PICK d \in U64 : d = IF c.type = "advance_days" THEN WrapAdd(eng.day, c.amount) ELSE eng.day
    BY <1>1, <1>4
  <2>3. EngineAfter(eng, c) =
          [[eng EXCEPT !.events = eng.events + EventsOf(c)]
             EXCEPT !.stores = StoresAfter(eng.stores, c), !.day = d]
    BY <1>6, <2>2 DEF EngineAfter, Engines
  <2>4. QED
    BY <1>1, <1>2, <1>6, <2>1, <2>3 DEF Engines
<1>7. QED
  BY <1>5, <1>6

-----------------------------------------------------------------------------
(* One dispatch.                                                           *)

(* The entry a dispatch leaves in the log.                                 *)
EntryOf(s, e, a) ==
  [envelope |-> e, actor |-> a, authorized |-> Authorized(s, e, a),
   accepted |-> Authorized(s, e, a) /\ Accepts(s.engine.stores, e.command),
   at |-> s.tick, moved |-> s.owners # InitialOwners]

LEMMA EntryType ==
  ASSUME NEW s \in Runtimes, NEW e \in Envelopes, NEW a \in Actors
  PROVE  EntryOf(s, e, a) \in LogEntries
<1>1. s.tick \in U64
  BY DEF Runtimes
<1>2. Authorized(s, e, a) \in BOOLEAN
  BY DEF Authorized
<1>3. (Authorized(s, e, a) /\ Accepts(s.engine.stores, e.command)) \in BOOLEAN
  OBVIOUS
<1>4. (s.owners # InitialOwners) \in BOOLEAN
  OBVIOUS
<1>5. QED
  BY <1>1, <1>2, <1>3, <1>4 DEF EntryOf, LogEntries

LEMMA DispatchedFields ==
  ASSUME NEW s \in Runtimes, NEW e \in Envelopes, NEW a \in Actors
  PROVE  LET d == Dispatched(s, e, a)
         IN  /\ d \in Runtimes
             /\ d.tick = s.tick /\ d.owners = s.owners
             /\ d.engine = IF Authorized(s, e, a) THEN EngineAfter(s.engine, e.command) ELSE s.engine
             /\ d.log = Append(s.log, EntryOf(s, e, a))
<1> DEFINE d == Dispatched(s, e, a)
           engineAfter == IF Authorized(s, e, a) THEN EngineAfter(s.engine, e.command) ELSE s.engine
           logAfter == Append(s.log, EntryOf(s, e, a))
<1>1. s.tick \in U64 /\ s.owners \in Owners /\ s.engine \in Engines /\ s.log \in Seq(LogEntries)
  BY DEF Runtimes
<1>2. e.command \in RuntimeActions
  BY ServerAssumption DEF Envelopes
<1>3. engineAfter \in Engines
  BY <1>1, <1>2, EngineAfterType
<1>4. logAfter \in Seq(LogEntries)
  BY <1>1, EntryType
<1>5. d = [s EXCEPT !.engine = engineAfter, !.log = logAfter]
  BY DEF Dispatched, EntryOf, Runtimes
<1> HIDE DEF engineAfter, logAfter, d
<1>6. /\ d \in Runtimes /\ d.tick = s.tick /\ d.owners = s.owners
      /\ d.engine = engineAfter /\ d.log = logAfter
  BY <1>1, <1>3, <1>4, <1>5 DEF Runtimes
<1>7. QED
  BY <1>6 DEF engineAfter, logAfter, d

LEMMA RuntimeIsOne == ServerTypeOK => Runtime \in Runtimes
BY DEF ServerTypeOK, Runtime, Runtimes

(* What a dispatch makes of the server.                                    *)
LEMMA DispatchShape ==
  ASSUME ServerTypeOK, NEW e \in sent, NEW a \in Actors, Dispatch(e, a)
  PROVE  /\ engine' \in Engines /\ log' \in Seq(LogEntries)
         /\ engine' = IF Authorized(Runtime, e, a) THEN EngineAfter(engine, e.command) ELSE engine
         /\ log' = Append(log, EntryOf(Runtime, e, a))
         /\ EntryOf(Runtime, e, a) \in LogEntries
         /\ tick' = tick /\ owners' = owners /\ sent' = sent
<1>1. Runtime \in Runtimes /\ e \in Envelopes
  BY RuntimeIsOne DEF ServerTypeOK
<1>2. Runtime.engine = engine /\ Runtime.log = log
  BY DEF Runtime
<1> DEFINE d == Dispatched(Runtime, e, a)
<1>3. /\ d \in Runtimes
      /\ d.engine = IF Authorized(Runtime, e, a) THEN EngineAfter(engine, e.command) ELSE engine
      /\ d.log = Append(log, EntryOf(Runtime, e, a))
  BY <1>1, <1>2, DispatchedFields
<1>4. engine' = d.engine /\ log' = d.log /\ tick' = tick /\ owners' = owners /\ sent' = sent
  BY DEF Dispatch
<1> HIDE DEF d
<1>5. engine' \in Engines /\ log' \in Seq(LogEntries)
  BY <1>3, <1>4 DEF Runtimes
<1>6. QED
  BY <1>1, <1>3, <1>4, <1>5, EntryType

-----------------------------------------------------------------------------
(* Every step keeps the types.                                             *)

LEMMA SubmitShape ==
  ASSUME ServerTypeOK, SentNumbered, NEW c \in Commands, Submit(c)
  PROVE  \E e \in Envelopes :
           /\ e.sequence = Cardinality(sent) + 1
           /\ sent' = sent \cup {e} /\ e \notin sent
           /\ Cardinality(sent) \in Nat /\ Cardinality(sent') = Cardinality(sent) + 1
           /\ IsFiniteSet(sent')
<1> DEFINE e == [sequence |-> Cardinality(sent) + 1, submitted |-> tick, command |-> c]
<1>1. Cardinality(sent) \in Nat /\ IsFiniteSet(sent)
  BY FS_CardinalityType DEF SentNumbered
<1>2. e \in Envelopes /\ e.sequence = Cardinality(sent) + 1
  BY <1>1 DEF ServerTypeOK, Envelopes
<1>3. e \notin sent
  BY <1>1, <1>2 DEF SentNumbered
<1>4. sent' = sent \cup {e}
  BY DEF Submit
<1> HIDE DEF e
<1>5. Cardinality(sent') = Cardinality(sent) + 1 /\ IsFiniteSet(sent')
  BY <1>1, <1>3, <1>4, FS_AddElement
<1>6. QED
  BY <1>1, <1>2, <1>3, <1>4, <1>5

LEMMA ServerStart == ServerInit => ServerTypeOK /\ SentNumbered
<1> SUFFICES ASSUME ServerInit PROVE ServerTypeOK /\ SentNumbered
  OBVIOUS
<1>1. 0 \in U64
  BY WidthAssumption DEF U64
<1>2. ServerTypeOK
  BY <1>1, ServerAssumption DEF ServerInit, NewEngine, ServerTypeOK, Engines, Owners
<1>3. SentNumbered
  BY FS_EmptySet DEF ServerInit, SentNumbered
<1>4. QED
  BY <1>2, <1>3

LEMMA ServerTypeStep ==
  ServerTypeOK /\ SentNumbered /\ [ServerNext]_serverVars => ServerTypeOK' /\ SentNumbered'
<1> SUFFICES ASSUME ServerTypeOK, SentNumbered, [ServerNext]_serverVars
             PROVE  ServerTypeOK' /\ SentNumbered'
  OBVIOUS
<1>1. ASSUME NEW c \in Commands, Submit(c) PROVE ServerTypeOK' /\ SentNumbered'
  <2>1. PICK e \in Envelopes :
          /\ e.sequence = Cardinality(sent) + 1
          /\ sent' = sent \cup {e} /\ e \notin sent
          /\ Cardinality(sent) \in Nat /\ Cardinality(sent') = Cardinality(sent) + 1
          /\ IsFiniteSet(sent')
    BY <1>1, SubmitShape
  <2>2. tick' = tick /\ owners' = owners /\ engine' = engine /\ log' = log
    BY <1>1 DEF Submit
  <2>3. ServerTypeOK'
    BY <2>1, <2>2 DEF ServerTypeOK
  <2>4. SentNumbered'
    BY <2>1, <2>2 DEF SentNumbered
  <2>5. QED
    BY <2>3, <2>4
<1>2. ASSUME NEW e \in sent, NEW a \in Actors, Dispatch(e, a)
      PROVE  ServerTypeOK' /\ SentNumbered'
  <2>1. /\ engine' \in Engines /\ log' \in Seq(LogEntries)
        /\ log' = Append(log, EntryOf(Runtime, e, a))
        /\ EntryOf(Runtime, e, a) \in LogEntries
        /\ tick' = tick /\ owners' = owners /\ sent' = sent
    BY <1>2, DispatchShape
  <2>2. ServerTypeOK'
    BY <2>1 DEF ServerTypeOK
  <2>3. EntryOf(Runtime, e, a).envelope = e
    BY DEF EntryOf
  <2>4. \A i \in DOMAIN log' : log'[i].envelope \in sent
    <3> DEFINE x == EntryOf(Runtime, e, a)
    <3>1. log \in Seq(LogEntries) /\ log' = Append(log, x) /\ x.envelope \in sent
      BY <2>1, <2>3 DEF ServerTypeOK
    <3> HIDE DEF x
    <3>2. \A i \in DOMAIN log' : log'[i] = x \/ (i \in DOMAIN log /\ log'[i] = log[i])
      BY <3>1
    <3>3. QED
      BY <3>1, <3>2 DEF SentNumbered
  <2>5. SentNumbered'
    BY <2>1, <2>4 DEF SentNumbered
  <2>6. QED
    BY <2>2, <2>5
<1>3. ASSUME NEW ticks \in U64, AdvanceClock(ticks) PROVE ServerTypeOK' /\ SentNumbered'
  <2>1. AdvanceTime(tick, ticks) \in U64
    BY WidthAssumption DEF ServerTypeOK, AdvanceTime, SaturatingAdd, CanAdd, U64
  <2>2. QED
    BY <1>3, <2>1 DEF AdvanceClock, ServerTypeOK, SentNumbered
<1>4. ASSUME NEW s \in SettlementId, NEW f \in Faction, SetSettlementOwner(s, f)
      PROVE  ServerTypeOK' /\ SentNumbered'
  <2>1. owners' \in Owners
    BY <1>4 DEF SetSettlementOwner, ServerTypeOK, Owners
  <2>2. QED
    BY <1>4, <2>1 DEF SetSettlementOwner, ServerTypeOK, SentNumbered
<1>5. CASE UNCHANGED serverVars
  BY <1>5 DEF serverVars, ServerTypeOK, SentNumbered
<1>6. QED
  BY <1>1, <1>2, <1>3, <1>4, <1>5 DEF ServerNext

(* Whatever the players submit and however the transport delivers it, the  *)
(* engine's stores stay within their width, and the log holds submitted    *)
(* envelopes only, each with a number of its own, counted from 1.          *)
THEOREM ServerTypeCorrect == ServerSpec => [](ServerTypeOK /\ SentNumbered)
BY ServerStart, ServerTypeStep, PTL DEF ServerSpec

-----------------------------------------------------------------------------
(* Who may change what.                                                    *)

(* The switches of ActionAuthorityPolicy as its declaration sets them.     *)
StrictPolicy == Policy.actorMatch /\ Policy.ownedTarget

(* Where one accepted command moves goods.                                 *)
LEMMA WhereGoodsMove ==
  ASSUME NEW stores \in [SettlementId -> Storages], NEW c \in RuntimeActions, Accepts(stores, c),
         c.type # "advance_days", NEW s \in SettlementId, NEW r \in Resource
  PROVE  \/ StoresAfter(stores, c)[s][r] = stores[s][r]
         \/ c.target = s
         \/ c.type = "transfer_resource" /\ c.other = s
            /\ StoresAfter(stores, c)[s][r] > stores[s][r]
<1>1. c.type \in ResourceActions /\ c.amount \in U64 /\ c.resource \in Resource
  BY DEF RuntimeActions, ActionTypes
<1>2. CASE c.type = "add_resource"
  BY <1>2 DEF StoresAfter
<1>3. CASE c.type = "remove_resource"
  BY <1>3 DEF StoresAfter
<1>4. CASE c.type = "transfer_resource"
  <2>1. /\ c.target \in SettlementId /\ c.other \in SettlementId /\ c.other # c.target
        /\ CanPut(stores[c.other], c.resource, c.amount)
    BY <1>4 DEF Accepts
  <2>2. StoresAfter(stores, c) =
          [stores EXCEPT ![c.target] = Take(stores[c.target], c.resource, c.amount),
                         ![c.other] = Put(stores[c.other], c.resource, c.amount)]
    BY <1>4 DEF StoresAfter
  <2>3. CASE s # c.other
    BY <2>1, <2>2, <2>3
  <2>4. CASE s = c.other
    <3>1. StoresAfter(stores, c)[s] = Put(stores[s], c.resource, c.amount)
      BY <2>1, <2>2, <2>4
    <3>2. stores[s] \in Storages /\ CanPut(stores[s], c.resource, c.amount)
      BY <2>1, <2>4
    <3>3. r = c.resource \/ r \in Resource \ {c.resource}
      OBVIOUS
    <3>4. QED
      BY <1>1, <1>4, <2>4, <3>1, <3>2, <3>3, GoodsIn
  <2>5. QED
    BY <2>3, <2>4
<1>5. QED
  BY <1>1, <1>2, <1>3, <1>4 DEF ResourceActions

LEMMA EntitledDispatch ==
  ASSUME ServerTypeOK, StrictPolicy, NEW e \in sent, NEW a \in Actors, Dispatch(e, a)
  PROVE  EntitledStep
<1> SUFFICES ASSUME engine' # engine PROVE EntitledStep
  BY DEF EntitledStep
<1> DEFINE x == EntryOf(Runtime, e, a)
           c == e.command
<1>1. /\ engine' = IF Authorized(Runtime, e, a) THEN EngineAfter(engine, c) ELSE engine
      /\ log' = Append(log, x) /\ x \in LogEntries
  BY DispatchShape
<1>2. Authorized(Runtime, e, a) /\ engine' = EngineAfter(engine, c)
  BY <1>1
<1>3. Entry = x
  <2>1. log \in Seq(LogEntries)
    BY DEF ServerTypeOK
  <2> HIDE DEF x
  <2>2. log'[Len(log')] = x
    BY <1>1, <2>1
  <2>3. QED
    BY <2>2 DEF Entry
<1>4. x.envelope = e /\ x.actor = a /\ x.authorized
  BY <1>2 DEF EntryOf
<1> HIDE DEF x
<1>5. /\ Fresh(e, tick) /\ c.player = a.player
      /\ IF c.type = "advance_days" THEN MayAdvanceTime(a) ELSE MayTrade(a, c, owners, engine.stores)
  BY <1>2 DEF Authorized, Runtime, StrictPolicy
<1>6. c \in RuntimeActions /\ engine \in Engines /\ engine.stores \in [SettlementId -> Storages]
  BY ServerAssumption DEF ServerTypeOK, Envelopes, Engines
<1>7. engine'.stores = IF Accepts(engine.stores, c) THEN StoresAfter(engine.stores, c) ELSE engine.stores
  BY <1>2, <1>6, EngineAfterType
<1>8. ASSUME NEW s \in SettlementId, NEW r \in Resource
      PROVE  \/ engine'.stores[s][r] = engine.stores[s][r]
             \/ c.type = "advance_days" /\ (a.time \/ a.admin)
             \/ c.target = s /\ Entitled(a, s)
             \/ c.other = s /\ Entitled(a, c.target)
                /\ engine'.stores[s][r] > engine.stores[s][r]
  <2>1. CASE c.type = "advance_days"
    BY <1>5, <2>1 DEF MayAdvanceTime
  <2>2. CASE c.type # "advance_days"
    <3>1. Entitled(a, c.target)
      BY <1>5, <2>2 DEF MayTrade, StrictPolicy, Entitled
    <3>2. CASE Accepts(engine.stores, c)
      <4> HIDE DEF c
      <4>1. \/ StoresAfter(engine.stores, c)[s][r] = engine.stores[s][r]
            \/ c.target = s
            \/ c.other = s /\ StoresAfter(engine.stores, c)[s][r] > engine.stores[s][r]
        BY <1>6, <2>2, <3>2, WhereGoodsMove
      <4>2. QED
        BY <1>7, <3>1, <3>2, <4>1
    <3>3. CASE ~Accepts(engine.stores, c)
      BY <1>7, <3>3
    <3>4. QED
      BY <3>2, <3>3
  <2>3. QED
    BY <2>1, <2>2
<1>9. QED
  BY <1>3, <1>4, <1>5, <1>8 DEF EntitledStep

LEMMA EntitledAlways ==
  ASSUME ServerTypeOK, StrictPolicy, [ServerNext]_serverVars
  PROVE  EntitledStep
<1>1. CASE engine' = engine
  BY <1>1 DEF EntitledStep
<1>2. ASSUME NEW e \in sent, NEW a \in Actors, Dispatch(e, a) PROVE EntitledStep
  BY <1>2, EntitledDispatch
<1>3. QED
  BY <1>1, <1>2 DEF ServerNext, Submit, AdvanceClock, SetSettlementOwner, serverVars

(* Under the policy ActionAuthorityPolicy declares, whatever its age       *)
(* limit, its permission matrix and its exception for admins: the engine   *)
(* changes only by a command that review_runtime_action_authority lets     *)
(* pass on the clock and the owners of the moment of the dispatch.         *)
THEOREM OnlyEntitledChanges == StrictPolicy /\ ServerSpec => ChangeIsEntitled
<1>1. ServerTypeOK /\ StrictPolicy /\ [ServerNext]_serverVars => [EntitledStep]_serverVars
  BY EntitledAlways
<1>2. CASE StrictPolicy
  <2>1. ServerTypeOK /\ [ServerNext]_serverVars => [EntitledStep]_serverVars
    BY <1>1, <1>2
  <2>2. QED
    BY <2>1, ServerTypeCorrect, PTL DEF ServerSpec, ChangeIsEntitled
<1>3. QED
  BY <1>2

-----------------------------------------------------------------------------
(* The sequence check.                                                     *)

LEMMA ValidLogStep == ServerTypeOK /\ SentNumbered => ValidLogIsExactlyOnce
<1> SUFFICES ASSUME ServerTypeOK, SentNumbered, SequenceValid
             PROVE  \A i \in DOMAIN log :
                      /\ log[i].envelope.sequence = i
                      /\ \A e \in sent : e.sequence < i => \E j \in 1 .. i - 1 : log[j].envelope = e
  BY DEF ValidLogIsExactlyOnce
<1> DEFINE n == Len(log)
           T == {i \in 0 .. n : i = 0 \/ log[i].envelope.sequence = i}
<1>1. log \in Seq(LogEntries) /\ n \in Nat /\ DOMAIN log = 1 .. n
  BY DEF ServerTypeOK
<1>2. 0 \in T
  BY <1>1
<1>3. ASSUME NEW i \in 1 .. n, i - 1 \in T PROVE i \in T
  <2>1. i \in 0 .. n
    BY <1>1
  <2>2. CASE i = 1
    <3>1. log # << >>
      BY <1>1, <2>2
    <3>2. QED
      BY <2>1, <2>2, <3>1 DEF SequenceValid
  <2>3. CASE i # 1
    <3>1. i \in 2 .. Len(log) /\ log # << >> /\ i - 1 # 0 /\ i - 1 + 1 = i
      BY <1>1, <2>3
    <3>2. log[i].envelope.sequence = log[i - 1].envelope.sequence + 1
      BY <3>1 DEF SequenceValid
    <3>3. log[i - 1].envelope.sequence = i - 1
      BY <1>3, <3>1
    <3>4. QED
      BY <2>1, <3>1, <3>2, <3>3
  <2>4. QED
    BY <2>2, <2>3
<1> HIDE DEF T
<1>4. \A i \in 0 .. n : i \in T
  BY <1>1, <1>2, <1>3, BoundedInduction
<1>5. \A i \in 1 .. n : log[i].envelope.sequence = i
  <2>1. \A i \in 1 .. n : i \in 0 .. n /\ i # 0
    BY <1>1
  <2>2. QED
    BY <1>4, <2>1 DEF T
<1>6. ASSUME NEW i \in 1 .. n, NEW e \in sent, e.sequence < i
      PROVE  \E j \in 1 .. i - 1 : log[j].envelope = e
  <2>1. e.sequence \in Nat \ {0}
    BY DEF ServerTypeOK, Envelopes
  <2>2. e.sequence \in 1 .. i - 1 /\ e.sequence \in 1 .. n
    BY <1>1, <1>6, <2>1
  <2>3. log[e.sequence].envelope \in sent /\ log[e.sequence].envelope.sequence = e.sequence
    BY <1>1, <1>5, <2>2 DEF SentNumbered
  <2>4. log[e.sequence].envelope = e
    BY <2>3 DEF SentNumbered
  <2>5. QED
    BY <2>2, <2>4
<1>7. QED
  BY <1>1, <1>5, <1>6

(* A log that validate_server_action_sequence accepts holds the envelopes  *)
(* up to its length once each and in order, whatever the transport lost,   *)
(* repeated or reordered on the way.                                       *)
THEOREM ValidLogsAreExact == ServerSpec => []ValidLogIsExactlyOnce
BY ValidLogStep, ServerTypeCorrect, PTL

-----------------------------------------------------------------------------
(* The replay of a log.                                                    *)

ReplayRound(s, x) == Dispatched(s, x.envelope, x.actor)

LEMMA NewRuntimeType == NewRuntime \in Runtimes
<1>1. 0 \in U64
  BY WidthAssumption DEF U64
<1>2. NewEngine \in Engines /\ InitialOwners \in Owners
  BY <1>1, ServerAssumption DEF NewEngine, Engines, Owners
<1>3. QED
  BY <1>1, <1>2 DEF NewRuntime, Runtimes

LEMMA ReplayRoundFields ==
  ASSUME NEW s \in Runtimes, NEW x \in LogEntries
  PROVE  LET d == ReplayRound(s, x)
         IN  /\ d \in Runtimes
             /\ d.tick = s.tick /\ d.owners = s.owners
             /\ d.engine = IF Authorized(s, x.envelope, x.actor)
                           THEN EngineAfter(s.engine, x.envelope.command) ELSE s.engine
             /\ d.log = Append(s.log, EntryOf(s, x.envelope, x.actor))
<1>1. x.envelope \in Envelopes /\ x.actor \in Actors
  BY DEF LogEntries
<1>2. QED
  BY <1>1, DispatchedFields DEF ReplayRound

LEMMA ReplayUnrolled ==
  ASSUME NEW l \in Seq(LogEntries)
  PROVE  \E after \in [0 .. Len(l) -> Runtimes] :
           /\ after[0] = NewRuntime
           /\ \A k \in 1 .. Len(l) : after[k] = ReplayRound(after[k - 1], l[k])
           /\ ReplayOf(l) = after[Len(l)]
<1> DEFINE N == Len(l)
           Eq(f) == f = [k \in 0 .. N |-> IF k = 0 THEN NewRuntime ELSE ReplayRound(f[k - 1], l[k])]
           round == [k \in 1 .. N |-> [s \in Runtimes |-> ReplayRound(s, l[k])]]
           after == CHOOSE f : Eq(f)
<1>1. N \in Nat /\ NewRuntime \in Runtimes /\ \A k \in 1 .. N : l[k] \in LogEntries
  BY NewRuntimeType
<1> HIDE DEF N
<1>2. \A k \in 1 .. N : \A s \in Runtimes : ReplayRound(s, l[k]) \in Runtimes
  BY <1>1, ReplayRoundFields
<1>3. round \in [1 .. N -> [Runtimes -> Runtimes]]
  BY <1>2
<1>4. \E f : Eq(f)
  <2>1. PICK f \in [0 .. N -> Runtimes] : IsLoop(f, N, NewRuntime, round)
    <3> HIDE DEF round
    <3>1. QED
      BY <1>1, <1>3, LoopExists
  <2>2. ASSUME NEW k \in 0 .. N, k # 0
        PROVE  round[k][f[k - 1]] = ReplayRound(f[k - 1], l[k])
    <3>1. k \in 1 .. N /\ f[k - 1] \in Runtimes
      BY <1>1, <2>2
    <3>2. QED
      BY <3>1
  <2> HIDE DEF round
  <2>3. Eq(f)
    BY <2>1, <2>2 DEF IsLoop
  <2>4. QED
    BY <2>3
<1>5. Eq(after)
  <2> HIDE DEF Eq
  <2>1. QED
    BY <1>4, Zenon
<1>6. ReplayOf(l) = after[N]
  BY Zenon DEF ReplayOf, ReplayRound, N
<1> HIDE DEF after
<1>7. after[0] = NewRuntime /\ \A k \in 1 .. N : after[k] = ReplayRound(after[k - 1], l[k])
  BY <1>1, <1>5
<1>8. \A k \in 0 .. N : after[k] \in Runtimes
  <2> DEFINE T == {k \in 0 .. N : after[k] \in Runtimes}
  <2>1. 0 \in T
    BY <1>1, <1>7
  <2>2. ASSUME NEW k \in 1 .. N, k - 1 \in T PROVE k \in T
    BY <1>1, <1>2, <1>7, <2>2
  <2> HIDE DEF T
  <2>3. \A k \in 0 .. N : k \in T
    BY <1>1, <2>1, <2>2, BoundedInduction
  <2>4. QED
    BY <2>3 DEF T
<1>9. after \in [0 .. N -> Runtimes]
  BY <1>5, <1>8
<1>10. QED
  BY <1>6, <1>7, <1>9 DEF N

(* A longer log replays as the shorter one and one dispatch more.          *)
LEMMA ReplayAppend ==
  ASSUME NEW l \in Seq(LogEntries), NEW x \in LogEntries
  PROVE  ReplayOf(Append(l, x)) = ReplayRound(ReplayOf(l), x)
<1> DEFINE n == Len(l)
           m == Append(l, x)
<1>1. /\ n \in Nat /\ m \in Seq(LogEntries) /\ Len(m) = n + 1 /\ m[n + 1] = x
      /\ \A k \in 1 .. n : m[k] = l[k]
  OBVIOUS
<1>2. PICK f \in [0 .. n -> Runtimes] :
        /\ f[0] = NewRuntime
        /\ \A k \in 1 .. n : f[k] = ReplayRound(f[k - 1], l[k])
        /\ ReplayOf(l) = f[n]
  BY ReplayUnrolled
<1> HIDE DEF n, m
<1>3. PICK g \in [0 .. n + 1 -> Runtimes] :
        /\ g[0] = NewRuntime
        /\ \A k \in 1 .. n + 1 : g[k] = ReplayRound(g[k - 1], m[k])
        /\ ReplayOf(m) = g[n + 1]
  <2>1. PICK g \in [0 .. Len(m) -> Runtimes] :
          /\ g[0] = NewRuntime
          /\ \A k \in 1 .. Len(m) : g[k] = ReplayRound(g[k - 1], m[k])
          /\ ReplayOf(m) = g[Len(m)]
    BY <1>1, ReplayUnrolled
  <2>2. QED
    BY <1>1, <2>1
<1> DEFINE T == {k \in 0 .. n : g[k] = f[k]}
<1>4. 0 \in T
  BY <1>1, <1>2, <1>3
<1>5. ASSUME NEW k \in 1 .. n, k - 1 \in T PROVE k \in T
  <2>1. k \in 0 .. n /\ k \in 1 .. n + 1 /\ g[k - 1] = f[k - 1] /\ m[k] = l[k]
    BY <1>1, <1>5
  <2>2. QED
    BY <1>2, <1>3, <2>1
<1> HIDE DEF T
<1>6. \A k \in 0 .. n : k \in T
  BY <1>1, <1>4, <1>5, BoundedInduction
<1>7. g[n] = f[n]
  BY <1>1, <1>6 DEF T
<1>8. n + 1 \in 1 .. n + 1 /\ n + 1 - 1 = n
  BY <1>1
<1>9. QED
  BY <1>1, <1>2, <1>3, <1>7, <1>8 DEF m

(* The replay starts its clock at 0 with the first owners and moves        *)
(* neither, and leaves one entry for each of the log.                      *)
LEMMA ReplayKeeps ==
  ASSUME NEW l \in Seq(LogEntries)
  PROVE  /\ ReplayOf(l) \in Runtimes
         /\ ReplayOf(l).tick = 0 /\ ReplayOf(l).owners = InitialOwners
         /\ Len(ReplayOf(l).log) = Len(l)
<1> DEFINE n == Len(l)
<1>1. n \in Nat /\ \A k \in 1 .. n : l[k] \in LogEntries
  OBVIOUS
<1>2. PICK f \in [0 .. n -> Runtimes] :
        /\ f[0] = NewRuntime
        /\ \A k \in 1 .. n : f[k] = ReplayRound(f[k - 1], l[k])
        /\ ReplayOf(l) = f[n]
  BY ReplayUnrolled
<1> HIDE DEF n
<1> DEFINE T == {k \in 0 .. n : f[k].tick = 0 /\ f[k].owners = InitialOwners /\ Len(f[k].log) = k}
<1>3. 0 \in T
  BY <1>1, <1>2 DEF NewRuntime
<1>4. ASSUME NEW k \in 1 .. n, k - 1 \in T PROVE k \in T
  <2>1. k - 1 \in 0 .. n /\ k \in 0 .. n /\ f[k - 1] \in Runtimes /\ l[k] \in LogEntries
    BY <1>1, <1>2, <1>4
  <2>2. /\ f[k].tick = f[k - 1].tick /\ f[k].owners = f[k - 1].owners
        /\ f[k].log = Append(f[k - 1].log, EntryOf(f[k - 1], l[k].envelope, l[k].actor))
    <3>1. PICK s \in Runtimes, x \in LogEntries : s = f[k - 1] /\ x = l[k]
      BY <2>1
    <3>2. f[k] = ReplayRound(s, x)
      BY <1>2, <3>1
    <3>3. /\ ReplayRound(s, x).tick = s.tick /\ ReplayRound(s, x).owners = s.owners
          /\ ReplayRound(s, x).log = Append(s.log, EntryOf(s, x.envelope, x.actor))
      BY ReplayRoundFields
    <3>4. QED
      BY <3>1, <3>2, <3>3
  <2>3. f[k - 1].log \in Seq(LogEntries)
    BY <2>1 DEF Runtimes
  <2>4. Len(f[k].log) = Len(f[k - 1].log) + 1
    BY <2>2, <2>3
  <2>5. QED
    BY <1>4, <2>1, <2>2, <2>4
<1> HIDE DEF T
<1>5. n \in T
  <2>1. \A k \in 0 .. n : k \in T
    BY <1>1, <1>3, <1>4, BoundedInduction
  <2>2. QED
    BY <1>1, <2>1
<1>6. QED
  BY <1>1, <1>2, <1>5 DEF T, n

LEMMA ReplayStart == ServerInit => ReplayReproduces
<1> SUFFICES ASSUME ServerInit PROVE ReplayReproduces
  OBVIOUS
<1>1. log = << >> /\ engine = NewEngine
  BY DEF ServerInit
<1>2. << >> \in Seq(LogEntries) /\ Len(<< >>) = 0
  OBVIOUS
<1>3. PICK f \in [0 .. 0 -> Runtimes] : f[0] = NewRuntime /\ ReplayOf(<< >>) = f[0]
  <2>1. PICK f \in [0 .. Len(<< >>) -> Runtimes] :
          f[0] = NewRuntime /\ ReplayOf(<< >>) = f[Len(<< >>)]
    BY <1>2, ReplayUnrolled
  <2>2. QED
    BY <1>2, <2>1
<1>4. Replayed.engine = engine
  BY <1>1, <1>3 DEF Replayed, NewRuntime
<1>5. DOMAIN log = {}
  BY <1>1
<1>6. QED
  BY <1>4, <1>5 DEF ReplayReproduces, Reproduced

LEMMA ReplayDispatch ==
  ASSUME ServerTypeOK, ReplayReproduces, NEW e \in sent, NEW a \in Actors, Dispatch(e, a)
  PROVE  ReplayReproduces'
<1> DEFINE x == EntryOf(Runtime, e, a)
           n == Len(log)
           old == ReplayOf(log)
           new == ReplayOf(log')
<1>1. /\ engine' = IF Authorized(Runtime, e, a) THEN EngineAfter(engine, e.command) ELSE engine
      /\ log' = Append(log, x) /\ x \in LogEntries /\ log \in Seq(LogEntries)
  BY DispatchShape DEF ServerTypeOK
<1>2. /\ x.envelope = e /\ x.actor = a /\ x.at = tick
      /\ x.moved = (owners # InitialOwners)
      /\ x.accepted = (Authorized(Runtime, e, a) /\ Accepts(engine.stores, e.command))
  BY DEF EntryOf, Runtime
<1> HIDE DEF x
<1>3. /\ n \in Nat /\ DOMAIN log = 1 .. n /\ DOMAIN log' = 1 .. n + 1
      /\ log'[n + 1] = x /\ \A i \in 1 .. n : log'[i] = log[i]
  BY <1>1
<1>4. /\ old \in Runtimes /\ old.tick = 0 /\ old.owners = InitialOwners /\ Len(old.log) = n
  BY <1>1, ReplayKeeps
<1>5. new = ReplayRound(old, x)
  BY <1>1, ReplayAppend
<1> HIDE DEF old, new
<1>6. /\ new.engine = IF Authorized(old, e, a) THEN EngineAfter(old.engine, e.command) ELSE old.engine
      /\ new.log = Append(old.log, EntryOf(old, e, a))
  BY <1>1, <1>2, <1>4, <1>5, ReplayRoundFields
<1> SUFFICES ASSUME \A i \in DOMAIN log' :
                      /\ ~log'[i].moved
                      /\ Fresh(log'[i].envelope, 0) <=> Fresh(log'[i].envelope, log'[i].at)
             PROVE  /\ new.engine = engine'
                    /\ \A i \in DOMAIN log' : new.log[i].accepted = log'[i].accepted
  BY DEF ReplayReproduces, Reproduced, Replayed, new
<1>7. \A i \in 1 .. n : i \in 1 .. n + 1
  BY <1>3
<1>8. n + 1 \in 1 .. n + 1
  BY <1>3
<1>9. \A i \in DOMAIN log : /\ ~log[i].moved
                            /\ Fresh(log[i].envelope, 0) <=> Fresh(log[i].envelope, log[i].at)
  BY <1>3, <1>7
<1>10. old.engine = engine /\ \A i \in 1 .. n : old.log[i].accepted = log[i].accepted
  BY <1>3, <1>9 DEF ReplayReproduces, Reproduced, Replayed, old
<1>11. owners = InitialOwners /\ (Fresh(e, 0) <=> Fresh(e, tick))
  BY <1>2, <1>3, <1>8
<1>12. Authorized(old, e, a) <=> Authorized(Runtime, e, a)
  BY <1>4, <1>10, <1>11 DEF Authorized, Runtime
<1>13. new.engine = engine'
  BY <1>1, <1>6, <1>10, <1>12
<1>14. EntryOf(old, e, a).accepted = x.accepted
  <2>1. EntryOf(old, e, a).accepted = (Authorized(old, e, a) /\ Accepts(old.engine.stores, e.command))
    BY DEF EntryOf
  <2>2. QED
    BY <1>2, <1>10, <1>12, <2>1
<1>15. old.log \in Seq(LogEntries) /\ EntryOf(old, e, a) \in LogEntries
  <2>1. e \in Envelopes
    BY DEF ServerTypeOK
  <2>2. QED
    BY <1>4, <2>1, EntryType DEF Runtimes
<1>16. new.log[n + 1] = EntryOf(old, e, a) /\ \A i \in 1 .. n : new.log[i] = old.log[i]
  <2> DEFINE y == EntryOf(old, e, a)
  <2>1. new.log = Append(old.log, y) /\ y \in LogEntries /\ old.log \in Seq(LogEntries)
    BY <1>6, <1>15
  <2> HIDE DEF y
  <2>2. new.log[n + 1] = y /\ \A i \in 1 .. n : new.log[i] = old.log[i]
    BY <1>3, <1>4, <2>1
  <2>3. QED
    BY <2>2 DEF y
<1>17. ASSUME NEW i \in 1 .. n + 1 PROVE new.log[i].accepted = log'[i].accepted
  <2>1. i = n + 1 \/ i \in 1 .. n
    BY <1>3
  <2>2. QED
    BY <1>3, <1>10, <1>14, <1>16, <2>1
<1>18. QED
  BY <1>3, <1>13, <1>17

LEMMA ReplayStep ==
  ServerTypeOK /\ ReplayReproduces /\ [ServerNext]_serverVars => ReplayReproduces'
<1> SUFFICES ASSUME ServerTypeOK, ReplayReproduces, [ServerNext]_serverVars
             PROVE  ReplayReproduces'
  OBVIOUS
<1>1. CASE engine' = engine /\ log' = log
  BY <1>1 DEF ReplayReproduces, Reproduced, Replayed
<1>2. ASSUME NEW e \in sent, NEW a \in Actors, Dispatch(e, a) PROVE ReplayReproduces'
  BY <1>2, ReplayDispatch
<1>3. QED
  BY <1>1, <1>2 DEF ServerNext, Submit, AdvanceClock, SetSettlementOwner, serverVars

(* A log replayed into a new runtime by MultiplayerReplay reproduces the   *)
(* engine and every verdict, for logs of any length with refusals and      *)
(* repetitions in them, if the owners never changed and the age limit      *)
(* treats each envelope at clock 0 as it did at its dispatch.              *)
THEOREM ReplaysReproduce == ServerSpec => []ReplayReproduces
BY ReplayStart, ReplayStep, ServerTypeCorrect, PTL DEF ServerSpec

-----------------------------------------------------------------------------
(* The stock of all settlements, and what the log says of it.              *)

LEMMA StockIsSum ==
  ASSUME NEW stores \in [SettlementId -> Storages], NEW r \in Resource
  PROVE  LET w == [s \in SettlementId |-> stores[s][r]]
         IN  /\ w \in [SettlementId -> Nat]
             /\ \E f \in [SUBSET SettlementId -> Nat] :
                  IsSum(f, SettlementId, w) /\ Stock(stores, r) = f[SettlementId]
<1> DEFINE w == [s \in SettlementId |-> stores[s][r]]
           Eq(f) == f = [S \in SUBSET SettlementId |->
                           IF S = {} THEN 0
                           ELSE LET s == CHOOSE s \in S : TRUE IN stores[s][r] + f[S \ {s}]]
           f == CHOOSE f : Eq(f)
<1>1. w \in [SettlementId -> Nat] /\ IsFiniteSet(SettlementId)
  BY ServerAssumption DEF Storages, U64
<1>2. \A S \in SUBSET SettlementId : S # {} => w[AnyOf(S)] = stores[AnyOf(S)][r]
  BY AnyOfIsIn
<1>3. \A g : Eq(g) <=> IsSum(g, SettlementId, w)
  BY <1>2 DEF IsSum, AnyOf
<1>4. \E g : IsSum(g, SettlementId, w)
  <2> HIDE DEF w
  <2>1. QED
    BY <1>1, SumExists
<1>5. Eq(f)
  <2> HIDE DEF Eq, w
  <2>1. \E g : Eq(g)
    BY <1>3, <1>4
  <2>2. QED
    BY <2>1, Zenon
<1>6. Stock(stores, r) = f[SettlementId]
  BY Zenon DEF Stock
<1> HIDE DEF f
<1>7. IsSum(f, SettlementId, w)
  <2> HIDE DEF Eq, w
  <2>1. QED
    BY <1>3, <1>5
<1>8. f \in [SUBSET SettlementId -> Nat]
  <2> HIDE DEF w
  <2>1. QED
    BY <1>1, <1>7, SumType
<1>9. QED
  BY <1>1, <1>6, <1>7, <1>8

LEMMA StockType ==
  ASSUME NEW stores \in [SettlementId -> Storages], NEW r \in Resource
  PROVE  Stock(stores, r) \in Nat
<1>1. PICK f \in [SUBSET SettlementId -> Nat] : Stock(stores, r) = f[SettlementId]
  BY StockIsSum
<1>2. QED
  BY <1>1

(* The store of one settlement changes, and the stock by as much.          *)
LEMMA StockChanges ==
  ASSUME NEW stores \in [SettlementId -> Storages], NEW after \in [SettlementId -> Storages],
         NEW r \in Resource, NEW t \in SettlementId,
         \A s \in SettlementId \ {t} : after[s][r] = stores[s][r]
  PROVE  Stock(after, r) + stores[t][r] = Stock(stores, r) + after[t][r]
<1> DEFINE w == [s \in SettlementId |-> stores[s][r]]
           v == [s \in SettlementId |-> after[s][r]]
<1>1. w \in [SettlementId -> Nat] /\ v \in [SettlementId -> Nat] /\ IsFiniteSet(SettlementId)
  BY ServerAssumption, StockIsSum
<1>2. PICK f \in [SUBSET SettlementId -> Nat] :
        IsSum(f, SettlementId, w) /\ Stock(stores, r) = f[SettlementId]
  BY StockIsSum
<1>3. PICK g \in [SUBSET SettlementId -> Nat] :
        IsSum(g, SettlementId, v) /\ Stock(after, r) = g[SettlementId]
  BY StockIsSum
<1>4. /\ \A s \in SettlementId : s # t => v[s] = w[s]
      /\ w[t] = stores[t][r] /\ v[t] = after[t][r]
  OBVIOUS
<1> HIDE DEF w, v
<1>5. g[SettlementId] + w[t] = f[SettlementId] + v[t]
  <2>1. \A s \in SettlementId : s # t => v[s] = w[s]
    BY <1>4
  <2>2. IsSum(f, SettlementId, w) /\ IsSum(g, SettlementId, v)
    BY <1>2, <1>3
  <2>3. QED
    BY <1>1, <2>1, <2>2, SumChanges
<1>6. QED
  BY <1>2, <1>3, <1>4, <1>5

LEMMA StockShrinks ==
  ASSUME NEW stores \in [SettlementId -> Storages], NEW after \in [SettlementId -> Storages],
         NEW r \in Resource, \A s \in SettlementId : after[s][r] <= stores[s][r]
  PROVE  Stock(after, r) <= Stock(stores, r)
<1> DEFINE w == [s \in SettlementId |-> stores[s][r]]
           v == [s \in SettlementId |-> after[s][r]]
<1>1. w \in [SettlementId -> Nat] /\ v \in [SettlementId -> Nat] /\ IsFiniteSet(SettlementId)
  BY ServerAssumption, StockIsSum
<1>2. PICK f \in [SUBSET SettlementId -> Nat] :
        IsSum(f, SettlementId, w) /\ Stock(stores, r) = f[SettlementId]
  BY StockIsSum
<1>3. PICK g \in [SUBSET SettlementId -> Nat] :
        IsSum(g, SettlementId, v) /\ Stock(after, r) = g[SettlementId]
  BY StockIsSum
<1>4. \A s \in SettlementId : v[s] <= w[s]
  OBVIOUS
<1> HIDE DEF w, v
<1>5. g[SettlementId] <= f[SettlementId]
  BY <1>1, <1>2, <1>3, <1>4, SumShrinks
<1>6. QED
  BY <1>2, <1>3, <1>5

LEMMA LoggedType ==
  ASSUME NEW x \in LogEntries, NEW type, NEW r
  PROVE  Logged(x, type, r) \in Nat
<1>1. x.envelope.command \in RuntimeActions
  BY ServerAssumption DEF LogEntries, Envelopes
<1>2. x.envelope.command.amount \in Nat
  BY <1>1 DEF RuntimeActions, U64
<1>3. QED
  BY <1>2 DEF Logged

(* The sums of what the first entries of a log say was moved.              *)
SumsUp(sum, l, type, r) ==
  /\ sum \in [0 .. Len(l) -> Nat]
  /\ sum[0] = 0
  /\ \A k \in 1 .. Len(l) : sum[k] = sum[k - 1] + Logged(l[k], type, r)
  /\ LoggedIn(l, type, r) = sum[Len(l)]

LEMMA LoggedUnrolled ==
  ASSUME NEW l \in Seq(LogEntries), NEW type, NEW r
  PROVE  \E sum : SumsUp(sum, l, type, r)
<1> DEFINE N == Len(l)
           Eq(f) == f = [k \in 0 .. N |-> IF k = 0 THEN 0 ELSE f[k - 1] + Logged(l[k], type, r)]
           round == [k \in 1 .. N |-> [n \in Nat |-> n + Logged(l[k], type, r)]]
           sum == CHOOSE f : Eq(f)
<1>1. N \in Nat /\ \A k \in 1 .. N : l[k] \in LogEntries
  OBVIOUS
<1> HIDE DEF N
<1>2. \A k \in 1 .. N : Logged(l[k], type, r) \in Nat
  BY <1>1, LoggedType
<1>3. round \in [1 .. N -> [Nat -> Nat]]
  BY <1>2
<1>4. \E f : Eq(f)
  <2>1. PICK f \in [0 .. N -> Nat] : IsLoop(f, N, 0, round)
    <3> HIDE DEF round
    <3>1. QED
      BY <1>1, <1>3, LoopExists
  <2>2. ASSUME NEW k \in 0 .. N, k # 0
        PROVE  round[k][f[k - 1]] = f[k - 1] + Logged(l[k], type, r)
    <3>1. k \in 1 .. N /\ f[k - 1] \in Nat
      BY <1>1, <2>2
    <3>2. QED
      BY <3>1
  <2> HIDE DEF round
  <2>3. Eq(f)
    BY <2>1, <2>2 DEF IsLoop
  <2>4. QED
    BY <2>3
<1>5. Eq(sum)
  <2> HIDE DEF Eq
  <2>1. QED
    BY <1>4, Zenon
<1>6. LoggedIn(l, type, r) = sum[N]
  BY Zenon DEF LoggedIn, N
<1> HIDE DEF sum
<1>7. sum[0] = 0 /\ \A k \in 1 .. N : sum[k] = sum[k - 1] + Logged(l[k], type, r)
  BY <1>1, <1>5
<1>8. \A k \in 0 .. N : sum[k] \in Nat
  <2> DEFINE T == {k \in 0 .. N : sum[k] \in Nat}
  <2>1. 0 \in T
    BY <1>1, <1>7
  <2>2. ASSUME NEW k \in 1 .. N, k - 1 \in T PROVE k \in T
    BY <1>1, <1>2, <1>7, <2>2
  <2> HIDE DEF T
  <2>3. \A k \in 0 .. N : k \in T
    BY <1>1, <2>1, <2>2, BoundedInduction
  <2>4. QED
    BY <2>3 DEF T
<1>9. sum \in [0 .. N -> Nat]
  BY <1>5, <1>8
<1>10. SumsUp(sum, l, type, r)
  BY <1>6, <1>7, <1>9 DEF SumsUp, N
<1>11. QED
  BY <1>10

LEMMA LoggedInType ==
  ASSUME NEW l \in Seq(LogEntries), NEW type, NEW r
  PROVE  LoggedIn(l, type, r) \in Nat
<1>1. PICK sum : SumsUp(sum, l, type, r)
  BY LoggedUnrolled
<1>2. Len(l) \in 0 .. Len(l)
  OBVIOUS
<1>3. QED
  BY <1>1, <1>2 DEF SumsUp

(* One entry more adds what it says was moved.                             *)
LEMMA LoggedAppend ==
  ASSUME NEW l \in Seq(LogEntries), NEW x \in LogEntries, NEW type, NEW r
  PROVE  LoggedIn(Append(l, x), type, r) = LoggedIn(l, type, r) + Logged(x, type, r)
<1> DEFINE n == Len(l)
           m == Append(l, x)
<1>1. /\ n \in Nat /\ m \in Seq(LogEntries) /\ Len(m) = n + 1 /\ m[n + 1] = x
      /\ \A k \in 1 .. n : m[k] = l[k]
  OBVIOUS
<1> HIDE DEF m
<1>2. PICK f : SumsUp(f, l, type, r)
  BY LoggedUnrolled
<1>3. PICK g : SumsUp(g, m, type, r)
  BY <1>1, LoggedUnrolled
<1>4. /\ f \in [0 .. n -> Nat] /\ f[0] = 0 /\ LoggedIn(l, type, r) = f[n]
      /\ \A k \in 1 .. n : f[k] = f[k - 1] + Logged(l[k], type, r)
  BY <1>2 DEF SumsUp
<1>5. /\ g \in [0 .. n + 1 -> Nat] /\ g[0] = 0 /\ LoggedIn(m, type, r) = g[n + 1]
      /\ \A k \in 1 .. n + 1 : g[k] = g[k - 1] + Logged(m[k], type, r)
  BY <1>1, <1>3 DEF SumsUp
<1> HIDE DEF n
<1> DEFINE T == {k \in 0 .. n : g[k] = f[k]}
<1>6. 0 \in T
  BY <1>1, <1>4, <1>5
<1>7. ASSUME NEW k \in 1 .. n, k - 1 \in T PROVE k \in T
  <2>1. k \in 0 .. n /\ k \in 1 .. n + 1 /\ g[k - 1] = f[k - 1] /\ m[k] = l[k]
    BY <1>1, <1>7
  <2>2. QED
    BY <1>4, <1>5, <2>1
<1> HIDE DEF T
<1>8. g[n] = f[n]
  <2>1. \A k \in 0 .. n : k \in T
    BY <1>1, <1>6, <1>7, BoundedInduction
  <2>2. QED
    BY <1>1, <2>1 DEF T
<1>9. n + 1 \in 1 .. n + 1 /\ n + 1 - 1 = n
  BY <1>1
<1>10. QED
  BY <1>1, <1>4, <1>5, <1>8, <1>9 DEF m

-----------------------------------------------------------------------------
(* What one accepted command does to the stock.                            *)

LEMMA AmountIn ==
  ASSUME NEW s \in Storages, NEW r \in Resource, NEW n \in U64, CanPut(s, r, n)
  PROVE  Put(s, r, n)[r] = s[r] + n
BY WidthAssumption DEF Put, CanPut, Storages, CanAdd, WrapAdd, U64

LEMMA AmountOut ==
  ASSUME NEW s \in Storages, NEW r \in Resource, NEW n \in U64, CanTake(s, r, n)
  PROVE  Take(s, r, n)[r] + n = s[r]
BY WidthAssumption DEF Take, CanTake, Storages, U64

(* What a command carries of a resource, and what one of that kind moves.  *)
Carried(c, r) == IF c.resource = r THEN c.amount ELSE 0

Moves(c, type, r) == IF c.type = type THEN Carried(c, r) ELSE 0

LEMMA StockAfterIn ==
  ASSUME NEW stores \in [SettlementId -> Storages], NEW after \in [SettlementId -> Storages],
         NEW c \in RuntimeActions, NEW t \in SettlementId, NEW r \in Resource,
         CanPut(stores[t], c.resource, c.amount),
         after[t] = Put(stores[t], c.resource, c.amount),
         \A s \in SettlementId \ {t} : after[s] = stores[s]
  PROVE  Stock(after, r) = Stock(stores, r) + Carried(c, r)
<1>1. c.amount \in U64 /\ c.resource \in Resource /\ stores[t] \in Storages
  BY DEF RuntimeActions
<1>2. c.amount \in Nat /\ stores[t][r] \in Nat /\ after[t][r] \in Nat /\ Carried(c, r) \in Nat
  BY <1>1 DEF U64, Storages, Carried
<1>3. after[t][r] = stores[t][r] + Carried(c, r)
  <2>1. PICK n \in U64, x \in Resource, s \in Storages : n = c.amount /\ x = c.resource /\ s = stores[t]
    BY <1>1
  <2>2. /\ Put(s, x, n)[x] = s[x] + n
        /\ \A y \in Resource \ {x} : Put(s, x, n)[y] = s[y]
    BY <2>1, GoodsIn, AmountIn
  <2>3. after[t] = Put(s, x, n)
    BY <2>1
  <2>4. CASE r = x
    BY <2>1, <2>2, <2>3, <2>4 DEF Carried
  <2>5. CASE r # x
    <3>1. after[t][r] = stores[t][r] /\ Carried(c, r) = 0
      BY <2>1, <2>2, <2>3, <2>5 DEF Carried
    <3>2. QED
      BY <1>2, <3>1
  <2>6. QED
    BY <2>4, <2>5
<1>4. \A s \in SettlementId \ {t} : after[s][r] = stores[s][r]
  OBVIOUS
<1>5. Stock(after, r) + stores[t][r] = Stock(stores, r) + after[t][r]
  BY <1>4, StockChanges
<1>6. Stock(after, r) \in Nat /\ Stock(stores, r) \in Nat
  BY StockType
<1>7. QED
  BY <1>2, <1>3, <1>5, <1>6

LEMMA StockAfterOut ==
  ASSUME NEW stores \in [SettlementId -> Storages], NEW after \in [SettlementId -> Storages],
         NEW c \in RuntimeActions, NEW t \in SettlementId, NEW r \in Resource,
         CanTake(stores[t], c.resource, c.amount),
         after[t] = Take(stores[t], c.resource, c.amount),
         \A s \in SettlementId \ {t} : after[s] = stores[s]
  PROVE  Stock(after, r) + Carried(c, r) = Stock(stores, r)
<1>1. c.amount \in U64 /\ c.resource \in Resource /\ stores[t] \in Storages
  BY DEF RuntimeActions
<1>2. c.amount \in Nat /\ stores[t][r] \in Nat /\ after[t][r] \in Nat /\ Carried(c, r) \in Nat
  BY <1>1 DEF U64, Storages, Carried
<1>3. after[t][r] + Carried(c, r) = stores[t][r]
  <2>1. PICK n \in U64, x \in Resource, s \in Storages : n = c.amount /\ x = c.resource /\ s = stores[t]
    BY <1>1
  <2>2. /\ Take(s, x, n)[x] + n = s[x]
        /\ \A y \in Resource \ {x} : Take(s, x, n)[y] = s[y]
    BY <2>1, GoodsOut, AmountOut
  <2>3. after[t] = Take(s, x, n)
    BY <2>1
  <2>4. CASE r = x
    BY <2>1, <2>2, <2>3, <2>4 DEF Carried
  <2>5. CASE r # x
    <3>1. after[t][r] = stores[t][r] /\ Carried(c, r) = 0
      BY <2>1, <2>2, <2>3, <2>5 DEF Carried
    <3>2. QED
      BY <1>2, <3>1
  <2>6. QED
    BY <2>4, <2>5
<1>4. \A s \in SettlementId \ {t} : after[s][r] = stores[s][r]
  OBVIOUS
<1>5. Stock(after, r) + stores[t][r] = Stock(stores, r) + after[t][r]
  BY <1>4, StockChanges
<1>6. Stock(after, r) \in Nat /\ Stock(stores, r) \in Nat
  BY StockType
<1> DEFINE p == Stock(after, r)
           q == Stock(stores, r)
           u == stores[t][r]
           v == after[t][r]
           k == Carried(c, r)
<1>7. /\ p \in Nat /\ q \in Nat /\ u \in Nat /\ v \in Nat /\ k \in Nat
      /\ p + u = q + v /\ v + k = u
  BY <1>2, <1>3, <1>5, <1>6
<1> HIDE DEF p, q, u, v, k
<1>8. p + k = q
  BY <1>7
<1>9. QED
  BY <1>8 DEF p, q, k

LEMMA StockBalance ==
  ASSUME NEW stores \in [SettlementId -> Storages], NEW c \in RuntimeActions, Accepts(stores, c),
         NEW r \in Resource
  PROVE  LET have == Stock(StoresAfter(stores, c), r) + Moves(c, "remove_resource", r)
             due == Stock(stores, r) + Moves(c, "add_resource", r)
         IN  have <= due /\ ((c.type # "advance_days" \/ r # Food) => have = due)
<1> DEFINE after == StoresAfter(stores, c)
           out == Moves(c, "remove_resource", r)
           in == Moves(c, "add_resource", r)
           some == Carried(c, r)
<1>1. /\ c.type \in ActionTypes /\ c.amount \in U64 /\ c.amount \in Nat /\ c.resource \in Resource
      /\ some \in Nat
  BY DEF RuntimeActions, U64, Carried
<1>2. after \in [SettlementId -> Storages]
  BY StoresAfterType
<1>3. Stock(stores, r) \in Nat /\ Stock(after, r) \in Nat
  <2> HIDE DEF after
  <2>1. QED
    BY <1>2, StockType
<1>4. CASE c.type = "add_resource"
  <2>1. c.target \in SettlementId /\ CanPut(stores[c.target], c.resource, c.amount)
    BY <1>4 DEF Accepts
  <2>2. /\ after[c.target] = Put(stores[c.target], c.resource, c.amount)
        /\ \A s \in SettlementId \ {c.target} : after[s] = stores[s]
    BY <2>1, <1>4 DEF StoresAfter
  <2>3. Stock(after, r) = Stock(stores, r) + some
    <3> HIDE DEF after
    <3>1. QED
      BY <1>2, <2>1, <2>2, StockAfterIn
  <2>4. out = 0 /\ in = some
    BY <1>4 DEF Moves
  <2> HIDE DEF after, out, in, some
  <2>5. Stock(after, r) + out = Stock(stores, r) + in
    BY <1>1, <1>3, <2>3, <2>4
  <2>6. QED
    BY <1>1, <1>3, <2>3, <2>4, <2>5 DEF after, out, in
<1>5. CASE c.type = "remove_resource"
  <2>1. c.target \in SettlementId /\ CanTake(stores[c.target], c.resource, c.amount)
    BY <1>5 DEF Accepts
  <2>2. /\ after[c.target] = Take(stores[c.target], c.resource, c.amount)
        /\ \A s \in SettlementId \ {c.target} : after[s] = stores[s]
    BY <2>1, <1>5 DEF StoresAfter
  <2>3. Stock(after, r) + some = Stock(stores, r)
    <3> HIDE DEF after
    <3>1. QED
      BY <1>2, <2>1, <2>2, StockAfterOut
  <2>4. in = 0 /\ out = some
    BY <1>5 DEF Moves
  <2> HIDE DEF after, out, in, some
  <2>5. Stock(after, r) + out = Stock(stores, r) + in
    BY <1>1, <1>3, <2>3, <2>4
  <2>6. QED
    BY <1>1, <1>3, <2>3, <2>4, <2>5 DEF after, out, in
<1>6. CASE c.type = "transfer_resource"
  <2> DEFINE mid == [stores EXCEPT ![c.target] = Take(stores[c.target], c.resource, c.amount)]
  <2>1. /\ c.target \in SettlementId /\ c.other \in SettlementId /\ c.other # c.target
        /\ CanTake(stores[c.target], c.resource, c.amount)
        /\ CanPut(stores[c.other], c.resource, c.amount)
    BY <1>6 DEF Accepts
  <2>2. Take(stores[c.target], c.resource, c.amount) \in Storages
    BY <1>1, <2>1, GoodsOut
  <2>3. /\ mid \in [SettlementId -> Storages]
        /\ mid[c.target] = Take(stores[c.target], c.resource, c.amount)
        /\ \A s \in SettlementId \ {c.target} : mid[s] = stores[s]
    BY <2>1, <2>2
  <2>4. after = [stores EXCEPT ![c.target] = Take(stores[c.target], c.resource, c.amount),
                               ![c.other] = Put(stores[c.other], c.resource, c.amount)]
    BY <1>6 DEF StoresAfter
  <2>5. /\ after[c.other] = Put(mid[c.other], c.resource, c.amount)
        /\ CanPut(mid[c.other], c.resource, c.amount)
        /\ \A s \in SettlementId \ {c.other} : after[s] = mid[s]
    BY <2>1, <2>3, <2>4
  <2> HIDE DEF mid, after
  <2>6. Stock(mid, r) + some = Stock(stores, r)
    BY <2>1, <2>3, StockAfterOut
  <2>7. Stock(after, r) = Stock(mid, r) + some
    BY <1>2, <2>1, <2>3, <2>5, StockAfterIn
  <2>8. Stock(mid, r) \in Nat
    BY <2>3, StockType
  <2>9. in = 0 /\ out = 0
    BY <1>6 DEF Moves
  <2> HIDE DEF out, in, some
  <2>10. Stock(after, r) + out = Stock(stores, r) + in
    BY <1>1, <1>3, <2>6, <2>7, <2>8, <2>9
  <2>11. Stock(after, r) + out \in Nat
    BY <1>3, <2>9
  <2>12. QED
    BY <2>10, <2>11 DEF after, out, in
<1>7. CASE c.type = "advance_days"
  <2>1. after = [s \in SettlementId |->
                   [stores[s] EXCEPT ![Food] = stores[s][Food] - Eaten(stores, s, c.amount)]]
    BY <1>7 DEF StoresAfter
  <2>2. ASSUME NEW s \in SettlementId
        PROVE  after[s][r] <= stores[s][r] /\ (r # Food => after[s][r] = stores[s][r])
    <3>1. Food \in Resource /\ stores[s] \in Storages /\ stores[s][r] \in Nat /\ stores[s][Food] \in Nat
      BY ServerAssumption DEF Storages, U64
    <3>2. c.amount * Appetite[s] \in Nat
      BY <1>1, ServerAssumption DEF U64
    <3>3. Eaten(stores, s, c.amount) \in Nat /\ Eaten(stores, s, c.amount) <= stores[s][Food]
      BY <3>1, <3>2 DEF Eaten, AtMost
    <3>4. PICK d \in Nat : d = stores[s][Food] - Eaten(stores, s, c.amount) /\ d <= stores[s][Food]
      BY <3>1, <3>3
    <3>5. after[s] = [stores[s] EXCEPT ![Food] = d]
      BY <2>1, <3>4
    <3>6. after[s][r] = IF r = Food THEN d ELSE stores[s][r]
      BY <3>1, <3>5 DEF Storages
    <3>7. QED
      BY <3>1, <3>4, <3>6
  <2> HIDE DEF after
  <2>3. Stock(after, r) <= Stock(stores, r)
    BY <1>2, <2>2, StockShrinks
  <2>4. ASSUME r # Food PROVE Stock(after, r) = Stock(stores, r)
    <3>1. \A s \in SettlementId : stores[s][r] <= after[s][r]
      BY <2>2, <2>4 DEF Storages, U64
    <3>2. Stock(stores, r) <= Stock(after, r)
      BY <1>2, <3>1, StockShrinks
    <3>3. QED
      BY <1>3, <2>3, <3>2
  <2>5. in = 0 /\ out = 0
    BY <1>7 DEF Moves
  <2> HIDE DEF out, in
  <2>6. /\ Stock(after, r) + out <= Stock(stores, r) + in
        /\ r # Food => Stock(after, r) + out = Stock(stores, r) + in
    BY <1>3, <2>3, <2>4, <2>5
  <2>7. QED
    BY <1>7, <2>6 DEF after, out, in
<1>8. QED
  BY <1>1, <1>4, <1>5, <1>6, <1>7 DEF ActionTypes, ResourceActions

(* What an accepted entry says was moved is what its command moves.        *)
LEMMA LoggedMoves ==
  ASSUME NEW x \in LogEntries, NEW type, NEW r
  PROVE  Logged(x, type, r) = IF x.accepted THEN Moves(x.envelope.command, type, r) ELSE 0
BY DEF Logged, Moves, Carried

LEMMA BalanceStart == ServerInit => AuditBalances
<1> SUFFICES ASSUME ServerInit PROVE AuditBalances
  OBVIOUS
<1>1. log = << >> /\ engine.stores = InitialStores
  BY DEF ServerInit, NewEngine
<1>2. << >> \in Seq(LogEntries) /\ Len(<< >>) = 0
  OBVIOUS
<1>3. ASSUME NEW type, NEW r PROVE LoggedIn(log, type, r) = 0
  <2>1. PICK sum : SumsUp(sum, << >>, type, r)
    BY <1>2, LoggedUnrolled
  <2>2. QED
    BY <1>1, <1>2, <2>1 DEF SumsUp
<1>4. \A r \in Resource : Stock(InitialStores, r) \in Nat
  BY StockType, ServerAssumption
<1>5. QED
  BY <1>1, <1>3, <1>4 DEF AuditBalances

LEMMA BalanceDispatch ==
  ASSUME ServerTypeOK, AuditBalances, NEW e \in sent, NEW a \in Actors, Dispatch(e, a)
  PROVE  AuditBalances'
<1> DEFINE x == EntryOf(Runtime, e, a)
           c == e.command
           n == Len(log)
<1>1. /\ engine' = IF Authorized(Runtime, e, a) THEN EngineAfter(engine, c) ELSE engine
      /\ log' = Append(log, x) /\ x \in LogEntries /\ log \in Seq(LogEntries)
      /\ engine \in Engines /\ engine' \in Engines
  BY DispatchShape DEF ServerTypeOK
<1>2. /\ x.envelope.command = c
      /\ x.accepted <=> Authorized(Runtime, e, a) /\ Accepts(engine.stores, c)
  BY DEF EntryOf, Runtime
<1>3. c \in RuntimeActions
  BY ServerAssumption DEF ServerTypeOK, Envelopes
<1> HIDE DEF x, c
<1>4. engine'.stores = IF x.accepted THEN StoresAfter(engine.stores, c) ELSE engine.stores
  BY <1>1, <1>2, <1>3, EngineAfterType
<1>5. engine.stores \in [SettlementId -> Storages] /\ engine'.stores \in [SettlementId -> Storages]
  BY <1>1 DEF Engines
<1>6. ~DaysPassed' => ~DaysPassed /\ ~(x.accepted /\ c.type = "advance_days")
  <2>1. n \in Nat /\ n + 1 \in DOMAIN log' /\ log'[n + 1] = x
        /\ \A i \in DOMAIN log : i \in DOMAIN log' /\ log'[i] = log[i]
    BY <1>1
  <2>2. QED
    BY <1>2, <2>1 DEF DaysPassed
<1> SUFFICES ASSUME NEW r \in Resource
             PROVE  LET have == Stock(engine'.stores, r) + LoggedIn(log', "remove_resource", r)
                        due == Stock(InitialStores, r) + LoggedIn(log', "add_resource", r)
                    IN  have <= due /\ ((r # Food \/ ~DaysPassed') => have = due)
  BY DEF AuditBalances
<1> DEFINE old == Stock(engine.stores, r)
           new == Stock(engine'.stores, r)
           first == Stock(InitialStores, r)
           outs == LoggedIn(log, "remove_resource", r)
           ins == LoggedIn(log, "add_resource", r)
           out == Logged(x, "remove_resource", r)
           in == Logged(x, "add_resource", r)
           exact == r # Food \/ ~DaysPassed
           exactNow == r # Food \/ ~DaysPassed'
<1>7. /\ old \in Nat /\ new \in Nat /\ first \in Nat /\ outs \in Nat /\ ins \in Nat
      /\ out \in Nat /\ in \in Nat
  BY <1>1, <1>5, StockType, LoggedInType, LoggedType, ServerAssumption
<1>8. /\ LoggedIn(log', "remove_resource", r) = outs + out
      /\ LoggedIn(log', "add_resource", r) = ins + in
  BY <1>1, LoggedAppend
<1>9. old + outs <= first + ins /\ (exact => old + outs = first + ins)
  BY DEF AuditBalances
<1>10. exactNow => exact /\ (x.accepted => r # Food \/ c.type # "advance_days")
  BY <1>6
<1>11. new + out <= old + in /\ (exactNow => new + out = old + in)
  <2>1. CASE x.accepted
    <3>1. out = Moves(c, "remove_resource", r) /\ in = Moves(c, "add_resource", r)
      BY <1>1, <1>2, <2>1, LoggedMoves
    <3>2. new = Stock(StoresAfter(engine.stores, c), r)
      BY <1>4, <2>1
    <3>3. Accepts(engine.stores, c)
      BY <1>2, <2>1
    <3> HIDE DEF new, out, in, exactNow
    <3>4. /\ new + out <= old + in
          /\ (c.type # "advance_days" \/ r # Food) => new + out = old + in
      BY <1>3, <1>5, <3>1, <3>2, <3>3, StockBalance
    <3>5. QED
      BY <1>10, <2>1, <3>4
  <2>2. CASE ~x.accepted
    <3>1. out = 0 /\ in = 0 /\ new = old
      BY <1>1, <1>4, <2>2, LoggedMoves
    <3> HIDE DEF new, old, out, in, exactNow
    <3>2. QED
      BY <1>7, <3>1
  <2>3. QED
    BY <2>1, <2>2
<1> HIDE DEF old, new, first, outs, ins, out, in, exact, exactNow
<1>12. /\ new + (outs + out) <= first + (ins + in)
       /\ exactNow => new + (outs + out) = first + (ins + in)
  BY <1>7, <1>9, <1>10, <1>11
<1>13. QED
  BY <1>8, <1>12 DEF new, first, exactNow

LEMMA BalanceStep ==
  ServerTypeOK /\ AuditBalances /\ [ServerNext]_serverVars => AuditBalances'
<1> SUFFICES ASSUME ServerTypeOK, AuditBalances, [ServerNext]_serverVars
             PROVE  AuditBalances'
  OBVIOUS
<1>1. CASE engine' = engine /\ log' = log
  BY <1>1 DEF AuditBalances, DaysPassed
<1>2. ASSUME NEW e \in sent, NEW a \in Actors, Dispatch(e, a) PROVE AuditBalances'
  BY <1>2, BalanceDispatch
<1>3. QED
  BY <1>1, <1>2 DEF ServerNext, Submit, AdvanceClock, SetSettlementOwner, serverVars

(* The audit log accounts for the stock of every resource, over any number *)
(* of settlements, commands and repeated deliveries: the first stock, plus *)
(* what accepted commands added and minus what they removed; transfers     *)
(* change no stock, and only days make food less than that.                *)
THEOREM AuditsBalance == ServerSpec => []AuditBalances
BY BalanceStart, BalanceStep, ServerTypeCorrect, PTL DEF ServerSpec
=============================================================================
