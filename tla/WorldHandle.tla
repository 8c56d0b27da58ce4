---------------------------- MODULE WorldHandle ----------------------------
(***************************************************************************)
(* Worlds behind the C interface: handles to a clock and an event log,     *)
(* created, advanced in several units and destroyed by a host that polls   *)
(* the log by index.  No exception crosses the interface, so a call that   *)
(* runs out of memory answers 0 like one that was refused; the clock moves *)
(* before the event is appended.                                           *)
(***************************************************************************)
EXTENDS Width, Integers, Sequences, FiniteSets

CONSTANTS
  Handle,        (* the world pointers of the host                           *)
  Null,          (* nullptr                                                  *)
  Names, Seeds,  (* what the host creates worlds with                        *)
  UnitTicks,     (* ticks per second, minute, hour and day                   *)
  Amounts,       (* the amounts the host advances by                         *)
  EventLimit     (* bound: events of a world                                 *)

VARIABLES
  worlds,        (* per handle its world, NoWorld while there is none        *)
  answers        (* history: per handle the answers to its advances          *)

handleVars == <<worlds, answers>>

NoWorld == [seed |-> -1]

ASSUME WorldHandleAssumption ==
  /\ Null \notin Handle
  /\ UnitTicks \subseteq U64 \ {0}
  /\ Amounts \subseteq U64
  /\ EventLimit \in Nat /\ EventLimit < MaxU64

Event(id, tick, type, payload) == [id |-> id, tick |-> tick, type |-> type, payload |-> payload]

(* EventLog::append.                                                       *)
WithEvent(world, type, payload) ==
  [world EXCEPT !.events = Append(@, Event(world.nextId, world.tick, type, payload)),
                !.nextId = WrapAdd(@, 1)]

NewWorld(name, seed) ==
  WithEvent([name |-> name, seed |-> seed, tick |-> 0, nextId |-> 1, events |-> << >>],
            "world.created", name)

CanConvert(amount, unit) == ~MultiplyOverflows(amount, unit)

(* seconds_to_ticks, minutes_to_ticks, hours_to_ticks and days_to_ticks.   *)
ToTicks(amount, unit) == IF CanConvert(amount, unit) THEN amount * unit ELSE MaxU64

(* A faulty variant: the event is appended before the clock moves.         *)
AdvancedLate(world, ticks) ==
  [WithEvent(world, "world.advanced", "") EXCEPT !.tick = AdvanceTime(@, ticks)]

(* World::advance.                                                         *)
Advanced(world, ticks) ==
  WithEvent([world EXCEPT !.tick = AdvanceTime(@, ticks)], "world.advanced", "")

(* The vector of events cannot grow: the clock has moved, the id is spent. *)
AdvancedInVain(world, ticks) ==
  [world EXCEPT !.tick = AdvanceTime(@, ticks), !.nextId = WrapAdd(@, 1)]

-----------------------------------------------------------------------------
Exists(h) == worlds[h] # NoWorld

(* clc_world_create_c, which answers nullptr without a step when out of    *)
(* memory.                                                                 *)
Create(h, name, seed) ==
  /\ ~Exists(h)
  /\ worlds' = [worlds EXCEPT ![h] = NewWorld(IF name = Null THEN "City Life World" ELSE name, seed)]
  /\ answers' = [answers EXCEPT ![h] = << >>]

Destroy(h) ==
  /\ Exists(h)
  /\ worlds' = [worlds EXCEPT ![h] = NoWorld]
  /\ answers' = [answers EXCEPT ![h] = << >>]

Answer(h, a) == answers' = [answers EXCEPT ![h] = Append(@, a)]

(* clc_world_advance_..._c.                                                *)
Advance(h, amount, unit) ==
  LET ticks == ToTicks(amount, unit)
  IN  /\ Exists(h)
      /\ Len(answers[h]) < EventLimit
      /\ \/ /\ ticks = 0
            /\ Answer(h, 0)
            /\ UNCHANGED worlds
         \/ /\ ticks > 0
            /\ worlds' = [worlds EXCEPT ![h] = Advanced(@, ticks)]
            /\ Answer(h, 1)
         \/ /\ ticks > 0
            /\ worlds' = [worlds EXCEPT ![h] = AdvancedInVain(@, ticks)]
            /\ Answer(h, 0)

WorldHandleInit ==
  /\ worlds = [h \in Handle |-> NoWorld]
  /\ answers = [h \in Handle |-> << >>]

WorldHandleNext ==
  \E h \in Handle :
    \/ \E name \in Names \cup {Null}, seed \in Seeds : Create(h, name, seed)
    \/ Destroy(h)
    \/ \E amount \in Amounts, unit \in UnitTicks : Advance(h, amount, unit)

WorldHandleSpec == WorldHandleInit /\ [][WorldHandleNext]_handleVars

-----------------------------------------------------------------------------
(* What the host reads; a null handle and an index beyond the log answer   *)
(* with zero or the empty text.                                            *)

CurrentTick(h) == IF h = Null THEN 0 ELSE worlds[h].tick

EventCount(h) == IF h = Null THEN 0 ELSE Len(worlds[h].events)

EventAt(h, index) ==
  IF h = Null \/ index >= Len(worlds[h].events) THEN Event(0, 0, "", "") ELSE worlds[h].events[index + 1]

EventId(h, index) == EventAt(h, index).id

EventTick(h, index) == EventAt(h, index).tick

EventType(h, index) == EventAt(h, index).type

EventPayload(h, index) == EventAt(h, index).payload

Successes(h) == Cardinality({i \in DOMAIN answers[h] : answers[h][i] = 1})

LastAnswered(h) == answers[h] = << >> \/ answers[h][Len(answers[h])] = 1

(* A host that polls from index 0 until an event without id sees the whole *)
(* log: the creation, and one event for every advance that was answered    *)
(* with 1 and for no other, with increasing ids and ticks that never fall. *)
(* The log does not run ahead of the clock, and the clock is the tick of   *)
(* the last event unless a later advance was answered with 0.              *)
LogTellsTheClock ==
  \A h \in {h \in Handle : Exists(h)} :
    LET count == EventCount(h)
    IN  /\ count = 1 + Successes(h)
        /\ EventType(h, 0) = "world.created" /\ EventPayload(h, 0) = worlds[h].name /\ EventTick(h, 0) = 0
        /\ \A i \in 0 .. MaxU64 : EventId(h, i) = 0 <=> i >= count
        /\ \A i \in 1 .. count - 1 :
             /\ EventType(h, i) = "world.advanced"
             /\ EventId(h, i) > EventId(h, i - 1)
             /\ EventTick(h, i) >= EventTick(h, i - 1)
        /\ EventTick(h, count - 1) <= CurrentTick(h)
        /\ LastAnswered(h) => EventTick(h, count - 1) = CurrentTick(h)
=============================================================================
