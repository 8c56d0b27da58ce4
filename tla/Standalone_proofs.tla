------------------------- MODULE Standalone_proofs -------------------------
(***************************************************************************)
(* Theorems about the parts of the engine that share no state with the     *)
(* runtime: the event log a host of the C interface polls, the catalog of  *)
(* a large world, the registry that data packs are loaded into, and the    *)
(* matching of market orders.                                              *)
(***************************************************************************)
EXTENDS WorldHandle, LargeWorld, DataPacks, Orders, SequenceTheorems, Iteration

-----------------------------------------------------------------------------
(* Worlds behind the C interface.                                          *)

EventTypes == {"world.created", "world.advanced"}

Titles == Names \cup {"City Life World"}

Payloads == Titles \cup {""}

LoggedEvents == [id : U64, tick : U64, type : EventTypes, payload : Payloads]

WorldRecords ==
  [name : Titles, seed : Seeds, tick : U64, nextId : U64, events : Seq(LoggedEvents)]

(* The advances a host was told of.                                        *)
Granted(a) == {i \in DOMAIN a : a[i] = 1}

(* The log of a world and the answers to its advances: its creation, then  *)
(* one event for each of those that were granted.                          *)
LogStarts(w) ==
  /\ Len(w.events) >= 1
  /\ w.events[1] = Event(1, 0, "world.created", w.name)

LogGrows(w) ==
  \A i \in 2 .. Len(w.events) :
    /\ w.events[i].type = "world.advanced"
    /\ w.events[i].id > w.events[i - 1].id
    /\ w.events[i].tick >= w.events[i - 1].tick

(* Ids do not run out before the log is full.                              *)
IdsLeft(w, a) ==
  /\ \A i \in 1 .. Len(w.events) : w.events[i].id > 0
  /\ w.nextId <= Len(a) + 2
  /\ Len(a) < EventLimit => w.nextId > w.events[Len(w.events)].id

ClockAtLog(w, a) ==
  /\ w.events[Len(w.events)].tick <= w.tick
  /\ (a = << >> \/ a[Len(a)] = 1) => w.events[Len(w.events)].tick = w.tick

Sound(w, a) ==
  /\ w \in WorldRecords
  /\ Len(w.events) = 1 + Cardinality(Granted(a))
  /\ LogStarts(w)
  /\ LogGrows(w)
  /\ IdsLeft(w, a)
  /\ ClockAtLog(w, a)

HandlesSound ==
  /\ DOMAIN worlds = Handle /\ DOMAIN answers = Handle
  /\ \A h \in Handle :
       /\ answers[h] \in Seq({0, 1}) /\ Len(answers[h]) <= EventLimit
       /\ Exists(h) => Sound(worlds[h], answers[h])

LEMMA GrantedIsFinite ==
  ASSUME NEW a \in Seq({0, 1})
  PROVE  IsFiniteSet(Granted(a)) /\ Cardinality(Granted(a)) \in Nat
<1>1. Granted(a) \subseteq 1 .. Len(a)
  BY DEF Granted
<1>2. IsFiniteSet(1 .. Len(a))
  BY UpTo
<1>3. IsFiniteSet(Granted(a))
  BY <1>1, <1>2, FS_Subset
<1>4. QED
  BY <1>3, FS_CardinalityType

LEMMA GrantedMore ==
  ASSUME NEW a \in Seq({0, 1})
  PROVE  /\ Granted(Append(a, 0)) = Granted(a)
         /\ Cardinality(Granted(Append(a, 1))) = Cardinality(Granted(a)) + 1
<1> DEFINE n == Len(a) + 1
<1>1. n \in Nat /\ n \notin Granted(a)
  BY DEF Granted
<1>2. Granted(Append(a, 0)) = Granted(a)
  BY DEF Granted
<1>3. Granted(Append(a, 1)) = Granted(a) \cup {n}
  BY DEF Granted
<1> HIDE DEF n
<1>4. Cardinality(Granted(a) \cup {n}) = Cardinality(Granted(a)) + 1
  BY <1>1, GrantedIsFinite, FS_AddElement
<1>5. QED
  BY <1>2, <1>3, <1>4

LEMMA WrapType ==
  ASSUME NEW a \in U64
  PROVE  WrapAdd(a, 1) \in U64 /\ WrapAdd(a, 1) <= a + 1 /\ (a < MaxU64 => WrapAdd(a, 1) = a + 1)
BY WidthAssumption DEF WrapAdd, U64

(* One event more.                                                         *)
LEMMA WithEventIs ==
  ASSUME NEW w \in WorldRecords, NEW type \in EventTypes, NEW payload \in Payloads
  PROVE  LET v == WithEvent(w, type, payload)
         IN  /\ v \in WorldRecords
             /\ v.name = w.name /\ v.tick = w.tick /\ v.nextId = WrapAdd(w.nextId, 1)
             /\ Len(v.events) = Len(w.events) + 1
             /\ v.events[Len(w.events) + 1] = Event(w.nextId, w.tick, type, payload)
             /\ \A i \in 1 .. Len(w.events) : v.events[i] = w.events[i]
<1> DEFINE e == Event(w.nextId, w.tick, type, payload)
<1>1. /\ w.nextId \in U64 /\ w.tick \in U64 /\ w.events \in Seq(LoggedEvents)
      /\ w = [name |-> w.name, seed |-> w.seed, tick |-> w.tick, nextId |-> w.nextId, events |-> w.events]
  BY DEF WorldRecords
<1>2. e \in LoggedEvents
  BY <1>1 DEF Event, LoggedEvents
<1>3. WrapAdd(w.nextId, 1) \in U64
  BY <1>1, WrapType
<1>4. PICK s \in Seq(LoggedEvents) : s = w.events
  BY <1>1
<1>9. PICK d \in LoggedEvents : d = e
  BY <1>2
<1>5. WithEvent(w, type, payload) =
        [w EXCEPT !.events = Append(s, d), !.nextId = WrapAdd(w.nextId, 1)]
  BY <1>4, <1>9 DEF WithEvent
<1> HIDE DEF e
<1>6. /\ Append(s, d) \in Seq(LoggedEvents) /\ Len(Append(s, d)) = Len(s) + 1
      /\ Append(s, d)[Len(s) + 1] = d
      /\ \A i \in 1 .. Len(s) : Append(s, d)[i] = s[i]
  OBVIOUS
<1>7. WithEvent(w, type, payload) \in WorldRecords
  BY <1>3, <1>5, <1>6 DEF WorldRecords
<1>8. QED
  BY <1>1, <1>4, <1>5, <1>6, <1>7, <1>9 DEF e

LEMMA CreatedIsSound ==
  ASSUME NEW name \in Titles, NEW seed \in Seeds
  PROVE  Sound(NewWorld(name, seed), << >>) /\ NewWorld(name, seed) # NoWorld
<1> DEFINE w == [name |-> name, seed |-> seed, tick |-> 0, nextId |-> 1, events |-> << >>]
           v == NewWorld(name, seed)
<1>1. w \in WorldRecords /\ Len(w.events) = 0 /\ w.nextId = 1 /\ w.tick = 0 /\ w.name = name
  BY WidthAssumption DEF WorldRecords, U64
<1>2. v = WithEvent(w, "world.created", name)
  BY DEF NewWorld
<1> HIDE DEF w, v
<1>3. /\ v \in WorldRecords
      /\ v.name = name /\ v.tick = 0 /\ v.nextId = WrapAdd(1, 1)
      /\ Len(v.events) = 1
      /\ v.events[1] = Event(1, 0, "world.created", name)
  <2>1. name \in Payloads /\ "world.created" \in EventTypes
    BY DEF EventTypes, Payloads
  <2> DEFINE u == WithEvent(w, "world.created", name)
  <2>2. /\ u \in WorldRecords
        /\ u.name = w.name /\ u.tick = w.tick /\ u.nextId = WrapAdd(w.nextId, 1)
        /\ Len(u.events) = Len(w.events) + 1
        /\ u.events[Len(w.events) + 1] = Event(w.nextId, w.tick, "world.created", name)
    BY <1>1, <2>1, WithEventIs
  <2> HIDE DEF u
  <2>3. QED
    BY <1>1, <1>2, <2>2 DEF u
<1>4. v.events[1].id = 1 /\ v.events[1].tick = 0
  BY <1>3 DEF Event
<1>5. Granted(<< >>) = {} /\ Cardinality(Granted(<< >>)) = 0
  BY FS_EmptySet DEF Granted
<1>6. LogStarts(v) /\ LogGrows(v)
  BY <1>3 DEF LogStarts, LogGrows
<1>7. IdsLeft(v, << >>)
  <2>1. EventLimit > 0 => WrapAdd(1, 1) = 2
    BY WidthAssumption, WorldHandleAssumption DEF WrapAdd
  <2>2. WrapAdd(1, 1) <= 2
    BY WidthAssumption DEF WrapAdd
  <2>3. QED
    BY <1>3, <1>4, <2>1, <2>2 DEF IdsLeft
<1>8. ClockAtLog(v, << >>)
  BY <1>3, <1>4 DEF ClockAtLog
<1>9. v # NoWorld
  <2>1. DOMAIN v = {"name", "seed", "tick", "nextId", "events"}
    BY <1>3 DEF WorldRecords
  <2>2. DOMAIN NoWorld = {"seed"}
    BY DEF NoWorld
  <2>3. QED
    BY <2>1, <2>2
<1>10. QED
  BY <1>3, <1>5, <1>6, <1>7, <1>8, <1>9 DEF Sound, v

(* The clock never falls.                                                  *)
LEMMA ClockAdvances ==
  ASSUME NEW t \in U64, NEW n \in U64
  PROVE  AdvanceTime(t, n) \in U64 /\ t <= AdvanceTime(t, n)
BY WidthAssumption DEF AdvanceTime, SaturatingAdd, CanAdd, U64

LEMMA TicksType ==
  ASSUME NEW amount \in Amounts, NEW unit \in UnitTicks
  PROVE  ToTicks(amount, unit) \in U64
<1>1. amount \in Nat /\ unit \in Nat
  BY WorldHandleAssumption DEF U64
<1>2. PICK n \in Nat : n = amount * unit
  BY <1>1
<1>3. ToTicks(amount, unit) = IF n > MaxU64 THEN MaxU64 ELSE n
  BY <1>2 DEF ToTicks, CanConvert, MultiplyOverflows
<1>4. QED
  BY <1>3, WidthAssumption DEF U64

LEMMA MovedClock ==
  ASSUME NEW w \in WorldRecords, NEW n \in U64
  PROVE  LET v == [w EXCEPT !.tick = AdvanceTime(@, n)]
         IN  /\ v \in WorldRecords /\ w.tick <= v.tick
             /\ v.name = w.name /\ v.nextId = w.nextId /\ v.events = w.events
<1>1. AdvanceTime(w.tick, n) \in U64 /\ w.tick <= AdvanceTime(w.tick, n)
  BY ClockAdvances DEF WorldRecords
<1>2. QED
  BY <1>1 DEF WorldRecords

LEMMA AnsweredOnceMore ==
  ASSUME NEW a \in Seq({0, 1}), NEW x \in {0, 1}
  PROVE  /\ Append(a, x) \in Seq({0, 1}) /\ Len(Append(a, x)) = Len(a) + 1
         /\ Append(a, x) # << >> /\ Append(a, x)[Len(a) + 1] = x
OBVIOUS

(* An advance that was granted: the event has the tick of the clock.       *)
LEMMA AdvancedIsSound ==
  ASSUME NEW w, NEW a \in Seq({0, 1}), Len(a) < EventLimit, Sound(w, a), NEW ticks \in U64
  PROVE  Sound(Advanced(w, ticks), Append(a, 1))
<1> DEFINE u == [w EXCEPT !.tick = AdvanceTime(@, ticks)]
           v == Advanced(w, ticks)
           n == Len(w.events)
           b == Append(a, 1)
<1>1. w \in WorldRecords /\ n \in Nat /\ n >= 1 /\ w.nextId \in U64 /\ w.tick \in U64
  BY DEF Sound, WorldRecords, LogStarts
<1>2. /\ u \in WorldRecords /\ w.tick <= u.tick
      /\ u.name = w.name /\ u.nextId = w.nextId /\ u.events = w.events
  BY <1>1, MovedClock
<1>3. PICK none \in Payloads : v = WithEvent(u, "world.advanced", none)
  BY DEF Advanced, Payloads
<1> HIDE DEF u, v
<1>4. /\ v \in WorldRecords /\ v.name = w.name /\ v.tick = u.tick /\ v.nextId = WrapAdd(w.nextId, 1)
      /\ Len(v.events) = n + 1
      /\ v.events[n + 1] = Event(w.nextId, u.tick, "world.advanced", none)
      /\ \A i \in 1 .. n : v.events[i] = w.events[i]
  <2> DEFINE x == WithEvent(u, "world.advanced", none)
  <2>1. /\ x \in WorldRecords
        /\ x.name = u.name /\ x.tick = u.tick /\ x.nextId = WrapAdd(u.nextId, 1)
        /\ Len(x.events) = Len(u.events) + 1
        /\ x.events[Len(u.events) + 1] = Event(u.nextId, u.tick, "world.advanced", none)
        /\ \A i \in 1 .. Len(u.events) : x.events[i] = u.events[i]
    BY <1>2, WithEventIs DEF EventTypes
  <2> HIDE DEF x
  <2>2. QED
    BY <1>2, <1>3, <2>1 DEF x
<1>5. /\ v.events[n + 1].id = w.nextId /\ v.events[n + 1].tick = u.tick
      /\ v.events[n + 1].type = "world.advanced"
  BY <1>4 DEF Event
<1>6. /\ b \in Seq({0, 1}) /\ Len(b) = Len(a) + 1 /\ b # << >> /\ b[Len(b)] = 1
      /\ Cardinality(Granted(b)) = Cardinality(Granted(a)) + 1
      /\ Cardinality(Granted(a)) \in Nat
  BY AnsweredOnceMore, GrantedMore, GrantedIsFinite
<1>7. n = 1 + Cardinality(Granted(a))
  BY DEF Sound
<1>8. /\ \A i \in 1 .. n : w.events[i].id > 0
      /\ w.nextId <= Len(a) + 2 /\ w.nextId > w.events[n].id
      /\ w.events[n].tick <= w.tick
      /\ w.events \in Seq(LoggedEvents)
  BY <1>1 DEF Sound, IdsLeft, ClockAtLog, WorldRecords
<1>9. \A i \in 1 .. n : w.events[i].id \in Nat /\ w.events[i].tick \in Nat
  <2>1. PICK s \in Seq(LoggedEvents) : s = w.events
    BY <1>8
  <2>2. \A i \in 1 .. Len(s) : s[i] \in LoggedEvents
    OBVIOUS
  <2>3. \A e \in LoggedEvents : e.id \in Nat /\ e.tick \in Nat
    BY WidthAssumption DEF LoggedEvents, U64
  <2>4. QED
    BY <2>1, <2>2, <2>3
<1>10. n \in 1 .. n
  BY <1>1
<1> HIDE DEF n, b
<1>11. Len(v.events) = 1 + Cardinality(Granted(b))
  BY <1>1, <1>4, <1>6, <1>7
<1>12. LogStarts(v)
  <2>1. w.events[1] = Event(1, 0, "world.created", w.name)
    BY DEF Sound, LogStarts
  <2>2. QED
    BY <1>1, <1>4, <2>1 DEF LogStarts
<1>13. LogGrows(v)
  <2> SUFFICES ASSUME NEW i \in 2 .. n + 1
               PROVE  /\ v.events[i].type = "world.advanced"
                      /\ v.events[i].id > v.events[i - 1].id
                      /\ v.events[i].tick >= v.events[i - 1].tick
    BY <1>4 DEF LogGrows
  <2>1. CASE i = n + 1
    <3>1. v.events[i - 1] = w.events[n]
      BY <1>1, <1>4, <1>10, <2>1
    <3>2. w.nextId > w.events[n].id
      BY <1>8
    <3>3. u.tick >= w.events[n].tick
      BY <1>1, <1>2, <1>8, <1>9, <1>10 DEF WorldRecords, U64
    <3>4. QED
      BY <1>5, <2>1, <3>1, <3>2, <3>3
  <2>2. CASE i # n + 1
    <3>1. i \in 2 .. n /\ i \in 1 .. n /\ i - 1 \in 1 .. n
      BY <1>1, <2>2
    <3>2. v.events[i] = w.events[i] /\ v.events[i - 1] = w.events[i - 1]
      BY <1>4, <3>1
    <3>3. LogGrows(w)
      BY DEF Sound
    <3>4. QED
      BY <3>1, <3>2, <3>3 DEF LogGrows, n
  <2>3. QED
    BY <2>1, <2>2
<1>14. IdsLeft(v, b)
  <2>1. Len(a) \in Nat /\ EventLimit \in Nat /\ EventLimit < MaxU64 /\ MaxU64 \in Nat
    BY WorldHandleAssumption, WidthAssumption
  <2>2. w.nextId > 0
    BY <1>1, <1>8, <1>9, <1>10 DEF U64
  <2>3. \A i \in 1 .. n + 1 : v.events[i].id > 0
    <3> SUFFICES ASSUME NEW i \in 1 .. n + 1 PROVE v.events[i].id > 0
      OBVIOUS
    <3>1. CASE i = n + 1
      BY <1>5, <2>2, <3>1
    <3>2. CASE i # n + 1
      <4>1. i \in 1 .. n
        BY <1>1, <3>2
      <4>2. QED
        BY <1>4, <1>8, <4>1
    <3>3. QED
      BY <3>1, <3>2
  <2>4. v.nextId <= w.nextId + 1 /\ (w.nextId < MaxU64 => v.nextId = w.nextId + 1)
    BY <1>1, <1>4, WrapType
  <2>5. v.nextId <= Len(b) + 2
    <3>1. w.nextId <= Len(a) + 2 /\ Len(b) = Len(a) + 1
      BY <1>6, <1>8
    <3>2. w.nextId \in Nat /\ v.nextId \in Nat
      BY <1>1, <1>4, <2>1 DEF WorldRecords, U64
    <3>3. QED
      BY <2>1, <2>4, <3>1, <3>2
  <2>6. ASSUME Len(b) < EventLimit PROVE v.nextId > v.events[n + 1].id
    <3>1. w.nextId < MaxU64
      BY <1>1, <1>6, <1>8, <2>1, <2>6 DEF U64
    <3>2. QED
      BY <1>1, <1>5, <2>4, <3>1 DEF U64
  <2>7. QED
    BY <1>4, <2>3, <2>5, <2>6 DEF IdsLeft
<1>15. ClockAtLog(v, b)
  <2>1. v.tick \in Nat
    BY <1>4 DEF WorldRecords, U64
  <2>2. QED
    BY <1>4, <1>5, <2>1 DEF ClockAtLog
<1>16. QED
  BY <1>4, <1>11, <1>12, <1>13, <1>14, <1>15 DEF Sound, v, b

(* An advance the log had no room for: clock and id have moved, the log    *)
(* has not, and the host was told that it failed.                          *)
LEMMA VainIsSound ==
  ASSUME NEW w, NEW a \in Seq({0, 1}), Len(a) < EventLimit, Sound(w, a), NEW ticks \in U64
  PROVE  Sound(AdvancedInVain(w, ticks), Append(a, 0))
<1> DEFINE u == [w EXCEPT !.tick = AdvanceTime(@, ticks)]
           v == AdvancedInVain(w, ticks)
           b == Append(a, 0)
<1>1. w \in WorldRecords /\ w.nextId \in U64
  BY DEF Sound, WorldRecords
<1>2. /\ u \in WorldRecords /\ w.tick <= u.tick
      /\ u.name = w.name /\ u.nextId = w.nextId /\ u.events = w.events
  BY <1>1, MovedClock
<1>3. v = [u EXCEPT !.nextId = WrapAdd(w.nextId, 1)]
  <2>1. v = [w EXCEPT !.tick = AdvanceTime(w.tick, ticks), !.nextId = WrapAdd(w.nextId, 1)]
    BY DEF AdvancedInVain
  <2>2. QED
    BY <1>1, <2>1 DEF WorldRecords
<1> HIDE DEF u, v
<1>4. WrapAdd(w.nextId, 1) \in U64 /\ WrapAdd(w.nextId, 1) <= w.nextId + 1
      /\ (w.nextId < MaxU64 => WrapAdd(w.nextId, 1) = w.nextId + 1)
  BY <1>1, WrapType
<1>5. /\ v \in WorldRecords /\ v.name = w.name /\ v.events = w.events /\ v.tick = u.tick
      /\ v.nextId = WrapAdd(w.nextId, 1)
  BY <1>2, <1>3, <1>4 DEF WorldRecords
<1>6. /\ b \in Seq({0, 1}) /\ Len(b) = Len(a) + 1 /\ b # << >> /\ b[Len(b)] = 0
      /\ Granted(b) = Granted(a)
  BY AnsweredOnceMore, GrantedMore
<1> HIDE DEF b
<1>7. /\ Len(w.events) = 1 + Cardinality(Granted(a)) /\ LogStarts(w) /\ LogGrows(w)
      /\ IdsLeft(w, a) /\ ClockAtLog(w, a)
  BY DEF Sound
<1>8. LogStarts(v) /\ LogGrows(v)
  BY <1>5, <1>7 DEF LogStarts, LogGrows
<1>9. IdsLeft(v, b)
  <2>1. /\ Len(a) \in Nat /\ EventLimit \in Nat /\ EventLimit < MaxU64 /\ MaxU64 \in Nat
        /\ w.nextId \in Nat /\ WrapAdd(w.nextId, 1) \in Nat
    BY <1>1, <1>4, WorldHandleAssumption, WidthAssumption DEF U64
  <2>2. /\ \A i \in 1 .. Len(w.events) : w.events[i].id > 0
        /\ w.nextId <= Len(a) + 2 /\ w.nextId > w.events[Len(w.events)].id
    BY <1>7 DEF IdsLeft
  <2>3. w.events[Len(w.events)].id \in Nat
    <3>1. PICK s \in Seq(LoggedEvents) : s = w.events
      BY <1>1 DEF WorldRecords
    <3>2. Len(s) \in 1 .. Len(s)
      BY <1>7, <3>1 DEF LogStarts
    <3>3. s[Len(s)] \in LoggedEvents
      BY <3>2
    <3>4. QED
      BY <3>1, <3>3, WidthAssumption DEF LoggedEvents, U64
  <2>4. v.nextId <= Len(b) + 2
    BY <1>4, <1>5, <1>6, <2>1, <2>2
  <2>5. ASSUME Len(b) < EventLimit PROVE v.nextId > w.events[Len(w.events)].id
    BY <1>4, <1>5, <1>6, <2>1, <2>2, <2>3, <2>5
  <2>6. QED
    BY <1>5, <2>2, <2>4, <2>5 DEF IdsLeft
<1>10. ClockAtLog(v, b)
  <2>1. w.events[Len(w.events)].tick \in Nat
    <3>1. PICK s \in Seq(LoggedEvents) : s = w.events
      BY <1>1 DEF WorldRecords
    <3>2. Len(s) \in 1 .. Len(s)
      BY <1>7, <3>1 DEF LogStarts
    <3>3. s[Len(s)] \in LoggedEvents
      BY <3>2
    <3>4. QED
      BY <3>1, <3>3, WidthAssumption DEF LoggedEvents, U64
  <2>2. w.tick \in Nat /\ u.tick \in Nat /\ w.events[Len(w.events)].tick <= w.tick
    BY <1>1, <1>2, <1>7, WidthAssumption DEF WorldRecords, U64, ClockAtLog
  <2>3. w.events[Len(w.events)].tick <= v.tick
    BY <1>2, <1>5, <2>1, <2>2
  <2>4. QED
    BY <1>5, <1>6, <2>3 DEF ClockAtLog
<1>11. QED
  BY <1>5, <1>6, <1>7, <1>8, <1>9, <1>10 DEF Sound, v, b

(* An advance by nothing, which is refused.                                *)
LEMMA RefusedIsSound ==
  ASSUME NEW w, NEW a \in Seq({0, 1}), Len(a) < EventLimit, Sound(w, a)
  PROVE  Sound(w, Append(a, 0))
<1> DEFINE b == Append(a, 0)
<1>1. /\ b \in Seq({0, 1}) /\ Len(b) = Len(a) + 1 /\ b # << >> /\ b[Len(b)] = 0
      /\ Granted(b) = Granted(a) /\ Len(a) \in Nat /\ EventLimit \in Nat
  BY AnsweredOnceMore, GrantedMore, WorldHandleAssumption
<1> HIDE DEF b
<1>2. w.nextId \in Nat
  BY WidthAssumption DEF Sound, WorldRecords, U64
<1>3. IdsLeft(w, a) => IdsLeft(w, b)
  BY <1>1, <1>2 DEF IdsLeft
<1>4. ClockAtLog(w, a) => ClockAtLog(w, b)
  BY <1>1 DEF ClockAtLog
<1>5. QED
  BY <1>1, <1>3, <1>4 DEF Sound, b

LEMMA HandlesStart == WorldHandleInit => HandlesSound
BY WorldHandleAssumption DEF WorldHandleInit, HandlesSound, Exists

(* A step that leaves one handle with world w and answers a.               *)
Becomes(h, w, a) ==
  /\ DOMAIN worlds' = Handle /\ DOMAIN answers' = Handle
  /\ worlds'[h] = w /\ \A g \in Handle : g # h => worlds'[g] = worlds[g]
  /\ answers'[h] = a /\ \A g \in Handle : g # h => answers'[g] = answers[g]

LEMMA HandlesBecome ==
  ASSUME HandlesSound, NEW h \in Handle, NEW w, NEW a \in Seq({0, 1}), Len(a) <= EventLimit,
         w = NoWorld \/ Sound(w, a), Becomes(h, w, a)
  PROVE  HandlesSound'
BY DEF HandlesSound, Becomes, Exists

LEMMA HandlesStep ==
  HandlesSound /\ [WorldHandleNext]_handleVars => HandlesSound'
<1> SUFFICES ASSUME HandlesSound, WorldHandleNext \/ UNCHANGED handleVars PROVE HandlesSound'
  OBVIOUS
<1>1. CASE UNCHANGED handleVars
  BY <1>1 DEF handleVars, HandlesSound, Exists
<1>2. DOMAIN worlds = Handle /\ DOMAIN answers = Handle
  BY DEF HandlesSound
<1>3. PICK none \in Seq({0, 1}) : none = << >> /\ Len(none) <= EventLimit
  <2>1. << >> \in Seq({0, 1}) /\ Len(<< >>) <= EventLimit
    BY WorldHandleAssumption
  <2>2. QED
    BY <2>1, Zenon
<1>8. EventLimit \in Nat
  BY WorldHandleAssumption
<1>4. ASSUME NEW h \in Handle, NEW name \in Names \cup {Null}, NEW seed \in Seeds, Create(h, name, seed)
      PROVE  HandlesSound'
  <2>1. PICK title \in Titles : Becomes(h, NewWorld(title, seed), none)
    BY <1>2, <1>3, <1>4 DEF Create, Titles, Becomes
  <2>2. Sound(NewWorld(title, seed), none)
    BY <1>3, CreatedIsSound
  <2>3. QED
    BY <1>3, <2>1, <2>2, HandlesBecome
<1>5. ASSUME NEW h \in Handle, Destroy(h) PROVE HandlesSound'
  <2>1. Becomes(h, NoWorld, none)
    BY <1>2, <1>3, <1>5 DEF Destroy, Becomes
  <2>2. QED
    BY <1>3, <2>1, HandlesBecome
<1>6. ASSUME NEW h \in Handle, NEW amount \in Amounts, NEW unit \in UnitTicks, Advance(h, amount, unit)
      PROVE  HandlesSound'
  <2> DEFINE ticks == ToTicks(amount, unit)
             w == worlds[h]
             a == answers[h]
  <2>1. /\ ticks \in U64 /\ a \in Seq({0, 1}) /\ Len(a) < EventLimit /\ Sound(w, a)
        /\ DOMAIN worlds = Handle /\ DOMAIN answers = Handle
    BY <1>6, TicksType DEF Advance, HandlesSound
  <2>2. \/ Becomes(h, w, Append(a, 0)) \/ Becomes(h, Advanced(w, ticks), Append(a, 1))
        \/ Becomes(h, AdvancedInVain(w, ticks), Append(a, 0))
    BY <1>2, <1>6 DEF Advance, Answer, Becomes
  <2> HIDE DEF ticks, w, a
  <2>4. /\ Append(a, 0) \in Seq({0, 1}) /\ Len(Append(a, 0)) <= EventLimit
        /\ Append(a, 1) \in Seq({0, 1}) /\ Len(Append(a, 1)) <= EventLimit
    BY <1>8, <2>1
  <2>5. /\ Sound(w, Append(a, 0)) /\ Sound(Advanced(w, ticks), Append(a, 1))
        /\ Sound(AdvancedInVain(w, ticks), Append(a, 0))
    BY <2>1, RefusedIsSound, AdvancedIsSound, VainIsSound
  <2>6. QED
    BY <2>2, <2>4, <2>5, HandlesBecome
<1>7. QED
  BY <1>1, <1>4, <1>5, <1>6 DEF WorldHandleNext

(* What a host reads from a sound world.                                   *)
LEMMA SoundLogTells == HandlesSound => LogTellsTheClock
<1> SUFFICES ASSUME HandlesSound, NEW h \in Handle, Exists(h)
             PROVE  LET count == EventCount(h)
    IN  /\ count = 1 + Successes(h)
        /\ EventType(h, 0) = "world.created" /\ EventPayload(h, 0) = worlds[h].name /\ EventTick(h, 0) = 0
        /\ \A i \in 0 .. MaxU64 : EventId(h, i) = 0 <=> i >= count
        /\ \A i \in 1 .. count - 1 :
             /\ EventType(h, i) = "world.advanced"
             /\ EventId(h, i) > EventId(h, i - 1)
             /\ EventTick(h, i) >= EventTick(h, i - 1)
        /\ EventTick(h, count - 1) <= CurrentTick(h)
        /\ LastAnswered(h) => EventTick(h, count - 1) = CurrentTick(h)
  BY DEF LogTellsTheClock
<1> DEFINE w == worlds[h]
           a == answers[h]
           n == Len(w.events)
<1>1. h # Null
  BY WorldHandleAssumption
<1>2. Sound(w, a)
  BY DEF HandlesSound
<1>3. n \in Nat /\ n >= 1 /\ w.events[1] = Event(1, 0, "world.created", w.name)
  BY <1>2 DEF Sound, WorldRecords, LogStarts
<1>4. EventCount(h) = n /\ CurrentTick(h) = w.tick /\ Successes(h) = Cardinality(Granted(a))
  BY <1>1 DEF EventCount, CurrentTick, Successes, Granted
<1>5. LastAnswered(h) <=> a = << >> \/ a[Len(a)] = 1
  BY DEF LastAnswered
<1>6. \A i \in 0 .. n - 1 : EventAt(h, i) = w.events[i + 1]
  <2>1. \A i \in 0 .. n - 1 : ~(i >= Len(worlds[h].events))
    BY <1>3
  <2>2. QED
    BY <1>1, <2>1, Zenon DEF EventAt
<1>7. \A i \in Nat : i >= n => EventId(h, i) = 0
  BY <1>1 DEF EventAt, EventId, Event
<1> HIDE DEF w, a, n
<1>8. EventType(h, 0) = "world.created" /\ EventPayload(h, 0) = w.name /\ EventTick(h, 0) = 0
  <2>1. EventAt(h, 0) = w.events[1]
    BY <1>3, <1>6
  <2>2. QED
    BY <1>3, <2>1 DEF EventType, EventPayload, EventTick, Event
<1>9. \A i \in 0 .. n - 1 : EventId(h, i) # 0
  <2>1. \A i \in 1 .. n : w.events[i].id > 0
    BY <1>2 DEF Sound, IdsLeft, n
  <2>2. QED
    BY <1>3, <1>6, <2>1 DEF EventId
<1>10. \A i \in 0 .. MaxU64 : EventId(h, i) = 0 <=> i >= n
  BY <1>3, <1>7, <1>9, WidthAssumption
<1>11. ASSUME NEW i \in 1 .. n - 1
       PROVE  /\ EventType(h, i) = "world.advanced"
              /\ EventId(h, i) > EventId(h, i - 1)
              /\ EventTick(h, i) >= EventTick(h, i - 1)
  <2>1. EventAt(h, i) = w.events[i + 1] /\ EventAt(h, i - 1) = w.events[i]
    BY <1>3, <1>6
  <2>2. i + 1 \in 2 .. n /\ i + 1 - 1 = i
    BY <1>3
  <2>3. LogGrows(w)
    BY <1>2 DEF Sound
  <2>4. QED
    BY <2>1, <2>2, <2>3 DEF LogGrows, EventType, EventId, EventTick, n
<1>12. EventTick(h, n - 1) = w.events[n].tick
  BY <1>3, <1>6 DEF EventTick
<1>13. w.events[n].tick <= w.tick /\ ((a = << >> \/ a[Len(a)] = 1) => w.events[n].tick = w.tick)
  BY <1>2 DEF Sound, ClockAtLog, n
<1>14. n = 1 + Cardinality(Granted(a))
  BY <1>2 DEF Sound, n
<1>15. worlds[h].name = w.name
  BY DEF w
<1>16. QED
  BY <1>4, <1>5, <1>8, <1>10, <1>11, <1>12, <1>13, <1>14, <1>15

(* Whatever a host of the C interface creates, advances and destroys, and  *)
(* however many advances run out of memory, the log of a world is its      *)
(* creation and the advances that were answered with 1, and its last event *)
(* has the tick of the clock after such an advance.                        *)
THEOREM LogsTellTheClock == WorldHandleSpec => []LogTellsTheClock
<1>1. WorldHandleSpec => []HandlesSound
  BY HandlesStart, HandlesStep, PTL DEF WorldHandleSpec
<1>2. QED
  BY <1>1, SoundLogTells, PTL

-----------------------------------------------------------------------------
(* The catalog of a large world.                                           *)

AnyObject == UNION {Object[k] : k \in Kind}

Entries == [object : AnyObject, region : RegionId]

(* No object has two entries.                                              *)
OneEntryEach(s) == \A i, j \in DOMAIN s : s[i].object = s[j].object => i = j

(* The region the entries give an object: what assignment_region looks up. *)
Where(s, id) == IF EntryOf(s, id) = 0 THEN Unnamed ELSE s[EntryOf(s, id)].region

LEMMA FirstIsFound ==
  ASSUME NEW found \in SUBSET (Nat \ {0})
  PROVE  /\ found = {} => FirstIn(found) = 0
         /\ found # {} => FirstIn(found) \in found
<1>1. ASSUME found # {} PROVE FirstIn(found) \in found
  <2>1. \E i \in found : \A j \in found : i <= j
    BY <1>1, LeastNumber
  <2>2. QED
    BY <1>1, <2>1 DEF FirstIn
<1>2. QED
  BY <1>1 DEF FirstIn

LEMMA EntryIsFound ==
  ASSUME NEW s \in Seq(Entries), NEW id
  PROVE  /\ EntryOf(s, id) = 0 \/ (EntryOf(s, id) \in DOMAIN s /\ s[EntryOf(s, id)].object = id)
         /\ EntryOf(s, id) = 0 => \A i \in DOMAIN s : s[i].object # id
<1> DEFINE found == {i \in DOMAIN s : s[i].object = id}
<1>1. found \in SUBSET (Nat \ {0})
  OBVIOUS
<1>2. EntryOf(s, id) = FirstIn(found)
  BY DEF EntryOf
<1>3. 0 \notin found
  BY <1>1
<1>4. /\ found = {} => EntryOf(s, id) = 0
      /\ found # {} => EntryOf(s, id) \in found
  BY <1>1, <1>2, FirstIsFound
<1>5. QED
  BY <1>3, <1>4

LEMMA WhereIs ==
  ASSUME NEW s \in Seq(Entries), OneEntryEach(s)
  PROVE  /\ \A i \in DOMAIN s : EntryOf(s, s[i].object) = i /\ Where(s, s[i].object) = s[i].region
         /\ \A id : (\A i \in DOMAIN s : s[i].object # id) => EntryOf(s, id) = 0 /\ Where(s, id) = Unnamed
<1>1. ASSUME NEW i \in DOMAIN s PROVE EntryOf(s, s[i].object) = i /\ Where(s, s[i].object) = s[i].region
  <2>1. EntryOf(s, s[i].object) \in DOMAIN s /\ s[EntryOf(s, s[i].object)].object = s[i].object
    BY <1>1, EntryIsFound
  <2>2. EntryOf(s, s[i].object) = i
    BY <1>1, <2>1 DEF OneEntryEach
  <2>3. i # 0
    BY <1>1
  <2>4. QED
    BY <2>2, <2>3 DEF Where
<1>2. ASSUME NEW id, \A i \in DOMAIN s : s[i].object # id PROVE EntryOf(s, id) = 0 /\ Where(s, id) = Unnamed
  <2>1. EntryOf(s, id) = 0
    BY <1>2, EntryIsFound
  <2>2. QED
    BY <2>1 DEF Where
<1>3. QED
  BY <1>1, <1>2

(* assign_region moves one object and no other.                            *)
LEMMA AssignedAlone ==
  ASSUME NEW s \in Seq(Entries), OneEntryEach(s), NEW id \in AnyObject, NEW r \in RegionId
  PROVE  LET t == WithAssignment(s, id, r)
         IN  /\ t \in Seq(Entries) /\ OneEntryEach(t)
             /\ Where(t, id) = r
             /\ \A o : o # id => Where(t, o) = Where(s, o)
             /\ \A i \in DOMAIN t : t[i].region = r \/ \E j \in DOMAIN s : t[i].region = s[j].region
<1> DEFINE t == WithAssignment(s, id, r)
           n == EntryOf(s, id)
<1>1. PICK e \in Entries : e = [object |-> id, region |-> r]
  BY DEF Entries
<1>2. e.object = id /\ e.region = r
  BY <1>1
<1>3. /\ n = 0 \/ (n \in DOMAIN s /\ s[n].object = id)
      /\ n = 0 => \A i \in DOMAIN s : s[i].object # id
  BY EntryIsFound
<1>4. t = IF n > 0 THEN [s EXCEPT ![n] = e] ELSE Append(s, e)
  BY <1>1 DEF WithAssignment
<1> HIDE DEF t, n
<1>5. ASSUME n = 0
      PROVE  /\ t \in Seq(Entries) /\ DOMAIN t = DOMAIN s \cup {Len(s) + 1}
             /\ Len(s) + 1 \notin DOMAIN s /\ t[Len(s) + 1] = e
             /\ \A i \in DOMAIN s : t[i] = s[i]
  <2>1. t = Append(s, e)
    BY <1>4, <1>5
  <2>2. QED
    BY <2>1
<1>6. ASSUME n # 0
      PROVE  /\ t \in Seq(Entries) /\ DOMAIN t = DOMAIN s /\ n \in DOMAIN s
             /\ t[n] = e /\ \A i \in DOMAIN s : i # n => t[i] = s[i]
  <2>1. n \in DOMAIN s /\ n > 0
    BY <1>3, <1>6
  <2>2. t = [s EXCEPT ![n] = e]
    BY <1>4, <2>1
  <2>3. QED
    BY <2>1, <2>2
<1>7. PICK m \in DOMAIN t :
        /\ t \in Seq(Entries) /\ t[m] = e
        /\ DOMAIN t = DOMAIN s \cup {m}
        /\ \A i \in DOMAIN s : i # m => t[i] = s[i]
        /\ \A i \in DOMAIN s : s[i].object = id => i = m
        /\ m \in DOMAIN s => s[m].object = id
  <2>1. CASE n = 0
    BY <1>3, <1>5, <2>1
  <2>2. CASE n # 0
    BY <1>3, <1>6, <2>2 DEF OneEntryEach
  <2>3. QED
    BY <2>1, <2>2
<1>8. OneEntryEach(t)
  BY <1>2, <1>7 DEF OneEntryEach
<1>9. Where(t, id) = r
  BY <1>2, <1>7, <1>8, WhereIs
<1>10. ASSUME NEW o, o # id PROVE Where(t, o) = Where(s, o)
  <2>1. CASE \E i \in DOMAIN s : s[i].object = o
    <3>1. PICK i \in DOMAIN s : s[i].object = o
      BY <2>1
    <3>2. i \in DOMAIN t /\ t[i] = s[i]
      BY <1>7, <1>10, <3>1
    <3>3. Where(s, s[i].object) = s[i].region
      BY WhereIs
    <3>4. Where(t, t[i].object) = t[i].region
      BY <1>7, <1>8, <3>2, WhereIs
    <3>5. QED
      BY <3>1, <3>2, <3>3, <3>4
  <2>2. CASE \A i \in DOMAIN s : s[i].object # o
    <3>1. \A i \in DOMAIN t : t[i].object # o
      BY <1>2, <1>7, <1>10, <2>2
    <3>2. Where(t, o) = Unnamed
      BY <1>7, <1>8, <3>1, WhereIs
    <3>3. Where(s, o) = Unnamed
      BY <2>2, WhereIs
    <3>4. QED
      BY <3>2, <3>3
  <2>3. QED
    BY <2>1, <2>2
<1>11. \A i \in DOMAIN t : t[i].region = r \/ \E j \in DOMAIN s : t[i].region = s[j].region
  BY <1>2, <1>7
<1>12. QED
  BY <1>7, <1>8, <1>9, <1>10, <1>11 DEF t

RegionsOK == regions \in SUBSET RegionId /\ IsFiniteSet(regions)

ObjectsOK ==
  /\ objects \in [Kind -> SUBSET AnyObject]
  /\ \A k \in Kind : IsFiniteSet(objects[k])

KeepsEntries(s) ==
  /\ s \in Seq(Entries) /\ OneEntryEach(s)
  /\ \A i \in DOMAIN s : s[i].region \in regions

AssignedOK == DOMAIN assigned = Kind /\ \A k \in Kind : KeepsEntries(assigned[k])

(* Every object is where it was last assigned.                             *)
WishedOK ==
  /\ DOMAIN wished = Kind
  /\ \A k \in Kind : DOMAIN wished[k] = Object[k]
  /\ \A k \in Kind : \A id \in Object[k] : wished[k][id] = Where(assigned[k], id)

(* What was added could be added again.                                    *)
AcceptedOK ==
  /\ features \in Seq(FeatureConfigs) /\ \A i \in DOMAIN features : FeaturesAccepted(features[i])
  /\ links \in Seq(RegionLinks) /\ \A i \in DOMAIN links : LinkAccepted(links[i])
  /\ references \in Seq(References) /\ \A i \in DOMAIN references : ReferenceAccepted(references[i])

CatalogOK == RegionsOK /\ ObjectsOK /\ AssignedOK /\ WishedOK /\ AcceptedOK

LEMMA ReplacedOrAdded ==
  ASSUME NEW S, NEW s \in Seq(S), NEW e \in S, NEW n, n = 0 \/ n \in DOMAIN s,
         NEW t, t = IF n > 0 THEN [s EXCEPT ![n] = e] ELSE Append(s, e)
  PROVE  /\ t \in Seq(S)
         /\ \A i \in DOMAIN t : t[i] = e \/ \E j \in DOMAIN s : t[i] = s[j]
<1>1. CASE n = 0
  <2>1. t = Append(s, e)
    BY <1>1
  <2>2. QED
    BY <2>1
<1>2. CASE n # 0
  <2>1. n > 0 /\ n \in DOMAIN s
    BY <1>2
  <2>2. t = [s EXCEPT ![n] = e]
    BY <2>1
  <2>3. QED
    BY <2>1, <2>2
<1>3. QED
  BY <1>1, <1>2

LEMMA CatalogStart == LargeWorldInit => CatalogOK
<1> SUFFICES ASSUME LargeWorldInit PROVE CatalogOK
  OBVIOUS
<1>1. RegionsOK
  BY FS_EmptySet DEF LargeWorldInit, RegionsOK
<1>2. ObjectsOK
  BY LargeWorldAssumption DEF LargeWorldInit, ObjectsOK, AnyObject
<1>3. ASSUME NEW k \in Kind PROVE KeepsEntries(assigned[k]) /\ \A id : Where(assigned[k], id) = Unnamed
  <2>1. assigned[k] = << >>
    BY DEF LargeWorldInit
  <2>2. PICK s \in Seq(Entries) : s = << >> /\ DOMAIN s = {}
    <3>1. << >> \in Seq(Entries) /\ DOMAIN << >> = {}
      OBVIOUS
    <3>2. QED
      BY <3>1, Zenon
  <2>3. OneEntryEach(s)
    BY <2>2 DEF OneEntryEach
  <2>4. \A id : Where(s, id) = Unnamed
    BY <2>2, <2>3, WhereIs
  <2>5. QED
    BY <2>1, <2>2, <2>3, <2>4 DEF KeepsEntries
<1>4. AssignedOK
  BY <1>3 DEF AssignedOK, LargeWorldInit
<1>5. WishedOK
  BY <1>3 DEF WishedOK, LargeWorldInit
<1>6. AcceptedOK
  BY DEF AcceptedOK, LargeWorldInit
<1>7. QED
  BY <1>1, <1>2, <1>4, <1>5, <1>6 DEF CatalogOK

LEMMA CatalogStep ==
  CatalogOK /\ [LargeWorldNext]_largeWorldVars => CatalogOK'
<1> SUFFICES ASSUME CatalogOK, LargeWorldNext \/ UNCHANGED largeWorldVars PROVE CatalogOK'
  OBVIOUS
<1> USE DEF CatalogOK
<1>1. CASE UNCHANGED <<catalogVars, wished>> /\ ObjectsOK'
  BY <1>1 DEF catalogVars, RegionsOK, AssignedOK, KeepsEntries, WishedOK, AcceptedOK,
              FeaturesAccepted, LinkAccepted, ReferenceAccepted
<1>2. CASE UNCHANGED largeWorldVars
  BY <1>1, <1>2 DEF largeWorldVars, ObjectsOK
<1>3. ASSUME NEW r \in RegionId, AddRegion(r) PROVE CatalogOK'
  <2>1. regions' = regions \cup {r} /\ UNCHANGED <<assigned, features, links, references, objects, stream, wished>>
    BY <1>3 DEF AddRegion
  <2>2. RegionsOK'
    BY <2>1, FS_AddElement DEF RegionsOK
  <2>3. AssignedOK' /\ WishedOK' /\ ObjectsOK'
    BY <2>1 DEF AssignedOK, KeepsEntries, WishedOK, ObjectsOK
  <2>4. AcceptedOK'
    BY <2>1 DEF AcceptedOK, FeaturesAccepted, LinkAccepted, ReferenceAccepted
  <2>5. QED
    BY <2>2, <2>3, <2>4
<1>4. ASSUME NEW r \in RegionId, EventLogged(r) PROVE CatalogOK'
  BY <1>1, <1>4 DEF EventLogged, ObjectsOK
<1>5. ASSUME NEW k \in Kind, NEW id \in Object[k], ObjectCreated(k, id) PROVE CatalogOK'
  <2>1. id \in AnyObject
    BY <1>5 DEF AnyObject
  <2>2. /\ DOMAIN objects = Kind
        /\ objects' = [objects EXCEPT ![k] = objects[k] \cup {id}]
        /\ UNCHANGED <<catalogVars, wished>>
    BY <1>5 DEF ObjectCreated, ObjectsOK
  <2>3. IsFiniteSet(objects[k] \cup {id})
    BY FS_AddElement DEF ObjectsOK
  <2>4. ObjectsOK'
    BY <2>1, <2>2, <2>3 DEF ObjectsOK
  <2>5. QED
    BY <1>1, <2>2, <2>4
<1>6. ASSUME NEW k \in Kind, NEW id \in Object[k], NEW r \in RegionId, Assign(k, id, r) PROVE CatalogOK'
  <2> DEFINE s == assigned[k]
             t == WithAssignment(s, id, r)
  <2>1. /\ r \in regions /\ assigned' = [assigned EXCEPT ![k] = t]
        /\ wished' = [wished EXCEPT ![k] = [wished[k] EXCEPT ![id] = r]]
        /\ UNCHANGED <<regions, features, links, references, objects, stream>>
    BY <1>6 DEF Assign
  <2>2. id \in AnyObject /\ KeepsEntries(s)
    BY <1>6 DEF AnyObject, AssignedOK
  <2>3. /\ t \in Seq(Entries) /\ OneEntryEach(t)
        /\ Where(t, id) = r
        /\ \A o : o # id => Where(t, o) = Where(s, o)
        /\ \A i \in DOMAIN t : t[i].region = r \/ \E j \in DOMAIN s : t[i].region = s[j].region
    BY <2>2, AssignedAlone DEF KeepsEntries
  <2> HIDE DEF t
  <2>4. KeepsEntries(t)
    BY <2>1, <2>2, <2>3 DEF KeepsEntries
  <2>5. /\ DOMAIN assigned' = Kind /\ assigned'[k] = t
        /\ \A l \in Kind : l # k => assigned'[l] = assigned[l]
    BY <2>1 DEF AssignedOK
  <2>6. AssignedOK'
    BY <2>1, <2>4, <2>5 DEF AssignedOK, KeepsEntries
  <2>7. /\ DOMAIN wished' = Kind /\ \A l \in Kind : l # k => wished'[l] = wished[l]
        /\ DOMAIN wished'[k] = Object[k] /\ wished'[k][id] = r
        /\ \A o \in Object[k] : o # id => wished'[k][o] = wished[k][o]
    BY <2>1 DEF WishedOK
  <2>8. \A l \in Kind : \A o \in Object[l] : wished'[l][o] = Where(assigned'[l], o)
    <3> SUFFICES ASSUME NEW l \in Kind, NEW o \in Object[l] PROVE wished'[l][o] = Where(assigned'[l], o)
      OBVIOUS
    <3>1. wished[l][o] = Where(assigned[l], o)
      BY DEF WishedOK
    <3>2. CASE l # k
      BY <2>5, <2>7, <3>1, <3>2
    <3>3. CASE l = k /\ o # id
      BY <2>3, <2>5, <2>7, <3>1, <3>3
    <3>4. CASE l = k /\ o = id
      BY <2>3, <2>5, <2>7, <3>4
    <3>5. QED
      BY <3>2, <3>3, <3>4
  <2>9. WishedOK'
    <3>1. \A l \in Kind : DOMAIN wished'[l] = Object[l]
      BY <2>7 DEF WishedOK
    <3>2. QED
      BY <2>7, <2>8, <3>1 DEF WishedOK, Where, EntryOf
  <2>10. RegionsOK' /\ ObjectsOK' /\ AcceptedOK'
    BY <2>1 DEF RegionsOK, ObjectsOK, AcceptedOK, FeaturesAccepted, LinkAccepted, ReferenceAccepted
  <2>11. QED
    BY <2>6, <2>9, <2>10
<1>7. ASSUME UNCHANGED <<regions, assigned, objects, wished>>, AcceptedOK' PROVE CatalogOK'
  BY <1>7 DEF RegionsOK, ObjectsOK, AssignedOK, KeepsEntries, WishedOK
<1>8. ASSUME NEW config \in FeatureConfigs, AddFeatures(config) PROVE CatalogOK'
  <2> DEFINE n == FirstIn({i \in DOMAIN features : features[i].region = config.region})
  <2>1. /\ FeaturesAccepted(config) /\ features \in Seq(FeatureConfigs)
        /\ features' = IF n > 0 THEN [features EXCEPT ![n] = config] ELSE Append(features, config)
        /\ UNCHANGED <<regions, assigned, links, references, objects, stream, wished>>
    BY <1>8 DEF AddFeatures, AcceptedOK
  <2>2. {i \in DOMAIN features : features[i].region = config.region} \in SUBSET (Nat \ {0})
    BY <2>1
  <2>3. n = 0 \/ n \in DOMAIN features
    BY <2>2, FirstIsFound
  <2> HIDE DEF n
  <2>4. /\ features' \in Seq(FeatureConfigs)
        /\ \A i \in DOMAIN features' : features'[i] = config \/ \E j \in DOMAIN features : features'[i] = features[j]
    BY <2>1, <2>3, ReplacedOrAdded
  <2>5. AcceptedOK'
    BY <2>1, <2>4 DEF AcceptedOK, FeaturesAccepted, LinkAccepted, ReferenceAccepted
  <2>6. QED
    BY <1>7, <2>1, <2>5
<1>9. ASSUME NEW config \in RegionLinks, AddLink(config) PROVE CatalogOK'
  <2> DEFINE n == FirstIn({i \in DOMAIN links : SameLink(links[i], config)})
  <2>1. /\ LinkAccepted(config) /\ links \in Seq(RegionLinks)
        /\ links' = IF n > 0 THEN [links EXCEPT ![n] = config] ELSE Append(links, config)
        /\ UNCHANGED <<regions, assigned, features, references, objects, stream, wished>>
    BY <1>9 DEF AddLink, AcceptedOK
  <2>2. {i \in DOMAIN links : SameLink(links[i], config)} \in SUBSET (Nat \ {0})
    BY <2>1
  <2>3. n = 0 \/ n \in DOMAIN links
    BY <2>2, FirstIsFound
  <2> HIDE DEF n
  <2>4. /\ links' \in Seq(RegionLinks)
        /\ \A i \in DOMAIN links' : links'[i] = config \/ \E j \in DOMAIN links : links'[i] = links[j]
    BY <2>1, <2>3, ReplacedOrAdded
  <2>5. AcceptedOK'
    BY <2>1, <2>4 DEF AcceptedOK, FeaturesAccepted, LinkAccepted, ReferenceAccepted
  <2>6. QED
    BY <1>7, <2>1, <2>5
<1>10. ASSUME NEW ref \in References, AddReference(ref) PROVE CatalogOK'
  <2>1. /\ ReferenceAccepted(ref) /\ references \in Seq(References) /\ references' = Append(references, ref)
        /\ UNCHANGED <<regions, assigned, features, links, objects, stream, wished>>
    BY <1>10 DEF AddReference, AcceptedOK
  <2>2. /\ references' \in Seq(References)
        /\ \A i \in DOMAIN references' :
             references'[i] = ref \/ \E j \in DOMAIN references : references'[i] = references[j]
    BY <2>1
  <2>3. AcceptedOK'
    BY <2>1, <2>2 DEF AcceptedOK, FeaturesAccepted, LinkAccepted, ReferenceAccepted
  <2>4. QED
    BY <1>7, <2>1, <2>3
<1>11. ASSUME NEW w \in Loadable, RuntimeLoaded(w) PROVE CatalogOK'
  <2>1. ObjectsOK'
    BY <1>11, LargeWorldAssumption DEF RuntimeLoaded, ObjectsOK, AnyObject
  <2>2. QED
    BY <1>1, <1>11, <2>1 DEF RuntimeLoaded
<1>12. QED
  BY <1>2, <1>3, <1>4, <1>5, <1>6, <1>8, <1>9, <1>10, <1>11 DEF LargeWorldNext

(* The regions, with the empty id for what has none, share out the objects *)
(* of a kind, and the entries are those of objects in a region and of      *)
(* objects that are gone.                                                  *)
Gone(k) == {i \in DOMAIN assigned[k] : assigned[k][i].object \notin objects[k]}

LEMMA EntriesSharedOut ==
  ASSUME CatalogOK, NEW k \in Kind
  PROVE  Len(assigned[k]) =
           Cardinality({id \in objects[k] : RegionOf(k, id) \in regions}) + Cardinality(Gone(k))
<1> DEFINE s == assigned[k]
           here == {i \in DOMAIN s : s[i].object \in objects[k]}
           placed == {id \in objects[k] : RegionOf(k, id) \in regions}
           f == [i \in here |-> s[i].object]
<1>1. /\ s \in Seq(Entries) /\ OneEntryEach(s) /\ \A i \in DOMAIN s : s[i].region \in regions
      /\ regions \subseteq RegionId
  BY DEF CatalogOK, AssignedOK, KeepsEntries, RegionsOK
<1>2. \A id : RegionOf(k, id) = Where(s, id)
  BY DEF RegionOf, Where
<1>3. Gone(k) = {i \in DOMAIN s : s[i].object \notin objects[k]}
  BY DEF Gone
<1> HIDE DEF s
<1>4. DOMAIN s = 1 .. Len(s) /\ Len(s) \in Nat
  BY <1>1
<1>5. here \cup Gone(k) = 1 .. Len(s) /\ here \cap Gone(k) = {}
  BY <1>3, <1>4
<1>6. IsFiniteSet(1 .. Len(s)) /\ Cardinality(1 .. Len(s)) = Len(s)
  BY <1>4, UpTo
<1>7. here \in SUBSET (1 .. Len(s)) /\ Gone(k) \in SUBSET (1 .. Len(s))
  BY <1>5
<1>8. IsFiniteSet(here) /\ IsFiniteSet(Gone(k))
  BY <1>6, <1>7, FS_Subset
<1> HIDE DEF here
<1>9. Len(s) = Cardinality(here) + Cardinality(Gone(k))
  BY <1>5, <1>6, <1>8, ApartAddUp
<1>10. \A i \in here : i \in DOMAIN s /\ s[i].object \in objects[k]
  BY DEF here
<1>11. \A i \in here : f[i] \in placed
  <2> SUFFICES ASSUME NEW i \in here PROVE f[i] \in placed
    OBVIOUS
  <2>1. Where(s, s[i].object) = s[i].region
    BY <1>1, <1>10, WhereIs
  <2>2. QED
    BY <1>1, <1>2, <1>10, <2>1
<1>12. \A i, j \in here : f[i] = f[j] => i = j
  BY <1>1, <1>10 DEF OneEntryEach
<1>13. \A id \in placed : \E i \in here : f[i] = id
  <2> SUFFICES ASSUME NEW id \in objects[k], RegionOf(k, id) \in regions PROVE \E i \in here : f[i] = id
    OBVIOUS
  <2>1. Where(s, id) # Unnamed
    BY <1>1, <1>2, LargeWorldAssumption
  <2>2. PICK i \in DOMAIN s : s[i].object = id
    BY <1>1, <2>1, WhereIs
  <2>3. i \in here
    BY <2>2 DEF here
  <2>4. QED
    BY <2>2, <2>3
<1> HIDE DEF placed
<1>14. f \in [here -> placed]
  BY <1>11
<1> HIDE DEF f
<1>15. Cardinality(placed) = Cardinality(here)
  BY <1>8, <1>12, <1>13, <1>14, SameSize
<1>16. QED
  BY <1>9, <1>15 DEF s, placed

LEMMA SeenUnrolled ==
  ASSUME NEW k, NEW D, IsFiniteSet(D), NEW w \in [D -> Nat], \A d \in D : RegionSummary(d).visible[k] = w[d]
  PROVE  \E f : IsSum(f, D, w) /\ SeenIn(k, D) = f[D]
<1> DEFINE Eq(f) == f = [R \in SUBSET D |->
                           IF R = {} THEN 0
                           ELSE LET r == CHOOSE r \in R : TRUE IN RegionSummary(r).visible[k] + f[R \ {r}]]
           sum == CHOOSE f : Eq(f)
<1>1. ASSUME NEW f PROVE Eq(f) <=> IsSum(f, D, w)
  <2>1. \A R \in SUBSET D : R # {} => RegionSummary(AnyOf(R)).visible[k] = w[AnyOf(R)]
    BY AnyOfIsIn
  <2>2. [R \in SUBSET D |-> IF R = {} THEN 0 ELSE RegionSummary(AnyOf(R)).visible[k] + f[R \ {AnyOf(R)}]]
          = [R \in SUBSET D |-> IF R = {} THEN 0 ELSE w[AnyOf(R)] + f[R \ {AnyOf(R)}]]
    BY <2>1
  <2>3. Eq(f) <=> f = [R \in SUBSET D |->
                         IF R = {} THEN 0 ELSE RegionSummary(AnyOf(R)).visible[k] + f[R \ {AnyOf(R)}]]
    BY DEF AnyOf
  <2> HIDE DEF Eq
  <2>4. QED
    BY <2>2, <2>3 DEF IsSum
<1>2. PICK g \in [SUBSET D -> Nat] : IsSum(g, D, w)
  BY SumExists
<1> HIDE DEF Eq
<1>3. Eq(g)
  BY <1>1, <1>2
<1>7. \E f : Eq(f)
  BY <1>3
<1>4. Eq(sum)
  BY <1>7, Zenon
<1>5. SeenIn(k, D) = sum[D]
  BY Zenon DEF SeenIn, Eq
<1> HIDE DEF sum
<1>6. QED
  BY <1>1, <1>4, <1>5

(* The summaries of some regions count the objects that are in them.       *)
LEMMA SeenIsThere ==
  ASSUME CatalogOK, NEW k \in Kind, NEW D, IsFiniteSet(D)
  PROVE  SeenIn(k, D) = Cardinality({id \in objects[k] : RegionOf(k, id) \in D})
<1> DEFINE O == {id \in objects[k] : RegionOf(k, id) \in D}
           rho == [id \in O |-> RegionOf(k, id)]
           w == [d \in D |-> Cardinality(Part(O, rho, {d}))]
<1>1. IsFiniteSet(objects[k]) /\ O \in SUBSET objects[k]
  BY DEF CatalogOK, ObjectsOK
<1>2. IsFiniteSet(O)
  BY <1>1, FS_Subset
<1>3. rho \in [O -> D]
  OBVIOUS
<1>4. ASSUME NEW d \in D
      PROVE  /\ Part(O, rho, {d}) \in SUBSET O
             /\ RegionSummary(d).visible[k] = Cardinality(Part(O, rho, {d}))
  <2>1. Part(O, rho, {d}) = {id \in objects[k] : RegionOf(k, id) = d}
    BY DEF Part
  <2>2. RegionSummary(d).visible[k] = Cardinality({id \in objects[k] : RegionOf(k, id) = d})
    BY DEF RegionSummary
  <2>3. Part(O, rho, {d}) \in SUBSET O
    BY DEF Part
  <2>4. QED
    BY <2>1, <2>2, <2>3
<1>5. Part(O, rho, D) = O
  BY DEF Part
<1> HIDE DEF O, rho
<1>6. \A d \in D : Cardinality(Part(O, rho, {d})) \in Nat
  BY <1>2, <1>4, FS_Subset, FS_CardinalityType
<1>7. w \in [D -> Nat] /\ \A d \in D : w[d] = Cardinality(Part(O, rho, {d}))
  BY <1>6
<1> HIDE DEF w
<1>8. \A d \in D : RegionSummary(d).visible[k] = w[d]
  BY <1>4, <1>7
<1>9. PICK f : IsSum(f, D, w) /\ SeenIn(k, D) = f[D]
  BY <1>7, <1>8, SeenUnrolled
<1>10. \A S \in SUBSET D : f[S] = Cardinality(Part(O, rho, S))
  <2>1. w \in [D -> Nat] /\ CountsParts(w, D, O, rho) /\ IsSum(f, D, w)
    BY <1>7, <1>9 DEF CountsParts
  <2>2. QED
    BY <1>2, <1>3, <2>1, PartsAddUp
<1>11. D \in SUBSET D
  OBVIOUS
<1>12. SeenIn(k, D) = Cardinality(Part(O, rho, D))
  BY <1>9, <1>10, <1>11
<1>13. QED
  BY <1>5, <1>12 DEF O

LEMMA CatalogPartitions == CatalogOK => RegionsPartitionTheWorld
<1> SUFFICES ASSUME CatalogOK PROVE RegionsPartitionTheWorld
  OBVIOUS
<1>1. \A k \in Kind : \A id \in Object[k] : RegionOf(k, id) = wished[k][id]
  BY DEF CatalogOK, WishedOK, RegionOf, Where
<1>2. IsFiniteSet(regions) /\ IsFiniteSet(regions \cup {Unnamed})
  BY FS_AddElement DEF CatalogOK, RegionsOK
<1>3. ASSUME NEW k \in Kind
      PROVE  /\ SeenIn(k, regions \cup {Unnamed}) = Cardinality(objects[k])
             /\ RegionSummary(Unnamed).visible[k] = Summary.unassigned[k]
             /\ Summary.assigned[k] = SeenIn(k, regions) + Cardinality(Errors.gone[k])
  <2>1. KeepsEntries(assigned[k])
    BY DEF CatalogOK, AssignedOK
  <2>2. \A id : RegionOf(k, id) \in regions \cup {Unnamed}
    <3> SUFFICES ASSUME NEW id PROVE RegionOf(k, id) \in regions \cup {Unnamed}
      OBVIOUS
    <3>1. EntryOf(assigned[k], id) = 0 \/ EntryOf(assigned[k], id) \in DOMAIN assigned[k]
      BY <2>1, EntryIsFound DEF KeepsEntries
    <3>2. QED
      BY <2>1, <3>1 DEF KeepsEntries, RegionOf
  <2>3. {id \in objects[k] : RegionOf(k, id) \in regions \cup {Unnamed}} = objects[k]
    BY <2>2
  <2>4. SeenIn(k, regions \cup {Unnamed}) = Cardinality(objects[k])
    BY <1>2, <2>3, SeenIsThere
  <2>5. RegionSummary(Unnamed).visible[k] = Summary.unassigned[k]
    BY DEF RegionSummary, Summary, Unassigned
  <2>6. Summary.assigned[k] = Len(assigned[k])
    BY DEF Summary
  <2>7. Errors.gone[k] = Gone(k)
    BY DEF Errors, Gone
  <2>8. Len(assigned[k]) = SeenIn(k, regions) + Cardinality(Gone(k))
    BY <1>2, SeenIsThere, EntriesSharedOut
  <2>9. QED
    BY <2>4, <2>5, <2>6, <2>7, <2>8
<1>4. Errors.nowhere = {}
  <2>1. \A k \in Kind : {i \in DOMAIN assigned[k] : assigned[k][i].region \notin regions} = {}
    BY DEF CatalogOK, AssignedOK, KeepsEntries
  <2>2. QED
    BY <2>1 DEF Errors
<1>5. Errors.refused = {}
  <2>1. /\ {i \in DOMAIN features : ~FeaturesAccepted(features[i])} = {}
        /\ {i \in DOMAIN links : ~LinkAccepted(links[i])} = {}
        /\ {i \in DOMAIN references : ~ReferenceAccepted(references[i])} = {}
    BY DEF CatalogOK, AcceptedOK
  <2>2. QED
    BY <2>1 DEF Errors
<1>6. \A r \in regions : {i \in DOMAIN stream : stream[i] = r} \subseteq Stream(r)
  BY DEF Stream
<1>7. QED
  BY <1>1, <1>3, <1>4, <1>5, <1>6 DEF RegionsPartitionTheWorld

(* Whatever a host adds, assigns, moves and loads, regions, settlements,   *)
(* routes and caravans without bound, each object is in the region it was  *)
(* last assigned to and is counted by one summary, every entry is that of  *)
(* an object in a region or of one that is gone, and the catalog stays     *)
(* valid but for those.                                                    *)
THEOREM RegionsShareOutTheWorld == LargeWorldSpec => []RegionsPartitionTheWorld
<1>1. LargeWorldSpec => []CatalogOK
  BY CatalogStart, CatalogStep, PTL DEF LargeWorldSpec
<1>2. QED
  BY <1>1, CatalogPartitions, PTL

-----------------------------------------------------------------------------
(* The data registry.  Everything a load can leave in it comes from a file *)
(* of the host or was added directly.                                      *)

FileRecords ==
  UNION {UNION {{Records(file, s)[n] : n \in 1 .. Len(Records(file, s))} : s \in Section} : file \in Files}

AllRecords == FileRecords \cup {d.record : d \in Directly}

DefinitionIds == {r["id"] : r \in AllRecords}

Defined == UNION {[I -> AllRecords] : I \in SUBSET DefinitionIds}

DefinitionMaps == [Section -> Defined]

LoaderStates == [defs : DefinitionMaps, ok : BOOLEAN]

RecordPairs == Section \X AllRecords

(* A definition that only an earlier one of its id can keep out.           *)
Acceptable(s, r) == NumberAccepted(s, r) /\ Proper(s, r)

LEMMA RecordsType ==
  ASSUME NEW file \in Files, NEW s \in Section
  PROVE  /\ Len(Records(file, s)) \in Nat
         /\ DOMAIN Records(file, s) = 1 .. Len(Records(file, s))
         /\ \A n \in 1 .. Len(Records(file, s)) : Records(file, s)[n] \in AllRecords
<1> DEFINE heads == {n \in DOMAIN file : Header(file[n]) /\ file[n].name = s /\ PairsOf(file, n) # {}}
           record(k) == RecordAt(file, CHOOSE n \in heads : Cardinality({m \in heads : m <= n}) = k)
<1>1. IsFiniteSet(heads)
  <2>1. PICK m \in Nat : DOMAIN file = 1 .. m
    BY DataPacksAssumption
  <2>2. IsFiniteSet(1 .. m)
    BY FS_Interval
  <2>3. heads \subseteq 1 .. m
    BY <2>1
  <2> HIDE DEF heads
  <2>4. QED
    BY <2>2, <2>3, FS_Subset
<1>2. PICK c \in Nat : c = Cardinality(heads)
  BY <1>1, FS_CardinalityType
<1>3. Records(file, s) = [k \in 1 .. c |-> record(k)]
  BY <1>2 DEF Records
<1> HIDE DEF heads, record
<1>4. PICK T : T = {record(k) : k \in 1 .. c}
  OBVIOUS
<1>5. Records(file, s) \in [1 .. c -> T]
  BY <1>3, <1>4
<1>6. Records(file, s) \in Seq(T) /\ Len(Records(file, s)) = c
  BY <1>5
<1>7. DOMAIN Records(file, s) = 1 .. c
  BY <1>5
<1>8. \A n \in 1 .. Len(Records(file, s)) : Records(file, s)[n] \in FileRecords
  BY DEF FileRecords
<1>9. QED
  BY <1>6, <1>7, <1>8 DEF AllRecords

LEMMA IncludingType ==
  ASSUME NEW d \in Defined, NEW r \in AllRecords
  PROVE  /\ Including(d, r) \in Defined
         /\ DOMAIN Including(d, r) = DOMAIN d \cup {r["id"]}
         /\ Including(d, r)[r["id"]] = r
         /\ \A id \in DOMAIN d : id # r["id"] => Including(d, r)[id] = d[id]
<1>1. PICK I \in SUBSET DefinitionIds : d \in [I -> AllRecords]
  BY DEF Defined
<1>2. PICK x \in DefinitionIds : x = r["id"]
  BY DEF DefinitionIds
<1>3. PICK J \in SUBSET DefinitionIds : J = I \cup {x}
  BY <1>2
<1>4. Including(d, r) = [id \in J |-> IF id = x THEN r ELSE d[id]]
  BY <1>1, <1>2, <1>3 DEF Including
<1>5. Including(d, r) \in [J -> AllRecords]
  BY <1>1, <1>3, <1>4
<1>6. Including(d, r) \in Defined
  BY <1>5 DEF Defined
<1>7. DOMAIN d = I /\ x \in J
  BY <1>1, <1>3
<1>8. DOMAIN Including(d, r) = J /\ Including(d, r)[x] = r
  BY <1>4, <1>7
<1>9. \A id \in I : id # x => Including(d, r)[id] = d[id]
  BY <1>3, <1>4
<1>10. QED
  BY <1>2, <1>3, <1>6, <1>7, <1>8, <1>9

(* One state of the loader after another, with these records in between:   *)
(* nothing defined has changed; each acceptable record has its id defined; *)
(* what is new is one of the records; and if no error was reported, every  *)
(* record stands in the registry.                                          *)
Kept(d, e) ==
  \A s \in Section : \A id \in DOMAIN d[s] : id \in DOMAIN e[s] /\ e[s][id] = d[s][id]

Taken(e, M) ==
  \A s \in Section, r \in AllRecords :
    <<s, r>> \in M /\ Acceptable(s, r) => r["id"] \in DOMAIN e[s]

Sourced(d, e, M) ==
  \A s \in Section : \A id \in DOMAIN e[s] :
    \/ id \in DOMAIN d[s]
    \/ <<s, e[s][id]>> \in M /\ Acceptable(s, e[s][id]) /\ e[s][id]["id"] = id

Standing(e, M) ==
  \A s \in Section, r \in AllRecords :
    <<s, r>> \in M => Acceptable(s, r) /\ r["id"] \in DOMAIN e[s] /\ e[s][r["id"]] = r

Passed(p, q, M) ==
  /\ Kept(p.defs, q.defs)
  /\ Taken(q.defs, M)
  /\ Sourced(p.defs, q.defs, M)
  /\ q.ok = TRUE => p.ok = TRUE /\ Standing(q.defs, M)

LEMMA PassedNothing ==
  ASSUME NEW p \in LoaderStates, NEW q \in LoaderStates, q.defs = p.defs, q.ok = TRUE => p.ok = TRUE
  PROVE  Passed(p, q, {})
BY DEF Passed, Kept, Taken, Sourced, Standing

LEMMA PassedOn ==
  ASSUME NEW p \in LoaderStates, NEW q \in LoaderStates, NEW t \in LoaderStates,
         NEW M \in SUBSET RecordPairs, NEW N \in SUBSET RecordPairs,
         Passed(p, q, M), Passed(q, t, N)
  PROVE  Passed(p, t, M \cup N)
<1> DEFINE d == p.defs
           e == q.defs
           f == t.defs
<1>1. /\ Kept(d, e) /\ Taken(e, M) /\ Sourced(d, e, M) /\ (q.ok = TRUE => p.ok = TRUE /\ Standing(e, M))
      /\ Kept(e, f) /\ Taken(f, N) /\ Sourced(e, f, N) /\ (t.ok = TRUE => q.ok = TRUE /\ Standing(f, N))
  BY DEF Passed
<1> HIDE DEF d, e, f
<1>2. Kept(d, f)
  BY <1>1 DEF Kept
<1>3. Taken(f, M \cup N)
  BY <1>1 DEF Kept, Taken
<1>4. Sourced(d, f, M \cup N)
  BY <1>1 DEF Kept, Sourced
<1>5. t.ok = TRUE => p.ok = TRUE /\ Standing(f, M \cup N)
  BY <1>1 DEF Kept, Standing
<1>6. QED
  BY <1>2, <1>3, <1>4, <1>5 DEF Passed, d, f

LEMMA PassedLoop ==
  ASSUME NEW N \in Nat, NEW after \in [0 .. N -> LoaderStates], NEW M \in [1 .. N -> SUBSET RecordPairs],
         \A n \in 1 .. N : Passed(after[n - 1], after[n], M[n])
  PROVE  Passed(after[0], after[N], UNION {M[n] : n \in 1 .. N})
<1> DEFINE U(n) == UNION {M[k] : k \in 1 .. n}
           T == {n \in 0 .. N : Passed(after[0], after[n], U(n))}
<1>1. 0 \in T
  <2>1. U(0) = {}
    OBVIOUS
  <2>2. PICK p \in LoaderStates : p = after[0]
    OBVIOUS
  <2>3. Passed(p, p, {})
    BY PassedNothing
  <2>4. Passed(after[0], after[0], U(0))
    BY <2>1, <2>2, <2>3
  <2>5. QED
    BY <2>4
<1>2. ASSUME NEW n \in 1 .. N, n - 1 \in T PROVE n \in T
  <2>1. n \in Nat /\ n - 1 \in 0 .. N /\ n \in 0 .. N /\ 0 \in 0 .. N
    OBVIOUS
  <2>2. U(n) = U(n - 1) \cup M[n]
    <3>1. \A k : k \in 1 .. n <=> k \in 1 .. n - 1 \/ k = n
      BY <2>1
    <3>2. QED
      BY <3>1
  <2>3. U(n - 1) \in SUBSET RecordPairs /\ M[n] \in SUBSET RecordPairs
    BY <2>1
  <2>4. Passed(after[0], after[n - 1], U(n - 1)) /\ Passed(after[n - 1], after[n], M[n])
    BY <1>2
  <2> HIDE DEF U
  <2>5. Passed(after[0], after[n], U(n - 1) \cup M[n])
    BY <2>1, <2>3, <2>4, PassedOn
  <2>6. QED
    BY <2>1, <2>2, <2>5
<1> HIDE DEF T
<1>3. \A n \in 0 .. N : n \in T
  BY <1>1, <1>2, BoundedInduction
<1>4. N \in T
  BY <1>3
<1>5. QED
  BY <1>4 DEF T

-----------------------------------------------------------------------------
(* One definition is registered, or reported.                              *)
LEMMA WithDefinitionType ==
  ASSUME NEW d \in DefinitionMaps, NEW s \in Section, NEW r \in AllRecords
  PROVE  /\ WithDefinition(d, s, r) \in DefinitionMaps
         /\ WithDefinition(d, s, r)[s] = Including(d[s], r)
         /\ \A x \in Section : x # s => WithDefinition(d, s, r)[x] = d[x]
<1>1. d[s] \in Defined /\ Including(d[s], r) \in Defined
  <2>1. PICK old \in Defined : old = d[s]
    BY DEF DefinitionMaps
  <2>2. QED
    BY <2>1, IncludingType
<1>2. QED
  BY <1>1 DEF WithDefinition, DefinitionMaps

LEMMA DefinitionTaken ==
  ASSUME NEW d \in DefinitionMaps, NEW s \in Section, NEW r \in AllRecords,
         Acceptable(s, r), r["id"] \notin DOMAIN d[s]
  PROVE  LET e == WithDefinition(d, s, r)
         IN  Kept(d, e) /\ Taken(e, {<<s, r>>}) /\ Sourced(d, e, {<<s, r>>}) /\ Standing(e, {<<s, r>>})
<1> DEFINE e == WithDefinition(d, s, r)
<1>1. PICK old \in Defined : old = d[s]
  BY DEF DefinitionMaps
<1>2. /\ e \in DefinitionMaps /\ e[s] = Including(old, r)
      /\ \A x \in Section : x # s => e[x] = d[x]
  BY <1>1, WithDefinitionType
<1>3. /\ DOMAIN e[s] = DOMAIN old \cup {r["id"]}
      /\ e[s][r["id"]] = r
      /\ \A id \in DOMAIN old : id # r["id"] => e[s][id] = old[id]
  BY <1>2, IncludingType
<1> HIDE DEF e
<1>4. Kept(d, e)
  BY <1>1, <1>2, <1>3 DEF Kept
<1>5. Taken(e, {<<s, r>>})
  BY <1>3 DEF Taken
<1>6. Sourced(d, e, {<<s, r>>})
  BY <1>1, <1>2, <1>3 DEF Sourced
<1>7. Standing(e, {<<s, r>>})
  BY <1>3 DEF Standing
<1>8. QED
  BY <1>4, <1>5, <1>6, <1>7 DEF e

LEMMA StateFields ==
  ASSUME NEW s \in LoaderStates
  PROVE  /\ s.defs \in DefinitionMaps
         /\ \A d \in DefinitionMaps :
              [s EXCEPT !.defs = d] \in LoaderStates /\ [s EXCEPT !.defs = d].defs = d
                /\ ([s EXCEPT !.defs = d].ok = TRUE <=> s.ok = TRUE)
         /\ \A b \in BOOLEAN :
              [s EXCEPT !.ok = b] \in LoaderStates /\ [s EXCEPT !.ok = b].defs = s.defs
                /\ ([s EXCEPT !.ok = b].ok = TRUE <=> b = TRUE)
BY DEF LoaderStates

LEMMA RegisteredPasses ==
  ASSUME NEW s \in LoaderStates, NEW x \in Section, NEW r \in AllRecords
  PROVE  Registered(s, x, r) \in LoaderStates /\ Passed(s, Registered(s, x, r), {<<x, r>>})
<1>1. s.defs \in DefinitionMaps
  BY StateFields
<1>2. CASE NumberAccepted(x, r) /\ CanAddDefinition(s.defs, x, r)
  <2>1. PICK e \in DefinitionMaps : e = WithDefinition(s.defs, x, r)
    BY <1>1, WithDefinitionType
  <2>2. PICK t \in LoaderStates : t = [s EXCEPT !.defs = e] /\ t.defs = e /\ (t.ok = TRUE <=> s.ok = TRUE)
    BY StateFields
  <2>3. Registered(s, x, r) = t
    BY <1>2, <2>1, <2>2 DEF Registered
  <2>4. Acceptable(x, r) /\ r["id"] \notin DOMAIN s.defs[x]
    BY <1>2 DEF Acceptable, CanAddDefinition
  <2>5. Kept(s.defs, e) /\ Taken(e, {<<x, r>>}) /\ Sourced(s.defs, e, {<<x, r>>}) /\ Standing(e, {<<x, r>>})
    BY <1>1, <2>1, <2>4, DefinitionTaken
  <2>6. Passed(s, t, {<<x, r>>})
    BY <2>2, <2>5 DEF Passed
  <2>7. QED
    BY <2>3, <2>6
<1>3. CASE ~(NumberAccepted(x, r) /\ CanAddDefinition(s.defs, x, r))
  <2>1. PICK t \in LoaderStates : t = [s EXCEPT !.ok = FALSE] /\ t.defs = s.defs /\ t.ok # TRUE
    BY StateFields
  <2>2. Registered(s, x, r) = t
    BY <1>3, <2>1 DEF Registered
  <2>3. Acceptable(x, r) => r["id"] \in DOMAIN s.defs[x]
    BY <1>3 DEF Acceptable, CanAddDefinition
  <2>4. Kept(s.defs, t.defs) /\ Sourced(s.defs, t.defs, {<<x, r>>})
    BY <2>1 DEF Kept, Sourced
  <2>5. Taken(t.defs, {<<x, r>>})
    BY <2>1, <2>3 DEF Taken
  <2>6. t.ok # TRUE
    BY <2>1
  <2>7. QED
    BY <2>2, <2>4, <2>5, <2>6 DEF Passed
<1>4. QED
  BY <1>2, <1>3

-----------------------------------------------------------------------------
(* The loops of a load: records of a section, sections of a file, files of *)
(* a directory.                                                            *)

RoundsPass(round, M, N) ==
  \A n \in 1 .. N : \A t \in LoaderStates : Passed(t, round[n][t], M[n])

Follows(f, N, s, round) ==
  /\ f = [n \in 0 .. N |-> f[n]]
  /\ f[0] = s
  /\ \A n \in 1 .. N : f[n - 1] \in LoaderStates => f[n] = round[n][f[n - 1]]

(* A loop whose rounds pass their records passes all of them.              *)
LEMMA PassedRounds ==
  ASSUME NEW N \in Nat, NEW s \in LoaderStates, NEW M \in [1 .. N -> SUBSET RecordPairs],
         NEW round \in [1 .. N -> [LoaderStates -> LoaderStates]], RoundsPass(round, M, N),
         NEW f, Follows(f, N, s, round)
  PROVE  /\ \A n \in 0 .. N : f[n] \in LoaderStates
         /\ Passed(s, f[N], UNION {M[n] : n \in 1 .. N})
<1>0. f = [n \in 0 .. N |-> f[n]] /\ f[0] = s
      /\ \A n \in 1 .. N : f[n - 1] \in LoaderStates => f[n] = round[n][f[n - 1]]
  BY DEF Follows
<1>1. \A n \in 0 .. N : f[n] \in LoaderStates
  <2> DEFINE T == {n \in 0 .. N : f[n] \in LoaderStates}
  <2>1. 0 \in T
    BY <1>0
  <2>2. ASSUME NEW n \in 1 .. N, n - 1 \in T PROVE n \in T
    <3>1. f[n] = round[n][f[n - 1]] /\ f[n - 1] \in LoaderStates
      BY <1>0, <2>2
    <3>2. f[n] \in LoaderStates
      BY <3>1
    <3>3. QED
      BY <3>2
  <2> HIDE DEF T
  <2>3. \A n \in 0 .. N : n \in T
    BY <2>1, <2>2, BoundedInduction
  <2>4. QED
    BY <2>3 DEF T
<1>2. f \in [0 .. N -> LoaderStates]
  BY <1>0, <1>1
<1>3. \A n \in 1 .. N : n - 1 \in 0 .. N
  OBVIOUS
<1>4. \A n \in 1 .. N : Passed(f[n - 1], f[n], M[n])
  BY <1>0, <1>1, <1>3 DEF RoundsPass
<1>5. Passed(f[0], f[N], UNION {M[n] : n \in 1 .. N})
  BY <1>2, <1>4, PassedLoop
<1>6. QED
  BY <1>0, <1>1, <1>5

(* The records of a section, from the lines of a file.                     *)
SectionPairs(file, x) == {<<x, Records(file, x)[n]>> : n \in 1 .. Len(Records(file, x))}

LEMMA SectionPasses ==
  ASSUME NEW s \in LoaderStates, NEW file \in Files, NEW x \in Section
  PROVE  /\ SectionPairs(file, x) \in SUBSET RecordPairs
         /\ RegisteredSection(s, file, x) \in LoaderStates
         /\ Passed(s, RegisteredSection(s, file, x), SectionPairs(file, x))
<1> DEFINE records == Records(file, x)
           N == Len(records)
           Eq(f) == f = [n \in 0 .. N |-> IF n = 0 THEN s ELSE Registered(f[n - 1], x, records[n])]
           round == [n \in 1 .. N |-> [t \in LoaderStates |-> Registered(t, x, records[n])]]
           M == [n \in 1 .. N |-> {<<x, records[n]>>}]
           after == CHOOSE f : Eq(f)
<1>1. N \in Nat /\ \A n \in 1 .. N : records[n] \in AllRecords
  BY RecordsType
<1> HIDE DEF records, N
<1>2. \A n \in 1 .. N : \A t \in LoaderStates :
        Registered(t, x, records[n]) \in LoaderStates /\ Passed(t, Registered(t, x, records[n]), {<<x, records[n]>>})
  BY <1>1, RegisteredPasses
<1>3. round \in [1 .. N -> [LoaderStates -> LoaderStates]]
  BY <1>2
<1>4. M \in [1 .. N -> SUBSET RecordPairs] /\ \A n \in 1 .. N : M[n] = {<<x, records[n]>>}
  BY <1>1 DEF RecordPairs
<1>5. RoundsPass(round, M, N)
  BY <1>2 DEF RoundsPass
<1>6. \A f : f \in [0 .. N -> LoaderStates] /\ IsLoop(f, N, s, round) => Eq(f)
  <2>1. SUFFICES ASSUME NEW f \in [0 .. N -> LoaderStates], IsLoop(f, N, s, round) PROVE Eq(f)
    OBVIOUS
  <2>2. ASSUME NEW n \in 0 .. N, n # 0
        PROVE  round[n][f[n - 1]] = Registered(f[n - 1], x, records[n])
    <3>1. n \in 1 .. N /\ f[n - 1] \in LoaderStates
      BY <1>1, <2>2
    <3>2. QED
      BY <3>1
  <2> HIDE DEF round
  <2>3. QED
    BY <2>1, <2>2 DEF IsLoop
<1>7. \E f : Eq(f)
  <2>1. PICK f \in [0 .. N -> LoaderStates] : IsLoop(f, N, s, round)
    <3> HIDE DEF round
    <3>1. QED
      BY <1>1, <1>3, LoopExists
  <2> HIDE DEF Eq
  <2>2. QED
    BY <1>6, <2>1
<1>8. Eq(after)
  <2> HIDE DEF Eq
  <2>1. QED
    BY <1>7, Zenon
<1>9. RegisteredSection(s, file, x) = after[N]
  BY Zenon DEF RegisteredSection, N, records
<1> HIDE DEF after
<1>10. Follows(after, N, s, round)
  <2>1. after = [n \in 0 .. N |-> after[n]] /\ after[0] = s
    BY <1>1, <1>8
  <2>2. \A n \in 1 .. N : after[n - 1] \in LoaderStates => after[n] = round[n][after[n - 1]]
    BY <1>1, <1>8
  <2>3. QED
    BY <2>1, <2>2 DEF Follows
<1> HIDE DEF M, round, Eq
<1>11. M \in [1 .. N -> SUBSET RecordPairs]
  BY <1>4
<1>12. /\ \A n \in 0 .. N : after[n] \in LoaderStates
       /\ Passed(s, after[N], UNION {M[n] : n \in 1 .. N})
  BY <1>1, <1>3, <1>5, <1>10, <1>11, PassedRounds
<1>14. UNION {M[n] : n \in 1 .. N} = SectionPairs(file, x)
  BY <1>4 DEF SectionPairs, N, records
<1>15. SectionPairs(file, x) \in SUBSET RecordPairs
  BY <1>4, <1>14
<1>16. after[N] \in LoaderStates
  BY <1>1, <1>12
<1>17. QED
  BY <1>9, <1>12, <1>14, <1>15, <1>16

-----------------------------------------------------------------------------
LEMMA PlacesType ==
  /\ Len(Places) \in Nat
  /\ \A n \in 1 .. Len(Places) : Places[n] \in Section
  /\ \A x \in Section : \E n \in 1 .. Len(Places) : Places[n] = x
<1>1. Len(Places) = 5
  BY DEF Places
<1>2. \A n \in 1 .. 5 : Places[n] \in Section
  BY DEF Places, Section
<1>3. /\ Places[1] = "resource" /\ Places[2] = "currency" /\ Places[3] = "building"
      /\ Places[4] = "profession" /\ Places[5] = "settlement"
  BY DEF Places
<1>4. \A x \in Section : \E n \in 1 .. 5 : Places[n] = x
  BY <1>3 DEF Section
<1>5. QED
  BY <1>1, <1>2, <1>4

FilePairs(file) == UNION {SectionPairs(file, Places[n]) : n \in 1 .. Len(Places)}

LEMMA FilePasses ==
  ASSUME NEW s \in LoaderStates, NEW file \in Files
  PROVE  /\ FilePairs(file) \in SUBSET RecordPairs
         /\ RegisteredFile(s, file) \in LoaderStates
         /\ Passed(s, RegisteredFile(s, file), FilePairs(file))
<1> DEFINE N == Len(Places)
           Eq(f) == f = [n \in 0 .. N |-> IF n = 0 THEN s ELSE RegisteredSection(f[n - 1], file, Places[n])]
           round == [n \in 1 .. N |-> [t \in LoaderStates |-> RegisteredSection(t, file, Places[n])]]
           M == [n \in 1 .. N |-> SectionPairs(file, Places[n])]
           after == CHOOSE f : Eq(f)
<1>1. N \in Nat /\ \A n \in 1 .. N : Places[n] \in Section
  BY PlacesType
<1> HIDE DEF N
<1>2. \A n \in 1 .. N : \A t \in LoaderStates :
        /\ RegisteredSection(t, file, Places[n]) \in LoaderStates
        /\ Passed(t, RegisteredSection(t, file, Places[n]), SectionPairs(file, Places[n]))
  BY <1>1, SectionPasses
<1>3. round \in [1 .. N -> [LoaderStates -> LoaderStates]]
  BY <1>2
<1>4. M \in [1 .. N -> SUBSET RecordPairs] /\ \A n \in 1 .. N : M[n] = SectionPairs(file, Places[n])
  <2>1. \A n \in 1 .. N : SectionPairs(file, Places[n]) \in SUBSET RecordPairs
    BY <1>1, SectionPasses
  <2>2. QED
    BY <2>1
<1>5. RoundsPass(round, M, N)
  BY <1>2 DEF RoundsPass
<1>6. \A f : f \in [0 .. N -> LoaderStates] /\ IsLoop(f, N, s, round) => Eq(f)
  <2>1. SUFFICES ASSUME NEW f \in [0 .. N -> LoaderStates], IsLoop(f, N, s, round) PROVE Eq(f)
    OBVIOUS
  <2>2. ASSUME NEW n \in 0 .. N, n # 0
        PROVE  round[n][f[n - 1]] = RegisteredSection(f[n - 1], file, Places[n])
    <3>1. n \in 1 .. N /\ f[n - 1] \in LoaderStates
      BY <1>1, <2>2
    <3>2. QED
      BY <3>1
  <2> HIDE DEF round
  <2>3. QED
    BY <2>1, <2>2 DEF IsLoop
<1>7. \E f : Eq(f)
  <2>1. PICK f \in [0 .. N -> LoaderStates] : IsLoop(f, N, s, round)
    <3> HIDE DEF round
    <3>1. QED
      BY <1>1, <1>3, LoopExists
  <2> HIDE DEF Eq
  <2>2. QED
    BY <1>6, <2>1
<1>8. Eq(after)
  <2> HIDE DEF Eq
  <2>1. QED
    BY <1>7, Zenon
<1>9. RegisteredFile(s, file) = after[N]
  BY Zenon DEF RegisteredFile, N
<1> HIDE DEF after
<1>10. Follows(after, N, s, round)
  <2>1. after = [n \in 0 .. N |-> after[n]] /\ after[0] = s
    BY <1>1, <1>8
  <2>2. \A n \in 1 .. N : after[n - 1] \in LoaderStates => after[n] = round[n][after[n - 1]]
    BY <1>1, <1>8
  <2>3. QED
    BY <2>1, <2>2 DEF Follows
<1> HIDE DEF M, round, Eq
<1>11. M \in [1 .. N -> SUBSET RecordPairs]
  BY <1>4
<1>12. /\ \A n \in 0 .. N : after[n] \in LoaderStates
       /\ Passed(s, after[N], UNION {M[n] : n \in 1 .. N})
  BY <1>1, <1>3, <1>5, <1>10, <1>11, PassedRounds
<1>14. UNION {M[n] : n \in 1 .. N} = FilePairs(file)
  BY <1>4 DEF FilePairs, N
<1>15. FilePairs(file) \in SUBSET RecordPairs
  BY <1>4, <1>14
<1>16. after[N] \in LoaderStates
  BY <1>1, <1>12
<1>17. QED
  BY <1>9, <1>12, <1>14, <1>15, <1>16

LEMMA ReferencesPass ==
  ASSUME NEW s \in LoaderStates
  PROVE  /\ ReferencesChecked(s) \in LoaderStates
         /\ ReferencesChecked(s).defs = s.defs
         /\ ReferencesChecked(s).ok = TRUE => s.ok = TRUE /\ Unresolved(s.defs) = {}
<1>1. PICK b \in BOOLEAN : b = (s.ok /\ Unresolved(s.defs) = {})
  <2>1. s.ok \in BOOLEAN
    BY DEF LoaderStates
  <2>2. (s.ok /\ Unresolved(s.defs) = {}) \in BOOLEAN
    BY Zenon
  <2>3. QED
    BY <2>2, Zenon
<1>2. ReferencesChecked(s) = [s EXCEPT !.ok = b]
  BY <1>1, Zenon DEF ReferencesChecked
<1>3. /\ [s EXCEPT !.ok = b] \in LoaderStates /\ [s EXCEPT !.ok = b].defs = s.defs
      /\ ([s EXCEPT !.ok = b].ok = TRUE <=> b = TRUE)
  BY StateFields
<1>4. b = TRUE => s.ok /\ Unresolved(s.defs) = {}
  BY <1>1, Zenon
<1>5. s.ok => s.ok = TRUE
  <2>1. s.ok \in BOOLEAN
    BY DEF LoaderStates
  <2>2. QED
    BY <2>1, Zenon
<1>6. QED
  BY <1>2, <1>3, <1>4, <1>5, Zenon

(* What a load takes from a file: nothing, when it does not parse.         *)
TextPairs(file) == IF Parses(file) THEN FilePairs(file) ELSE {}

LEMMA FileLoadPasses ==
  ASSUME NEW s \in LoaderStates, NEW file \in Files
  PROVE  /\ TextPairs(file) \in SUBSET RecordPairs
         /\ FileLoaded(s, file) \in LoaderStates
         /\ Passed(s, FileLoaded(s, file), TextPairs(file))
         /\ FileLoaded(s, file).ok = TRUE => Parses(file) /\ Unresolved(FileLoaded(s, file).defs) = {}
<1>1. CASE Parses(file)
  <2>1. PICK q \in LoaderStates : q = RegisteredFile(s, file)
    BY FilePasses
  <2>2. Passed(s, q, FilePairs(file)) /\ FilePairs(file) \in SUBSET RecordPairs
    BY <2>1, FilePasses
  <2>3. PICK t \in LoaderStates : t = ReferencesChecked(q)
    BY ReferencesPass
  <2>4. t.defs = q.defs /\ (t.ok = TRUE => q.ok = TRUE /\ Unresolved(q.defs) = {})
    BY <2>3, ReferencesPass
  <2>5. FileLoaded(s, file) = t
    BY <1>1, <2>1, <2>3 DEF FileLoaded
  <2>6. TextPairs(file) = FilePairs(file)
    BY <1>1 DEF TextPairs
  <2>7. Passed(s, t, FilePairs(file))
    BY <2>2, <2>4 DEF Passed
  <2>8. QED
    BY <1>1, <2>2, <2>4, <2>5, <2>6, <2>7
<1>2. CASE ~Parses(file)
  <2>1. PICK t \in LoaderStates : t = [s EXCEPT !.ok = FALSE] /\ t.defs = s.defs /\ t.ok # TRUE
    BY StateFields
  <2>2. FileLoaded(s, file) = t
    BY <1>2, <2>1 DEF FileLoaded
  <2>3. TextPairs(file) = {}
    BY <1>2 DEF TextPairs
  <2>4. Passed(s, t, {})
    BY <2>1, PassedNothing
  <2>5. QED
    BY <2>1, <2>2, <2>3, <2>4
<1>3. QED
  BY <1>1, <1>2

-----------------------------------------------------------------------------
DirectoryPairs(files) == UNION {TextPairs(files[n]) : n \in 1 .. Len(files)}

AllParse(files, n) == \A k \in 1 .. n : Parses(files[k])

LEMMA DirectoryPasses ==
  ASSUME NEW s \in LoaderStates, NEW files \in Seq(Files)
  PROVE  /\ DirectoryPairs(files) \in SUBSET RecordPairs
         /\ DirectoryLoaded(s, files) \in LoaderStates
         /\ Passed(s, DirectoryLoaded(s, files), DirectoryPairs(files))
         /\ DirectoryLoaded(s, files).ok = TRUE =>
              AllParse(files, Len(files)) /\ Unresolved(DirectoryLoaded(s, files).defs) = {}
<1> DEFINE N == Len(files)
           Eq(f) == f = [n \in 0 .. N |-> IF n = 0 THEN s ELSE FileLoaded(f[n - 1], files[n])]
           round == [n \in 1 .. N |-> [t \in LoaderStates |-> FileLoaded(t, files[n])]]
           M == [n \in 1 .. N |-> TextPairs(files[n])]
           after == CHOOSE f : Eq(f)
<1>1. N \in Nat /\ \A n \in 1 .. N : files[n] \in Files
  OBVIOUS
<1> HIDE DEF N
<1>2. \A n \in 1 .. N : \A t \in LoaderStates :
        /\ FileLoaded(t, files[n]) \in LoaderStates
        /\ Passed(t, FileLoaded(t, files[n]), TextPairs(files[n]))
        /\ FileLoaded(t, files[n]).ok = TRUE => Parses(files[n])
  BY <1>1, FileLoadPasses
<1>3. round \in [1 .. N -> [LoaderStates -> LoaderStates]]
  BY <1>2
<1>4. M \in [1 .. N -> SUBSET RecordPairs] /\ \A n \in 1 .. N : M[n] = TextPairs(files[n])
  <2>1. \A n \in 1 .. N : TextPairs(files[n]) \in SUBSET RecordPairs
    <3>1. PICK t : t \in LoaderStates
      OBVIOUS
    <3>2. QED
      BY <1>1, <3>1, FileLoadPasses
  <2>2. QED
    BY <2>1
<1>5. RoundsPass(round, M, N)
  BY <1>2 DEF RoundsPass
<1>6. \A f : f \in [0 .. N -> LoaderStates] /\ IsLoop(f, N, s, round) => Eq(f)
  <2>1. SUFFICES ASSUME NEW f \in [0 .. N -> LoaderStates], IsLoop(f, N, s, round) PROVE Eq(f)
    OBVIOUS
  <2>2. ASSUME NEW n \in 0 .. N, n # 0
        PROVE  round[n][f[n - 1]] = FileLoaded(f[n - 1], files[n])
    <3>1. n \in 1 .. N /\ f[n - 1] \in LoaderStates
      BY <1>1, <2>2
    <3>2. QED
      BY <3>1
  <2> HIDE DEF round
  <2>3. QED
    BY <2>1, <2>2 DEF IsLoop
<1>7. \E f : Eq(f)
  <2>1. PICK f \in [0 .. N -> LoaderStates] : IsLoop(f, N, s, round)
    <3> HIDE DEF round
    <3>1. QED
      BY <1>1, <1>3, LoopExists
  <2> HIDE DEF Eq
  <2>2. QED
    BY <1>6, <2>1
<1>8. Eq(after)
  <2> HIDE DEF Eq
  <2>1. QED
    BY <1>7, Zenon
<1>9. DirectoryLoaded(s, files) = ReferencesChecked(after[N])
  BY Zenon DEF DirectoryLoaded, N
<1> HIDE DEF after
<1>10. Follows(after, N, s, round)
  <2>1. after = [n \in 0 .. N |-> after[n]] /\ after[0] = s
    BY <1>1, <1>8
  <2>2. \A n \in 1 .. N : after[n - 1] \in LoaderStates => after[n] = round[n][after[n - 1]]
    BY <1>1, <1>8
  <2>3. QED
    BY <2>1, <2>2 DEF Follows
<1>11. \A n \in 1 .. N : after[n] = FileLoaded(after[n - 1], files[n])
  BY <1>1, <1>8
<1> HIDE DEF round, Eq
<1>12. /\ \A n \in 0 .. N : after[n] \in LoaderStates
       /\ Passed(s, after[N], UNION {M[n] : n \in 1 .. N})
  <2> HIDE DEF M
  <2>1. M \in [1 .. N -> SUBSET RecordPairs]
    BY <1>4
  <2>2. QED
    BY <1>1, <1>3, <1>5, <1>10, <2>1, PassedRounds
<1>14. UNION {M[n] : n \in 1 .. N} = DirectoryPairs(files)
  BY <1>4 DEF DirectoryPairs, N
<1>15. DirectoryPairs(files) \in SUBSET RecordPairs
  <2> HIDE DEF M
  <2>1. QED
    BY <1>4, <1>14
<1>16. \A n \in 0 .. N : after[n].ok = TRUE => AllParse(files, n)
  <2> DEFINE T == {n \in 0 .. N : after[n].ok = TRUE => AllParse(files, n)}
  <2>1. 0 \in T
    BY <1>1 DEF AllParse
  <2>2. ASSUME NEW n \in 1 .. N, n - 1 \in T PROVE n \in T
    <3>1. n \in 0 .. N /\ n - 1 \in 0 .. N
      BY <1>1
    <3>2. after[n] = FileLoaded(after[n - 1], files[n]) /\ after[n - 1] \in LoaderStates
      BY <1>11, <1>12, <3>1
    <3>3. /\ Passed(after[n - 1], after[n], TextPairs(files[n]))
          /\ after[n].ok = TRUE => Parses(files[n])
      BY <1>2, <3>2
    <3>4. after[n].ok = TRUE => after[n - 1].ok = TRUE
      BY <3>3 DEF Passed
    <3>5. after[n - 1].ok = TRUE => AllParse(files, n - 1)
      BY <2>2
    <3>6. AllParse(files, n - 1) /\ Parses(files[n]) => AllParse(files, n)
      <4>1. \A k \in 1 .. n : k \in 1 .. n - 1 \/ k = n
        OBVIOUS
      <4>2. QED
        BY <4>1 DEF AllParse
    <3>7. QED
      BY <3>1, <3>3, <3>4, <3>5, <3>6
  <2> HIDE DEF T
  <2>3. \A n \in 0 .. N : n \in T
    BY <1>1, <2>1, <2>2, BoundedInduction
  <2>4. QED
    BY <2>3 DEF T
<1>17. PICK q \in LoaderStates : q = after[N]
  BY <1>1, <1>12
<1>18. PICK t \in LoaderStates : t = ReferencesChecked(q)
  BY ReferencesPass
<1>19. t.defs = q.defs /\ (t.ok = TRUE => q.ok = TRUE /\ Unresolved(q.defs) = {})
  BY <1>18, ReferencesPass
<1>20. Passed(s, t, DirectoryPairs(files))
  <2>1. Passed(s, q, DirectoryPairs(files))
    BY <1>12, <1>14, <1>17
  <2>2. QED
    BY <1>19, <2>1 DEF Passed
<1>21. t.ok = TRUE => AllParse(files, N) /\ Unresolved(t.defs) = {}
  BY <1>1, <1>16, <1>17, <1>19
<1>22. DirectoryLoaded(s, files) = t
  BY <1>9, <1>17, <1>18
<1>23. QED
  BY <1>15, <1>20, <1>21, <1>22 DEF N

(* A load that reported success leaves what any load of the same records   *)
(* from the same registry leaves.                                          *)
LEMMA SameDefinitions ==
  ASSUME NEW p \in LoaderStates, NEW q \in LoaderStates, NEW b \in LoaderStates,
         NEW M \in SUBSET RecordPairs, Passed(p, q, M), Passed(p, b, M), q.ok = TRUE
  PROVE  b.defs = q.defs
<1> DEFINE d == p.defs
           e == q.defs
           f == b.defs
<1>1. d \in DefinitionMaps /\ e \in DefinitionMaps /\ f \in DefinitionMaps
  BY StateFields
<1>2. /\ Kept(d, e) /\ Taken(e, M) /\ Sourced(d, e, M) /\ Standing(e, M)
      /\ Kept(d, f) /\ Taken(f, M) /\ Sourced(d, f, M)
  BY DEF Passed
<1> HIDE DEF d, e, f
<1>3. ASSUME NEW s \in Section PROVE f[s] = e[s]
  <2>1. PICK u \in Defined, v \in Defined : u = e[s] /\ v = f[s]
    BY <1>1 DEF DefinitionMaps
  <2>2. PICK I \in SUBSET DefinitionIds : u \in [I -> AllRecords]
    BY DEF Defined
  <2>3. PICK J \in SUBSET DefinitionIds : v \in [J -> AllRecords]
    BY DEF Defined
  <2>4. /\ \A id \in I : \/ id \in DOMAIN d[s]
                         \/ <<s, u[id]>> \in M /\ Acceptable(s, u[id]) /\ u[id]["id"] = id
        /\ \A id \in J : \/ id \in DOMAIN d[s]
                         \/ <<s, v[id]>> \in M /\ Acceptable(s, v[id]) /\ v[id]["id"] = id
    <3>1. DOMAIN u = I /\ DOMAIN v = J
      BY <2>2, <2>3
    <3>2. QED
      BY <1>2, <2>1, <3>1 DEF Sourced
  <2>5. \A id \in DOMAIN d[s] : id \in I /\ u[id] = d[s][id] /\ id \in J /\ v[id] = d[s][id]
    BY <1>2, <2>1, <2>2, <2>3 DEF Kept
  <2>6. \A r \in AllRecords : <<s, r>> \in M => r["id"] \in I /\ u[r["id"]] = r
    BY <1>2, <2>1, <2>2 DEF Standing
  <2>7. \A r \in AllRecords : <<s, r>> \in M /\ Acceptable(s, r) => r["id"] \in J
    BY <1>2, <2>1, <2>3 DEF Taken
  <2>8. \A id \in J : id \in I /\ u[id] = v[id]
    <3>1. SUFFICES ASSUME NEW id \in J PROVE id \in I /\ u[id] = v[id]
      OBVIOUS
    <3>2. CASE id \in DOMAIN d[s]
      BY <2>5, <3>2
    <3>3. CASE id \notin DOMAIN d[s]
      <4>1. PICK r \in AllRecords : r = v[id]
        BY <2>3
      <4>2. <<s, r>> \in M /\ r["id"] = id
        BY <2>4, <3>3, <4>1
      <4>3. QED
        BY <2>6, <4>1, <4>2
    <3>4. QED
      BY <3>2, <3>3
  <2>9. \A id \in I : id \in J
    BY <2>2, <2>4, <2>5, <2>7
  <2>10. I = J
    BY <2>8, <2>9
  <2>11. u = v
    BY <2>2, <2>3, <2>8, <2>10
  <2>12. QED
    BY <2>1, <2>11
<1>4. f = e
  BY <1>1, <1>3 DEF DefinitionMaps
<1>5. QED
  BY <1>4 DEF e, f

-----------------------------------------------------------------------------
LEMMA BackwardsType ==
  ASSUME NEW files \in Seq(Files)
  PROVE  /\ Backwards(files) \in Seq(Files)
         /\ DirectoryPairs(Backwards(files)) = DirectoryPairs(files)
<1>1. PICK N \in Nat : N = Len(files)
  OBVIOUS
<1>2. DOMAIN files = 1 .. N /\ \A k \in 1 .. N : files[k] \in Files /\ N + 1 - k \in 1 .. N /\ N + 1 - (N + 1 - k) = k
  BY <1>1
<1>3. Backwards(files) = [k \in 1 .. N |-> files[N + 1 - k]]
  BY <1>1, <1>2 DEF Backwards
<1>4. Backwards(files) \in [1 .. N -> Files]
  BY <1>2, <1>3
<1>5. PICK back \in Seq(Files) : back = Backwards(files) /\ Len(back) = N
  BY <1>4
<1>6. \A k \in 1 .. N : back[k] = files[N + 1 - k] /\ back[N + 1 - k] = files[k]
  BY <1>2, <1>3, <1>5
<1>7. DirectoryPairs(back) = DirectoryPairs(files)
  <2>1. ASSUME NEW p \in DirectoryPairs(files) PROVE p \in DirectoryPairs(back)
    <3>1. PICK k \in 1 .. N : p \in TextPairs(files[k])
      BY <1>1 DEF DirectoryPairs
    <3>2. PICK j \in 1 .. N : j = N + 1 - k
      BY <1>2
    <3>3. p \in TextPairs(back[j])
      BY <1>6, <3>1, <3>2
    <3>4. QED
      BY <1>5, <3>3 DEF DirectoryPairs
  <2>2. ASSUME NEW p \in DirectoryPairs(back) PROVE p \in DirectoryPairs(files)
    <3>1. PICK k \in 1 .. N : p \in TextPairs(back[k])
      BY <1>5 DEF DirectoryPairs
    <3>2. PICK j \in 1 .. N : j = N + 1 - k
      BY <1>2
    <3>3. p \in TextPairs(files[j])
      BY <1>6, <3>1, <3>2
    <3>4. QED
      BY <1>1, <3>3 DEF DirectoryPairs
  <2>3. QED
    BY <2>1, <2>2
<1>8. QED
  BY <1>5, <1>7

LEMMA SingleFile ==
  ASSUME NEW file \in Files
  PROVE  /\ <<file>> \in Seq(Files) /\ Len(<<file>>) = 1 /\ <<file>> # << >>
         /\ DirectoryPairs(<<file>>) = TextPairs(file)
         /\ Parses(file) => AllParse(<<file>>, Len(<<file>>))
<1>1. PICK files \in Seq(Files) : files = <<file>> /\ Len(files) = 1 /\ files[1] = file /\ files # << >>
  <2>1. <<file>> \in Seq(Files) /\ Len(<<file>>) = 1 /\ <<file>>[1] = file
    OBVIOUS
  <2>2. Len(<< >>) = 0
    OBVIOUS
  <2>3. <<file>> # << >>
    BY <2>1, <2>2
  <2>4. QED
    BY <2>1, <2>3, Zenon
<1>2. \A n : n \in 1 .. 1 <=> n = 1
  OBVIOUS
<1>3. DirectoryPairs(files) = TextPairs(file)
  BY <1>1, <1>2 DEF DirectoryPairs
<1>4. Parses(file) => AllParse(files, 1)
  BY <1>1, <1>2 DEF AllParse
<1>5. QED
  BY <1>1, <1>3, <1>4

(* The registry as the host finds it: every file that was tried has left   *)
(* nothing to register.                                                    *)
PacksInv ==
  /\ definitions \in DefinitionMaps
  /\ loaded \subseteq Files
  /\ \A file \in loaded : Taken(definitions, TextPairs(file))

LEMMA KeptTaken ==
  ASSUME NEW d \in DefinitionMaps, NEW e \in DefinitionMaps, Kept(d, e), NEW M \in SUBSET RecordPairs, Taken(d, M)
  PROVE  Taken(e, M)
BY DEF Kept, Taken

LEMMA TextPairsType ==
  ASSUME PacksInv, NEW file \in Files
  PROVE  TextPairs(file) \in SUBSET RecordPairs
<1>1. PICK p \in LoaderStates : p = Unreported(definitions)
  BY DEF PacksInv, Unreported, LoaderStates
<1>2. QED
  BY <1>1, FileLoadPasses

(* Files that were all tried before have nothing more to register.         *)
LEMMA NothingNew ==
  ASSUME NEW d \in DefinitionMaps, NEW e \in DefinitionMaps, NEW M \in SUBSET RecordPairs,
         Kept(d, e), Sourced(d, e, M), Taken(d, M)
  PROVE  e = d
<1>1. ASSUME NEW s \in Section PROVE e[s] = d[s]
  <2>1. PICK u \in Defined, v \in Defined : u = d[s] /\ v = e[s]
    BY DEF DefinitionMaps
  <2>2. PICK I \in SUBSET DefinitionIds : u \in [I -> AllRecords]
    BY DEF Defined
  <2>3. PICK J \in SUBSET DefinitionIds : v \in [J -> AllRecords]
    BY DEF Defined
  <2>4. \A id \in I : id \in J /\ v[id] = u[id]
    BY <2>1, <2>2, <2>3 DEF Kept
  <2>5. ASSUME NEW id \in J PROVE id \in I
    <3>1. PICK r \in AllRecords : r = v[id]
      BY <2>3
    <3>2. id \in I \/ (<<s, r>> \in M /\ Acceptable(s, r) /\ r["id"] = id)
      BY <2>1, <2>2, <2>3, <3>1 DEF Sourced
    <3>3. <<s, r>> \in M /\ Acceptable(s, r) => r["id"] \in I
      BY <2>1, <2>2 DEF Taken
    <3>4. QED
      BY <3>2, <3>3
  <2>6. I = J
    BY <2>4, <2>5
  <2>7. u = v
    BY <2>2, <2>3, <2>4, <2>6
  <2>8. QED
    BY <2>1, <2>7
<1>2. QED
  BY <1>1 DEF DefinitionMaps

(* A call that leaves q after these files, whatever it reports.            *)
LoadsTo(q, files) ==
  /\ Kept(definitions, q.defs)
  /\ files # << >> =>
       /\ Passed(Unreported(definitions), q, DirectoryPairs(files))
       /\ q.ok = TRUE => AllParse(files, Len(files)) /\ Unresolved(q.defs) = {}

LEMMA ReachKeepsInv ==
  ASSUME PacksInv, NEW q \in LoaderStates, NEW files \in Seq(Files), LoadsTo(q, files), Reach(q, files)
  PROVE  PacksInv'
<1>1. definitions' = q.defs /\ loaded' = loaded \cup {files[k] : k \in DOMAIN files}
  BY DEF Reach
<1>2. q.defs \in DefinitionMaps /\ definitions \in DefinitionMaps /\ Kept(definitions, q.defs)
  BY StateFields DEF PacksInv, LoadsTo
<1>3. DOMAIN files = 1 .. Len(files) /\ \A k \in DOMAIN files : files[k] \in Files
  OBVIOUS
<1>4. loaded' \subseteq Files
  BY <1>1, <1>3 DEF PacksInv
<1>5. ASSUME NEW file \in loaded PROVE Taken(q.defs, TextPairs(file))
  <2>1. file \in Files /\ Taken(definitions, TextPairs(file))
    BY DEF PacksInv
  <2>2. TextPairs(file) \in SUBSET RecordPairs
    BY <2>1, TextPairsType
  <2>3. QED
    BY <1>2, <2>1, <2>2, KeptTaken
<1>6. ASSUME NEW k \in DOMAIN files PROVE Taken(q.defs, TextPairs(files[k]))
  <2>1. files # << >> /\ k \in 1 .. Len(files)
    BY <1>3
  <2>2. Taken(q.defs, DirectoryPairs(files))
    BY <2>1 DEF LoadsTo, Passed
  <2>3. \A p \in TextPairs(files[k]) : p \in DirectoryPairs(files)
    BY <2>1 DEF DirectoryPairs
  <2>4. QED
    BY <2>2, <2>3 DEF Taken
<1>7. \A file \in loaded' : Taken(q.defs, TextPairs(file))
  BY <1>1, <1>5, <1>6
<1>8. QED
  BY <1>1, <1>2, <1>4, <1>7 DEF PacksInv

LEMMA ReachSettles ==
  ASSUME PacksInv, NEW q \in LoaderStates, NEW files \in Seq(Files), LoadsTo(q, files), Reach(q, files)
  PROVE  Settled
<1>1. /\ definitions' = q.defs /\ report'.asked = files
      /\ report'.ok = q.ok
  BY Zenon DEF Reach
<1>2. q.defs \in DefinitionMaps /\ definitions \in DefinitionMaps /\ Kept(definitions, q.defs)
  BY StateFields DEF PacksInv, LoadsTo
<1>3. DOMAIN files = 1 .. Len(files) /\ \A k \in DOMAIN files : files[k] \in Files
  OBVIOUS
<1>4. PICK p \in LoaderStates : p = Unreported(definitions) /\ p.defs = definitions
  <2>1. Unreported(definitions) \in LoaderStates
    BY <1>2 DEF Unreported, LoaderStates
  <2>2. Unreported(definitions).defs = definitions
    BY DEF Unreported
  <2>3. QED
    BY <2>1, <2>2
<1>5. report'.ok => q.ok = TRUE
  <2>1. q.ok \in BOOLEAN
    BY DEF LoaderStates
  <2>2. QED
    BY <1>1, <2>1, Zenon
<1>6. \A s \in Section : \A id \in DOMAIN definitions[s] :
        id \in DOMAIN definitions'[s] /\ definitions'[s][id] = definitions[s][id]
  BY <1>1, <1>2 DEF Kept
<1>7. ASSUME files # << >>
      PROVE  /\ Passed(p, q, DirectoryPairs(files))
             /\ DirectoryPairs(files) \in SUBSET RecordPairs
             /\ q.ok = TRUE => AllParse(files, Len(files)) /\ Unresolved(q.defs) = {}
  BY <1>4, <1>7, DirectoryPasses DEF LoadsTo
<1>8. ASSUME files # << >>, {files[k] : k \in DOMAIN files} \subseteq loaded PROVE definitions' = definitions
  <2>1. Taken(definitions, DirectoryPairs(files))
    <3>1. \A k \in 1 .. Len(files) : Taken(definitions, TextPairs(files[k]))
      BY <1>3, <1>8 DEF PacksInv
    <3>2. QED
      BY <3>1 DEF Taken, DirectoryPairs
  <2>2. Sourced(definitions, q.defs, DirectoryPairs(files)) /\ DirectoryPairs(files) \in SUBSET RecordPairs
    BY <1>4, <1>7, <1>8 DEF Passed
  <2>3. QED
    BY <1>1, <1>2, <2>1, <2>2, NothingNew
<1>9. ASSUME files # << >>, q.ok = TRUE, NEW k \in DOMAIN files, NEW s \in Section, NEW n \in DOMAIN Records(files[k], s)
      PROVE  LET record == Records(files[k], s)[n]
             IN  record["id"] \in DOMAIN definitions'[s] /\ definitions'[s][record["id"]] = record
  <2>1. k \in 1 .. Len(files) /\ files[k] \in Files
    BY <1>3
  <2>2. n \in 1 .. Len(Records(files[k], s)) /\ Records(files[k], s)[n] \in AllRecords
    BY <2>1, RecordsType
  <2>3. PICK r \in AllRecords : r = Records(files[k], s)[n]
    BY <2>2
  <2>4. <<s, r>> \in SectionPairs(files[k], s)
    BY <2>2, <2>3 DEF SectionPairs
  <2>5. <<s, r>> \in FilePairs(files[k])
    BY <2>4, PlacesType DEF FilePairs
  <2>6. Parses(files[k])
    BY <1>7, <1>9, <2>1 DEF AllParse
  <2>7. <<s, r>> \in DirectoryPairs(files)
    BY <2>1, <2>5, <2>6 DEF TextPairs, DirectoryPairs
  <2>8. Standing(q.defs, DirectoryPairs(files))
    BY <1>7, <1>9 DEF Passed
  <2>9. r["id"] \in DOMAIN q.defs[s] /\ q.defs[s][r["id"]] = r
    BY <2>7, <2>8 DEF Standing
  <2>10. QED
    BY <1>1, <2>3, <2>9
<1>10. ASSUME files # << >>, q.ok = TRUE
       PROVE  DirectoryLoaded(Unreported(definitions), Backwards(files)).defs = definitions'
  <2>1. PICK back \in Seq(Files) : back = Backwards(files)
    BY BackwardsType
  <2>2. PICK b \in LoaderStates : b = DirectoryLoaded(p, back)
    BY DirectoryPasses
  <2>3. Passed(p, b, DirectoryPairs(back))
    BY <2>2, DirectoryPasses
  <2>4. DirectoryPairs(back) = DirectoryPairs(files)
    BY <2>1, BackwardsType
  <2>5. Passed(p, b, DirectoryPairs(files)) /\ Passed(p, q, DirectoryPairs(files))
        /\ DirectoryPairs(files) \in SUBSET RecordPairs
    BY <1>7, <1>10, <2>3, <2>4
  <2>6. b.defs = q.defs
    BY <1>10, <2>5, SameDefinitions
  <2>7. QED
    BY <1>1, <1>4, <2>1, <2>2, <2>6
<1>11. files # << >> =>
         /\ {files[k] : k \in DOMAIN files} \subseteq loaded => definitions' = definitions
         /\ report'.ok =>
              /\ Unresolved(definitions') = {}
              /\ \A k \in DOMAIN files, s \in Section : \A n \in DOMAIN Records(files[k], s) :
                   LET record == Records(files[k], s)[n]
                   IN  record["id"] \in DOMAIN definitions'[s] /\ definitions'[s][record["id"]] = record
              /\ DirectoryLoaded(Unreported(definitions), Backwards(files)).defs = definitions'
  <2>1. SUFFICES ASSUME files # << >> PROVE
         /\ {files[k] : k \in DOMAIN files} \subseteq loaded => definitions' = definitions
         /\ report'.ok =>
              /\ Unresolved(definitions') = {}
              /\ \A k \in DOMAIN files, s \in Section : \A n \in DOMAIN Records(files[k], s) :
                   LET record == Records(files[k], s)[n]
                   IN  record["id"] \in DOMAIN definitions'[s] /\ definitions'[s][record["id"]] = record
              /\ DirectoryLoaded(Unreported(definitions), Backwards(files)).defs = definitions'
    OBVIOUS
  <2>2. {files[k] : k \in DOMAIN files} \subseteq loaded => definitions' = definitions
    BY <1>8, <2>1
  <2>3. q.ok = TRUE => Unresolved(definitions') = {}
    BY <1>1, <1>7, <2>1
  <2>4. QED
    BY <1>5, <1>9, <1>10, <2>1, <2>2, <2>3, Zenon
<1>12. QED
  BY <1>1, <1>6, <1>11 DEF Settled

-----------------------------------------------------------------------------
LEMMA UnreportedType ==
  ASSUME PacksInv
  PROVE  /\ \A ok \in BOOLEAN : /\ [defs |-> definitions, ok |-> ok] \in LoaderStates
                                /\ [defs |-> definitions, ok |-> ok].defs = definitions
         /\ Unreported(definitions) \in LoaderStates /\ Unreported(definitions).defs = definitions
<1>1. definitions \in DefinitionMaps
  BY DEF PacksInv
<1>2. Unreported(definitions) = [defs |-> definitions, ok |-> TRUE]
  BY DEF Unreported
<1>3. \A ok \in BOOLEAN : [defs |-> definitions, ok |-> ok] \in LoaderStates
  BY <1>1 DEF LoaderStates
<1>4. \A ok \in BOOLEAN : [defs |-> definitions, ok |-> ok].defs = definitions
  OBVIOUS
<1>5. Unreported(definitions) \in LoaderStates
  BY <1>1 DEF Unreported, LoaderStates
<1>6. Unreported(definitions).defs = definitions
  BY DEF Unreported
<1>7. QED
  BY <1>3, <1>4, <1>5, <1>6

LEMMA EmptySequence == << >> \in Seq(Files)
OBVIOUS

LEMMA LoadFileReaches ==
  ASSUME PacksInv, NEW file \in Files, LoadFile(file)
  PROVE  \E q \in LoaderStates, files \in Seq(Files) : LoadsTo(q, files) /\ Reach(q, files)
<1>1. PICK p \in LoaderStates : p = Unreported(definitions) /\ p.defs = definitions
  BY UnreportedType
<1>2. PICK q \in LoaderStates : q = FileLoaded(p, file)
  BY FileLoadPasses
<1>3. Passed(p, q, TextPairs(file)) /\ (q.ok = TRUE => Parses(file) /\ Unresolved(q.defs) = {})
  BY <1>2, FileLoadPasses
<1>4. PICK files \in Seq(Files) : files = <<file>>
  BY SingleFile
<1>5. DirectoryPairs(files) = TextPairs(file) /\ (Parses(file) => AllParse(files, Len(files)))
  BY <1>4, SingleFile
<1>6. Kept(definitions, q.defs)
  BY <1>1, <1>3 DEF Passed
<1>7. LoadsTo(q, files)
  BY <1>1, <1>3, <1>5, <1>6 DEF LoadsTo
<1>8. Reach(q, files)
  BY <1>1, <1>2, <1>4 DEF LoadFile
<1>9. QED
  BY <1>7, <1>8

LEMMA LoadDirectoryReaches ==
  ASSUME PacksInv, NEW files \in Directories, LoadDirectory(files)
  PROVE  \E q \in LoaderStates, asked \in Seq(Files) : LoadsTo(q, asked) /\ Reach(q, asked)
<1>1. PICK p \in LoaderStates : p = Unreported(definitions) /\ p.defs = definitions
  BY UnreportedType
<1>2. files \in Seq(Files)
  BY DataPacksAssumption
<1>3. PICK q \in LoaderStates : q = DirectoryLoaded(p, files)
  BY <1>2, DirectoryPasses
<1>4. /\ Passed(p, q, DirectoryPairs(files))
      /\ q.ok = TRUE => AllParse(files, Len(files)) /\ Unresolved(q.defs) = {}
  BY <1>2, <1>3, DirectoryPasses
<1>5. Kept(definitions, q.defs)
  BY <1>1, <1>4 DEF Passed
<1>6. LoadsTo(q, files)
  BY <1>1, <1>4, <1>5 DEF LoadsTo
<1>7. Reach(q, files)
  BY <1>1, <1>3 DEF LoadDirectory
<1>8. QED
  BY <1>2, <1>6, <1>7

LEMMA LoadNothingReaches ==
  ASSUME PacksInv, LoadNothing
  PROVE  \E q \in LoaderStates, files \in Seq(Files) : LoadsTo(q, files) /\ Reach(q, files)
<1>1. PICK q \in LoaderStates : q = [defs |-> definitions, ok |-> FALSE] /\ q.defs = definitions
  BY UnreportedType
<1>2. LoadsTo(q, << >>)
  BY <1>1 DEF LoadsTo, Kept
<1>3. Reach(q, << >>)
  BY <1>1 DEF LoadNothing
<1>4. QED
  BY <1>2, <1>3, EmptySequence

LEMMA AddDirectlyReaches ==
  ASSUME PacksInv, NEW d \in Directly, AddDirectly(d.section, d.record)
  PROVE  \E q \in LoaderStates, files \in Seq(Files) : LoadsTo(q, files) /\ Reach(q, files)
<1>1. PICK s \in Section : s = d.section
  BY DataPacksAssumption
<1>2. PICK r \in AllRecords : r = d.record
  BY DEF AllRecords
<1>3. PICK e \in DefinitionMaps : e = WithDefinition(definitions, s, r)
  BY WithDefinitionType DEF PacksInv
<1>4. /\ e[s] = Including(definitions[s], r)
      /\ \A x \in Section : x # s => e[x] = definitions[x]
  BY <1>3, WithDefinitionType DEF PacksInv
<1>5. r["id"] \notin DOMAIN definitions[s]
  BY <1>1, <1>2 DEF AddDirectly, CanAddDefinition
<1>6. PICK old \in Defined : old = definitions[s]
  BY DEF PacksInv, DefinitionMaps
<1>7. \A id \in DOMAIN old : id \in DOMAIN e[s] /\ e[s][id] = old[id]
  <2>1. /\ DOMAIN Including(old, r) = DOMAIN old \cup {r["id"]}
        /\ \A id \in DOMAIN old : id # r["id"] => Including(old, r)[id] = old[id]
    BY <1>6, IncludingType
  <2>2. PICK f : f = e[s]
    OBVIOUS
  <2>3. f = Including(old, r) /\ r["id"] \notin DOMAIN old
    BY <1>4, <1>5, <1>6, <2>2
  <2>4. \A id \in DOMAIN old : id \in DOMAIN f /\ f[id] = old[id]
    BY <2>1, <2>3
  <2>5. QED
    BY <2>2, <2>4
<1>8. Kept(definitions, e)
  BY <1>4, <1>6, <1>7 DEF Kept
<1>9. PICK q \in LoaderStates : q = [defs |-> e, ok |-> TRUE] /\ q.defs = e
  <2>1. [defs |-> e, ok |-> TRUE] \in LoaderStates
    BY <1>3 DEF LoaderStates
  <2>2. [defs |-> e, ok |-> TRUE].defs = e
    OBVIOUS
  <2>3. QED
    BY <2>1, <2>2
<1>10. LoadsTo(q, << >>)
  BY <1>8, <1>9 DEF LoadsTo
<1>11. Reach(q, << >>)
  BY <1>1, <1>2, <1>3, <1>9 DEF AddDirectly
<1>12. QED
  BY <1>10, <1>11, EmptySequence

LEMMA PacksStep ==
  ASSUME PacksInv, DataPacksNext
  PROVE  PacksInv' /\ Settled
<1>1. \E q \in LoaderStates, files \in Seq(Files) : LoadsTo(q, files) /\ Reach(q, files)
  <2>1. CASE \E file \in Files : LoadFile(file)
    BY <2>1, LoadFileReaches
  <2>2. CASE \E files \in Directories : LoadDirectory(files)
    BY <2>2, LoadDirectoryReaches
  <2>3. CASE LoadNothing
    BY <2>3, LoadNothingReaches
  <2>4. CASE \E d \in Directly : AddDirectly(d.section, d.record)
    BY <2>4, AddDirectlyReaches
  <2>5. QED
    BY <2>1, <2>2, <2>3, <2>4 DEF DataPacksNext
<1>2. QED
  BY <1>1, ReachKeepsInv, ReachSettles

LEMMA PacksInit ==
  DataPacksInit => PacksInv
<1>1. SUFFICES ASSUME DataPacksInit PROVE PacksInv
  OBVIOUS
<1>2. definitions \in DefinitionMaps
  <2>1. << >> \in [{} -> AllRecords] /\ {} \in SUBSET DefinitionIds
    OBVIOUS
  <2>2. << >> \in Defined
    BY <2>1 DEF Defined
  <2>3. QED
    BY <1>1, <2>2 DEF DataPacksInit, DefinitionMaps
<1>3. QED
  BY <1>1, <1>2 DEF DataPacksInit, PacksInv

(* Whatever the host loads into the registry, in whatever order, failing   *)
(* or not: nothing defined before changes; files tried before add nothing; *)
(* and a load that reports success holds every record of its files, has no *)
(* dangling reference and does not depend on the order of its files        *)
(* (DataPackLoader.cpp and DataRegistry.cpp).                              *)
THEOREM LoadsStaySettled == DataPacksSpec => LoadsAreSettled
<1>1. DataPacksInit => PacksInv
  BY PacksInit
<1>2. PacksInv /\ [DataPacksNext]_packVars => PacksInv' /\ [Settled]_packVars
  <2>1. SUFFICES ASSUME PacksInv, [DataPacksNext]_packVars PROVE PacksInv' /\ [Settled]_packVars
    OBVIOUS
  <2>2. CASE DataPacksNext
    BY <2>1, <2>2, PacksStep
  <2>3. CASE UNCHANGED packVars
    BY <2>1, <2>3 DEF packVars, PacksInv
  <2>4. QED
    BY <2>1, <2>2, <2>3
<1>3. QED
  BY <1>1, <1>2, PTL DEF DataPacksSpec, LoadsAreSettled

-----------------------------------------------------------------------------
(* Sums of functions.                                                      *)

LEMMA SumIs ==
  ASSUME NEW D, IsFiniteSet(D), NEW w \in [D -> Nat]
  PROVE  \E f \in [SUBSET D -> Nat] : IsSum(f, D, w) /\ Sum(w) = f[D]
<1> DEFINE sum == CHOOSE f : IsSum(f, D, w)
<1>1. DOMAIN w = D
  OBVIOUS
<1>2. Sum(w) = sum[D]
  BY <1>1, Zenon DEF Sum, MapThenSumSet, MapThenFoldSet, IsSum, AnyOf
<1>3. \E f : IsSum(f, D, w)
  BY SumExists
<1>4. IsSum(sum, D, w)
  BY <1>3, Zenon
<1> HIDE DEF sum
<1>5. sum \in [SUBSET D -> Nat]
  BY <1>4, SumType
<1>6. QED
  BY <1>2, <1>4, <1>5

LEMMA SumIsNat ==
  ASSUME NEW D, IsFiniteSet(D), NEW w \in [D -> Nat]
  PROVE  Sum(w) \in Nat
<1>1. PICK f \in [SUBSET D -> Nat] : IsSum(f, D, w) /\ Sum(w) = f[D]
  BY SumIs
<1>2. f[D] \in Nat
  OBVIOUS
<1>3. QED
  BY <1>1, <1>2

(* One number changes.                                                     *)
OnlyAt(t, v, w, D) == \A s \in D : s # t => v[s] = w[s]

LEMMA SumMoves ==
  ASSUME NEW D, IsFiniteSet(D), NEW w \in [D -> Nat], NEW v \in [D -> Nat],
         NEW t \in D, OnlyAt(t, v, w, D)
  PROVE  Sum(v) + w[t] = Sum(w) + v[t]
<1>1. PICK f \in [SUBSET D -> Nat] : IsSum(f, D, w) /\ Sum(w) = f[D]
  BY SumIs
<1>2. PICK g \in [SUBSET D -> Nat] : IsSum(g, D, v) /\ Sum(v) = g[D]
  BY SumIs
<1>3. g[D] + w[t] = f[D] + v[t]
  <2>1. \A s \in D : s # t => v[s] = w[s]
    BY DEF OnlyAt
  <2>2. IsSum(f, D, w) /\ IsSum(g, D, v)
    BY <1>1, <1>2
  <2>3. QED
    BY <2>1, <2>2, SumChanges
<1>4. QED
  BY <1>1, <1>2, <1>3

LEMMA SumIsLess ==
  ASSUME NEW D, IsFiniteSet(D), NEW w \in [D -> Nat], NEW v \in [D -> Nat], \A s \in D : v[s] <= w[s]
  PROVE  Sum(v) <= Sum(w)
<1>1. PICK f \in [SUBSET D -> Nat] : IsSum(f, D, w) /\ Sum(w) = f[D]
  BY SumIs
<1>2. PICK g \in [SUBSET D -> Nat] : IsSum(g, D, v) /\ Sum(v) = g[D]
  BY SumIs
<1>3. g[D] <= f[D]
  BY <1>1, <1>2, SumShrinks
<1>4. QED
  BY <1>1, <1>2, <1>3

(* Two functions add up.                                                   *)
AddUpTo(w, v, u, D) == \A s \in D : u[s] = w[s] + v[s]

LEMMA SumOfBoth ==
  ASSUME NEW D, IsFiniteSet(D), NEW w \in [D -> Nat], NEW v \in [D -> Nat], NEW u \in [D -> Nat],
         AddUpTo(w, v, u, D)
  PROVE  Sum(u) = Sum(w) + Sum(v)
<1>1. PICK f \in [SUBSET D -> Nat] : IsSum(f, D, w) /\ Sum(w) = f[D]
  BY SumIs
<1>2. PICK g \in [SUBSET D -> Nat] : IsSum(g, D, v) /\ Sum(v) = g[D]
  BY SumIs
<1>3. PICK h \in [SUBSET D -> Nat] : IsSum(h, D, u) /\ Sum(u) = h[D]
  BY SumIs
<1> DEFINE P == {S \in SUBSET D : h[S] = f[S] + g[S]}
<1>4. {} \in P
  BY <1>1, <1>2, <1>3 DEF IsSum
<1>5. ASSUME NEW S \in SUBSET D, S # {}, S \ {AnyOf(S)} \in P PROVE S \in P
  <2>1. PICK a \in D : a = AnyOf(S)
    BY <1>5, AnyOfIsIn
  <2>2. PICK Q \in SUBSET D : Q = S \ {AnyOf(S)}
    OBVIOUS
  <2>3. h[S] = u[a] + h[Q] /\ f[S] = w[a] + f[Q] /\ g[S] = v[a] + g[Q]
    BY <1>1, <1>2, <1>3, <1>5, <2>1, <2>2, Zenon DEF IsSum
  <2>4. h[Q] = f[Q] + g[Q]
    BY <1>5, <2>2
  <2>5. f[Q] \in Nat /\ g[Q] \in Nat /\ w[a] \in Nat /\ v[a] \in Nat /\ u[a] = w[a] + v[a]
    BY DEF AddUpTo
  <2>6. h[S] = f[S] + g[S]
    BY <2>3, <2>4, <2>5
  <2>7. QED
    BY <2>6
<1> HIDE DEF P
<1>6. \A S \in SUBSET D : S \in P
  BY <1>4, <1>5, SetInduction
<1>7. D \in P
  BY <1>6
<1>8. QED
  BY <1>1, <1>2, <1>3, <1>7 DEF P

(* A sum of nothing but zeros, and a sum that is zero.                     *)
LEMMA SumOfZeros ==
  ASSUME NEW D, IsFiniteSet(D), NEW w \in [D -> Nat]
  PROVE  Sum(w) = 0 <=> \A s \in D : w[s] = 0
<1>1. ASSUME \A s \in D : w[s] = 0 PROVE Sum(w) = 0
  <2>1. AddUpTo(w, w, w, D)
    BY <1>1 DEF AddUpTo
  <2>2. Sum(w) = Sum(w) + Sum(w)
    BY <2>1, SumOfBoth
  <2>3. PICK n \in Nat : n = Sum(w)
    BY SumIsNat
  <2>4. n = n + n
    BY <2>2, <2>3
  <2>5. n = 0
    BY <2>4
  <2>6. QED
    BY <2>3, <2>5
<1>2. ASSUME NEW t \in D, Sum(w) = 0 PROVE w[t] = 0
  <2>1. PICK v \in [D -> Nat] : v = [w EXCEPT ![t] = 0]
    OBVIOUS
  <2>2. OnlyAt(t, v, w, D)
    BY <2>1 DEF OnlyAt
  <2>3. Sum(v) + w[t] = Sum(w) + v[t]
    BY <2>2, SumMoves
  <2>4. Sum(v) \in Nat /\ v[t] = 0 /\ w[t] \in Nat
    BY <2>1, SumIsNat
  <2>5. QED
    BY <1>2, <2>3, <2>4
<1>3. QED
  BY <1>1, <1>2

(* One more place.                                                         *)
LEMMA SumAppended ==
  ASSUME NEW n \in Nat, NEW w \in [1 .. n -> Nat], NEW v \in [1 .. n + 1 -> Nat],
         \A k \in 1 .. n : v[k] = w[k]
  PROVE  Sum(v) = Sum(w) + v[n + 1]
<1> DEFINE D == 1 .. n
           E == 1 .. n + 1
<1>1. /\ IsFiniteSet(D) /\ IsFiniteSet(E) /\ n + 1 \in E /\ E \ {n + 1} = D
      /\ SUBSET D \subseteq SUBSET E /\ E \in SUBSET E /\ D \in SUBSET D /\ D \subseteq E
  BY UpTo
<1>2. \A k \in D : v[k] = w[k]
  OBVIOUS
<1>3. w \in [D -> Nat] /\ v \in [E -> Nat]
  OBVIOUS
<1> HIDE DEF D, E
<1>4. PICK f \in [SUBSET D -> Nat] : IsSum(f, D, w) /\ Sum(w) = f[D]
  <2>1. IsFiniteSet(D) /\ w \in [D -> Nat]
    BY <1>1, <1>3
  <2>2. QED
    BY ONLY <2>1, SumIs
<1>5. PICK g \in [SUBSET E -> Nat] : IsSum(g, E, v) /\ Sum(v) = g[E]
  <2>1. IsFiniteSet(E) /\ v \in [E -> Nat]
    BY <1>1, <1>3
  <2>2. QED
    BY ONLY <2>1, SumIs
<1>6. AnyOrder(g, E, v)
  BY <1>1, <1>3, <1>5, SumWithout
<1>7. g[E] = v[n + 1] + g[D]
  BY <1>1, <1>6, Zenon DEF AnyOrder
<1> DEFINE P == {S \in SUBSET D : g[S] = f[S]}
<1>8. {} \in P
  BY <1>1, <1>4, <1>5 DEF IsSum
<1>9. ASSUME NEW S \in SUBSET D, S # {}, S \ {AnyOf(S)} \in P PROVE S \in P
  <2>1. PICK a \in D : a = AnyOf(S)
    BY <1>9, AnyOfIsIn
  <2>2. PICK Q \in SUBSET D : Q = S \ {AnyOf(S)}
    OBVIOUS
  <2>3. S \in SUBSET E
    BY <1>1
  <2>4. g[S] = v[a] + g[Q] /\ f[S] = w[a] + f[Q]
    BY <1>4, <1>5, <1>9, <2>1, <2>2, <2>3, Zenon DEF IsSum
  <2>5. g[Q] = f[Q]
    BY <1>9, <2>2
  <2>6. v[a] = w[a]
    BY <1>2
  <2>7. g[S] = f[S]
    BY <2>4, <2>5, <2>6
  <2>8. QED
    BY <2>7
<1> HIDE DEF P
<1>10. \A S \in SUBSET D : S \in P
  <2>1. IsFiniteSet(D)
    BY <1>1
  <2>2. QED
    BY <1>8, <1>9, <2>1, SetInduction
<1>11. g[D] = f[D]
  BY <1>1, <1>10 DEF P
<1>12. f[D] \in Nat /\ v[n + 1] \in Nat
  BY <1>1, <1>3
<1>13. PICK x \in Nat : x = f[D]
  BY <1>12
<1>14. PICK y \in Nat : y = v[n + 1]
  BY <1>12
<1>15. QED
  BY <1>4, <1>5, <1>7, <1>11, <1>13, <1>14

(* The numbers in another order, those left out being zero.                *)
Reorders(p, E, v, D, w) ==
  /\ IsFiniteSet(D) /\ IsFiniteSet(E) /\ w \in [D -> Nat] /\ v \in [E -> Nat] /\ p \in [E -> D]
  /\ \A j, k \in E : p[j] = p[k] => j = k
  /\ \A d \in D : (\A k \in E : p[k] # d) => w[d] = 0
  /\ \A k \in E : v[k] = w[p[k]]

LEMMA SumRearranged ==
  ASSUME NEW D, NEW w, NEW E, NEW p, NEW v, Reorders(p, E, v, D, w)
  PROVE  Sum(v) = Sum(w)
<1> IsFiniteSet(D) /\ w \in [D -> Nat]
  BY DEF Reorders
<1> IsFiniteSet(E) /\ v \in [E -> Nat] /\ p \in [E -> D]
  BY DEF Reorders
<1>1. PICK f \in [SUBSET D -> Nat] : IsSum(f, D, w) /\ Sum(w) = f[D]
  BY SumIs
<1>2. PICK g \in [SUBSET E -> Nat] : IsSum(g, E, v) /\ Sum(v) = g[E]
  BY SumIs
<1>3. AnyOrder(g, E, v)
  BY <1>2, SumWithout
<1> DEFINE Back(S) == {k \in E : p[k] \in S}
           P == {S \in SUBSET D : g[Back(S)] = f[S]}
<1>4. {} \in P
  <2>1. Back({}) = {} /\ {} \in SUBSET E
    OBVIOUS
  <2>2. g[{}] = 0 /\ f[{}] = 0
    BY <1>1, <1>2, <2>1 DEF IsSum
  <2>3. g[Back({})] = f[{}]
    BY <2>1, <2>2
  <2>4. QED
    BY <2>3
<1>5. ASSUME NEW S \in SUBSET D, S # {}, S \ {AnyOf(S)} \in P PROVE S \in P
  <2>1. PICK a \in D : a = AnyOf(S) /\ a \in S
    BY <1>5, AnyOfIsIn
  <2>2. PICK Q \in SUBSET D : Q = S \ {a}
    OBVIOUS
  <2>3. f[S] = w[a] + f[Q]
    BY <1>1, <1>5, <2>1, <2>2, Zenon DEF IsSum
  <2>4. g[Back(Q)] = f[Q]
    BY <1>5, <2>1, <2>2
  <2>5. f[Q] \in Nat /\ w[a] \in Nat /\ Back(S) \in SUBSET E
    OBVIOUS
  <2>6. CASE \A k \in E : p[k] # a
    <3>1. w[a] = 0
      BY <2>6 DEF Reorders
    <3>2. Back(Q) = Back(S)
      BY <2>2, <2>6
    <3> HIDE DEF Back
    <3>3. PICK n \in Nat : n = f[Q]
      BY <2>5
    <3>4. g[Back(S)] = f[S]
      BY <2>3, <2>4, <3>1, <3>2, <3>3
    <3>5. QED
      BY <3>4
  <2>7. CASE \E k \in E : p[k] = a
    <3>1. PICK k \in E : p[k] = a
      BY <2>7
    <3>2. k \in Back(S)
      BY <2>1, <3>1
    <3>3. Back(Q) = Back(S) \ {k}
      BY <2>2, <3>1 DEF Reorders
    <3> HIDE DEF Back
    <3>4. g[Back(S)] = v[k] + g[Back(S) \ {k}]
      BY <1>3, <2>5, <3>2, Zenon DEF AnyOrder
    <3>5. v[k] = w[a]
      BY <3>1 DEF Reorders
    <3>6. g[Back(S)] = f[S]
      BY <2>3, <2>4, <3>3, <3>4, <3>5
    <3>7. QED
      BY <3>6
  <2>8. QED
    BY <2>6, <2>7
<1> HIDE DEF P
<1>6. \A S \in SUBSET D : S \in P
  BY <1>4, <1>5, SetInduction
<1>7. D \in P
  BY <1>6
<1>8. g[Back(D)] = f[D]
  BY <1>7 DEF P
<1>9. Back(D) = E
  OBVIOUS
<1>10. QED
  BY <1>1, <1>2, <1>8, <1>9

(* As much below each of the first u prices is u times as much.            *)
LEMMA SumBelow ==
  ASSUME NEW q \in Nat, NEW u \in U64
  PROVE  Sum([p \in U64 |-> IF p < u THEN q ELSE 0]) = q * u
<1> DEFINE w(n) == [p \in U64 |-> IF p < n THEN q ELSE 0]
           T == {n \in 0 .. MaxU64 : Sum(w(n)) = q * n}
<1>1. IsFiniteSet(U64) /\ MaxU64 \in Nat
  BY WidthAssumption, FS_Interval DEF U64
<1>2. ASSUME NEW n \in Nat PROVE w(n) \in [U64 -> Nat]
  BY <1>1 DEF U64
<1>3. 0 \in T
  <2>1. \A p \in U64 : w(0)[p] = 0
    BY <1>1 DEF U64
  <2>2. w(0) \in [U64 -> Nat]
    BY <1>2
  <2> HIDE DEF w
  <2>3. Sum(w(0)) = 0
    BY <1>1, <2>1, <2>2, SumOfZeros
  <2>4. QED
    BY <1>1, <2>3
<1>4. ASSUME NEW n \in 1 .. MaxU64, n - 1 \in T PROVE n \in T
  <2>1. n - 1 \in U64 /\ n - 1 \in Nat /\ n \in Nat
    BY <1>1 DEF U64
  <2>2. w(n) \in [U64 -> Nat] /\ w(n - 1) \in [U64 -> Nat]
    BY <1>2, <2>1
  <2>3. OnlyAt(n - 1, w(n), w(n - 1), U64)
    BY <1>1, <2>1 DEF U64, OnlyAt
  <2>4. w(n)[n - 1] = q /\ w(n - 1)[n - 1] = 0
    BY <1>1, <2>1 DEF U64
  <2>5. Sum(w(n - 1)) = q * (n - 1)
    BY <1>4
  <2> HIDE DEF w
  <2>6. Sum(w(n)) + w(n - 1)[n - 1] = Sum(w(n - 1)) + w(n)[n - 1]
    BY <1>1, <2>1, <2>2, <2>3, SumMoves
  <2>7. Sum(w(n)) \in Nat
    BY <1>1, <2>2, SumIsNat
  <2>8. PICK s \in Nat : s = Sum(w(n))
    BY <2>7
  <2>9. s + 0 = q * (n - 1) + q
    BY <2>4, <2>5, <2>6, <2>8
  <2>10. q * (n - 1) + q = q * n
    BY <2>1
  <2>11. q * n \in Nat
    BY <2>1
  <2>12. s = q * n
    BY <2>9, <2>10, <2>11
  <2>13. Sum(w(n)) = q * n /\ n \in 0 .. MaxU64
    BY <1>1, <2>8, <2>12
  <2>14. QED
    BY <2>13
<1> HIDE DEF T
<1>5. \A n \in 0 .. MaxU64 : n \in T
  BY <1>1, <1>3, <1>4, BoundedInduction
<1>6. u \in T
  BY <1>5 DEF U64
<1>7. QED
  BY <1>6 DEF T

-----------------------------------------------------------------------------
(* The matching of orders.  Weigh adds up what a measure says of each of   *)
(* the orders or trades of a list.                                         *)

Weigh(o, m) == Sum([k \in DOMAIN o |-> m[o[k]]])

Executions == [good : Good, quantity : U64, unit : U64, total : U64]

Bidding(g, p) == [o \in Orders |-> IF o.good = g /\ o.limit >= p THEN o.quantity ELSE 0]

Offering(g, p) == [o \in Orders |-> IF o.good = g /\ o.limit <= p THEN o.quantity ELSE 0]

Moving(g) == [t \in Executions |-> IF t.good = g THEN t.quantity ELSE 0]

MovingAbove(g, p) == [t \in Executions |-> IF t.good = g /\ t.unit > p THEN t.quantity ELSE 0]

Paying(g) == [t \in Executions |-> IF t.good = g THEN t.total ELSE 0]

(* What is left of the orders of a list.                                   *)
LeftOf(o, all) ==
  /\ o \in Seq(Orders) /\ Len(o) = Len(all)
  /\ \A k \in 1 .. Len(o) :
       /\ o[k].good = all[k].good /\ o[k].limit = all[k].limit
       /\ o[k].quantity <= all[k].quantity

(* A total that may have wrapped around c times.                           *)
WrapsTo(total, sum) == \E c \in Nat : sum = (MaxU64 + 1) * c + total

(* Trades, and what is left of the bids and of the offers, make up what    *)
(* was submitted: at every price, and at one of them nothing dearer was    *)
(* sold, nor anything to a bid below it.                                   *)
SellsBalance(g, os) ==
  \A p \in U64 : Weigh(trades, MovingAbove(g, p)) + Weigh(os, Offering(g, p))
                   = Weigh(trades, Moving(g)) + Weigh(sells, Offering(g, p))

BuysBalance(g, ob) ==
  /\ Weigh(trades, Moving(g)) + Weigh(buys, Bidding(g, 0)) = Weigh(ob, Bidding(g, 0))
  /\ \A p \in U64 : Weigh(trades, MovingAbove(g, p)) + Weigh(buys, Bidding(g, p + 1)) <= Weigh(ob, Bidding(g, p + 1))
  /\ \A p \in U64 : Weigh(ob, Bidding(g, p)) <= Weigh(trades, Moving(g)) + Weigh(buys, Bidding(g, p))

Marginal(g, p, ob, os) ==
  /\ Weigh(trades, Moving(g)) + Weigh(buys, Bidding(g, p)) = Weigh(ob, Bidding(g, p))
  /\ Weigh(trades, Moving(g)) + Weigh(sells, Offering(g, p)) = Weigh(os, Offering(g, p))

PaidByPrice(g) ==
  Weigh(trades, Paying(g)) = Sum([p \in U64 |-> Weigh(trades, MovingAbove(g, p))])

BidsInTurn(ob) == \A k \in DOMAIN buys : k > at.buy => buys[k] = ob[k]

CheapestFirst(os) ==
  \A j, k \in DOMAIN sells :
    sells[k] # os[k] /\ sells[j].good = sells[k].good /\ sells[j].limit < sells[k].limit => sells[j].quantity = 0

SeenPairsAreDone ==
  \A i \in DOMAIN buys : \A j \in DOMAIN sells :
    i < at.buy \/ (i = at.buy /\ j < at.sell) => ~Meet(buys[i], sells[j])

Matching(ob, os) ==
  /\ LeftOf(buys, ob) /\ LeftOf(sells, os)
  /\ BidsInTurn(ob) /\ CheapestFirst(os)
  /\ \A g \in Good :
       /\ SellsBalance(g, os) /\ BuysBalance(g, ob) /\ PaidByPrice(g)
       /\ \E p \in U64 : Marginal(g, p, ob, os)

OrdersTypeOK ==
  /\ submitted \in Books
  /\ buys \in Seq(Orders) /\ sells \in Seq(Orders)
  /\ at \in [buy : 1 .. Len(buys) + 1, sell : 1 .. Len(sells) + 1]
  /\ trades \in Seq(Executions)
  /\ totals \in [quantity : U64, value : U64]

TotalsTold ==
  /\ WrapsTo(totals.quantity, Sum([g \in Good |-> Weigh(trades, Moving(g))]))
  /\ WrapsTo(totals.value, Sum([g \in Good |-> Weigh(trades, Paying(g))]))

OrdersInv ==
  /\ OrdersTypeOK /\ SeenPairsAreDone /\ TotalsTold
  /\ \E ob \in SortedBids : \E os \in SortedOffers : Matching(ob, os)

LEMMA U64IsFinite == IsFiniteSet(U64) /\ MaxU64 \in Nat /\ 0 \in U64 /\ U64 \subseteq Nat
BY WidthAssumption, FS_Interval DEF U64

LEMMA WeightsType ==
  ASSUME NEW T, NEW o \in Seq(T), NEW m \in [T -> Nat]
  PROVE  /\ Len(o) \in Nat /\ DOMAIN o = 1 .. Len(o) /\ IsFiniteSet(1 .. Len(o))
         /\ [k \in 1 .. Len(o) |-> m[o[k]]] \in [1 .. Len(o) -> Nat]
         /\ Weigh(o, m) = Sum([k \in 1 .. Len(o) |-> m[o[k]]])
         /\ Weigh(o, m) \in Nat
<1>1. Len(o) \in Nat /\ DOMAIN o = 1 .. Len(o) /\ \A k \in 1 .. Len(o) : o[k] \in T
  OBVIOUS
<1>2. IsFiniteSet(1 .. Len(o))
  BY <1>1, UpTo
<1>3. [k \in 1 .. Len(o) |-> m[o[k]]] \in [1 .. Len(o) -> Nat]
  BY <1>1
<1>4. Weigh(o, m) = Sum([k \in 1 .. Len(o) |-> m[o[k]]])
  BY <1>1, Zenon DEF Weigh
<1>5. Sum([k \in 1 .. Len(o) |-> m[o[k]]]) \in Nat
  <2>1. PICK w \in [1 .. Len(o) -> Nat] : w = [k \in 1 .. Len(o) |-> m[o[k]]]
    BY <1>3
  <2>2. Sum(w) \in Nat
    BY <1>2, SumIsNat
  <2>3. QED
    BY <2>1, <2>2
<1>6. QED
  BY <1>1, <1>2, <1>3, <1>4, <1>5

(* The weights of a list as a function on its places.                      *)
AreWeights(w, o, m, n) == (\A k \in 1 .. n : w[k] = m[o[k]]) /\ Weigh(o, m) = Sum(w)

LEMMA Weights ==
  ASSUME NEW T, NEW o \in Seq(T), NEW m \in [T -> Nat], NEW n, n = Len(o)
  PROVE  \E w \in [1 .. n -> Nat] : AreWeights(w, o, m, n)
<1>1. PICK w : w = [k \in 1 .. Len(o) |-> m[o[k]]]
  OBVIOUS
<1>2. w \in [1 .. Len(o) -> Nat] /\ Weigh(o, m) = Sum(w)
  BY <1>1, WeightsType
<1>3. \A k \in 1 .. Len(o) : w[k] = m[o[k]]
  BY <1>1 DEF AreWeights
<1>4. QED
  BY <1>2, <1>3 DEF AreWeights

LEMMA WeighAppended ==
  ASSUME NEW T, NEW o \in Seq(T), NEW m \in [T -> Nat], NEW e \in T
  PROVE  Weigh(Append(o, e), m) = Weigh(o, m) + m[e]
<1>1. PICK n \in Nat : n = Len(o)
  OBVIOUS
<1>2. PICK l : l = Append(o, e)
  OBVIOUS
<1>3. l[n + 1] = e /\ \A k \in 1 .. n : l[k] = o[k]
  BY <1>1, <1>2, AppendProperties
<1> l \in Seq(T)
  BY <1>2, AppendProperties
<1>a. PICK r : r = n + 1 /\ r = Len(l)
  BY <1>1, <1>2, AppendProperties
<1>4. PICK w \in [1 .. n -> Nat] : AreWeights(w, o, m, n)
  BY <1>1, Weights
<1>b. PICK v \in [1 .. r -> Nat] : AreWeights(v, l, m, r)
  BY <1>a, Weights
<1>5. v \in [1 .. n + 1 -> Nat] /\ AreWeights(v, l, m, n + 1)
  BY <1>a, <1>b
<1>6. ASSUME NEW k \in 1 .. n PROVE v[k] = w[k]
  <2>1. k \in 1 .. n + 1 /\ l[k] = o[k]
    BY <1>3
  <2>2. v[k] = m[l[k]] /\ w[k] = m[o[k]]
    BY <1>4, <1>5, <2>1 DEF AreWeights
  <2>3. QED
    BY <2>1, <2>2
<1>7. v[n + 1] = m[e]
  <2>1. n + 1 \in 1 .. n + 1
    OBVIOUS
  <2>2. v[n + 1] = m[l[n + 1]]
    BY <1>5, <2>1 DEF AreWeights
  <2>3. QED
    BY <1>3, <2>2
<1>8. Sum(v) = Sum(w) + v[n + 1]
  BY <1>5, <1>6, SumAppended
<1>9. QED
  BY <1>2, <1>4, <1>5, <1>7, <1>8 DEF AreWeights

Replaces(l, o, i, e, T) == o \in Seq(T) /\ i \in 1 .. Len(o) /\ e \in T /\ l = [o EXCEPT ![i] = e]

LEMMA WeighReplaced ==
  ASSUME NEW T, NEW m \in [T -> Nat], NEW l, NEW o, NEW i, NEW e, Replaces(l, o, i, e, T)
  PROVE  Weigh(l, m) + m[o[i]] = Weigh(o, m) + m[e]
<1> o \in Seq(T) /\ i \in 1 .. Len(o) /\ e \in T
  BY DEF Replaces
<1>1. PICK n \in Nat : n = Len(o)
  OBVIOUS
<1>2. l = [o EXCEPT ![i] = e]
  BY DEF Replaces
<1>3. l[i] = e /\ \A k \in 1 .. n : k # i => l[k] = o[k]
  BY <1>1, <1>2, ExceptSeq
<1> l \in Seq(T)
  BY <1>2, ExceptSeq
<1>a. n = Len(l)
  BY <1>1, <1>2, ExceptSeq
<1>4. PICK w \in [1 .. n -> Nat] : AreWeights(w, o, m, n)
  BY <1>1, Weights
<1>5. PICK v \in [1 .. n -> Nat] : AreWeights(v, l, m, n)
  BY <1>a, Weights
<1>6. ASSUME NEW k \in 1 .. n, k # i PROVE v[k] = w[k]
  <2>1. l[k] = o[k]
    BY <1>3, <1>6
  <2>2. v[k] = m[l[k]] /\ w[k] = m[o[k]]
    BY <1>4, <1>5 DEF AreWeights
  <2>3. QED
    BY <2>1, <2>2
<1>7. v[i] = m[e] /\ w[i] = m[o[i]] /\ i \in 1 .. n
  BY <1>1, <1>3, <1>4, <1>5 DEF AreWeights
<1>8. OnlyAt(i, v, w, 1 .. n)
  BY <1>6 DEF OnlyAt
<1>9. IsFiniteSet(1 .. n) /\ i \in 1 .. n
  BY <1>7, UpTo
<1>10. Sum(v) + w[i] = Sum(w) + v[i]
  BY <1>8, <1>9, SumMoves
<1>11. QED
  BY <1>2, <1>4, <1>5, <1>7, <1>10 DEF AreWeights

LEMMA WeighsNothing ==
  ASSUME NEW T, NEW o \in Seq(T), NEW m \in [T -> Nat]
  PROVE  Weigh(o, m) = 0 <=> \A k \in 1 .. Len(o) : m[o[k]] = 0
<1>1. PICK w \in [1 .. Len(o) -> Nat] : AreWeights(w, o, m, Len(o))
  BY Weights
<1>2. IsFiniteSet(1 .. Len(o))
  BY WeightsType
<1>3. Sum(w) = 0 <=> \A k \in 1 .. Len(o) : w[k] = 0
  BY <1>2, SumOfZeros
<1>4. QED
  BY <1>1, <1>3 DEF AreWeights

LEMMA WeighsAlike ==
  ASSUME NEW T, NEW o \in Seq(T), NEW l \in Seq(T), Len(l) = Len(o), NEW m \in [T -> Nat],
         \A k \in 1 .. Len(o) : m[l[k]] = m[o[k]]
  PROVE  Weigh(l, m) = Weigh(o, m)
<1>1. PICK n \in Nat : n = Len(o) /\ n = Len(l)
  OBVIOUS
<1>2. PICK w \in [1 .. n -> Nat] : AreWeights(w, o, m, n)
  BY <1>1, Weights
<1>3. PICK v \in [1 .. n -> Nat] : AreWeights(v, l, m, n)
  BY <1>1, Weights
<1>4. v = w
  <2>1. ASSUME NEW k \in 1 .. n PROVE v[k] = w[k]
    <3>1. v[k] = m[l[k]] /\ w[k] = m[o[k]]
      BY <1>2, <1>3 DEF AreWeights
    <3>2. QED
      BY <1>1, <3>1
  <2>2. QED
    BY ONLY <2>1, v \in [1 .. n -> Nat], w \in [1 .. n -> Nat]
<1>5. QED
  BY <1>2, <1>3, <1>4 DEF AreWeights

LEMMA PlacesAddUp ==
  ASSUME NEW n \in Nat, NEW u \in [1 .. n -> Nat], NEW w \in [1 .. n -> Nat], NEW v \in [1 .. n -> Nat],
         AddUpTo(w, v, u, 1 .. n)
  PROVE  Sum(u) = Sum(w) + Sum(v)
BY UpTo, SumOfBoth

Splits(m, l, h, T) == m \in [T -> Nat] /\ l \in [T -> Nat] /\ h \in [T -> Nat] /\ AddUpTo(l, h, m, T)

LEMMA WeighsBoth ==
  ASSUME NEW T, NEW o, o \in Seq(T), NEW m, NEW l, NEW h, Splits(m, l, h, T)
  PROVE  Weigh(o, m) = Weigh(o, l) + Weigh(o, h)
<1>a. m \in [T -> Nat] /\ l \in [T -> Nat] /\ h \in [T -> Nat] /\ AddUpTo(l, h, m, T)
  BY DEF Splits
<1>1. PICK n \in Nat : n = Len(o)
  OBVIOUS
<1>2. PICK u \in [1 .. n -> Nat] : AreWeights(u, o, m, n)
  BY <1>a, <1>1, Weights
<1>3. PICK w \in [1 .. n -> Nat] : AreWeights(w, o, l, n)
  BY <1>a, <1>1, Weights
<1>4. PICK v \in [1 .. n -> Nat] : AreWeights(v, o, h, n)
  BY <1>a, <1>1, Weights
<1>5. AddUpTo(w, v, u, 1 .. n)
  <2>1. \A k \in 1 .. n : o[k] \in T
    BY <1>1 DEF AreWeights
  <2>2. QED
    BY <1>a, <1>2, <1>3, <1>4, <2>1 DEF AddUpTo, AreWeights
<1>6. IsFiniteSet(1 .. n)
  BY UpTo
<1>7. Sum(u) = Sum(w) + Sum(v)
  BY ONLY <1>5, PlacesAddUp
<1>9. QED
  BY <1>2, <1>3, <1>4, <1>7 DEF AreWeights

(* A rearrangement takes the valid orders, each of them once.              *)
ValidAt(orders) == {k \in DOMAIN orders : ValidOrder(orders[k])}

Positions(p, o, orders) ==
  /\ p \in [1 .. Len(o) -> 1 .. Len(orders)]
  /\ \A j, k \in 1 .. Len(o) : p[j] = p[k] => j = k
  /\ \A d \in 1 .. Len(orders) : ValidOrder(orders[d]) <=> \E k \in 1 .. Len(o) : p[k] = d
  /\ \A k \in 1 .. Len(o) : o[k] = orders[p[k]]

LEMMA RearrangedIs ==
  ASSUME NEW orders \in Seq(Orders), NEW o \in Rearranged(orders)
  PROVE  /\ o \in Seq(Orders)
         /\ \E p : Positions(p, o, orders)
<1>1. PICK V : V = ValidAt(orders)
  OBVIOUS
<1>2. DOMAIN orders = 1 .. Len(orders) /\ Len(orders) \in Nat /\ V \subseteq 1 .. Len(orders)
  BY <1>1 DEF ValidAt
<1>3. IsFiniteSet(V)
  BY <1>2, UpTo, FS_Subset
<1>4. PICK n \in Nat : n = Cardinality(V)
  BY <1>3, FS_CardinalityType
<1>5. PICK p \in Bijection(1 .. n, V) : o = [k \in 1 .. n |-> orders[p[k]]]
  BY <1>1, <1>4, Zenon DEF Rearranged, ValidAt
<1>6. /\ p \in [1 .. n -> V]
      /\ \A j, k \in 1 .. n : p[j] = p[k] => j = k
      /\ \A d \in V : \E k \in 1 .. n : p[k] = d
  BY <1>5 DEF Bijection, Injection, Surjection, IsInjective
<1>7. ASSUME NEW k \in 1 .. n PROVE orders[p[k]] \in Orders /\ p[k] \in 1 .. Len(orders) /\ ValidOrder(orders[p[k]])
  <2>1. p[k] \in V
    BY <1>6
  <2>2. p[k] \in 1 .. Len(orders) /\ ValidOrder(orders[p[k]])
    BY <1>1, <1>2, <2>1 DEF ValidAt
  <2>3. QED
    BY <2>2
<1>8. o \in [1 .. n -> Orders]
  BY <1>5, <1>7
<1>9. o \in Seq(Orders) /\ Len(o) = n
  BY <1>8
<1>10. p \in [1 .. Len(o) -> 1 .. Len(orders)]
  BY <1>6, <1>7, <1>9
<1>11. \A d \in 1 .. Len(orders) : ValidOrder(orders[d]) <=> \E k \in 1 .. Len(o) : p[k] = d
  <2>1. ASSUME NEW d \in 1 .. Len(orders), ValidOrder(orders[d]) PROVE \E k \in 1 .. Len(o) : p[k] = d
    <3>1. d \in V
      BY <1>1, <1>2, <2>1 DEF ValidAt
    <3>2. QED
      BY <1>6, <1>9, <3>1
  <2>2. ASSUME NEW d \in 1 .. Len(orders), NEW k \in 1 .. Len(o), p[k] = d PROVE ValidOrder(orders[d])
    BY <1>7, <1>9, <2>2
  <2>3. QED
    BY <2>1, <2>2
<1>12. \A k \in 1 .. Len(o) : o[k] = orders[p[k]]
  BY <1>5, <1>9
<1>13. Positions(p, o, orders)
  BY <1>6, <1>9, <1>10, <1>11, <1>12 DEF Positions
<1>14. QED
  BY <1>9, <1>13

ValidWeights(orders, m) == [k \in DOMAIN orders |-> IF ValidOrder(orders[k]) THEN m[orders[k]] ELSE 0]

LEMMA WeighRearranged ==
  ASSUME NEW orders \in Seq(Orders), NEW o \in Rearranged(orders), NEW m \in [Orders -> Nat],
         NEW w, w = ValidWeights(orders, m)
  PROVE  Sum(w) = Weigh(o, m)
<1>1. o \in Seq(Orders)
  BY RearrangedIs
<1>2. PICK p : Positions(p, o, orders)
  BY RearrangedIs
<1>3. PICK n \in Nat : n = Len(o)
  BY <1>1
<1>4. PICK N \in Nat : N = Len(orders) /\ DOMAIN orders = 1 .. N
  OBVIOUS
<1>5. PICK D : D = 1 .. N
  OBVIOUS
<1>6. PICK E : E = 1 .. n
  OBVIOUS
<1>7. PICK v \in [1 .. n -> Nat] : AreWeights(v, o, m, n)
  BY <1>1, <1>3, Weights
<1>8. IsFiniteSet(D) /\ IsFiniteSet(E)
  BY <1>5, <1>6, UpTo
<1>9. w \in [D -> Nat]
  <2>1. \A k \in 1 .. N : orders[k] \in Orders
    BY <1>4
  <2>2. QED
    BY <1>4, <1>5, <2>1 DEF ValidWeights
<1>10. p \in [E -> D] /\ v \in [E -> Nat]
  BY <1>2, <1>3, <1>4, <1>5, <1>6, <1>7 DEF Positions
<1>11. \A j, k \in E : p[j] = p[k] => j = k
  BY <1>2, <1>3, <1>6 DEF Positions
<1>12. \A d \in D : (\A k \in E : p[k] # d) => w[d] = 0
  <2>1. ASSUME NEW d \in 1 .. N, \A k \in 1 .. n : p[k] # d PROVE w[d] = 0
    <3>1. ~ValidOrder(orders[d])
      BY <1>2, <1>3, <1>4, <2>1 DEF Positions
    <3>2. QED
      BY <1>4, <3>1 DEF ValidWeights
  <2>2. QED
    BY <1>5, <1>6, <2>1
<1>13. \A k \in E : v[k] = w[p[k]]
  <2>1. ASSUME NEW k \in 1 .. n PROVE v[k] = w[p[k]]
    <3>1. p[k] \in 1 .. N /\ ValidOrder(orders[p[k]]) /\ o[k] = orders[p[k]]
      BY <1>2, <1>3, <1>4 DEF Positions
    <3>2. v[k] = m[o[k]]
      BY <1>7 DEF AreWeights
    <3>3. w[p[k]] = m[orders[p[k]]]
      BY <1>4, <3>1 DEF ValidWeights
    <3>4. QED
      BY <3>1, <3>2, <3>3
  <2>2. QED
    BY <1>6, <2>1
<1>14. Sum(v) = Sum(w)
  <2>1. Reorders(p, E, v, D, w)
    BY <1>8, <1>9, <1>10, <1>11, <1>12, <1>13 DEF Reorders
  <2>2. QED
    BY <2>1, SumRearranged
<1>15. QED
  BY <1>7, <1>14 DEF AreWeights

-----------------------------------------------------------------------------
(* The measures the matching is weighed by.                                *)

LEMMA MeasuresType ==
  ASSUME NEW g, NEW p \in Nat
  PROVE  /\ Bidding(g, p) \in [Orders -> Nat] /\ Offering(g, p) \in [Orders -> Nat]
         /\ Moving(g) \in [Executions -> Nat] /\ MovingAbove(g, p) \in [Executions -> Nat]
         /\ Paying(g) \in [Executions -> Nat]
<1>1. \A o \in Orders : o.quantity \in Nat
  BY U64IsFinite DEF Orders
<1>2. \A t \in Executions : t.quantity \in Nat /\ t.total \in Nat
  BY U64IsFinite DEF Executions
<1>3. QED
  BY <1>1, <1>2 DEF Bidding, Offering, Moving, MovingAbove, Paying

LEMMA MovingsType ==
  ASSUME NEW g
  PROVE  Moving(g) \in [Executions -> Nat] /\ Paying(g) \in [Executions -> Nat]
BY MeasuresType

(* The demand and the supply of the submitted orders, in terms of the      *)
(* sorted ones.                                                            *)
LEMMA DemandIs ==
  ASSUME submitted \in Books, NEW ob \in SortedBids, NEW g, NEW p \in Nat
  PROVE  BidsFrom(g, p) = Weigh(ob, Bidding(g, p))
<1>1. submitted.buys \in Seq(Orders) /\ ob \in Rearranged(submitted.buys)
  BY OrdersAssumption DEF SortedBids
<1>2. PICK orders \in Seq(Orders) : orders = submitted.buys
  BY <1>1
<1>3. PICK m \in [Orders -> Nat] : m = Bidding(g, p)
  BY MeasuresType
<1>4. PICK w : w = ValidWeights(orders, m)
  OBVIOUS
<1>5. Sum(w) = Weigh(ob, m)
  BY <1>1, <1>2, <1>4, WeighRearranged
<1>6. w = [k \in DOMAIN orders |->
             IF orders[k].good = g /\ (ValidOrder(orders[k]) /\ orders[k].limit >= p) THEN orders[k].quantity ELSE 0]
  BY <1>3, <1>4 DEF Bidding, ValidWeights
<1>7. BidsFrom(g, p) = Sum(w)
  BY <1>2, <1>6, Zenon DEF BidsFrom, Units
<1>8. QED
  BY <1>3, <1>5, <1>7

LEMMA SupplyIs ==
  ASSUME submitted \in Books, NEW os \in SortedOffers, NEW g, NEW p \in Nat
  PROVE  OffersUpTo(g, p) = Weigh(os, Offering(g, p))
<1>1. submitted.sells \in Seq(Orders) /\ os \in Rearranged(submitted.sells)
  BY OrdersAssumption DEF SortedOffers
<1>2. PICK orders \in Seq(Orders) : orders = submitted.sells
  BY <1>1
<1>3. PICK m \in [Orders -> Nat] : m = Offering(g, p)
  BY MeasuresType
<1>4. PICK w : w = ValidWeights(orders, m)
  OBVIOUS
<1>5. Sum(w) = Weigh(os, m)
  BY <1>1, <1>2, <1>4, WeighRearranged
<1>6. w = [k \in DOMAIN orders |->
             IF orders[k].good = g /\ (ValidOrder(orders[k]) /\ orders[k].limit <= p) THEN orders[k].quantity ELSE 0]
  BY <1>3, <1>4 DEF Offering, ValidWeights
<1>7. OffersUpTo(g, p) = Sum(w)
  BY <1>2, <1>6, Zenon DEF OffersUpTo, Units
<1>8. QED
  BY <1>3, <1>5, <1>7

(* What changed hands.                                                     *)
LEMMA TradedIs ==
  ASSUME trades \in Seq(Executions), NEW g
  PROVE  /\ Traded(g) = Weigh(trades, Moving(g))
         /\ Spent(g) = Weigh(trades, Paying(g))
         /\ \A p \in Nat : TradedAbove(g, p) = Weigh(trades, MovingAbove(g, p))
<1>1. \A k \in DOMAIN trades : trades[k] \in Executions
  OBVIOUS
<1>2. [k \in DOMAIN trades |-> Moving(g)[trades[k]]]
        = [k \in DOMAIN trades |-> IF trades[k].good = g /\ TRUE THEN trades[k].quantity ELSE 0]
  BY <1>1 DEF Moving
<1>3. [k \in DOMAIN trades |-> Paying(g)[trades[k]]]
        = [k \in DOMAIN trades |-> IF trades[k].good = g THEN trades[k].total ELSE 0]
  BY <1>1 DEF Paying
<1>4. ASSUME NEW p \in Nat
      PROVE  [k \in DOMAIN trades |-> MovingAbove(g, p)[trades[k]]]
               = [k \in DOMAIN trades |-> IF trades[k].good = g /\ trades[k].unit > p THEN trades[k].quantity ELSE 0]
  BY <1>1 DEF MovingAbove
<1>5. Traded(g) = Weigh(trades, Moving(g))
  BY <1>2, Zenon DEF Traded, Units, Weigh
<1>6. Spent(g) = Weigh(trades, Paying(g))
  BY <1>3, Zenon DEF Spent, Weigh
<1>7. \A p \in Nat : TradedAbove(g, p) = Weigh(trades, MovingAbove(g, p))
  BY <1>4, Zenon DEF TradedAbove, Units, Weigh
<1>8. QED
  BY <1>5, <1>6, <1>7

(* The sorted orders are valid, bids the dearest first and offers the      *)
(* cheapest first.                                                         *)
AllValid(o) == \A k \in 1 .. Len(o) : o[k] \in Orders /\ ValidOrder(o[k]) /\ o[k].good \in Good

LEMMA RearrangedAreValid ==
  ASSUME NEW orders \in Seq(Orders), NEW o \in Rearranged(orders)
  PROVE  o \in Seq(Orders) /\ AllValid(o)
<1>1. o \in Seq(Orders)
  BY RearrangedIs
<1>2. PICK p : Positions(p, o, orders)
  BY RearrangedIs
<1>3. ASSUME NEW k \in 1 .. Len(o) PROVE o[k] \in Orders /\ ValidOrder(o[k]) /\ o[k].good \in Good
  <2>1. o[k] \in Orders
    BY <1>1
  <2>2. p[k] \in 1 .. Len(orders) /\ o[k] = orders[p[k]]
    BY <1>2 DEF Positions
  <2>3. ValidOrder(o[k])
    BY <1>2, <2>2 DEF Positions
  <2>4. QED
    BY <2>1, <2>3 DEF Orders, ValidOrder
<1>4. QED
  BY <1>1, <1>3 DEF AllValid

LEMMA OrderFields ==
  ASSUME NEW o \in Orders
  PROVE  /\ o.quantity \in Nat /\ o.limit \in Nat /\ o.quantity \in U64 /\ o.limit \in U64
         /\ o.quantity <= MaxU64 /\ o.limit <= MaxU64
BY U64IsFinite DEF Orders, U64

LEMMA BidsAre ==
  ASSUME submitted \in Books, NEW ob \in SortedBids
  PROVE  /\ ob \in Seq(Orders) /\ AllValid(ob)
         /\ \A j, k \in 1 .. Len(ob) : j < k => ob[k].limit <= ob[j].limit
<1>1. submitted.buys \in Seq(Orders) /\ ob \in Rearranged(submitted.buys)
  BY OrdersAssumption DEF SortedBids
<1>2. PICK orders \in Seq(Orders) : orders = submitted.buys
  BY <1>1
<1>3. ob \in Seq(Orders) /\ AllValid(ob)
  BY <1>1, <1>2, RearrangedAreValid
<1>4. \A j, k \in DOMAIN ob : j < k => ~BidBefore(ob[k], ob[j])
  BY DEF SortedBids
<1>5. ASSUME NEW j \in 1 .. Len(ob), NEW k \in 1 .. Len(ob), j < k PROVE ob[k].limit <= ob[j].limit
  <2>1. ~(ob[k].limit > ob[j].limit)
    BY <1>3, <1>4, <1>5 DEF BidBefore
  <2>2. ob[k].limit \in Nat /\ ob[j].limit \in Nat
    <3>1. ob[k] \in Orders /\ ob[j] \in Orders
      BY <1>3
    <3>2. QED
      BY <3>1, OrderFields
  <2>3. QED
    BY <2>1, <2>2
<1>6. QED
  BY <1>3, <1>5

LEMMA OffersAre ==
  ASSUME submitted \in Books, NEW os \in SortedOffers
  PROVE  /\ os \in Seq(Orders) /\ AllValid(os)
         /\ \A j, k \in 1 .. Len(os) : j < k => os[j].limit <= os[k].limit
<1>1. submitted.sells \in Seq(Orders) /\ os \in Rearranged(submitted.sells)
  BY OrdersAssumption DEF SortedOffers
<1>2. PICK orders \in Seq(Orders) : orders = submitted.sells
  BY <1>1
<1>3. os \in Seq(Orders) /\ AllValid(os)
  BY <1>1, <1>2, RearrangedAreValid
<1>4. \A j, k \in DOMAIN os : j < k => ~OfferBefore(os[k], os[j])
  BY DEF SortedOffers
<1>5. ASSUME NEW j \in 1 .. Len(os), NEW k \in 1 .. Len(os), j < k PROVE os[j].limit <= os[k].limit
  <2>1. ~(os[k].limit < os[j].limit)
    BY <1>3, <1>4, <1>5 DEF OfferBefore
  <2>2. os[k].limit \in Nat /\ os[j].limit \in Nat
    <3>1. os[k] \in Orders /\ os[j] \in Orders
      BY <1>3
    <3>2. QED
      BY <3>1, OrderFields
  <2>3. QED
    BY <2>1, <2>2
<1>6. QED
  BY <1>3, <1>5

-----------------------------------------------------------------------------
LEMMA OrdersInvInit ==
  ASSUME OrdersInit
  PROVE  OrdersInv
<1>1. submitted \in Books /\ buys \in SortedBids /\ sells \in SortedOffers /\ trades = << >>
  BY DEF OrdersInit
<1>2. buys \in Seq(Orders) /\ sells \in Seq(Orders) /\ AllValid(buys) /\ AllValid(sells)
  BY <1>1, BidsAre, OffersAre
<1>3. trades \in Seq(Executions) /\ Len(trades) = 0
  BY <1>1
<1>4. OrdersTypeOK
  <2>1. Len(buys) \in Nat /\ Len(sells) \in Nat
    BY <1>2
  <2>2. at \in [buy : 1 .. Len(buys) + 1, sell : 1 .. Len(sells) + 1]
    BY <2>1 DEF OrdersInit
  <2>3. totals \in [quantity : U64, value : U64]
    BY U64IsFinite DEF OrdersInit
  <2>4. QED
    BY <1>1, <1>2, <1>3, <2>2, <2>3 DEF OrdersTypeOK
<1>5. SeenPairsAreDone
  BY <1>2 DEF OrdersInit, SeenPairsAreDone
<1>6. ASSUME NEW m \in [Executions -> Nat] PROVE Weigh(trades, m) = 0
  <2>1. \A k \in 1 .. Len(trades) : m[trades[k]] = 0
    BY <1>3
  <2>2. QED
    BY <1>3, <2>1, WeighsNothing
<1>7. ASSUME NEW g PROVE Weigh(trades, Moving(g)) = 0 /\ Weigh(trades, Paying(g)) = 0
  BY <1>6, MovingsType
<1>8. ASSUME NEW g, NEW p \in Nat
      PROVE  /\ Weigh(trades, MovingAbove(g, p)) = 0
             /\ Weigh(buys, Bidding(g, p)) \in Nat /\ Weigh(sells, Offering(g, p)) \in Nat
  BY <1>2, <1>6, MeasuresType, WeightsType
<1>9. TotalsTold
  <2>1. PICK w : w = [g \in Good |-> Weigh(trades, Moving(g))]
    OBVIOUS
  <2>2. PICK v : v = [g \in Good |-> Weigh(trades, Paying(g))]
    OBVIOUS
  <2>3. \A g \in Good : w[g] = 0 /\ v[g] = 0
    BY <1>7, <2>1, <2>2
  <2> w \in [Good -> Nat] /\ v \in [Good -> Nat]
    BY <1>7, <2>1, <2>2
  <2>4. Sum(w) = 0 /\ Sum(v) = 0
    BY <2>3, SumOfZeros, OrdersAssumption
  <2>5. WrapsTo(0, 0)
    BY U64IsFinite DEF WrapsTo
  <2>6. QED
    BY <2>1, <2>2, <2>4, <2>5 DEF TotalsTold, OrdersInit
<1>10. Matching(buys, sells)
  <2>1. LeftOf(buys, buys) /\ LeftOf(sells, sells) /\ BidsInTurn(buys) /\ CheapestFirst(sells)
    <3>1. ASSUME NEW k \in 1 .. Len(buys) PROVE buys[k].quantity \in Nat
      <4>1. buys[k] \in Orders
        BY <1>2
      <4>2. QED
        BY <4>1, OrderFields
    <3>2. ASSUME NEW k \in 1 .. Len(sells) PROVE sells[k].quantity \in Nat
      <4>1. sells[k] \in Orders
        BY <1>2
      <4>2. QED
        BY <4>1, OrderFields
    <3>3. QED
      BY <1>2, <3>1, <3>2 DEF LeftOf, BidsInTurn, CheapestFirst
  <2>2. ASSUME NEW g \in Good PROVE SellsBalance(g, sells)
    <3>1. \A p \in U64 : p \in Nat
      BY U64IsFinite
    <3>2. QED
      BY <1>7, <1>8, <3>1 DEF SellsBalance
  <2>3. ASSUME NEW g \in Good PROVE BuysBalance(g, buys)
    <3>1. \A p \in U64 : p \in Nat /\ p + 1 \in Nat
      BY U64IsFinite
    <3>2. QED
      BY <1>7, <1>8, <3>1 DEF BuysBalance
  <2>4. ASSUME NEW g \in Good PROVE PaidByPrice(g)
    <3>1. \A p \in U64 : Weigh(trades, MovingAbove(g, p)) = 0
      BY <1>8, U64IsFinite
    <3>2. PICK w : w = [p \in U64 |-> Weigh(trades, MovingAbove(g, p))]
      OBVIOUS
    <3> w \in [U64 -> Nat]
      BY <3>1, <3>2
    <3>3. Sum(w) = 0
      BY <3>1, <3>2, U64IsFinite, SumOfZeros
    <3>4. QED
      BY <1>7, <3>2, <3>3 DEF PaidByPrice
  <2>5. ASSUME NEW g \in Good PROVE Marginal(g, 0, buys, sells)
    BY <1>7, <1>8 DEF Marginal
  <2>6. QED
    BY <2>1, <2>2, <2>3, <2>4, <2>5, U64IsFinite DEF Matching
<1>11. QED
  BY <1>1, <1>4, <1>5, <1>9, <1>10 DEF OrdersInv

-----------------------------------------------------------------------------
(* A pair that meets.                                                      *)
Meeting(i, j, bid, offer, q) ==
  /\ i = at.buy /\ i \in 1 .. Len(buys) /\ bid = buys[i] /\ bid \in Orders /\ bid.good \in Good
  /\ j = at.sell /\ j \in 1 .. Len(sells) /\ offer = sells[j] /\ offer \in Orders
  /\ offer.good = bid.good /\ offer.limit <= bid.limit /\ Meet(bid, offer)
  /\ q = Filled(bid, offer) /\ q \in Nat /\ q > 0 /\ q <= bid.quantity /\ q <= offer.quantity
  /\ q = bid.quantity \/ q = offer.quantity
  /\ q * offer.limit \in U64

(* Its trade fits: the bid, of which there is at most what was submitted,  *)
(* is not cheaper.                                                         *)
LEMMA PairsFit ==
  ASSUME OrdersTypeOK, NEW ob \in SortedBids, NEW os \in SortedOffers, Matching(ob, os),
         Looking, at.sell \in DOMAIN sells, Meet(buys[at.buy], sells[at.sell])
  PROVE  /\ \E i, j, bid, offer, q : Meeting(i, j, bid, offer, q)
         /\ ~TooDear(buys[at.buy], sells[at.sell])
<1>1. PICK i : i = at.buy
  OBVIOUS
<1>2. PICK j : j = at.sell
  OBVIOUS
<1>3. buys \in Seq(Orders) /\ sells \in Seq(Orders) /\ i \in 1 .. Len(buys) /\ j \in 1 .. Len(sells)
  BY <1>1, <1>2 DEF OrdersTypeOK, Looking
<1>4. PICK bid \in Orders : bid = buys[i]
  BY <1>3
<1>5. PICK offer \in Orders : offer = sells[j]
  BY <1>3
<1>6. Meet(bid, offer)
  BY <1>1, <1>2, <1>4, <1>5
<1>7. PICK b \in Nat : b = bid.quantity
  BY OrderFields
<1>8. PICK s \in Nat : s = offer.quantity
  BY OrderFields
<1>9. PICK l \in Nat : l = bid.limit
  BY OrderFields
<1>10. PICK u \in Nat : u = offer.limit
  BY OrderFields
<1>11. b > 0 /\ s > 0 /\ u <= l /\ offer.good = bid.good
  BY <1>6, <1>7, <1>8, <1>9, <1>10 DEF Meet
<1>12. PICK q \in Nat : q = AtMost(b, s)
  BY DEF AtMost
<1>13. q > 0 /\ q <= b /\ q <= s /\ (q = b \/ q = s)
  BY <1>11, <1>12 DEF AtMost
<1>14. q = Filled(bid, offer)
  BY <1>7, <1>8, <1>12 DEF Filled
<1>15. ob \in Seq(Orders) /\ AllValid(ob) /\ LeftOf(buys, ob)
  BY BidsAre DEF Matching, OrdersTypeOK
<1>16. PICK o \in Orders : o = ob[i] /\ ValidOrder(o) /\ o.good \in Good
  BY <1>3, <1>15 DEF AllValid, LeftOf
<1>17. bid.good = o.good /\ bid.limit = o.limit /\ bid.quantity <= o.quantity
  BY <1>3, <1>4, <1>15, <1>16 DEF LeftOf
<1>18. PICK n \in Nat : n = o.quantity
  BY OrderFields
<1>19. b <= n /\ n * l <= MaxU64
  BY <1>7, <1>9, <1>16, <1>17, <1>18, U64IsFinite DEF ValidOrder, MultiplyOverflows
<1>20. q * u <= MaxU64
  <2>1. q * u <= q * l
    BY <1>11, ProductsGrow
  <2>2. q <= n
    BY <1>13, <1>19
  <2>3. q * l <= n * l
    BY <2>2, ProductsGrow
  <2>4. PICK x \in Nat : x = q * u
    OBVIOUS
  <2>5. PICK y \in Nat : y = q * l
    OBVIOUS
  <2>6. PICK z \in Nat : z = n * l
    OBVIOUS
  <2>7. x <= y /\ y <= z /\ z <= MaxU64
    BY <1>19, <2>1, <2>3, <2>4, <2>5, <2>6
  <2>8. x <= MaxU64
    BY <2>7, U64IsFinite
  <2>9. QED
    BY <2>4, <2>8
<1>21. q * u \in U64
  BY <1>20, U64IsFinite DEF U64
<1>22. q <= bid.quantity /\ q <= offer.quantity /\ (q = bid.quantity \/ q = offer.quantity)
  BY <1>7, <1>8, <1>13
<1>23. q * offer.limit \in U64 /\ offer.limit <= bid.limit
  BY <1>9, <1>10, <1>11, <1>21
<1>24. Meeting(i, j, bid, offer, q)
  BY <1>1, <1>2, <1>3, <1>4, <1>5, <1>6, <1>11, <1>13, <1>14, <1>16, <1>17, <1>22, <1>23 DEF Meeting
<1>25. ~TooDear(bid, offer)
  BY <1>10, <1>14, <1>20, U64IsFinite DEF TooDear, MultiplyOverflows
<1>26. QED
  BY <1>1, <1>2, <1>4, <1>5, <1>24, <1>25

(* What the trade of a pair does.                                          *)
Moved(i, j, bid, offer, q, e) ==
  /\ e \in Executions /\ trades' = Append(trades, e)
  /\ e.good = bid.good /\ e.quantity = q /\ e.unit = offer.limit /\ e.total = q * offer.limit
  /\ Less(bid, q) \in Orders /\ buys' = [buys EXCEPT ![i] = Less(bid, q)]
  /\ Less(bid, q).good = bid.good /\ Less(bid, q).limit = bid.limit /\ Less(bid, q).quantity = bid.quantity - q
  /\ Less(offer, q) \in Orders /\ sells' = [sells EXCEPT ![j] = Less(offer, q)]
  /\ Less(offer, q).good = bid.good /\ Less(offer, q).limit = offer.limit
  /\ Less(offer, q).quantity = offer.quantity - q
  /\ at' = [at EXCEPT !.sell = j + 1]
  /\ totals' = [quantity |-> WrapAdd(totals.quantity, q), value |-> WrapAdd(totals.value, q * offer.limit)]
  /\ submitted' = submitted

LEMMA LessIs ==
  ASSUME NEW o \in Orders, NEW n \in Nat, n <= o.quantity
  PROVE  /\ Less(o, n) \in Orders /\ Less(o, n).good = o.good /\ Less(o, n).limit = o.limit
         /\ Less(o, n).quantity = o.quantity - n
<1>1. PICK m \in Nat : m = o.quantity /\ m <= MaxU64
  BY OrderFields
<1>2. m - n \in U64
  BY <1>1, U64IsFinite DEF U64
<1>3. o.quantity - n \in U64
  BY <1>1, <1>2
<1>4. QED
  BY <1>3 DEF Less, Orders

LEMMA TradeMoves ==
  ASSUME OrdersTypeOK, Trade, NEW i, NEW j, NEW bid, NEW offer, NEW q, Meeting(i, j, bid, offer, q)
  PROVE  \E e : Moved(i, j, bid, offer, q, e)
<1> bid \in Orders /\ offer \in Orders /\ q \in Nat
  BY DEF Meeting
<1>1. PICK e : e = Execution(bid, offer)
  OBVIOUS
<1>2. /\ i = at.buy /\ j = at.sell /\ bid = buys[i] /\ offer = sells[j] /\ q = Filled(bid, offer)
      /\ q <= bid.quantity /\ q <= offer.quantity /\ offer.good = bid.good /\ bid.good \in Good
      /\ q * offer.limit \in U64
  BY DEF Meeting
<1>3. q \in U64 /\ offer.limit \in U64
  <2>1. PICK m \in Nat : m = bid.quantity /\ m <= MaxU64
    BY OrderFields
  <2>2. q \in U64
    BY <1>2, <2>1, U64IsFinite DEF U64
  <2>3. QED
    BY <2>2, OrderFields
<1>4. e = [good |-> bid.good, quantity |-> q, unit |-> offer.limit, total |-> q * offer.limit]
  BY <1>1, <1>2, Zenon DEF Execution
<1>5. /\ e \in Executions /\ e.good = bid.good /\ e.quantity = q /\ e.unit = offer.limit
      /\ e.total = q * offer.limit
  BY <1>2, <1>3, <1>4 DEF Executions
<1>6. /\ trades' = Append(trades, e)
      /\ totals' = [quantity |-> WrapAdd(totals.quantity, e.quantity), value |-> WrapAdd(totals.value, e.total)]
      /\ buys' = [buys EXCEPT ![i] = Less(bid, e.quantity)]
      /\ sells' = [sells EXCEPT ![j] = Less(offer, e.quantity)]
      /\ at' = [at EXCEPT !.sell = j + 1]
      /\ submitted' = submitted
  BY <1>1, <1>2, Zenon DEF Trade, NextSell
<1>7. /\ Less(bid, q) \in Orders /\ Less(bid, q).good = bid.good /\ Less(bid, q).limit = bid.limit
      /\ Less(bid, q).quantity = bid.quantity - q
  BY <1>2, LessIs
<1>8. /\ Less(offer, q) \in Orders /\ Less(offer, q).good = offer.good /\ Less(offer, q).limit = offer.limit
      /\ Less(offer, q).quantity = offer.quantity - q
  BY <1>2, LessIs
<1>9. Moved(i, j, bid, offer, q, e)
  BY <1>2, <1>5, <1>6, <1>7, <1>8, Zenon DEF Moved
<1>10. QED
  BY <1>9

(* What it does to the sums.                                               *)
LEMMA TradesWeigh ==
  ASSUME OrdersTypeOK, NEW i, NEW j, NEW bid, NEW offer, NEW q, NEW e,
         Meeting(i, j, bid, offer, q), Moved(i, j, bid, offer, q, e), NEW g, NEW p \in Nat
  PROVE  /\ Weigh(trades', Moving(g)) = Weigh(trades, Moving(g)) + (IF bid.good = g THEN q ELSE 0)
         /\ Weigh(trades', Paying(g)) = Weigh(trades, Paying(g)) + (IF bid.good = g THEN q * offer.limit ELSE 0)
         /\ Weigh(trades', MovingAbove(g, p))
              = Weigh(trades, MovingAbove(g, p)) + (IF bid.good = g /\ offer.limit > p THEN q ELSE 0)
<1>1. trades \in Seq(Executions)
  BY DEF OrdersTypeOK
<1>2. e \in Executions /\ trades' = Append(trades, e)
  BY DEF Moved
<1>3. e.good = bid.good /\ e.quantity = q /\ e.unit = offer.limit /\ e.total = q * offer.limit
  BY DEF Moved
<1>4. ASSUME NEW m \in [Executions -> Nat] PROVE Weigh(trades', m) = Weigh(trades, m) + m[e]
  BY <1>1, <1>2, WeighAppended
<1>5. Moving(g)[e] = IF bid.good = g THEN q ELSE 0
  BY <1>2, <1>3 DEF Moving
<1>6. Paying(g)[e] = IF bid.good = g THEN q * offer.limit ELSE 0
  BY <1>2, <1>3 DEF Paying
<1>7. MovingAbove(g, p)[e] = IF bid.good = g /\ offer.limit > p THEN q ELSE 0
  BY <1>2, <1>3 DEF MovingAbove
<1>8. Weigh(trades', Moving(g)) = Weigh(trades, Moving(g)) + Moving(g)[e]
  BY <1>4, MeasuresType
<1>9. Weigh(trades', Paying(g)) = Weigh(trades, Paying(g)) + Paying(g)[e]
  BY <1>4, MeasuresType
<1>10. Weigh(trades', MovingAbove(g, p)) = Weigh(trades, MovingAbove(g, p)) + MovingAbove(g, p)[e]
  BY <1>4, MeasuresType
<1>11. QED
  BY <1>5, <1>6, <1>7, <1>8, <1>9, <1>10

TakesFrom(o, i, l, q, n) ==
  o \in Seq(Orders) /\ i \in 1 .. Len(o) /\ l = o[i] /\ q \in Nat /\ q <= l.quantity /\ n = [o EXCEPT ![i] = Less(l, q)]

Minds(m, l, q, C) ==
  /\ m \in [Orders -> Nat] /\ C \in BOOLEAN
  /\ m[l] = (IF C THEN l.quantity ELSE 0) /\ m[Less(l, q)] = (IF C THEN l.quantity - q ELSE 0)

LEMMA OneLessWeighs ==
  ASSUME NEW o, NEW i, NEW l, NEW q, NEW n, TakesFrom(o, i, l, q, n),
         NEW m, NEW C, Minds(m, l, q, C)
  PROVE  Weigh(n, m) + (IF C THEN q ELSE 0) = Weigh(o, m)
<1> o \in Seq(Orders) /\ i \in 1 .. Len(o) /\ l = o[i] /\ q \in Nat /\ q <= l.quantity /\ n = [o EXCEPT ![i] = Less(l, q)]
  BY DEF TakesFrom
<1> m \in [Orders -> Nat] /\ C \in BOOLEAN
  BY DEF Minds
<1> m[l] = (IF C THEN l.quantity ELSE 0) /\ m[Less(l, q)] = (IF C THEN l.quantity - q ELSE 0)
  BY DEF Minds
<1>1. l \in Orders
  OBVIOUS
<1>2. Less(l, q) \in Orders
  BY <1>1, LessIs
<1>3. Weigh(n, m) + m[l] = Weigh(o, m) + m[Less(l, q)]
  <2>1. PICK e \in Orders : e = Less(l, q)
    BY <1>2
  <2>2. Replaces(n, o, i, e, Orders)
    BY <2>1 DEF Replaces
  <2>3. Weigh(n, m) + m[o[i]] = Weigh(o, m) + m[e]
    BY <2>2, WeighReplaced
  <2>4. QED
    BY <2>1, <2>3
<1>4. n \in Seq(Orders)
  BY <1>2, ExceptSeq
<1>5. PICK a \in Nat : a = Weigh(n, m)
  BY <1>4, WeightsType
<1>6. PICK b \in Nat : b = Weigh(o, m)
  BY WeightsType
<1>7. PICK c \in Nat : c = l.quantity
  BY <1>1, OrderFields
<1>8. a + m[l] = b + m[Less(l, q)]
  BY <1>3, <1>5, <1>6
<1>9. CASE C
  <2>1. a + c = b + (c - q)
    BY <1>7, <1>8, <1>9
  <2>2. q \in Nat
    OBVIOUS
  <2>3. a + q = b
    BY ONLY <2>1, <2>2
  <2>4. QED
    BY <1>5, <1>6, <1>9, <2>3
<1>10. CASE ~C
  <2>1. a + 0 = b + 0
    BY <1>8, <1>10
  <2>2. QED
    BY <1>5, <1>6, <1>10, <2>1
<1>11. QED
  BY <1>9, <1>10

LEMMA TradesAdd ==
  ASSUME OrdersTypeOK, NEW i, NEW j, NEW bid, NEW offer, NEW q, NEW e,
         Meeting(i, j, bid, offer, q), Moved(i, j, bid, offer, q, e), NEW g
  PROVE  /\ Weigh(trades', Moving(g)) = Weigh(trades, Moving(g)) + (IF bid.good = g THEN q ELSE 0)
         /\ Weigh(trades', Paying(g)) = Weigh(trades, Paying(g)) + (IF bid.good = g THEN q * offer.limit ELSE 0)
<1>1. PICK p \in Nat : p = 0
  OBVIOUS
<1>2. Weigh(trades', MovingAbove(g, p)) = Weigh(trades, MovingAbove(g, p)) + (IF bid.good = g /\ offer.limit > p THEN q ELSE 0)
        /\ Weigh(trades', Moving(g)) = Weigh(trades, Moving(g)) + (IF bid.good = g THEN q ELSE 0)
  BY TradesWeigh
<1>3. Weigh(trades', MovingAbove(g, p)) = Weigh(trades, MovingAbove(g, p)) + (IF bid.good = g /\ offer.limit > p THEN q ELSE 0)
        /\ Weigh(trades', Paying(g)) = Weigh(trades, Paying(g)) + (IF bid.good = g THEN q * offer.limit ELSE 0)
  BY TradesWeigh
<1>4. QED
  BY <1>2, <1>3

LEMMA OrdersWeigh ==
  ASSUME OrdersTypeOK, NEW i, NEW j, NEW bid, NEW offer, NEW q, NEW e,
         Meeting(i, j, bid, offer, q), Moved(i, j, bid, offer, q, e), NEW g, NEW p \in Nat
  PROVE  /\ Weigh(buys', Bidding(g, p)) + (IF bid.good = g /\ bid.limit >= p THEN q ELSE 0)
              = Weigh(buys, Bidding(g, p))
         /\ Weigh(sells', Offering(g, p)) + (IF bid.good = g /\ offer.limit <= p THEN q ELSE 0)
              = Weigh(sells, Offering(g, p))
<1>1. buys \in Seq(Orders) /\ sells \in Seq(Orders)
  BY DEF OrdersTypeOK
<1>2. /\ i \in 1 .. Len(buys) /\ bid = buys[i] /\ j \in 1 .. Len(sells) /\ offer = sells[j]
      /\ bid \in Orders /\ offer \in Orders /\ offer.good = bid.good
      /\ q \in Nat /\ q <= bid.quantity /\ q <= offer.quantity
  BY DEF Meeting
<1>3. /\ buys' = [buys EXCEPT ![i] = Less(bid, q)] /\ sells' = [sells EXCEPT ![j] = Less(offer, q)]
      /\ Less(bid, q) \in Orders /\ Less(offer, q) \in Orders
      /\ Less(bid, q).good = bid.good /\ Less(bid, q).limit = bid.limit /\ Less(bid, q).quantity = bid.quantity - q
      /\ Less(offer, q).good = bid.good /\ Less(offer, q).limit = offer.limit
      /\ Less(offer, q).quantity = offer.quantity - q
  BY DEF Moved
<1>4. PICK C \in BOOLEAN : C <=> bid.good = g /\ bid.limit >= p
  OBVIOUS
<1>5. PICK D \in BOOLEAN : D <=> bid.good = g /\ offer.limit <= p
  OBVIOUS
<1>6. PICK m \in [Orders -> Nat] : m = Bidding(g, p)
  BY MeasuresType
<1>7. PICK n \in [Orders -> Nat] : n = Offering(g, p)
  BY MeasuresType
<1>8. m[bid] = (IF C THEN bid.quantity ELSE 0) /\ m[Less(bid, q)] = (IF C THEN bid.quantity - q ELSE 0)
  BY <1>2, <1>3, <1>4, <1>6 DEF Bidding
<1>9. n[offer] = (IF D THEN offer.quantity ELSE 0) /\ n[Less(offer, q)] = (IF D THEN offer.quantity - q ELSE 0)
  BY <1>2, <1>3, <1>5, <1>7 DEF Offering
<1>10. Weigh(buys', m) + (IF C THEN q ELSE 0) = Weigh(buys, m)
  <2>1. TakesFrom(buys, i, bid, q, buys')
    BY <1>1, <1>2, <1>3 DEF TakesFrom
  <2>2. Minds(m, bid, q, C)
    BY <1>8 DEF Minds
  <2>3. QED
    BY <2>1, <2>2, OneLessWeighs
<1>11. Weigh(sells', n) + (IF D THEN q ELSE 0) = Weigh(sells, n)
  <2>1. TakesFrom(sells, j, offer, q, sells')
    BY <1>1, <1>2, <1>3 DEF TakesFrom
  <2>2. Minds(n, offer, q, D)
    BY <1>9 DEF Minds
  <2>3. QED
    BY <2>1, <2>2, OneLessWeighs
<1>12. (IF C THEN q ELSE 0) = (IF bid.good = g /\ bid.limit >= p THEN q ELSE 0)
  BY <1>4
<1>13. (IF D THEN q ELSE 0) = (IF bid.good = g /\ offer.limit <= p THEN q ELSE 0)
  BY <1>5
<1>14. QED
  BY <1>3, <1>6, <1>7, <1>10, <1>11, <1>12, <1>13

LEMMA WeighIsNat ==
  ASSUME NEW g, NEW p \in Nat
  PROVE  /\ \A t \in Seq(Executions) : Weigh(t, Moving(g)) \in Nat /\ Weigh(t, MovingAbove(g, p)) \in Nat
                                         /\ Weigh(t, Paying(g)) \in Nat
         /\ \A o \in Seq(Orders) : Weigh(o, Bidding(g, p)) \in Nat /\ Weigh(o, Offering(g, p)) \in Nat
<1>1. ASSUME NEW t \in Seq(Executions), NEW m \in [Executions -> Nat] PROVE Weigh(t, m) \in Nat
  BY WeightsType
<1>2. ASSUME NEW o \in Seq(Orders), NEW m \in [Orders -> Nat] PROVE Weigh(o, m) \in Nat
  BY WeightsType
<1>3. QED
  BY <1>1, <1>2, MeasuresType

(* The sums before and after a trade, as numbers.                          *)
LEMMA MovedTypes ==
  ASSUME OrdersTypeOK, NEW i, NEW j, NEW bid, NEW offer, NEW q, NEW e,
         Meeting(i, j, bid, offer, q), Moved(i, j, bid, offer, q, e)
  PROVE  /\ trades \in Seq(Executions) /\ trades' \in Seq(Executions) /\ Len(trades') = Len(trades) + 1
         /\ buys \in Seq(Orders) /\ buys' \in Seq(Orders) /\ Len(buys') = Len(buys)
         /\ sells \in Seq(Orders) /\ sells' \in Seq(Orders) /\ Len(sells') = Len(sells)
<1>1. trades \in Seq(Executions) /\ buys \in Seq(Orders) /\ sells \in Seq(Orders)
  BY DEF OrdersTypeOK
<1>2. /\ e \in Executions /\ trades' = Append(trades, e)
      /\ Less(bid, q) \in Orders /\ buys' = [buys EXCEPT ![i] = Less(bid, q)]
      /\ Less(offer, q) \in Orders /\ sells' = [sells EXCEPT ![j] = Less(offer, q)]
  BY DEF Moved
<1>3. i \in 1 .. Len(buys) /\ j \in 1 .. Len(sells)
  BY DEF Meeting
<1>4. trades' \in Seq(Executions) /\ Len(trades') = Len(trades) + 1
  BY <1>1, <1>2, AppendProperties
<1>5. buys' \in Seq(Orders) /\ Len(buys') = Len(buys)
  BY <1>1, <1>2, <1>3, ExceptSeq
<1>6. sells' \in Seq(Orders) /\ Len(sells') = Len(sells)
  BY <1>1, <1>2, <1>3, ExceptSeq
<1>7. QED
  BY <1>1, <1>4, <1>5, <1>6

LEMMA SellsBalanceKept ==
  ASSUME OrdersTypeOK, NEW ob \in SortedBids, NEW os \in SortedOffers, Matching(ob, os),
         NEW i, NEW j, NEW bid, NEW offer, NEW q, NEW e,
         Meeting(i, j, bid, offer, q), Moved(i, j, bid, offer, q, e), NEW g \in Good
  PROVE  SellsBalance(g, os)'
<1>1. SUFFICES ASSUME NEW p \in U64
               PROVE  Weigh(trades', MovingAbove(g, p)) + Weigh(os, Offering(g, p))
                        = Weigh(trades', Moving(g)) + Weigh(sells', Offering(g, p))
  BY DEF SellsBalance
<1> p \in Nat
  BY U64IsFinite
<1>2. os \in Seq(Orders)
  BY OffersAre DEF OrdersTypeOK
<1>3. Weigh(trades, MovingAbove(g, p)) + Weigh(os, Offering(g, p))
        = Weigh(trades, Moving(g)) + Weigh(sells, Offering(g, p))
  BY DEF Matching, SellsBalance
<1>4. PICK a \in Nat : a = Weigh(trades, MovingAbove(g, p))
  BY MovedTypes, WeighIsNat
<1>5. PICK b \in Nat : b = Weigh(os, Offering(g, p))
  BY <1>2, WeighIsNat
<1>6. PICK c \in Nat : c = Weigh(trades, Moving(g))
  BY MovedTypes, WeighIsNat
<1>7. PICK d \in Nat : d = Weigh(sells, Offering(g, p))
  BY MovedTypes, WeighIsNat
<1>8. PICK y \in Nat : y = Weigh(sells', Offering(g, p))
  BY MovedTypes, WeighIsNat
<1>9. a + b = c + d
  BY <1>3, <1>4, <1>5, <1>6, <1>7
<1>10. q \in Nat /\ offer.limit \in Nat
  BY OrderFields DEF Meeting
<1>11. /\ Weigh(trades', Moving(g)) = c + (IF bid.good = g THEN q ELSE 0)
       /\ Weigh(trades', MovingAbove(g, p)) = a + (IF bid.good = g /\ offer.limit > p THEN q ELSE 0)
  BY <1>4, <1>6, TradesWeigh
<1>12. y + (IF bid.good = g /\ offer.limit <= p THEN q ELSE 0) = d
  BY <1>7, <1>8, OrdersWeigh
<1>13. CASE bid.good # g
  BY <1>5, <1>8, <1>9, <1>10, <1>11, <1>12, <1>13
<1>14. CASE bid.good = g /\ offer.limit > p
  <2>1. ~(offer.limit <= p)
    BY <1>10, <1>14
  <2>2. Weigh(trades', Moving(g)) = c + q /\ Weigh(trades', MovingAbove(g, p)) = a + q /\ y + 0 = d
    BY <1>11, <1>12, <1>14, <2>1
  <2>3. PICK n \in Nat : n = q
    BY <1>10
  <2>4. (a + n) + b = (c + n) + y
    BY ONLY <1>9, <2>2, <2>3
  <2>5. QED
    BY <1>5, <1>8, <2>2, <2>3, <2>4
<1>15. CASE bid.good = g /\ offer.limit <= p
  <2>1. ~(offer.limit > p)
    BY <1>10, <1>15
  <2>2. Weigh(trades', Moving(g)) = c + q /\ Weigh(trades', MovingAbove(g, p)) = a + 0 /\ y + q = d
    BY <1>11, <1>12, <1>15, <2>1
  <2>3. PICK n \in Nat : n = q
    BY <1>10
  <2>4. a + b = (c + n) + y
    BY ONLY <1>9, <2>2, <2>3
  <2>5. QED
    BY <1>5, <1>8, <2>2, <2>3, <2>4
<1>16. QED
  BY <1>10, <1>13, <1>14, <1>15

LEMMA BuysBalanceKept ==
  ASSUME OrdersTypeOK, NEW ob \in SortedBids, NEW os \in SortedOffers, Matching(ob, os),
         NEW i, NEW j, NEW bid, NEW offer, NEW q, NEW e,
         Meeting(i, j, bid, offer, q), Moved(i, j, bid, offer, q, e), NEW g \in Good
  PROVE  BuysBalance(g, ob)'
<1>1. ob \in Seq(Orders)
  BY BidsAre DEF OrdersTypeOK
<1>2. /\ bid.limit \in Nat /\ offer.limit \in Nat /\ offer.limit <= bid.limit /\ q \in Nat
  BY OrderFields DEF Meeting
<1>3. BuysBalance(g, ob)
  BY DEF Matching
<1>4. PICK c \in Nat : c = Weigh(trades, Moving(g))
  BY MovedTypes, WeighIsNat
<1>5. Weigh(trades', Moving(g)) = c + (IF bid.good = g THEN q ELSE 0)
  BY <1>4, TradesAdd
<1>6. Weigh(trades', Moving(g)) + Weigh(buys', Bidding(g, 0)) = Weigh(ob, Bidding(g, 0))
  <2>1. PICK d \in Nat : d = Weigh(buys, Bidding(g, 0))
    BY MovedTypes, WeighIsNat
  <2>2. PICK y \in Nat : y = Weigh(buys', Bidding(g, 0))
    BY MovedTypes, WeighIsNat
  <2>3. c + d = Weigh(ob, Bidding(g, 0))
    BY <1>3, <1>4, <2>1 DEF BuysBalance
  <2>4. y + (IF bid.good = g /\ bid.limit >= 0 THEN q ELSE 0) = d
    BY <2>1, <2>2, OrdersWeigh
  <2>5. QED
    BY <1>2, <1>5, <2>2, <2>3, <2>4
<1>7. ASSUME NEW p \in U64
      PROVE  Weigh(trades', MovingAbove(g, p)) + Weigh(buys', Bidding(g, p + 1)) <= Weigh(ob, Bidding(g, p + 1))
  <2> p \in Nat /\ p + 1 \in Nat
    BY U64IsFinite
  <2>1. PICK a \in Nat : a = Weigh(trades, MovingAbove(g, p))
    BY MovedTypes, WeighIsNat
  <2>2. PICK d \in Nat : d = Weigh(buys, Bidding(g, p + 1))
    BY MovedTypes, WeighIsNat
  <2>3. PICK y \in Nat : y = Weigh(buys', Bidding(g, p + 1))
    BY MovedTypes, WeighIsNat
  <2>4. PICK b \in Nat : b = Weigh(ob, Bidding(g, p + 1))
    BY <1>1, WeighIsNat
  <2>5. a + d <= b
    BY <1>3, <2>1, <2>2, <2>4 DEF BuysBalance
  <2>6. Weigh(trades', MovingAbove(g, p)) = a + (IF bid.good = g /\ offer.limit > p THEN q ELSE 0)
    BY <2>1, TradesWeigh
  <2>7. y + (IF bid.good = g /\ bid.limit >= p + 1 THEN q ELSE 0) = d
    BY <2>2, <2>3, OrdersWeigh
  <2>8. CASE bid.good = g /\ offer.limit > p
    <3>1. bid.limit >= p + 1
      BY <1>2, <2>8
    <3>2. QED
      BY <1>2, <2>3, <2>4, <2>5, <2>6, <2>7, <2>8, <3>1
  <2>9. CASE ~(bid.good = g /\ offer.limit > p)
    <3>1. y <= d
      BY <1>2, <2>7
    <3>2. QED
      BY <2>3, <2>4, <2>5, <2>6, <2>9, <3>1
  <2>10. QED
    BY <2>8, <2>9
<1>8. ASSUME NEW p \in U64
      PROVE  Weigh(ob, Bidding(g, p)) <= Weigh(trades', Moving(g)) + Weigh(buys', Bidding(g, p))
  <2> p \in Nat
    BY U64IsFinite
  <2>1. PICK d \in Nat : d = Weigh(buys, Bidding(g, p))
    BY MovedTypes, WeighIsNat
  <2>2. PICK y \in Nat : y = Weigh(buys', Bidding(g, p))
    BY MovedTypes, WeighIsNat
  <2>3. PICK b \in Nat : b = Weigh(ob, Bidding(g, p))
    BY <1>1, WeighIsNat
  <2>4. b <= c + d
    BY <1>3, <1>4, <2>1, <2>3 DEF BuysBalance
  <2>5. y + (IF bid.good = g /\ bid.limit >= p THEN q ELSE 0) = d
    BY <2>1, <2>2, OrdersWeigh
  <2>6. QED
    BY <1>2, <1>5, <2>2, <2>3, <2>4, <2>5
<1>9. QED
  BY <1>6, <1>7, <1>8 DEF BuysBalance

(* Where no offer dearer than p has been touched, all that was traded came *)
(* from the others; likewise with the bids below p.                        *)
Dearer(g, p) == [o \in Orders |-> IF o.good = g /\ o.limit > p THEN o.quantity ELSE 0]

Lower(g, p) == [o \in Orders |-> IF o.good = g /\ o.limit < p THEN o.quantity ELSE 0]

LEMMA MeasuresSplit ==
  ASSUME NEW g, NEW p \in U64
  PROVE  /\ Dearer(g, p) \in [Orders -> Nat] /\ Lower(g, p) \in [Orders -> Nat]
         /\ AddUpTo(Offering(g, p), Dearer(g, p), Offering(g, MaxU64), Orders)
         /\ AddUpTo(Bidding(g, p), Lower(g, p), Bidding(g, 0), Orders)
<1>1. p \in Nat /\ MaxU64 \in Nat
  BY U64IsFinite
<1>2. ASSUME NEW o \in Orders PROVE o.quantity \in Nat /\ o.limit \in Nat /\ o.limit <= MaxU64
  BY OrderFields
<1>3. Dearer(g, p) \in [Orders -> Nat] /\ Lower(g, p) \in [Orders -> Nat]
  BY <1>2 DEF Dearer, Lower
<1>4. ASSUME NEW o \in Orders PROVE Offering(g, MaxU64)[o] = Offering(g, p)[o] + Dearer(g, p)[o]
  BY <1>1, <1>2 DEF Offering, Dearer
<1>5. ASSUME NEW o \in Orders PROVE Bidding(g, 0)[o] = Bidding(g, p)[o] + Lower(g, p)[o]
  BY <1>1, <1>2 DEF Bidding, Lower
<1>6. AddUpTo(Offering(g, p), Dearer(g, p), Offering(g, MaxU64), Orders)
  BY <1>4 DEF AddUpTo
<1>7. AddUpTo(Bidding(g, p), Lower(g, p), Bidding(g, 0), Orders)
  BY <1>5 DEF AddUpTo
<1>8. QED
  BY <1>3, <1>6, <1>7

LEMMA WeighsSplit ==
  ASSUME NEW g, NEW p \in U64, NEW o \in Seq(Orders)
  PROVE  /\ Weigh(o, Offering(g, MaxU64)) = Weigh(o, Offering(g, p)) + Weigh(o, Dearer(g, p))
         /\ Weigh(o, Bidding(g, 0)) = Weigh(o, Bidding(g, p)) + Weigh(o, Lower(g, p))
<1>1. p \in Nat /\ MaxU64 \in Nat
  BY U64IsFinite
<1>2. PICK m \in [Orders -> Nat] : m = Offering(g, MaxU64)
  BY <1>1, MeasuresType
<1>3. PICK l \in [Orders -> Nat] : l = Offering(g, p)
  BY <1>1, MeasuresType
<1>4. PICK h \in [Orders -> Nat] : h = Dearer(g, p)
  BY MeasuresSplit
<1>5. Splits(m, l, h, Orders)
  BY <1>2, <1>3, <1>4, MeasuresSplit DEF Splits
<1>6. Weigh(o, m) = Weigh(o, l) + Weigh(o, h)
  BY <1>5, WeighsBoth
<1>7. PICK b \in [Orders -> Nat] : b = Bidding(g, 0)
  BY <1>1, MeasuresType
<1>8. PICK c \in [Orders -> Nat] : c = Bidding(g, p)
  BY <1>1, MeasuresType
<1>9. PICK d \in [Orders -> Nat] : d = Lower(g, p)
  BY MeasuresSplit
<1>10. Splits(b, c, d, Orders)
  BY <1>7, <1>8, <1>9, MeasuresSplit DEF Splits
<1>11. Weigh(o, b) = Weigh(o, c) + Weigh(o, d)
  BY <1>10, WeighsBoth
<1>12. QED
  BY <1>2, <1>3, <1>4, <1>6, <1>7, <1>8, <1>9, <1>11

(* No trade is dearer than the widest number.                              *)
LEMMA NothingAboveTheWidth ==
  ASSUME trades \in Seq(Executions), NEW g
  PROVE  Weigh(trades, MovingAbove(g, MaxU64)) = 0
<1>1. PICK m \in [Executions -> Nat] : m = MovingAbove(g, MaxU64)
  BY U64IsFinite, MeasuresType
<1>2. ASSUME NEW t \in Executions PROVE m[t] = 0
  <2>1. ~(t.unit > MaxU64)
    BY U64IsFinite DEF Executions, U64
  <2>2. QED
    BY <1>1, <2>1 DEF MovingAbove
<1>3. \A k \in 1 .. Len(trades) : m[trades[k]] = 0
  BY <1>2
<1>4. Weigh(trades, m) = 0
  BY <1>3, WeighsNothing
<1>5. QED
  BY <1>1, <1>4

UntouchedAbove(g, p, os) == \A k \in 1 .. Len(sells) : sells[k].good = g /\ sells[k].limit > p => sells[k] = os[k]

LEMMA UntouchedOffers ==
  ASSUME OrdersTypeOK, NEW ob \in SortedBids, NEW os \in SortedOffers, Matching(ob, os),
         NEW g \in Good, NEW p \in U64, UntouchedAbove(g, p, os)
  PROVE  Weigh(trades, Moving(g)) + Weigh(sells, Offering(g, p)) = Weigh(os, Offering(g, p))
<1>1. /\ trades \in Seq(Executions) /\ sells \in Seq(Orders) /\ os \in Seq(Orders) /\ LeftOf(sells, os)
  BY OffersAre DEF OrdersTypeOK, Matching
<1>2. p \in Nat /\ MaxU64 \in Nat /\ MaxU64 \in U64
  BY U64IsFinite DEF U64
<1>3. PICK h \in [Orders -> Nat] : h = Dearer(g, p)
  BY MeasuresSplit
<1>4. Weigh(sells, h) = Weigh(os, h)
  <2>1. ASSUME NEW k \in 1 .. Len(os) PROVE h[sells[k]] = h[os[k]]
    <3>1. /\ k \in 1 .. Len(sells) /\ sells[k] \in Orders /\ os[k] \in Orders
          /\ sells[k].good = os[k].good /\ sells[k].limit = os[k].limit
      BY <1>1 DEF LeftOf
    <3>2. CASE sells[k].good = g /\ sells[k].limit > p
      BY <3>1, <3>2 DEF UntouchedAbove
    <3>3. CASE ~(sells[k].good = g /\ sells[k].limit > p)
      BY <1>3, <3>1, <3>3 DEF Dearer
    <3>4. QED
      BY <3>2, <3>3
  <2>2. Len(sells) = Len(os)
    BY <1>1 DEF LeftOf
  <2>3. QED
    BY <1>1, <2>1, <2>2, WeighsAlike
<1>5. PICK c \in Nat : c = Weigh(trades, Moving(g))
  BY <1>1, <1>2, WeighIsNat
<1>6. PICK x \in Nat : x = Weigh(sells, Offering(g, p))
  BY <1>1, <1>2, WeighIsNat
<1>7. PICK y \in Nat : y = Weigh(os, Offering(g, p))
  BY <1>1, <1>2, WeighIsNat
<1>8. PICK z \in Nat : z = Weigh(sells, h)
  BY <1>1, WeightsType
<1>9. Weigh(trades, MovingAbove(g, MaxU64)) + Weigh(os, Offering(g, MaxU64))
        = Weigh(trades, Moving(g)) + Weigh(sells, Offering(g, MaxU64))
  BY <1>2 DEF Matching, SellsBalance
<1>10. Weigh(os, Offering(g, MaxU64)) = y + z /\ Weigh(sells, Offering(g, MaxU64)) = x + z
  BY <1>1, <1>3, <1>4, <1>6, <1>7, <1>8, WeighsSplit
<1>11. 0 + (y + z) = c + (x + z)
  BY <1>1, <1>5, <1>9, <1>10, NothingAboveTheWidth
<1>12. c + x = y
  BY <1>11
<1>13. QED
  BY <1>5, <1>6, <1>7, <1>12

UntouchedBelow(g, p, ob) == \A k \in 1 .. Len(buys) : buys[k].good = g /\ buys[k].limit < p => buys[k] = ob[k]

LEMMA UntouchedBids ==
  ASSUME OrdersTypeOK, NEW ob \in SortedBids, NEW os \in SortedOffers, Matching(ob, os),
         NEW g \in Good, NEW p \in U64, UntouchedBelow(g, p, ob)
  PROVE  Weigh(trades, Moving(g)) + Weigh(buys, Bidding(g, p)) = Weigh(ob, Bidding(g, p))
<1>1. /\ trades \in Seq(Executions) /\ buys \in Seq(Orders) /\ ob \in Seq(Orders) /\ LeftOf(buys, ob)
  BY BidsAre DEF OrdersTypeOK, Matching
<1>2. p \in Nat
  BY U64IsFinite
<1>3. PICK h \in [Orders -> Nat] : h = Lower(g, p)
  BY MeasuresSplit
<1>4. Weigh(buys, h) = Weigh(ob, h)
  <2>1. ASSUME NEW k \in 1 .. Len(ob) PROVE h[buys[k]] = h[ob[k]]
    <3>1. /\ k \in 1 .. Len(buys) /\ buys[k] \in Orders /\ ob[k] \in Orders
          /\ buys[k].good = ob[k].good /\ buys[k].limit = ob[k].limit
      BY <1>1 DEF LeftOf
    <3>2. CASE buys[k].good = g /\ buys[k].limit < p
      BY <3>1, <3>2 DEF UntouchedBelow
    <3>3. CASE ~(buys[k].good = g /\ buys[k].limit < p)
      BY <1>3, <3>1, <3>3 DEF Lower
    <3>4. QED
      BY <3>2, <3>3
  <2>2. Len(buys) = Len(ob)
    BY <1>1 DEF LeftOf
  <2>3. QED
    BY <1>1, <2>1, <2>2, WeighsAlike
<1>5. PICK c \in Nat : c = Weigh(trades, Moving(g))
  BY <1>1, <1>2, WeighIsNat
<1>6. PICK x \in Nat : x = Weigh(buys, Bidding(g, p))
  BY <1>1, <1>2, WeighIsNat
<1>7. PICK y \in Nat : y = Weigh(ob, Bidding(g, p))
  BY <1>1, <1>2, WeighIsNat
<1>8. PICK z \in Nat : z = Weigh(buys, h)
  BY <1>1, WeightsType
<1>9. Weigh(trades, Moving(g)) + Weigh(buys, Bidding(g, 0)) = Weigh(ob, Bidding(g, 0))
  BY DEF Matching, BuysBalance
<1>10. Weigh(ob, Bidding(g, 0)) = y + z /\ Weigh(buys, Bidding(g, 0)) = x + z
  BY <1>1, <1>3, <1>4, <1>6, <1>7, <1>8, WeighsSplit
<1>11. c + (x + z) = y + z
  BY <1>5, <1>9, <1>10
<1>12. c + x = y
  BY <1>11
<1>13. QED
  BY <1>5, <1>6, <1>7, <1>12

(* The bids that have traded are the dearest of their resource, the offers *)
(* the cheapest.                                                           *)
LEMMA PairIsMarginal ==
  ASSUME OrdersTypeOK, NEW ob \in SortedBids, NEW os \in SortedOffers, Matching(ob, os),
         NEW i, NEW j, NEW bid, NEW offer, NEW q, Meeting(i, j, bid, offer, q)
  PROVE  UntouchedBelow(bid.good, bid.limit, ob) /\ UntouchedAbove(bid.good, bid.limit, os)
<1>1. /\ i = at.buy /\ i \in 1 .. Len(buys) /\ bid = buys[i] /\ bid \in Orders
      /\ j \in 1 .. Len(sells) /\ offer = sells[j] /\ offer \in Orders
      /\ offer.good = bid.good /\ offer.limit <= bid.limit /\ Meet(bid, offer)
  BY DEF Meeting
<1>2. buys \in Seq(Orders) /\ sells \in Seq(Orders) /\ LeftOf(buys, ob) /\ BidsInTurn(ob) /\ CheapestFirst(os)
  BY DEF OrdersTypeOK, Matching
<1>3. /\ ob \in Seq(Orders) /\ Len(ob) = Len(buys)
      /\ \A k, l \in 1 .. Len(ob) : k < l => ob[l].limit <= ob[k].limit
  BY <1>2, BidsAre DEF OrdersTypeOK, LeftOf
<1>4. bid.limit \in Nat /\ offer.limit \in Nat
  BY <1>1, OrderFields
<1>5. ASSUME NEW k \in 1 .. Len(buys), buys[k].good = bid.good, buys[k].limit < bid.limit
      PROVE  buys[k] = ob[k]
  <2>1. buys[k] \in Orders
    BY <1>2
  <2>2. buys[k].limit \in Nat
    BY <2>1, OrderFields
  <2>3. ob[k].limit = buys[k].limit /\ ob[i].limit = bid.limit
    BY <1>1, <1>2 DEF LeftOf
  <2>4. ~(k < i)
    BY <1>1, <1>3, <1>4, <1>5, <2>2, <2>3
  <2>5. k # i
    BY <1>1, <1>4, <1>5
  <2>6. k > at.buy
    BY <1>1, <2>4, <2>5
  <2>7. QED
    BY <1>2, <2>6 DEF BidsInTurn
<1>6. ASSUME NEW k \in 1 .. Len(sells), sells[k].good = bid.good, sells[k].limit > bid.limit
      PROVE  sells[k] = os[k]
  <2>1. sells[k] \in Orders
    BY <1>2
  <2>2. sells[k].limit \in Nat
    BY <2>1, OrderFields
  <2>3. sells[j].limit < sells[k].limit /\ sells[j].good = sells[k].good
    BY <1>1, <1>4, <1>6, <2>2
  <2>4. sells[j].quantity # 0
    BY <1>1, OrderFields DEF Meet
  <2>5. j \in DOMAIN sells /\ k \in DOMAIN sells
    BY <1>1, <1>2
  <2>6. QED
    BY <1>2, <2>3, <2>4, <2>5 DEF CheapestFirst
<1>7. QED
  BY <1>5, <1>6 DEF UntouchedBelow, UntouchedAbove

LEMMA MarginalKept ==
  ASSUME OrdersTypeOK, NEW ob \in SortedBids, NEW os \in SortedOffers, Matching(ob, os),
         NEW i, NEW j, NEW bid, NEW offer, NEW q, NEW e,
         Meeting(i, j, bid, offer, q), Moved(i, j, bid, offer, q, e), NEW g \in Good
  PROVE  \E p \in U64 : Marginal(g, p, ob, os)'
<1>1. /\ bid \in Orders /\ offer \in Orders /\ bid.good \in Good /\ offer.limit <= bid.limit /\ q \in Nat
  BY DEF Meeting
<1>2. PICK p \in U64 : /\ Weigh(trades, Moving(g)) + Weigh(buys, Bidding(g, p)) = Weigh(ob, Bidding(g, p))
                       /\ Weigh(trades, Moving(g)) + Weigh(sells, Offering(g, p)) = Weigh(os, Offering(g, p))
                       /\ bid.good = g => p = bid.limit
  <2>1. CASE bid.good = g
    <3>1. PICK p \in U64 : p = bid.limit
      BY <1>1, OrderFields
    <3>2. UntouchedBelow(g, p, ob) /\ UntouchedAbove(g, p, os)
      BY <2>1, <3>1, PairIsMarginal
    <3>3. Weigh(trades, Moving(g)) + Weigh(buys, Bidding(g, p)) = Weigh(ob, Bidding(g, p))
      BY <3>2, UntouchedBids
    <3>4. Weigh(trades, Moving(g)) + Weigh(sells, Offering(g, p)) = Weigh(os, Offering(g, p))
      BY <3>2, UntouchedOffers
    <3>5. QED
      BY <3>1, <3>3, <3>4
  <2>2. CASE bid.good # g
    <3>1. PICK p \in U64 : Marginal(g, p, ob, os)
      BY DEF Matching
    <3>2. QED
      BY <2>2, <3>1 DEF Marginal
  <2>3. QED
    BY <2>1, <2>2
<1>3. p \in Nat /\ bid.limit \in Nat /\ offer.limit \in Nat
  BY <1>1, OrderFields, U64IsFinite
<1>4. PICK c \in Nat : c = Weigh(trades, Moving(g))
  BY <1>3, MovedTypes, WeighIsNat
<1>5. PICK x \in Nat : x = Weigh(buys, Bidding(g, p))
  BY <1>3, MovedTypes, WeighIsNat
<1>6. PICK y \in Nat : y = Weigh(sells, Offering(g, p))
  BY <1>3, MovedTypes, WeighIsNat
<1>7. PICK xx \in Nat : xx = Weigh(buys', Bidding(g, p))
  BY <1>3, MovedTypes, WeighIsNat
<1>8. PICK yy \in Nat : yy = Weigh(sells', Offering(g, p))
  BY <1>3, MovedTypes, WeighIsNat
<1>9. Weigh(trades', Moving(g)) = c + (IF bid.good = g THEN q ELSE 0)
  BY <1>4, TradesAdd
<1>10. xx + (IF bid.good = g /\ bid.limit >= p THEN q ELSE 0) = x
  BY <1>3, <1>5, <1>7, OrdersWeigh
<1>11. yy + (IF bid.good = g /\ offer.limit <= p THEN q ELSE 0) = y
  BY <1>3, <1>6, <1>8, OrdersWeigh
<1>12. PICK n \in Nat : n = (IF bid.good = g THEN q ELSE 0)
  BY <1>1
<1>13. (IF bid.good = g /\ bid.limit >= p THEN q ELSE 0) = n /\ (IF bid.good = g /\ offer.limit <= p THEN q ELSE 0) = n
  BY <1>1, <1>2, <1>3, <1>12
<1>14. (c + n) + xx = c + x /\ (c + n) + yy = c + y
  BY <1>10, <1>11, <1>13
<1>15. Weigh(trades', Moving(g)) = c + n
  BY <1>9, <1>12
<1>16. Marginal(g, p, ob, os)'
  BY <1>2, <1>4, <1>5, <1>6, <1>7, <1>8, <1>14, <1>15 DEF Marginal
<1>17. QED
  BY <1>16

LEMMA PaidByPriceKept ==
  ASSUME OrdersTypeOK, NEW ob \in SortedBids, NEW os \in SortedOffers, Matching(ob, os),
         NEW i, NEW j, NEW bid, NEW offer, NEW q, NEW e,
         Meeting(i, j, bid, offer, q), Moved(i, j, bid, offer, q, e), NEW g \in Good
  PROVE  PaidByPrice(g)'
<1>1. offer \in Orders /\ q \in Nat
  BY DEF Meeting
<1>2. PICK u \in U64 : u = offer.limit
  BY <1>1, OrderFields
<1>3. \A p \in U64 : p \in Nat
  BY U64IsFinite
<1>4. u \in Nat
  BY <1>3
<1>5. PICK n \in Nat : n = (IF bid.good = g THEN q ELSE 0)
  BY <1>1
<1>6. Weigh(trades, Paying(g)) = Sum([p \in U64 |-> Weigh(trades, MovingAbove(g, p))])
  BY DEF Matching, PaidByPrice
<1>7. PICK w : w = [p \in U64 |-> Weigh(trades, MovingAbove(g, p))]
  OBVIOUS
<1>8. PICK v : v = [p \in U64 |-> IF p < u THEN n ELSE 0]
  OBVIOUS
<1>9. PICK x : x = [p \in U64 |-> Weigh(trades', MovingAbove(g, p))]
  OBVIOUS
<1>10. w \in [U64 -> Nat] /\ x \in [U64 -> Nat]
  BY <1>3, <1>7, <1>9, MovedTypes, WeighIsNat
<1>11. v \in [U64 -> Nat]
  BY <1>8
<1>12. ASSUME NEW p \in U64 PROVE x[p] = w[p] + v[p]
  <2>1. Weigh(trades', MovingAbove(g, p)) = Weigh(trades, MovingAbove(g, p)) + (IF bid.good = g /\ offer.limit > p THEN q ELSE 0)
    BY <1>3, TradesWeigh
  <2>2. (IF bid.good = g /\ offer.limit > p THEN q ELSE 0) = v[p]
    BY <1>2, <1>3, <1>4, <1>5, <1>8
  <2>3. QED
    BY <1>7, <1>9, <2>1, <2>2
<1>13. AddUpTo(w, v, x, U64)
  BY <1>12 DEF AddUpTo
<1>14. Sum(x) = Sum(w) + Sum(v)
  <2>1. IsFiniteSet(U64)
    BY U64IsFinite
  <2>2. QED
    BY ONLY <1>10, <1>11, <1>13, <2>1, SumOfBoth
<1>15. Sum(v) = n * u
  BY <1>8, SumBelow
<1>16. Weigh(trades', Paying(g)) = Weigh(trades, Paying(g)) + (IF bid.good = g THEN q * offer.limit ELSE 0)
  BY TradesAdd
<1>17. (IF bid.good = g THEN q * offer.limit ELSE 0) = n * u
  <2>1. 0 * u = 0
    BY <1>4
  <2>2. QED
    BY <1>2, <1>5, <2>1
<1>18. Weigh(trades', Paying(g)) = Sum(x)
  BY <1>6, <1>7, <1>14, <1>15, <1>16, <1>17
<1>19. QED
  BY <1>9, <1>18 DEF PaidByPrice

(* The orders after a trade, place by place.                               *)
LEMMA OrdersAfter ==
  ASSUME OrdersTypeOK, NEW i, NEW j, NEW bid, NEW offer, NEW q, NEW e,
         Meeting(i, j, bid, offer, q), Moved(i, j, bid, offer, q, e)
  PROVE  /\ \A k \in 1 .. Len(buys) :
              /\ k # i => buys'[k] = buys[k]
              /\ buys'[k].good = buys[k].good /\ buys'[k].limit = buys[k].limit
              /\ buys'[k].quantity <= buys[k].quantity
         /\ \A k \in 1 .. Len(sells) :
              /\ k # j => sells'[k] = sells[k]
              /\ sells'[k].good = sells[k].good /\ sells'[k].limit = sells[k].limit
              /\ sells'[k].quantity <= sells[k].quantity
         /\ buys'[i].quantity = 0 \/ sells'[j].quantity = 0
<1>1. /\ i \in 1 .. Len(buys) /\ bid = buys[i] /\ bid \in Orders
      /\ j \in 1 .. Len(sells) /\ offer = sells[j] /\ offer \in Orders /\ offer.good = bid.good
      /\ q \in Nat /\ q <= bid.quantity /\ q <= offer.quantity /\ (q = bid.quantity \/ q = offer.quantity)
  BY DEF Meeting
<1>2. /\ buys' = [buys EXCEPT ![i] = Less(bid, q)] /\ sells' = [sells EXCEPT ![j] = Less(offer, q)]
      /\ Less(bid, q).good = bid.good /\ Less(bid, q).limit = bid.limit /\ Less(bid, q).quantity = bid.quantity - q
      /\ Less(offer, q).good = bid.good /\ Less(offer, q).limit = offer.limit
      /\ Less(offer, q).quantity = offer.quantity - q
  BY DEF Moved
<1>3. buys \in Seq(Orders) /\ sells \in Seq(Orders)
  BY DEF OrdersTypeOK
<1>4. bid.quantity \in Nat /\ offer.quantity \in Nat
  BY <1>1, OrderFields
<1>5. ASSUME NEW k \in 1 .. Len(buys)
      PROVE  /\ k # i => buys'[k] = buys[k]
             /\ buys'[k].good = buys[k].good /\ buys'[k].limit = buys[k].limit
             /\ buys'[k].quantity <= buys[k].quantity
  <2>1. buys'[k] = IF k = i THEN Less(bid, q) ELSE buys[k]
    BY <1>2, <1>3
  <2>2. buys[k] \in Orders
    BY <1>3
  <2>3. buys[k].quantity \in Nat
    BY <2>2, OrderFields
  <2>4. CASE k = i
    BY <1>1, <1>2, <1>4, <2>1, <2>4
  <2>5. CASE k # i
    BY <2>1, <2>3, <2>5
  <2>6. QED
    BY <2>4, <2>5
<1>6. ASSUME NEW k \in 1 .. Len(sells)
      PROVE  /\ k # j => sells'[k] = sells[k]
             /\ sells'[k].good = sells[k].good /\ sells'[k].limit = sells[k].limit
             /\ sells'[k].quantity <= sells[k].quantity
  <2>1. sells'[k] = IF k = j THEN Less(offer, q) ELSE sells[k]
    BY <1>2, <1>3
  <2>2. sells[k] \in Orders
    BY <1>3
  <2>3. sells[k].quantity \in Nat
    BY <2>2, OrderFields
  <2>4. CASE k = j
    BY <1>1, <1>2, <1>4, <2>1, <2>4
  <2>5. CASE k # j
    BY <2>1, <2>3, <2>5
  <2>6. QED
    BY <2>4, <2>5
<1>7. buys'[i].quantity = 0 \/ sells'[j].quantity = 0
  <2>1. buys'[i] = Less(bid, q) /\ sells'[j] = Less(offer, q)
    BY <1>1, <1>2, <1>3
  <2>2. QED
    BY <1>1, <1>2, <1>4, <2>1
<1>8. QED
  BY <1>5, <1>6, <1>7

LEMMA LeftOfKept ==
  ASSUME OrdersTypeOK, NEW ob \in SortedBids, NEW os \in SortedOffers, Matching(ob, os),
         NEW i, NEW j, NEW bid, NEW offer, NEW q, NEW e,
         Meeting(i, j, bid, offer, q), Moved(i, j, bid, offer, q, e)
  PROVE  LeftOf(buys', ob) /\ LeftOf(sells', os) /\ BidsInTurn(ob)'
<1>1. LeftOf(buys, ob) /\ LeftOf(sells, os) /\ BidsInTurn(ob)
  BY DEF Matching
<1>2. /\ buys \in Seq(Orders) /\ buys' \in Seq(Orders) /\ Len(buys') = Len(buys)
      /\ sells \in Seq(Orders) /\ sells' \in Seq(Orders) /\ Len(sells') = Len(sells)
  BY MovedTypes
<1>3. ob \in Seq(Orders) /\ os \in Seq(Orders)
  BY BidsAre, OffersAre DEF OrdersTypeOK
<1>4. LeftOf(buys', ob)
  <2>1. ASSUME NEW k \in 1 .. Len(buys) PROVE buys'[k].quantity <= ob[k].quantity
    <3>1. buys'[k].quantity <= buys[k].quantity /\ buys[k].quantity <= ob[k].quantity
      BY <1>1, OrdersAfter DEF LeftOf
    <3>2. buys[k] \in Orders /\ buys'[k] \in Orders /\ ob[k] \in Orders
      BY <1>1, <1>2, <1>3 DEF LeftOf
    <3>3. buys[k].quantity \in Nat /\ buys'[k].quantity \in Nat /\ ob[k].quantity \in Nat
      BY <3>2, OrderFields
    <3>4. QED
      BY <3>1, <3>3
  <2>2. \A k \in 1 .. Len(buys) : buys'[k].good = ob[k].good /\ buys'[k].limit = ob[k].limit
    BY <1>1, OrdersAfter DEF LeftOf
  <2>3. QED
    BY <1>1, <1>2, <2>1, <2>2 DEF LeftOf
<1>5. LeftOf(sells', os)
  <2>1. ASSUME NEW k \in 1 .. Len(sells) PROVE sells'[k].quantity <= os[k].quantity
    <3>1. sells'[k].quantity <= sells[k].quantity /\ sells[k].quantity <= os[k].quantity
      BY <1>1, OrdersAfter DEF LeftOf
    <3>2. sells[k] \in Orders /\ sells'[k] \in Orders /\ os[k] \in Orders
      BY <1>1, <1>2, <1>3 DEF LeftOf
    <3>3. sells[k].quantity \in Nat /\ sells'[k].quantity \in Nat /\ os[k].quantity \in Nat
      BY <3>2, OrderFields
    <3>4. QED
      BY <3>1, <3>3
  <2>2. \A k \in 1 .. Len(sells) : sells'[k].good = os[k].good /\ sells'[k].limit = os[k].limit
    BY <1>1, OrdersAfter DEF LeftOf
  <2>3. QED
    BY <1>1, <1>2, <2>1, <2>2 DEF LeftOf
<1>6. BidsInTurn(ob)'
  <2>1. i = at.buy /\ at'.buy = at.buy /\ at.buy \in Nat
    BY <1>2 DEF Meeting, Moved, OrdersTypeOK
  <2>2. DOMAIN buys' = 1 .. Len(buys) /\ DOMAIN buys = 1 .. Len(buys)
    BY <1>2
  <2>3. ASSUME NEW k \in 1 .. Len(buys), k > at.buy PROVE buys'[k] = ob[k]
    <3>1. k # i
      BY <2>1, <2>3
    <3>2. buys'[k] = buys[k]
      BY <3>1, OrdersAfter
    <3>3. QED
      BY <1>1, <2>2, <2>3, <3>2 DEF BidsInTurn
  <2>4. QED
    BY <2>1, <2>2, <2>3 DEF BidsInTurn
<1>7. QED
  BY <1>4, <1>5, <1>6

LEMMA CheapestFirstKept ==
  ASSUME OrdersTypeOK, SeenPairsAreDone, NEW ob \in SortedBids, NEW os \in SortedOffers, Matching(ob, os),
         NEW i, NEW j, NEW bid, NEW offer, NEW q, NEW e,
         Meeting(i, j, bid, offer, q), Moved(i, j, bid, offer, q, e)
  PROVE  CheapestFirst(os)'
<1>1. /\ i = at.buy /\ j = at.sell /\ i \in 1 .. Len(buys) /\ j \in 1 .. Len(sells)
      /\ bid = buys[i] /\ offer = sells[j] /\ bid \in Orders /\ offer \in Orders
      /\ offer.good = bid.good /\ offer.limit <= bid.limit /\ Meet(bid, offer)
  BY DEF Meeting
<1>2. /\ sells \in Seq(Orders) /\ sells' \in Seq(Orders) /\ DOMAIN sells' = 1 .. Len(sells)
      /\ DOMAIN sells = 1 .. Len(sells) /\ DOMAIN buys = 1 .. Len(buys)
  BY MovedTypes
<1>3. os \in Seq(Orders) /\ \A k, l \in 1 .. Len(os) : k < l => os[k].limit <= os[l].limit
  BY OffersAre DEF OrdersTypeOK
<1>4. LeftOf(sells, os) /\ CheapestFirst(os)
  BY DEF Matching
<1>5. SUFFICES ASSUME NEW l \in 1 .. Len(sells), NEW k \in 1 .. Len(sells), sells'[k] # os[k],
                      sells'[l].good = sells'[k].good, sells'[l].limit < sells'[k].limit
               PROVE  sells'[l].quantity = 0
  BY <1>2 DEF CheapestFirst
<1>6. /\ sells[l] \in Orders /\ sells[k] \in Orders /\ sells'[l] \in Orders
      /\ sells[l].good = sells[k].good /\ sells[l].limit < sells[k].limit
      /\ sells'[l].quantity <= sells[l].quantity
  BY <1>2, <1>5, OrdersAfter
<1>7. /\ sells[l].quantity \in Nat /\ sells'[l].quantity \in Nat /\ sells[l].limit \in Nat /\ sells[k].limit \in Nat
      /\ bid.quantity \in Nat /\ bid.limit \in Nat /\ offer.limit \in Nat
  BY <1>1, <1>6, OrderFields
<1>8. sells[l].quantity = 0
  <2>1. CASE k # j
    <3>1. sells[k] # os[k]
      BY <1>5, <2>1, OrdersAfter
    <3>2. QED
      BY <1>2, <1>4, <1>6, <3>1 DEF CheapestFirst
  <2>2. CASE k = j
    <3>1. os[l].limit = sells[l].limit /\ os[j].limit = sells[j].limit /\ Len(os) = Len(sells)
      BY <1>1, <1>4 DEF LeftOf
    <3>2. ~(j < l)
      BY <1>1, <1>3, <1>6, <1>7, <2>2, <3>1
    <3>3. l # j
      BY <1>6, <1>7, <2>2
    <3>4. l < at.sell
      BY <1>1, <3>2, <3>3
    <3>5. ~Meet(bid, sells[l])
      BY <1>1, <1>2, <3>4 DEF SeenPairsAreDone
    <3>6. sells[l].good = bid.good /\ sells[l].limit <= bid.limit /\ bid.quantity > 0
      BY <1>1, <1>6, <1>7, <2>2 DEF Meet
    <3>7. QED
      BY <1>7, <3>5, <3>6 DEF Meet
  <2>3. QED
    BY <2>1, <2>2
<1>9. QED
  BY <1>6, <1>7, <1>8

LEMMA SeenPairsKept ==
  ASSUME OrdersTypeOK, SeenPairsAreDone, NEW i, NEW j, NEW bid, NEW offer, NEW q, NEW e,
         Meeting(i, j, bid, offer, q), Moved(i, j, bid, offer, q, e)
  PROVE  SeenPairsAreDone'
<1>1. i = at.buy /\ j = at.sell /\ i \in 1 .. Len(buys) /\ j \in 1 .. Len(sells)
  BY DEF Meeting
<1>2. /\ buys \in Seq(Orders) /\ buys' \in Seq(Orders) /\ DOMAIN buys' = 1 .. Len(buys) /\ DOMAIN buys = 1 .. Len(buys)
      /\ sells \in Seq(Orders) /\ sells' \in Seq(Orders) /\ DOMAIN sells' = 1 .. Len(sells) /\ DOMAIN sells = 1 .. Len(sells)
  BY MovedTypes
<1>3. at'.buy = i /\ at'.sell = j + 1
  BY <1>1 DEF Moved, OrdersTypeOK
<1>4. SUFFICES ASSUME NEW k \in 1 .. Len(buys), NEW l \in 1 .. Len(sells), k < i \/ (k = i /\ l < j + 1),
                      Meet(buys'[k], sells'[l])
               PROVE  FALSE
  BY <1>2, <1>3 DEF SeenPairsAreDone
<1>5. /\ buys'[k].good = buys[k].good /\ buys'[k].limit = buys[k].limit /\ buys'[k].quantity <= buys[k].quantity
      /\ sells'[l].good = sells[l].good /\ sells'[l].limit = sells[l].limit /\ sells'[l].quantity <= sells[l].quantity
      /\ buys'[i].quantity = 0 \/ sells'[j].quantity = 0
  BY OrdersAfter
<1>6. buys[k] \in Orders /\ buys'[k] \in Orders /\ sells[l] \in Orders /\ sells'[l] \in Orders
  BY <1>2
<1>7. buys[k].quantity \in Nat /\ buys'[k].quantity \in Nat /\ sells[l].quantity \in Nat /\ sells'[l].quantity \in Nat
  BY <1>6, OrderFields
<1>8. Meet(buys[k], sells[l])
  <2>1. /\ buys'[k].quantity > 0 /\ sells'[l].quantity > 0 /\ buys'[k].good = sells'[l].good
        /\ buys'[k].limit >= sells'[l].limit
    BY <1>4 DEF Meet
  <2>2. buys[k].quantity > 0
    BY <1>5, <1>7, <2>1
  <2>3. sells[l].quantity > 0
    BY <1>5, <1>7, <2>1
  <2>4. buys[k].good = sells[l].good /\ buys[k].limit >= sells[l].limit
    BY <1>5, <2>1
  <2>5. QED
    BY <2>2, <2>3, <2>4 DEF Meet
<1>9. ~(k < at.buy \/ (k = at.buy /\ l < at.sell))
  BY <1>2, <1>8 DEF SeenPairsAreDone
<1>10. k = i /\ l = j
  BY <1>1, <1>4, <1>9
<1>11. buys'[i].quantity > 0 /\ sells'[j].quantity > 0
  BY <1>4, <1>10 DEF Meet
<1>12. QED
  BY <1>5, <1>7, <1>10, <1>11

(* A bare addition wraps around at most once.                              *)
LEMMA WrapsOn ==
  ASSUME NEW t \in U64, NEW s \in Nat, WrapsTo(t, s), NEW n \in U64
  PROVE  WrapsTo(WrapAdd(t, n), s + n) /\ WrapAdd(t, n) \in U64
<1>1. PICK c \in Nat : s = (MaxU64 + 1) * c + t
  BY DEF WrapsTo
<1>2. PICK W \in Nat : W = MaxU64 + 1
  BY U64IsFinite
<1>3. t \in Nat /\ n \in Nat /\ t < W /\ n < W /\ MaxU64 \in Nat
  BY <1>2, U64IsFinite DEF U64
<1>4. PICK a \in Nat : a = W * c
  BY <1>2
<1>5. s = a + t
  BY <1>1, <1>2, <1>4
<1>6. CASE t + n > MaxU64
  <2>1. WrapAdd(t, n) = t + n - W
    BY <1>2, <1>6 DEF WrapAdd
  <2>2. W * (c + 1) = a + W
    BY <1>2, <1>4
  <2>3. PICK x \in Nat : x = t + n - W
    BY <1>2, <1>3, <1>6
  <2>4. s + n = (a + W) + x
    BY <1>3, <1>5, <2>3
  <2>5. x \in U64
    BY <1>2, <1>3, <2>3 DEF U64
  <2>6. s + n = (MaxU64 + 1) * (c + 1) + x
    BY <1>2, <2>2, <2>4
  <2>7. WrapsTo(x, s + n)
    BY <2>6 DEF WrapsTo
  <2>8. QED
    BY <2>1, <2>3, <2>5, <2>7
<1>7. CASE ~(t + n > MaxU64)
  <2>1. WrapAdd(t, n) = t + n
    BY <1>7 DEF WrapAdd
  <2>2. s + n = W * c + (t + n)
    BY <1>3, <1>4, <1>5
  <2>3. t + n \in U64
    BY <1>2, <1>3, <1>7 DEF U64
  <2>4. WrapsTo(t + n, s + n)
    BY <1>2, <2>2 DEF WrapsTo
  <2>5. QED
    BY <2>1, <2>3, <2>4
<1>8. QED
  BY <1>6, <1>7

LEMMA TotalsKept ==
  ASSUME OrdersTypeOK, TotalsTold, NEW i, NEW j, NEW bid, NEW offer, NEW q, NEW e,
         Meeting(i, j, bid, offer, q), Moved(i, j, bid, offer, q, e)
  PROVE  TotalsTold' /\ totals' \in [quantity : U64, value : U64]
<1>1. bid \in Orders /\ offer \in Orders /\ bid.good \in Good /\ q \in Nat /\ q * offer.limit \in U64 /\ q <= bid.quantity
  BY DEF Meeting
<1>2. q \in U64
  <2>1. PICK m \in Nat : m = bid.quantity /\ m <= MaxU64
    BY <1>1, OrderFields
  <2>2. QED
    BY <1>1, <2>1, U64IsFinite DEF U64
<1>3. PICK n \in U64 : n = q * offer.limit
  BY <1>1
<1>4. PICK t \in U64 : t = totals.quantity
  BY DEF OrdersTypeOK
<1>5. PICK v \in U64 : v = totals.value
  BY DEF OrdersTypeOK
<1>6. totals' = [quantity |-> WrapAdd(t, q), value |-> WrapAdd(v, n)]
  BY <1>3, <1>4, <1>5 DEF Moved
<1>7. PICK good \in Good : good = bid.good
  BY <1>1
<1>8. ASSUME NEW g
      PROVE  /\ Weigh(trades', Moving(g)) = Weigh(trades, Moving(g)) + (IF bid.good = g THEN q ELSE 0)
             /\ Weigh(trades', Paying(g)) = Weigh(trades, Paying(g)) + (IF bid.good = g THEN n ELSE 0)
  BY <1>3, TradesAdd
<1>9. PICK z \in Nat : z = 0
  OBVIOUS
<1>10. ASSUME NEW g
       PROVE  /\ Weigh(trades, Moving(g)) \in Nat /\ Weigh(trades', Moving(g)) \in Nat
              /\ Weigh(trades, Paying(g)) \in Nat /\ Weigh(trades', Paying(g)) \in Nat
  <2>1. Weigh(trades, Moving(g)) \in Nat /\ Weigh(trades, MovingAbove(g, z)) \in Nat /\ Weigh(trades, Paying(g)) \in Nat
    BY MovedTypes, WeighIsNat
  <2>2. Weigh(trades', Moving(g)) \in Nat /\ Weigh(trades', MovingAbove(g, z)) \in Nat /\ Weigh(trades', Paying(g)) \in Nat
    BY MovedTypes, WeighIsNat
  <2>3. QED
    BY <2>1, <2>2
<1>11. WrapsTo(t, Sum([g \in Good |-> Weigh(trades, Moving(g))]))
       /\ WrapsTo(v, Sum([g \in Good |-> Weigh(trades, Paying(g))]))
  BY <1>4, <1>5 DEF TotalsTold
<1>12. Sum([g \in Good |-> Weigh(trades, Moving(g))]) \in Nat
       /\ Sum([g \in Good |-> Weigh(trades', Moving(g))]) = Sum([g \in Good |-> Weigh(trades, Moving(g))]) + q
  <2>1. PICK w : w = [g \in Good |-> Weigh(trades, Moving(g))]
    OBVIOUS
  <2>2. PICK x : x = [g \in Good |-> Weigh(trades', Moving(g))]
    OBVIOUS
  <2> w \in [Good -> Nat] /\ x \in [Good -> Nat]
    BY <1>10, <2>1, <2>2
  <2>3. ASSUME NEW g \in Good, g # good PROVE x[g] = w[g]
    <3>1. Weigh(trades', Moving(g)) = Weigh(trades, Moving(g)) + 0
      BY <1>7, <1>8, <2>3
    <3>2. QED
      BY <1>10, <2>1, <2>2, <3>1
  <2>4. OnlyAt(good, x, w, Good)
    BY <2>3 DEF OnlyAt
  <2>5. x[good] = w[good] + q
    BY <1>7, <1>8, <2>1, <2>2
  <2>6. IsFiniteSet(Good)
    BY OrdersAssumption
  <2>7. Sum(x) + w[good] = Sum(w) + x[good]
    BY <2>4, <2>6, SumMoves
  <2>8. PICK a \in Nat : a = Sum(w)
    BY <2>6, SumIsNat
  <2>9. PICK b \in Nat : b = Sum(x)
    BY <2>6, SumIsNat
  <2>10. PICK c \in Nat : c = w[good]
    OBVIOUS
  <2>11. b + c = a + (c + q)
    BY <2>5, <2>7, <2>8, <2>9, <2>10
  <2>12. b = a + q
    BY <1>1, <2>11
  <2>13. QED
    BY <2>1, <2>2, <2>8, <2>9, <2>12
<1>13. Sum([g \in Good |-> Weigh(trades, Paying(g))]) \in Nat
       /\ Sum([g \in Good |-> Weigh(trades', Paying(g))]) = Sum([g \in Good |-> Weigh(trades, Paying(g))]) + n
  <2>1. PICK w : w = [g \in Good |-> Weigh(trades, Paying(g))]
    OBVIOUS
  <2>2. PICK x : x = [g \in Good |-> Weigh(trades', Paying(g))]
    OBVIOUS
  <2> w \in [Good -> Nat] /\ x \in [Good -> Nat]
    BY <1>10, <2>1, <2>2
  <2>3. ASSUME NEW g \in Good, g # good PROVE x[g] = w[g]
    <3>1. Weigh(trades', Paying(g)) = Weigh(trades, Paying(g)) + 0
      BY <1>7, <1>8, <2>3
    <3>2. QED
      BY <1>10, <2>1, <2>2, <3>1
  <2>4. OnlyAt(good, x, w, Good)
    BY <2>3 DEF OnlyAt
  <2>5. x[good] = w[good] + n
    BY <1>7, <1>8, <2>1, <2>2
  <2>6. IsFiniteSet(Good)
    BY OrdersAssumption
  <2>7. Sum(x) + w[good] = Sum(w) + x[good]
    BY <2>4, <2>6, SumMoves
  <2>8. PICK a \in Nat : a = Sum(w)
    BY <2>6, SumIsNat
  <2>9. PICK b \in Nat : b = Sum(x)
    BY <2>6, SumIsNat
  <2>10. PICK c \in Nat : c = w[good]
    OBVIOUS
  <2>11. PICK m \in Nat : m = n
    BY U64IsFinite
  <2>12. b + c = a + (c + m)
    BY <2>5, <2>7, <2>8, <2>9, <2>10, <2>11
  <2>13. b = a + m
    BY <2>12
  <2>14. QED
    BY <2>1, <2>2, <2>8, <2>9, <2>11, <2>13
<1>14. WrapAdd(t, q) \in U64 /\ WrapsTo(WrapAdd(t, q), Sum([g \in Good |-> Weigh(trades', Moving(g))]))
  <2>1. PICK s \in Nat : s = Sum([g \in Good |-> Weigh(trades, Moving(g))])
    BY <1>12
  <2>2. WrapsTo(t, s)
    BY <1>11, <2>1
  <2>3. WrapsTo(WrapAdd(t, q), s + q) /\ WrapAdd(t, q) \in U64
    BY <1>2, <2>2, WrapsOn
  <2>4. QED
    BY <1>12, <2>1, <2>3
<1>15. WrapAdd(v, n) \in U64 /\ WrapsTo(WrapAdd(v, n), Sum([g \in Good |-> Weigh(trades', Paying(g))]))
  <2>1. PICK s \in Nat : s = Sum([g \in Good |-> Weigh(trades, Paying(g))])
    BY <1>13
  <2>2. WrapsTo(v, s)
    BY <1>11, <2>1
  <2>3. WrapsTo(WrapAdd(v, n), s + n) /\ WrapAdd(v, n) \in U64
    BY <2>2, WrapsOn
  <2>4. QED
    BY <1>13, <2>1, <2>3
<1>16. totals' \in [quantity : U64, value : U64]
  BY <1>6, <1>14, <1>15
<1>17. totals'.quantity = WrapAdd(t, q) /\ totals'.value = WrapAdd(v, n)
  BY <1>6
<1>18. TotalsTold'
  BY <1>14, <1>15, <1>17 DEF TotalsTold
<1>19. QED
  BY <1>16, <1>18

LEMMA TradeKeeps ==
  ASSUME OrdersInv, Trade
  PROVE  OrdersInv'
<1>1. OrdersTypeOK /\ SeenPairsAreDone /\ TotalsTold
  BY DEF OrdersInv
<1>2. PICK ob \in SortedBids : \E os \in SortedOffers : Matching(ob, os)
  BY DEF OrdersInv
<1>3. PICK os \in SortedOffers : Matching(ob, os)
  BY <1>2
<1>4. Looking /\ at.sell \in DOMAIN sells /\ Meet(buys[at.buy], sells[at.sell])
  BY DEF Trade
<1>5. \E i, j, bid, offer, q : Meeting(i, j, bid, offer, q)
  BY <1>1, <1>3, <1>4, PairsFit
<1>6. PICK i, j, bid, offer, q : Meeting(i, j, bid, offer, q)
  BY <1>5
<1>7. PICK e : Moved(i, j, bid, offer, q, e)
  BY <1>1, <1>6, TradeMoves
<1>8. submitted' = submitted /\ at' = [at EXCEPT !.sell = j + 1]
  BY <1>7 DEF Moved
<1>9. SortedBids' = SortedBids /\ SortedOffers' = SortedOffers
  BY <1>8 DEF SortedBids, SortedOffers
<1>10. OrdersTypeOK'
  <2>1. /\ trades' \in Seq(Executions) /\ buys' \in Seq(Orders) /\ Len(buys') = Len(buys)
        /\ sells' \in Seq(Orders) /\ Len(sells') = Len(sells) /\ Len(sells) \in Nat
    BY <1>1, <1>6, <1>7, MovedTypes
  <2>2. totals' \in [quantity : U64, value : U64]
    BY <1>1, <1>6, <1>7, TotalsKept
  <2>3. j \in 1 .. Len(sells) /\ at \in [buy : 1 .. Len(buys) + 1, sell : 1 .. Len(sells) + 1] /\ submitted \in Books
    BY <1>1, <1>6 DEF OrdersTypeOK, Meeting
  <2>4. at' \in [buy : 1 .. Len(buys) + 1, sell : 1 .. Len(sells) + 1]
    BY <1>8, <2>1, <2>3
  <2>5. QED
    BY <1>8, <2>1, <2>2, <2>3, <2>4 DEF OrdersTypeOK
<1>11. SeenPairsAreDone'
  BY <1>1, <1>6, <1>7, SeenPairsKept
<1>12. TotalsTold'
  BY <1>1, <1>6, <1>7, TotalsKept
<1>13. LeftOf(buys', ob) /\ LeftOf(sells', os) /\ BidsInTurn(ob)'
  BY <1>1, <1>3, <1>6, <1>7, LeftOfKept
<1>14. CheapestFirst(os)'
  BY <1>1, <1>3, <1>6, <1>7, CheapestFirstKept
<1>15. ASSUME NEW g \in Good
       PROVE  SellsBalance(g, os)' /\ BuysBalance(g, ob)' /\ PaidByPrice(g)' /\ \E p \in U64 : Marginal(g, p, ob, os)'
  <2>1. SellsBalance(g, os)'
    BY <1>1, <1>3, <1>6, <1>7, SellsBalanceKept
  <2>2. BuysBalance(g, ob)'
    BY <1>1, <1>3, <1>6, <1>7, BuysBalanceKept
  <2>3. PaidByPrice(g)'
    BY <1>1, <1>3, <1>6, <1>7, PaidByPriceKept
  <2>4. \E p \in U64 : Marginal(g, p, ob, os)'
    BY <1>1, <1>3, <1>6, <1>7, MarginalKept
  <2>5. QED
    BY <2>1, <2>2, <2>3, <2>4
<1>16. Matching(ob, os)'
  BY <1>13, <1>14, <1>15 DEF Matching
<1>17. QED
  BY <1>9, <1>10, <1>11, <1>12, <1>16 DEF OrdersInv

(* The loops going on without a trade: the pair they look at has been      *)
(* seen, and nothing is traded.                                            *)
LEMMA OnlyLooks ==
  ASSUME OrdersInv, UNCHANGED <<submitted, buys, sells, trades, totals>>,
         at' \in [buy : 1 .. Len(buys) + 1, sell : 1 .. Len(sells) + 1], SeenPairsAreDone', at'.buy >= at.buy
  PROVE  OrdersInv'
<1>1. submitted' = submitted /\ buys' = buys /\ sells' = sells /\ trades' = trades /\ totals' = totals
  OBVIOUS
<1>2. OrdersTypeOK /\ TotalsTold
  BY DEF OrdersInv
<1>3. PICK ob \in SortedBids : \E os \in SortedOffers : Matching(ob, os)
  BY DEF OrdersInv
<1>4. PICK os \in SortedOffers : Matching(ob, os)
  BY <1>3
<1>5. OrdersTypeOK'
  BY <1>1, <1>2 DEF OrdersTypeOK
<1>6. TotalsTold'
  BY <1>1, <1>2 DEF TotalsTold
<1>7. SortedBids' = SortedBids /\ SortedOffers' = SortedOffers
  BY <1>1 DEF SortedBids, SortedOffers
<1>8. BidsInTurn(ob)'
  <2>1. BidsInTurn(ob)
    BY <1>4 DEF Matching
  <2>2. at.buy \in Nat /\ at'.buy \in Nat /\ DOMAIN buys \subseteq Nat
    BY <1>2 DEF OrdersTypeOK
  <2>3. ASSUME NEW k \in DOMAIN buys, k > at'.buy PROVE k > at.buy
    BY <2>2, <2>3
  <2>4. QED
    BY <1>1, <2>1, <2>3 DEF BidsInTurn
<1>9. CheapestFirst(os)'
  BY <1>1, <1>4 DEF Matching, CheapestFirst
<1>10. LeftOf(buys', ob) /\ LeftOf(sells', os)
  BY <1>1, <1>4 DEF Matching
<1>11. ASSUME NEW g \in Good
       PROVE  SellsBalance(g, os)' /\ BuysBalance(g, ob)' /\ PaidByPrice(g)' /\ \E p \in U64 : Marginal(g, p, ob, os)'
  <2>1. SellsBalance(g, os) /\ BuysBalance(g, ob) /\ PaidByPrice(g) /\ \E p \in U64 : Marginal(g, p, ob, os)
    BY <1>4 DEF Matching
  <2>2. SellsBalance(g, os)'
    BY <1>1, <2>1 DEF SellsBalance
  <2>3. BuysBalance(g, ob)'
    BY <1>1, <2>1 DEF BuysBalance
  <2>4. PaidByPrice(g)'
    BY <1>1, <2>1 DEF PaidByPrice
  <2>5. \E p \in U64 : Marginal(g, p, ob, os)'
    BY <1>1, <2>1 DEF Marginal
  <2>6. QED
    BY <2>2, <2>3, <2>4, <2>5
<1>12. Matching(ob, os)'
  BY <1>8, <1>9, <1>10, <1>11 DEF Matching
<1>13. QED
  BY <1>5, <1>6, <1>7, <1>12 DEF OrdersInv

LEMMA PassKeeps ==
  ASSUME OrdersInv, Pass
  PROVE  OrdersInv'
<1>1. OrdersTypeOK /\ SeenPairsAreDone
  BY DEF OrdersInv
<1>2. PICK ob \in SortedBids : \E os \in SortedOffers : Matching(ob, os)
  BY DEF OrdersInv
<1>3. PICK os \in SortedOffers : Matching(ob, os)
  BY <1>2
<1>4. PICK i : i = at.buy
  OBVIOUS
<1>5. PICK j : j = at.sell
  OBVIOUS
<1>6. /\ Looking /\ j \in DOMAIN sells /\ UNCHANGED <<submitted, buys, sells, trades, totals>>
      /\ Meet(buys[i], sells[j]) => TooDear(buys[i], sells[j])
      /\ at' = [at EXCEPT !.sell = j + 1]
  BY <1>4, <1>5 DEF Pass, NextSell
<1>7. ~Meet(buys[i], sells[j])
  BY <1>1, <1>3, <1>4, <1>5, <1>6, PairsFit
<1>8. /\ buys \in Seq(Orders) /\ sells \in Seq(Orders) /\ Len(buys) \in Nat /\ Len(sells) \in Nat
      /\ i \in 1 .. Len(buys) + 1 /\ j \in 1 .. Len(sells)
      /\ at \in [buy : 1 .. Len(buys) + 1, sell : 1 .. Len(sells) + 1]
  BY <1>1, <1>4, <1>6 DEF OrdersTypeOK
<1>9. at'.buy = i /\ at'.sell = j + 1 /\ at' \in [buy : 1 .. Len(buys) + 1, sell : 1 .. Len(sells) + 1]
  BY <1>4, <1>6, <1>8
<1>10. SeenPairsAreDone'
  <2>1. SUFFICES ASSUME NEW k \in DOMAIN buys, NEW l \in DOMAIN sells, k < i \/ (k = i /\ l < j + 1)
                 PROVE  ~Meet(buys[k], sells[l])
    BY <1>6, <1>9 DEF SeenPairsAreDone
  <2>2. CASE k = i /\ l = j
    BY <1>7, <2>2
  <2>3. CASE ~(k = i /\ l = j)
    <3>1. k < at.buy \/ (k = at.buy /\ l < at.sell)
      BY <1>4, <1>5, <1>8, <2>1, <2>3
    <3>2. QED
      BY <1>1, <3>1 DEF SeenPairsAreDone
  <2>4. QED
    BY <2>2, <2>3
<1>11. at'.buy >= at.buy
  BY <1>4, <1>8, <1>9
<1>12. QED
  BY <1>6, <1>9, <1>10, <1>11, OnlyLooks

LEMMA LeaveBuyKeeps ==
  ASSUME OrdersInv, LeaveBuy
  PROVE  OrdersInv'
<1>1. OrdersTypeOK /\ SeenPairsAreDone
  BY DEF OrdersInv
<1>2. PICK i : i = at.buy
  OBVIOUS
<1>3. PICK j : j = at.sell
  OBVIOUS
<1>4. /\ i \in DOMAIN buys /\ UNCHANGED <<submitted, buys, sells, trades, totals>>
      /\ j \notin DOMAIN sells \/ buys[i].quantity = 0
      /\ at' = [buy |-> i + 1, sell |-> 1]
  BY <1>2, <1>3 DEF LeaveBuy, Looking, NextBuy
<1>5. /\ buys \in Seq(Orders) /\ sells \in Seq(Orders) /\ Len(buys) \in Nat /\ Len(sells) \in Nat
      /\ i \in 1 .. Len(buys) /\ j \in 1 .. Len(sells) + 1
  BY <1>1, <1>2, <1>3, <1>4 DEF OrdersTypeOK
<1>6. at'.buy = i + 1 /\ at'.sell = 1 /\ at' \in [buy : 1 .. Len(buys) + 1, sell : 1 .. Len(sells) + 1]
  BY <1>4, <1>5
<1>7. ASSUME NEW l \in DOMAIN sells PROVE ~Meet(buys[i], sells[l])
  <2>1. CASE j \notin DOMAIN sells
    <3>1. l < j
      BY <1>5, <2>1
    <3>2. QED
      BY <1>1, <1>2, <1>3, <1>4, <3>1 DEF SeenPairsAreDone
  <2>2. CASE buys[i].quantity = 0
    BY <2>2 DEF Meet
  <2>3. QED
    BY <1>4, <2>1, <2>2
<1>8. SeenPairsAreDone'
  <2>1. SUFFICES ASSUME NEW k \in DOMAIN buys, NEW l \in DOMAIN sells, k < i + 1 \/ (k = i + 1 /\ l < 1)
                 PROVE  ~Meet(buys[k], sells[l])
    BY <1>4, <1>6 DEF SeenPairsAreDone
  <2>2. k \in Nat /\ l \in Nat /\ l >= 1
    BY <1>5
  <2>3. k < i \/ k = i
    BY <1>5, <2>1, <2>2
  <2>4. CASE k = i
    BY <1>7, <2>4
  <2>5. CASE k < i
    BY <1>1, <1>2, <2>5 DEF SeenPairsAreDone
  <2>6. QED
    BY <2>3, <2>4, <2>5
<1>9. at'.buy >= at.buy
  BY <1>2, <1>5, <1>6
<1>10. QED
  BY <1>4, <1>6, <1>8, <1>9, OnlyLooks

LEMMA OrdersStep ==
  ASSUME OrdersInv, [OrdersNext]_orderVars
  PROVE  OrdersInv'
<1>1. CASE Trade
  BY <1>1, TradeKeeps
<1>2. CASE Pass
  BY <1>2, PassKeeps
<1>3. CASE LeaveBuy
  BY <1>3, LeaveBuyKeeps
<1>4. CASE UNCHANGED orderVars
  <2>1. UNCHANGED <<submitted, buys, sells, trades, totals>> /\ at' = at
    BY <1>4 DEF orderVars
  <2>2. OrdersTypeOK /\ SeenPairsAreDone
    BY DEF OrdersInv
  <2>3. SeenPairsAreDone'
    BY <2>1, <2>2 DEF SeenPairsAreDone
  <2>4. at \in [buy : 1 .. Len(buys) + 1, sell : 1 .. Len(sells) + 1] /\ at.buy \in Nat
    BY <2>2 DEF OrdersTypeOK
  <2>5. at'.buy >= at.buy
    BY <2>1, <2>4
  <2>6. QED
    BY <2>1, <2>3, <2>4, <2>5, OnlyLooks
<1>5. QED
  BY <1>1, <1>2, <1>3, <1>4 DEF OrdersNext, Idle

-----------------------------------------------------------------------------
(* The market when the call returns.  At no price are both sides left      *)
(* anything.                                                               *)
LEMMA OneSideIsDone ==
  ASSUME OrdersTypeOK, SeenPairsAreDone, Returned, NEW g \in Good, NEW p \in U64
  PROVE  Weigh(buys, Bidding(g, p)) = 0 \/ Weigh(sells, Offering(g, p)) = 0
<1>1. /\ buys \in Seq(Orders) /\ sells \in Seq(Orders) /\ Len(buys) \in Nat /\ p \in Nat
      /\ at.buy \in 1 .. Len(buys) + 1
  BY U64IsFinite DEF OrdersTypeOK
<1>2. at.buy \notin 1 .. Len(buys)
  BY <1>1 DEF Returned, Looking
<1>3. ASSUME NEW k \in 1 .. Len(buys), NEW l \in 1 .. Len(sells) PROVE ~Meet(buys[k], sells[l])
  <2>1. k < at.buy
    BY <1>1, <1>2
  <2>2. QED
    BY <1>1, <2>1 DEF SeenPairsAreDone
<1>4. SUFFICES ASSUME Weigh(buys, Bidding(g, p)) # 0, Weigh(sells, Offering(g, p)) # 0
               PROVE  FALSE
  OBVIOUS
<1>5. PICK b \in [Orders -> Nat] : b = Bidding(g, p)
  BY <1>1, MeasuresType
<1>6. PICK s \in [Orders -> Nat] : s = Offering(g, p)
  BY <1>1, MeasuresType
<1>7. PICK k \in 1 .. Len(buys) : b[buys[k]] # 0
  BY <1>1, <1>4, <1>5, WeighsNothing
<1>8. PICK l \in 1 .. Len(sells) : s[sells[l]] # 0
  BY <1>1, <1>4, <1>6, WeighsNothing
<1>9. PICK bid : bid = buys[k]
  OBVIOUS
<1>10. PICK offer : offer = sells[l]
  OBVIOUS
<1>a. bid \in Orders
  BY ONLY <1>1, <1>7, <1>9
<1>b. offer \in Orders
  BY ONLY <1>1, <1>8, <1>10
<1> bid \in Orders /\ offer \in Orders
  BY <1>a, <1>b
<1>11. bid.good = g /\ bid.limit >= p /\ bid.quantity # 0
  BY <1>5, <1>7, <1>9 DEF Bidding
<1>12. offer.good = g /\ offer.limit <= p /\ offer.quantity # 0
  BY <1>6, <1>8, <1>10 DEF Offering
<1>13. bid.quantity \in Nat /\ bid.limit \in Nat /\ offer.quantity \in Nat /\ offer.limit \in Nat
  BY OrderFields
<1>14. bid.quantity > 0 /\ offer.quantity > 0 /\ bid.limit >= offer.limit
  <2>1. PICK n \in Nat : n = bid.quantity
    BY <1>13
  <2>2. PICK m \in Nat : m = offer.quantity
    BY <1>13
  <2>3. n > 0 /\ m > 0
    BY <1>11, <1>12, <2>1, <2>2
  <2>4. PICK c \in Nat : c = bid.limit
    BY <1>13
  <2>5. PICK d \in Nat : d = offer.limit
    BY <1>13
  <2>6. c >= d
    <3>1. p \in Nat
      BY <1>1
    <3>2. c >= p /\ d <= p
      BY <1>11, <1>12, <2>4, <2>5
    <3>3. QED
      BY ONLY <3>1, <3>2, c \in Nat, d \in Nat
  <2>7. QED
    BY <2>1, <2>2, <2>3, <2>4, <2>5, <2>6
<1>15. Meet(bid, offer)
  BY <1>11, <1>12, <1>14 DEF Meet
<1>16. QED
  BY <1>3, <1>9, <1>10, <1>15

(* No price has more than was traded on both sides.                        *)
LEMMA TradedEnough ==
  ASSUME OrdersTypeOK, SeenPairsAreDone, Returned, NEW ob \in SortedBids, NEW os \in SortedOffers,
         Matching(ob, os), NEW g \in Good, NEW p \in U64
  PROVE  Weigh(ob, Bidding(g, p)) <= Weigh(trades, Moving(g)) \/ Weigh(os, Offering(g, p)) <= Weigh(trades, Moving(g))
<1>1. /\ trades \in Seq(Executions) /\ buys \in Seq(Orders) /\ sells \in Seq(Orders)
      /\ ob \in Seq(Orders) /\ os \in Seq(Orders) /\ p \in Nat
  BY BidsAre, OffersAre, U64IsFinite DEF OrdersTypeOK
<1>2. PICK t \in Nat : t = Weigh(trades, Moving(g))
  BY <1>1, WeighIsNat
<1>3. CASE Weigh(buys, Bidding(g, p)) = 0
  <2>1. Weigh(ob, Bidding(g, p)) <= t + 0
    BY <1>2, <1>3 DEF Matching, BuysBalance
  <2>2. QED
    BY <1>2, <2>1
<1>4. CASE Weigh(sells, Offering(g, p)) = 0
  <2>1. PICK a \in Nat : a = Weigh(trades, MovingAbove(g, p))
    BY <1>1, WeighIsNat
  <2>2. PICK s \in Nat : s = Weigh(os, Offering(g, p))
    BY <1>1, WeighIsNat
  <2>3. a + s = t + 0
    BY <1>2, <1>4, <2>1, <2>2 DEF Matching, SellsBalance
  <2>4. s <= t
    BY <1>2, <2>1, <2>2, <2>3
  <2>5. QED
    BY <1>2, <2>2, <2>4
<1>5. QED
  BY <1>3, <1>4, OneSideIsDone

(* The greatest of a set, which a member no other exceeds is.              *)
LEMMA MaxIs ==
  ASSUME NEW S \in SUBSET Nat, NEW m \in S, \A n \in S : n <= m
  PROVE  Max(S) = m
<1>1. \A y \in S : m >= y
  OBVIOUS
<1>2. Max(S) \in S /\ \A y \in S : Max(S) >= y
  <2>1. \E x \in S : \A y \in S : x >= y
    BY <1>1
  <2>2. QED
    BY <2>1, Zenon DEF Max
<1>3. Max(S) \in Nat /\ m \in Nat /\ Max(S) >= m /\ m >= Max(S)
  BY <1>1, <1>2
<1>4. QED
  BY <1>3

LEMMA VolumeTraded ==
  ASSUME OrdersTypeOK, SeenPairsAreDone, Returned, NEW ob \in SortedBids, NEW os \in SortedOffers,
         Matching(ob, os), NEW g \in Good
  PROVE  Volume(g) = Weigh(trades, Moving(g))
<1>1. /\ trades \in Seq(Executions) /\ buys \in Seq(Orders) /\ sells \in Seq(Orders)
      /\ ob \in Seq(Orders) /\ os \in Seq(Orders) /\ submitted \in Books
  BY BidsAre, OffersAre DEF OrdersTypeOK
<1>2. U64 \subseteq Nat /\ 0 \in Nat
  BY U64IsFinite
<1>3. PICK t \in Nat : t = Weigh(trades, Moving(g))
  BY <1>1, <1>2, WeighIsNat
<1>4. PICK S : S = {AtMost(BidsFrom(g, p), OffersUpTo(g, p)) : p \in U64}
  OBVIOUS
<1>5. ASSUME NEW p \in U64
      PROVE  \E b, o \in Nat : b = BidsFrom(g, p) /\ b = Weigh(ob, Bidding(g, p))
                                 /\ o = OffersUpTo(g, p) /\ o = Weigh(os, Offering(g, p))
  BY <1>1, <1>2, DemandIs, SupplyIs, WeighIsNat
<1>6. ASSUME NEW p \in U64
      PROVE  AtMost(BidsFrom(g, p), OffersUpTo(g, p)) \in Nat /\ AtMost(BidsFrom(g, p), OffersUpTo(g, p)) <= t
  <2>1. PICK b, o \in Nat : b = BidsFrom(g, p) /\ b = Weigh(ob, Bidding(g, p))
                              /\ o = OffersUpTo(g, p) /\ o = Weigh(os, Offering(g, p))
    BY <1>5
  <2>2. b <= t \/ o <= t
    BY <1>3, <2>1, TradedEnough
  <2>3. AtMost(b, o) \in Nat /\ AtMost(b, o) <= t
    BY <2>2 DEF AtMost
  <2>4. QED
    BY <2>1, <2>3
<1>7. t \in S
  <2>1. PICK p \in U64 : Marginal(g, p, ob, os)
    BY DEF Matching
  <2>2. PICK b, o \in Nat : b = BidsFrom(g, p) /\ b = Weigh(ob, Bidding(g, p))
                              /\ o = OffersUpTo(g, p) /\ o = Weigh(os, Offering(g, p))
    BY <1>5
  <2>3. PICK x \in Nat : x = Weigh(buys, Bidding(g, p))
    BY <1>1, <1>2, WeighIsNat
  <2>4. PICK y \in Nat : y = Weigh(sells, Offering(g, p))
    BY <1>1, <1>2, WeighIsNat
  <2>5. t + x = b /\ t + y = o
    BY <1>3, <2>1, <2>2, <2>3, <2>4 DEF Marginal
  <2>6. t <= AtMost(b, o)
    BY <2>5 DEF AtMost
  <2>7. AtMost(b, o) \in Nat /\ AtMost(b, o) <= t
    BY <1>6, <2>2
  <2>8. t = AtMost(b, o)
    BY <2>6, <2>7
  <2>9. QED
    BY <1>4, <2>2, <2>8
<1>8. S \in SUBSET Nat /\ \A n \in S : n <= t
  BY <1>4, <1>6
<1>9. Max(S) = t
  BY <1>7, <1>8, MaxIs
<1>10. QED
  BY <1>3, <1>4, <1>9, Zenon DEF Volume

(* What was traded above a price is what the offers up to it fell short of.*)
LEMMA AboveIs ==
  ASSUME OrdersTypeOK, NEW ob \in SortedBids, NEW os \in SortedOffers,
         Matching(ob, os), NEW g \in Good, NEW p \in U64
  PROVE  Weigh(trades, MovingAbove(g, p)) = Weigh(trades, Moving(g)) - AtMost(Weigh(trades, Moving(g)), Weigh(os, Offering(g, p)))
<1>1. /\ trades \in Seq(Executions) /\ sells \in Seq(Orders) /\ os \in Seq(Orders) /\ p \in Nat
  BY OffersAre, U64IsFinite DEF OrdersTypeOK
<1>2. PICK t \in Nat : t = Weigh(trades, Moving(g))
  BY <1>1, WeighIsNat
<1>3. PICK a \in Nat : a = Weigh(trades, MovingAbove(g, p))
  BY <1>1, WeighIsNat
<1>4. PICK s \in Nat : s = Weigh(os, Offering(g, p))
  BY <1>1, WeighIsNat
<1>5. PICK y \in Nat : y = Weigh(sells, Offering(g, p))
  BY <1>1, WeighIsNat
<1>6. a + s = t + y
  BY <1>2, <1>3, <1>4, <1>5 DEF Matching, SellsBalance
<1>7. y = 0 \/ (t + y = s)
  <2>1. SUFFICES ASSUME y # 0 PROVE t + y = s
    OBVIOUS
  <2>2. PICK m \in [Orders -> Nat] : m = Offering(g, p)
    BY <1>1, MeasuresType
  <2>3. PICK j \in 1 .. Len(sells) : m[sells[j]] # 0
    BY <1>1, <1>5, <2>1, <2>2, WeighsNothing
  <2>4. PICK offer : offer = sells[j]
    OBVIOUS
  <2>5. offer \in Orders /\ DOMAIN sells = 1 .. Len(sells)
    BY ONLY <1>1, <2>3, <2>4
  <2>6. offer.good = g /\ offer.limit <= p /\ offer.quantity # 0
    BY <2>2, <2>3, <2>4, <2>5 DEF Offering
  <2>7. ASSUME NEW k \in 1 .. Len(sells), sells[k].good = g, sells[k].limit > p PROVE sells[k] = os[k]
    <3>1. CheapestFirst(os)
      BY DEF Matching
    <3>2. PICK other : other = sells[k]
      OBVIOUS
    <3>3. other \in Orders
      BY ONLY <1>1, <2>7, <3>2
    <3>4. PICK c \in Nat : c = offer.limit
      BY <2>5, OrderFields
    <3>5. PICK d \in Nat : d = other.limit
      BY <3>3, OrderFields
    <3>6. c <= p /\ d > p /\ p \in Nat
      BY <1>1, <2>6, <2>7, <3>2, <3>4, <3>5
    <3>7. c < d
      BY ONLY <3>6, c \in Nat, d \in Nat
    <3>8. sells[j].good = sells[k].good /\ sells[j].limit < sells[k].limit /\ sells[j].quantity # 0
      BY <2>4, <2>6, <2>7, <3>2, <3>4, <3>5, <3>7
    <3>9. QED
      BY <2>5, <3>1, <3>8 DEF CheapestFirst
  <2>8. UntouchedAbove(g, p, os)
    BY <2>7 DEF UntouchedAbove
  <2>9. QED
    BY <1>2, <1>4, <1>5, <2>8, UntouchedOffers
<1>8. a = t - AtMost(t, s)
  BY <1>6, <1>7 DEF AtMost
<1>9. QED
  BY <1>2, <1>3, <1>4, <1>8

LEMMA WorthSpent ==
  ASSUME OrdersTypeOK, SeenPairsAreDone, Returned, NEW ob \in SortedBids, NEW os \in SortedOffers,
         Matching(ob, os), NEW g \in Good
  PROVE  Worth(g) = Weigh(trades, Paying(g))
<1>1. submitted \in Books /\ U64 \subseteq Nat
  BY U64IsFinite DEF OrdersTypeOK
<1>2. PICK v : v = [p \in U64 |-> Volume(g) - AtMost(Volume(g), OffersUpTo(g, p))]
  OBVIOUS
<1>3. PICK w : w = [p \in U64 |-> Weigh(trades, MovingAbove(g, p))]
  OBVIOUS
<1>4. Volume(g) = Weigh(trades, Moving(g))
  BY VolumeTraded
<1>5. ASSUME NEW p \in U64 PROVE v[p] = w[p]
  <2>1. OffersUpTo(g, p) = Weigh(os, Offering(g, p))
    BY <1>1, SupplyIs
  <2>2. w[p] = Weigh(trades, Moving(g)) - AtMost(Weigh(trades, Moving(g)), Weigh(os, Offering(g, p)))
    BY <1>3, AboveIs
  <2>3. QED
    BY <1>2, <1>4, <2>1, <2>2
<1>6. v = w
  BY <1>2, <1>3, <1>5
<1>7. Worth(g) = Sum(v)
  BY <1>2, Zenon DEF Worth
<1>8. Weigh(trades, Paying(g)) = Sum(w)
  BY <1>3 DEF Matching, PaidByPrice
<1>9. QED
  BY <1>6, <1>7, <1>8

(* A total that wrapped around is its remainder.                           *)
LEMMA WrappedIs ==
  ASSUME NEW t \in U64, NEW s \in Nat, WrapsTo(t, s)
  PROVE  t = s % (MaxU64 + 1)
<1>1. PICK c \in Nat : s = (MaxU64 + 1) * c + t
  BY DEF WrapsTo
<1>2. PICK W \in Nat : W = MaxU64 + 1 /\ W > 0
  BY U64IsFinite
<1>3. PICK r \in Nat : r = t /\ r < W
  BY <1>2, U64IsFinite DEF U64
<1>4. PICK x \in Nat : x = s % W
  BY <1>2
<1>5. x < W
  BY <1>2, <1>4
<1>6. PICK q \in Nat : s = W * q + x
  <2>1. PICK q \in Nat : q = s \div W
    BY <1>2
  <2>2. s = W * q + x
    BY <1>2, <1>4, <2>1
  <2>3. QED
    BY <2>2
<1>7. W * c + r = W * q + x
  BY <1>1, <1>2, <1>3, <1>6
<1>8. c = q
  <2>1. ASSUME c < q PROVE FALSE
    <3>1. PICK k \in Nat : q = c + 1 + k
      BY <2>1
    <3>2. W * q = W * c + W + W * k
      BY <3>1
    <3>3. QED
      BY <1>3, <1>7, <3>2
  <2>2. ASSUME q < c PROVE FALSE
    <3>1. PICK k \in Nat : c = q + 1 + k
      BY <2>2
    <3>2. W * c = W * q + W + W * k
      BY <3>1
    <3>3. QED
      BY <1>5, <1>7, <3>2
  <2>3. QED
    BY <2>1, <2>2
<1>9. r = x
  BY <1>7, <1>8
<1>10. QED
  BY <1>2, <1>3, <1>4, <1>9

LEMMA BuyersAgreed ==
  ASSUME OrdersTypeOK, NEW ob \in SortedBids, NEW os \in SortedOffers,
         Matching(ob, os), NEW g \in Good, NEW p \in U64
  PROVE  TradedAbove(g, p) <= BidsFrom(g, p + 1)
<1>1. /\ trades \in Seq(Executions) /\ buys \in Seq(Orders) /\ ob \in Seq(Orders) /\ submitted \in Books
      /\ p \in Nat /\ p + 1 \in Nat
  BY BidsAre, U64IsFinite DEF OrdersTypeOK
<1>2. PICK r \in Nat : r = p + 1
  BY <1>1
<1>3. PICK a \in Nat : a = Weigh(trades, MovingAbove(g, p))
  BY <1>1, WeighIsNat
<1>4. PICK b \in Nat : b = Weigh(ob, Bidding(g, r))
  BY <1>1, WeighIsNat
<1>5. PICK x \in Nat : x = Weigh(buys, Bidding(g, r))
  BY <1>1, WeighIsNat
<1>6. a + x <= b
  BY <1>2, <1>3, <1>4, <1>5 DEF Matching, BuysBalance
<1>7. a <= b
  BY <1>6
<1>8. TradedAbove(g, p) = a
  BY <1>1, <1>3, TradedIs
<1>9. BidsFrom(g, r) = b
  BY <1>1, <1>4, DemandIs
<1>10. QED
  BY <1>2, <1>7, <1>8, <1>9

LEMMA TotalsAreSums ==
  ASSUME OrdersTypeOK, TotalsTold, SeenPairsAreDone, Returned, NEW ob \in SortedBids, NEW os \in SortedOffers,
         Matching(ob, os)
  PROVE  /\ totals.quantity = Sum([good \in Good |-> Volume(good)]) % (MaxU64 + 1)
         /\ totals.value = Sum([good \in Good |-> Worth(good)]) % (MaxU64 + 1)
<1>1. trades \in Seq(Executions) /\ totals.quantity \in U64 /\ totals.value \in U64
  BY DEF OrdersTypeOK
<1>2. IsFiniteSet(Good) /\ 0 \in Nat
  BY OrdersAssumption
<1>3. PICK w : w = [good \in Good |-> Volume(good)]
  OBVIOUS
<1>4. PICK v : v = [good \in Good |-> Worth(good)]
  OBVIOUS
<1>5. w = [g \in Good |-> Weigh(trades, Moving(g))]
  BY <1>3, VolumeTraded
<1>6. v = [g \in Good |-> Weigh(trades, Paying(g))]
  BY <1>4, WorthSpent
<1>7. w \in [Good -> Nat] /\ v \in [Good -> Nat]
  BY <1>1, <1>2, <1>5, <1>6, WeighIsNat
<1>8. Sum(w) \in Nat /\ Sum(v) \in Nat
  BY <1>2, <1>7, SumIsNat
<1>9. WrapsTo(totals.quantity, Sum(w)) /\ WrapsTo(totals.value, Sum(v))
  BY <1>5, <1>6 DEF TotalsTold
<1>10. totals.quantity = Sum(w) % (MaxU64 + 1) /\ totals.value = Sum(v) % (MaxU64 + 1)
  BY <1>1, <1>8, <1>9, WrappedIs
<1>11. QED
  BY <1>3, <1>4, <1>10

LEMMA OrdersInvClears ==
  ASSUME OrdersInv
  PROVE  ClearsTheMarket
<1>1. OrdersTypeOK /\ SeenPairsAreDone /\ TotalsTold
  BY DEF OrdersInv
<1>2. PICK ob \in SortedBids : \E os \in SortedOffers : Matching(ob, os)
  BY DEF OrdersInv
<1>3. PICK os \in SortedOffers : Matching(ob, os)
  BY <1>2
<1>4. ASSUME Looking, at.sell \in DOMAIN sells, Meet(buys[at.buy], sells[at.sell])
      PROVE  ~TooDear(buys[at.buy], sells[at.sell])
  BY <1>1, <1>3, <1>4, PairsFit
<1>5. ASSUME Returned, NEW good \in Good
      PROVE  /\ Traded(good) = Volume(good) /\ Spent(good) = Worth(good)
             /\ \A p \in U64 : TradedAbove(good, p) <= BidsFrom(good, p + 1)
  <2>1. trades \in Seq(Executions)
    BY <1>1 DEF OrdersTypeOK
  <2>2. Traded(good) = Weigh(trades, Moving(good)) /\ Spent(good) = Weigh(trades, Paying(good))
    BY <2>1, TradedIs
  <2>3. Traded(good) = Volume(good)
    BY <1>1, <1>3, <1>5, <2>2, VolumeTraded
  <2>4. Spent(good) = Worth(good)
    BY <1>1, <1>3, <1>5, <2>2, WorthSpent
  <2>5. \A p \in U64 : TradedAbove(good, p) <= BidsFrom(good, p + 1)
    BY <1>1, <1>3, BuyersAgreed
  <2>6. QED
    BY <2>3, <2>4, <2>5
<1>6. ASSUME Returned
      PROVE  /\ totals.quantity = Sum([good \in Good |-> Volume(good)]) % (MaxU64 + 1)
             /\ totals.value = Sum([good \in Good |-> Worth(good)]) % (MaxU64 + 1)
  BY <1>1, <1>3, <1>6, TotalsAreSums
<1>7. QED
  BY <1>4, <1>5, <1>6, Zenon DEF ClearsTheMarket

(* However many orders of however many resources a call of match_orders    *)
(* was given, at whatever prices, and whatever order std::sort left those  *)
(* of one price in: when it returns, each resource has traded as many      *)
(* units as bids and offers can agree on at one price, for what the        *)
(* cheapest of them were offered for, and no buyer paid more than his      *)
(* limit; the totals are those of the trades up to the width of the type;  *)
(* and no pair that met was turned away by the guard against overflow.     *)
THEOREM CallsClearTheMarket == OrdersSpec => []ClearsTheMarket
<1>1. OrdersInit => OrdersInv
  BY OrdersInvInit
<1>2. OrdersInv /\ [OrdersNext]_orderVars => OrdersInv'
  BY OrdersStep
<1>3. OrdersInv => ClearsTheMarket
  BY OrdersInvClears
<1>4. QED
  BY <1>1, <1>2, <1>3, PTL DEF OrdersSpec
=============================================================================
