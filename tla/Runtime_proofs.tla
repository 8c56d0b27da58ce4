--------------------------- MODULE Runtime_proofs ---------------------------
(***************************************************************************)
(* Theorems about the runtime, for every width of the integers, length of  *)
(* the day, number of settlements, caravans, routes and contracts, and     *)
(* every order of the host's calls.                                        *)
(***************************************************************************)
EXTENDS Runtime, Contracts_proofs, Iteration

-----------------------------------------------------------------------------
(* The state has its types; the arrival a call stopped at is in the fleet. *)

WorldTypeOK ==
  /\ settlements \subseteq SettlementId
  /\ stores \in [SettlementId -> Storages]
  /\ routes \in Seq(Routes)
  /\ factions \subseteq Faction
  /\ day \in U64

CallTypeOK ==
  call # NoCall => call.faction \in Faction /\ call.caravan \in DOMAIN fleet

RuntimeTypeOK == TypeOK /\ WorldTypeOK /\ CallTypeOK

(* A state of a run: the fleet and the catalog keep their length.          *)
RunStates ==
  [tick : U64, day : U64, stores : [SettlementId -> Storages],
   fleet : [DOMAIN fleet -> Caravans], catalog : [DOMAIN catalog -> ContractRecords],
   elapsed : Nat, arrived : SUBSET DOMAIN fleet]

-----------------------------------------------------------------------------
(* One step of a run.                                                      *)

LEMMA FailedInType ==
  ASSUME NEW cat \in [DOMAIN catalog -> ContractRecords], NEW t
  PROVE  FailedIn(cat, t) \in [DOMAIN catalog -> ContractRecords]
<1>1. \A i \in DOMAIN catalog : [cat[i] EXCEPT !.status = "failed"] \in ContractRecords
  <2> SUFFICES ASSUME NEW i \in DOMAIN catalog
               PROVE  [cat[i] EXCEPT !.status = "failed"] \in ContractRecords
    OBVIOUS
  <2>1. cat[i] \in ContractRecords
    OBVIOUS
  <2>2. QED
    BY <2>1 DEF ContractRecords, Statuses
<1>2. QED
  BY <1>1 DEF FailedIn

LEMMA AdvanceTimeType ==
  ASSUME NEW t \in U64, NEW ticks \in U64
  PROVE  AdvanceTime(t, ticks) \in U64
BY WidthAssumption DEF AdvanceTime, SaturatingAdd, CanAdd, U64

LEMMA TickedType ==
  ASSUME NEW s \in RunStates, NEW ticks \in U64
  PROVE  Ticked(s, ticks) \in RunStates
<1>1. /\ s.tick \in U64 /\ s.fleet \in [DOMAIN fleet -> Caravans] /\ s.elapsed \in Nat
      /\ s.catalog \in [DOMAIN catalog -> ContractRecords] /\ ticks \in Nat
  BY DEF RunStates, U64
<1>2. AdvanceTime(s.tick, ticks) \in U64
  BY <1>1, AdvanceTimeType
<1>3. [p \in DOMAIN s.fleet |-> Advance(s.fleet[p], ticks)] \in [DOMAIN fleet -> Caravans]
  BY <1>1, AdvanceType
<1>4. FailedIn(s.catalog, AdvanceTime(s.tick, ticks)) \in [DOMAIN catalog -> ContractRecords]
  BY <1>1, FailedInType
<1>5. {p \in DOMAIN s.fleet : ArrivesWithin(s.fleet[p], ticks)} \in SUBSET DOMAIN fleet
  BY <1>1
<1>6. s.elapsed + ticks \in Nat
  BY <1>1
<1>7. QED
  BY <1>2, <1>3, <1>4, <1>5, <1>6 DEF Ticked, RunStates

LEMMA FedType ==
  ASSUME NEW store \in Storages, NEW x \in SettlementId
  PROVE  Fed(store, x) \in Storages
<1>1. Food \in Resource /\ Appetite[x] \in U64
  BY RuntimeAssumption
<1>2. store[Food] \in U64
  BY <1>1 DEF Storages
<1>3. store[Food] - RemovedUpTo(store, Food, Appetite[x]) \in U64
  BY <1>1, <1>2, WidthAssumption DEF RemovedUpTo, AtMost, U64
<1>4. QED
  BY <1>3 DEF Fed, Storages

LEMMA WrapAddType ==
  ASSUME NEW a \in U64, NEW b \in U64
  PROVE  WrapAdd(a, b) \in U64
BY WidthAssumption DEF WrapAdd, U64

LEMMA DayPassedType ==
  ASSUME NEW s \in RunStates
  PROVE  DayPassed(s) \in RunStates
<1> DEFINE fed == [x \in SettlementId |->
                     IF x \in settlements THEN Fed(s.stores[x], x) ELSE s.stores[x]]
           dawn == [s EXCEPT !.day = WrapAdd(s.day, 1), !.stores = fed]
<1>1. s.day \in U64 /\ s.stores \in [SettlementId -> Storages] /\ 1 \in U64 /\ TicksPerDay \in U64
  BY WidthAssumption DEF RunStates, U64
<1>2. fed \in [SettlementId -> Storages]
  BY <1>1, FedType
<1>3. WrapAdd(s.day, 1) \in U64
  BY <1>1, WrapAddType
<1> HIDE DEF fed
<1>4. dawn \in RunStates
  BY <1>2, <1>3 DEF RunStates
<1> HIDE DEF dawn
<1>5. Ticked(dawn, TicksPerDay) \in RunStates
  BY <1>1, <1>4, TickedType
<1>6. QED
  BY <1>5 DEF DayPassed, dawn, fed

LEMMA NowType == TypeOK /\ WorldTypeOK => Now \in RunStates
<1> SUFFICES ASSUME TypeOK, WorldTypeOK PROVE Now \in RunStates
  OBVIOUS
<1>1. /\ fleet \in [DOMAIN fleet -> Caravans]
      /\ catalog \in [DOMAIN catalog -> ContractRecords]
  BY DEF TypeOK
<1>2. QED
  BY <1>1 DEF TypeOK, WorldTypeOK, Now, RunStates

-----------------------------------------------------------------------------
(* The loops over steps, unrolled.                                         *)

TickRound(s, total, step, untilArrival) ==
  IF s.elapsed >= total \/ (untilArrival /\ s.arrived # {}) THEN s
  ELSE Ticked(s, AtMost(step, total - s.elapsed))

DayRound(s, untilArrival) ==
  IF untilArrival /\ s.arrived # {} THEN s ELSE DayPassed(s)

LEMMA TickRoundType ==
  ASSUME NEW s \in RunStates, NEW total \in U64, NEW step \in U64, NEW untilArrival \in BOOLEAN
  PROVE  TickRound(s, total, step, untilArrival) \in RunStates
<1>1. s.elapsed \in Nat
  BY DEF RunStates
<1>2. ~(s.elapsed >= total) => AtMost(step, total - s.elapsed) \in U64
  BY <1>1, WidthAssumption DEF AtMost, U64
<1>3. QED
  BY <1>2, TickedType DEF TickRound

LEMMA TickRunUnrolled ==
  ASSUME TypeOK, WorldTypeOK, NEW total \in U64, NEW step \in U64, NEW untilArrival \in BOOLEAN
  PROVE  \E run \in [0 .. total -> RunStates] :
           /\ run[0] = Now
           /\ \A n \in 1 .. total : run[n] = TickRound(run[n - 1], total, step, untilArrival)
           /\ TickRun(total, step, untilArrival) = run[total]
<1> DEFINE Eq(f) == f = [n \in 0 .. total |->
                           IF n = 0 THEN Now
                           ELSE TickRound(f[n - 1], total, step, untilArrival)]
           round == [n \in 1 .. total |->
                       [s \in RunStates |-> TickRound(s, total, step, untilArrival)]]
           run == CHOOSE f : Eq(f)
<1>1. total \in Nat /\ Now \in RunStates
  BY NowType DEF U64
<1>2. round \in [1 .. total -> [RunStates -> RunStates]]
  BY TickRoundType
<1>3. \E f : Eq(f)
  <2>1. PICK f \in [0 .. total -> RunStates] : IsLoop(f, total, Now, round)
    <3> HIDE DEF round
    <3>1. QED
      BY <1>1, <1>2, LoopExists
  <2>2. ASSUME NEW n \in 0 .. total, n # 0
        PROVE  round[n][f[n - 1]] = TickRound(f[n - 1], total, step, untilArrival)
    <3>1. n \in 1 .. total /\ f[n - 1] \in RunStates
      BY <1>1, <2>2
    <3>2. QED
      BY <3>1
  <2> HIDE DEF round
  <2>3. Eq(f)
    BY <2>1, <2>2 DEF IsLoop
  <2>4. QED
    BY <2>3
<1>4. Eq(run)
  <2> HIDE DEF Eq
  <2>1. QED
    BY <1>3, Zenon
<1>5. TickRun(total, step, untilArrival) = run[total]
  BY Zenon DEF TickRun, TickRound
<1> HIDE DEF run
<1>6. run[0] = Now /\ \A n \in 1 .. total :
        run[n] = TickRound(run[n - 1], total, step, untilArrival)
  BY <1>1, <1>4
<1>7. \A n \in 0 .. total : run[n] \in RunStates
  <2> DEFINE T == {n \in 0 .. total : run[n] \in RunStates}
  <2>1. 0 \in T
    BY <1>1, <1>6
  <2>2. ASSUME NEW n \in 1 .. total, n - 1 \in T PROVE n \in T
    BY <1>6, <2>2, TickRoundType
  <2> HIDE DEF T
  <2>3. \A n \in 0 .. total : n \in T
    BY <1>1, <2>1, <2>2, BoundedInduction
  <2>4. QED
    BY <2>3 DEF T
<1>8. run \in [0 .. total -> RunStates]
  BY <1>4, <1>7
<1>9. QED
  BY <1>5, <1>6, <1>8

-----------------------------------------------------------------------------
(* Time adds up: advancing twice is advancing once by the sum.             *)

LEMMA TicksLeftType ==
  ASSUME NEW c \in Caravans
  PROVE  TicksLeft(c) \in U64
BY TicksOrType DEF TicksLeft, Caravans

LEMMA LeftAfterAdvance ==
  ASSUME NEW c \in Caravans, NEW ticks \in Nat
  PROVE  TicksLeft(Advance(c, ticks)) = TicksLeft(c) - AtMost(TicksLeft(c), ticks)
<1> DEFINE after == TicksLeft(c) - AtMost(TicksLeft(c), ticks)
           d == [c EXCEPT !.ticksLeft = after, !.daysLeft = after \div TicksPerDay]
<1>1. TicksLeft(c) \in Nat /\ TicksPerDay \in Nat \ {0} /\ MaxU64 \in Nat
  BY TicksLeftType, WidthAssumption DEF U64
<1>2. after \in Nat
  BY <1>1 DEF AtMost
<1> HIDE DEF after
<1>3. d.ticksLeft = after /\ d.daysLeft = after \div TicksPerDay
  BY DEF Caravans
<1>4. after = 0 => DaysToTicks(after \div TicksPerDay) = 0
  <2> SUFFICES ASSUME after = 0 PROVE DaysToTicks(after \div TicksPerDay) = 0
    OBVIOUS
  <2>1. after \div TicksPerDay = 0
    BY <1>1
  <2>2. QED
    BY <1>1, <2>1 DEF DaysToTicks, MultiplyOverflows
<1> HIDE DEF d
<1>5. TicksLeft(d) = after
  BY <1>2, <1>3, <1>4 DEF TicksLeft, TicksOr
<1>6. Advance(c, ticks) = d
  BY DEF Advance, d, after
<1>7. QED
  BY <1>5, <1>6 DEF after

LEMMA AdvanceAddsUp ==
  ASSUME NEW c \in Caravans, NEW a \in Nat, NEW b \in Nat
  PROVE  Advance(Advance(c, a), b) = Advance(c, a + b)
<1> DEFINE left == TicksLeft(c)
           first == left - AtMost(left, a)
           both == left - AtMost(left, a + b)
<1>1. left \in Nat
  BY TicksLeftType DEF U64
<1>2. first - AtMost(first, b) = both
  BY <1>1 DEF AtMost
<1>3. TicksLeft(Advance(c, a)) = first
  BY LeftAfterAdvance
<1> HIDE DEF left, first, both
<1>4. Advance(c, a) = [c EXCEPT !.ticksLeft = first, !.daysLeft = first \div TicksPerDay]
  BY DEF Advance, first, left
<1>5. Advance(c, a + b) = [c EXCEPT !.ticksLeft = both, !.daysLeft = both \div TicksPerDay]
  BY DEF Advance, both, left
<1>6. Advance(Advance(c, a), b) =
        [Advance(c, a) EXCEPT !.ticksLeft = both, !.daysLeft = both \div TicksPerDay]
  BY <1>2, <1>3 DEF Advance
<1>7. QED
  BY <1>4, <1>5, <1>6 DEF Caravans

LEMMA ClockAddsUp ==
  ASSUME NEW t \in U64, NEW a \in Nat, NEW b \in Nat
  PROVE  /\ AdvanceTime(AdvanceTime(t, a), b) = AdvanceTime(t, a + b)
         /\ AdvanceTime(t, a) \in U64
         /\ AdvanceTime(t, a) <= AdvanceTime(t, a + b)
BY WidthAssumption DEF AdvanceTime, SaturatingAdd, CanAdd, U64

LEMMA SweepTwice ==
  ASSUME NEW cat \in [DOMAIN catalog -> ContractRecords], NEW t \in U64, NEW u \in U64, t <= u
  PROVE  FailedIn(FailedIn(cat, t), u) = FailedIn(cat, u)
<1>1. FailedIn(cat, t) \in [DOMAIN catalog -> ContractRecords]
  BY FailedInType
<1>2. ASSUME NEW i \in DOMAIN catalog
      PROVE  FailedIn(FailedIn(cat, t), u)[i] = FailedIn(cat, u)[i]
  <2> DEFINE c == cat[i]
             d == [c EXCEPT !.status = "failed"]
  <2>1. c \in ContractRecords /\ d.status = "failed" /\ DueTicks(c) \in Nat
    <3>1. c \in ContractRecords
      OBVIOUS
    <3>2. DueTicks(c) \in U64
      BY <3>1, TicksOrType DEF DueTicks, ContractRecords
    <3>3. QED
      BY <3>1, <3>2 DEF ContractRecords, U64
  <2>2. FailedIn(cat, t)[i] = IF IsOverdue(c, t) THEN d ELSE c
    BY DEF FailedIn
  <2>3. FailedIn(cat, u)[i] = IF IsOverdue(c, u) THEN d ELSE c
    BY DEF FailedIn
  <2>4. FailedIn(FailedIn(cat, t), u)[i] =
          IF IsOverdue(FailedIn(cat, t)[i], u)
          THEN [FailedIn(cat, t)[i] EXCEPT !.status = "failed"] ELSE FailedIn(cat, t)[i]
    BY <1>1 DEF FailedIn
  <2>5. IsOverdue(c, t) => IsOverdue(c, u)
    BY <2>1 DEF IsOverdue, U64
  <2>6. ~IsOverdue(d, u)
    BY <2>1 DEF IsOverdue, IsOpen
  <2> HIDE DEF c, d
  <2>7. QED
    BY <2>2, <2>3, <2>4, <2>5, <2>6 DEF d
<1>3. QED
  BY <1>1, <1>2 DEF FailedIn

-----------------------------------------------------------------------------
(* Where a run without a stop is after so many ticks: where one advance by *)
(* as many ticks would be.                                                 *)

Reached(s, ticks) ==
  /\ s.elapsed = ticks
  /\ s.tick = AdvanceTime(tick, ticks)
  /\ s.fleet = [p \in DOMAIN fleet |-> Advance(fleet[p], ticks)]
  /\ s.catalog = FailedIn(catalog, AdvanceTime(tick, ticks))

LEMMA FirstStepReaches ==
  ASSUME TypeOK, NEW ticks \in U64
  PROVE  Reached(Ticked(Now, ticks), ticks)
<1>1. ticks \in Nat /\ 0 + ticks = ticks
  BY DEF U64
<1>2. QED
  BY <1>1 DEF Reached, Ticked, Now

LEMMA NextStepReaches ==
  ASSUME TypeOK, NEW s \in RunStates, NEW a \in Nat, NEW b \in U64, Reached(s, a)
  PROVE  Reached(Ticked(s, b), a + b)
<1> DEFINE t == Ticked(s, b)
           now == AdvanceTime(tick, a + b)
<1>1. b \in Nat /\ tick \in U64
      /\ catalog \in [DOMAIN catalog -> ContractRecords]
      /\ \A p \in DOMAIN fleet : fleet[p] \in Caravans
  BY DEF U64, TypeOK
<1>2. /\ s.elapsed = a /\ s.tick = AdvanceTime(tick, a)
      /\ s.fleet = [p \in DOMAIN fleet |-> Advance(fleet[p], a)]
      /\ s.catalog = FailedIn(catalog, AdvanceTime(tick, a))
  BY DEF Reached
<1>3. AdvanceTime(s.tick, b) = now /\ AdvanceTime(tick, a) <= now
      /\ AdvanceTime(tick, a) \in U64 /\ now \in U64
  BY <1>1, <1>2, ClockAddsUp
<1> HIDE DEF now
<1>4. FailedIn(s.catalog, now) = FailedIn(catalog, now)
  BY <1>1, <1>2, <1>3, SweepTwice
<1>5. [p \in DOMAIN s.fleet |-> Advance(s.fleet[p], b)]
        = [p \in DOMAIN fleet |-> Advance(fleet[p], a + b)]
  BY <1>1, <1>2, AdvanceAddsUp
<1>6. t.elapsed = a + b /\ t.tick = now /\ t.catalog = FailedIn(catalog, now)
      /\ t.fleet = [p \in DOMAIN fleet |-> Advance(fleet[p], a + b)]
  BY <1>2, <1>3, <1>4, <1>5 DEF Ticked, RunStates
<1> HIDE DEF t
<1>7. Reached(t, a + b)
  BY <1>6 DEF Reached, now
<1>8. QED
  BY <1>7 DEF t

LEMMA WholeSpanReached ==
  ASSUME TypeOK, WorldTypeOK, NEW total \in U64 \ {0}, NEW step \in U64 \ {0}
  PROVE  Reached(TickRun(total, step, FALSE), total)
<1>1. total \in Nat /\ step \in Nat /\ total > 0 /\ step > 0 /\ total <= MaxU64 /\ MaxU64 \in Nat
      /\ total \in U64 /\ step \in U64
  BY WidthAssumption DEF U64
<1>2. PICK run \in [0 .. total -> RunStates] :
        /\ run[0] = Now
        /\ \A n \in 1 .. total : run[n] = TickRound(run[n - 1], total, step, FALSE)
        /\ TickRun(total, step, FALSE) = run[total]
  BY <1>1, TickRunUnrolled
<1> DEFINE T == {n \in 0 .. total : n > 0 => \E e \in n .. total : Reached(run[n], e)}
<1>3. 0 \in T
  BY <1>1
<1>4. ASSUME NEW n \in 1 .. total, n - 1 \in T PROVE n \in T
  <2>1. run[n - 1] \in RunStates /\ run[n] = TickRound(run[n - 1], total, step, FALSE)
    <3>1. n - 1 \in 0 .. total
      BY <1>1
    <3>2. QED
      BY <1>2, <3>1
  <2>2. CASE n = 1
    <3>1. run[n - 1] = Now /\ Now.elapsed = 0
      BY <1>2, <2>2 DEF Now
    <3>2. run[n] = Ticked(Now, AtMost(step, total))
      BY <1>1, <2>1, <3>1 DEF TickRound
    <3>3. AtMost(step, total) \in U64 /\ AtMost(step, total) \in n .. total
      BY <1>1, <2>2 DEF AtMost, U64
    <3>4. QED
      BY <3>2, <3>3, FirstStepReaches
  <2>3. CASE n # 1
    <3>1. PICK e \in n - 1 .. total : Reached(run[n - 1], e)
      BY <1>1, <1>4, <2>3
    <3>2. e \in Nat /\ run[n - 1].elapsed = e
      BY <1>1, <3>1 DEF Reached
    <3>3. CASE e >= total
      <4>1. run[n] = run[n - 1] /\ e \in n .. total
        BY <1>1, <2>1, <3>1, <3>2, <3>3 DEF TickRound
      <4>2. QED
        BY <3>1, <4>1
    <3>4. CASE ~(e >= total)
      <4> DEFINE k == AtMost(step, total - e)
      <4>1. k \in U64 /\ e + k \in n .. total
        BY <1>1, <3>1, <3>2, <3>4 DEF AtMost, U64
      <4>2. run[n] = Ticked(run[n - 1], k)
        BY <2>1, <3>2, <3>4 DEF TickRound
      <4> HIDE DEF k
      <4>3. Reached(run[n], e + k)
        BY <2>1, <3>1, <3>2, <4>1, <4>2, NextStepReaches
      <4>4. QED
        BY <4>1, <4>3
    <3>5. QED
      BY <3>3, <3>4
  <2>4. QED
    BY <2>2, <2>3
<1> HIDE DEF T
<1>5. \A n \in 0 .. total : n \in T
  BY <1>1, <1>3, <1>4, BoundedInduction
<1>6. PICK e \in total .. total : Reached(run[total], e)
  BY <1>1, <1>5 DEF T
<1>7. e = total
  BY <1>1
<1>8. QED
  BY <1>2, <1>6, <1>7

-----------------------------------------------------------------------------
(* A run that watches for arrivals: the way each caravan had to go when    *)
(* the run began tells when it arrives.                                    *)

ArrivingIn(lo, hi) == {p \in DOMAIN fleet : lo < TicksLeft(fleet[p]) /\ TicksLeft(fleet[p]) <= hi}

(* After n rounds of a run of steps no longer than step: nothing arrived   *)
(* yet, or something did in the last round, which began at lo.             *)
Watching(s, n, total, step) ==
  /\ s.elapsed \in 0 .. total
  /\ \A p \in DOMAIN fleet :
       TicksLeft(s.fleet[p]) = TicksLeft(fleet[p]) - AtMost(TicksLeft(fleet[p]), s.elapsed)
  /\ \/ s.arrived = {} /\ s.elapsed >= n /\ ArrivingIn(0, s.elapsed) = {}
     \/ /\ s.arrived # {}
        /\ \E lo \in 0 .. s.elapsed :
             /\ lo < s.elapsed /\ s.elapsed <= lo + step
             /\ ArrivingIn(0, lo) = {}
             /\ s.arrived = ArrivingIn(lo, s.elapsed)

LEMMA WatchingAtFirst ==
  ASSUME TypeOK, NEW total \in Nat, NEW step \in Nat
  PROVE  Watching(Now, 0, total, step)
<1>1. \A p \in DOMAIN fleet : TicksLeft(fleet[p]) \in Nat
  BY TicksLeftType DEF TypeOK, U64
<1>2. ArrivingIn(0, 0) = {}
  BY <1>1 DEF ArrivingIn
<1>3. \A p \in DOMAIN fleet :
        TicksLeft(fleet[p]) = TicksLeft(fleet[p]) - AtMost(TicksLeft(fleet[p]), 0)
  BY <1>1 DEF AtMost
<1>4. QED
  BY <1>2, <1>3 DEF Watching, Now

LEMMA WatchingOn ==
  ASSUME TypeOK, NEW total \in U64, NEW step \in U64, step > 0, NEW n \in 1 .. total,
         NEW s \in RunStates, Watching(s, n - 1, total, step)
  PROVE  Watching(TickRound(s, total, step, TRUE), n, total, step)
<1> DEFINE e == s.elapsed
           k == AtMost(step, total - e)
           t == Ticked(s, k)
<1>1. total \in Nat /\ step \in Nat /\ total <= MaxU64 /\ MaxU64 \in Nat /\ n \in Nat /\ n <= total
  BY WidthAssumption DEF U64
<1>2. e \in Nat /\ e <= total
  BY <1>1 DEF Watching
<1>3. CASE s.arrived # {}
  BY <1>3 DEF TickRound, Watching
<1>4. CASE s.arrived = {} /\ e >= total
  <2>1. TickRound(s, total, step, TRUE) = s
    BY <1>4 DEF TickRound
  <2>2. e >= n
    BY <1>1, <1>2, <1>4
  <2>3. QED
    BY <1>4, <2>1, <2>2 DEF Watching
<1>5. CASE s.arrived = {} /\ ~(e >= total)
  <2>1. TickRound(s, total, step, TRUE) = t
    BY <1>5 DEF TickRound
  <2>2. k \in U64 /\ k \in Nat /\ k > 0 /\ k <= step /\ e + k \in 0 .. total
    BY <1>1, <1>2, <1>5 DEF AtMost, U64
  <2>3. e >= n - 1 /\ ArrivingIn(0, e) = {}
    BY <1>5 DEF Watching
  <2> HIDE DEF k
  <2>4. /\ t.elapsed = e + k
        /\ t.fleet = [p \in DOMAIN fleet |-> Advance(s.fleet[p], k)]
        /\ t.arrived = {p \in DOMAIN fleet : ArrivesWithin(s.fleet[p], k)}
    BY DEF Ticked, RunStates
  <2> HIDE DEF t, e
  <2>5. ASSUME NEW p \in DOMAIN fleet
        PROVE  /\ TicksLeft(fleet[p]) \in Nat
               /\ TicksLeft(t.fleet[p]) = TicksLeft(fleet[p]) - AtMost(TicksLeft(fleet[p]), e + k)
               /\ ArrivesWithin(s.fleet[p], k)
                    <=> e < TicksLeft(fleet[p]) /\ TicksLeft(fleet[p]) <= e + k
    <3> DEFINE left == TicksLeft(fleet[p])
               rest == TicksLeft(s.fleet[p])
    <3>1. left \in Nat
      BY TicksLeftType DEF TypeOK, U64
    <3>2. rest = left - AtMost(left, e)
      BY DEF Watching, e
    <3>3. TicksLeft(Advance(s.fleet[p], k)) = rest - AtMost(rest, k)
      <4>1. s.fleet[p] \in Caravans
        BY DEF RunStates
      <4>2. QED
        BY <2>2, <4>1, LeftAfterAdvance
    <3>4. ArrivesWithin(s.fleet[p], k) <=> AtMost(rest, k) > 0 /\ rest - AtMost(rest, k) = 0
      BY <3>3 DEF ArrivesWithin, Arrived
    <3>5. TicksLeft(t.fleet[p]) = rest - AtMost(rest, k)
      BY <2>4, <3>3
    <3> HIDE DEF left, rest
    <3>6. /\ rest - AtMost(rest, k) = left - AtMost(left, e + k)
          /\ AtMost(rest, k) > 0 /\ rest - AtMost(rest, k) = 0 <=> e < left /\ left <= e + k
      BY <1>2, <2>2, <3>1, <3>2 DEF AtMost
    <3>7. QED
      BY <3>1, <3>4, <3>5, <3>6 DEF left
  <2>6. t.arrived = ArrivingIn(e, e + k)
    BY <2>4, <2>5 DEF ArrivingIn
  <2>7. ArrivingIn(e, e + k) = {} => ArrivingIn(0, e + k) = {}
    BY <1>2, <2>2, <2>3, <2>5 DEF ArrivingIn
  <2>8. e + k >= n /\ e < e + k /\ e + k <= e + step /\ e \in 0 .. e + k
    BY <1>1, <1>2, <2>2, <2>3
  <2>9. Watching(t, n, total, step)
    <3>1. CASE t.arrived = {}
      BY <2>2, <2>4, <2>5, <2>6, <2>7, <2>8, <3>1 DEF Watching
    <3>2. CASE t.arrived # {}
      BY <2>2, <2>3, <2>4, <2>5, <2>6, <2>8, <3>2 DEF Watching
    <3>3. QED
      BY <3>1, <3>2
  <2>10. QED
    BY <2>1, <2>9
<1>6. QED
  BY <1>3, <1>4, <1>5

LEMMA WatchedRun ==
  ASSUME TypeOK, WorldTypeOK, NEW total \in U64, NEW step \in U64, step > 0
  PROVE  Watching(TickRun(total, step, TRUE), total, total, step)
<1>1. total \in Nat /\ step \in Nat
  BY DEF U64
<1>2. PICK run \in [0 .. total -> RunStates] :
        /\ run[0] = Now
        /\ \A n \in 1 .. total : run[n] = TickRound(run[n - 1], total, step, TRUE)
        /\ TickRun(total, step, TRUE) = run[total]
  BY TickRunUnrolled
<1> DEFINE T == {n \in 0 .. total : Watching(run[n], n, total, step)}
<1>3. 0 \in T
  BY <1>1, <1>2, WatchingAtFirst
<1>4. ASSUME NEW n \in 1 .. total, n - 1 \in T PROVE n \in T
  <2>1. n - 1 \in 0 .. total /\ n \in 0 .. total
    BY <1>1
  <2>2. run[n - 1] \in RunStates /\ run[n] = TickRound(run[n - 1], total, step, TRUE)
    BY <1>2, <2>1
  <2>3. QED
    BY <1>4, <2>1, <2>2, WatchingOn
<1> HIDE DEF T
<1>5. \A n \in 0 .. total : n \in T
  BY <1>1, <1>3, <1>4, BoundedInduction
<1>6. Watching(run[total], total, total, step)
  BY <1>1, <1>5 DEF T
<1>7. QED
  BY <1>2, <1>6

LEMMA StepSizeStep == TypeOK /\ WorldTypeOK => StepSizeIrrelevant
<1> SUFFICES ASSUME TypeOK, WorldTypeOK, NEW total \in U64, NEW step \in U64 \ {0}
             PROVE  LET fine   == TickRun(total, step, FALSE)
                        whole  == TickRun(total, total, FALSE)
                        exact  == TickRun(total, 1, TRUE)
                        coarse == TickRun(total, step, TRUE)
                    IN  /\ total > 0 => /\ fine.tick = whole.tick
                                        /\ fine.fleet = whole.fleet
                                        /\ fine.catalog = whole.catalog
                        /\ coarse.arrived = {} <=> exact.arrived = {}
                        /\ exact.arrived \subseteq coarse.arrived
                        /\ coarse.elapsed < exact.elapsed + step
  BY DEF StepSizeIrrelevant
<1> DEFINE exact  == TickRun(total, 1, TRUE)
           coarse == TickRun(total, step, TRUE)
<1>1. total \in Nat /\ step \in Nat /\ step > 0 /\ step \in U64 /\ 1 \in U64 /\ 1 > 0
      /\ (total > 0 => total \in U64 \ {0})
  BY WidthAssumption DEF U64
<1>2. total > 0 => LET fine  == TickRun(total, step, FALSE)
                       whole == TickRun(total, total, FALSE)
                   IN  /\ fine.tick = whole.tick
                       /\ fine.fleet = whole.fleet
                       /\ fine.catalog = whole.catalog
  <2>1. total > 0 => /\ Reached(TickRun(total, step, FALSE), total)
                     /\ Reached(TickRun(total, total, FALSE), total)
    BY <1>1, WholeSpanReached
  <2>2. QED
    BY <2>1 DEF Reached
<1>3. Watching(exact, total, total, 1) /\ Watching(coarse, total, total, step)
  <2>1. Watching(TickRun(total, 1, TRUE), total, total, 1)
    BY <1>1, WatchedRun, Zenon
  <2>2. Watching(TickRun(total, step, TRUE), total, total, step)
    BY <1>1, WatchedRun, Zenon
  <2>3. QED
    BY <2>1, <2>2
<1>4. \A p \in DOMAIN fleet : TicksLeft(fleet[p]) \in Nat
  BY TicksLeftType DEF TypeOK, U64
<1> HIDE DEF exact, coarse
<1>5. /\ exact.elapsed \in 0 .. total
      /\ \/ exact.arrived = {} /\ exact.elapsed = total /\ ArrivingIn(0, total) = {}
         \/ /\ exact.arrived # {} /\ exact.elapsed > 0
            /\ ArrivingIn(0, exact.elapsed - 1) = {}
            /\ exact.arrived = ArrivingIn(exact.elapsed - 1, exact.elapsed)
  <2>1. /\ exact.elapsed \in 0 .. total
        /\ \/ exact.arrived = {} /\ exact.elapsed >= total /\ ArrivingIn(0, exact.elapsed) = {}
           \/ /\ exact.arrived # {}
              /\ \E lo \in 0 .. exact.elapsed :
                   /\ lo < exact.elapsed /\ exact.elapsed <= lo + 1
                   /\ ArrivingIn(0, lo) = {}
                   /\ exact.arrived = ArrivingIn(lo, exact.elapsed)
    BY <1>3 DEF Watching
  <2>2. CASE exact.arrived = {}
    BY <1>1, <2>1, <2>2
  <2>3. CASE exact.arrived # {}
    <3>1. PICK lo \in 0 .. exact.elapsed :
                   /\ lo < exact.elapsed /\ exact.elapsed <= lo + 1
                   /\ ArrivingIn(0, lo) = {}
                   /\ exact.arrived = ArrivingIn(lo, exact.elapsed)
      BY <2>1, <2>3
    <3>2. lo = exact.elapsed - 1
      BY <1>1, <2>1, <3>1
    <3>3. QED
      BY <1>1, <2>1, <2>3, <3>1, <3>2
  <2>4. QED
    BY <2>2, <2>3
<1>6. /\ coarse.elapsed \in 0 .. total
      /\ \/ coarse.arrived = {} /\ coarse.elapsed = total /\ ArrivingIn(0, total) = {}
         \/ /\ coarse.arrived # {}
            /\ \E lo \in 0 .. coarse.elapsed :
                 /\ lo < coarse.elapsed /\ coarse.elapsed <= lo + step
                 /\ ArrivingIn(0, lo) = {}
                 /\ coarse.arrived = ArrivingIn(lo, coarse.elapsed)
  <2>1. /\ coarse.elapsed \in 0 .. total
        /\ \/ coarse.arrived = {} /\ coarse.elapsed >= total /\ ArrivingIn(0, coarse.elapsed) = {}
           \/ /\ coarse.arrived # {}
              /\ \E lo \in 0 .. coarse.elapsed :
                   /\ lo < coarse.elapsed /\ coarse.elapsed <= lo + step
                   /\ ArrivingIn(0, lo) = {}
                   /\ coarse.arrived = ArrivingIn(lo, coarse.elapsed)
    BY <1>3 DEF Watching
  <2>2. coarse.elapsed >= total => coarse.elapsed = total
    BY <1>1, <2>1
  <2>3. QED
    BY <2>1, <2>2
<1>7. coarse.arrived = {} <=> exact.arrived = {}
  <2>1. ArrivingIn(0, total) = {} => exact.arrived = {} /\ coarse.arrived = {}
    BY <1>1, <1>4, <1>5, <1>6 DEF ArrivingIn
  <2>2. QED
    BY <1>5, <1>6, <2>1
<1>8. CASE exact.arrived = {}
  <2>1. exact.arrived \subseteq coarse.arrived /\ coarse.elapsed < exact.elapsed + step
    BY <1>1, <1>5, <1>6, <1>7, <1>8
  <2>2. QED
    BY <1>2, <1>7, <2>1 DEF exact, coarse
<1>9. CASE exact.arrived # {}
  <2>1. PICK lo \in 0 .. coarse.elapsed :
               /\ lo < coarse.elapsed /\ coarse.elapsed <= lo + step
               /\ ArrivingIn(0, lo) = {}
               /\ coarse.arrived = ArrivingIn(lo, coarse.elapsed)
    BY <1>6, <1>7, <1>9
  <2>2. PICK q \in DOMAIN fleet :
          lo < TicksLeft(fleet[q]) /\ TicksLeft(fleet[q]) <= coarse.elapsed
    BY <1>7, <1>9, <2>1 DEF ArrivingIn
  <2>3. exact.elapsed <= TicksLeft(fleet[q])
    BY <1>1, <1>4, <1>5, <1>9, <2>1, <2>2 DEF ArrivingIn
  <2>4. \A p \in exact.arrived : p \in DOMAIN fleet /\ TicksLeft(fleet[p]) = exact.elapsed
    BY <1>1, <1>4, <1>5, <1>9 DEF ArrivingIn
  <2>5. exact.elapsed <= coarse.elapsed
    BY <1>1, <1>4, <1>5, <1>6, <2>2, <2>3
  <2>6. \A p \in exact.arrived : p \in coarse.arrived
    BY <1>1, <1>4, <1>5, <1>9, <2>1, <2>4, <2>5 DEF ArrivingIn
  <2>7. lo < exact.elapsed
    BY <1>1, <1>4, <1>5, <1>9, <2>1, <2>4, <2>6 DEF ArrivingIn
  <2>8. coarse.elapsed < exact.elapsed + step
    BY <1>1, <1>5, <1>6, <2>1, <2>7
  <2>9. QED
    BY <1>2, <1>7, <2>6, <2>8 DEF exact, coarse
<1>10. QED
  BY <1>8, <1>9

-----------------------------------------------------------------------------
(* One delivery: all of the cargo, or nothing.                             *)

LEMMA CargoTotalType ==
  ASSUME NEW cargo \in Storages
  PROVE  CargoTotal(cargo) \in Nat
<1> DEFINE K == Len(ResourceOrder)
           Eq(f) == f = [k \in 0 .. K |->
                           IF k = 0 THEN 0 ELSE f[k - 1] + cargo[ResourceOrder[k]]]
           round == [k \in 1 .. K |-> [x \in Nat |-> x + cargo[ResourceOrder[k]]]]
           sum == CHOOSE f : Eq(f)
<1>1. K \in Nat /\ \A k \in 1 .. K : cargo[ResourceOrder[k]] \in Nat
  <2>1. ResourceOrder \in Seq(Resource)
    BY RuntimeAssumption
  <2>2. K \in Nat /\ \A k \in 1 .. K : ResourceOrder[k] \in Resource
    BY <2>1
  <2>3. \A r \in Resource : cargo[r] \in Nat
    BY DEF Storages, U64
  <2>4. QED
    BY <2>2, <2>3
<1> HIDE DEF K
<1>2. round \in [1 .. K -> [Nat -> Nat]]
  BY <1>1
<1>3. \E f : Eq(f)
  <2>1. PICK f \in [0 .. K -> Nat] : IsLoop(f, K, 0, round)
    <3> HIDE DEF round
    <3>1. QED
      BY <1>1, <1>2, LoopExists
  <2>2. ASSUME NEW k \in 0 .. K, k # 0
        PROVE  round[k][f[k - 1]] = f[k - 1] + cargo[ResourceOrder[k]]
    <3>1. k \in 1 .. K /\ f[k - 1] \in Nat
      BY <1>1, <2>2
    <3>2. QED
      BY <3>1
  <2> HIDE DEF round
  <2>3. Eq(f)
    BY <2>1, <2>2 DEF IsLoop
  <2>4. QED
    BY <2>3
<1>4. Eq(sum)
  <2> HIDE DEF Eq
  <2>1. QED
    BY <1>3, Zenon
<1>5. CargoTotal(cargo) = sum[K]
  BY Zenon DEF CargoTotal, K
<1> HIDE DEF sum
<1> DEFINE T == {k \in 0 .. K : sum[k] \in Nat}
<1>6. 0 \in T
  BY <1>1, <1>4
<1>7. ASSUME NEW k \in 1 .. K, k - 1 \in T PROVE k \in T
  <2>1. k \in 0 .. K /\ k # 0 /\ sum[k - 1] \in Nat
    BY <1>1, <1>7
  <2>2. sum[k] = sum[k - 1] + cargo[ResourceOrder[k]]
    BY <1>4, <2>1
  <2>3. QED
    BY <1>1, <2>1, <2>2
<1> HIDE DEF T
<1>8. \A k \in 0 .. K : k \in T
  BY <1>1, <1>6, <1>7, BoundedInduction
<1>9. K \in T
  BY <1>1, <1>8
<1>10. QED
  BY <1>5, <1>9 DEF T

(* What rollback_delivered_cargo promises: the caravan and the store are   *)
(* as they were before the entries were moved.                             *)
LEMMA RollbackRestores ==
  ASSUME NEW cargo \in Storages, NEW store \in Storages, \A r \in Resource : CanAdd(store[r], cargo[r])
  PROVE  /\ PutBack(MovedOut(cargo), cargo) = cargo
         /\ TakenBack(MovedIn(store, cargo), cargo) = store
<1>1. \A r \in Resource : cargo[r] \in U64 /\ store[r] \in U64
  BY DEF Storages
<1>2. \A r \in Resource : /\ WrapAdd(0, cargo[r]) = cargo[r]
                          /\ WrapAdd(store[r], cargo[r]) - cargo[r] = store[r]
  BY <1>1, WidthAssumption DEF WrapAdd, CanAdd, U64
<1>3. PutBack(MovedOut(cargo), cargo) = [r \in Resource |-> cargo[r]]
  BY <1>2 DEF PutBack, MovedOut
<1>4. TakenBack(MovedIn(store, cargo), cargo) = [r \in Resource |-> store[r]]
  BY <1>2 DEF TakenBack, MovedIn
<1>5. cargo = [r \in Resource |-> cargo[r]] /\ store = [r \in Resource |-> store[r]]
  BY DEF Storages
<1>6. QED
  BY <1>3, <1>4, <1>5

LEMMA MovedType ==
  ASSUME NEW cargo \in Storages, NEW store \in Storages
  PROVE  MovedOut(cargo) \in Storages /\ MovedIn(store, cargo) \in Storages
<1>1. 0 \in U64 /\ \A r \in Resource : cargo[r] \in U64 /\ WrapAdd(store[r], cargo[r]) \in U64
  BY WrapAddType, WidthAssumption DEF Storages, U64
<1>2. QED
  BY <1>1 DEF MovedOut, MovedIn, Storages

(* A delivery that reports success has emptied the caravan and added its   *)
(* whole cargo to the store; one that fails has changed neither.           *)
LEMMA DeliveryWhole ==
  ASSUME NEW c \in Caravans, NEW store \in Storages
  PROVE  LET d == DeliveryOf(c, store)
         IN  /\ d.ok \in BOOLEAN /\ d.cargo \in Storages /\ d.store \in Storages
             /\ d.ok => /\ IsEmpty(d.cargo)
                        /\ \A r \in Resource : d.store[r] = store[r] + c.cargo[r]
             /\ ~d.ok => d.cargo = c.cargo /\ d.store = store
<1> DEFINE d == DeliveryOf(c, store)
           checked == /\ c.destination \in settlements
                      /\ Arrived(c)
                      /\ CargoTotal(c.cargo) <= MaxU64
                      /\ \A r \in Resource : CanAdd(store[r], c.cargo[r])
           all == \A r \in Resource : c.cargo[r] > 0 => r \in MovedEntries(c.cargo)
<1>1. c.cargo \in Storages
  BY DEF Caravans
<1>2. \A r \in Resource : c.cargo[r] \in U64 /\ store[r] \in U64
  BY <1>1 DEF Storages
<1>3. d = IF ~checked THEN [ok |-> FALSE, cargo |-> c.cargo, store |-> store]
          ELSE IF all THEN [ok |-> TRUE, cargo |-> MovedOut(c.cargo), store |-> MovedIn(store, c.cargo)]
          ELSE [ok |-> FALSE, cargo |-> PutBack(MovedOut(c.cargo), c.cargo),
                store |-> TakenBack(MovedIn(store, c.cargo), c.cargo)]
  BY DEF DeliveryOf
<1>4. CASE ~checked
  BY <1>1, <1>3, <1>4
<1>5. CASE checked /\ all
  <2> DEFINE cargo == MovedOut(c.cargo)
             filled == MovedIn(store, c.cargo)
  <2>1. \A r \in Resource : CanAdd(store[r], c.cargo[r])
    BY <1>5
  <2>2. \A r \in Resource : r \in MovedEntries(c.cargo) \/ c.cargo[r] = 0
    BY <1>2, <1>5 DEF U64
  <2>3. IsEmpty(cargo)
    BY <2>2 DEF IsEmpty, MovedOut
  <2>4. \A r \in Resource : WrapAdd(store[r], c.cargo[r]) = store[r] + c.cargo[r]
                            /\ store[r] + 0 = store[r]
    BY <1>2, <2>1, WidthAssumption DEF WrapAdd, CanAdd, U64
  <2>5. \A r \in Resource : filled[r] = store[r] + c.cargo[r]
    BY <2>2, <2>4 DEF MovedIn
  <2>6. cargo \in Storages /\ filled \in Storages
    BY <1>1, MovedType
  <2>7. d = [ok |-> TRUE, cargo |-> cargo, store |-> filled]
    BY <1>3, <1>5
  <2> HIDE DEF cargo, filled, d
  <2>8. d.ok = TRUE /\ d.cargo = cargo /\ d.store = filled
    BY <2>7
  <2>9. QED
    BY <2>3, <2>5, <2>6, <2>8 DEF d
<1>6. CASE checked /\ ~all
  <2>1. /\ PutBack(MovedOut(c.cargo), c.cargo) = c.cargo
        /\ TakenBack(MovedIn(store, c.cargo), c.cargo) = store
    BY <1>1, <1>6, RollbackRestores
  <2>2. d = [ok |-> FALSE, cargo |-> c.cargo, store |-> store]
    BY <1>3, <1>6, <2>1
  <2>3. QED
    BY <1>1, <2>2
<1>7. QED
  BY <1>4, <1>5, <1>6

-----------------------------------------------------------------------------
(* The loop over caravans of a bulk delivery.                              *)

BulkStates ==
  [go : BOOLEAN, fleet : [DOMAIN fleet -> Caravans],
   stores : [SettlementId -> Storages], total : Nat]

BulkStart == [go |-> TRUE, fleet |-> fleet, stores |-> stores, total |-> 0]

BulkRound(b, n) ==
  LET c == fleet[n]
      d == DeliveryOf(c, b.stores[c.destination])
  IN  IF ~b.go \/ ~Deliverable(c) THEN b
      ELSE [go     |-> d.ok /\ CanAdd(b.total, CargoTotal(c.cargo)),
            fleet  |-> [b.fleet EXCEPT ![n] = [c EXCEPT !.cargo = d.cargo]],
            stores |-> [b.stores EXCEPT ![c.destination] = d.store],
            total  |-> b.total + CargoTotal(c.cargo)]

LEMMA CaravanFields ==
  ASSUME TypeOK, NEW p \in DOMAIN fleet
  PROVE  /\ fleet[p] \in Caravans
         /\ fleet[p].cargo \in Storages
         /\ fleet[p].origin \in SettlementId
         /\ fleet[p].destination \in SettlementId
         /\ fleet[p].id \in CaravanId
<1>1. fleet[p] \in Caravans
  BY DEF TypeOK
<1>2. QED
  BY <1>1 DEF Caravans

LEMMA ReloadedType ==
  ASSUME NEW c \in Caravans, NEW cargo \in Storages
  PROVE  /\ [c EXCEPT !.cargo = cargo] \in Caravans
         /\ [c EXCEPT !.cargo = cargo].cargo = cargo
         /\ [c EXCEPT !.cargo = c.cargo] = c
BY DEF Caravans

LEMMA BulkRoundType ==
  ASSUME TypeOK, NEW b \in BulkStates, NEW n \in DOMAIN fleet
  PROVE  BulkRound(b, n) \in BulkStates
<1> DEFINE c == fleet[n]
           d == DeliveryOf(c, b.stores[c.destination])
           f == [b.fleet EXCEPT ![n] = [c EXCEPT !.cargo = d.cargo]]
           t == [b.stores EXCEPT ![c.destination] = d.store]
           m == CargoTotal(c.cargo)
<1>1. c \in Caravans /\ c.cargo \in Storages /\ c.destination \in SettlementId
  BY CaravanFields
<1>2. /\ b.go \in BOOLEAN /\ b.fleet \in [DOMAIN fleet -> Caravans]
      /\ b.stores \in [SettlementId -> Storages] /\ b.total \in Nat
  BY DEF BulkStates
<1>3. d.ok \in BOOLEAN /\ d.cargo \in Storages /\ d.store \in Storages
  <2> HIDE DEF c
  <2>1. QED
    BY <1>1, <1>2, DeliveryWhole
<1>4. m \in Nat
  BY <1>1, CargoTotalType
<1> HIDE DEF c, d, m
<1>5. [c EXCEPT !.cargo = d.cargo] \in Caravans
  BY <1>1, <1>3, ReloadedType
<1>6. f \in [DOMAIN fleet -> Caravans] /\ t \in [SettlementId -> Storages]
  BY <1>1, <1>2, <1>3, <1>5
<1> HIDE DEF f, t
<1>7. [go |-> d.ok /\ CanAdd(b.total, m), fleet |-> f, stores |-> t, total |-> b.total + m]
        \in BulkStates
  BY <1>2, <1>4, <1>6 DEF BulkStates
<1>8. QED
  BY <1>7 DEF BulkRound, c, d, m, f, t

LEMMA BulkUnrolled ==
  ASSUME TypeOK, WorldTypeOK
  PROVE  \E after \in [0 .. Len(fleet) -> BulkStates] :
           /\ after[0] = BulkStart
           /\ \A n \in 1 .. Len(fleet) : after[n] = BulkRound(after[n - 1], n)
           /\ Bulk = after[Len(fleet)]
<1> DEFINE N == Len(fleet)
           Eq(f) == f = [n \in 0 .. N |-> IF n = 0 THEN BulkStart ELSE BulkRound(f[n - 1], n)]
           round == [n \in 1 .. N |-> [b \in BulkStates |-> BulkRound(b, n)]]
           after == CHOOSE f : Eq(f)
<1>1. N \in Nat /\ DOMAIN fleet = 1 .. N
  BY DEF TypeOK
<1>2. BulkStart \in BulkStates
  <2>1. fleet \in [DOMAIN fleet -> Caravans]
    BY DEF TypeOK
  <2>2. QED
    BY <2>1 DEF BulkStart, BulkStates, WorldTypeOK
<1> HIDE DEF N
<1>3. round \in [1 .. N -> [BulkStates -> BulkStates]]
  BY <1>1, BulkRoundType
<1>4. \E f : Eq(f)
  <2>1. PICK f \in [0 .. N -> BulkStates] : IsLoop(f, N, BulkStart, round)
    <3> HIDE DEF round
    <3>1. QED
      BY <1>1, <1>2, <1>3, LoopExists
  <2>2. ASSUME NEW n \in 0 .. N, n # 0
        PROVE  round[n][f[n - 1]] = BulkRound(f[n - 1], n)
    <3>1. n \in 1 .. N /\ f[n - 1] \in BulkStates
      BY <1>1, <2>2
    <3>2. QED
      BY <3>1
  <2> HIDE DEF round
  <2>3. Eq(f)
    BY <2>1, <2>2 DEF IsLoop
  <2>4. QED
    BY <2>3
<1>5. Eq(after)
  <2> HIDE DEF Eq
  <2>1. QED
    BY <1>4, Zenon
<1>6. Bulk = after[N]
  BY Zenon DEF Bulk, BulkStart, BulkRound, N
<1> HIDE DEF after
<1>7. after[0] = BulkStart /\ \A n \in 1 .. N : after[n] = BulkRound(after[n - 1], n)
  BY <1>1, <1>5
<1>8. \A n \in 0 .. N : after[n] \in BulkStates
  <2> DEFINE T == {n \in 0 .. N : after[n] \in BulkStates}
  <2>1. 0 \in T
    BY <1>1, <1>2, <1>7
  <2>2. ASSUME NEW n \in 1 .. N, n - 1 \in T PROVE n \in T
    <3>1. after[n - 1] \in BulkStates /\ n \in DOMAIN fleet /\ n \in 0 .. N
      BY <1>1, <2>2
    <3>2. BulkRound(after[n - 1], n) \in BulkStates
      BY <3>1, BulkRoundType
    <3>3. QED
      BY <1>7, <3>1, <3>2
  <2> HIDE DEF T
  <2>3. \A n \in 0 .. N : n \in T
    BY <1>1, <2>1, <2>2, BoundedInduction
  <2>4. QED
    BY <2>3 DEF T
<1>9. after \in [0 .. N -> BulkStates]
  BY <1>5, <1>8
<1>10. QED
  BY <1>6, <1>7, <1>9 DEF N

(* What the loop has done when it looked at the first n caravans: it only  *)
(* emptied caravans, every one that could be delivered before the last it  *)
(* emptied, and while it goes on every one that could be.                  *)
BulkSoFar(b, n) ==
  /\ \A p \in DOMAIN fleet :
       /\ b.fleet[p] = [fleet[p] EXCEPT !.cargo = b.fleet[p].cargo]
       /\ \/ b.fleet[p].cargo = fleet[p].cargo
          \/ /\ p <= n /\ IsEmpty(b.fleet[p].cargo)
             /\ \A q \in 1 .. p - 1 : Deliverable(fleet[q]) => IsEmpty(b.fleet[q].cargo)
  /\ b.go => \A q \in 1 .. n : Deliverable(fleet[q]) => IsEmpty(b.fleet[q].cargo)

LEMMA BulkGoesOn ==
  ASSUME TypeOK, NEW b \in BulkStates, NEW n \in DOMAIN fleet, BulkSoFar(b, n - 1)
  PROVE  BulkSoFar(BulkRound(b, n), n)
<1> DEFINE c == fleet[n]
           d == DeliveryOf(c, b.stores[c.destination])
           e == BulkRound(b, n)
<1>1. DOMAIN fleet = 1 .. Len(fleet) /\ Len(fleet) \in Nat /\ n \in Nat
  BY DEF TypeOK
<1>2. \A q \in 1 .. n : q = n \/ q \in 1 .. n - 1
  BY <1>1
<1>3. c \in Caravans /\ c.cargo \in Storages /\ c.destination \in SettlementId
  BY CaravanFields
<1>4. /\ b.go \in BOOLEAN /\ b.fleet \in [DOMAIN fleet -> Caravans]
      /\ b.stores \in [SettlementId -> Storages]
  BY DEF BulkStates
<1>5. CASE ~b.go \/ ~Deliverable(c)
  <2>1. e = b
    BY <1>5 DEF BulkRound
  <2>2. b.go => \A q \in 1 .. n : Deliverable(fleet[q]) => IsEmpty(b.fleet[q].cargo)
    BY <1>2, <1>5 DEF BulkSoFar
  <2>3. \A p \in DOMAIN fleet : p <= n - 1 => p <= n
    BY <1>1
  <2>4. BulkSoFar(b, n)
    BY <2>2, <2>3 DEF BulkSoFar
  <2>5. QED
    BY <2>1, <2>4
<1>6. CASE b.go /\ Deliverable(c)
  <2>1. /\ d.ok \in BOOLEAN /\ d.cargo \in Storages
        /\ d.ok => IsEmpty(d.cargo)
        /\ ~d.ok => d.cargo = c.cargo
    <3> HIDE DEF c
    <3>1. QED
      BY <1>3, <1>4, DeliveryWhole
  <2>2. e.go => d.ok
    BY <1>6 DEF BulkRound
  <2>3. e.fleet = [b.fleet EXCEPT ![n] = [c EXCEPT !.cargo = d.cargo]]
    BY <1>6 DEF BulkRound
  <2> HIDE DEF d, e
  <2>4. /\ e.fleet[n] = [c EXCEPT !.cargo = d.cargo]
        /\ \A p \in DOMAIN fleet : p # n => e.fleet[p] = b.fleet[p]
    BY <1>4, <2>3
  <2>5. e.fleet[n].cargo = d.cargo
    BY <1>3, <2>1, <2>4, ReloadedType
  <2>6. \A q \in 1 .. n - 1 : q # n /\ q \in DOMAIN fleet
    BY <1>1
  <2>7. \A q \in 1 .. n - 1 : Deliverable(fleet[q]) => IsEmpty(e.fleet[q].cargo)
    BY <1>6, <2>4, <2>6 DEF BulkSoFar
  <2>8. ASSUME NEW p \in DOMAIN fleet
        PROVE  /\ e.fleet[p] = [fleet[p] EXCEPT !.cargo = e.fleet[p].cargo]
               /\ \/ e.fleet[p].cargo = fleet[p].cargo
                  \/ /\ p <= n /\ IsEmpty(e.fleet[p].cargo)
                     /\ \A q \in 1 .. p - 1 : Deliverable(fleet[q]) => IsEmpty(e.fleet[q].cargo)
    <3>1. CASE p = n
      <4>1. e.fleet[n] = [c EXCEPT !.cargo = e.fleet[n].cargo]
        BY <2>4, <2>5
      <4>2. e.fleet[n].cargo = c.cargo \/ IsEmpty(e.fleet[n].cargo)
        BY <2>1, <2>5
      <4>3. n <= n
        BY <1>1
      <4> HIDE DEF c
      <4>4. c = fleet[p]
        BY <3>1 DEF c
      <4>5. QED
        BY <2>7, <3>1, <4>1, <4>2, <4>3, <4>4
    <3>2. CASE p # n
      <4>1. e.fleet[p] = b.fleet[p]
        BY <2>4, <3>2
      <4>2. /\ b.fleet[p] = [fleet[p] EXCEPT !.cargo = b.fleet[p].cargo]
            /\ \/ b.fleet[p].cargo = fleet[p].cargo
               \/ /\ p <= n - 1 /\ IsEmpty(b.fleet[p].cargo)
                  /\ \A q \in 1 .. p - 1 : Deliverable(fleet[q]) => IsEmpty(b.fleet[q].cargo)
        BY DEF BulkSoFar
      <4>3. p <= n - 1 => p <= n /\ \A q \in 1 .. p - 1 : q \in 1 .. n - 1
        BY <1>1
      <4>4. QED
        BY <2>7, <4>1, <4>2, <4>3
    <3>3. QED
      BY <3>1, <3>2
  <2>9. e.go => \A q \in 1 .. n : Deliverable(fleet[q]) => IsEmpty(e.fleet[q].cargo)
    BY <1>2, <2>1, <2>2, <2>5, <2>7
  <2>10. BulkSoFar(e, n)
    BY <2>8, <2>9 DEF BulkSoFar
  <2>11. QED
    BY <2>10 DEF e
<1>7. QED
  BY <1>4, <1>5, <1>6

LEMMA BulkWhole ==
  ASSUME TypeOK, WorldTypeOK
  PROVE  Bulk \in BulkStates /\ BulkSoFar(Bulk, Len(fleet))
<1> DEFINE N == Len(fleet)
<1>1. N \in Nat /\ DOMAIN fleet = 1 .. N
  BY DEF TypeOK
<1>2. PICK after \in [0 .. N -> BulkStates] :
        /\ after[0] = BulkStart
        /\ \A n \in 1 .. N : after[n] = BulkRound(after[n - 1], n)
        /\ Bulk = after[N]
  BY BulkUnrolled
<1> DEFINE T == {n \in 0 .. N : BulkSoFar(after[n], n)}
<1>3. 0 \in T
  <2>1. \A p \in DOMAIN fleet : fleet[p] = [fleet[p] EXCEPT !.cargo = fleet[p].cargo]
    BY CaravanFields, ReloadedType
  <2>2. BulkStart.fleet = fleet /\ 1 .. 0 = {}
    BY DEF BulkStart
  <2>3. BulkSoFar(BulkStart, 0)
    BY <2>1, <2>2 DEF BulkSoFar
  <2>4. QED
    BY <1>1, <1>2, <2>3
<1>4. ASSUME NEW n \in 1 .. N, n - 1 \in T PROVE n \in T
  <2>1. n - 1 \in 0 .. N /\ n \in 0 .. N
    BY <1>1
  <2>2. after[n - 1] \in BulkStates /\ after[n] = BulkRound(after[n - 1], n)
    BY <1>2, <2>1
  <2>3. BulkSoFar(after[n - 1], n - 1) /\ n \in DOMAIN fleet
    BY <1>1, <1>4
  <2> HIDE DEF N
  <2>4. BulkSoFar(after[n], n)
    BY <2>2, <2>3, BulkGoesOn
  <2>5. QED
    BY <2>1, <2>4
<1> HIDE DEF T
<1>5. N \in T
  <2> HIDE DEF N
  <2>1. \A n \in 0 .. N : n \in T
    BY <1>1, <1>3, <1>4, BoundedInduction
  <2>2. QED
    BY <1>1, <2>1
<1>6. QED
  BY <1>1, <1>2, <1>5 DEF T

-----------------------------------------------------------------------------
(* Where any run ends: where one advance by the ticks that passed ends, or *)
(* where it began if none did; no contract it left open is overdue, and    *)
(* the caravans it reports have arrived.                                   *)

Moved(s) == \E ticks \in Nat : Reached(s, ticks)

Outcome(s) ==
  \/ /\ s.elapsed = 0 /\ s.arrived = {}
     /\ s.tick = tick /\ s.fleet = fleet /\ s.catalog = catalog
  \/ /\ Moved(s)
     /\ \A i \in DOMAIN catalog : ~IsOverdue(s.catalog[i], s.tick)
     /\ \A p \in s.arrived : Arrived(s.fleet[p])

LEMMA SweptClean ==
  ASSUME NEW cat \in [DOMAIN catalog -> ContractRecords], NEW t, NEW i \in DOMAIN catalog
  PROVE  ~IsOverdue(FailedIn(cat, t)[i], t)
<1>1. cat[i] \in ContractRecords
  OBVIOUS
<1>2. FailedIn(cat, t)[i] = IF IsOverdue(cat[i], t)
                            THEN [cat[i] EXCEPT !.status = "failed"] ELSE cat[i]
  BY DEF FailedIn
<1>3. [cat[i] EXCEPT !.status = "failed"].status = "failed"
  BY <1>1 DEF ContractRecords
<1>4. QED
  BY <1>2, <1>3 DEF IsOverdue, IsOpen

LEMMA TickedOutcome ==
  ASSUME TypeOK, NEW s \in RunStates, Outcome(s), NEW ticks \in U64
  PROVE  Outcome(Ticked(s, ticks))
<1> DEFINE t == Ticked(s, ticks)
<1>1. /\ s.tick \in U64 /\ s.fleet \in [DOMAIN fleet -> Caravans]
      /\ s.catalog \in [DOMAIN catalog -> ContractRecords] /\ ticks \in Nat
  BY DEF RunStates, U64
<1>2. /\ t.elapsed = s.elapsed + ticks
      /\ t.tick = AdvanceTime(s.tick, ticks)
      /\ t.fleet = [p \in DOMAIN fleet |-> Advance(s.fleet[p], ticks)]
      /\ t.catalog = FailedIn(s.catalog, AdvanceTime(s.tick, ticks))
      /\ t.arrived = {p \in DOMAIN fleet : ArrivesWithin(s.fleet[p], ticks)}
  BY <1>1 DEF Ticked, RunStates
<1>3. Moved(t)
  <2>1. CASE s.elapsed = 0 /\ s.tick = tick /\ s.fleet = fleet /\ s.catalog = catalog
    <3>1. 0 + ticks = ticks
      BY <1>1
    <3> HIDE DEF t
    <3>2. Reached(t, ticks)
      BY <1>2, <2>1, <3>1 DEF Reached
    <3>3. QED
      BY <1>1, <3>2 DEF Moved
  <2>2. CASE Moved(s)
    <3>1. PICK a \in Nat : Reached(s, a)
      BY <2>2 DEF Moved
    <3>2. Reached(t, a + ticks) /\ a + ticks \in Nat
      BY <1>1, <3>1, NextStepReaches
    <3>3. QED
      BY <3>2 DEF Moved
  <2>3. QED
    BY <2>1, <2>2 DEF Outcome
<1> HIDE DEF t
<1>4. \A i \in DOMAIN catalog : ~IsOverdue(t.catalog[i], t.tick)
  BY <1>1, <1>2, SweptClean
<1>5. \A p \in t.arrived : Arrived(t.fleet[p])
  BY <1>2 DEF ArrivesWithin
<1>6. Outcome(t)
  BY <1>3, <1>4, <1>5 DEF Outcome
<1>7. QED
  BY <1>6 DEF t

LEMMA DayOutcome ==
  ASSUME TypeOK, NEW s \in RunStates, Outcome(s)
  PROVE  Outcome(DayPassed(s))
<1> DEFINE fed == [x \in SettlementId |->
                     IF x \in settlements THEN Fed(s.stores[x], x) ELSE s.stores[x]]
           dawn == [s EXCEPT !.day = WrapAdd(s.day, 1), !.stores = fed]
<1>1. s.day \in U64 /\ s.stores \in [SettlementId -> Storages] /\ 1 \in U64 /\ TicksPerDay \in U64
  BY WidthAssumption DEF RunStates, U64
<1>2. fed \in [SettlementId -> Storages]
  BY <1>1, FedType
<1>3. WrapAdd(s.day, 1) \in U64
  BY <1>1, WrapAddType
<1> HIDE DEF fed
<1>4. /\ dawn \in RunStates
      /\ dawn.tick = s.tick /\ dawn.fleet = s.fleet /\ dawn.catalog = s.catalog
      /\ dawn.elapsed = s.elapsed /\ dawn.arrived = s.arrived
  BY <1>2, <1>3 DEF RunStates
<1> HIDE DEF dawn
<1>5. Outcome(dawn)
  BY <1>4 DEF Outcome, Moved, Reached
<1>6. Outcome(Ticked(dawn, TicksPerDay))
  BY <1>1, <1>4, <1>5, TickedOutcome
<1>7. QED
  BY <1>6 DEF DayPassed, dawn, fed

LEMMA TickRunOutcome ==
  ASSUME TypeOK, WorldTypeOK, NEW total \in U64, NEW step \in U64, NEW untilArrival \in BOOLEAN
  PROVE  /\ TickRun(total, step, untilArrival) \in RunStates
         /\ Outcome(TickRun(total, step, untilArrival))
<1>1. total \in Nat
  BY DEF U64
<1>2. PICK run \in [0 .. total -> RunStates] :
        /\ run[0] = Now
        /\ \A n \in 1 .. total : run[n] = TickRound(run[n - 1], total, step, untilArrival)
        /\ TickRun(total, step, untilArrival) = run[total]
  BY TickRunUnrolled
<1> DEFINE T == {n \in 0 .. total : Outcome(run[n])}
<1>3. 0 \in T
  BY <1>1, <1>2 DEF Outcome, Now
<1>4. ASSUME NEW n \in 1 .. total, n - 1 \in T PROVE n \in T
  <2>1. n - 1 \in 0 .. total /\ n \in 0 .. total
    BY <1>1
  <2>2. run[n - 1] \in RunStates /\ run[n] = TickRound(run[n - 1], total, step, untilArrival)
    BY <1>2, <2>1
  <2>3. Outcome(run[n - 1])
    BY <1>4
  <2>4. ~(run[n - 1].elapsed >= total) => AtMost(step, total - run[n - 1].elapsed) \in U64
    <3>1. run[n - 1].elapsed \in Nat
      BY <2>2 DEF RunStates
    <3>2. QED
      BY <1>1, <3>1, WidthAssumption DEF AtMost, U64
  <2>5. Outcome(run[n])
    BY <2>2, <2>3, <2>4, TickedOutcome DEF TickRound
  <2>6. QED
    BY <2>1, <2>5
<1> HIDE DEF T
<1>5. \A n \in 0 .. total : n \in T
  BY <1>1, <1>3, <1>4, BoundedInduction
<1>6. total \in 0 .. total
  BY <1>1
<1>7. Outcome(run[total]) /\ run[total] \in RunStates
  BY <1>2, <1>5, <1>6 DEF T
<1>8. QED
  BY <1>2, <1>7

LEMMA DayRunUnrolled ==
  ASSUME TypeOK, WorldTypeOK, NEW days \in U64, NEW untilArrival \in BOOLEAN
  PROVE  \E run \in [0 .. days -> RunStates] :
           /\ run[0] = Now
           /\ \A n \in 1 .. days : run[n] = DayRound(run[n - 1], untilArrival)
           /\ DayRun(days, untilArrival) = run[days]
<1> DEFINE Eq(f) == f = [n \in 0 .. days |->
                           IF n = 0 THEN Now ELSE DayRound(f[n - 1], untilArrival)]
           round == [n \in 1 .. days |-> [s \in RunStates |-> DayRound(s, untilArrival)]]
           run == CHOOSE f : Eq(f)
<1>1. days \in Nat /\ Now \in RunStates
  BY NowType DEF U64
<1>2. \A s \in RunStates : DayRound(s, untilArrival) \in RunStates
  BY DayPassedType DEF DayRound
<1>3. round \in [1 .. days -> [RunStates -> RunStates]]
  BY <1>2
<1>4. \E f : Eq(f)
  <2>1. PICK f \in [0 .. days -> RunStates] : IsLoop(f, days, Now, round)
    <3> HIDE DEF round
    <3>1. QED
      BY <1>1, <1>3, LoopExists
  <2>2. ASSUME NEW n \in 0 .. days, n # 0
        PROVE  round[n][f[n - 1]] = DayRound(f[n - 1], untilArrival)
    <3>1. n \in 1 .. days /\ f[n - 1] \in RunStates
      BY <1>1, <2>2
    <3>2. QED
      BY <3>1
  <2> HIDE DEF round
  <2>3. Eq(f)
    BY <2>1, <2>2 DEF IsLoop
  <2>4. QED
    BY <2>3
<1>5. Eq(run)
  <2> HIDE DEF Eq
  <2>1. QED
    BY <1>4, Zenon
<1>6. DayRun(days, untilArrival) = run[days]
  BY Zenon DEF DayRun, DayRound
<1> HIDE DEF run
<1>7. run[0] = Now /\ \A n \in 1 .. days : run[n] = DayRound(run[n - 1], untilArrival)
  BY <1>1, <1>5
<1>8. \A n \in 0 .. days : run[n] \in RunStates
  <2> DEFINE T == {n \in 0 .. days : run[n] \in RunStates}
  <2>1. 0 \in T
    BY <1>1, <1>7
  <2>2. ASSUME NEW n \in 1 .. days, n - 1 \in T PROVE n \in T
    BY <1>2, <1>7, <2>2
  <2> HIDE DEF T
  <2>3. \A n \in 0 .. days : n \in T
    BY <1>1, <2>1, <2>2, BoundedInduction
  <2>4. QED
    BY <2>3 DEF T
<1>9. run \in [0 .. days -> RunStates]
  BY <1>5, <1>8
<1>10. QED
  BY <1>6, <1>7, <1>9

LEMMA DayRunOutcome ==
  ASSUME TypeOK, WorldTypeOK, NEW days \in U64, NEW untilArrival \in BOOLEAN
  PROVE  /\ DayRun(days, untilArrival) \in RunStates
         /\ Outcome(DayRun(days, untilArrival))
<1>1. days \in Nat
  BY DEF U64
<1>2. PICK run \in [0 .. days -> RunStates] :
        /\ run[0] = Now
        /\ \A n \in 1 .. days : run[n] = DayRound(run[n - 1], untilArrival)
        /\ DayRun(days, untilArrival) = run[days]
  BY DayRunUnrolled
<1> DEFINE T == {n \in 0 .. days : Outcome(run[n])}
<1>3. 0 \in T
  BY <1>1, <1>2 DEF Outcome, Now
<1>4. ASSUME NEW n \in 1 .. days, n - 1 \in T PROVE n \in T
  <2>1. n - 1 \in 0 .. days /\ n \in 0 .. days
    BY <1>1
  <2>2. run[n - 1] \in RunStates /\ run[n] = DayRound(run[n - 1], untilArrival)
    BY <1>2, <2>1
  <2>3. Outcome(run[n - 1])
    BY <1>4
  <2>4. Outcome(run[n])
    BY <2>2, <2>3, DayOutcome DEF DayRound
  <2>5. QED
    BY <2>1, <2>4
<1> HIDE DEF T
<1>5. \A n \in 0 .. days : n \in T
  BY <1>1, <1>3, <1>4, BoundedInduction
<1>6. days \in 0 .. days
  BY <1>1
<1>7. Outcome(run[days]) /\ run[days] \in RunStates
  BY <1>2, <1>5, <1>6 DEF T
<1>8. QED
  BY <1>2, <1>7

-----------------------------------------------------------------------------
(* What a step does to the fleet, to the roads and to the call a host is   *)
(* in, whatever call it makes.                                             *)

SameButOne(cargo, old) == \E r \in Resource : \A x \in Resource : x # r => cargo[x] = old[x]

Reloading(p, cargo) ==
  /\ fleet' = WithCargo(p, cargo)
  /\ IsEmpty(cargo) \/ SameButOne(cargo, fleet[p].cargo)

Travelling(ticks) == fleet' = [p \in DOMAIN fleet |-> Advance(fleet[p], ticks)]

FleetStep ==
  \/ fleet' = fleet
  \/ \E k \in DOMAIN routes, id \in CaravanId, cargo \in Cargoes : CreateCaravan(k, id, cargo)
  \/ \E ticks \in Nat : Travelling(ticks)
  \/ \E p \in DOMAIN fleet : fleet' = [fleet EXCEPT ![p] = Advance(fleet[p], TicksPerDay)]
  \/ \E p \in DOMAIN fleet, cargo \in Storages : Reloading(p, cargo)
  \/ fleet' = Bulk.fleet

RoadStep ==
  /\ settlements \subseteq settlements'
  /\ routes' = routes \/ \E route \in RouteOffers : AddRoute(route)

(* The arrival a call stopped at is real, and the deadlines are swept.     *)
CallReal ==
  call # NoCall =>
    /\ Arrived(fleet[call.caravan])
    /\ \A i \in DOMAIN catalog : ~IsOverdue(catalog[i], tick)

StepShape == RuntimeTypeOK' /\ BookStep /\ FleetStep /\ RoadStep /\ CallReal'

LEMMA BetweenCalls ==
  ASSUME TypeOK', WorldTypeOK', BookStep, FleetStep, RoadStep, call' = NoCall
  PROVE  StepShape
BY DEF StepShape, RuntimeTypeOK, CallTypeOK, CallReal

LEMMA RouteType ==
  ASSUME NEW route \in Routes
  PROVE  /\ RouteTicks(route) \in U64
         /\ [route EXCEPT !.ticks = RouteTicks(route)] \in Routes
<1>1. route.ticks \in U64 /\ route.days \in U64
  BY DEF Routes
<1>2. RouteTicks(route) \in U64
  BY <1>1, TicksOrType DEF RouteTicks
<1>3. QED
  BY <1>2 DEF Routes

LEMMA NewCaravanType ==
  ASSUME NEW route \in Routes, NEW id \in CaravanId, NEW cargo \in Cargoes
  PROVE  CaravanForRoute(route, id, cargo) \in Caravans
<1>1. /\ route.id \in RouteId /\ route.days \in U64 /\ RouteTicks(route) \in U64
      /\ route.origin \in SettlementId /\ route.destination \in SettlementId
  BY RouteType DEF Routes
<1>2. cargo \in Storages
  BY RuntimeAssumption
<1>3. QED
  BY <1>1, <1>2 DEF CaravanForRoute, Caravans

LEMMA BuildShape ==
  ASSUME RuntimeTypeOK, BuildCall, call' = NoCall
  PROVE  StepShape
<1>1. TypeOK /\ WorldTypeOK
  BY DEF RuntimeTypeOK
<1>2. ASSUME UNCHANGED vars PROVE TypeOK' /\ BookStep /\ FleetStep
  BY <1>1, <1>2 DEF vars, TypeOK, BookStep, BookOnly, FleetStep
<1>3. ASSUME NEW s \in SettlementId, CreateSettlement(s) PROVE StepShape
  <2>1. WorldTypeOK' /\ RoadStep
    BY <1>1, <1>3 DEF CreateSettlement, WorldTypeOK, RoadStep
  <2>2. UNCHANGED vars
    BY <1>3 DEF CreateSettlement, vars
  <2>3. QED
    BY <1>2, <2>1, <2>2, BetweenCalls
<1>4. ASSUME NEW f \in Faction, AddFaction(f) PROVE StepShape
  <2>1. WorldTypeOK' /\ RoadStep
    BY <1>1, <1>4 DEF AddFaction, WorldTypeOK, RoadStep
  <2>2. UNCHANGED vars
    BY <1>4 DEF AddFaction, vars
  <2>3. QED
    BY <1>2, <2>1, <2>2, BetweenCalls
<1>5. ASSUME NEW route \in RouteOffers, AddRoute(route) PROVE StepShape
  <2>1. [route EXCEPT !.ticks = RouteTicks(route)] \in Routes
    BY RuntimeAssumption, RouteType
  <2>2. routes' \in Seq(Routes)
    BY <1>1, <1>5, <2>1 DEF AddRoute, WorldTypeOK
  <2>3. WorldTypeOK'
    BY <1>1, <1>5, <2>2 DEF AddRoute, WorldTypeOK
  <2>4. RoadStep
    BY <1>5 DEF AddRoute, RoadStep
  <2>5. UNCHANGED vars
    BY <1>5 DEF AddRoute, vars
  <2>6. QED
    BY <1>2, <2>3, <2>4, <2>5, BetweenCalls
<1>6. ASSUME NEW offer \in Offers, AddRuntimeContract(offer) PROVE StepShape
  <2>1. AddContract(offer) /\ UNCHANGED worldVars
    BY <1>6 DEF AddRuntimeContract
  <2>2. TypeOK' /\ BookStep
    BY <1>1, <2>1, TypeStep, EveryStepIsBookStep DEF Next
  <2>3. WorldTypeOK' /\ RoadStep /\ FleetStep
    BY <1>1, <2>1 DEF worldVars, AddContract, WorldTypeOK, RoadStep, FleetStep
  <2>4. QED
    BY <2>2, <2>3, BetweenCalls
<1>7. ASSUME NEW p \in DOMAIN fleet, NEW f \in Faction, SetRuntimeCaravanOwner(p, f)
      PROVE  StepShape
  <2>1. SetCaravanOwner(p, f) /\ UNCHANGED worldVars
    BY <1>7 DEF SetRuntimeCaravanOwner
  <2>2. TypeOK' /\ BookStep
    BY <1>1, <2>1, TypeStep, EveryStepIsBookStep DEF Next
  <2>3. WorldTypeOK' /\ RoadStep /\ FleetStep
    BY <1>1, <2>1 DEF worldVars, SetCaravanOwner, WorldTypeOK, RoadStep, FleetStep
  <2>4. QED
    BY <2>2, <2>3, BetweenCalls
<1>8. ASSUME NEW k \in DOMAIN routes, NEW id \in CaravanId, NEW cargo \in Cargoes,
             CreateCaravan(k, id, cargo)
      PROVE  StepShape
  <2>1. routes[k] \in Routes
    BY <1>1 DEF WorldTypeOK
  <2>2. fleet' \in Seq(Caravans)
    BY <1>1, <1>8, <2>1, NewCaravanType DEF CreateCaravan, TypeOK
  <2>3. TypeOK' /\ WorldTypeOK' /\ RoadStep
    BY <1>1, <1>8, <2>2 DEF CreateCaravan, worldVars, TypeOK, WorldTypeOK, RoadStep
  <2>4. BookStep /\ FleetStep
    BY <1>8 DEF CreateCaravan, BookStep, BookOnly, FleetStep
  <2>5. QED
    BY <2>3, <2>4, BetweenCalls
<1>9. QED
  BY <1>3, <1>4, <1>5, <1>6, <1>7, <1>8 DEF BuildCall

LEMMA GoodsOnlyShape ==
  ASSUME RuntimeTypeOK, GoodsOnly, call' = NoCall,
         fleet' \in Seq(Caravans), stores' \in [SettlementId -> Storages], FleetStep
  PROVE  StepShape
<1>1. TypeOK' /\ WorldTypeOK' /\ RoadStep
  BY DEF GoodsOnly, RuntimeTypeOK, TypeOK, WorldTypeOK, RoadStep
<1>2. BookStep
  BY DEF GoodsOnly, BookStep, BookOnly
<1>3. QED
  BY <1>1, <1>2, BetweenCalls

LEMMA ReloadShape ==
  ASSUME RuntimeTypeOK, GoodsOnly, call' = NoCall, NEW p \in DOMAIN fleet,
         NEW cargo \in Storages, Reloading(p, cargo), stores' \in [SettlementId -> Storages]
  PROVE  StepShape
<1>1. fleet \in Seq(Caravans) /\ fleet[p] \in Caravans
  BY DEF RuntimeTypeOK, TypeOK
<1>2. [fleet[p] EXCEPT !.cargo = cargo] \in Caravans
  BY <1>1, ReloadedType
<1>3. fleet' \in Seq(Caravans)
  BY <1>1, <1>2 DEF Reloading, WithCargo
<1>4. FleetStep
  BY DEF FleetStep
<1>5. QED
  BY <1>3, <1>4, GoodsOnlyShape

LEMMA OneAmountChanged ==
  ASSUME NEW cargo \in Storages, NEW r \in Resource, NEW n
  PROVE  SameButOne(Put(cargo, r, n), cargo) /\ SameButOne(Take(cargo, r, n), cargo)
BY DEF SameButOne, Put, Take, Storages

LEMMA GoodsShape ==
  ASSUME RuntimeTypeOK, GoodsCall, call' = NoCall
  PROVE  StepShape
<1>1. TypeOK /\ WorldTypeOK
  BY DEF RuntimeTypeOK
<1>2. stores \in [SettlementId -> Storages] /\ settlements \subseteq SettlementId
  BY <1>1 DEF WorldTypeOK
<1>3. ASSUME StoresOnly, stores' \in [SettlementId -> Storages] PROVE StepShape
  <2>1. TypeOK' /\ WorldTypeOK' /\ RoadStep
    BY <1>1, <1>3 DEF StoresOnly, vars, TypeOK, WorldTypeOK, RoadStep
  <2>2. BookStep /\ FleetStep
    BY <1>3 DEF StoresOnly, vars, BookStep, BookOnly, FleetStep
  <2>3. QED
    BY <2>1, <2>2, BetweenCalls
<1>4. ASSUME NEW s \in settlements, NEW r \in Resource, NEW n \in U64,
             AddResource(s, r, n) \/ RemoveResource(s, r, n)
      PROVE  StepShape
  <2>1. stores[s] \in Storages
    BY <1>2
  <2>2. stores' \in [SettlementId -> Storages] /\ StoresOnly
    <3>1. CASE AddResource(s, r, n)
      BY <1>2, <2>1, <3>1, PutType DEF AddResource, CanPut
    <3>2. CASE RemoveResource(s, r, n)
      BY <1>2, <2>1, <3>2, TakeType DEF RemoveResource
    <3>3. QED
      BY <1>4, <3>1, <3>2
  <2>3. QED
    BY <1>3, <2>2
<1>5. ASSUME NEW s \in settlements, NEW t \in settlements, NEW r \in Resource, NEW n \in U64,
             TransferResource(s, t, r, n)
      PROVE  StepShape
  <2>1. stores[s] \in Storages /\ stores[t] \in Storages
    BY <1>2
  <2>2. Take(stores[s], r, n) \in Storages /\ Put(stores[t], r, n) \in Storages
    BY <1>5, <2>1, PutType, TakeType DEF TransferResource, CanPut
  <2>3. stores' \in [SettlementId -> Storages] /\ StoresOnly
    BY <1>2, <1>5, <2>2 DEF TransferResource
  <2>4. QED
    BY <1>3, <2>3
<1>6. ASSUME NEW p \in DOMAIN fleet, NEW r \in Resource, NEW n \in U64, Load(p, r, n)
      PROVE  StepShape
  <2> DEFINE c == fleet[p]
  <2>1. c.cargo \in Storages /\ c.origin \in SettlementId
    BY <1>1, CaravanFields
  <2>2. stores[c.origin] \in Storages
    BY <1>2, <2>1
  <2>3. Take(stores[c.origin], r, n) \in Storages /\ Put(c.cargo, r, n) \in Storages
    BY <1>6, <2>1, <2>2, PutType, TakeType DEF Load, CanPut
  <2>4. stores' \in [SettlementId -> Storages] /\ GoodsOnly
    BY <1>2, <1>6, <2>1, <2>3 DEF Load
  <2>5. Reloading(p, Put(c.cargo, r, n))
    BY <1>6, <2>1, OneAmountChanged DEF Load, Reloading
  <2>6. QED
    BY <2>3, <2>4, <2>5, ReloadShape
<1>7. ASSUME NEW p \in DOMAIN fleet, NEW r \in Resource, NEW n \in U64, Unload(p, r, n)
      PROVE  StepShape
  <2> DEFINE c == fleet[p]
  <2>1. c.cargo \in Storages /\ c.destination \in SettlementId
    BY <1>1, CaravanFields
  <2>2. stores[c.destination] \in Storages
    BY <1>2, <2>1
  <2>3. Put(stores[c.destination], r, n) \in Storages /\ Take(c.cargo, r, n) \in Storages
    BY <1>7, <2>1, <2>2, PutType, TakeType DEF Unload, CanPut
  <2>4. stores' \in [SettlementId -> Storages] /\ GoodsOnly
    BY <1>2, <1>7, <2>1, <2>3 DEF Unload
  <2>5. Reloading(p, Take(c.cargo, r, n))
    BY <1>7, <2>1, OneAmountChanged DEF Unload, Reloading
  <2>6. QED
    BY <2>3, <2>4, <2>5, ReloadShape
<1>8. ASSUME NEW p \in DOMAIN fleet, Deliver(p) PROVE StepShape
  <2> DEFINE c == fleet[p]
             d == DeliveryOf(c, stores[c.destination])
  <2>1. c \in Caravans /\ c.destination \in SettlementId
    BY <1>1, CaravanFields
  <2>2. stores[c.destination] \in Storages
    BY <1>2, <2>1
  <2>3. /\ d.cargo \in Storages /\ d.store \in Storages
        /\ IsEmpty(d.cargo) \/ d.cargo = c.cargo
    <3> HIDE DEF c
    <3>1. QED
      BY <2>1, <2>2, DeliveryWhole
  <2>4. /\ fleet' = WithCargo(p, d.cargo)
        /\ stores' = [stores EXCEPT ![c.destination] = d.store]
        /\ GoodsOnly
    BY <1>8 DEF Deliver
  <2> HIDE DEF d
  <2>5. stores' \in [SettlementId -> Storages]
    BY <1>2, <2>1, <2>3, <2>4
  <2>6. Food \in Resource
    BY RuntimeAssumption
  <2>7. Reloading(p, d.cargo)
    BY <2>3, <2>4, <2>6 DEF Reloading, SameButOne
  <2>8. QED
    BY <2>3, <2>4, <2>5, <2>7, ReloadShape
<1>9. ASSUME DeliverAll PROVE StepShape
  <2>1. Bulk \in BulkStates
    BY <1>1, BulkWhole
  <2>2. fleet' = Bulk.fleet /\ stores' = Bulk.stores /\ GoodsOnly
    BY <1>9 DEF DeliverAll
  <2>3. fleet' \in [DOMAIN fleet -> Caravans] /\ stores' \in [SettlementId -> Storages]
    BY <2>1, <2>2 DEF BulkStates
  <2>4. DOMAIN fleet = 1 .. Len(fleet) /\ Len(fleet) \in Nat
    BY <1>1 DEF TypeOK
  <2>5. fleet' \in Seq(Caravans)
    BY <2>3, <2>4, IsASeq
  <2>6. FleetStep
    BY <2>2 DEF FleetStep
  <2>7. QED
    BY <2>2, <2>3, <2>5, <2>6, GoodsOnlyShape
<1>10. QED
  BY <1>4, <1>5, <1>6, <1>7, <1>8, <1>9 DEF GoodsCall

(* A settlement takes one resource of the contract out of one caravan.     *)
LEMMA CaravanSettles ==
  ASSUME RuntimeTypeOK, NEW i \in DOMAIN catalog, NEW mode, NEW p \in DOMAIN fleet,
         FulfillFromArrivedCaravan(i, p, mode)
  PROVE  TypeOK' /\ BookStep /\ FleetStep
<1>1. TypeOK /\ catalog[i] \in ContractRecords
  BY DEF RuntimeTypeOK, TypeOK
<1>2. TypeOK'
  BY <1>1, CaravanFulfilsType
<1>3. BookStep
  BY SettleIsBookStep DEF FulfillFromArrivedCaravan, CanSettleFromCaravan
<1>4. /\ fleet[p].cargo \in Storages
      /\ catalog[i].resource \in Resource /\ catalog[i].quantity \in U64
  BY <1>1, CaravanFields DEF ContractRecords
<1>5. Delivered(i, fleet[p].cargo) \in Storages
  BY <1>4, TakeType DEF Delivered, FulfillFromArrivedCaravan, CanSettleFromCaravan, CanSettle
<1>6. Reloading(p, Delivered(i, fleet[p].cargo))
  BY <1>4, OneAmountChanged DEF FulfillFromArrivedCaravan, Reloading, WithCargo, Delivered
<1>7. FleetStep
  BY <1>5, <1>6 DEF FleetStep
<1>8. QED
  BY <1>2, <1>3, <1>7

LEMMA WorldStays ==
  ASSUME RuntimeTypeOK, UNCHANGED worldVars, call' = NoCall, TypeOK', BookStep, FleetStep
  PROVE  StepShape
<1>1. WorldTypeOK' /\ RoadStep
  BY DEF RuntimeTypeOK, worldVars, WorldTypeOK, RoadStep
<1>2. QED
  BY <1>1, BetweenCalls

LEMMA BookShape ==
  ASSUME RuntimeTypeOK, BookCall, call' = NoCall
  PROVE  StepShape
<1>1. TypeOK /\ UNCHANGED worldVars
  BY DEF RuntimeTypeOK, BookCall
<1>2. ASSUME Next, fleet' = fleet PROVE StepShape
  <2>1. TypeOK' /\ BookStep
    BY <1>1, <1>2, TypeStep, EveryStepIsBookStep
  <2>2. FleetStep
    BY <1>2 DEF FleetStep
  <2>3. QED
    BY <1>1, <2>1, <2>2, WorldStays
<1>3. ASSUME NEW i \in DOMAIN catalog, ContractCall(i) PROVE StepShape
  <2>1. Next
    BY <1>3 DEF Next
  <2>2. ASSUME NEW status, MarkContract(i, status) PROVE StepShape
    BY <1>2, <2>1, <2>2 DEF MarkContract
  <2>3. ASSUME NEW mode, FulfillFromStorage(i, mode) PROVE StepShape
    BY <1>2, <2>1, <2>3 DEF FulfillFromStorage
  <2>4. ASSUME NEW mode, NEW p \in DOMAIN fleet, FulfillFromArrivedCaravan(i, p, mode)
        PROVE  StepShape
    BY <1>1, <2>4, CaravanSettles, WorldStays
  <2>5. QED
    BY <1>3, <2>2, <2>3, <2>4 DEF ContractCall, FulfillFromOwnedCaravan
<1>4. ASSUME NEW t \in U64, FailOverdue(t) PROVE StepShape
  <2>1. Next /\ fleet' = fleet
    BY <1>4 DEF Next, FailOverdue
  <2>2. QED
    BY <1>2, <2>1
<1>5. QED
  BY <1>3, <1>4 DEF BookCall

LEMMA FirstShape ==
  ASSUME RuntimeTypeOK, NEW p \in DOMAIN fleet, NEW f, FulfillFirst(p, f), call' = NoCall
  PROVE  StepShape
<1>1. PICK i \in DOMAIN catalog : FulfillFromArrivedCaravan(i, p, "ledger")
  BY DEF FulfillFirst
<1>2. UNCHANGED worldVars
  BY DEF FulfillFirst
<1>3. TypeOK' /\ BookStep /\ FleetStep
  BY <1>1, CaravanSettles
<1>4. QED
  BY <1>2, <1>3, WorldStays

-----------------------------------------------------------------------------
(* The calls that run the clock.                                           *)

(* The report names the first caravan, in fleet order, that arrived.       *)
LEMMA SettlingNames ==
  ASSUME TypeOK, NEW s \in RunStates, s.arrived # {}, NEW f \in Faction
  PROVE  /\ Settling(s, f).faction = f
         /\ Settling(s, f).caravan \in s.arrived
<1>1. s.arrived \subseteq DOMAIN fleet
  BY DEF RunStates
<1>2. s.arrived \subseteq Nat
  BY <1>1 DEF TypeOK
<1>3. \E p \in s.arrived : \A q \in s.arrived : p <= q
  BY <1>2, LeastNumber
<1>4. QED
  BY <1>3 DEF Settling

LEMMA RunType ==
  ASSUME RuntimeTypeOK, NEW s \in RunStates, Reach(s)
  PROVE  /\ TypeOK' /\ WorldTypeOK' /\ RoadStep
         /\ DOMAIN fleet' = DOMAIN fleet
         /\ DOMAIN catalog' = DOMAIN catalog
<1>1. TypeOK /\ WorldTypeOK
  BY DEF RuntimeTypeOK
<1>2. /\ DOMAIN fleet = 1 .. Len(fleet) /\ Len(fleet) \in Nat
      /\ DOMAIN catalog = 1 .. Len(catalog) /\ Len(catalog) \in Nat
  BY <1>1 DEF TypeOK
<1>3. /\ tick' \in U64 /\ day' \in U64 /\ stores' \in [SettlementId -> Storages]
      /\ fleet' \in [DOMAIN fleet -> Caravans]
      /\ catalog' \in [DOMAIN catalog -> ContractRecords]
  BY DEF RunStates, Reach
<1>4. fleet' \in Seq(Caravans) /\ catalog' \in Seq(ContractRecords)
  BY <1>2, <1>3, IsASeq
<1>5. /\ owner' = owner /\ wallet' = wallet /\ ledger' = ledger /\ depot' = depot
      /\ settlements' = settlements /\ routes' = routes /\ factions' = factions
  BY DEF Reach
<1>6. TypeOK'
  BY <1>1, <1>3, <1>4, <1>5 DEF TypeOK
<1>7. WorldTypeOK' /\ RoadStep
  BY <1>1, <1>3, <1>5 DEF WorldTypeOK, RoadStep
<1>8. QED
  BY <1>3, <1>6, <1>7

LEMMA RunShape ==
  ASSUME RuntimeTypeOK, NEW s \in RunStates, Outcome(s), Reach(s),
         call' = NoCall \/ \E f \in Faction : call' = Settling(s, f)
  PROVE  StepShape
<1>1. TypeOK
  BY DEF RuntimeTypeOK
<1>2. /\ TypeOK' /\ WorldTypeOK' /\ RoadStep
      /\ DOMAIN fleet' = DOMAIN fleet /\ DOMAIN catalog' = DOMAIN catalog
  BY RunType
<1>3. /\ tick' = s.tick /\ fleet' = s.fleet /\ catalog' = s.catalog /\ ledger' = ledger
  BY DEF Reach
<1>4. CASE s.arrived = {} /\ fleet' = fleet /\ catalog' = catalog
  <2>1. call' = NoCall
    BY <1>4 DEF Settling
  <2>2. BookStep /\ FleetStep
    BY <1>3, <1>4 DEF BookStep, BookOnly, FleetStep
  <2>3. QED
    BY <1>2, <2>1, <2>2, BetweenCalls
<1>5. ASSUME Moved(s), \A i \in DOMAIN catalog : ~IsOverdue(s.catalog[i], s.tick),
             \A p \in s.arrived : Arrived(s.fleet[p])
      PROVE  StepShape
  <2>1. PICK ticks \in Nat : Reached(s, ticks)
    BY <1>5 DEF Moved
  <2>2. AdvanceTime(tick, ticks) \in U64
    BY <1>1, ClockAddsUp DEF TypeOK
  <2>3. BookStep
    BY <1>3, <2>1, <2>2 DEF Reached, FailedAt, BookStep, BookOnly
  <2>4. FleetStep
    BY <1>3, <2>1 DEF Reached, Travelling, FleetStep
  <2>5. CallTypeOK' /\ CallReal'
    <3>1. CASE call' = NoCall
      BY <3>1 DEF CallTypeOK, CallReal
    <3>2. ASSUME NEW f \in Faction, call' = Settling(s, f), call' # NoCall
          PROVE  CallTypeOK' /\ CallReal'
      <4>1. s.arrived # {}
        BY <3>2 DEF Settling
      <4>2. call'.faction = f /\ call'.caravan \in s.arrived
        BY <1>1, <3>2, <4>1, SettlingNames
      <4>3. s.arrived \subseteq DOMAIN fleet
        BY DEF RunStates
      <4>4. CallTypeOK'
        BY <1>2, <3>2, <4>2, <4>3 DEF CallTypeOK
      <4>5. CallReal'
        BY <1>2, <1>3, <1>5, <4>2 DEF CallReal
      <4>6. QED
        BY <4>4, <4>5
    <3>3. QED
      BY <3>1, <3>2
  <2>6. QED
    BY <1>2, <2>3, <2>4, <2>5 DEF StepShape, RuntimeTypeOK
<1>6. QED
  BY <1>3, <1>4, <1>5 DEF Outcome

LEMMA TimeShape ==
  ASSUME RuntimeTypeOK, TimeCall, call' = NoCall
  PROVE  StepShape
<1>1. TypeOK /\ WorldTypeOK
  BY DEF RuntimeTypeOK
<1>2. ASSUME NEW p \in DOMAIN fleet, AdvanceCaravanDay(p) PROVE StepShape
  <2>1. TicksPerDay \in U64 /\ fleet \in Seq(Caravans) /\ fleet[p] \in Caravans
    BY <1>1, WidthAssumption DEF U64, TypeOK
  <2>2. Advance(fleet[p], TicksPerDay) \in Caravans
    BY <2>1, AdvanceType
  <2>3. fleet' = [fleet EXCEPT ![p] = Advance(fleet[p], TicksPerDay)]
        /\ UNCHANGED <<tick, owner, catalog, wallet, ledger, depot, worldVars>>
    BY <1>2 DEF AdvanceCaravanDay
  <2>4. fleet' \in Seq(Caravans)
    BY <2>1, <2>2, <2>3
  <2>5. TypeOK' /\ UNCHANGED worldVars
    BY <1>1, <2>3, <2>4 DEF TypeOK
  <2>6. BookStep /\ FleetStep
    BY <2>3 DEF BookStep, BookOnly, FleetStep
  <2>7. QED
    BY <2>5, <2>6, WorldStays
<1>3. ASSUME NEW total \in U64, NEW step \in U64, RunTicks(total, step) PROVE StepShape
  <2>1. Reach(TickRun(total, step, FALSE))
    BY <1>3 DEF RunTicks
  <2>2. TickRun(total, step, FALSE) \in RunStates /\ Outcome(TickRun(total, step, FALSE))
    BY <1>1, TickRunOutcome
  <2>3. QED
    BY <2>1, <2>2, RunShape
<1>4. ASSUME NEW days \in U64, RunDays(days) PROVE StepShape
  <2>1. Reach(DayRun(days, FALSE))
    BY <1>4 DEF RunDays
  <2>2. DayRun(days, FALSE) \in RunStates /\ Outcome(DayRun(days, FALSE))
    BY <1>1, DayRunOutcome
  <2>3. QED
    BY <2>1, <2>2, RunShape
<1>5. QED
  BY <1>2, <1>3, <1>4 DEF TimeCall

LEMMA ArrivalShape ==
  ASSUME RuntimeTypeOK, ArrivalCall
  PROVE  StepShape
<1>1. TypeOK /\ WorldTypeOK
  BY DEF RuntimeTypeOK
<1>2. ASSUME NEW f \in Faction, NEW max \in U64, NEW step \in U64, RunUntilArrival(max, step, f)
      PROVE  StepShape
  <2>1. Reach(TickRun(max, step, TRUE)) /\ call' = Settling(TickRun(max, step, TRUE), f)
    BY <1>2 DEF RunUntilArrival
  <2>2. TickRun(max, step, TRUE) \in RunStates /\ Outcome(TickRun(max, step, TRUE))
    BY <1>1, TickRunOutcome
  <2>3. QED
    BY <2>1, <2>2, RunShape
<1>3. ASSUME NEW f \in Faction, NEW days \in U64, RunUntilArrivalDays(days, f) PROVE StepShape
  <2>1. Reach(DayRun(days, TRUE)) /\ call' = Settling(DayRun(days, TRUE), f)
    BY <1>3 DEF RunUntilArrivalDays
  <2>2. DayRun(days, TRUE) \in RunStates /\ Outcome(DayRun(days, TRUE))
    BY <1>1, DayRunOutcome
  <2>3. QED
    BY <2>1, <2>2, RunShape
<1>4. QED
  BY <1>2, <1>3 DEF ArrivalCall

LEMMA SettledShape ==
  ASSUME RuntimeTypeOK, FulfillArrival
  PROVE  StepShape
<1>1. call # NoCall /\ call' = NoCall
  BY DEF FulfillArrival
<1>2. call.caravan \in DOMAIN fleet
  BY <1>1 DEF RuntimeTypeOK, CallTypeOK
<1>3. CASE FulfillFirst(call.caravan, call.faction)
  BY <1>1, <1>2, <1>3, FirstShape
<1>4. CASE UNCHANGED <<vars, worldVars>>
  <2>1. UNCHANGED vars /\ UNCHANGED worldVars
    BY <1>4
  <2>2. TypeOK' /\ BookStep /\ FleetStep
    BY <2>1 DEF RuntimeTypeOK, vars, TypeOK, BookStep, BookOnly, FleetStep
  <2>3. QED
    BY <1>1, <2>1, <2>2, WorldStays
<1>5. QED
  BY <1>3, <1>4 DEF FulfillArrival

(* Every step of the runtime, and the step that changes nothing.           *)
LEMMA EveryShape ==
  ASSUME RuntimeTypeOK, CallReal, [RuntimeNext]_runtimeVars
  PROVE  StepShape
<1>1. CASE UNCHANGED runtimeVars
  <2>1. /\ UNCHANGED vars /\ UNCHANGED worldVars /\ call' = call
    BY <1>1 DEF runtimeVars
  <2>2. RuntimeTypeOK'
    BY <2>1 DEF RuntimeTypeOK, vars, worldVars, TypeOK, WorldTypeOK, CallTypeOK
  <2>3. CallReal'
    BY <2>1 DEF vars, CallReal
  <2>4. BookStep /\ FleetStep /\ RoadStep
    BY <2>1 DEF vars, worldVars, BookStep, BookOnly, FleetStep, RoadStep
  <2>5. QED
    BY <2>2, <2>3, <2>4 DEF StepShape
<1>2. CASE RuntimeNext
  BY <1>2, BuildShape, GoodsShape, BookShape, TimeShape, FirstShape, ArrivalShape, SettledShape
     DEF RuntimeNext
<1>3. QED
  BY <1>1, <1>2

LEMMA RuntimeStart == RuntimeInit => RuntimeTypeOK /\ CallReal
<1> SUFFICES ASSUME RuntimeInit PROVE RuntimeTypeOK /\ CallReal
  OBVIOUS
<1>1. TypeOK
  BY TypeInit DEF RuntimeInit
<1>2. PICK w \in InitialWorlds : /\ settlements = w.settlements /\ stores = w.stores
                                 /\ routes = w.routes /\ factions = w.factions
  BY DEF RuntimeInit
<1>3. /\ w.settlements \subseteq SettlementId /\ w.stores \in [SettlementId -> Storages]
      /\ w.routes \in Seq(Routes) /\ w.factions \subseteq Faction
  BY RuntimeAssumption
<1>4. day \in U64 /\ call = NoCall
  BY WidthAssumption DEF RuntimeInit, U64
<1>5. QED
  BY <1>1, <1>2, <1>3, <1>4 DEF RuntimeTypeOK, WorldTypeOK, CallTypeOK, CallReal

LEMMA RuntimeStep == RuntimeTypeOK /\ CallReal /\ [RuntimeNext]_runtimeVars => RuntimeTypeOK' /\ CallReal'
BY EveryShape DEF StepShape

(* Whatever the host calls, settlements, stores, routes, caravans and the  *)
(* clock keep their types and widths, through every run of the clock and   *)
(* every delivery that is rolled back; and the arrival a run stopped at    *)
(* is an arrival of the fleet.                                             *)
THEOREM RuntimeTypeCorrect == RuntimeSpec => [](RuntimeTypeOK /\ CallReal)
BY RuntimeStart, RuntimeStep, PTL DEF RuntimeSpec

(* run_runtime_ticks reaches the same clock, fleet and catalog whatever    *)
(* the size of its steps, and a run until the first arrival misses none    *)
(* and stops less than one step late, in every world a host can build and  *)
(* for every span and step size.                                           *)
THEOREM AnyStepSizeWillDo == RuntimeSpec => []StepSizeIrrelevant
<1>1. RuntimeTypeOK => StepSizeIrrelevant
  BY StepSizeStep DEF RuntimeTypeOK
<1>2. QED
  BY <1>1, RuntimeTypeCorrect, PTL

-----------------------------------------------------------------------------
(* Deliveries.                                                             *)

LEMMA CargoKept ==
  ASSUME TypeOK, NEW p \in DOMAIN fleet, NEW ticks
  PROVE  Advance(fleet[p], ticks).cargo = fleet[p].cargo
<1>1. fleet[p] \in Caravans
  BY DEF TypeOK
<1>2. QED
  BY <1>1 DEF Advance, Caravans

LEMMA FleetStepUnloadsWhole ==
  ASSUME TypeOK, WorldTypeOK, FleetStep
  PROVE  UnloadsWhole
<1>1. fleet \in Seq(Caravans) /\ DOMAIN fleet = 1 .. Len(fleet) /\ Len(fleet) \in Nat
  BY DEF TypeOK
<1>2. ASSUME \A p \in DOMAIN fleet : ~CargoChanged(p) PROVE UnloadsWhole
  BY <1>2 DEF UnloadsWhole
<1>3. CASE fleet' = fleet
  BY <1>2, <1>3 DEF CargoChanged
<1>4. ASSUME NEW k \in DOMAIN routes, NEW id \in CaravanId, NEW cargo \in Cargoes,
             CreateCaravan(k, id, cargo)
      PROVE  UnloadsWhole
  <2> DEFINE c == CaravanForRoute(routes[k], id, cargo)
  <2>1. routes[k] \in Routes
    BY DEF WorldTypeOK
  <2>2. c \in Caravans /\ fleet' = Append(fleet, c)
    BY <1>4, <2>1, NewCaravanType DEF CreateCaravan
  <2> HIDE DEF c
  <2>3. \A p \in DOMAIN fleet : fleet'[p] = fleet[p]
    BY <1>1, <2>2
  <2>4. QED
    BY <1>2, <2>3 DEF CargoChanged
<1>5. ASSUME NEW ticks \in Nat, Travelling(ticks) PROVE UnloadsWhole
  BY <1>2, <1>5, CargoKept DEF Travelling, CargoChanged
<1>6. ASSUME NEW p \in DOMAIN fleet, fleet' = [fleet EXCEPT ![p] = Advance(fleet[p], TicksPerDay)]
      PROVE  UnloadsWhole
  <2>1. \A q \in DOMAIN fleet : fleet'[q] = IF q = p THEN Advance(fleet[p], TicksPerDay) ELSE fleet[q]
    BY <1>6
  <2>2. QED
    BY <1>2, <2>1, CargoKept DEF CargoChanged
<1>7. ASSUME NEW p \in DOMAIN fleet, NEW cargo \in Storages, Reloading(p, cargo)
      PROVE  UnloadsWhole
  <2>1. fleet[p] \in Caravans
    BY <1>1
  <2>2. fleet'[p].cargo = cargo /\ \A q \in DOMAIN fleet : q # p => fleet'[q] = fleet[q]
    BY <1>7, <2>1, ReloadedType DEF Reloading, WithCargo
  <2>3. \A q \in DOMAIN fleet : CargoChanged(q) => q = p
    BY <2>2 DEF CargoChanged
  <2>4. EmptiedBy(p) \/ SameButOne(fleet'[p].cargo, fleet[p].cargo)
    BY <1>7, <2>2 DEF Reloading, EmptiedBy
  <2>5. QED
    BY <2>3, <2>4 DEF UnloadsWhole, SameButOne
<1>8. CASE fleet' = Bulk.fleet
  <2>1. BulkSoFar(Bulk, Len(fleet))
    BY BulkWhole
  <2>2. ASSUME NEW p \in DOMAIN fleet, CargoChanged(p)
        PROVE  /\ EmptiedBy(p)
               /\ \A q \in 1 .. p - 1 : Deliverable(fleet[q]) => EmptiedBy(q)
    BY <1>8, <2>1, <2>2 DEF BulkSoFar, CargoChanged, EmptiedBy
  <2>3. QED
    BY <2>2 DEF UnloadsWhole
<1>9. QED
  BY <1>3, <1>4, <1>5, <1>6, <1>7, <1>8 DEF FleetStep

(* deliver_runtime_arrived_caravan_cargo_to_destination and the bulk       *)
(* delivery over the whole fleet, and every other call: a caravan that     *)
(* loses several resources in a step is empty after it, and a bulk         *)
(* delivery that stops has emptied a prefix of what it could deliver.      *)
THEOREM DeliveriesAreWhole == RuntimeSpec => DeliveredWhole
<1>1. RuntimeTypeOK /\ CallReal /\ [RuntimeNext]_runtimeVars => [UnloadsWhole]_runtimeVars
  BY EveryShape, FleetStepUnloadsWhole DEF StepShape, RuntimeTypeOK
<1>2. QED
  BY <1>1, RuntimeTypeCorrect, PTL DEF RuntimeSpec, DeliveredWhole

-----------------------------------------------------------------------------
(* What the runtime inherits from the contract book: all its steps are     *)
(* steps of the book.                                                      *)

RuntimeBook == BookValid /\ UniqueContracts /\ LedgerNumbered /\ OneRewardPerContract

LEMMA RuntimeBookStart == RuntimeInit => RuntimeBook
<1> SUFFICES ASSUME RuntimeInit PROVE RuntimeBook
  OBVIOUS
<1>1. Init
  BY DEF RuntimeInit
<1>2. BookValid /\ UniqueContracts
  BY <1>1 DEF Init, BookValid, UniqueContracts
<1>3. OneRewardPerContract
  BY <1>1 DEF Init, EmptyLedger, OneRewardPerContract, Rewards
<1>4. QED
  BY <1>1, <1>2, <1>3, LedgerNumberedInit DEF RuntimeBook

LEMMA RuntimeBookStep ==
  RuntimeTypeOK /\ CallReal /\ RuntimeBook /\ [RuntimeNext]_runtimeVars => RuntimeBook'
<1> SUFFICES ASSUME RuntimeTypeOK, CallReal, RuntimeBook, [RuntimeNext]_runtimeVars
             PROVE  RuntimeBook'
  OBVIOUS
<1>1. TypeOK /\ TypeOK' /\ BookStep
  BY EveryShape DEF StepShape, RuntimeTypeOK
<1>2. QED
  BY <1>1, BookValidStep, UniqueStep, LedgerNumberedStep, OneRewardStep DEF RuntimeBook

(* Whatever else a runtime does between two settlements, by hand or by     *)
(* fulfill_first_..._for_owned_arrived_caravan after a run: no contract is *)
(* rewarded twice, contract ids stay unique, every contract of the book is *)
(* valid, and the ledger can be saved and restored.                        *)
THEOREM RuntimeKeepsTheBook ==
  RuntimeSpec => [](OneRewardPerContract /\ UniqueContracts /\ LedgerSurvivesRestore /\ BookValid)
<1>1. RuntimeTypeOK /\ RuntimeBook =>
        OneRewardPerContract /\ UniqueContracts /\ LedgerSurvivesRestore /\ BookValid
  BY NumberedSurvives DEF RuntimeTypeOK, RuntimeBook
<1>2. QED
  BY <1>1, RuntimeBookStart, RuntimeBookStep, RuntimeTypeCorrect, PTL DEF RuntimeSpec

(* A run of many steps, the sweep of the overdue contracts in each of them *)
(* and the settlement after it never move a contract that has ended.       *)
THEOREM RuntimeContractsAreFinal == RuntimeSpec => TerminalIsFinal
<1>1. RuntimeTypeOK /\ CallReal /\ [RuntimeNext]_runtimeVars => [CatalogKept]_vars
  BY EveryShape, BookStepKeepsCatalog DEF StepShape, RuntimeTypeOK
<1>2. QED
  BY <1>1, RuntimeTypeCorrect, PTL DEF RuntimeSpec, TerminalIsFinal

-----------------------------------------------------------------------------
(* The automatic settlement.                                               *)

LEMMA PassedOver ==
  ASSUME RuntimeTypeOK, BookValid, NEW p \in DOMAIN fleet, NEW f,
         NEW j \in DOMAIN catalog, Settles(j, p, f),
         NEW i \in DOMAIN catalog, ~Settles(i, p, f), IsOpen(catalog[i])
  PROVE  \/ fleet[p].cargo[catalog[i].resource] < catalog[i].quantity
         \/ ~CanAdd(wallet, catalog[i].reward)
<1>1. OwnedBy(p, f) /\ Arrived(fleet[p]) /\ CanNumber(ledger)
  BY DEF Settles, CanSettleFromCaravan, CanSettle, CanRecordReward
<1>2. catalog[i].quantity > 0 /\ catalog[i].reward > 0
  BY DEF BookValid, ValidContract
<1>3. ~CanTake(fleet[p].cargo, catalog[i].resource, catalog[i].quantity)
        \/ ~CanAdd(wallet, catalog[i].reward)
  BY <1>1, <1>2 DEF Settles, CanSettleFromCaravan, CanSettle, CanRecordReward, PayingModes
<1>4. catalog[i].resource \in Resource /\ catalog[i].quantity \in U64
      /\ fleet[p].cargo[catalog[i].resource] \in U64
  <2>1. catalog[i] \in ContractRecords /\ fleet[p].cargo \in Storages
    BY CaravanFields DEF RuntimeTypeOK, TypeOK
  <2>2. QED
    BY <2>1 DEF ContractRecords, Storages
<1>5. QED
  BY <1>2, <1>3, <1>4 DEF CanTake, U64

LEMMA SettlementServesTheOldest ==
  ASSUME RuntimeTypeOK, CallReal, BookValid, [RuntimeNext]_runtimeVars
  PROVE  ServesTheOldest
<1> SUFFICES ASSUME call # NoCall PROVE ServesTheOldest
  BY DEF ServesTheOldest
<1>1. Arrived(fleet[call.caravan]) /\ \A i \in DOMAIN catalog : ~IsOverdue(catalog[i], tick)
  BY DEF CallReal
<1>2. ASSUME catalog' = catalog PROVE ServesTheOldest
  BY <1>1, <1>2 DEF ServesTheOldest
<1>3. ASSUME FulfillFirst(call.caravan, call.faction) PROVE ServesTheOldest
  <2> DEFINE p == call.caravan
             f == call.faction
  <2>1. PICK k \in DOMAIN catalog :
          /\ Settles(k, p, f)
          /\ \A i \in 1 .. k - 1 : ~Settles(i, p, f)
          /\ FulfillFromArrivedCaravan(k, p, "ledger")
    BY <1>3 DEF FulfillFirst
  <2>2. catalog' = WithStatus(k, "fulfilled")
    BY <2>1 DEF FulfillFromArrivedCaravan, SettleBooks
  <2>3. p \in DOMAIN fleet /\ DOMAIN catalog = 1 .. Len(catalog) /\ Len(catalog) \in Nat
    BY DEF RuntimeTypeOK, CallTypeOK, TypeOK
  <2>4. ASSUME NEW j \in DOMAIN catalog, IsOpen(catalog[j]), ~IsOpen(catalog'[j]),
               NEW i \in 1 .. j - 1, IsOpen(catalog[i])
        PROVE  OutOfReach(i)
    <3>1. j = k
      BY <2>2, <2>4 DEF WithStatus
    <3>2. i \in DOMAIN catalog
      BY <2>3
    <3>3. ~Settles(i, p, f)
      BY <2>1, <3>1
    <3>4. QED
      BY <2>1, <2>3, <2>4, <3>2, <3>3, PassedOver DEF OutOfReach
  <2>5. QED
    BY <1>1, <2>4 DEF ServesTheOldest
<1>4. QED
  BY <1>2, <1>3 DEF RuntimeNext, FulfillArrival, runtimeVars, vars

(* run_runtime_until_first_caravan_arrival_and_fulfill_contract settles    *)
(* the arrival its run reported, after the run has failed every overdue    *)
(* contract, and passes over an older open contract only if the cargo or   *)
(* the wallet could not settle it.                                         *)
THEOREM TheOldestIsServed == RuntimeSpec => OldestFirst
<1>1. RuntimeTypeOK /\ CallReal /\ BookValid /\ [RuntimeNext]_runtimeVars
        => [ServesTheOldest]_runtimeVars
  BY SettlementServesTheOldest
<1>2. QED
  BY <1>1, RuntimeTypeCorrect, RuntimeKeepsTheBook, PTL DEF RuntimeSpec, OldestFirst

-----------------------------------------------------------------------------
(* Caravans stay on the routes they were created for.                      *)

(* The routes of the catalog join settlements that exist.                  *)
RoadsJoin ==
  \A k \in DOMAIN routes : {routes[k].origin, routes[k].destination} \subseteq settlements

(* A caravan after a step: the same journey, and no more of it to go.      *)
SameJourney(c, d) ==
  /\ d.id = c.id /\ d.route = c.route
  /\ d.origin = c.origin /\ d.destination = c.destination
  /\ TotalTicks(d) = TotalTicks(c)
  /\ TicksLeft(d) <= TicksLeft(c)

JourneysKept ==
  /\ DOMAIN fleet' = DOMAIN fleet
  /\ \A p \in DOMAIN fleet : SameJourney(fleet[p], fleet'[p])

LEMMA AdvanceGoesOn ==
  ASSUME NEW c \in Caravans, NEW ticks \in Nat
  PROVE  SameJourney(c, Advance(c, ticks))
<1>1. TicksLeft(c) \in Nat
  BY TicksLeftType DEF U64
<1>2. TicksLeft(Advance(c, ticks)) <= TicksLeft(c)
  BY <1>1, LeftAfterAdvance DEF AtMost
<1> DEFINE d == Advance(c, ticks)
<1>3. /\ d.id = c.id /\ d.route = c.route /\ d.origin = c.origin
      /\ d.destination = c.destination
      /\ d.totalTicks = c.totalTicks /\ d.totalDays = c.totalDays
  BY DEF Advance, Caravans
<1>4. QED
  BY <1>2, <1>3 DEF SameJourney, TotalTicks

LEMMA ReloadingStays ==
  ASSUME NEW c \in Caravans, NEW cargo
  PROVE  SameJourney(c, [c EXCEPT !.cargo = cargo])
<1> DEFINE d == [c EXCEPT !.cargo = cargo]
<1>1. /\ d.id = c.id /\ d.route = c.route /\ d.origin = c.origin
      /\ d.destination = c.destination
      /\ d.totalTicks = c.totalTicks /\ d.totalDays = c.totalDays
      /\ d.ticksLeft = c.ticksLeft /\ d.daysLeft = c.daysLeft
  BY DEF Caravans
<1>2. TicksLeft(c) \in Nat
  BY TicksLeftType DEF U64
<1>3. TotalTicks(d) = TotalTicks(c) /\ TicksLeft(d) = TicksLeft(c)
  BY <1>1 DEF TotalTicks, TicksLeft
<1>4. QED
  BY <1>1, <1>2, <1>3 DEF SameJourney

LEMMA FleetStepJourneys ==
  ASSUME TypeOK, WorldTypeOK, FleetStep,
         ~ \E k \in DOMAIN routes, id \in CaravanId, cargo \in Cargoes : CreateCaravan(k, id, cargo)
  PROVE  JourneysKept
<1>1. \A p \in DOMAIN fleet : fleet[p] \in Caravans /\ TicksLeft(fleet[p]) \in Nat
  BY TicksLeftType DEF TypeOK, U64
<1>2. fleet \in Seq(Caravans)
  BY DEF TypeOK
<1>3. CASE fleet' = fleet
  BY <1>1, <1>3 DEF JourneysKept, SameJourney
<1>4. ASSUME NEW ticks \in Nat, Travelling(ticks) PROVE JourneysKept
  BY <1>1, <1>4, AdvanceGoesOn DEF Travelling, JourneysKept
<1>5. ASSUME NEW p \in DOMAIN fleet, fleet' = [fleet EXCEPT ![p] = Advance(fleet[p], TicksPerDay)]
      PROVE  JourneysKept
  <2>1. SameJourney(fleet[p], Advance(fleet[p], TicksPerDay))
    BY <1>1, AdvanceGoesOn, WidthAssumption
  <2>2. \A q \in DOMAIN fleet : SameJourney(fleet[q], fleet[q])
    BY <1>1 DEF SameJourney
  <2>3. DOMAIN fleet' = DOMAIN fleet
        /\ \A q \in DOMAIN fleet : fleet'[q] = IF q = p THEN Advance(fleet[p], TicksPerDay) ELSE fleet[q]
    BY <1>5
  <2>4. QED
    BY <2>1, <2>2, <2>3 DEF JourneysKept
<1>6. ASSUME NEW p \in DOMAIN fleet, NEW cargo \in Storages, Reloading(p, cargo)
      PROVE  JourneysKept
  <2>1. SameJourney(fleet[p], [fleet[p] EXCEPT !.cargo = cargo])
    BY <1>1, ReloadingStays
  <2>2. \A q \in DOMAIN fleet : SameJourney(fleet[q], fleet[q])
    BY <1>1 DEF SameJourney
  <2>3. DOMAIN fleet' = DOMAIN fleet
        /\ \A q \in DOMAIN fleet :
             fleet'[q] = IF q = p THEN [fleet[p] EXCEPT !.cargo = cargo] ELSE fleet[q]
    BY <1>6 DEF Reloading, WithCargo
  <2>4. QED
    BY <2>1, <2>2, <2>3 DEF JourneysKept
<1>7. CASE fleet' = Bulk.fleet
  <2>1. Bulk \in BulkStates /\ BulkSoFar(Bulk, Len(fleet))
    BY BulkWhole
  <2>2. DOMAIN fleet' = DOMAIN fleet
    BY <1>7, <2>1 DEF BulkStates
  <2>3. \A p \in DOMAIN fleet : fleet'[p] = [fleet[p] EXCEPT !.cargo = fleet'[p].cargo]
    BY <1>7, <2>1 DEF BulkSoFar
  <2>4. QED
    BY <1>1, <2>2, <2>3, ReloadingStays DEF JourneysKept
<1>8. QED
  BY <1>3, <1>4, <1>5, <1>6, <1>7 DEF FleetStep

LEMMA RoadsOn ==
  ASSUME TypeOK, WorldTypeOK, RoadsJoin, RoadStep
  PROVE  /\ RoadsJoin'
         /\ \A k \in DOMAIN routes : k \in DOMAIN routes' /\ routes'[k] = routes[k]
<1>1. routes \in Seq(Routes) /\ settlements \subseteq settlements'
  BY DEF WorldTypeOK, RoadStep
<1>2. CASE routes' = routes
  BY <1>1, <1>2 DEF RoadsJoin
<1>3. ASSUME NEW route \in RouteOffers, AddRoute(route)
      PROVE  /\ RoadsJoin'
             /\ \A k \in DOMAIN routes : k \in DOMAIN routes' /\ routes'[k] = routes[k]
  <2> DEFINE road == [route EXCEPT !.ticks = RouteTicks(route)]
             n == Len(routes)
  <2>1. route \in Routes /\ road \in Routes
    BY RuntimeAssumption, RouteType
  <2>2. {road.origin, road.destination} \subseteq settlements
    BY <1>3, <2>1 DEF AddRoute, ValidRoute, Routes
  <2>3. routes' = Append(routes, road)
    BY <1>3 DEF AddRoute
  <2> HIDE DEF road
  <2>4. /\ DOMAIN routes' = 1 .. n + 1 /\ DOMAIN routes = 1 .. n /\ n \in Nat
        /\ routes'[n + 1] = road
        /\ \A k \in 1 .. n : routes'[k] = routes[k]
    BY <1>1, <2>1, <2>3
  <2> HIDE DEF n
  <2>5. \A k \in 1 .. n + 1 : k = n + 1 \/ k \in 1 .. n
    BY <2>4
  <2>6. \A k \in DOMAIN routes' : {routes'[k].origin, routes'[k].destination} \subseteq settlements
    BY <2>2, <2>4, <2>5 DEF RoadsJoin
  <2>7. RoadsJoin'
    BY <1>1, <2>6 DEF RoadsJoin
  <2>8. \A k \in 1 .. n : k \in 1 .. n + 1
    BY <2>4
  <2>9. QED
    BY <2>4, <2>7, <2>8
<1>4. QED
  BY <1>2, <1>3 DEF RoadStep

LEMMA OnRouteStep ==
  ASSUME TypeOK, WorldTypeOK, RoadsJoin, RoadStep, NEW c \in Caravans, NEW d \in Caravans,
         OnRoute(c), SameJourney(c, d)
  PROVE  /\ {d.origin, d.destination} \subseteq settlements'
         /\ TicksLeft(d) <= TotalTicks(d)
         /\ \E k \in DOMAIN routes' :
              /\ d.route = routes'[k].id
              /\ d.origin = routes'[k].origin
              /\ d.destination = routes'[k].destination
              /\ TotalTicks(d) = RouteTicks(routes'[k])
<1>1. {d.origin, d.destination} \subseteq settlements'
  BY DEF OnRoute, SameJourney, RoadStep
<1>2. TicksLeft(c) \in Nat /\ TicksLeft(d) \in Nat /\ TotalTicks(c) \in Nat
  <2>1. TotalTicks(c) \in U64
    BY TicksOrType DEF TotalTicks, Caravans
  <2>2. QED
    BY <2>1, TicksLeftType DEF U64
<1>3. TicksLeft(d) <= TotalTicks(d)
  BY <1>2 DEF OnRoute, SameJourney
<1>4. PICK k \in DOMAIN routes :
        /\ c.route = routes[k].id
        /\ c.origin = routes[k].origin
        /\ c.destination = routes[k].destination
        /\ TotalTicks(c) = RouteTicks(routes[k])
  BY DEF OnRoute
<1>5. k \in DOMAIN routes' /\ routes'[k] = routes[k]
  BY RoadsOn
<1>6. QED
  BY <1>1, <1>3, <1>4, <1>5 DEF SameJourney

LEMMA FleetOnRoutesStep ==
  ASSUME RuntimeTypeOK, CallReal, RoadsJoin, FleetOnRoutes, [RuntimeNext]_runtimeVars
  PROVE  FleetOnRoutes' /\ RoadsJoin'
<1>1. /\ TypeOK /\ WorldTypeOK /\ TypeOK' /\ FleetStep /\ RoadStep
  BY EveryShape DEF StepShape, RuntimeTypeOK
<1>2. RoadsJoin'
  BY <1>1, RoadsOn
<1>3. CASE JourneysKept
  <2>1. ASSUME NEW p \in DOMAIN fleet' PROVE OnRoute(fleet[p])'
    <3>1. p \in DOMAIN fleet /\ SameJourney(fleet[p], fleet'[p])
      BY <1>3, <2>1 DEF JourneysKept
    <3>2. fleet[p] \in Caravans /\ fleet'[p] \in Caravans /\ OnRoute(fleet[p])
      BY <1>1, <2>1, <3>1 DEF TypeOK, FleetOnRoutes
    <3>3. QED
      BY <1>1, <3>1, <3>2, OnRouteStep DEF OnRoute
  <2>2. ASSUME NEW p \in DOMAIN fleet', NEW q \in DOMAIN fleet', fleet'[p].id = fleet'[q].id
        PROVE  p = q
    BY <1>3, <2>2 DEF JourneysKept, SameJourney, FleetOnRoutes
  <2>3. QED
    BY <1>2, <2>1, <2>2 DEF FleetOnRoutes
<1>4. ASSUME NEW k \in DOMAIN routes, NEW id \in CaravanId, NEW cargo \in Cargoes,
             CreateCaravan(k, id, cargo)
      PROVE  FleetOnRoutes'
  <2> DEFINE c == CaravanForRoute(routes[k], id, cargo)
             n == Len(fleet)
  <2>1. routes[k] \in Routes /\ fleet \in Seq(Caravans)
    BY <1>1 DEF WorldTypeOK, TypeOK
  <2>2. /\ c \in Caravans /\ c.id = id /\ fleet' = Append(fleet, c)
        /\ \A p \in DOMAIN fleet : fleet[p].id # id
        /\ settlements' = settlements /\ routes' = routes
    BY <1>4, <2>1, NewCaravanType DEF CreateCaravan, CaravanForRoute, worldVars
  <2>3. OnRoute(c)
    <3>1. /\ c.origin = routes[k].origin /\ c.destination = routes[k].destination
          /\ c.route = routes[k].id
          /\ c.totalTicks = RouteTicks(routes[k]) /\ c.ticksLeft = RouteTicks(routes[k])
          /\ c.totalDays = routes[k].days /\ c.daysLeft = routes[k].days
      BY DEF CaravanForRoute
    <3>2. RouteTicks(routes[k]) \in Nat /\ routes[k].days \in Nat
      <4>1. RouteTicks(routes[k]) \in U64 /\ routes[k].days \in U64
        BY <2>1, RouteType DEF Routes
      <4>2. QED
        BY <4>1 DEF U64
    <3>3. TotalTicks(c) = RouteTicks(routes[k]) /\ TicksLeft(c) = RouteTicks(routes[k])
      <4>1. RouteTicks(routes[k]) > 0 \/ DaysToTicks(routes[k].days) = RouteTicks(routes[k])
        BY <3>2 DEF RouteTicks, TicksOr
      <4>2. QED
        BY <3>1, <3>2, <4>1 DEF TotalTicks, TicksLeft, TicksOr
    <3>4. {c.origin, c.destination} \subseteq settlements
      BY <3>1 DEF RoadsJoin
    <3> HIDE DEF c
    <3>5. QED
      BY <3>1, <3>2, <3>3, <3>4 DEF OnRoute
  <2> HIDE DEF c
  <2>4. /\ DOMAIN fleet' = 1 .. n + 1 /\ DOMAIN fleet = 1 .. n /\ n \in Nat
        /\ fleet'[n + 1] = c
        /\ \A p \in 1 .. n : fleet'[p] = fleet[p]
    BY <2>1, <2>2
  <2> HIDE DEF n
  <2>5. \A p \in 1 .. n + 1 : p = n + 1 \/ p \in 1 .. n
    BY <2>4
  <2>6. \A p \in DOMAIN fleet' : OnRoute(fleet[p])'
    BY <2>2, <2>3, <2>4, <2>5 DEF FleetOnRoutes, OnRoute
  <2>7. \A p, q \in DOMAIN fleet' : fleet'[p].id = fleet'[q].id => p = q
    BY <2>2, <2>4, <2>5 DEF FleetOnRoutes
  <2>8. QED
    BY <2>6, <2>7 DEF FleetOnRoutes
<1>5. QED
  BY <1>1, <1>2, <1>3, <1>4, FleetStepJourneys

(* From a world whose routes join settlements that exist and whose         *)
(* caravans are on them, as validate_simulation_world_state demands of a   *)
(* world it restores, every caravan stays on the route it was created for  *)
(* by create_runtime_caravan_for_route, never has more way to go than the  *)
(* route, and keeps an id of its own, so that the deliveries and the       *)
(* settlements find the caravan they look for and its destination.         *)
THEOREM CaravansStayOnRoutes ==
  RuntimeSpec /\ FleetOnRoutes /\ RoadsJoin => []FleetOnRoutes
<1>1. RuntimeTypeOK /\ CallReal /\ (FleetOnRoutes /\ RoadsJoin) /\ [RuntimeNext]_runtimeVars
        => (FleetOnRoutes /\ RoadsJoin)'
  BY FleetOnRoutesStep
<1>2. QED
  BY <1>1, RuntimeTypeCorrect, PTL DEF RuntimeSpec

-----------------------------------------------------------------------------
(* Goods of the whole world.                                               *)

LEMMA InStoresIsSum ==
  ASSUME NEW st \in [SettlementId -> Storages], NEW r \in Resource
  PROVE  LET w == [s \in SettlementId |-> st[s][r]]
         IN  /\ w \in [SettlementId -> Nat]
             /\ \E f \in [SUBSET SettlementId -> Nat] :
                  IsSum(f, SettlementId, w) /\ InStores(st, r) = f[SettlementId]
<1> DEFINE w == [s \in SettlementId |-> st[s][r]]
           Eq(f) == f = [S \in SUBSET SettlementId |->
                           IF S = {} THEN 0
                           ELSE LET s == CHOOSE s \in S : TRUE IN st[s][r] + f[S \ {s}]]
           f == CHOOSE f : Eq(f)
<1>1. w \in [SettlementId -> Nat] /\ IsFiniteSet(SettlementId)
  BY RuntimeAssumption DEF Storages, U64
<1>2. \A S \in SUBSET SettlementId : S # {} => w[AnyOf(S)] = st[AnyOf(S)][r]
  BY AnyOfIsIn
<1>3. \A g : Eq(g) <=> IsSum(g, SettlementId, w)
  BY <1>2 DEF IsSum, AnyOf
<1>4. \E g : IsSum(g, SettlementId, w)
  <2> HIDE DEF w
  <2>1. QED
    BY <1>1, SumExists
<1>5. Eq(f)
  <2> HIDE DEF Eq, w
  <2>1. \E g : Eq(g)
    BY <1>3, <1>4
  <2>2. QED
    BY <2>1, Zenon
<1>6. InStores(st, r) = f[SettlementId]
  BY Zenon DEF InStores
<1> HIDE DEF f
<1>7. IsSum(f, SettlementId, w)
  <2> HIDE DEF Eq, w
  <2>1. QED
    BY <1>3, <1>5
<1>8. f \in [SUBSET SettlementId -> Nat]
  <2> HIDE DEF w
  <2>1. QED
    BY <1>1, <1>7, SumType
<1>9. QED
  BY <1>1, <1>6, <1>7, <1>8

LEMMA InStoresType ==
  ASSUME NEW st \in [SettlementId -> Storages], NEW r \in Resource
  PROVE  InStores(st, r) \in Nat
<1>1. PICK f \in [SUBSET SettlementId -> Nat] : InStores(st, r) = f[SettlementId]
  BY InStoresIsSum
<1>2. QED
  BY <1>1

(* The store of one settlement changes, and the sum by as much.            *)
LEMMA InStoresChanges ==
  ASSUME NEW st \in [SettlementId -> Storages], NEW after \in [SettlementId -> Storages],
         NEW r \in Resource, NEW t \in SettlementId,
         \A s \in SettlementId \ {t} : after[s][r] = st[s][r]
  PROVE  InStores(after, r) + st[t][r] = InStores(st, r) + after[t][r]
<1> DEFINE w == [s \in SettlementId |-> st[s][r]]
           v == [s \in SettlementId |-> after[s][r]]
<1>1. w \in [SettlementId -> Nat] /\ v \in [SettlementId -> Nat] /\ IsFiniteSet(SettlementId)
  BY RuntimeAssumption, InStoresIsSum
<1>2. PICK f \in [SUBSET SettlementId -> Nat] :
        IsSum(f, SettlementId, w) /\ InStores(st, r) = f[SettlementId]
  BY InStoresIsSum
<1>3. PICK g \in [SUBSET SettlementId -> Nat] :
        IsSum(g, SettlementId, v) /\ InStores(after, r) = g[SettlementId]
  BY InStoresIsSum
<1>4. /\ \A s \in SettlementId : s # t => v[s] = w[s]
      /\ w[t] = st[t][r] /\ v[t] = after[t][r]
  OBVIOUS
<1> HIDE DEF w, v
<1>5. g[SettlementId] + w[t] = f[SettlementId] + v[t]
  <2>1. \A s \in SettlementId : s # t => v[s] = w[s]
    BY <1>4
  <2>2. IsSum(f, SettlementId, w) /\ IsSum(g, SettlementId, v)
    BY <1>2, <1>3
  <2>3. QED
    BY <1>1, <2>1, <2>2, SumChanges
<1>6. QED
  BY <1>2, <1>3, <1>4, <1>5

InWorld(st, f, r) == InStores(st, r) + Freight(f, r)

LEMMA InWorldType ==
  ASSUME NEW st \in [SettlementId -> Storages], NEW f \in Seq(Caravans), NEW r \in Resource
  PROVE  InStores(st, r) \in Nat /\ Freight(f, r) \in Nat /\ InWorld(st, f, r) \in Nat
BY InStoresType, FreightType DEF InWorld

LEMMA Balance ==
  ASSUME NEW a \in Nat, NEW b \in Nat, NEW c \in Nat, NEW d \in Nat,
         NEW x \in Nat, NEW y \in Nat, NEW u \in Nat, NEW v \in Nat,
         b + x = a + y, d + u = c + v, x + u = y + v
  PROVE  b + d = a + c
OBVIOUS

OnlyStore(st, after, t) == \A s \in SettlementId : s # t => after[s] = st[s]

OnlyCaravan(f, g, p) ==
  Len(g) = Len(f) /\ \A q \in 1 .. Len(f) : q # p => g[q].cargo = f[q].cargo

(* What one store gains one caravan loses, or the other way round.         *)
LEMMA GoodsMoved ==
  ASSUME NEW st \in [SettlementId -> Storages], NEW after \in [SettlementId -> Storages],
         NEW f \in Seq(Caravans), NEW g \in Seq(Caravans),
         NEW t \in SettlementId, NEW p \in 1 .. Len(f), NEW r \in Resource,
         OnlyStore(st, after, t), OnlyCaravan(f, g, p),
         st[t][r] + f[p].cargo[r] = after[t][r] + g[p].cargo[r]
  PROVE  InWorld(after, g, r) = InWorld(st, f, r)
<1>1. \A s \in SettlementId \ {t} : after[s][r] = st[s][r]
  BY DEF OnlyStore
<1>2. Len(g) = Len(f) /\ \A q \in 1 .. Len(f) : q # p => g[q].cargo[r] = f[q].cargo[r]
  BY DEF OnlyCaravan
<1>3. f[p] \in Caravans /\ g[p] \in Caravans
  BY <1>2
<1>4. f[p].cargo \in Storages /\ g[p].cargo \in Storages
  BY <1>3 DEF Caravans
<1>5. PICK x \in Nat, y \in Nat, u \in Nat, v \in Nat :
        x = st[t][r] /\ y = after[t][r] /\ u = f[p].cargo[r] /\ v = g[p].cargo[r]
  BY <1>4, WidthAssumption DEF Storages, U64
<1>6. InStores(after, r) + st[t][r] = InStores(st, r) + after[t][r]
  BY <1>1, InStoresChanges
<1>7. Freight(g, r) + f[p].cargo[r] = Freight(f, r) + g[p].cargo[r]
  BY <1>2, FreightChanges
<1>8. PICK a \in Nat, b \in Nat, c \in Nat, d \in Nat :
        a = InStores(st, r) /\ b = InStores(after, r) /\ c = Freight(f, r) /\ d = Freight(g, r)
  BY InStoresType, FreightType
<1>9. b + x = a + y /\ d + u = c + v /\ x + u = y + v
  BY <1>5, <1>6, <1>7, <1>8
<1>10. b + d = a + c
  BY <1>9, Balance
<1>11. QED
  BY <1>8, <1>10 DEF InWorld

LEMMA GoodsSame ==
  ASSUME NEW f \in Seq(Caravans), NEW g \in Seq(Caravans), Len(g) = Len(f), NEW st,
         \A q \in 1 .. Len(f) : g[q].cargo = f[q].cargo
  PROVE  \A r \in Resource : InWorld(st, g, r) = InWorld(st, f, r)
<1>1. TAKE r \in Resource
<1>2. \A q \in 1 .. Len(f) : g[q].cargo[r] = f[q].cargo[r]
  OBVIOUS
<1>3. Freight(g, r) = Freight(f, r)
  BY <1>2, FreightSame
<1>4. QED
  BY <1>3 DEF InWorld

LEMMA NothingLost ==
  ASSUME \A r \in Resource : InWorld(stores', fleet', r) = InWorld(stores, fleet, r)
  PROVE  KeepsGoods
BY DEF KeepsGoods, InWorld

LEMMA FleetIsSeq ==
  ASSUME RuntimeTypeOK
  PROVE  /\ fleet \in Seq(Caravans) /\ Len(fleet) \in Nat /\ DOMAIN fleet = 1 .. Len(fleet)
         /\ stores \in [SettlementId -> Storages] /\ settlements \subseteq SettlementId
         /\ TypeOK /\ WorldTypeOK
BY DEF RuntimeTypeOK, TypeOK, WorldTypeOK

(* One caravan and one store, where each amount moves as it should.        *)
LEMMA OneMove ==
  ASSUME RuntimeTypeOK, NEW p \in DOMAIN fleet, NEW cargo \in Storages, NEW t \in SettlementId,
         NEW store \in Storages, fleet' = WithCargo(p, cargo), stores' = [stores EXCEPT ![t] = store],
         \A r \in Resource : stores[t][r] + fleet[p].cargo[r] = store[r] + cargo[r]
  PROVE  KeepsGoods
<1>1. /\ fleet \in Seq(Caravans) /\ p \in 1 .. Len(fleet) /\ stores \in [SettlementId -> Storages]
      /\ fleet[p].cargo \in Storages /\ stores[t] \in Storages
  BY FleetIsSeq, CaravanFields
<1>2. fleet' = [fleet EXCEPT ![p] = [fleet[p] EXCEPT !.cargo = cargo]]
  BY DEF WithCargo
<1>3. PICK g \in Seq(Caravans) : /\ g = fleet' /\ Len(g) = Len(fleet) /\ g[p].cargo = cargo
                                 /\ \A q \in 1 .. Len(fleet) : q # p => g[q] = fleet[q]
  <2> DEFINE g == [fleet EXCEPT ![p] = [fleet[p] EXCEPT !.cargo = cargo]]
  <2>1. /\ g \in Seq(Caravans) /\ Len(g) = Len(fleet) /\ g[p].cargo = cargo
        /\ \A q \in 1 .. Len(fleet) : q # p => g[q] = fleet[q]
    BY <1>1, ReloadedFleet
  <2>2. g = fleet'
    BY <1>2
  <2> HIDE DEF g
  <2>3. QED
    BY <2>1, <2>2
<1>4. PICK after \in [SettlementId -> Storages] :
        after = stores' /\ after[t] = store /\ \A s \in SettlementId : s # t => after[s] = stores[s]
  BY <1>1
<1>5. OnlyStore(stores, after, t) /\ OnlyCaravan(fleet, g, p)
  BY <1>3, <1>4 DEF OnlyStore, OnlyCaravan
<1>6. ASSUME NEW r \in Resource PROVE InWorld(after, g, r) = InWorld(stores, fleet, r)
  <2>1. stores[t][r] + fleet[p].cargo[r] = after[t][r] + g[p].cargo[r]
    BY <1>3, <1>4
  <2>2. QED
    BY <1>1, <1>5, <2>1, GoodsMoved
<1>7. QED
  BY <1>3, <1>4, <1>6, NothingLost

(* An amount of one resource changes hands.                                *)
LEMMA AmountHandedOver ==
  ASSUME NEW a \in Storages, NEW b \in Storages, NEW r \in Resource, NEW n \in U64,
         CanTake(a, r, n), CanPut(b, r, n)
  PROVE  /\ Take(a, r, n) \in Storages /\ Put(b, r, n) \in Storages
         /\ \A x \in Resource : /\ a[x] + b[x] = Take(a, r, n)[x] + Put(b, r, n)[x]
                                /\ b[x] + a[x] = Put(b, r, n)[x] + Take(a, r, n)[x]
<1>1. PICK taken \in Storages : /\ taken = Take(a, r, n) /\ taken[r] + n = a[r]
                                /\ \A x \in Resource \ {r} : taken[x] = a[x]
  BY AmountsMoved
<1>2. PICK put \in Storages : /\ put = Put(b, r, n) /\ put[r] = b[r] + n
                              /\ \A x \in Resource \ {r} : put[x] = b[x]
  BY AmountsMoved
<1>3. ASSUME NEW x \in Resource
      PROVE  a[x] + b[x] = taken[x] + put[x] /\ b[x] + a[x] = put[x] + taken[x]
  <2>1. PICK i \in Nat, j \in Nat, k \in Nat, m \in Nat, q \in Nat :
          i = a[x] /\ j = b[x] /\ k = taken[x] /\ m = put[x] /\ q = n
    BY <1>1, <1>2, WidthAssumption DEF Storages, U64
  <2>2. (k = i /\ m = j) \/ (k + q = i /\ m = j + q)
    BY <1>1, <1>2, <2>1
  <2>3. i + j = k + m /\ j + i = m + k
    BY <2>2
  <2>4. QED
    BY <2>1, <2>3
<1>4. QED
  BY <1>1, <1>2, <1>3

LEMMA LoadKeepsGoods ==
  ASSUME RuntimeTypeOK, NEW p \in DOMAIN fleet, NEW r \in Resource, NEW n \in U64,
         Load(p, r, n) \/ Unload(p, r, n)
  PROVE  KeepsGoods
<1> DEFINE c == fleet[p]
<1>1. c.cargo \in Storages /\ c.origin \in SettlementId /\ c.destination \in SettlementId
  BY FleetIsSeq, CaravanFields
<1>2. stores[c.origin] \in Storages /\ stores[c.destination] \in Storages
  BY <1>1, FleetIsSeq
<1>3. CASE Load(p, r, n)
  <2>1. /\ CanTake(stores[c.origin], r, n) /\ CanPut(c.cargo, r, n)
        /\ stores' = [stores EXCEPT ![c.origin] = Take(stores[c.origin], r, n)]
        /\ fleet' = WithCargo(p, Put(c.cargo, r, n))
    BY <1>3 DEF Load
  <2>2. /\ Take(stores[c.origin], r, n) \in Storages /\ Put(c.cargo, r, n) \in Storages
        /\ \A x \in Resource : stores[c.origin][x] + c.cargo[x]
                                 = Take(stores[c.origin], r, n)[x] + Put(c.cargo, r, n)[x]
    BY <1>1, <1>2, <2>1, AmountHandedOver
  <2>3. QED
    BY <1>1, <2>1, <2>2, OneMove
<1>4. CASE Unload(p, r, n)
  <2>1. /\ CanTake(c.cargo, r, n) /\ CanPut(stores[c.destination], r, n)
        /\ stores' = [stores EXCEPT ![c.destination] = Put(stores[c.destination], r, n)]
        /\ fleet' = WithCargo(p, Take(c.cargo, r, n))
    BY <1>4 DEF Unload
  <2>2. /\ Put(stores[c.destination], r, n) \in Storages /\ Take(c.cargo, r, n) \in Storages
        /\ \A x \in Resource : stores[c.destination][x] + c.cargo[x]
                                 = Put(stores[c.destination], r, n)[x] + Take(c.cargo, r, n)[x]
    BY <1>1, <1>2, <2>1, AmountHandedOver
  <2>3. QED
    BY <1>1, <2>1, <2>2, OneMove
<1>5. QED
  BY <1>3, <1>4

LEMMA TransferKeepsGoods ==
  ASSUME RuntimeTypeOK, NEW s \in settlements, NEW t \in settlements, NEW r \in Resource, NEW n \in U64,
         TransferResource(s, t, r, n)
  PROVE  KeepsGoods
<1>1. s \in SettlementId /\ t \in SettlementId /\ stores \in [SettlementId -> Storages] /\ s # t
  BY FleetIsSeq DEF TransferResource
<1>2. PICK a \in Storages, b \in Storages : a = stores[s] /\ b = stores[t]
  BY <1>1
<1>3. CanTake(a, r, n) /\ CanPut(b, r, n) /\ fleet' = fleet
  BY <1>2 DEF TransferResource, StoresOnly, vars
<1>4. /\ Take(a, r, n) \in Storages /\ Put(b, r, n) \in Storages
      /\ \A x \in Resource : a[x] + b[x] = Take(a, r, n)[x] + Put(b, r, n)[x]
  BY <1>3, AmountHandedOver
<1>5. PICK taken \in Storages, put \in Storages : taken = Take(a, r, n) /\ put = Put(b, r, n)
  BY <1>4
<1>6. stores' = [stores EXCEPT ![s] = taken, ![t] = put]
  BY <1>2, <1>5 DEF TransferResource
<1>7. PICK mid \in [SettlementId -> Storages] : mid = [stores EXCEPT ![s] = taken]
  BY <1>1, <1>5
<1>8. PICK after \in [SettlementId -> Storages] : after = stores' /\ after = [mid EXCEPT ![t] = put]
  BY <1>1, <1>6, <1>7
<1>9. /\ mid[s] = taken /\ mid[t] = b /\ after[t] = put
      /\ \A x \in SettlementId \ {s} : mid[x] = stores[x]
      /\ \A x \in SettlementId \ {t} : after[x] = mid[x]
  BY <1>1, <1>2, <1>7, <1>8
<1>10. ASSUME NEW x \in Resource PROVE InStores(after, x) = InStores(stores, x)
  <2>1. InStores(mid, x) + stores[s][x] = InStores(stores, x) + mid[s][x]
    <3>1. \A y \in SettlementId \ {s} : mid[y][x] = stores[y][x]
      BY <1>9
    <3>2. QED
      BY <1>1, <3>1, InStoresChanges
  <2>2. InStores(after, x) + mid[t][x] = InStores(mid, x) + after[t][x]
    <3>1. \A y \in SettlementId \ {t} : after[y][x] = mid[y][x]
      BY <1>9
    <3>2. QED
      BY <1>1, <3>1, InStoresChanges
  <2>3. PICK i \in Nat, j \in Nat, k \in Nat : i = InStores(stores, x) /\ j = InStores(mid, x)
                                              /\ k = InStores(after, x)
    BY <1>1, InStoresType
  <2>4. PICK c \in Nat, d \in Nat, e \in Nat, f \in Nat :
          c = a[x] /\ d = b[x] /\ e = taken[x] /\ f = put[x]
    BY WidthAssumption DEF Storages, U64
  <2>5. j + c = i + e /\ k + d = j + f /\ c + d = e + f
    BY <1>2, <1>4, <1>5, <1>9, <2>1, <2>2, <2>3, <2>4
  <2>6. k = i
    BY <2>5
  <2>7. QED
    BY <2>3, <2>6
<1>11. QED
  BY <1>3, <1>8, <1>10, NothingLost DEF InWorld

LEMMA DeliveryKeepsGoods ==
  ASSUME NEW c \in Caravans, NEW store \in Storages
  PROVE  LET d == DeliveryOf(c, store)
         IN  /\ d.cargo \in Storages /\ d.store \in Storages
             /\ \A r \in Resource : store[r] + c.cargo[r] = d.store[r] + d.cargo[r]
<1>1. PICK d : d = DeliveryOf(c, store)
  OBVIOUS
<1>2. /\ d.ok \in BOOLEAN /\ d.cargo \in Storages /\ d.store \in Storages
      /\ d.ok => /\ IsEmpty(d.cargo)
                 /\ \A r \in Resource : d.store[r] = store[r] + c.cargo[r]
      /\ ~d.ok => d.cargo = c.cargo /\ d.store = store
  BY <1>1, DeliveryWhole
<1>3. ASSUME NEW r \in Resource PROVE store[r] + c.cargo[r] = d.store[r] + d.cargo[r]
  <2>1. c.cargo[r] \in Nat /\ store[r] \in Nat
    BY WidthAssumption DEF Caravans, Storages, U64
  <2>2. CASE d.ok
    <3>1. d.cargo[r] = 0 /\ d.store[r] = store[r] + c.cargo[r]
      BY <1>2, <2>2 DEF IsEmpty
    <3>2. QED
      BY <2>1, <3>1
  <2>3. QED
    BY <1>2, <2>2
<1>4. QED
  BY <1>1, <1>2, <1>3

LEMMA DeliverKeepsGoods ==
  ASSUME RuntimeTypeOK, NEW p \in DOMAIN fleet, Deliver(p)
  PROVE  KeepsGoods
<1>1. fleet[p] \in Caravans /\ fleet[p].destination \in SettlementId
  BY FleetIsSeq, CaravanFields
<1>2. PICK t \in SettlementId, store \in Storages : t = fleet[p].destination /\ store = stores[t]
  BY <1>1, FleetIsSeq
<1>3. PICK d : d = DeliveryOf(fleet[p], store)
  OBVIOUS
<1>4. /\ d.cargo \in Storages /\ d.store \in Storages
      /\ \A r \in Resource : store[r] + fleet[p].cargo[r] = d.store[r] + d.cargo[r]
  BY <1>1, <1>3, DeliveryKeepsGoods
<1>5. fleet' = WithCargo(p, d.cargo) /\ stores' = [stores EXCEPT ![t] = d.store]
  BY <1>2, <1>3 DEF Deliver
<1>6. \A r \in Resource : stores[t][r] + fleet[p].cargo[r] = d.store[r] + d.cargo[r]
  BY <1>2, <1>4
<1>7. QED
  BY <1>4, <1>5, <1>6, OneMove

(* Every round of the bulk delivery, and so all of it.                     *)
LEMMA BulkRoundKeepsGoods ==
  ASSUME TypeOK, NEW b \in BulkStates, NEW n \in DOMAIN fleet, BulkSoFar(b, n - 1), NEW r \in Resource
  PROVE  InWorld(BulkRound(b, n).stores, BulkRound(b, n).fleet, r) = InWorld(b.stores, b.fleet, r)
<1>1. PICK c \in Caravans : c = fleet[n] /\ c.destination \in SettlementId /\ c.cargo \in Storages
  BY CaravanFields
<1>2. DOMAIN fleet = 1 .. Len(fleet) /\ Len(fleet) \in Nat /\ n \in Nat
  BY DEF TypeOK
<1>3. b.fleet \in [DOMAIN fleet -> Caravans] /\ b.stores \in [SettlementId -> Storages]
  BY DEF BulkStates
<1>4. PICK f \in Seq(Caravans), st \in [SettlementId -> Storages] :
        f = b.fleet /\ st = b.stores /\ Len(f) = Len(fleet)
  BY <1>2, <1>3, IsASeq
<1>5. f[n].cargo = c.cargo
  <2>1. ~(n <= n - 1)
    BY <1>2
  <2>2. QED
    BY <1>1, <1>4, <2>1 DEF BulkSoFar
<1>6. PICK t \in SettlementId, store \in Storages : t = c.destination /\ store = st[t]
  BY <1>1
<1>7. PICK d : d = DeliveryOf(c, store)
  OBVIOUS
<1>8. /\ d.cargo \in Storages /\ d.store \in Storages
      /\ \A x \in Resource : store[x] + c.cargo[x] = d.store[x] + d.cargo[x]
  BY <1>7, DeliveryKeepsGoods
<1>9. CASE ~b.go \/ ~Deliverable(c)
  BY <1>1, <1>9 DEF BulkRound
<1>10. CASE b.go /\ Deliverable(c)
  <2> DEFINE e == BulkRound(b, n)
             k == [c EXCEPT !.cargo = d.cargo]
  <2>1. e.fleet = [f EXCEPT ![n] = k] /\ e.stores = [st EXCEPT ![t] = d.store]
    BY <1>1, <1>4, <1>6, <1>7, <1>10 DEF BulkRound
  <2>2. k \in Caravans /\ k.cargo = d.cargo
    BY <1>8, ReloadedType
  <2> HIDE DEF e, k
  <2>3. PICK g \in Seq(Caravans) : /\ g = e.fleet /\ Len(g) = Len(f) /\ g[n] = k
                                   /\ \A q \in 1 .. Len(f) : q # n => g[q] = f[q]
    <3>1. n \in 1 .. Len(f)
      BY <1>2, <1>4
    <3>2. [f EXCEPT ![n] = k] \in Seq(Caravans) /\ Len([f EXCEPT ![n] = k]) = Len(f)
      BY <1>4, <2>2, <3>1, ExceptSeq
    <3>3. [f EXCEPT ![n] = k][n] = k /\ \A q \in 1 .. Len(f) : q # n => [f EXCEPT ![n] = k][q] = f[q]
      BY <1>4, <3>1
    <3>4. QED
      BY <2>1, <3>2, <3>3
  <2>4. PICK after \in [SettlementId -> Storages] :
          after = e.stores /\ after[t] = d.store /\ \A s \in SettlementId : s # t => after[s] = st[s]
    BY <1>8, <2>1
  <2>5. OnlyStore(st, after, t) /\ OnlyCaravan(f, g, n)
    BY <2>3, <2>4 DEF OnlyStore, OnlyCaravan
  <2>6. st[t][r] + f[n].cargo[r] = after[t][r] + g[n].cargo[r]
    BY <1>5, <1>6, <1>8, <2>2, <2>3, <2>4
  <2>7. n \in 1 .. Len(f)
    BY <1>2, <1>4
  <2>8. InWorld(after, g, r) = InWorld(st, f, r)
    BY <2>5, <2>6, <2>7, GoodsMoved
  <2>9. QED
    BY <1>4, <2>3, <2>4, <2>8 DEF e
<1>11. QED
  BY <1>1, <1>9, <1>10

LEMMA BulkKeepsGoods ==
  ASSUME TypeOK, WorldTypeOK, NEW r \in Resource
  PROVE  InWorld(Bulk.stores, Bulk.fleet, r) = InWorld(stores, fleet, r)
<1> DEFINE N == Len(fleet)
<1>1. N \in Nat /\ DOMAIN fleet = 1 .. N
  BY DEF TypeOK
<1>2. PICK after \in [0 .. N -> BulkStates] :
        /\ after[0] = BulkStart
        /\ \A n \in 1 .. N : after[n] = BulkRound(after[n - 1], n)
        /\ Bulk = after[N]
  BY BulkUnrolled
<1> DEFINE T == {n \in 0 .. N : /\ BulkSoFar(after[n], n)
                                /\ InWorld(after[n].stores, after[n].fleet, r) = InWorld(stores, fleet, r)}
<1>3. 0 \in T
  <2>1. \A p \in DOMAIN fleet : fleet[p] = [fleet[p] EXCEPT !.cargo = fleet[p].cargo]
    BY CaravanFields, ReloadedType
  <2>2. BulkStart.fleet = fleet /\ BulkStart.stores = stores /\ 1 .. 0 = {}
    BY DEF BulkStart
  <2>3. BulkSoFar(BulkStart, 0)
    BY <2>1, <2>2 DEF BulkSoFar
  <2>4. QED
    BY <1>1, <1>2, <2>2, <2>3
<1>4. ASSUME NEW n \in 1 .. N, n - 1 \in T PROVE n \in T
  <2>1. n - 1 \in 0 .. N /\ n \in 0 .. N
    BY <1>1
  <2>2. after[n - 1] \in BulkStates /\ after[n] = BulkRound(after[n - 1], n)
    BY <1>2, <2>1
  <2>3. /\ BulkSoFar(after[n - 1], n - 1) /\ n \in DOMAIN fleet
        /\ InWorld(after[n - 1].stores, after[n - 1].fleet, r) = InWorld(stores, fleet, r)
    BY <1>1, <1>4
  <2> HIDE DEF N
  <2>4. BulkSoFar(after[n], n)
    BY <2>2, <2>3, BulkGoesOn
  <2>5. InWorld(after[n].stores, after[n].fleet, r)
          = InWorld(after[n - 1].stores, after[n - 1].fleet, r)
    BY <2>2, <2>3, BulkRoundKeepsGoods
  <2>6. QED
    BY <2>1, <2>3, <2>4, <2>5
<1> HIDE DEF T
<1>5. N \in T
  <2> HIDE DEF N
  <2>1. \A n \in 0 .. N : n \in T
    BY <1>1, <1>3, <1>4, BoundedInduction
  <2>2. QED
    BY <1>1, <2>1
<1>6. QED
  BY <1>1, <1>2, <1>5 DEF T

(* A settlement takes no more than the quantity of its contract.           *)
LEMMA SettlingKeepsGoods ==
  ASSUME RuntimeTypeOK, NEW i \in DOMAIN catalog, NEW p \in DOMAIN fleet, NEW mode,
         FulfillFromArrivedCaravan(i, p, mode), stores' = stores
  PROVE  KeepsGoods
<1>1. /\ fleet' \in Seq(Caravans)
      /\ IsOpen(catalog[i]) /\ catalog' = WithStatus(i, "fulfilled")
      /\ catalog[i].quantity \in Nat
      /\ \A r \in Resource :
           Freight(fleet', r) # Freight(fleet, r) =>
             /\ catalog[i].resource = r
             /\ Freight(fleet', r) + catalog[i].quantity = Freight(fleet, r)
  BY FleetIsSeq, CaravanGives
<1>2. ASSUME NEW r \in Resource, InStores(stores', r) + Freight(fleet', r) # InStores(stores, r) + Freight(fleet, r)
      PROVE  /\ catalog[i].resource = r
             /\ InStores(stores', r) + Freight(fleet', r) + catalog[i].quantity
                  = InStores(stores, r) + Freight(fleet, r)
  <2>1. PICK a \in Nat, c \in Nat, b \in Nat, q \in Nat :
          a = Freight(fleet, r) /\ c = Freight(fleet', r) /\ b = InStores(stores, r)
            /\ q = catalog[i].quantity
    <3>1. Freight(fleet, r) \in Nat /\ Freight(fleet', r) \in Nat /\ InStores(stores, r) \in Nat
      BY <1>1, FleetIsSeq, FreightType, InStoresType
    <3>2. QED
      BY <1>1, <3>1
  <2>2. catalog[i].resource = r /\ c + q = a
    BY <1>1, <1>2, <2>1
  <2>3. b + c + q = b + a
    BY <2>2
  <2>4. InStores(stores', r) = b
    BY <2>1
  <2>5. QED
    BY <2>1, <2>2, <2>3, <2>4
<1>3. QED
  BY <1>1, <1>2 DEF KeepsGoods

LEMMA BookKeepsGoods ==
  ASSUME RuntimeTypeOK, BookCall
  PROVE  KeepsGoods
<1>1. UNCHANGED worldVars /\ stores' = stores
  BY DEF BookCall, worldVars
<1>2. ASSUME fleet' = fleet PROVE KeepsGoods
  BY <1>1, <1>2, NothingLost
<1>3. ASSUME NEW i \in DOMAIN catalog, ContractCall(i) PROVE KeepsGoods
  <2>1. ASSUME NEW status, MarkContract(i, status) PROVE KeepsGoods
    BY <1>2, <2>1 DEF MarkContract
  <2>2. ASSUME NEW mode, FulfillFromStorage(i, mode) PROVE KeepsGoods
    BY <1>2, <2>2 DEF FulfillFromStorage
  <2>3. ASSUME NEW mode, NEW p \in DOMAIN fleet, FulfillFromArrivedCaravan(i, p, mode)
        PROVE  KeepsGoods
    BY <1>1, <2>3, SettlingKeepsGoods
  <2>4. QED
    BY <1>3, <2>1, <2>2, <2>3 DEF ContractCall, FulfillFromOwnedCaravan
<1>4. ASSUME NEW t \in U64, FailOverdue(t) PROVE KeepsGoods
  BY <1>2, <1>4 DEF FailOverdue
<1>5. QED
  BY <1>3, <1>4 DEF BookCall

LEMMA FirstKeepsGoods ==
  ASSUME RuntimeTypeOK, NEW p \in DOMAIN fleet, NEW f, FulfillFirst(p, f)
  PROVE  KeepsGoods
<1>1. PICK i \in DOMAIN catalog : FulfillFromArrivedCaravan(i, p, "ledger")
  BY DEF FulfillFirst
<1>2. stores' = stores
  BY DEF FulfillFirst, worldVars
<1>3. QED
  BY <1>1, <1>2, SettlingKeepsGoods

(* A run of the clock leaves the stores alone until a day has passed.      *)
LEMMA TickRunKeepsStores ==
  ASSUME TypeOK, WorldTypeOK, NEW total \in U64, NEW step \in U64, NEW untilArrival \in BOOLEAN
  PROVE  TickRun(total, step, untilArrival).stores = stores
<1>1. total \in Nat
  BY DEF U64
<1>2. PICK run \in [0 .. total -> RunStates] :
        /\ run[0] = Now
        /\ \A n \in 1 .. total : run[n] = TickRound(run[n - 1], total, step, untilArrival)
        /\ TickRun(total, step, untilArrival) = run[total]
  BY TickRunUnrolled
<1> DEFINE T == {n \in 0 .. total : run[n].stores = stores}
<1>3. 0 \in T
  BY <1>1, <1>2 DEF Now
<1>4. ASSUME NEW n \in 1 .. total, n - 1 \in T PROVE n \in T
  <2>1. n - 1 \in 0 .. total /\ n \in 0 .. total
    BY <1>1
  <2>2. run[n - 1] \in RunStates /\ run[n] = TickRound(run[n - 1], total, step, untilArrival)
    BY <1>2, <2>1
  <2>3. \A s \in RunStates : \A k : Ticked(s, k).stores = s.stores
    BY DEF Ticked, RunStates
  <2>4. run[n].stores = run[n - 1].stores
    BY <2>2, <2>3 DEF TickRound
  <2>5. QED
    BY <1>4, <2>1, <2>4
<1> HIDE DEF T
<1>5. \A n \in 0 .. total : n \in T
  BY <1>1, <1>3, <1>4, BoundedInduction
<1>6. total \in 0 .. total
  BY <1>1
<1>7. QED
  BY <1>2, <1>5, <1>6 DEF T

(* The day after m more, of a counter that wraps around.                   *)
DayAfter(m) == IF day + m <= MaxU64 THEN day + m ELSE day + m - (MaxU64 + 1)

LEMMA OneDayOn ==
  ASSUME WorldTypeOK, NEW m \in Nat, m < MaxU64
  PROVE  /\ WrapAdd(DayAfter(m), 1) = DayAfter(m + 1)
         /\ DayAfter(0) = day
         /\ DayAfter(m + 1) # day
<1>1. day \in Nat /\ day <= MaxU64 /\ MaxU64 \in Nat
  BY WidthAssumption DEF WorldTypeOK, U64
<1>2. DayAfter(0) = day /\ DayAfter(m + 1) # day
  BY <1>1 DEF DayAfter
<1>3. CASE day + m <= MaxU64
  BY <1>1, <1>3 DEF DayAfter, WrapAdd
<1>4. CASE ~(day + m <= MaxU64)
  BY <1>1, <1>4 DEF DayAfter, WrapAdd
<1>5. QED
  BY <1>2, <1>3, <1>4

DaysOn(s, m) == s.day = DayAfter(m) /\ (m = 0 => s.stores = stores)

LEMMA DayRunDay ==
  ASSUME TypeOK, WorldTypeOK, NEW days \in U64, NEW untilArrival \in BOOLEAN
  PROVE  DayRun(days, untilArrival).day = day => DayRun(days, untilArrival).stores = stores
<1>1. days \in Nat /\ days <= MaxU64 /\ MaxU64 \in Nat
  BY WidthAssumption DEF U64
<1>2. PICK run \in [0 .. days -> RunStates] :
        /\ run[0] = Now
        /\ \A n \in 1 .. days : run[n] = DayRound(run[n - 1], untilArrival)
        /\ DayRun(days, untilArrival) = run[days]
  BY DayRunUnrolled
<1> DEFINE T == {n \in 0 .. days : \E m \in 0 .. n : DaysOn(run[n], m)}
<1>3. 0 \in T
  <2>1. Now.day = day /\ Now.stores = stores /\ 0 < MaxU64
    BY <1>1, WidthAssumption DEF Now
  <2>2. DaysOn(run[0], 0)
    BY <1>2, <2>1, OneDayOn DEF DaysOn
  <2>3. QED
    BY <1>1, <2>2
<1>4. ASSUME NEW n \in 1 .. days, n - 1 \in T PROVE n \in T
  <2>1. n - 1 \in 0 .. days /\ n \in 0 .. days
    BY <1>1
  <2>2. run[n - 1] \in RunStates /\ run[n] = DayRound(run[n - 1], untilArrival)
    BY <1>2, <2>1
  <2>3. PICK m \in 0 .. n - 1 : DaysOn(run[n - 1], m)
    BY <1>4
  <2>4. m \in Nat /\ m < MaxU64 /\ m \in 0 .. n /\ m + 1 \in 0 .. n /\ m + 1 # 0
    BY <1>1, <2>1
  <2>5. \A s \in RunStates : DayPassed(s).day = WrapAdd(s.day, 1)
    BY DEF DayPassed, Ticked, RunStates
  <2>6. CASE run[n] = run[n - 1]
    BY <2>1, <2>3, <2>4, <2>6
  <2>7. CASE run[n] = DayPassed(run[n - 1])
    <3>1. run[n].day = WrapAdd(DayAfter(m), 1)
      BY <2>2, <2>3, <2>5, <2>7 DEF DaysOn
    <3>2. DaysOn(run[n], m + 1)
      BY <2>4, <3>1, OneDayOn DEF DaysOn
    <3>3. QED
      BY <2>1, <2>4, <3>2
  <2>8. QED
    BY <2>2, <2>6, <2>7 DEF DayRound
<1> HIDE DEF T
<1>5. \A n \in 0 .. days : n \in T
  BY <1>1, <1>3, <1>4, BoundedInduction
<1>6. days \in T
  BY <1>1, <1>5
<1>7. PICK m \in 0 .. days : DaysOn(run[days], m)
  BY <1>6 DEF T
<1>8. CASE m = 0
  BY <1>2, <1>7, <1>8 DEF DaysOn
<1>9. CASE m # 0
  <2>1. PICK k \in Nat : m = k + 1 /\ k < MaxU64
    BY <1>1, <1>9
  <2>2. run[days].day # day
    BY <1>7, <2>1, OneDayOn DEF DaysOn
  <2>3. QED
    BY <1>2, <2>2
<1>10. QED
  BY <1>8, <1>9

LEMMA RunKeepsGoods ==
  ASSUME RuntimeTypeOK, NEW s \in RunStates, Outcome(s), Reach(s), s.day = day => s.stores = stores
  PROVE  KeepsGoods
<1>1. day' = day => stores' = stores
  BY DEF Reach
<1>2. fleet' \in Seq(Caravans) /\ DOMAIN fleet' = DOMAIN fleet /\ fleet' = s.fleet
  BY RunType DEF Reach, TypeOK
<1>3. \A p \in DOMAIN fleet : fleet'[p].cargo = fleet[p].cargo
  <2>1. CASE s.fleet = fleet
    BY <1>2, <2>1
  <2>2. CASE Moved(s)
    <3>1. PICK ticks \in Nat : Reached(s, ticks)
      BY <2>2 DEF Moved
    <3>2. \A p \in DOMAIN fleet : fleet'[p] = Advance(fleet[p], ticks)
      BY <1>2, <3>1 DEF Reached
    <3>3. QED
      BY <3>2, FleetIsSeq, CargoKept
  <2>3. QED
    BY <2>1, <2>2 DEF Outcome
<1>4. CASE day' # day
  BY <1>4 DEF KeepsGoods
<1>5. CASE day' = day
  <2>1. PICK g \in Seq(Caravans) : g = fleet' /\ Len(g) = Len(fleet)
    BY <1>2, FleetIsSeq
  <2>2. \A q \in 1 .. Len(fleet) : g[q].cargo = fleet[q].cargo
    BY <1>3, <2>1, FleetIsSeq
  <2>3. \A r \in Resource : InWorld(stores, g, r) = InWorld(stores, fleet, r)
    BY <2>1, <2>2, FleetIsSeq, GoodsSame
  <2>4. QED
    BY <1>1, <1>5, <2>1, <2>3, NothingLost
<1>6. QED
  BY <1>4, <1>5

LEMMA GoodsKeepsGoods ==
  ASSUME RuntimeTypeOK, GoodsCall
  PROVE  KeepsGoods
<1>1. ASSUME NEW s \in settlements, NEW r \in Resource, NEW n \in U64,
             AddResource(s, r, n) \/ RemoveResource(s, r, n)
      PROVE  KeepsGoods
  <2>1. /\ fleet' = fleet
        /\ \E store : stores' = [stores EXCEPT ![s] = store]
    BY <1>1 DEF AddResource, RemoveResource, StoresOnly, vars
  <2>2. \A t \in SettlementId \ {s} : stores'[t] = stores[t]
    BY <2>1, FleetIsSeq
  <2>3. \A p \in DOMAIN fleet : ~CargoChanged(p)
    BY <2>1 DEF CargoChanged
  <2>4. QED
    BY <2>2, <2>3 DEF KeepsGoods
<1>2. ASSUME NEW s \in settlements, NEW t \in settlements, NEW r \in Resource, NEW n \in U64,
             TransferResource(s, t, r, n)
      PROVE  KeepsGoods
  BY <1>2, TransferKeepsGoods
<1>3. ASSUME NEW p \in DOMAIN fleet, NEW r \in Resource, NEW n \in U64, Load(p, r, n) \/ Unload(p, r, n)
      PROVE  KeepsGoods
  BY <1>3, LoadKeepsGoods
<1>4. ASSUME NEW p \in DOMAIN fleet, Deliver(p) PROVE KeepsGoods
  BY <1>4, DeliverKeepsGoods
<1>5. CASE DeliverAll
  <2>1. fleet' = Bulk.fleet /\ stores' = Bulk.stores
    BY <1>5 DEF DeliverAll
  <2>2. \A r \in Resource : InWorld(Bulk.stores, Bulk.fleet, r) = InWorld(stores, fleet, r)
    BY FleetIsSeq, BulkKeepsGoods
  <2>3. QED
    BY <2>1, <2>2, NothingLost
<1>6. QED
  BY <1>1, <1>2, <1>3, <1>4, <1>5 DEF GoodsCall

LEMMA BuildKeepsGoods ==
  ASSUME RuntimeTypeOK, BuildCall
  PROVE  KeepsGoods
<1>1. ASSUME fleet' = fleet, stores' = stores PROVE KeepsGoods
  BY <1>1, NothingLost
<1>2. ASSUME NEW s \in SettlementId, CreateSettlement(s) PROVE KeepsGoods
  BY <1>1, <1>2 DEF CreateSettlement, vars
<1>3. ASSUME NEW f \in Faction, AddFaction(f) PROVE KeepsGoods
  BY <1>1, <1>3 DEF AddFaction, vars
<1>4. ASSUME NEW route \in RouteOffers, AddRoute(route) PROVE KeepsGoods
  BY <1>1, <1>4 DEF AddRoute, vars
<1>5. ASSUME NEW offer \in Offers, AddRuntimeContract(offer) PROVE KeepsGoods
  BY <1>1, <1>5 DEF AddRuntimeContract, AddContract, worldVars
<1>6. ASSUME NEW p \in DOMAIN fleet, NEW f \in Faction, SetRuntimeCaravanOwner(p, f)
      PROVE  KeepsGoods
  BY <1>1, <1>6 DEF SetRuntimeCaravanOwner, SetCaravanOwner, worldVars
<1>7. ASSUME NEW k \in DOMAIN routes, NEW id \in CaravanId, NEW cargo \in Cargoes,
             CreateCaravan(k, id, cargo)
      PROVE  KeepsGoods
  <2>1. PICK c : fleet' = Append(fleet, c)
    BY <1>7 DEF CreateCaravan
  <2>2. Len(fleet') = Len(fleet) + 1 /\ Len(fleet) \in Nat
    BY <2>1, FleetIsSeq
  <2>3. Len(fleet') # Len(fleet)
    BY <2>2
  <2>4. QED
    BY <2>3 DEF KeepsGoods
<1>8. QED
  BY <1>2, <1>3, <1>4, <1>5, <1>6, <1>7 DEF BuildCall

LEMMA TimeKeepsGoods ==
  ASSUME RuntimeTypeOK, TimeCall
  PROVE  KeepsGoods
<1>1. TypeOK /\ WorldTypeOK
  BY DEF RuntimeTypeOK
<1>2. ASSUME NEW p \in DOMAIN fleet, AdvanceCaravanDay(p) PROVE KeepsGoods
  <2>1. /\ fleet \in Seq(Caravans) /\ Len(fleet) \in Nat /\ p \in 1 .. Len(fleet)
        /\ fleet[p] \in Caravans /\ TicksPerDay \in U64
    BY <1>1, WidthAssumption DEF TypeOK, U64
  <2>2. PICK c \in Caravans : c = Advance(fleet[p], TicksPerDay)
    BY <2>1, AdvanceType
  <2>3. c.cargo = fleet[p].cargo
    BY <1>1, <2>2, CargoKept
  <2>4. fleet' = [fleet EXCEPT ![p] = c] /\ stores' = stores
    BY <1>2, <2>2 DEF AdvanceCaravanDay, worldVars
  <2>5. PICK g \in Seq(Caravans) : g = fleet' /\ Len(g) = Len(fleet)
    BY <2>1, <2>4, ExceptSeq
  <2>6. \A q \in 1 .. Len(fleet) : g[q].cargo = fleet[q].cargo
    BY <2>1, <2>3, <2>4, <2>5
  <2>7. \A r \in Resource : InWorld(stores, g, r) = InWorld(stores, fleet, r)
    BY <2>1, <2>5, <2>6, GoodsSame
  <2>8. QED
    BY <2>4, <2>5, <2>7, NothingLost
<1>3. ASSUME NEW total \in U64, NEW step \in U64, RunTicks(total, step) PROVE KeepsGoods
  <2>1. Reach(TickRun(total, step, FALSE))
    BY <1>3 DEF RunTicks
  <2>2. /\ TickRun(total, step, FALSE) \in RunStates /\ Outcome(TickRun(total, step, FALSE))
        /\ TickRun(total, step, FALSE).stores = stores
    BY <1>1, TickRunOutcome, TickRunKeepsStores
  <2>3. QED
    BY <2>1, <2>2, RunKeepsGoods
<1>4. ASSUME NEW days \in U64, RunDays(days) PROVE KeepsGoods
  <2>1. Reach(DayRun(days, FALSE))
    BY <1>4 DEF RunDays
  <2>2. /\ DayRun(days, FALSE) \in RunStates /\ Outcome(DayRun(days, FALSE))
        /\ DayRun(days, FALSE).day = day => DayRun(days, FALSE).stores = stores
    BY <1>1, DayRunOutcome, DayRunDay
  <2>3. QED
    BY <2>1, <2>2, RunKeepsGoods
<1>5. QED
  BY <1>2, <1>3, <1>4 DEF TimeCall

LEMMA ArrivalKeepsGoods ==
  ASSUME RuntimeTypeOK, ArrivalCall
  PROVE  KeepsGoods
<1>1. TypeOK /\ WorldTypeOK
  BY DEF RuntimeTypeOK
<1>2. ASSUME NEW f \in Faction, NEW max \in U64, NEW step \in U64, RunUntilArrival(max, step, f)
      PROVE  KeepsGoods
  <2>1. Reach(TickRun(max, step, TRUE))
    BY <1>2 DEF RunUntilArrival
  <2>2. /\ TickRun(max, step, TRUE) \in RunStates /\ Outcome(TickRun(max, step, TRUE))
        /\ TickRun(max, step, TRUE).stores = stores
    BY <1>1, TickRunOutcome, TickRunKeepsStores
  <2>3. QED
    BY <2>1, <2>2, RunKeepsGoods
<1>3. ASSUME NEW f \in Faction, NEW days \in U64, RunUntilArrivalDays(days, f) PROVE KeepsGoods
  <2>1. Reach(DayRun(days, TRUE))
    BY <1>3 DEF RunUntilArrivalDays
  <2>2. /\ DayRun(days, TRUE) \in RunStates /\ Outcome(DayRun(days, TRUE))
        /\ DayRun(days, TRUE).day = day => DayRun(days, TRUE).stores = stores
    BY <1>1, DayRunOutcome, DayRunDay
  <2>3. QED
    BY <2>1, <2>2, RunKeepsGoods
<1>4. QED
  BY <1>2, <1>3 DEF ArrivalCall

LEMMA SettledKeepsGoods ==
  ASSUME RuntimeTypeOK, FulfillArrival
  PROVE  KeepsGoods
<1>1. call.caravan \in DOMAIN fleet
  BY DEF FulfillArrival, RuntimeTypeOK, CallTypeOK
<1>2. CASE FulfillFirst(call.caravan, call.faction)
  BY <1>1, <1>2, FirstKeepsGoods
<1>3. CASE UNCHANGED <<vars, worldVars>>
  <2>1. fleet' = fleet /\ stores' = stores
    BY <1>3 DEF vars, worldVars
  <2>2. QED
    BY <2>1, NothingLost
<1>4. QED
  BY <1>2, <1>3 DEF FulfillArrival

LEMMA KeepsGoodsStep == RuntimeTypeOK /\ [RuntimeNext]_runtimeVars => [KeepsGoods]_runtimeVars
<1> SUFFICES ASSUME RuntimeTypeOK, RuntimeNext PROVE KeepsGoods
  OBVIOUS
<1>1. CASE BuildCall
  BY <1>1, BuildKeepsGoods
<1>2. CASE GoodsCall
  BY <1>2, GoodsKeepsGoods
<1>3. CASE BookCall
  BY <1>3, BookKeepsGoods
<1>4. CASE TimeCall
  BY <1>4, TimeKeepsGoods
<1>5. CASE \E p \in DOMAIN fleet, f \in Faction : FulfillFirst(p, f)
  BY <1>5, FirstKeepsGoods
<1>6. CASE ArrivalCall
  BY <1>6, ArrivalKeepsGoods
<1>7. CASE FulfillArrival
  BY <1>7, SettledKeepsGoods
<1>8. QED
  BY <1>1, <1>2, <1>3, <1>4, <1>5, <1>6, <1>7 DEF RuntimeNext

(* transfer_resource, the loading and delivery calls, deliver_all with its *)
(* failure in the middle and the rollback, the settlements and the runs of *)
(* the clock: within a day the goods of all stores and caravans together   *)
(* change only by a store filled or drawn by hand or by the quantity of    *)
(* the one contract that the step fulfils.                                 *)
THEOREM GoodsAreConserved == RuntimeSpec => GoodsConserved
<1>1. QED
  BY KeepsGoodsStep, RuntimeTypeCorrect, PTL DEF RuntimeSpec, GoodsConserved
=============================================================================
