------------------------- MODULE Settlement_proofs -------------------------
(***************************************************************************)
(* Theorems about the clock and the market of a settlement, for every set  *)
(* of buildings, every storage and every width of the integers: what is    *)
(* made is paid for, it does not matter in what steps the clock moves, and *)
(* prices follow scarcity.                                                 *)
(***************************************************************************)
EXTENDS Development, Iteration

(* The counters never hold a whole unit, and the two counters of a kind of *)
(* building, which move by the same amounts, never part.                   *)
Rests == [Keys -> 0 .. TicksPerDay - 1]

PairedRests == {rest \in Rests : \A b \in BuildingId : rest[<<"input", b>>] = rest[<<"output", b>>]}

Shortages == {"food", "inputs", "room"}

LivedStates == [storage : Storages, rest : PairedRests, short : SUBSET Shortages]

SettlementTypeOK ==
  /\ storage \in Storages
  /\ buildings \in Seq(BuildingInstances)
  /\ remainders \in PairedRests

LEMMA TicksPerDayPositive == TicksPerDay \in Nat /\ TicksPerDay > 0 /\ MaxU64 \in Nat
BY WidthAssumption

LEMMA KeysAreKeys ==
  /\ <<"food", Food>> \in Keys
  /\ \A b \in BuildingId : /\ <<"input", b>> \in Keys /\ <<"output", b>> \in Keys
                           /\ <<"input", b>> # <<"food", Food>> /\ <<"output", b>> # <<"food", Food>>
                           /\ \A c \in BuildingId : <<"input", b>> # <<"output", c>>
                           /\ \A c \in BuildingId : <<"input", b>> = <<"input", c>> => b = c
                           /\ \A c \in BuildingId : <<"output", b>> = <<"output", c>> => b = c
BY DEF Keys

-----------------------------------------------------------------------------
(* consume_scaled_units.                                                   *)

Numerator(rest, key, perDay, ticks) == SaturatingAdd(rest[key], SaturatingMultiply(perDay, ticks))

LEMMA NumeratorType ==
  ASSUME NEW rest \in Rests, NEW key \in Keys, NEW perDay \in U64, NEW ticks \in Nat
  PROVE  Numerator(rest, key, perDay, ticks) \in U64
<1>1. rest[key] \in Nat /\ rest[key] <= MaxU64
  BY WidthAssumption DEF Rests
<1>2. SaturatingMultiply(perDay, ticks) \in U64
  <2>1. PICK m \in Nat : m = perDay * ticks
    BY DEF U64
  <2>2. QED
    BY <2>1, WidthAssumption DEF SaturatingMultiply, MultiplyOverflows, U64
<1>3. QED
  BY <1>1, <1>2, WidthAssumption DEF Numerator, SaturatingAdd, CanAdd, U64

LEMMA ScaledIs ==
  ASSUME NEW rest \in Rests, NEW key \in Keys, NEW perDay \in U64, NEW ticks \in Nat
  PROVE  /\ Scaled(rest, key, perDay, ticks).units \in U64
         /\ Scaled(rest, key, perDay, ticks).rest \in Rests
         /\ \A other \in Keys : other # key => Scaled(rest, key, perDay, ticks).rest[other] = rest[other]
         /\ IF perDay = 0 \/ ticks = 0
            THEN /\ Scaled(rest, key, perDay, ticks).units = 0
                 /\ Scaled(rest, key, perDay, ticks).rest = rest
            ELSE /\ Scaled(rest, key, perDay, ticks).units = Numerator(rest, key, perDay, ticks) \div TicksPerDay
                 /\ Scaled(rest, key, perDay, ticks).rest[key] = Numerator(rest, key, perDay, ticks) % TicksPerDay
<1> DEFINE due == Scaled(rest, key, perDay, ticks)
<1>1. CASE perDay = 0 \/ ticks = 0
  <2>1. due = [units |-> 0, rest |-> rest]
    BY <1>1 DEF Scaled
  <2>2. 0 \in U64
    BY TicksPerDayPositive DEF U64
  <2>3. QED
    BY <1>1, <2>1, <2>2
<1>2. CASE ~(perDay = 0 \/ ticks = 0)
  <2>1. PICK n \in U64 : n = Numerator(rest, key, perDay, ticks)
    BY NumeratorType
  <2>2. due = [units |-> n \div TicksPerDay, rest |-> [rest EXCEPT ![key] = n % TicksPerDay]]
    BY <1>2, <2>1 DEF Scaled, Numerator
  <2>3. n \div TicksPerDay \in U64
    <3>1. n \in Nat /\ n <= MaxU64
      BY TicksPerDayPositive DEF U64
    <3>2. PICK q \in Nat : q = n \div TicksPerDay /\ q <= n
      BY <3>1, TicksPerDayPositive
    <3>3. QED
      BY <3>1, <3>2, TicksPerDayPositive DEF U64
  <2>4. n % TicksPerDay \in 0 .. TicksPerDay - 1
    BY TicksPerDayPositive DEF U64
  <2>5. QED
    BY <1>2, <2>1, <2>2, <2>3, <2>4 DEF Rests
<1>3. QED
  BY <1>1, <1>2

LEMMA FoodNeededType == FoodNeeded \in U64
<1>1. CASE Population = 0
  BY <1>1, TicksPerDayPositive DEF FoodNeeded, U64
<1>2. CASE Population # 0
  <2>1. Population \in Nat /\ Population - 1 \in Nat /\ Population <= MaxU64 /\ PeoplePerFood \in Nat \ {0}
    BY <1>2, SettlementAssumption DEF U64
  <2>2. PICK q \in Nat : q = (Population - 1) \div PeoplePerFood /\ q <= Population - 1
    BY <2>1
  <2>3. FoodNeeded = q + 1
    BY <1>2, <2>2 DEF FoodNeeded
  <2>4. QED
    BY <2>1, <2>2, <2>3, TicksPerDayPositive DEF U64
<1>3. QED
  BY <1>1, <1>2

LEMMA EatingIs ==
  ASSUME NEW s \in LivedStates, NEW ticks \in Nat
  PROVE  /\ Eating(s, ticks) \in LivedStates
         /\ \A r \in Resource : Eating(s, ticks).storage[r] <= s.storage[r]
<1> DEFINE due == Scaled(s.rest, <<"food", Food>>, FoodNeeded, ticks)
           found == RemovedUpTo(s.storage, Food, due.units)
<1>1. s.rest \in Rests /\ s.storage \in Storages /\ s.short \subseteq Shortages
      /\ \A b \in BuildingId : s.rest[<<"input", b>>] = s.rest[<<"output", b>>]
  BY DEF LivedStates, PairedRests
<1>2. FoodNeeded \in U64
  BY FoodNeededType
<1>3. /\ due.units \in U64 /\ due.rest \in Rests
      /\ \A other \in Keys : other # <<"food", Food>> => due.rest[other] = s.rest[other]
  <2>1. PICK key \in Keys : key = <<"food", Food>>
    BY KeysAreKeys
  <2>2. PICK rest \in Rests : rest = s.rest
    BY <1>1
  <2>3. due = Scaled(rest, key, FoodNeeded, ticks)
    BY <2>1, <2>2
  <2> HIDE DEF due
  <2>4. due.units \in U64 /\ due.rest \in Rests
    BY <1>2, <2>3, ScaledIs
  <2>5. \A other \in Keys : other # key => due.rest[other] = rest[other]
    BY <1>2, <2>3, ScaledIs
  <2>6. QED
    BY <2>1, <2>2, <2>4, <2>5
<1>4. due.rest \in PairedRests
  BY <1>1, <1>3, KeysAreKeys DEF PairedRests
<1>5. Food \in Resource /\ s.storage[Food] \in Nat /\ s.storage[Food] <= MaxU64
  BY <1>1, SettlementAssumption, TicksPerDayPositive DEF Storages, U64
<1>6. due.units \in Nat
  BY <1>3 DEF U64
<1>7. Eating(s, ticks) = [storage |-> [s.storage EXCEPT ![Food] = s.storage[Food] - found],
                          rest |-> due.rest,
                          short |-> s.short \cup IF found < due.units THEN {"food"} ELSE {}]
  BY DEF Eating
<1> HIDE DEF due
<1>8. found \in Nat /\ found <= s.storage[Food]
  BY <1>5, <1>6 DEF RemovedUpTo, AtMost
<1> HIDE DEF found
<1>9. PICK left \in U64 : left = s.storage[Food] - found /\ left <= s.storage[Food]
  BY <1>5, <1>8, TicksPerDayPositive DEF U64
<1>10. [s.storage EXCEPT ![Food] = left] \in Storages
  BY <1>1, <1>5 DEF Storages
<1>11. \A r \in Resource : [s.storage EXCEPT ![Food] = left][r] <= s.storage[r]
  BY <1>1, <1>5, <1>9, TicksPerDayPositive DEF Storages, U64
<1>12. s.short \cup (IF found < due.units THEN {"food"} ELSE {}) \in SUBSET Shortages
  <2> DEFINE more == IF found < due.units THEN {"food"} ELSE {}
  <2>1. more \subseteq Shortages
    BY DEF Shortages
  <2> HIDE DEF more
  <2>2. s.short \cup more \subseteq Shortages
    BY <1>1, <2>1
  <2>3. QED
    BY <2>2 DEF more
<1>13. QED
  BY <1>4, <1>7, <1>9, <1>10, <1>11, <1>12 DEF LivedStates

-----------------------------------------------------------------------------
(* consume_inputs and the loop over the outputs.                           *)

Listed(items, r) == \E k \in DOMAIN items : items[k] = r

AfterInput(held, r, n) == IF CanTake(held, r, n) THEN Take(held, r, n) ELSE held

TakesInputs(f, held, inputs, n) ==
  /\ f \in [0 .. Len(inputs) -> Storages]
  /\ f[0] = held
  /\ \A k \in 1 .. Len(inputs) : f[k] = AfterInput(f[k - 1], inputs[k], n)
  /\ WithoutInputs(held, inputs, n) = f[Len(inputs)]

LEMMA AfterInputIs ==
  ASSUME NEW held \in Storages, NEW r \in Resource, NEW n \in U64
  PROVE  /\ AfterInput(held, r, n) \in Storages
         /\ \A x \in Resource : x # r => AfterInput(held, r, n)[x] = held[x]
         /\ held[r] >= n => AfterInput(held, r, n)[r] + n = held[r]
         /\ ~(held[r] >= n) => AfterInput(held, r, n)[r] = held[r]
<1>1. held[r] \in Nat /\ n \in Nat /\ held[r] <= MaxU64
  BY TicksPerDayPositive DEF Storages, U64
<1>2. CASE CanTake(held, r, n)
  <2>1. PICK left \in U64 : left = held[r] - n
    BY <1>1, <1>2, TicksPerDayPositive DEF CanTake, U64
  <2>2. AfterInput(held, r, n) = [held EXCEPT ![r] = left]
    BY <1>2, <2>1 DEF AfterInput, Take
  <2>3. QED
    BY <1>1, <1>2, <2>1, <2>2 DEF Storages, CanTake
<1>3. CASE ~CanTake(held, r, n)
  BY <1>1, <1>3 DEF AfterInput, CanTake
<1>4. QED
  BY <1>2, <1>3

LEMMA InputsUnrolled ==
  ASSUME NEW held \in Storages, NEW inputs \in Seq(Resource), NEW n \in U64
  PROVE  \E f : TakesInputs(f, held, inputs, n)
<1> DEFINE N == Len(inputs)
           Eq(f) == f = [k \in 0 .. N |->
                           IF k = 0 THEN held
                           ELSE IF CanTake(f[k - 1], inputs[k], n) THEN Take(f[k - 1], inputs[k], n)
                           ELSE f[k - 1]]
           round == [k \in 1 .. N |-> [h \in Storages |-> AfterInput(h, inputs[k], n)]]
           run == CHOOSE f : Eq(f)
<1>1. N \in Nat /\ \A k \in 1 .. N : inputs[k] \in Resource
  OBVIOUS
<1>2. round \in [1 .. N -> [Storages -> Storages]]
  BY <1>1, AfterInputIs
<1>3. PICK g \in [0 .. N -> Storages] : IsLoop(g, N, held, round)
  <2> HIDE DEF round
  <2>1. QED
    BY <1>1, <1>2, LoopExists
<1>4. /\ g[0] = held
      /\ \A k \in 1 .. N : g[k] = AfterInput(g[k - 1], inputs[k], n)
  <2>1. \A k \in 0 .. N : g[k] = IF k = 0 THEN held ELSE round[k][g[k - 1]]
    BY <1>3 DEF IsLoop
  <2>2. ASSUME NEW k \in 1 .. N PROVE k \in 0 .. N /\ k # 0 /\ k - 1 \in 0 .. N
    BY <1>1
  <2>3. \A k \in 1 .. N : g[k] = round[k][g[k - 1]] /\ g[k - 1] \in Storages
    BY <2>1, <2>2
  <2>4. 0 \in 0 .. N
    BY <1>1
  <2>5. QED
    BY <2>1, <2>3, <2>4
<1> HIDE DEF round
<1>5. Eq(g)
  BY <1>3, <1>4 DEF AfterInput
<1>6. \E f : Eq(f)
  BY <1>5
<1>7. ASSUME NEW f, NEW h, Eq(f), Eq(h) PROVE f = h
  <2> DEFINE T == {k \in 0 .. N : f[k] = h[k]}
  <2>1. 0 \in T
    BY <1>1, <1>7
  <2>2. ASSUME NEW k \in 1 .. N, k - 1 \in T PROVE k \in T
    <3>1. k \in 0 .. N /\ k # 0
      BY <1>1
    <3>2. f[k - 1] = h[k - 1]
      BY <2>2
    <3>3. f[k] = AfterInput(f[k - 1], inputs[k], n) /\ h[k] = AfterInput(h[k - 1], inputs[k], n)
      BY <1>7, <3>1 DEF AfterInput
    <3>4. QED
      BY <3>1, <3>2, <3>3
  <2> HIDE DEF T
  <2>3. \A k \in 0 .. N : k \in T
    BY <1>1, <2>1, <2>2, BoundedInduction
  <2>4. \A k \in 0 .. N : f[k] = h[k]
    BY <2>3 DEF T
  <2>5. QED
    BY <1>7, <2>4
<1> HIDE DEF Eq
<1>8. Eq(run)
  BY <1>6, Zenon
<1>9. run = g
  BY <1>5, <1>7, <1>8
<1>10. WithoutInputs(held, inputs, n) = run[N]
  BY Zenon DEF WithoutInputs, Eq
<1> HIDE DEF run
<1>11. QED
  BY <1>3, <1>4, <1>9, <1>10 DEF TakesInputs

LEMMA InputsTaken ==
  ASSUME NEW held \in Storages, NEW inputs \in Seq(Resource), NEW n \in U64
  PROVE  /\ WithoutInputs(held, inputs, n) \in Storages
         /\ \A x \in Resource :
              /\ WithoutInputs(held, inputs, n)[x] <= held[x]
              /\ Listed(inputs, x) /\ held[x] >= n => WithoutInputs(held, inputs, n)[x] + n <= held[x]
<1>1. PICK f : TakesInputs(f, held, inputs, n)
  BY InputsUnrolled
<1> DEFINE N == Len(inputs)
           Till(k, x) == \E j \in 1 .. k : inputs[j] = x
           T == {k \in 0 .. N : \A x \in Resource :
                   /\ f[k][x] <= held[x]
                   /\ ~Till(k, x) => f[k][x] = held[x]
                   /\ Till(k, x) /\ held[x] >= n => f[k][x] + n <= held[x]}
<1>2. N \in Nat /\ n \in Nat /\ DOMAIN inputs = 1 .. N /\ \A k \in 1 .. N : inputs[k] \in Resource
  BY DEF U64
<1>3. \A x \in Resource : held[x] \in Nat
  BY DEF Storages, U64
<1>4. \A k \in 0 .. N : f[k] \in Storages /\ \A x \in Resource : f[k][x] \in Nat
  BY <1>1 DEF TakesInputs, Storages, U64
<1>5. 0 \in T
  BY <1>1, <1>2, <1>3 DEF TakesInputs
<1>6. ASSUME NEW k \in 1 .. N, k - 1 \in T PROVE k \in T
  <2> DEFINE r == inputs[k]
             h == f[k - 1]
  <2>1. k \in 0 .. N /\ k - 1 \in 0 .. N /\ r \in Resource /\ h \in Storages
    BY <1>2, <1>4
  <2>2. f[k] = AfterInput(h, r, n)
    BY <1>1 DEF TakesInputs
  <2>3. /\ \A x \in Resource : x # r => f[k][x] = h[x]
        /\ h[r] >= n => f[k][r] + n = h[r]
        /\ ~(h[r] >= n) => f[k][r] = h[r]
    BY <2>1, <2>2, AfterInputIs
  <2>4. ASSUME NEW x \in Resource
        PROVE  /\ f[k][x] <= held[x]
               /\ ~Till(k, x) => f[k][x] = held[x]
               /\ Till(k, x) /\ held[x] >= n => f[k][x] + n <= held[x]
    <3>1. /\ h[x] <= held[x]
          /\ ~Till(k - 1, x) => h[x] = held[x]
          /\ Till(k - 1, x) /\ held[x] >= n => h[x] + n <= held[x]
      BY <1>6
    <3>2. Till(k, x) <=> Till(k - 1, x) \/ x = r
      <4>1. \A j \in 1 .. k : j \in 1 .. k - 1 \/ j = k
        BY <1>2
      <4>2. k \in 1 .. k /\ \A j \in 1 .. k - 1 : j \in 1 .. k
        BY <1>2
      <4>3. QED
        BY <4>1, <4>2
    <3>3. h[x] \in Nat /\ f[k][x] \in Nat /\ held[x] \in Nat
      BY <1>3, <1>4, <2>1
    <3> HIDE DEF Till, h, r
    <3>4. CASE x = r
      BY <1>2, <2>3, <3>1, <3>2, <3>3, <3>4
    <3>5. CASE x # r
      BY <2>3, <3>1, <3>2, <3>3, <3>5
    <3>6. QED
      BY <3>4, <3>5
  <2>5. QED
    BY <2>1, <2>4
<1> HIDE DEF T
<1>7. \A k \in 0 .. N : k \in T
  BY <1>2, <1>5, <1>6, BoundedInduction
<1>8. N \in T /\ N \in 0 .. N
  BY <1>2, <1>7
<1>9. WithoutInputs(held, inputs, n) = f[N]
  BY <1>1 DEF TakesInputs
<1>10. ASSUME NEW x \in Resource
       PROVE  /\ f[N][x] <= held[x]
              /\ Listed(inputs, x) /\ held[x] >= n => f[N][x] + n <= held[x]
  <2>1. Listed(inputs, x) => Till(N, x)
    BY <1>2 DEF Listed
  <2> HIDE DEF Till
  <2>2. QED
    BY <1>8, <2>1 DEF T
<1>11. f[N] \in Storages
  BY <1>4, <1>8
<1> HIDE DEF N
<1>12. QED
  BY <1>9, <1>10, <1>11


Losses == [storage : Storages, lost : SUBSET Shortages]

AfterOutput(m, r, n) ==
  IF CanPut(m.storage, r, n) THEN [m EXCEPT !.storage = Put(@, r, n)]
  ELSE [m EXCEPT !.lost = IF n > 0 THEN {"room"} ELSE @]

PutsOutputs(f, held, outputs, n) ==
  /\ f \in [0 .. Len(outputs) -> Losses]
  /\ f[0] = [storage |-> held, lost |-> {}]
  /\ \A k \in 1 .. Len(outputs) : f[k] = AfterOutput(f[k - 1], outputs[k], n)
  /\ WithOutputs(held, outputs, n) = f[Len(outputs)]

LEMMA AfterOutputIs ==
  ASSUME NEW m \in Losses, NEW r \in Resource, NEW n \in U64
  PROVE  /\ AfterOutput(m, r, n) \in Losses
         /\ \A x \in Resource : x # r => AfterOutput(m, r, n).storage[x] = m.storage[x]
         /\ AfterOutput(m, r, n).storage[r] <= m.storage[r] + n
         /\ AfterOutput(m, r, n).lost = {} =>
              m.lost = {} /\ AfterOutput(m, r, n).storage[r] = m.storage[r] + n
<1>1. /\ m.storage \in Storages /\ m.lost \subseteq Shortages
      /\ m.storage[r] \in Nat /\ n \in Nat
      /\ m = [storage |-> m.storage, lost |-> m.lost]
  BY DEF Losses, Storages, U64
<1>2. CASE CanPut(m.storage, r, n)
  <2>1. PICK more \in U64 : more = m.storage[r] + n
    BY <1>1, <1>2, TicksPerDayPositive DEF CanPut, CanAdd, U64
  <2>2. AfterOutput(m, r, n) = [storage |-> [m.storage EXCEPT ![r] = more], lost |-> m.lost]
    <3>1. Put(m.storage, r, n) = [m.storage EXCEPT ![r] = more]
      <4>1. PICK h \in Storages : h = m.storage
        BY <1>1
      <4>2. Put(h, r, n) = [h EXCEPT ![r] = more]
        <5>1. h[r] + n <= MaxU64
          BY <1>1, <2>1, <4>1, TicksPerDayPositive DEF U64
        <5>2. WrapAdd(h[r], n) = more
          BY <1>1, <2>1, <4>1, <5>1, TicksPerDayPositive DEF WrapAdd
        <5>3. QED
          BY <5>2 DEF Put
      <4>3. QED
        BY <4>1, <4>2
    <3>2. AfterOutput(m, r, n) = [m EXCEPT !.storage = Put(m.storage, r, n)]
      BY <1>2 DEF AfterOutput
    <3>3. QED
      BY <1>1, <3>1, <3>2
  <2>3. [m.storage EXCEPT ![r] = more] \in Storages
    BY <1>1 DEF Storages
  <2>4. \A x \in Resource : [m.storage EXCEPT ![r] = more][x] = IF x = r THEN more ELSE m.storage[x]
    BY <1>1 DEF Storages
  <2>5. more = m.storage[r] + n /\ more <= m.storage[r] + n
    BY <1>1, <2>1
  <2>6. QED
    BY <1>1, <2>2, <2>3, <2>4, <2>5 DEF Losses
<1>3. CASE ~CanPut(m.storage, r, n)
  <2> DEFINE lost == IF n > 0 THEN {"room"} ELSE m.lost
  <2>1. AfterOutput(m, r, n) = [storage |-> m.storage, lost |-> lost]
    BY <1>1, <1>3 DEF AfterOutput
  <2>2. lost \subseteq Shortages /\ (lost = {} => m.lost = {} /\ n = 0)
    BY <1>1 DEF Shortages
  <2> HIDE DEF lost
  <2>3. QED
    BY <1>1, <2>1, <2>2 DEF Losses
<1>4. QED
  BY <1>2, <1>3

LEMMA OutputsUnrolled ==
  ASSUME NEW held \in Storages, NEW outputs \in Seq(Resource), NEW n \in U64
  PROVE  \E f : PutsOutputs(f, held, outputs, n)
<1> DEFINE N == Len(outputs)
           start == [storage |-> held, lost |-> {}]
           Eq(f) == f = [k \in 0 .. N |->
                           IF k = 0 THEN [storage |-> held, lost |-> {}]
                           ELSE AfterOutput(f[k - 1], outputs[k], n)]
           round == [k \in 1 .. N |-> [m \in Losses |-> AfterOutput(m, outputs[k], n)]]
           run == CHOOSE f : Eq(f)
<1>1. N \in Nat /\ \A k \in 1 .. N : outputs[k] \in Resource
  OBVIOUS
<1>2. round \in [1 .. N -> [Losses -> Losses]]
  BY <1>1, AfterOutputIs
<1>3. start \in Losses
  BY DEF Losses
<1>4. PICK g \in [0 .. N -> Losses] : IsLoop(g, N, start, round)
  <2> HIDE DEF round, start
  <2>1. QED
    BY <1>1, <1>2, <1>3, LoopExists
<1>5. /\ g[0] = start
      /\ \A k \in 1 .. N : g[k] = AfterOutput(g[k - 1], outputs[k], n)
  <2>1. \A k \in 0 .. N : g[k] = IF k = 0 THEN start ELSE round[k][g[k - 1]]
    BY <1>4 DEF IsLoop
  <2>2. ASSUME NEW k \in 1 .. N PROVE k \in 0 .. N /\ k # 0 /\ k - 1 \in 0 .. N
    BY <1>1
  <2>3. \A k \in 1 .. N : g[k] = round[k][g[k - 1]] /\ g[k - 1] \in Losses
    BY <2>1, <2>2
  <2>4. 0 \in 0 .. N
    BY <1>1
  <2>5. QED
    BY <2>1, <2>3, <2>4
<1> HIDE DEF round
<1>6. Eq(g)
  BY <1>4, <1>5
<1>7. \E f : Eq(f)
  BY <1>6
<1>8. ASSUME NEW f, NEW h, Eq(f), Eq(h) PROVE f = h
  <2> DEFINE T == {k \in 0 .. N : f[k] = h[k]}
  <2>1. 0 \in T
    BY <1>1, <1>8
  <2>2. ASSUME NEW k \in 1 .. N, k - 1 \in T PROVE k \in T
    <3>1. k \in 0 .. N /\ k # 0
      BY <1>1
    <3>2. f[k - 1] = h[k - 1]
      BY <2>2
    <3>3. f[k] = AfterOutput(f[k - 1], outputs[k], n) /\ h[k] = AfterOutput(h[k - 1], outputs[k], n)
      BY <1>8, <3>1
    <3>4. QED
      BY <3>1, <3>2, <3>3
  <2> HIDE DEF T
  <2>3. \A k \in 0 .. N : k \in T
    BY <1>1, <2>1, <2>2, BoundedInduction
  <2>4. \A k \in 0 .. N : f[k] = h[k]
    BY <2>3 DEF T
  <2>5. QED
    BY <1>8, <2>4
<1> HIDE DEF Eq
<1>9. Eq(run)
  BY <1>7, Zenon
<1>10. run = g
  BY <1>6, <1>8, <1>9
<1>11. WithOutputs(held, outputs, n) = run[N]
  BY Zenon DEF WithOutputs, Eq, AfterOutput
<1> HIDE DEF run
<1>12. QED
  BY <1>4, <1>5, <1>10, <1>11 DEF PutsOutputs

LEMMA OutputsPut ==
  ASSUME NEW held \in Storages, NEW outputs \in Seq(Resource), NEW n \in U64
  PROVE  /\ WithOutputs(held, outputs, n) \in Losses
         /\ \A x \in Resource :
              /\ ~Listed(outputs, x) => WithOutputs(held, outputs, n).storage[x] = held[x]
              /\ ListsOnce(outputs, x) => WithOutputs(held, outputs, n).storage[x] <= held[x] + n
<1>1. PICK f : PutsOutputs(f, held, outputs, n)
  BY OutputsUnrolled
<1> DEFINE N == Len(outputs)
           Till(k, x) == \E j \in 1 .. k : outputs[j] = x
           T == {k \in 0 .. N : \A x \in Resource :
                   /\ ~Till(k, x) => f[k].storage[x] = held[x]
                   /\ ListsOnce(outputs, x) => f[k].storage[x] <= held[x] + n}
<1>2. N \in Nat /\ n \in Nat /\ DOMAIN outputs = 1 .. N /\ \A k \in 1 .. N : outputs[k] \in Resource
  BY DEF U64
<1>3. \A x \in Resource : held[x] \in Nat
  BY DEF Storages, U64
<1>4. \A k \in 0 .. N : f[k] \in Losses /\ \A x \in Resource : f[k].storage[x] \in Nat
  BY <1>1 DEF PutsOutputs, Losses, Storages, U64
<1>5. 0 \in T
  <2>1. f[0].storage = held
    BY <1>1 DEF PutsOutputs
  <2>2. QED
    BY <1>2, <1>3, <2>1
<1>6. ASSUME NEW k \in 1 .. N, k - 1 \in T PROVE k \in T
  <2> DEFINE r == outputs[k]
             m == f[k - 1]
  <2>1. k \in 0 .. N /\ k - 1 \in 0 .. N /\ r \in Resource /\ m \in Losses
    BY <1>2, <1>4
  <2>2. f[k] = AfterOutput(m, r, n)
    BY <1>1 DEF PutsOutputs
  <2>3. /\ \A x \in Resource : x # r => f[k].storage[x] = m.storage[x]
        /\ f[k].storage[r] <= m.storage[r] + n
    BY <2>1, <2>2, AfterOutputIs
  <2>4. ASSUME NEW x \in Resource
        PROVE  /\ ~Till(k, x) => f[k].storage[x] = held[x]
               /\ ListsOnce(outputs, x) => f[k].storage[x] <= held[x] + n
    <3>1. /\ ~Till(k - 1, x) => m.storage[x] = held[x]
          /\ ListsOnce(outputs, x) => m.storage[x] <= held[x] + n
      BY <1>6
    <3>2. Till(k, x) <=> Till(k - 1, x) \/ x = r
      <4>1. \A j \in 1 .. k : j \in 1 .. k - 1 \/ j = k
        BY <1>2
      <4>2. k \in 1 .. k /\ \A j \in 1 .. k - 1 : j \in 1 .. k
        BY <1>2
      <4>3. QED
        BY <4>1, <4>2
    <3>3. ListsOnce(outputs, x) /\ x = r => ~Till(k - 1, x)
      <4>1. ASSUME ListsOnce(outputs, x), x = r, NEW j \in 1 .. k - 1, outputs[j] = x PROVE FALSE
        <5>1. j \in 1 .. N /\ j # k
          BY <1>2
        <5>2. QED
          BY <1>2, <4>1, <5>1 DEF ListsOnce
      <4>2. QED
        BY <4>1
    <3>4. m.storage[x] \in Nat /\ f[k].storage[x] \in Nat /\ held[x] \in Nat
      BY <1>3, <1>4, <2>1
    <3> HIDE DEF Till, m, r
    <3>5. CASE x = r
      BY <1>2, <2>3, <3>1, <3>2, <3>3, <3>4, <3>5
    <3>6. CASE x # r
      BY <2>3, <3>1, <3>2, <3>4, <3>6
    <3>7. QED
      BY <3>5, <3>6
  <2>5. QED
    BY <2>1, <2>4
<1> HIDE DEF T
<1>7. \A k \in 0 .. N : k \in T
  BY <1>2, <1>5, <1>6, BoundedInduction
<1>8. N \in T /\ N \in 0 .. N
  BY <1>2, <1>7
<1>9. WithOutputs(held, outputs, n) = f[N]
  BY <1>1 DEF PutsOutputs
<1>10. ASSUME NEW x \in Resource
       PROVE  /\ ~Listed(outputs, x) => f[N].storage[x] = held[x]
              /\ ListsOnce(outputs, x) => f[N].storage[x] <= held[x] + n
  <2>1. Till(N, x) => Listed(outputs, x)
    BY <1>2 DEF Listed
  <2> HIDE DEF Till
  <2>2. QED
    BY <1>8, <2>1 DEF T
<1>11. f[N] \in Losses
  BY <1>4, <1>8
<1> HIDE DEF N
<1>12. QED
  BY <1>9, <1>10, <1>11

-----------------------------------------------------------------------------
(* One building.                                                           *)

(* What is made of an input that all makers of an output need.             *)
PaidFrom(before, after) ==
  \A r, i \in Resource : Cost(r, i) => after[r] + after[i] <= before[r] + before[i]

LEMMA PaidInTurn ==
  ASSUME NEW one \in Storages, NEW two \in Storages, NEW three \in Storages,
         PaidFrom(one, two), PaidFrom(two, three)
  PROVE  PaidFrom(one, three)
<1>1. \A r \in Resource : one[r] \in Nat /\ two[r] \in Nat /\ three[r] \in Nat
  BY DEF Storages, U64
<1>2. ASSUME NEW r \in Resource, NEW i \in Resource, Cost(r, i)
      PROVE  three[r] + three[i] <= one[r] + one[i]
  <2>1. two[r] + two[i] <= one[r] + one[i] /\ three[r] + three[i] <= two[r] + two[i]
    BY <1>2 DEF PaidFrom
  <2>2. QED
    BY <1>1, <2>1
<1>3. QED
  BY <1>2 DEF PaidFrom

LEMMA MadeIsPaid ==
  ASSUME NEW held \in Storages, NEW b \in BuildingId, NEW n \in U64,
         HasInputs(held, Definitions[b].inputs, n)
  PROVE  /\ WithOutputs(WithoutInputs(held, Definitions[b].inputs, n), Definitions[b].outputs, n) \in Losses
         /\ PaidFrom(held, WithOutputs(WithoutInputs(held, Definitions[b].inputs, n), Definitions[b].outputs, n).storage)
<1>1. PICK inputs \in Seq(Resource) : inputs = Definitions[b].inputs
  BY SettlementAssumption DEF BuildingDefinitions
<1>2. PICK outputs \in Seq(Resource) : outputs = Definitions[b].outputs
  BY SettlementAssumption DEF BuildingDefinitions
<1>3. PICK left \in Storages : left = WithoutInputs(held, inputs, n)
  BY InputsTaken
<1>4. PICK made \in Losses : made = WithOutputs(left, outputs, n)
  BY OutputsPut
<1>5. \A x \in Resource : /\ left[x] <= held[x]
                          /\ Listed(inputs, x) /\ held[x] >= n => left[x] + n <= held[x]
  BY <1>3, InputsTaken
<1>6. \A x \in Resource : /\ ~Listed(outputs, x) => made.storage[x] = left[x]
                          /\ ListsOnce(outputs, x) => made.storage[x] <= left[x] + n
  BY <1>4, OutputsPut
<1>7. ASSUME NEW r \in Resource, NEW i \in Resource, Cost(r, i)
      PROVE  made.storage[r] + made.storage[i] <= held[r] + held[i]
  <2>1. ~Listed(outputs, i)
    BY <1>2, <1>7 DEF Cost, Makers, Listed
  <2>2. /\ held[r] \in Nat /\ held[i] \in Nat /\ left[r] \in Nat /\ left[i] \in Nat /\ n \in Nat
        /\ made.storage[r] \in Nat /\ made.storage[i] \in Nat
    BY DEF Losses, Storages, U64
  <2>3. CASE Listed(outputs, r)
    <3>1. b \in Makers(r)
      BY <1>2, <2>3 DEF Makers, Listed
    <3>2. ListsOnce(outputs, r) /\ Listed(inputs, i)
      BY <1>1, <1>2, <1>7, <3>1 DEF Cost, Listed
    <3>3. held[i] >= n
      BY <1>1, <3>2 DEF HasInputs, Listed
    <3>4. made.storage[r] <= left[r] + n /\ left[r] <= held[r] /\ left[i] + n <= held[i] /\ made.storage[i] = left[i]
      BY <1>5, <1>6, <2>1, <3>2, <3>3
    <3>5. QED
      BY <2>2, <3>4
  <2>4. CASE ~Listed(outputs, r)
    <3>1. made.storage[r] = left[r] /\ left[r] <= held[r] /\ left[i] <= held[i] /\ made.storage[i] = left[i]
      BY <1>5, <1>6, <2>1, <2>4
    <3>2. QED
      BY <2>2, <3>1
  <2>5. QED
    BY <2>3, <2>4
<1>8. QED
  BY <1>1, <1>2, <1>3, <1>4, <1>7 DEF PaidFrom

(* The two counters of a building move alike.                              *)
LEMMA CountersMoveAlike ==
  ASSUME NEW rest \in PairedRests, NEW b \in BuildingId, NEW workers \in U64, NEW ticks \in Nat,
         NEW input, input = Scaled(rest, <<"input", b>>, workers, ticks),
         NEW output, output = Scaled(input.rest, <<"output", b>>, workers, ticks)
  PROVE  /\ input.units \in U64
         /\ output.units = input.units
         /\ output.rest \in PairedRests
<1>1. rest \in Rests /\ \A c \in BuildingId : rest[<<"input", c>>] = rest[<<"output", c>>]
  BY DEF PairedRests
<1>2. PICK one \in Keys : one = <<"input", b>>
  BY KeysAreKeys
<1>3. PICK two \in Keys : two = <<"output", b>>
  BY KeysAreKeys
<1>4. one # two /\ rest[one] = rest[two]
  BY <1>1, <1>2, <1>3, KeysAreKeys
<1>5. input = Scaled(rest, one, workers, ticks)
  BY <1>2
<1>6. /\ input.units \in U64
      /\ \A other \in Keys : other # one => input.rest[other] = rest[other]
      /\ IF workers = 0 \/ ticks = 0 THEN input.units = 0 /\ input.rest = rest
         ELSE /\ input.units = Numerator(rest, one, workers, ticks) \div TicksPerDay
              /\ input.rest[one] = Numerator(rest, one, workers, ticks) % TicksPerDay
  <2>1. rest \in Rests
    BY <1>1
  <2>2. input.units \in U64
    BY <1>5, <2>1, ScaledIs
  <2>3. \A other \in Keys : other # one => input.rest[other] = rest[other]
    BY <1>5, <2>1, ScaledIs
  <2>4. IF workers = 0 \/ ticks = 0 THEN input.units = 0 /\ input.rest = rest
        ELSE /\ input.units = Numerator(rest, one, workers, ticks) \div TicksPerDay
             /\ input.rest[one] = Numerator(rest, one, workers, ticks) % TicksPerDay
    BY <1>5, <2>1, ScaledIs
  <2>5. QED
    BY <2>2, <2>3, <2>4
<1>7. PICK mid \in Rests : mid = input.rest
  BY <1>1, <1>5, ScaledIs
<1>8. output = Scaled(mid, two, workers, ticks)
  BY <1>3, <1>7
<1>9. /\ output.rest \in Rests
      /\ \A other \in Keys : other # two => output.rest[other] = mid[other]
      /\ IF workers = 0 \/ ticks = 0 THEN output.units = 0 /\ output.rest = mid
         ELSE /\ output.units = Numerator(mid, two, workers, ticks) \div TicksPerDay
              /\ output.rest[two] = Numerator(mid, two, workers, ticks) % TicksPerDay
  BY <1>8, ScaledIs
<1>10. Numerator(mid, two, workers, ticks) = Numerator(rest, one, workers, ticks)
  BY <1>4, <1>6, <1>7 DEF Numerator
<1>11. output.units = input.units /\ output.rest[two] = output.rest[one]
  BY <1>4, <1>6, <1>7, <1>9, <1>10
<1>12. ASSUME NEW c \in BuildingId
       PROVE  output.rest[<<"input", c>>] = output.rest[<<"output", c>>]
  <2>1. CASE c = b
    BY <1>2, <1>3, <1>11, <2>1
  <2>2. CASE c # b
    <3>1. PICK x \in Keys : x = <<"input", c>>
      BY KeysAreKeys
    <3>2. PICK y \in Keys : y = <<"output", c>>
      BY KeysAreKeys
    <3>3. x # one /\ x # two /\ y # one /\ y # two
      BY <1>2, <1>3, <2>2, <3>1, <3>2, KeysAreKeys
    <3>4. rest[x] = rest[y]
      BY <1>1, <3>1, <3>2
    <3>5. output.rest[x] = output.rest[y]
      BY <1>6, <1>7, <1>9, <3>3, <3>4
    <3>6. QED
      BY <3>1, <3>2, <3>5
  <2>3. QED
    BY <2>1, <2>2
<1>13. QED
  BY <1>6, <1>9, <1>11, <1>12 DEF PairedRests

LEMMA WorkingIs ==
  ASSUME NEW s \in LivedStates, NEW building \in BuildingInstances, NEW ticks \in Nat
  PROVE  /\ Working(s, building, ticks) \in LivedStates
         /\ PaidFrom(s.storage, Working(s, building, ticks).storage)
<1>1. /\ s.storage \in Storages /\ s.rest \in PairedRests /\ s.short \subseteq Shortages
      /\ s = [storage |-> s.storage, rest |-> s.rest, short |-> s.short]
  BY DEF LivedStates
<1>2. ASSUME NEW held \in Storages PROVE PaidFrom(held, held)
  BY DEF PaidFrom, Storages, U64
<1>3. CASE building.definition = Unregistered
  BY <1>1, <1>2, <1>3 DEF Working
<1>4. CASE building.definition # Unregistered
  <2>1. PICK b \in BuildingId : b = building.definition
    BY <1>4 DEF BuildingInstances
  <2>2. PICK workers \in U64 : workers = AtMost(building.workers, Definitions[b].slots)
    BY SettlementAssumption DEF BuildingInstances, BuildingDefinitions, AtMost
  <2>3. PICK input : input = Scaled(s.rest, <<"input", b>>, workers, ticks)
    OBVIOUS
  <2>4. PICK output : output = Scaled(input.rest, <<"output", b>>, workers, ticks)
    OBVIOUS
  <2>5. input.units \in U64 /\ output.units = input.units /\ output.rest \in PairedRests
    BY <1>1, <2>3, <2>4, CountersMoveAlike
  <2>6. PICK counted \in LivedStates : counted = [s EXCEPT !.rest = output.rest] /\ counted.storage = s.storage
    <3>1. [s EXCEPT !.rest = output.rest] = [storage |-> s.storage, rest |-> output.rest, short |-> s.short]
      BY <1>1
    <3>2. [storage |-> s.storage, rest |-> output.rest, short |-> s.short] \in LivedStates
      BY <1>1, <2>5 DEF LivedStates
    <3>3. QED
      BY <3>1, <3>2
  <2> DEFINE made == WithOutputs(WithoutInputs(s.storage, Definitions[b].inputs, input.units),
                                 Definitions[b].outputs, input.units)
             skips == [counted EXCEPT !.short = @ \cup {"inputs"}]
             works == [counted EXCEPT !.storage = made.storage, !.short = @ \cup made.lost]
  <2>7. Working(s, building, ticks) =
          IF workers = 0 THEN s
          ELSE IF input.units = 0 THEN counted
          ELSE IF ~HasInputs(s.storage, Definitions[b].inputs, input.units) THEN skips
          ELSE works
    BY <1>4, <2>1, <2>2, <2>3, <2>4, <2>5, <2>6 DEF Working
  <2>8. skips \in LivedStates /\ skips.storage = s.storage
    BY <2>6 DEF LivedStates, Shortages
  <2>9. ASSUME HasInputs(s.storage, Definitions[b].inputs, input.units)
        PROVE  works \in LivedStates /\ PaidFrom(s.storage, works.storage)
    <3>1. PICK n \in U64 : n = input.units
      BY <2>5
    <3>2. PICK held \in Storages : held = s.storage
      BY <1>1
    <3>3. made \in Losses /\ PaidFrom(s.storage, made.storage)
      BY <2>9, <3>1, <3>2, MadeIsPaid
    <3> HIDE DEF made
    <3>4. made.storage \in Storages /\ made.lost \subseteq Shortages
      BY <3>3 DEF Losses
    <3>5. QED
      BY <2>6, <3>3, <3>4 DEF LivedStates
  <2> HIDE DEF skips, works
  <2>10. PaidFrom(s.storage, s.storage)
    BY <1>1, <1>2
  <2>11. QED
    BY <2>6, <2>7, <2>8, <2>9, <2>10
<1>5. QED
  BY <1>3, <1>4

-----------------------------------------------------------------------------
(* The loop over the buildings.                                            *)

LivesThrough(f, s, ticks) ==
  /\ f \in [0 .. Len(buildings) -> LivedStates]
  /\ f[0] = Eating(s, ticks)
  /\ \A n \in 1 .. Len(buildings) : f[n] = Working(f[n - 1], buildings[n], ticks)
  /\ Lived(s, ticks) = f[Len(buildings)]

LEMMA LivedUnrolled ==
  ASSUME NEW s \in LivedStates, NEW ticks \in Nat, buildings \in Seq(BuildingInstances)
  PROVE  \E f : LivesThrough(f, s, ticks)
<1> DEFINE N == Len(buildings)
           start == Eating(s, ticks)
           Eq(f) == f = [n \in 0 .. N |->
                           IF n = 0 THEN Eating(s, ticks) ELSE Working(f[n - 1], buildings[n], ticks)]
           round == [n \in 1 .. N |-> [m \in LivedStates |-> Working(m, buildings[n], ticks)]]
           run == CHOOSE f : Eq(f)
<1>1. N \in Nat /\ \A n \in 1 .. N : buildings[n] \in BuildingInstances
  OBVIOUS
<1>2. round \in [1 .. N -> [LivedStates -> LivedStates]]
  BY <1>1, WorkingIs
<1>3. start \in LivedStates
  BY EatingIs
<1>4. PICK g \in [0 .. N -> LivedStates] : IsLoop(g, N, start, round)
  <2> HIDE DEF round, start, N
  <2>1. QED
    BY <1>1, <1>2, <1>3, LoopExists
<1>5. /\ g[0] = start
      /\ \A n \in 1 .. N : g[n] = Working(g[n - 1], buildings[n], ticks)
  <2>1. \A n \in 0 .. N : g[n] = IF n = 0 THEN start ELSE round[n][g[n - 1]]
    BY <1>4 DEF IsLoop
  <2>2. ASSUME NEW n \in 1 .. N PROVE n \in 0 .. N /\ n # 0 /\ n - 1 \in 0 .. N
    BY <1>1
  <2>3. \A n \in 1 .. N : g[n] = round[n][g[n - 1]] /\ g[n - 1] \in LivedStates
    BY <2>1, <2>2
  <2>4. 0 \in 0 .. N
    BY <1>1
  <2>5. QED
    BY <2>1, <2>3, <2>4
<1> HIDE DEF round
<1>6. Eq(g)
  BY <1>4, <1>5
<1>7. \E f : Eq(f)
  BY <1>6
<1>8. ASSUME NEW f, NEW h, Eq(f), Eq(h) PROVE f = h
  <2> DEFINE T == {n \in 0 .. N : f[n] = h[n]}
  <2>1. 0 \in T
    BY <1>1, <1>8
  <2>2. ASSUME NEW n \in 1 .. N, n - 1 \in T PROVE n \in T
    <3>1. n \in 0 .. N /\ n # 0
      BY <1>1
    <3>2. f[n - 1] = h[n - 1]
      BY <2>2
    <3>3. f[n] = Working(f[n - 1], buildings[n], ticks) /\ h[n] = Working(h[n - 1], buildings[n], ticks)
      BY <1>8, <3>1
    <3>4. QED
      BY <3>1, <3>2, <3>3
  <2> HIDE DEF T
  <2>3. \A n \in 0 .. N : n \in T
    BY <1>1, <2>1, <2>2, BoundedInduction
  <2>4. \A n \in 0 .. N : f[n] = h[n]
    BY <2>3 DEF T
  <2>5. QED
    BY <1>8, <2>4
<1> HIDE DEF Eq
<1>9. Eq(run)
  BY <1>7, Zenon
<1>10. run = g
  BY <1>6, <1>8, <1>9
<1>11. Lived(s, ticks) = run[N]
  BY Zenon DEF Lived, Eq
<1> HIDE DEF run
<1>12. QED
  BY <1>4, <1>5, <1>10, <1>11 DEF LivesThrough

LEMMA LivedIs ==
  ASSUME NEW s \in LivedStates, NEW ticks \in Nat, buildings \in Seq(BuildingInstances)
  PROVE  /\ Lived(s, ticks) \in LivedStates
         /\ PaidFrom(s.storage, Lived(s, ticks).storage)
<1>1. PICK f : LivesThrough(f, s, ticks)
  BY LivedUnrolled
<1> DEFINE N == Len(buildings)
           T == {n \in 0 .. N : PaidFrom(s.storage, f[n].storage)}
<1>2. N \in Nat /\ \A n \in 1 .. N : buildings[n] \in BuildingInstances
  OBVIOUS
<1>3. \A n \in 0 .. N : f[n] \in LivedStates /\ f[n].storage \in Storages
  BY <1>1 DEF LivesThrough, LivedStates
<1>4. s.storage \in Storages
  BY DEF LivedStates
<1>5. 0 \in T
  <2>1. \A r \in Resource : f[0].storage[r] <= s.storage[r]
    BY <1>1, EatingIs DEF LivesThrough
  <2>2. 0 \in 0 .. N
    BY <1>2
  <2>3. \A r \in Resource : f[0].storage[r] \in Nat /\ s.storage[r] \in Nat
    BY <1>3, <1>4, <2>2 DEF Storages, U64
  <2>4. QED
    BY <2>1, <2>2, <2>3 DEF PaidFrom
<1>6. ASSUME NEW n \in 1 .. N, n - 1 \in T PROVE n \in T
  <2>1. n \in 0 .. N /\ n - 1 \in 0 .. N
    BY <1>2
  <2>2. f[n] = Working(f[n - 1], buildings[n], ticks)
    BY <1>1 DEF LivesThrough
  <2>3. PaidFrom(f[n - 1].storage, f[n].storage)
    BY <1>2, <1>3, <2>1, <2>2, WorkingIs
  <2>4. PaidFrom(s.storage, f[n - 1].storage)
    BY <1>6
  <2>5. s.storage \in Storages /\ f[n - 1].storage \in Storages /\ f[n].storage \in Storages
    BY <1>3, <1>4, <2>1
  <2>6. PaidFrom(s.storage, f[n].storage)
    BY <2>3, <2>4, <2>5, PaidInTurn
  <2>7. QED
    BY <2>1, <2>6
<1> HIDE DEF T
<1>7. \A n \in 0 .. N : n \in T
  BY <1>2, <1>5, <1>6, BoundedInduction
<1>8. N \in T /\ N \in 0 .. N
  BY <1>2, <1>7
<1>9. Lived(s, ticks) = f[N]
  BY <1>1 DEF LivesThrough
<1>10. QED
  BY <1>3, <1>8, <1>9 DEF T

-----------------------------------------------------------------------------
(* The settlement.                                                         *)

LEMMA NowIsLived ==
  ASSUME SettlementTypeOK
  PROVE  SettlementNow \in LivedStates /\ SettlementNow.storage = storage
BY DEF SettlementTypeOK, SettlementNow, LivedStates

LEMMA SettlementStart ==
  ASSUME SettlementInit
  PROVE  SettlementTypeOK
<1>1. [k \in Keys |-> 0] \in Rests
  BY TicksPerDayPositive DEF Rests
<1>2. remainders \in PairedRests
  BY <1>1, KeysAreKeys DEF SettlementInit, PairedRests
<1>3. QED
  BY <1>2, SettlementAssumption DEF SettlementInit, SettlementTypeOK

LEMMA SettlementStep ==
  ASSUME SettlementTypeOK, [SettlementNext]_settlementVars
  PROVE  SettlementTypeOK'
<1>1. CASE UNCHANGED settlementVars
  BY <1>1 DEF SettlementTypeOK, settlementVars
<1>2. ASSUME NEW ticks \in U64, AdvanceSettlement(ticks) PROVE SettlementTypeOK'
  <2>1. ticks \in Nat
    BY DEF U64
  <2>2. Lived(SettlementNow, ticks) \in LivedStates
    BY <2>1, NowIsLived, LivedIs DEF SettlementTypeOK
  <2>3. QED
    BY <1>2, <2>2 DEF AdvanceSettlement, SettlementTypeOK, LivedStates
<1>3. ASSUME NEW building \in NewBuildings, AddBuilding(building) PROVE SettlementTypeOK'
  <2>1. building \in BuildingInstances
    BY SettlementAssumption
  <2>2. QED
    BY <1>3, <2>1 DEF AddBuilding, SettlementTypeOK
<1>4. ASSUME NEW r \in Resource, NEW n \in U64, Supply(r, n) PROVE SettlementTypeOK'
  <2>1. storage \in Storages /\ CanPut(storage, r, n) /\ storage' = Put(storage, r, n)
        /\ UNCHANGED <<buildings, remainders>>
    BY <1>4 DEF Supply, SettlementTypeOK
  <2>2. storage[r] \in Nat /\ n \in Nat
    BY <2>1 DEF Storages, U64
  <2>3. PICK more \in U64 : more = storage[r] + n
    BY <2>1, <2>2, TicksPerDayPositive DEF CanPut, CanAdd, U64
  <2>4. more <= MaxU64
    BY TicksPerDayPositive DEF U64
  <2>5. WrapAdd(storage[r], n) = more
    BY <2>2, <2>3, <2>4, TicksPerDayPositive DEF WrapAdd
  <2>6. storage' \in Storages
    BY <2>1, <2>5 DEF Put, Storages
  <2>7. QED
    BY <2>1, <2>6, SettlementTypeOK DEF SettlementTypeOK
<1>5. ASSUME NEW r \in Resource, NEW n \in U64, Draw(r, n) PROVE SettlementTypeOK'
  <2>1. storage \in Storages /\ CanTake(storage, r, n) /\ storage' = Take(storage, r, n)
        /\ UNCHANGED <<buildings, remainders>>
    BY <1>5 DEF Draw, SettlementTypeOK
  <2>2. storage[r] \in Nat /\ n \in Nat /\ storage[r] <= MaxU64
    BY <2>1, TicksPerDayPositive DEF Storages, U64
  <2>3. PICK left \in U64 : left = storage[r] - n
    BY <2>1, <2>2, TicksPerDayPositive DEF CanTake, U64
  <2>4. storage' \in Storages
    BY <2>1, <2>3 DEF Take, Storages
  <2>5. QED
    BY <2>1, <2>4, SettlementTypeOK DEF SettlementTypeOK
<1>6. QED
  BY <1>1, <1>2, <1>3, <1>4, <1>5 DEF SettlementNext

LEMMA PaidNow ==
  ASSUME SettlementTypeOK
  PROVE  OutputIsPaidFor
<1>1. ASSUME NEW ticks \in U64
      PROVE  PaidFrom(storage, Lived(SettlementNow, ticks).storage)
  <2>1. ticks \in Nat
    BY DEF U64
  <2>2. QED
    BY <2>1, NowIsLived, LivedIs DEF SettlementTypeOK
<1>2. QED
  BY <1>1 DEF OutputIsPaidFor, PaidFrom

(* A settlement makes nothing from nothing: however many buildings work,   *)
(* in whatever order, for however long, and whichever of them are skipped  *)
(* or find no room, a resource grows by at most what its makers took of an *)
(* input that all of them need.                                            *)
THEOREM OutputsArePaidFor == SettlementSpec => []OutputIsPaidFor
<1>1. SettlementInit => SettlementTypeOK
  BY SettlementStart
<1>2. SettlementTypeOK /\ [SettlementNext]_settlementVars => SettlementTypeOK'
  BY SettlementStep
<1>3. SettlementTypeOK => OutputIsPaidFor
  BY PaidNow
<1>4. QED
  BY <1>1, <1>2, <1>3, PTL DEF SettlementSpec

-----------------------------------------------------------------------------
(* The exact effect of inputs and outputs, if nothing runs short.          *)

LEMMA InputsTakenOnce ==
  ASSUME NEW held \in Storages, NEW inputs \in Seq(Resource), NEW n \in U64,
         HasInputs(held, inputs, n), NEW x \in Resource, ListsOnce(inputs, x)
  PROVE  WithoutInputs(held, inputs, n)[x] + (IF Listed(inputs, x) THEN n ELSE 0) = held[x]
<1>1. PICK f : TakesInputs(f, held, inputs, n)
  BY InputsUnrolled
<1> DEFINE N == Len(inputs)
           Till(k) == \E j \in 1 .. k : inputs[j] = x
           T == {k \in 0 .. N : f[k][x] + (IF Till(k) THEN n ELSE 0) = held[x]}
<1>2. N \in Nat /\ n \in Nat /\ DOMAIN inputs = 1 .. N /\ \A k \in 1 .. N : inputs[k] \in Resource
  BY DEF U64
<1>3. held[x] \in Nat
  BY DEF Storages, U64
<1>4. \A k \in 0 .. N : f[k] \in Storages /\ f[k][x] \in Nat
  BY <1>1 DEF TakesInputs, Storages, U64
<1>5. 0 \in T
  <2>1. ~Till(0) /\ f[0] = held
    BY <1>1 DEF TakesInputs
  <2> HIDE DEF Till
  <2>2. QED
    BY <1>2, <1>3, <2>1
<1>6. ASSUME NEW k \in 1 .. N, k - 1 \in T PROVE k \in T
  <2> DEFINE r == inputs[k]
             h == f[k - 1]
  <2>1. k \in 0 .. N /\ k - 1 \in 0 .. N /\ r \in Resource /\ h \in Storages
    BY <1>2, <1>4
  <2>2. f[k] = AfterInput(h, r, n)
    BY <1>1 DEF TakesInputs
  <2>3. /\ x # r => f[k][x] = h[x]
        /\ h[r] >= n => f[k][r] + n = h[r]
    BY <2>1, <2>2, AfterInputIs
  <2>4. h[x] + (IF Till(k - 1) THEN n ELSE 0) = held[x]
    BY <1>6
  <2>5. Till(k) <=> Till(k - 1) \/ x = r
    <3>1. \A j \in 1 .. k : j \in 1 .. k - 1 \/ j = k
      BY <1>2
    <3>2. k \in 1 .. k /\ \A j \in 1 .. k - 1 : j \in 1 .. k
      BY <1>2
    <3>3. QED
      BY <3>1, <3>2
  <2>6. x = r => ~Till(k - 1)
    <3>1. ASSUME x = r, NEW j \in 1 .. k - 1, inputs[j] = x PROVE FALSE
      <4>1. j \in 1 .. N /\ j # k
        BY <1>2
      <4>2. QED
        BY <1>2, <3>1, <4>1 DEF ListsOnce
    <3>2. QED
      BY <3>1
  <2>7. x = r => held[x] >= n
    BY <1>2 DEF HasInputs
  <2>8. h[x] \in Nat /\ f[k][x] \in Nat
    BY <1>4, <2>1
  <2> HIDE DEF Till, h, r
  <2>9. f[k][x] + (IF Till(k) THEN n ELSE 0) = held[x]
    BY <1>2, <1>3, <2>3, <2>4, <2>5, <2>6, <2>7, <2>8
  <2>10. QED
    BY <2>1, <2>9
<1> HIDE DEF T
<1>7. \A k \in 0 .. N : k \in T
  BY <1>2, <1>5, <1>6, BoundedInduction
<1>8. N \in T
  BY <1>2, <1>7
<1>9. Till(N) <=> Listed(inputs, x)
  BY <1>2 DEF Listed
<1>10. WithoutInputs(held, inputs, n) = f[N]
  BY <1>1 DEF TakesInputs
<1> HIDE DEF Till
<1>11. QED
  BY <1>8, <1>9, <1>10 DEF T

(* How often a list names a resource.                                      *)
Places(items, x) == {k \in DOMAIN items : items[k] = x}

LEMMA PlacesCount ==
  ASSUME NEW items \in Seq(Resource), NEW x
  PROVE  Cardinality(Places(items, x)) \in Nat
<1>1. IsFiniteSet(1 .. Len(items))
  BY FS_Interval
<1>2. Places(items, x) \subseteq 1 .. Len(items)
  BY DEF Places
<1>3. QED
  BY <1>1, <1>2, FS_Subset, FS_CardinalityType

LEMMA OutputsPutExactly ==
  ASSUME NEW held \in Storages, NEW outputs \in Seq(Resource), NEW n \in U64,
         WithOutputs(held, outputs, n).lost = {}, NEW x \in Resource
  PROVE  WithOutputs(held, outputs, n).storage[x] = held[x] + Cardinality(Places(outputs, x)) * n
<1>1. PICK f : PutsOutputs(f, held, outputs, n)
  BY OutputsUnrolled
<1> DEFINE N == Len(outputs)
           Till(k) == {j \in 1 .. k : outputs[j] = x}
           T == {k \in 0 .. N : f[k].lost = {} => f[k].storage[x] = held[x] + Cardinality(Till(k)) * n}
<1>2. N \in Nat /\ n \in Nat /\ DOMAIN outputs = 1 .. N /\ \A k \in 1 .. N : outputs[k] \in Resource
  BY DEF U64
<1>3. held[x] \in Nat
  BY DEF Storages, U64
<1>4. \A k \in 0 .. N : f[k] \in Losses /\ f[k].storage[x] \in Nat
  BY <1>1 DEF PutsOutputs, Losses, Storages, U64
<1>5. 0 \in T
  <2>1. Till(0) = {} /\ f[0].storage = held
    BY <1>1 DEF PutsOutputs
  <2>2. PICK c \in Nat : c = Cardinality(Till(0)) /\ c * n = 0
    BY <1>2, <2>1, FS_EmptySet
  <2> HIDE DEF Till
  <2>3. f[0].storage[x] = held[x] + Cardinality(Till(0)) * n
    BY <1>3, <2>1, <2>2
  <2>4. QED
    BY <1>2, <2>3
<1>6. ASSUME NEW k \in 1 .. N, k - 1 \in T PROVE k \in T
  <2> DEFINE r == outputs[k]
             m == f[k - 1]
             old == Cardinality(Till(k - 1))
             new == Cardinality(Till(k))
  <2>1. k \in 0 .. N /\ k - 1 \in 0 .. N /\ r \in Resource /\ m \in Losses
    BY <1>2, <1>4
  <2>2. f[k] = AfterOutput(m, r, n)
    BY <1>1 DEF PutsOutputs
  <2>3. /\ x # r => f[k].storage[x] = m.storage[x]
        /\ f[k].lost = {} => m.lost = {} /\ f[k].storage[r] = m.storage[r] + n
    BY <2>1, <2>2, AfterOutputIs
  <2>4. m.lost = {} => m.storage[x] = held[x] + old * n
    BY <1>6
  <2>5. IsFiniteSet(Till(k - 1)) /\ old \in Nat
    <3>1. PICK j \in Nat : j = k - 1
      BY <1>2
    <3>2. IsFiniteSet(1 .. j)
      BY <3>1, FS_Interval
    <3>3. Till(j) \subseteq 1 .. j
      OBVIOUS
    <3>4. IsFiniteSet(Till(j))
      BY <3>2, <3>3, FS_Subset
    <3>5. QED
      BY <3>1, <3>4, FS_CardinalityType
  <2>6. new = IF x = r THEN old + 1 ELSE old
    <3>1. CASE x = r
      <4>1. Till(k) = Till(k - 1) \cup {k}
        BY <1>2, <3>1
      <4>2. k \notin Till(k - 1)
        BY <1>2
      <4> HIDE DEF Till
      <4>3. QED
        BY <2>5, <3>1, <4>1, <4>2, FS_AddElement
    <3>2. CASE x # r
      <4>1. Till(k) = Till(k - 1)
        BY <1>2, <3>2
      <4>2. QED
        BY <3>2, <4>1
    <3>3. QED
      BY <3>1, <3>2
  <2>7. m.storage[x] \in Nat /\ f[k].storage[x] \in Nat
    BY <1>4, <2>1
  <2> HIDE DEF Till, m, r, old, new
  <2>8. (old + 1) * n = old * n + n
    BY <1>2, <2>5
  <2>9. PICK p \in Nat : p = old * n
    BY <1>2, <2>5
  <2>10. ASSUME f[k].lost = {} PROVE f[k].storage[x] = held[x] + new * n
    <3>1. m.lost = {} /\ m.storage[x] = held[x] + p
      BY <2>3, <2>4, <2>9, <2>10
    <3>2. CASE x = r
      <4>1. f[k].storage[x] = m.storage[x] + n
        BY <2>3, <2>10, <3>2
      <4>2. new * n = p + n
        BY <2>6, <2>8, <2>9, <3>2
      <4>3. QED
        BY <1>2, <1>3, <2>7, <3>1, <4>1, <4>2
    <3>3. CASE x # r
      BY <2>3, <2>6, <2>9, <3>1, <3>3
    <3>4. QED
      BY <3>2, <3>3
  <2>11. QED
    BY <2>1, <2>10 DEF new
<1> HIDE DEF T
<1>7. \A k \in 0 .. N : k \in T
  BY <1>2, <1>5, <1>6, BoundedInduction
<1>8. N \in T
  BY <1>2, <1>7
<1>9. Till(N) = Places(outputs, x)
  BY <1>2 DEF Places
<1>10. WithOutputs(held, outputs, n) = f[N]
  BY <1>1 DEF PutsOutputs
<1> HIDE DEF Till
<1>11. QED
  BY <1>8, <1>9, <1>10 DEF T

-----------------------------------------------------------------------------
(* The worth of a settlement, in fractions of a unit: what is stored, what *)
(* the counters have already earned, and what they still owe.  A building  *)
(* that works moves it by what it makes and uses, whole units or not.      *)

Takes(b, r) == IF b # Unregistered /\ Listed(Definitions[b].inputs, r) THEN 1 ELSE 0

Makes(b, r) == IF b # Unregistered THEN Cardinality(Places(Definitions[b].outputs, r)) ELSE 0

Hands(building) ==
  IF building.definition = Unregistered THEN 0
  ELSE AtMost(building.workers, Definitions[building.definition].slots)

Kinds == {buildings[k].definition : k \in DOMAIN buildings} \ {Unregistered}

UnderWay(rest, r) ==
  [b \in Kinds |-> Makes(b, r) * rest[<<"input", b>>] + Takes(b, r) * (TicksPerDay - rest[<<"input", b>>])]

Total(w) == (CHOOSE f : IsSum(f, Kinds, w))[Kinds]

Hunger(rest, r) == IF r = Food THEN TicksPerDay - rest[<<"food", Food>>] ELSE 0

Worth(s, r) == TicksPerDay * s.storage[r] + Total(UnderWay(s.rest, r)) + Hunger(s.rest, r)

LEMMA KindsAre ==
  ASSUME buildings \in Seq(BuildingInstances)
  PROVE  IsFiniteSet(Kinds) /\ Kinds \subseteq BuildingId
<1>1. IsFiniteSet(1 .. Len(buildings))
  BY FS_Interval
<1>2. IsFiniteSet(DOMAIN buildings)
  BY <1>1
<1>3. IsFiniteSet({buildings[k].definition : k \in DOMAIN buildings})
  <2> DEFINE kind == [k \in DOMAIN buildings |-> buildings[k].definition]
             S == DOMAIN buildings
             T == {buildings[k].definition : k \in DOMAIN buildings}
  <2>1. kind \in Surjection(S, T)
    BY DEF Surjection
  <2>2. IsFiniteSet(S)
    BY <1>2
  <2> HIDE DEF S, T, kind
  <2>3. IsFiniteSet(T)
    BY <2>1, <2>2, FS_Surjection
  <2>4. QED
    BY <2>3 DEF T
<1>4. Kinds \subseteq {buildings[k].definition : k \in DOMAIN buildings}
  BY DEF Kinds
<1>5. \A k \in DOMAIN buildings : buildings[k].definition \in BuildingId \cup {Unregistered}
  <2>1. \A k \in DOMAIN buildings : buildings[k] \in BuildingInstances
    OBVIOUS
  <2>2. \A x \in BuildingInstances : x.definition \in BuildingId \cup {Unregistered}
    BY DEF BuildingInstances
  <2>3. QED
    BY <2>1, <2>2
<1>6. QED
  BY <1>3, <1>4, <1>5, FS_Subset DEF Kinds

LEMMA TotalIs ==
  ASSUME buildings \in Seq(BuildingInstances), NEW w \in [Kinds -> Nat]
  PROVE  \E f \in [SUBSET Kinds -> Nat] : IsSum(f, Kinds, w) /\ Total(w) = f[Kinds]
<1> DEFINE f == CHOOSE f : IsSum(f, Kinds, w)
<1>1. IsFiniteSet(Kinds)
  BY KindsAre
<1>2. \E g : IsSum(g, Kinds, w)
  BY <1>1, SumExists
<1>3. IsSum(f, Kinds, w)
  BY <1>2, Zenon
<1>4. Total(w) = f[Kinds]
  BY DEF Total
<1> HIDE DEF f
<1>5. f \in [SUBSET Kinds -> Nat]
  BY <1>1, <1>3, SumType
<1>6. QED
  BY <1>3, <1>4, <1>5

LEMMA TotalChanges ==
  ASSUME buildings \in Seq(BuildingInstances), NEW w \in [Kinds -> Nat], NEW v \in [Kinds -> Nat],
         NEW t \in Kinds, \A b \in Kinds : b # t => v[b] = w[b]
  PROVE  Total(v) + w[t] = Total(w) + v[t]
<1>1. PICK f \in [SUBSET Kinds -> Nat] : IsSum(f, Kinds, w) /\ Total(w) = f[Kinds]
  BY TotalIs
<1>2. PICK g \in [SUBSET Kinds -> Nat] : IsSum(g, Kinds, v) /\ Total(v) = g[Kinds]
  BY TotalIs
<1>3. IsFiniteSet(Kinds)
  BY KindsAre
<1>4. g[Kinds] + w[t] = f[Kinds] + v[t]
  <2>1. PICK D : D = Kinds
    OBVIOUS
  <2>2. IsFiniteSet(D) /\ w \in [D -> Nat] /\ v \in [D -> Nat] /\ t \in D
        /\ f \in [SUBSET D -> Nat] /\ g \in [SUBSET D -> Nat]
        /\ IsSum(f, D, w) /\ IsSum(g, D, v) /\ (\A b \in D : b # t => v[b] = w[b])
    BY <1>1, <1>2, <1>3, <2>1
  <2>3. g[D] + w[t] = f[D] + v[t]
    BY <2>2, SumChanges
  <2>4. QED
    BY <2>1, <2>3
<1>5. QED
  BY <1>1, <1>2, <1>4

LEMMA UsesMakes ==
  ASSUME NEW b \in BuildingId, NEW r \in Resource
  PROVE  Takes(b, r) \in Nat /\ Makes(b, r) \in Nat
<1>1. PICK outputs \in Seq(Resource) : outputs = Definitions[b].outputs
  BY SettlementAssumption DEF BuildingDefinitions
<1>2. QED
  BY <1>1, PlacesCount DEF Takes, Makes

LEMMA UnderWayType ==
  ASSUME buildings \in Seq(BuildingInstances), NEW rest \in Rests, NEW r \in Resource
  PROVE  UnderWay(rest, r) \in [Kinds -> Nat]
<1>1. ASSUME NEW b \in Kinds
      PROVE  Makes(b, r) * rest[<<"input", b>>] + Takes(b, r) * (TicksPerDay - rest[<<"input", b>>]) \in Nat
  <2>1. b \in BuildingId
    BY KindsAre
  <2>2. Takes(b, r) \in Nat /\ Makes(b, r) \in Nat
    BY <2>1, UsesMakes
  <2>3. rest[<<"input", b>>] \in 0 .. TicksPerDay - 1
    BY <2>1, KeysAreKeys DEF Rests
  <2>4. PICK c \in 0 .. TicksPerDay - 1 : c = rest[<<"input", b>>]
    BY <2>3
  <2>5. TicksPerDay - c \in Nat /\ c \in Nat
    BY TicksPerDayPositive
  <2>6. Makes(b, r) * c \in Nat /\ Takes(b, r) * (TicksPerDay - c) \in Nat
    BY <2>2, <2>5
  <2>7. QED
    BY <2>4, <2>6
<1>2. QED
  BY <1>1 DEF UnderWay

LEMMA TotalType ==
  ASSUME buildings \in Seq(BuildingInstances), NEW rest \in Rests, NEW r \in Resource
  PROVE  Total(UnderWay(rest, r)) \in Nat /\ Hunger(rest, r) \in Nat
<1>1. PICK w \in [Kinds -> Nat] : w = UnderWay(rest, r)
  BY UnderWayType
<1>2. Total(w) \in Nat
  BY TotalIs
<1>3. rest[<<"food", Food>>] \in 0 .. TicksPerDay - 1
  BY KeysAreKeys DEF Rests
<1>4. Hunger(rest, r) \in Nat
  BY <1>3, TicksPerDayPositive DEF Hunger
<1>5. QED
  BY <1>1, <1>2, <1>4

-----------------------------------------------------------------------------
(* What the counters lose to rounding: nothing, while they do not saturate.*)

LEMMA Divides ==
  ASSUME NEW n \in Nat
  PROVE  /\ n \div TicksPerDay \in Nat /\ n % TicksPerDay \in Nat
         /\ TicksPerDay * (n \div TicksPerDay) + (n % TicksPerDay) = n
<1>1. PICK T \in Nat \ {0} : T = TicksPerDay
  BY TicksPerDayPositive
<1>2. PICK q \in Nat : q = n \div T
  BY <1>1
<1>3. PICK r \in 0 .. T - 1 : r = n % T
  BY <1>1
<1>4. n = T * q + r
  BY <1>1, <1>2, <1>3
<1>5. QED
  BY <1>1, <1>2, <1>3, <1>4

(* Nothing of a span that the counter can hold is lost to rounding.        *)
LEMMA ScaledExactly ==
  ASSUME NEW rest \in Rests, NEW key \in Keys, NEW perDay \in U64, NEW ticks \in Nat,
         perDay * ticks + TicksPerDay <= MaxU64
  PROVE  TicksPerDay * Scaled(rest, key, perDay, ticks).units + Scaled(rest, key, perDay, ticks).rest[key]
           = rest[key] + perDay * ticks
<1> DEFINE due == Scaled(rest, key, perDay, ticks)
<1>1. PICK c \in 0 .. TicksPerDay - 1 : c = rest[key]
  BY DEF Rests
<1>2. PICK p \in Nat : p = perDay * ticks
  BY DEF U64
<1>3. c \in Nat /\ c < TicksPerDay /\ p + TicksPerDay <= MaxU64
  BY <1>2, TicksPerDayPositive
<1>4. Numerator(rest, key, perDay, ticks) = c + p
  <2>1. SaturatingMultiply(perDay, ticks) = p
    BY <1>2, <1>3, TicksPerDayPositive DEF SaturatingMultiply, MultiplyOverflows
  <2>2. SaturatingAdd(c, p) = c + p
    BY <1>3, TicksPerDayPositive DEF SaturatingAdd, CanAdd
  <2>3. QED
    BY <1>1, <2>1, <2>2 DEF Numerator
<1>5. CASE perDay = 0 \/ ticks = 0
  <2>1. due.units = 0 /\ due.rest = rest
    BY <1>5, ScaledIs
  <2>2. p = 0
    BY <1>2, <1>5 DEF U64
  <2>3. TicksPerDay * 0 = 0
    BY TicksPerDayPositive
  <2> HIDE DEF due
  <2>4. TicksPerDay * due.units + due.rest[key] = c + p
    BY <1>1, <1>3, <2>1, <2>2, <2>3
  <2>5. QED
    BY <1>1, <1>2, <2>4 DEF due
<1>6. CASE ~(perDay = 0 \/ ticks = 0)
  <2>1. due.units = (c + p) \div TicksPerDay /\ due.rest[key] = (c + p) % TicksPerDay
    BY <1>4, <1>6, ScaledIs
  <2>2. PICK n \in Nat : n = c + p
    BY <1>3
  <2>3. TicksPerDay * (n \div TicksPerDay) + (n % TicksPerDay) = n
    BY Divides
  <2> HIDE DEF due
  <2>4. TicksPerDay * due.units + due.rest[key] = c + p
    BY <2>1, <2>2, <2>3
  <2>5. QED
    BY <1>1, <1>2, <2>4 DEF due
<1>7. QED
  BY <1>5, <1>6

LEMMA CountersMoveExactly ==
  ASSUME NEW rest \in PairedRests, NEW b \in BuildingId, NEW workers \in U64, NEW ticks \in Nat,
         workers * ticks + TicksPerDay <= MaxU64,
         NEW input, input = Scaled(rest, <<"input", b>>, workers, ticks),
         NEW output, output = Scaled(input.rest, <<"output", b>>, workers, ticks)
  PROVE  /\ TicksPerDay * input.units + output.rest[<<"input", b>>] = rest[<<"input", b>>] + workers * ticks
         /\ \A key \in Keys : key # <<"input", b>> /\ key # <<"output", b>> => output.rest[key] = rest[key]
<1>1. rest \in Rests
  BY DEF PairedRests
<1>2. PICK one \in Keys : one = <<"input", b>>
  BY KeysAreKeys
<1>3. PICK two \in Keys : two = <<"output", b>>
  BY KeysAreKeys
<1>4. one # two
  BY <1>2, <1>3, KeysAreKeys
<1>5. input = Scaled(rest, one, workers, ticks)
  BY <1>2
<1>6. \A other \in Keys : other # one => input.rest[other] = rest[other]
  BY <1>1, <1>5, ScaledIs
<1>7. TicksPerDay * input.units + input.rest[one] = rest[one] + workers * ticks
  BY <1>1, <1>5, ScaledExactly
<1>8. PICK mid \in Rests : mid = input.rest
  BY <1>1, <1>5, ScaledIs
<1>9. output = Scaled(mid, two, workers, ticks)
  BY <1>3, <1>8
<1>10. \A other \in Keys : other # two => output.rest[other] = mid[other]
  BY <1>9, ScaledIs
<1>11. output.rest[one] = input.rest[one]
  BY <1>4, <1>8, <1>10
<1>12. \A key \in Keys : key # one /\ key # two => output.rest[key] = rest[key]
  BY <1>6, <1>8, <1>10
<1>13. QED
  BY <1>2, <1>3, <1>7, <1>11, <1>12

-----------------------------------------------------------------------------
(* What a building, a meal and a whole span add to the worth.              *)

(* A building that neither lacks an input nor room has used and made what  *)
(* its counter says, to the last fraction of a unit.                       *)
WorksExactly(s, after, b, n, earned) ==
  /\ TicksPerDay * n + after.rest[<<"input", b>>] = s.rest[<<"input", b>>] + earned
  /\ \A key \in Keys : key # <<"input", b>> /\ key # <<"output", b>> => after.rest[key] = s.rest[key]
  /\ \A r \in Resource : after.storage[r] + Takes(b, r) * n = s.storage[r] + Makes(b, r) * n

LEMMA MadeExactly ==
  ASSUME NEW held \in Storages, NEW b \in BuildingId, NEW n \in U64, InputsListedOnce,
         HasInputs(held, Definitions[b].inputs, n),
         NEW made, made = WithOutputs(WithoutInputs(held, Definitions[b].inputs, n), Definitions[b].outputs, n),
         made.lost = {}
  PROVE  \A r \in Resource : made.storage[r] + Takes(b, r) * n = held[r] + Makes(b, r) * n
<1>1. PICK inputs \in Seq(Resource) : inputs = Definitions[b].inputs
  BY SettlementAssumption DEF BuildingDefinitions
<1>2. PICK outputs \in Seq(Resource) : outputs = Definitions[b].outputs
  BY SettlementAssumption DEF BuildingDefinitions
<1>3. PICK left \in Storages : left = WithoutInputs(held, inputs, n)
  BY InputsTaken
<1>4. made = WithOutputs(left, outputs, n) /\ made \in Losses
  BY <1>1, <1>2, <1>3, OutputsPut
<1>5. ASSUME NEW r \in Resource
      PROVE  made.storage[r] + Takes(b, r) * n = held[r] + Makes(b, r) * n
  <2>1. ListsOnce(inputs, r)
    BY <1>1 DEF InputsListedOnce
  <2>2. left[r] + (IF Listed(inputs, r) THEN n ELSE 0) = held[r]
    BY <1>1, <1>3, <2>1, InputsTakenOnce
  <2>3. made.storage[r] = left[r] + Cardinality(Places(outputs, r)) * n
    BY <1>4, OutputsPutExactly
  <2>4. b # Unregistered
    BY SettlementAssumption
  <2>5. Makes(b, r) = Cardinality(Places(outputs, r)) /\ Makes(b, r) \in Nat
    BY <1>2, <2>4, UsesMakes DEF Makes
  <2>6. n \in Nat /\ left[r] \in Nat /\ held[r] \in Nat /\ made.storage[r] \in Nat
    BY <1>4 DEF Storages, Losses, U64
  <2>7. Takes(b, r) * n = IF Listed(inputs, r) THEN n ELSE 0
    <3>1. Takes(b, r) = IF Listed(inputs, r) THEN 1 ELSE 0
      BY <1>1, <2>4 DEF Takes
    <3>2. 1 * n = n /\ 0 * n = 0
      BY <2>6
    <3>3. QED
      BY <3>1, <3>2
  <2>8. PICK m \in Nat : m = Makes(b, r) * n
    BY <2>5, <2>6
  <2>9. PICK u \in Nat : u = Takes(b, r) * n
    BY <2>6, <2>7
  <2>10. left[r] + u = held[r] /\ made.storage[r] = left[r] + m
    BY <2>2, <2>3, <2>5, <2>7, <2>8, <2>9
  <2>11. made.storage[r] + u = held[r] + m
    BY <2>6, <2>10
  <2>12. QED
    BY <2>8, <2>9, <2>11
<1>6. QED
  BY <1>5

LEMMA HandsAre ==
  ASSUME NEW building \in BuildingInstances
  PROVE  Hands(building) \in U64 /\ Hands(building) <= building.workers /\ building.workers \in Nat
<1>1. building.workers \in U64 /\ building.workers \in Nat
  BY DEF BuildingInstances, U64
<1>2. CASE building.definition = Unregistered
  BY <1>1, <1>2, TicksPerDayPositive DEF Hands, U64
<1>3. CASE building.definition # Unregistered
  <2>1. building.definition \in BuildingId
    BY <1>3 DEF BuildingInstances
  <2>2. Definitions[building.definition].slots \in U64
    BY <2>1, SettlementAssumption DEF BuildingDefinitions
  <2>3. PICK slots \in U64 : slots = Definitions[building.definition].slots
    BY <2>2
  <2>4. Hands(building) = AtMost(building.workers, slots)
    BY <1>3, <2>3 DEF Hands
  <2>5. slots \in Nat
    BY DEF U64
  <2>6. QED
    BY <1>1, <2>3, <2>4, <2>5 DEF AtMost
<1>4. QED
  BY <1>2, <1>3

LEMMA WorkingExactly ==
  ASSUME NEW s \in LivedStates, NEW building \in BuildingInstances, NEW ticks \in Nat, InputsListedOnce,
         Hands(building) * ticks + TicksPerDay <= MaxU64,
         NEW after, after = Working(s, building, ticks), after.short = {}
  PROVE  /\ s.short = {}
         /\ building.definition = Unregistered => after = s
         /\ building.definition # Unregistered =>
              \E n \in Nat : WorksExactly(s, after, building.definition, n, Hands(building) * ticks)
<1>1. /\ s.storage \in Storages /\ s.rest \in PairedRests /\ s.rest \in Rests
      /\ s = [storage |-> s.storage, rest |-> s.rest, short |-> s.short]
  BY DEF LivedStates, PairedRests
<1>2. CASE building.definition = Unregistered
  BY <1>2 DEF Working
<1>3. CASE building.definition # Unregistered
  <2>1. PICK b \in BuildingId : b = building.definition
    BY <1>3 DEF BuildingInstances
  <2>2. PICK workers \in U64 : workers = Hands(building)
    BY HandsAre
  <2>3. workers = AtMost(building.workers, Definitions[b].slots)
    BY <1>3, <2>1, <2>2 DEF Hands
  <2>4. PICK input : input = Scaled(s.rest, <<"input", b>>, workers, ticks)
    OBVIOUS
  <2>5. PICK output : output = Scaled(input.rest, <<"output", b>>, workers, ticks)
    OBVIOUS
  <2>6. input.units \in U64 /\ output.units = input.units /\ output.rest \in PairedRests
    BY <1>1, <2>4, <2>5, CountersMoveAlike
  <2>7. PICK n \in U64 : n = input.units
    BY <2>6
  <2>8. PICK earned \in Nat : earned = workers * ticks
    BY DEF U64
  <2>9. /\ TicksPerDay * n + output.rest[<<"input", b>>] = s.rest[<<"input", b>>] + earned
        /\ \A key \in Keys : key # <<"input", b>> /\ key # <<"output", b>> => output.rest[key] = s.rest[key]
    <3>1. workers * ticks + TicksPerDay <= MaxU64
      BY <2>2
    <3>2. /\ TicksPerDay * input.units + output.rest[<<"input", b>>] = s.rest[<<"input", b>>] + workers * ticks
          /\ \A key \in Keys : key # <<"input", b>> /\ key # <<"output", b>> => output.rest[key] = s.rest[key]
      BY <1>1, <2>4, <2>5, <3>1, CountersMoveExactly
    <3>3. QED
      BY <2>7, <2>8, <3>2
  <2>10. n \in Nat /\ \A r \in Resource : s.storage[r] \in Nat /\ Takes(b, r) \in Nat /\ Makes(b, r) \in Nat
    BY <1>1, UsesMakes DEF Storages, U64
  <2> DEFINE counted == [storage |-> s.storage, rest |-> output.rest, short |-> s.short]
             made == WithOutputs(WithoutInputs(s.storage, Definitions[b].inputs, n), Definitions[b].outputs, n)
  <2>11. /\ workers = 0 => after = s
         /\ workers # 0 /\ n = 0 => after = counted
         /\ workers # 0 /\ n # 0 =>
              /\ HasInputs(s.storage, Definitions[b].inputs, n)
              /\ after.storage = made.storage
              /\ after.rest = output.rest
              /\ s.short \cup made.lost = {}
    <3>1. after = IF workers = 0 THEN s
                  ELSE IF n = 0 THEN [s EXCEPT !.rest = output.rest]
                  ELSE IF ~HasInputs(s.storage, Definitions[b].inputs, n)
                  THEN [[s EXCEPT !.rest = output.rest] EXCEPT !.short = @ \cup {"inputs"}]
                  ELSE [[s EXCEPT !.rest = output.rest] EXCEPT !.storage = made.storage, !.short = @ \cup made.lost]
      BY <1>3, <2>1, <2>3, <2>4, <2>5, <2>6, <2>7 DEF Working
    <3>2. [s EXCEPT !.rest = output.rest] = counted
      BY <1>1
    <3> HIDE DEF made
    <3>3. CASE workers # 0 /\ n # 0
      <4>1. counted.short = s.short
        OBVIOUS
      <4>2. PICK more : more = counted.short \cup {"inputs"}
        OBVIOUS
      <4>3. PICK lack : lack = counted.short \cup made.lost
        OBVIOUS
      <4>4. more # {}
        BY <4>2
      <4>5. [counted EXCEPT !.short = more].short = more
        OBVIOUS
      <4>6. ASSUME NEW worked, worked = [counted EXCEPT !.storage = made.storage, !.short = lack]
            PROVE  worked.storage = made.storage /\ worked.rest = output.rest /\ worked.short = lack
        BY <4>6
      <4> HIDE DEF counted
      <4>7. after = IF ~HasInputs(s.storage, Definitions[b].inputs, n) THEN [counted EXCEPT !.short = more]
                    ELSE [counted EXCEPT !.storage = made.storage, !.short = lack]
        BY <3>1, <3>2, <3>3, <4>2, <4>3, Zenon
      <4>8. HasInputs(s.storage, Definitions[b].inputs, n)
        BY <4>4, <4>5, <4>7
      <4>9. after.storage = made.storage /\ after.rest = output.rest /\ after.short = lack
        BY <4>6, <4>7, <4>8
      <4>10. s.short \cup made.lost = {}
        BY <4>1, <4>3, <4>9
      <4>11. QED
        BY <3>3, <4>8, <4>9, <4>10
    <3> HIDE DEF counted
    <3>4. QED
      BY <3>1, <3>2, <3>3
  <2>12. CASE workers = 0
    <3>1. after = s
      BY <2>11, <2>12
    <3>2. earned = 0 /\ TicksPerDay * 0 = 0 /\ s.rest[<<"input", b>>] \in Nat
      <4>1. s.rest[<<"input", b>>] \in Nat
        <5>1. PICK key \in Keys : key = <<"input", b>>
          BY KeysAreKeys
        <5>2. PICK rest \in Rests : rest = s.rest
          BY <1>1
        <5>3. rest[key] \in Nat
          BY TicksPerDayPositive DEF Rests
        <5>4. QED
          BY <5>1, <5>2, <5>3
      <4>2. QED
        BY <2>8, <2>12, <4>1, TicksPerDayPositive
    <3>3. TicksPerDay * 0 + after.rest[<<"input", b>>] = s.rest[<<"input", b>>] + earned
      BY <3>1, <3>2
    <3>4. \A r \in Resource : after.storage[r] + Takes(b, r) * 0 = s.storage[r] + Makes(b, r) * 0
      BY <2>10, <3>1
    <3>5. WorksExactly(s, after, b, 0, earned)
      BY <3>1, <3>3, <3>4 DEF WorksExactly
    <3>6. s.short = {}
      BY <3>1
    <3>7. QED
      BY <1>3, <2>1, <2>2, <2>8, <3>5, <3>6
  <2>13. CASE workers # 0 /\ n = 0
    <3>1. after = counted
      BY <2>11, <2>13
    <3>2. \A r \in Resource : after.storage[r] + Takes(b, r) * n = s.storage[r] + Makes(b, r) * n
      BY <2>10, <2>13, <3>1
    <3>3. WorksExactly(s, after, b, n, earned)
      BY <2>9, <3>1, <3>2 DEF WorksExactly
    <3>4. s.short = {}
      BY <3>1
    <3>5. QED
      BY <1>3, <2>1, <2>2, <2>8, <2>10, <3>3, <3>4
  <2>14. CASE workers # 0 /\ n # 0
    <3>1. /\ HasInputs(s.storage, Definitions[b].inputs, n)
          /\ after.storage = made.storage /\ after.rest = output.rest
          /\ s.short = {} /\ made.lost = {}
      BY <2>11, <2>14
    <3>2. \A r \in Resource : made.storage[r] + Takes(b, r) * n = s.storage[r] + Makes(b, r) * n
      BY <1>1, <3>1, MadeExactly
    <3> HIDE DEF made
    <3>3. WorksExactly(s, after, b, n, earned)
      BY <2>9, <3>1, <3>2 DEF WorksExactly
    <3>4. QED
      BY <1>3, <2>1, <2>2, <2>8, <2>10, <3>1, <3>3
  <2>15. QED
    BY <2>12, <2>13, <2>14
<1>4. QED
  BY <1>2, <1>3

LEMMA WorthType ==
  ASSUME buildings \in Seq(BuildingInstances), NEW s \in LivedStates, NEW r \in Resource
  PROVE  Worth(s, r) \in Nat
<1>1. s.rest \in Rests /\ s.storage[r] \in Nat
  BY DEF LivedStates, PairedRests, Storages, U64
<1>2. Total(UnderWay(s.rest, r)) \in Nat /\ Hunger(s.rest, r) \in Nat
  BY <1>1, TotalType
<1>3. TicksPerDay * s.storage[r] \in Nat
  BY <1>1, TicksPerDayPositive
<1>4. QED
  BY <1>2, <1>3 DEF Worth

LEMMA WorthMoves ==
  ASSUME buildings \in Seq(BuildingInstances), NEW s \in LivedStates, NEW after \in LivedStates,
         NEW b \in Kinds, NEW n \in Nat, NEW p \in Nat, WorksExactly(s, after, b, n, p), NEW r \in Resource
  PROVE  Worth(after, r) + Takes(b, r) * p = Worth(s, r) + Makes(b, r) * p
<1>1. b \in BuildingId
  BY KindsAre
<1>2. PICK old \in Rests : old = s.rest
  BY DEF LivedStates, PairedRests
<1>3. PICK new \in Rests : new = after.rest
  BY DEF LivedStates, PairedRests
<1>4. PICK w \in [Kinds -> Nat] : w = UnderWay(old, r)
  BY UnderWayType
<1>5. PICK v \in [Kinds -> Nat] : v = UnderWay(new, r)
  BY UnderWayType
<1>6. PICK c \in Nat : c = old[<<"input", b>>] /\ c <= TicksPerDay
  <2>1. old[<<"input", b>>] \in 0 .. TicksPerDay - 1
    BY <1>1, KeysAreKeys DEF Rests
  <2>2. QED
    BY <2>1, TicksPerDayPositive
<1>7. PICK d \in Nat : d = new[<<"input", b>>] /\ d <= TicksPerDay
  <2>1. new[<<"input", b>>] \in 0 .. TicksPerDay - 1
    BY <1>1, KeysAreKeys DEF Rests
  <2>2. QED
    BY <2>1, TicksPerDayPositive
<1>8. PICK used \in Nat : used = Takes(b, r)
  BY <1>1, UsesMakes
<1>9. PICK made \in Nat : made = Makes(b, r)
  BY <1>1, UsesMakes
<1>10. w[b] = made * c + used * (TicksPerDay - c) /\ v[b] = made * d + used * (TicksPerDay - d)
  BY <1>4, <1>5, <1>6, <1>7, <1>8, <1>9 DEF UnderWay
<1>11. \A x \in Kinds : x # b => v[x] = w[x]
  <2>1. ASSUME NEW x \in Kinds, x # b PROVE new[<<"input", x>>] = old[<<"input", x>>]
    <3>1. x \in BuildingId
      BY KindsAre
    <3>2. PICK key \in Keys : key = <<"input", x>>
      BY <3>1, KeysAreKeys
    <3>3. key # <<"input", b>> /\ key # <<"output", b>>
      BY <1>1, <2>1, <3>1, <3>2, KeysAreKeys
    <3>4. new[key] = old[key]
      BY <1>2, <1>3, <3>3 DEF WorksExactly
    <3>5. QED
      BY <3>2, <3>4
  <2>2. QED
    BY <1>4, <1>5, <2>1 DEF UnderWay
<1>12. Total(v) + w[b] = Total(w) + v[b]
  BY <1>11, TotalChanges
<1>13. Hunger(new, r) = Hunger(old, r)
  <2>1. PICK key \in Keys : key = <<"food", Food>>
    BY KeysAreKeys
  <2>2. key # <<"input", b>> /\ key # <<"output", b>>
    BY <1>1, <2>1, KeysAreKeys
  <2>3. new[key] = old[key]
    BY <1>2, <1>3, <2>2 DEF WorksExactly
  <2>4. QED
    BY <2>1, <2>3 DEF Hunger
<1>14. PICK x \in Nat : x = s.storage[r]
  BY DEF LivedStates, Storages, U64
<1>15. PICK y \in Nat : y = after.storage[r]
  BY DEF LivedStates, Storages, U64
<1>16. TicksPerDay * n + d = c + p /\ y + used * n = x + made * n
  BY <1>2, <1>3, <1>6, <1>7, <1>8, <1>9, <1>14, <1>15 DEF WorksExactly
<1>17. PICK T \in Nat : T = TicksPerDay
  BY TicksPerDayPositive
<1>18. c <= T /\ d <= T
  BY <1>6, <1>7, <1>17
<1>19. T * y + (made * d + used * (T - d)) + used * p = T * x + (made * c + used * (T - c)) + made * p
  <2>1. PICK e \in Nat : T = d + e
    <3>1. T - d \in Nat /\ T = d + (T - d)
      BY <1>18
    <3>2. QED
      BY <3>1
  <2>2. PICK g \in Nat : T = c + g
    <3>1. T - c \in Nat /\ T = c + (T - c)
      BY <1>18
    <3>2. QED
      BY <3>1
  <2>3. T - d = e /\ T - c = g
    BY <2>1, <2>2
  <2>4. T * n + d = c + p /\ y + used * n = x + made * n
    BY <1>16, <1>17
  <2>5. PICK k \in Nat : k = T * n
    OBVIOUS
  <2>6. used * k + used * d = used * c + used * p /\ made * k + made * d = made * c + made * p
    <3>1. used * (k + d) = used * (c + p) /\ made * (k + d) = made * (c + p)
      BY <2>4, <2>5
    <3>2. QED
      BY <3>1
  <2>7. T * y + used * k = T * x + made * k
    <3>1. T * (y + used * n) = T * (x + made * n)
      BY <2>4
    <3>2. T * (used * n) = used * k /\ T * (made * n) = made * k
      BY <2>5
    <3>3. T * (y + used * n) = T * y + T * (used * n) /\ T * (x + made * n) = T * x + T * (made * n)
      OBVIOUS
    <3>4. QED
      BY <3>1, <3>2, <3>3
  <2>8. used * d + used * e = used * c + used * g
    <3>1. used * (d + e) = used * (c + g)
      BY <2>1, <2>2
    <3>2. QED
      BY <3>1
  <2> DEFINE ty == T * y  tx == T * x
             uk == used * k  ud == used * d  uc == used * c  ue == used * e  ug == used * g  up == used * p
             mk == made * k  md == made * d  mc == made * c  mp == made * p
  <2>9. ty \in Nat /\ tx \in Nat
    OBVIOUS
  <2>10. /\ uk \in Nat /\ ud \in Nat /\ uc \in Nat /\ ue \in Nat /\ ug \in Nat /\ up \in Nat
         /\ mk \in Nat /\ md \in Nat /\ mc \in Nat /\ mp \in Nat
    OBVIOUS
  <2>11. uk + ud = uc + up /\ mk + md = mc + mp /\ ty + uk = tx + mk /\ ud + ue = uc + ug
    BY <2>6, <2>7, <2>8
  <2> HIDE DEF ty, tx, uk, ud, uc, ue, ug, up, mk, md, mc, mp
  <2>12. ty + (md + ue) + up = tx + (mc + ug) + mp
    BY <2>9, <2>10, <2>11
  <2>13. QED
    BY <2>3, <2>12 DEF ty, tx, ue, ug, up, md, mc, mp
<1>20. PICK h \in Nat : h = Hunger(old, r)
  BY TotalType
<1>21. PICK was \in Nat : was = Total(w)
  BY <1>4, TotalType
<1>22. PICK is \in Nat : is = Total(v)
  BY <1>5, TotalType
<1>23. Worth(s, r) = T * x + was + h
  BY <1>2, <1>4, <1>14, <1>17, <1>20, <1>21 DEF Worth
<1>24. Worth(after, r) = T * y + is + h
  BY <1>3, <1>5, <1>13, <1>15, <1>17, <1>20, <1>22 DEF Worth
<1>25. /\ T * y \in Nat /\ T * x \in Nat /\ used * p \in Nat /\ made * p \in Nat
       /\ w[b] \in Nat /\ v[b] \in Nat
  OBVIOUS
<1>26. T * y + v[b] + used * p = T * x + w[b] + made * p
  BY <1>10, <1>17, <1>19
<1>27. is + w[b] = was + v[b]
  BY <1>12, <1>21, <1>22
<1>28. (T * y + is + h) + used * p = (T * x + was + h) + made * p
  BY <1>25, <1>26, <1>27
<1>29. QED
  BY <1>8, <1>9, <1>23, <1>24, <1>28

(* The people who find all they need have eaten what their counter says.   *)
EatsExactly(s, after, n) ==
  /\ s.short = {}
  /\ TicksPerDay * n.units + after.rest[<<"food", Food>>] = s.rest[<<"food", Food>>] + n.due
  /\ \A key \in Keys : key # <<"food", Food>> => after.rest[key] = s.rest[key]
  /\ after.storage[Food] + n.units = s.storage[Food]
  /\ \A r \in Resource : r # Food => after.storage[r] = s.storage[r]

LEMMA EatingExactly ==
  ASSUME NEW s \in LivedStates, NEW ticks \in Nat, FoodNeeded * ticks + TicksPerDay <= MaxU64,
         NEW after, after = Eating(s, ticks), after.short = {}
  PROVE  \E units \in Nat : EatsExactly(s, after, [units |-> units, due |-> FoodNeeded * ticks])
<1>1. s.rest \in Rests /\ s.storage \in Storages
  BY DEF LivedStates, PairedRests
<1>2. PICK key \in Keys : key = <<"food", Food>>
  BY KeysAreKeys
<1>3. PICK rest \in Rests : rest = s.rest
  BY <1>1
<1>4. PICK perDay \in U64 : perDay = FoodNeeded
  BY FoodNeededType
<1>5. PICK due : due = Scaled(rest, key, perDay, ticks)
  OBVIOUS
<1>6. due.units \in U64
  BY <1>5, ScaledIs
<1>7. \A other \in Keys : other # key => due.rest[other] = rest[other]
  BY <1>5, ScaledIs
<1>8. TicksPerDay * due.units + due.rest[key] = rest[key] + perDay * ticks
  <2>1. perDay * ticks + TicksPerDay <= MaxU64
    BY <1>4
  <2>2. QED
    BY <1>5, <2>1, ScaledExactly
<1>9. PICK units \in Nat : units = due.units
  BY <1>6 DEF U64
<1>10. PICK found : found = RemovedUpTo(s.storage, Food, units)
  OBVIOUS
<1>11. after = [storage |-> [s.storage EXCEPT ![Food] = s.storage[Food] - found],
                rest |-> due.rest,
                short |-> s.short \cup IF found < units THEN {"food"} ELSE {}]
  BY <1>2, <1>3, <1>4, <1>5, <1>9, <1>10 DEF Eating
<1>12. s.short = {} /\ ~(found < units)
  <2>1. after.short = s.short \cup IF found < units THEN {"food"} ELSE {}
    BY <1>11
  <2>2. QED
    BY <2>1
<1>13. Food \in Resource /\ s.storage[Food] \in Nat
  BY <1>1, SettlementAssumption DEF Storages, U64
<1>14. found = units /\ found <= s.storage[Food]
  BY <1>10, <1>12, <1>13 DEF RemovedUpTo, AtMost
<1>15. PICK left \in Nat : left = s.storage[Food] - found /\ left + units = s.storage[Food]
  BY <1>13, <1>14
<1>16. after.storage = [s.storage EXCEPT ![Food] = left] /\ after.rest = due.rest
  BY <1>11, <1>15
<1>17. after.storage[Food] = left /\ \A r \in Resource : r # Food => after.storage[r] = s.storage[r]
  BY <1>1, <1>13, <1>16 DEF Storages
<1>18. TicksPerDay * units + after.rest[<<"food", Food>>] = s.rest[<<"food", Food>>] + FoodNeeded * ticks
  BY <1>2, <1>3, <1>4, <1>8, <1>9, <1>16
<1>19. \A other \in Keys : other # <<"food", Food>> => after.rest[other] = s.rest[other]
  BY <1>2, <1>3, <1>7, <1>16
<1>20. PICK n : n = [units |-> units, due |-> FoodNeeded * ticks]
  OBVIOUS
<1>21. n.units = units /\ n.due = FoodNeeded * ticks
  BY <1>20
<1>22. EatsExactly(s, after, n)
  BY <1>12, <1>15, <1>17, <1>18, <1>19, <1>21 DEF EatsExactly
<1>23. QED
  BY <1>20, <1>22

Eaten(r) == IF r = Food THEN FoodNeeded ELSE 0

LEMMA WorthEaten ==
  ASSUME buildings \in Seq(BuildingInstances), NEW s \in LivedStates, NEW after \in LivedStates, NEW units \in Nat,
         NEW ticks \in Nat, EatsExactly(s, after, [units |-> units, due |-> FoodNeeded * ticks]), NEW r \in Resource
  PROVE  Worth(after, r) + Eaten(r) * ticks = Worth(s, r)
<1>1. PICK old \in Rests : old = s.rest
  BY DEF LivedStates, PairedRests
<1>2. PICK new \in Rests : new = after.rest
  BY DEF LivedStates, PairedRests
<1>3. /\ TicksPerDay * units + new[<<"food", Food>>] = old[<<"food", Food>>] + FoodNeeded * ticks
      /\ \A key \in Keys : key # <<"food", Food>> => new[key] = old[key]
      /\ after.storage[Food] + units = s.storage[Food]
      /\ \A x \in Resource : x # Food => after.storage[x] = s.storage[x]
  BY <1>1, <1>2 DEF EatsExactly
<1>4. UnderWay(new, r) = UnderWay(old, r)
  <2>1. ASSUME NEW x \in Kinds PROVE new[<<"input", x>>] = old[<<"input", x>>]
    <3>1. x \in BuildingId
      BY KindsAre
    <3>2. PICK key \in Keys : key = <<"input", x>>
      BY <3>1, KeysAreKeys
    <3>3. key # <<"food", Food>>
      BY <3>1, <3>2, KeysAreKeys
    <3>4. QED
      BY <1>3, <3>2, <3>3
  <2>2. QED
    BY <2>1 DEF UnderWay
<1>5. PICK was \in Nat : was = Total(UnderWay(old, r))
  BY TotalType
<1>6. PICK x \in Nat : x = s.storage[r]
  BY DEF LivedStates, Storages, U64
<1>7. PICK y \in Nat : y = after.storage[r]
  BY DEF LivedStates, Storages, U64
<1>8. Worth(s, r) = TicksPerDay * x + was + Hunger(old, r)
  BY <1>1, <1>5, <1>6 DEF Worth
<1>9. Worth(after, r) = TicksPerDay * y + was + Hunger(new, r)
  BY <1>2, <1>4, <1>5, <1>7 DEF Worth
<1>10. PICK T \in Nat : T = TicksPerDay
  BY TicksPerDayPositive
<1>11. CASE r = Food
  <2>1. PICK c \in Nat : c = old[<<"food", Food>>] /\ c <= T
    <3>1. old[<<"food", Food>>] \in 0 .. TicksPerDay - 1
      BY KeysAreKeys DEF Rests
    <3>2. QED
      BY <1>10, <3>1, TicksPerDayPositive
  <2>2. PICK d \in Nat : d = new[<<"food", Food>>] /\ d <= T
    <3>1. new[<<"food", Food>>] \in 0 .. TicksPerDay - 1
      BY KeysAreKeys DEF Rests
    <3>2. QED
      BY <1>10, <3>1, TicksPerDayPositive
  <2>3. PICK p \in Nat : p = FoodNeeded * ticks
    BY FoodNeededType DEF U64
  <2>4. T * units + d = c + p /\ x = y + units
    BY <1>3, <1>6, <1>7, <1>10, <1>11, <2>1, <2>2, <2>3
  <2>5. T * x = T * y + T * units
    BY <2>4
  <2>6. T * x \in Nat /\ T * y \in Nat /\ T * units \in Nat
    OBVIOUS
  <2>7. Hunger(old, r) = T - c /\ Hunger(new, r) = T - d
    BY <1>10, <1>11, <2>1, <2>2 DEF Hunger
  <2> DEFINE tx == T * x  ty == T * y  tu == T * units
  <2> HIDE DEF tx, ty, tu
  <2>8. ty + was + (T - d) + p = tx + was + (T - c)
    <3>1. tu + d = c + p /\ tx = ty + tu
      BY <2>4, <2>5 DEF tx, ty, tu
    <3>2. tx \in Nat /\ ty \in Nat /\ tu \in Nat
      BY <2>6 DEF tx, ty, tu
    <3>3. PICK e \in Nat : e = T - d
      BY <2>2
    <3>4. PICK g \in Nat : g = T - c
      BY <2>1
    <3>5. e + d = g + c
      BY <3>3, <3>4
    <3>6. ty + was + e + p = tx + was + g
      BY <3>1, <3>2, <3>5
    <3>7. QED
      BY <3>3, <3>4, <3>6
  <2>9. Eaten(r) * ticks = p
    BY <1>11, <2>3 DEF Eaten
  <2>10. QED
    BY <1>8, <1>9, <1>10, <2>7, <2>8, <2>9 DEF tx, ty
<1>12. CASE r # Food
  <2>1. x = y /\ Hunger(old, r) = 0 /\ Hunger(new, r) = 0
    BY <1>3, <1>6, <1>7, <1>12 DEF Hunger
  <2>2. Eaten(r) = 0 /\ 0 * ticks = 0
    BY <1>12 DEF Eaten
  <2>3. PICK t \in Nat : t = TicksPerDay * x
    BY <1>10
  <2>4. Worth(s, r) = t + was + 0 /\ Worth(after, r) = t + was + 0
    BY <1>8, <1>9, <2>1, <2>3
  <2>5. QED
    BY <2>2, <2>4
<1>13. QED
  BY <1>11, <1>12

LEMMA RunningSum ==
  ASSUME NEW N \in Nat, NEW start \in Nat, NEW w \in [1 .. N -> Nat]
  PROVE  \E g \in [0 .. N -> Nat] : g[0] = start /\ \A n \in 1 .. N : g[n] = g[n - 1] + w[n]
<1> DEFINE round == [n \in 1 .. N |-> [x \in Nat |-> x + w[n]]]
<1>1. round \in [1 .. N -> [Nat -> Nat]]
  <2>1. \A n \in 1 .. N : w[n] \in Nat
    OBVIOUS
  <2>2. \A n \in 1 .. N, x \in Nat : x + w[n] \in Nat
    BY <2>1
  <2>3. QED
    BY <2>2
<1>2. \A n \in 1 .. N, x \in Nat : round[n][x] = x + w[n]
  OBVIOUS
<1> HIDE DEF round
<1>3. PICK g \in [0 .. N -> Nat] : IsLoop(g, N, start, round)
  BY <1>1, LoopExists
<1>4. \A n \in 0 .. N : g[n] = IF n = 0 THEN start ELSE round[n][g[n - 1]]
  BY <1>3 DEF IsLoop
<1>5. ASSUME NEW n \in 1 .. N PROVE g[n] = g[n - 1] + w[n]
  <2>1. n \in 0 .. N /\ n # 0 /\ n - 1 \in 0 .. N
    OBVIOUS
  <2>2. g[n] = round[n][g[n - 1]] /\ g[n - 1] \in Nat
    BY <1>4, <2>1
  <2>3. QED
    BY <1>2, <2>2
<1>6. g[0] = start
  <2>1. 0 \in 0 .. N
    OBVIOUS
  <2>2. QED
    BY <1>4, <2>1
<1>7. QED
  BY <1>5, <1>6

LEMMA CountableBounds ==
  ASSUME buildings \in Seq(BuildingInstances), NEW ticks \in Nat, Countable(ticks)
  PROVE  /\ FoodNeeded * ticks + TicksPerDay <= MaxU64
         /\ \A n \in 1 .. Len(buildings) : Hands(buildings[n]) * ticks + TicksPerDay <= MaxU64
<1>1. FoodNeeded * ticks + TicksPerDay <= MaxU64
  BY DEF Countable
<1>2. ASSUME NEW n \in 1 .. Len(buildings)
      PROVE  Hands(buildings[n]) * ticks + TicksPerDay <= MaxU64
  <2>1. PICK building \in BuildingInstances : building = buildings[n]
    OBVIOUS
  <2>2. PICK hands \in Nat : hands = Hands(building)
    BY HandsAre DEF U64
  <2>3. PICK workers \in Nat : workers = building.workers
    BY HandsAre
  <2>4. hands <= workers
    BY <2>2, <2>3, HandsAre
  <2>5. workers * ticks + TicksPerDay <= MaxU64
    BY <1>2, <2>1, <2>3 DEF Countable
  <2>6. hands * ticks <= workers * ticks
    BY <2>4, ProductsGrow
  <2>7. hands * ticks \in Nat /\ workers * ticks \in Nat
    OBVIOUS
  <2>8. hands * ticks + TicksPerDay <= MaxU64
    BY <2>5, <2>6, <2>7, TicksPerDayPositive
  <2>9. QED
    BY <2>1, <2>2, <2>8
<1>3. QED
  BY <1>1, <1>2

LEMMA CountableParts ==
  ASSUME buildings \in Seq(BuildingInstances), NEW a \in Nat, NEW b \in Nat, a <= b, Countable(b)
  PROVE  Countable(a)
<1>1. \A n \in {FoodNeeded} \cup {buildings[k].workers : k \in DOMAIN buildings} : n \in Nat
  <2>1. FoodNeeded \in Nat
    BY FoodNeededType DEF U64
  <2>2. ASSUME NEW k \in DOMAIN buildings PROVE buildings[k].workers \in Nat
    <3>1. buildings[k] \in BuildingInstances
      BY <2>2
    <3>2. QED
      BY <3>1, HandsAre
  <2>3. QED
    BY <2>1, <2>2
<1>2. ASSUME NEW n \in Nat, n * b + TicksPerDay <= MaxU64
      PROVE  n * a + TicksPerDay <= MaxU64
  <2>1. n * a <= n * b
    BY ProductsGrow
  <2>2. n * a \in Nat /\ n * b \in Nat
    OBVIOUS
  <2>3. QED
    BY <1>2, <2>1, <2>2, TicksPerDayPositive
<1>3. QED
  BY <1>1, <1>2 DEF Countable

(* A round of a run that nothing was short in.                             *)
LEMMA RoundIsExact ==
  ASSUME buildings \in Seq(BuildingInstances), InputsListedOnce, NEW s \in LivedStates, NEW ticks \in Nat,
         Countable(ticks), NEW f, LivesThrough(f, s, ticks), NEW n \in 1 .. Len(buildings), f[n].short = {}
  PROVE  /\ f[n - 1].short = {}
         /\ buildings[n].definition = Unregistered => f[n] = f[n - 1]
         /\ buildings[n].definition # Unregistered =>
              /\ buildings[n].definition \in Kinds
              /\ \E m \in Nat : WorksExactly(f[n - 1], f[n], buildings[n].definition, m, Hands(buildings[n]) * ticks)
<1>1. n - 1 \in 0 .. Len(buildings)
  OBVIOUS
<1>2. PICK old \in LivedStates : old = f[n - 1]
  BY <1>1 DEF LivesThrough
<1>3. PICK building \in BuildingInstances : building = buildings[n]
  OBVIOUS
<1>4. f[n] = Working(old, building, ticks)
  BY <1>2, <1>3 DEF LivesThrough
<1>5. Hands(building) * ticks + TicksPerDay <= MaxU64
  BY <1>3, CountableBounds
<1>6. /\ old.short = {}
      /\ building.definition = Unregistered => f[n] = old
      /\ building.definition # Unregistered =>
           \E m \in Nat : WorksExactly(old, f[n], building.definition, m, Hands(building) * ticks)
  BY <1>4, <1>5, WorkingExactly
<1>7. building.definition # Unregistered => building.definition \in Kinds
  BY <1>3 DEF Kinds
<1>8. QED
  BY <1>2, <1>3, <1>6, <1>7

LEMMA LivesExactly ==
  ASSUME buildings \in Seq(BuildingInstances), InputsListedOnce, NEW s \in LivedStates, NEW ticks \in Nat,
         Countable(ticks), NEW f, LivesThrough(f, s, ticks), Lived(s, ticks).short = {}
  PROVE  /\ \A n \in 0 .. Len(buildings) : f[n].short = {}
         /\ \E units \in Nat : EatsExactly(s, f[0], [units |-> units, due |-> FoodNeeded * ticks])
<1> DEFINE N == Len(buildings)
           T == {n \in 0 .. N : f[N - n].short = {}}
<1>1. N \in Nat
  OBVIOUS
<1>2. 0 \in T
  <2>1. f[N].short = {}
    BY DEF LivesThrough
  <2>2. N - 0 = N /\ 0 \in 0 .. N
    BY <1>1
  <2> HIDE DEF N
  <2>3. QED
    BY <2>1, <2>2
<1>3. ASSUME NEW n \in 1 .. N, n - 1 \in T PROVE n \in T
  <2>1. PICK k \in 1 .. N : k = N - (n - 1)
    <3>1. N - (n - 1) \in 1 .. N
      BY <1>1
    <3>2. QED
      BY <3>1
  <2>2. f[k].short = {}
    BY <1>3, <2>1
  <2>3. f[k - 1].short = {}
    BY <2>2, RoundIsExact
  <2>4. k - 1 = N - n /\ n \in 0 .. N
    BY <1>1, <2>1
  <2>5. QED
    BY <2>3, <2>4
<1> HIDE DEF T
<1>4. \A n \in 0 .. N : n \in T
  BY <1>1, <1>2, <1>3, BoundedInduction
<1>5. \A n \in 0 .. N : f[n].short = {}
  <2>1. ASSUME NEW n \in 0 .. N PROVE f[n].short = {}
    <3>1. PICK k \in 0 .. N : k = N - n /\ N - k = n
      <4>1. N - n \in 0 .. N /\ N - (N - n) = n
        BY <1>1
      <4>2. QED
        BY <4>1
    <3>2. f[N - k].short = {}
      BY <1>4 DEF T
    <3>3. QED
      BY <3>1, <3>2
  <2>2. QED
    BY <2>1
<1>6. f[0] = Eating(s, ticks) /\ f[0].short = {}
  BY <1>1, <1>5 DEF LivesThrough
<1>7. FoodNeeded * ticks + TicksPerDay <= MaxU64
  BY CountableBounds
<1>8. QED
  BY <1>5, <1>6, <1>7, EatingExactly

(* What a span changes about the worth of a settlement is a matter of its  *)
(* buildings and its length, whatever was stored or left at its start.     *)
LEMMA LivedIsWorth ==
  ASSUME buildings \in Seq(BuildingInstances), InputsListedOnce, NEW r \in Resource
  PROVE  \E used \in Nat, made \in Nat : \A s \in LivedStates, ticks \in Nat :
           Countable(ticks) /\ Lived(s, ticks).short = {} =>
             Worth(Lived(s, ticks), r) + used * ticks = Worth(s, r) + made * ticks
<1> DEFINE N == Len(buildings)
           useUp == [n \in 1 .. N |-> Takes(buildings[n].definition, r) * Hands(buildings[n])]
           makes == [n \in 1 .. N |-> Makes(buildings[n].definition, r) * Hands(buildings[n])]
<1>1. N \in Nat /\ \A n \in 1 .. N : buildings[n] \in BuildingInstances
  OBVIOUS
<1>2. ASSUME NEW n \in 1 .. N
      PROVE  /\ Takes(buildings[n].definition, r) \in Nat /\ Makes(buildings[n].definition, r) \in Nat
             /\ Hands(buildings[n]) \in Nat
  <2>1. PICK building \in BuildingInstances : building = buildings[n]
    BY <1>1
  <2>2. Hands(building) \in Nat
    BY HandsAre DEF U64
  <2>3. CASE building.definition = Unregistered
    BY <2>1, <2>2, <2>3 DEF Takes, Makes
  <2>4. CASE building.definition # Unregistered
    <3>1. building.definition \in BuildingId
      BY <2>4 DEF BuildingInstances
    <3>2. QED
      BY <2>1, <2>2, <3>1, UsesMakes
  <2>5. QED
    BY <2>3, <2>4
<1>3. useUp \in [1 .. N -> Nat] /\ makes \in [1 .. N -> Nat]
  <2>1. \A n \in 1 .. N : Takes(buildings[n].definition, r) * Hands(buildings[n]) \in Nat
    BY <1>2
  <2>2. \A n \in 1 .. N : Makes(buildings[n].definition, r) * Hands(buildings[n]) \in Nat
    BY <1>2
  <2>3. QED
    BY <2>1, <2>2
<1>4. \A n \in 1 .. N : /\ useUp[n] = Takes(buildings[n].definition, r) * Hands(buildings[n])
                        /\ makes[n] = Makes(buildings[n].definition, r) * Hands(buildings[n])
  OBVIOUS
<1>5. Eaten(r) \in Nat
  BY FoodNeededType DEF Eaten, U64
<1> HIDE DEF useUp, makes, N
<1>6. PICK u \in [0 .. N -> Nat] : u[0] = Eaten(r) /\ \A n \in 1 .. N : u[n] = u[n - 1] + useUp[n]
  BY <1>1, <1>3, <1>5, RunningSum
<1>7. PICK m \in [0 .. N -> Nat] : m[0] = 0 /\ \A n \in 1 .. N : m[n] = m[n - 1] + makes[n]
  <2>1. 0 \in Nat
    OBVIOUS
  <2>2. QED
    BY <1>1, <1>3, <2>1, RunningSum
<1>8. ASSUME NEW s \in LivedStates, NEW ticks \in Nat, Countable(ticks), Lived(s, ticks).short = {}
      PROVE  Worth(Lived(s, ticks), r) + u[N] * ticks = Worth(s, r) + m[N] * ticks
  <2>1. PICK f : LivesThrough(f, s, ticks)
    BY LivedUnrolled
  <2>2. /\ \A n \in 0 .. N : f[n].short = {}
        /\ \E units \in Nat : EatsExactly(s, f[0], [units |-> units, due |-> FoodNeeded * ticks])
    BY <1>8, <2>1, LivesExactly DEF N
  <2>3. \A n \in 0 .. N : f[n] \in LivedStates
    BY <2>1 DEF LivesThrough, N
  <2>4. \A n \in 0 .. N : Worth(f[n], r) \in Nat
    BY <2>3, WorthType
  <2>5. Worth(s, r) \in Nat
    BY WorthType
  <2> DEFINE T == {n \in 0 .. N : Worth(f[n], r) + u[n] * ticks = Worth(s, r) + m[n] * ticks}
  <2>6. 0 \in T
    <3>1. PICK units \in Nat : EatsExactly(s, f[0], [units |-> units, due |-> FoodNeeded * ticks])
      BY <2>2
    <3>2. PICK first \in LivedStates : first = f[0]
      BY <1>1, <2>3
    <3>3. EatsExactly(s, first, [units |-> units, due |-> FoodNeeded * ticks])
      BY <3>1, <3>2
    <3>4. Worth(first, r) + Eaten(r) * ticks = Worth(s, r)
      BY <3>3, WorthEaten
    <3>5. m[0] * ticks = 0 /\ u[0] * ticks = Eaten(r) * ticks
      BY <1>6, <1>7
    <3>6. Worth(f[0], r) + u[0] * ticks = Worth(s, r) + m[0] * ticks
      BY <2>5, <3>2, <3>4, <3>5
    <3>7. 0 \in 0 .. N
      BY <1>1
    <3>8. QED
      BY <3>6, <3>7
  <2>7. ASSUME NEW n \in 1 .. N, n - 1 \in T PROVE n \in T
    <3>1. n \in 0 .. N /\ n - 1 \in 0 .. N
      BY <1>1
    <3>2. PICK old \in LivedStates : old = f[n - 1]
      BY <2>3, <3>1
    <3>3. PICK new \in LivedStates : new = f[n]
      BY <2>3, <3>1
    <3>4. PICK uses \in Nat : uses = Takes(buildings[n].definition, r)
      BY <1>2
    <3>5. PICK makings \in Nat : makings = Makes(buildings[n].definition, r)
      BY <1>2
    <3>6. PICK hands \in Nat : hands = Hands(buildings[n])
      BY <1>2
    <3>7. /\ buildings[n].definition = Unregistered => new = old
          /\ buildings[n].definition # Unregistered =>
               /\ buildings[n].definition \in Kinds
               /\ \E k \in Nat : WorksExactly(old, new, buildings[n].definition, k, hands * ticks)
      <4>1. n \in 1 .. Len(buildings) /\ f[n].short = {}
        BY <2>2, <3>1 DEF N
      <4>2. /\ buildings[n].definition = Unregistered => f[n] = f[n - 1]
            /\ buildings[n].definition # Unregistered =>
                 /\ buildings[n].definition \in Kinds
                 /\ \E k \in Nat :
                      WorksExactly(f[n - 1], f[n], buildings[n].definition, k, Hands(buildings[n]) * ticks)
        BY <1>8, <2>1, <4>1, RoundIsExact
      <4>3. QED
        BY <3>2, <3>3, <3>6, <4>2
    <3>8. Worth(new, r) + uses * (hands * ticks) = Worth(old, r) + makings * (hands * ticks)
      <4>1. CASE buildings[n].definition = Unregistered
        <5>1. uses = 0 /\ makings = 0 /\ new = old
          BY <3>4, <3>5, <3>7, <4>1 DEF Takes, Makes
        <5>2. QED
          BY <5>1
      <4>2. CASE buildings[n].definition # Unregistered
        <5>1. PICK b \in Kinds : b = buildings[n].definition
          BY <3>7, <4>2
        <5>2. PICK k \in Nat : WorksExactly(old, new, b, k, hands * ticks)
          BY <3>7, <4>2, <5>1
        <5>3. PICK p \in Nat : p = hands * ticks
          OBVIOUS
        <5>4. WorksExactly(old, new, b, k, p)
          BY <5>2, <5>3
        <5>5. Worth(new, r) + Takes(b, r) * p = Worth(old, r) + Makes(b, r) * p
          BY <5>4, WorthMoves
        <5>6. QED
          BY <3>4, <3>5, <5>1, <5>3, <5>5
      <4>3. QED
        BY <4>1, <4>2
    <3>9. PICK un \in Nat : un = u[n - 1]
      BY <1>6, <3>1
    <3>10. PICK mn \in Nat : mn = m[n - 1]
      BY <1>7, <3>1
    <3>11. PICK x \in Nat : x = Worth(old, r)
      BY WorthType
    <3>12. PICK y \in Nat : y = Worth(new, r)
      BY WorthType
    <3>13. PICK z \in Nat : z = Worth(s, r)
      BY <2>5
    <3>14. u[n] = un + uses * hands /\ m[n] = mn + makings * hands
      BY <1>4, <1>6, <1>7, <3>4, <3>5, <3>6, <3>9, <3>10
    <3>15. x + un * ticks = z + mn * ticks
      BY <2>7, <3>2, <3>9, <3>10, <3>11, <3>13
    <3>16. y + uses * (hands * ticks) = x + makings * (hands * ticks)
      BY <3>8, <3>11, <3>12
    <3>17. y + (un + uses * hands) * ticks = z + (mn + makings * hands) * ticks
      <4>1. /\ (un + uses * hands) * ticks = un * ticks + uses * (hands * ticks)
            /\ (mn + makings * hands) * ticks = mn * ticks + makings * (hands * ticks)
        OBVIOUS
      <4>2. /\ un * ticks \in Nat /\ mn * ticks \in Nat
            /\ uses * (hands * ticks) \in Nat /\ makings * (hands * ticks) \in Nat
        OBVIOUS
      <4> DEFINE one == un * ticks  two == mn * ticks
                 three == uses * (hands * ticks)  four == makings * (hands * ticks)
      <4> HIDE DEF one, two, three, four
      <4>3. x + one = z + two /\ y + three = x + four
        BY <3>15, <3>16 DEF one, two, three, four
      <4>4. one \in Nat /\ two \in Nat /\ three \in Nat /\ four \in Nat
        BY <4>2 DEF one, two, three, four
      <4>5. y + (one + three) = z + (two + four)
        BY <4>3, <4>4
      <4>6. QED
        BY <4>1, <4>5 DEF one, two, three, four
    <3>18. Worth(f[n], r) + u[n] * ticks = Worth(s, r) + m[n] * ticks
      BY <3>3, <3>12, <3>13, <3>14, <3>17
    <3>19. QED
      BY <3>1, <3>18
  <2> HIDE DEF T
  <2>8. \A n \in 0 .. N : n \in T
    BY <1>1, <2>6, <2>7, BoundedInduction
  <2>9. N \in T
    BY <1>1, <2>8
  <2>10. Lived(s, ticks) = f[N]
    BY <2>1 DEF LivesThrough, N
  <2>11. QED
    BY <2>9, <2>10 DEF T
<1>9. PICK used \in Nat : used = u[N]
  BY <1>1, <1>6
<1>10. PICK made \in Nat : made = m[N]
  BY <1>1, <1>7
<1>11. \A s \in LivedStates, ticks \in Nat :
         Countable(ticks) /\ Lived(s, ticks).short = {} =>
           Worth(Lived(s, ticks), r) + used * ticks = Worth(s, r) + made * ticks
  BY <1>8, <1>9, <1>10
<1>12. QED
  BY <1>11

LEMMA RestsAreSmall ==
  ASSUME NEW s \in LivedStates, NEW key \in Keys
  PROVE  s.rest[key] \in Nat /\ s.rest[key] < TicksPerDay
<1>1. PICK rest \in Rests : rest = s.rest
  BY DEF LivedStates, PairedRests
<1>2. rest[key] \in 0 .. TicksPerDay - 1
  BY DEF Rests
<1>3. QED
  BY <1>1, <1>2, TicksPerDayPositive

(* What a counter gains over a span is a matter of the settlement's        *)
(* buildings and its people, and of the length of the span.                *)
Gains(key, perDay, s, ticks) ==
  \E units \in Nat : TicksPerDay * units + Lived(s, ticks).rest[key] = s.rest[key] + perDay * ticks

LEMMA PeopleCount ==
  ASSUME buildings \in Seq(BuildingInstances), InputsListedOnce, NEW s \in LivedStates, NEW ticks \in Nat,
         Countable(ticks), Lived(s, ticks).short = {}
  PROVE  Gains(<<"food", Food>>, FoodNeeded, s, ticks)
<1>1. PICK f : LivesThrough(f, s, ticks)
  BY LivedUnrolled
<1>2. /\ \A n \in 0 .. Len(buildings) : f[n].short = {}
      /\ \E units \in Nat : EatsExactly(s, f[0], [units |-> units, due |-> FoodNeeded * ticks])
  BY <1>1, LivesExactly
<1> DEFINE N == Len(buildings)
           T == {n \in 0 .. N : f[n].rest[<<"food", Food>>] = f[0].rest[<<"food", Food>>]}
<1>3. N \in Nat
  OBVIOUS
<1>4. 0 \in T
  BY <1>3
<1>5. ASSUME NEW n \in 1 .. N, n - 1 \in T PROVE n \in T
  <2>1. n \in 0 .. N /\ f[n].short = {}
    BY <1>2
  <2>2. /\ buildings[n].definition = Unregistered => f[n] = f[n - 1]
        /\ buildings[n].definition # Unregistered =>
             /\ buildings[n].definition \in Kinds
             /\ \E m \in Nat : WorksExactly(f[n - 1], f[n], buildings[n].definition, m, Hands(buildings[n]) * ticks)
    BY <1>1, <2>1, RoundIsExact
  <2>3. PICK key \in Keys : key = <<"food", Food>>
    BY KeysAreKeys
  <2>4. f[n].rest[key] = f[n - 1].rest[key]
    <3>1. CASE buildings[n].definition = Unregistered
      BY <2>2, <3>1
    <3>2. CASE buildings[n].definition # Unregistered
      <4>1. PICK b \in BuildingId : b = buildings[n].definition
        BY <2>2, <3>2, KindsAre
      <4>2. key # <<"input", b>> /\ key # <<"output", b>>
        BY <2>3, KeysAreKeys
      <4>3. QED
        BY <2>2, <3>2, <4>1, <4>2 DEF WorksExactly
    <3>3. QED
      BY <3>1, <3>2
  <2>5. QED
    BY <1>5, <2>1, <2>3, <2>4
<1> HIDE DEF T
<1>6. \A n \in 0 .. N : n \in T
  BY <1>3, <1>4, <1>5, BoundedInduction
<1>7. f[N].rest[<<"food", Food>>] = f[0].rest[<<"food", Food>>]
  BY <1>3, <1>6 DEF T
<1>8. PICK units \in Nat : EatsExactly(s, f[0], [units |-> units, due |-> FoodNeeded * ticks])
  BY <1>2
<1>9. TicksPerDay * units + f[0].rest[<<"food", Food>>] = s.rest[<<"food", Food>>] + FoodNeeded * ticks
  BY <1>8 DEF EatsExactly
<1>10. Lived(s, ticks) = f[N]
  BY <1>1 DEF LivesThrough
<1>11. QED
  BY <1>7, <1>9, <1>10 DEF Gains

LEMMA BuildingsCount ==
  ASSUME buildings \in Seq(BuildingInstances), InputsListedOnce, NEW b \in BuildingId
  PROVE  \E perDay \in Nat : \A s \in LivedStates, ticks \in Nat :
           Countable(ticks) /\ Lived(s, ticks).short = {} => Gains(<<"input", b>>, perDay, s, ticks)
<1> DEFINE N == Len(buildings)
           hands == [n \in 1 .. N |-> IF buildings[n].definition = b THEN Hands(buildings[n]) ELSE 0]
<1>1. N \in Nat /\ \A n \in 1 .. N : buildings[n] \in BuildingInstances
  OBVIOUS
<1>2. \A n \in 1 .. N : Hands(buildings[n]) \in Nat
  BY <1>1, HandsAre DEF U64
<1>3. hands \in [1 .. N -> Nat]
  BY <1>2
<1>4. \A n \in 1 .. N : hands[n] = IF buildings[n].definition = b THEN Hands(buildings[n]) ELSE 0
  OBVIOUS
<1>5. b # Unregistered
  BY SettlementAssumption
<1> HIDE DEF hands, N
<1>6. PICK h \in [0 .. N -> Nat] : h[0] = 0 /\ \A n \in 1 .. N : h[n] = h[n - 1] + hands[n]
  <2>1. 0 \in Nat
    OBVIOUS
  <2>2. QED
    BY <1>1, <1>3, <2>1, RunningSum
<1>7. PICK key \in Keys : key = <<"input", b>>
  BY KeysAreKeys
<1>8. PICK day \in Nat : day = TicksPerDay
  BY TicksPerDayPositive
<1>9. ASSUME NEW s \in LivedStates, NEW ticks \in Nat, Countable(ticks), Lived(s, ticks).short = {}
      PROVE  Gains(<<"input", b>>, h[N], s, ticks)
  <2>1. PICK f : LivesThrough(f, s, ticks)
    BY LivedUnrolled
  <2>2. /\ \A n \in 0 .. N : f[n].short = {}
        /\ \E units \in Nat : EatsExactly(s, f[0], [units |-> units, due |-> FoodNeeded * ticks])
    BY <1>9, <2>1, LivesExactly DEF N
  <2>3. \A n \in 0 .. N : f[n] \in LivedStates
    BY <2>1 DEF LivesThrough, N
  <2>4. \A n \in 0 .. N : f[n].rest[key] \in Nat
    BY <2>3, RestsAreSmall
  <2>5. PICK c \in Nat : c = s.rest[key]
    BY RestsAreSmall
  <2> DEFINE T == {n \in 0 .. N : \E units \in Nat : day * units + f[n].rest[key] = c + h[n] * ticks}
  <2>6. 0 \in T
    <3>1. key # <<"food", Food>>
      BY <1>7, KeysAreKeys
    <3>2. f[0].rest[key] = c
      BY <2>2, <2>5, <3>1 DEF EatsExactly
    <3>3. day * 0 + f[0].rest[key] = c + h[0] * ticks
      BY <1>6, <3>2
    <3>4. 0 \in 0 .. N
      BY <1>1
    <3>5. QED
      BY <3>3, <3>4
  <2>7. ASSUME NEW n \in 1 .. N, n - 1 \in T PROVE n \in T
    <3>1. n \in 0 .. N /\ n - 1 \in 0 .. N
      BY <1>1
    <3>2. /\ buildings[n].definition = Unregistered => f[n] = f[n - 1]
          /\ buildings[n].definition # Unregistered =>
               /\ buildings[n].definition \in Kinds
               /\ \E m \in Nat : WorksExactly(f[n - 1], f[n], buildings[n].definition, m, Hands(buildings[n]) * ticks)
      <4>1. n \in 1 .. Len(buildings) /\ f[n].short = {}
        BY <2>2, <3>1 DEF N
      <4>2. QED
        BY <1>9, <2>1, <4>1, RoundIsExact
    <3>3. PICK units \in Nat : day * units + f[n - 1].rest[key] = c + h[n - 1] * ticks
      BY <2>7
    <3>4. PICK old \in Nat : old = f[n - 1].rest[key]
      BY <2>4, <3>1
    <3>5. PICK new \in Nat : new = f[n].rest[key]
      BY <2>4, <3>1
    <3>6. PICK hn \in Nat : hn = h[n - 1]
      BY <1>6, <3>1
    <3>7. CASE buildings[n].definition = b
      <4>1. PICK m \in Nat : WorksExactly(f[n - 1], f[n], b, m, Hands(buildings[n]) * ticks)
        BY <1>5, <3>2, <3>7
      <4>2. PICK more \in Nat : more = Hands(buildings[n])
        BY <1>2
      <4>3. h[n] = hn + more
        BY <1>4, <1>6, <3>6, <3>7, <4>2
      <4>4. day * m + new = old + more * ticks
        BY <1>7, <1>8, <3>4, <3>5, <4>1, <4>2 DEF WorksExactly
      <4>5. day * units + old = c + hn * ticks
        BY <3>3, <3>4, <3>6
      <4>6. day * (units + m) + new = c + (hn + more) * ticks
        <5> DEFINE one == day * units  two == day * m  three == hn * ticks  four == more * ticks
        <5>1. one \in Nat /\ two \in Nat /\ three \in Nat /\ four \in Nat
          OBVIOUS
        <5>2. day * (units + m) = one + two /\ (hn + more) * ticks = three + four
          OBVIOUS
        <5>3. two + new = old + four /\ one + old = c + three
          BY <4>4, <4>5
        <5> HIDE DEF one, two, three, four
        <5>4. (one + two) + new = c + (three + four)
          BY <5>1, <5>3
        <5>5. QED
          BY <5>2, <5>4
      <4>7. units + m \in Nat
        OBVIOUS
      <4>8. day * (units + m) + f[n].rest[key] = c + h[n] * ticks
        BY <3>5, <4>3, <4>6
      <4>9. QED
        BY <3>1, <4>7, <4>8
    <3>8. CASE buildings[n].definition # b
      <4>1. f[n].rest[key] = f[n - 1].rest[key]
        <5>1. CASE buildings[n].definition = Unregistered
          BY <3>2, <5>1
        <5>2. CASE buildings[n].definition # Unregistered
          <6>1. PICK x \in BuildingId : x = buildings[n].definition
            BY <3>2, <5>2, KindsAre
          <6>2. key # <<"input", x>> /\ key # <<"output", x>>
            BY <1>7, <3>8, <6>1, KeysAreKeys
          <6>3. QED
            BY <3>2, <5>2, <6>1, <6>2 DEF WorksExactly
        <5>3. QED
          BY <5>1, <5>2
      <4>2. h[n] = hn
        BY <1>4, <1>6, <3>6, <3>8
      <4>3. day * units + f[n].rest[key] = c + h[n] * ticks
        BY <3>3, <3>6, <4>1, <4>2
      <4>4. QED
        BY <3>1, <4>3
    <3>9. QED
      BY <3>7, <3>8
  <2> HIDE DEF T
  <2>8. \A n \in 0 .. N : n \in T
    BY <1>1, <2>6, <2>7, BoundedInduction
  <2>9. N \in T
    BY <1>1, <2>8
  <2>10. Lived(s, ticks) = f[N]
    BY <2>1 DEF LivesThrough, N
  <2>11. PICK units \in Nat : day * units + f[N].rest[key] = c + h[N] * ticks
    BY <2>9 DEF T
  <2>12. QED
    BY <1>7, <1>8, <2>5, <2>10, <2>11 DEF Gains
<1>10. PICK perDay \in Nat : perDay = h[N]
  BY <1>1, <1>6
<1>11. \A s \in LivedStates, ticks \in Nat :
         Countable(ticks) /\ Lived(s, ticks).short = {} => Gains(<<"input", b>>, perDay, s, ticks)
  BY <1>9, <1>10
<1>12. QED
  BY <1>11

-----------------------------------------------------------------------------
(* A span of time, and its two parts.                                      *)

(* Two numbers that differ by whole days of units, and are less than one,  *)
(* are the same.                                                           *)
LEMMA SameRest ==
  ASSUME NEW x \in Nat, NEW y \in Nat, NEW c \in Nat, NEW d \in Nat, c < TicksPerDay, d < TicksPerDay,
         TicksPerDay * x + c = TicksPerDay * y + d
  PROVE  c = d
<1>1. PICK T \in Nat : T = TicksPerDay
  BY TicksPerDayPositive
<1>2. T * x + c = T * y + d /\ c < T /\ d < T
  BY <1>1
<1>3. CASE x = y
  <2>1. T * x \in Nat
    OBVIOUS
  <2>2. QED
    BY <1>2, <1>3, <2>1
<1>4. CASE x < y
  <2>1. x + 1 <= y
    BY <1>4
  <2>2. T * (x + 1) <= T * y
    BY <2>1, ProductsGrow
  <2>3. T * (x + 1) = T * x + T
    OBVIOUS
  <2>4. T * x \in Nat /\ T * y \in Nat
    OBVIOUS
  <2>5. QED
    BY <1>2, <2>2, <2>3, <2>4
<1>5. CASE y < x
  <2>1. y + 1 <= x
    BY <1>5
  <2>2. T * (y + 1) <= T * x
    BY <2>1, ProductsGrow
  <2>3. T * (y + 1) = T * y + T
    OBVIOUS
  <2>4. T * x \in Nat /\ T * y \in Nat
    OBVIOUS
  <2>5. QED
    BY <1>2, <2>2, <2>3, <2>4
<1>6. QED
  BY <1>3, <1>4, <1>5

(* A counter that gains by the tick ends the same, however the span is cut.*)
LEMMA SplitGains ==
  ASSUME NEW s \in LivedStates, NEW a \in Nat, NEW b \in Nat, NEW mid \in LivedStates, mid = Lived(s, a),
         NEW parts \in LivedStates, parts = Lived(mid, b), NEW whole \in LivedStates, whole = Lived(s, a + b),
         NEW key \in Keys, NEW perDay \in Nat,
         Gains(key, perDay, s, a), Gains(key, perDay, mid, b), Gains(key, perDay, s, a + b)
  PROVE  parts.rest[key] = whole.rest[key]
<1>1. PICK day \in Nat : day = TicksPerDay
  BY TicksPerDayPositive
<1>2. PICK x \in Nat : day * x + mid.rest[key] = s.rest[key] + perDay * a
  BY <1>1 DEF Gains
<1>3. PICK y \in Nat : day * y + parts.rest[key] = mid.rest[key] + perDay * b
  BY <1>1 DEF Gains
<1>4. PICK z \in Nat : day * z + whole.rest[key] = s.rest[key] + perDay * (a + b)
  BY <1>1 DEF Gains
<1>5. PICK c \in Nat : c = s.rest[key]
  BY RestsAreSmall
<1>6. PICK d \in Nat : d = mid.rest[key]
  BY RestsAreSmall
<1>7. PICK p \in Nat : p = parts.rest[key] /\ p < TicksPerDay
  BY RestsAreSmall
<1>8. PICK w \in Nat : w = whole.rest[key] /\ w < TicksPerDay
  BY RestsAreSmall
<1>9. day * (x + y) + p = day * z + w
  <2> DEFINE dx == day * x  dy == day * y  dz == day * z  pa == perDay * a  pb == perDay * b
  <2>1. dx \in Nat /\ dy \in Nat /\ dz \in Nat /\ pa \in Nat /\ pb \in Nat
    OBVIOUS
  <2>2. day * (x + y) = dx + dy /\ perDay * (a + b) = pa + pb
    OBVIOUS
  <2>3. dx + d = c + pa /\ dy + p = d + pb /\ dz + w = c + (pa + pb)
    BY <1>2, <1>3, <1>4, <1>5, <1>6, <1>7, <1>8, <2>2
  <2> HIDE DEF dx, dy, dz, pa, pb
  <2>4. (dx + dy) + p = dz + w
    BY <2>1, <2>3
  <2>5. QED
    BY <2>2, <2>4 DEF dz
<1>10. PICK xy \in Nat : xy = x + y
  OBVIOUS
<1>11. TicksPerDay * xy + p = TicksPerDay * z + w
  BY <1>1, <1>9, <1>10
<1>12. p = w
  BY <1>7, <1>8, <1>11, SameRest
<1>13. QED
  BY <1>7, <1>8, <1>12

(* A span that is lived in two parts and in one, and nothing is short.     *)
IsSplit(s, a, b, mid, parts, whole) ==
  /\ InputsListedOnce /\ Countable(a + b)
  /\ mid = Lived(s, a) /\ mid.short = {}
  /\ parts = Lived(mid, b) /\ parts.short = {}
  /\ whole = Lived(s, a + b) /\ whole.short = {}

LEMMA SplitRests ==
  ASSUME buildings \in Seq(BuildingInstances), NEW s \in LivedStates, NEW a \in Nat, NEW b \in Nat,
         NEW mid \in LivedStates, NEW parts \in LivedStates, NEW whole \in LivedStates,
         IsSplit(s, a, b, mid, parts, whole)
  PROVE  parts.rest = whole.rest
<1> USE DEF IsSplit
<1>1. a + b \in Nat /\ Countable(a) /\ Countable(b)
  BY CountableParts
<1>2. parts.rest[<<"food", Food>>] = whole.rest[<<"food", Food>>]
  <2>1. PICK key \in Keys : key = <<"food", Food>>
    BY KeysAreKeys
  <2>2. PICK perDay \in Nat : perDay = FoodNeeded
    BY FoodNeededType DEF U64
  <2>3. Gains(key, perDay, s, a)
    BY <1>1, <2>1, <2>2, PeopleCount
  <2>4. Gains(key, perDay, mid, b)
    BY <1>1, <2>1, <2>2, PeopleCount
  <2>5. Gains(key, perDay, s, a + b)
    BY <1>1, <2>1, <2>2, PeopleCount
  <2>6. parts.rest[key] = whole.rest[key]
    BY <2>3, <2>4, <2>5, SplitGains
  <2>7. QED
    BY <2>1, <2>6
<1>3. ASSUME NEW k \in BuildingId
      PROVE  parts.rest[<<"input", k>>] = whole.rest[<<"input", k>>]
  <2>1. PICK key \in Keys : key = <<"input", k>>
    BY KeysAreKeys
  <2>2. PICK perDay \in Nat : \A o \in LivedStates, ticks \in Nat :
          Countable(ticks) /\ Lived(o, ticks).short = {} => Gains(<<"input", k>>, perDay, o, ticks)
    BY BuildingsCount
  <2>3. Gains(key, perDay, s, a)
    BY <1>1, <2>1, <2>2
  <2>4. Gains(key, perDay, mid, b)
    BY <1>1, <2>1, <2>2
  <2>5. Gains(key, perDay, s, a + b)
    BY <1>1, <2>1, <2>2
  <2>6. parts.rest[key] = whole.rest[key]
    BY <2>3, <2>4, <2>5, SplitGains
  <2>7. QED
    BY <2>1, <2>6
<1>4. PICK one \in PairedRests : one = parts.rest
  BY DEF LivedStates
<1>5. PICK two \in PairedRests : two = whole.rest
  BY DEF LivedStates
<1>6. ASSUME NEW key \in Keys PROVE one[key] = two[key]
  <2>1. CASE key = <<"food", Food>>
    BY <1>2, <1>4, <1>5, <2>1
  <2>2. CASE key \in {"input", "output"} \X BuildingId
    <3>1. PICK k \in BuildingId : key = <<"input", k>> \/ key = <<"output", k>>
      BY <2>2
    <3>2. one[<<"input", k>>] = two[<<"input", k>>]
      BY <1>3, <1>4, <1>5
    <3>3. one[<<"input", k>>] = one[<<"output", k>>] /\ two[<<"input", k>>] = two[<<"output", k>>]
      BY DEF PairedRests
    <3>4. QED
      BY <3>1, <3>2, <3>3
  <2>3. QED
    BY <2>1, <2>2 DEF Keys
<1>7. one \in [Keys -> 0 .. TicksPerDay - 1] /\ two \in [Keys -> 0 .. TicksPerDay - 1]
  BY DEF PairedRests, Rests
<1>8. one = two
  BY <1>6, <1>7
<1>9. QED
  BY <1>4, <1>5, <1>8

LEMMA SplitAlike ==
  ASSUME buildings \in Seq(BuildingInstances), NEW s \in LivedStates, NEW a \in Nat, NEW b \in Nat,
         NEW mid \in LivedStates, NEW parts \in LivedStates, NEW whole \in LivedStates,
         IsSplit(s, a, b, mid, parts, whole)
  PROVE  parts.rest = whole.rest /\ parts.storage = whole.storage
<1>1. a + b \in Nat /\ Countable(a) /\ Countable(b)
  BY CountableParts DEF IsSplit
<1>2. parts.rest = whole.rest
  BY SplitRests
<1>3. ASSUME NEW r \in Resource PROVE parts.storage[r] = whole.storage[r]
  <2>1. PICK used \in Nat, made \in Nat : \A o \in LivedStates, ticks \in Nat :
          Countable(ticks) /\ Lived(o, ticks).short = {} =>
            Worth(Lived(o, ticks), r) + used * ticks = Worth(o, r) + made * ticks
    BY LivedIsWorth DEF IsSplit
  <2>2. Worth(mid, r) + used * a = Worth(s, r) + made * a
    BY <1>1, <2>1 DEF IsSplit
  <2>3. Worth(parts, r) + used * b = Worth(mid, r) + made * b
    BY <1>1, <2>1 DEF IsSplit
  <2>4. Worth(whole, r) + used * (a + b) = Worth(s, r) + made * (a + b)
    BY <1>1, <2>1 DEF IsSplit
  <2>5. Worth(s, r) \in Nat /\ Worth(mid, r) \in Nat /\ Worth(parts, r) \in Nat /\ Worth(whole, r) \in Nat
    BY WorthType
  <2>6. Worth(parts, r) = Worth(whole, r)
    <3> DEFINE ua == used * a  ub == used * b  ma == made * a  mb == made * b
               w == Worth(s, r)  x == Worth(mid, r)  y == Worth(parts, r)  z == Worth(whole, r)
    <3>1. ua \in Nat /\ ub \in Nat /\ ma \in Nat /\ mb \in Nat
      OBVIOUS
    <3>2. used * (a + b) = ua + ub /\ made * (a + b) = ma + mb
      OBVIOUS
    <3>3. x + ua = w + ma /\ y + ub = x + mb /\ z + (ua + ub) = w + (ma + mb)
      BY <2>2, <2>3, <2>4, <3>2
    <3>4. w \in Nat /\ x \in Nat /\ y \in Nat /\ z \in Nat
      BY <2>5
    <3> HIDE DEF ua, ub, ma, mb, w, x, y, z
    <3>5. y = z
      BY <3>1, <3>3, <3>4
    <3>6. QED
      BY <3>5 DEF y, z
  <2>7. PICK total \in Nat : total = Total(UnderWay(parts.rest, r))
    BY TotalType DEF LivedStates, PairedRests
  <2>8. PICK hunger \in Nat : hunger = Hunger(parts.rest, r)
    BY TotalType DEF LivedStates, PairedRests
  <2>9. PICK m \in Nat : m = parts.storage[r]
    BY DEF LivedStates, Storages, U64
  <2>10. PICK n \in Nat : n = whole.storage[r]
    BY DEF LivedStates, Storages, U64
  <2>11. TicksPerDay * m + total + hunger = TicksPerDay * n + total + hunger
    BY <1>2, <2>6, <2>7, <2>8, <2>9, <2>10 DEF Worth
  <2>12. PICK T \in Nat : T = TicksPerDay /\ T > 0
    BY TicksPerDayPositive
  <2>13. T * m = T * n
    <3>1. T * m \in Nat /\ T * n \in Nat
      OBVIOUS
    <3>2. QED
      BY <2>11, <2>12, <3>1
  <2>14. m = n
    BY <2>12, <2>13
  <2>15. QED
    BY <2>9, <2>10, <2>14
<1>4. parts.storage \in [Resource -> U64] /\ whole.storage \in [Resource -> U64]
  BY DEF LivedStates, Storages
<1>5. QED
  BY <1>2, <1>3, <1>4

LEMMA SplitNow ==
  ASSUME SettlementTypeOK
  PROVE  SplitIrrelevant
<1> SUFFICES ASSUME InputsListedOnce, NEW a \in U64, NEW b \in U64, Countable(a + b),
                    Lived(Lived(SettlementNow, a), b).short = {}, Lived(SettlementNow, a + b).short = {}
             PROVE  Lived(Lived(SettlementNow, a), b) = Lived(SettlementNow, a + b)
  BY DEF SplitIrrelevant
<1>1. a \in Nat /\ b \in Nat /\ a + b \in Nat
  BY DEF U64
<1>2. buildings \in Seq(BuildingInstances)
  BY DEF SettlementTypeOK
<1>3. PICK s \in LivedStates : s = SettlementNow
  BY NowIsLived
<1>4. PICK mid \in LivedStates : mid = Lived(s, a)
  BY <1>1, <1>2, LivedIs
<1>5. PICK parts \in LivedStates : parts = Lived(mid, b)
  BY <1>1, <1>2, LivedIs
<1>6. PICK whole \in LivedStates : whole = Lived(s, a + b)
  BY <1>1, <1>2, LivedIs
<1>7. parts.short = {} /\ whole.short = {}
  BY <1>3, <1>4, <1>5, <1>6
<1>8. mid.short = {}
  <2>1. Countable(b)
    BY <1>1, <1>2, CountableParts
  <2>2. PICK f : LivesThrough(f, mid, b)
    BY <1>1, <1>2, LivedUnrolled
  <2>3. Lived(mid, b).short = {}
    BY <1>5, <1>7
  <2>4. \E units \in Nat : EatsExactly(mid, f[0], [units |-> units, due |-> FoodNeeded * b])
    BY <1>1, <1>2, <2>1, <2>2, <2>3, LivesExactly
  <2>5. QED
    BY <2>4 DEF EatsExactly
<1>9. parts.rest = whole.rest /\ parts.storage = whole.storage
  <2>1. IsSplit(s, a, b, mid, parts, whole)
    BY <1>4, <1>5, <1>6, <1>7, <1>8 DEF IsSplit
  <2>2. QED
    BY <1>1, <1>2, <2>1, SplitAlike
<1>10. parts = whole
  BY <1>7, <1>9 DEF LivedStates
<1>11. QED
  BY <1>3, <1>4, <1>5, <1>6, <1>10

(* It does not matter in what steps the clock of a settlement moves: two   *)
(* spans one after the other leave the same stores and the same remainders *)
(* as one of their length, to the last fraction of a unit, unless food, an *)
(* input or room ran short.  tick_remainders are what makes it so.         *)
THEOREM AnySplitWillDo == SettlementSpec => []SplitIrrelevant
<1>1. SettlementInit => SettlementTypeOK
  BY SettlementStart
<1>2. SettlementTypeOK /\ [SettlementNext]_settlementVars => SettlementTypeOK'
  BY SettlementStep
<1>3. SettlementTypeOK => SplitIrrelevant
  BY SplitNow
<1>4. QED
  BY <1>1, <1>2, <1>3, PTL DEF SettlementSpec

-----------------------------------------------------------------------------
(* The prices of the settlement's market.                                  *)

LEMMA SharesOfOne ==
  ASSUME NEW m \in Nat, NEW n \in Nat, m <= n, NEW d \in Nat \ {0}
  PROVE  m \div d <= n \div d
OBVIOUS

LEMMA QuotientOf ==
  ASSUME NEW a \in Nat, NEW b \in Nat \ {0}
  PROVE  /\ a \div b \in Nat
         /\ (a \div b) * b <= a /\ a < ((a \div b) + 1) * b
<1>1. PICK q \in Nat : q = a \div b
  OBVIOUS
<1>2. PICK r \in 0 .. b - 1 : r = a % b
  OBVIOUS
<1>3. a = b * q + r
  BY <1>1, <1>2
<1>4. PICK x \in Nat : x = b * q
  OBVIOUS
<1>5. q * b = x /\ (q + 1) * b = x + b
  BY <1>4
<1>6. QED
  BY <1>1, <1>2, <1>3, <1>4, <1>5

LEMMA QuotientsGrow ==
  ASSUME NEW a \in Nat, NEW b \in Nat \ {0}, NEW c \in Nat, NEW e \in Nat \ {0}, a * e <= c * b
  PROVE  a \div b <= c \div e
<1> DEFINE q == a \div b
           p == c \div e
<1>1. /\ q \in Nat /\ q * b <= a
      /\ p \in Nat /\ c < (p + 1) * e
  BY QuotientOf
<1> HIDE DEF q, p
<1>2. ASSUME p < q PROVE FALSE
  <2>1. (p + 1) * e <= q * e
    BY <1>1, <1>2, ProductsGrow
  <2>2. PICK y \in Nat : y = q * e
    BY <1>1
  <2>3. PICK x \in Nat : x = (p + 1) * e
    BY <1>1
  <2>4. c + 1 <= y
    BY <1>1, <2>1, <2>2, <2>3
  <2>5. (c + 1) * b <= y * b
    BY <2>4, ProductsGrow
  <2>6. PICK z \in Nat : z = q * b
    BY <1>1
  <2>7. z * e <= a * e
    BY <1>1, <2>6, ProductsGrow
  <2>8. y * b = z * e
    BY <1>1, <2>2, <2>6
  <2>9. (c + 1) * b = c * b + b
    OBVIOUS
  <2>10. PICK m \in Nat : m = c * b
    OBVIOUS
  <2>11. PICK n \in Nat : n = a * e
    OBVIOUS
  <2>12. PICK k \in Nat : k = y * b
    BY <2>2
  <2>13. m + b <= k /\ k <= n /\ n <= m
    BY <2>5, <2>7, <2>8, <2>9, <2>10, <2>11, <2>12
  <2>14. QED
    BY <2>13
<1>3. QED
  BY <1>1, <1>2 DEF q, p

(* What y leaves of x is a smaller share of x than what it leaves of z.    *)
LEMMA SharesGrow ==
  ASSUME NEW B \in Nat, NEW x \in Nat \ {0}, NEW y \in Nat, NEW z \in Nat, y <= x, x <= z
  PROVE  (B * (x - y)) \div x <= (B * (z - y)) \div z
<1>1. PICK u \in Nat : x = y + u
  <2>1. x - y \in Nat /\ x = y + (x - y)
    OBVIOUS
  <2>2. QED
    BY <2>1
<1>2. PICK v \in Nat : z = x + v
  <2>1. z - x \in Nat /\ z = x + (z - x)
    OBVIOUS
  <2>2. QED
    BY <2>1
<1>3. x - y = u /\ z - y = u + v
  BY <1>1, <1>2
<1>4. u * z <= (u + v) * x
  <2>1. u * (x + v) = u * x + u * v /\ (u + v) * x = u * x + v * x
    OBVIOUS
  <2>2. u <= x /\ v * u <= v * x
    BY <1>1, ProductsGrow
  <2>3. u * x \in Nat /\ u * v \in Nat /\ v * x \in Nat /\ u * v = v * u
    OBVIOUS
  <2>4. QED
    BY <1>2, <2>1, <2>2, <2>3
<1>5. PICK s \in Nat : s = u * z
  OBVIOUS
<1>6. PICK t \in Nat : t = (u + v) * x
  OBVIOUS
<1>7. B * s <= B * t
  BY <1>4, <1>5, <1>6, ProductsGrow
<1>8. (B * u) * z = B * s /\ (B * (u + v)) * x = B * t
  BY <1>5, <1>6
<1>9. PICK a \in Nat : a = B * u
  OBVIOUS
<1>10. PICK c \in Nat : c = B * (u + v)
  OBVIOUS
<1>11. a * z <= c * x /\ z # 0
  BY <1>2, <1>7, <1>8, <1>9, <1>10
<1>12. a \div x <= c \div z
  BY <1>11, QuotientsGrow
<1>13. QED
  BY <1>3, <1>9, <1>10, <1>12

Raised(B, p) == SaturatingAdd(B, AtLeast(p, 1))

Lowered(B, q) == AtLeast(B - AtMost(q, B), 1)

LEMMA BaseIsPositive ==
  ASSUME NEW base \in U64
  PROVE  BaseValue(base) \in 1 .. MaxU64
BY WidthAssumption DEF BaseValue, AtLeast, U64

LEMMA PriceIs ==
  ASSUME NEW base, NEW supply \in U64, NEW demand \in U64
  PROVE  /\ demand > supply => Price(base, supply, demand) = Raised(BaseValue(base), Premium(base, supply, demand))
         /\ supply > demand => Price(base, supply, demand) = Lowered(BaseValue(base), Discount(base, supply, demand))
         /\ supply = demand => Price(base, supply, demand) = BaseValue(base)
<1>1. supply \in Nat /\ demand \in Nat
  BY WidthAssumption DEF U64
<1>2. /\ demand > supply => ~(supply > demand)
      /\ supply = demand => ~(demand > supply) /\ ~(supply > demand)
  BY <1>1
<1>3. QED
  BY <1>2, Zenon DEF Price, Raised, Lowered

(* Both bounds of a price, wherever the saturating product stops.          *)
LEMMA RaisedIs ==
  ASSUME NEW B \in 1 .. MaxU64, NEW p \in Nat
  PROVE  /\ Raised(B, p) \in B .. MaxU64
         /\ Raised(B, p) > B \/ Raised(B, p) = MaxU64
BY WidthAssumption DEF Raised, SaturatingAdd, CanAdd, AtLeast

LEMMA LoweredIs ==
  ASSUME NEW B \in 1 .. MaxU64, NEW q \in Nat
  PROVE  Lowered(B, q) \in 1 .. B
BY WidthAssumption DEF Lowered, AtLeast, AtMost

LEMMA RaisedGrows ==
  ASSUME NEW B \in 1 .. MaxU64, NEW p \in Nat, NEW q \in Nat, p <= q
  PROVE  Raised(B, p) <= Raised(B, q)
BY WidthAssumption DEF Raised, SaturatingAdd, CanAdd, AtLeast

LEMMA LoweredFalls ==
  ASSUME NEW B \in 1 .. MaxU64, NEW p \in Nat, NEW q \in Nat, p <= q
  PROVE  Lowered(B, q) <= Lowered(B, p)
BY WidthAssumption DEF Lowered, AtLeast, AtMost

LEMMA SaturatingType ==
  ASSUME NEW a \in Nat, NEW b \in Nat
  PROVE  SaturatingTimes(a, b) \in Nat /\ (~MultiplyOverflows(a, b) => SaturatingTimes(a, b) = a * b)
<1>1. PICK m \in Nat : m = a * b
  OBVIOUS
<1>2. QED
  BY <1>1, WidthAssumption DEF SaturatingTimes

LEMMA PremiumIs ==
  ASSUME NEW base \in U64, NEW supply \in U64, NEW demand \in U64, demand > supply
  PROVE  /\ Premium(base, supply, demand) \in Nat
         /\ Exact(base, supply, demand) =>
              Premium(base, supply, demand) = (BaseValue(base) * (demand - supply)) \div demand
<1> DEFINE B == BaseValue(base)
           gap == demand - supply
<1>1. /\ B \in Nat /\ gap \in Nat /\ demand \in Nat \ {0} /\ AtLeast(demand, 1) = demand
  BY BaseIsPositive, WidthAssumption DEF U64, AtLeast
<1>2. Exact(base, supply, demand) => ~MultiplyOverflows(B, gap)
  BY DEF Exact
<1>3. Premium(base, supply, demand) = SaturatingTimes(B, gap) \div demand
  BY <1>1 DEF Premium
<1> HIDE DEF B, gap
<1>4. SaturatingTimes(B, gap) \in Nat /\ (~MultiplyOverflows(B, gap) => SaturatingTimes(B, gap) = B * gap)
  BY <1>1, SaturatingType
<1>5. Premium(base, supply, demand) \in Nat
  BY <1>1, <1>3, <1>4, QuotientOf
<1>6. QED
  BY <1>2, <1>3, <1>4, <1>5 DEF B, gap

LEMMA DiscountIs ==
  ASSUME NEW base \in U64, NEW supply \in U64, NEW demand \in U64, supply > demand
  PROVE  /\ Discount(base, supply, demand) \in Nat
         /\ Exact(base, supply, demand) =>
              Discount(base, supply, demand) = (BaseValue(base) * (supply - demand)) \div supply
<1> DEFINE B == BaseValue(base)
           gap == supply - demand
<1>1. /\ B \in Nat /\ gap \in Nat /\ supply \in Nat \ {0} /\ ~(demand > supply)
  BY BaseIsPositive, WidthAssumption DEF U64
<1>2. Exact(base, supply, demand) => ~MultiplyOverflows(B, gap)
  BY <1>1 DEF Exact
<1>3. Discount(base, supply, demand) = SaturatingTimes(B, gap) \div supply
  BY DEF Discount
<1> HIDE DEF B, gap
<1>4. SaturatingTimes(B, gap) \in Nat /\ (~MultiplyOverflows(B, gap) => SaturatingTimes(B, gap) = B * gap)
  BY <1>1, SaturatingType
<1>5. Discount(base, supply, demand) \in Nat
  BY <1>1, <1>3, <1>4, QuotientOf
<1>6. QED
  BY <1>2, <1>3, <1>4, <1>5 DEF B, gap

(* On which side of the base value a price lies.                           *)
LEMMA PriceSides ==
  ASSUME NEW base \in U64, NEW supply \in U64, NEW demand \in U64
  PROVE  /\ Price(base, supply, demand) \in 1 .. MaxU64
         /\ demand >= supply => Price(base, supply, demand) >= BaseValue(base)
         /\ supply >= demand => Price(base, supply, demand) <= BaseValue(base)
         /\ demand > supply => Price(base, supply, demand) > BaseValue(base) \/ Price(base, supply, demand) = MaxU64
         /\ demand = supply => Price(base, supply, demand) = BaseValue(base)
<1> DEFINE B == BaseValue(base)
<1>1. B \in 1 .. MaxU64 /\ supply \in Nat /\ demand \in Nat /\ MaxU64 \in Nat
  BY BaseIsPositive, WidthAssumption DEF U64
<1>2. CASE demand > supply
  <2>1. Price(base, supply, demand) = Raised(B, Premium(base, supply, demand))
    BY <1>2, PriceIs
  <2>2. Premium(base, supply, demand) \in Nat
    BY <1>2, PremiumIs
  <2> HIDE DEF B
  <2>3. /\ Price(base, supply, demand) \in B .. MaxU64
        /\ Price(base, supply, demand) > B \/ Price(base, supply, demand) = MaxU64
    BY <1>1, <2>1, <2>2, RaisedIs
  <2>4. QED
    BY <1>1, <1>2, <2>3 DEF B
<1>3. CASE supply > demand
  <2>1. Price(base, supply, demand) = Lowered(B, Discount(base, supply, demand))
    BY <1>3, PriceIs
  <2>2. Discount(base, supply, demand) \in Nat
    BY <1>3, DiscountIs
  <2> HIDE DEF B
  <2>3. Price(base, supply, demand) \in 1 .. B
    BY <1>1, <2>1, <2>2, LoweredIs
  <2>4. QED
    BY <1>1, <1>3, <2>3 DEF B
<1>4. CASE supply = demand
  <2>1. Price(base, supply, demand) = B
    BY <1>4, PriceIs
  <2>2. QED
    BY <1>1, <1>4, <2>1
<1>5. QED
  BY <1>1, <1>2, <1>3, <1>4

LEMMA PricesInRange ==
  ASSUME NEW base \in U64, NEW supply \in U64, NEW demand \in U64
  PROVE  PriceInRange(base, supply, demand)
<1>1. supply \in Nat /\ demand \in Nat
  BY WidthAssumption DEF U64
<1>2. /\ Pressure(supply, demand) = "balanced" => demand = supply
      /\ Pressure(supply, demand) = "surplus" => supply >= demand
      /\ Pressure(supply, demand) \in {"shortage", "depleted"} => demand > supply
  BY <1>1 DEF Pressure
<1>3. QED
  BY <1>2, PriceSides DEF PriceInRange

(* More supply does not make it dearer.                                    *)
LEMMA SupplyCheapens ==
  ASSUME NEW base \in U64, NEW supply \in U64, NEW demand \in U64, NEW more \in U64,
         more >= supply, Exact(base, supply, demand), Exact(base, more, demand)
  PROVE  Price(base, more, demand) <= Price(base, supply, demand)
<1> DEFINE B == BaseValue(base)
<1>1. B \in 1 .. MaxU64 /\ B \in Nat /\ supply \in Nat /\ demand \in Nat /\ more \in Nat /\ MaxU64 \in Nat
  BY BaseIsPositive, WidthAssumption DEF U64
<1>2. CASE demand > more
  <2>1. demand > supply
    BY <1>1, <1>2
  <2>2. /\ Premium(base, more, demand) = (B * (demand - more)) \div demand
        /\ Premium(base, supply, demand) = (B * (demand - supply)) \div demand
        /\ Premium(base, more, demand) \in Nat /\ Premium(base, supply, demand) \in Nat
    BY <1>2, <2>1, PremiumIs
  <2>3. /\ Price(base, more, demand) = Raised(B, Premium(base, more, demand))
        /\ Price(base, supply, demand) = Raised(B, Premium(base, supply, demand))
    BY <1>2, <2>1, PriceIs
  <2> HIDE DEF B
  <2>4. demand - more \in Nat /\ demand - supply \in Nat /\ demand - more <= demand - supply
    BY <1>1, <1>2, <2>1
  <2>5. B * (demand - more) <= B * (demand - supply)
    BY <1>1, <2>4, ProductsGrow
  <2>6. Premium(base, more, demand) <= Premium(base, supply, demand)
    BY <1>1, <1>2, <2>2, <2>4, <2>5, SharesOfOne
  <2>7. QED
    BY <1>1, <2>2, <2>3, <2>6, RaisedGrows
<1>3. CASE more >= demand /\ demand >= supply
  <2>1. Price(base, more, demand) <= B /\ B <= Price(base, supply, demand)
    BY <1>3, PriceSides
  <2>2. Price(base, more, demand) \in Nat /\ Price(base, supply, demand) \in Nat
    BY <1>1, PriceSides
  <2>3. QED
    BY <1>1, <2>1, <2>2
<1>4. CASE supply > demand
  <2>1. more > demand
    BY <1>1, <1>4
  <2>2. /\ Discount(base, more, demand) = (B * (more - demand)) \div more
        /\ Discount(base, supply, demand) = (B * (supply - demand)) \div supply
        /\ Discount(base, more, demand) \in Nat /\ Discount(base, supply, demand) \in Nat
    BY <1>4, <2>1, DiscountIs
  <2>3. /\ Price(base, more, demand) = Lowered(B, Discount(base, more, demand))
        /\ Price(base, supply, demand) = Lowered(B, Discount(base, supply, demand))
    BY <1>4, <2>1, PriceIs
  <2> HIDE DEF B
  <2>4. supply # 0 /\ demand <= supply /\ supply <= more
    BY <1>1, <1>4
  <2>5. Discount(base, supply, demand) <= Discount(base, more, demand)
    BY <1>1, <2>2, <2>4, SharesGrow
  <2>6. QED
    BY <1>1, <2>2, <2>3, <2>5, LoweredFalls
<1>5. QED
  BY <1>1, <1>2, <1>3, <1>4

(* More demand does not make it cheaper.                                   *)
LEMMA DemandRaises ==
  ASSUME NEW base \in U64, NEW supply \in U64, NEW demand \in U64, NEW more \in U64,
         more >= demand, Exact(base, supply, demand), Exact(base, supply, more)
  PROVE  Price(base, supply, more) >= Price(base, supply, demand)
<1> DEFINE B == BaseValue(base)
<1>1. B \in 1 .. MaxU64 /\ B \in Nat /\ supply \in Nat /\ demand \in Nat /\ more \in Nat /\ MaxU64 \in Nat
  BY BaseIsPositive, WidthAssumption DEF U64
<1>2. CASE supply > more
  <2>1. supply > demand
    BY <1>1, <1>2
  <2>2. /\ Discount(base, supply, more) = (B * (supply - more)) \div supply
        /\ Discount(base, supply, demand) = (B * (supply - demand)) \div supply
        /\ Discount(base, supply, more) \in Nat /\ Discount(base, supply, demand) \in Nat
    BY <1>2, <2>1, DiscountIs
  <2>3. /\ Price(base, supply, more) = Lowered(B, Discount(base, supply, more))
        /\ Price(base, supply, demand) = Lowered(B, Discount(base, supply, demand))
    BY <1>2, <2>1, PriceIs
  <2> HIDE DEF B
  <2>4. supply - more \in Nat /\ supply - demand \in Nat /\ supply - more <= supply - demand
    BY <1>1, <1>2, <2>1
  <2>5. B * (supply - more) <= B * (supply - demand)
    BY <1>1, <2>4, ProductsGrow
  <2>6. Discount(base, supply, more) <= Discount(base, supply, demand)
    BY <1>1, <1>2, <2>2, <2>4, <2>5, SharesOfOne
  <2>7. Lowered(B, Discount(base, supply, demand)) <= Lowered(B, Discount(base, supply, more))
    BY <1>1, <2>2, <2>6, LoweredFalls
  <2>8. Price(base, supply, more) \in Nat /\ Price(base, supply, demand) \in Nat
    BY <1>1, PriceSides
  <2>9. QED
    BY <2>3, <2>7, <2>8
<1>3. CASE more >= supply /\ supply >= demand
  <2>1. Price(base, supply, demand) <= B /\ B <= Price(base, supply, more)
    BY <1>3, PriceSides
  <2>2. Price(base, supply, more) \in Nat /\ Price(base, supply, demand) \in Nat
    BY <1>1, PriceSides
  <2>3. QED
    BY <1>1, <2>1, <2>2
<1>4. CASE demand > supply
  <2>1. more > supply
    BY <1>1, <1>4
  <2>2. /\ Premium(base, supply, more) = (B * (more - supply)) \div more
        /\ Premium(base, supply, demand) = (B * (demand - supply)) \div demand
        /\ Premium(base, supply, more) \in Nat /\ Premium(base, supply, demand) \in Nat
    BY <1>4, <2>1, PremiumIs
  <2>3. /\ Price(base, supply, more) = Raised(B, Premium(base, supply, more))
        /\ Price(base, supply, demand) = Raised(B, Premium(base, supply, demand))
    BY <1>4, <2>1, PriceIs
  <2> HIDE DEF B
  <2>4. demand # 0 /\ supply <= demand /\ demand <= more
    BY <1>1, <1>4
  <2>5. Premium(base, supply, demand) <= Premium(base, supply, more)
    BY <1>1, <2>2, <2>4, SharesGrow
  <2>6. Raised(B, Premium(base, supply, demand)) <= Raised(B, Premium(base, supply, more))
    BY <1>1, <2>2, <2>5, RaisedGrows
  <2>7. Price(base, supply, more) \in Nat /\ Price(base, supply, demand) \in Nat
    BY <1>1, PriceSides
  <2>8. QED
    BY <2>3, <2>6, <2>7
<1>5. QED
  BY <1>1, <1>2, <1>3, <1>4

LEMMA DevelopmentStart ==
  ASSUME DevelopmentInit
  PROVE  SettlementTypeOK /\ demands \in Storages
<1>1. SettlementTypeOK
  BY SettlementStart DEF DevelopmentInit
<1>2. 0 \in U64
  BY WidthAssumption DEF U64
<1>3. QED
  BY <1>1, <1>2 DEF DevelopmentInit, Storages

LEMMA DevelopmentStep ==
  ASSUME demands \in Storages, [DevelopmentNext]_developmentVars
  PROVE  [SettlementNext]_settlementVars /\ demands' \in Storages
<1>1. CASE UNCHANGED developmentVars
  BY <1>1 DEF developmentVars
<1>2. CASE SettlementNext /\ UNCHANGED demands
  BY <1>2
<1>3. ASSUME NEW offer \in DemandOffers, SetDemand(offer[1], offer[2])
      PROVE  [SettlementNext]_settlementVars /\ demands' \in Storages
  <2>1. offer[1] \in Resource /\ offer[2] \in U64
    BY DevelopmentAssumption
  <2>2. QED
    BY <1>3, <2>1 DEF SetDemand, Storages
<1>4. QED
  BY <1>1, <1>2, <1>3 DEF DevelopmentNext

(* A settlement that is advised is a settlement: what is proved of its     *)
(* clock above holds beside a market and its demands as well.              *)
THEOREM DevelopmentIsASettlement == DevelopmentSpec => SettlementSpec
<1>1. DevelopmentInit => SettlementInit /\ demands \in Storages
  BY DevelopmentStart DEF DevelopmentInit
<1>2. demands \in Storages /\ [DevelopmentNext]_developmentVars =>
        [SettlementNext]_settlementVars /\ (demands \in Storages)'
  BY DevelopmentStep
<1>3. QED
  BY <1>1, <1>2, PTL DEF DevelopmentSpec, SettlementSpec

LEMMA QuotesAreSound ==
  ASSUME SettlementTypeOK, demands \in Storages
  PROVE  PriceFollowsScarcity
<1> SUFFICES ASSUME NEW r \in DOMAIN Quoted
             PROVE  /\ Quoted[r].price = Price(Quoted[r].base, Quoted[r].supply, Quoted[r].demand)
                    /\ PriceInRange(Quoted[r].base, Quoted[r].supply, Quoted[r].demand)
                    /\ PriceIsMonotone(Quoted[r].base, Quoted[r].supply, Quoted[r].demand)
  BY DEF PriceFollowsScarcity
<1>1. r \in Resource /\ Quoted[r] = [supply |-> storage[r], demand |-> demands[r], base |-> BaseValue(Bases[r]),
                                     price |-> Price(Bases[r], storage[r], demands[r])]
  BY DevelopmentAssumption DEF Quoted, Quotes
<1>2. storage[r] \in U64 /\ demands[r] \in U64 /\ Bases[r] \in U64
  BY <1>1, DevelopmentAssumption DEF SettlementTypeOK, Storages
<1>3. BaseValue(Bases[r]) \in U64 /\ BaseValue(BaseValue(Bases[r])) = BaseValue(Bases[r])
  BY <1>2, WidthAssumption DEF BaseValue, AtLeast, U64
<1>4. Price(BaseValue(Bases[r]), storage[r], demands[r]) = Price(Bases[r], storage[r], demands[r])
  BY <1>3 DEF Price, Premium, Discount
<1>5. PriceInRange(BaseValue(Bases[r]), storage[r], demands[r])
  BY <1>2, <1>3, PricesInRange
<1>6. PriceIsMonotone(BaseValue(Bases[r]), storage[r], demands[r])
  BY <1>2, <1>3, SupplyCheapens, DemandRaises DEF PriceIsMonotone
<1>7. QED
  BY <1>1, <1>4, <1>5, <1>6

(* Every price a settlement's market quotes, for every width, base value,  *)
(* stock and demand: never 0, on the side of the base value its pressure   *)
(* says, and monotone in supply and demand although calculate_price rounds,*)
(* until a product saturates.                                              *)
THEOREM PricesFollowScarcity == DevelopmentSpec => []PriceFollowsScarcity
<1>1. DevelopmentInit => SettlementTypeOK /\ demands \in Storages
  BY DevelopmentStart
<1>2. SettlementTypeOK /\ demands \in Storages /\ [DevelopmentNext]_developmentVars =>
        (SettlementTypeOK /\ demands \in Storages)'
  BY DevelopmentStep, SettlementStep
<1>3. SettlementTypeOK /\ demands \in Storages => PriceFollowsScarcity
  BY QuotesAreSound
<1>4. QED
  BY <1>1, <1>2, <1>3, PTL DEF DevelopmentSpec

-----------------------------------------------------------------------------
(* What the plan adds up.                                                  *)

(* What a kind of building draws of a resource in a day, a worker at it.   *)
Draws(b, r) == Cardinality(Places(Definitions[b].inputs, r))

LEMMA DrawsType ==
  ASSUME NEW b \in BuildingId, NEW r
  PROVE  Draws(b, r) \in Nat
<1>1. PICK inputs \in Seq(Resource) : inputs = Definitions[b].inputs
  BY SettlementAssumption DEF BuildingDefinitions
<1>2. QED
  BY <1>1, PlacesCount DEF Draws

LEMMA KnownAre ==
  ASSUME SettlementTypeOK
  PROVE  /\ IsFiniteSet(Known) /\ Known \subseteq 1 .. Len(buildings)
         /\ \A k \in 1 .. Len(buildings) : buildings[k] \in BuildingInstances
         /\ \A k \in Known : /\ buildings[k].definition \in Kinds
                             /\ buildings[k].definition \in BuildingId
                             /\ buildings[k].workers \in U64
<1>1. buildings \in Seq(BuildingInstances) /\ DOMAIN buildings = 1 .. Len(buildings)
  BY DEF SettlementTypeOK
<1>2. Known \subseteq 1 .. Len(buildings)
  BY <1>1 DEF Known
<1>3. IsFiniteSet(Known)
  <2>1. PICK N \in Nat : N = Len(buildings)
    <3>1. Len(buildings) \in Nat
      BY <1>1
    <3>2. QED
      BY <3>1
  <2>2. IsFiniteSet(1 .. N)
    BY UpTo
  <2>3. QED
    BY <1>2, <2>1, <2>2, FS_Subset
<1>4. \A k \in 1 .. Len(buildings) : buildings[k] \in BuildingInstances
  BY <1>1
<1>5. ASSUME NEW k \in Known
      PROVE  /\ buildings[k].definition \in Kinds /\ buildings[k].definition \in BuildingId
             /\ buildings[k].workers \in U64
  <2>1. k \in DOMAIN buildings /\ buildings[k].definition # Unregistered /\ buildings[k] \in BuildingInstances
    BY <1>1, <1>2, <1>4 DEF Known
  <2>2. buildings[k].definition \in Kinds
    BY <2>1 DEF Kinds
  <2>3. QED
    BY <2>1, <2>2 DEF BuildingInstances
<1>6. QED
  BY <1>2, <1>3, <1>4, <1>5

LEMMA UsesAreDraws ==
  ASSUME NEW k, NEW r
  PROVE  Uses(k, r) = Draws(buildings[k].definition, r)
BY DEF Uses, Draws, Definition, Places

(* What the known buildings draw in a day, building by building.           *)
Wants(r) == [k \in Known |-> buildings[k].workers * Uses(k, r)]

LEMMA WantsType ==
  ASSUME SettlementTypeOK, NEW r
  PROVE  Wants(r) \in [Known -> Nat]
<1>1. ASSUME NEW k \in Known PROVE buildings[k].workers * Uses(k, r) \in Nat
  <2>1. PICK w \in Nat : w = buildings[k].workers
    BY KnownAre DEF U64
  <2>2. PICK u \in Nat : u = Uses(k, r)
    BY KnownAre, UsesAreDraws, DrawsType
  <2>3. QED
    BY <2>1, <2>2
<1>2. QED
  BY <1>1 DEF Wants

LEMMA NeedsAddUp ==
  ASSUME SettlementTypeOK, NEW r
  PROVE  \E f \in [SUBSET Known -> Nat] :
           /\ IsSum(f, Known, Wants(r))
           /\ ExactDailyNeed(r) = (IF r = Food THEN FoodNeeded ELSE 0) + f[Known]
<1> DEFINE Eq(f) == f = [S \in SUBSET Known |->
                           IF S = {} THEN 0
                           ELSE buildings[AnyOf(S)].workers * Uses(AnyOf(S), r) + f[S \ {AnyOf(S)}]]
           sum == CHOOSE f : Eq(f)
           need == MapThenSumSet(LAMBDA k : buildings[k].workers * Uses(k, r), Known)
<1>1. need = sum[Known]
  BY Zenon DEF MapThenSumSet, MapThenFoldSet, AnyOf
<1>2. ExactDailyNeed(r) = (IF r = Food THEN FoodNeeded ELSE 0) + need
  BY Zenon DEF ExactDailyNeed
<1> HIDE DEF need
<1>3. IsFiniteSet(Known) /\ Wants(r) \in [Known -> Nat]
  BY KnownAre, WantsType
<1>4. ASSUME NEW S \in SUBSET Known, S # {}
      PROVE  Wants(r)[AnyOf(S)] = buildings[AnyOf(S)].workers * Uses(AnyOf(S), r)
  <2>1. PICK a \in Known : a = AnyOf(S)
    BY <1>4, AnyOfIsIn
  <2>2. Wants(r)[a] = buildings[a].workers * Uses(a, r)
    BY DEF Wants
  <2>3. QED
    BY <2>1, <2>2
<1>5. ASSUME NEW f PROVE Eq(f) <=> IsSum(f, Known, Wants(r))
  BY <1>4, Zenon DEF IsSum
<1>6. \E f : IsSum(f, Known, Wants(r))
  BY <1>3, SumExists
<1> HIDE DEF Eq
<1>7. Eq(sum)
  BY <1>5, <1>6, Zenon
<1>8. IsSum(sum, Known, Wants(r))
  BY <1>5, <1>7, Zenon
<1> HIDE DEF sum
<1>9. sum \in [SUBSET Known -> Nat]
  BY <1>3, <1>8, SumType
<1>10. QED
  BY <1>1, <1>2, <1>8, <1>9

-----------------------------------------------------------------------------
(* The same, kind by kind.                                                 *)

(* A sum of nothing.                                                       *)
LEMMA SumOfNone ==
  ASSUME NEW D, IsFiniteSet(D), NEW w \in [D -> Nat], NEW f \in [SUBSET D -> Nat], IsSum(f, D, w),
         \A d \in D : w[d] = 0
  PROVE  f[D] = 0
<1> DEFINE P == {S \in SUBSET D : f[S] = 0}
<1>1. \A S \in SUBSET D : f[S] = IF S = {} THEN 0 ELSE w[AnyOf(S)] + f[S \ {AnyOf(S)}]
  BY DEF IsSum
<1>2. {} \in P
  BY <1>1
<1>3. ASSUME NEW S \in SUBSET D, S # {}, S \ {AnyOf(S)} \in P PROVE S \in P
  <2>1. AnyOf(S) \in D
    BY <1>3, AnyOfIsIn
  <2>2. w[AnyOf(S)] = 0 /\ f[S \ {AnyOf(S)}] = 0
    BY <1>3, <2>1
  <2>3. f[S] = 0
    BY <1>1, <1>3, <2>2
  <2>4. QED
    BY <2>3
<1> HIDE DEF P
<1>4. \A S \in SUBSET D : S \in P
  BY <1>2, <1>3, SetInduction
<1>5. QED
  BY <1>4 DEF P

LEMMA TotalIsNumber ==
  ASSUME buildings \in Seq(BuildingInstances), NEW w \in [Kinds -> Nat]
  PROVE  Total(w) \in Nat
<1>1. PICK f \in [SUBSET Kinds -> Nat] : Total(w) = f[Kinds]
  BY TotalIs
<1>2. f[Kinds] \in Nat
  OBVIOUS
<1>3. QED
  BY <1>1, <1>2

LEMMA TotalOfNone ==
  ASSUME buildings \in Seq(BuildingInstances), NEW w \in [Kinds -> Nat], \A b \in Kinds : w[b] = 0
  PROVE  Total(w) = 0
<1>1. PICK f \in [SUBSET Kinds -> Nat] : IsSum(f, Kinds, w) /\ Total(w) = f[Kinds]
  BY TotalIs
<1>2. IsFiniteSet(Kinds)
  BY KindsAre
<1>3. f[Kinds] = 0
  BY <1>1, <1>2, SumOfNone
<1>4. QED
  BY <1>1, <1>3

LEMMA TotalShrinks ==
  ASSUME buildings \in Seq(BuildingInstances), NEW w \in [Kinds -> Nat], NEW v \in [Kinds -> Nat],
         \A b \in Kinds : v[b] <= w[b]
  PROVE  Total(v) <= Total(w)
<1>1. PICK f \in [SUBSET Kinds -> Nat] : IsSum(f, Kinds, w) /\ Total(w) = f[Kinds]
  BY TotalIs
<1>2. PICK g \in [SUBSET Kinds -> Nat] : IsSum(g, Kinds, v) /\ Total(v) = g[Kinds]
  BY TotalIs
<1>3. IsFiniteSet(Kinds)
  BY KindsAre
<1>4. g[Kinds] <= f[Kinds]
  BY <1>1, <1>2, <1>3, SumShrinks
<1>5. QED
  BY <1>1, <1>2, <1>4

LEMMA TotalCovers ==
  ASSUME buildings \in Seq(BuildingInstances), NEW w \in [Kinds -> Nat], NEW b \in Kinds
  PROVE  w[b] <= Total(w) /\ Total(w) \in Nat
<1> DEFINE v == [c \in Kinds |-> IF c = b THEN 0 ELSE w[c]]
<1>1. v \in [Kinds -> Nat] /\ v[b] = 0 /\ \A c \in Kinds : c # b => v[c] = w[c]
  OBVIOUS
<1> HIDE DEF v
<1>2. Total(v) + w[b] = Total(w) + v[b]
  BY <1>1, TotalChanges
<1>3. Total(v) \in Nat /\ Total(w) \in Nat /\ w[b] \in Nat
  BY <1>1, TotalIsNumber
<1>4. QED
  BY <1>1, <1>2, <1>3

(* The workers of a kind of building, place by place and up to a place.    *)
HandsIn(b) == [n \in 1 .. Len(buildings) |-> IF buildings[n].definition = b THEN Hands(buildings[n]) ELSE 0]

HandsTo(b) == CHOOSE g : IsTotal(g, Len(buildings), HandsIn(b))

LEMMA HandsToIs ==
  ASSUME buildings \in Seq(BuildingInstances), NEW b
  PROVE  /\ HandsIn(b) \in [1 .. Len(buildings) -> Nat]
         /\ HandsTo(b) \in [0 .. Len(buildings) -> Nat]
         /\ IsTotal(HandsTo(b), Len(buildings), HandsIn(b))
         /\ HandsTo(b)[0] = 0
         /\ \A n \in 1 .. Len(buildings) : HandsTo(b)[n] = HandsTo(b)[n - 1] + HandsIn(b)[n]
         /\ \A n \in 0 .. Len(buildings) : HandsTo(b)[n] <= HandsTo(b)[Len(buildings)]
<1>1. PICK N \in Nat : N = Len(buildings)
  OBVIOUS
<1>2. \A n \in 1 .. N : buildings[n] \in BuildingInstances
  BY <1>1
<1>3. \A n \in 1 .. N : Hands(buildings[n]) \in Nat
  BY <1>2, HandsAre DEF U64
<1>4. HandsIn(b) \in [1 .. N -> Nat]
  BY <1>1, <1>3 DEF HandsIn
<1> DEFINE w == HandsIn(b)
           g == CHOOSE g : IsTotal(g, N, w)
<1>5. w \in [1 .. N -> Nat]
  BY <1>4
<1> HIDE DEF w
<1>6. \E h : IsTotal(h, N, w)
  BY <1>5, TotalExists
<1>7. IsTotal(g, N, w)
  BY <1>6, Zenon
<1> HIDE DEF g
<1>8. g \in [0 .. N -> Nat]
  BY <1>5, <1>7, TotalIsNat
<1>9. \A n \in 0 .. N : g[n] <= g[N]
  BY <1>5, <1>7, <1>8, TotalIsRising
<1>10. g[0] = 0 /\ \A n \in 1 .. N : g[n] = g[n - 1] + w[n]
  BY <1>7 DEF IsTotal
<1>11. HandsTo(b) = g
  BY <1>1 DEF HandsTo, g, w
<1>12. QED
  BY <1>1, <1>5, <1>7, <1>8, <1>9, <1>10, <1>11 DEF w

KindWants(r, n, days) == [b \in Kinds |-> Draws(b, r) * (HandsTo(b)[n] * days)]

LEMMA KindWantsType ==
  ASSUME buildings \in Seq(BuildingInstances), NEW r, NEW n \in 0 .. Len(buildings), NEW days \in Nat
  PROVE  KindWants(r, n, days) \in [Kinds -> Nat]
<1>1. ASSUME NEW b \in Kinds PROVE Draws(b, r) * (HandsTo(b)[n] * days) \in Nat
  <2>1. PICK d \in Nat : d = Draws(b, r)
    BY KindsAre, DrawsType
  <2>2. PICK h \in Nat : h = HandsTo(b)[n]
    BY HandsToIs
  <2>3. QED
    BY <2>1, <2>2
<1>2. QED
  BY <1>1 DEF KindWants

LEMMA MoreHands ==
  ASSUME NEW d \in Nat, NEW x \in Nat, NEW h \in Nat, NEW days \in Nat
  PROVE  /\ d * ((x + h) * days) = d * (x * days) + d * (h * days)
         /\ d * (h * days) = (h * d) * days
         /\ d * (h * days) \in Nat
<1>1. PICK a \in Nat, b \in Nat : a = x * days /\ b = h * days
  OBVIOUS
<1>2. (x + h) * days = a + b
  BY <1>1
<1>3. d * (a + b) = d * a + d * b
  OBVIOUS
<1>4. d * (h * days) = (h * d) * days
  OBVIOUS
<1>5. QED
  BY <1>1, <1>2, <1>3, <1>4

LEMMA KindsWantNoMore ==
  ASSUME SettlementTypeOK, NEW r, NEW days \in Nat,
         NEW f \in [SUBSET Known -> Nat], IsSum(f, Known, Wants(r))
  PROVE  Total(KindWants(r, Len(buildings), days)) <= f[Known] * days
<1>1. buildings \in Seq(BuildingInstances)
  BY DEF SettlementTypeOK
<1>2. PICK N \in Nat : N = Len(buildings)
  BY <1>1
<1>3. /\ Known \subseteq 1 .. N /\ \A n \in 1 .. N : buildings[n] \in BuildingInstances
      /\ Wants(r) \in [Known -> Nat]
  BY <1>2, KnownAre, WantsType
<1> DEFINE v == [n \in 1 .. N |-> IF n \in Known THEN Wants(r)[n] ELSE 0]
<1>4. /\ v \in [1 .. N -> Nat] /\ Spread(v, N, Known, Wants(r))
      /\ \A n \in 1 .. N : v[n] = IF n \in Known THEN Wants(r)[n] ELSE 0
  BY <1>3 DEF Spread
<1> HIDE DEF v
<1>5. PICK g \in [0 .. N -> Nat] : IsTotal(g, N, v)
  BY <1>4, TotalExists
<1>6. g[N] = f[Known]
  <2>1. PICK D, w : D = Known /\ w = Wants(r)
    OBVIOUS
  <2>2. /\ D \subseteq 1 .. N /\ w \in [D -> Nat] /\ f \in [SUBSET D -> Nat] /\ IsSum(f, D, w)
        /\ Spread(v, N, D, w)
    BY <1>3, <1>4, <2>1
  <2>3. g[N] = f[D]
    BY ONLY <1>2, <1>5, <2>2, SumOfPlaces
  <2>4. QED
    BY <2>1, <2>3
<1>7. g[0] = 0 /\ \A n \in 1 .. N : g[n] = g[n - 1] + v[n]
  BY <1>5 DEF IsTotal
<1> DEFINE T == {n \in 0 .. N : Total(KindWants(r, n, days)) <= g[n] * days}
<1>8. 0 \in T
  <2>1. KindWants(r, 0, days) \in [Kinds -> Nat]
    BY <1>1, <1>2, KindWantsType
  <2>2. ASSUME NEW b \in Kinds PROVE KindWants(r, 0, days)[b] = 0
    <3>1. HandsTo(b)[0] = 0
      BY <1>1, HandsToIs
    <3>2. PICK d \in Nat : d = Draws(b, r)
      BY <1>1, KindsAre, DrawsType
    <3>3. d * (0 * days) = 0
      OBVIOUS
    <3>4. QED
      BY <3>1, <3>2, <3>3 DEF KindWants
  <2>3. Total(KindWants(r, 0, days)) = 0
    BY <1>1, <2>1, <2>2, TotalOfNone
  <2>4. g[0] * days = 0
    BY <1>7
  <2>5. QED
    BY <2>3, <2>4
<1>9. ASSUME NEW n \in 1 .. N, n - 1 \in T PROVE n \in T
  <2>1. n \in 0 .. N /\ n - 1 \in 0 .. N
    OBVIOUS
  <2>2. PICK old \in [Kinds -> Nat] : old = KindWants(r, n - 1, days)
    BY <1>1, <1>2, <2>1, KindWantsType
  <2>3. PICK new \in [Kinds -> Nat] : new = KindWants(r, n, days)
    BY <1>1, <1>2, <2>1, KindWantsType
  <2>4. ASSUME NEW b \in Kinds, b # buildings[n].definition PROVE new[b] = old[b]
    <3>1. HandsTo(b)[n] = HandsTo(b)[n - 1] + HandsIn(b)[n] /\ HandsTo(b)[n - 1] \in Nat
      BY <1>1, <1>2, <2>1, HandsToIs
    <3>2. HandsIn(b)[n] = 0
      BY <1>2, <2>4 DEF HandsIn
    <3>3. HandsTo(b)[n] = HandsTo(b)[n - 1]
      BY <3>1, <3>2
    <3>4. QED
      BY <2>2, <2>3, <3>3 DEF KindWants
  <2>5. Total(old) <= g[n - 1] * days /\ g[n - 1] \in Nat /\ v[n] \in Nat
    BY <1>4, <1>9, <2>1, <2>2
  <2>6. CASE n \notin Known
    <3>1. buildings[n].definition = Unregistered
      BY <1>1, <1>2, <2>6 DEF Known
    <3>2. \A b \in Kinds : new[b] = old[b]
      BY <2>4, <3>1 DEF Kinds
    <3>3. new = old
      BY <3>2
    <3>4. g[n] = g[n - 1]
      BY <1>4, <1>7, <2>5, <2>6
    <3>5. QED
      BY <2>1, <2>2, <2>3, <2>5, <3>3, <3>4
  <2>7. CASE n \in Known
    <3>1. PICK b \in Kinds : b = buildings[n].definition /\ b \in BuildingId
      BY <2>7, KnownAre
    <3>2. Total(new) + old[b] = Total(old) + new[b]
      BY <1>1, <2>4, <3>1, TotalChanges
    <3>3. PICK d \in Nat : d = Draws(b, r)
      BY <3>1, DrawsType
    <3>4. PICK x \in Nat : x = HandsTo(b)[n - 1]
      BY <1>1, <1>2, <2>1, HandsToIs
    <3>5. PICK h \in Nat : h = Hands(buildings[n]) /\ h <= buildings[n].workers
      <4>1. Hands(buildings[n]) \in U64 /\ Hands(buildings[n]) <= buildings[n].workers
        BY <1>3, HandsAre
      <4>2. QED
        BY <4>1 DEF U64
    <3>6. PICK w \in Nat : w = buildings[n].workers
      BY <2>7, KnownAre DEF U64
    <3>7. HandsTo(b)[n] = x + h
      <4>1. HandsTo(b)[n] = HandsTo(b)[n - 1] + HandsIn(b)[n]
        BY <1>1, <1>2, HandsToIs
      <4>2. HandsIn(b)[n] = h
        BY <1>2, <3>1, <3>5 DEF HandsIn
      <4>3. QED
        BY <3>4, <4>1, <4>2
    <3>8. old[b] = d * (x * days) /\ new[b] = d * ((x + h) * days)
      BY <2>2, <2>3, <3>3, <3>4, <3>7 DEF KindWants
    <3>9. PICK e \in Nat : e = d * (h * days)
      BY MoreHands
    <3>10. new[b] = old[b] + e /\ e = (h * d) * days
      BY <3>8, <3>9, MoreHands
    <3>11. v[n] = w * d
      <4>1. Wants(r)[n] = buildings[n].workers * Uses(n, r)
        BY <2>7 DEF Wants
      <4>2. Uses(n, r) = d
        BY <3>1, <3>3, UsesAreDraws
      <4>3. QED
        BY <1>4, <2>7, <3>6, <4>1, <4>2
    <3>12. e <= v[n] * days
      <4>1. d * h <= d * w /\ h * d <= w * d
        BY <3>5, <3>6, ProductsGrow
      <4>2. PICK y \in Nat, z \in Nat : y = h * d /\ z = w * d
        OBVIOUS
      <4>3. y * days <= z * days
        BY <4>1, <4>2, ProductsGrow
      <4>4. QED
        BY <3>10, <3>11, <4>2, <4>3
    <3>13. g[n] * days = g[n - 1] * days + v[n] * days
      BY <1>7, <2>5
    <3>14. PICK y \in Nat, z \in Nat : y = g[n - 1] * days /\ z = v[n] * days
      BY <2>5
    <3>15. Total(old) \in Nat /\ Total(new) \in Nat /\ old[b] \in Nat
      BY <1>1, TotalIsNumber
    <3>16. Total(new) <= g[n] * days
      <4>1. Total(new) + old[b] = Total(old) + (old[b] + e)
        BY <3>2, <3>10
      <4>2. Total(new) = Total(old) + e
        <5>1. PICK m \in Nat, k \in Nat, o \in Nat : m = Total(new) /\ k = Total(old) /\ o = old[b]
          BY <3>15
        <5>2. m + o = k + (o + e)
          BY <4>1, <5>1
        <5>3. m = k + e
          BY <5>2
        <5>4. QED
          BY <5>1, <5>3
      <4>3. Total(old) <= y /\ e <= z
        BY <2>5, <3>12, <3>14
      <4>4. g[n] * days = y + z
        BY <3>13, <3>14
      <4>5. QED
        BY <3>15, <4>2, <4>3, <4>4
    <3>17. QED
      BY <2>1, <2>3, <3>16
  <2>8. QED
    BY <2>6, <2>7
<1> HIDE DEF T
<1>10. \A n \in 0 .. N : n \in T
  BY <1>8, <1>9, BoundedInduction
<1>11. N \in T
  BY <1>10
<1>12. QED
  BY <1>2, <1>6, <1>11 DEF T

-----------------------------------------------------------------------------
(* What a building, and a meal, take of the stores at most.                *)

LEMMA ScaledAtMost ==
  ASSUME NEW rest \in Rests, NEW key \in Keys, NEW perDay \in U64, NEW ticks \in Nat
  PROVE  TicksPerDay * Scaled(rest, key, perDay, ticks).units + Scaled(rest, key, perDay, ticks).rest[key]
           <= rest[key] + perDay * ticks
<1> DEFINE due == Scaled(rest, key, perDay, ticks)
<1>1. PICK c \in 0 .. TicksPerDay - 1 : c = rest[key]
  BY DEF Rests
<1>2. PICK p \in Nat : p = perDay * ticks
  BY DEF U64
<1>3. c \in Nat
  BY TicksPerDayPositive
<1>4. PICK n \in Nat : n = Numerator(rest, key, perDay, ticks) /\ n <= c + p
  <2>1. PICK m \in Nat : m = SaturatingMultiply(perDay, ticks) /\ m <= p
    BY <1>2, TicksPerDayPositive DEF SaturatingMultiply, MultiplyOverflows
  <2>2. SaturatingAdd(c, m) \in Nat /\ SaturatingAdd(c, m) <= c + m
    BY <1>3, <2>1, TicksPerDayPositive DEF SaturatingAdd, CanAdd
  <2>3. Numerator(rest, key, perDay, ticks) = SaturatingAdd(c, m)
    BY <1>1, <2>1 DEF Numerator
  <2>4. QED
    BY <1>2, <1>3, <2>1, <2>2, <2>3
<1>5. CASE perDay = 0 \/ ticks = 0
  <2>1. due.units = 0 /\ due.rest = rest
    BY <1>5, ScaledIs
  <2>2. TicksPerDay * 0 = 0
    BY TicksPerDayPositive
  <2> HIDE DEF due
  <2>3. TicksPerDay * due.units + due.rest[key] <= c + p
    BY <1>1, <1>2, <1>3, <2>1, <2>2
  <2>4. QED
    BY <1>1, <1>2, <2>3 DEF due
<1>6. CASE ~(perDay = 0 \/ ticks = 0)
  <2>1. due.units = n \div TicksPerDay /\ due.rest[key] = n % TicksPerDay
    BY <1>4, <1>6, ScaledIs
  <2>2. TicksPerDay * (n \div TicksPerDay) + (n % TicksPerDay) = n
    BY Divides
  <2> HIDE DEF due
  <2>3. TicksPerDay * due.units + due.rest[key] <= c + p
    BY <1>4, <2>1, <2>2
  <2>4. QED
    BY <1>1, <1>2, <2>3 DEF due
<1>7. QED
  BY <1>5, <1>6

LEMMA CountersSpend ==
  ASSUME NEW rest \in PairedRests, NEW b \in BuildingId, NEW workers \in U64, NEW ticks \in Nat,
         NEW input, input = Scaled(rest, <<"input", b>>, workers, ticks),
         NEW output, output = Scaled(input.rest, <<"output", b>>, workers, ticks)
  PROVE  /\ TicksPerDay * input.units + output.rest[<<"input", b>>] <= rest[<<"input", b>>] + workers * ticks
         /\ \A key \in Keys : key # <<"input", b>> /\ key # <<"output", b>> => output.rest[key] = rest[key]
<1>1. rest \in Rests
  BY DEF PairedRests
<1>2. PICK one \in Keys : one = <<"input", b>>
  BY KeysAreKeys
<1>3. PICK two \in Keys : two = <<"output", b>>
  BY KeysAreKeys
<1>4. one # two
  BY <1>2, <1>3, KeysAreKeys
<1>5. input = Scaled(rest, one, workers, ticks)
  BY <1>2
<1>6. \A other \in Keys : other # one => input.rest[other] = rest[other]
  BY <1>1, <1>5, ScaledIs
<1>7. TicksPerDay * input.units + input.rest[one] <= rest[one] + workers * ticks
  BY <1>1, <1>5, ScaledAtMost
<1>8. PICK mid \in Rests : mid = input.rest
  BY <1>1, <1>5, ScaledIs
<1>9. output = Scaled(mid, two, workers, ticks)
  BY <1>3, <1>8
<1>10. \A other \in Keys : other # two => output.rest[other] = mid[other]
  BY <1>9, ScaledIs
<1>11. output.rest[one] = input.rest[one]
  BY <1>4, <1>8, <1>10
<1>12. \A key \in Keys : key # one /\ key # two => output.rest[key] = rest[key]
  BY <1>6, <1>8, <1>10
<1>13. QED
  BY <1>2, <1>3, <1>7, <1>11, <1>12

LEMMA PlaceMore ==
  ASSUME NEW items \in Seq(Resource), NEW x, NEW k \in 1 .. Len(items)
  PROVE  /\ Cardinality({j \in 1 .. k : items[j] = x}) \in Nat
         /\ Cardinality({j \in 1 .. k - 1 : items[j] = x}) \in Nat
         /\ Cardinality({j \in 1 .. k : items[j] = x}) =
              Cardinality({j \in 1 .. k - 1 : items[j] = x}) + IF items[k] = x THEN 1 ELSE 0
<1> DEFINE Till(n) == {j \in 1 .. n : items[j] = x}
<1>1. k \in Nat /\ k - 1 \in Nat
  OBVIOUS
<1>2. IsFiniteSet(1 .. k) /\ IsFiniteSet(1 .. (k - 1))
  BY <1>1, FS_Interval
<1>3. IsFiniteSet(Till(k)) /\ IsFiniteSet(Till(k - 1))
  <2>1. Till(k) \subseteq 1 .. k /\ Till(k - 1) \subseteq 1 .. (k - 1)
    OBVIOUS
  <2> HIDE DEF Till
  <2>2. QED
    BY <1>2, <2>1, FS_Subset
<1>4. Till(k) = IF items[k] = x THEN Till(k - 1) \cup {k} ELSE Till(k - 1)
  <2>1. \A j \in 1 .. k : j \in 1 .. k - 1 \/ j = k
    OBVIOUS
  <2>2. k \in 1 .. k /\ \A j \in 1 .. k - 1 : j \in 1 .. k
    OBVIOUS
  <2>3. QED
    BY <2>1, <2>2
<1>5. k \notin Till(k - 1)
  OBVIOUS
<1> HIDE DEF Till
<1>6. Cardinality(Till(k)) \in Nat /\ Cardinality(Till(k - 1)) \in Nat
  BY <1>3, FS_CardinalityType
<1>7. Cardinality(Till(k - 1) \cup {k}) = Cardinality(Till(k - 1)) + 1
  BY <1>3, <1>5, FS_AddElement
<1>8. Cardinality(Till(k)) = Cardinality(Till(k - 1)) + IF items[k] = x THEN 1 ELSE 0
  BY <1>4, <1>6, <1>7
<1>9. QED
  BY <1>6, <1>8 DEF Till

(* Inputs take no more than the number of places that list them says.      *)
LEMMA InputsDrawn ==
  ASSUME NEW held \in Storages, NEW inputs \in Seq(Resource), NEW n \in U64, NEW x \in Resource
  PROVE  held[x] <= WithoutInputs(held, inputs, n)[x] + Cardinality(Places(inputs, x)) * n
<1>1. PICK f : TakesInputs(f, held, inputs, n)
  BY InputsUnrolled
<1> DEFINE N == Len(inputs)
           Count(k) == Cardinality({j \in 1 .. k : inputs[j] = x})
           T == {k \in 0 .. N : held[x] <= f[k][x] + Count(k) * n}
<1>2. N \in Nat /\ n \in Nat /\ DOMAIN inputs = 1 .. N /\ \A k \in 1 .. N : inputs[k] \in Resource
  BY DEF U64
<1>3. held[x] \in Nat
  BY DEF Storages, U64
<1>4. \A k \in 0 .. N : f[k] \in Storages /\ f[k][x] \in Nat
  BY <1>1 DEF TakesInputs, Storages, U64
<1>5. 0 \in T
  <2>1. {j \in 1 .. 0 : inputs[j] = x} = {}
    OBVIOUS
  <2>2. Count(0) = 0
    BY <2>1, FS_EmptySet
  <2> HIDE DEF Count
  <2>3. f[0] = held /\ 0 * n = 0
    BY <1>1, <1>2 DEF TakesInputs
  <2>4. held[x] <= f[0][x] + Count(0) * n
    BY <1>3, <2>2, <2>3
  <2>5. QED
    BY <1>2, <2>4
<1>6. ASSUME NEW k \in 1 .. N, k - 1 \in T PROVE k \in T
  <2> DEFINE r == inputs[k]
             h == f[k - 1]
  <2>1. k \in 0 .. N /\ k - 1 \in 0 .. N /\ r \in Resource /\ h \in Storages
    BY <1>2, <1>4
  <2>2. f[k] = AfterInput(h, r, n)
    BY <1>1 DEF TakesInputs
  <2>3. /\ x # r => f[k][x] = h[x]
        /\ h[r] >= n => f[k][r] + n = h[r]
        /\ ~(h[r] >= n) => f[k][r] = h[r]
    BY <2>1, <2>2, AfterInputIs
  <2>4. PICK c \in Nat : c = Count(k - 1)
    BY PlaceMore
  <2>5. Count(k) = c + IF r = x THEN 1 ELSE 0
    BY <2>4, PlaceMore
  <2> HIDE DEF Count
  <2>6. held[x] <= h[x] + c * n
    BY <1>6, <2>4
  <2>7. PICK p \in Nat : p = c * n
    BY <1>2
  <2>8. h[x] \in Nat /\ f[k][x] \in Nat
    BY <1>4, <2>1
  <2>9. CASE x = r
    <3>1. h[x] <= f[k][x] + n
      BY <1>2, <2>3, <2>8, <2>9
    <3>2. Count(k) * n = p + n
      <4>1. (c + 1) * n = c * n + n
        BY <1>2
      <4>2. QED
        BY <2>5, <2>7, <2>9, <4>1
    <3>3. held[x] <= f[k][x] + Count(k) * n
      <4>1. PICK a \in Nat, y \in Nat, z \in Nat : a = held[x] /\ y = h[x] /\ z = f[k][x]
        BY <1>3, <2>8
      <4>2. a <= y + p /\ y <= z + n
        BY <2>6, <2>7, <3>1, <4>1
      <4>3. a <= z + (p + n)
        BY <1>2, <4>2
      <4>4. QED
        BY <3>2, <4>1, <4>3
    <3>4. QED
      BY <2>1, <3>3
  <2>10. CASE x # r
    <3>1. Count(k) = c
      BY <2>5, <2>10
    <3>2. held[x] <= f[k][x] + Count(k) * n
      BY <2>3, <2>6, <2>10, <3>1
    <3>3. QED
      BY <2>1, <3>2
  <2>11. QED
    BY <2>9, <2>10
<1>7. Places(inputs, x) = {j \in 1 .. N : inputs[j] = x}
  BY <1>2 DEF Places
<1> HIDE DEF T
<1>8. \A k \in 0 .. N : k \in T
  BY <1>2, <1>5, <1>6, BoundedInduction
<1>9. N \in T
  BY <1>2, <1>8
<1>10. WithoutInputs(held, inputs, n) = f[N]
  BY <1>1 DEF TakesInputs
<1>11. QED
  BY <1>7, <1>9, <1>10 DEF T

(* Outputs only add, and only room may be wanting.                         *)
LEMMA OutputsAdd ==
  ASSUME NEW held \in Storages, NEW outputs \in Seq(Resource), NEW n \in U64
  PROVE  /\ WithOutputs(held, outputs, n).lost \subseteq {"room"}
         /\ \A x \in Resource : held[x] <= WithOutputs(held, outputs, n).storage[x]
<1>1. PICK f : PutsOutputs(f, held, outputs, n)
  BY OutputsUnrolled
<1> DEFINE N == Len(outputs)
           T == {k \in 0 .. N : f[k].lost \subseteq {"room"} /\ \A x \in Resource : held[x] <= f[k].storage[x]}
<1>2. N \in Nat /\ n \in Nat /\ \A k \in 1 .. N : outputs[k] \in Resource
  BY DEF U64
<1>3. \A x \in Resource : held[x] \in Nat
  BY DEF Storages, U64
<1>4. \A k \in 0 .. N : f[k] \in Losses /\ \A x \in Resource : f[k].storage[x] \in Nat
  BY <1>1 DEF PutsOutputs, Losses, Storages, U64
<1>5. 0 \in T
  <2>1. f[0] = [storage |-> held, lost |-> {}]
    BY <1>1 DEF PutsOutputs
  <2>2. QED
    BY <1>2, <1>3, <2>1
<1>6. ASSUME NEW k \in 1 .. N, k - 1 \in T PROVE k \in T
  <2> DEFINE r == outputs[k]
  <2>1. k \in 0 .. N /\ k - 1 \in 0 .. N /\ r \in Resource
    BY <1>2
  <2>2. PICK m \in Losses : m = f[k - 1]
    BY <1>4, <2>1
  <2>3. f[k] = AfterOutput(m, r, n)
    BY <1>1, <2>2 DEF PutsOutputs
  <2>4. m.storage \in Storages /\ m.storage[r] \in Nat /\ m = [storage |-> m.storage, lost |-> m.lost]
    BY <2>1 DEF Losses, Storages, U64
  <2>5. m.lost \subseteq {"room"} /\ \A x \in Resource : held[x] <= m.storage[x]
    BY <1>6, <2>2
  <2>6. CASE CanPut(m.storage, r, n)
    <3>1. f[k] = [storage |-> Put(m.storage, r, n), lost |-> m.lost]
      BY <2>3, <2>4, <2>6 DEF AfterOutput
    <3>2. m.storage[r] <= Put(m.storage, r, n)[r]
      <4>1. PICK h \in Storages : h = m.storage
        BY <2>4
      <4>2. h[r] \in Nat /\ h[r] <= MaxU64
        BY <2>1, TicksPerDayPositive DEF Storages, U64
      <4>3. h[r] + n <= MaxU64
        BY <1>2, <2>6, <4>1, <4>2, TicksPerDayPositive DEF CanPut, CanAdd
      <4>4. WrapAdd(h[r], n) = h[r] + n
        BY <1>2, <4>2, <4>3, TicksPerDayPositive DEF WrapAdd
      <4>5. Put(h, r, n)[r] = h[r] + n
        BY <2>1, <4>4 DEF Put, Storages
      <4>6. h[r] <= Put(h, r, n)[r]
        BY <1>2, <4>2, <4>5
      <4>7. QED
        BY <4>1, <4>6
    <3>3. \A x \in Resource : x # r => Put(m.storage, r, n)[x] = m.storage[x]
      BY <2>4 DEF Put, Storages
    <3>4. ASSUME NEW x \in Resource PROVE held[x] <= f[k].storage[x]
      <4>1. f[k].storage = Put(m.storage, r, n)
        BY <3>1
      <4>2. f[k].storage[x] \in Nat /\ m.storage[x] \in Nat /\ held[x] \in Nat
        BY <1>3, <1>4, <2>1, <2>2
      <4>3. m.storage[x] <= f[k].storage[x]
        BY <3>2, <3>3, <4>1, <4>2
      <4>4. QED
        BY <2>5, <4>2, <4>3
    <3>5. f[k].lost \subseteq {"room"}
      BY <2>5, <3>1
    <3>6. QED
      BY <2>1, <3>4, <3>5
  <2>7. CASE ~CanPut(m.storage, r, n)
    <3> DEFINE lost == IF n > 0 THEN {"room"} ELSE m.lost
    <3>1. f[k] = [storage |-> m.storage, lost |-> lost]
      BY <2>3, <2>4, <2>7 DEF AfterOutput
    <3>2. lost \subseteq {"room"}
      BY <2>5
    <3> HIDE DEF lost
    <3>3. QED
      BY <2>1, <2>5, <3>1, <3>2
  <2>8. QED
    BY <2>6, <2>7
<1> HIDE DEF T
<1>7. \A k \in 0 .. N : k \in T
  BY <1>2, <1>5, <1>6, BoundedInduction
<1>8. N \in T
  BY <1>2, <1>7
<1>9. WithOutputs(held, outputs, n) = f[N]
  BY <1>1 DEF PutsOutputs
<1>10. QED
  BY <1>8, <1>9 DEF T

(* What a building draws from the stores, if every input it lists is there:*)
(* no more than its counter has earned.                                    *)
Spends(s, after, b, n, earned) ==
  /\ TicksPerDay * n + after.rest[<<"input", b>>] <= s.rest[<<"input", b>>] + earned
  /\ \A key \in Keys : key # <<"input", b>> /\ key # <<"output", b>> => after.rest[key] = s.rest[key]
  /\ HasInputs(s.storage, Definitions[b].inputs, n) =>
       /\ after.short \subseteq s.short \cup {"room"}
       /\ \A r \in Resource : s.storage[r] <= after.storage[r] + Draws(b, r) * n

LEMMA MadeFromInputs ==
  ASSUME NEW held \in Storages, NEW b \in BuildingId, NEW n \in U64,
         NEW made, made = WithOutputs(WithoutInputs(held, Definitions[b].inputs, n), Definitions[b].outputs, n)
  PROVE  /\ made.lost \subseteq {"room"}
         /\ \A r \in Resource : held[r] <= made.storage[r] + Draws(b, r) * n
<1>1. PICK inputs \in Seq(Resource) : inputs = Definitions[b].inputs
  BY SettlementAssumption DEF BuildingDefinitions
<1>2. PICK outputs \in Seq(Resource) : outputs = Definitions[b].outputs
  BY SettlementAssumption DEF BuildingDefinitions
<1>3. PICK left \in Storages : left = WithoutInputs(held, inputs, n)
  BY InputsTaken
<1>4. made = WithOutputs(left, outputs, n) /\ made \in Losses
  BY <1>1, <1>2, <1>3, OutputsPut
<1>5. made.lost \subseteq {"room"} /\ \A r \in Resource : left[r] <= made.storage[r]
  BY <1>4, OutputsAdd
<1>6. ASSUME NEW r \in Resource PROVE held[r] <= made.storage[r] + Draws(b, r) * n
  <2>1. held[r] <= left[r] + Cardinality(Places(inputs, r)) * n
    BY <1>3, InputsDrawn
  <2>2. PICK d \in Nat : d = Draws(b, r) /\ d = Cardinality(Places(inputs, r))
    BY <1>1, PlacesCount DEF Draws
  <2>3. PICK p \in Nat : p = d * n
    BY DEF U64
  <2>4. held[r] \in Nat /\ left[r] \in Nat /\ made.storage[r] \in Nat /\ left[r] <= made.storage[r]
    BY <1>4, <1>5 DEF Losses, Storages, U64
  <2>5. PICK x \in Nat, y \in Nat, z \in Nat : x = held[r] /\ y = left[r] /\ z = made.storage[r]
    BY <2>4
  <2>6. x <= y + p /\ y <= z
    BY <2>1, <2>2, <2>3, <2>4, <2>5
  <2>7. x <= z + p
    BY <2>6
  <2>8. QED
    BY <2>2, <2>3, <2>5, <2>7
<1>7. QED
  BY <1>5, <1>6

LEMMA WorkingSpends ==
  ASSUME NEW s \in LivedStates, NEW building \in BuildingInstances, NEW ticks \in Nat,
         building.definition # Unregistered, NEW after, after = Working(s, building, ticks)
  PROVE  \E n \in Nat : Spends(s, after, building.definition, n, Hands(building) * ticks)
<1>1. /\ s.storage \in Storages /\ s.rest \in PairedRests /\ s.rest \in Rests
      /\ s = [storage |-> s.storage, rest |-> s.rest, short |-> s.short]
  BY DEF LivedStates, PairedRests
<1>2. PICK b \in BuildingId : b = building.definition
  BY DEF BuildingInstances
<1>3. PICK workers \in U64 : workers = Hands(building)
  BY HandsAre
<1>4. workers = AtMost(building.workers, Definitions[b].slots)
  BY <1>2, <1>3 DEF Hands
<1>5. PICK input : input = Scaled(s.rest, <<"input", b>>, workers, ticks)
  OBVIOUS
<1>6. PICK output : output = Scaled(input.rest, <<"output", b>>, workers, ticks)
  OBVIOUS
<1>7. input.units \in U64 /\ output.units = input.units /\ output.rest \in PairedRests
  BY <1>1, <1>5, <1>6, CountersMoveAlike
<1>8. PICK n \in U64 : n = input.units
  BY <1>7
<1>9. n \in Nat /\ workers \in Nat
  BY DEF U64
<1>10. PICK earned \in Nat : earned = workers * ticks
  BY <1>9
<1>11. /\ TicksPerDay * n + output.rest[<<"input", b>>] <= s.rest[<<"input", b>>] + earned
       /\ \A key \in Keys : key # <<"input", b>> /\ key # <<"output", b>> => output.rest[key] = s.rest[key]
  BY <1>1, <1>5, <1>6, <1>8, <1>10, CountersSpend
<1>12. \A r \in Resource : s.storage[r] \in Nat /\ Draws(b, r) \in Nat
  BY <1>1, DrawsType DEF Storages, U64
<1> DEFINE counted == [storage |-> s.storage, rest |-> output.rest, short |-> s.short]
           made == WithOutputs(WithoutInputs(s.storage, Definitions[b].inputs, n), Definitions[b].outputs, n)
           skips == [storage |-> s.storage, rest |-> output.rest, short |-> s.short \cup {"inputs"}]
           works == [counted EXCEPT !.storage = made.storage, !.short = @ \cup made.lost]
<1>13. after = IF workers = 0 THEN s
               ELSE IF n = 0 THEN counted
               ELSE IF ~HasInputs(s.storage, Definitions[b].inputs, n) THEN skips
               ELSE works
  <2>1. after = IF workers = 0 THEN s
                ELSE IF n = 0 THEN [s EXCEPT !.rest = output.rest]
                ELSE IF ~HasInputs(s.storage, Definitions[b].inputs, n)
                THEN [[s EXCEPT !.rest = output.rest] EXCEPT !.short = @ \cup {"inputs"}]
                ELSE [[s EXCEPT !.rest = output.rest] EXCEPT !.storage = made.storage, !.short = @ \cup made.lost]
    BY <1>2, <1>4, <1>5, <1>6, <1>7, <1>8 DEF Working
  <2> HIDE DEF made
  <2>2. [s EXCEPT !.rest = output.rest] = counted
    BY <1>1
  <2>3. [counted EXCEPT !.short = @ \cup {"inputs"}] = skips
    OBVIOUS
  <2>4. QED
    <3> HIDE DEF counted, skips
    <3>1. QED
      BY <2>1, <2>2, <2>3, Zenon
<1>14. CASE workers = 0
  <2>1. after = s
    BY <1>13, <1>14
  <2>2. earned = 0 /\ TicksPerDay * 0 = 0
    BY <1>10, <1>14, TicksPerDayPositive
  <2>3. s.rest[<<"input", b>>] \in Nat
    BY KeysAreKeys, RestsAreSmall
  <2>4. TicksPerDay * 0 + after.rest[<<"input", b>>] <= s.rest[<<"input", b>>] + earned
    BY <2>1, <2>2, <2>3
  <2>5. \A r \in Resource : s.storage[r] <= after.storage[r] + Draws(b, r) * 0
    BY <1>12, <2>1
  <2>6. Spends(s, after, b, 0, earned)
    BY <2>1, <2>4, <2>5 DEF Spends
  <2>7. QED
    BY <1>2, <1>3, <1>10, <2>6
<1>15. CASE workers # 0 /\ n = 0
  <2>1. after = counted
    BY <1>13, <1>15
  <2>2. \A r \in Resource : s.storage[r] <= after.storage[r] + Draws(b, r) * n
    BY <1>12, <1>15, <2>1
  <2>3. Spends(s, after, b, n, earned)
    BY <1>11, <2>1, <2>2 DEF Spends
  <2>4. QED
    BY <1>2, <1>3, <1>9, <1>10, <2>3
<1>16. CASE workers # 0 /\ n # 0
  <2> HIDE DEF counted
  <2>1. after.rest = output.rest
    <3>1. skips.rest = output.rest /\ works.rest = output.rest
      <4> USE DEF counted
      <4>1. QED
        OBVIOUS
    <3> HIDE DEF skips, works
    <3>2. QED
      BY <1>13, <1>16, <3>1
  <2>2. ASSUME HasInputs(s.storage, Definitions[b].inputs, n)
        PROVE  /\ after.short \subseteq s.short \cup {"room"}
               /\ \A r \in Resource : s.storage[r] <= after.storage[r] + Draws(b, r) * n
    <3>1. after = works
      BY <1>13, <1>16, <2>2
    <3>2. made.lost \subseteq {"room"} /\ \A r \in Resource : s.storage[r] <= made.storage[r] + Draws(b, r) * n
      BY <1>1, MadeFromInputs
    <3> HIDE DEF made
    <3>3. PICK lack : lack = counted.short \cup made.lost
      OBVIOUS
    <3>4. after = [counted EXCEPT !.storage = made.storage, !.short = lack]
      BY <3>1, <3>3
    <3>5. ASSUME NEW worked, worked = [counted EXCEPT !.storage = made.storage, !.short = lack]
          PROVE  worked.storage = made.storage /\ worked.short = lack
      BY <3>5 DEF counted
    <3>6. after.storage = made.storage /\ after.short = lack
      BY <3>4, <3>5
    <3>7. counted.short = s.short
      BY DEF counted
    <3>8. after.short \subseteq s.short \cup {"room"}
      BY <3>2, <3>3, <3>6, <3>7
    <3>9. QED
      BY <3>2, <3>6, <3>8
  <2>3. Spends(s, after, b, n, earned)
    BY <1>11, <2>1, <2>2 DEF Spends
  <2>4. QED
    BY <1>2, <1>3, <1>9, <1>10, <2>3
<1>17. QED
  BY <1>14, <1>15, <1>16

-----------------------------------------------------------------------------
(* A stock that covers what the counters still have to earn.               *)

(* What the known kinds will draw of a resource, when their counters stand *)
(* at rest and earn `work' more, and what the people will eat of it.       *)
Calls(rest, work, r) == [b \in Kinds |-> Draws(b, r) * ((rest[<<"input", b>>] + work[b]) \div TicksPerDay)]

Meals(rest, meal, r) == IF r = Food THEN (rest[<<"food", Food>>] + meal) \div TicksPerDay ELSE 0

Stocked(s, work, meal) ==
  \A r \in NeededResources : Total(Calls(s.rest, work, r)) + Meals(s.rest, meal, r) <= s.storage[r]

LEMMA UnitsShared ==
  ASSUME NEW n \in Nat, NEW x \in Nat, NEW y \in Nat, NEW l \in Nat, TicksPerDay * n + y <= x
  PROVE  n + ((y + l) \div TicksPerDay) <= (x + l) \div TicksPerDay
<1>1. PICK T \in Nat : T = TicksPerDay /\ T # 0
  BY TicksPerDayPositive
<1>2. PICK p \in Nat : p = y + l
  OBVIOUS
<1>3. PICK q \in Nat : q = x + l
  OBVIOUS
<1>4. PICK u \in Nat : u = p \div T /\ u * T <= p
  BY <1>1, QuotientOf
<1>5. PICK v \in Nat : v = q \div T /\ q < (v + 1) * T
  BY <1>1, QuotientOf
<1>6. PICK z \in Nat : z = T * n
  BY <1>1
<1>7. z + p <= q
  BY <1>1, <1>2, <1>3, <1>6
<1>8. (n + u) * T = z + u * T
  BY <1>1, <1>6
<1>9. (n + u) * T < (v + 1) * T
  <2>1. PICK a \in Nat, b \in Nat : a = u * T /\ b = (v + 1) * T
    BY <1>1
  <2>2. z + a < b
    BY <1>4, <1>5, <1>7, <2>1
  <2>3. QED
    BY <1>8, <2>1, <2>2
<1>10. n + u < v + 1
  <2>1. SUFFICES ASSUME v + 1 <= n + u PROVE FALSE
    OBVIOUS
  <2>2. PICK a \in Nat, b \in Nat : a = v + 1 /\ b = n + u
    OBVIOUS
  <2>3. a * T <= b * T
    BY <1>1, <2>1, <2>2, ProductsGrow
  <2>4. a * T \in Nat /\ b * T \in Nat
    BY <1>1
  <2>5. QED
    BY <1>9, <2>2, <2>3, <2>4
<1>11. n + u <= v
  BY <1>10
<1>12. QED
  BY <1>1, <1>2, <1>3, <1>4, <1>5, <1>11

LEMMA NeededAre ==
  ASSUME SettlementTypeOK
  PROVE  /\ NeededResources \subseteq Resource
         /\ Food \in NeededResources
         /\ \A b \in Kinds : \A k \in DOMAIN Definitions[b].inputs : Definitions[b].inputs[k] \in NeededResources
<1>1. ASSUME NEW b \in BuildingId, NEW k \in DOMAIN Definitions[b].inputs
      PROVE  Definitions[b].inputs[k] \in Resource
  <2>1. PICK inputs \in Seq(Resource) : inputs = Definitions[b].inputs
    BY SettlementAssumption DEF BuildingDefinitions
  <2>2. QED
    BY <2>1
<1>2. Food \in NeededResources
  BY DEF NeededResources
<1>3. ASSUME NEW x \in NeededResources PROVE x \in Resource
  <2>1. CASE x = Food
    BY <2>1, SettlementAssumption
  <2>2. CASE x # Food
    <3>1. PICK k \in Known : x \in {Definition(k).inputs[n] : n \in DOMAIN Definition(k).inputs}
      BY <2>2 DEF NeededResources
    <3>2. PICK b \in BuildingId : b = buildings[k].definition
      BY KnownAre
    <3>3. Definition(k) = Definitions[b]
      BY <3>2 DEF Definition
    <3>4. PICK n \in DOMAIN Definitions[b].inputs : x = Definitions[b].inputs[n]
      BY <3>1, <3>3
    <3>5. QED
      BY <1>1, <3>4
  <2>3. QED
    BY <2>1, <2>2
<1>4. ASSUME NEW b \in Kinds, NEW k \in DOMAIN Definitions[b].inputs
      PROVE  Definitions[b].inputs[k] \in NeededResources
  <2>1. PICK n \in DOMAIN buildings : buildings[n].definition = b /\ b # Unregistered
    BY DEF Kinds
  <2>2. n \in Known /\ Definition(n) = Definitions[b]
    BY <2>1 DEF Known, Definition
  <2>3. QED
    BY <2>2 DEF NeededResources
<1>5. QED
  BY <1>2, <1>3, <1>4

LEMMA CallsType ==
  ASSUME buildings \in Seq(BuildingInstances), NEW s \in LivedStates, NEW work \in [Kinds -> Nat], NEW r
  PROVE  /\ \A b \in Kinds : (s.rest[<<"input", b>>] + work[b]) \div TicksPerDay \in Nat
         /\ Calls(s.rest, work, r) \in [Kinds -> Nat]
<1>1. ASSUME NEW b \in Kinds PROVE (s.rest[<<"input", b>>] + work[b]) \div TicksPerDay \in Nat
  <2>1. b \in BuildingId
    BY KindsAre
  <2>2. PICK key \in Keys : key = <<"input", b>>
    BY <2>1, KeysAreKeys
  <2>3. PICK c \in Nat : c = s.rest[key]
    BY RestsAreSmall
  <2>4. c + work[b] \in Nat
    BY <2>3
  <2>5. QED
    BY <2>2, <2>3, <2>4, Divides
<1>2. ASSUME NEW b \in Kinds
      PROVE  Draws(b, r) * ((s.rest[<<"input", b>>] + work[b]) \div TicksPerDay) \in Nat
  <2>1. PICK u \in Nat : u = (s.rest[<<"input", b>>] + work[b]) \div TicksPerDay
    BY <1>1
  <2>2. PICK d \in Nat : d = Draws(b, r)
    BY KindsAre, DrawsType
  <2>3. QED
    BY <2>1, <2>2
<1>3. QED
  BY <1>1, <1>2 DEF Calls

LEMMA MealsType ==
  ASSUME NEW s \in LivedStates, NEW meal \in Nat, NEW r
  PROVE  Meals(s.rest, meal, r) \in Nat
<1>1. PICK key \in Keys : key = <<"food", Food>>
  BY KeysAreKeys
<1>2. PICK c \in Nat : c = s.rest[key]
  BY RestsAreSmall
<1>3. (c + meal) \div TicksPerDay \in Nat
  BY Divides
<1>4. QED
  BY <1>1, <1>2, <1>3 DEF Meals

(* What is left to earn when kind b has earned its part.                   *)
Earned(work, left, b, earned) == work[b] = left[b] + earned /\ \A c \in Kinds : c # b => left[c] = work[c]

(* One kind calls for less, by what it drew; the others for as much.       *)
LEMMA CallsAfter ==
  ASSUME buildings \in Seq(BuildingInstances), NEW s \in LivedStates, NEW after \in LivedStates,
         NEW b \in Kinds, NEW n \in Nat, NEW earned \in Nat, Spends(s, after, b, n, earned),
         NEW work \in [Kinds -> Nat], NEW left \in [Kinds -> Nat],
         Earned(work, left, b, earned), NEW r
  PROVE  /\ n <= (s.rest[<<"input", b>>] + work[b]) \div TicksPerDay
         /\ Total(Calls(after.rest, left, r)) + Draws(b, r) * n <= Total(Calls(s.rest, work, r))
         /\ Draws(b, r) * n \in Nat
<1>1. b \in BuildingId /\ \A c \in Kinds : c \in BuildingId
  BY KindsAre
<1>2. PICK key \in Keys : key = <<"input", b>>
  BY <1>1, KeysAreKeys
<1>3. PICK x \in Nat : x = s.rest[key]
  BY RestsAreSmall
<1>4. PICK y \in Nat : y = after.rest[key]
  BY RestsAreSmall
<1>5. PICK l \in Nat : l = left[b]
  OBVIOUS
<1>6. TicksPerDay * n + y <= x + earned
  BY <1>2, <1>3, <1>4 DEF Spends
<1>7. PICK u \in Nat : u = (s.rest[<<"input", b>>] + work[b]) \div TicksPerDay
  BY CallsType
<1>8. PICK v \in Nat : v = (after.rest[<<"input", b>>] + left[b]) \div TicksPerDay
  BY CallsType
<1>9. n + v <= u
  <2>1. PICK z \in Nat : z = x + earned
    OBVIOUS
  <2>2. TicksPerDay * n + y <= z
    BY <1>6, <2>1
  <2>3. n + ((y + l) \div TicksPerDay) <= (z + l) \div TicksPerDay
    BY <2>2, UnitsShared
  <2>4. z + l = x + work[b]
    BY <1>5, <2>1 DEF Earned
  <2>5. QED
    BY <1>2, <1>3, <1>4, <1>5, <1>7, <1>8, <2>3, <2>4
<1>10. PICK old \in [Kinds -> Nat] : old = Calls(s.rest, work, r)
  BY CallsType
<1>11. PICK new \in [Kinds -> Nat] : new = Calls(after.rest, left, r)
  BY CallsType
<1>12. ASSUME NEW c \in Kinds, c # b PROVE new[c] = old[c]
  <2>1. PICK other \in Keys : other = <<"input", c>> /\ other # <<"input", b>> /\ other # <<"output", b>>
    BY <1>1, <1>12, KeysAreKeys
  <2>2. after.rest[other] = s.rest[other]
    BY <2>1 DEF Spends
  <2>3. QED
    BY <1>10, <1>11, <1>12, <2>1, <2>2 DEF Calls, Earned
<1>13. Total(new) + old[b] = Total(old) + new[b]
  BY <1>12, TotalChanges
<1>14. PICK d \in Nat : d = Draws(b, r)
  BY <1>1, DrawsType
<1>15. old[b] = d * u /\ new[b] = d * v
  BY <1>7, <1>8, <1>10, <1>11, <1>14 DEF Calls
<1>16. d * n + d * v <= d * u
  <2>1. d * (n + v) <= d * u
    BY <1>9, ProductsGrow
  <2>2. d * (n + v) = d * n + d * v
    OBVIOUS
  <2>3. QED
    BY <2>1, <2>2
<1>17. Total(old) \in Nat /\ Total(new) \in Nat
  BY TotalIsNumber
<1>18. Total(new) + d * n <= Total(old)
  <2>1. PICK i \in Nat, j \in Nat : i = Total(new) /\ j = Total(old)
    BY <1>17
  <2>2. PICK p \in Nat, q \in Nat, m \in Nat : p = d * n /\ q = d * v /\ m = d * u
    OBVIOUS
  <2>3. i + m = j + q /\ p + q <= m
    BY <1>13, <1>15, <1>16, <2>1, <2>2
  <2>4. i + p <= j
    BY <2>3
  <2>5. QED
    BY <2>1, <2>2, <2>4
<1>19. QED
  BY <1>7, <1>8, <1>9, <1>10, <1>11, <1>14, <1>18

LEMMA WorksFromStock ==
  ASSUME SettlementTypeOK, NEW s \in LivedStates, NEW building \in BuildingInstances, NEW ticks \in Nat,
         building.definition \in Kinds, NEW after \in LivedStates, after = Working(s, building, ticks),
         NEW work \in [Kinds -> Nat], NEW left \in [Kinds -> Nat], NEW meal \in Nat,
         Earned(work, left, building.definition, Hands(building) * ticks),
         Stocked(s, work, meal), s.short \subseteq {"room"}
  PROVE  Stocked(after, left, meal) /\ after.short \subseteq {"room"}
<1>1. buildings \in Seq(BuildingInstances)
  BY DEF SettlementTypeOK
<1>2. PICK b \in Kinds : b = building.definition /\ b # Unregistered
  BY DEF Kinds
<1>3. PICK earned \in Nat : earned = Hands(building) * ticks
  BY HandsAre DEF U64
<1>4. PICK n \in Nat : Spends(s, after, b, n, earned)
  BY <1>2, <1>3, WorkingSpends
<1>5. Earned(work, left, b, earned)
  BY <1>2, <1>3
<1>6. PICK u \in Nat : u = (s.rest[<<"input", b>>] + work[b]) \div TicksPerDay
  BY <1>1, CallsType
<1>7. ASSUME NEW r
      PROVE  /\ n <= u
             /\ Total(Calls(after.rest, left, r)) + Draws(b, r) * n <= Total(Calls(s.rest, work, r))
             /\ Draws(b, r) * n \in Nat
  <2>1. /\ n <= (s.rest[<<"input", b>>] + work[b]) \div TicksPerDay
        /\ Total(Calls(after.rest, left, r)) + Draws(b, r) * n <= Total(Calls(s.rest, work, r))
        /\ Draws(b, r) * n \in Nat
    BY <1>1, <1>4, <1>5, CallsAfter
  <2>2. QED
    BY <1>6, <2>1
<1>8. NeededResources \subseteq Resource
  BY NeededAre
<1>9. \A r \in NeededResources : s.storage[r] \in Nat /\ after.storage[r] \in Nat
  BY <1>8 DEF LivedStates, Storages, U64
<1>10. ASSUME NEW r PROVE /\ Total(Calls(s.rest, work, r)) \in Nat
                          /\ Total(Calls(after.rest, left, r)) \in Nat
                          /\ Meals(s.rest, meal, r) \in Nat
  <2>1. Calls(s.rest, work, r) \in [Kinds -> Nat] /\ Calls(after.rest, left, r) \in [Kinds -> Nat]
    BY <1>1, CallsType
  <2>2. QED
    BY <1>1, <2>1, TotalIsNumber, MealsType
<1>11. HasInputs(s.storage, Definitions[b].inputs, n)
  <2>1. PICK inputs : inputs = Definitions[b].inputs
    OBVIOUS
  <2>2. ASSUME NEW k \in DOMAIN inputs PROVE s.storage[inputs[k]] >= n
    <3>1. PICK r \in NeededResources : r = inputs[k]
      BY <2>1, NeededAre
    <3>2. PICK old \in [Kinds -> Nat] : old = Calls(s.rest, work, r)
      BY <1>1, CallsType
    <3>3. old[b] <= Total(old) /\ Total(old) \in Nat
      BY <1>1, TotalCovers
    <3>4. PICK d \in Nat : d = Draws(b, r) /\ d >= 1
      <4>1. b \in BuildingId
        BY <1>1, KindsAre
      <4>2. inputs \in Seq(Resource)
        BY <2>1, <4>1, SettlementAssumption DEF BuildingDefinitions
      <4>3. k \in Places(inputs, r) /\ Places(inputs, r) \subseteq DOMAIN inputs
        BY <3>1 DEF Places
      <4>4. IsFiniteSet(Places(inputs, r))
        <5>1. PICK N \in Nat : N = Len(inputs) /\ DOMAIN inputs = 1 .. N
          BY <4>2
        <5>2. IsFiniteSet(1 .. N)
          BY UpTo
        <5>3. QED
          BY <4>3, <5>1, <5>2, FS_Subset
      <4>5. Cardinality(Places(inputs, r)) # 0 /\ Cardinality(Places(inputs, r)) \in Nat
        BY <4>3, <4>4, FS_EmptySet, FS_CardinalityType
      <4>6. QED
        BY <2>1, <4>5 DEF Draws
    <3>5. old[b] = d * u
      BY <1>6, <3>2, <3>4 DEF Calls
    <3>6. u <= d * u
      <4>1. u * 1 <= u * d
        BY <3>4, ProductsGrow
      <4>2. QED
        BY <4>1
    <3>7. Total(old) + Meals(s.rest, meal, r) <= s.storage[r]
      BY <3>2 DEF Stocked
    <3>8. n <= s.storage[r]
      <4>1. PICK t \in Nat, m \in Nat, h \in Nat : t = Total(old) /\ m = Meals(s.rest, meal, r) /\ h = s.storage[r]
        BY <1>9, <1>10, <3>3
      <4>2. PICK e \in Nat : e = d * u
        OBVIOUS
      <4>3. n <= u /\ u <= e /\ e <= t /\ t + m <= h
        BY <1>7, <3>3, <3>5, <3>6, <3>7, <4>1, <4>2
      <4>4. QED
        BY <4>1, <4>3
    <3>9. QED
      BY <1>9, <3>1, <3>8
  <2>3. QED
    BY <2>1, <2>2 DEF HasInputs
<1>12. after.short \subseteq {"room"} /\ \A r \in Resource : s.storage[r] <= after.storage[r] + Draws(b, r) * n
  <2>1. /\ after.short \subseteq s.short \cup {"room"}
        /\ \A r \in Resource : s.storage[r] <= after.storage[r] + Draws(b, r) * n
    BY <1>4, <1>11 DEF Spends
  <2>2. QED
    BY <2>1
<1>13. ASSUME NEW r \in NeededResources
       PROVE  Total(Calls(after.rest, left, r)) + Meals(after.rest, meal, r) <= after.storage[r]
  <2>1. Meals(after.rest, meal, r) = Meals(s.rest, meal, r)
    <3>1. PICK key \in Keys : key = <<"food", Food>> /\ key # <<"input", b>> /\ key # <<"output", b>>
      BY <1>1, KindsAre, KeysAreKeys
    <3>2. after.rest[key] = s.rest[key]
      BY <1>4, <3>1 DEF Spends
    <3>3. QED
      BY <3>1, <3>2 DEF Meals
  <2>2. PICK i \in Nat, j \in Nat, m \in Nat :
          i = Total(Calls(after.rest, left, r)) /\ j = Total(Calls(s.rest, work, r)) /\ m = Meals(s.rest, meal, r)
    BY <1>10
  <2>3. PICK p \in Nat : p = Draws(b, r) * n
    BY <1>7
  <2>4. PICK h \in Nat, g \in Nat : h = s.storage[r] /\ g = after.storage[r]
    BY <1>9
  <2>5. i + p <= j /\ j + m <= h /\ h <= g + p
    BY <1>7, <1>8, <1>12, <2>2, <2>3, <2>4 DEF Stocked
  <2>6. i + m <= g
    BY <2>5
  <2>7. QED
    BY <2>1, <2>2, <2>4, <2>6
<1>14. QED
  BY <1>12, <1>13 DEF Stocked

LEMMA EatsFromStock ==
  ASSUME SettlementTypeOK, NEW s \in LivedStates, NEW ticks \in Nat,
         NEW after \in LivedStates, after = Eating(s, ticks),
         NEW work \in [Kinds -> Nat], NEW meal \in Nat, NEW left \in Nat, meal = left + FoodNeeded * ticks,
         Stocked(s, work, meal), s.short \subseteq {"room"}
  PROVE  Stocked(after, work, left) /\ after.short \subseteq {"room"}
<1>1. buildings \in Seq(BuildingInstances) /\ s.rest \in Rests /\ s.storage \in Storages
  BY DEF SettlementTypeOK, LivedStates, PairedRests
<1>2. PICK key \in Keys : key = <<"food", Food>>
  BY KeysAreKeys
<1>3. PICK rest \in Rests : rest = s.rest
  BY <1>1
<1>4. PICK perDay \in U64 : perDay = FoodNeeded
  BY FoodNeededType
<1>5. PICK earned \in Nat : earned = perDay * ticks
  BY DEF U64
<1>6. PICK due : due = Scaled(rest, key, perDay, ticks)
  OBVIOUS
<1>7. due.units \in U64 /\ due.rest \in Rests /\ \A other \in Keys : other # key => due.rest[other] = rest[other]
  BY <1>6, ScaledIs
<1>8. PICK units \in Nat : units = due.units
  BY <1>7 DEF U64
<1>9. PICK found : found = RemovedUpTo(s.storage, Food, units)
  OBVIOUS
<1>10. after = [storage |-> [s.storage EXCEPT ![Food] = s.storage[Food] - found],
                rest |-> due.rest,
                short |-> s.short \cup IF found < units THEN {"food"} ELSE {}]
  BY <1>2, <1>3, <1>4, <1>6, <1>8, <1>9 DEF Eating
<1>11. PICK x \in Nat : x = rest[key]
  BY <1>3, RestsAreSmall
<1>12. PICK y \in Nat : y = after.rest[key]
  BY RestsAreSmall
<1>13. TicksPerDay * units + y <= x + earned
  <2>1. TicksPerDay * due.units + due.rest[key] <= rest[key] + perDay * ticks
    BY <1>6, ScaledAtMost
  <2>2. after.rest = due.rest
    BY <1>10
  <2>3. QED
    BY <1>5, <1>8, <1>11, <1>12, <2>1, <2>2
<1>14. Food \in Resource /\ s.storage[Food] \in Nat
  BY <1>1, SettlementAssumption DEF Storages, U64
<1>15. PICK u \in Nat : u = (s.rest[<<"food", Food>>] + meal) \div TicksPerDay /\ Meals(s.rest, meal, Food) = u
  BY MealsType DEF Meals
<1>16. PICK v \in Nat : v = (after.rest[<<"food", Food>>] + left) \div TicksPerDay /\ Meals(after.rest, left, Food) = v
  BY MealsType DEF Meals
<1>17. units + v <= u
  <2>1. PICK z \in Nat : z = x + earned
    OBVIOUS
  <2>2. TicksPerDay * units + y <= z
    BY <1>13, <2>1
  <2>3. units + ((y + left) \div TicksPerDay) <= (z + left) \div TicksPerDay
    BY <2>2, UnitsShared
  <2>4. z + left = x + meal
    BY <1>4, <1>5, <2>1
  <2>5. QED
    BY <1>2, <1>3, <1>11, <1>12, <1>15, <1>16, <2>3, <2>4
<1>18. ASSUME NEW r PROVE Total(Calls(s.rest, work, r)) \in Nat
  <2>1. Calls(s.rest, work, r) \in [Kinds -> Nat]
    BY <1>1, CallsType
  <2>2. QED
    BY <1>1, <2>1, TotalIsNumber
<1>19. ASSUME NEW r PROVE Calls(after.rest, work, r) = Calls(s.rest, work, r)
  <2>1. ASSUME NEW c \in Kinds PROVE after.rest[<<"input", c>>] = s.rest[<<"input", c>>]
    <3>1. PICK other \in Keys : other = <<"input", c>> /\ other # key
      BY <1>1, <1>2, KindsAre, KeysAreKeys
    <3>2. after.rest[other] = rest[other]
      BY <1>7, <1>10, <3>1
    <3>3. QED
      BY <1>3, <3>1, <3>2
  <2>2. QED
    BY <2>1 DEF Calls
<1>20. PICK t \in Nat : t = Total(Calls(s.rest, work, Food))
  BY <1>18
<1>21. t + u <= s.storage[Food]
  BY <1>15, <1>20, NeededAre DEF Stocked
<1>22. found = units /\ units <= s.storage[Food]
  <2>1. PICK h \in Nat : h = s.storage[Food]
    BY <1>14
  <2>2. units <= h
    BY <1>17, <1>21, <2>1
  <2>3. QED
    BY <1>9, <2>1, <2>2 DEF RemovedUpTo, AtMost
<1>23. PICK rem \in Nat : rem = s.storage[Food] - found /\ rem + units = s.storage[Food]
  BY <1>14, <1>22
<1>24. after.storage = [s.storage EXCEPT ![Food] = rem]
  BY <1>10, <1>23
<1>25. after.storage[Food] = rem /\ \A r \in Resource : r # Food => after.storage[r] = s.storage[r]
  BY <1>1, <1>14, <1>24 DEF Storages
<1>26. after.short = s.short
  <2>1. after.short = s.short \cup IF found < units THEN {"food"} ELSE {}
    BY <1>10
  <2>2. ~(found < units)
    BY <1>22
  <2>3. QED
    BY <2>1, <2>2
<1>27. ASSUME NEW r \in NeededResources
       PROVE  Total(Calls(after.rest, work, r)) + Meals(after.rest, left, r) <= after.storage[r]
  <2>1. CASE r = Food
    <3>1. t + v <= rem
      BY <1>17, <1>21, <1>23
    <3>2. QED
      BY <1>16, <1>19, <1>20, <1>25, <2>1, <3>1
  <2>2. CASE r # Food
    <3>1. Meals(after.rest, left, r) = 0 /\ Meals(s.rest, meal, r) = 0
      BY <2>2 DEF Meals
    <3>2. after.storage[r] = s.storage[r]
      BY <1>25, <2>2, NeededAre
    <3>3. Total(Calls(s.rest, work, r)) + 0 <= s.storage[r]
      BY <3>1 DEF Stocked
    <3>4. QED
      BY <1>19, <3>1, <3>2, <3>3
  <2>3. QED
    BY <2>1, <2>2
<1>28. QED
  BY <1>26, <1>27 DEF Stocked

(* What each kind earns over a span.                                       *)
Ahead(left, n, ticks) ==
  [b \in Kinds |-> left[b] + (HandsTo(b)[Len(buildings)] - HandsTo(b)[n]) * ticks]

LEMMA AheadType ==
  ASSUME buildings \in Seq(BuildingInstances), NEW left \in [Kinds -> Nat], NEW n \in 0 .. Len(buildings),
         NEW ticks \in Nat
  PROVE  Ahead(left, n, ticks) \in [Kinds -> Nat]
<1>1. ASSUME NEW b \in Kinds
      PROVE  left[b] + (HandsTo(b)[Len(buildings)] - HandsTo(b)[n]) * ticks \in Nat
  <2>1. PICK N \in Nat : N = Len(buildings)
    OBVIOUS
  <2>2. HandsTo(b)[N] \in Nat /\ HandsTo(b)[n] \in Nat /\ HandsTo(b)[n] <= HandsTo(b)[N]
    BY <2>1, HandsToIs
  <2>3. PICK d \in Nat : d = HandsTo(b)[N] - HandsTo(b)[n]
    BY <2>2
  <2>4. left[b] + d * ticks \in Nat
    OBVIOUS
  <2>5. QED
    BY <2>1, <2>3, <2>4
<1>2. QED
  BY <1>1 DEF Ahead

LEMMA AheadStep ==
  ASSUME buildings \in Seq(BuildingInstances), NEW left \in [Kinds -> Nat], NEW n \in 1 .. Len(buildings),
         NEW ticks \in Nat
  PROVE  \A b \in Kinds : Ahead(left, n - 1, ticks)[b] = Ahead(left, n, ticks)[b] + HandsIn(b)[n] * ticks
<1> SUFFICES ASSUME NEW b \in Kinds
             PROVE  Ahead(left, n - 1, ticks)[b] = Ahead(left, n, ticks)[b] + HandsIn(b)[n] * ticks
  OBVIOUS
<1>1. PICK N \in Nat : N = Len(buildings)
  OBVIOUS
<1>2. n \in 0 .. N /\ n - 1 \in 0 .. N /\ N \in 0 .. N
  BY <1>1
<1>3. PICK all \in Nat : all = HandsTo(b)[N]
  BY <1>1, <1>2, HandsToIs
<1>4. PICK before \in Nat : before = HandsTo(b)[n - 1]
  BY <1>1, <1>2, HandsToIs
<1>5. PICK h \in Nat : h = HandsIn(b)[n]
  BY HandsToIs
<1>6. HandsTo(b)[n] = before + h /\ before + h <= all
  <2>1. HandsTo(b)[n] = HandsTo(b)[n - 1] + HandsIn(b)[n]
    BY <1>1, HandsToIs
  <2>2. HandsTo(b)[n] <= HandsTo(b)[N]
    BY <1>1, <1>2, HandsToIs
  <2>3. QED
    BY <1>3, <1>4, <1>5, <2>1, <2>2
<1>7. PICK d \in Nat : d = all - (before + h)
  BY <1>6
<1>8. all - before = d + h
  BY <1>7
<1>9. (d + h) * ticks = d * ticks + h * ticks
  OBVIOUS
<1>10. Ahead(left, n - 1, ticks)[b] = left[b] + (d + h) * ticks
  BY <1>1, <1>3, <1>4, <1>8 DEF Ahead
<1>11. Ahead(left, n, ticks)[b] = left[b] + d * ticks
  BY <1>1, <1>3, <1>6, <1>7 DEF Ahead
<1>12. PICK p \in Nat, q \in Nat : p = d * ticks /\ q = h * ticks
  OBVIOUS
<1>13. PICK l \in Nat : l = left[b]
  OBVIOUS
<1>14. QED
  BY <1>5, <1>9, <1>10, <1>11, <1>12, <1>13

LEMMA AheadOfNone ==
  ASSUME buildings \in Seq(BuildingInstances), NEW left \in [Kinds -> Nat], NEW ticks \in Nat
  PROVE  Ahead(left, Len(buildings), ticks) = left
<1>1. ASSUME NEW b \in Kinds
      PROVE  left[b] + (HandsTo(b)[Len(buildings)] - HandsTo(b)[Len(buildings)]) * ticks = left[b]
  <2>1. PICK all \in Nat : all = HandsTo(b)[Len(buildings)]
    <3>1. PICK N \in Nat : N = Len(buildings) /\ N \in 0 .. N
      OBVIOUS
    <3>2. HandsTo(b)[N] \in Nat
      BY <3>1, HandsToIs
    <3>3. QED
      BY <3>1, <3>2
  <2>2. all - all = 0 /\ 0 * ticks = 0
    OBVIOUS
  <2>3. QED
    BY <2>1, <2>2
<1>2. QED
  BY <1>1 DEF Ahead

(* A span leaves what is left for later covered.                           *)
LEMMA SpanFromStock ==
  ASSUME SettlementTypeOK, NEW s \in LivedStates, NEW ticks \in Nat,
         NEW left \in [Kinds -> Nat], NEW later \in Nat,
         Stocked(s, Ahead(left, 0, ticks), later + FoodNeeded * ticks), s.short \subseteq {"room"}
  PROVE  Stocked(Lived(s, ticks), left, later) /\ Lived(s, ticks).short \subseteq {"room"}
<1>1. buildings \in Seq(BuildingInstances)
  BY DEF SettlementTypeOK
<1>2. PICK f : LivesThrough(f, s, ticks)
  BY <1>1, LivedUnrolled
<1>3. PICK N \in Nat : N = Len(buildings)
  BY <1>1
<1>4. \A n \in 1 .. N : buildings[n] \in BuildingInstances
  BY <1>1, <1>3
<1>5. \A n \in 0 .. N : f[n] \in LivedStates
  BY <1>2, <1>3 DEF LivesThrough
<1> DEFINE T == {n \in 0 .. N : Stocked(f[n], Ahead(left, n, ticks), later) /\ f[n].short \subseteq {"room"}}
<1>6. 0 \in T
  <2>1. PICK after \in LivedStates : after = f[0]
    BY <1>3, <1>5
  <2>2. after = Eating(s, ticks)
    BY <1>2, <2>1 DEF LivesThrough
  <2>3. PICK work \in [Kinds -> Nat] : work = Ahead(left, 0, ticks)
    BY <1>1, <1>3, AheadType
  <2>4. PICK meal \in Nat : meal = later + FoodNeeded * ticks
    BY FoodNeededType DEF U64
  <2>5. Stocked(s, work, meal)
    BY <2>3, <2>4
  <2>6. Stocked(after, work, later) /\ after.short \subseteq {"room"}
    BY <2>2, <2>4, <2>5, EatsFromStock
  <2>7. QED
    BY <1>3, <2>1, <2>3, <2>6
<1>7. ASSUME NEW n \in 1 .. N, n - 1 \in T PROVE n \in T
  <2>1. n \in 0 .. N /\ n - 1 \in 0 .. N
    BY <1>3
  <2>2. PICK old \in LivedStates : old = f[n - 1]
    BY <1>5, <2>1
  <2>3. PICK after \in LivedStates : after = f[n]
    BY <1>5, <2>1
  <2>4. PICK building \in BuildingInstances : building = buildings[n]
    BY <1>4
  <2>5. after = Working(old, building, ticks)
    BY <1>2, <1>3, <2>2, <2>3, <2>4 DEF LivesThrough
  <2>6. PICK work \in [Kinds -> Nat] : work = Ahead(left, n - 1, ticks)
    BY <1>1, <1>3, <2>1, AheadType
  <2>7. PICK next \in [Kinds -> Nat] : next = Ahead(left, n, ticks)
    BY <1>1, <1>3, <2>1, AheadType
  <2>8. Stocked(old, work, later) /\ old.short \subseteq {"room"}
    BY <1>7, <2>2, <2>6
  <2>9. \A b \in Kinds : work[b] = next[b] + HandsIn(b)[n] * ticks
    BY <1>1, <1>3, <2>6, <2>7, AheadStep
  <2>10. ASSUME NEW b \in Kinds, b # building.definition PROVE next[b] = work[b]
    <3>1. HandsIn(b)[n] = 0
      BY <1>3, <2>4, <2>10 DEF HandsIn
    <3>2. 0 * ticks = 0
      OBVIOUS
    <3>3. QED
      BY <2>9, <3>1, <3>2
  <2>11. CASE building.definition = Unregistered
    <3>1. after = old
      BY <2>5, <2>11 DEF Working
    <3>2. \A b \in Kinds : next[b] = work[b]
      BY <2>10, <2>11 DEF Kinds
    <3>3. next = work
      BY <3>2
    <3>4. QED
      BY <2>1, <2>3, <2>7, <2>8, <3>1, <3>3
  <2>12. CASE building.definition # Unregistered
    <3>1. building.definition \in Kinds
      <4>1. n \in DOMAIN buildings
        BY <1>1, <1>3
      <4>2. QED
        BY <2>4, <2>12, <4>1 DEF Kinds
    <3>2. Earned(work, next, building.definition, Hands(building) * ticks)
      <4>1. HandsIn(building.definition)[n] = Hands(building)
        BY <1>3, <2>4 DEF HandsIn
      <4>2. QED
        BY <2>9, <2>10, <3>1, <4>1 DEF Earned
    <3>3. Stocked(after, next, later) /\ after.short \subseteq {"room"}
      BY <2>5, <2>8, <3>1, <3>2, WorksFromStock
    <3>4. QED
      BY <2>1, <2>3, <2>7, <3>3
  <2>13. QED
    BY <2>11, <2>12
<1> HIDE DEF T
<1>8. \A n \in 0 .. N : n \in T
  BY <1>3, <1>6, <1>7, BoundedInduction
<1>9. N \in T
  BY <1>3, <1>8
<1>10. Lived(s, ticks) = f[N]
  BY <1>2, <1>3 DEF LivesThrough
<1>11. Ahead(left, N, ticks) = left
  BY <1>1, <1>3, AheadOfNone
<1>12. QED
  BY <1>9, <1>10, <1>11 DEF T

-----------------------------------------------------------------------------
(* The plan: what misses nothing is stocked.                               *)

LEMMA HorizonIs ==
  ASSUME NEW ticks \in Nat
  PROVE  HorizonDays(ticks) \in Nat /\ ticks <= HorizonDays(ticks) * TicksPerDay
<1>1. PICK T \in Nat : T = TicksPerDay /\ T # 0
  BY TicksPerDayPositive
<1>2. CASE ticks = 0
  <2>1. HorizonDays(ticks) = 0 /\ 0 * T = 0
    BY <1>2 DEF HorizonDays
  <2>2. QED
    BY <1>1, <1>2, <2>1
<1>3. CASE ticks # 0
  <2>1. PICK m \in Nat : m = ticks - 1
    BY <1>3
  <2>2. PICK q \in Nat : q = m \div T /\ m < (q + 1) * T
    BY <1>1, QuotientOf
  <2>3. HorizonDays(ticks) = q + 1
    BY <1>1, <1>3, <2>1, <2>2 DEF HorizonDays
  <2>4. PICK p \in Nat : p = (q + 1) * T
    BY <1>1
  <2>5. ticks <= p
    BY <2>1, <2>2, <2>4
  <2>6. QED
    BY <1>1, <2>2, <2>3, <2>4, <2>5
<1>4. QED
  BY <1>2, <1>3

(* A counter hands out no more than its daily units times the days that    *)
(* have begun.                                                             *)
LEMMA UnitsOfDays ==
  ASSUME NEW c \in Nat, c < TicksPerDay, NEW w \in Nat, NEW ticks \in Nat, NEW days \in Nat,
         ticks <= days * TicksPerDay
  PROVE  (c + w * ticks) \div TicksPerDay \in Nat /\ (c + w * ticks) \div TicksPerDay <= w * days
<1>1. PICK T \in Nat : T = TicksPerDay /\ T # 0
  BY TicksPerDayPositive
<1>2. PICK x \in Nat : x = w * ticks
  OBVIOUS
<1>3. PICK y \in Nat : y = w * days
  OBVIOUS
<1>4. x <= y * T
  <2>1. PICK e \in Nat : e = days * T
    BY <1>1
  <2>2. w * ticks <= w * e
    BY <1>1, <2>1, ProductsGrow
  <2>3. w * (days * T) = (w * days) * T
    BY <1>1
  <2>4. QED
    BY <1>2, <1>3, <2>1, <2>2, <2>3
<1>5. PICK p \in Nat : p = c + x
  BY <1>2
<1>6. PICK q \in Nat : q = p \div T /\ q * T <= p
  BY <1>1, QuotientOf
<1>7. q <= y
  <2>1. SUFFICES ASSUME y + 1 <= q PROVE FALSE
    OBVIOUS
  <2>2. (y + 1) * T <= q * T
    <3>1. PICK a \in Nat : a = y + 1
      OBVIOUS
    <3>2. a * T <= q * T
      BY <1>1, <2>1, <3>1, ProductsGrow
    <3>3. QED
      BY <3>1, <3>2
  <2>3. PICK a \in Nat, b \in Nat : a = y * T /\ b = q * T
    BY <1>1
  <2>4. (y + 1) * T = a + T
    BY <1>1, <2>3
  <2>5. a + T <= b /\ b <= c + x /\ x <= a /\ c < T
    BY <1>1, <1>4, <1>5, <1>6, <2>2, <2>3, <2>4
  <2>6. QED
    BY <1>1, <1>2, <2>3, <2>5
<1>8. QED
  BY <1>1, <1>2, <1>3, <1>5, <1>6, <1>7

LEMMA DaysAreStored ==
  ASSUME SettlementTypeOK, NEW r \in NeededResources, NEW days \in Nat, NEW need \in Nat, NEW ticks \in Nat,
         need = ExactDailyNeed(r), days = HorizonDays(ticks),
         MissingOver(r, ticks) = 0, ~MultiplyOverflows(need, days)
  PROVE  need * days <= storage[r]
<1>1. storage[r] \in Nat
  BY NeededAre DEF SettlementTypeOK, Storages, U64
<1>2. PICK p \in Nat : p = need * days /\ p <= MaxU64
  <2>1. need * days \in Nat
    OBVIOUS
  <2>2. need * days <= MaxU64
    BY <2>1, TicksPerDayPositive DEF MultiplyOverflows
  <2>3. QED
    BY <2>1, <2>2
<1>3. CASE days = 0
  <2>1. need * 0 = 0
    OBVIOUS
  <2>2. QED
    BY <1>1, <1>3, <2>1
<1>4. CASE days # 0
  <2>1. need <= p
    <3>1. need * 1 <= need * days
      BY <1>4, ProductsGrow
    <3>2. QED
      BY <1>2, <3>1
  <2>2. DailyNeed(r) = need
    BY <1>2, <2>1, TicksPerDayPositive DEF DailyNeed, AtMost
  <2>3. SaturatingMultiply(DailyNeed(r), HorizonDays(ticks)) = p
    BY <1>2, <2>2 DEF SaturatingMultiply
  <2>4. (IF p > storage[r] THEN p - storage[r] ELSE 0) = 0
    BY <2>3 DEF MissingOver
  <2>5. p <= storage[r]
    BY <1>1, <2>4
  <2>6. QED
    BY <1>2, <2>5
<1>5. QED
  BY <1>3, <1>4

Nothing == [b \in Kinds |-> 0]

(* What the counters call for over the horizon is what the plan adds up.   *)
LEMMA CallsOfDays ==
  ASSUME SettlementTypeOK, NEW r, NEW ticks \in Nat, NEW days \in Nat, ticks <= days * TicksPerDay
  PROVE  /\ Ahead(Nothing, 0, ticks) \in [Kinds -> Nat]
         /\ Total(Calls(remainders, Ahead(Nothing, 0, ticks), r)) \in Nat
         /\ Total(Calls(remainders, Ahead(Nothing, 0, ticks), r)) <= Total(KindWants(r, Len(buildings), days))
         /\ Total(KindWants(r, Len(buildings), days)) \in Nat
<1>1. buildings \in Seq(BuildingInstances)
  BY DEF SettlementTypeOK
<1>2. PICK N \in Nat : N = Len(buildings) /\ N \in 0 .. N /\ 0 \in 0 .. N
  BY <1>1
<1>3. PICK s \in LivedStates : s = SettlementNow /\ s.rest = remainders
  BY NowIsLived DEF SettlementNow
<1>4. PICK work \in [Kinds -> Nat] : work = Ahead(Nothing, 0, ticks)
  <2>1. Nothing \in [Kinds -> Nat]
    BY DEF Nothing
  <2>2. QED
    BY <1>1, <1>2, <2>1, AheadType
<1>5. PICK calls \in [Kinds -> Nat] : calls = Calls(s.rest, work, r)
  BY <1>1, CallsType
<1>6. PICK wants \in [Kinds -> Nat] : wants = KindWants(r, N, days)
  BY <1>1, <1>2, KindWantsType
<1>7. ASSUME NEW b \in Kinds PROVE calls[b] <= wants[b]
  <2>1. PICK key \in Keys : key = <<"input", b>>
    BY <1>1, KindsAre, KeysAreKeys
  <2>2. PICK c \in Nat : c = s.rest[key] /\ c < TicksPerDay
    BY RestsAreSmall
  <2>3. PICK w \in Nat : w = HandsTo(b)[N]
    BY <1>1, <1>2, HandsToIs
  <2>4. work[b] = w * ticks
    <3>1. HandsTo(b)[0] = 0
      BY <1>1, HandsToIs
    <3>2. work[b] = 0 + (w - 0) * ticks
      BY <1>2, <1>4, <2>3, <3>1 DEF Ahead, Nothing
    <3>3. w - 0 = w /\ w * ticks \in Nat
      OBVIOUS
    <3>4. QED
      BY <3>2, <3>3
  <2>5. PICK u \in Nat : u = (c + w * ticks) \div TicksPerDay /\ u <= w * days
    BY <2>2, UnitsOfDays
  <2>6. PICK d \in Nat : d = Draws(b, r)
    BY <1>1, KindsAre, DrawsType
  <2>7. calls[b] = d * u
    BY <1>5, <2>1, <2>2, <2>4, <2>5, <2>6 DEF Calls
  <2>8. wants[b] = d * (w * days)
    BY <1>6, <2>3, <2>6 DEF KindWants
  <2>9. PICK y \in Nat : y = w * days
    OBVIOUS
  <2>10. d * u <= d * y
    BY <2>5, <2>9, ProductsGrow
  <2>11. QED
    BY <2>7, <2>8, <2>9, <2>10
<1>8. Total(calls) <= Total(wants)
  BY <1>1, <1>7, TotalShrinks
<1>9. Total(calls) \in Nat /\ Total(wants) \in Nat
  BY <1>1, TotalIsNumber
<1>10. QED
  BY <1>2, <1>3, <1>4, <1>5, <1>6, <1>8, <1>9

LEMMA StockCoversAll ==
  ASSUME SettlementTypeOK, NEW ticks \in Nat, NothingMissing(ticks)
  PROVE  Stocked(SettlementNow, Ahead(Nothing, 0, ticks), FoodNeeded * ticks)
<1>1. PICK days \in Nat : days = HorizonDays(ticks) /\ ticks <= days * TicksPerDay
  BY HorizonIs
<1>2. SettlementNow.rest = remainders /\ SettlementNow.storage = storage /\ SettlementNow \in LivedStates
  BY NowIsLived DEF SettlementNow
<1>3. PICK eats \in Nat : eats = FoodNeeded
  BY FoodNeededType DEF U64
<1>4. ASSUME NEW r \in NeededResources
      PROVE  Total(Calls(remainders, Ahead(Nothing, 0, ticks), r)) + Meals(remainders, FoodNeeded * ticks, r)
               <= storage[r]
  <2>1. PICK f \in [SUBSET Known -> Nat] :
          /\ IsSum(f, Known, Wants(r))
          /\ ExactDailyNeed(r) = (IF r = Food THEN FoodNeeded ELSE 0) + f[Known]
    BY NeedsAddUp
  <2>2. PICK drawn \in Nat : drawn = f[Known]
    OBVIOUS
  <2>3. PICK people \in Nat : people = IF r = Food THEN eats ELSE 0
    OBVIOUS
  <2>4. ExactDailyNeed(r) = people + drawn
    BY <1>3, <2>1, <2>2, <2>3
  <2>5. PICK need \in Nat : need = ExactDailyNeed(r) /\ need = people + drawn
    BY <2>4
  <2>6. MissingOver(r, ticks) = 0 /\ ~MultiplyOverflows(need, days)
    BY <1>1, <2>5 DEF NothingMissing
  <2>7. need * days <= storage[r]
    BY <1>1, <2>5, <2>6, DaysAreStored
  <2>8. PICK i \in Nat : i = Total(Calls(remainders, Ahead(Nothing, 0, ticks), r))
                         /\ i <= Total(KindWants(r, Len(buildings), days))
    BY <1>1, CallsOfDays
  <2>9. PICK j \in Nat : j = Total(KindWants(r, Len(buildings), days))
    BY <1>1, CallsOfDays
  <2>10. j <= drawn * days
    BY <2>1, <2>2, <2>9, KindsWantNoMore
  <2>11. PICK m \in Nat : m = Meals(remainders, FoodNeeded * ticks, r) /\ m <= people * days
    <3>1. CASE r = Food
      <4>1. PICK key \in Keys : key = <<"food", Food>>
        BY KeysAreKeys
      <4>2. PICK c \in Nat : c = remainders[key] /\ c < TicksPerDay
        BY <1>2, RestsAreSmall
      <4>3. PICK u \in Nat : u = (c + eats * ticks) \div TicksPerDay /\ u <= eats * days
        BY <1>1, <4>2, UnitsOfDays
      <4>4. Meals(remainders, FoodNeeded * ticks, r) = u
        BY <1>3, <3>1, <4>1, <4>2, <4>3 DEF Meals
      <4>5. QED
        BY <2>3, <3>1, <4>3, <4>4
    <3>2. CASE r # Food
      <4>1. Meals(remainders, FoodNeeded * ticks, r) = 0 /\ people = 0
        BY <2>3, <3>2 DEF Meals
      <4>2. 0 * days = 0
        OBVIOUS
      <4>3. QED
        BY <4>1, <4>2
    <3>3. QED
      BY <3>1, <3>2
  <2>12. (people + drawn) * days = people * days + drawn * days
    OBVIOUS
  <2>13. PICK p \in Nat, q \in Nat : p = people * days /\ q = drawn * days
    OBVIOUS
  <2>14. PICK h \in Nat : h = storage[r]
    BY NeededAre DEF SettlementTypeOK, Storages, U64
  <2>15. i <= j /\ j <= q /\ m <= p /\ p + q <= h
    BY <2>5, <2>7, <2>8, <2>9, <2>10, <2>11, <2>12, <2>13, <2>14
  <2>16. i + m <= h
    BY <2>15
  <2>17. QED
    BY <2>8, <2>11, <2>14, <2>16
<1>5. QED
  BY <1>2, <1>4 DEF Stocked

LEMMA PlanCoversNow ==
  ASSUME SettlementTypeOK
  PROVE  PlanCoversTheHorizon
<1> SUFFICES ASSUME NEW ticks \in U64, NothingMissing(ticks), NEW a \in 0 .. ticks
             PROVE  Lived(Lived(SettlementNow, a), ticks - a).short \subseteq {"room"}
  BY DEF PlanCoversTheHorizon
<1>1. buildings \in Seq(BuildingInstances)
  BY DEF SettlementTypeOK
<1>2. ticks \in Nat /\ a \in Nat
  BY DEF U64
<1>3. PICK rest \in Nat : rest = ticks - a /\ ticks = a + rest
  BY <1>2
<1>4. PICK now \in LivedStates : now = SettlementNow /\ now.short \subseteq {"room"}
  BY NowIsLived DEF SettlementNow
<1>5. PICK mid \in LivedStates : mid = Lived(now, a)
  BY <1>1, <1>2, LivedIs
<1>6. PICK eats \in Nat : eats = FoodNeeded
  BY FoodNeededType DEF U64
<1>7. PICK N \in Nat : N = Len(buildings) /\ N \in 0 .. N /\ 0 \in 0 .. N
  BY <1>1
<1>8. Nothing \in [Kinds -> Nat]
  BY DEF Nothing
<1>9. PICK left \in [Kinds -> Nat] : left = Ahead(Nothing, 0, rest)
  BY <1>1, <1>7, <1>8, AheadType
<1>10. PICK later \in Nat : later = eats * rest
  OBVIOUS
<1>11. Ahead(Nothing, 0, ticks) = Ahead(left, 0, a)
  <2>1. ASSUME NEW b \in Kinds
        PROVE  Nothing[b] + (HandsTo(b)[Len(buildings)] - HandsTo(b)[0]) * ticks
                 = left[b] + (HandsTo(b)[Len(buildings)] - HandsTo(b)[0]) * a
    <3>1. PICK w \in Nat : w = HandsTo(b)[Len(buildings)] - HandsTo(b)[0]
      <4>1. HandsTo(b)[0] = 0 /\ HandsTo(b)[N] \in Nat
        BY <1>1, <1>7, HandsToIs
      <4>2. QED
        BY <1>7, <4>1
    <3>2. left[b] = 0 + w * rest
      BY <1>9, <3>1 DEF Ahead, Nothing
    <3>3. w * ticks = w * a + w * rest
      BY <1>2, <1>3
    <3>4. PICK p \in Nat, q \in Nat : p = w * a /\ q = w * rest
      BY <1>2
    <3>5. QED
      BY <3>1, <3>2, <3>3, <3>4 DEF Nothing
  <2>2. QED
    BY <2>1 DEF Ahead
<1>12. FoodNeeded * ticks = later + FoodNeeded * a
  <2>1. eats * ticks = eats * a + eats * rest
    BY <1>2, <1>3
  <2>2. PICK p \in Nat : p = eats * a
    BY <1>2
  <2>3. QED
    BY <1>6, <1>10, <2>1, <2>2
<1>13. Stocked(now, Ahead(left, 0, a), later + FoodNeeded * a)
  <2>1. Stocked(now, Ahead(Nothing, 0, ticks), FoodNeeded * ticks)
    BY <1>2, <1>4, StockCoversAll
  <2>2. QED
    BY <1>11, <1>12, <2>1
<1>14. Stocked(mid, left, later) /\ mid.short \subseteq {"room"}
  BY <1>2, <1>4, <1>5, <1>13, SpanFromStock
<1>15. Stocked(mid, Ahead(Nothing, 0, rest), 0 + FoodNeeded * rest)
  <2>1. later = 0 + FoodNeeded * rest
    BY <1>6, <1>10
  <2>2. QED
    BY <1>9, <1>14, <2>1
<1>16. Lived(mid, rest).short \subseteq {"room"}
  BY <1>8, <1>14, <1>15, SpanFromStock
<1>17. QED
  BY <1>3, <1>4, <1>5, <1>16

(* For every registry, width, length of a day and number of buildings: a   *)
(* settlement whose plan misses nothing, and whose needs the type can hold,*)
(* lives through the horizon of the plan with neither food nor inputs ever *)
(* short, in one step of the clock or in two.                              *)
THEOREM PlansCoverTheHorizon == DevelopmentSpec => []PlanCoversTheHorizon
<1>1. DevelopmentInit => SettlementTypeOK /\ demands \in Storages
  BY DevelopmentStart
<1>2. SettlementTypeOK /\ demands \in Storages /\ [DevelopmentNext]_developmentVars =>
        (SettlementTypeOK /\ demands \in Storages)'
  BY DevelopmentStep, SettlementStep
<1>3. SettlementTypeOK => PlanCoversTheHorizon
  BY PlanCoversNow
<1>4. QED
  BY <1>1, <1>2, <1>3, PTL DEF DevelopmentSpec

-----------------------------------------------------------------------------
(* The plan and the market: sets, sums and extremes.                       *)

LEMMA FiniteImage ==
  ASSUME NEW S, IsFiniteSet(S), NEW f, f = [x \in S |-> f[x]]
  PROVE  IsFiniteSet({f[x] : x \in S})
<1> DEFINE T == {f[x] : x \in S}
<1>1. f \in Surjection(S, T)
  BY DEF Surjection
<1> HIDE DEF T
<1>2. IsFiniteSet(T)
  BY <1>1, FS_Surjection, Zenon
<1>3. QED
  BY <1>2 DEF T

(* A sum lies between its number of terms times the least of them and its  *)
(* number of terms times the greatest.                                     *)
LEMMA SumBetween ==
  ASSUME NEW D, IsFiniteSet(D), NEW w \in [D -> Nat], NEW f \in [SUBSET D -> Nat], IsSum(f, D, w),
         NEW lo \in Nat, NEW hi \in Nat, \A d \in D : lo <= w[d] /\ w[d] <= hi
  PROVE  lo * Cardinality(D) <= f[D] /\ f[D] <= hi * Cardinality(D)
<1> DEFINE P == {S \in SUBSET D : lo * Cardinality(S) <= f[S] /\ f[S] <= hi * Cardinality(S)}
<1>1. \A S \in SUBSET D : f[S] = IF S = {} THEN 0 ELSE w[AnyOf(S)] + f[S \ {AnyOf(S)}]
  BY DEF IsSum
<1>2. {} \in P
  <2>1. f[{}] = 0
    BY <1>1
  <2>2. Cardinality({}) = 0 /\ lo * 0 = 0 /\ hi * 0 = 0
    BY FS_EmptySet
  <2>3. QED
    BY <2>1, <2>2
<1>3. ASSUME NEW S \in SUBSET D, S # {}, S \ {AnyOf(S)} \in P PROVE S \in P
  <2> DEFINE a == AnyOf(S)
             R == S \ {a}
  <2>1. a \in D /\ R \in SUBSET D
    BY <1>3, AnyOfIsIn
  <2>2. PICK c \in Nat : c = Cardinality(R) /\ Cardinality(S) = c + 1
    <3>1. Cardinality(S) \in Nat /\ Cardinality(S) # 0 /\ Cardinality(R) = Cardinality(S) - 1
      BY <1>3, OneLess
    <3>2. QED
      BY <3>1
  <2>3. f[S] = w[a] + f[R]
    BY <1>1, <1>3
  <2>4. lo * c <= f[R] /\ f[R] <= hi * c
    BY <1>3, <2>2
  <2> HIDE DEF a, R
  <2>5. PICK x \in Nat : x = w[a] /\ lo <= x /\ x <= hi
    BY <2>1
  <2>6. PICK y \in Nat : y = f[R]
    BY <2>1
  <2>7. PICK p \in Nat, q \in Nat : p = lo * c /\ q = hi * c
    OBVIOUS
  <2>8. lo * (c + 1) = p + lo /\ hi * (c + 1) = q + hi
    <3>1. lo * (c + 1) = lo * c + lo /\ hi * (c + 1) = hi * c + hi
      OBVIOUS
    <3>2. QED
      BY <2>7, <3>1
  <2>9. p + lo <= x + y /\ x + y <= q + hi
    BY <2>4, <2>5, <2>6, <2>7
  <2>10. lo * Cardinality(S) <= f[S] /\ f[S] <= hi * Cardinality(S)
    BY <2>2, <2>3, <2>5, <2>6, <2>8, <2>9
  <2>11. QED
    BY <2>10
<1> HIDE DEF P
<1>4. \A S \in SUBSET D : S \in P
  BY <1>2, <1>3, SetInduction
<1>5. QED
  BY <1>4 DEF P

LEMMA Extremes ==
  ASSUME NEW D, IsFiniteSet(D), D \subseteq Nat, D # {}
  PROVE  /\ Min(D) \in D /\ Max(D) \in D
         /\ \A y \in D : Min(D) <= y /\ y <= Max(D)
<1>1. PICK low \in D : \A y \in D : low <= y
  BY LeastNumber
<1> DEFINE P == {S \in SUBSET D : S = {} \/ \E m \in S : \A y \in S : m >= y}
<1>2. {} \in P
  OBVIOUS
<1>3. ASSUME NEW S \in SUBSET D, S # {}, S \ {AnyOf(S)} \in P PROVE S \in P
  <2>1. PICK a \in S : a = AnyOf(S)
    BY <1>3, AnyOfIsIn
  <2>2. CASE S \ {a} = {}
    <3>1. \A y \in S : y = a
      BY <2>2
    <3>2. a >= a
      OBVIOUS
    <3>3. QED
      BY <3>1, <3>2
  <2>3. CASE S \ {a} # {}
    <3>1. PICK m \in S \ {a} : \A y \in S \ {a} : m >= y
      BY <1>3, <2>1, <2>3
    <3>2. a \in Nat /\ m \in Nat /\ \A y \in S : y \in Nat
      BY <3>1
    <3>3. CASE a >= m
      <4>1. \A y \in S : a >= y
        BY <3>1, <3>2, <3>3
      <4>2. QED
        BY <4>1
    <3>4. CASE ~(a >= m)
      <4>1. \A y \in S : m >= y
        BY <3>1, <3>2, <3>4
      <4>2. QED
        BY <3>1, <4>1
    <3>5. QED
      BY <3>3, <3>4
  <2>4. QED
    BY <2>2, <2>3
<1> HIDE DEF P
<1>4. \A S \in SUBSET D : S \in P
  BY <1>2, <1>3, SetInduction
<1>5. D \in P
  BY <1>4
<1>6. PICK high \in D : \A y \in D : high >= y
  BY <1>5 DEF P
<1>7. Min(D) \in D /\ \A y \in D : Min(D) <= y
  BY <1>1, Zenon DEF Min
<1>8. Max(D) \in D /\ \A y \in D : Max(D) >= y
  BY <1>6, Zenon DEF Max
<1>9. QED
  BY <1>7, <1>8

-----------------------------------------------------------------------------
(* What the market quotes.                                                 *)

LEMMA QuotedIs ==
  ASSUME SettlementTypeOK, demands \in Storages
  PROVE  /\ IsFiniteSet(DOMAIN Quoted) /\ DOMAIN Quoted \subseteq Resource
         /\ \A r \in Resource :
              /\ storage[r] \in U64 /\ demands[r] \in U64 /\ Bases[r] \in U64
              /\ r \in DOMAIN Quoted <=> storage[r] > 0 \/ demands[r] > 0
         /\ \A r \in DOMAIN Quoted :
              /\ Quoted[r] = [supply |-> storage[r], demand |-> demands[r], base |-> BaseValue(Bases[r]),
                              price |-> Price(Bases[r], storage[r], demands[r])]
              /\ Quoted[r].price \in 1 .. MaxU64
<1>1. DOMAIN Quoted = {r \in Resource : storage[r] > 0 \/ demands[r] > 0}
  BY DevelopmentAssumption DEF Quoted, Quotes
<1>2. IsFiniteSet(DOMAIN Quoted)
  BY <1>1, DevelopmentAssumption, FS_Subset
<1>3. \A r \in Resource : storage[r] \in U64 /\ demands[r] \in U64 /\ Bases[r] \in U64
  BY DevelopmentAssumption DEF SettlementTypeOK, Storages
<1>4. \A r \in DOMAIN Quoted :
        Quoted[r] = [supply |-> storage[r], demand |-> demands[r], base |-> BaseValue(Bases[r]),
                     price |-> Price(Bases[r], storage[r], demands[r])]
  BY DevelopmentAssumption DEF Quoted, Quotes
<1>5. ASSUME NEW r \in DOMAIN Quoted PROVE Quoted[r].price \in 1 .. MaxU64
  <2>1. Price(Bases[r], storage[r], demands[r]) \in 1 .. MaxU64
    BY <1>1, <1>3, PriceSides
  <2>2. QED
    BY <1>4, <2>1
<1>6. QED
  BY <1>1, <1>2, <1>3, <1>4, <1>5

LEMMA Ranks == Rank("low") = 0 /\ Rank("normal") = 1 /\ Rank("high") = 2 /\ Rank("critical") = 3
BY DEF Rank

LEMMA MissingType ==
  ASSUME SettlementTypeOK, NEW ticks \in U64, NEW r \in NeededResources
  PROVE  MissingOver(r, ticks) \in Nat
<1>1. PICK need \in Nat : need = ExactDailyNeed(r)
  <2>1. PICK f \in [SUBSET Known -> Nat] :
          /\ IsSum(f, Known, Wants(r))
          /\ ExactDailyNeed(r) = (IF r = Food THEN FoodNeeded ELSE 0) + f[Known]
    BY NeedsAddUp
  <2>2. f[Known] \in Nat /\ FoodNeeded \in Nat
    BY FoodNeededType DEF U64
  <2>3. QED
    BY <2>1, <2>2
<1>2. DailyNeed(r) \in Nat
  BY <1>1, TicksPerDayPositive DEF DailyNeed, AtMost
<1>3. HorizonDays(ticks) \in Nat
  BY HorizonIs DEF U64
<1>4. PICK required \in Nat : required = SaturatingMultiply(DailyNeed(r), HorizonDays(ticks))
  <2>1. PICK p \in Nat : p = DailyNeed(r) * HorizonDays(ticks)
    BY <1>2, <1>3
  <2>2. QED
    BY <2>1, TicksPerDayPositive DEF SaturatingMultiply
<1>5. PICK held \in Nat : held = storage[r]
  BY NeededAre DEF SettlementTypeOK, Storages, U64
<1>6. MissingOver(r, ticks) = IF required > held THEN required - held ELSE 0
  BY <1>4, <1>5 DEF MissingOver
<1>7. QED
  BY <1>6

LEMMA NeedsArePressing ==
  ASSUME SettlementTypeOK, demands \in Storages, NEW ticks \in U64, NEW r \in NeededResources
  PROVE  NeedPriority(r, ticks) \in {"high", "critical"} <=>
           \/ MissingOver(r, ticks) > 0
           \/ r \in DOMAIN Quoted /\ Quoted[r].price > Quoted[r].base
           \/ r \in DOMAIN Quoted /\ Quoted[r].base = MaxU64 /\ demands[r] > storage[r]
<1>1. PICK miss \in Nat : miss = MissingOver(r, ticks)
  BY MissingType
<1>2. r \in Resource
  BY NeededAre
<1>3. PICK supply \in Nat : supply = storage[r] /\ supply \in U64
  BY <1>2, QuotedIs DEF U64
<1>4. PICK demand \in Nat : demand = demands[r] /\ demand \in U64
  BY <1>2, QuotedIs DEF U64
<1>5. PICK base \in U64 : base = Bases[r]
  BY <1>2, QuotedIs
<1>6. r \in DOMAIN Quoted <=> supply > 0 \/ demand > 0
  BY <1>2, <1>3, <1>4, QuotedIs
<1>7. PICK pressure : pressure = PressureOn(r)
  OBVIOUS
<1>8. /\ pressure \in {"depleted", "shortage", "balanced", "surplus"}
      /\ pressure \in {"depleted", "shortage"} <=> demand > supply
  <2>1. CASE r \in DOMAIN Quoted
    <3>1. Quoted[r].supply = supply /\ Quoted[r].demand = demand
      BY <1>3, <1>4, <2>1, QuotedIs
    <3>2. pressure = Pressure(supply, demand)
      BY <1>7, <2>1, <3>1 DEF PressureOn
    <3>3. QED
      BY <3>2 DEF Pressure
  <2>2. CASE r \notin DOMAIN Quoted
    <3>1. pressure = "balanced" /\ ~(demand > supply)
      BY <1>6, <1>7, <2>2 DEF PressureOn
    <3>2. QED
      BY <3>1
  <2>3. QED
    BY <2>1, <2>2
<1>9. PICK p : p = PriorityOfMissing(miss)
  OBVIOUS
<1>10. p \in {"critical", "high", "normal"} /\ (p \in {"high", "critical"} <=> miss > 0)
  <2>1. PICK limit \in Nat : limit = CriticalAmount /\ limit > 0
    BY DevelopmentAssumption DEF U64
  <2>2. QED
    BY <1>9, <2>1 DEF PriorityOfMissing
<1>11. PICK q : q = PriorityOfPressure(pressure)
  OBVIOUS
<1>12. q \in {"critical", "high", "normal", "low"} /\ (q \in {"high", "critical"} <=> demand > supply)
  <2>1. q = CASE pressure = "depleted" -> "critical"
              [] pressure = "shortage" -> "high"
              [] pressure = "balanced" -> "normal"
              [] pressure = "surplus"  -> "low"
    BY <1>11 DEF PriorityOfPressure
  <2>2. QED
    BY <1>8, <2>1
<1>13. NeedPriority(r, ticks) \in {"high", "critical"} <=> miss > 0 \/ demand > supply
  <2>1. NeedPriority(r, ticks) = IF Rank(p) >= Rank(q) THEN p ELSE q
    BY <1>1, <1>7, <1>9, <1>11 DEF NeedPriority, MorePressing
  <2>2. (IF Rank(p) >= Rank(q) THEN p ELSE q) \in {"high", "critical"} <=>
          p \in {"high", "critical"} \/ q \in {"high", "critical"}
    BY <1>10, <1>12, Ranks
  <2>3. QED
    BY <1>10, <1>12, <2>1, <2>2
<1>14. demand > supply <=> \/ r \in DOMAIN Quoted /\ Quoted[r].price > Quoted[r].base
                           \/ r \in DOMAIN Quoted /\ Quoted[r].base = MaxU64 /\ demand > supply
  <2>1. CASE r \in DOMAIN Quoted
    <3>1. Quoted[r].price = Price(base, supply, demand) /\ Quoted[r].base = BaseValue(base)
      BY <1>3, <1>4, <1>5, <2>1, QuotedIs
    <3>2. PICK price \in 1 .. MaxU64 : price = Price(base, supply, demand)
      BY <1>3, <1>4, PriceSides
    <3>3. PICK value \in 1 .. MaxU64 : value = BaseValue(base)
      BY BaseIsPositive
    <3>4. /\ supply >= demand => price <= value
          /\ demand > supply => price > value \/ price = MaxU64
      BY <1>3, <1>4, <3>2, <3>3, PriceSides
    <3>5. demand > supply <=> price > value \/ (value = MaxU64 /\ demand > supply)
      BY <3>4, TicksPerDayPositive
    <3>6. QED
      BY <2>1, <3>1, <3>2, <3>3, <3>5
  <2>2. CASE r \notin DOMAIN Quoted
    BY <1>6, <2>2
  <2>3. QED
    BY <2>1, <2>2
<1>15. QED
  BY <1>1, <1>3, <1>4, <1>13, <1>14

-----------------------------------------------------------------------------
(* The opportunities of a plan.                                            *)

LEMMA EveryBuildingIsSeen ==
  ASSUME SettlementTypeOK, NEW k \in DOMAIN buildings
  PROVE  (\E o \in Opportunities : o.building = k) \/ Definition(k).slots = 0
<1>1. CASE k \notin Known
  <2>1. PICK o : o = Opportunity(k, "register_definition", 0, "critical")
    OBVIOUS
  <2>2. o \in Registrations
    BY <1>1, <2>1 DEF Registrations
  <2>3. o.building = k
    BY <2>1 DEF Opportunity
  <2>4. QED
    BY <2>2, <2>3 DEF Opportunities
<1>2. CASE k \in Known
  <2>1. PICK slots \in Nat : slots = Definition(k).slots
    <3>1. buildings[k].definition \in BuildingId
      BY <1>2, KnownAre
    <3>2. QED
      BY <3>1, SettlementAssumption DEF Definition, BuildingDefinitions, U64
  <2>2. PICK workers \in Nat : workers = buildings[k].workers
    BY <1>2, KnownAre DEF U64
  <2>3. CASE workers < slots
    <3>1. IdleSlots(k) > 0
      BY <2>1, <2>2, <2>3 DEF IdleSlots
    <3>2. PICK o : o = Opportunity(k, "assign_workers", 0, "normal")
      OBVIOUS
    <3>3. o \in Opportunities
      BY <1>2, <3>1, <3>2 DEF Opportunities
    <3>4. o.building = k
      BY <3>2 DEF Opportunity
    <3>5. QED
      BY <3>3, <3>4
  <2>4. CASE MissingInputs(k) # {}
    <3>1. PICK n \in MissingInputs(k) : TRUE
      BY <2>4
    <3>2. PICK o : o = Opportunity(k, "import_input", n, "high")
      OBVIOUS
    <3>3. o \in Imports
      BY <1>2, <3>1, <3>2 DEF Imports
    <3>4. o.building = k
      BY <3>2 DEF Opportunity
    <3>5. QED
      BY <3>3, <3>4 DEF Opportunities
  <2>5. CASE PressuredOutputs(k) # {}
    <3>1. PICK n \in PressuredOutputs(k) : TRUE
      BY <2>5
    <3>2. PICK o : o = Opportunity(k, "expand_output", n, PriorityOfPressure(PressureOn(Definition(k).outputs[n])))
      OBVIOUS
    <3>3. o \in Expansions
      BY <1>2, <3>1, <3>2 DEF Expansions
    <3>4. o.building = k
      BY <3>2 DEF Opportunity
    <3>5. QED
      BY <3>3, <3>4 DEF Opportunities
  <2>6. CASE slots # 0 /\ ~(workers < slots) /\ MissingInputs(k) = {} /\ PressuredOutputs(k) = {}
    <3>1. k \in Active
      BY <1>2, <2>1, <2>2, <2>6 DEF Active
    <3>2. PICK o : o = Opportunity(k, "keep_running", 0, "low")
      OBVIOUS
    <3>3. o \in Opportunities
      BY <2>6, <3>1, <3>2 DEF Opportunities
    <3>4. o.building = k
      BY <3>2 DEF Opportunity
    <3>5. QED
      BY <3>3, <3>4
  <2>7. QED
    BY <2>1, <2>3, <2>4, <2>5, <2>6
<1>3. QED
  BY <1>1, <1>2

LEMMA PlacesAreFew ==
  ASSUME SettlementTypeOK, NEW k \in Known
  PROVE  IsFiniteSet(MissingInputs(k)) /\ IsFiniteSet(PressuredOutputs(k))
<1>1. PICK b \in BuildingId : b = buildings[k].definition /\ Definition(k) = Definitions[b]
  BY KnownAre DEF Definition
<1>2. PICK inputs \in Seq(Resource) : inputs = Definition(k).inputs
  BY <1>1, SettlementAssumption DEF BuildingDefinitions
<1>3. PICK outputs \in Seq(Resource) : outputs = Definition(k).outputs
  BY <1>1, SettlementAssumption DEF BuildingDefinitions
<1>4. ASSUME NEW items \in Seq(Resource) PROVE IsFiniteSet(DOMAIN items)
  <2>1. PICK N \in Nat : N = Len(items) /\ DOMAIN items = 1 .. N
    OBVIOUS
  <2>2. QED
    BY <2>1, UpTo
<1>5. MissingInputs(k) \subseteq DOMAIN inputs /\ PressuredOutputs(k) \subseteq DOMAIN outputs
  BY <1>2, <1>3 DEF MissingInputs, PressuredOutputs
<1>6. QED
  BY <1>4, <1>5, FS_Subset

LEMMA OpportunitiesAreFew ==
  ASSUME SettlementTypeOK
  PROVE  IsFiniteSet(Registrations) /\ IsFiniteSet(Imports) /\ IsFiniteSet(Expansions)
<1>1. IsFiniteSet(Known) /\ IsFiniteSet(DOMAIN buildings \ Known)
  <2>1. buildings \in Seq(BuildingInstances)
    BY DEF SettlementTypeOK
  <2>2. PICK N \in Nat : N = Len(buildings) /\ DOMAIN buildings = 1 .. N
    BY <2>1
  <2>3. IsFiniteSet(DOMAIN buildings)
    BY <2>2, UpTo
  <2>4. QED
    BY <2>3, KnownAre, FS_Subset
<1>2. IsFiniteSet(Registrations)
  <2>1. PICK S : S = DOMAIN buildings \ Known
    OBVIOUS
  <2>2. PICK f : f = [k \in S |-> Opportunity(k, "register_definition", 0, "critical")]
    OBVIOUS
  <2>3. IsFiniteSet({f[k] : k \in S})
    BY <1>1, <2>1, <2>2, FiniteImage
  <2>4. Registrations = {f[k] : k \in S}
    BY <2>1, <2>2 DEF Registrations
  <2>5. QED
    BY <2>3, <2>4
<1>3. IsFiniteSet(Imports)
  <2>1. PICK f : f = [k \in Known |-> {Opportunity(k, "import_input", n, "high") : n \in MissingInputs(k)}]
    OBVIOUS
  <2>2. ASSUME NEW k \in Known PROVE IsFiniteSet(f[k])
    <3>1. PICK S : S = MissingInputs(k) /\ IsFiniteSet(S)
      BY PlacesAreFew
    <3>2. PICK g : g = [n \in S |-> Opportunity(k, "import_input", n, "high")]
      OBVIOUS
    <3>3. IsFiniteSet({g[n] : n \in S})
      BY <3>1, <3>2, FiniteImage
    <3>4. f[k] = {g[n] : n \in S}
      BY <2>1, <3>1, <3>2
    <3>5. QED
      BY <3>3, <3>4
  <2>3. IsFiniteSet({f[k] : k \in Known})
    <3>1. f = [k \in Known |-> f[k]]
      BY <2>1
    <3>2. QED
      BY ONLY <1>1, <3>1, FiniteImage
  <2>4. IsFiniteSet(UNION {f[k] : k \in Known})
    BY <2>2, <2>3, FS_UNION
  <2>5. Imports = UNION {f[k] : k \in Known}
    BY <2>1 DEF Imports
  <2>6. QED
    BY <2>4, <2>5
<1>4. IsFiniteSet(Expansions)
  <2>1. PICK f : f = [k \in Known |->
                        {Opportunity(k, "expand_output", n, PriorityOfPressure(PressureOn(Definition(k).outputs[n]))) :
                           n \in PressuredOutputs(k)}]
    OBVIOUS
  <2>2. ASSUME NEW k \in Known PROVE IsFiniteSet(f[k])
    <3>1. PICK S : S = PressuredOutputs(k) /\ IsFiniteSet(S)
      BY PlacesAreFew
    <3>2. PICK g : g = [n \in S |-> Opportunity(k, "expand_output", n,
                                                PriorityOfPressure(PressureOn(Definition(k).outputs[n])))]
      OBVIOUS
    <3>3. IsFiniteSet({g[n] : n \in S})
      BY <3>1, <3>2, FiniteImage
    <3>4. f[k] = {g[n] : n \in S}
      BY <2>1, <3>1, <3>2
    <3>5. QED
      BY <3>3, <3>4
  <2>3. IsFiniteSet({f[k] : k \in Known})
    <3>1. f = [k \in Known |-> f[k]]
      BY <2>1
    <3>2. QED
      BY ONLY <1>1, <3>1, FiniteImage
  <2>4. IsFiniteSet(UNION {f[k] : k \in Known})
    BY <2>2, <2>3, FS_UNION
  <2>5. Expansions = UNION {f[k] : k \in Known}
    BY <2>1 DEF Expansions
  <2>6. QED
    BY <2>4, <2>5
<1>5. QED
  BY <1>2, <1>3, <1>4

(* What the plan counts as it grows is what a host would count in it.      *)
LEMMA HighAreCounted ==
  ASSUME SettlementTypeOK
  PROVE  HighCount = Cardinality({o \in Opportunities : Rank(o.priority) >= Rank("high")})
<1> DEFINE High(S) == {o \in S : Rank(o.priority) >= Rank("high")}
<1>1. \A o \in Registrations : o.action = "register_definition" /\ o.priority = "critical"
  BY DEF Registrations, Opportunity
<1>2. ASSUME NEW o \in Imports PROVE o.action = "import_input" /\ o.priority = "high"
  <2>1. PICK k \in Known : o \in {Opportunity(k, "import_input", n, "high") : n \in MissingInputs(k)}
    BY DEF Imports
  <2>2. QED
    BY <2>1 DEF Opportunity
<1>3. ASSUME NEW o \in Expansions PROVE o.action = "expand_output"
  <2>1. PICK k \in Known :
          o \in {Opportunity(k, "expand_output", n, PriorityOfPressure(PressureOn(Definition(k).outputs[n]))) :
                   n \in PressuredOutputs(k)}
    BY DEF Expansions
  <2>2. QED
    BY <2>1 DEF Opportunity
<1> DEFINE Assigned == {Opportunity(k, "assign_workers", 0, "normal") : k \in {k \in Known : IdleSlots(k) > 0}}
           Kept == {Opportunity(k, "keep_running", 0, "low") : k \in {k \in Active : PressuredOutputs(k) = {}}}
<1>4. /\ \A o \in Assigned : o.priority = "normal"
      /\ \A o \in Kept : o.priority = "low"
  BY DEF Opportunity
<1>5. Opportunities = Registrations \cup Imports \cup Expansions \cup Assigned \cup Kept
  BY DEF Opportunities
<1> HIDE DEF Assigned, Kept
<1>6. High(Opportunities) = (Registrations \cup Imports) \cup High(Expansions)
  <2>1. /\ \A o \in Registrations : Rank(o.priority) >= Rank("high")
        /\ \A o \in Imports : Rank(o.priority) >= Rank("high")
        /\ \A o \in Assigned : ~(Rank(o.priority) >= Rank("high"))
        /\ \A o \in Kept : ~(Rank(o.priority) >= Rank("high"))
    BY <1>1, <1>2, <1>4, Ranks
  <2>2. QED
    BY <1>5, <2>1
<1>7. Registrations \cap Imports = {} /\ (Registrations \cup Imports) \cap High(Expansions) = {}
  <2>1. ASSUME NEW o \in Registrations PROVE o \notin Imports /\ o \notin Expansions
    <3>1. o.action = "register_definition"
      BY <1>1
    <3>2. QED
      BY <1>2, <1>3, <3>1
  <2>2. ASSUME NEW o \in Imports PROVE o \notin Expansions
    <3>1. o.action = "import_input"
      BY <1>2
    <3>2. QED
      BY <1>3, <3>1
  <2>3. QED
    BY <2>1, <2>2
<1>8. IsFiniteSet(Registrations) /\ IsFiniteSet(Imports) /\ IsFiniteSet(High(Expansions))
  <2>1. High(Expansions) \subseteq Expansions
    OBVIOUS
  <2>2. QED
    BY <2>1, OpportunitiesAreFew, FS_Subset
<1>9. HighCount = Cardinality(Registrations) + Cardinality(Imports) + Cardinality(High(Expansions))
  BY DEF HighCount
<1>10. High(Opportunities) = {o \in Opportunities : Rank(o.priority) >= Rank("high")}
  OBVIOUS
<1> HIDE DEF High
<1>11. /\ IsFiniteSet(Registrations \cup Imports)
       /\ Cardinality(Registrations \cup Imports) = Cardinality(Registrations) + Cardinality(Imports)
  BY <1>7, <1>8, ApartAddUp
<1>12. Cardinality((Registrations \cup Imports) \cup High(Expansions))
         = Cardinality(Registrations \cup Imports) + Cardinality(High(Expansions))
  BY <1>7, <1>8, <1>11, ApartAddUp
<1>13. QED
  BY <1>6, <1>9, <1>10, <1>11, <1>12

-----------------------------------------------------------------------------
(* The sums of a plan and of a market.                                     *)

SlotsOf == [k \in Known |-> Definition(k).slots]

WorkersOf == [k \in Known |-> buildings[k].workers]

LEMMA HandsType ==
  ASSUME SettlementTypeOK
  PROVE  IsFiniteSet(Known) /\ SlotsOf \in [Known -> Nat] /\ WorkersOf \in [Known -> Nat]
<1>1. ASSUME NEW k \in Known PROVE Definition(k).slots \in Nat /\ buildings[k].workers \in Nat
  <2>1. buildings[k].definition \in BuildingId /\ buildings[k].workers \in U64
    BY KnownAre
  <2>2. QED
    BY <2>1, SettlementAssumption DEF Definition, BuildingDefinitions, U64
<1>2. QED
  BY <1>1, KnownAre DEF SlotsOf, WorkersOf

LEMMA SlotsAddUp ==
  ASSUME SettlementTypeOK
  PROVE  \E f \in [SUBSET Known -> Nat] : IsSum(f, Known, SlotsOf) /\ TotalSlots = AtMost(f[Known], MaxU64)
<1> DEFINE Eq(f) == f = [S \in SUBSET Known |->
                           IF S = {} THEN 0 ELSE Definition(AnyOf(S)).slots + f[S \ {AnyOf(S)}]]
           sum == CHOOSE f : Eq(f)
           all == MapThenSumSet(LAMBDA k : Definition(k).slots, Known)
<1>1. all = sum[Known]
  BY Zenon DEF MapThenSumSet, MapThenFoldSet, AnyOf
<1>2. TotalSlots = AtMost(all, MaxU64)
  BY Zenon DEF TotalSlots
<1> HIDE DEF all
<1>3. IsFiniteSet(Known) /\ SlotsOf \in [Known -> Nat]
  BY HandsType
<1>4. ASSUME NEW S \in SUBSET Known, S # {} PROVE SlotsOf[AnyOf(S)] = Definition(AnyOf(S)).slots
  <2>1. PICK a \in Known : a = AnyOf(S)
    BY <1>4, AnyOfIsIn
  <2>2. SlotsOf[a] = Definition(a).slots
    BY DEF SlotsOf
  <2>3. QED
    BY <2>1, <2>2
<1>5. ASSUME NEW f PROVE Eq(f) <=> IsSum(f, Known, SlotsOf)
  BY <1>4, Zenon DEF IsSum
<1>6. \E f : IsSum(f, Known, SlotsOf)
  BY <1>3, SumExists
<1> HIDE DEF Eq
<1>7. Eq(sum)
  BY <1>5, <1>6, Zenon
<1>8. IsSum(sum, Known, SlotsOf)
  BY <1>5, <1>7, Zenon
<1> HIDE DEF sum
<1>9. sum \in [SUBSET Known -> Nat]
  BY <1>3, <1>8, SumType
<1>10. QED
  BY <1>1, <1>2, <1>8, <1>9

LEMMA WorkersAddUp ==
  ASSUME SettlementTypeOK
  PROVE  \E f \in [SUBSET Known -> Nat] : IsSum(f, Known, WorkersOf) /\ AssignedWorkers = AtMost(f[Known], MaxU64)
<1> DEFINE Eq(f) == f = [S \in SUBSET Known |->
                           IF S = {} THEN 0 ELSE buildings[AnyOf(S)].workers + f[S \ {AnyOf(S)}]]
           sum == CHOOSE f : Eq(f)
           all == MapThenSumSet(LAMBDA k : buildings[k].workers, Known)
<1>1. all = sum[Known]
  BY Zenon DEF MapThenSumSet, MapThenFoldSet, AnyOf
<1>2. AssignedWorkers = AtMost(all, MaxU64)
  BY Zenon DEF AssignedWorkers
<1> HIDE DEF all
<1>3. IsFiniteSet(Known) /\ WorkersOf \in [Known -> Nat]
  BY HandsType
<1>4. ASSUME NEW S \in SUBSET Known, S # {} PROVE WorkersOf[AnyOf(S)] = buildings[AnyOf(S)].workers
  <2>1. PICK a \in Known : a = AnyOf(S)
    BY <1>4, AnyOfIsIn
  <2>2. WorkersOf[a] = buildings[a].workers
    BY DEF WorkersOf
  <2>3. QED
    BY <2>1, <2>2
<1>5. ASSUME NEW f PROVE Eq(f) <=> IsSum(f, Known, WorkersOf)
  BY <1>4, Zenon DEF IsSum
<1>6. \E f : IsSum(f, Known, WorkersOf)
  BY <1>3, SumExists
<1> HIDE DEF Eq
<1>7. Eq(sum)
  BY <1>5, <1>6, Zenon
<1>8. IsSum(sum, Known, WorkersOf)
  BY <1>5, <1>7, Zenon
<1> HIDE DEF sum
<1>9. sum \in [SUBSET Known -> Nat]
  BY <1>3, <1>8, SumType
<1>10. QED
  BY <1>1, <1>2, <1>8, <1>9

LEMMA BuiltPlansAreValid ==
  ASSUME SettlementTypeOK, \A k \in Known : buildings[k].workers <= Definition(k).slots
  PROVE  AssignedWorkers <= TotalSlots
<1>1. PICK f \in [SUBSET Known -> Nat] : IsSum(f, Known, SlotsOf) /\ TotalSlots = AtMost(f[Known], MaxU64)
  BY SlotsAddUp
<1>2. PICK g \in [SUBSET Known -> Nat] : IsSum(g, Known, WorkersOf) /\ AssignedWorkers = AtMost(g[Known], MaxU64)
  BY WorkersAddUp
<1>3. IsFiniteSet(Known) /\ SlotsOf \in [Known -> Nat] /\ WorkersOf \in [Known -> Nat]
  BY HandsType
<1>4. \A k \in Known : WorkersOf[k] <= SlotsOf[k]
  BY DEF SlotsOf, WorkersOf
<1>5. g[Known] <= f[Known]
  BY <1>1, <1>2, <1>3, <1>4, SumShrinks
<1>6. PICK m \in Nat : m = f[Known]
  OBVIOUS
<1>7. PICK n \in Nat : n = g[Known]
  OBVIOUS
<1>8. QED
  BY <1>1, <1>2, <1>5, <1>6, <1>7, TicksPerDayPositive DEF AtMost

PricesOf == [r \in DOMAIN Quoted |-> Quoted[r].price]

PriceSum == MapThenSumSet(LAMBDA r : Quoted[r].price, DOMAIN Quoted)

LEMMA PricesAddUp ==
  ASSUME SettlementTypeOK, demands \in Storages
  PROVE  /\ PricesOf \in [DOMAIN Quoted -> Nat]
         /\ \E f \in [SUBSET DOMAIN Quoted -> Nat] :
              IsSum(f, DOMAIN Quoted, PricesOf) /\ PriceSum = f[DOMAIN Quoted]
<1>1. PICK D : D = DOMAIN Quoted
  OBVIOUS
<1>2. PricesOf \in [D -> Nat]
  BY <1>1, QuotedIs DEF PricesOf
<1> DEFINE Eq(f) == f = [S \in SUBSET D |->
                           IF S = {} THEN 0 ELSE Quoted[AnyOf(S)].price + f[S \ {AnyOf(S)}]]
           sum == CHOOSE f : Eq(f)
<1>3. PriceSum = sum[D]
  BY <1>1, Zenon DEF PriceSum, MapThenSumSet, MapThenFoldSet, AnyOf
<1>4. IsFiniteSet(D)
  BY <1>1, QuotedIs
<1>5. ASSUME NEW S \in SUBSET D, S # {} PROVE PricesOf[AnyOf(S)] = Quoted[AnyOf(S)].price
  <2>1. PICK a \in D : a = AnyOf(S)
    BY <1>5, AnyOfIsIn
  <2>2. PricesOf[a] = Quoted[a].price
    BY <1>1 DEF PricesOf
  <2>3. QED
    BY <2>1, <2>2
<1>6. ASSUME NEW f PROVE Eq(f) <=> IsSum(f, D, PricesOf)
  BY <1>5, Zenon DEF IsSum
<1>7. \E f : IsSum(f, D, PricesOf)
  BY <1>2, <1>4, SumExists
<1> HIDE DEF Eq
<1>8. Eq(sum)
  BY <1>6, <1>7, Zenon
<1>9. IsSum(sum, D, PricesOf)
  BY <1>6, <1>8, Zenon
<1> HIDE DEF sum
<1>10. sum \in [SUBSET D -> Nat]
  BY <1>2, <1>4, <1>9, SumType
<1>11. QED
  BY <1>1, <1>2, <1>3, <1>9, <1>10

LEMMA ShareBetween ==
  ASSUME NEW n \in Nat, NEW c \in Nat \ {0}, NEW m \in Nat
  PROVE  /\ n <= m * c => n \div c <= m
         /\ m * c <= n => m <= n \div c
<1>1. PICK q \in Nat : q = n \div c /\ q * c <= n /\ n < (q + 1) * c
  BY QuotientOf
<1>2. ASSUME n <= m * c PROVE q <= m
  <2>1. SUFFICES ASSUME m + 1 <= q PROVE FALSE
    OBVIOUS
  <2>2. PICK a \in Nat : a = m + 1
    OBVIOUS
  <2>3. a * c <= q * c
    BY <2>1, <2>2, ProductsGrow
  <2>4. PICK x \in Nat, y \in Nat : x = m * c /\ y = q * c
    OBVIOUS
  <2>5. a * c = x + c
    <3>1. (m + 1) * c = m * c + c
      OBVIOUS
    <3>2. QED
      BY <2>2, <2>4, <3>1
  <2>6. QED
    BY <1>1, <1>2, <2>3, <2>4, <2>5
<1>3. ASSUME m * c <= n PROVE m <= q
  <2>1. SUFFICES ASSUME q + 1 <= m PROVE FALSE
    OBVIOUS
  <2>2. PICK a \in Nat : a = q + 1
    OBVIOUS
  <2>3. a * c <= m * c
    BY <2>1, <2>2, ProductsGrow
  <2>4. PICK x \in Nat, y \in Nat : x = a * c /\ y = m * c
    OBVIOUS
  <2>5. QED
    BY <1>1, <1>3, <2>2, <2>3, <2>4
<1>4. QED
  BY <1>1, <1>2, <1>3

LEMMA AveragesLieBetween ==
  ASSUME SettlementTypeOK, demands \in Storages, NEW report, report = MarketReport(Quoted)
  PROVE  /\ report.average <= report.max
         /\ report.average >= report.min \/ PriceSum > MaxU64
<1>1. PICK D : D = DOMAIN Quoted /\ IsFiniteSet(D)
  BY QuotedIs
<1>2. PICK prices : prices = {Quoted[r].price : r \in D}
  OBVIOUS
<1>3. report = IF prices = {} THEN [average |-> 0, min |-> 0, max |-> 0]
               ELSE [average |-> AtMost(PriceSum, MaxU64) \div Cardinality(D), min |-> Min(prices), max |-> Max(prices)]
  BY <1>1, <1>2, Zenon DEF MarketReport, PriceSum
<1>4. CASE prices = {}
  <2>1. report.average = 0 /\ report.min = 0 /\ report.max = 0
    BY <1>3, <1>4
  <2>2. QED
    BY <2>1
<1>5. CASE prices # {}
  <2>1. PricesOf \in [D -> Nat] /\ prices = {PricesOf[r] : r \in D} /\ PricesOf = [r \in D |-> PricesOf[r]]
    BY <1>1, <1>2, PricesAddUp DEF PricesOf
  <2>2. IsFiniteSet(prices) /\ prices \subseteq Nat
    BY <1>1, <2>1, FiniteImage
  <2>3. PICK lo \in Nat : lo = Min(prices) /\ \A y \in prices : lo <= y
    BY <1>5, <2>2, Extremes
  <2>4. PICK hi \in Nat : hi = Max(prices) /\ \A y \in prices : y <= hi
    BY <1>5, <2>2, Extremes
  <2>5. PICK f \in [SUBSET D -> Nat] : IsSum(f, D, PricesOf) /\ PriceSum = f[D]
    BY <1>1, PricesAddUp
  <2>6. PICK c \in Nat \ {0} : c = Cardinality(D)
    <3>1. D # {}
      BY <1>2, <1>5
    <3>2. QED
      BY <1>1, <3>1, FS_EmptySet, FS_CardinalityType
  <2>7. \A r \in D : lo <= PricesOf[r] /\ PricesOf[r] <= hi
    BY <2>1, <2>3, <2>4
  <2>8. PICK sum \in Nat : sum = PriceSum /\ lo * c <= sum /\ sum <= hi * c
    <3>1. lo * Cardinality(D) <= f[D] /\ f[D] <= hi * Cardinality(D)
      BY <1>1, <2>1, <2>5, <2>7, SumBetween
    <3>2. f[D] \in Nat
      OBVIOUS
    <3>3. QED
      BY <2>5, <2>6, <3>1, <3>2
  <2>9. PICK total \in Nat : total = AtMost(PriceSum, MaxU64) /\ total <= sum /\ (sum <= MaxU64 => total = sum)
    BY <2>8, TicksPerDayPositive DEF AtMost
  <2>10. PICK x \in Nat, y \in Nat : x = lo * c /\ y = hi * c
    OBVIOUS
  <2>11. total <= hi * c /\ (sum <= MaxU64 => lo * c <= total)
    BY <2>8, <2>9, <2>10
  <2>12. total \div c <= hi /\ (sum <= MaxU64 => lo <= total \div c)
    BY <2>11, ShareBetween
  <2>13. report.average = total \div c /\ report.min = lo /\ report.max = hi
    BY <1>3, <1>5, <2>3, <2>4, <2>6, <2>9
  <2>14. PICK q \in Nat : q = total \div c
    BY QuotientOf
  <2>15. QED
    BY <2>8, <2>12, <2>13, <2>14, TicksPerDayPositive
<1>6. QED
  BY <1>4, <1>5

Pressures == {"balanced", "shortage", "surplus", "depleted"}

(* Every quote has one pressure.                                           *)
LEMMA PressuresAddUp ==
  ASSUME SettlementTypeOK, demands \in Storages
  PROVE  Cardinality(DOMAIN Quoted) = MapThenSumSet(LAMBDA p : PressureCount(Quoted, p), Pressures)
<1>1. PICK O : O = DOMAIN Quoted /\ IsFiniteSet(O)
  BY QuotedIs
<1>2. PICK D : D = Pressures
  OBVIOUS
<1>3. IsFiniteSet(D)
  <2>1. IsFiniteSet({}) /\ \A S, x : IsFiniteSet(S) => IsFiniteSet(S \cup {x})
    BY FS_EmptySet, FS_AddElement
  <2>2. IsFiniteSet(((({} \cup {"balanced"}) \cup {"shortage"}) \cup {"surplus"}) \cup {"depleted"})
    BY <2>1
  <2>3. D = ((({} \cup {"balanced"}) \cup {"shortage"}) \cup {"surplus"}) \cup {"depleted"}
    BY <1>2 DEF Pressures
  <2>4. QED
    BY <2>2, <2>3
<1>4. PICK rho : rho = [r \in O |-> Pressure(Quoted[r].supply, Quoted[r].demand)]
  OBVIOUS
<1>5. rho \in [O -> D]
  BY <1>2, <1>4 DEF Pressure, Pressures
<1>6. PICK w : w = [p \in D |-> PressureCount(Quoted, p)]
  OBVIOUS
<1>7. ASSUME NEW p \in D PROVE w[p] = Cardinality(Part(O, rho, {p})) /\ w[p] \in Nat
  <2>1. Part(O, rho, {p}) = {r \in O : Pressure(Quoted[r].supply, Quoted[r].demand) = p}
    BY <1>4 DEF Part
  <2>2. w[p] = Cardinality({r \in O : Pressure(Quoted[r].supply, Quoted[r].demand) = p})
    BY <1>1, <1>6 DEF PressureCount
  <2>3. Part(O, rho, {p}) \subseteq O
    BY DEF Part
  <2>4. IsFiniteSet(Part(O, rho, {p}))
    BY <1>1, <2>3, FS_Subset
  <2>5. Cardinality(Part(O, rho, {p})) \in Nat
    BY <2>4, FS_CardinalityType
  <2>6. QED
    BY <2>1, <2>2, <2>5, Zenon
<1>8. w \in [D -> Nat] /\ CountsParts(w, D, O, rho)
  BY <1>6, <1>7 DEF CountsParts
<1> DEFINE Eq(f) == f = [S \in SUBSET D |->
                           IF S = {} THEN 0 ELSE PressureCount(Quoted, AnyOf(S)) + f[S \ {AnyOf(S)}]]
           sum == CHOOSE f : Eq(f)
<1>9. MapThenSumSet(LAMBDA p : PressureCount(Quoted, p), D) = sum[D]
  BY Zenon DEF MapThenSumSet, MapThenFoldSet, AnyOf
<1>10. ASSUME NEW S \in SUBSET D, S # {} PROVE w[AnyOf(S)] = PressureCount(Quoted, AnyOf(S))
  <2>1. PICK a \in D : a = AnyOf(S)
    BY <1>10, AnyOfIsIn
  <2>2. w[a] = PressureCount(Quoted, a)
    BY <1>6
  <2>3. QED
    BY <2>1, <2>2
<1>11. ASSUME NEW f PROVE Eq(f) <=> IsSum(f, D, w)
  BY <1>10, Zenon DEF IsSum
<1>12. \E f : IsSum(f, D, w)
  BY <1>3, <1>8, SumExists
<1> HIDE DEF Eq
<1>13. Eq(sum)
  BY <1>11, <1>12, Zenon
<1>14. IsSum(sum, D, w)
  BY <1>11, <1>13, Zenon
<1> HIDE DEF sum
<1>15. \A S \in SUBSET D : sum[S] = Cardinality(Part(O, rho, S))
  BY <1>1, <1>3, <1>5, <1>8, <1>14, PartsAddUp
<1>16. sum[D] = Cardinality(Part(O, rho, D))
  BY <1>15
<1>17. Part(O, rho, D) = O
  BY <1>5 DEF Part
<1>18. QED
  BY <1>1, <1>2, <1>9, <1>16, <1>17

LEMMA PlanFollowsNow ==
  ASSUME SettlementTypeOK, demands \in Storages
  PROVE  PlanFollowsTheMarket
<1>1. \A ticks \in U64, r \in NeededResources :
        NeedPriority(r, ticks) \in {"high", "critical"} <=>
          \/ MissingOver(r, ticks) > 0
          \/ r \in DOMAIN Quoted /\ Quoted[r].price > Quoted[r].base
          \/ r \in DOMAIN Quoted /\ Quoted[r].base = MaxU64 /\ demands[r] > storage[r]
  BY NeedsArePressing
<1>2. \A k \in DOMAIN buildings : (\E o \in Opportunities : o.building = k) \/ Definition(k).slots = 0
  BY EveryBuildingIsSeen
<1>3. HighCount = Cardinality({o \in Opportunities : Rank(o.priority) >= Rank("high")})
  BY HighAreCounted
<1>4. (\A k \in Known : buildings[k].workers <= Definition(k).slots) => \A ticks \in U64 \ {0} : ValidPlan(ticks)
  <2>1. SUFFICES ASSUME \A k \in Known : buildings[k].workers <= Definition(k).slots, NEW ticks \in U64 \ {0}
                 PROVE  ValidPlan(ticks)
    OBVIOUS
  <2>2. AssignedWorkers <= TotalSlots
    BY <2>1, BuiltPlansAreValid
  <2>3. ticks > 0
    BY DEF U64
  <2>4. QED
    BY <2>2, <2>3 DEF ValidPlan
<1>5. LET report == MarketReport(Quoted)
      IN  /\ report.average <= report.max
          /\ report.average >= report.min
               \/ MapThenSumSet(LAMBDA r : Quoted[r].price, DOMAIN Quoted) > MaxU64
  <2>1. PICK report : report = MarketReport(Quoted)
    OBVIOUS
  <2>2. report.average <= report.max /\ (report.average >= report.min \/ PriceSum > MaxU64)
    BY <2>1, AveragesLieBetween
  <2>3. QED
    BY <2>1, <2>2, Zenon DEF PriceSum
<1>6. Cardinality(DOMAIN Quoted) =
        MapThenSumSet(LAMBDA p : PressureCount(Quoted, p), {"balanced", "shortage", "surplus", "depleted"})
  BY PressuresAddUp, Zenon DEF Pressures
<1>7. QED
  BY <1>1, <1>2, <1>3, <1>4, <1>5, <1>6, Zenon DEF PlanFollowsTheMarket

(* For every registry, market and settlement: a plan's needs are pressing  *)
(* just when something is missing or dear, every building with room for    *)
(* workers has an opportunity, the count kept while the lists grow is that *)
(* of the finished lists, and the market's report adds up.                 *)
THEOREM PlansFollowTheMarket == DevelopmentSpec => []PlanFollowsTheMarket
<1>1. DevelopmentInit => SettlementTypeOK /\ demands \in Storages
  BY DevelopmentStart
<1>2. SettlementTypeOK /\ demands \in Storages /\ [DevelopmentNext]_developmentVars =>
        (SettlementTypeOK /\ demands \in Storages)'
  BY DevelopmentStep, SettlementStep
<1>3. SettlementTypeOK /\ demands \in Storages => PlanFollowsTheMarket
  BY PlanFollowsNow
<1>4. QED
  BY <1>1, <1>2, <1>3, PTL DEF DevelopmentSpec
=============================================================================
