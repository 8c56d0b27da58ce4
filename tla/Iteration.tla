----------------------------- MODULE Iteration -----------------------------
(***************************************************************************)
(* Induction, and the loops of the code.  A loop is a recursive function   *)
(* of a model whose n-th value is the state after n rounds.  The laws here *)
(* say that such a function exists and is unique, and what holds of it by  *)
(* induction.  They speak of sets and functions instead of predicates and  *)
(* operators, so that they can be cited for any of them.                   *)
(***************************************************************************)
EXTENDS Naturals, FiniteSetTheorems, WellFoundedInduction, TLAPS

(* A nonempty set of natural numbers has a least element.                  *)
LEMMA LeastNumber ==
  ASSUME NEW T, T \subseteq Nat, T # {}
  PROVE  \E x \in T : \A y \in T : x <= y
<1>1. IsWellFoundedOn(OpToRel(<, Nat), Nat)
  BY NatLessThanWellFounded, Zenon
<1>2. PICK x \in T : \A y \in T : ~(<<y, x>> \in OpToRel(<, Nat))
  BY <1>1, WFMin, Zenon
<1>3. \A y \in T : ~(y < x)
  BY <1>2 DEF OpToRel
<1>4. QED
  BY <1>3

(* Induction up to a bound, over the numbers that a set still holds.       *)
LEMMA BoundedInduction ==
  ASSUME NEW N \in Nat, NEW S, 0 \in S,
         \A n \in 1 .. N : n - 1 \in S => n \in S
  PROVE  \A n \in 0 .. N : n \in S
<1> SUFFICES ASSUME (0 .. N) \ S # {} PROVE FALSE
  OBVIOUS
<1>1. PICK x \in (0 .. N) \ S : \A y \in (0 .. N) \ S : x <= y
  <2>1. (0 .. N) \ S \subseteq Nat
    OBVIOUS
  <2>2. QED
    BY <2>1, LeastNumber
<1>2. x \in 1 .. N /\ x - 1 \in 0 .. N /\ x - 1 < x
  BY <1>1
<1>3. x - 1 \in S
  BY <1>1, <1>2
<1>4. QED
  BY <1>1, <1>2, <1>3

(* The function of a loop: where it starts, and what each of its numbered  *)
(* rounds makes of the state before it.                                    *)
IsLoop(f, N, start, round) ==
  f = [n \in 0 .. N |-> IF n = 0 THEN start ELSE round[n][f[n - 1]]]

LEMMA LoopExtends ==
  ASSUME NEW N \in Nat, NEW n \in 1 .. N, NEW S, NEW start \in S, NEW round \in [1 .. N -> [S -> S]],
         NEW f \in [0 .. n - 1 -> S], IsLoop(f, n - 1, start, round)
  PROVE  \E g \in [0 .. n -> S] : IsLoop(g, n, start, round)
<1> DEFINE g == [k \in 0 .. n |-> IF k = n THEN round[n][f[n - 1]] ELSE f[k]]
<1>1. n \in Nat /\ n - 1 \in 0 .. n - 1 /\ \A k \in 0 .. n : k # n => k \in 0 .. n - 1
  OBVIOUS
<1>2. round[n][f[n - 1]] \in S
  BY <1>1
<1>3. g \in [0 .. n -> S]
  BY <1>1, <1>2
<1>4. ASSUME NEW k \in 0 .. n
      PROVE  g[k] = IF k = 0 THEN start ELSE round[k][g[k - 1]]
  <2>1. CASE k = n
    <3>1. n - 1 \in 0 .. n /\ n - 1 # n
      BY <1>1
    <3>2. g[n - 1] = f[n - 1] /\ g[n] = round[n][f[n - 1]]
      BY <1>1, <3>1
    <3>3. QED
      BY <1>1, <2>1, <3>2
  <2>2. CASE k # n
    <3>1. k \in 0 .. n - 1 /\ (k = 0 \/ k - 1 \in 0 .. n - 1)
      BY <1>1, <2>2
    <3>2. f[k] = IF k = 0 THEN start ELSE round[k][f[k - 1]]
      BY <3>1 DEF IsLoop
    <3>3. g[k] = f[k] /\ (k # 0 => g[k - 1] = f[k - 1])
      BY <1>1, <2>2, <3>1
    <3>4. QED
      BY <3>2, <3>3
  <2>3. QED
    BY <2>1, <2>2
<1> HIDE DEF g
<1>5. g = [k \in 0 .. n |-> IF k = 0 THEN start ELSE round[k][g[k - 1]]]
  BY <1>3, <1>4
<1>6. QED
  BY <1>3, <1>5 DEF IsLoop

(* Every loop has a function.                                              *)
LEMMA LoopExists ==
  ASSUME NEW N \in Nat, NEW S, NEW start \in S, NEW round \in [1 .. N -> [S -> S]]
  PROVE  \E f \in [0 .. N -> S] : IsLoop(f, N, start, round)
<1> DEFINE T == {n \in 0 .. N : \E f \in [0 .. n -> S] : IsLoop(f, n, start, round)}
<1>1. 0 \in T
  <2> DEFINE f == [n \in 0 .. 0 |-> start]
  <2>1. f \in [0 .. 0 -> S]
    OBVIOUS
  <2>2. f = [n \in 0 .. 0 |-> IF n = 0 THEN start ELSE round[n][f[n - 1]]]
    OBVIOUS
  <2> HIDE DEF f
  <2>3. IsLoop(f, 0, start, round)
    BY <2>2 DEF IsLoop
  <2>4. QED
    BY <2>1, <2>3
<1>2. ASSUME NEW n \in 1 .. N, n - 1 \in T PROVE n \in T
  <2>1. PICK f \in [0 .. n - 1 -> S] : IsLoop(f, n - 1, start, round)
    BY <1>2
  <2>2. \E g \in [0 .. n -> S] : IsLoop(g, n, start, round)
    BY <2>1, LoopExtends
  <2>3. QED
    BY <2>2
<1> HIDE DEF T
<1>3. \A n \in 0 .. N : n \in T
  BY <1>1, <1>2, BoundedInduction
<1>4. N \in T
  BY <1>3
<1>5. QED
  BY <1>4 DEF T

-----------------------------------------------------------------------------
(* Sums over finite sets, taken one arbitrary element after the other.     *)

AnyOf(S) == CHOOSE s \in S : TRUE

IsSum(f, D, w) ==
  f = [S \in SUBSET D |-> IF S = {} THEN 0 ELSE w[AnyOf(S)] + f[S \ {AnyOf(S)}]]

LEMMA AnyOfIsIn ==
  ASSUME NEW S, S # {}
  PROVE  AnyOf(S) \in S
BY DEF AnyOf

(* One element less is a smaller set.                                      *)
LEMMA OneLess ==
  ASSUME NEW D, IsFiniteSet(D), NEW S \in SUBSET D, S # {}
  PROVE  /\ AnyOf(S) \in S /\ S \ {AnyOf(S)} \in SUBSET D
         /\ Cardinality(S) \in Nat /\ Cardinality(S) # 0
         /\ Cardinality(S \ {AnyOf(S)}) = Cardinality(S) - 1
<1>1. IsFiniteSet(S)
  BY FS_Subset
<1>2. AnyOf(S) \in S
  BY AnyOfIsIn
<1>3. Cardinality(S \ {AnyOf(S)}) = Cardinality(S) - 1
  BY <1>1, <1>2, FS_RemoveElement
<1>4. Cardinality(S) \in Nat /\ Cardinality(S) # 0
  BY <1>1, FS_CardinalityType, FS_EmptySet
<1>5. QED
  BY <1>2, <1>3, <1>4

LEMMA OnlyEmptyHasNone ==
  ASSUME NEW D, IsFiniteSet(D), NEW S \in SUBSET D
  PROVE  Cardinality(S) = 0 <=> S = {}
<1>1. IsFiniteSet(S)
  BY FS_Subset
<1>2. QED
  BY <1>1, FS_EmptySet

(* What a finite set gives, one element of it after the other.             *)
IsGathered(f, D, start, add) ==
  f = [S \in SUBSET D |-> IF S = {} THEN start ELSE add[AnyOf(S)][f[S \ {AnyOf(S)}]]]

LEMMA GatheredExists ==
  ASSUME NEW D, IsFiniteSet(D), NEW V, NEW start \in V, NEW add \in [D -> [V -> V]]
  PROVE  \E f \in [SUBSET D -> V] : IsGathered(f, D, start, add)
<1> DEFINE N == Cardinality(D)
           Small(n) == {S \in SUBSET D : Cardinality(S) <= n}
           Sums(f, n) == \A S \in Small(n) :
                           f[S] = IF S = {} THEN start ELSE add[AnyOf(S)][f[S \ {AnyOf(S)}]]
           T == {n \in 0 .. N : \E f \in [SUBSET D -> V] : Sums(f, n)}
<1>1. N \in Nat /\ \A S \in SUBSET D : Cardinality(S) \in Nat /\ Cardinality(S) <= N
  BY FS_CardinalityType, FS_Subset
<1>2. 0 \in T
  <2> DEFINE f == [S \in SUBSET D |-> start]
  <2>1. ASSUME NEW S \in Small(0) PROVE S = {}
    <3>1. S \in SUBSET D /\ Cardinality(S) <= 0 /\ Cardinality(S) \in Nat
      BY <1>1
    <3>2. Cardinality(S) = 0
      BY <3>1
    <3>3. QED
      BY <3>1, <3>2, OnlyEmptyHasNone
  <2>2. Sums(f, 0)
    BY <2>1
  <2>3. f \in [SUBSET D -> V]
    OBVIOUS
  <2> HIDE DEF Sums, f
  <2>4. QED
    BY <1>1, <2>2, <2>3
<1>3. ASSUME NEW n \in 1 .. N, n - 1 \in T PROVE n \in T
  <2>1. PICK f \in [SUBSET D -> V] : Sums(f, n - 1)
    BY <1>3
  <2> DEFINE g == [S \in SUBSET D |-> IF S = {} THEN start ELSE add[AnyOf(S)][f[S \ {AnyOf(S)}]]]
  <2>2. \A S \in SUBSET D : S # {} => AnyOf(S) \in D /\ S \ {AnyOf(S)} \in SUBSET D
    BY OneLess
  <2>3. g \in [SUBSET D -> V]
    BY <2>2
  <2>4. \A S \in Small(n - 1) : g[S] = f[S]
    BY <2>1
  <2>5. ASSUME NEW S \in Small(n), S # {} PROVE g[S] = add[AnyOf(S)][g[S \ {AnyOf(S)}]]
    <3>1. S \in SUBSET D /\ Cardinality(S) <= n /\ n \in Nat
      BY <1>1
    <3>2. /\ S \ {AnyOf(S)} \in SUBSET D /\ Cardinality(S) \in Nat
          /\ Cardinality(S \ {AnyOf(S)}) = Cardinality(S) - 1
      BY <2>5, <3>1, OneLess
    <3>3. S \ {AnyOf(S)} \in Small(n - 1)
      BY <3>1, <3>2
    <3>4. g[S \ {AnyOf(S)}] = f[S \ {AnyOf(S)}]
      BY <2>4, <3>3
    <3>5. g[S] = add[AnyOf(S)][f[S \ {AnyOf(S)}]]
      BY <2>5, <3>1
    <3>6. QED
      BY <3>4, <3>5
  <2>6. {} \in SUBSET D /\ g[{}] = start
    OBVIOUS
  <2> HIDE DEF g
  <2>7. Sums(g, n)
    BY <2>5, <2>6
  <2> HIDE DEF Sums
  <2>8. n \in 0 .. N
    BY <1>1
  <2>9. QED
    BY <2>3, <2>7, <2>8
<1>4. N \in T
  <2> HIDE DEF T, N
  <2>1. \A n \in 0 .. N : n \in T
    BY <1>1, <1>2, <1>3, BoundedInduction
  <2>2. QED
    BY <1>1, <2>1
<1>5. PICK f \in [SUBSET D -> V] : Sums(f, N)
  BY <1>4
<1>6. \A S \in SUBSET D : f[S] = IF S = {} THEN start ELSE add[AnyOf(S)][f[S \ {AnyOf(S)}]]
  BY <1>1, <1>5
<1>7. IsGathered(f, D, start, add)
  BY <1>6 DEF IsGathered
<1>8. QED
  BY <1>7

LEMMA SumExists ==
  ASSUME NEW D, IsFiniteSet(D), NEW w \in [D -> Nat]
  PROVE  \E f \in [SUBSET D -> Nat] : IsSum(f, D, w)
<1> DEFINE add == [s \in D |-> [n \in Nat |-> w[s] + n]]
<1>1. add \in [D -> [Nat -> Nat]]
  OBVIOUS
<1>2. PICK f \in [SUBSET D -> Nat] : IsGathered(f, D, 0, add)
  <2> HIDE DEF add
  <2>1. QED
    BY <1>1, GatheredExists
<1>3. ASSUME NEW S \in SUBSET D, S # {}
      PROVE  add[AnyOf(S)][f[S \ {AnyOf(S)}]] = w[AnyOf(S)] + f[S \ {AnyOf(S)}]
  <2>1. AnyOf(S) \in D /\ f[S \ {AnyOf(S)}] \in Nat
    BY <1>3, AnyOfIsIn
  <2>2. QED
    BY <2>1
<1> HIDE DEF add
<1>4. IsSum(f, D, w)
  BY <1>2, <1>3 DEF IsGathered, IsSum
<1>5. QED
  BY <1>4

(* What is shown of the empty set, and of a set whenever it holds of that  *)
(* set without one element, holds of every part of a finite set.           *)
LEMMA SetInduction ==
  ASSUME NEW D, IsFiniteSet(D), NEW P, {} \in P,
         \A S \in SUBSET D : S # {} /\ S \ {AnyOf(S)} \in P => S \in P
  PROVE  \A S \in SUBSET D : S \in P
<1> DEFINE N == Cardinality(D)
           T == {n \in 0 .. N : \A S \in SUBSET D : Cardinality(S) = n => S \in P}
<1>1. N \in Nat /\ \A S \in SUBSET D : Cardinality(S) \in Nat /\ Cardinality(S) <= N
  BY FS_CardinalityType, FS_Subset
<1>2. 0 \in T
  <2>1. ASSUME NEW S \in SUBSET D, Cardinality(S) = 0 PROVE S \in P
    BY <2>1, OnlyEmptyHasNone
  <2>2. QED
    BY <1>1, <2>1
<1>3. ASSUME NEW n \in 1 .. N, n - 1 \in T PROVE n \in T
  <2>1. ASSUME NEW S \in SUBSET D, Cardinality(S) = n PROVE S \in P
    <3>1. S # {}
      <4>1. Cardinality(S) # 0
        BY <1>1, <2>1
      <4>2. QED
        BY <4>1, OnlyEmptyHasNone
    <3>2. S \ {AnyOf(S)} \in SUBSET D /\ Cardinality(S \ {AnyOf(S)}) = n - 1
      BY <2>1, <3>1, OneLess
    <3>3. S \ {AnyOf(S)} \in P
      BY <1>3, <3>2
    <3>4. QED
      BY <3>1, <3>3
  <2>2. n \in 0 .. N
    BY <1>1
  <2>3. QED
    BY <2>1, <2>2
<1> HIDE DEF T
<1>4. \A n \in 0 .. N : n \in T
  BY <1>1, <1>2, <1>3, BoundedInduction
<1>5. QED
  BY <1>1, <1>4 DEF T

(* One number changes, and the sum by as much.                             *)
LEMMA SumChanges ==
  ASSUME NEW D, IsFiniteSet(D), NEW w \in [D -> Nat], NEW v \in [D -> Nat],
         NEW f \in [SUBSET D -> Nat], NEW g \in [SUBSET D -> Nat],
         IsSum(f, D, w), IsSum(g, D, v),
         NEW t \in D, \A s \in D : s # t => v[s] = w[s]
  PROVE  g[D] + w[t] = f[D] + v[t]
<1> DEFINE P == {S \in SUBSET D : IF t \in S THEN g[S] + w[t] = f[S] + v[t] ELSE g[S] = f[S]}
<1>1. /\ f[{}] = 0 /\ g[{}] = 0
      /\ \A S \in SUBSET D : S # {} => /\ f[S] = w[AnyOf(S)] + f[S \ {AnyOf(S)}]
                                      /\ g[S] = v[AnyOf(S)] + g[S \ {AnyOf(S)}]
  BY DEF IsSum
<1>2. {} \in P
  BY <1>1
<1>3. ASSUME NEW S \in SUBSET D, S # {}, S \ {AnyOf(S)} \in P PROVE S \in P
  <2> DEFINE s == AnyOf(S)
             R == S \ {s}
  <2>1. s \in S /\ s \in D /\ R \in SUBSET D
    BY <1>3, AnyOfIsIn
  <2>2. f[S] = w[s] + f[R] /\ g[S] = v[s] + g[R]
    BY <1>1, <1>3
  <2>3. /\ w[s] \in Nat /\ v[s] \in Nat /\ w[t] \in Nat /\ v[t] \in Nat
        /\ f[R] \in Nat /\ g[R] \in Nat
    BY <2>1
  <2>4. CASE s = t
    <3>1. g[R] = f[R] /\ t \in S
      BY <1>3, <2>1, <2>4
    <3>2. g[S] + w[t] = f[S] + v[t]
      BY <2>2, <2>3, <2>4, <3>1
    <3>3. QED
      BY <3>1, <3>2
  <2>5. CASE s # t
    <3>1. v[s] = w[s] /\ (t \in R <=> t \in S)
      BY <2>1, <2>5
    <3>2. CASE t \in S
      <4>1. g[R] + w[t] = f[R] + v[t]
        BY <1>3, <3>1, <3>2
      <4>2. g[S] + w[t] = f[S] + v[t]
        BY <2>2, <2>3, <3>1, <4>1
      <4>3. QED
        BY <3>2, <4>2
    <3>3. CASE t \notin S
      <4>1. g[R] = f[R]
        BY <1>3, <3>1, <3>3
      <4>2. QED
        BY <2>2, <3>1, <3>3, <4>1
    <3>4. QED
      BY <3>2, <3>3
  <2>6. QED
    BY <2>4, <2>5
<1> HIDE DEF P
<1>4. D \in P
  <2>1. \A S \in SUBSET D : S \in P
    BY <1>2, <1>3, SetInduction
  <2>2. QED
    BY <2>1
<1>5. QED
  BY <1>4 DEF P

(* No number grows, nor does the sum.                                      *)
LEMMA SumShrinks ==
  ASSUME NEW D, IsFiniteSet(D), NEW w \in [D -> Nat], NEW v \in [D -> Nat],
         NEW f \in [SUBSET D -> Nat], NEW g \in [SUBSET D -> Nat],
         IsSum(f, D, w), IsSum(g, D, v), \A s \in D : v[s] <= w[s]
  PROVE  g[D] <= f[D]
<1> DEFINE P == {S \in SUBSET D : g[S] <= f[S]}
<1>1. /\ f[{}] = 0 /\ g[{}] = 0
      /\ \A S \in SUBSET D : S # {} => /\ f[S] = w[AnyOf(S)] + f[S \ {AnyOf(S)}]
                                      /\ g[S] = v[AnyOf(S)] + g[S \ {AnyOf(S)}]
  BY DEF IsSum
<1>2. {} \in P
  BY <1>1
<1>3. ASSUME NEW S \in SUBSET D, S # {}, S \ {AnyOf(S)} \in P PROVE S \in P
  <2> DEFINE s == AnyOf(S)
             R == S \ {s}
  <2>1. s \in D /\ R \in SUBSET D /\ g[R] <= f[R]
    BY <1>3, AnyOfIsIn
  <2>2. f[S] = w[s] + f[R] /\ g[S] = v[s] + g[R]
    BY <1>1, <1>3
  <2>3. w[s] \in Nat /\ v[s] \in Nat /\ f[R] \in Nat /\ g[R] \in Nat /\ v[s] <= w[s]
    BY <2>1
  <2> HIDE DEF s, R
  <2>4. g[S] <= f[S]
    BY <2>1, <2>2, <2>3
  <2>5. QED
    BY <2>4
<1> HIDE DEF P
<1>4. D \in P
  <2>1. \A S \in SUBSET D : S \in P
    BY <1>2, <1>3, SetInduction
  <2>2. QED
    BY <2>1
<1>5. QED
  BY <1>4 DEF P

(* Whatever adds up natural numbers is one.                                *)
LEMMA SumType ==
  ASSUME NEW D, IsFiniteSet(D), NEW w \in [D -> Nat], NEW f, IsSum(f, D, w)
  PROVE  f \in [SUBSET D -> Nat]
<1> DEFINE P == {S \in SUBSET D : f[S] \in Nat}
<1>1. \A S \in SUBSET D : f[S] = IF S = {} THEN 0 ELSE w[AnyOf(S)] + f[S \ {AnyOf(S)}]
  BY DEF IsSum
<1>2. {} \in P
  BY <1>1
<1>3. ASSUME NEW S \in SUBSET D, S # {}, S \ {AnyOf(S)} \in P PROVE S \in P
  <2>1. AnyOf(S) \in D
    BY <1>3, AnyOfIsIn
  <2>2. w[AnyOf(S)] \in Nat /\ f[S \ {AnyOf(S)}] \in Nat
    BY <1>3, <2>1
  <2>3. f[S] = w[AnyOf(S)] + f[S \ {AnyOf(S)}]
    BY <1>1, <1>3
  <2>4. QED
    BY <2>2, <2>3
<1> HIDE DEF P
<1>4. \A S \in SUBSET D : S \in P
  BY <1>2, <1>3, SetInduction
<1>5. \A S \in SUBSET D : f[S] \in Nat
  BY <1>4 DEF P
<1>6. DOMAIN f = SUBSET D /\ f = [S \in SUBSET D |-> f[S]]
  BY DEF IsSum
<1>7. QED
  BY <1>5, <1>6

LEMMA UpTo ==
  ASSUME NEW n \in Nat
  PROVE  IsFiniteSet(1 .. n) /\ Cardinality(1 .. n) = n
<1>1. IsFiniteSet(1 .. n) /\ Cardinality(1 .. n) = IF 1 > n THEN 0 ELSE n - 1 + 1
  BY FS_Interval
<1>2. QED
  BY <1>1

(* Of distinct places up to L no more than L - n lie beyond n.              *)
LEMMA PlacesBeyond ==
  ASSUME NEW L \in Nat, NEW n \in Nat, n <= L, NEW m \in Nat, NEW A \in SUBSET (1 .. m),
         NEW pos \in [A -> Nat], \A p \in A : pos[p] \in 1 .. L,
         \A p, q \in A : pos[p] = pos[q] => p = q
  PROVE  LET D == {p \in A : pos[p] > n}
         IN  IsFiniteSet(D) /\ Cardinality(D) <= L - n
<1> DEFINE D == {p \in A : pos[p] > n}
           f == [p \in D |-> pos[p] - n]
           T == 1 .. L - n
<1>1. D \in SUBSET (1 .. m)
  OBVIOUS
<1>2. IsFiniteSet(D)
  <2> HIDE DEF D
  <2>1. IsFiniteSet(1 .. m)
    BY FS_Interval
  <2>2. QED
    BY <1>1, <2>1, FS_Subset
<1>3. L - n \in Nat /\ IsFiniteSet(T) /\ Cardinality(T) = L - n
  <2>1. L - n \in Nat
    OBVIOUS
  <2>2. PICK d \in Nat : d = L - n
    BY <2>1
  <2>3. IsFiniteSet(1 .. d) /\ Cardinality(1 .. d) = d
    BY UpTo
  <2>4. QED
    BY <2>1, <2>2, <2>3
<1>4. \A p \in D : f[p] \in T
  OBVIOUS
<1>5. \A p, q \in D : f[p] = f[q] => p = q
  <2>1. ASSUME NEW p \in D, NEW q \in D, f[p] = f[q] PROVE p = q
    <3>1. pos[p] \in Nat /\ pos[q] \in Nat /\ pos[p] - n = pos[q] - n
      BY <2>1
    <3>2. pos[p] = pos[q]
      BY <3>1
    <3>3. QED
      BY <3>2
  <2>2. QED
    BY <2>1
<1>6. f \in [D -> T]
  BY <1>4
<1>7. f \in Injection(D, T)
  <2>1. IsInjective(f)
    BY <1>5 DEF IsInjective
  <2>2. QED
    BY <1>6, <2>1 DEF Injection
<1> HIDE DEF D, f, T
<1>8. Cardinality(D) <= Cardinality(T)
  <2>1. IsFiniteSet(T)
    BY <1>3
  <2>2. QED
    BY <1>7, <2>1, FS_Injection, Zenon
<1>9. QED
  BY <1>2, <1>3, <1>8 DEF D

(* A part of 1 .. L that has with every number the smaller ones is an       *)
(* initial part.                                                           *)
LEMMA InitialPart ==
  ASSUME NEW L \in Nat, NEW K \in SUBSET (1 .. L), \A k \in K : \A j \in 1 .. k : j \in K
  PROVE  Cardinality(K) \in 0 .. L /\ K = 1 .. Cardinality(K)
<1> DEFINE T == {x \in Nat : x + 1 \notin K}
<1>1. L \in T
  OBVIOUS
<1>2. PICK n \in T : \A x \in T : n <= x
  <2> HIDE DEF T
  <2>1. T \in SUBSET Nat
    BY DEF T
  <2>2. QED
    BY <1>1, <2>1, LeastNumber
<1>3. n \in Nat /\ n + 1 \notin K /\ n <= L
  BY <1>1, <1>2
<1>4. K = 1 .. n
  <2>1. ASSUME NEW k \in 1 .. n PROVE k \in K
    <3>1. k - 1 \in Nat /\ k - 1 < n
      OBVIOUS
    <3>2. k - 1 \notin T
      BY <1>2, <1>3, <3>1
    <3>3. k - 1 + 1 = k
      OBVIOUS
    <3>4. QED
      BY <3>1, <3>2, <3>3
  <2>2. ASSUME NEW k \in K, k > n PROVE FALSE
    BY <1>3, <2>2
  <2>3. \A k \in K : k \in 1 .. n
    BY <1>3, <2>2
  <2> HIDE DEF T
  <2>4. QED
    BY <2>1, <2>3
<1>5. Cardinality(1 .. n) = n
  BY <1>3, UpTo
<1>6. QED
  BY <1>3, <1>4, <1>5

(* Sets that are paired off are equally large.                             *)
LEMMA SameSize ==
  ASSUME NEW S, IsFiniteSet(S), NEW T, NEW f \in [S -> T],
         \A x, y \in S : f[x] = f[y] => x = y, \A z \in T : \E x \in S : f[x] = z
  PROVE  Cardinality(T) = Cardinality(S)
<1>1. IsInjective(f)
  BY DEF IsInjective
<1>2. f \in Injection(S, T)
  BY <1>1 DEF Injection
<1>3. f \in Surjection(S, T)
  BY DEF Surjection
<1>4. QED
  BY <1>2, <1>3, FS_Surjection, Zenon

(* Two parts that share nothing add up.                                    *)
LEMMA ApartAddUp ==
  ASSUME NEW S, IsFiniteSet(S), NEW T, IsFiniteSet(T), S \cap T = {}
  PROVE  IsFiniteSet(S \cup T) /\ Cardinality(S \cup T) = Cardinality(S) + Cardinality(T)
<1>1. Cardinality(S \cap T) = 0
  BY FS_EmptySet
<1>2. Cardinality(S) \in Nat /\ Cardinality(T) \in Nat
  BY FS_CardinalityType
<1>3. IsFiniteSet(S \cup T) /\ Cardinality(S \cup T) = Cardinality(S) + Cardinality(T) - Cardinality(S \cap T)
  BY FS_Union
<1>4. QED
  BY <1>1, <1>2, <1>3

Part(O, rho, S) == {o \in O : rho[o] \in S}

CountsParts(w, D, O, rho) == \A d \in D : w[d] = Cardinality(Part(O, rho, {d}))

(* Counting the elements that go to each place counts those that go to any.*)
LEMMA PartsAddUp ==
  ASSUME NEW D, IsFiniteSet(D), NEW O, IsFiniteSet(O), NEW rho \in [O -> D],
         NEW w \in [D -> Nat], CountsParts(w, D, O, rho),
         NEW f, IsSum(f, D, w)
  PROVE  \A S \in SUBSET D : f[S] = Cardinality(Part(O, rho, S))
<1> DEFINE P == {S \in SUBSET D : f[S] = Cardinality(Part(O, rho, S))}
<1>1. \A S \in SUBSET D : f[S] = IF S = {} THEN 0 ELSE w[AnyOf(S)] + f[S \ {AnyOf(S)}]
  BY DEF IsSum
<1>2. {} \in P
  <2>1. Part(O, rho, {}) = {}
    BY DEF Part
  <2>2. Cardinality(Part(O, rho, {})) = 0
    BY <2>1, FS_EmptySet
  <2>3. QED
    BY <1>1, <2>2
<1>3. ASSUME NEW S \in SUBSET D, S # {}, S \ {AnyOf(S)} \in P PROVE S \in P
  <2> DEFINE a == AnyOf(S)
             R == S \ {a}
  <2>1. a \in S /\ R \in SUBSET D /\ S = R \cup {a} /\ a \notin R
    BY <1>3, AnyOfIsIn
  <2>2. f[S] = w[a] + f[R]
    BY <1>1, <1>3
  <2>3. f[R] = Cardinality(Part(O, rho, R))
    BY <1>3
  <2> HIDE DEF a, R
  <2>4. /\ Part(O, rho, S) = Part(O, rho, {a}) \cup Part(O, rho, R)
        /\ Part(O, rho, {a}) \cap Part(O, rho, R) = {}
        /\ Part(O, rho, {a}) \in SUBSET O /\ Part(O, rho, R) \in SUBSET O
    BY <2>1 DEF Part
  <2>5. IsFiniteSet(Part(O, rho, {a})) /\ IsFiniteSet(Part(O, rho, R))
    BY <2>4, FS_Subset
  <2>6. Cardinality(Part(O, rho, S)) = Cardinality(Part(O, rho, {a})) + Cardinality(Part(O, rho, R))
    BY <2>4, <2>5, ApartAddUp
  <2>7. w[a] = Cardinality(Part(O, rho, {a}))
    BY <2>1 DEF CountsParts
  <2>8. QED
    BY <2>2, <2>3, <2>6, <2>7
<1> HIDE DEF P
<1>4. \A S \in SUBSET D : S \in P
  BY <1>2, <1>3, SetInduction
<1>5. QED
  BY <1>4 DEF P

(* A product grows with its factors.                                       *)
LEMMA ProductsGrow ==
  ASSUME NEW x \in Nat, NEW y \in Nat, NEW z \in Nat, y <= z
  PROVE  x * y <= x * z /\ y * x <= z * x
<1>1. PICK d \in Nat : z = y + d
  <2>1. z - y \in Nat /\ z = y + (z - y)
    OBVIOUS
  <2>2. QED
    BY <2>1
<1>2. x * (y + d) = x * y + x * d /\ (y + d) * x = y * x + d * x
  OBVIOUS
<1>3. x * y \in Nat /\ x * d \in Nat /\ y * x \in Nat /\ d * x \in Nat
  OBVIOUS
<1>4. QED
  BY <1>1, <1>2, <1>3

-----------------------------------------------------------------------------
(* Sums of numbers that stand in a row.                                    *)

IsTotal(g, N, w) == g = [n \in 0 .. N |-> IF n = 0 THEN 0 ELSE g[n - 1] + w[n]]

LEMMA TotalExists ==
  ASSUME NEW N \in Nat, NEW w \in [1 .. N -> Nat]
  PROVE  \E g \in [0 .. N -> Nat] : IsTotal(g, N, w)
<1> DEFINE round == [n \in 1 .. N |-> [x \in Nat |-> x + w[n]]]
<1>1. round \in [1 .. N -> [Nat -> Nat]]
  OBVIOUS
<1>2. PICK g \in [0 .. N -> Nat] : IsLoop(g, N, 0, round)
  <2> HIDE DEF round
  <2>1. QED
    BY <1>1, LoopExists
<1>3. ASSUME NEW n \in 0 .. N, n # 0
      PROVE  round[n][g[n - 1]] = g[n - 1] + w[n]
  <2>1. n \in 1 .. N /\ g[n - 1] \in Nat
    BY <1>3
  <2>2. QED
    BY <2>1
<1> HIDE DEF round
<1>4. IsTotal(g, N, w)
  BY <1>2, <1>3 DEF IsLoop, IsTotal
<1>5. QED
  BY <1>4

LEMMA TotalIsNat ==
  ASSUME NEW N \in Nat, NEW w \in [1 .. N -> Nat], NEW g, IsTotal(g, N, w)
  PROVE  g \in [0 .. N -> Nat]
<1> DEFINE T == {n \in 0 .. N : g[n] \in Nat}
<1>1. g[0] = 0 /\ \A n \in 1 .. N : g[n] = g[n - 1] + w[n]
  BY DEF IsTotal
<1>2. 0 \in T
  BY <1>1
<1>3. ASSUME NEW n \in 1 .. N, n - 1 \in T PROVE n \in T
  <2>1. n \in 0 .. N /\ g[n - 1] \in Nat /\ w[n] \in Nat
    BY <1>3
  <2>2. QED
    BY <1>1, <2>1
<1> HIDE DEF T
<1>4. \A n \in 0 .. N : n \in T
  BY <1>2, <1>3, BoundedInduction
<1>5. \A n \in 0 .. N : g[n] \in Nat
  BY <1>4 DEF T
<1>6. g = [n \in 0 .. N |-> g[n]]
  BY DEF IsTotal
<1>7. QED
  BY <1>5, <1>6

(* When one of the numbers changes, so does their sum, and by as much.     *)
LEMMA TotalGrows ==
  ASSUME NEW N \in Nat, NEW w \in [1 .. N -> Nat], NEW v \in [1 .. N -> Nat], NEW p \in 1 .. N,
         \A q \in 1 .. N : q # p => v[q] = w[q],
         NEW g \in [0 .. N -> Nat], IsTotal(g, N, w), NEW h \in [0 .. N -> Nat], IsTotal(h, N, v)
  PROVE  h[N] + w[p] = g[N] + v[p]
<1> DEFINE T == {n \in 0 .. N : IF n < p THEN h[n] = g[n] ELSE h[n] + w[p] = g[n] + v[p]}
<1>1. /\ g[0] = 0 /\ \A n \in 1 .. N : g[n] = g[n - 1] + w[n]
      /\ h[0] = 0 /\ \A n \in 1 .. N : h[n] = h[n - 1] + v[n]
  BY DEF IsTotal
<1>2. 0 \in T
  BY <1>1
<1>3. ASSUME NEW n \in 1 .. N, n - 1 \in T PROVE n \in T
  <2>1. /\ n \in 0 .. N /\ g[n - 1] \in Nat /\ h[n - 1] \in Nat
        /\ w[n] \in Nat /\ v[n] \in Nat /\ w[p] \in Nat /\ v[p] \in Nat
    OBVIOUS
  <2>2. g[n] = g[n - 1] + w[n] /\ h[n] = h[n - 1] + v[n]
    BY <1>1
  <2>3. CASE n < p
    <3>1. v[n] = w[n] /\ h[n - 1] = g[n - 1]
      BY <1>3, <2>3
    <3>2. QED
      BY <2>1, <2>2, <2>3, <3>1
  <2>4. CASE n = p
    <3>1. h[n - 1] = g[n - 1]
      BY <1>3, <2>4
    <3>2. QED
      BY <2>1, <2>2, <2>4, <3>1
  <2>5. CASE n > p
    <3>1. v[n] = w[n] /\ h[n - 1] + w[p] = g[n - 1] + v[p]
      BY <1>3, <2>5
    <3>2. h[n] + w[p] = g[n] + v[p]
      <4>1. PICK x \in Nat, y \in Nat, a \in Nat, b \in Nat, c \in Nat :
              x = g[n - 1] /\ y = h[n - 1] /\ a = w[n] /\ b = w[p] /\ c = v[p]
        BY <2>1
      <4>2. y + b = x + c
        BY <3>1, <4>1
      <4>3. g[n] = x + a /\ h[n] = y + a
        BY <2>2, <3>1, <4>1
      <4>4. (y + a) + b = (x + a) + c
        BY <4>2
      <4>5. h[n] + b = g[n] + c
        BY <4>3, <4>4
      <4>6. QED
        BY <4>1, <4>5
    <3>3. QED
      BY <2>1, <2>5, <3>2
  <2>6. QED
    BY <2>3, <2>4, <2>5
<1> HIDE DEF T
<1>4. \A n \in 0 .. N : n \in T
  BY <1>2, <1>3, BoundedInduction
<1>5. N \in T /\ ~(N < p)
  BY <1>4
<1>6. QED
  BY <1>5 DEF T

LEMMA TotalIsOne ==
  ASSUME NEW N \in Nat, NEW w \in [1 .. N -> Nat],
         NEW g \in [0 .. N -> Nat], IsTotal(g, N, w), NEW h \in [0 .. N -> Nat], IsTotal(h, N, w)
  PROVE  h[N] = g[N]
<1> DEFINE T == {n \in 0 .. N : h[n] = g[n]}
<1>1. /\ g[0] = 0 /\ \A n \in 1 .. N : g[n] = g[n - 1] + w[n]
      /\ h[0] = 0 /\ \A n \in 1 .. N : h[n] = h[n - 1] + w[n]
  BY DEF IsTotal
<1>2. 0 \in T
  BY <1>1
<1>3. ASSUME NEW n \in 1 .. N, n - 1 \in T PROVE n \in T
  BY <1>1, <1>3
<1> HIDE DEF T
<1>4. \A n \in 0 .. N : n \in T
  BY <1>2, <1>3, BoundedInduction
<1>5. QED
  BY <1>4 DEF T

(* It does not matter which element of a set is added up first.            *)
AnyOrder(f, D, w) == \A S \in SUBSET D : \A x \in S : f[S] = w[x] + f[S \ {x}]

LEMMA SumWithout ==
  ASSUME NEW D, IsFiniteSet(D), NEW w \in [D -> Nat], NEW f \in [SUBSET D -> Nat], IsSum(f, D, w)
  PROVE  AnyOrder(f, D, w)
<1> DEFINE Free(Q) == \A y \in Q : f[Q] = w[y] + f[Q \ {y}]
           Size(Q) == Cardinality(Q)
           T == {n \in 0 .. Size(D) : \A Q \in SUBSET D : Size(Q) = n => Free(Q)}
<1>1. Size(D) \in Nat /\ \A Q \in SUBSET D : Size(Q) \in Nat /\ Size(Q) <= Size(D) /\ IsFiniteSet(Q)
  BY FS_CardinalityType, FS_Subset
<1>2. \A Q \in SUBSET D : f[Q] = IF Q = {} THEN 0 ELSE w[AnyOf(Q)] + f[Q \ {AnyOf(Q)}]
  BY DEF IsSum
<1>3. 0 \in T
  <2>1. ASSUME NEW Q \in SUBSET D, Size(Q) = 0 PROVE Free(Q)
    <3>1. Q = {}
      BY <2>1, OnlyEmptyHasNone
    <3>2. QED
      BY <3>1
  <2> HIDE DEF Free, Size
  <2>2. QED
    BY <1>1, <2>1
<1>4. ASSUME NEW n \in 1 .. Size(D), n - 1 \in T PROVE n \in T
  <2>1. ASSUME NEW Q \in SUBSET D, Size(Q) = n, NEW y \in Q PROVE f[Q] = w[y] + f[Q \ {y}]
    <3>1. PICK a \in D : a = AnyOf(Q) /\ a \in Q
      BY <2>1, AnyOfIsIn
    <3>2. f[Q] = w[a] + f[Q \ {a}]
      BY <1>2, <2>1, <3>1
    <3>3. CASE y = a
      BY <3>2, <3>3
    <3>4. CASE y # a
      <4>1. PICK R \in SUBSET D : R = Q \ {a}
        OBVIOUS
      <4>2. PICK P \in SUBSET D : P = Q \ {y}
        OBVIOUS
      <4>3. Size(R) = n - 1 /\ Size(P) = n - 1
        <5>1. IsFiniteSet(Q)
          BY <1>1
        <5>2. Size(R) = Size(Q) - 1
          BY <3>1, <4>1, <5>1, FS_RemoveElement
        <5>3. Size(P) = Size(Q) - 1
          BY <4>2, <5>1, FS_RemoveElement
        <5>4. QED
          BY <2>1, <5>2, <5>3
      <4>4. Free(R) /\ Free(P)
        BY <1>4, <4>3
      <4>5. PICK L \in SUBSET D : L = R \ {y} /\ L = P \ {a}
        BY <4>1, <4>2
      <4>6. y \in R /\ a \in P
        BY <3>1, <3>4, <4>1, <4>2
      <4>7. f[R] = w[y] + f[L] /\ f[P] = w[a] + f[L]
        BY <4>4, <4>5, <4>6
      <4>8. w[a] \in Nat /\ w[y] \in Nat /\ f[L] \in Nat
        BY <2>1
      <4>9. PICK u \in Nat, v \in Nat, z \in Nat : u = w[a] /\ v = w[y] /\ z = f[L]
        BY <4>8
      <4>10. f[Q] = u + (v + z) /\ f[P] = u + z
        BY <3>2, <4>1, <4>7, <4>9
      <4>11. f[Q] = v + f[P]
        BY <4>10
      <4>12. QED
        BY <4>2, <4>9, <4>11
    <3>5. QED
      BY <3>3, <3>4
  <2>2. \A Q \in SUBSET D : Size(Q) = n => Free(Q)
    BY <2>1
  <2> HIDE DEF Free, Size
  <2>3. n \in 0 .. Size(D)
    BY <1>1
  <2>4. QED
    BY <2>2, <2>3
<1> HIDE DEF T
<1>5. \A n \in 0 .. Size(D) : n \in T
  <2> HIDE DEF Size, Free
  <2>1. QED
    BY <1>1, <1>3, <1>4, BoundedInduction
<1>6. ASSUME NEW S \in SUBSET D PROVE Free(S)
  <2>1. Size(S) \in 0 .. Size(D)
    <3> HIDE DEF Size, Free
    <3>1. QED
      BY <1>1
  <2>2. QED
    BY <1>5, <2>1 DEF T
<1>7. QED
  BY <1>6 DEF AnyOrder

(* A sum over some of the places of a row is the total of the row.         *)
Spread(v, N, D, w) == v = [n \in 1 .. N |-> IF n \in D THEN w[n] ELSE 0]

LEMMA SumOfPlaces ==
  ASSUME NEW N \in Nat, NEW D, D \subseteq 1 .. N, NEW w \in [D -> Nat],
         NEW f \in [SUBSET D -> Nat], IsSum(f, D, w), NEW v, Spread(v, N, D, w),
         NEW g \in [0 .. N -> Nat], IsTotal(g, N, v)
  PROVE  g[N] = f[D]
<1> DEFINE To(n) == D \cap 1 .. n
           T == {n \in 0 .. N : g[n] = f[To(n)]}
<1>1. /\ g[0] = 0 /\ \A n \in 1 .. N : g[n] = g[n - 1] + v[n]
      /\ \A n \in 1 .. N : v[n] = IF n \in D THEN w[n] ELSE 0
  <2>1. g[0] = 0 /\ \A n \in 1 .. N : g[n] = g[n - 1] + v[n]
    BY DEF IsTotal
  <2>2. \A n \in 1 .. N : v[n] = IF n \in D THEN w[n] ELSE 0
    BY DEF Spread
  <2>3. QED
    BY <2>1, <2>2
<1>2. IsFiniteSet(D)
  BY UpTo, FS_Subset
<1>3. f[{}] = 0
  BY DEF IsSum
<1>4. \A S \in SUBSET D : \A x \in S : f[S] = w[x] + f[S \ {x}]
  <2>1. AnyOrder(f, D, w)
    BY <1>2, SumWithout
  <2>2. QED
    BY <2>1 DEF AnyOrder
<1>5. 0 \in T
  <2>1. To(0) = {} /\ 0 \in 0 .. N
    OBVIOUS
  <2> HIDE DEF To
  <2>2. g[0] = f[To(0)]
    BY <1>1, <1>3, <2>1
  <2>3. QED
    BY <2>1, <2>2
<1>6. ASSUME NEW n \in 1 .. N, n - 1 \in T PROVE n \in T
  <2>1. n \in 0 .. N /\ n - 1 \in 0 .. N
    OBVIOUS
  <2>2. g[n] = f[To(n - 1)] + v[n]
    BY <1>1, <1>6
  <2>3. CASE n \in D
    <3>1. To(n) \in SUBSET D /\ n \in To(n) /\ To(n) \ {n} = To(n - 1)
      <4>1. \A k \in 1 .. n : k # n => k \in 1 .. n - 1
        OBVIOUS
      <4>2. \A k \in 1 .. n - 1 : k \in 1 .. n /\ k # n
        OBVIOUS
      <4>3. To(n) \ {n} = To(n - 1)
        BY <4>1, <4>2
      <4>4. n \in To(n)
        BY <2>3
      <4>5. QED
        BY <4>3, <4>4
    <3> HIDE DEF To
    <3>2. PICK S \in SUBSET D : S = To(n)
      BY <3>1
    <3>3. n \in S
      BY <3>1, <3>2
    <3>4. f[S] = w[n] + f[S \ {n}]
      BY <1>4, <3>3
    <3>5. PICK a \in Nat, b \in Nat : a = w[n] /\ b = f[S \ {n}]
      BY <2>3
    <3>6. v[n] = a
      BY <1>1, <2>3, <3>5
    <3>7. g[n] = b + a
      BY <2>2, <3>1, <3>2, <3>5, <3>6
    <3>8. g[n] = f[S]
      BY <3>4, <3>5, <3>7
    <3>9. QED
      BY <2>1, <3>2, <3>8
  <2>4. CASE n \notin D
    <3>1. To(n) = To(n - 1)
      <4>1. \A k \in 1 .. n : k # n => k \in 1 .. n - 1
        OBVIOUS
      <4>2. \A k \in 1 .. n - 1 : k \in 1 .. n /\ k # n
        OBVIOUS
      <4>3. QED
        BY <2>4, <4>1, <4>2
    <3>2. To(n - 1) \in SUBSET D
      OBVIOUS
    <3> HIDE DEF To
    <3>3. f[To(n - 1)] \in Nat /\ v[n] = 0
      BY <1>1, <2>4, <3>2
    <3>4. QED
      BY <2>1, <2>2, <3>1, <3>3
  <2>5. QED
    BY <2>3, <2>4
<1> HIDE DEF T
<1>7. \A n \in 0 .. N : n \in T
  BY <1>5, <1>6, BoundedInduction
<1>8. g[N] = f[To(N)]
  BY <1>7 DEF T
<1>9. To(N) = D
  OBVIOUS
<1>10. QED
  BY <1>8, <1>9

(* A total only grows along its row.                                       *)
LEMMA TotalIsRising ==
  ASSUME NEW N \in Nat, NEW w \in [1 .. N -> Nat], NEW g \in [0 .. N -> Nat], IsTotal(g, N, w),
         NEW m \in 0 .. N
  PROVE  g[m] <= g[N]
<1> DEFINE T == {n \in 0 .. N : m <= n => g[m] <= g[n]}
<1>1. \A n \in 1 .. N : g[n] = g[n - 1] + w[n]
  BY DEF IsTotal
<1>2. 0 \in T
  <2>1. m <= 0 => m = 0
    OBVIOUS
  <2>2. g[0] \in Nat
    OBVIOUS
  <2>3. QED
    BY <2>1, <2>2
<1>3. ASSUME NEW n \in 1 .. N, n - 1 \in T PROVE n \in T
  <2>1. n \in 0 .. N /\ n - 1 \in 0 .. N
    OBVIOUS
  <2>2. g[n] \in Nat /\ g[n - 1] \in Nat /\ g[m] \in Nat /\ w[n] \in Nat
    BY <2>1
  <2>3. g[n - 1] <= g[n]
    BY <1>1, <2>2
  <2>4. m <= n => m = n \/ g[m] <= g[n - 1]
    BY <1>3
  <2>5. QED
    BY <2>1, <2>2, <2>3, <2>4
<1> HIDE DEF T
<1>4. \A n \in 0 .. N : n \in T
  BY <1>2, <1>3, BoundedInduction
<1>5. N \in T /\ m <= N
  BY <1>4
<1>6. QED
  BY <1>5 DEF T
=============================================================================
