---------------------------- MODULE OrderProofs -----------------------------
(***************************************************************************)
(* The order of lists: numbers have a least one, the elements of a finite  *)
(* set in a total order have each a place of their own, a sorted list      *)
(* holds the elements of the list, each once, and a set of places that is  *)
(* grown step by step holds in the end what each step has put in it.       *)
(***************************************************************************)
EXTENDS StableSort, Integers, Sequences, FiniteSets, SequencesExt, FiniteSetTheorems,
        SequenceTheorems, NaturalsInduction, WellFoundedInduction, TLAPS

\* A set of numbers that is not empty has a least one, and a greatest if bounded.
LEMMA LeastNat ==
    ASSUME NEW T \in SUBSET Nat, T # {}
    PROVE  \E x \in T : \A y \in T : x <= y
<1> DEFINE R == {ss \in Nat \X Nat : ss[1] < ss[2]}
<1>1. IsWellFoundedOn(R, Nat)
  BY NatLessThanWellFounded DEF OpToRel
<1>2. \E x \in T : \A y \in T : ~(<<y, x>> \in R)
  <2> HIDE DEF R
  <2> QED BY <1>1, WFMin
<1>3. PICK x \in T : \A y \in T : ~(<<y, x>> \in R)
  BY <1>2
<1>4. \A y \in T : ~(y < x)
  BY <1>3
<1> QED BY <1>4

LEMMA GreatestNat ==
    ASSUME NEW T \in SUBSET Nat, T # {}, NEW n \in Nat, \A x \in T : x <= n
    PROVE  \E x \in T : \A y \in T : y <= x
<1> DEFINE U == {n - x : x \in T}
<1>1. U \in SUBSET Nat /\ U # {}
  <2>1. \A x \in T : n - x \in Nat
    OBVIOUS
  <2>2. PICK x \in T : TRUE
    OBVIOUS
  <2>3. n - x \in U
    OBVIOUS
  <2> QED  BY <2>1, <2>3
<1>2. PICK u \in U : \A y \in U : u <= y
  BY <1>1, LeastNat
<1>3. PICK x \in T : u = n - x
  OBVIOUS
<1>4. \A y \in T : n - x <= n - y
  BY <1>2, <1>3
<1> QED  BY <1>4

-----------------------------------------------------------------------------
(* Places in a total order, and sorted lists. *)

\* How many elements of S are before x by the order R.
Before(R, S, x) == Cardinality({y \in S : <<y, x>> \in R})

\* The elements of a finite set have each a place of their own in a total order.
LEMMA PlacesAreBijection ==
    ASSUME NEW S, IsFiniteSet(S), NEW R,
           \A x \in S : <<x, x>> \notin R,
           \A x, y, z \in S : <<x, y>> \in R /\ <<y, z>> \in R => <<x, z>> \in R,
           \A x, y \in S : x # y => <<x, y>> \in R \/ <<y, x>> \in R
    PROVE  [x \in S |-> Before(R, S, x)] \in Bijection(S, 0..(Cardinality(S) - 1))
<1> DEFINE n == Cardinality(S)
           B(x) == {y \in S : <<y, x>> \in R}
           f == [x \in S |-> Before(R, S, x)]
<1>1. n \in Nat
  BY FS_CardinalityType
<1>2. \A x \in S : B(x) \in SUBSET (S \ {x})
  OBVIOUS
<1>3. \A x, y \in S : <<x, y>> \in R => B(x) \in SUBSET B(y) /\ x \in B(y) /\ x \notin B(x)
  OBVIOUS
<1>4. \A x \in S : f[x] = Cardinality(B(x))
  BY DEF Before
<1>5. f = [x \in S |-> f[x]]
  OBVIOUS
<1> HIDE DEF B, f, n
<1>6. ASSUME NEW x \in S PROVE IsFiniteSet(B(x)) /\ Cardinality(B(x)) \in 0..(n - 1)
  <2>1. IsFiniteSet(S \ {x}) /\ Cardinality(S \ {x}) = n - 1
    BY FS_RemoveElement DEF n
  <2>2. IsFiniteSet(B(x)) /\ Cardinality(B(x)) <= n - 1
    BY <1>2, <2>1, FS_Subset
  <2>3. Cardinality(B(x)) \in Nat
    BY <2>2, FS_CardinalityType
  <2> QED  BY <1>1, <2>2, <2>3
<1>7. ASSUME NEW x \in S, NEW y \in S, <<x, y>> \in R
      PROVE  Cardinality(B(x)) < Cardinality(B(y))
  <2>1. B(x) \in SUBSET B(y) /\ B(x) # B(y)
    BY <1>3, <1>7
  <2>2. Cardinality(B(x)) <= Cardinality(B(y)) /\ Cardinality(B(x)) # Cardinality(B(y))
    BY <1>6, <2>1, FS_Subset
  <2> QED  BY <1>1, <1>6, <2>2
<1>8. \A x \in S : f[x] \in 0..(n - 1)
  BY <1>4, <1>6
<1>9. ASSUME NEW x \in S, NEW y \in S, x # y PROVE f[x] # f[y]
  <2>1. Cardinality(B(x)) < Cardinality(B(y)) \/ Cardinality(B(y)) < Cardinality(B(x))
    BY <1>7, <1>9
  <2> QED  BY <1>1, <1>4, <1>6, <2>1
<1>10. f \in Injection(S, 0..(n - 1))
  BY <1>5, <1>8, <1>9, Zenon DEF Injection, IsInjective
<1>11. IsFiniteSet(0..(n - 1)) /\ Cardinality(0..(n - 1)) = n
  BY <1>1, FS_Interval
<1>12. f \in Surjection(S, 0..(n - 1))
  BY <1>10, <1>11, FS_Injection DEF n
<1>13. f \in Bijection(S, 0..(n - 1))
  BY <1>10, <1>12 DEF Bijection
<1> QED  BY <1>13 DEF f, n

\* Every place is taken.
LEMMA PlacesAreTaken ==
    ASSUME NEW S, IsFiniteSet(S), NEW R,
           \A x \in S : <<x, x>> \notin R,
           \A x, y, z \in S : <<x, y>> \in R /\ <<y, z>> \in R => <<x, z>> \in R,
           \A x, y \in S : x # y => <<x, y>> \in R \/ <<y, x>> \in R,
           NEW k \in 1..Cardinality(S)
    PROVE  \E x \in S : Before(R, S, x) = k - 1
<1> DEFINE f == [x \in S |-> Before(R, S, x)]
<1>1. f \in Bijection(S, 0..(Cardinality(S) - 1))
  BY PlacesAreBijection
<1>2. Cardinality(S) \in Nat
  BY FS_CardinalityType
<1>3. \A x \in S : f[x] = Before(R, S, x)
  OBVIOUS
<1> HIDE DEF f
<1>4. PICK x \in S : f[x] = k - 1
  BY <1>1, <1>2 DEF Bijection, Surjection
<1> QED  BY <1>3, <1>4

\* How many elements of D go before the one at i.
Rank(keys, D, i) == Cardinality({j \in D : GoesBefore(keys, j, i)})

LEMMA RankIsBijection ==
    ASSUME NEW n \in Nat, NEW keys \in [1..n -> Int]
    PROVE  [i \in 1..n |-> Rank(keys, 1..n, i)] \in Bijection(1..n, 0..(n - 1))
<1> DEFINE D == 1..n
           R == {p \in D \X D : GoesBefore(keys, p[1], p[2])}
<1>1. IsFiniteSet(D) /\ Cardinality(D) = n
  BY FS_Interval
<1>2. \A i, j \in D : <<j, i>> \in R <=> GoesBefore(keys, j, i)
  OBVIOUS
<1>3. /\ \A i \in D : ~GoesBefore(keys, i, i)
      /\ \A i, j, k \in D :
            GoesBefore(keys, i, j) /\ GoesBefore(keys, j, k) => GoesBefore(keys, i, k)
      /\ \A i, j \in D : i # j => GoesBefore(keys, i, j) \/ GoesBefore(keys, j, i)
  BY DEF GoesBefore
<1> HIDE DEF R
<1>4. \A i \in D : {j \in D : <<j, i>> \in R} = {j \in D : GoesBefore(keys, j, i)}
  BY <1>2
<1>5. [i \in D |-> Before(R, D, i)] = [i \in D |-> Rank(keys, D, i)]
  BY <1>4 DEF Before, Rank
<1>6. [i \in D |-> Before(R, D, i)] \in Bijection(D, 0..(Cardinality(D) - 1))
  <2> HIDE DEF D
  <2> QED  BY <1>1, <1>2, <1>3, PlacesAreBijection
<1> QED  BY <1>1, <1>5, <1>6

\* The place in a list of the element that a sort puts at n.
PlaceOf(keys, D, n) == CHOOSE i \in D : Rank(keys, D, i) = n - 1

\* A sorted list holds the elements of the list, each once, by ascending key.
LEMMA SortedIsPermutation ==
    ASSUME NEW T, NEW s \in Seq(T), NEW keys \in [DOMAIN s -> Int]
    PROVE  \E place \in [DOMAIN s -> DOMAIN s] :
             /\ \A a, b \in DOMAIN s : place[a] = place[b] => a = b
             /\ \A i \in DOMAIN s : \E a \in DOMAIN s : place[a] = i
             /\ \A a, b \in DOMAIN s : a < b => GoesBefore(keys, place[a], place[b])
             /\ SortedByKey(s, keys) \in [DOMAIN s -> {s[i] : i \in DOMAIN s}]
             /\ \A a \in DOMAIN s : SortedByKey(s, keys)[a] = s[place[a]]
<1> DEFINE n == Len(s)
           D == DOMAIN s
           f == [i \in D |-> Rank(keys, D, i)]
           B(i) == {j \in D : GoesBefore(keys, j, i)}
           place == [a \in D |-> PlaceOf(keys, D, a)]
<1>1. n \in Nat /\ D = 1..n
  OBVIOUS
<1>2. f \in Bijection(D, 0..(n - 1))
  BY <1>1, RankIsBijection
<1>3. \A i \in D : f[i] = Rank(keys, D, i) /\ Rank(keys, D, i) = Cardinality(B(i))
  BY DEF Rank
<1>4. SortedByKey(s, keys) = [a \in D |-> s[PlaceOf(keys, D, a)]]
  BY Zenon DEF SortedByKey, PlaceOf, Rank
<1>5. \A a \in D : place[a] = PlaceOf(keys, D, a)
  OBVIOUS
<1>6. SortedByKey(s, keys) = [a \in D |-> s[place[a]]]
  BY <1>4, <1>5
<1>7. place = [a \in D |-> place[a]]
  OBVIOUS
<1>8. \A i, k \in D : GoesBefore(keys, k, i) => B(k) \in SUBSET B(i)
  BY <1>1 DEF GoesBefore
<1>9. /\ \A i \in D : B(i) \in SUBSET D
      /\ \A i, k \in D : i # k => GoesBefore(keys, i, k) \/ GoesBefore(keys, k, i)
  BY <1>1 DEF GoesBefore
<1> HIDE DEF place, f, B
<1>10. \A a \in D : \E i \in D : f[i] = a - 1
  BY <1>1, <1>2 DEF Bijection, Surjection
<1>11. \A i, k \in D : f[i] = f[k] => i = k
  BY <1>2 DEF Bijection, Injection, IsInjective
<1>12. \A a \in D : place[a] \in D /\ f[place[a]] = a - 1
  BY <1>3, <1>5, <1>10 DEF PlaceOf
<1>13. \A a, b \in D : place[a] = place[b] => a = b
  <2> SUFFICES ASSUME NEW a \in D, NEW b \in D, place[a] = place[b] PROVE a = b
    OBVIOUS
  <2>1. a - 1 = b - 1
    BY <1>12
  <2> QED  BY <1>1, <2>1
<1>14. ASSUME NEW i \in D PROVE \E a \in D : place[a] = i
  <2>1. f[i] \in 0..(n - 1)
    BY <1>2 DEF Bijection, Surjection
  <2>2. f[i] + 1 \in D /\ (f[i] + 1) - 1 = f[i]
    BY <1>1, <2>1
  <2>3. f[place[f[i] + 1]] = f[i] /\ place[f[i] + 1] \in D
    BY <1>12, <2>2
  <2> QED  BY <1>11, <2>2, <2>3
<1>15. ASSUME NEW a \in D, NEW b \in D, a < b PROVE GoesBefore(keys, place[a], place[b])
  <2>1. place[a] # place[b] /\ place[a] \in D /\ place[b] \in D
    BY <1>1, <1>12, <1>13, <1>15
  <2>2. SUFFICES ASSUME GoesBefore(keys, place[b], place[a]) PROVE FALSE
    BY <1>9, <2>1
  <2>3. IsFiniteSet(B(place[a])) /\ B(place[b]) \in SUBSET B(place[a])
    <3>1. IsFiniteSet(1..n)
      BY <1>1, FS_Interval
    <3>2. IsFiniteSet(D) /\ B(place[a]) \in SUBSET D
      BY <1>1, <1>9, <2>1, <3>1
    <3>3. IsFiniteSet(B(place[a]))
      BY <3>2, FS_Subset
    <3> QED  BY <1>8, <2>1, <2>2, <3>3
  <2>4. Cardinality(B(place[b])) <= Cardinality(B(place[a]))
    BY <2>3, FS_Subset
  <2>5. b - 1 <= a - 1
    BY <1>3, <1>12, <2>1, <2>4
  <2> QED  BY <1>1, <1>15, <2>5
<1>16. place \in [D -> D]
  BY <1>7, <1>12
<1>17. /\ SortedByKey(s, keys) \in [D -> {s[i] : i \in D}]
       /\ \A a \in D : SortedByKey(s, keys)[a] = s[place[a]]
  BY <1>6, <1>16
<1> QED  BY <1>13, <1>14, <1>15, <1>16, <1>17

\* It is as long as the list, and of its elements.
LEMMA SortedElements ==
    ASSUME NEW T, NEW s \in Seq(T), NEW keys \in [DOMAIN s -> Int]
    PROVE  /\ SortedByKey(s, keys) \in Seq(T)
           /\ DOMAIN SortedByKey(s, keys) = DOMAIN s
           /\ \A a \in DOMAIN s : \E i \in DOMAIN s : SortedByKey(s, keys)[a] = s[i]
<1>1. SortedByKey(s, keys) \in [DOMAIN s -> {s[i] : i \in DOMAIN s}]
  BY SortedIsPermutation
<1>2. DOMAIN s = 1..Len(s) /\ Len(s) \in Nat /\ \A i \in DOMAIN s : s[i] \in T
  OBVIOUS
<1>3. {s[i] : i \in DOMAIN s} \subseteq T
  BY <1>2
<1>4. SortedByKey(s, keys) \in [1..Len(s) -> T]
  BY <1>1, <1>2, <1>3
<1> QED  BY <1>1, <1>2, <1>4

\* What a function makes of a finite set is finite.
LEMMA ImageIsFinite ==
    ASSUME NEW S, IsFiniteSet(S), NEW f
    PROVE  IsFiniteSet({f[x] : x \in S})
<1> DEFINE g == [x \in S |-> f[x]]
<1>1. g \in Surjection(S, {f[x] : x \in S})
  BY DEF Surjection
<1> QED  BY <1>1, FS_Surjection

\* The list of a finite set is of its elements.
LEMMA ListedSet ==
    ASSUME NEW S, IsFiniteSet(S)
    PROVE  /\ SetToSeq(S) \in Seq(S) /\ ToSet(SetToSeq(S)) = S
           /\ Len(SetToSeq(S)) = Cardinality(S)
           /\ \A i, j \in DOMAIN SetToSeq(S) : SetToSeq(S)[i] = SetToSeq(S)[j] => i = j
<1> DEFINE n == Cardinality(S)
           f == SetToSeq(S)
<1>1. n \in Nat
  BY FS_CardinalityType
<1>2. ExistsBijection(1..n, S)
  BY FS_CardinalityType
<1>3. PICK g \in Bijection(1..n, S) : TRUE
  BY <1>2 DEF ExistsBijection
<1>4. g \in [1..n -> S] /\ IsInjective(g)
  BY <1>3 DEF Bijection, Injection, IsInjective
<1>5. f \in [1..n -> S] /\ IsInjective(f)
  BY <1>4 DEF SetToSeq
<1>6. f \in Injection(1..n, S)
  BY <1>5 DEF Injection, IsInjective
<1>7. IsFiniteSet(1..n) /\ Cardinality(1..n) = n
  BY <1>1, FS_Interval
<1>8. f \in Surjection(1..n, S)
  BY <1>6, <1>7, FS_Injection
<1>9. ToSet(f) = S
  BY <1>5, <1>8 DEF ToSet, Surjection
<1>10. f \in Seq(S) /\ Len(f) = n
  BY <1>1, <1>5
<1>11. \A i, j \in DOMAIN f : f[i] = f[j] => i = j
  BY <1>5 DEF IsInjective
<1> QED  BY <1>9, <1>10, <1>11

-----------------------------------------------------------------------------
(* Lists, and what is built up along them. *)

\* What holds at first, and of a number if of the one before, holds of all.
LEMMA CountingUp ==
    ASSUME NEW N \in Nat, NEW Good, 0 \in Good, \A n \in 1..N : n - 1 \in Good => n \in Good
    PROVE  \A n \in 0..N : n \in Good
<1> DEFINE T == {n \in 0..N : n \notin Good}
<1> SUFFICES ASSUME T # {} PROVE FALSE
  OBVIOUS
<1>1. T \in SUBSET Nat
  OBVIOUS
<1>2. PICK n \in T : \A m \in T : n <= m
  <2> HIDE DEF T
  <2> QED  BY <1>1, LeastNat
<1>3. n # 0 /\ n \in 1..N
  OBVIOUS
<1>4. n - 1 \in 0..N /\ n - 1 \notin T
  BY <1>2, <1>3
<1> QED  BY <1>3, <1>4

\* What is built step by step can be built.
AreSteps(G, N, V) == G \in [1..N -> [V -> V]]
IsBuilt(f, b, G, N, V) ==
    f \in [0..N -> V] /\ f[0] = b /\ \A n \in 1..N : f[n] = G[n][f[n - 1]]

LEMMA BuiltUp ==
    ASSUME NEW V, NEW N \in Nat, NEW b \in V, NEW G, AreSteps(G, N, V)
    PROVE  \E f : IsBuilt(f, b, G, N, V)
<1> DEFINE Upto(m, f) == f \in [0..m -> V] /\ f[0] = b /\ \A n \in 1..m : f[n] = G[n][f[n - 1]]
           Good == {m \in 0..N : \E f : Upto(m, f)}
<1>0. G \in [1..N -> [V -> V]]
  BY DEF AreSteps
<1>1. 0 \in Good
  <2>1. Upto(0, [n \in 0..0 |-> b])
    OBVIOUS
  <2> HIDE DEF Upto
  <2> QED  BY <2>1
<1>2. ASSUME NEW m \in 1..N, m - 1 \in Good PROVE m \in Good
  <2>1. PICK f : Upto(m - 1, f)
    BY <1>2
  <2> DEFINE g == [n \in 0..m |-> IF n = m THEN G[m][f[m - 1]] ELSE f[n]]
  <2>2. f[m - 1] \in V /\ G[m] \in [V -> V] /\ G[m][f[m - 1]] \in V
    BY <1>0, <2>1
  <2>3. g \in [0..m -> V]
    <3>1. \A n \in 0..m : n # m => n \in 0..(m - 1) /\ f[n] \in V
      BY <2>1
    <3> QED  BY <2>2, <3>1
  <2>4. g[0] = b
    BY <2>1
  <2>5. ASSUME NEW n \in 1..m PROVE g[n] = G[n][g[n - 1]]
    <3>1. n - 1 \in 0..m /\ n - 1 # m /\ g[n - 1] = f[n - 1]
      OBVIOUS
    <3>2. CASE n = m
      BY <3>1, <3>2
    <3>3. CASE n # m
      <4>1. n \in 1..(m - 1) /\ g[n] = f[n]
        BY <3>3
      <4> QED  BY <2>1, <3>1, <4>1
    <3> QED  BY <3>2, <3>3
  <2>6. Upto(m, g)
    BY <2>3, <2>4, <2>5
  <2> HIDE DEF g, Upto
  <2> QED  BY <2>6
<1>3. N \in Good
  <2> HIDE DEF Good
  <2>1. \A m \in 1..N : m - 1 \in Good => m \in Good
    BY <1>2
  <2>2. \A m \in 0..N : m \in Good
    BY <1>1, <2>1, CountingUp
  <2> QED  BY <2>2
<1> QED  BY <1>3 DEF IsBuilt

\* A set of places that is grown step by step holds, up to each step, what it holds in
\* the end of the places before.
LEMMA GrownUpto ==
    ASSUME NEW N \in Nat, NEW f, f[0] = {},
           \A n \in 1..N : f[n] = f[n - 1] \/ f[n] = f[n - 1] \cup {n}
    PROVE  \A n \in 0..N : f[n] = f[N] \cap 1..n
<1> DEFINE Small == {n \in 0..N : f[n] \subseteq 1..n}
           Kept(m) == {n \in 0..N : n >= m => f[n] \cap 1..m = f[m]}
<1>1. \A n \in 0..N : n \in Small
  <2>1. 0 \in Small
    OBVIOUS
  <2>2. \A n \in 1..N : n - 1 \in Small => n \in Small
    OBVIOUS
  <2> HIDE DEF Small
  <2> QED  BY <2>1, <2>2, CountingUp
<1>2. ASSUME NEW m \in 0..N PROVE N \in Kept(m)
  <2>1. 0 \in Kept(m)
    <3>1. 0 >= m => m = 0
      OBVIOUS
    <3> QED  BY <3>1
  <2>2. ASSUME NEW n \in 1..N, n - 1 \in Kept(m) PROVE n \in Kept(m)
    <3>1. CASE n = m
      <4>1. f[m] \subseteq 1..m
        BY <1>1
      <4> QED  BY <3>1, <4>1
    <3>2. CASE n > m
      <4>1. f[n - 1] \cap 1..m = f[m]
        <5>1. n - 1 >= m
          BY <3>2
        <5> QED  BY <2>2, <5>1
      <4>2. n \notin 1..m
        BY <3>2
      <4>3. f[n] \cap 1..m = f[n - 1] \cap 1..m
        BY <4>2
      <4> QED  BY <4>1, <4>3
    <3>3. CASE n < m
      BY <3>3
    <3> QED  BY <3>1, <3>2, <3>3
  <2>3. \A n \in 0..N : n \in Kept(m)
    <3> HIDE DEF Kept
    <3> QED  BY <2>1, <2>2, CountingUp
  <2>4. N \in 0..N
    OBVIOUS
  <2> QED  BY <2>3, <2>4
<1> QED  BY <1>2

\* Whether n joins the set x.
AreTests(J, N) == J \in [1..N -> [SUBSET (1..N) -> BOOLEAN]]
IsGrown(f, J, N) ==
    /\ f \in [0..N -> SUBSET (1..N)] /\ f[0] = {}
    /\ \A n \in 1..N : f[n] = IF J[n][f[n - 1]] THEN f[n - 1] \cup {n} ELSE f[n - 1]

LEMMA GrownSetIs ==
    ASSUME NEW N \in Nat, NEW J, AreTests(J, N)
    PROVE  \E f : IsGrown(f, J, N)
<1> DEFINE V == SUBSET (1..N)
           G == [n \in 1..N |-> [x \in V |-> IF J[n][x] THEN x \cup {n} ELSE x]]
<1>1. {} \in V /\ \A n \in 1..N, x \in V : x \cup {n} \in V
  OBVIOUS
<1> HIDE DEF V
<1>2. AreSteps(G, N, V)
  <2>1. G \in [1..N -> [V -> V]]
    BY <1>1
  <2> QED  BY <2>1 DEF AreSteps
<1>3. PICK f : IsBuilt(f, {}, G, N, V)
  <2> HIDE DEF G
  <2> QED  BY <1>1, <1>2, BuiltUp
<1>4. f \in [0..N -> V] /\ f[0] = {} /\ \A n \in 1..N : f[n] = G[n][f[n - 1]]
  <2> HIDE DEF G
  <2> QED  BY <1>3 DEF IsBuilt
<1>5. ASSUME NEW n \in 1..N
      PROVE  f[n] = IF J[n][f[n - 1]] THEN f[n - 1] \cup {n} ELSE f[n - 1]
  <2>1. f[n - 1] \in V
    BY <1>4
  <2>2. f[n] = G[n][f[n - 1]]
    BY <1>4
  <2> QED  BY <2>1, <2>2
<1> HIDE DEF G
<1> QED  BY <1>4, <1>5 DEF IsGrown, V

IsList(s) == \E n \in Nat : s \in [1..n -> ToSet(s)]

LEMMA ListIs ==
    ASSUME NEW s, IsList(s)
    PROVE  /\ Len(s) \in Nat /\ DOMAIN s = 1..Len(s) /\ s \in Seq(ToSet(s))
           /\ \A n \in DOMAIN s : s[n] \in ToSet(s)
<1>1. PICK n \in Nat : s \in [1..n -> ToSet(s)]
  BY DEF IsList
<1>2. s \in Seq(ToSet(s))
  BY <1>1
<1> QED  BY <1>1, <1>2

LEMMA ElementsAre ==
    ASSUME NEW s
    PROVE  \A x : x \in ToSet(s) <=> \E n \in DOMAIN s : s[n] = x
BY DEF ToSet

LEMMA SeqIsList ==
    ASSUME NEW T, NEW s \in Seq(T)
    PROVE  IsList(s) /\ ToSet(s) \in SUBSET T
<1>1. Len(s) \in Nat /\ s \in [1..Len(s) -> T]
  OBVIOUS
<1>2. \A n \in 1..Len(s) : s[n] \in ToSet(s)
  BY <1>1 DEF ToSet
<1>3. s \in [1..Len(s) -> ToSet(s)]
  BY <1>1, <1>2
<1>4. ToSet(s) \in SUBSET T
  BY <1>1 DEF ToSet
<1> QED  BY <1>1, <1>3, <1>4 DEF IsList

\* A list of as many elements as another.
LEMMA MappedList ==
    ASSUME NEW s, IsList(s), NEW f, f = [n \in DOMAIN s |-> f[n]]
    PROVE  IsList(f) /\ DOMAIN f = DOMAIN s
<1>1. PICK n \in Nat : n = Len(s) /\ DOMAIN s = 1..n
  BY ListIs
<1>2. DOMAIN f = 1..n
  BY <1>1
<1>3. \A k \in 1..n : f[k] \in ToSet(f)
  BY <1>2 DEF ToSet
<1>4. f \in [1..n -> ToSet(f)]
  BY <1>1, <1>2, <1>3
<1> QED  BY <1>1, <1>2, <1>4 DEF IsList

LEMMA ConcatList ==
    ASSUME NEW s, NEW t, IsList(s), IsList(t)
    PROVE  IsList(s \o t) /\ ToSet(s \o t) = ToSet(s) \cup ToSet(t)
<1> DEFINE T == ToSet(s) \cup ToSet(t)
<1>1. /\ s \in Seq(T) /\ t \in Seq(T) /\ Len(s) \in Nat /\ Len(t) \in Nat
      /\ DOMAIN s = 1..Len(s) /\ DOMAIN t = 1..Len(t)
  <2>1. s \in Seq(ToSet(s)) /\ t \in Seq(ToSet(t))
    BY ListIs
  <2> QED  BY <2>1, ListIs
<1> HIDE DEF T
<1>2. /\ s \o t \in Seq(T) /\ Len(s \o t) = Len(s) + Len(t)
      /\ \A i \in 1..Len(s \o t) : (s \o t)[i] = IF i <= Len(s) THEN s[i] ELSE t[i - Len(s)]
  BY <1>1, ConcatProperties
<1>3. PICK c : c = s \o t
  OBVIOUS
<1>4. IsList(c) /\ ToSet(c) \subseteq T
  BY <1>2, <1>3, SeqIsList
<1>5. DOMAIN c = 1..(Len(s) + Len(t))
  BY <1>1, <1>2, <1>3
<1>6. ASSUME NEW n \in DOMAIN s PROVE s[n] \in ToSet(c)
  <2>1. n \in DOMAIN c /\ c[n] = s[n]
    BY <1>1, <1>2, <1>3, <1>5
  <2> QED  BY <2>1, ElementsAre
<1>7. ASSUME NEW n \in DOMAIN t PROVE t[n] \in ToSet(c)
  <2>1. Len(s) + n \in DOMAIN c /\ Len(s) + n \in 1..Len(s \o t) /\ ~(Len(s) + n <= Len(s)) /\ (Len(s) + n) - Len(s) = n
    BY <1>1, <1>2, <1>5
  <2>2. c[Len(s) + n] = t[n]
    BY <1>2, <1>3, <2>1
  <2> QED  BY <2>1, <2>2, ElementsAre
<1>8. T \subseteq ToSet(c)
  BY <1>6, <1>7 DEF T, ToSet
<1> QED  BY <1>3, <1>4, <1>8 DEF T

LEMMA FlattenedList ==
    ASSUME NEW ss, IsList(ss), \A n \in DOMAIN ss : IsList(ss[n])
    PROVE  IsList(FlattenSeq(ss)) /\ ToSet(FlattenSeq(ss)) = UNION {ToSet(ss[n]) : n \in DOMAIN ss}
<1>0. PICK N \in Nat : N = Len(ss) /\ DOMAIN ss = 1..N
  BY ListIs
<1>1. CASE N = 0
  <2>1. FlattenSeq(ss) = ss /\ DOMAIN ss = {}
    BY <1>0, <1>1 DEF FlattenSeq
  <2> QED  BY <2>1 DEF ToSet
<1>2. CASE N # 0
  <2> DEFINE D(f) == [i \in 1..N |-> IF i = 1 THEN ss[i] ELSE f[i - 1] \o ss[i]]
             g == CHOOSE f : f = D(f)
             T == UNION {ToSet(ss[n]) : n \in DOMAIN ss}
             V == Seq(T)
             G == [i \in 1..N |-> [x \in V |-> x \o ss[i]]]
  <2>1. \A i \in 1..N : ss[i] \in V
    <3> SUFFICES ASSUME NEW i \in 1..N PROVE ss[i] \in V
      OBVIOUS
    <3>1. ss[i] \in Seq(ToSet(ss[i])) /\ ToSet(ss[i]) \subseteq T
      BY <1>0, ListIs
    <3> QED  BY <3>1
  <2>2. <<>> \in V /\ \A x, y \in V : x \o y \in V
    OBVIOUS
  <2>3. \A y \in V : <<>> \o y = y
    BY ConcatEmptySeq
  <2> HIDE DEF V
  <2>4. G \in [1..N -> [V -> V]]
    BY <2>1, <2>2
  <2>5. PICK f \in [0..N -> V] : f[0] = <<>> /\ \A n \in 1..N : f[n] = G[n][f[n - 1]]
    <3>1. AreSteps(G, N, V)
      BY <2>4 DEF AreSteps
    <3> HIDE DEF G
    <3>2. \E f : IsBuilt(f, <<>>, G, N, V)
      BY <2>2, <3>1, BuiltUp
    <3> QED  BY <3>2 DEF IsBuilt
  <2>6. \A n \in 1..N : f[n - 1] \in V /\ f[n] = f[n - 1] \o ss[n]
    <3> SUFFICES ASSUME NEW n \in 1..N PROVE f[n - 1] \in V /\ f[n] = f[n - 1] \o ss[n]
      OBVIOUS
    <3>1. n - 1 \in 0..N
      OBVIOUS
    <3>2. f[n - 1] \in V
      BY <3>1
    <3> QED  BY <2>5, <3>2
  <2> DEFINE h == [i \in 1..N |-> f[i]]
  <2>7. h = D(h)
    <3>1. ASSUME NEW i \in 1..N
          PROVE  h[i] = IF i = 1 THEN ss[i] ELSE h[i - 1] \o ss[i]
      <4>1. CASE i = 1
        <5>0. 1 \in 1..N /\ f[1 - 1] = f[0]
          BY <4>1
        <5>1. f[1] = <<>> \o ss[1]
          BY <2>5, <2>6, <5>0
        <5>2. f[1] = ss[1]
          BY <2>1, <2>3, <4>1, <5>1
        <5> QED  BY <4>1, <5>2
      <4>2. CASE i # 1
        <5>1. i - 1 \in 1..N
          BY <4>2
        <5> QED  BY <2>6, <4>2, <5>1
      <4> QED  BY <4>1, <4>2
    <3> HIDE DEF h
    <3>2. D(h) = [i \in 1..N |-> h[i]]
      BY <3>1
    <3>3. h = [i \in 1..N |-> h[i]]
      BY DEF h
    <3> QED  BY <3>2, <3>3
  <2>8. g = D(g)
    <3> HIDE DEF D, h
    <3> QED  BY <2>7
  <2>9. \A i \in 1..N : g[i] = IF i = 1 THEN ss[i] ELSE g[i - 1] \o ss[i]
    <3> SUFFICES ASSUME NEW i \in 1..N PROVE g[i] = IF i = 1 THEN ss[i] ELSE g[i - 1] \o ss[i]
      OBVIOUS
    <3> HIDE DEF g
    <3>1. g[i] = D(g)[i]
      BY <2>8
    <3> QED  BY <3>1
  <2>10. FlattenSeq(ss) = g[N]
    BY <1>0, <1>2 DEF FlattenSeq
  <2> HIDE DEF g
  <2> DEFINE Good == {i \in 0..N : i = 0 \/ (IsList(g[i]) /\ ToSet(g[i]) = UNION {ToSet(ss[n]) : n \in 1..i})}
  <2>11. \A i \in 1..N : i - 1 \in Good => i \in Good
    <3> SUFFICES ASSUME NEW i \in 1..N, i - 1 \in Good PROVE i \in Good
      OBVIOUS
    <3>1. CASE i = 1
      <4>1. g[i] = ss[1] /\ IsList(ss[1])
        BY <1>0, <2>9, <3>1
      <4>2. UNION {ToSet(ss[n]) : n \in 1..i} = ToSet(ss[1])
        BY <3>1
      <4> QED  BY <4>1, <4>2
    <3>2. CASE i # 1
      <4>1. IsList(g[i - 1]) /\ ToSet(g[i - 1]) = UNION {ToSet(ss[n]) : n \in 1..(i - 1)} /\ IsList(ss[i])
        BY <1>0, <3>2
      <4>2. g[i] = g[i - 1] \o ss[i]
        BY <2>9, <3>2
      <4>3. IsList(g[i]) /\ ToSet(g[i]) = ToSet(g[i - 1]) \cup ToSet(ss[i])
        BY <4>1, <4>2, ConcatList
      <4>4. \A n : n \in 1..i <=> n \in 1..(i - 1) \/ n = i
        OBVIOUS
      <4>5. UNION {ToSet(ss[n]) : n \in 1..i} = (UNION {ToSet(ss[n]) : n \in 1..(i - 1)}) \cup ToSet(ss[i])
        BY <4>4
      <4> QED  BY <4>1, <4>3, <4>5
    <3> QED  BY <3>1, <3>2
  <2>12. N \in Good
    <3>1. 0 \in Good
      OBVIOUS
    <3> HIDE DEF Good
    <3> QED  BY <2>11, <3>1, CountingUp
  <2> QED  BY <1>0, <1>2, <2>10, <2>12
<1> QED  BY <1>1, <1>2

-----------------------------------------------------------------------------
(* Picking from a list. *)

\* The list t has the elements of s at the places K, and p leads to them in order.
IsPick(p, t, s, K) ==
    /\ p \in [DOMAIN t -> K]
    /\ \A a, b \in DOMAIN t : a < b => p[a] < p[b]
    /\ \A k \in K : \E a \in DOMAIN t : p[a] = k
    /\ \A a \in DOMAIN t : t[a] = s[p[a]]

\* One more place is one more element.
LEMMA PickedOneMore ==
    ASSUME NEW T, NEW t \in Seq(T), NEW s, NEW n \in Nat, NEW x \in T, x = s[n], NEW J, NEW K,
           \A j \in J : j \in Nat /\ j < n, \A k : k \in K <=> k \in J \/ k = n,
           NEW p, IsPick(p, t, s, J)
    PROVE  \E q : IsPick(q, Append(t, x), s, K)
<1> DEFINE q == [a \in 1..(Len(t) + 1) |-> IF a = Len(t) + 1 THEN n ELSE p[a]]
<1>1. PICK m \in Nat : m = Len(t) /\ DOMAIN t = 1..m
  OBVIOUS
<1>2. PICK u : u = Append(t, x)
  OBVIOUS
<1>3. DOMAIN u = 1..(m + 1) /\ u[m + 1] = x /\ \A a \in 1..m : u[a] = t[a]
  BY <1>1, <1>2
<1>4. q[m + 1] = n /\ \A a \in 1..m : q[a] = p[a]
  BY <1>1
<1>5. q = [a \in 1..(m + 1) |-> q[a]]
  BY <1>1
<1> HIDE DEF q
<1>6. \A a \in 1..(m + 1) : a \in 1..m \/ a = m + 1
  OBVIOUS
<1>7. \A a \in 1..m : p[a] \in J /\ p[a] < n
  BY <1>1 DEF IsPick
<1>8. q \in [1..(m + 1) -> K]
  BY <1>4, <1>5, <1>6, <1>7
<1>9. ASSUME NEW a \in 1..(m + 1), NEW b \in 1..(m + 1), a < b PROVE q[a] < q[b]
  <2>1. a \in 1..m
    BY <1>9
  <2>2. CASE b = m + 1
    BY <1>4, <1>7, <2>1, <2>2
  <2>3. CASE b # m + 1
    <3>1. b \in 1..m
      BY <2>3
    <3> QED  BY <1>1, <1>4, <1>9, <2>1, <3>1 DEF IsPick
  <2> QED  BY <2>2, <2>3
<1>10. ASSUME NEW k \in K PROVE \E a \in 1..(m + 1) : q[a] = k
  <2>1. CASE k = n
    BY <1>4, <2>1
  <2>2. CASE k # n
    <3>1. PICK a \in 1..m : p[a] = k
      BY <1>1, <2>2 DEF IsPick
    <3> QED  BY <1>4, <3>1
  <2> QED  BY <2>1, <2>2
<1>11. ASSUME NEW a \in 1..(m + 1) PROVE u[a] = s[q[a]]
  <2>1. CASE a = m + 1
    BY <1>3, <1>4, <2>1
  <2>2. CASE a # m + 1
    BY <1>1, <1>3, <1>4, <1>6, <2>2 DEF IsPick
  <2> QED  BY <2>1, <2>2
<1>12. IsPick(q, u, s, K)
  BY <1>3, <1>8, <1>9, <1>10, <1>11 DEF IsPick
<1> QED  BY <1>2, <1>12

\* What is picked are the elements at the places, in order.
LEMMA PickedIs ==
    ASSUME NEW T, NEW s \in Seq(T), NEW K \in SUBSET (DOMAIN s)
    PROVE  Picked(s, K) \in Seq(T) /\ \E p : IsPick(p, Picked(s, K), s, K)
<1> DEFINE D(f) == [n \in 0..Len(s) |->
                       IF n = 0 THEN <<>>
                       ELSE IF n \in K THEN Append(f[n - 1], s[n]) ELSE f[n - 1]]
           g == CHOOSE f : f = D(f)
           V == Seq(T)
<1>1. PICK N \in Nat : N = Len(s) /\ DOMAIN s = 1..N
  OBVIOUS
<1> DEFINE G == [n \in 1..N |-> [x \in V |-> IF n \in K THEN Append(x, s[n]) ELSE x]]
<1>2. /\ <<>> \in V /\ DOMAIN <<>> = {}
      /\ \A x \in V, y \in T : Append(x, y) \in V
      /\ \A n \in 1..N : s[n] \in T
  BY <1>1
<1> HIDE DEF V
<1>3. G \in [1..N -> [V -> V]]
  BY <1>2
<1>4. PICK f : f \in [0..N -> V] /\ f[0] = <<>> /\ \A n \in 1..N : f[n] = G[n][f[n - 1]]
  <2>1. AreSteps(G, N, V)
    BY <1>3 DEF AreSteps
  <2> HIDE DEF G
  <2>2. \E f : IsBuilt(f, <<>>, G, N, V)
    BY <1>2, <2>1, BuiltUp
  <2> QED  BY <2>2 DEF IsBuilt
<1>5. f = D(f)
  <2>1. ASSUME NEW n \in 1..N
        PROVE  f[n] = IF n \in K THEN Append(f[n - 1], s[n]) ELSE f[n - 1]
    <3>1. f[n - 1] \in V
      BY <1>4
    <3> QED  BY <1>4, <3>1
  <2>2. \A n \in 0..N : f[n] = IF n = 0 THEN <<>>
                               ELSE IF n \in K THEN Append(f[n - 1], s[n]) ELSE f[n - 1]
    <3>1. \A n \in 0..N : n # 0 => n \in 1..N
      OBVIOUS
    <3> QED  BY <1>4, <2>1, <3>1
  <2>3. f = [n \in 0..N |-> f[n]]
    BY <1>4
  <2> QED  BY <1>1, <2>2, <2>3
<1>6. g = D(g)
  <2> HIDE DEF D
  <2> QED  BY <1>5
<1>7. Picked(s, K) = g[N]
  BY <1>1 DEF Picked
<1> HIDE DEF g
<1>8. g[0] = <<>> /\ \A n \in 1..N : g[n] = IF n \in K THEN Append(g[n - 1], s[n]) ELSE g[n - 1]
  <2>1. ASSUME NEW n \in 0..N
        PROVE  g[n] = IF n = 0 THEN <<>>
                      ELSE IF n \in K THEN Append(g[n - 1], s[n]) ELSE g[n - 1]
    <3>1. g[n] = D(g)[n]
      <4> HIDE DEF D
      <4> QED  BY <1>6
    <3>2. n \in 0..Len(s)
      BY <1>1
    <3> HIDE DEF G, V
    <3> QED  BY <3>1, <3>2
  <2> HIDE DEF D, G, V
  <2>2. g[0] = <<>>
    <3>1. 0 \in 0..N
      BY <1>1
    <3> QED  BY <2>1, <3>1
  <2>3. ASSUME NEW n \in 1..N
        PROVE  g[n] = IF n \in K THEN Append(g[n - 1], s[n]) ELSE g[n - 1]
    <3>1. n \in 0..N /\ n # 0
      BY <1>1
    <3> QED  BY <2>1, <3>1
  <2> QED  BY <2>2, <2>3
<1> HIDE DEF D, G
<1> DEFINE J(n) == {k \in K : k <= n}
           Good == {n \in 0..N : g[n] \in V /\ \E p : IsPick(p, g[n], s, J(n))}
<1>9. 0 \in Good
  <2>1. J(0) = {}
    BY <1>1
  <2>2. IsPick(<<>>, <<>>, s, {})
    BY <1>2 DEF IsPick
  <2> HIDE DEF J
  <2>3. 0 \in 0..N /\ g[0] \in V
    BY <1>2, <1>8
  <2>4. IsPick(<<>>, g[0], s, J(0))
    BY <1>8, <2>1, <2>2, Zenon
  <2> QED  BY <2>3, <2>4
<1>10. ASSUME NEW n \in 1..N, n - 1 \in Good PROVE n \in Good
  <2>1. g[n - 1] \in V
    BY <1>10
  <2>2. PICK p : IsPick(p, g[n - 1], s, J(n - 1))
    BY <1>10
  <2>3. \A k \in K : k \in Nat /\ (k <= n <=> k <= n - 1 \/ k = n)
    BY <1>1
  <2>4. CASE n \in K
    <3>1. g[n] = Append(g[n - 1], s[n]) /\ s[n] \in T
      BY <1>2, <1>8, <2>4
    <3>2. \A j \in J(n - 1) : j \in Nat /\ j < n
      BY <1>1
    <3>3. \A k : k \in J(n) <=> k \in J(n - 1) \/ k = n
      BY <2>3, <2>4
    <3> HIDE DEF J
    <3>4. \E q : IsPick(q, g[n], s, J(n))
      <4>1. g[n - 1] \in Seq(T) /\ n \in Nat
        BY <2>1 DEF V
      <4>2. PICK t, x, A, B : t = g[n - 1] /\ x = s[n] /\ A = J(n - 1) /\ B = J(n)
        OBVIOUS
      <4>3. \E q : IsPick(q, Append(t, x), s, B)
        BY <2>2, <3>1, <3>2, <3>3, <4>1, <4>2, PickedOneMore
      <4> QED  BY <3>1, <4>2, <4>3
    <3>5. g[n] \in V
      BY <1>2, <2>1, <3>1
    <3> QED  BY <3>4, <3>5
  <2>5. CASE n \notin K
    <3>1. g[n] = g[n - 1]
      BY <1>8, <2>5
    <3>2. J(n) = J(n - 1)
      BY <2>3, <2>5
    <3> HIDE DEF J
    <3> QED  BY <2>1, <2>2, <3>1, <3>2
  <2> QED  BY <2>4, <2>5
<1>11. N \in Good
  <2> HIDE DEF Good
  <2>1. \A n \in 0..N : n \in Good
    BY <1>9, <1>10, CountingUp
  <2> QED  BY <2>1
<1>12. J(N) = K
  BY <1>1
<1> QED  BY <1>7, <1>11, <1>12 DEF V

-----------------------------------------------------------------------------
(* Lists that agree on some elements. *)

\* The places of elements of E, and a way from some places to others that keeps their
\* order and misses none.
Where(s, E) == {n \in DOMAIN s : s[n] \in E}
InOrder(g, A, B) ==
    /\ g \in [A -> B]
    /\ \A x, y \in A : x < y => g[x] < g[y]
    /\ \A y \in B : \E x \in A : g[x] = y

\* The elements of E are the same in both lists, as often and in the same order.
Leads(g, s, t, E) == InOrder(g, Where(s, E), Where(t, E)) /\ \A n \in Where(s, E) : t[g[n]] = s[n]
Agree(s, t, E) == \E g : Leads(g, s, t, E)

\* Lists that have the elements at the same places agree.
LEMMA AgreeInPlace ==
    ASSUME NEW s, NEW t, NEW E, Where(s, E) = Where(t, E), \A n \in Where(s, E) : s[n] = t[n]
    PROVE  Agree(s, t, E)
<1> DEFINE g == [n \in Where(s, E) |-> n]
<1>1. g \in [Where(s, E) -> Where(t, E)] /\ \A n \in Where(s, E) : g[n] = n
  OBVIOUS
<1> HIDE DEF g
<1>2. InOrder(g, Where(s, E), Where(t, E))
  BY <1>1 DEF InOrder
<1>3. Leads(g, s, t, E)
  BY <1>1, <1>2 DEF Leads
<1> QED  BY <1>3 DEF Agree

\* The list u has elements of s, that p leads to by ascending key, ties in order.
Ordered(p, u, s, keys) ==
    /\ p \in [DOMAIN u -> DOMAIN s]
    /\ \A a, b \in DOMAIN u : a < b => GoesBefore(keys, p[a], p[b])
    /\ \A a \in DOMAIN u : u[a] = s[p[a]]

\* What is agreed on is of equal keys, and either kept in both lists or in none.
Corresponding(s, t, u, v, p, q, ks, kt, E) ==
    \A x \in Where(s, E), y \in Where(t, E) : s[x] = t[y] =>
        ks[x] = kt[y] /\ ((\E a \in DOMAIN u : p[a] = x) <=> (\E b \in DOMAIN v : q[b] = y))

\* What lists agree on is still agreed on when both are put in the same order, and the same
\* elements are left out of both.
LEMMA AgreeRearranged ==
    ASSUME NEW S, NEW s \in Seq(S), NEW t \in Seq(S), NEW u \in Seq(S), NEW v \in Seq(S),
           NEW E, Agree(s, t, E),
           NEW ks \in [DOMAIN s -> Int], NEW kt \in [DOMAIN t -> Int],
           NEW p, Ordered(p, u, s, ks), NEW q, Ordered(q, v, t, kt),
           Corresponding(s, t, u, v, p, q, ks, kt, E)
    PROVE  Agree(u, v, E)
<1>1. PICK g : Leads(g, s, t, E)
  BY DEF Agree
<1> DEFINE A == Where(s, E)
           B == Where(t, E)
           M == Where(u, E)
           N == Where(v, E)
           h == [m \in M |-> CHOOSE n \in N : q[n] = g[p[m]]]
<1>2. /\ A \in SUBSET DOMAIN s /\ B \in SUBSET DOMAIN t
      /\ M \in SUBSET DOMAIN u /\ N \in SUBSET DOMAIN v
      /\ DOMAIN s \in SUBSET Int /\ DOMAIN t \in SUBSET Int
      /\ DOMAIN u \in SUBSET Int /\ DOMAIN v \in SUBSET Int
  BY DEF Where
<1>3. /\ \A x \in A : g[x] \in B /\ t[g[x]] = s[x]
      /\ \A x, y \in A : x < y => g[x] < g[y]
      /\ \A y \in B : \E x \in A : g[x] = y
  BY <1>1 DEF Leads, InOrder
<1>4. /\ \A m \in M : p[m] \in A
      /\ \A m \in DOMAIN u : p[m] \in A => m \in M
      /\ \A n \in N : q[n] \in B
      /\ \A n \in DOMAIN v : q[n] \in B => n \in N
  BY DEF Ordered, Where
<1>5. \A m, n \in N : q[m] = q[n] => m = n
  <2> SUFFICES ASSUME NEW m \in N, NEW n \in N, q[m] = q[n], m < n PROVE FALSE
    BY <1>2
  <2>1. GoesBefore(kt, q[m], q[n]) /\ q[m] \in DOMAIN t
    BY <1>2 DEF Ordered
  <2> QED  BY <1>2, <2>1 DEF GoesBefore
<1>6. \A x \in A : (\E m \in M : p[m] = x) <=> (\E n \in N : q[n] = g[x])
  <2> SUFFICES ASSUME NEW x \in A PROVE (\E m \in M : p[m] = x) <=> (\E n \in N : q[n] = g[x])
    OBVIOUS
  <2>1. (\E a \in DOMAIN u : p[a] = x) <=> (\E b \in DOMAIN v : q[b] = g[x])
    BY <1>3 DEF Corresponding
  <2> QED  BY <1>2, <1>3, <1>4, <2>1
<1>7. \A m \in M : h[m] \in N /\ q[h[m]] = g[p[m]]
  <2> SUFFICES ASSUME NEW m \in M PROVE h[m] \in N /\ q[h[m]] = g[p[m]]
    OBVIOUS
  <2>1. \E n \in N : q[n] = g[p[m]]
    BY <1>4, <1>6
  <2> QED  BY <2>1
<1>8. h = [m \in M |-> h[m]]
  OBVIOUS
<1> HIDE DEF h, A, B, M, N
<1>9. h \in [M -> N]
  BY <1>7, <1>8
<1>10. ASSUME NEW m \in M, NEW n \in M, m < n PROVE h[m] < h[n]
  <2>1. GoesBefore(ks, p[m], p[n]) /\ p[m] \in A /\ p[n] \in A
    BY <1>2, <1>4, <1>10 DEF Ordered
  <2>2. ks[p[m]] = kt[g[p[m]]] /\ ks[p[n]] = kt[g[p[n]]]
    BY <1>3, <2>1 DEF Corresponding, A, B
  <2>3. GoesBefore(kt, q[h[m]], q[h[n]])
    BY <1>3, <1>7, <2>1, <2>2 DEF GoesBefore
  <2>4. h[m] \in N /\ h[n] \in N /\ q[h[m]] \in DOMAIN t /\ q[h[n]] \in DOMAIN t
    BY <1>2, <1>4, <1>7
  <2>5. kt[q[h[m]]] \in Int /\ kt[q[h[n]]] \in Int /\ q[h[m]] \in Int /\ q[h[n]] \in Int
    BY <1>2, <2>4
  <2>6. h[m] # h[n]
    BY <2>3, <2>5 DEF GoesBefore
  <2>7. ~(h[n] < h[m])
    <3> SUFFICES ASSUME h[n] < h[m] PROVE FALSE
      OBVIOUS
    <3>1. GoesBefore(kt, q[h[n]], q[h[m]])
      BY <1>2, <2>4 DEF Ordered
    <3> QED  BY <2>3, <2>5, <3>1 DEF GoesBefore
  <2> QED  BY <1>2, <2>4, <2>6, <2>7
<1>11. ASSUME NEW n \in N PROVE \E m \in M : h[m] = n
  <2>1. PICK x \in A : g[x] = q[n]
    BY <1>3, <1>4
  <2>2. PICK m \in M : p[m] = x
    BY <1>6, <2>1
  <2>3. h[m] \in N /\ q[h[m]] = q[n]
    BY <1>7, <2>1, <2>2
  <2>4. h[m] = n
    BY <1>5, <2>3
  <2> QED  BY <2>2, <2>4
<1>12. InOrder(h, M, N)
  BY <1>9, <1>10, <1>11 DEF InOrder
<1>13. ASSUME NEW m \in M PROVE v[h[m]] = u[m]
  <2>1. u[m] = s[p[m]] /\ v[h[m]] = t[q[h[m]]]
    BY <1>2, <1>7 DEF Ordered
  <2> QED  BY <1>3, <1>4, <1>7, <2>1
<1>14. Leads(h, u, v, E)
  BY <1>12, <1>13 DEF Leads, M, N
<1> QED  BY <1>14 DEF Agree

\* Sorting keeps what agrees, and so do picking, mapping and joining below.
LEMMA AgreeSorted ==
    ASSUME NEW S, NEW s \in Seq(S), NEW t \in Seq(S), NEW E, Agree(s, t, E),
           NEW ks \in [DOMAIN s -> Int], NEW kt \in [DOMAIN t -> Int],
           \A x \in DOMAIN s, y \in DOMAIN t : s[x] = t[y] => ks[x] = kt[y]
    PROVE  Agree(SortedByKey(s, ks), SortedByKey(t, kt), E)
<1>1. PICK u, v : u = SortedByKey(s, ks) /\ v = SortedByKey(t, kt)
  OBVIOUS
<1>2. u \in Seq(S) /\ v \in Seq(S) /\ DOMAIN u = DOMAIN s /\ DOMAIN v = DOMAIN t
  BY <1>1, SortedElements
<1>3. PICK p \in [DOMAIN s -> DOMAIN s] :
          /\ \A i \in DOMAIN s : \E a \in DOMAIN s : p[a] = i
          /\ \A a, b \in DOMAIN s : a < b => GoesBefore(ks, p[a], p[b])
          /\ \A a \in DOMAIN s : u[a] = s[p[a]]
  <2>1. \E place \in [DOMAIN s -> DOMAIN s] :
             /\ \A a, b \in DOMAIN s : place[a] = place[b] => a = b
             /\ \A i \in DOMAIN s : \E a \in DOMAIN s : place[a] = i
             /\ \A a, b \in DOMAIN s : a < b => GoesBefore(ks, place[a], place[b])
             /\ SortedByKey(s, ks) \in [DOMAIN s -> {s[i] : i \in DOMAIN s}]
             /\ \A a \in DOMAIN s : SortedByKey(s, ks)[a] = s[place[a]]
    BY SortedIsPermutation
  <2> QED  BY <1>1, <2>1
<1>4. PICK q \in [DOMAIN t -> DOMAIN t] :
          /\ \A i \in DOMAIN t : \E a \in DOMAIN t : q[a] = i
          /\ \A a, b \in DOMAIN t : a < b => GoesBefore(kt, q[a], q[b])
          /\ \A a \in DOMAIN t : v[a] = t[q[a]]
  <2>1. \E place \in [DOMAIN t -> DOMAIN t] :
             /\ \A a, b \in DOMAIN t : place[a] = place[b] => a = b
             /\ \A i \in DOMAIN t : \E a \in DOMAIN t : place[a] = i
             /\ \A a, b \in DOMAIN t : a < b => GoesBefore(kt, place[a], place[b])
             /\ SortedByKey(t, kt) \in [DOMAIN t -> {t[i] : i \in DOMAIN t}]
             /\ \A a \in DOMAIN t : SortedByKey(t, kt)[a] = t[place[a]]
    BY SortedIsPermutation
  <2> QED  BY <1>1, <2>1
<1>5. Ordered(p, u, s, ks) /\ Ordered(q, v, t, kt)
  BY <1>2, <1>3, <1>4 DEF Ordered
<1>6. Corresponding(s, t, u, v, p, q, ks, kt, E)
  BY <1>2, <1>3, <1>4 DEF Where, Corresponding
<1>7. Agree(u, v, E)
  BY <1>2, <1>5, <1>6, AgreeRearranged
<1> QED  BY <1>1, <1>7

\* Of lists that agree, what is picked at places that agree agrees.
LEMMA AgreePicked ==
    ASSUME NEW S, NEW s \in Seq(S), NEW t \in Seq(S), NEW E, Agree(s, t, E),
           NEW K \in SUBSET (DOMAIN s), NEW L \in SUBSET (DOMAIN t),
           \A x \in Where(s, E), y \in Where(t, E) : s[x] = t[y] => (x \in K <=> y \in L)
    PROVE  Agree(Picked(s, K), Picked(t, L), E)
<1>1. PICK u, v : u = Picked(s, K) /\ v = Picked(t, L)
  OBVIOUS
<1>2. u \in Seq(S) /\ v \in Seq(S)
  BY <1>1, PickedIs
<1>3. PICK p : IsPick(p, u, s, K)
  BY <1>1, PickedIs
<1>4. PICK q : IsPick(q, v, t, L)
  BY <1>1, PickedIs
<1>5. PICK ks : ks = [x \in DOMAIN s |-> 0]
  OBVIOUS
<1>6. PICK kt : kt = [y \in DOMAIN t |-> 0]
  OBVIOUS
<1>7. Ordered(p, u, s, ks)
  BY <1>3, <1>5 DEF IsPick, Ordered, GoesBefore
<1>8. Ordered(q, v, t, kt)
  BY <1>4, <1>6 DEF IsPick, Ordered, GoesBefore
<1>9. ks \in [DOMAIN s -> Int] /\ kt \in [DOMAIN t -> Int]
  BY <1>5, <1>6
<1>10. Corresponding(s, t, u, v, p, q, ks, kt, E)
  <2> SUFFICES ASSUME NEW x \in Where(s, E), NEW y \in Where(t, E), s[x] = t[y]
               PROVE  ks[x] = kt[y] /\ ((\E a \in DOMAIN u : p[a] = x) <=> (\E b \in DOMAIN v : q[b] = y))
    BY DEF Corresponding
  <2>1. (\E a \in DOMAIN u : p[a] = x) <=> x \in K
    BY <1>3 DEF IsPick
  <2>2. (\E b \in DOMAIN v : q[b] = y) <=> y \in L
    BY <1>4 DEF IsPick
  <2> QED  BY <1>5, <1>6, <2>1, <2>2 DEF Where
<1>11. Agree(u, v, E)
  BY <1>2, <1>7, <1>8, <1>9, <1>10, AgreeRearranged
<1> QED  BY <1>1, <1>11

LEMMA AgreeMapped ==
    ASSUME NEW s, NEW t, NEW E, Agree(s, t, E), NEW u, NEW v, NEW F,
           DOMAIN u = DOMAIN s, DOMAIN v = DOMAIN t,
           \A n \in DOMAIN s : u[n] \in F <=> s[n] \in E,
           \A n \in DOMAIN t : v[n] \in F <=> t[n] \in E,
           \A x \in Where(s, E), y \in Where(t, E) : s[x] = t[y] => u[x] = v[y]
    PROVE  Agree(u, v, F)
<1>1. PICK g : Leads(g, s, t, E)
  BY DEF Agree
<1>2. Where(u, F) = Where(s, E) /\ Where(v, F) = Where(t, E)
  BY DEF Where
<1>3. \A n \in Where(s, E) : v[g[n]] = u[n]
  BY <1>1 DEF Leads, InOrder
<1>4. Leads(g, u, v, F)
  BY <1>1, <1>2, <1>3 DEF Leads
<1> QED  BY <1>4 DEF Agree

LEMMA AgreeJoined ==
    ASSUME NEW S, NEW s \in Seq(S), NEW t \in Seq(S), NEW u \in Seq(S), NEW v \in Seq(S),
           NEW E, Agree(s, t, E), Agree(u, v, E)
    PROVE  Agree(s \o u, t \o v, E)
<1>1. PICK g : Leads(g, s, t, E)
  BY DEF Agree
<1>2. PICK h : Leads(h, u, v, E)
  BY DEF Agree
<1>3. PICK m \in Nat : m = Len(s) /\ DOMAIN s = 1..m
  OBVIOUS
<1>4. PICK n \in Nat : n = Len(t) /\ DOMAIN t = 1..n
  OBVIOUS
<1>5. PICK i \in Nat : i = Len(u) /\ DOMAIN u = 1..i
  OBVIOUS
<1>6. PICK j \in Nat : j = Len(v) /\ DOMAIN v = 1..j
  OBVIOUS
<1>7. PICK a, b : a = s \o u /\ b = t \o v
  OBVIOUS
<1>8. /\ DOMAIN a = 1..(m + i)
      /\ \A x \in 1..m : a[x] = s[x]
      /\ \A x \in 1..i : a[m + x] = u[x]
  BY <1>3, <1>5, <1>7
<1>9. /\ DOMAIN b = 1..(n + j)
      /\ \A x \in 1..n : b[x] = t[x]
      /\ \A x \in 1..j : b[n + x] = v[x]
  BY <1>4, <1>6, <1>7
<1> DEFINE A == Where(a, E)
           B == Where(b, E)
           k == [x \in A |-> IF x <= m THEN g[x] ELSE n + h[x - m]]
<1>10. \A x \in A : \/ x \in Where(s, E) /\ x \in 1..m /\ x <= m
                    \/ x - m \in Where(u, E) /\ x - m \in 1..i /\ x > m /\ x = m + (x - m)
  <2> SUFFICES ASSUME NEW x \in A
               PROVE  \/ x \in Where(s, E) /\ x \in 1..m /\ x <= m
                      \/ x - m \in Where(u, E) /\ x - m \in 1..i /\ x > m /\ x = m + (x - m)
    OBVIOUS
  <2>1. x \in 1..(m + i) /\ a[x] \in E
    BY <1>8 DEF Where
  <2>2. CASE x <= m
    BY <1>3, <1>8, <2>1, <2>2 DEF Where
  <2>3. CASE ~(x <= m)
    <3>1. x - m \in 1..i /\ x = m + (x - m)
      BY <2>1, <2>3
    <3>2. a[x] = u[x - m]
      BY <1>8, <3>1
    <3> QED  BY <1>5, <2>1, <2>3, <3>1, <3>2 DEF Where
  <2> QED  BY <2>2, <2>3
<1>11. \A x \in Where(s, E) : x \in A /\ x <= m /\ a[x] = s[x]
  BY <1>3, <1>8 DEF Where
<1>12. \A x \in Where(u, E) : m + x \in A /\ ~(m + x <= m) /\ (m + x) - m = x /\ a[m + x] = u[x]
  <2> SUFFICES ASSUME NEW x \in Where(u, E)
               PROVE  m + x \in A /\ ~(m + x <= m) /\ (m + x) - m = x /\ a[m + x] = u[x]
    OBVIOUS
  <2>1. x \in 1..i /\ u[x] \in E
    BY <1>5 DEF Where
  <2>2. m + x \in 1..(m + i) /\ a[m + x] = u[x]
    BY <1>8, <2>1
  <2> QED  BY <1>8, <2>1, <2>2 DEF Where
<1>13. \A x \in Where(t, E) : x \in B /\ x \in 1..n /\ b[x] = t[x]
  BY <1>4, <1>9 DEF Where
<1>14. \A x \in Where(v, E) : n + x \in B /\ x \in 1..j /\ b[n + x] = v[x]
  <2> SUFFICES ASSUME NEW x \in Where(v, E) PROVE n + x \in B /\ x \in 1..j /\ b[n + x] = v[x]
    OBVIOUS
  <2>1. x \in 1..j /\ v[x] \in E
    BY <1>6 DEF Where
  <2>2. n + x \in 1..(n + j) /\ b[n + x] = v[x]
    BY <1>9, <2>1
  <2> QED  BY <1>9, <2>1, <2>2 DEF Where
<1>15. \A y \in B : \/ y \in Where(t, E)
                    \/ y - n \in Where(v, E) /\ y = n + (y - n)
  <2> SUFFICES ASSUME NEW y \in B PROVE y \in Where(t, E) \/ (y - n \in Where(v, E) /\ y = n + (y - n))
    OBVIOUS
  <2>1. y \in 1..(n + j) /\ b[y] \in E
    BY <1>9 DEF Where
  <2>2. CASE y <= n
    BY <1>4, <1>9, <2>1, <2>2 DEF Where
  <2>3. CASE ~(y <= n)
    <3>1. y - n \in 1..j /\ y = n + (y - n)
      BY <2>1, <2>3
    <3>2. b[y] = v[y - n]
      BY <1>9, <3>1
    <3> QED  BY <1>6, <2>1, <3>1, <3>2 DEF Where
  <2> QED  BY <2>2, <2>3
<1>16. /\ \A x \in A : x <= m => k[x] = g[x]
       /\ \A x \in A : ~(x <= m) => k[x] = n + h[x - m]
       /\ k = [x \in A |-> k[x]]
  OBVIOUS
<1> HIDE DEF k, A, B
<1>17. /\ \A x \in Where(s, E) : g[x] \in Where(t, E) /\ t[g[x]] = s[x]
       /\ \A x, y \in Where(s, E) : x < y => g[x] < g[y]
       /\ \A y \in Where(t, E) : \E x \in Where(s, E) : g[x] = y
  BY <1>1 DEF Leads, InOrder
<1>18. /\ \A x \in Where(u, E) : h[x] \in Where(v, E) /\ v[h[x]] = u[x]
       /\ \A x, y \in Where(u, E) : x < y => h[x] < h[y]
       /\ \A y \in Where(v, E) : \E x \in Where(u, E) : h[x] = y
  BY <1>2 DEF Leads, InOrder
<1>19. ASSUME NEW x \in A PROVE k[x] \in B /\ b[k[x]] = a[x]
  <2>1. CASE x \in Where(s, E) /\ x \in 1..m /\ x <= m
    BY <1>11, <1>13, <1>16, <1>17, <2>1
  <2>2. CASE x - m \in Where(u, E) /\ x - m \in 1..i /\ x > m /\ x = m + (x - m)
    <3>1. k[x] = n + h[x - m]
      BY <1>16, <2>2
    <3>2. h[x - m] \in Where(v, E) /\ v[h[x - m]] = u[x - m]
      BY <1>18, <2>2
    <3>3. a[x] = u[x - m]
      BY <1>8, <2>2
    <3> QED  BY <1>14, <3>1, <3>2, <3>3
  <2> QED  BY <1>10, <2>1, <2>2
<1>20. ASSUME NEW x \in A, NEW y \in A, x < y PROVE k[x] < k[y]
  <2>1. CASE x <= m /\ y <= m
    BY <1>10, <1>16, <1>17, <1>20, <2>1
  <2>2. CASE x <= m /\ y > m
    <3>1. x \in Where(s, E) /\ y - m \in Where(u, E)
      BY <1>10, <2>2
    <3>2. k[x] = g[x] /\ k[y] = n + h[y - m]
      BY <1>10, <1>16, <2>2
    <3>3. g[x] \in 1..n /\ h[y - m] \in 1..j
      BY <1>13, <1>14, <1>17, <1>18, <3>1
    <3> QED  BY <3>2, <3>3
  <2>3. CASE x > m /\ y > m
    <3>1. x - m \in Where(u, E) /\ y - m \in Where(u, E) /\ x - m < y - m
      BY <1>10, <1>20, <2>3
    <3>2. k[x] = n + h[x - m] /\ k[y] = n + h[y - m]
      BY <1>10, <1>16, <2>3
    <3>3. h[x - m] < h[y - m] /\ h[x - m] \in 1..j /\ h[y - m] \in 1..j
      BY <1>14, <1>18, <3>1
    <3> QED  BY <3>2, <3>3
  <2> QED  BY <1>10, <1>20, <2>1, <2>2, <2>3
<1>21. ASSUME NEW y \in B PROVE \E x \in A : k[x] = y
  <2>1. CASE y \in Where(t, E)
    <3>1. PICK x \in Where(s, E) : g[x] = y
      BY <1>17, <2>1
    <3> QED  BY <1>11, <1>16, <3>1
  <2>2. CASE y - n \in Where(v, E) /\ y = n + (y - n)
    <3>1. PICK x \in Where(u, E) : h[x] = y - n
      BY <1>18, <2>2
    <3>2. m + x \in A /\ k[m + x] = n + h[x]
      BY <1>12, <1>16
    <3> QED  BY <2>2, <3>1, <3>2
  <2> QED  BY <1>15, <2>1, <2>2
<1>22. k \in [A -> B]
  BY <1>16, <1>19
<1>23. InOrder(k, A, B)
  BY <1>20, <1>21, <1>22 DEF InOrder
<1>24. Leads(k, a, b, E)
  BY <1>19, <1>23 DEF Leads, A, B
<1> QED  BY <1>7, <1>24 DEF Agree

\* A way from the first m numbers to the first n is the identity.
LEMMA OrderedOnto ==
    ASSUME NEW m \in Nat, NEW n \in Nat, NEW h, InOrder(h, 1..m, 1..n)
    PROVE  m = n /\ \A a \in 1..m : h[a] = a
<1>1. /\ \A a \in 1..m : h[a] \in 1..n
      /\ \A a, b \in 1..m : a < b => h[a] < h[b]
      /\ \A y \in 1..n : \E a \in 1..m : h[a] = y
  BY DEF InOrder
<1>2. \A a \in 1..m : h[a] = a
  <2> DEFINE T == {a \in 1..m : h[a] # a}
  <2> SUFFICES ASSUME T # {} PROVE FALSE
    OBVIOUS
  <2>1. T \in SUBSET Nat
    OBVIOUS
  <2>2. PICK a \in T : \A b \in T : a <= b
    <3> HIDE DEF T
    <3> QED  BY <2>1, LeastNat
  <2>3. a \in 1..m /\ h[a] # a /\ \A b \in 1..m : b < a => h[b] = b
    BY <2>2
  <2>4. h[a] > a
    <3> SUFFICES ASSUME h[a] < a PROVE FALSE
      BY <1>1, <2>3
    <3>1. h[a] \in 1..m
      BY <1>1, <2>3
    <3>2. h[h[a]] = h[a] /\ h[h[a]] < h[a]
      BY <1>1, <2>3, <3>1
    <3> QED  BY <1>1, <2>3, <3>2
  <2>5. a \in 1..n
    BY <1>1, <2>3, <2>4
  <2>6. PICK c \in 1..m : h[c] = a
    BY <1>1, <2>5
  <2>7. CASE c < a
    BY <2>3, <2>6, <2>7
  <2>8. CASE c >= a
    <3>1. h[c] >= h[a]
      BY <1>1, <2>3, <2>8
    <3> QED  BY <1>1, <2>3, <2>4, <2>6, <3>1
  <2> QED  BY <2>3, <2>7, <2>8
<1>3. m <= n
  BY <1>1, <1>2
<1>4. n <= m
  <2> SUFFICES ASSUME n > m PROVE FALSE
    OBVIOUS
  <2>1. n \in 1..n
    OBVIOUS
  <2> QED  BY <1>1, <1>2, <2>1
<1> QED  BY <1>2, <1>3, <1>4

\* Of lists that agree on some elements those elements are one list.
LEMMA AgreeSame ==
    ASSUME NEW S, NEW s \in Seq(S), NEW t \in Seq(S), NEW E, Agree(s, t, E)
    PROVE  Picked(s, Where(s, E)) = Picked(t, Where(t, E))
<1>1. PICK u, v : u = Picked(s, Where(s, E)) /\ v = Picked(t, Where(t, E))
  OBVIOUS
<1>2. Where(s, E) \in SUBSET DOMAIN s /\ Where(t, E) \in SUBSET DOMAIN t
  BY DEF Where
<1>3. u \in Seq(S) /\ v \in Seq(S)
  BY <1>1, <1>2, PickedIs
<1>4. Agree(u, v, E)
  BY <1>1, <1>2, AgreePicked
<1>5. PICK p : IsPick(p, u, s, Where(s, E))
  BY <1>1, <1>2, PickedIs
<1>6. PICK q : IsPick(q, v, t, Where(t, E))
  BY <1>1, <1>2, PickedIs
<1>7. Where(u, E) = DOMAIN u /\ Where(v, E) = DOMAIN v
  BY <1>5, <1>6 DEF IsPick, Where
<1>8. PICK m \in Nat : DOMAIN u = 1..m
  BY <1>3
<1>9. PICK n \in Nat : DOMAIN v = 1..n
  BY <1>3
<1>10. PICK h : Leads(h, u, v, E)
  BY <1>4 DEF Agree
<1>11. InOrder(h, 1..m, 1..n) /\ \A a \in 1..m : v[h[a]] = u[a]
  BY <1>7, <1>8, <1>9, <1>10 DEF Leads
<1>12. m = n /\ \A a \in 1..m : v[a] = u[a]
  BY <1>11, OrderedOnto
<1>13. u = v
  BY <1>3, <1>8, <1>9, <1>12
<1> QED  BY <1>1, <1>13

=============================================================================
