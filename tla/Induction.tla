----------------------------- MODULE Induction ------------------------------
(***************************************************************************)
(* Induction over the natural numbers in first-order form: a set of        *)
(* numbers has a least element, and a recursion with given steps has a     *)
(* solution.  The proofs about loops and recursive functions rest on it.   *)
(* With it, the least and greatest elements, ranks and sums of finite      *)
(* sets, the pairs in key order and their packing, and division.           *)
(***************************************************************************)
EXTENDS Packing, Integers, FiniteSets, FiniteSetsExt, Sequences, FiniteSetTheorems, WellFoundedInduction, TLAPS

(* The order of the natural numbers as a relation.                         *)
Less == OpToRel(<, Nat)

LEMMA LessRelation ==
  /\ IsWellFoundedOn(Less, Nat)
  /\ \A a, b \in Nat : <<a, b>> \in Less <=> a < b
<1>1. ASSUME NEW a \in Nat, NEW b \in Nat
      PROVE  <<a, b>> \in Less <=> a < b
  <2>1. <<a, b>> \in Nat \X Nat /\ <<a, b>>[1] = a /\ <<a, b>>[2] = b
    OBVIOUS
  <2> QED
    BY ONLY <2>1 DEF Less, OpToRel
<1> QED
  BY <1>1, NatLessThanWellFounded DEF Less

(* A set of numbers that is not empty has a least element: a property that *)
(* fails for some number fails for a first one.                            *)
LEMMA LeastElement ==
  ASSUME NEW S \in SUBSET Nat, S # {}
  PROVE  \E n \in S : \A m \in S : n <= m
<1>1. PICK n \in S : \A m \in S : ~(<<m, n>> \in Less)
  <2>1. S \subseteq Nat
    OBVIOUS
  <2>2. IsWellFoundedOn(Less, Nat)
    BY LessRelation
  <2> QED
    BY ONLY <2>1, <2>2, S # {}, WFMin
<1>2. ASSUME NEW m \in S
      PROVE  n <= m
  <2>1. n \in Nat /\ m \in Nat /\ ~(m < n)
    BY <1>1, LessRelation
  <2> QED
    BY <2>1
<1> QED
  BY <1>2

(* A loop of n steps, each a function of its number and of the state the   *)
(* step before has left, has a course.                                     *)
AreSteps(step, n, S) == \A i \in 1 .. n : \A x \in S : step[i][x] \in S

IsCourse(f, start, step, n, S) ==
  f \in [0 .. n -> S] /\ f[0] = start /\ \A i \in 1 .. n : f[i] = step[i][f[i - 1]]

LEMMA LoopHasCourse ==
  ASSUME NEW n \in Nat, NEW S, NEW start \in S, NEW step, AreSteps(step, n, S)
  PROVE  \E f : IsCourse(f, start, step, n, S)
<1> DEFINE Course(f, m) == f[0] = start /\ \A i \in 1 .. m : f[i] = step[i][f[i - 1]]
           Bad == {m \in 0 .. n : ~\E f \in [0 .. m -> S] : Course(f, m)}
<1> SUFFICES n \notin Bad
  BY DEF IsCourse
<1> SUFFICES ASSUME Bad # {}
             PROVE  FALSE
  OBVIOUS
<1>1. PICK m \in Bad : \A j \in Bad : m <= j
  <2>1. Bad \in SUBSET Nat
    OBVIOUS
  <2> HIDE DEF Bad
  <2> QED
    BY <2>1, LeastElement
<1>2. CASE m = 0
  <2>1. [i \in 0 .. 0 |-> start] \in [0 .. 0 -> S] /\ Course([i \in 0 .. 0 |-> start], 0)
    OBVIOUS
  <2> QED
    BY <1>1, <1>2, <2>1
<1>3. CASE m # 0
  <2>1. m \in 1 .. n /\ m - 1 \in 0 .. n /\ m - 1 \notin Bad
    BY <1>1, <1>3
  <2>2. PICK f \in [0 .. m - 1 -> S] : Course(f, m - 1)
    BY <2>1
  <2> DEFINE g == [i \in 0 .. m |-> IF i = m THEN step[m][f[m - 1]] ELSE f[i]]
  <2>3. f[m - 1] \in S /\ step[m][f[m - 1]] \in S
    BY <2>1 DEF AreSteps
  <2>4. g \in [0 .. m -> S]
    BY <2>1, <2>3
  <2>5. Course(g, m)
    <3>1. g[0] = start
      BY <2>1, <2>2
    <3>2. ASSUME NEW i \in 1 .. m
          PROVE  g[i] = step[i][g[i - 1]]
      <4>1. i - 1 \in 0 .. m - 1 /\ i - 1 # m /\ g[i - 1] = f[i - 1]
        BY <2>1
      <4>2. CASE i = m
        BY <4>1, <4>2
      <4>3. CASE i # m
        BY <2>1, <2>2, <4>1, <4>3
      <4> QED
        BY <4>2, <4>3
    <3> QED
      BY <3>1, <3>2
  <2> QED
    BY <1>1, <2>4, <2>5
<1> QED
  BY <1>2, <1>3

-----------------------------------------------------------------------------
(* A set of numbers that is not empty has a least element, and Min is that *)
(* element.                                                                *)
LEMMA LeastNumber ==
  ASSUME NEW S \in SUBSET Nat, S # {}
  PROVE  /\ \E n \in S : \A m \in S : n <= m
         /\ Min(S) \in S /\ \A m \in S : Min(S) <= m
BY LeastElement DEF Min

(* A finite set has, in a strict order, an element with none above it.     *)
LEMMA MaximalElement ==
  ASSUME NEW S, IsFiniteSet(S), S # {}, NEW R,
         \A x \in S : <<x, x>> \notin R,
         \A x, y, z \in S : <<x, y>> \in R /\ <<y, z>> \in R => <<x, z>> \in R
  PROVE  \E x \in S : \A y \in S : <<x, y>> \notin R
<1> DEFINE Above(x) == {y \in S : <<x, y>> \in R}
           Counts == {Cardinality(Above(x)) : x \in S}
<1>1. \A x \in S : IsFiniteSet(Above(x)) /\ Cardinality(Above(x)) \in Nat
  BY FS_Subset, FS_CardinalityType
<1>2. PICK n \in Counts : \A m \in Counts : n <= m
  <2>1. Counts \in SUBSET Nat /\ Counts # {}
    <3> HIDE DEF Above
    <3> QED
      BY <1>1
  <2> HIDE DEF Counts
  <2> QED
    BY <2>1, LeastNumber
<1> HIDE DEF Above
<1>3. PICK x \in S : n = Cardinality(Above(x))
  OBVIOUS
<1>4. ASSUME NEW y \in S, <<x, y>> \in R
      PROVE  FALSE
  <2>1. Above(y) \in SUBSET Above(x) /\ y \in Above(x) /\ y \notin Above(y)
    BY <1>4 DEF Above
  <2>2. Cardinality(Above(y)) <= Cardinality(Above(x)) /\ Cardinality(Above(x)) # Cardinality(Above(y))
    BY <1>1, <2>1, FS_Subset
  <2>3. Cardinality(Above(x)) <= Cardinality(Above(y))
    BY <1>2, <1>3, <1>4
  <2> QED
    BY <1>1, <1>4, <2>2, <2>3
<1> QED
  BY <1>4

LEMMA GreatestNumber ==
  ASSUME NEW S \in SUBSET Nat, IsFiniteSet(S), S # {}
  PROVE  Max(S) \in S /\ \A m \in S : m <= Max(S)
<1>1. PICK n \in S : \A m \in S : <<n, m>> \notin Less
  <2>1. /\ \A x \in S : <<x, x>> \notin Less
        /\ \A x, y, z \in S : <<x, y>> \in Less /\ <<y, z>> \in Less => <<x, z>> \in Less
    BY LessRelation
  <2> QED
    BY <2>1, MaximalElement
<1>2. ASSUME NEW m \in S
      PROVE  m <= n
  <2>1. n \in Nat /\ m \in Nat /\ ~(n < m)
    BY <1>1, LessRelation
  <2> QED
    BY <2>1
<1> QED
  BY <1>2 DEF Max

(* Of a finite set and a number not in it, and of two numbers.             *)
LEMMA LeastOfTwo ==
  ASSUME NEW a \in Nat, NEW b \in Nat
  PROVE  /\ Min({a, b}) \in Nat /\ Min({a, b}) <= a /\ Min({a, b}) <= b
         /\ Max({a, b}) \in Nat /\ Max({a, b}) >= a /\ Max({a, b}) >= b
<1>1. {a, b} \in SUBSET Nat /\ {a, b} # {}
  OBVIOUS
<1>2. IsFiniteSet({a, b})
  <2>1. IsFiniteSet({a})
    BY FS_Singleton
  <2>2. IsFiniteSet({a} \cup {b})
    BY <2>1, FS_AddElement
  <2>3. {a, b} = {a} \cup {b}
    OBVIOUS
  <2> QED
    BY ONLY <2>2, <2>3
<1> QED
  BY <1>1, <1>2, LeastNumber, GreatestNumber

-----------------------------------------------------------------------------
(* The number of elements below one, in a strict total order on a finite   *)
(* set: it tells the elements apart and takes each value there is room for. *)
Rank(x, S, R) == Cardinality({y \in S : <<y, x>> \in R})

LEMMA Interval ==
  ASSUME NEW n \in Nat
  PROVE  IsFiniteSet(0 .. (n - 1)) /\ Cardinality(0 .. (n - 1)) = n
<1>1. 0 \in Int /\ n - 1 \in Int
  OBVIOUS
<1>2. IsFiniteSet(0 .. (n - 1)) /\ Cardinality(0 .. (n - 1)) = IF 0 > n - 1 THEN 0 ELSE (n - 1) - 0 + 1
  BY <1>1, FS_Interval
<1> QED
  BY <1>2

LEMMA Ranks ==
  ASSUME NEW S, IsFiniteSet(S), NEW R,
         \A x \in S : <<x, x>> \notin R,
         \A x, y \in S : x = y \/ <<x, y>> \in R \/ <<y, x>> \in R,
         \A x, y, z \in S : <<x, y>> \in R /\ <<y, z>> \in R => <<x, z>> \in R
  PROVE  /\ Cardinality(S) \in Nat
         /\ \A x \in S : Rank(x, S, R) \in 0 .. (Cardinality(S) - 1)
         /\ \A x, y \in S : <<x, y>> \in R <=> Rank(x, S, R) < Rank(y, S, R)
         /\ \A i \in 0 .. (Cardinality(S) - 1) : \E x \in S : Rank(x, S, R) = i
         /\ \A n \in 0 .. Cardinality(S) : Cardinality({x \in S : Rank(x, S, R) < n}) = n
<1> DEFINE Below(x) == {y \in S : <<y, x>> \in R}
           N == Cardinality(S)
           rank == [x \in S |-> Cardinality(Below(x))]
<1>1. N \in Nat
  BY FS_CardinalityType
<1>2. \A x \in S : Below(x) \in SUBSET S /\ IsFiniteSet(Below(x)) /\ Cardinality(Below(x)) \in Nat
  BY FS_Subset, FS_CardinalityType
<1>3. \A x \in S : rank[x] \in 0 .. (N - 1)
  <2> SUFFICES ASSUME NEW x \in S PROVE Cardinality(Below(x)) \in 0 .. (N - 1)
    OBVIOUS
  <2>1. Below(x) # S
    OBVIOUS
  <2>2. Cardinality(Below(x)) <= N /\ N # Cardinality(Below(x))
    <3> HIDE DEF Below
    <3> QED
      BY <1>2, <2>1, FS_Subset
  <2> QED
    BY <1>1, <1>2, <2>2
<1>4. ASSUME NEW x \in S, NEW y \in S, <<x, y>> \in R
      PROVE  rank[x] < rank[y]
  <2>1. Below(x) \in SUBSET Below(y) /\ x \in Below(y) /\ x \notin Below(x)
    BY <1>4
  <2>2. Cardinality(Below(x)) <= Cardinality(Below(y)) /\ Cardinality(Below(y)) # Cardinality(Below(x))
    <3> HIDE DEF Below
    <3> QED
      BY <1>2, <2>1, FS_Subset
  <2> QED
    BY <1>2, <2>2
<1> HIDE DEF Below, rank
<1>5. \A x, y \in S : <<x, y>> \in R <=> rank[x] < rank[y]
  <2> SUFFICES ASSUME NEW x \in S, NEW y \in S, rank[x] < rank[y] PROVE <<x, y>> \in R
    BY <1>4
  <2>1. rank[x] \in Int /\ rank[y] \in Int
    BY <1>3
  <2>2. x # y
    BY <2>1
  <2>3. <<y, x>> \notin R
    <3> SUFFICES ASSUME <<y, x>> \in R PROVE rank[y] < rank[x]
      BY <2>1
    <3> QED
      BY <1>4
  <2> QED
    BY <2>2, <2>3
<1>6. \A x, y \in S : rank[x] = rank[y] => x = y
  <2> SUFFICES ASSUME NEW x \in S, NEW y \in S, rank[x] = rank[y], x # y PROVE FALSE
    OBVIOUS
  <2>1. rank[x] \in Int /\ rank[y] \in Int
    BY <1>3
  <2>2. <<x, y>> \notin R /\ <<y, x>> \notin R
    BY <1>5, <2>1
  <2> QED
    BY <2>2
<1>7. \A i \in 0 .. (N - 1) : \E x \in S : rank[x] = i
  <2>1. IsFiniteSet(0 .. (N - 1)) /\ Cardinality(0 .. (N - 1)) = N
    BY <1>1, Interval
  <2>2. rank \in Injection(S, 0 .. (N - 1))
    BY <1>3, <1>6 DEF Injection, IsInjective, rank
  <2>3. rank \in Surjection(S, 0 .. (N - 1))
    BY <2>1, <2>2, FS_Injection
  <2> QED
    BY <2>3 DEF Surjection
<1>8. ASSUME NEW n \in 0 .. N
      PROVE  Cardinality({x \in S : rank[x] < n}) = n
  <2> DEFINE T == {x \in S : rank[x] < n}
             f == [x \in T |-> rank[x]]
  <2>1. IsFiniteSet(0 .. (n - 1)) /\ Cardinality(0 .. (n - 1)) = n
    BY <1>1, Interval
  <2>2. f \in Injection(T, 0 .. (n - 1))
    <3>1. f \in [T -> 0 .. (n - 1)]
      BY <1>1, <1>3
    <3> QED
      BY <3>1, <1>6 DEF Injection, IsInjective
  <2>3. f \in Surjection(T, 0 .. (n - 1))
    <3> SUFFICES ASSUME NEW i \in 0 .. (n - 1) PROVE \E x \in T : f[x] = i
      BY <2>2 DEF Injection, Surjection
    <3>1. i \in 0 .. (N - 1) /\ i < n
      BY <1>1
    <3>2. PICK x \in S : rank[x] = i
      BY <1>7, <3>1
    <3>3. x \in T /\ f[x] = i
      BY <3>1, <3>2
    <3> QED
      BY <3>3
  <2> HIDE DEF f
  <2> QED
    BY <2>1, <2>2, <2>3, FS_Injection
<1>9. \A x \in S : rank[x] = Rank(x, S, R)
  <2>1. \A x \in S : Rank(x, S, R) = Cardinality(Below(x))
    BY ONLY DEF Rank, Below
  <2>2. \A x \in S : rank[x] = Cardinality(Below(x))
    BY ONLY DEF rank
  <2> QED
    BY ONLY <2>1, <2>2
<1>10. \A n : {x \in S : Rank(x, S, R) < n} = {x \in S : rank[x] < n}
  BY <1>9
<1>11. N = Cardinality(S)
  OBVIOUS
<1> HIDE DEF N
<1> QED
  BY ONLY <1>1, <1>3, <1>5, <1>7, <1>8, <1>9, <1>10, <1>11

-----------------------------------------------------------------------------
(* A finite set of keys in order.                                          *)
IsRow(row, kv, S) ==
  /\ row = [n \in 1 .. Len(row) |-> row[n]] /\ Len(row) = Cardinality(S) /\ Len(row) \in Nat
  /\ DOMAIN row = 1 .. Len(row)
  /\ \A n \in 1 .. Len(row) : row[n][1] \in S /\ row[n] = <<row[n][1], kv[row[n][1]]>>
  /\ \A m, n \in 1 .. Len(row) : m < n => row[m][1] < row[n][1]
  /\ \A k \in S : \E n \in 1 .. Len(row) : row[n][1] = k

LEMMA Ordering ==
  ASSUME NEW kv, NEW S \in SUBSET Nat, IsFiniteSet(S)
  PROVE  IsRow(InOrder(kv, S), kv, S)
<1> DEFINE N == Cardinality(S)
           Nth(n) == CHOOSE k \in S : Cardinality({j \in S : j < k}) = n - 1
<1>1. /\ \A x \in S : <<x, x>> \notin Less
      /\ \A x, y \in S : x = y \/ <<x, y>> \in Less \/ <<y, x>> \in Less
      /\ \A x, y, z \in S : <<x, y>> \in Less /\ <<y, z>> \in Less => <<x, z>> \in Less
  BY LessRelation
<1>2. /\ N \in Nat
      /\ \A x, y \in S : <<x, y>> \in Less <=> Rank(x, S, Less) < Rank(y, S, Less)
      /\ \A x \in S : Rank(x, S, Less) \in 0 .. (N - 1)
      /\ \A i \in 0 .. (N - 1) : \E x \in S : Rank(x, S, Less) = i
  BY <1>1, Ranks
<1>3. \A x \in S : Rank(x, S, Less) = Cardinality({j \in S : j < x})
  <2> SUFFICES ASSUME NEW x \in S PROVE Rank(x, S, Less) = Cardinality({j \in S : j < x})
    OBVIOUS
  <2>1. {j \in S : <<j, x>> \in Less} = {j \in S : j < x}
    BY LessRelation
  <2> QED
    BY <2>1 DEF Rank
<1>4. \A n \in 1 .. N : Nth(n) \in S /\ Rank(Nth(n), S, Less) = n - 1
  <2> SUFFICES ASSUME NEW n \in 1 .. N PROVE Nth(n) \in S /\ Rank(Nth(n), S, Less) = n - 1
    OBVIOUS
  <2>1. n - 1 \in 0 .. (N - 1)
    BY <1>2
  <2>2. \E k \in S : Cardinality({j \in S : j < k}) = n - 1
    BY <1>2, <1>3, <2>1
  <2>3. Nth(n) \in S /\ Cardinality({j \in S : j < Nth(n)}) = n - 1
    BY <2>2
  <2> QED
    BY <1>3, <2>3
<1>5. InOrder(kv, S) = [n \in 1 .. N |-> <<Nth(n), kv[Nth(n)]>>]
  BY DEF InOrder
<1> HIDE DEF Nth
<1>6. PICK row : row = InOrder(kv, S) /\ row = [n \in 1 .. N |-> <<Nth(n), kv[Nth(n)]>>]
  BY <1>5
<1> HIDE DEF N
<1>7. Len(row) = N /\ DOMAIN row = 1 .. N
  BY <1>2, <1>6
<1>8. \A n \in 1 .. N : row[n][1] = Nth(n) /\ row[n] = <<Nth(n), kv[Nth(n)]>>
  BY <1>6
<1>9. \A m, n \in 1 .. N : m < n => row[m][1] < row[n][1]
  <2> SUFFICES ASSUME NEW m \in 1 .. N, NEW n \in 1 .. N, m < n PROVE Nth(m) < Nth(n)
    BY <1>8
  <2>1. PICK a \in S, b \in S : a = Nth(m) /\ b = Nth(n) /\ Rank(a, S, Less) = m - 1 /\ Rank(b, S, Less) = n - 1
    BY <1>4
  <2>2. m - 1 < n - 1
    BY <1>2
  <2>3. <<a, b>> \in Less
    BY <1>2, <2>1, <2>2
  <2> QED
    BY <2>1, <2>3, LessRelation
<1>10. \A k \in S : \E n \in 1 .. N : row[n][1] = k
  <2> SUFFICES ASSUME NEW k \in S PROVE \E n \in 1 .. N : Nth(n) = k
    BY <1>8
  <2>1. PICK r \in 0 .. (N - 1) : r = Rank(k, S, Less)
    BY <1>2
  <2>2. r + 1 \in 1 .. N /\ (r + 1) - 1 = r
    BY <1>2
  <2>3. PICK x \in S : x = Nth(r + 1) /\ Rank(x, S, Less) = r
    BY <1>4, <2>2
  <2>4. ~(r < r)
    OBVIOUS
  <2>5. <<x, k>> \notin Less /\ <<k, x>> \notin Less
    BY <1>2, <2>1, <2>3, <2>4
  <2> QED
    BY <1>1, <2>2, <2>3, <2>5
<1>11. row = [n \in 1 .. Len(row) |-> row[n]]
  BY <1>6, <1>7
<1>12. \A n \in 1 .. N : row[n][1] \in S /\ row[n] = <<row[n][1], kv[row[n][1]]>>
  BY <1>4, <1>8
<1> QED
  BY <1>2, <1>6, <1>7, <1>9, <1>10, <1>11, <1>12 DEF IsRow, N

(* A pair has room in an empty table.                                      *)
Packs(w, start, room) ==
  /\ IsFiniteSet(DOMAIN w) /\ DOMAIN w \in SUBSET Nat
  /\ start \in Nat /\ room \in Nat
  /\ \A k \in DOMAIN w : w[k] \in Nat /\ start + w[k] <= room

(* The key before another is the one written just before it.               *)
LEMMA KeyBefore ==
  ASSUME NEW w, NEW start, NEW room, Packs(w, start, room), NEW k \in DOMAIN w
  PROVE  /\ IsFiniteSet(Before(w, k)) /\ Before(w, k) \in SUBSET DOMAIN w
         /\ Before(w, k) # {} => /\ Max(Before(w, k)) \in DOMAIN w /\ Max(Before(w, k)) < k
                                  /\ \A j \in DOMAIN w : j < k => j <= Max(Before(w, k))
<1>1. PICK B : B = Before(w, k) /\ B = {j \in DOMAIN w : j < k}
  BY DEF Before
<1>2. B \in SUBSET DOMAIN w /\ IsFiniteSet(B) /\ B \in SUBSET Nat
  BY <1>1, FS_Subset DEF Packs
<1>3. B # {} => Max(B) \in B /\ \A m \in B : m <= Max(B)
  BY <1>2, GreatestNumber
<1> QED
  BY <1>1, <1>2, <1>3

(* The recursion of Filled has a solution.                                 *)
LEMMA Filling ==
  ASSUME NEW w, NEW start, NEW room, Packs(w, start, room)
  PROVE  \A k \in DOMAIN w :
           LET bytes == IF Before(w, k) = {} THEN start ELSE Fill(w, start, room)[Max(Before(w, k))]
           IN Fill(w, start, room)[k] = IF bytes + w[k] > room THEN start + w[k]
                              ELSE bytes + w[k]
<1> DEFINE D == DOMAIN w
           Next2(x, k) == IF x + w[k] > room THEN start + w[k] ELSE x + w[k]
           From(f, k) == IF Before(w, k) = {} THEN start ELSE f[Max(Before(w, k))]
           Course(f) == f = [k \in D |-> LET bytes == From(f, k)
                                         IN IF bytes + w[k] > room THEN start + w[k]
                                            ELSE bytes + w[k]]
<1>1. PICK row : IsRow(row, w, D)
  BY Ordering DEF Packs
<1>2. PICK N \in Nat : N = Len(row)
  BY <1>1 DEF IsRow
<1> DEFINE step == [n \in 1 .. N |-> [x \in Nat |-> Next2(x, row[n][1])]]
<1>3. \A n \in 1 .. N : row[n][1] \in D
  BY <1>1, <1>2 DEF IsRow
<1>4. AreSteps(step, N, Nat)
  <2> SUFFICES ASSUME NEW n \in 1 .. N, NEW x \in Nat PROVE Next2(x, row[n][1]) \in Nat
    BY DEF AreSteps
  <2> QED
    BY <1>3 DEF Packs
<1>5. PICK g : IsCourse(g, start, step, N, Nat)
  <2>1. start \in Nat
    BY DEF Packs
  <2> HIDE DEF step
  <2> QED
    BY ONLY <1>4, <2>1, N \in Nat, LoopHasCourse
<1>6. g[0] = start /\ \A n \in 1 .. N : g[n] = Next2(g[n - 1], row[n][1])
  <2>1. g \in [0 .. N -> Nat] /\ g[0] = start /\ \A n \in 1 .. N : g[n] = step[n][g[n - 1]]
    BY <1>5 DEF IsCourse
  <2>2. \A n \in 1 .. N : n - 1 \in 0 .. N
    OBVIOUS
  <2>3. \A n \in 1 .. N : g[n - 1] \in Nat
    BY <2>1, <2>2
  <2> HIDE DEF Next2
  <2> QED
    BY <2>1, <2>3
<1> DEFINE Pos(k) == CHOOSE n \in 1 .. N : row[n][1] = k
           f == [k \in D |-> g[Pos(k)]]
<1>7. \A k \in D : Pos(k) \in 1 .. N /\ row[Pos(k)][1] = k
  BY <1>1, <1>2 DEF IsRow
<1>8. \A n \in 1 .. N : Pos(row[n][1]) = n
  <2> TAKE n \in 1 .. N
  <2>1. PICK p \in 1 .. N : p = Pos(row[n][1]) /\ row[p][1] = row[n][1]
    BY <1>3, <1>7
  <2>2. p \in Nat /\ n \in Nat /\ row[n][1] \in Nat
    BY <1>3 DEF Packs
  <2>3. ~(p < n) /\ ~(n < p)
    BY <1>1, <1>2, <2>1, <2>2 DEF IsRow
  <2> QED
    BY <2>1, <2>2, <2>3
<1> HIDE DEF Pos, step
<1>9. ASSUME NEW k \in D
      PROVE  f[k] = Next2(From(f, k), k)
  <2>1. PICK n \in 1 .. N : n = Pos(k) /\ row[n][1] = k /\ f[k] = g[n]
    BY <1>7
  <2>2. CASE n = 1
    <3>1. Before(w, k) = {}
      <4> SUFFICES ASSUME NEW j \in D, j < k PROVE FALSE
        BY DEF Before
      <4>1. PICK m \in 1 .. N : row[m][1] = j
        BY <1>7
      <4>2. j \in Nat /\ k \in Nat
        BY DEF Packs
      <4>3. m = 1 \/ 1 < m
        OBVIOUS
      <4>4. m = 1 \/ k < j
        BY <1>1, <1>2, <2>1, <2>2, <4>1, <4>3 DEF IsRow
      <4> QED
        BY <2>1, <2>2, <4>1, <4>2, <4>4
    <3>2. From(f, k) = g[n - 1]
      BY <1>6, <2>2, <3>1
    <3> HIDE DEF From, f, Next2
    <3> QED
      BY <1>6, <2>1, <3>2
  <2>3. CASE n # 1
    <3>1. PICK m \in 1 .. N : m = n - 1 /\ m < n
      BY <2>3
    <3>2. PICK j \in D : j = row[m][1] /\ j < k
      BY <1>1, <1>2, <1>3, <2>1, <3>1 DEF IsRow
    <3>3. j \in Before(w, k)
      BY <3>2 DEF Before
    <3>4. PICK b \in D : b = Max(Before(w, k)) /\ b < k /\ j <= b
      BY <3>2, <3>3, KeyBefore
    <3>5. b = j
      <4>1. PICK p \in 1 .. N : row[p][1] = b
        BY <1>7
      <4>2. b \in Nat /\ j \in Nat /\ k \in Nat /\ p \in Nat /\ n \in Nat /\ m \in Nat
        BY DEF Packs
      <4>3. p = n \/ p < n \/ n < p
        BY <4>2
      <4>4. p < n
        <5>1. n < p => k < b
          BY <1>1, <1>2, <2>1, <4>1 DEF IsRow
        <5> QED
          BY <2>1, <3>4, <4>1, <4>2, <4>3, <5>1
      <4>5. p = m \/ p < m
        BY <3>1, <4>2, <4>4
      <4>6. p < m => b < j
        BY <1>1, <1>2, <3>2, <4>1 DEF IsRow
      <4> QED
        BY <3>2, <3>4, <4>1, <4>2, <4>5, <4>6
    <3>6. f[j] = g[m]
      BY <1>8, <3>2
    <3>7. From(f, k) = g[n - 1]
      BY <3>1, <3>3, <3>4, <3>5, <3>6
    <3> HIDE DEF From, f, Next2
    <3> QED
      BY <1>6, <2>1, <3>7
  <2> QED
    BY <2>2, <2>3
<1>10. Course(f)
  <2>1. f = [k \in D |-> f[k]]
    OBVIOUS
  <2> HIDE DEF f, From
  <2> QED
    BY <1>9, <2>1
<1>11. PICK h : h = (CHOOSE x : Course(x)) /\ Course(h)
  <2> HIDE DEF Course, f
  <2> QED
    BY ONLY <1>10
<1>12. h = Fill(w, start, room)
  BY <1>11 DEF Fill
<1>13. \A k \in D : h[k] = Next2(From(h, k), k)
  <2> HIDE DEF From
  <2> QED
    BY <1>11
<1> HIDE DEF Course
<1> QED
  BY <1>12, <1>13

-----------------------------------------------------------------------------
(* The sum of some numbers: f gives it for every part of them.             *)
IsSum(f, w) ==
  /\ \A x \in DOMAIN w : w[x] \in Nat
  /\ f \in [SUBSET DOMAIN w -> Nat] /\ f[{}] = 0
  /\ \A S \in SUBSET DOMAIN w : \A x \in S : f[S] = f[S \ {x}] + w[x]

LEMMA NoSum ==
  ASSUME NEW w, DOMAIN w = {}
  PROVE  \E f : IsSum(f, w) /\ f[DOMAIN w] = 0
<1>1. PICK f : f = [S \in SUBSET {} |-> 0]
  OBVIOUS
<1>2. f \in [SUBSET {} -> Nat] /\ f[{}] = 0 /\ \A S \in SUBSET {} : \A x \in S : FALSE
  BY <1>1
<1> QED
  BY <1>2 DEF IsSum

(* A number more, or another number in place of one.                       *)
LEMMA SumWith ==
  ASSUME NEW w, NEW f, IsSum(f, w), NEW v, NEW x,
         DOMAIN v = DOMAIN w \cup {x}, v[x] \in Nat,
         \A k \in DOMAIN w : k # x => v[k] = w[k]
  PROVE  \E g : /\ IsSum(g, v)
                /\ g[DOMAIN v] = f[DOMAIN w \ {x}] + v[x]
                /\ x \notin DOMAIN w => f[DOMAIN w \ {x}] = f[DOMAIN w]
                /\ x \in DOMAIN w => f[DOMAIN w] = f[DOMAIN w \ {x}] + w[x]
                /\ f[DOMAIN w] \in Nat /\ f[DOMAIN w \ {x}] \in Nat
<1>1. /\ \A S \in SUBSET DOMAIN w : f[S] \in Nat
      /\ f[{}] = 0
      /\ \A S \in SUBSET DOMAIN w : \A y \in S : f[S] = f[S \ {y}] + w[y]
  BY DEF IsSum
<1>2. PICK E : E = DOMAIN v
  OBVIOUS
<1>3. PICK n \in Nat : n = v[x]
  OBVIOUS
<1>4. \A S \in SUBSET E : S \ {x} \in SUBSET DOMAIN w
  BY <1>2
<1>5. PICK g : g = [S \in SUBSET E |-> IF x \in S THEN f[S \ {x}] + n ELSE f[S \ {x}]]
  OBVIOUS
<1>6. \A S \in SUBSET E : g[S] = (IF x \in S THEN f[S \ {x}] + n ELSE f[S \ {x}]) /\ f[S \ {x}] \in Nat
  BY <1>1, <1>4, <1>5
<1>7. g \in [SUBSET E -> Nat]
  <2>1. ASSUME NEW S \in SUBSET E
        PROVE  (IF x \in S THEN f[S \ {x}] + n ELSE f[S \ {x}]) \in Nat
    <3>1. PICK m \in Nat : m = f[S \ {x}]
      BY <1>6
    <3> QED
      BY ONLY <3>1, n \in Nat
  <2> QED
    BY ONLY <1>5, <2>1
<1>8. g[{}] = 0
  <2>1. {} \in SUBSET E /\ {} \ {x} = {} /\ x \notin {}
    OBVIOUS
  <2> QED
    BY ONLY <1>1, <1>6, <2>1
<1>9. ASSUME NEW S \in SUBSET E, NEW y \in S
      PROVE  g[S] = g[S \ {y}] + v[y]
  <2>1. PICK R : R = S \ {y} /\ R \in SUBSET E
    OBVIOUS
  <2>2. CASE y = x
    <3>1. x \in S /\ x \notin R /\ R \ {x} = S \ {x}
      BY <2>1, <2>2
    <3>2. g[S] = f[S \ {x}] + n /\ g[R] = f[S \ {x}]
      BY <1>6, <2>1, <3>1
    <3> QED
      BY <1>3, <2>1, <2>2, <3>2
  <2>3. CASE y # x
    <3>1. PICK Q : Q = S \ {x} /\ Q \in SUBSET DOMAIN w /\ y \in Q /\ R \ {x} = Q \ {y}
      <4>1. S \ {x} \in SUBSET DOMAIN w
        BY <1>4
      <4>2. y \in S \ {x} /\ R \ {x} = (S \ {x}) \ {y}
        BY ONLY <2>1, <2>3
      <4> QED
        BY ONLY <4>1, <4>2
    <3>2. f[Q] = f[Q \ {y}] + w[y] /\ w[y] = v[y]
      BY <1>1, <2>3, <3>1
    <3>3. /\ g[S] = IF x \in S THEN f[Q] + n ELSE f[Q]
          /\ g[R] = IF x \in R THEN f[Q \ {y}] + n ELSE f[Q \ {y}]
      BY <1>6, <2>1, <3>1
    <3>4. x \in R <=> x \in S
      BY <2>1, <2>3
    <3>5. f[Q] \in Nat /\ f[Q \ {y}] \in Nat
      <4>1. Q \ {y} \in SUBSET DOMAIN w
        BY <3>1
      <4> QED
        BY <1>1, <3>1, <4>1
    <3>6. v[y] \in Nat
      BY <3>1, <3>2 DEF IsSum
    <3> QED
      BY <1>3, <2>1, <3>2, <3>3, <3>4, <3>5, <3>6
  <2> QED
    BY <2>2, <2>3
<1>10. IsSum(g, v)
  <2>1. \A k \in DOMAIN v : v[k] \in Nat
    BY DEF IsSum
  <2> QED
    BY <1>2, <1>7, <1>8, <1>9, <2>1 DEF IsSum
<1>11. g[DOMAIN v] = f[DOMAIN w \ {x}] + v[x]
  <2>1. E \in SUBSET E /\ x \in E /\ E \ {x} = DOMAIN w \ {x}
    BY <1>2
  <2> QED
    BY <1>2, <1>3, <1>6, <2>1
<1>12. /\ x \notin DOMAIN w => f[DOMAIN w \ {x}] = f[DOMAIN w]
       /\ x \in DOMAIN w => f[DOMAIN w] = f[DOMAIN w \ {x}] + w[x]
       /\ f[DOMAIN w] \in Nat /\ f[DOMAIN w \ {x}] \in Nat
  <2>1. DOMAIN w \in SUBSET DOMAIN w /\ DOMAIN w \ {x} \in SUBSET DOMAIN w
    OBVIOUS
  <2>2. x \notin DOMAIN w => DOMAIN w \ {x} = DOMAIN w
    OBVIOUS
  <2> QED
    BY <1>1, <2>1, <2>2
<1> QED
  BY <1>10, <1>11, <1>12

(* The sum of numbers of which none is less than m.                        *)
LEMMA SumAtLeast ==
  ASSUME NEW w, NEW f, IsSum(f, w), IsFiniteSet(DOMAIN w), NEW m \in Nat,
         \A k \in DOMAIN w : w[k] \in Nat /\ m <= w[k]
  PROVE  m * Cardinality(DOMAIN w) <= f[DOMAIN w] /\ f[DOMAIN w] \in Nat
<1> DEFINE Size2(S) == Cardinality(S)
           Bad == {n \in Nat : \E S \in SUBSET DOMAIN w : Size2(S) = n /\ ~(m * n <= f[S])}
<1>1. \A S \in SUBSET DOMAIN w : IsFiniteSet(S) /\ Cardinality(S) \in Nat
  BY FS_Subset, FS_CardinalityType
<1>2. /\ \A S \in SUBSET DOMAIN w : f[S] \in Nat
      /\ f[{}] = 0
      /\ \A S \in SUBSET DOMAIN w : \A y \in S : f[S] = f[S \ {y}] + w[y]
  BY DEF IsSum
<1>3. Bad = {}
  <2> SUFFICES ASSUME Bad # {} PROVE FALSE
    OBVIOUS
  <2>1. PICK n \in Bad : \A j \in Bad : n <= j
    <3>1. Bad \in SUBSET Nat
      OBVIOUS
    <3> HIDE DEF Bad
    <3> QED
      BY <3>1, LeastElement
  <2>2. PICK S \in SUBSET DOMAIN w : Cardinality(S) = n /\ ~(m * n <= f[S])
    BY <2>1
  <2>3. CASE S = {}
    <3>1. n = 0 /\ m * 0 = 0 /\ f[S] = 0
      BY <1>2, <2>2, <2>3, FS_EmptySet
    <3> QED
      BY <2>2, <3>1
  <2>4. CASE S # {}
    <3>1. PICK y \in S : TRUE
      BY <2>4
    <3>2. PICK R \in SUBSET DOMAIN w : R = S \ {y}
      OBVIOUS
    <3>3. Cardinality(R) = n - 1 /\ Cardinality(R) \in Nat
      BY <1>1, <2>2, <3>1, <3>2, FS_RemoveElement
    <3>4. n - 1 \notin Bad
      BY <2>1, <3>3
    <3>5. m * (n - 1) <= f[R]
      BY <3>3, <3>4
    <3>6. f[S] = f[R] + w[y] /\ f[R] \in Nat /\ w[y] \in Nat /\ m <= w[y]
      BY <1>2, <3>1, <3>2
    <3>7. m * n = m * (n - 1) + m
      BY <2>1
    <3>8. m * (n - 1) \in Int /\ m * n \in Int
      BY <2>1
    <3> QED
      BY <2>2, <3>5, <3>6, <3>7, <3>8
  <2> QED
    BY <2>3, <2>4
<1>4. DOMAIN w \in SUBSET DOMAIN w /\ Cardinality(DOMAIN w) \in Nat /\ Cardinality(DOMAIN w) \notin Bad
  BY <1>1, <1>3
<1> QED
  BY <1>2, <1>4

-----------------------------------------------------------------------------
(* Division with remainder, and the order of products and quotients.       *)
LEMMA Division ==
  ASSUME NEW a \in Nat, NEW b \in Nat \ {0}
  PROVE  /\ a \div b \in Nat /\ a % b \in 0 .. (b - 1)
         /\ a = b * (a \div b) + (a % b)
OBVIOUS

LEMMA DivisionUnique ==
  ASSUME NEW a, NEW b \in Nat \ {0}, NEW q \in Nat, NEW r \in 0 .. (b - 1), a = b * q + r
  PROVE  a \div b = q /\ a % b = r
OBVIOUS

LEMMA ProductType ==
  ASSUME NEW a \in Nat, NEW b \in Nat
  PROVE  a * b \in Nat /\ a * b = b * a /\ (a # 0 /\ b # 0 => a * b # 0)
OBVIOUS

LEMMA ProductOrder ==
  ASSUME NEW a \in Nat, NEW b \in Nat, NEW c \in Nat, a < b
  PROVE  c * a + c <= c * b
<1>1. c * (a + 1) <= c * b
  OBVIOUS
<1> QED
  BY <1>1

LEMMA QuotientBound ==
  ASSUME NEW a \in Nat, NEW b \in Nat \ {0}, NEW c \in Nat
  PROVE  (a \div b < c <=> a < b * c) /\ (a \div b = c <=> b * c <= a /\ a < b * c + b)
<1>1. PICK q \in Nat, r \in 0 .. (b - 1) : a \div b = q /\ a = b * q + r
  BY Division
<1>2. q < c => b * q + b <= b * c
  BY ProductOrder
<1>3. c < q => b * c + b <= b * q
  BY ProductOrder
<1>4. b * q \in Nat /\ b * c \in Nat
  BY ProductType
<1> QED
  BY ONLY <1>1, <1>2, <1>3, <1>4, q \in Nat, b \in Nat \ {0}, c \in Nat

LEMMA QuotientOrder ==
  ASSUME NEW a \in Nat, NEW b \in Nat, NEW c \in Nat \ {0}, a <= b
  PROVE  a \div c <= b \div c
<1>1. PICK q \in Nat, r \in 0 .. (c - 1) : a \div c = q /\ a = c * q + r
  BY Division
<1>2. PICK p \in Nat, s \in 0 .. (c - 1) : b \div c = p /\ b = c * p + s
  BY Division
<1>3. p < q => c * p + c <= c * q
  BY ProductOrder
<1>4. c * p \in Nat /\ c * q \in Nat
  BY ProductType
<1> QED
  BY ONLY <1>1, <1>2, <1>3, <1>4, p \in Nat, q \in Nat, c \in Nat \ {0}, a <= b
=============================================================================
