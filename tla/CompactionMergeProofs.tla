------------------------ MODULE CompactionMergeProofs -----------------------
(***************************************************************************)
(* The loops of compactionForLevel, proved for any tables a level may give *)
(* them: minKey follows the iterators, and what is written is the newest   *)
(* pair of every key, cut into tables as KVStore's compaction step says.   *)
(***************************************************************************)
EXTENDS CompactionMerge, Induction, SequenceTheorems

-----------------------------------------------------------------------------
(* There is one such row: where two would first differ, the lesser key of  *)
(* the two would be in neither place.                                      *)
LEMMA RowsAgree ==
  ASSUME NEW kv, NEW S \in SUBSET Nat, NEW r, NEW s, IsRow(r, kv, S), IsRow(s, kv, S),
         NEW m \in 1 .. Len(r), \A n \in 1 .. Len(r) : n < m => r[n][1] = s[n][1]
  PROVE  ~(r[m][1] < s[m][1])
<1> SUFFICES ASSUME r[m][1] < s[m][1] PROVE FALSE
  OBVIOUS
<1>1. Len(r) = Len(s) /\ Len(r) \in Nat /\ m \in 1 .. Len(s) /\ m \in Nat
  BY DEF IsRow
<1>2. PICK a \in S, b \in S : a = r[m][1] /\ b = s[m][1] /\ a < b
  BY <1>1 DEF IsRow
<1>3. PICK n \in 1 .. Len(s) : s[n][1] = a
  BY <1>2 DEF IsRow
<1>4. a \in Nat /\ b \in Nat /\ n \in Nat
  BY <1>1, <1>2, <1>3
<1>5. ~(m < n) /\ n # m
  <2>1. m < n => b < a
    BY <1>1, <1>2, <1>3 DEF IsRow
  <2> QED
    BY <1>2, <1>3, <1>4, <2>1
<1>6. n < m /\ n \in 1 .. Len(r)
  BY <1>1, <1>3, <1>4, <1>5
<1>7. r[n][1] = a /\ r[n][1] < r[m][1]
  BY <1>3, <1>6 DEF IsRow
<1> QED
  BY <1>2, <1>4, <1>7

LEMMA RowIsUnique ==
  ASSUME NEW kv, NEW S \in SUBSET Nat, NEW r, NEW s, IsRow(r, kv, S), IsRow(s, kv, S)
  PROVE  r = s
<1> DEFINE Bad == {n \in 1 .. Len(r) : r[n][1] # s[n][1]}
<1>1. Len(r) = Len(s) /\ Len(r) \in Nat
  BY DEF IsRow
<1>2. Bad = {}
  <2> SUFFICES ASSUME Bad # {} PROVE FALSE
    OBVIOUS
  <2>1. PICK m \in Bad : \A n \in Bad : m <= n
    <3>1. Bad \in SUBSET Nat
      BY <1>1
    <3> HIDE DEF Bad
    <3> QED
      BY <3>1, LeastElement
  <2>2. m \in 1 .. Len(r) /\ m \in 1 .. Len(s) /\ r[m][1] # s[m][1]
    BY <1>1, <2>1
  <2>3. \A n \in 1 .. Len(r) : n < m => n \notin Bad
    BY <1>1, <2>1, <2>2
  <2>4. /\ \A n \in 1 .. Len(r) : n < m => r[n][1] = s[n][1]
        /\ \A n \in 1 .. Len(s) : n < m => s[n][1] = r[n][1]
    BY <1>1, <2>3
  <2>5. ~(r[m][1] < s[m][1])
    BY <2>2, <2>4, RowsAgree
  <2>6. ~(s[m][1] < r[m][1])
    BY <2>2, <2>4, RowsAgree
  <2>7. r[m][1] \in Nat /\ s[m][1] \in Nat
    BY <2>2 DEF IsRow
  <2> QED
    BY <2>2, <2>5, <2>6, <2>7
<1>3. \A n \in 1 .. Len(r) : r[n] = s[n]
  <2> TAKE n \in 1 .. Len(r)
  <2>1. r[n] = <<r[n][1], kv[r[n][1]]>> /\ s[n] = <<s[n][1], kv[s[n][1]]>>
    BY <1>1 DEF IsRow
  <2>2. r[n][1] = s[n][1]
    BY <1>2
  <2> QED
    BY ONLY <2>1, <2>2
<1>4. r = [n \in 1 .. Len(r) |-> r[n]] /\ s = [n \in 1 .. Len(s) |-> s[n]]
  BY DEF IsRow
<1> QED
  BY ONLY <1>1, <1>3, <1>4

LEMMA Appended ==
  ASSUME NEW N \in Nat, NEW r, r = [n \in 1 .. N |-> r[n]], NEW x
  PROVE  /\ Append(r, x) = [n \in 1 .. N + 1 |-> IF n = N + 1 THEN x ELSE r[n]]
         /\ Len(r) = N /\ Len(Append(r, x)) = N + 1 /\ DOMAIN Append(r, x) = 1 .. N + 1
<1>1. PICK T : T = {r[n] : n \in 1 .. N}
  OBVIOUS
<1>2. r \in Seq(T) /\ Len(r) = N
  BY <1>1
<1>3. PICK s : s = Append(r, x)
  OBVIOUS
<1>4. s \in Seq(T \cup {x}) /\ Len(s) = N + 1 /\ (\A n \in 1 .. N : s[n] = r[n]) /\ s[N + 1] = x
  BY <1>2, <1>3
<1>5. s = [n \in 1 .. N + 1 |-> s[n]] /\ DOMAIN s = 1 .. N + 1
  BY <1>4
<1>6. \A n \in 1 .. N + 1 : s[n] = IF n = N + 1 THEN x ELSE r[n]
  <2> TAKE n \in 1 .. N + 1
  <2>1. CASE n = N + 1
    BY <1>4, <2>1
  <2>2. CASE n # N + 1
    <3>1. n \in 1 .. N
      BY <2>2
    <3> QED
      BY <1>4, <2>2, <3>1
  <2> QED
    BY <2>1, <2>2
<1> QED
  BY <1>2, <1>3, <1>4, <1>5, <1>6

(* A row grows by a key above all of its own.                              *)
LEMMA RowGrows ==
  ASSUME NEW kv, NEW S \in SUBSET Nat, IsFiniteSet(S), NEW k \in Nat, \A j \in S : j < k
  PROVE  Append(InOrder(kv, S), <<k, kv[k]>>) = InOrder(kv, S \cup {k})
<1>1. PICK r : r = InOrder(kv, S) /\ IsRow(r, kv, S)
  BY Ordering
<1>2. PICK N \in Nat : N = Cardinality(S) /\ N = Len(r) /\ DOMAIN r = 1 .. N
  BY <1>1 DEF IsRow
<1>3. PICK s : s = Append(r, <<k, kv[k]>>)
  OBVIOUS
<1>4. k \notin S /\ S \cup {k} \in SUBSET Nat /\ IsFiniteSet(S \cup {k}) /\ Cardinality(S \cup {k}) = N + 1
  <2>1. k \notin S
    OBVIOUS
  <2> QED
    BY <1>2, <2>1, FS_AddElement
<1>5. /\ s = [n \in 1 .. N + 1 |-> IF n = N + 1 THEN <<k, kv[k]>> ELSE r[n]]
      /\ Len(s) = N + 1 /\ DOMAIN s = 1 .. N + 1
  <2>1. r = [n \in 1 .. N |-> r[n]]
    BY <1>1, <1>2 DEF IsRow
  <2> QED
    BY <1>2, <1>3, <2>1, Appended
<1>6. /\ \A n \in 1 .. N : n \in 1 .. N + 1 /\ n # N + 1 /\ s[n] = r[n]
      /\ s[N + 1] = <<k, kv[k]>> /\ N + 1 \in 1 .. N + 1
      /\ \A n \in 1 .. N + 1 : n \in 1 .. N \/ n = N + 1
  BY <1>2, <1>5
<1>7. /\ \A n \in 1 .. N : r[n][1] \in S /\ r[n] = <<r[n][1], kv[r[n][1]]>>
      /\ \A m, n \in 1 .. N : m < n => r[m][1] < r[n][1]
      /\ \A j \in S : \E n \in 1 .. N : r[n][1] = j
  BY <1>1, <1>2 DEF IsRow
<1>8. \A n \in 1 .. N + 1 : s[n][1] \in S \cup {k} /\ s[n] = <<s[n][1], kv[s[n][1]]>>
  BY <1>6, <1>7
<1>9. \A m, n \in 1 .. N + 1 : m < n => s[m][1] < s[n][1]
  <2> SUFFICES ASSUME NEW m \in 1 .. N + 1, NEW n \in 1 .. N + 1, m < n PROVE s[m][1] < s[n][1]
    OBVIOUS
  <2>1. m \in 1 .. N
    BY <1>2
  <2>2. CASE n \in 1 .. N
    BY <1>6, <1>7, <2>1, <2>2
  <2>3. CASE n = N + 1
    <3>1. s[n][1] = k
      BY <1>6, <2>3
    <3> QED
      BY <1>6, <1>7, <2>1, <3>1
  <2> QED
    BY <1>6, <2>2, <2>3
<1>10. \A j \in S \cup {k} : \E n \in 1 .. N + 1 : s[n][1] = j
  BY <1>6, <1>7
<1>11. IsRow(s, kv, S \cup {k})
  BY <1>2, <1>4, <1>5, <1>8, <1>9, <1>10 DEF IsRow
<1>12. IsRow(InOrder(kv, S \cup {k}), kv, S \cup {k})
  BY <1>4, Ordering
<1> QED
  BY <1>1, <1>3, <1>4, <1>11, <1>12, RowIsUnique

LEMMA RowOfNone == ASSUME NEW kv PROVE InOrder(kv, {}) = <<>>
<1>1. 1 .. Cardinality({}) = {}
  BY FS_EmptySet
<1> QED
  BY <1>1 DEF InOrder

-----------------------------------------------------------------------------
(* The pairs written are those of kv, and a table has room for each.       *)
Fit(kv) ==
  /\ IsFiniteSet(DOMAIN kv) /\ DOMAIN kv \in SUBSET Nat
  /\ TableSize \in Nat /\ InitialSize \in Nat
  /\ \A k \in DOMAIN kv : Bytes(kv[k]) \in Nat /\ InitialSize + Bytes(kv[k]) <= TableSize

Filled(kv) == Fill(Weights(kv), InitialSize, TableSize)

LEMMA WeightOfPair ==
  ASSUME NEW kv
  PROVE  \E w : w = Weights(kv) /\ DOMAIN w = DOMAIN kv /\ \A k \in DOMAIN kv : w[k] = Bytes(kv[k])
<1>1. Weights(kv) = [k \in DOMAIN kv |-> Bytes(kv[k])]
  BY DEF Weights
<1>2. DOMAIN Weights(kv) = DOMAIN kv /\ \A k \in DOMAIN kv : Weights(kv)[k] = Bytes(kv[k])
  BY ONLY <1>1
<1> QED
  BY ONLY <1>2

LEMMA KeyFills ==
  ASSUME NEW kv, Fit(kv)
  PROVE  \A k \in DOMAIN kv :
           LET bytes == IF Before(kv, k) = {} THEN InitialSize ELSE Filled(kv)[Max(Before(kv, k))]
           IN Filled(kv)[k] = IF bytes + Bytes(kv[k]) > TableSize THEN InitialSize + Bytes(kv[k])
                              ELSE bytes + Bytes(kv[k])
<1>1. PICK w : w = Weights(kv) /\ DOMAIN w = DOMAIN kv /\ \A k \in DOMAIN kv : w[k] = Bytes(kv[k])
  BY WeightOfPair
<1>2. Packs(w, InitialSize, TableSize)
  BY <1>1 DEF Packs, Fit
<1>3. \A k : Before(w, k) = Before(kv, k)
  BY <1>1 DEF Before
<1>4. Filled(kv) = Fill(w, InitialSize, TableSize)
  BY <1>1 DEF Filled
<1> QED
  BY <1>1, <1>2, <1>3, <1>4, Filling

-----------------------------------------------------------------------------
(* The table a key goes to is the number of keys up to it that open one.   *)
Count(kv, k) == Cardinality({f \in Opens(kv) : f <= k})
Begun(kv, K) == Cardinality(Opens(kv) \cap K)
Part(kv, n) == {k \in DOMAIN kv : Count(kv, k) = n}

(* Key k is the next after those of K.                                     *)
IsNext(kv, K, k) ==
  /\ K \in SUBSET DOMAIN kv /\ k \in DOMAIN kv \ K
  /\ \A j \in K : j < k
  /\ \A d \in DOMAIN kv \ K : k <= d

LEMMA Counting ==
  ASSUME NEW kv, Fit(kv), NEW K, NEW k, IsNext(kv, K, k)
  PROVE  /\ Begun(kv, K) \in Nat
         /\ Begun(kv, K \cup {k}) = IF k \in Opens(kv) THEN Begun(kv, K) + 1 ELSE Begun(kv, K)
         /\ Count(kv, k) = Begun(kv, K \cup {k})
         /\ \A j \in K : Count(kv, j) \in Nat /\ Count(kv, j) <= Begun(kv, K)
         /\ \A d \in DOMAIN kv \ K : Count(kv, d) \in Nat /\ Count(kv, d) >= Begun(kv, K \cup {k})
         /\ Before(kv, k) = K
<1> PICK O : O = Opens(kv)
  OBVIOUS
<1> DEFINE UpTo(j) == {f \in O : f <= j}
           X == O \cap K
           Y == O \cap (K \cup {k})
<1>1. O \in SUBSET DOMAIN kv /\ IsFiniteSet(O) /\ DOMAIN kv \in SUBSET Nat
  <2>1. O \in SUBSET DOMAIN kv
    BY DEF Opens, Opening, Weights
  <2> QED
    BY <2>1, FS_Subset DEF Fit
<1>2. /\ IsFiniteSet(X) /\ IsFiniteSet(Y) /\ Cardinality(X) \in Nat /\ Cardinality(Y) \in Nat
      /\ \A j \in DOMAIN kv : IsFiniteSet(UpTo(j)) /\ Cardinality(UpTo(j)) \in Nat
  <2>1. X \in SUBSET O /\ Y \in SUBSET O /\ \A j \in DOMAIN kv : UpTo(j) \in SUBSET O
    OBVIOUS
  <2> HIDE DEF X, Y, UpTo
  <2> QED
    BY <1>1, <2>1, FS_Subset, FS_CardinalityType
<1>3. Cardinality(Y) = IF k \in O THEN Cardinality(X) + 1 ELSE Cardinality(X)
  <2>1. CASE k \in O
    <3>1. Y = X \cup {k} /\ k \notin X
      BY <2>1 DEF IsNext
    <3> HIDE DEF X, Y
    <3> QED
      BY <1>2, <2>1, <3>1, FS_AddElement
  <2>2. CASE k \notin O
    <3>1. Y = X
      BY <2>2
    <3> QED
      BY <2>2, <3>1
  <2> QED
    BY <2>1, <2>2
<1>4. UpTo(k) = Y
  <2>1. \A f \in O : f <= k <=> f \in K \cup {k}
    <3> TAKE f \in O
    <3>1. f \in Nat /\ k \in Nat /\ f \in DOMAIN kv
      BY <1>1 DEF IsNext
    <3> QED
      BY <3>1 DEF IsNext
  <2> QED
    BY <2>1
<1>5. \A j \in K : UpTo(j) \in SUBSET X
  <2> SUFFICES ASSUME NEW j \in K, NEW f \in O, f <= j, f \notin K PROVE FALSE
    OBVIOUS
  <2>1. f \in Nat /\ k \in Nat /\ j \in Nat /\ k <= f /\ j < k
    BY <1>1 DEF IsNext
  <2> QED
    BY <2>1
<1>6. \A d \in DOMAIN kv \ K : Y \in SUBSET UpTo(d)
  <2> SUFFICES ASSUME NEW d \in DOMAIN kv \ K, NEW f \in K \cup {k} PROVE f <= d
    OBVIOUS
  <2>1. f \in Nat /\ k \in Nat /\ d \in Nat /\ k <= d /\ (f < k \/ f = k)
    BY <1>1 DEF IsNext
  <2> QED
    BY <2>1
<1>7. K \in SUBSET DOMAIN kv /\ k \in DOMAIN kv
  BY DEF IsNext
<1>8. Before(kv, k) = K
  <2> SUFFICES ASSUME NEW d \in DOMAIN kv PROVE d < k <=> d \in K
    BY <1>7 DEF Before
  <2>1. d \in Nat /\ k \in Nat
    BY <1>1, <1>7
  <2> QED
    BY <2>1 DEF IsNext
<1>9. \A d \in DOMAIN kv : Count(kv, d) = Cardinality(UpTo(d))
  BY DEF Count
<1> HIDE DEF X, Y, UpTo
<1>10. \A j \in K : Cardinality(UpTo(j)) <= Cardinality(X)
  BY <1>2, <1>5, FS_Subset
<1>11. \A d \in DOMAIN kv \ K : Cardinality(Y) <= Cardinality(UpTo(d))
  BY <1>2, <1>6, FS_Subset
<1>12. \A d \in DOMAIN kv \ K : Count(kv, d) \in Nat /\ Count(kv, d) >= Cardinality(Y)
  <2> TAKE d \in DOMAIN kv \ K
  <2>1. Cardinality(UpTo(d)) \in Nat /\ Cardinality(Y) <= Cardinality(UpTo(d)) /\ Count(kv, d) = Cardinality(UpTo(d))
    BY <1>2, <1>9, <1>11
  <2> QED
    BY <1>2, <2>1
<1>13. \A j \in K : Count(kv, j) \in Nat /\ Count(kv, j) <= Cardinality(X)
  BY <1>2, <1>7, <1>9, <1>10
<1>14. Count(kv, k) = Cardinality(Y)
  BY <1>4, <1>7, <1>9
<1>15. Begun(kv, K) = Cardinality(X) /\ Begun(kv, K \cup {k}) = Cardinality(Y)
  BY DEF Begun, X, Y
<1> QED
  BY <1>2, <1>3, <1>8, <1>12, <1>13, <1>14, <1>15

(* What the loop has written, begun and filled once it is through the keys *)
(* of K.                                                                   *)
IsOutput(kv, K, w, t, s) ==
  IF K = {} THEN w = <<>> /\ t = <<>> /\ s = InitialSize
  ELSE \E c \in Nat \ {0} :
         /\ c = Begun(kv, K)
         /\ s = Filled(kv)[Max(K)]
         /\ w = [n \in 1 .. (c - 1) |-> InOrder(kv, Part(kv, n))]
         /\ t = InOrder(kv, Part(kv, c) \cap K)
         /\ \A n \in 1 .. (c - 1) : w[n] # <<>>
         /\ t # <<>>

LEMMA OutputSize ==
  ASSUME NEW kv, Fit(kv), NEW K, NEW k, IsNext(kv, K, k), NEW w, NEW t, NEW s, IsOutput(kv, K, w, t, s)
  PROVE  LET over == s + Bytes(kv[k]) > TableSize
         IN /\ Filled(kv)[k] = IF over THEN InitialSize + Bytes(kv[k]) ELSE s + Bytes(kv[k])
            /\ k \in Opens(kv) <=> K = {} \/ over
            /\ K = {} => ~over
<1>1. Before(kv, k) = K /\ k \in DOMAIN kv
  BY Counting DEF IsNext
<1>2. Filled(kv)[k] = LET bytes == IF K = {} THEN InitialSize ELSE Filled(kv)[Max(K)]
                      IN IF bytes + Bytes(kv[k]) > TableSize THEN InitialSize + Bytes(kv[k]) ELSE bytes + Bytes(kv[k])
  BY <1>1, KeyFills
<1>3. s = IF K = {} THEN InitialSize ELSE Filled(kv)[Max(K)]
  BY DEF IsOutput
<1>4. k \in Opens(kv) <=> K = {} \/ Filled(kv)[Max(K)] + Bytes(kv[k]) > TableSize
  <2>1. PICK u : u = Weights(kv) /\ DOMAIN u = DOMAIN kv /\ \A j \in DOMAIN kv : u[j] = Bytes(kv[j])
    BY WeightOfPair
  <2>2. Before(u, k) = Before(kv, k)
    BY <2>1 DEF Before
  <2>3. Opens(kv) = Opening(u, InitialSize, TableSize) /\ Filled(kv) = Fill(u, InitialSize, TableSize)
    BY <2>1 DEF Opens, Filled
  <2> QED
    BY <1>1, <2>1, <2>2, <2>3 DEF Opening
<1>5. K = {} => ~(s + Bytes(kv[k]) > TableSize)
  BY <1>1, <1>3 DEF Fit
<1> QED
  BY <1>2, <1>3, <1>4, <1>5

LEMMA OutputGrows ==
  ASSUME NEW kv, Fit(kv), NEW K, NEW k, IsNext(kv, K, k),
         NEW w, NEW t, NEW s, IsOutput(kv, K, w, t, s), NEW w2, NEW t2, NEW s2,
         LET over == s + Bytes(kv[k]) > TableSize
         IN /\ w2 = IF over THEN Append(w, t) ELSE w
            /\ t2 = IF over THEN <<<<k, kv[k]>>>> ELSE Append(t, <<k, kv[k]>>)
            /\ s2 = IF over THEN InitialSize + Bytes(kv[k]) ELSE s + Bytes(kv[k])
  PROVE  IsOutput(kv, K \cup {k}, w2, t2, s2)
<1> PICK L : L = K \cup {k}
  OBVIOUS
<1> PICK pair : pair = <<k, kv[k]>>
  OBVIOUS
<1> DEFINE over == s + Bytes(kv[k]) > TableSize
           O == Opens(kv)
<1>1. /\ K \in SUBSET DOMAIN kv /\ k \in DOMAIN kv /\ k \in Nat /\ \A j \in K : j < k
      /\ L \in SUBSET Nat /\ IsFiniteSet(L) /\ L # {} /\ k \in L
      /\ K \in SUBSET Nat /\ IsFiniteSet(K)
  <2>1. /\ K \in SUBSET DOMAIN kv /\ k \in DOMAIN kv /\ k \in Nat /\ \A j \in K : j < k
        /\ L \in SUBSET DOMAIN kv /\ L # {} /\ k \in L
    BY DEF IsNext, Fit
  <2>2. DOMAIN kv \in SUBSET Nat /\ IsFiniteSet(DOMAIN kv)
    BY DEF Fit
  <2> QED
    BY <2>1, <2>2, FS_Subset
<1>2. Max(L) = k
  <2>1. Max(L) \in L /\ \A m \in L : m <= Max(L)
    BY <1>1, GreatestNumber
  <2>2. PICK m \in Nat : m = Max(L) /\ m \in L /\ k <= m
    BY <1>1, <2>1
  <2>3. m \in K => m < k
    BY <1>1
  <2> QED
    BY <1>1, <2>2, <2>3
<1>3. s2 = Filled(kv)[Max(L)]
  BY <1>2, OutputSize
<1>4. PICK c \in Nat : c = Begun(kv, K)
  BY ONLY Fit(kv), IsNext(kv, K, k), Counting
<1>5. PICK e \in Nat : e = (IF k \in O THEN c + 1 ELSE c) /\ Begun(kv, L) = e /\ Count(kv, k) = e
  <2>1. /\ Begun(kv, L) = IF k \in O THEN Begun(kv, K) + 1 ELSE Begun(kv, K)
        /\ Count(kv, k) = Begun(kv, L)
    BY ONLY Fit(kv), IsNext(kv, K, k), L = K \cup {k}, Counting
  <2> QED
    BY ONLY <1>4, <2>1
<1>6. /\ \A j \in K : Count(kv, j) \in Nat /\ Count(kv, j) <= c
      /\ \A d \in DOMAIN kv \ K : Count(kv, d) \in Nat /\ Count(kv, d) >= e
  BY ONLY Fit(kv), IsNext(kv, K, k), L = K \cup {k}, <1>4, <1>5, Counting
<1>7. k \in O <=> K = {} \/ over
  BY OutputSize
<1>8. InOrder(kv, {k}) = <<pair>>
  <2>1. {} \in SUBSET Nat /\ IsFiniteSet({}) /\ \A j \in {} : j < k
    BY FS_EmptySet
  <2>2. Append(InOrder(kv, {}), pair) = InOrder(kv, {} \cup {k})
    BY <1>1, <2>1, RowGrows
  <2>3. {} \cup {k} = {k} /\ Append(<<>>, pair) = <<pair>>
    OBVIOUS
  <2> QED
    BY <2>2, <2>3, RowOfNone
<1>9. CASE K = {}
  <2>1. ~over /\ e = 1 /\ w = <<>> /\ t = <<>> /\ L = {k}
    <3>1. ~over /\ w = <<>> /\ t = <<>> /\ L = {k}
      BY <1>9, OutputSize DEF IsOutput
    <3>2. c = 0
      <4>1. O \cap K = {}
        BY <1>9
      <4> QED
        BY <1>4, <4>1, FS_EmptySet DEF Begun
    <3> QED
      BY <1>5, <1>7, <1>9, <3>1, <3>2
  <2>2. w2 = <<>> /\ t2 = <<pair>>
    BY <2>1
  <2>3. Part(kv, 1) \cap L = {k}
    BY <1>1, <1>5, <2>1 DEF Part
  <2>4. t2 = InOrder(kv, Part(kv, 1) \cap L) /\ t2 # <<>>
    <3>1. Len(<<pair>>) = 1 /\ Len(<<>>) = 0
      OBVIOUS
    <3>2. <<pair>> # <<>>
      BY ONLY <3>1
    <3> QED
      BY ONLY <1>8, <2>2, <2>3, <3>2
  <2>5. w2 = [n \in 1 .. (1 - 1) |-> InOrder(kv, Part(kv, n))] /\ \A n \in 1 .. (1 - 1) : w2[n] # <<>>
    BY <2>2
  <2>6. 1 = Begun(kv, L)
    BY <1>5, <2>1
  <2>7. 1 \in Nat \ {0}
    OBVIOUS
  <2> QED
    BY <1>1, <1>3, <2>4, <2>5, <2>6, <2>7 DEF IsOutput
<1>10. CASE K # {}
  <2>1. /\ c # 0
        /\ w = [n \in 1 .. (c - 1) |-> InOrder(kv, Part(kv, n))]
        /\ t = InOrder(kv, Part(kv, c) \cap K)
        /\ \A n \in 1 .. (c - 1) : w[n] # <<>>
        /\ t # <<>>
    BY <1>4, <1>10 DEF IsOutput
  <2>2. CASE over
    <3>1. e = c + 1
      BY <1>5, <1>7, <2>2
    <3>2. Part(kv, c) \cap K = Part(kv, c)
      <4> SUFFICES ASSUME NEW d \in DOMAIN kv \ K, Count(kv, d) = c PROVE FALSE
        BY DEF Part
      <4> QED
        BY <1>6, <3>1
    <3>3. Part(kv, e) \cap L = {k}
      <4>1. \A j \in K : Count(kv, j) # e
        <5> TAKE j \in K
        <5>1. Count(kv, j) \in Nat /\ Count(kv, j) <= c
          BY <1>6
        <5> QED
          BY <3>1, <5>1
      <4> QED
        BY <1>1, <1>5, <4>1 DEF Part
    <3>4. t2 = InOrder(kv, Part(kv, e) \cap L) /\ t2 # <<>>
      BY <1>8, <2>2, <3>3
    <3>5. PICK m \in Nat : m = c - 1 /\ e - 1 = m + 1 /\ c = m + 1
      BY <2>1, <3>1
    <3>6. /\ w2 = [n \in 1 .. m + 1 |-> IF n = m + 1 THEN t ELSE w[n]]
          /\ \A n \in 1 .. m + 1 : n = m + 1 \/ n \in 1 .. m
      <4>1. w = [n \in 1 .. m |-> w[n]]
        BY <2>1, <3>5
      <4>2. w2 = Append(w, t)
        BY <2>2
      <4>3. Append(w, t) = [n \in 1 .. m + 1 |-> IF n = m + 1 THEN t ELSE w[n]]
        BY ONLY <4>1, m \in Nat, Appended
      <4> QED
        BY <4>2, <4>3
    <3>7. \A n \in 1 .. m + 1 : (IF n = m + 1 THEN t ELSE w[n]) = InOrder(kv, Part(kv, n))
      BY <2>1, <3>2, <3>5, <3>6
    <3>8. w2 = [n \in 1 .. (e - 1) |-> InOrder(kv, Part(kv, n))] /\ \A n \in 1 .. (e - 1) : w2[n] # <<>>
      BY <2>1, <3>5, <3>6, <3>7
    <3>9. e \in Nat \ {0}
      BY <3>1
    <3> QED
      BY <1>1, <1>3, <1>5, <3>4, <3>8, <3>9 DEF IsOutput
  <2>3. CASE ~over
    <3>1. e = c
      BY <1>5, <1>7, <1>10, <2>3
    <3>2. Part(kv, e) \cap L = (Part(kv, c) \cap K) \cup {k}
      BY <1>1, <1>5, <3>1 DEF Part
    <3>3. PICK P : P = Part(kv, c) \cap K
      OBVIOUS
    <3>4. P \in SUBSET Nat /\ IsFiniteSet(P) /\ \A j \in P : j < k
      BY <1>1, <3>3, FS_Subset
    <3>5. Append(InOrder(kv, P), pair) = InOrder(kv, P \cup {k})
      BY <1>1, <3>4, RowGrows
    <3>6. t2 = InOrder(kv, Part(kv, e) \cap L)
      BY <2>1, <2>3, <3>2, <3>3, <3>5
    <3>7. t2 # <<>>
      <4>1. IsRow(InOrder(kv, P), kv, P)
        BY <3>4, Ordering
      <4>2. t = [n \in 1 .. Len(t) |-> t[n]] /\ Len(t) \in Nat
        BY <2>1, <3>3, <4>1 DEF IsRow
      <4>3. Len(Append(t, pair)) = Len(t) + 1
        BY <4>2, Appended
      <4>4. Len(t2) = Len(t) + 1
        BY <2>3, <4>3
      <4> QED
        BY <4>2, <4>4
    <3>8. w2 = w /\ e \in Nat \ {0}
      BY <2>1, <2>3, <3>1
    <3> QED
      BY <1>1, <1>3, <1>5, <2>1, <3>1, <3>6, <3>7, <3>8 DEF IsOutput
  <2> QED
    BY <2>2, <2>3
<1> QED
  BY <1>9, <1>10

(* Once it is through all keys, it has written the parts of Split.         *)
LEMMA OutputEnds ==
  ASSUME NEW kv, Fit(kv), NEW w, NEW t, NEW s, IsOutput(kv, DOMAIN kv, w, t, s),
         NEW all, all = IF t = <<>> THEN w ELSE Append(w, t)
  PROVE  /\ all = [n \in DOMAIN Split(kv) |-> InOrder(kv, Split(kv)[n])]
         /\ \A n \in DOMAIN all : all[n] # <<>>
<1>1. PICK N : N = Cardinality(Opens(kv)) /\ Split(kv) = [n \in 1 .. N |-> Part(kv, n)]
  BY DEF Split, Part, Count
<1>2. Opens(kv) \in SUBSET DOMAIN kv
  BY DEF Opens, Opening, Weights
<1>3. CASE DOMAIN kv = {}
  <2>1. N = 0 /\ all = <<>>
    BY <1>1, <1>2, <1>3, FS_EmptySet DEF IsOutput
  <2> QED
    BY <1>1, <2>1
<1>4. CASE DOMAIN kv # {}
  <2>1. Begun(kv, DOMAIN kv) = N
    <3>1. Opens(kv) \cap DOMAIN kv = Opens(kv)
      BY <1>2
    <3> QED
      BY <1>1, <3>1 DEF Begun
  <2>2. /\ N \in Nat \ {0}
        /\ w = [n \in 1 .. (N - 1) |-> InOrder(kv, Part(kv, n))]
        /\ t = InOrder(kv, Part(kv, N) \cap DOMAIN kv)
        /\ \A n \in 1 .. (N - 1) : w[n] # <<>>
        /\ t # <<>>
    BY <1>1, <1>4, <2>1 DEF IsOutput
  <2>3. t = InOrder(kv, Part(kv, N)) /\ all = Append(w, t)
    <3>1. Part(kv, N) \cap DOMAIN kv = Part(kv, N)
      BY DEF Part
    <3> QED
      BY <2>2, <3>1
  <2>4. PICK m \in Nat : m = N - 1 /\ N = m + 1
    BY <2>2
  <2>5. all = [n \in 1 .. m + 1 |-> IF n = m + 1 THEN t ELSE w[n]]
    <3>1. w = [n \in 1 .. m |-> w[n]]
      BY <2>2, <2>4
    <3>2. Append(w, t) = [n \in 1 .. m + 1 |-> IF n = m + 1 THEN t ELSE w[n]]
      BY ONLY <3>1, m \in Nat, Appended
    <3> QED
      BY <2>3, <3>2
  <2>6. \A n \in 1 .. m + 1 : n = m + 1 \/ n \in 1 .. m
    OBVIOUS
  <2>7. \A n \in 1 .. m + 1 : (IF n = m + 1 THEN t ELSE w[n]) = InOrder(kv, Part(kv, n))
    BY <2>2, <2>3, <2>4, <2>6
  <2>8. \A n \in 1 .. m + 1 : (IF n = m + 1 THEN t ELSE w[n]) # <<>>
    BY <2>2, <2>4, <2>6
  <2>9. \A n \in 1 .. N : Split(kv)[n] = Part(kv, n)
    BY <1>1
  <2> QED
    BY <1>1, <2>4, <2>5, <2>7, <2>8, <2>9
<1> QED
  BY <1>3, <1>4

-----------------------------------------------------------------------------
(***************************************************************************)
(* The inductive invariant of the merge.                                   *)
(***************************************************************************)
All == input.moved \cup input.old
Row(t) == InOrder(t.kv, DOMAIN t.kv)

MergeType ==
  /\ input \in Inputs /\ lastLevel \in BOOLEAN /\ unread \in SUBSET All
  /\ pairs \in Seq({Row(t) : t \in All}) /\ iter \in Seq(Nat) /\ Len(iter) = Len(pairs)
  /\ minKey \in [DOMAIN minKey -> Tables] /\ DOMAIN minKey \in SUBSET Nat
  /\ pc \in {"read", "heads", "merge", "update", "done"}
  /\ pc = "read" <=> unread # {}
  /\ pc \in {"heads", "update"} => index \in Tables

(* The tables in the order in which they were read: f[i] is the i-th.      *)
IsOrder(f) ==
  /\ f \in [Tables -> All \ unread]
  /\ \A t \in All \ unread : \E i \in Tables : f[i] = t
  /\ \A i \in Tables : pairs[i] = Row(f[i])
  /\ \A i, j \in Tables : i < j => f[i] # f[j] /\ ~Older(f[j], f[i])
  /\ \A i \in Tables, u \in unread : ~Older(u, f[i])

Key(i, n) == pairs[i][n][1]
KeysOf(i) == {Key(i, n) : n \in DOMAIN pairs[i]}

(* No later table has the n-th key of table i.                             *)
Newest(i, n) == \A j \in Tables : i < j => Key(i, n) \notin KeysOf(j)

(* The keys still to be written, and those that have been.                 *)
IsPending(i, n) == iter[i] # 0 /\ iter[i] <= n
Remaining == UNION {{Key(i, n) : n \in {m \in DOMAIN pairs[i] : IsPending(i, m)}} : i \in Tables}
Emitted == (UNION {KeysOf(i) : i \in Tables}) \ Remaining

Iterators ==
  /\ \A i \in Tables : iter[i] \in 0 .. Len(pairs[i]) + 1
  /\ pc = "read" => \A i \in Tables : iter[i] = 0
  /\ pc = "read" => DOMAIN minKey = {}
  /\ pc = "heads" => \A i \in Tables : i <= index => iter[i] = 0
  /\ pc = "update" => iter[index] # 0 /\ \A k \in DOMAIN minKey : minKey[k] # index

Entries ==
  \A k \in DOMAIN minKey : iter[minKey[k]] # 0 /\ ~AtEnd(minKey[k]) /\ KeyAt(minKey[k]) = k

Tracked ==
  \A i \in Tables : iter[i] # 0 /\ ~AtEnd(i) /\ (pc = "update" => i # index) =>
    KeyAt(i) \in DOMAIN minKey /\ minKey[KeyAt(i)] = i

(* The newest pair of a key that is still to be written is still ahead of  *)
(* its table's iterator.                                                   *)
NewestPending ==
  /\ pc = "heads" => \A i \in Tables : \A n \in DOMAIN pairs[i] :
                       index < i /\ Newest(i, n) => IsPending(i, n)
  /\ pc \in {"merge", "update"} => \A i \in Tables : \A n \in DOMAIN pairs[i] :
                       Newest(i, n) /\ Key(i, n) \in Remaining => IsPending(i, n)

EmittedBelow ==
  pc \in {"merge", "update"} => \A d \in Emitted, r \in Remaining : d < r

(* The newest pair of every key, and what is kept of them.                 *)
Top(k) == Max({i \in Tables : k \in KeysOf(i)})
Merged == [k \in UNION {KeysOf(i) : i \in Tables} |->
             pairs[Top(k)][CHOOSE n \in DOMAIN pairs[Top(k)] : Key(Top(k), n) = k][2]]
Kept == IF lastLevel THEN DropDeleted(Merged) ELSE Merged

Output ==
  /\ pc \in {"read", "heads"} => written = <<>> /\ newTable = <<>> /\ size = InitialSize
  /\ pc \in {"merge", "update"} => IsOutput(Kept, Emitted \cap DOMAIN Kept, written, newTable, size)
  /\ pc = "done" => /\ written = [n \in DOMAIN Split(Kept) |-> InOrder(Kept, Split(Kept)[n])]
                    /\ \A n \in DOMAIN written : written[n] # <<>>

MergeInv ==
  /\ MergeType /\ (\E f : IsOrder(f)) /\ Iterators /\ Entries /\ Tracked
  /\ NewestPending /\ EmittedBelow /\ Output

-----------------------------------------------------------------------------
(* The tables a compaction is given.                                       *)
LEMMA TableFacts ==
  ASSUME input \in Inputs
  PROVE  /\ All # {} /\ IsFiniteSet(All)
         /\ \A t \in All : /\ t.ts \in Nat /\ t.lo \in Nat
                           /\ IsRow(Row(t), t.kv, DOMAIN t.kv) /\ DOMAIN t.kv \in SUBSET Nat
                           /\ \A k \in DOMAIN t.kv : /\ Bytes(t.kv[k]) \in Nat
                                                     /\ InitialSize + Bytes(t.kv[k]) <= TableSize
         /\ TableSize \in Nat /\ InitialSize \in Nat
<1>1. TableSize \in Nat /\ InitialSize \in Nat /\ PairSize \in Nat
  BY MergeAssumption
<1>2. /\ IsFiniteSet(All) /\ All # {}
      /\ \A t \in All : /\ t.ts \in Nat /\ t.lo \in Nat
                        /\ IsFiniteSet(DOMAIN t.kv) /\ DOMAIN t.kv \subseteq Nat
                        /\ \A k \in DOMAIN t.kv :
                             Size[t.kv[k]] \in Nat /\ InitialSize + PairSize + Size[t.kv[k]] <= TableSize
  BY MergeAssumption DEF All
<1>3. ASSUME NEW t \in All
      PROVE  IsRow(Row(t), t.kv, DOMAIN t.kv) /\ DOMAIN t.kv \in SUBSET Nat
  BY <1>2, Ordering DEF Row
<1>4. ASSUME NEW t \in All, NEW k \in DOMAIN t.kv
      PROVE  Bytes(t.kv[k]) \in Nat /\ InitialSize + Bytes(t.kv[k]) <= TableSize
  <2>1. PICK b \in Nat : b = Size[t.kv[k]] /\ InitialSize + PairSize + b <= TableSize
    BY <1>2
  <2>2. PairSize + b \in Nat /\ InitialSize + (PairSize + b) <= TableSize
    BY <1>1, <2>1
  <2> QED
    BY <2>1, <2>2 DEF Bytes
<1> QED
  BY <1>1, <1>2, <1>3, <1>4

(* The pairs read of table i, in the order of their keys.                  *)
Columns ==
  /\ Len(pairs) \in Nat /\ Tables = 1 .. Len(pairs) /\ iter \in [Tables -> Nat] /\ IsFiniteSet(Tables)
  /\ \A i \in Tables :
       /\ Len(pairs[i]) \in Nat /\ DOMAIN pairs[i] = 1 .. Len(pairs[i])
       /\ \A n \in DOMAIN pairs[i] : Key(i, n) \in Nat
       /\ \A m, n \in DOMAIN pairs[i] : m < n => Key(i, m) < Key(i, n)

LEMMA HasColumns == MergeType => Columns
<1> SUFFICES ASSUME MergeType PROVE Columns
  OBVIOUS
<1>1. Len(pairs) \in Nat /\ Tables = 1 .. Len(pairs) /\ iter \in [Tables -> Nat] /\ input \in Inputs
      /\ \A i \in Tables : pairs[i] \in {Row(t) : t \in All}
  BY DEF MergeType, Tables
<1>2. IsFiniteSet(1 .. Len(pairs))
  <2>1. 1 \in Int /\ Len(pairs) \in Int
    BY <1>1
  <2> QED
    BY <2>1, FS_Interval
<1>3. ASSUME NEW i \in Tables
      PROVE  /\ Len(pairs[i]) \in Nat /\ DOMAIN pairs[i] = 1 .. Len(pairs[i])
             /\ \A n \in DOMAIN pairs[i] : Key(i, n) \in Nat
             /\ \A m, n \in DOMAIN pairs[i] : m < n => Key(i, m) < Key(i, n)
  <2>1. PICK t \in All : pairs[i] = Row(t)
    BY <1>1
  <2>2. PICK row : row = pairs[i] /\ IsRow(row, t.kv, DOMAIN t.kv) /\ DOMAIN t.kv \in SUBSET Nat
    BY <1>1, <2>1, TableFacts
  <2>3. \A n \in DOMAIN row : row[n][1] \in Nat
    BY <2>2 DEF IsRow
  <2> QED
    BY <2>2, <2>3 DEF IsRow, Key
<1> QED
  BY <1>1, <1>2, <1>3 DEF Columns

LEMMA InitMerge == Init => MergeInv
<1> SUFFICES ASSUME Init PROVE MergeInv
  OBVIOUS
<1>1. input \in Inputs /\ All # {} /\ unread = All /\ pairs = <<>> /\ iter = <<>> /\ Tables = {}
      /\ DOMAIN minKey = {} /\ pc = "read" /\ written = <<>> /\ newTable = <<>> /\ size = InitialSize
  BY TableFacts DEF Init, All, Tables
<1>2. MergeType
  <2>1. minKey \in [DOMAIN minKey -> Tables]
    BY DEF Init, Tables
  <2>2. lastLevel \in BOOLEAN /\ pairs \in Seq({Row(t) : t \in All}) /\ iter \in Seq(Nat) /\ Len(iter) = Len(pairs)
    BY <1>1 DEF Init
  <2> QED
    BY <1>1, <2>1, <2>2 DEF MergeType
<1>3. \E f : IsOrder(f)
  <2>1. IsOrder([i \in Tables |-> i])
    BY <1>1 DEF IsOrder
  <2> QED
    BY <2>1
<1>4. Iterators /\ Entries /\ Tracked /\ NewestPending /\ EmittedBelow /\ Output
  BY <1>1 DEF Iterators, Entries, Tracked, NewestPending, EmittedBelow, Output
<1> QED
  BY <1>2, <1>3, <1>4 DEF MergeInv

LEMMA ReadMerge ==
  ASSUME MergeInv, Read
  PROVE  MergeInv'
<1>1. MergeType /\ Iterators /\ Output /\ pc = "read" /\ input' = input /\ All' = All
  BY DEF MergeInv, Read, All
<1>2. PICK t \in unread : /\ \A u \in unread : ~Older(u, t)
                          /\ unread' = unread \ {t} /\ pairs' = Append(pairs, Row(t))
  BY DEF Read, Row
<1>3. PICK N \in Nat : N = Len(pairs) /\ Tables = 1 .. N /\ Len(iter) = N
  BY <1>1, HasColumns DEF MergeType, Columns
<1>4. pairs \in Seq({Row(u) : u \in All}) /\ iter \in Seq(Nat) /\ t \in All /\ unread \in SUBSET All
  BY <1>1, <1>2 DEF MergeType
<1>5. /\ pairs' \in Seq({Row(u) : u \in All}) /\ Len(pairs') = N + 1 /\ Tables' = 1 .. N + 1
      /\ pairs'[N + 1] = Row(t) /\ \A i \in 1 .. N : pairs'[i] = pairs[i]
  <2>1. Row(t) \in {Row(u) : u \in All}
    BY <1>4
  <2>2. PICK R : R = {Row(u) : u \in All}
    OBVIOUS
  <2>3. PICK r \in R : r = Row(t)
    BY <2>1, <2>2
  <2>4. pairs \in Seq(R) /\ pairs' = Append(pairs, r)
    BY <1>2, <1>4, <2>2, <2>3
  <2>5. pairs' \in Seq(R) /\ Len(pairs') = N + 1 /\ pairs'[N + 1] = r /\ \A i \in 1 .. N : pairs'[i] = pairs[i]
    BY <1>3, <2>4, AppendProperties
  <2>6. DOMAIN pairs' = 1 .. N + 1
    BY <2>5
  <2> QED
    BY <2>2, <2>3, <2>5, <2>6 DEF Tables
<1>6. /\ iter' \in Seq(Nat) /\ Len(iter') = N + 1 /\ iter'[N + 1] = 0 /\ \A i \in 1 .. N : iter'[i] = iter[i]
  <2>1. iter' = Append(iter, 0)
    BY DEF Read
  <2> QED
    BY <1>3, <1>4, <2>1, AppendProperties
<1>7. \A i \in 1 .. N + 1 : iter'[i] = 0
  <2>1. \A i \in 1 .. N : iter[i] = 0
    BY <1>1, <1>3 DEF Iterators
  <2>2. \A i \in 1 .. N + 1 : i \in 1 .. N \/ i = N + 1
    OBVIOUS
  <2> QED
    BY <1>6, <2>1, <2>2
<1>8. /\ pc' = IF unread' = {} THEN "heads" ELSE "read"
      /\ index' = IF unread' = {} THEN N + 1 ELSE 0
      /\ UNCHANGED <<input, lastLevel, minKey, newTable, size, written>>
  BY <1>5 DEF Read
<1>9. DOMAIN minKey' = {} /\ minKey' = minKey
  BY <1>1, <1>8 DEF Iterators
<1>10. MergeType'
  <2>1. lastLevel' \in BOOLEAN /\ input' \in Inputs /\ unread' \in SUBSET All
    BY <1>1, <1>2, <1>4, <1>8 DEF MergeType
  <2>2. minKey' \in [DOMAIN minKey' -> Tables']
    <3>1. minKey \in [DOMAIN minKey -> Tables]
      BY <1>1 DEF MergeType
    <3> QED
      BY <1>9, <3>1
  <2>3. {Row(u) : u \in All}' = {Row(u) : u \in All}
    BY <1>1 DEF Row
  <2>4. N + 1 \in Tables'
    BY <1>5
  <2> QED
    BY <1>1, <1>5, <1>6, <1>8, <1>9, <2>1, <2>2, <2>3, <2>4 DEF MergeType
<1>11. (\E f : IsOrder(f))'
  <2>1. PICK f : IsOrder(f)
    BY DEF MergeInv
  <2> DEFINE g == [i \in 1 .. N + 1 |-> IF i = N + 1 THEN t ELSE f[i]]
  <2>2. /\ \A i \in 1 .. N : g[i] = f[i] /\ i \in 1 .. N + 1 /\ i # N + 1
        /\ g[N + 1] = t /\ N + 1 \in 1 .. N + 1
        /\ \A i \in 1 .. N + 1 : i \in 1 .. N \/ i = N + 1
    OBVIOUS
  <2>3. f \in [1 .. N -> All \ unread]
    BY <1>3, <2>1 DEF IsOrder
  <2>4. g \in [Tables' -> All' \ unread']
    BY <1>1, <1>2, <1>4, <1>5, <2>3
  <2> HIDE DEF g
  <2>5. \A u \in All' \ unread' : \E i \in Tables' : g[i] = u
    <3> SUFFICES ASSUME NEW u \in All, u \notin unread \ {t} PROVE \E i \in 1 .. N + 1 : g[i] = u
      BY <1>1, <1>2, <1>5
    <3>1. u # t => \E i \in 1 .. N : f[i] = u
      BY <1>3, <2>1 DEF IsOrder
    <3> QED
      BY <2>2, <3>1
  <2>6. \A i \in Tables' : pairs'[i] = Row(g[i])'
    <3> SUFFICES ASSUME NEW i \in 1 .. N + 1 PROVE pairs'[i] = Row(g[i])
      BY <1>5 DEF Row
    <3>1. CASE i \in 1 .. N
      BY <1>3, <1>5, <2>1, <2>2, <3>1 DEF IsOrder
    <3> QED
      BY <1>5, <2>2, <3>1
  <2>7. \A i \in 1 .. N : f[i] # t /\ ~Older(t, f[i])
    BY <1>2, <1>3, <2>1, <2>3 DEF IsOrder
  <2>8. \A i, j \in Tables' : i < j => g[i] # g[j] /\ ~Older(g[j], g[i])
    <3> SUFFICES ASSUME NEW i \in 1 .. N + 1, NEW j \in 1 .. N + 1, i < j PROVE g[i] # g[j] /\ ~Older(g[j], g[i])
      BY <1>5
    <3>1. i \in 1 .. N
      OBVIOUS
    <3>2. CASE j \in 1 .. N
      BY <1>3, <2>1, <2>2, <3>1, <3>2 DEF IsOrder
    <3>3. CASE j = N + 1
      BY <2>2, <2>7, <3>1, <3>3
    <3> QED
      BY <2>2, <3>2, <3>3
  <2>9. \A i \in Tables', u \in unread' : ~Older(u, g[i])
    <3> SUFFICES ASSUME NEW i \in 1 .. N + 1, NEW u \in unread PROVE ~Older(u, g[i])
      BY <1>2, <1>5
    <3>1. CASE i \in 1 .. N
      BY <1>3, <2>1, <2>2, <3>1 DEF IsOrder
    <3> QED
      BY <1>2, <2>2, <3>1
  <2>10. \A u, v : Older(u, v)' <=> Older(u, v)
    BY DEF Older
  <2> QED
    BY <2>4, <2>5, <2>6, <2>8, <2>9, <2>10 DEF IsOrder
<1>12. Iterators'
  <2>1. \A i \in Tables' : Len(pairs'[i]) \in Nat
    <3>1. Columns'
      BY <1>10, HasColumns, PTL
    <3> QED
      BY <3>1 DEF Columns
  <2> QED
    BY <1>5, <1>7, <1>8, <1>9, <2>1 DEF Iterators
<1>13. Entries' /\ Tracked'
  BY <1>5, <1>7, <1>9 DEF Entries, Tracked
<1>14. NewestPending'
  <2>1. pc' = "heads" => \A i \in Tables' : ~(index' < i)
    BY <1>5, <1>8
  <2> QED
    BY <1>8, <2>1 DEF NewestPending
<1>15. EmittedBelow' /\ Output'
  BY <1>1, <1>8 DEF EmittedBelow, Output
<1> QED
  BY <1>10, <1>11, <1>12, <1>13, <1>14, <1>15 DEF MergeInv

-----------------------------------------------------------------------------
(* The steps after the tables have been read.                              *)
Settled == UNCHANGED <<input, lastLevel, unread, pairs>>

LEMMA Settle ==
  ASSUME Settled
  PROVE  /\ All' = All /\ Tables' = Tables /\ input' = input /\ pairs' = pairs /\ unread' = unread
         /\ \A i, n : Key(i, n)' = Key(i, n) /\ (Newest(i, n)' <=> Newest(i, n))
         /\ \A i : KeysOf(i)' = KeysOf(i)
         /\ Merged' = Merged /\ Kept' = Kept /\ {Row(t) : t \in All}' = {Row(t) : t \in All}
         /\ (\E f : IsOrder(f)) => (\E f : IsOrder(f))'
<1>1. All' = All /\ Tables' = Tables /\ pairs' = pairs /\ unread' = unread /\ lastLevel' = lastLevel /\ input' = input
  BY DEF Settled, All, Tables
<1>2. \A i, n : Key(i, n)' = Key(i, n)
  BY <1>1 DEF Key
<1>3. \A i : KeysOf(i)' = KeysOf(i)
  BY <1>1, <1>2 DEF KeysOf
<1>4. \A i, n : Newest(i, n)' <=> Newest(i, n)
  BY <1>1, <1>2, <1>3 DEF Newest
<1>5. Merged' = Merged
  BY <1>1 DEF Merged, Top, KeysOf, Key
<1>6. Kept' = Kept
  BY <1>1, <1>5 DEF Kept
<1>7. {Row(t) : t \in All}' = {Row(t) : t \in All}
  BY <1>1 DEF Row
<1>8. (\E f : IsOrder(f)) => (\E f : IsOrder(f))'
  BY <1>1 DEF IsOrder, Row, Older
<1> QED
  BY <1>1, <1>2, <1>3, <1>4, <1>5, <1>6, <1>7, <1>8

(* The types of what such a step changes.                                  *)
LEMMA SettledType ==
  ASSUME MergeType, Settled, iter' \in [Tables -> Nat],
         \A k \in DOMAIN minKey' : k \in Nat /\ minKey'[k] \in Tables,
         minKey' = [k \in DOMAIN minKey' |-> minKey'[k]],
         pc' \in {"heads", "merge", "update", "done"}, pc # "read",
         pc' \in {"heads", "update"} => index' \in Tables
  PROVE  MergeType'
<1>1. Len(pairs) \in Nat /\ Tables = 1 .. Len(pairs)
  BY HasColumns DEF Columns
<1>2. iter' \in Seq(Nat) /\ Len(iter') = Len(pairs)
  BY <1>1
<1>3. minKey' \in [DOMAIN minKey' -> Tables] /\ DOMAIN minKey' \in SUBSET Nat
  OBVIOUS
<1>4. pairs' = pairs /\ unread' = unread /\ input' = input /\ lastLevel' = lastLevel
  BY DEF Settled
<1> QED
  BY <1>2, <1>3, <1>4, Settle DEF MergeType

(* Where an iterator stands.                                               *)
LEMMA HeadPosition ==
  ASSUME MergeType, Iterators, NEW i \in Tables
  PROVE  /\ iter[i] # 0 /\ ~AtEnd(i) =>
              /\ iter[i] \in DOMAIN pairs[i] /\ KeyAt(i) = Key(i, iter[i]) /\ KeyAt(i) \in Nat
              /\ IsPending(i, iter[i])
              /\ \A n \in DOMAIN pairs[i] : IsPending(i, n) => n = iter[i] \/ KeyAt(i) < Key(i, n)
         /\ \A n \in DOMAIN pairs[i] : IsPending(i, n) => iter[i] # 0 /\ ~AtEnd(i)
<1>1. /\ Len(pairs[i]) \in Nat /\ DOMAIN pairs[i] = 1 .. Len(pairs[i]) /\ iter[i] \in 0 .. Len(pairs[i]) + 1
      /\ \A n \in DOMAIN pairs[i] : Key(i, n) \in Nat
      /\ \A m, n \in DOMAIN pairs[i] : m < n => Key(i, m) < Key(i, n)
  BY HasColumns DEF Columns, Iterators
<1>2. \A n \in DOMAIN pairs[i] : IsPending(i, n) => iter[i] # 0 /\ ~AtEnd(i)
  BY <1>1 DEF IsPending, AtEnd
<1>3. ASSUME iter[i] # 0, ~AtEnd(i)
      PROVE  iter[i] \in DOMAIN pairs[i] /\ KeyAt(i) = Key(i, iter[i]) /\ IsPending(i, iter[i])
  BY <1>1, <1>3 DEF AtEnd, KeyAt, Key, IsPending
<1>4. ASSUME iter[i] # 0, ~AtEnd(i), NEW n \in DOMAIN pairs[i], IsPending(i, n)
      PROVE  n = iter[i] \/ Key(i, iter[i]) < Key(i, n)
  <2>1. n = iter[i] \/ iter[i] < n
    BY <1>1, <1>4 DEF IsPending
  <2> QED
    BY <1>1, <1>3, <1>4, <2>1
<1> QED
  BY <1>1, <1>2, <1>3, <1>4

(* A table goes on to its next pair.                                       *)
LEMMA Advance ==
  ASSUME MergeType, Iterators, NEW i \in Tables, iter[i] # 0, ~AtEnd(i), iter' = [iter EXCEPT ![i] = @ + 1]
  PROVE  /\ iter' \in [Tables -> Nat] /\ iter'[i] \in 1 .. Len(pairs[i]) + 1
         /\ \A j \in Tables : j # i => iter'[j] = iter[j]
         /\ \A j \in Tables : \A n \in DOMAIN pairs[j] :
              IsPending(j, n)' <=> IsPending(j, n) /\ ~(j = i /\ n = iter[i])
<1>1. /\ iter \in [Tables -> Nat] /\ \A j \in Tables : DOMAIN pairs[j] = 1 .. Len(pairs[j]) /\ Len(pairs[j]) \in Nat
      /\ iter[i] \in 0 .. Len(pairs[i]) + 1
  BY HasColumns DEF Columns, Iterators
<1>2. iter'[i] = iter[i] + 1 /\ \A j \in Tables : j # i => iter'[j] = iter[j]
  BY <1>1
<1>3. iter' \in [Tables -> Nat] /\ iter'[i] \in 1 .. Len(pairs[i]) + 1
  BY <1>1, <1>2 DEF AtEnd
<1>4. ASSUME NEW j \in Tables, NEW n \in DOMAIN pairs[j]
      PROVE  IsPending(j, n)' <=> IsPending(j, n) /\ ~(j = i /\ n = iter[i])
  <2>1. CASE j = i
    <3>1. n \in Nat /\ iter[i] \in Nat
      BY <1>1, <1>4
    <3> QED
      BY <1>2, <2>1, <3>1 DEF IsPending
  <2>2. CASE j # i
    BY <1>2, <2>2 DEF IsPending
  <2> QED
    BY <2>1, <2>2
<1> QED
  BY <1>2, <1>3, <1>4

LEMMA InRemaining ==
  \A r : r \in Remaining <=> \E i \in Tables : \E n \in DOMAIN pairs[i] : IsPending(i, n) /\ Key(i, n) = r
BY DEF Remaining

LEMMA InRemainingNext ==
  ASSUME Settled
  PROVE  \A r : r \in Remaining' <=>
           \E i \in Tables : \E n \in DOMAIN pairs[i] : IsPending(i, n)' /\ Key(i, n) = r
<1>1. Tables' = Tables /\ pairs' = pairs /\ \A i, n : Key(i, n)' = Key(i, n)
  BY Settle
<1>2. \A r : r \in Remaining' <=> \E i \in Tables' : \E n \in DOMAIN pairs'[i] : IsPending(i, n)' /\ Key(i, n)' = r
  BY DEF Remaining
<1> QED
  BY <1>1, <1>2

LEMMA InEmitted ==
  \A d : d \in Emitted <=> d \notin Remaining /\ \E i \in Tables : d \in KeysOf(i)
BY DEF Emitted

LEMMA InEmittedNext ==
  ASSUME Settled
  PROVE  \A d : d \in Emitted' <=> d \notin Remaining' /\ \E i \in Tables : d \in KeysOf(i)
<1>1. Emitted' = (UNION {KeysOf(i) : i \in Tables}) \ Remaining'
  <2>1. Tables' = Tables /\ \A i : KeysOf(i)' = KeysOf(i)
    BY Settle
  <2> QED
    BY <2>1 DEF Emitted
<1> QED
  BY <1>1

-----------------------------------------------------------------------------
(* A step that neither writes nor loses a key.                             *)
LEMMA QuietStep ==
  ASSUME MergeInv, Settled, pc \in {"merge", "update"}, pc' \in {"merge", "update"},
         UNCHANGED <<newTable, size, written>>, Remaining' = Remaining,
         \A i \in Tables : \A n \in DOMAIN pairs[i] : Newest(i, n) /\ IsPending(i, n) => IsPending(i, n)'
  PROVE  NewestPending' /\ EmittedBelow' /\ Output'
<1>1. /\ Tables' = Tables /\ pairs' = pairs /\ Kept' = Kept
      /\ \A i, n : Key(i, n)' = Key(i, n) /\ (Newest(i, n)' <=> Newest(i, n))
      /\ \A i : KeysOf(i)' = KeysOf(i)
  BY Settle
<1>2. Emitted' = Emitted
  BY <1>1 DEF Emitted
<1>3. NewestPending'
  <2>1. \A i \in Tables : \A n \in DOMAIN pairs[i] : Newest(i, n) /\ Key(i, n) \in Remaining => IsPending(i, n)
    BY DEF MergeInv, NewestPending
  <2> QED
    BY <1>1, <2>1 DEF NewestPending
<1>4. EmittedBelow'
  BY <1>2 DEF MergeInv, EmittedBelow
<1>5. Output'
  BY <1>1, <1>2 DEF MergeInv, Output
<1> QED
  BY <1>3, <1>4, <1>5

LEMMA SameIterators ==
  ASSUME Settled, iter' = iter
  PROVE  /\ Remaining' = Remaining
         /\ \A i : AtEnd(i)' <=> AtEnd(i)
         /\ \A i : KeyAt(i)' = KeyAt(i)
         /\ \A i, n : IsPending(i, n)' <=> IsPending(i, n)
<1>1. pairs' = pairs /\ Tables' = Tables
  BY Settle
<1>2. \A i, n : IsPending(i, n)' <=> IsPending(i, n)
  BY DEF IsPending
<1>3. Remaining' = Remaining
  <2>1. \A r : r \in Remaining' <=> r \in Remaining
    BY <1>2, InRemaining, InRemainingNext
  <2>2. Remaining = UNION {{Key(i, n) : n \in {m \in DOMAIN pairs[i] : IsPending(i, m)}} : i \in Tables}
        /\ Remaining' = (UNION {{Key(i, n) : n \in {m \in DOMAIN pairs[i] : IsPending(i, m)}} : i \in Tables})'
    BY DEF Remaining
  <2> QED
    BY ONLY <2>1, <2>2
<1> QED
  BY <1>1, <1>2, <1>3 DEF AtEnd, KeyAt

LEMMA TakeMerge ==
  ASSUME MergeInv, pc = "update", UpdateTake, Settled, UNCHANGED <<newTable, size, written>>
  PROVE  MergeInv'
<1> PICK key, at : key = KeyAt(index) /\ at = index
  OBVIOUS
<1>1. /\ MergeType /\ Iterators /\ Entries /\ Tracked /\ at \in Tables /\ iter[at] # 0 /\ ~AtEnd(at)
      /\ \A k \in DOMAIN minKey : minKey[k] # at
  BY DEF MergeInv, MergeType, Iterators, UpdateTake
<1>2. /\ key \notin DOMAIN minKey /\ pc' = "merge" /\ iter' = iter /\ index' = index
      /\ minKey' = [k \in DOMAIN minKey \cup {key} |-> IF k = key THEN at ELSE minKey[k]]
  BY DEF UpdateTake, WithEntry
<1>3. /\ DOMAIN minKey' = DOMAIN minKey \cup {key} /\ minKey'[key] = at
      /\ \A k \in DOMAIN minKey : minKey'[k] = minKey[k] /\ k # key
  BY <1>2
<1>4. Tables' = Tables /\ pairs' = pairs /\ (\E f : IsOrder(f))'
  BY Settle DEF MergeInv
<1>5. /\ Remaining' = Remaining
      /\ \A i : AtEnd(i)' <=> AtEnd(i)
      /\ \A i : KeyAt(i)' = KeyAt(i)
      /\ \A i, n : IsPending(i, n)' <=> IsPending(i, n)
  BY <1>2, SameIterators
<1>6. key \in Nat
  BY <1>1, HeadPosition
<1>7. MergeType'
  <2>1. minKey' = [k \in DOMAIN minKey' |-> minKey'[k]]
    BY <1>2
  <2>2. \A k \in DOMAIN minKey' : k \in Nat /\ minKey'[k] \in Tables
    BY <1>1, <1>3, <1>6 DEF MergeType
  <2>3. iter' \in [Tables -> Nat]
    BY <1>1, <1>2, HasColumns DEF Columns
  <2> QED
    BY <1>1, <1>2, <2>1, <2>2, <2>3, SettledType
<1>8. Iterators'
  BY <1>1, <1>2, <1>4 DEF Iterators
<1>9. Entries'
  BY <1>1, <1>2, <1>3, <1>5 DEF Entries
<1>10. Tracked'
  <2> SUFFICES ASSUME NEW i \in Tables, iter[i] # 0, ~AtEnd(i)
               PROVE  KeyAt(i) \in DOMAIN minKey' /\ minKey'[KeyAt(i)] = i
    BY <1>2, <1>4, <1>5 DEF Tracked
  <2>1. CASE i = at
    BY <1>3, <2>1
  <2>2. CASE i # at
    BY <1>1, <1>3, <2>2 DEF Tracked
  <2> QED
    BY <2>1, <2>2
<1> QED
  BY <1>2, <1>4, <1>5, <1>7, <1>8, <1>9, <1>10, QuietStep DEF MergeInv

LEMMA DisplaceMerge ==
  ASSUME MergeInv, pc = "update", UpdateDisplace, Settled, UNCHANGED <<newTable, size, written>>
  PROVE  MergeInv'
<1> PICK key, at : key = KeyAt(index) /\ at = index
  OBVIOUS
<1>1. /\ MergeType /\ Iterators /\ Entries /\ Tracked /\ at \in Tables /\ iter[at] # 0 /\ ~AtEnd(at)
      /\ \A k \in DOMAIN minKey : minKey[k] # at
  BY DEF MergeInv, MergeType, Iterators, UpdateDisplace
<1>2. /\ key \in DOMAIN minKey /\ pc' = "update" /\ iter' = iter /\ index' = minKey[key]
      /\ minKey' = [minKey EXCEPT ![key] = at] /\ minKey \in [DOMAIN minKey -> Tables]
  BY <1>1 DEF UpdateDisplace, MergeType
<1>3. /\ DOMAIN minKey' = DOMAIN minKey /\ minKey'[key] = at
      /\ \A k \in DOMAIN minKey : k # key => minKey'[k] = minKey[k]
      /\ minKey' \in [DOMAIN minKey -> Tables]
  BY <1>1, <1>2
<1>4. Tables' = Tables /\ pairs' = pairs /\ (\E f : IsOrder(f))'
  BY Settle DEF MergeInv
<1>5. /\ Remaining' = Remaining
      /\ \A i : AtEnd(i)' <=> AtEnd(i)
      /\ \A i : KeyAt(i)' = KeyAt(i)
      /\ \A i, n : IsPending(i, n)' <=> IsPending(i, n)
  BY <1>2, SameIterators
<1>6. PICK old \in Tables : old = minKey[key] /\ iter[old] # 0 /\ ~AtEnd(old) /\ KeyAt(old) = key
  BY <1>1, <1>2 DEF Entries
<1>7. MergeType'
  <2>1. minKey' = [k \in DOMAIN minKey' |-> minKey'[k]]
    BY <1>3
  <2>2. \A k \in DOMAIN minKey' : k \in Nat /\ minKey'[k] \in Tables
    BY <1>1, <1>3 DEF MergeType
  <2>3. iter' \in [Tables -> Nat]
    BY <1>1, <1>2, HasColumns DEF Columns
  <2> QED
    BY <1>1, <1>2, <1>6, <2>1, <2>2, <2>3, SettledType
<1>8. \A k \in DOMAIN minKey : k # key => minKey[k] # old
  BY <1>1, <1>6 DEF Entries
<1>9. Iterators'
  <2>1. \A k \in DOMAIN minKey' : minKey'[k] # old
    BY <1>1, <1>2, <1>3, <1>6, <1>8
  <2> QED
    BY <1>1, <1>2, <1>4, <1>6, <2>1 DEF Iterators
<1>10. Entries'
  BY <1>1, <1>2, <1>3, <1>5 DEF Entries
<1>11. Tracked'
  <2> SUFFICES ASSUME NEW i \in Tables, iter[i] # 0, ~AtEnd(i), i # old
               PROVE  KeyAt(i) \in DOMAIN minKey' /\ minKey'[KeyAt(i)] = i
    BY <1>2, <1>4, <1>5, <1>6 DEF Tracked
  <2>1. CASE i = at
    BY <1>2, <1>3, <2>1
  <2>2. CASE i # at
    <3>1. KeyAt(i) \in DOMAIN minKey /\ minKey[KeyAt(i)] = i
      BY <1>1, <2>2 DEF Tracked
    <3>2. KeyAt(i) # key
      BY <1>6, <3>1
    <3> QED
      BY <1>3, <3>1, <3>2
  <2> QED
    BY <2>1, <2>2
<1> QED
  BY <1>2, <1>4, <1>5, <1>7, <1>9, <1>10, <1>11, QuietStep DEF MergeInv

LEMMA EndMerge ==
  ASSUME MergeInv, pc = "update", UpdateEnd, Settled, UNCHANGED <<newTable, size, written>>
  PROVE  MergeInv'
<1>1. /\ MergeType /\ Iterators /\ Entries /\ Tracked /\ AtEnd(index)
      /\ pc' = "merge" /\ iter' = iter /\ minKey' = minKey
  BY DEF MergeInv, UpdateEnd
<1>2. Tables' = Tables /\ pairs' = pairs /\ (\E f : IsOrder(f))'
  BY Settle DEF MergeInv
<1>3. /\ Remaining' = Remaining
      /\ \A i : AtEnd(i)' <=> AtEnd(i)
      /\ \A i : KeyAt(i)' = KeyAt(i)
      /\ \A i, n : IsPending(i, n)' <=> IsPending(i, n)
  BY <1>1, SameIterators
<1>4. MergeType'
  BY <1>1, HasColumns, SettledType DEF MergeType, Columns
<1>5. Iterators' /\ Entries'
  BY <1>1, <1>2, <1>3 DEF Iterators, Entries
<1>6. Tracked'
  BY <1>1, <1>2, <1>3 DEF Tracked
<1> QED
  BY <1>1, <1>2, <1>3, <1>4, <1>5, <1>6, QuietStep DEF MergeInv

LEMMA SkipMerge ==
  ASSUME MergeInv, pc = "update", UpdateSkip, Settled, UNCHANGED <<newTable, size, written>>
  PROVE  MergeInv'
<1> PICK key, at : key = KeyAt(index) /\ at = index
  OBVIOUS
<1>1. /\ MergeType /\ Iterators /\ Entries /\ Tracked /\ at \in Tables /\ iter[at] # 0 /\ ~AtEnd(at)
      /\ \A k \in DOMAIN minKey : minKey[k] # at
  BY DEF MergeInv, MergeType, Iterators, UpdateSkip
<1>2. /\ key \in DOMAIN minKey /\ pc' = "update" /\ index' = at /\ minKey' = minKey
      /\ iter' = [iter EXCEPT ![at] = @ + 1] /\ at <= minKey[key]
  BY DEF UpdateSkip
<1>3. Tables' = Tables /\ pairs' = pairs /\ (\E f : IsOrder(f))'
  BY Settle DEF MergeInv
<1>4. /\ iter' \in [Tables -> Nat] /\ iter'[at] \in 1 .. Len(pairs[at]) + 1
      /\ \A j \in Tables : j # at => iter'[j] = iter[j]
      /\ \A j \in Tables : \A n \in DOMAIN pairs[j] :
           IsPending(j, n)' <=> IsPending(j, n) /\ ~(j = at /\ n = iter[at])
  BY <1>1, <1>2, Advance
<1>5. PICK new \in Tables : new = minKey[key] /\ iter[new] # 0 /\ ~AtEnd(new) /\ KeyAt(new) = key /\ at < new
  <2>1. PICK new \in Tables : new = minKey[key] /\ iter[new] # 0 /\ ~AtEnd(new) /\ KeyAt(new) = key
    BY <1>1, <1>2 DEF Entries, MergeType
  <2>2. at \in Nat /\ new \in Nat /\ at # new
    <3>1. Len(pairs) \in Nat /\ Tables = 1 .. Len(pairs)
      BY <1>1, HasColumns DEF Columns
    <3> QED
      BY <1>1, <1>2, <2>1, <3>1
  <2> QED
    BY <1>2, <2>1, <2>2
<1>6. /\ iter[new] \in DOMAIN pairs[new] /\ Key(new, iter[new]) = key /\ IsPending(new, iter[new])
      /\ iter[at] \in DOMAIN pairs[at] /\ Key(at, iter[at]) = key /\ new # at
  <2>1. Len(pairs) \in Nat /\ Tables = 1 .. Len(pairs)
    BY <1>1, HasColumns DEF Columns
  <2> QED
    BY <1>1, <1>5, <2>1, HeadPosition
<1>7. PICK p \in DOMAIN pairs[new] : Key(new, p) = key /\ IsPending(new, p)'
  <2>1. PICK p \in DOMAIN pairs[new] : p = iter[new]
    BY <1>6
  <2>2. IsPending(new, p)'
    BY <1>4, <1>6, <2>1
  <2> QED
    BY <1>6, <2>1, <2>2
<1>8. \A i \in Tables : \A n \in DOMAIN pairs[i] : Newest(i, n) /\ IsPending(i, n) => IsPending(i, n)'
  <2> SUFFICES ASSUME Newest(at, iter[at]) PROVE FALSE
    BY <1>4
  <2>1. key \in KeysOf(new)
    BY <1>6 DEF KeysOf
  <2> QED
    BY <1>5, <1>6, <2>1 DEF Newest
<1>9. Remaining' = Remaining
  <2>1. ASSUME NEW r \in Remaining'
        PROVE  r \in Remaining
    BY <1>4, <2>1, InRemaining, InRemainingNext
  <2>2. ASSUME NEW r \in Remaining
        PROVE  r \in Remaining'
    <3>1. PICK i \in Tables : \E n \in DOMAIN pairs[i] : IsPending(i, n) /\ Key(i, n) = r
      BY <2>2, InRemaining
    <3>2. PICK n \in DOMAIN pairs[i] : IsPending(i, n) /\ Key(i, n) = r
      BY <3>1
    <3>3. CASE i = at /\ n = iter[at]
      <4>1. r = key
        BY <1>6, <3>2, <3>3
      <4> QED
        BY <1>7, <4>1, InRemainingNext
    <3>4. CASE ~(i = at /\ n = iter[at])
      BY <1>4, <3>2, <3>4, InRemainingNext
    <3> QED
      BY <3>3, <3>4
  <2>3. /\ Remaining = UNION {{Key(i, n) : n \in {m \in DOMAIN pairs[i] : IsPending(i, m)}} : i \in Tables}
        /\ Remaining' = (UNION {{Key(i, n) : n \in {m \in DOMAIN pairs[i] : IsPending(i, m)}} : i \in Tables})'
    BY DEF Remaining
  <2>4. Remaining' \subseteq Remaining /\ Remaining \subseteq Remaining'
    BY <2>1, <2>2
  <2> QED
    BY ONLY <2>3, <2>4
<1>10. MergeType'
  <2>1. minKey' = [k \in DOMAIN minKey' |-> minKey'[k]] /\ \A k \in DOMAIN minKey' : k \in Nat /\ minKey'[k] \in Tables
    BY <1>1, <1>2 DEF MergeType
  <2> QED
    BY <1>1, <1>2, <1>4, <2>1, SettledType
<1>11. Iterators'
  <2>1. \A i \in Tables : iter'[i] \in 0 .. Len(pairs[i]) + 1
    <3> TAKE i \in Tables
    <3>1. CASE i = at
      BY <1>4, <3>1
    <3> QED
      BY <1>1, <1>4, <3>1 DEF Iterators
  <2>2. iter'[at] # 0
    BY <1>4
  <2> QED
    BY <1>1, <1>2, <1>3, <2>1, <2>2 DEF Iterators
<1>12. \A i \in Tables : i # at => /\ AtEnd(i)' <=> AtEnd(i)
                                   /\ KeyAt(i)' = KeyAt(i)
  BY <1>3, <1>4 DEF AtEnd, KeyAt
<1>13. Entries'
  <2>1. \A k \in DOMAIN minKey : minKey[k] \in Tables /\ minKey[k] # at
    BY <1>1 DEF MergeType
  <2> QED
    BY <1>1, <1>2, <1>4, <1>12, <2>1 DEF Entries
<1>14. Tracked'
  BY <1>1, <1>2, <1>3, <1>4, <1>12 DEF Tracked
<1> QED
  BY <1>2, <1>3, <1>8, <1>9, <1>10, <1>11, <1>13, <1>14, QuietStep DEF MergeInv

LEMMA UpdateMerge ==
  ASSUME MergeInv, Update
  PROVE  MergeInv'
<1>1. Settled /\ pc = "update" /\ UNCHANGED <<newTable, size, written>>
  BY DEF Update, Settled
<1> QED
  BY <1>1, TakeMerge, DisplaceMerge, SkipMerge, EndMerge DEF Update

-----------------------------------------------------------------------------
(* Every key has a newest pair, and Merged holds it.                       *)
LEMMA NewestExists ==
  ASSUME MergeType, NEW i \in Tables, NEW n \in DOMAIN pairs[i]
  PROVE  \E w \in Tables : \E m \in DOMAIN pairs[w] : Newest(w, m) /\ Key(w, m) = Key(i, n)
<1> PICK k : k = Key(i, n)
  OBVIOUS
<1> DEFINE H == {j \in Tables : k \in KeysOf(j)}
<1>1. Len(pairs) \in Nat /\ Tables = 1 .. Len(pairs) /\ IsFiniteSet(Tables)
  BY HasColumns DEF Columns
<1>2. H \in SUBSET Nat /\ IsFiniteSet(H) /\ i \in H
  <2>1. H \in SUBSET Tables /\ i \in H
    BY DEF KeysOf
  <2>2. Tables \in SUBSET Nat
    BY <1>1
  <2> HIDE DEF H
  <2>3. IsFiniteSet(H)
    BY <1>1, <2>1, FS_Subset
  <2> QED
    BY <2>1, <2>2, <2>3
<1>3. Max(H) \in H /\ \A j \in H : j <= Max(H)
  <2> HIDE DEF H
  <2> QED
    BY <1>2, GreatestNumber
<1>4. PICK w \in H : w = Max(H) /\ \A j \in H : j <= w
  <2> HIDE DEF H
  <2> QED
    BY <1>3
<1>5. PICK m \in DOMAIN pairs[w] : Key(w, m) = k
  BY <1>4 DEF KeysOf
<1>6. Newest(w, m)
  <2> SUFFICES ASSUME NEW j \in Tables, w < j, k \in KeysOf(j) PROVE FALSE
    BY <1>5 DEF Newest
  <2>1. j <= w /\ j \in Nat /\ w \in Nat
    BY <1>1, <1>4
  <2> QED
    BY <2>1
<1> QED
  BY <1>4, <1>5, <1>6

LEMMA MergedValue ==
  ASSUME MergeType, NEW w \in Tables, NEW m \in DOMAIN pairs[w], Newest(w, m)
  PROVE  Key(w, m) \in DOMAIN Merged /\ Merged[Key(w, m)] = pairs[w][m][2]
<1> PICK k : k = Key(w, m)
  OBVIOUS
<1>1. /\ Len(pairs) \in Nat /\ Tables = 1 .. Len(pairs) /\ IsFiniteSet(Tables)
      /\ DOMAIN pairs[w] = 1 .. Len(pairs[w]) /\ Len(pairs[w]) \in Nat
      /\ \A n \in DOMAIN pairs[w] : Key(w, n) \in Nat
      /\ \A a, n \in DOMAIN pairs[w] : a < n => Key(w, a) < Key(w, n)
  BY HasColumns DEF Columns
<1> DEFINE H == {j \in Tables : k \in KeysOf(j)}
<1>2. H \in SUBSET Nat /\ IsFiniteSet(H) /\ w \in H
  <2>1. H \in SUBSET Tables /\ w \in H
    BY DEF KeysOf
  <2>2. Tables \in SUBSET Nat
    BY <1>1
  <2> HIDE DEF H
  <2>3. IsFiniteSet(H)
    BY <1>1, <2>1, FS_Subset
  <2> QED
    BY <2>1, <2>2, <2>3
<1>3. Max(H) \in H /\ \A j \in H : j <= Max(H)
  <2> HIDE DEF H
  <2> QED
    BY <1>2, GreatestNumber
<1>4. \A j \in H : ~(w < j)
  BY DEF Newest
<1>5. Max(H) = w
  <2>1. PICK x \in Nat : x = Max(H) /\ x \in H
    BY <1>2, <1>3
  <2>2. w <= x /\ ~(w < x) /\ w \in Nat
    BY <1>2, <1>3, <1>4, <2>1
  <2> QED
    BY <2>1, <2>2
<1>6. Top(k) = w
  BY <1>5 DEF Top
<1>7. \A n \in DOMAIN pairs[w] : Key(w, n) = k => n = m
  <2> SUFFICES ASSUME NEW n \in DOMAIN pairs[w], Key(w, n) = k PROVE n = m
    OBVIOUS
  <2>1. n \in Nat /\ m \in Nat /\ k \in Nat
    BY <1>1
  <2>2. n < m => Key(w, n) < Key(w, m)
    BY <1>1
  <2>3. m < n => Key(w, m) < Key(w, n)
    BY <1>1
  <2> QED
    BY <2>1, <2>2, <2>3
<1>8. (CHOOSE n \in DOMAIN pairs[w] : Key(w, n) = k) = m
  BY <1>7
<1>9. k \in UNION {KeysOf(i) : i \in Tables}
  BY DEF KeysOf
<1> QED
  BY <1>6, <1>8, <1>9 DEF Merged

(* What is kept fits the tables.                                           *)
LEMMA KeptFits == MergeType => Fit(Kept) /\ DOMAIN Kept \in SUBSET UNION {KeysOf(i) : i \in Tables}
<1> SUFFICES ASSUME MergeType PROVE Fit(Kept) /\ DOMAIN Kept \in SUBSET UNION {KeysOf(i) : i \in Tables}
  OBVIOUS
<1>1. /\ Len(pairs) \in Nat /\ Tables = 1 .. Len(pairs) /\ IsFiniteSet(Tables) /\ input \in Inputs
      /\ \A i \in Tables : pairs[i] \in {Row(t) : t \in All}
      /\ \A i \in Tables : Len(pairs[i]) \in Nat /\ DOMAIN pairs[i] = 1 .. Len(pairs[i])
      /\ \A i \in Tables : \A n \in DOMAIN pairs[i] : Key(i, n) \in Nat
  BY HasColumns DEF Columns, MergeType, Tables
<1>2. \A i \in Tables : IsFiniteSet(KeysOf(i)) /\ KeysOf(i) \in SUBSET Nat
  <2> SUFFICES ASSUME NEW i \in Tables PROVE IsFiniteSet(KeysOf(i)) /\ KeysOf(i) \in SUBSET Nat
    OBVIOUS
  <2>1. [n \in DOMAIN pairs[i] |-> Key(i, n)] \in Surjection(DOMAIN pairs[i], KeysOf(i))
    BY DEF KeysOf, Surjection
  <2>2. IsFiniteSet(DOMAIN pairs[i])
    <3>1. 1 \in Int /\ Len(pairs[i]) \in Int
      BY <1>1
    <3>2. IsFiniteSet(1 .. Len(pairs[i]))
      BY <3>1, FS_Interval
    <3> QED
      BY <1>1, <3>2
  <2>3. IsFiniteSet(KeysOf(i))
    BY <2>1, <2>2, FS_Surjection
  <2> QED
    BY <1>1, <2>3 DEF KeysOf
<1> DEFINE Sets == {KeysOf(i) : i \in Tables}
<1>3. IsFiniteSet(Sets)
  <2>1. [i \in Tables |-> KeysOf(i)] \in Surjection(Tables, Sets)
    BY DEF Surjection
  <2> QED
    BY <1>1, <2>1, FS_Surjection
<1>4. IsFiniteSet(UNION Sets) /\ UNION Sets \in SUBSET Nat
  <2>1. \A T \in Sets : IsFiniteSet(T) /\ T \in SUBSET Nat
    BY <1>2
  <2> HIDE DEF Sets
  <2> QED
    BY <1>3, <2>1, FS_UNION
<1>5. DOMAIN Merged = UNION Sets
  BY DEF Merged
<1>6. DOMAIN Kept \in SUBSET UNION Sets /\ \A k \in DOMAIN Kept : Kept[k] = Merged[k]
  BY <1>5 DEF Kept, DropDeleted
<1>7. IsFiniteSet(DOMAIN Kept) /\ DOMAIN Kept \in SUBSET Nat
  <2> HIDE DEF Sets
  <2> QED
    BY <1>4, <1>6, FS_Subset
<1>8. ASSUME NEW k \in DOMAIN Kept
      PROVE  Bytes(Kept[k]) \in Nat /\ InitialSize + Bytes(Kept[k]) <= TableSize
  <2>1. PICK i \in Tables : k \in KeysOf(i)
    BY <1>6, <1>8
  <2>2. PICK n \in DOMAIN pairs[i] : Key(i, n) = k
    BY <2>1 DEF KeysOf
  <2>3. PICK w \in Tables : \E m \in DOMAIN pairs[w] : Newest(w, m) /\ Key(w, m) = k
    BY <2>2, NewestExists
  <2>4. PICK m \in DOMAIN pairs[w] : Newest(w, m) /\ Key(w, m) = k
    BY <2>3
  <2>5. Kept[k] = pairs[w][m][2]
    BY <1>6, <1>8, <2>4, MergedValue
  <2>6. PICK t \in All : pairs[w] = Row(t)
    BY <1>1
  <2>7. PICK row : row = pairs[w] /\ IsRow(row, t.kv, DOMAIN t.kv)
    BY <1>1, <2>6, TableFacts
  <2>8. row[m] = <<row[m][1], t.kv[row[m][1]]>> /\ row[m][1] \in DOMAIN t.kv
    BY <2>4, <2>7 DEF IsRow
  <2>9. pairs[w][m][2] = t.kv[row[m][1]]
    BY <2>7, <2>8
  <2> QED
    BY <1>1, <2>5, <2>8, <2>9, TableFacts
<1> QED
  BY <1>1, <1>6, <1>7, <1>8, TableFacts DEF Fit

-----------------------------------------------------------------------------
(* The first iterators: what a table starts with is no newer table's key,  *)
(* and what it skips is, so that when the loop ends every key is pending   *)
(* where it is newest.                                                     *)
LEMMA HeadsMerge ==
  ASSUME MergeInv, Heads
  PROVE  MergeInv'
<1> PICK at : at = index
  OBVIOUS
<1>1. /\ MergeType /\ Iterators /\ Entries /\ Tracked /\ NewestPending /\ Output
      /\ pc = "heads" /\ at \in Tables /\ Settled /\ UNCHANGED <<newTable, size, written>>
      /\ index' = at - 1 /\ pc' = IF at = 1 THEN "merge" ELSE "heads"
  BY DEF MergeInv, MergeType, Heads, Settled
<1>2. PICK N \in Nat : /\ N = Len(pairs) /\ Tables = 1 .. N /\ iter \in [Tables -> Nat]
                       /\ DOMAIN pairs[at] = 1 .. Len(pairs[at]) /\ Len(pairs[at]) \in Nat
                       /\ \A n \in DOMAIN pairs[at] : Key(at, n) \in Nat
  BY <1>1, HasColumns DEF Columns
<1>3. Tables' = Tables /\ pairs' = pairs /\ (\E f : IsOrder(f))'
      /\ (\A i, n : Key(i, n)' = Key(i, n) /\ (Newest(i, n)' <=> Newest(i, n)))
      /\ (\A i : KeysOf(i)' = KeysOf(i)) /\ Kept' = Kept
  BY <1>1, Settle DEF MergeInv
<1>4. at \in Nat /\ iter[at] = 0 /\ \A i \in Tables : i \in Nat /\ (i <= at => iter[i] = 0)
  BY <1>1, <1>2 DEF Iterators
<1>5. \A k \in DOMAIN minKey : minKey[k] \in Tables /\ at < minKey[k] /\ k \in KeysOf(minKey[k])
  <2> TAKE k \in DOMAIN minKey
  <2>1. PICK j \in Tables : j = minKey[k] /\ iter[j] # 0 /\ ~AtEnd(j) /\ KeyAt(j) = k
    BY <1>1 DEF Entries, MergeType
  <2>2. at < j
    BY <1>4, <2>1
  <2>3. iter[j] \in DOMAIN pairs[j] /\ Key(j, iter[j]) = k
    BY <1>1, <2>1, HeadPosition
  <2> QED
    BY <2>1, <2>2, <2>3 DEF KeysOf
<1>6. /\ iter' \in [Tables -> Nat] /\ iter'[at] \in 0 .. Len(pairs[at])
      /\ \A j \in Tables : j # at => iter'[j] = iter[j]
      /\ \A n \in DOMAIN pairs[at] : Key(at, n) \in DOMAIN minKey \/ (iter'[at] # 0 /\ iter'[at] <= n)
      /\ iter'[at] = 0 => minKey' = minKey
      /\ iter'[at] # 0 =>
           /\ iter'[at] \in DOMAIN pairs[at] /\ Key(at, iter'[at]) \notin DOMAIN minKey
           /\ minKey' = [k \in DOMAIN minKey \cup {Key(at, iter'[at])} |->
                           IF k = Key(at, iter'[at]) THEN at ELSE minKey[k]]
  <2>1. Fresh(at) = {n \in DOMAIN pairs[at] : Key(at, n) \notin DOMAIN minKey}
    BY DEF Fresh, Key
  <2>2. CASE Fresh(at) = {}
    <3>1. iter' = iter /\ minKey' = minKey
      BY <2>2 DEF Heads
    <3> QED
      BY <1>2, <1>4, <2>1, <2>2, <3>1
  <2>3. CASE Fresh(at) # {}
    <3>1. PICK n \in Fresh(at) : n = Min(Fresh(at)) /\ \A m \in Fresh(at) : n <= m
      <4>1. Fresh(at) \in SUBSET Nat
        BY <1>2, <2>1
      <4> QED
        BY <2>3, <4>1, LeastNumber
    <3>2. iter' = [iter EXCEPT ![at] = n] /\ minKey' = WithEntry(Key(at, n), at)
      BY <2>3, <3>1 DEF Heads, Key
    <3>3. n \in DOMAIN pairs[at] /\ n \in Nat /\ n # 0 /\ iter'[at] = n /\ Key(at, n) \notin DOMAIN minKey
      BY <1>1, <1>2, <2>1, <3>1, <3>2
    <3>4. iter' \in [Tables -> Nat] /\ iter'[at] \in 0 .. Len(pairs[at])
          /\ \A j \in Tables : j # at => iter'[j] = iter[j]
      BY <1>1, <1>2, <3>2, <3>3
    <3>5. \A m \in DOMAIN pairs[at] : Key(at, m) \in DOMAIN minKey \/ n <= m
      BY <2>1, <3>1
    <3> QED
      BY <3>2, <3>3, <3>4, <3>5 DEF WithEntry
  <2> QED
    BY <2>2, <2>3
<1>7. PICK n0 \in Nat : n0 = iter'[at]
  BY <1>1, <1>6
<1>8. DOMAIN minKey' = (IF n0 = 0 THEN DOMAIN minKey ELSE DOMAIN minKey \cup {Key(at, n0)})
      /\ (\A k \in DOMAIN minKey : minKey'[k] = minKey[k])
      /\ (n0 # 0 => minKey'[Key(at, n0)] = at /\ Key(at, n0) \in Nat)
      /\ minKey' = [k \in DOMAIN minKey' |-> minKey'[k]]
  <2>1. CASE n0 = 0
    BY <1>1, <1>6, <1>7, <2>1 DEF MergeType
  <2>2. CASE n0 # 0
    BY <1>2, <1>6, <1>7, <2>2
  <2> QED
    BY <2>1, <2>2
<1>9. MergeType'
  <2>1. \A k \in DOMAIN minKey' : k \in Nat /\ minKey'[k] \in Tables
    <3> TAKE k \in DOMAIN minKey'
    <3>1. CASE k \in DOMAIN minKey
      BY <1>1, <1>8, <3>1 DEF MergeType
    <3>2. CASE k \notin DOMAIN minKey
      <4>1. n0 # 0 /\ k = Key(at, n0)
        BY <1>8, <3>2
      <4> QED
        BY <1>1, <1>8, <4>1
    <3> QED
      BY <3>1, <3>2
  <2>2. pc' = "heads" => index' \in Tables
    BY <1>1, <1>2
  <2> QED
    BY <1>1, <1>6, <1>8, <2>1, <2>2, SettledType
<1>10. Iterators'
  <2>1. \A i \in Tables : iter'[i] \in 0 .. Len(pairs[i]) + 1
    <3> TAKE i \in Tables
    <3>1. CASE i = at
      BY <1>2, <1>6, <3>1
    <3> QED
      BY <1>1, <1>6, <3>1 DEF Iterators
  <2>2. \A i \in Tables : i <= at - 1 => iter'[i] = 0
    <3> TAKE i \in Tables
    <3>1. i <= at - 1 => i # at /\ i <= at
      BY <1>4
    <3> QED
      BY <1>4, <1>6, <3>1
  <2> QED
    BY <1>1, <1>3, <2>1, <2>2 DEF Iterators
<1>11. /\ \A i \in Tables : i # at => (AtEnd(i)' <=> AtEnd(i)) /\ KeyAt(i)' = KeyAt(i)
       /\ n0 # 0 => ~AtEnd(at)' /\ KeyAt(at)' = Key(at, n0)
  <2>1. \A i \in Tables : i # at => (AtEnd(i)' <=> AtEnd(i)) /\ KeyAt(i)' = KeyAt(i)
    BY <1>3, <1>6 DEF AtEnd, KeyAt
  <2>2. at' = at
    OBVIOUS
  <2>3. n0 # 0 => pairs'[at][iter'[at]][1] = Key(at, n0) /\ ~(iter'[at] = Len(pairs'[at]) + 1)
    BY <1>2, <1>3, <1>6, <1>7 DEF Key
  <2> QED
    BY <2>1, <2>3 DEF AtEnd, KeyAt
<1>12. Entries'
  <2> SUFFICES ASSUME NEW k \in DOMAIN minKey'
               PROVE  \E j \in Tables : j = minKey'[k] /\ iter'[j] # 0 /\ ~AtEnd(j)' /\ KeyAt(j)' = k
    BY DEF Entries
  <2>1. CASE k \in DOMAIN minKey
    <3>1. PICK j \in Tables : j = minKey[k] /\ iter[j] # 0 /\ ~AtEnd(j) /\ KeyAt(j) = k /\ j # at
      BY <1>1, <1>4, <1>5, <2>1 DEF Entries
    <3> QED
      BY <1>6, <1>8, <1>11, <2>1, <3>1
  <2>2. CASE k \notin DOMAIN minKey
    <3>1. n0 # 0 /\ k = Key(at, n0)
      BY <1>8, <2>2
    <3> QED
      BY <1>1, <1>7, <1>8, <1>11, <3>1
  <2> QED
    BY <2>1, <2>2
<1>13. Tracked'
  <2> SUFFICES ASSUME NEW i \in Tables, iter'[i] # 0, ~AtEnd(i)'
               PROVE  \E k \in DOMAIN minKey' : k = KeyAt(i)' /\ minKey'[k] = i
    BY <1>3 DEF Tracked
  <2>1. CASE i = at
    BY <1>7, <1>8, <1>11, <2>1
  <2>2. CASE i # at
    <3>1. PICK k \in DOMAIN minKey : k = KeyAt(i) /\ minKey[k] = i
      BY <1>1, <1>6, <1>11, <2>2 DEF Tracked
    <3> QED
      BY <1>8, <1>11, <2>2, <3>1
  <2> QED
    BY <2>1, <2>2
<1>14. \A i \in Tables : \A n \in DOMAIN pairs[i] : at <= i /\ Newest(i, n) => IsPending(i, n)'
  <2> SUFFICES ASSUME NEW i \in Tables, NEW n \in DOMAIN pairs[i], at <= i, Newest(i, n)
               PROVE  iter'[i] # 0 /\ iter'[i] <= n
    BY DEF IsPending
  <2>1. CASE i = at
    <3>1. Key(at, n) \notin DOMAIN minKey
      BY <1>5, <2>1 DEF Newest
    <3> QED
      BY <1>6, <2>1, <3>1
  <2>2. CASE i # at
    <3>1. at < i
      BY <1>4, <2>2
    <3>2. IsPending(i, n)
      BY <1>1, <3>1 DEF NewestPending
    <3> QED
      BY <1>6, <2>2, <3>2 DEF IsPending
  <2> QED
    BY <2>1, <2>2
<1>15. NewestPending'
  <2>1. pc' = "heads" => \A i \in Tables : index' < i => at <= i
    <3> SUFFICES ASSUME NEW i \in Tables, at - 1 < i PROVE at <= i
      BY <1>1
    <3> QED
      BY <1>4
  <2>2. pc' = "merge" => \A i \in Tables : at <= i
    BY <1>1, <1>2
  <2> QED
    BY <1>1, <1>3, <1>14, <2>1, <2>2 DEF NewestPending
<1>16. pc' = "merge" => Emitted' = {}
  <2> SUFFICES ASSUME pc' = "merge", NEW d \in Emitted' PROVE FALSE
    OBVIOUS
  <2>1. at = 1 /\ \A i \in Tables : at <= i
    BY <1>1, <1>2
  <2>2. d \notin Remaining' /\ \E i \in Tables : d \in KeysOf(i)
    BY <1>1, InEmittedNext
  <2>3. PICK i \in Tables : d \in KeysOf(i) /\ d \notin Remaining'
    BY <1>3, <2>2
  <2>4. PICK n \in DOMAIN pairs[i] : Key(i, n) = d
    BY <2>3 DEF KeysOf
  <2>5. PICK w \in Tables : \E m \in DOMAIN pairs[w] : Newest(w, m) /\ Key(w, m) = d
    BY <1>1, <2>4, NewestExists
  <2>6. PICK m \in DOMAIN pairs[w] : Newest(w, m) /\ Key(w, m) = d
    BY <2>5
  <2>7. IsPending(w, m)'
    BY <1>14, <2>1, <2>6
  <2> QED
    BY <1>1, <2>3, <2>6, <2>7, InRemainingNext
<1>17. EmittedBelow' /\ Output'
  <2>1. EmittedBelow'
    BY <1>1, <1>16 DEF EmittedBelow
  <2>2. pc' = "merge" => IsOutput(Kept', Emitted' \cap DOMAIN Kept', written', newTable', size')
    <3> SUFFICES ASSUME pc' = "merge"
                 PROVE  IsOutput(Kept', {}, written', newTable', size')
      BY <1>16
    <3> QED
      BY <1>1 DEF Output, IsOutput
  <2> QED
    BY <1>1, <2>2, <2>1 DEF Output
<1> QED
  BY <1>3, <1>9, <1>10, <1>12, <1>13, <1>15, <1>17 DEF MergeInv

-----------------------------------------------------------------------------
(* The least key under an iterator is the least that is still to be        *)
(* written, it pends nowhere else, and this pair of it is the newest.      *)
LEMMA LeastKey ==
  ASSUME MergeInv, pc = "merge", DOMAIN minKey # {}
  PROVE  \E key \in DOMAIN minKey : \E at \in Tables : \E p \in DOMAIN pairs[at] :
           /\ key = Min(DOMAIN minKey) /\ key \in Nat /\ at = minKey[key] /\ p = iter[at]
           /\ iter[at] # 0 /\ ~AtEnd(at) /\ KeyAt(at) = key /\ Key(at, p) = key
           /\ key \in Remaining /\ \A r \in Remaining : key <= r /\ r \in Nat
           /\ \A i \in Tables : \A n \in DOMAIN pairs[i] : IsPending(i, n) /\ Key(i, n) = key => i = at /\ n = p
           /\ key \in DOMAIN Merged /\ Merged[key] = pairs[at][p][2]
<1>1. MergeType /\ Iterators /\ Entries /\ Tracked /\ NewestPending
  BY DEF MergeInv
<1>2. PICK key \in DOMAIN minKey : key \in Nat /\ key = Min(DOMAIN minKey) /\ \A k \in DOMAIN minKey : key <= k
  <2>1. DOMAIN minKey \in SUBSET Nat
    BY <1>1 DEF MergeType
  <2> QED
    BY <2>1, LeastNumber
<1>3. PICK at \in Tables : at = minKey[key] /\ iter[at] # 0 /\ ~AtEnd(at) /\ KeyAt(at) = key
  BY <1>1 DEF MergeType, Entries
<1>4. PICK p \in DOMAIN pairs[at] : p = iter[at] /\ Key(at, p) = key /\ IsPending(at, p)
  BY <1>1, <1>3, HeadPosition
<1>5. ASSUME NEW i \in Tables, NEW n \in DOMAIN pairs[i], IsPending(i, n)
      PROVE  Key(i, n) \in Nat /\ key <= Key(i, n) /\ (Key(i, n) = key => i = at /\ n = p)
  <2>1. Key(i, n) \in Nat
    BY <1>1, HasColumns DEF Columns
  <2>2. /\ iter[i] # 0 /\ ~AtEnd(i) /\ KeyAt(i) \in Nat /\ KeyAt(i) = Key(i, iter[i])
        /\ n = iter[i] \/ KeyAt(i) < Key(i, n)
    BY <1>1, <1>5, HeadPosition
  <2>3. KeyAt(i) \in DOMAIN minKey /\ minKey[KeyAt(i)] = i
    BY <1>1, <2>2 DEF Tracked
  <2>4. PICK h \in Nat : h = KeyAt(i) /\ key <= h
    BY <1>2, <2>2, <2>3
  <2>5. CASE n = iter[i]
    BY <1>3, <1>4, <2>1, <2>2, <2>3, <2>4, <2>5
  <2>6. CASE h < Key(i, n)
    BY <1>2, <2>1, <2>4, <2>6
  <2> QED
    BY <2>2, <2>4, <2>5, <2>6
<1>6. key \in Remaining /\ \A r \in Remaining : key <= r /\ r \in Nat
  BY <1>4, <1>5, InRemaining
<1>7. Newest(at, p)
  <2>1. PICK w \in Tables : \E m \in DOMAIN pairs[w] : Newest(w, m) /\ Key(w, m) = key
    BY <1>1, <1>4, NewestExists
  <2>2. PICK m \in DOMAIN pairs[w] : Newest(w, m) /\ Key(w, m) = key
    BY <2>1
  <2>3. IsPending(w, m)
    BY <1>1, <1>6, <2>2 DEF NewestPending
  <2> QED
    BY <1>5, <2>2, <2>3
<1>8. key \in DOMAIN Merged /\ Merged[key] = pairs[at][p][2]
  BY <1>1, <1>4, <1>7, MergedValue
<1> QED
  BY <1>2, <1>3, <1>4, <1>5, <1>6, <1>8

LEMMA EmitMerge ==
  ASSUME MergeInv, Emit
  PROVE  MergeInv'
<1>1. /\ MergeType /\ Iterators /\ Entries /\ Tracked /\ NewestPending /\ EmittedBelow /\ Output
      /\ pc = "merge" /\ pc' = "update" /\ Settled
  BY DEF MergeInv, Emit, Settled
<1>2. DOMAIN minKey # {}
  <2> SUFFICES ASSUME DOMAIN minKey = {} PROVE FALSE
    OBVIOUS
  <2>1. minKey \in [DOMAIN minKey -> Tables] /\ minKey # [k \in {} |-> 0]
    BY <1>1 DEF MergeType, Emit
  <2> QED
    BY <2>1
<1>3. PICK key \in DOMAIN minKey, at \in Tables : \E p \in DOMAIN pairs[at] :
           /\ key = Min(DOMAIN minKey) /\ key \in Nat /\ at = minKey[key] /\ p = iter[at]
           /\ iter[at] # 0 /\ ~AtEnd(at) /\ KeyAt(at) = key /\ Key(at, p) = key
           /\ key \in Remaining /\ \A r \in Remaining : key <= r /\ r \in Nat
           /\ \A i \in Tables : \A n \in DOMAIN pairs[i] : IsPending(i, n) /\ Key(i, n) = key => i = at /\ n = p
           /\ key \in DOMAIN Merged /\ Merged[key] = pairs[at][p][2]
  BY <1>1, <1>2, LeastKey
<1>4. PICK p \in DOMAIN pairs[at] :
           /\ key = Min(DOMAIN minKey) /\ key \in Nat /\ at = minKey[key] /\ p = iter[at]
           /\ iter[at] # 0 /\ ~AtEnd(at) /\ KeyAt(at) = key /\ Key(at, p) = key
           /\ key \in Remaining /\ \A r \in Remaining : key <= r /\ r \in Nat
           /\ \A i \in Tables : \A n \in DOMAIN pairs[i] : IsPending(i, n) /\ Key(i, n) = key => i = at /\ n = p
           /\ key \in DOMAIN Merged /\ Merged[key] = pairs[at][p][2]
  BY <1>3
<1>5. PICK s : s = ValueAt(at) /\ s = Merged[key]
  BY <1>4 DEF ValueAt
<1>6. /\ minKey' = [k \in DOMAIN minKey \ {key} |-> minKey[k]]
      /\ iter' = [iter EXCEPT ![at] = @ + 1] /\ index' = at
      /\ \/ lastLevel /\ s = DEL /\ UNCHANGED <<newTable, size, written>>
         \/ /\ ~(lastLevel /\ s = DEL)
            /\ IF Overflows(size + Bytes(s))
               THEN /\ written' = Append(written, newTable)
                    /\ newTable' = <<<<key, s>>>>
                    /\ size' = InitialSize + Bytes(s)
               ELSE /\ newTable' = Append(newTable, <<key, s>>)
                    /\ size' = size + Bytes(s)
                    /\ UNCHANGED written
  BY <1>4, <1>5 DEF Emit, Without
<1>7. Tables' = Tables /\ pairs' = pairs /\ (\E f : IsOrder(f))'
      /\ (\A i, n : Key(i, n)' = Key(i, n) /\ (Newest(i, n)' <=> Newest(i, n))) /\ Kept' = Kept
  BY <1>1, Settle DEF MergeInv
<1>8. /\ iter' \in [Tables -> Nat] /\ iter'[at] \in 1 .. Len(pairs[at]) + 1
      /\ \A j \in Tables : j # at => iter'[j] = iter[j]
      /\ \A j \in Tables : \A n \in DOMAIN pairs[j] :
           IsPending(j, n)' <=> IsPending(j, n) /\ ~(j = at /\ n = iter[at])
  BY <1>1, <1>4, <1>6, Advance
<1>9. \A r : r \in Remaining' <=> r \in Remaining /\ r # key
  <2>1. ASSUME NEW r, r \in Remaining'
        PROVE  r \in Remaining /\ r # key
    <3>1. PICK i \in Tables : \E n \in DOMAIN pairs[i] : IsPending(i, n)' /\ Key(i, n) = r
      BY <1>1, <2>1, InRemainingNext
    <3>2. PICK n \in DOMAIN pairs[i] : IsPending(i, n)' /\ Key(i, n) = r
      BY <3>1
    <3>3. IsPending(i, n) /\ ~(i = at /\ n = p)
      BY <1>4, <1>8, <3>2
    <3> QED
      BY <1>4, <3>2, <3>3, InRemaining
  <2>2. ASSUME NEW r, r \in Remaining, r # key
        PROVE  r \in Remaining'
    <3>1. PICK i \in Tables : \E n \in DOMAIN pairs[i] : IsPending(i, n) /\ Key(i, n) = r
      BY <2>2, InRemaining
    <3>2. PICK n \in DOMAIN pairs[i] : IsPending(i, n) /\ Key(i, n) = r
      BY <3>1
    <3>3. IsPending(i, n)'
      BY <1>4, <1>8, <2>2, <3>2
    <3> QED
      BY <1>1, <3>2, <3>3, InRemainingNext
  <2> QED
    BY <2>1, <2>2
<1>10. \A d : d \in Emitted' <=> d \in Emitted \/ d = key
  <2>1. key \in KeysOf(at)
    BY <1>4 DEF KeysOf
  <2> QED
    BY <1>1, <1>9, <2>1, InEmitted, InEmittedNext
<1>11. /\ DOMAIN minKey' = DOMAIN minKey \ {key}
       /\ \A k \in DOMAIN minKey' : k # key /\ k \in DOMAIN minKey /\ minKey'[k] = minKey[k] /\ minKey[k] # at
  <2>1. \A k \in DOMAIN minKey : minKey[k] = at => k = key
    BY <1>1, <1>4 DEF Entries
  <2> QED
    BY <1>6, <2>1
<1>12. MergeType'
  <2>1. minKey' = [k \in DOMAIN minKey' |-> minKey'[k]]
    BY <1>6
  <2>2. \A k \in DOMAIN minKey' : k \in Nat /\ minKey'[k] \in Tables
    BY <1>1, <1>11 DEF MergeType
  <2> QED
    BY <1>1, <1>6, <1>8, <2>1, <2>2, SettledType
<1>13. Iterators'
  <2>1. \A i \in Tables : iter'[i] \in 0 .. Len(pairs[i]) + 1
    <3> TAKE i \in Tables
    <3>1. CASE i = at
      BY <1>8, <3>1
    <3> QED
      BY <1>1, <1>8, <3>1 DEF Iterators
  <2>2. iter'[at] # 0
    BY <1>8
  <2> QED
    BY <1>1, <1>6, <1>7, <1>11, <2>1, <2>2 DEF Iterators
<1>14. \A i \in Tables : i # at => (AtEnd(i)' <=> AtEnd(i)) /\ KeyAt(i)' = KeyAt(i)
  BY <1>7, <1>8 DEF AtEnd, KeyAt
<1>15. Entries'
  <2>1. \A k \in DOMAIN minKey : minKey[k] \in Tables
    BY <1>1 DEF MergeType
  <2> QED
    BY <1>1, <1>8, <1>11, <1>14, <2>1 DEF Entries
<1>16. Tracked'
  <2> SUFFICES ASSUME NEW i \in Tables, i # at, iter'[i] # 0, ~AtEnd(i)'
               PROVE  \E k \in DOMAIN minKey' : k = KeyAt(i)' /\ minKey'[k] = i
    BY <1>1, <1>6, <1>7 DEF Tracked
  <2>1. PICK k \in DOMAIN minKey : k = KeyAt(i) /\ minKey[k] = i
    BY <1>1, <1>8, <1>14 DEF Tracked
  <2>2. k # key
    BY <1>4, <2>1
  <2> QED
    BY <1>11, <1>14, <2>1, <2>2
<1>17. NewestPending'
  <2> SUFFICES ASSUME NEW i \in Tables, NEW n \in DOMAIN pairs[i], Newest(i, n), Key(i, n) \in Remaining'
               PROVE  IsPending(i, n)'
    BY <1>1, <1>7 DEF NewestPending
  <2>1. Key(i, n) \in Remaining /\ Key(i, n) # key
    BY <1>9
  <2>2. IsPending(i, n)
    BY <1>1, <2>1 DEF NewestPending
  <2> QED
    BY <1>4, <1>8, <2>1, <2>2
<1>18. EmittedBelow'
  <2> SUFFICES ASSUME NEW d \in Emitted', NEW r \in Remaining' PROVE d < r
    BY DEF EmittedBelow
  <2>1. r \in Remaining /\ r # key /\ r \in Nat /\ key <= r /\ key \in Nat
    BY <1>4, <1>9
  <2>2. CASE d = key
    BY <2>1, <2>2
  <2>3. CASE d \in Emitted
    BY <1>1, <2>1, <2>3 DEF EmittedBelow
  <2> QED
    BY <1>10, <2>2, <2>3
<1>19. Output'
  <2> DEFINE K == Emitted \cap DOMAIN Kept
             K2 == Emitted' \cap DOMAIN Kept'
  <2>1. IsOutput(Kept, K, written, newTable, size) /\ Fit(Kept)
    BY <1>1, KeptFits DEF Output
  <2>2. IsOutput(Kept, K2, written', newTable', size')
    <3>1. CASE lastLevel /\ s = DEL
      <4>1. key \notin DOMAIN Kept
        BY <1>5, <3>1 DEF Kept, DropDeleted
      <4>2. K2 = K
        BY <1>7, <1>10, <4>1
      <4> HIDE DEF K, K2
      <4> QED
        BY <1>6, <2>1, <3>1, <4>2
    <3>2. CASE ~(lastLevel /\ s = DEL)
      <4>1. key \in DOMAIN Kept /\ Kept[key] = s
        BY <1>4, <1>5, <3>2 DEF Kept, DropDeleted
      <4>2. K2 = K \cup {key}
        BY <1>7, <1>10, <4>1
      <4>3. IsNext(Kept, K, key)
        <5>1. key \notin Emitted /\ \A j \in Emitted : j < key
          BY <1>1, <1>4, InEmitted DEF EmittedBelow
        <5>2. ASSUME NEW d \in DOMAIN Kept \ K
              PROVE  key <= d
          <6>1. \E i \in Tables : d \in KeysOf(i)
            <7>1. d \in UNION {KeysOf(i) : i \in Tables}
              BY <1>1, <5>2, KeptFits
            <7> QED
              BY <7>1
          <6>2. d \in Remaining
            BY <5>2, <6>1, InEmitted
          <6> QED
            BY <1>4, <6>2
        <5> QED
          BY <4>1, <5>1, <5>2 DEF IsNext
      <4>4. LET over == size + Bytes(Kept[key]) > TableSize
            IN /\ written' = IF over THEN Append(written, newTable) ELSE written
               /\ newTable' = IF over THEN <<<<key, Kept[key]>>>> ELSE Append(newTable, <<key, Kept[key]>>)
               /\ size' = IF over THEN InitialSize + Bytes(Kept[key]) ELSE size + Bytes(Kept[key])
        BY <1>6, <3>2, <4>1 DEF Overflows
      <4> HIDE DEF K, K2
      <4>5. IsOutput(Kept, K \cup {key}, written', newTable', size')
        BY <2>1, <4>3, <4>4, OutputGrows
      <4> QED
        BY <4>2, <4>5
    <3> QED
      BY <3>1, <3>2
  <2> QED
    BY <1>1, <1>7, <2>2 DEF Output
<1> QED
  BY <1>7, <1>12, <1>13, <1>15, <1>16, <1>17, <1>18, <1>19 DEF MergeInv

(* When minKey is empty, nothing is left to be written.                    *)
LEMMA FinishMerge ==
  ASSUME MergeInv, Finish
  PROVE  MergeInv'
<1>1. /\ MergeType /\ Iterators /\ Entries /\ Tracked /\ Output
      /\ pc = "merge" /\ pc' = "done" /\ Settled /\ DOMAIN minKey = {}
      /\ written' = IF newTable = <<>> THEN written ELSE Append(written, newTable)
      /\ iter' = iter /\ minKey' = minKey
  BY DEF MergeInv, Finish, Settled
<1>2. /\ Tables' = Tables /\ pairs' = pairs /\ (\E f : IsOrder(f))' /\ Kept' = Kept
      /\ (\A i : AtEnd(i)' <=> AtEnd(i)) /\ (\A i : KeyAt(i)' = KeyAt(i))
  BY <1>1, Settle, SameIterators DEF MergeInv
<1>3. MergeType'
  BY <1>1, HasColumns, SettledType DEF MergeType, Columns
<1>4. Iterators' /\ Entries' /\ Tracked'
  BY <1>1, <1>2 DEF Iterators, Entries, Tracked
<1>5. NewestPending' /\ EmittedBelow'
  BY <1>1 DEF NewestPending, EmittedBelow
<1>6. ASSUME NEW r \in Remaining
      PROVE  FALSE
  <2>1. PICK i \in Tables : \E n \in DOMAIN pairs[i] : IsPending(i, n) /\ Key(i, n) = r
    BY <1>6, InRemaining
  <2>2. iter[i] # 0 /\ ~AtEnd(i)
    BY <1>1, <2>1, HeadPosition
  <2> QED
    BY <1>1, <2>2 DEF Tracked
<1>7. Emitted \cap DOMAIN Kept = DOMAIN Kept
  <2> SUFFICES ASSUME NEW d \in DOMAIN Kept PROVE d \in Emitted
    OBVIOUS
  <2>1. d \in UNION {KeysOf(i) : i \in Tables}
    BY <1>1, KeptFits
  <2>2. \E i \in Tables : d \in KeysOf(i)
    BY <2>1
  <2> QED
    BY <1>6, <2>2, InEmitted
<1>8. IsOutput(Kept, DOMAIN Kept, written, newTable, size) /\ Fit(Kept)
  BY <1>1, <1>7, KeptFits DEF Output
<1>9. /\ written' = [n \in DOMAIN Split(Kept) |-> InOrder(Kept, Split(Kept)[n])]
      /\ \A n \in DOMAIN written' : written'[n] # <<>>
  BY <1>1, <1>8, OutputEnds
<1>10. Output'
  <2>1. Split(Kept)' = Split(Kept')
    BY DEF Split, Opens, Opening, Fill, Weights, Before, Bytes
  <2> QED
    BY <1>1, <1>2, <1>9 DEF Output
<1> QED
  BY <1>2, <1>3, <1>4, <1>5, <1>10 DEF MergeInv

LEMMA StutterMerge == MergeInv /\ UNCHANGED vars => MergeInv'
<1> SUFFICES ASSUME MergeInv, UNCHANGED vars PROVE MergeInv'
  OBVIOUS
<1>1. Settled /\ UNCHANGED <<iter, minKey, newTable, size, index, written, pc>>
  BY DEF vars, Settled
<1>2. /\ Tables' = Tables /\ pairs' = pairs /\ (\E f : IsOrder(f))' /\ Kept' = Kept /\ Remaining' = Remaining
      /\ (\A i, n : Key(i, n)' = Key(i, n) /\ (Newest(i, n)' <=> Newest(i, n)))
      /\ (\A i : AtEnd(i)' <=> AtEnd(i)) /\ (\A i : KeyAt(i)' = KeyAt(i))
      /\ (\A i, n : IsPending(i, n)' <=> IsPending(i, n))
  BY <1>1, Settle, SameIterators DEF MergeInv
<1>3. Emitted' = Emitted
  <2>1. \A i : KeysOf(i)' = KeysOf(i)
    BY <1>1, Settle
  <2> QED
    BY <1>2, <2>1 DEF Emitted
<1>4. MergeType'
  <2>1. All' = All /\ {Row(t) : t \in All}' = {Row(t) : t \in All}
    BY <1>1, Settle
  <2> QED
    BY <1>1, <1>2, <2>1 DEF MergeInv, MergeType, Settled
<1>5. Iterators' /\ Entries' /\ Tracked'
  BY <1>1, <1>2 DEF MergeInv, Iterators, Entries, Tracked
<1>6. NewestPending' /\ EmittedBelow'
  BY <1>1, <1>2, <1>3 DEF MergeInv, NewestPending, EmittedBelow
<1>7. Output'
  <2>1. Split(Kept)' = Split(Kept')
    BY DEF Split, Opens, Opening, Fill, Weights, Before, Bytes
  <2> QED
    BY <1>1, <1>2, <1>3 DEF MergeInv, Output
<1> QED
  BY <1>2, <1>4, <1>5, <1>6, <1>7 DEF MergeInv

LEMMA NextMerge == MergeInv /\ [Next]_vars => MergeInv'
BY ReadMerge, HeadsMerge, EmitMerge, UpdateMerge, FinishMerge, StutterMerge DEF Next, Done

LEMMA MergeInvariant == Spec => []MergeInv
<1>1. Init => MergeInv
  BY InitMerge
<1>2. MergeInv /\ [Next]_vars => MergeInv'
  BY NextMerge
<1> QED
  BY <1>1, <1>2, PTL DEF Spec

(* HeadsTracked: whenever the least key is taken, minKey has one entry for *)
(* every table that is not exhausted, at the key under its iterator.       *)
THEOREM HeadsFollowIterators == Spec => []HeadsTracked
<1>1. MergeInv => HeadsTracked
  BY DEF MergeInv, Entries, Tracked, HeadsTracked
<1> QED
  BY <1>1, MergeInvariant, PTL

-----------------------------------------------------------------------------
(* KVStore's step and the loops take the same pair of every key.  The      *)
(* order in which equally old tables were read is Merge's late: one of the *)
(* two is of the target level, and is late if it was read second.          *)
Surpasses(a, b, old, late) ==
  Older(b, a) \/ (SameAge(a, b) /\ (a \in late \/ (a \notin old /\ b \notin late)))

LEMMA Ages ==
  ASSUME input \in Inputs
  PROVE  /\ \A t, u \in All : SameAge(t, u) <=> t.ts = u.ts /\ t.lo = u.lo
         /\ \A t, u \in input.moved : t.ts = u.ts /\ t.lo = u.lo => t = u
         /\ \A t, u \in input.old : t.ts = u.ts /\ t.lo = u.lo => t = u
         /\ input.moved \cap input.old = {} /\ \A t \in All : t \in input.moved \/ t \in input.old
<1>1. ASSUME NEW t \in All, NEW u \in All
      PROVE  SameAge(t, u) <=> t.ts = u.ts /\ t.lo = u.lo
  <2>1. PICK a \in Nat, b \in Nat, c \in Nat, d \in Nat : a = t.ts /\ b = t.lo /\ c = u.ts /\ d = u.lo
    BY TableFacts
  <2>2. SameAge(t, u) <=> a = c /\ b = d
    BY <2>1 DEF SameAge, Older
  <2> QED
    BY <2>1, <2>2
<1>2. /\ \A t, u \in input.moved : SameAge(t, u) => t = u
      /\ \A t, u \in input.old : SameAge(t, u) => t = u
      /\ input.moved \cap input.old = {}
  BY MergeAssumption
<1>3. \A t : t \in All <=> t \in input.moved \/ t \in input.old
  BY DEF All
<1> QED
  BY <1>1, <1>2, <1>3

LEMMA LaterSurpasses ==
  ASSUME MergeType, unread = {}, NEW f, IsOrder(f)
  PROVE  \E late \in SUBSET input.old : \A i, j \in Tables : i < j =>
           Surpasses(f[j], f[i], input.old, late) /\ ~Surpasses(f[i], f[j], input.old, late)
<1> DEFINE Second(j) == f[j] \in input.old
                        /\ \E i \in Tables : i < j /\ f[i] \in input.moved /\ SameAge(f[i], f[j])
           late == {f[j] : j \in {j \in Tables : Second(j)}}
<1>1. /\ Len(pairs) \in Nat /\ Tables = 1 .. Len(pairs) /\ f \in [Tables -> All] /\ input \in Inputs
      /\ \A i, j \in Tables : i < j => f[i] # f[j] /\ ~Older(f[j], f[i])
  BY HasColumns DEF Columns, IsOrder, MergeType
<1>2. \A i, j \in Tables : f[i] = f[j] => i = j
  BY <1>1
<1>3. \A j \in Tables : f[j] \in late <=> Second(j)
  BY <1>2
<1>4. late \in SUBSET input.old
  OBVIOUS
<1> HIDE DEF late
<1>5. /\ \A i, j \in Tables : SameAge(f[i], f[j]) <=> f[i].ts = f[j].ts /\ f[i].lo = f[j].lo
      /\ \A i, j \in Tables : f[i] \in input.moved /\ f[j] \in input.moved /\ SameAge(f[i], f[j]) => i = j
      /\ \A i, j \in Tables : f[i] \in input.old /\ f[j] \in input.old /\ SameAge(f[i], f[j]) => i = j
      /\ \A i \in Tables : f[i] \in input.moved \/ f[i] \in input.old
      /\ \A i \in Tables : ~(f[i] \in input.moved /\ f[i] \in input.old)
  <2>1. \A i \in Tables : f[i] \in All
    BY <1>1
  <2> QED
    BY <1>1, <1>2, <2>1, Ages
<1>6. \A i, j, k \in Tables : SameAge(f[i], f[j]) /\ SameAge(f[j], f[k]) => SameAge(f[i], f[k])
  BY <1>5
<1>7. \A i, j \in Tables : SameAge(f[i], f[j]) => SameAge(f[j], f[i])
  BY <1>5
<1>8. ASSUME NEW i \in Tables, NEW j \in Tables, i < j
      PROVE  Surpasses(f[j], f[i], input.old, late) /\ ~Surpasses(f[i], f[j], input.old, late)
  <2>1. ~Older(f[j], f[i]) /\ i # j
    BY <1>1, <1>8
  <2>2. CASE Older(f[i], f[j])
    BY <2>1, <2>2 DEF Surpasses, SameAge
  <2>3. CASE ~Older(f[i], f[j])
    <3>1. SameAge(f[i], f[j]) /\ SameAge(f[j], f[i])
      BY <2>1, <2>3 DEF SameAge
    <3>2. CASE f[j] \in input.old
      <4>1. f[i] \in input.moved /\ f[i] \notin input.old
        BY <1>5, <2>1, <3>1, <3>2
      <4>2. f[j] \in late /\ f[i] \notin late
        BY <1>3, <1>4, <1>8, <3>1, <3>2, <4>1
      <4> QED
        BY <2>1, <3>1, <4>2 DEF Surpasses
    <3>3. CASE f[j] \in input.moved
      <4>1. f[i] \in input.old /\ f[j] \notin input.old
        BY <1>5, <2>1, <3>1, <3>3
      <4>2. f[i] \notin late
        <5> SUFFICES ASSUME NEW h \in Tables, h < i, f[h] \in input.moved, SameAge(f[h], f[i]) PROVE FALSE
          BY <1>3
        <5>1. SameAge(f[h], f[j])
          BY <1>6, <3>1
        <5>2. h = j
          BY <1>5, <3>3, <5>1
        <5> QED
          BY <1>1, <1>8, <5>2
      <4>3. f[j] \notin late
        BY <1>4, <4>1
      <4> QED
        BY <2>1, <3>1, <4>1, <4>2, <4>3 DEF Surpasses
    <3> QED
      BY <1>5, <3>2, <3>3
  <2> QED
    BY <2>2, <2>3
<1> QED
  BY <1>4, <1>8

LEMMA MergeOfTables ==
  ASSUME MergeType, unread = {}, NEW f, IsOrder(f)
  PROVE  \E late \in SUBSET input.old : Merge(All, input.old, late) = Merged
<1>1. PICK late \in SUBSET input.old : \A i, j \in Tables : i < j =>
           Surpasses(f[j], f[i], input.old, late) /\ ~Surpasses(f[i], f[j], input.old, late)
  BY LaterSurpasses
<1>2. /\ Len(pairs) \in Nat /\ Tables = 1 .. Len(pairs) /\ f \in [Tables -> All] /\ input \in Inputs
      /\ \A t \in All : \E i \in Tables : f[i] = t
      /\ \A i \in Tables : pairs[i] = Row(f[i])
  BY HasColumns DEF Columns, IsOrder, MergeType
<1>3. ASSUME NEW i \in Tables
      PROVE  /\ KeysOf(i) = DOMAIN f[i].kv
             /\ \A n \in DOMAIN pairs[i] : pairs[i][n][2] = f[i].kv[Key(i, n)]
  <2>1. PICK t \in All : t = f[i]
    BY <1>2
  <2>2. PICK row : row = pairs[i] /\ IsRow(row, t.kv, DOMAIN t.kv)
    BY <1>2, <2>1, TableFacts
  <2>3. \A n \in DOMAIN row : row[n][1] \in DOMAIN t.kv /\ row[n] = <<row[n][1], t.kv[row[n][1]]>>
    BY <2>2 DEF IsRow
  <2>4. \A k \in DOMAIN t.kv : \E n \in DOMAIN row : row[n][1] = k
    BY <2>2 DEF IsRow
  <2>5. KeysOf(i) = DOMAIN t.kv
    <3>1. KeysOf(i) = {row[n][1] : n \in DOMAIN row}
      BY <2>2 DEF KeysOf, Key
    <3> QED
      BY <2>3, <2>4, <3>1
  <2>6. \A n \in DOMAIN row : row[n][2] = t.kv[row[n][1]]
    BY <2>3
  <2> QED
    BY <2>1, <2>2, <2>5, <2>6 DEF Key
<1> DEFINE holders(k) == {t \in All : k \in DOMAIN t.kv}
           winner(k) == CHOOSE t \in holders(k) : \A u \in holders(k) \ {t} : Surpasses(t, u, input.old, late)
           D == UNION {DOMAIN t.kv : t \in All}
<1>4. Merge(All, input.old, late) = [k \in D |-> winner(k).kv[k]]
  BY DEF Merge, Surpasses
<1>5. \A k : k \in D <=> \E i \in Tables : k \in KeysOf(i)
  <2>1. \A k : k \in D <=> \E t \in All : k \in DOMAIN t.kv
    OBVIOUS
  <2>2. \A k : (\E t \in All : k \in DOMAIN t.kv) <=> \E i \in Tables : k \in DOMAIN f[i].kv
    BY <1>2
  <2>3. \A i \in Tables : KeysOf(i) = DOMAIN f[i].kv
    BY <1>3
  <2>4. \A k : (\E i \in Tables : k \in DOMAIN f[i].kv) <=> \E i \in Tables : k \in KeysOf(i)
    BY ONLY <2>3
  <2> HIDE DEF D
  <2> QED
    BY ONLY <2>1, <2>2, <2>4
<1>6. D = DOMAIN Merged
  <2>1. DOMAIN Merged = UNION {KeysOf(i) : i \in Tables}
    BY DEF Merged
  <2>2. \A k : k \in DOMAIN Merged <=> \E i \in Tables : k \in KeysOf(i)
    BY <2>1
  <2>3. \A k : k \in D <=> k \in DOMAIN Merged
    BY <1>5, <2>2
  <2> QED
    BY <2>1, <2>3
<1>7. ASSUME NEW k \in D
      PROVE  winner(k).kv[k] = Merged[k]
  <2>1. PICK i \in Tables : k \in KeysOf(i)
    BY <1>5
  <2>2. PICK n \in DOMAIN pairs[i] : Key(i, n) = k
    BY <2>1 DEF KeysOf
  <2>3. PICK w \in Tables : \E m \in DOMAIN pairs[w] : Newest(w, m) /\ Key(w, m) = k
    BY <2>2, NewestExists
  <2>4. PICK m \in DOMAIN pairs[w] : Newest(w, m) /\ Key(w, m) = k
    BY <2>3
  <2>5. Merged[k] = f[w].kv[k] /\ f[w] \in holders(k)
    <3>1. k \in KeysOf(w)
      BY <2>4 DEF KeysOf
    <3> QED
      BY <1>2, <1>3, <2>4, <3>1, MergedValue
  <2>6. \A u \in holders(k) : \E j \in Tables : f[j] = u /\ (j = w \/ j < w)
    <3> TAKE u \in holders(k)
    <3>1. PICK j \in Tables : f[j] = u
      BY <1>2
    <3>2. k \in KeysOf(j)
      BY <1>3, <3>1
    <3>3. ~(w < j)
      BY <2>4, <3>2 DEF Newest
    <3> QED
      BY <1>2, <3>1, <3>3
  <2>7. /\ \A u \in holders(k) \ {f[w]} : Surpasses(f[w], u, input.old, late)
        /\ \A u \in holders(k) \ {f[w]} : ~Surpasses(u, f[w], input.old, late)
    BY <1>1, <2>6
  <2>8. winner(k) = f[w]
    <3> HIDE DEF holders
    <3> QED
      BY <2>5, <2>7
  <2> QED
    BY <2>5, <2>8
<1>8. Merged = [k \in D |-> Merged[k]]
  BY <1>6 DEF Merged
<1>9. Merge(All, input.old, late) = Merged
  <2> HIDE DEF D, winner
  <2> QED
    BY <1>4, <1>7, <1>8
<1> QED
  BY <1>9

(* MergeIsRight: what the loops of compactionForLevel write is what        *)
(* KVStore's compaction step writes, and no table written is empty.        *)
THEOREM LoopsMerge == Spec => []MergeIsRight
<1>1. ASSUME MergeInv
      PROVE  MergeIsRight
  <2>1. MergeType /\ Output
    BY <1>1 DEF MergeInv
  <2>2. \A n \in DOMAIN written : written[n] # <<>>
    <3>1. CASE pc \in {"read", "heads"}
      BY <2>1, <3>1 DEF Output
    <3>2. CASE pc \in {"merge", "update"}
      <4>1. PICK K : IsOutput(Kept, K, written, newTable, size)
        BY <2>1, <3>2 DEF Output
      <4>2. CASE K = {}
        BY <4>1, <4>2 DEF IsOutput
      <4>3. CASE K # {}
        <5>1. PICK c \in Nat : /\ written = [n \in 1 .. (c - 1) |-> InOrder(Kept, Part(Kept, n))]
                              /\ \A n \in 1 .. (c - 1) : written[n] # <<>>
          BY <4>1, <4>3 DEF IsOutput
        <5>2. DOMAIN written = 1 .. (c - 1)
          BY <5>1
        <5> QED
          BY <5>1, <5>2
      <4> QED
        BY <4>2, <4>3
    <3>3. CASE pc = "done"
      BY <2>1, <3>3 DEF Output
    <3> QED
      BY <2>1, <3>1, <3>2, <3>3 DEF MergeType
  <2>3. ASSUME pc = "done"
        PROVE  \E late \in SUBSET input.old : written = Expected(late)
    <3>1. unread = {}
      BY <2>1, <2>3 DEF MergeType
    <3>2. PICK f : IsOrder(f)
      BY <1>1 DEF MergeInv
    <3>3. PICK late \in SUBSET input.old : Merge(All, input.old, late) = Merged
      BY <2>1, <3>1, <3>2, MergeOfTables
    <3>4. written = [n \in DOMAIN Split(Kept) |-> InOrder(Kept, Split(Kept)[n])]
      BY <2>1, <2>3 DEF Output
    <3>5. Kept = IF lastLevel THEN DropDeleted(Merge(All, input.old, late)) ELSE Merge(All, input.old, late)
      BY <3>3 DEF Kept
    <3>6. Expected(late) = [n \in DOMAIN Split(Kept) |-> InOrder(Kept, Split(Kept)[n])]
      BY <3>5 DEF Expected, All
    <3> QED
      BY <3>4, <3>6
  <2> QED
    BY <2>2, <2>3 DEF MergeIsRight
<1>2. MergeInv => MergeIsRight
  BY <1>1
<1> QED
  BY <1>2, MergeInvariant, PTL
=============================================================================
