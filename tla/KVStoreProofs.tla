---------------------------- MODULE KVStoreProofs ----------------------------
(***************************************************************************)
(* The log-structured merge tree, proved for any keys, strings, sizes and  *)
(* bounds of the levels: the shape of the tree, and that the store is the  *)
(* map KeyValueMap as long as no compaction merges equally old tables.     *)
(***************************************************************************)
EXTENDS KVStore, Induction

-----------------------------------------------------------------------------
(* What is written to the tables of a compaction: every key once, in order, *)
(* and never an empty table.                                               *)
THEOREM Parts ==
  ASSUME NEW kv, IsFiniteSet(DOMAIN kv), DOMAIN kv \in SUBSET Nat
  PROVE  \E n \in Nat :
           /\ DOMAIN Split(kv) = 1 .. n
           /\ \A i \in 1 .. n : Split(kv)[i] \in SUBSET DOMAIN kv /\ Split(kv)[i] # {}
           /\ \A i, j \in 1 .. n : i < j => \A a \in Split(kv)[i], b \in Split(kv)[j] : a < b
           /\ \A k \in DOMAIN kv : \E i \in 1 .. n : k \in Split(kv)[i]
<1> PICK O : O = Opens(kv)
  OBVIOUS
<1> DEFINE n == Cardinality(O)
           UpTo(k) == {f \in O : f <= k}
<1>1. /\ O \in SUBSET DOMAIN kv
      /\ \A k \in DOMAIN kv : {j \in DOMAIN kv : j < k} = {} => k \in O
  BY DEF Opens, Opening, Weights, Before
<1>2. Split(kv) = [i \in 1 .. n |-> {k \in DOMAIN kv : Cardinality(UpTo(k)) = i}]
  BY DEF Split
<1>3. IsFiniteSet(O) /\ n \in Nat
  BY <1>1, FS_Subset, FS_CardinalityType
<1>4. \A k \in Nat : UpTo(k) \in SUBSET O /\ IsFiniteSet(UpTo(k)) /\ Cardinality(UpTo(k)) \in 0 .. n
  <2> SUFFICES ASSUME NEW k \in Nat
               PROVE  UpTo(k) \in SUBSET O /\ IsFiniteSet(UpTo(k)) /\ Cardinality(UpTo(k)) \in 0 .. n
    OBVIOUS
  <2>1. UpTo(k) \in SUBSET O
    OBVIOUS
  <2> HIDE DEF UpTo
  <2> QED
    BY <1>3, <2>1, FS_Subset, FS_CardinalityType
<1>5. \A a, b \in Nat : a <= b => Cardinality(UpTo(a)) <= Cardinality(UpTo(b))
  <2> SUFFICES ASSUME NEW a \in Nat, NEW b \in Nat, a <= b
               PROVE  Cardinality(UpTo(a)) <= Cardinality(UpTo(b))
    OBVIOUS
  <2>1. UpTo(a) \in SUBSET UpTo(b)
    BY <1>1
  <2> HIDE DEF UpTo
  <2> QED
    BY <1>4, <2>1, FS_Subset
<1>6. \A i \in 1 .. n : \E k \in O : Cardinality(UpTo(k)) = i
  <2> SUFFICES ASSUME NEW i \in 1 .. n PROVE \E k \in O : Cardinality(UpTo(k)) = i
    OBVIOUS
  <2>1. /\ \A x \in O : <<x, x>> \notin Less
        /\ \A x, y \in O : x = y \/ <<x, y>> \in Less \/ <<y, x>> \in Less
        /\ \A x, y, z \in O : <<x, y>> \in Less /\ <<y, z>> \in Less => <<x, z>> \in Less
    BY <1>1, LessRelation
  <2>2. \A r \in 0 .. (n - 1) : \E x \in O : Rank(x, O, Less) = r
    BY <1>3, <2>1, Ranks
  <2>3. i - 1 \in 0 .. (n - 1)
    BY <1>3
  <2>4. PICK k \in O : Rank(k, O, Less) = i - 1
    BY <2>2, <2>3
  <2> DEFINE B == {y \in O : <<y, k>> \in Less}
  <2>5. UpTo(k) = B \cup {k} /\ k \notin B /\ B \in SUBSET O
    BY <1>1, LessRelation
  <2> HIDE DEF B
  <2>6. IsFiniteSet(B) /\ Cardinality(B) = i - 1
    BY <1>3, <2>4, <2>5, FS_Subset DEF Rank, B
  <2>7. Cardinality(B \cup {k}) = Cardinality(B) + 1
    BY <2>5, <2>6, FS_AddElement
  <2>8. Cardinality(UpTo(k)) = i
    <3> HIDE DEF UpTo
    <3> QED
      BY <2>5, <2>6, <2>7
  <2> QED
    BY <2>8
<1>7. ASSUME NEW k \in DOMAIN kv
      PROVE  Cardinality(UpTo(k)) \in 1 .. n
  <2>1. PICK m \in DOMAIN kv : \A j \in DOMAIN kv : m <= j
    BY LeastNumber
  <2>2. m \in UpTo(k)
    BY <1>1, <2>1
  <2>3. Cardinality(UpTo(k)) # 0
    <3> HIDE DEF UpTo
    <3> QED
      BY <1>4, <2>2, FS_EmptySet
  <2> QED
    BY <1>3, <1>4, <2>3
<1> HIDE DEF n, UpTo
<1>8. \A i \in 1 .. n : Split(kv)[i] = {k \in DOMAIN kv : Cardinality(UpTo(k)) = i}
  BY <1>2
<1>9. \A i, j \in 1 .. n : i < j => \A a \in Split(kv)[i], b \in Split(kv)[j] : a < b
  <2> SUFFICES ASSUME NEW i \in 1 .. n, NEW j \in 1 .. n, i < j,
                      NEW a \in Split(kv)[i], NEW b \in Split(kv)[j], ~(a < b)
               PROVE  FALSE
    OBVIOUS
  <2>1. a \in Nat /\ b \in Nat /\ Cardinality(UpTo(a)) = i /\ Cardinality(UpTo(b)) = j
    BY <1>8
  <2>2. b <= a
    BY <2>1
  <2>3. j <= i
    BY <1>5, <2>1, <2>2
  <2> QED
    BY <1>3, <2>3
<1>10. \A k \in DOMAIN kv : \E i \in 1 .. n : k \in Split(kv)[i]
  BY <1>7, <1>8
<1>11. \A i \in 1 .. n : Split(kv)[i] \in SUBSET DOMAIN kv /\ Split(kv)[i] # {}
  BY <1>1, <1>6, <1>8
<1> QED
  BY <1>2, <1>3, <1>9, <1>10, <1>11

-----------------------------------------------------------------------------
(* Table t has the last word on key k.                                     *)
HoldsLast(t, tables, k) ==
  /\ t \in tables /\ k \in DOMAIN t.kv
  /\ \A u \in tables : k \in DOMAIN u.kv => ~Older(t, u)

LastWord(s, tables, k) == \E t \in tables : HoldsLast(t, tables, k) /\ s = t.kv[k]

(* Of the pairs that several tables have for a key, the one of a newest    *)
(* table remains, whichever way the heap treats tables of the same age,    *)
(* provided that neither level has two such tables.                        *)
THEOREM Merged ==
  ASSUME NEW tables, IsFiniteSet(tables), NEW old, NEW late \in SUBSET old,
         \A t \in tables : t.ts \in Nat /\ t.lo \in Nat,
         \A a, b \in tables : SameAge(a, b) /\ (a \in old <=> b \in old) => a = b
  PROVE  /\ DOMAIN Merge(tables, old, late) = UNION {DOMAIN t.kv : t \in tables}
         /\ \A k \in DOMAIN Merge(tables, old, late) :
              LastWord(Merge(tables, old, late)[k], tables, k)
<1> DEFINE Later(a, b) == Older(b, a) \/ (SameAge(a, b) /\ (a \in late \/ (a \notin old /\ b \notin late)))
           holders(k) == {t \in tables : k \in DOMAIN t.kv}
<1>1. Merge(tables, old, late) =
        [k \in UNION {DOMAIN t.kv : t \in tables} |->
           (CHOOSE t \in holders(k) : \A u \in holders(k) \ {t} : Later(t, u)).kv[k]]
  BY DEF Merge
<1>2. ASSUME NEW k \in UNION {DOMAIN t.kv : t \in tables}
      PROVE  \E t \in holders(k) : \A u \in holders(k) \ {t} : Later(t, u)
  <2> PICK H : H = holders(k)
    OBVIOUS
  <2>1. H \in SUBSET tables /\ H # {} /\ IsFiniteSet(H)
    <3>1. H \in SUBSET tables /\ H # {}
      OBVIOUS
    <3> QED
      BY <3>1, FS_Subset
  <2> DEFINE R == {p \in tables \X tables : Older(p[1], p[2])}
  <2>2. \A a, b \in H : <<a, b>> \in R <=> Older(a, b)
    BY <2>1
  <2> HIDE DEF R
  <2>3. PICK t \in H : \A u \in H : ~Older(t, u)
    <3>1. /\ \A x \in H : <<x, x>> \notin R
          /\ \A x, y, z \in H : <<x, y>> \in R /\ <<y, z>> \in R => <<x, z>> \in R
      BY <2>1, <2>2 DEF Older
    <3>2. \E t \in H : \A u \in H : <<t, u>> \notin R
      BY ONLY <2>1, <3>1, MaximalElement
    <3> QED
      BY <2>2, <3>2
  <2>4. \A u \in H : Older(u, t) \/ SameAge(t, u)
    BY <2>3 DEF SameAge
  <2>5. CASE \E v \in H \ {t} : SameAge(t, v)
    <3>1. PICK v \in H \ {t} : SameAge(t, v)
      BY <2>5
    <3>2. ~(t \in old <=> v \in old)
      BY <2>1, <3>1
    <3>3. \A u \in H \ {t, v} : Older(u, t) /\ Older(u, v)
      <4> SUFFICES ASSUME NEW u \in H \ {t, v} PROVE Older(u, t) /\ Older(u, v)
        OBVIOUS
      <4>1. ~SameAge(t, u)
        <5> SUFFICES ASSUME SameAge(t, u) PROVE FALSE
          OBVIOUS
        <5>1. SameAge(v, u)
          BY <2>1, <3>1 DEF SameAge, Older
        <5> QED
          BY <2>1, <3>2, <5>1
      <4>2. Older(u, t)
        BY <2>4, <4>1
      <4> QED
        BY <2>1, <3>1, <4>2 DEF SameAge, Older
    <3>4. SameAge(v, t)
      BY <3>1 DEF SameAge
    <3>5. Later(t, v) \/ Later(v, t)
      BY <3>1, <3>2, <3>4
    <3> QED
      BY <3>1, <3>3, <3>5
  <2>6. CASE ~\E v \in H \ {t} : SameAge(t, v)
    BY <2>4, <2>6
  <2> QED
    BY <2>5, <2>6
<1>3. ASSUME NEW k \in UNION {DOMAIN t.kv : t \in tables}
      PROVE  LastWord(Merge(tables, old, late)[k], tables, k)
  <2>1. PICK t : /\ t \in holders(k) /\ \A u \in holders(k) \ {t} : Later(t, u)
                 /\ t = CHOOSE x \in holders(k) : \A u \in holders(k) \ {x} : Later(x, u)
    BY <1>2
  <2>2. Merge(tables, old, late)[k] = t.kv[k]
    BY <1>1, <2>1
  <2>3. ASSUME NEW u \in holders(k)
        PROVE  ~Older(t, u)
    <3>1. t.ts \in Nat /\ t.lo \in Nat /\ u.ts \in Nat /\ u.lo \in Nat
      BY <2>1
    <3>2. CASE u = t
      BY <3>1, <3>2 DEF Older
    <3>3. CASE u # t
      <4>1. Older(u, t) \/ SameAge(t, u)
        BY <2>1, <3>3
      <4> QED
        BY <3>1, <4>1 DEF SameAge, Older
    <3> QED
      BY <3>2, <3>3
  <2> QED
    BY <2>1, <2>2, <2>3 DEF HoldsLast, LastWord
<1> QED
  BY <1>1, <1>3

-----------------------------------------------------------------------------

(* A table is older than the next one to be flushed, and its range covers  *)
(* its keys.                                                               *)
TableOK(t) ==
  /\ t.ts < timeStamp
  /\ t.lo <= t.hi
  /\ \A k \in DOMAIN t.kv : t.lo <= k /\ k <= t.hi /\ t.kv[k] # Empty

TreeInv ==
  /\ TypeOK
  /\ \E n \in Nat : Levels = 0 .. n
  /\ \A i \in Levels : IsFiniteSet(SSTable[i]) /\ \A t \in SSTable[i] : TableOK(t)
  /\ \A a, b \in SSTable[0] : a.ts = b.ts => a = b
  /\ DisjointLevels
  /\ TimestampOrder
  /\ NoMarkAtBottom

(* The memtable is empty exactly while a put is flushing it.               *)
MemInv ==
  /\ pending # <<>> <=> pc # "idle"
  /\ pc # "idle" => DOMAIN mem = {} /\ pending[2] # Empty
  /\ pc = "idle" /\ DOMAIN mem = {} => memory = InitialSize
  /\ mem \in [DOMAIN mem -> Strings]
  /\ \A k \in DOMAIN mem : minKey <= k /\ k <= maxKey /\ mem[k] # Empty

(* Only the level that has just received tables may have too many.  Level  *)
(* 0 has as many as its counter says until they are all taken down.        *)
Counted ==
  /\ pc = "compact" => level - 1 \in Levels
  /\ pc = "compact" /\ level # 1 => SSTable[0] = {}
  /\ pc = "compact" /\ level = 1 => Cardinality(SSTable[0]) = Level[0] /\ Level[0] = Level0 + 1
  /\ pc # "compact" => Cardinality(SSTable[0]) = Level[0] /\ Level[0] <= Level0
  /\ \A i \in Levels \ {0} : (pc = "compact" /\ i = level - 1) \/ Cardinality(SSTable[i]) <= UpperNum[i]

(* The numbers of a level's tables.                                        *)
Numbered ==
  \A i \in Levels :
    /\ \A t \in SSTable[i] : 1 <= t.order /\ t.order <= Level[i]
    /\ \A a, b \in SSTable[i] : a.order = b.order => a = b

(* What get returns, also while a put is at work: all but its own pair,    *)
(* which is a deletion only of a key that has a value.                     *)
Reads ==
  ~tied =>
    /\ \A k \in Keys : pc = "idle" \/ k # pending[1] => Get(k) = Visible(db[k])
    /\ pc # "idle" => db[pending[1]] = pending[2] /\ (pending[2] = DEL => Get(pending[1]) # Empty)

(* The inductive invariant.                                                *)
StoreInv == TreeInv /\ MemInv /\ Counted /\ Numbered /\ FilesMatch /\ Reads

-----------------------------------------------------------------------------
(* The parameters.                                                         *)
LEMMA StoreConstants ==
  /\ IsFiniteSet(Keys) /\ Keys \in SUBSET Nat
  /\ SignedMax \in Nat
  /\ DEL \notin Values /\ DEL # Empty /\ Empty \notin Values
  /\ Level0 \in Nat /\ Upper1 \in Nat /\ Fanout \in Nat /\ MaxFlushes \in Nat
  /\ TableSize \in Nat /\ InitialSize \in Nat /\ ClearedSize \in Nat /\ PairSize \in Nat
  /\ Word \in Nat /\ TableSize < Word
  /\ \A v \in Values \cup {DEL, Empty} : Size[v] \in Nat
  /\ \A v \in Values \cup {DEL} : /\ InitialSize + PairSize + Size[v] \in 0 .. TableSize
                                  /\ ClearedSize + PairSize + Size[v] \in 0 .. TableSize
BY StoreAssumption

(* The bounds of the levels are numbers: the recursion that defines them   *)
(* has a solution.                                                         *)
LEMMA UpperNumType == \A i \in Nat \ {0} : UpperNum[i] \in Nat
<1> DEFINE D == Nat \ {0}
           Times(x) == Fanout * x
           Solves(g, m) == \A i \in 1 .. m : g[i] = IF i = 1 THEN Upper1 ELSE Times(g[i - 1])
<1>1. \A x \in Nat : Times(x) \in Nat
  BY StoreConstants
<1>2. UpperNum = CHOOSE f : f = [i \in D |-> IF i = 1 THEN Upper1 ELSE Times(f[i - 1])]
  BY DEF UpperNum
<1> HIDE DEF Times
<1>3. \A m \in D : \E g \in [D -> Nat] : Solves(g, m)
  <2> SUFFICES ASSUME NEW k \in D, ~\E g \in [D -> Nat] : Solves(g, k)
               PROVE  FALSE
    OBVIOUS
  <2> DEFINE Bad == {m \in D : ~\E g \in [D -> Nat] : Solves(g, m)}
  <2>1. PICK m \in Bad : \A j \in Bad : m <= j
    <3>1. Bad \in SUBSET Nat /\ k \in Bad
      OBVIOUS
    <3> HIDE DEF Bad
    <3> QED
      BY <3>1, LeastNumber
  <2>2. m # 1
    <3> SUFFICES ASSUME m = 1 PROVE FALSE
      OBVIOUS
    <3>1. [i \in D |-> Upper1] \in [D -> Nat] /\ Solves([i \in D |-> Upper1], 1)
      BY StoreConstants
    <3> QED
      BY <2>1, <3>1
  <2>3. m - 1 \in D /\ m - 1 < m
    BY <2>2
  <2>4. PICK g \in [D -> Nat] : Solves(g, m - 1)
    BY <2>1, <2>3
  <2> DEFINE h == [i \in D |-> IF i = m THEN Times(g[m - 1]) ELSE g[i]]
  <2>5. h \in [D -> Nat]
    BY <1>1, <2>3
  <2>6. Solves(h, m)
    BY <2>2, <2>3, <2>4
  <2> QED
    BY <2>1, <2>5, <2>6
<1>4. ASSUME NEW m \in D, NEW g \in [D -> Nat], NEW h \in [D -> Nat], Solves(g, m), Solves(h, m)
      PROVE  g[m] = h[m]
  <2> DEFINE Bad == {i \in 1 .. m : g[i] # h[i]}
  <2> SUFFICES ASSUME Bad # {} PROVE FALSE
    OBVIOUS
  <2>1. PICK i \in Bad : \A j \in Bad : i <= j
    <3>1. Bad \in SUBSET Nat
      OBVIOUS
    <3> HIDE DEF Bad
    <3> QED
      BY <3>1, LeastNumber
  <2>2. CASE i = 1
    BY <1>4, <2>1, <2>2
  <2>3. CASE i # 1
    <3>1. i - 1 \in 1 .. m /\ i - 1 \notin Bad
      BY <2>1, <2>3
    <3> QED
      BY <1>4, <2>1, <2>3, <3>1
  <2> QED
    BY <2>2, <2>3
<1> DEFINE G(m) == CHOOSE g \in [D -> Nat] : Solves(g, m)
           f == [m \in D |-> G(m)[m]]
<1>5. \A m \in D : G(m) \in [D -> Nat] /\ Solves(G(m), m)
  BY <1>3
<1> HIDE DEF G
<1>6. \A i \in D : f[i] = IF i = 1 THEN Upper1 ELSE Times(f[i - 1])
  <2> SUFFICES ASSUME NEW i \in D PROVE G(i)[i] = IF i = 1 THEN Upper1 ELSE Times(f[i - 1])
    OBVIOUS
  <2>1. CASE i = 1
    BY <1>5, <2>1
  <2>2. CASE i # 1
    <3>1. i - 1 \in D
      BY <2>2
    <3>2. Solves(G(i), i - 1)
      BY <1>5
    <3>3. G(i)[i - 1] = G(i - 1)[i - 1]
      BY <1>4, <1>5, <3>1, <3>2
    <3>4. G(i)[i] = Times(G(i)[i - 1])
      BY <1>5, <2>2
    <3> QED
      BY <2>2, <3>1, <3>3, <3>4
  <2> QED
    BY <2>1, <2>2
<1>7. f = [i \in D |-> IF i = 1 THEN Upper1 ELSE Times(f[i - 1])]
  BY <1>6
<1>8. UpperNum = [i \in D |-> IF i = 1 THEN Upper1 ELSE Times(UpperNum[i - 1])]
  <2> HIDE DEF f
  <2> QED
    BY <1>2, <1>7
<1> HIDE DEF f
<1> DEFINE Bad == {i \in D : UpperNum[i] \notin Nat}
<1> SUFFICES ASSUME Bad # {} PROVE FALSE
  OBVIOUS
<1>9. PICK i \in Bad : \A j \in Bad : i <= j
  <2>1. Bad \in SUBSET Nat
    OBVIOUS
  <2> HIDE DEF Bad
  <2> QED
    BY <2>1, LeastNumber
<1>10. CASE i = 1
  BY <1>8, <1>9, <1>10, StoreConstants
<1>11. CASE i # 1
  <2>1. i - 1 \in D /\ i - 1 \notin Bad
    BY <1>9, <1>11
  <2>2. UpperNum[i] = Times(UpperNum[i - 1])
    BY <1>8, <1>11
  <2> QED
    BY <1>1, <1>9, <2>1, <2>2
<1> QED
  BY <1>10, <1>11

-----------------------------------------------------------------------------
(* Taking the n oldest of a level's tables, no two of which are equally    *)
(* old, takes n tables, each older than any that stays.                    *)
LEMMA OldestTaken ==
  ASSUME NEW S, IsFiniteSet(S), \A t \in S : t.ts \in Nat /\ t.lo \in Nat,
         \A a, b \in S : SameAge(a, b) => a = b,
         NEW n \in 0 .. Cardinality(S)
  PROVE  /\ Cardinality(S) \in Nat
         /\ Oldest(S, n) \in SUBSET S /\ Cardinality(Oldest(S, n)) = n
         /\ \A a \in Oldest(S, n), b \in S \ Oldest(S, n) : Older(a, b)
<1> DEFINE R == {p \in S \X S : Older(p[1], p[2])}
<1>1. \A a, b \in S : <<a, b>> \in R <=> Older(a, b)
  OBVIOUS
<1> HIDE DEF R
<1>2. /\ \A x \in S : <<x, x>> \notin R
      /\ \A x, y, z \in S : <<x, y>> \in R /\ <<y, z>> \in R => <<x, z>> \in R
  BY <1>1 DEF Older
<1>3. \A x, y \in S : x = y \/ <<x, y>> \in R \/ <<y, x>> \in R
  BY <1>1 DEF SameAge
<1>4. /\ Cardinality(S) \in Nat
      /\ \A x \in S : Rank(x, S, R) \in 0 .. (Cardinality(S) - 1)
      /\ \A x, y \in S : <<x, y>> \in R <=> Rank(x, S, R) < Rank(y, S, R)
      /\ Cardinality({x \in S : Rank(x, S, R) < n}) = n
  BY ONLY <1>2, <1>3, IsFiniteSet(S), n \in 0 .. Cardinality(S), Ranks
<1>5. \A x \in S : {u \in S : Older(u, x)} = {u \in S : <<u, x>> \in R}
  BY <1>1
<1>6. Oldest(S, n) = {x \in S : Rank(x, S, R) < n}
  BY <1>5 DEF Oldest, Rank
<1>7. ASSUME NEW a \in Oldest(S, n), NEW b \in S \ Oldest(S, n)
      PROVE  Older(a, b)
  <2>1. /\ a \in S /\ b \in S /\ Rank(a, S, R) < n /\ ~(Rank(b, S, R) < n)
        /\ Rank(a, S, R) \in Int /\ Rank(b, S, R) \in Int /\ n \in Int
    BY <1>4, <1>6
  <2>2. Rank(a, S, R) < Rank(b, S, R)
    BY <2>1
  <2> QED
    BY <1>1, <1>4, <2>1, <2>2
<1> QED
  BY <1>4, <1>6, <1>7

-----------------------------------------------------------------------------
(* The tree.                                                               *)
LEMMA TableType ==
  ASSUME NEW t \in Tables
  PROVE  /\ t.ts \in Nat /\ t.order \in Nat /\ t.lo \in Nat /\ t.hi \in Nat
         /\ DOMAIN t.kv \in SUBSET Keys /\ DOMAIN t.kv \in SUBSET Nat /\ IsFiniteSet(DOMAIN t.kv)
         /\ \A k \in DOMAIN t.kv : t.kv[k] \in Strings
         /\ t.kv \in UNION {[S -> Strings] : S \in SUBSET Keys}
<1>1. /\ t.ts \in Nat /\ t.order \in Nat /\ t.lo \in Nat /\ t.hi \in Nat
      /\ t.kv \in UNION {[S -> Strings] : S \in SUBSET Keys}
  BY DEF Tables
<1>2. PICK S \in SUBSET Keys : t.kv \in [S -> Strings]
  BY <1>1
<1>3. IsFiniteSet(S)
  BY StoreConstants, FS_Subset
<1> QED
  BY <1>1, <1>2, <1>3, StoreConstants

LEMMA LevelsTop ==
  ASSUME NEW n \in Nat
  PROVE  Max(0 .. n) = n
<1>1. (0 .. n) \in SUBSET Nat /\ n \in 0 .. n /\ IsFiniteSet(0 .. n)
  BY FS_Interval
<1>2. Max(0 .. n) \in 0 .. n /\ n <= Max(0 .. n)
  BY ONLY <1>1, GreatestNumber
<1> QED
  BY <1>2

LEMMA DistinctAges ==
  ASSUME TreeInv, NEW i \in Levels, NEW a \in SSTable[i], NEW b \in SSTable[i], SameAge(a, b)
  PROVE  a = b
<1>1. a \in Tables /\ b \in Tables /\ TableOK(a) /\ TableOK(b)
  BY DEF TreeInv, TypeOK
<1>2. a.ts = b.ts /\ a.lo = b.lo
  BY <1>1, TableType DEF SameAge, Older
<1>3. CASE i = 0
  BY <1>2, <1>3 DEF TreeInv
<1>4. CASE i # 0
  <2> SUFFICES ASSUME a # b PROVE FALSE
    OBVIOUS
  <2>1. a.hi < b.lo \/ b.hi < a.lo
    BY <1>4 DEF TreeInv, DisjointLevels
  <2> QED
    BY <1>1, <1>2, <2>1, TableType DEF TableOK
<1> QED
  BY <1>3, <1>4

(* What a compaction of level takes: the oldest tables of the level above, *)
(* and of its own those whose range meets an interval that covers them.    *)
Chosen(moved, old) ==
  /\ moved \in SUBSET SSTable[level - 1] /\ moved # {}
  /\ Cardinality(moved) = CompactNum(level)
  /\ \A a \in moved, b \in SSTable[level - 1] \ moved : Older(a, b)
  /\ old \in SUBSET TablesOf(level)
  /\ \E low, high \in Nat :
       /\ \A m \in moved : low <= m.lo /\ m.hi <= high
       /\ \A t \in TablesOf(level) : t \in old <=> t.hi >= low /\ t.lo <= high

(* What it makes of them: new tables, disjoint and with new numbers, that  *)
(* hold of each key what a newest of the tables has for it, except for     *)
(* deletion marks at the bottom.                                           *)
Rewritten(moved, old, new) ==
  /\ IsFiniteSet(new) /\ new \in SUBSET Tables
  /\ \A n \in new : \A k \in DOMAIN n.kv :
       /\ n.lo <= k /\ k <= n.hi
       /\ LastWord(n.kv[k], moved \cup old, k)
       /\ AtBottom(level) => n.kv[k] # DEL
  /\ \A n \in new : n.lo \in DOMAIN n.kv /\ n.hi \in DOMAIN n.kv
  /\ \A t \in moved \cup old : \A k \in DOMAIN t.kv :
       \/ \E n \in new : k \in DOMAIN n.kv
       \/ AtBottom(level) /\ LastWord(DEL, moved \cup old, k)
  /\ \A a, b \in new : a = b \/ a.hi < b.lo \/ b.hi < a.lo
  /\ \A n \in new : LastOrder(level) < n.order /\ n.order <= LastOrder(level) + Cardinality(new)
  /\ \A a, b \in new : a.order = b.order => a = b
  /\ \E m \in moved : (\A u \in moved : u.ts <= m.ts) /\ \A n \in new : n.ts = m.ts

LEMMA CompactChooses ==
  ASSUME StoreInv, pc = "compact", TooMany(level)
  PROVE  LET moved == Oldest(SSTable[level - 1], CompactNum(level))
         IN Chosen(moved, Overlapping(TablesOf(level), moved))
<1> DEFINE above == SSTable[level - 1]
           num == CompactNum(level)
           moved == Oldest(above, num)
           old == Overlapping(TablesOf(level), moved)
<1>1. level \in Nat /\ level - 1 \in Levels /\ level # 0
  <2>1. level \in Nat /\ level - 1 \in Levels
    BY DEF StoreInv, TreeInv, Counted, TypeOK
  <2> QED
    BY <2>1 DEF StoreInv, TreeInv
<1>2. /\ IsFiniteSet(above) /\ Cardinality(above) \in Nat
      /\ \A t \in above : t \in Tables
  <2>1. IsFiniteSet(above) /\ \A t \in above : t \in Tables
    BY <1>1 DEF StoreInv, TreeInv, TypeOK
  <2> QED
    BY <2>1, FS_CardinalityType
<1>3. num \in 1 .. Cardinality(above)
  <2>1. CASE level = 1
    BY <2>1, <1>2, StoreConstants DEF CompactNum, StoreInv, Counted
  <2>2. CASE level # 1
    <3>1. UpperNum[level - 1] \in Nat
      BY <1>1, <2>2, UpperNumType
    <3> QED
      BY <1>2, <2>2, <3>1 DEF CompactNum, TooMany
  <2> QED
    BY <2>1, <2>2
<1>4. /\ moved \in SUBSET above /\ Cardinality(moved) = num
      /\ \A a \in moved, b \in above \ moved : Older(a, b)
  <2>1. \A t \in above : t.ts \in Nat /\ t.lo \in Nat
    BY <1>2, TableType
  <2>2. \A a, b \in above : SameAge(a, b) => a = b
    BY <1>1, DistinctAges DEF StoreInv
  <2>3. num \in 0 .. Cardinality(above)
    BY <1>2, <1>3
  <2> HIDE DEF above, num
  <2> QED
    BY ONLY <1>2, <2>1, <2>2, <2>3, OldestTaken
<1>5. IsFiniteSet(moved) /\ moved # {}
  <2> HIDE DEF moved, num, above
  <2> QED
    BY <1>2, <1>3, <1>4, FS_Subset, FS_EmptySet
<1>6. \A t \in TablesOf(level) : t \in Tables
  BY DEF TablesOf, StoreInv, TreeInv, TypeOK
<1>7. \E low, high \in Nat :
        /\ \A m \in moved : low <= m.lo /\ m.hi <= high
        /\ \A t \in TablesOf(level) : t \in old <=> t.hi >= low /\ t.lo <= high
  <2> DEFINE L == {SignedMax} \cup {t.lo : t \in moved}
             H == {0} \cup {t.hi : t \in moved}
  <2>1. \A t \in moved : t.lo \in Nat /\ t.hi \in Nat
    BY <1>2, <1>4, TableType
  <2>2. Min(L) \in L /\ (\A m \in L : Min(L) <= m) /\ L \in SUBSET Nat
    <3>1. L \in SUBSET Nat /\ L # {}
      BY <2>1, StoreConstants
    <3> HIDE DEF L
    <3> QED
      BY <3>1, LeastNumber
  <2>3. Max(H) \in H /\ (\A m \in H : m <= Max(H)) /\ H \in SUBSET Nat
    <3> DEFINE f == [t \in moved |-> t.hi]
               I == {t.hi : t \in moved}
    <3>1. H \in SUBSET Nat /\ H # {}
      BY <2>1
    <3>2. f \in Surjection(moved, I)
      BY DEF Surjection
    <3>3. IsFiniteSet(I)
      <4> HIDE DEF f, I, moved
      <4> QED
        BY <1>5, <3>2, FS_Surjection
    <3>4. H = I \cup {0}
      OBVIOUS
    <3>5. IsFiniteSet(H)
      <4> HIDE DEF I, H
      <4> QED
        BY <3>3, <3>4, FS_AddElement
    <3> HIDE DEF H
    <3> QED
      BY <3>1, <3>5, GreatestNumber
  <2>4. old = {t \in TablesOf(level) : t.hi >= Min(L) /\ t.lo <= Max(H)}
    BY DEF Overlapping
  <2> Min(L) \in Nat /\ Max(H) \in Nat
    BY <2>2, <2>3
  <2> WITNESS Min(L) \in Nat, Max(H) \in Nat
  <2>5. \A m \in moved : Min(L) <= m.lo /\ m.hi <= Max(H)
    BY <2>2, <2>3
  <2> HIDE DEF old, L, H, moved
  <2> QED
    BY <2>4, <2>5
<1>8. old \in SUBSET TablesOf(level)
  BY DEF Overlapping
<1> HIDE DEF old, moved
<1> QED
  BY <1>4, <1>5, <1>7, <1>8 DEF Chosen, moved, old

LEMMA CompactRewrites ==
  ASSUME StoreInv, pc = "compact", NEW moved, NEW old, Chosen(moved, old), NEW late \in SUBSET old
  PROVE  Rewritten(moved, old, NewTables(moved, old, late))
<1> DEFINE tables == moved \cup old
           last   == LastOrder(level)
           ts     == Max({t.ts : t \in moved})
           merged == Merge(tables, old, late)
           kept   == IF AtBottom(level) THEN DropDeleted(merged) ELSE merged
           parts  == Split(kept)
           table(i) == [ts |-> ts, order |-> last + i, lo |-> Min(parts[i]), hi |-> Max(parts[i]),
                        kv |-> [k \in parts[i] |-> kept[k]]]
           new    == {table(i) : i \in DOMAIN parts}
<1>1. level \in Nat /\ level - 1 \in Levels /\ last \in Nat
  BY DEF StoreInv, TreeInv, Counted, TypeOK, LastOrder
<1>2. /\ IsFiniteSet(tables) /\ \A t \in tables : t \in Tables
      /\ IsFiniteSet(moved) /\ moved # {}
      /\ \A a, b \in tables : SameAge(a, b) /\ (a \in old <=> b \in old) => a = b
  <2>1. IsFiniteSet(moved) /\ IsFiniteSet(old)
    <3>1. IsFiniteSet(SSTable[level - 1]) /\ IsFiniteSet(TablesOf(level))
      BY <1>1, FS_EmptySet DEF TablesOf, StoreInv, TreeInv
    <3> QED
      BY <3>1, FS_Subset DEF Chosen
  <2>2. IsFiniteSet(tables)
    BY <2>1, FS_Union
  <2>3. \A t \in tables : t \in Tables
    BY <1>1 DEF Chosen, TablesOf, StoreInv, TreeInv, TypeOK
  <2>4. \A a, b \in moved : SameAge(a, b) => a = b
    BY <1>1, DistinctAges DEF StoreInv, Chosen
  <2>5. \A a, b \in old : SameAge(a, b) => a = b
    BY DistinctAges DEF StoreInv, Chosen, TablesOf
  <2> QED
    BY <2>1, <2>2, <2>3, <2>4, <2>5 DEF Chosen
<1>3. /\ DOMAIN merged = UNION {DOMAIN t.kv : t \in tables}
      /\ \A k \in DOMAIN merged : LastWord(merged[k], tables, k)
  <2>1. \A t \in tables : t.ts \in Nat /\ t.lo \in Nat
    BY <1>2, TableType
  <2> HIDE DEF tables
  <2>2. /\ IsFiniteSet(tables)
        /\ \A a, b \in tables : SameAge(a, b) /\ (a \in old <=> b \in old) => a = b
        /\ late \in SUBSET old
    BY <1>2
  <2> QED
    BY ONLY <2>1, <2>2, Merged
<1>4. /\ DOMAIN kept \in SUBSET DOMAIN merged
      /\ \A k \in DOMAIN kept : kept[k] = merged[k] /\ (AtBottom(level) => kept[k] # DEL)
      /\ \A k \in DOMAIN merged \ DOMAIN kept : AtBottom(level) /\ merged[k] = DEL
  <2> HIDE DEF merged
  <2> QED
    BY DEF DropDeleted
<1>5. /\ DOMAIN kept \in SUBSET Keys /\ DOMAIN kept \in SUBSET Nat /\ IsFiniteSet(DOMAIN kept)
      /\ \A k \in DOMAIN kept : kept[k] \in Strings
  <2>1. DOMAIN merged \in SUBSET Keys /\ \A k \in DOMAIN merged : merged[k] \in Strings
    <3> HIDE DEF merged
    <3> QED
      BY <1>2, <1>3, TableType DEF HoldsLast, LastWord
  <2> HIDE DEF merged, kept
  <2>2. DOMAIN kept \in SUBSET Keys /\ \A k \in DOMAIN kept : kept[k] \in Strings
    BY <1>4, <2>1
  <2> QED
    BY <2>2, StoreConstants, FS_Subset
<1> HIDE DEF merged, kept
<1>6. PICK n \in Nat :
        /\ DOMAIN parts = 1 .. n
        /\ \A i \in 1 .. n : parts[i] \in SUBSET DOMAIN kept /\ parts[i] # {}
        /\ \A i, j \in 1 .. n : i < j => \A a \in parts[i], b \in parts[j] : a < b
        /\ \A k \in DOMAIN kept : \E i \in 1 .. n : k \in parts[i]
  BY <1>5, Parts
<1> HIDE DEF parts
<1>7. \A i \in 1 .. n : /\ Min(parts[i]) \in parts[i] /\ Max(parts[i]) \in parts[i]
                         /\ \A k \in parts[i] : Min(parts[i]) <= k /\ k <= Max(parts[i])
                         /\ parts[i] \in SUBSET Nat
  <2> SUFFICES ASSUME NEW i \in 1 .. n
               PROVE  /\ Min(parts[i]) \in parts[i] /\ Max(parts[i]) \in parts[i]
                      /\ \A k \in parts[i] : Min(parts[i]) <= k /\ k <= Max(parts[i])
                      /\ parts[i] \in SUBSET Nat
    OBVIOUS
  <2>1. parts[i] \in SUBSET Nat /\ parts[i] # {} /\ IsFiniteSet(parts[i])
    BY <1>5, <1>6, FS_Subset
  <2> QED
    BY ONLY <2>1, LeastNumber, GreatestNumber
<1>8. ts \in Nat /\ \E m \in moved : ts = m.ts /\ \A u \in moved : u.ts <= m.ts
  <2> DEFINE f == [t \in moved |-> t.ts]
             I == {t.ts : t \in moved}
  <2>1. I \in SUBSET Nat /\ I # {}
    BY <1>2, TableType
  <2>2. f \in Surjection(moved, I)
    BY DEF Surjection
  <2>3. IsFiniteSet(I)
    <3> HIDE DEF f, I
    <3> QED
      BY <1>2, <2>2, FS_Surjection
  <2>4. Max(I) \in I /\ \A m \in I : m <= Max(I)
    <3> HIDE DEF I
    <3> QED
      BY <2>1, <2>3, GreatestNumber
  <2> QED
    BY <2>1, <2>4
<1> HIDE DEF ts, tables, last
<1>9. \A i \in 1 .. n : /\ table(i).ts = ts /\ table(i).order = last + i
                         /\ table(i).lo = Min(parts[i]) /\ table(i).hi = Max(parts[i])
                         /\ DOMAIN table(i).kv = parts[i]
                         /\ \A k \in parts[i] : table(i).kv[k] = kept[k]
  OBVIOUS
<1>10. \A i \in 1 .. n : table(i) \in Tables
  <2> SUFFICES ASSUME NEW i \in 1 .. n PROVE table(i) \in Tables
    OBVIOUS
  <2>1. [k \in parts[i] |-> kept[k]] \in [parts[i] -> Strings] /\ parts[i] \in SUBSET Keys
    BY <1>5, <1>6
  <2>2. [k \in parts[i] |-> kept[k]] \in UNION {[S -> Strings] : S \in SUBSET Keys}
    BY <2>1
  <2>3. last + i \in Nat /\ Min(parts[i]) \in Nat /\ Max(parts[i]) \in Nat
    BY <1>1, <1>7
  <2> QED
    BY <1>8, <2>2, <2>3 DEF Tables
<1>11. new = {table(i) : i \in 1 .. n}
  BY <1>6
<1> HIDE DEF table, new
<1>12. IsFiniteSet(new) /\ Cardinality(new) = n
  <2> DEFINE f == [i \in 1 .. n |-> table(i)]
  <2>1. IsFiniteSet(1 .. n) /\ Cardinality(1 .. n) = n
    <3>1. IsFiniteSet(1 .. n) /\ Cardinality(1 .. n) = IF 1 > n THEN 0 ELSE n - 1 + 1
      BY FS_Interval
    <3> QED
      BY <3>1
  <2>2. \A i, j \in 1 .. n : table(i) = table(j) => i = j
    BY <1>1, <1>9
  <2>3. f \in Bijection(1 .. n, new)
    BY <1>11, <2>2 DEF Bijection, Injection, Surjection, IsInjective
  <2> HIDE DEF f
  <2> QED
    BY <2>1, <2>3, FS_Bijection DEF ExistsBijection
<1>13. \A a \in new : \A k \in DOMAIN a.kv :
         /\ a.lo <= k /\ k <= a.hi
         /\ LastWord(a.kv[k], tables, k)
         /\ AtBottom(level) => a.kv[k] # DEL
  <2> SUFFICES ASSUME NEW i \in 1 .. n, NEW k \in parts[i]
               PROVE  /\ table(i).lo <= k /\ k <= table(i).hi
                      /\ LastWord(table(i).kv[k], tables, k)
                      /\ AtBottom(level) => table(i).kv[k] # DEL
    BY <1>9, <1>11
  <2>1. k \in DOMAIN kept /\ k \in DOMAIN merged
    BY <1>4, <1>6
  <2> QED
    BY <1>3, <1>4, <1>7, <1>9, <2>1
<1>14. \A a \in new : a.lo \in DOMAIN a.kv /\ a.hi \in DOMAIN a.kv
  BY <1>7, <1>9, <1>11
<1>15. \A t \in tables : \A k \in DOMAIN t.kv :
         \/ \E a \in new : k \in DOMAIN a.kv
         \/ AtBottom(level) /\ LastWord(DEL, tables, k)
  <2> SUFFICES ASSUME NEW t \in tables, NEW k \in DOMAIN t.kv
               PROVE  \/ \E a \in new : k \in DOMAIN a.kv
                      \/ AtBottom(level) /\ LastWord(DEL, tables, k)
    OBVIOUS
  <2>1. k \in DOMAIN merged
    BY <1>3
  <2>2. CASE k \in DOMAIN kept
    BY <1>6, <1>9, <1>11, <2>2
  <2>3. CASE k \notin DOMAIN kept
    BY <1>3, <1>4, <2>1, <2>3
  <2> QED
    BY <2>2, <2>3
<1>16. \A a, b \in new : a = b \/ a.hi < b.lo \/ b.hi < a.lo
  <2> SUFFICES ASSUME NEW i \in 1 .. n, NEW j \in 1 .. n
               PROVE  i = j \/ table(i).hi < table(j).lo \/ table(j).hi < table(i).lo
    BY <1>11
  <2>1. /\ table(i).lo \in parts[i] /\ table(i).hi \in parts[i]
        /\ table(j).lo \in parts[j] /\ table(j).hi \in parts[j]
    BY <1>7, <1>9
  <2>2. i < j => table(i).hi < table(j).lo
    BY <1>6, <2>1
  <2>3. j < i => table(j).hi < table(i).lo
    BY <1>6, <2>1
  <2> QED
    BY <2>2, <2>3
<1>17. /\ \A a \in new : last < a.order /\ a.order <= last + Cardinality(new)
       /\ \A a, b \in new : a.order = b.order => a = b
  <2>1. \A i \in 1 .. n : last < table(i).order /\ table(i).order <= last + n
    BY <1>1, <1>9
  <2>2. \A i, j \in 1 .. n : table(i).order = table(j).order => i = j
    BY <1>1, <1>9
  <2> QED
    BY <1>11, <1>12, <2>1, <2>2
<1>18. \E m \in moved : (\A u \in moved : u.ts <= m.ts) /\ \A a \in new : a.ts = m.ts
  BY <1>8, <1>9, <1>11
<1>19. new \in SUBSET Tables
  BY <1>10, <1>11
<1>20. Rewritten(moved, old, new)
  BY <1>12, <1>13, <1>14, <1>15, <1>16, <1>17, <1>18, <1>19 DEF Rewritten, tables, last
<1> QED
  BY <1>20 DEF NewTables, new, table, parts, kept, merged, ts, tables, last

(* How it changes the tree.                                                *)
Changed(moved, old, new) ==
  /\ SSTable' = [i \in Levels \cup {level} |->
                   IF i = level - 1 THEN SSTable[i] \ moved
                   ELSE IF i = level THEN Emplace(TablesOf(level), new) \ old ELSE SSTable[i]]
  /\ Level' = [i \in Levels \cup {level} |->
                 IF i = level THEN LastOrder(level) + Cardinality(new) ELSE Level[i]]
  /\ files' = (files \cup {<<level, n.order>> : n \in new})
              \ ({<<level - 1, t.order>> : t \in moved} \cup {<<level, t.order>> : t \in old})
  /\ tied' = (tied \/ \E a \in moved, b \in old : a.ts = b.ts)
  /\ level' = level + 1
  /\ UNCHANGED <<mem, memory, minKey, maxKey, timeStamp, pending, pc, db>>

LEMMA CompactStep ==
  ASSUME StoreInv, Compact
  PROVE  /\ pc = "compact" /\ TooMany(level)
         /\ \E moved, old, new : Chosen(moved, old) /\ Rewritten(moved, old, new) /\ Changed(moved, old, new)
<1> DEFINE moved == Oldest(SSTable[level - 1], CompactNum(level))
           old   == Overlapping(TablesOf(level), moved)
<1>1. pc = "compact" /\ TooMany(level)
  BY DEF Compact
<1>2. Chosen(moved, old)
  BY <1>1, CompactChooses
<1>3. \E late \in SUBSET old : Changed(moved, old, NewTables(moved, old, late))
  BY DEF Compact, Changed, skiplist
<1> HIDE DEF moved, old
<1>4. \A late \in SUBSET old : Rewritten(moved, old, NewTables(moved, old, late))
  BY <1>1, <1>2, CompactRewrites
<1> QED
  BY <1>1, <1>2, <1>3, <1>4

-----------------------------------------------------------------------------
(* The levels and tables a compaction deals with.                          *)
LEMMA CompactLevels ==
  ASSUME StoreInv, pc = "compact", NEW N \in Nat, Levels = 0 .. N
  PROVE  /\ level \in 1 .. (N + 1) /\ level - 1 \in Levels /\ level - 1 \in Nat
         /\ AtBottom(level) <=> level >= N
         /\ \A t \in TablesOf(level) : t \in Tables /\ TableOK(t)
         /\ \A a, b \in TablesOf(level) : a # b => a.hi < b.lo \/ b.hi < a.lo
         /\ IsFiniteSet(TablesOf(level))
         /\ \A t \in SSTable[level - 1] : t \in Tables /\ TableOK(t)
<1>1. level \in 1 .. (N + 1) /\ level - 1 \in Levels /\ level - 1 \in Nat
  BY DEF StoreInv, TreeInv, Counted, TypeOK
<1>2. AtBottom(level) <=> level >= N
  BY LevelsTop DEF AtBottom
<1>3. \A i \in Levels : \A t \in SSTable[i] : t \in Tables /\ TableOK(t)
  BY DEF StoreInv, TreeInv, TypeOK
<1>4. \A a, b \in TablesOf(level) : a # b => a.hi < b.lo \/ b.hi < a.lo
  BY <1>1 DEF TablesOf, StoreInv, TreeInv, DisjointLevels
<1>5. IsFiniteSet(TablesOf(level))
  BY FS_EmptySet DEF TablesOf, StoreInv, TreeInv
<1> QED
  BY <1>1, <1>2, <1>3, <1>4, <1>5 DEF TablesOf

(* A table of the level that is left alone lies on one side of everything  *)
(* the compaction reads and, as its tables start and end at keys it has    *)
(* read, of everything it writes.                                          *)
LEMMA CompactSeparates ==
  ASSUME StoreInv, pc = "compact", NEW moved, NEW old, NEW new,
         Chosen(moved, old), Rewritten(moved, old, new)
  PROVE  /\ \A t \in TablesOf(level) \ old :
              (\A u \in moved \cup old : t.hi < u.lo) \/ (\A u \in moved \cup old : u.hi < t.lo)
         /\ \A t \in TablesOf(level) \ old : \A n \in new : t.hi < n.lo \/ n.hi < t.lo
         /\ \A t \in moved \cup old : t \in Tables /\ TableOK(t)
<1> PICK N \in Nat : Levels = 0 .. N
  BY DEF StoreInv, TreeInv
<1>1. \A t \in moved \cup old : t \in Tables /\ TableOK(t)
  BY CompactLevels DEF Chosen
<1>2. ASSUME NEW t \in TablesOf(level) \ old
      PROVE  (\A u \in moved \cup old : t.hi < u.lo) \/ (\A u \in moved \cup old : u.hi < t.lo)
  <2>1. PICK low \in Nat, high \in Nat :
          /\ \A m \in moved : low <= m.lo /\ m.hi <= high
          /\ \A x \in TablesOf(level) : x \in old <=> x.hi >= low /\ x.lo <= high
    BY DEF Chosen
  <2>2. t \in Tables /\ t.lo \in Nat /\ t.hi \in Nat /\ t.lo <= t.hi
    BY CompactLevels, TableType DEF TableOK
  <2>3. \A u \in moved \cup old : u.lo \in Nat /\ u.hi \in Nat /\ u.lo <= u.hi
    BY <1>1, TableType DEF TableOK
  <2>4. \A u \in old : u.hi >= low /\ u.lo <= high /\ (u.hi < t.lo \/ t.hi < u.lo)
    BY <2>1, CompactLevels DEF Chosen
  <2>5. CASE t.hi < low
    BY <2>1, <2>2, <2>3, <2>4, <2>5
  <2>6. CASE t.lo > high
    BY <2>1, <2>2, <2>3, <2>4, <2>6
  <2> QED
    BY <2>1, <2>2, <2>5, <2>6
<1>3. ASSUME NEW t \in TablesOf(level) \ old, NEW n \in new
      PROVE  t.hi < n.lo \/ n.hi < t.lo
  <2>1. PICK u \in moved \cup old : n.lo \in DOMAIN u.kv
    BY DEF Rewritten, LastWord, HoldsLast
  <2>2. PICK v \in moved \cup old : n.hi \in DOMAIN v.kv
    BY DEF Rewritten, LastWord, HoldsLast
  <2>3. u.lo <= n.lo /\ v.hi >= n.hi
    BY <1>1, <2>1, <2>2 DEF TableOK
  <2>4. /\ t.lo \in Nat /\ t.hi \in Nat /\ n.lo \in Nat /\ n.hi \in Nat
        /\ u.lo \in Nat /\ u.hi \in Nat /\ v.lo \in Nat /\ v.hi \in Nat
    BY <1>1, CompactLevels, TableType DEF Rewritten
  <2>5. t.hi < u.lo \/ v.hi < t.lo
    BY <1>2
  <2> QED
    BY <2>3, <2>4, <2>5
<1> QED
  BY <1>1, <1>2, <1>3

(* The new tables are as old as the newest of the tables taken from above: *)
(* not newer than what stays there, of which level 0 keeps nothing.        *)
LEMMA CompactAges ==
  ASSUME StoreInv, pc = "compact", NEW moved, NEW old, NEW new,
         Chosen(moved, old), Rewritten(moved, old, new)
  PROVE  /\ level = 1 => moved = SSTable[0]
         /\ \E m \in moved : /\ m \in SSTable[level - 1] /\ m.ts \in Nat
                             /\ \A u \in moved : u.ts <= m.ts
                             /\ \A n \in new : n.ts = m.ts
                             /\ \A r \in SSTable[level - 1] \ moved : r.ts >= m.ts
         /\ \A n \in new : TableOK(n)
<1> PICK N \in Nat : Levels = 0 .. N
  BY DEF StoreInv, TreeInv
<1>1. ASSUME level = 1
      PROVE  moved = SSTable[0]
  <2>1. Cardinality(moved) = Cardinality(SSTable[0]) /\ moved \in SUBSET SSTable[0]
    BY <1>1 DEF Chosen, CompactNum, StoreInv, Counted
  <2>2. IsFiniteSet(SSTable[0])
    BY DEF StoreInv, TreeInv
  <2> QED
    BY <2>1, <2>2, FS_Subset
<1>2. PICK m \in moved : (\A u \in moved : u.ts <= m.ts) /\ \A n \in new : n.ts = m.ts
  BY DEF Rewritten
<1>3. m \in SSTable[level - 1] /\ m \in Tables /\ TableOK(m) /\ m.ts \in Nat
  BY CompactLevels, TableType DEF Chosen
<1>4. \A r \in SSTable[level - 1] \ moved : r.ts >= m.ts
  <2> SUFFICES ASSUME NEW r \in SSTable[level - 1] \ moved PROVE r.ts >= m.ts
    OBVIOUS
  <2>1. r.ts \in Nat
    BY CompactLevels, TableType
  <2>2. Older(m, r)
    BY DEF Chosen
  <2> QED
    BY <1>3, <2>1, <2>2 DEF Older
<1>5. ASSUME NEW n \in new
      PROVE  TableOK(n)
  <2>1. n.ts < timeStamp
    BY <1>2, <1>3 DEF TableOK
  <2>2. n.lo <= n.hi
    BY DEF Rewritten
  <2>3. \A k \in DOMAIN n.kv : n.lo <= k /\ k <= n.hi
    BY DEF Rewritten
  <2>4. \A k \in DOMAIN n.kv : n.kv[k] # Empty
    <3> SUFFICES ASSUME NEW k \in DOMAIN n.kv PROVE n.kv[k] # Empty
      OBVIOUS
    <3>1. PICK t \in moved \cup old : k \in DOMAIN t.kv /\ n.kv[k] = t.kv[k]
      BY DEF Rewritten, LastWord, HoldsLast
    <3>2. TableOK(t)
      BY CompactSeparates
    <3> QED
      BY <3>1, <3>2 DEF TableOK
  <2> QED
    BY <2>1, <2>2, <2>3, <2>4 DEF TableOK
<1> QED
  BY <1>1, <1>2, <1>3, <1>4, <1>5

(* The tables after a compaction.  All of the new ones find a place in the *)
(* level's set, unless one is as old as a table that it replaces.          *)
LEMMA CompactTables ==
  ASSUME StoreInv, pc = "compact", NEW moved, NEW old, NEW new, NEW N \in Nat, Levels = 0 .. N,
         Chosen(moved, old), Rewritten(moved, old, new), Changed(moved, old, new)
  PROVE  /\ Levels' = 0 .. (IF level > N THEN level ELSE N)
         /\ level - 1 \in Levels' /\ SSTable'[level - 1] = SSTable[level - 1] \ moved
         /\ level \in Levels'
         /\ \E added \in SUBSET new : /\ SSTable'[level] = (TablesOf(level) \ old) \cup added
                                      /\ ~tied' => added = new
         /\ \A i \in Levels' : i # level /\ i # level - 1 => i \in Levels /\ SSTable'[i] = SSTable[i]
         /\ DOMAIN Level' = Levels' /\ Level'[level] = LastOrder(level) + Cardinality(new)
         /\ \A i \in Levels' : i # level => Level'[i] = Level[i]
<1>1. level \in 1 .. (N + 1) /\ level - 1 \in Levels /\ level - 1 \in Nat
  BY CompactLevels
<1>2. Levels' = Levels \cup {level} /\ DOMAIN Level' = Levels \cup {level}
  BY DEF Changed, Levels
<1>3. Levels' = 0 .. (IF level > N THEN level ELSE N)
  BY <1>1, <1>2
<1>4. /\ SSTable'[level - 1] = SSTable[level - 1] \ moved
      /\ SSTable'[level] = Emplace(TablesOf(level), new) \ old
      /\ \A i \in Levels' : i # level /\ i # level - 1 => i \in Levels /\ SSTable'[i] = SSTable[i]
      /\ Level'[level] = LastOrder(level) + Cardinality(new)
      /\ \A i \in Levels' : i # level => Level'[i] = Level[i]
  BY <1>1, <1>2 DEF Changed
<1>5. \E added \in SUBSET new : /\ SSTable'[level] = (TablesOf(level) \ old) \cup added
                                /\ ~tied' => added = new
  <2> DEFINE added == {n \in new : \A t \in TablesOf(level) : ~SameAge(n, t)}
  <2>1. \A n \in new : n \notin old
    <3> SUFFICES ASSUME NEW n \in new, n \in old PROVE FALSE
      OBVIOUS
    <3>1. LastOrder(level) < n.order /\ n.order \in Nat
      BY TableType DEF Rewritten
    <3>2. n \in SSTable[level] /\ level \in Levels
      BY DEF Chosen, TablesOf
    <3>3. n.order <= Level[level] /\ Level[level] \in Nat /\ LastOrder(level) = Level[level]
      BY <3>2 DEF LastOrder, StoreInv, Numbered, TreeInv, TypeOK
    <3> QED
      BY <3>1, <3>3
  <2>2. SSTable'[level] = (TablesOf(level) \ old) \cup added
    BY <1>4, <2>1 DEF Emplace
  <2>3. ASSUME ~tied'
        PROVE  added = new
    <3> SUFFICES ASSUME NEW n \in new, NEW t \in TablesOf(level), SameAge(n, t) PROVE FALSE
      OBVIOUS
    <3>1. /\ t \in Tables /\ TableOK(t) /\ n \in Tables /\ TableOK(n)
      BY CompactLevels, CompactAges DEF Rewritten
    <3>2. n.ts = t.ts /\ n.lo = t.lo /\ n.lo <= n.hi /\ t.lo <= t.hi
      BY <3>1, TableType DEF SameAge, Older, TableOK
    <3>3. n.lo \in Nat /\ n.hi \in Nat /\ t.lo \in Nat /\ t.hi \in Nat
      BY <3>1, TableType
    <3>4. CASE t \in old
      <4>1. PICK m \in moved : n.ts = m.ts
        BY CompactAges
      <4> QED
        BY <2>3, <3>2, <3>4, <4>1 DEF Changed
    <3>5. CASE t \notin old
      <4>1. t.hi < n.lo \/ n.hi < t.lo
        BY <3>5, CompactSeparates
      <4> QED
        BY <3>2, <3>3, <4>1
    <3> QED
      BY <3>4, <3>5
  <2> QED
    BY <2>2, <2>3
<1> QED
  BY <1>1, <1>2, <1>3, <1>4, <1>5

LEMMA CompactKeepsTree ==
  ASSUME StoreInv, pc = "compact", NEW moved, NEW old, NEW new,
         Chosen(moved, old), Rewritten(moved, old, new), Changed(moved, old, new)
  PROVE  TreeInv'
<1> PICK N \in Nat : Levels = 0 .. N
  BY DEF StoreInv, TreeInv
<1> DEFINE M == IF level > N THEN level ELSE N
<1>1. /\ level \in 1 .. (N + 1) /\ level - 1 \in Levels /\ level - 1 \in Nat
      /\ AtBottom(level) <=> level >= N
  BY CompactLevels
<1>2. Levels' = 0 .. M /\ M \in Nat /\ Max(Levels') = M
  <2>1. Levels' = 0 .. M
    BY CompactTables
  <2>2. M \in Nat
    BY <1>1
  <2> HIDE DEF M
  <2> QED
    BY <2>1, <2>2, LevelsTop
<1>3. /\ level - 1 \in Levels' /\ level \in Levels'
      /\ SSTable'[level - 1] = SSTable[level - 1] \ moved
      /\ \A i \in Levels' : i # level /\ i # level - 1 => i \in Levels /\ SSTable'[i] = SSTable[i]
      /\ DOMAIN Level' = Levels' /\ Level'[level] = LastOrder(level) + Cardinality(new)
      /\ \A i \in Levels' : i # level => Level'[i] = Level[i]
  BY CompactTables
<1>4. PICK added \in SUBSET new : /\ SSTable'[level] = (TablesOf(level) \ old) \cup added
                                  /\ ~tied' => added = new
  BY CompactTables
<1>5. \A i \in Levels' : \A t \in SSTable'[i] :
        \/ i \in Levels /\ t \in SSTable[i]
        \/ i = level /\ t \in added
  <2>1. TablesOf(level) # {} => level \in Levels /\ TablesOf(level) = SSTable[level]
    BY DEF TablesOf
  <2> QED
    BY <1>1, <1>3, <1>4, <2>1
<1>6. \A i \in Levels' : SSTable'[i] \in SUBSET Tables
  <2>1. \A i \in Levels : SSTable[i] \in SUBSET Tables
    BY DEF StoreInv, TreeInv, TypeOK
  <2> QED
    BY <1>5, <2>1 DEF Rewritten
<1>7. TypeOK'
  <2>1. \A i \in Levels' : Level'[i] \in Nat
    <3>1. Level'[level] = LastOrder(level) + Cardinality(new) /\ Cardinality(new) \in Nat
      <4>1. IsFiniteSet(new)
        BY DEF Rewritten
      <4> QED
        BY <1>3, <4>1, FS_CardinalityType
    <3>2. LastOrder(level) \in Nat
      BY DEF LastOrder, StoreInv, TreeInv, TypeOK
    <3>3. \A i \in Levels' : i # level => i \in Levels /\ Level'[i] = Level[i]
      BY <1>1, <1>3
    <3>4. \A i \in Levels : Level[i] \in Nat
      BY DEF StoreInv, TreeInv, TypeOK
    <3> QED
      BY <3>1, <3>2, <3>3, <3>4
  <2>2. DOMAIN Level' = Levels'
    BY <1>3
  <2>3. files' \in SUBSET (Nat \X Nat)
    <3>1. \A n \in new : <<level, n.order>> \in Nat \X Nat
      BY <1>1, TableType DEF Rewritten
    <3> QED
      BY <3>1 DEF Changed, StoreInv, TreeInv, TypeOK
  <2>4. level' \in Nat /\ tied' \in BOOLEAN
    BY <1>1 DEF Changed, StoreInv, TreeInv, TypeOK
  <2>5. UNCHANGED <<mem, memory, minKey, maxKey, timeStamp, pending, pc, db>>
    BY DEF Changed
  <2>6. TypeOK
    BY DEF StoreInv, TreeInv
  <2> QED
    BY <1>2, <1>6, <2>1, <2>2, <2>3, <2>4, <2>5, <2>6 DEF TypeOK
<1>8. \A i \in Levels' : IsFiniteSet(SSTable'[i]) /\ \A t \in SSTable'[i] : TableOK(t)'
  <2>1. \A i \in Levels : IsFiniteSet(SSTable[i]) /\ \A t \in SSTable[i] : TableOK(t)
    BY DEF StoreInv, TreeInv
  <2>2. IsFiniteSet(SSTable'[level - 1])
    BY <1>1, <1>3, <2>1, FS_Subset
  <2>3. IsFiniteSet(SSTable'[level])
    <3>1. IsFiniteSet(TablesOf(level) \ old) /\ IsFiniteSet(added)
      BY CompactLevels, FS_Subset DEF Rewritten
    <3> QED
      BY <1>4, <3>1, FS_Union
  <2>4. \A i \in Levels' : IsFiniteSet(SSTable'[i])
    BY <1>3, <2>1, <2>2, <2>3
  <2>5. \A n \in new : TableOK(n)
    BY CompactAges
  <2>6. \A i \in Levels' : \A t \in SSTable'[i] : TableOK(t)
    BY <1>5, <2>1, <2>5
  <2>7. \A t : TableOK(t) => TableOK(t)'
    BY DEF TableOK, Changed
  <2> QED
    BY <2>4, <2>6, <2>7
<1>9. \A a, b \in SSTable'[0] : a.ts = b.ts => a = b
  <2>1. SSTable'[0] \in SUBSET SSTable[0]
    BY <1>1, <1>2, <1>5
  <2> QED
    BY <2>1 DEF StoreInv, TreeInv
<1>10. DisjointLevels'
  <2> SUFFICES ASSUME NEW i \in Levels' \ {0}, NEW a \in SSTable'[i], NEW b \in SSTable'[i], a # b
               PROVE  a.hi < b.lo \/ b.hi < a.lo
    BY DEF DisjointLevels
  <2>1. CASE i = level
    <3>1. CASE a \in added /\ b \in added
      BY <3>1 DEF Rewritten
    <3>2. CASE a \in TablesOf(level) \ old /\ b \in TablesOf(level) \ old
      BY <3>2, CompactLevels
    <3>3. CASE a \in TablesOf(level) \ old /\ b \in added
      BY <3>3, CompactSeparates
    <3>4. CASE a \in added /\ b \in TablesOf(level) \ old
      BY <3>4, CompactSeparates
    <3> QED
      BY <1>4, <2>1, <3>1, <3>2, <3>3, <3>4
  <2>2. CASE i # level
    BY <1>5, <2>2 DEF DisjointLevels, StoreInv, TreeInv
  <2> QED
    BY <2>1, <2>2
<1>11. TimestampOrder'
  <2> SUFFICES ASSUME NEW i \in Levels', NEW j \in Levels', i < j,
                      NEW a \in SSTable'[i], NEW b \in SSTable'[j]
               PROVE  IF i = 0 THEN a.ts > b.ts ELSE a.ts >= b.ts
    BY DEF TimestampOrder
  <2>1. \A x, y \in Levels : x < y =>
          \A u \in SSTable[x], v \in SSTable[y] : IF x = 0 THEN u.ts > v.ts ELSE u.ts >= v.ts
    BY DEF TimestampOrder, StoreInv, TreeInv
  <2>2. i \in Nat /\ j \in Nat /\ a.ts \in Nat /\ b.ts \in Nat
    BY <1>2, <1>6, TableType
  <2>3. PICK m \in moved : /\ m \in SSTable[level - 1] /\ m.ts \in Nat
                           /\ \A n \in new : n.ts = m.ts
                           /\ \A r \in SSTable[level - 1] \ moved : r.ts >= m.ts
    BY CompactAges
  <2>4. CASE i \in Levels /\ a \in SSTable[i] /\ j \in Levels /\ b \in SSTable[j]
    BY <2>1, <2>4
  <2>5. CASE i \in Levels /\ a \in SSTable[i] /\ j = level /\ b \in added
    <3>1. b.ts = m.ts
      BY <2>3, <2>5
    <3>2. CASE i = level - 1
      <4>1. a \in SSTable[level - 1] \ moved
        BY <1>3, <3>2
      <4>2. level # 1
        BY <4>1, CompactAges
      <4> QED
        BY <1>1, <2>3, <3>1, <3>2, <4>1, <4>2
    <3>3. CASE i # level - 1
      <4>1. i < level - 1
        BY <1>1, <2>2, <2>5, <3>3
      <4> QED
        BY <1>1, <2>1, <2>3, <2>5, <3>1, <4>1
    <3> QED
      BY <3>2, <3>3
  <2>6. CASE i = level /\ a \in added /\ j \in Levels /\ b \in SSTable[j]
    <3>1. a.ts = m.ts
      BY <2>3, <2>6
    <3>2. level - 1 < j /\ i # 0
      BY <1>1, <2>2, <2>6
    <3>3. m.ts >= b.ts
      BY <1>1, <2>1, <2>2, <2>3, <2>6, <3>2
    <3> QED
      BY <3>1, <3>2, <3>3
  <2> QED
    BY <1>5, <2>2, <2>4, <2>5, <2>6
<1>12. NoMarkAtBottom'
  <2> SUFFICES ASSUME M > 0, NEW t \in SSTable'[M], NEW k \in DOMAIN t.kv
               PROVE  t.kv[k] # DEL
    BY <1>2 DEF NoMarkAtBottom
  <2>1. M \in Levels'
    BY <1>2
  <2>2. CASE M = level /\ t \in added
    BY <1>1, <2>2 DEF Rewritten
  <2>3. CASE M \in Levels /\ t \in SSTable[M]
    <3>1. M = N /\ Max(Levels) = N
      BY <1>1, <2>3, LevelsTop
    <3> QED
      BY <2>3, <3>1 DEF NoMarkAtBottom, StoreInv, TreeInv
  <2> QED
    BY <1>5, <2>1, <2>2, <2>3
<1> QED
  BY <1>2, <1>7, <1>8, <1>9, <1>10, <1>11, <1>12 DEF TreeInv

LEMMA CompactKeepsNumbers ==
  ASSUME StoreInv, pc = "compact", NEW moved, NEW old, NEW new,
         Chosen(moved, old), Rewritten(moved, old, new), Changed(moved, old, new)
  PROVE  Counted' /\ Numbered' /\ FilesMatch'
<1> PICK N \in Nat : Levels = 0 .. N
  BY DEF StoreInv, TreeInv
<1>1. level \in 1 .. (N + 1) /\ level - 1 \in Levels /\ level - 1 \in Nat
  BY CompactLevels
<1>2. /\ level - 1 \in Levels' /\ level \in Levels'
      /\ SSTable'[level - 1] = SSTable[level - 1] \ moved
      /\ \A i \in Levels' : i # level /\ i # level - 1 => i \in Levels /\ SSTable'[i] = SSTable[i]
      /\ Level'[level] = LastOrder(level) + Cardinality(new)
      /\ \A i \in Levels' : i # level => Level'[i] = Level[i]
      /\ Levels' = Levels \cup {level}
  BY CompactTables, <1>1 DEF Changed, Levels
<1>3. PICK added \in SUBSET new : /\ SSTable'[level] = (TablesOf(level) \ old) \cup added
                                  /\ ~tied' => added = new
  BY CompactTables
<1>4. IsFiniteSet(new) /\ Cardinality(new) \in Nat
  <2>1. IsFiniteSet(new)
    BY DEF Rewritten
  <2> QED
    BY <2>1, FS_CardinalityType
<1>5. /\ LastOrder(level) \in Nat
      /\ \A t \in TablesOf(level) : t.order \in Nat /\ 1 <= t.order /\ t.order <= LastOrder(level)
      /\ \A n \in new : n.order \in Nat /\ LastOrder(level) < n.order /\ n.order <= Level'[level]
  <2>1. LastOrder(level) \in Nat
    BY DEF LastOrder, StoreInv, TreeInv, TypeOK
  <2>2. \A t \in TablesOf(level) : 1 <= t.order /\ t.order <= LastOrder(level)
    BY DEF LastOrder, TablesOf, StoreInv, Numbered
  <2>3. \A t \in TablesOf(level) \cup new : t.order \in Nat
    BY CompactLevels, TableType DEF Rewritten
  <2>4. \A n \in new : LastOrder(level) < n.order /\ n.order <= Level'[level]
    BY <1>2 DEF Rewritten
  <2> QED
    BY <2>1, <2>2, <2>3, <2>4
<1>6. Counted'
  <2>1. pc' = "compact" /\ level' = level + 1 /\ level' - 1 = level /\ level' # 1
    BY <1>1 DEF Changed
  <2>2. SSTable'[0] = {}
    <3>1. CASE level = 1
      BY <1>2, <3>1, CompactAges
    <3>2. CASE level # 1
      <4>1. 0 \in Levels' /\ 0 # level /\ 0 # level - 1
        BY <1>1, <1>2, <3>2
      <4> QED
        BY <1>2, <3>2, <4>1 DEF StoreInv, Counted
    <3> QED
      BY <3>1, <3>2
  <2>3. ASSUME NEW i \in Levels' \ {0}, i # level
        PROVE  Cardinality(SSTable'[i]) <= UpperNum[i]
    <3>1. CASE i = level - 1
      <4>1. level # 1
        BY <2>3, <3>1
      <4>2. Cardinality(moved) = Cardinality(SSTable[i]) - UpperNum[i]
        BY <3>1, <4>1 DEF Chosen, CompactNum
      <4>3. IsFiniteSet(SSTable[i]) /\ moved \in SUBSET SSTable[i]
        BY <1>1, <3>1 DEF Chosen, StoreInv, TreeInv
      <4>4. /\ Cardinality(SSTable[i]) \in Nat /\ Cardinality(moved) \in Nat
            /\ Cardinality(SSTable[i] \ moved) = Cardinality(SSTable[i]) - Cardinality(SSTable[i] \cap moved)
        BY <4>3, FS_Subset, FS_CardinalityType, FS_Difference
      <4>5. SSTable[i] \cap moved = moved
        BY <4>3
      <4>6. UpperNum[i] \in Nat
        BY <1>1, <3>1, <4>1, UpperNumType
      <4>7. SSTable'[i] = SSTable[i] \ moved
        BY <1>2, <3>1
      <4>8. Cardinality(SSTable'[i]) = Cardinality(SSTable[i]) - Cardinality(moved)
        BY <4>4, <4>5, <4>7
      <4> QED
        BY ONLY <4>2, <4>4, <4>6, <4>8
    <3>2. CASE i # level - 1
      BY <1>2, <2>3, <3>2 DEF StoreInv, Counted
    <3> QED
      BY <3>1, <3>2
  <2> QED
    BY <1>2, <2>1, <2>2, <2>3 DEF Counted
<1>7. Numbered'
  <2> SUFFICES ASSUME NEW i \in Levels'
               PROVE  /\ \A t \in SSTable'[i] : 1 <= t.order /\ t.order <= Level'[i]
                      /\ \A a, b \in SSTable'[i] : a.order = b.order => a = b
    BY DEF Numbered
  <2>1. CASE i = level
    <3>1. \A a, b \in TablesOf(level) : a.order = b.order => a = b
      BY DEF TablesOf, StoreInv, Numbered
    <3>2. \A a, b \in new : a.order = b.order => a = b
      BY DEF Rewritten
    <3>3. \A t \in SSTable'[level] : t \in TablesOf(level) \/ t \in new
      BY <1>3
    <3>4. \A t \in SSTable'[level] : 1 <= t.order /\ t.order <= Level'[level]
      BY <1>2, <1>4, <1>5, <3>3
    <3>5. \A a \in TablesOf(level), b \in new : a.order # b.order
      BY <1>5
    <3> QED
      BY <2>1, <3>1, <3>2, <3>3, <3>4, <3>5
  <2>2. CASE i # level
    <3>1. i \in Levels /\ SSTable'[i] \in SUBSET SSTable[i] /\ Level'[i] = Level[i]
      BY <1>1, <1>2, <2>2
    <3> QED
      BY <3>1 DEF StoreInv, Numbered
  <2> QED
    BY <2>1, <2>2
<1>8. FilesMatch'
  <2> SUFFICES ASSUME ~tied'
               PROVE  files' = UNION {{<<i, t.order>> : t \in SSTable'[i]} : i \in Levels'}
    BY <1>7 DEF FilesMatch, Numbered
  <2>1. files = UNION {{<<i, t.order>> : t \in SSTable[i]} : i \in Levels}
    BY DEF Changed, StoreInv, FilesMatch
  <2>2. \A i \in Levels : \A a, b \in SSTable[i] : a.order = b.order => a = b
    BY DEF StoreInv, Numbered
  <2>3. SSTable'[level] = (TablesOf(level) \ old) \cup new /\ old \in SUBSET TablesOf(level)
    BY <1>3 DEF Chosen
  <2>4. moved \in SUBSET SSTable[level - 1]
    BY DEF Chosen
  <2>5. level \in Levels => TablesOf(level) = SSTable[level]
    BY DEF TablesOf
  <2>6. level \notin Levels => TablesOf(level) = {}
    BY DEF TablesOf
  <2>7. ASSUME NEW i \in Levels', NEW t \in SSTable'[i]
        PROVE  <<i, t.order>> \in files'
    <3>1. CASE i = level /\ t \in new
      <4>1. \A u \in old : u.order # t.order
        BY <1>5, <2>3, <3>1
      <4> QED
        BY <1>1, <3>1, <4>1 DEF Changed
    <3>2. CASE i = level /\ t \in TablesOf(level) \ old
      <4>1. level \in Levels /\ t \in SSTable[level]
        BY <2>5, <2>6, <3>2
      <4>2. \A u \in old : u.order # t.order
        BY <2>2, <2>3, <2>5, <3>2, <4>1
      <4>3. <<i, t.order>> \in files
        BY <2>1, <3>2, <4>1
      <4> QED
        BY <1>1, <3>2, <4>2, <4>3 DEF Changed
    <3>3. CASE i = level - 1
      <4>1. t \in SSTable[i] /\ t \notin moved /\ i \in Levels
        BY <1>1, <1>2, <3>3
      <4>2. \A u \in moved : u.order # t.order
        BY <2>2, <2>4, <3>3, <4>1
      <4>3. <<i, t.order>> \in files
        BY <2>1, <4>1
      <4> QED
        BY <1>1, <3>3, <4>2, <4>3 DEF Changed
    <3>4. CASE i # level /\ i # level - 1
      <4>1. <<i, t.order>> \in files
        BY <1>2, <2>1, <3>4
      <4> QED
        BY <3>4, <4>1 DEF Changed
    <3> QED
      BY <2>3, <3>1, <3>2, <3>3, <3>4
  <2>8. ASSUME NEW p \in files'
        PROVE  \E i \in Levels' : \E t \in SSTable'[i] : p = <<i, t.order>>
    <3>1. CASE p \in files
      <4> PICK i \in Levels : \E t \in SSTable[i] : p = <<i, t.order>>
        BY <2>1, <3>1
      <4>1. PICK t \in SSTable[i] : p = <<i, t.order>>
        OBVIOUS
      <4>2. ~(i = level /\ t \in old) /\ ~(i = level - 1 /\ t \in moved)
        BY <4>1 DEF Changed
      <4>3. t \in SSTable'[i] /\ i \in Levels'
        BY <1>2, <2>3, <2>5, <4>2
      <4> QED
        BY <4>1, <4>3
    <3>2. CASE p \notin files
      <4>1. PICK n \in new : p = <<level, n.order>>
        BY <3>2 DEF Changed
      <4> QED
        BY <1>2, <2>3, <4>1
    <3> QED
      BY <3>1, <3>2
  <2> QED
    BY <2>7, <2>8
<1> QED
  BY <1>6, <1>7, <1>8

-----------------------------------------------------------------------------
(* What a lookup finds in the tables: what the newest table of the first   *)
(* level that has the key holds for it.                                    *)
Holders(i, key) == {t \in SSTable[i] : key \in DOMAIN t.kv}

Newer(t, tables) == t \in tables /\ \A u \in tables : ~Older(t, u)

Finds(s, key) ==
  \/ s = Empty /\ \A i \in Levels : Holders(i, key) = {}
  \/ \E i \in Levels :
       /\ \A j \in Levels : j < i => Holders(j, key) = {}
       /\ \E t \in Holders(i, key) : Newer(t, Holders(i, key)) /\ s = t.kv[key]

LEMMA SomethingFound ==
  ASSUME TreeInv, NEW key \in Keys
  PROVE  \E s : Finds(s, key)
<1> DEFINE found == {i \in Levels : Holders(i, key) # {}}
<1>1. CASE found = {}
  BY <1>1 DEF Finds
<1>2. CASE found # {}
  <2>1. found \in SUBSET Nat
    BY DEF TreeInv
  <2>2. PICK i \in found : \A j \in found : i <= j
    <3> HIDE DEF found
    <3> QED
      BY <1>2, <2>1, LeastNumber
  <2>3. \A j \in Levels : j < i => Holders(j, key) = {}
    BY <2>1, <2>2 DEF TreeInv
  <2> DEFINE H == Holders(i, key)
             R == {p \in H \X H : Older(p[1], p[2])}
  <2>4. H # {} /\ IsFiniteSet(H) /\ \A t \in H : t.ts \in Nat /\ t.lo \in Nat
    <3>1. IsFiniteSet(SSTable[i]) /\ H \in SUBSET SSTable[i] /\ SSTable[i] \in SUBSET Tables
      BY DEF TreeInv, TypeOK, Holders
    <3>2. H # {}
      BY <2>2
    <3> QED
      BY <3>1, <3>2, FS_Subset, TableType
  <2> HIDE DEF H
  <2>5. \A a, b \in H : <<a, b>> \in R <=> Older(a, b)
    OBVIOUS
  <2> HIDE DEF R
  <2>6. \A x \in H : <<x, x>> \notin R
    BY <2>4, <2>5 DEF Older
  <2>7. \A x, y, z \in H : <<x, y>> \in R /\ <<y, z>> \in R => <<x, z>> \in R
    BY <2>4, <2>5 DEF Older
  <2>8. PICK t \in H : \A u \in H : <<t, u>> \notin R
    BY ONLY <2>4, <2>6, <2>7, MaximalElement
  <2>9. Newer(t, H)
    BY <2>5, <2>8 DEF Newer
  <2>10. Finds(t.kv[key], key)
    BY <2>2, <2>3, <2>9 DEF Finds, H
  <2> QED
    BY <2>10
<1> QED
  BY <1>1, <1>2

LEMMA LookupFinds ==
  ASSUME TreeInv, NEW key \in Keys, key \notin DOMAIN mem, NEW s, Finds(s, key)
  PROVE  Lookup(key) = s
<1> DEFINE found == {i \in Levels : Hits(i, key) # {}}
<1>1. \A i \in Levels : Hits(i, key) = Holders(i, key)
  BY DEF TreeInv, TableOK, Hits, Holders
<1>2. Lookup(key) = IF found = {} THEN Empty
                    ELSE LET hits == Hits(Min(found), key)
                         IN (CHOOSE t \in hits : \A u \in hits : ~Older(t, u)).kv[key]
  BY DEF Lookup
<1>3. CASE s = Empty /\ \A i \in Levels : Holders(i, key) = {}
  BY <1>1, <1>2, <1>3
<1>4. ASSUME NEW i \in Levels, \A j \in Levels : j < i => Holders(j, key) = {},
             NEW t \in Holders(i, key), Newer(t, Holders(i, key)), s = t.kv[key]
      PROVE  Lookup(key) = s
  <2>1. i \in found /\ (\A j \in found : i <= j) /\ found \in SUBSET Nat
    BY <1>1, <1>4 DEF TreeInv
  <2>2. Min(found) = i
    <3> HIDE DEF found
    <3>1. Min(found) \in found /\ \A j \in found : Min(found) <= j
      BY <2>1, LeastNumber
    <3>2. Min(found) <= i /\ i <= Min(found) /\ Min(found) \in Nat /\ i \in Nat
      BY <2>1, <3>1
    <3> QED
      BY ONLY <3>2
  <2> DEFINE hits == Holders(i, key)
             best == CHOOSE x \in hits : \A u \in hits : ~Older(x, u)
  <2>3. Lookup(key) = best.kv[key]
    BY <1>1, <1>2, <2>1, <2>2
  <2>4. best \in hits /\ \A u \in hits : ~Older(best, u)
    BY <1>4 DEF Newer
  <2>5. best = t
    <3> HIDE DEF best
    <3>1. SameAge(best, t)
      BY <1>4, <2>4 DEF SameAge, Newer
    <3> QED
      BY <2>4, <3>1, DistinctAges DEF Holders
  <2> QED
    BY <1>4, <2>3, <2>5
<1> QED
  BY <1>3, <1>4 DEF Finds

(* A compaction changes nothing that get sees: of a key that a table it    *)
(* takes was the first to have, the merge keeps the same string, or drops  *)
(* a deletion mark below which there is nothing.                           *)
LEMMA CompactKeepsFinds ==
  ASSUME StoreInv, pc = "compact", NEW moved, NEW old, NEW new,
         Chosen(moved, old), Rewritten(moved, old, new), Changed(moved, old, new), ~tied',
         NEW key \in Keys, NEW s, Finds(s, key)
  PROVE  \E r : Finds(r, key)' /\ Visible(r) = Visible(s)
<1> PICK N \in Nat : Levels = 0 .. N
  BY DEF StoreInv, TreeInv
<1> DEFINE After(i) == {t \in SSTable'[i] : key \in DOMAIN t.kv}
<1>1. /\ level \in 1 .. (N + 1) /\ level - 1 \in Levels /\ level - 1 \in Nat
      /\ AtBottom(level) <=> level >= N
  BY CompactLevels
<1>2. /\ level - 1 \in Levels' /\ level \in Levels' /\ Levels' = Levels \cup {level}
      /\ SSTable'[level - 1] = SSTable[level - 1] \ moved
      /\ \A i \in Levels' : i # level /\ i # level - 1 => i \in Levels /\ SSTable'[i] = SSTable[i]
  BY CompactTables, <1>1 DEF Changed, Levels
<1>3. SSTable'[level] = (TablesOf(level) \ old) \cup new
  <2>1. PICK added \in SUBSET new : /\ SSTable'[level] = (TablesOf(level) \ old) \cup added
                                    /\ ~tied' => added = new
    BY CompactTables
  <2> QED
    BY <2>1
<1>4. /\ moved \in SUBSET SSTable[level - 1] /\ old \in SUBSET TablesOf(level)
      /\ level \in Levels => TablesOf(level) = SSTable[level]
      /\ level \notin Levels => TablesOf(level) = {}
  BY DEF Chosen, TablesOf
<1>5. /\ \A i \in Levels' : i # level /\ i # level - 1 => i \in Levels /\ After(i) = Holders(i, key)
      /\ After(level - 1) = Holders(level - 1, key) \ moved
      /\ After(level) = {t \in (TablesOf(level) \ old) \cup new : key \in DOMAIN t.kv}
  BY <1>2, <1>3 DEF Holders
<1>6. \A r : Finds(r, key)' <=>
        \/ r = Empty /\ \A i \in Levels' : After(i) = {}
        \/ \E i \in Levels' : /\ \A j \in Levels' : j < i => After(j) = {}
                              /\ \E t \in After(i) : Newer(t, After(i)) /\ r = t.kv[key]
  BY DEF Finds, Holders, Newer
<1> HIDE DEF After
<1>7. \A n \in new : key \in DOMAIN n.kv => LastWord(n.kv[key], moved \cup old, key)
  BY DEF Rewritten
<1>8. \A n \in new : key \in DOMAIN n.kv => \E t \in moved \cup old : key \in DOMAIN t.kv
  BY <1>7 DEF LastWord, HoldsLast
<1>9. \A t \in TablesOf(level) \cup new \cup moved :
        /\ t \in Tables /\ t.ts \in Nat /\ t.lo \in Nat /\ t.hi \in Nat
        /\ key \in DOMAIN t.kv => t.lo <= key /\ key <= t.hi
  <2>1. \A t \in TablesOf(level) \cup new \cup moved : t \in Tables /\ TableOK(t)
    BY <1>4, CompactLevels, CompactAges DEF Rewritten
  <2> QED
    BY <2>1, TableType DEF TableOK
<1>10. key \in Nat
  BY StoreConstants
<1>11. CASE s = Empty /\ \A i \in Levels : Holders(i, key) = {}
  <2>1. \A t \in moved \cup old : key \notin DOMAIN t.kv
    BY <1>1, <1>4, <1>11 DEF Holders
  <2>2. After(level) = {}
    BY <1>4, <1>5, <1>8, <1>11, <2>1 DEF Holders
  <2>3. \A i \in Levels' : After(i) = {}
    BY <1>1, <1>5, <1>11, <2>2
  <2> QED
    BY <1>6, <1>11, <2>3
<1>12. ASSUME NEW i \in Levels, \A j \in Levels : j < i => Holders(j, key) = {},
              NEW t \in Holders(i, key), Newer(t, Holders(i, key)), s = t.kv[key]
       PROVE  \E r : Finds(r, key)' /\ Visible(r) = Visible(s)
  <2>1. t \in SSTable[i] /\ key \in DOMAIN t.kv /\ i \in Nat
    BY <1>12 DEF Holders
  <2>2. \A u \in SSTable[i] : key \in DOMAIN u.kv => ~Older(t, u)
    BY <1>12 DEF Holders, Newer
  <2>3. \A j \in Levels : j < i => \A u \in SSTable[j] : key \notin DOMAIN u.kv
    BY <1>12 DEF Holders
  <2>4. CASE (i = level - 1 /\ t \in moved) \/ (i = level /\ t \in old)
    <3>1. t \in moved \cup old
      BY <2>4
    <3>2. \A u \in TablesOf(level) \ old : key \notin DOMAIN u.kv
      <4> SUFFICES ASSUME NEW u \in TablesOf(level) \ old, key \in DOMAIN u.kv PROVE FALSE
        OBVIOUS
      <4>1. u.hi < t.lo \/ t.hi < u.lo
        BY <3>1, CompactSeparates
      <4>2. t \in TablesOf(level) \cup new \cup moved /\ u \in TablesOf(level) \cup new \cup moved
        BY <1>4, <3>1
      <4> QED
        BY <1>9, <1>10, <2>1, <4>1, <4>2
    <3>3. After(level - 1) = {}
      <4> SUFFICES ASSUME NEW u \in SSTable[level - 1] \ moved, key \in DOMAIN u.kv PROVE FALSE
        BY <1>5 DEF Holders
      <4>1. CASE i = level - 1 /\ t \in moved
        <5>1. Older(t, u)
          BY <4>1 DEF Chosen
        <5> QED
          BY <2>2, <4>1, <5>1
      <4>2. CASE i = level /\ t \in old
        BY <1>1, <2>3, <4>2
      <4> QED
        BY <2>4, <4>1, <4>2
    <3>4. \A j \in Levels' : j < level => After(j) = {}
      <4> SUFFICES ASSUME NEW j \in Levels', j < level, j # level - 1 PROVE After(j) = {}
        BY <3>3
      <4>1. j \in Levels /\ After(j) = Holders(j, key)
        BY <1>1, <1>2, <1>5
      <4>2. j < i
        BY <1>1, <2>4, <4>1
      <4> QED
        BY <2>3, <4>1, <4>2 DEF Holders
    <3>5. ASSUME NEW r, LastWord(r, moved \cup old, key)
          PROVE  r = s
      <4>1. PICK u \in moved \cup old : HoldsLast(u, moved \cup old, key) /\ r = u.kv[key]
        BY <3>5 DEF LastWord
      <4>2. key \in DOMAIN u.kv /\ ~Older(u, t)
        BY <2>1, <3>1, <4>1 DEF HoldsLast
      <4>3. u = t
        <5>1. CASE i = level - 1 /\ t \in moved /\ u \in moved
          <6>1. SameAge(u, t) /\ u \in SSTable[i] /\ t \in SSTable[i]
            BY <1>4, <2>1, <2>2, <4>2, <5>1 DEF SameAge
          <6> QED
            BY <6>1, DistinctAges DEF StoreInv
        <5>2. CASE i = level - 1 /\ t \in moved /\ u \in old
          <6>1. level \in Levels /\ u \in SSTable[level] /\ t \in SSTable[level - 1]
            BY <1>4, <5>2
          <6>2. t.ts >= u.ts
            BY <1>1, <1>4, <1>9, <5>2, <6>1 DEF StoreInv, TreeInv, TimestampOrder
          <6>3. t.ts # u.ts
            BY <5>2 DEF Changed
          <6> QED
            BY <1>4, <1>9, <4>2, <5>2, <6>2, <6>3 DEF Older
        <5>3. CASE i = level /\ t \in old /\ u \in moved
          BY <1>1, <1>4, <2>3, <4>2, <5>3
        <5>4. CASE i = level /\ t \in old /\ u \in old
          <6> SUFFICES ASSUME u # t PROVE FALSE
            OBVIOUS
          <6>1. u.hi < t.lo \/ t.hi < u.lo
            BY <1>4, <5>4, CompactLevels
          <6> QED
            BY <1>4, <1>9, <1>10, <2>1, <4>2, <5>4, <6>1
        <5> QED
          BY <2>4, <5>1, <5>2, <5>3, <5>4
      <4> QED
        BY <1>12, <4>1, <4>3
    <3>6. CASE \E n \in new : key \in DOMAIN n.kv
      <4>1. PICK n \in new : key \in DOMAIN n.kv
        BY <3>6
      <4>2. n.kv[key] = s
        BY <1>7, <3>5, <4>1
      <4>3. \A u \in new : key \in DOMAIN u.kv => u = n
        <5> SUFFICES ASSUME NEW u \in new, key \in DOMAIN u.kv, u # n PROVE FALSE
          OBVIOUS
        <5>1. u.hi < n.lo \/ n.hi < u.lo
          BY DEF Rewritten
        <5> QED
          BY <1>9, <1>10, <4>1, <5>1
      <4>4. After(level) = {n}
        BY <1>5, <3>2, <4>1, <4>3
      <4>5. Newer(n, After(level))
        <5>1. ~Older(n, n)
          BY <1>9 DEF Older
        <5> QED
          BY <4>4, <5>1 DEF Newer
      <4>6. Finds(s, key)'
        BY <1>2, <1>6, <3>4, <4>2, <4>4, <4>5
      <4> QED
        BY <4>6
    <3>7. CASE ~\E n \in new : key \in DOMAIN n.kv
      <4>1. AtBottom(level) /\ LastWord(DEL, moved \cup old, key)
        BY <2>1, <3>1, <3>7 DEF Rewritten
      <4>2. s = DEL
        BY <3>5, <4>1
      <4>3. After(level) = {}
        BY <1>5, <3>2, <3>7
      <4>4. \A j \in Levels' : j = level \/ j < level
        BY <1>1, <1>2, <4>1
      <4>5. Finds(Empty, key)'
        BY <1>6, <3>4, <4>3, <4>4
      <4> QED
        BY <4>2, <4>5 DEF Visible
    <3> QED
      BY <3>6, <3>7
  <2>5. CASE ~((i = level - 1 /\ t \in moved) \/ (i = level /\ t \in old))
    <3>1. i \in Levels' /\ t \in After(i)
      BY <1>2, <1>4, <1>5, <1>12, <2>1, <2>5 DEF Holders
    <3>2. i # level - 1 /\ i > level - 1 => \A u \in moved : key \notin DOMAIN u.kv
      BY <1>1, <1>4, <2>3
    <3>3. i > level => \A u \in TablesOf(level) \cup new : key \notin DOMAIN u.kv
      <4> SUFFICES ASSUME i > level PROVE \A u \in TablesOf(level) \cup new : key \notin DOMAIN u.kv
        OBVIOUS
      <4>1. level \in Levels /\ i > level - 1 /\ i # level - 1
        BY <1>1, <2>1
      <4>2. \A u \in TablesOf(level) : key \notin DOMAIN u.kv
        BY <1>4, <2>3, <4>1
      <4> QED
        BY <1>4, <1>8, <3>2, <4>1, <4>2
    <3>4. ASSUME NEW j \in Levels', j < i
          PROVE  After(j) = {}
      <4>1. CASE j = level
        BY <1>1, <1>5, <2>1, <3>3, <3>4, <4>1
      <4>2. CASE j # level
        <5>1. j \in Levels /\ After(j) \in SUBSET Holders(j, key)
          BY <1>1, <1>5, <4>2
        <5> QED
          BY <1>12, <3>4, <5>1
      <4> QED
        BY <4>1, <4>2
    <3>5. Newer(t, After(i))
      <4> SUFFICES ASSUME NEW u \in After(i) PROVE ~Older(t, u)
        BY <3>1 DEF Newer
      <4>1. CASE u \in Holders(i, key)
        BY <1>12, <4>1 DEF Newer
      <4>2. CASE u \notin Holders(i, key)
        <5>1. i = level
          BY <1>2, <1>5, <4>2
        <5>2. TablesOf(level) = SSTable[level]
          BY <1>4, <5>1
        <5>3. u \in new /\ key \in DOMAIN u.kv /\ t \in TablesOf(level) \ old
          BY <1>5, <2>1, <2>5, <4>2, <5>1, <5>2 DEF Holders
        <5>4. t.hi < u.lo \/ u.hi < t.lo
          BY <5>3, CompactSeparates
        <5> QED
          BY <1>9, <1>10, <2>1, <5>3, <5>4
      <4> QED
        BY <4>1, <4>2
    <3>6. Finds(s, key)'
      BY <1>6, <1>12, <3>1, <3>4, <3>5
    <3> QED
      BY <3>6
  <2> QED
    BY <2>4, <2>5
<1> QED
  BY <1>11, <1>12 DEF Finds

(* When the memtable holds a key neither before nor after, what get        *)
(* returns depends on what is found in the tables alone.                   *)
GetsFound ==
  \A key \in Keys : \A s :
    TreeInv /\ key \notin DOMAIN mem /\ Finds(s, key) => Get(key) = Visible(s)

LEMMA GetFinds == GetsFound
BY LookupFinds DEF Get, GetsFound

LEMMA GetFindsNext == GetsFound'
BY GetFinds, PTL

LEMMA GetStays ==
  ASSUME TreeInv, TreeInv', NEW key \in Keys, key \notin DOMAIN mem, key \notin DOMAIN mem',
         \A s : Finds(s, key) => \E r : Finds(r, key)' /\ Visible(r) = Visible(s)
  PROVE  Get(key)' = Get(key)
<1>1. PICK s : Finds(s, key)
  BY SomethingFound
<1>2. PICK r : Finds(r, key)' /\ Visible(r) = Visible(s)
  BY <1>1
<1>3. Get(key) = Visible(s)
  BY <1>1, GetFinds DEF GetsFound
<1>5. Get(key)' = Visible(r)'
  BY <1>2, GetFindsNext DEF GetsFound
<1>6. Visible(r)' = Visible(r)
  BY DEF Visible
<1> QED
  BY <1>2, <1>3, <1>5, <1>6

LEMMA CompactKeeps ==
  ASSUME StoreInv, Compact
  PROVE  StoreInv' /\ (~tied' => \A key \in Keys : Get(key)' = Get(key))
<1>1. pc = "compact"
  BY CompactStep
<1>2. PICK moved, old, new :
        Chosen(moved, old) /\ Rewritten(moved, old, new) /\ Changed(moved, old, new)
  BY CompactStep
<1>3. TreeInv'
  BY <1>1, <1>2, CompactKeepsTree
<1>4. Counted' /\ Numbered' /\ FilesMatch'
  BY <1>1, <1>2, CompactKeepsNumbers
<1>5. MemInv'
  BY <1>1, <1>2 DEF Changed, StoreInv, MemInv
<1>6. ASSUME ~tied', NEW key \in Keys
      PROVE  Get(key)' = Get(key)
  <2>1. key \notin DOMAIN mem /\ key \notin DOMAIN mem'
    BY <1>1, <1>2 DEF Changed, StoreInv, MemInv
  <2>2. \A s : Finds(s, key) => \E r : Finds(r, key)' /\ Visible(r) = Visible(s)
    BY <1>1, <1>2, <1>6, CompactKeepsFinds
  <2> QED
    BY <1>3, <2>1, <2>2, GetStays DEF StoreInv
<1>7. Reads'
  <2> SUFFICES ASSUME ~tied' PROVE Reads'
    BY DEF Reads
  <2>1. /\ ~tied /\ pc' = pc /\ pc # "idle" /\ pending' = pending /\ db' = db
    BY <1>1, <1>2 DEF Changed
  <2>2. pending[1] \in Keys
    BY <1>1 DEF StoreInv, MemInv, TreeInv, TypeOK
  <2>3. /\ \A k \in Keys : k # pending[1] => Get(k) = Visible(db[k])
        /\ db[pending[1]] = pending[2] /\ (pending[2] = DEL => Get(pending[1]) # Empty)
    BY <2>1 DEF StoreInv, Reads
  <2>4. \A k \in Keys : Get(k)' = Get(k)
    BY <1>6
  <2>5. \A k \in Keys : k # pending[1] => Get(k)' = Visible(db[k])'
    BY <2>1, <2>3, <2>4 DEF Visible
  <2>6. Get(pending[1])' = Get(pending[1])
    BY <2>1, <2>2, <2>4
  <2> QED
    BY <2>1, <2>3, <2>5, <2>6 DEF Reads
<1> QED
  BY <1>3, <1>4, <1>5, <1>6, <1>7 DEF StoreInv

-----------------------------------------------------------------------------
(* The memtable: what a put inserts, and what get makes of it.             *)
LEMMA Inserts ==
  ASSUME StoreInv, NEW key \in Keys, NEW s \in Values \cup {DEL}, Insert(key, s)
  PROVE  /\ DOMAIN mem' = DOMAIN mem \cup {key} /\ DOMAIN mem' \in SUBSET Keys
         /\ \A k \in DOMAIN mem' : mem'[k] = IF k = key THEN s ELSE mem[k]
         /\ \A k \in DOMAIN mem' : mem'[k] \in Strings /\ mem'[k] # Empty
         /\ \A k \in DOMAIN mem' : minKey' <= k /\ k <= maxKey'
         /\ minKey' \in Nat /\ maxKey' \in Nat
         /\ mem' \in [DOMAIN mem' -> Strings]
<1>1. TypeOK /\ MemInv
  BY DEF StoreInv, TreeInv
<1>2. s \in Strings /\ s # Empty
  BY StoreConstants DEF Strings
<1>3. /\ DOMAIN mem' = DOMAIN mem \cup {key}
      /\ \A k \in DOMAIN mem' : mem'[k] = IF k = key THEN s ELSE mem[k]
  BY DEF Insert, Inserted
<1>4. DOMAIN mem \in SUBSET Keys /\ minKey \in Nat /\ maxKey \in Nat
  BY <1>1 DEF TypeOK
<1>5. /\ minKey' \in Nat /\ minKey' <= minKey /\ minKey' <= key
      /\ maxKey' \in Nat /\ maxKey' >= maxKey /\ maxKey' >= key
  <2>1. key \in Nat
    BY StoreConstants
  <2>2. minKey' = Min({minKey, key}) /\ maxKey' = Max({maxKey, key})
    BY DEF Insert
  <2> QED
    BY <1>4, <2>1, <2>2, LeastOfTwo
<1>6. \A k \in DOMAIN mem' : mem'[k] \in Strings /\ mem'[k] # Empty
  BY <1>1, <1>2, <1>3 DEF TypeOK, MemInv
<1>7. \A k \in DOMAIN mem' : minKey' <= k /\ k <= maxKey'
  <2>1. \A k \in Keys : k \in Nat
    BY StoreConstants
  <2>2. \A k \in DOMAIN mem : minKey <= k /\ k <= maxKey
    BY <1>1 DEF MemInv
  <2> QED
    BY <1>3, <1>4, <1>5, <2>1, <2>2
<1>8. mem' \in [DOMAIN mem' -> Strings]
  <2>1. mem' = [k \in DOMAIN mem \cup {key} |-> IF k = key THEN s ELSE mem[k]]
    BY DEF Insert, Inserted
  <2> QED
    BY <1>6, <2>1
<1> QED
  BY <1>3, <1>4, <1>5, <1>6, <1>7, <1>8

LEMMA GrownType ==
  ASSUME TypeOK, NEW size \in Nat, NEW key \in Keys, NEW s \in Values \cup {DEL}
  PROVE  Grown(size, key, s) \in 0 .. (Word - 1)
<1>1. Growth(key, s) \in Int
  <2>1. Size[s] \in Nat /\ PairSize \in Nat
    BY StoreConstants
  <2>2. key \in DOMAIN mem => Size[mem[key]] \in Nat
    BY StoreConstants DEF TypeOK, Strings
  <2> QED
    BY <2>1, <2>2 DEF Growth
<1>2. Word \in Nat /\ Word > 0
  BY StoreConstants
<1> QED
  BY <1>1, <1>2 DEF Grown

LEMMA GetInserted ==
  ASSUME StoreInv, TreeInv', NEW key \in Keys, NEW s \in Values \cup {DEL}, Insert(key, s),
         UNCHANGED SSTable
  PROVE  /\ Get(key)' = Visible(s)
         /\ \A k \in Keys : k # key => Get(k)' = Get(k)
<1>1. /\ DOMAIN mem' = DOMAIN mem \cup {key}
      /\ \A k \in DOMAIN mem' : mem'[k] = IF k = key THEN s ELSE mem[k]
      /\ \A k \in DOMAIN mem' : mem'[k] # Empty
  BY Inserts
<1>2. \A k \in DOMAIN mem : mem[k] # Empty
  BY DEF StoreInv, MemInv
<1>3. \A k \in DOMAIN mem' : Get(k)' = Visible(mem'[k])
  BY <1>1 DEF Get, Lookup, Visible
<1>4. \A k \in DOMAIN mem : Get(k) = Visible(mem[k])
  BY <1>2 DEF Get, Lookup
<1>5. ASSUME NEW k \in Keys, k # key
      PROVE  Get(k)' = Get(k)
  <2>1. CASE k \in DOMAIN mem
    BY <1>1, <1>3, <1>4, <1>5, <2>1
  <2>2. CASE k \notin DOMAIN mem
    <3>1. k \notin DOMAIN mem'
      BY <1>1, <1>5, <2>2
    <3>2. \A v : Finds(v, k) => Finds(v, k)'
      BY DEF Finds, Holders, Newer, Levels
    <3> QED
      BY <2>2, <3>1, <3>2, GetStays DEF StoreInv
  <2> QED
    BY <2>1, <2>2
<1> QED
  BY <1>1, <1>3, <1>5

(* Steps that leave the tree alone.                                        *)
LEMMA TreeStays ==
  ASSUME TreeInv, TypeOK', UNCHANGED <<SSTable, timeStamp>>
  PROVE  TreeInv'
<1>1. \A t : TableOK(t) => TableOK(t)'
  BY DEF TableOK
<1>2. Levels' = Levels
  BY DEF Levels
<1>3. \A i \in Levels' : IsFiniteSet(SSTable'[i]) /\ \A t \in SSTable'[i] : TableOK(t)'
  BY <1>1, <1>2 DEF TreeInv
<1>4. DisjointLevels' /\ TimestampOrder' /\ NoMarkAtBottom'
  BY <1>2 DEF TreeInv, DisjointLevels, TimestampOrder, NoMarkAtBottom
<1> QED
  BY <1>2, <1>3, <1>4 DEF TreeInv

LEMMA PutInMemoryKeeps ==
  ASSUME StoreInv, NEW key \in Keys, NEW s \in Values \cup {DEL}, PutInMemory(key, s)
  PROVE  /\ StoreInv'
         /\ Get(key)' = Visible(s)
         /\ \A k \in Keys : k # key => Get(k)' = Get(k)
<1>1. /\ pc = "idle" /\ Insert(key, s) /\ db' = [db EXCEPT ![key] = s]
      /\ memory' = Grown(memory, key, s)
      /\ UNCHANGED <<timeStamp, pending, SSTable, Level, files, pc, level, tied>>
  BY DEF PutInMemory, Keep, tree
<1>2. /\ DOMAIN mem' = DOMAIN mem \cup {key} /\ DOMAIN mem' \in SUBSET Keys
      /\ \A k \in DOMAIN mem' : mem'[k] \in Strings /\ mem'[k] # Empty
      /\ \A k \in DOMAIN mem' : minKey' <= k /\ k <= maxKey'
      /\ minKey' \in Nat /\ maxKey' \in Nat
      /\ mem' \in [DOMAIN mem' -> Strings]
  BY <1>1, Inserts
<1>3. TypeOK'
  <2>1. memory' \in 0 .. (Word - 1)
    BY <1>1, GrownType DEF StoreInv, TreeInv, TypeOK
  <2>2. s \in Strings /\ TypeOK
    BY DEF Strings, StoreInv, TreeInv
  <2>3. db' \in [Keys -> Strings]
    BY <1>1, <2>2 DEF TypeOK
  <2> QED
    BY <1>1, <1>2, <2>1, <2>2, <2>3 DEF TypeOK, Levels
<1>4. TreeInv'
  BY <1>1, <1>3, TreeStays DEF StoreInv
<1>5. MemInv'
  BY <1>1, <1>2 DEF StoreInv, MemInv
<1>6. Counted' /\ Numbered' /\ FilesMatch'
  BY <1>1 DEF StoreInv, Counted, Numbered, FilesMatch, Levels
<1>7. Get(key)' = Visible(s) /\ \A k \in Keys : k # key => Get(k)' = Get(k)
  BY <1>1, <1>4, GetInserted
<1>8. Reads'
  <2>1. ~tied => \A k \in Keys : Get(k) = Visible(db[k])
    BY <1>1 DEF StoreInv, Reads
  <2>2. db' = [k \in Keys |-> IF k = key THEN s ELSE db[k]]
    BY <1>1 DEF StoreInv, TreeInv, TypeOK
  <2>3. ~tied => \A k \in Keys : Get(k)' = Visible(db[k])'
    BY <1>7, <2>1, <2>2 DEF Visible
  <2> QED
    BY <1>1, <2>3 DEF Reads
<1> QED
  BY <1>4, <1>5, <1>6, <1>7, <1>8 DEF StoreInv

LEMMA FinishPutKeeps ==
  ASSUME StoreInv, FinishPut
  PROVE  /\ StoreInv'
         /\ \E key \in Keys, s \in Values \cup {DEL} :
              /\ pending = <<key, s>>
              /\ Get(key)' = Visible(s)
              /\ \A k \in Keys : k # key => Get(k)' = Get(k)
<1> PICK key, s : key = pending[1] /\ s = pending[2]
  OBVIOUS
<1>1. /\ pc = "insert" /\ Insert(key, s) /\ pending' = <<>> /\ pc' = "idle" /\ level' = 0
      /\ UNCHANGED <<memory, timeStamp, SSTable, Level, files, db, tied>>
  BY DEF FinishPut, InsertLate, tree
<1>2. key \in Keys /\ s \in Values \cup {DEL} /\ pending = <<key, s>>
  <2>1. pending \in Keys \X Strings
    BY DEF FinishPut, InsertLate, StoreInv, TreeInv, TypeOK
  <2>2. s # Empty
    BY <1>1 DEF StoreInv, MemInv
  <2> QED
    BY <2>1, <2>2 DEF Strings
<1>3. /\ DOMAIN mem' = DOMAIN mem \cup {key} /\ DOMAIN mem' \in SUBSET Keys
      /\ \A k \in DOMAIN mem' : mem'[k] \in Strings /\ mem'[k] # Empty
      /\ \A k \in DOMAIN mem' : minKey' <= k /\ k <= maxKey'
      /\ minKey' \in Nat /\ maxKey' \in Nat
      /\ mem' \in [DOMAIN mem' -> Strings]
  BY <1>1, <1>2, Inserts
<1>4. TypeOK'
  BY <1>1, <1>3 DEF StoreInv, TreeInv, TypeOK, Levels
<1>5. TreeInv'
  BY <1>1, <1>4, TreeStays DEF StoreInv
<1>6. MemInv'
  BY <1>1, <1>3 DEF StoreInv, MemInv
<1>7. Counted' /\ Numbered' /\ FilesMatch'
  BY <1>1 DEF StoreInv, Counted, Numbered, FilesMatch, Levels
<1>8. Get(key)' = Visible(s) /\ \A k \in Keys : k # key => Get(k)' = Get(k)
  BY <1>1, <1>2, <1>5, GetInserted
<1>9. Reads'
  <2>1. ~tied => /\ \A k \in Keys : k # key => Get(k) = Visible(db[k])
                 /\ db[key] = s
    BY <1>1 DEF StoreInv, Reads
  <2>2. ~tied => \A k \in Keys : Get(k)' = Visible(db[k])'
    BY <1>1, <1>8, <2>1 DEF Visible
  <2> QED
    BY <1>1, <2>2 DEF Reads
<1> QED
  BY <1>2, <1>5, <1>6, <1>7, <1>8, <1>9 DEF StoreInv

(* A memtable that is full is not empty: the least pair fits in a new one. *)
LEMMA FullMemtable ==
  ASSUME StoreInv, pc = "idle", NEW key \in Keys, NEW s \in Values \cup {DEL}, Overflows(key, s)
  PROVE  DOMAIN mem # {}
<1> SUFFICES ASSUME DOMAIN mem = {} PROVE FALSE
  OBVIOUS
<1>1. memory = InitialSize
  BY DEF StoreInv, MemInv
<1>2. Growth(key, s) = PairSize + Size[s]
  BY DEF Growth
<1>3. /\ InitialSize + PairSize + Size[s] \in 0 .. TableSize
      /\ InitialSize \in Nat /\ PairSize \in Nat /\ Size[s] \in Nat /\ Word \in Nat /\ TableSize < Word
      /\ TableSize \in Nat
  BY StoreConstants
<1>4. InitialSize + (PairSize + Size[s]) = InitialSize + PairSize + Size[s]
  BY <1>3
<1>5. \A n \in 0 .. TableSize : n % Word = n
  BY <1>3
<1>6. Grown(memory, key, s) \in 0 .. TableSize
  BY <1>1, <1>2, <1>3, <1>4, <1>5 DEF Grown
<1> QED
  BY <1>3, <1>6 DEF Overflows

LEMMA PutFlushKeeps ==
  ASSUME StoreInv, NEW key \in Keys, NEW s \in Values \cup {DEL}, PutFlush(key, s),
         s = DEL => Get(key) # Empty
  PROVE  /\ StoreInv'
         /\ \A k \in Keys : Get(k)' = Get(k)
<1> PICK new : new = MemTable
  OBVIOUS
<1>1. /\ pc = "idle" /\ timeStamp < MaxFlushes /\ pending = <<>> /\ Overflows(key, s)
      /\ timeStamp' = timeStamp + 1 /\ mem' = NoPairs /\ minKey' = SignedMax /\ maxKey' = SignedMax + 1
      /\ memory' = Grown(ClearedSize, key, s) /\ pending' = <<key, s>>
      /\ SSTable' = [SSTable EXCEPT ![0] = Emplace(@, {new})]
      /\ Level' = [Level EXCEPT ![0] = @ + 1]
      /\ files' = files \cup {<<0, Level[0] + 1>>}
      /\ pc' = (IF Level[0] + 1 > Level0 THEN "compact" ELSE "insert")
      /\ level' = 1 /\ db' = [db EXCEPT ![key] = s] /\ tied' = tied
  BY DEF PutFlush, Flush, ClearMemTable
<1>2. TreeInv /\ MemInv /\ TypeOK
  BY DEF StoreInv, TreeInv
<1>3. /\ 0 \in Levels /\ timeStamp \in Nat /\ Level[0] \in Nat /\ DOMAIN Level = Levels
      /\ DOMAIN mem \in SUBSET Keys /\ DOMAIN mem # {}
  BY <1>1, <1>2, FullMemtable DEF TreeInv, TypeOK
<1>4. /\ new.ts = timeStamp /\ new.order = Level[0] + 1 /\ new.lo = minKey /\ new.hi = maxKey
      /\ new.kv = mem
  BY DEF MemTable
<1>5. new \in Tables
  <2>1. mem \in UNION {[S -> Strings] : S \in SUBSET Keys}
    <3>1. mem \in [DOMAIN mem -> Strings]
      BY <1>2 DEF MemInv
    <3> QED
      BY <1>3, <3>1
  <2> QED
    BY <1>2, <1>3, <2>1 DEF MemTable, Tables, TypeOK
<1>6. TableOK(new)'
  <2>1. \A k \in DOMAIN mem : minKey <= k /\ k <= maxKey /\ mem[k] # Empty
    BY <1>2 DEF MemInv
  <2>2. minKey <= maxKey
    <3>1. PICK k \in DOMAIN mem : k \in Nat
      BY <1>3, StoreConstants
    <3>2. minKey <= k /\ k <= maxKey /\ minKey \in Nat /\ maxKey \in Nat
      BY <1>2, <2>1 DEF TypeOK
    <3> QED
      BY <3>1, <3>2
  <2> QED
    BY <1>1, <1>3, <1>4, <2>1, <2>2 DEF TableOK
<1>7. \A t \in SSTable[0] : t.ts \in Nat /\ t.ts < timeStamp
  BY <1>2, <1>3, TableType DEF TreeInv, TypeOK, TableOK
<1>8. /\ Levels' = Levels /\ DOMAIN Level' = Levels
      /\ SSTable'[0] = SSTable[0] \cup {new} /\ Level'[0] = Level[0] + 1
      /\ \A i \in Levels : i # 0 => SSTable'[i] = SSTable[i] /\ Level'[i] = Level[i]
  <2>1. \A t \in SSTable[0] : ~SameAge(new, t)
    BY <1>3, <1>4, <1>7 DEF SameAge, Older
  <2>2. Emplace(SSTable[0], {new}) = SSTable[0] \cup {new}
    BY <2>1 DEF Emplace
  <2> QED
    BY <1>1, <1>3, <2>2 DEF Levels
<1>9. TypeOK'
  <2>1. memory' \in 0 .. (Word - 1)
    BY <1>1, <1>2, GrownType, StoreConstants
  <2>2. DOMAIN mem' = {}
    BY <1>1 DEF NoPairs
  <2>3. minKey' \in Nat /\ maxKey' \in Nat /\ timeStamp' \in 0 .. MaxFlushes
    <3>1. SignedMax \in Nat /\ SignedMax + 1 \in Nat /\ MaxFlushes \in Nat
      BY StoreConstants
    <3>2. timeStamp + 1 \in 0 .. MaxFlushes
      BY <1>1, <1>3, <3>1
    <3> QED
      BY <1>1, <3>1, <3>2
  <2>4. Levels' = 0 .. Max(Levels') /\ DOMAIN Level' = Levels'
    BY <1>2, <1>8 DEF TypeOK
  <2>5. \A i \in Levels' : SSTable'[i] \in SUBSET Tables /\ Level'[i] \in Nat
    BY <1>2, <1>3, <1>5, <1>8 DEF TypeOK
  <2>6. files' \in SUBSET (Nat \X Nat)
    BY <1>1, <1>2, <1>3 DEF TypeOK
  <2>7. pc' \in {"idle", "compact", "insert"} /\ level' \in Nat
    BY <1>1
  <2>8. s \in Strings
    BY DEF Strings
  <2>9. pending' \in Keys \X Strings /\ db' \in [Keys -> Strings] /\ tied' \in BOOLEAN
    BY <1>1, <1>2, <2>8 DEF TypeOK
  <2> QED
    BY <2>1, <2>2, <2>3, <2>4, <2>5, <2>6, <2>7, <2>9 DEF TypeOK
<1>10. \A i \in Levels' : \A t \in SSTable'[i] :
         \/ t \in SSTable[i]
         \/ i = 0 /\ t = new
  BY <1>8
<1>11. TreeInv'
  <2>1. \A i \in Levels' : IsFiniteSet(SSTable'[i])
    <3>1. \A i \in Levels : IsFiniteSet(SSTable[i])
      BY <1>2 DEF TreeInv
    <3>2. IsFiniteSet(SSTable'[0])
      BY <1>3, <1>8, <3>1, FS_AddElement
    <3> QED
      BY <1>8, <3>1, <3>2
  <2>2. \A i \in Levels' : \A t \in SSTable'[i] : TableOK(t)'
    <3>1. \A i \in Levels : \A t \in SSTable[i] : TableOK(t) /\ t.ts \in Nat
      BY <1>2, TableType DEF TreeInv, TypeOK
    <3>2. \A t : TableOK(t) /\ t.ts \in Nat => TableOK(t)'
      BY <1>1, <1>3 DEF TableOK
    <3> QED
      BY <1>6, <1>8, <1>10, <3>1, <3>2
  <2>3. \A a, b \in SSTable'[0] : a.ts = b.ts => a = b
    BY <1>2, <1>3, <1>4, <1>7, <1>8 DEF TreeInv
  <2>4. DisjointLevels'
    BY <1>2, <1>8 DEF TreeInv, DisjointLevels
  <2>5. TimestampOrder'
    <3> SUFFICES ASSUME NEW i \in Levels', NEW j \in Levels', i < j,
                        NEW a \in SSTable'[i], NEW b \in SSTable'[j]
                 PROVE  IF i = 0 THEN a.ts > b.ts ELSE a.ts >= b.ts
      BY DEF TimestampOrder
    <3>1. i \in Nat /\ j \in Nat /\ j # 0 /\ i \in Levels /\ j \in Levels /\ b \in SSTable[j]
      BY <1>2, <1>8 DEF TreeInv
    <3>2. CASE a \in SSTable[i]
      BY <1>2, <3>1, <3>2 DEF TreeInv, TimestampOrder
    <3>3. CASE i = 0 /\ a = new
      <4>1. b.ts \in Nat /\ b.ts < timeStamp
        BY <1>2, <3>1, TableType DEF TreeInv, TypeOK, TableOK
      <4> QED
        BY <1>3, <1>4, <3>3, <4>1
    <3> QED
      BY <1>10, <3>2, <3>3
  <2>6. NoMarkAtBottom'
    <3>1. PICK N \in Nat : Levels = 0 .. N
      BY <1>2 DEF TreeInv
    <3>2. Max(Levels) = N
      BY <3>1, LevelsTop
    <3> QED
      BY <1>2, <1>8, <3>1, <3>2 DEF TreeInv, NoMarkAtBottom
  <2>7. \E n \in Nat : Levels' = 0 .. n
    BY <1>2, <1>8 DEF TreeInv
  <2> QED
    BY <1>9, <2>1, <2>2, <2>3, <2>4, <2>5, <2>6, <2>7 DEF TreeInv
<1>12. MemInv'
  <2>1. DOMAIN mem' = {} /\ pc' # "idle" /\ pending' # <<>> /\ pending'[2] = s /\ s # Empty
    BY <1>1, StoreConstants DEF NoPairs
  <2>2. mem' \in [DOMAIN mem' -> Strings]
    BY <1>1 DEF NoPairs
  <2> QED
    BY <2>1, <2>2 DEF MemInv
<1>13. Counted'
  <2>1. Cardinality(SSTable[0]) = Level[0] /\ Level[0] <= Level0
    BY <1>1 DEF StoreInv, Counted
  <2>2. new \notin SSTable[0]
    BY <1>3, <1>4, <1>7
  <2>3. Cardinality(SSTable'[0]) = Level[0] + 1
    <3>1. IsFiniteSet(SSTable[0])
      BY <1>2, <1>3 DEF TreeInv
    <3> QED
      BY <1>8, <2>1, <2>2, <3>1, FS_AddElement
  <2>4. \A i \in Levels' \ {0} : Cardinality(SSTable'[i]) <= UpperNum[i]
    BY <1>1, <1>8 DEF StoreInv, Counted
  <2>5. level' - 1 \in Levels' /\ level' = 1
    BY <1>1, <1>3, <1>8
  <2>6. /\ pc' = "compact" => Level'[0] = Level0 + 1
        /\ pc' # "compact" => Level'[0] <= Level0
        /\ Level'[0] = Level[0] + 1
    <3>1. Level0 \in Nat
      BY StoreConstants
    <3>2. CASE Level[0] + 1 > Level0
      BY <1>1, <1>3, <1>8, <2>1, <3>1, <3>2
    <3>3. CASE ~(Level[0] + 1 > Level0)
      BY <1>1, <1>3, <1>8, <3>1, <3>3
    <3> QED
      BY <3>2, <3>3
  <2> QED
    BY <2>3, <2>4, <2>5, <2>6 DEF Counted
<1>14. Numbered'
  <2>1. \A t \in SSTable[0] : t.order \in Nat /\ 1 <= t.order /\ t.order <= Level[0]
    BY <1>2, <1>3, TableType DEF StoreInv, Numbered, TypeOK
  <2>2. \A a, b \in SSTable'[0] : a.order = b.order => a = b
    BY <1>3, <1>4, <1>8, <2>1 DEF StoreInv, Numbered
  <2>3. \A t \in SSTable'[0] : 1 <= t.order /\ t.order <= Level'[0]
    BY <1>3, <1>4, <1>8, <2>1
  <2> QED
    BY <1>8, <2>2, <2>3 DEF StoreInv, Numbered
<1>15. FilesMatch'
  <2> SUFFICES ASSUME ~tied'
               PROVE  files' = UNION {{<<i, t.order>> : t \in SSTable'[i]} : i \in Levels'}
    BY <1>14 DEF FilesMatch, Numbered
  <2>1. files = UNION {{<<i, t.order>> : t \in SSTable[i]} : i \in Levels}
    BY <1>1 DEF StoreInv, FilesMatch
  <2>2. files' = files \cup {<<0, new.order>>}
    BY <1>1, <1>4
  <2>3. \A i \in Levels : SSTable'[i] = IF i = 0 THEN SSTable[0] \cup {new} ELSE SSTable[i]
    BY <1>8
  <2> QED
    BY <1>3, <1>8, <2>1, <2>2, <2>3
<1>16. ASSUME NEW k \in Keys
       PROVE  Get(k)' = Get(k)
  <2>1. k \notin DOMAIN mem'
    BY <1>1 DEF NoPairs
  <2>2. \A i \in Levels : i # 0 => Holders(i, k)' = Holders(i, k)
    BY <1>8 DEF Holders
  <2>3. CASE k \in DOMAIN mem
    <3> PICK v : v = mem[k]
      OBVIOUS
    <3>1. Get(k) = Visible(v)
      BY <1>2, <2>3 DEF Get, Lookup, MemInv
    <3> DEFINE H == {t \in SSTable'[0] : k \in DOMAIN t.kv}
    <3>2. new \in H /\ new.kv[k] = v
      BY <1>4, <1>8, <2>3
    <3>3. \A u \in H : ~Older(new, u)
      <4>1. new.lo \in Nat /\ new.ts \in Nat
        BY <1>5, TableType
      <4>2. ~Older(new, new)
        BY <4>1 DEF Older
      <4>3. \A u \in SSTable[0] : ~Older(new, u)
        BY <1>4, <1>7, <4>1 DEF Older
      <4> QED
        BY <1>8, <4>2, <4>3
    <3>4. \A j \in Levels' : ~(j < 0)
      BY <1>2, <1>8 DEF TreeInv
    <3>5. H = Holders(0, k)'
      BY DEF Holders
    <3> HIDE DEF H
    <3>6. Finds(v, k)'
      BY <1>3, <1>8, <3>2, <3>3, <3>4, <3>5 DEF Finds, Newer
    <3>7. Get(k)' = Visible(v)'
      BY <1>11, <2>1, <3>6, GetFindsNext DEF GetsFound
    <3> QED
      BY <3>1, <3>7 DEF Visible
  <2>4. CASE k \notin DOMAIN mem
    <3>1. Holders(0, k)' = Holders(0, k)
      BY <1>4, <1>8, <2>4 DEF Holders
    <3>2. \A i \in Levels : Holders(i, k)' = Holders(i, k)
      BY <2>2, <3>1
    <3>3. \A v : Finds(v, k) => Finds(v, k)'
      BY <1>8, <3>2 DEF Finds, Newer
    <3> QED
      BY <1>2, <1>11, <2>1, <2>4, <3>3, GetStays
  <2> QED
    BY <2>3, <2>4
<1>17. Reads'
  <2>1. ~tied => \A k \in Keys : Get(k) = Visible(db[k])
    BY <1>1 DEF StoreInv, Reads
  <2>2. db' = [k \in Keys |-> IF k = key THEN s ELSE db[k]]
    BY <1>1, <1>2 DEF TypeOK
  <2>3. pending'[1] = key /\ pending'[2] = s /\ pc' # "idle"
    BY <1>1
  <2>4. ~tied => \A k \in Keys : k # key => Get(k)' = Visible(db[k])'
    BY <1>16, <2>1, <2>2 DEF Visible
  <2>5. s = DEL => Get(key)' # Empty
    BY <1>16
  <2>6. Get(pending[1])' = Get(key)'
    BY <2>3
  <2> QED
    BY <1>1, <2>2, <2>3, <2>4, <2>5, <2>6 DEF Reads
<1> QED
  BY <1>11, <1>12, <1>13, <1>14, <1>15, <1>16, <1>17 DEF StoreInv

LEMMA GetUnchanged ==
  ASSUME UNCHANGED <<mem, SSTable>>
  PROVE  \A k : Get(k)' = Get(k)
BY DEF Get, Lookup, Hits, Levels, Visible

LEMMA StoreUnchanged ==
  ASSUME StoreInv, UNCHANGED vars
  PROVE  StoreInv'
<1>1. UNCHANGED <<mem, memory, minKey, maxKey, timeStamp, pending, SSTable, Level, files, pc, level, db, tied>>
  BY DEF vars, skiplist, tree
<1>2. TypeOK'
  BY <1>1 DEF StoreInv, TreeInv, TypeOK, Levels
<1>3. TreeInv'
  BY <1>1, <1>2, TreeStays DEF StoreInv
<1>4. MemInv' /\ Counted' /\ Numbered' /\ FilesMatch'
  BY <1>1 DEF StoreInv, MemInv, Counted, Numbered, FilesMatch, Levels
<1>5. \A k : Get(k)' = Get(k)
  BY <1>1, GetUnchanged
<1>6. Reads'
  BY <1>1, <1>5 DEF StoreInv, Reads, Visible
<1> QED
  BY <1>3, <1>4, <1>6 DEF StoreInv

LEMMA CompactEndKeeps ==
  ASSUME StoreInv, CompactEnd
  PROVE  StoreInv'
<1>1. /\ pc = "compact" /\ pc' = "insert" /\ Level' = [Level EXCEPT ![0] = 0]
      /\ UNCHANGED <<mem, memory, minKey, maxKey, timeStamp, pending, SSTable, files, level, db, tied>>
  BY DEF CompactEnd, skiplist
<1>2. level # 1 /\ SSTable[0] = {}
  <2>1. level # 1
    BY DEF CompactEnd, TooMany
  <2> QED
    BY <1>1, <2>1 DEF StoreInv, Counted
<1>3. level - 1 \in Levels /\ level - 1 # 0 /\ Cardinality(SSTable[level - 1]) <= UpperNum[level - 1]
  <2>1. level - 1 \in Levels /\ level \in Nat
    BY <1>1 DEF StoreInv, Counted, TreeInv, TypeOK
  <2> QED
    BY <1>2, <2>1 DEF CompactEnd, TooMany
<1>4. /\ Levels' = Levels /\ 0 \in Levels /\ DOMAIN Level' = Levels /\ Level'[0] = 0
      /\ \A i \in Levels : i # 0 => Level'[i] = Level[i]
  BY <1>1 DEF StoreInv, TreeInv, TypeOK, Levels
<1>5. TypeOK'
  BY <1>1, <1>4 DEF StoreInv, TreeInv, TypeOK
<1>6. TreeInv'
  BY <1>1, <1>5, TreeStays DEF StoreInv
<1>7. MemInv'
  BY <1>1 DEF StoreInv, MemInv
<1>8. Counted'
  <2>1. Cardinality(SSTable'[0]) = Level'[0] /\ Level'[0] <= Level0
    BY <1>1, <1>2, <1>4, FS_EmptySet, StoreConstants
  <2>2. \A i \in Levels' \ {0} : Cardinality(SSTable'[i]) <= UpperNum[i]
    BY <1>1, <1>3, <1>4 DEF StoreInv, Counted
  <2> QED
    BY <1>1, <2>1, <2>2 DEF Counted
<1>9. Numbered'
  BY <1>1, <1>2, <1>4 DEF StoreInv, Numbered
<1>10. FilesMatch'
  BY <1>1, <1>4 DEF StoreInv, FilesMatch
<1>11. \A k : Get(k)' = Get(k)
  BY <1>1, GetUnchanged
<1>12. Reads'
  BY <1>1, <1>11 DEF StoreInv, Reads, Visible
<1> QED
  BY <1>6, <1>7, <1>8, <1>9, <1>10, <1>12 DEF StoreInv

-----------------------------------------------------------------------------
LEMMA InitStore == Init => StoreInv
<1> SUFFICES ASSUME Init PROVE StoreInv
  OBVIOUS
<1>1. /\ mem = NoPairs /\ memory = InitialSize /\ minKey = SignedMax /\ maxKey = 0 /\ timeStamp = 0
      /\ pending = <<>>
      /\ SSTable = [i \in {0} |-> {}] /\ Level = [i \in {0} |-> 0] /\ files = {}
      /\ pc = "idle" /\ level = 0 /\ db = [k \in Keys |-> Empty] /\ tied = FALSE
  BY DEF Init, MemInit
<1>2. /\ Levels = 0 .. 0 /\ Levels = {0} /\ SSTable[0] = {} /\ Level[0] = 0 /\ DOMAIN Level = {0}
      /\ DOMAIN mem = {}
  BY <1>1 DEF Levels, NoPairs
<1>3. Max(Levels) = 0
  BY <1>2, LevelsTop
<1>4. TypeOK
  <2>1. memory \in 0 .. (Word - 1)
    <3>1. InitialSize + PairSize + Size[DEL] \in 0 .. TableSize /\ Size[DEL] \in Nat
      BY StoreConstants
    <3> QED
      BY <1>1, <3>1, StoreConstants
  <2>2. db \in [Keys -> Strings]
    BY <1>1 DEF Strings
  <2>3. minKey \in Nat /\ maxKey \in Nat /\ timeStamp \in 0 .. MaxFlushes
    BY <1>1, StoreConstants
  <2>4. /\ Levels = 0 .. Max(Levels) /\ DOMAIN Level = Levels
        /\ \A i \in Levels : SSTable[i] \in SUBSET Tables /\ Level[i] \in Nat
    BY <1>2, <1>3
  <2>5. DOMAIN mem = {} /\ pending = <<>> /\ files \in SUBSET (Nat \X Nat)
    BY <1>1, <1>2
  <2>6. pc \in {"idle", "compact", "insert"} /\ level \in Nat /\ tied \in BOOLEAN
    BY <1>1
  <2> QED
    BY <2>1, <2>2, <2>3, <2>4, <2>5, <2>6 DEF TypeOK
<1>5. TreeInv
  BY <1>2, <1>3, <1>4, FS_EmptySet DEF TreeInv, DisjointLevels, TimestampOrder, NoMarkAtBottom
<1>6. MemInv
  BY <1>1, <1>2 DEF MemInv, NoPairs
<1>7. Counted
  BY <1>1, <1>2, FS_EmptySet, StoreConstants DEF Counted
<1>8. Numbered /\ FilesMatch
  BY <1>1, <1>2 DEF Numbered, FilesMatch
<1>9. Reads
  <2>1. \A k \in Keys : Finds(Empty, k)
    BY <1>2 DEF Finds, Holders
  <2>2. \A k \in Keys : Get(k) = Visible(Empty)
    BY <1>2, <1>5, <2>1, GetFinds DEF GetsFound
  <2> QED
    BY <1>1, <2>2 DEF Reads
<1> QED
  BY <1>5, <1>6, <1>7, <1>8, <1>9 DEF StoreInv

LEMMA PutKeeps ==
  ASSUME StoreInv, NEW key \in Keys, NEW s \in Values \cup {DEL}, Put(key, s),
         s = DEL => Get(key) # Empty
  PROVE  /\ StoreInv'
         /\ \A k \in Keys : k # key => Get(k)' = Get(k)
         /\ Get(key)' = Get(key) \/ Get(key)' = Visible(s)
BY PutInMemoryKeeps, PutFlushKeeps DEF Put

LEMMA StepsOfNext ==
  ASSUME Next
  PROVE  \/ \E key \in Keys, s \in Values \cup {DEL} : Put(key, s) /\ (s = DEL => Get(key) # Empty)
         \/ Look \/ FinishPut \/ Compact \/ CompactEnd
BY StoreConstants DEF Next, Del

LEMMA StepStore == StoreInv /\ [Next]_vars => StoreInv'
<1> SUFFICES ASSUME StoreInv, [Next]_vars PROVE StoreInv'
  OBVIOUS
<1>1. ASSUME NEW key \in Keys, NEW s \in Values \cup {DEL}, Put(key, s), s = DEL => Get(key) # Empty
      PROVE  StoreInv'
  BY <1>1, PutKeeps
<1>2. CASE Look \/ UNCHANGED vars
  BY <1>2, StoreUnchanged DEF Look
<1>3. CASE FinishPut
  BY <1>3, FinishPutKeeps
<1>4. CASE Compact
  BY <1>4, CompactKeeps
<1>5. CASE CompactEnd
  BY <1>5, CompactEndKeeps
<1> QED
  BY <1>1, <1>2, <1>3, <1>4, <1>5, StepsOfNext

(* A put that is complete for get is a step of the map.                    *)
LEMMA MapSteps ==
  ASSUME NEW key \in Keys, NEW s \in Values \cup {DEL}, s = DEL => Get(key) # Empty,
         Get(key)' = Visible(s), \A k \in Keys : k # key => Get(k)' = Get(k)
  PROVE  Map!Next
<1>1. Contents' = [Contents EXCEPT ![key] = Visible(s)] /\ Contents[key] = Get(key)
  BY DEF Contents
<1>2. CASE s = DEL
  BY <1>1, <1>2 DEF Map!Next, Map!Del, Visible
<1>3. CASE s # DEL
  BY <1>1, <1>3 DEF Map!Next, Map!Put, Visible
<1> QED
  BY <1>2, <1>3

LEMMA StepMap == StoreInv /\ [Next]_vars => [tied' \/ UNCHANGED Contents \/ Map!Next]_<<mem, SSTable>>
<1> SUFFICES ASSUME StoreInv, [Next]_vars, ~tied'
             PROVE  UNCHANGED Contents \/ Map!Next
  OBVIOUS
<1>1. (\A k \in Keys : Get(k)' = Get(k)) => UNCHANGED Contents
  BY DEF Contents
<1>2. ASSUME NEW key \in Keys, NEW s \in Values \cup {DEL}, Put(key, s), s = DEL => Get(key) # Empty
      PROVE  UNCHANGED Contents \/ Map!Next
  <2>1. /\ \A k \in Keys : k # key => Get(k)' = Get(k)
        /\ Get(key)' = Get(key) \/ Get(key)' = Visible(s)
    BY <1>2, PutKeeps
  <2>2. CASE Get(key)' = Get(key)
    BY <1>1, <2>1, <2>2
  <2>3. CASE Get(key)' = Visible(s)
    BY <1>2, <2>1, <2>3, MapSteps
  <2> QED
    BY <2>1, <2>2, <2>3
<1>3. CASE Look \/ UNCHANGED vars
  <2>1. UNCHANGED <<mem, SSTable>>
    BY <1>3 DEF Look, vars, skiplist, tree
  <2> QED
    BY <1>1, <2>1, GetUnchanged
<1>4. CASE FinishPut
  <2>1. PICK key \in Keys, s \in Values \cup {DEL} :
          /\ pending = <<key, s>>
          /\ Get(key)' = Visible(s)
          /\ \A k \in Keys : k # key => Get(k)' = Get(k)
    BY <1>4, FinishPutKeeps
  <2>2. pc # "idle" /\ ~tied
    BY <1>4 DEF FinishPut
  <2>3. s = DEL => Get(key) # Empty
    BY <2>1, <2>2 DEF StoreInv, Reads
  <2> QED
    BY <2>1, <2>3, MapSteps
<1>5. CASE Compact
  BY <1>1, <1>5, CompactKeeps
<1>6. CASE CompactEnd
  <2>1. UNCHANGED <<mem, SSTable>>
    BY <1>6 DEF CompactEnd, skiplist
  <2> QED
    BY <1>1, <2>1, GetUnchanged
<1> QED
  BY <1>2, <1>3, <1>4, <1>5, <1>6, StepsOfNext

-----------------------------------------------------------------------------
(* In every reachable state tree, memtable, numbering and counters agree.  *)
THEOREM StoreInvariance == Spec => []StoreInv
BY InitStore, StepStore, PTL DEF Spec

(* The range getValue and the search for overlaps check covers a table's   *)
(* keys, for any keys and bounds, although clear leaves odd bounds behind; *)
(* and every variable keeps its type.                                      *)
THEOREM RangesCoverKeys == Spec => []RangeCovers
<1>1. StoreInv => RangeCovers
  BY DEF StoreInv, TreeInv, TableOK, RangeCovers
<1> QED
  BY <1>1, StoreInvariance, PTL

(* compactionForLevel never leaves overlapping tables below level 0: the   *)
(* overlap search over the joint range of the tables moved down finds      *)
(* every table the new ones could meet.                                    *)
THEOREM LevelsAreDisjoint == Spec => []DisjointLevels
<1>1. StoreInv => DisjointLevels
  BY DEF StoreInv, TreeInv
<1> QED
  BY <1>1, StoreInvariance, PTL

(* The order in which get searches the levels is the order of age: the     *)
(* choice of the oldest tables to move keeps it, level after level.        *)
THEOREM DeeperIsOlder == Spec => []TimestampOrder
<1>1. StoreInv => TimestampOrder
  BY DEF StoreInv, TreeInv
<1> QED
  BY <1>1, StoreInvariance, PTL

(* Between puts each level holds at most UpperNum tables, level 0 as many  *)
(* as its counter says.                                                    *)
THEOREM LevelsAreBounded == Spec => []LevelBounds
<1>1. StoreInv => LevelBounds
  <2> SUFFICES ASSUME StoreInv PROVE LevelBounds
    OBVIOUS
  <2>1. pc \in {"idle", "compact", "insert"}
    BY DEF StoreInv, TreeInv, TypeOK
  <2> QED
    BY <2>1 DEF StoreInv, Counted, LevelBounds
<1> QED
  BY <1>1, StoreInvariance, PTL

(* Deletion marks do not collect at the last level.                        *)
THEOREM MarksAreDropped == Spec => []NoMarkAtBottom
<1>1. StoreInv => NoMarkAtBottom
  BY DEF StoreInv, TreeInv
<1> QED
  BY <1>1, StoreInvariance, PTL

(* The tree and the MemoryManager name the same tables: no table of the    *)
(* tree has been deleted from the store, none is left behind in it.        *)
THEOREM TreeAndStoreAgree == Spec => []FilesMatch
<1>1. StoreInv => FilesMatch
  BY DEF StoreInv
<1> QED
  BY <1>1, StoreInvariance, PTL

(* get returns what was last put, through any number of flushes and        *)
(* compactions of any depth, as long as none merged equally old tables.    *)
THEOREM GetReturnsLatest == Spec => []ReadYourWrites
<1>1. StoreInv => ReadYourWrites
  BY DEF StoreInv, Reads, ReadYourWrites
<1> QED
  BY <1>1, StoreInvariance, PTL

(* The store implements the map: a put or a del takes effect in one step,  *)
(* and the flush and the compactions it runs are invisible to get.         *)
THEOREM StoreImplementsMap == Spec => ImplementsMap
<1>1. Init => Map!Init
  <2> SUFFICES ASSUME Init PROVE Map!Init
    OBVIOUS
  <2>1. StoreInv
    BY InitStore
  <2>2. \A k \in Keys : Get(k) = Empty
    BY <2>1 DEF StoreInv, Reads, Init, Visible
  <2> QED
    BY <2>2 DEF Map!Init, Contents
<1> QED
  BY <1>1, StoreInvariance, StepMap, PTL DEF Spec, ImplementsMap

=============================================================================
