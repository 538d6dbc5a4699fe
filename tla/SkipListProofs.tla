--------------------------- MODULE SkipListProofs ---------------------------
(***************************************************************************)
(* The memtable, proved for any keys, strings, sizes and heights of its    *)
(* towers: its lists agree, it is the memtable KVStore stands on, and the  *)
(* tables made of its pairs have room in a slot and give every pair back.  *)
(***************************************************************************)
EXTENDS SkipList, Induction, SequenceTheorems

(* A list is a function from the keys of its nodes to their strings.       *)
Lists == UNION {[S -> Strings] : S \in SUBSET Keys}

LEMMA ListType ==
  ASSUME NEW list
  PROVE  list \in Lists <=> DOMAIN list \in SUBSET Keys /\ list \in [DOMAIN list -> Strings]
BY DEF Lists

LEMMA KeysAreNumbers == HeadKey \in Nat /\ Keys \in SUBSET Nat /\ Keys \subseteq 0 .. HeadKey /\ \A k \in Keys : k <= HeadKey
BY SkipListAssumption

LEMMA ListsAreFinite ==
  ASSUME NEW list \in Lists
  PROVE  IsFiniteSet(DOMAIN list) /\ Cardinality(DOMAIN list) \in Nat
<1>1. DOMAIN list \in SUBSET (0 .. HeadKey)
  <2>1. DOMAIN list \in SUBSET Keys
    BY ListType
  <2> QED
    BY ONLY <2>1, KeysAreNumbers
<1>2. IsFiniteSet(0 .. HeadKey)
  BY ONLY KeysAreNumbers, FS_Interval
<1> QED
  BY ONLY <1>1, <1>2, FS_Subset, FS_CardinalityType

(* The greatest of some numbers that a key bounds.                         *)
LEMMA GreatestUpTo ==
  ASSUME NEW key \in Int, NEW S \in SUBSET Int, S # {}, \A x \in S : x <= key
  PROVE  Max(S) \in S /\ \A x \in S : x <= Max(S)
<1> DEFINE Rest == {key - x : x \in S}
<1>1. Rest \in SUBSET Nat /\ Rest # {}
  <2>1. \A x \in S : key - x \in Nat
    OBVIOUS
  <2> QED
    BY <2>1
<1>2. PICK n \in Rest : \A m \in Rest : n <= m
  <2> HIDE DEF Rest
  <2> QED
    BY <1>1, LeastElement
<1>3. PICK g \in S : n = key - g
  BY <1>2
<1>4. \A x \in S : x <= g
  <2> TAKE x \in S
  <2>1. key - x \in Rest
    OBVIOUS
  <2>2. key - g <= key - x /\ key \in Int /\ g \in Int /\ x \in Int
    BY <1>2, <1>3, <2>1
  <2> QED
    BY ONLY <2>2
<1> QED
  BY <1>4 DEF Max

-----------------------------------------------------------------------------
(* The search of put: on each level it stops at the greatest key up to the *)
(* one it is for, or at the head.                                          *)
Stops(node, list, key) ==
  /\ node = AtHead \/ (node \in DOMAIN list /\ node <= key)
  /\ \A k \in DOMAIN list : k <= key => k <= node

Right(node, list, key) == Max({node} \cup {k \in DOMAIN list : node <= k /\ k <= key})

LEMMA RightIsGreatest ==
  ASSUME NEW list \in Lists, NEW key \in Keys, NEW node \in {AtHead} \cup Keys, node <= key
  PROVE  LET right == Right(node, list, key)
         IN /\ right = node \/ right \in DOMAIN list
            /\ node <= right /\ right <= key
            /\ \A k \in DOMAIN list : node <= k /\ k <= key => k <= right
<1> DEFINE S == {node} \cup {k \in DOMAIN list : node <= k /\ k <= key}
<1>1. key \in Int /\ S \in SUBSET Int /\ S # {} /\ \A x \in S : x <= key
  BY ListType, KeysAreNumbers DEF AtHead
<1>2. Max(S) \in S /\ \A x \in S : x <= Max(S)
  <2> HIDE DEF S
  <2> QED
    BY ONLY <1>1, GreatestUpTo
<1>3. node \in S
  OBVIOUS
<1> QED
  BY <1>1, <1>2, <1>3 DEF Right

LEMMA PathStops ==
  ASSUME levels \in Seq(Lists), NEW key \in Keys,
         \A i \in 1 .. Len(levels) - 1 : DOMAIN levels[i] \subseteq DOMAIN levels[i + 1]
  PROVE  /\ DOMAIN Path(key) = 1 .. Len(levels)
         /\ \A i \in 1 .. Len(levels) : Stops(Path(key)[i], levels[i], key)
<1> DEFINE n == Len(levels)
           Nodes == {AtHead} \cup {k \in Keys : k <= key}
           Course(f) == f = [i \in 0 .. n |-> IF i = 0 THEN AtHead ELSE Right(f[i - 1], levels[i], key)]
           step == [i \in 1 .. n |-> [node \in Nodes |-> Right(node, levels[i], key)]]
<1>1. n \in Nat /\ DOMAIN levels = 1 .. n /\ \A i \in 1 .. n : levels[i] \in Lists
  OBVIOUS
<1>2. AtHead \in Nodes /\ \A node \in Nodes : node \in {AtHead} \cup Keys /\ node <= key
  BY KeysAreNumbers DEF AtHead
<1>3. AreSteps(step, n, Nodes)
  <2>1. ASSUME NEW i \in 1 .. n, NEW node \in Nodes
        PROVE  Right(node, levels[i], key) \in Nodes
    <3>1. levels[i] \in Lists /\ DOMAIN levels[i] \in SUBSET Keys
      BY <1>1, ListType
    <3> QED
      BY <1>2, <3>1, RightIsGreatest
  <2> HIDE DEF Nodes, n
  <2> QED
    BY ONLY <2>1 DEF AreSteps, step
<1>4. PICK g : IsCourse(g, AtHead, step, n, Nodes)
  <2> HIDE DEF step, Nodes, n
  <2> QED
    BY ONLY <1>1, <1>2, <1>3, LoopHasCourse
<1>5. \A i \in 1 .. n : g[i] = Right(g[i - 1], levels[i], key)
  <2> TAKE i \in 1 .. n
  <2>1. i - 1 \in 0 .. n
    BY <1>1
  <2> HIDE DEF Nodes, n
  <2>2. g[i - 1] \in Nodes /\ g[i] = step[i][g[i - 1]]
    BY ONLY <1>4, <2>1, i \in 1 .. n DEF IsCourse
  <2> QED
    BY ONLY <2>2, i \in 1 .. n DEF step
<1> HIDE DEF step, Nodes
<1>6. Course(g)
  <2> HIDE DEF n
  <2>1. g \in [0 .. n -> Nodes] /\ g[0] = AtHead
    BY <1>4 DEF IsCourse
  <2>2. \A i \in 0 .. n : i = 0 \/ i \in 1 .. n
    BY <1>1
  <2> QED
    BY ONLY <1>5, <2>1, <2>2
<1>7. PICK f : f = (CHOOSE h : Course(h)) /\ Course(f)
  <2> HIDE DEF Course
  <2> QED
    BY ONLY <1>6
<1>8. DOMAIN Path(key) = 1 .. n /\ \A i \in 1 .. n : Path(key)[i] = f[i]
  BY <1>1, <1>7 DEF Path, Right
<1>9. f[0] = AtHead /\ \A i \in 1 .. n : f[i] = Right(f[i - 1], levels[i], key)
  <2> HIDE DEF n
  <2>1. f = [i \in 0 .. n |-> IF i = 0 THEN AtHead ELSE Right(f[i - 1], levels[i], key)]
    BY <1>7
  <2>2. 0 \in 0 .. n /\ \A i \in 1 .. n : i \in 0 .. n /\ i # 0
    BY <1>1
  <2> QED
    BY ONLY <2>1, <2>2
<1> HIDE DEF Course
<1> DEFINE Bad == {i \in 1 .. n : ~Stops(f[i], levels[i], key)}
<1> SUFFICES Bad = {}
  BY <1>8
<1> SUFFICES ASSUME Bad # {} PROVE FALSE
  OBVIOUS
<1>10. PICK m \in Bad : \A j \in Bad : m <= j
  <2>1. Bad \in SUBSET Nat
    BY <1>1
  <2> HIDE DEF Bad
  <2> QED
    BY <2>1, LeastElement
<1>11. /\ f[m - 1] \in {AtHead} \cup Keys /\ f[m - 1] <= key
       /\ f[m - 1] = AtHead \/ f[m - 1] \in DOMAIN levels[m]
  <2>1. CASE m = 1
    BY <1>2, <1>9, <2>1
  <2>2. CASE m # 1
    <3>1. m - 1 \in 1 .. n /\ m - 1 \notin Bad /\ (m - 1) + 1 = m /\ m - 1 \in 1 .. n - 1
      BY <1>1, <1>10, <2>2
    <3>2. Stops(f[m - 1], levels[m - 1], key)
      BY <3>1
    <3>3. DOMAIN levels[m - 1] \subseteq DOMAIN levels[m] /\ DOMAIN levels[m] \in SUBSET Keys
      BY <1>1, <1>10, <3>1, ListType
    <3> QED
      BY <1>2, <3>2, <3>3 DEF Stops, Nodes
  <2> QED
    BY <2>1, <2>2
<1>12. levels[m] \in Lists /\ f[m] = Right(f[m - 1], levels[m], key)
  BY <1>1, <1>9, <1>10
<1>13. Stops(f[m], levels[m], key)
  <2>1. PICK node : node = f[m - 1]
    OBVIOUS
  <2>2. PICK right : right = Right(node, levels[m], key)
    OBVIOUS
  <2>3. node \in {AtHead} \cup Keys /\ node <= key
    BY ONLY <1>11, <2>1
  <2>4. /\ right = node \/ right \in DOMAIN levels[m]
        /\ node <= right /\ right <= key
        /\ \A k \in DOMAIN levels[m] : node <= k /\ k <= key => k <= right
    BY <1>12, <2>2, <2>3, RightIsGreatest
  <2>5. DOMAIN levels[m] \in SUBSET Nat /\ node \in Int /\ right \in Int
    BY <1>12, <2>3, <2>4, ListType, KeysAreNumbers DEF AtHead
  <2>6. right = AtHead \/ (right \in DOMAIN levels[m] /\ right <= key)
    BY <1>11, <2>1, <2>4
  <2>7. \A k \in DOMAIN levels[m] : k <= key => k <= right
    BY <2>4, <2>5
  <2> QED
    BY <1>12, <2>1, <2>2, <2>6, <2>7 DEF Stops
<1> QED
  BY <1>10, <1>13

-----------------------------------------------------------------------------
(* The lists of a tower.                                                   *)
ListsOK(lists) ==
  /\ lists \in Seq(Lists)
  /\ \A i \in 1 .. Len(lists) : DOMAIN lists[i] # {}
  /\ \A i \in 1 .. Len(lists) - 1 : \A k \in DOMAIN lists[i] :
       k \in DOMAIN lists[i + 1] /\ lists[i + 1][k] = lists[i][k]

LEMMA TowersAreLists ==
  ASSUME Towers
  PROVE  /\ ListsOK(levels) /\ Len(levels) \in Nat /\ DOMAIN levels = 1 .. Len(levels)
         /\ \A i \in 1 .. Len(levels) : levels[i] \in Lists /\ DOMAIN levels[i] \in SUBSET Keys
<1>1. levels \in Seq(Lists) /\ Len(levels) \in Nat /\ DOMAIN levels = 1 .. Len(levels)
  BY DEF Towers, TypeOK, Lists
<1>2. \A i \in 1 .. Len(levels) : levels[i] \in Lists
  BY <1>1
<1> QED
  BY <1>1, <1>2, ListType DEF Towers, ListsOK

(* A level holds all the nodes of the levels above it.                     *)
LEMMA LowerHoldsMore ==
  ASSUME Towers, NEW i \in 1 .. Len(levels), NEW k \in DOMAIN levels[i]
  PROVE  \A j \in i .. Len(levels) : k \in DOMAIN levels[j] /\ levels[j][k] = levels[i][k]
<1> DEFINE Bad == {j \in i .. Len(levels) : ~(k \in DOMAIN levels[j] /\ levels[j][k] = levels[i][k])}
<1> SUFFICES ASSUME Bad # {} PROVE FALSE
  OBVIOUS
<1>1. Len(levels) \in Nat
  BY TowersAreLists
<1>2. PICK m \in Bad : \A j \in Bad : m <= j
  <2>1. Bad \in SUBSET Nat
    BY <1>1
  <2> HIDE DEF Bad
  <2> QED
    BY <2>1, LeastElement
<1>3. m \in i .. Len(levels) /\ m # i
  BY <1>2
<1>4. m - 1 \in i .. Len(levels) /\ m - 1 \notin Bad /\ (m - 1) + 1 = m /\ m - 1 \in 1 .. Len(levels) - 1
  BY <1>1, <1>2, <1>3
<1>5. k \in DOMAIN levels[m - 1] /\ levels[m - 1][k] = levels[i][k]
  BY <1>4
<1>6. k \in DOMAIN levels[m] /\ levels[m][k] = levels[m - 1][k]
  BY <1>4, <1>5 DEF Towers
<1> QED
  BY <1>2, <1>5, <1>6

(* The search ends at a node of the key just where the level has one; no   *)
(* head is taken for the node of UINT64_MAX.                               *)
LEMMA StopsAtKey ==
  ASSUME NEW list \in Lists, DOMAIN list # {}, NEW key \in Keys, NEW node, Stops(node, list, key)
  PROVE  /\ KeyOf(node) = key <=> key \in DOMAIN list
         /\ key \in DOMAIN list => node = key /\ node # AtHead
<1>1. DOMAIN list \in SUBSET Keys /\ DOMAIN list \in SUBSET Nat /\ key \in Nat /\ key <= HeadKey /\ HeadKey \in Nat
  BY ListType, KeysAreNumbers
<1>2. AtHead = -1
  BY DEF AtHead
<1>3. ASSUME key \in DOMAIN list
      PROVE  node = key
  BY <1>1, <1>2, <1>3 DEF Stops
<1>4. ASSUME KeyOf(node) = key, key \notin DOMAIN list
      PROVE  FALSE
  <2>1. node = AtHead /\ HeadKey = key
    BY <1>4 DEF KeyOf, Stops
  <2>2. PICK k \in DOMAIN list : TRUE
    OBVIOUS
  <2>3. k <= key
    BY <1>1, <2>1, <2>2, KeysAreNumbers
  <2> QED
    BY <1>1, <1>2, <2>1, <2>2, <2>3 DEF Stops
<1> QED
  BY <1>1, <1>2, <1>3, <1>4 DEF KeyOf

LEMMA TowerOfKey ==
  ASSUME Towers, NEW key \in Keys
  PROVE  /\ Tower(key) = {i \in 1 .. Len(levels) : key \in DOMAIN levels[i]}
         /\ \A i \in Tower(key) : Path(key)[i] # AtHead
         /\ Tower(key) = {} <=> key \notin DOMAIN Bottom
<1>1. /\ ListsOK(levels) /\ Len(levels) \in Nat /\ DOMAIN levels = 1 .. Len(levels)
      /\ \A i \in 1 .. Len(levels) : levels[i] \in Lists /\ DOMAIN levels[i] # {}
  BY TowersAreLists DEF ListsOK
<1>2. \A i \in 1 .. Len(levels) : Stops(Path(key)[i], levels[i], key)
  <2>1. levels \in Seq(Lists) /\ \A i \in 1 .. Len(levels) - 1 : DOMAIN levels[i] \subseteq DOMAIN levels[i + 1]
    BY <1>1 DEF ListsOK
  <2> QED
    BY <2>1, PathStops
<1>3. ASSUME NEW i \in 1 .. Len(levels)
      PROVE  /\ KeyOf(Path(key)[i]) = key <=> key \in DOMAIN levels[i]
             /\ key \in DOMAIN levels[i] => Path(key)[i] # AtHead
  BY <1>1, <1>2, StopsAtKey
<1>4. Tower(key) = {i \in 1 .. Len(levels) : \A j \in i .. Len(levels) : key \in DOMAIN levels[j]}
  BY <1>1, <1>3 DEF Tower
<1>5. \A i \in 1 .. Len(levels) : key \in DOMAIN levels[i] => \A j \in i .. Len(levels) : key \in DOMAIN levels[j]
  BY LowerHoldsMore
<1>6. Tower(key) = {i \in 1 .. Len(levels) : key \in DOMAIN levels[i]}
  BY <1>1, <1>4, <1>5
<1>7. Tower(key) = {} <=> key \notin DOMAIN Bottom
  <2>1. CASE levels = <<>>
    BY <1>6, <2>1 DEF Bottom
  <2>2. CASE levels # <<>>
    <3>1. Len(levels) # 0 /\ Len(levels) \in 1 .. Len(levels) /\ Bottom = levels[Len(levels)]
      BY <1>1, <2>2 DEF Bottom, Last, ListsOK
    <3>2. \A i \in 1 .. Len(levels) : Len(levels) \in i .. Len(levels)
      BY <1>1
    <3> QED
      BY <1>5, <1>6, <3>1, <3>2
  <2> QED
    BY <2>1, <2>2
<1> QED
  BY <1>3, <1>6, <1>7

(* get finds at the highest level that has the key what the lowest holds.  *)
LEMMA GetReadsBottom ==
  ASSUME Towers, NEW key
  PROVE  Get(key) = IF key \in DOMAIN Bottom THEN Bottom[key] ELSE Empty
<1> DEFINE with == {i \in DOMAIN levels : key \in DOMAIN levels[i]}
<1>1. /\ ListsOK(levels) /\ Len(levels) \in Nat /\ DOMAIN levels = 1 .. Len(levels)
      /\ \A i \in 1 .. Len(levels) : levels[i] \in Lists
  BY TowersAreLists
<1>2. CASE with = {}
  <2>1. key \notin DOMAIN Bottom
    <3>1. CASE levels = <<>>
      BY <3>1 DEF Bottom
    <3>2. CASE levels # <<>>
      <4>1. Len(levels) \in DOMAIN levels /\ Bottom = levels[Len(levels)]
        BY <1>1, <3>2 DEF Bottom, Last, ListsOK
      <4> QED
        BY <1>2, <4>1
    <3> QED
      BY <3>1, <3>2
  <2> QED
    BY <1>2, <2>1 DEF Get
<1>3. CASE with # {}
  <2>1. Min(with) \in with
    <3>1. with \in SUBSET Nat
      BY <1>1
    <3> HIDE DEF with
    <3> QED
      BY <1>3, <3>1, LeastNumber
  <2>2. PICK i \in 1 .. Len(levels) : i = Min(with) /\ key \in DOMAIN levels[i]
    BY <1>1, <2>1
  <2>3. levels # <<>> /\ Len(levels) \in i .. Len(levels) /\ Bottom = levels[Len(levels)]
    BY <1>1, <2>2 DEF Bottom, Last, ListsOK
  <2>4. key \in DOMAIN Bottom /\ Bottom[key] = levels[i][key]
    BY <2>2, <2>3, LowerHoldsMore
  <2>5. count # 0
    <3>1. levels[Len(levels)] \in Lists
      BY <1>1, <2>3, <2>2
    <3>2. IsFiniteSet(DOMAIN Bottom)
      BY <2>3, <3>1, ListsAreFinite
    <3>3. Cardinality(DOMAIN Bottom) # 0
      BY <2>4, <3>2, FS_EmptySet
    <3> QED
      BY <3>3 DEF Towers
  <2> QED
    BY <1>3, <2>2, <2>4, <2>5 DEF Get
<1> QED
  BY <1>2, <1>3

-----------------------------------------------------------------------------
(* A node more, or a node's new string.                                    *)
LEMMA LinkedType ==
  ASSUME NEW list \in Lists, NEW key \in Keys, NEW s \in Strings
  PROVE  /\ Linked(list, key, s) \in Lists
         /\ DOMAIN Linked(list, key, s) = DOMAIN list \cup {key}
         /\ Linked(list, key, s)[key] = s
         /\ \A k \in DOMAIN list : k # key => Linked(list, key, s)[k] = list[k]
<1>1. DOMAIN list \in SUBSET Keys /\ list \in [DOMAIN list -> Strings]
  BY ListType
<1>2. PICK new : new = Linked(list, key, s)
  OBVIOUS
<1>3. new = [k \in DOMAIN list \cup {key} |-> IF k = key THEN s ELSE list[k]]
  BY <1>2 DEF Linked
<1>4. DOMAIN new = DOMAIN list \cup {key} /\ DOMAIN new \in SUBSET Keys /\ new \in [DOMAIN new -> Strings]
  BY ONLY <1>1, <1>3, key \in Keys, s \in Strings
<1>5. new \in Lists
  BY ONLY <1>4, ListType
<1> QED
  BY ONLY <1>2, <1>3, <1>4, <1>5

(* The lists that do, T, are the lower ones from some level down, and all  *)
(* that have one already.                                                  *)
Linking(lists, T, key) ==
  /\ lists \in Seq(Lists) /\ lists # <<>>
  /\ T \in SUBSET (1 .. Len(lists)) /\ Len(lists) \in T
  /\ \A i \in 1 .. Len(lists) - 1 :
       /\ i \in T => i + 1 \in T
       /\ key \in DOMAIN lists[i] => i \in T
       /\ \A k \in DOMAIN lists[i] : k \in DOMAIN lists[i + 1] /\ lists[i + 1][k] = lists[i][k]
  /\ \A i \in 1 .. Len(lists) : i \notin T => DOMAIN lists[i] # {}

LEMMA LinkedLists ==
  ASSUME NEW lists, NEW T, NEW key \in Keys, NEW s \in Strings, Linking(lists, T, key), NEW new,
         new = [i \in 1 .. Len(lists) |-> IF i \in T THEN Linked(lists[i], key, s) ELSE lists[i]]
  PROVE  ListsOK(new) /\ Len(new) = Len(lists) /\ new[Len(new)] = Linked(lists[Len(lists)], key, s)
<1> DEFINE n == Len(lists)
<1>0. Linking(lists, T, key)
  OBVIOUS
<1>1. n \in Nat /\ n # 0 /\ \A i \in 1 .. n : lists[i] \in Lists
  BY <1>0 DEF Linking
<1>2. ASSUME NEW i \in 1 .. n
      PROVE  /\ i \in T => /\ new[i] \in Lists /\ DOMAIN new[i] = DOMAIN lists[i] \cup {key} /\ new[i][key] = s
                           /\ \A k \in DOMAIN lists[i] : k # key => new[i][k] = lists[i][k]
             /\ i \notin T => new[i] = lists[i] /\ new[i] \in Lists
  <2>1. CASE i \in T
    <3>1. PICK list : list = lists[i] /\ list \in Lists
      BY <1>1
    <3>2. new[i] = Linked(list, key, s)
      BY <2>1, <3>1
    <3>3. /\ Linked(list, key, s) \in Lists
          /\ DOMAIN Linked(list, key, s) = DOMAIN list \cup {key}
          /\ Linked(list, key, s)[key] = s
          /\ \A k \in DOMAIN list : k # key => Linked(list, key, s)[k] = list[k]
      BY <3>1, LinkedType
    <3> QED
      BY ONLY <2>1, <3>1, <3>2, <3>3
  <2>2. CASE i \notin T
    BY <1>1, <2>2
  <2> QED
    BY <2>1, <2>2
<1>3. new \in Seq(Lists) /\ Len(new) = n
  <2>1. \A i \in 1 .. n : new[i] \in Lists
    BY <1>2
  <2>2. new = [i \in 1 .. n |-> new[i]]
    OBVIOUS
  <2> HIDE DEF n
  <2>3. new \in [1 .. n -> Lists]
    BY ONLY <2>1, <2>2
  <2> QED
    BY ONLY <1>1, <2>3
<1>4. \A i \in 1 .. n : DOMAIN new[i] # {}
  BY <1>0, <1>2 DEF Linking
<1>5. ASSUME NEW i \in 1 .. n - 1, NEW k \in DOMAIN new[i]
      PROVE  k \in DOMAIN new[i + 1] /\ new[i + 1][k] = new[i][k]
  <2>1. i \in 1 .. n /\ i + 1 \in 1 .. n
    BY <1>1
  <2>2. k = key \/ k \in DOMAIN lists[i]
    BY <1>2, <2>1
  <2>3. k \in DOMAIN lists[i] => k \in DOMAIN lists[i + 1] /\ lists[i + 1][k] = lists[i][k]
    BY <1>0 DEF Linking
  <2>6. (i \in T => i + 1 \in T) /\ (key \in DOMAIN lists[i] => i \in T)
    BY <1>0 DEF Linking
  <2>4. CASE i \in T
    BY <1>2, <2>1, <2>2, <2>3, <2>4, <2>6
  <2>5. CASE i \notin T
    <3>1. k # key /\ new[i] = lists[i]
      BY <1>2, <1>5, <2>1, <2>5, <2>6
    <3> QED
      BY <1>2, <2>1, <2>2, <2>3, <3>1
  <2> QED
    BY <2>4, <2>5
<1>6. n \in 1 .. n /\ new[n] = Linked(lists[n], key, s)
  <2>1. n \in 1 .. n /\ n \in T
    BY <1>0, <1>1 DEF Linking
  <2> QED
    BY <2>1
<1> QED
  BY <1>3, <1>4, <1>5, <1>6 DEF ListsOK

LEMMA ReplaceLinks ==
  ASSUME Towers, NEW key \in Keys, NEW s \in Strings, Replace(key, s)
  PROVE  /\ ListsOK(levels') /\ Len(levels') <= MaxLevels /\ levels' # <<>>
         /\ Bottom' = Linked(Bottom, key, s) /\ key \in DOMAIN Bottom
<1> DEFINE T == Tower(key)
<1>1. /\ ListsOK(levels) /\ Len(levels) \in Nat /\ DOMAIN levels = 1 .. Len(levels)
      /\ \A i \in 1 .. Len(levels) : levels[i] \in Lists
  BY TowersAreLists
<1>2. /\ T = {i \in 1 .. Len(levels) : key \in DOMAIN levels[i]} /\ T # {} /\ key \in DOMAIN Bottom
      /\ \A i \in T : Path(key)[i] # AtHead
  BY TowerOfKey DEF Replace
<1>3. levels' = [i \in 1 .. Len(levels) |-> IF i \in T THEN [levels[i] EXCEPT ![key] = s] ELSE levels[i]]
  BY <1>1, <1>2 DEF Replace
<1>4. \A i \in T : [levels[i] EXCEPT ![key] = s] = Linked(levels[i], key, s)
  <2> TAKE i \in T
  <2>1. levels[i] \in Lists /\ key \in DOMAIN levels[i]
    BY <1>1, <1>2
  <2>2. levels[i] \in [DOMAIN levels[i] -> Strings] /\ DOMAIN levels[i] \cup {key} = DOMAIN levels[i]
    BY <2>1, ListType
  <2> QED
    BY ONLY <2>1, <2>2 DEF Linked
<1>5. levels # <<>> /\ Len(levels) \in 1 .. Len(levels) /\ Bottom = levels[Len(levels)]
  BY <1>1, <1>2 DEF Bottom, Last, ListsOK
<1>6. Len(levels) \in T
  BY <1>2, <1>5
<1>7. \A i \in 1 .. Len(levels) - 1 : i \in 1 .. Len(levels) /\ i + 1 \in 1 .. Len(levels)
  BY <1>1
<1>8. PICK new : new = levels'
  OBVIOUS
<1>9. new = [i \in 1 .. Len(levels) |-> IF i \in T THEN Linked(levels[i], key, s) ELSE levels[i]]
  BY <1>3, <1>4, <1>8
<1>10. ListsOK(new) /\ Len(new) = Len(levels) /\ new[Len(new)] = Linked(levels[Len(levels)], key, s)
  <2>1. Linking(levels, T, key)
    BY <1>1, <1>2, <1>5, <1>6, <1>7 DEF ListsOK, Linking
  <2> HIDE DEF T
  <2> QED
    BY ONLY <1>9, <2>1, LinkedLists, key \in Keys, s \in Strings
<1>11. new # <<>> /\ Bottom' = new[Len(new)]
  <2>1. Len(new) # 0 /\ new \in Seq(Lists)
    BY <1>1, <1>5, <1>10 DEF ListsOK
  <2> QED
    BY <1>8, <2>1 DEF Bottom, Last
<1> QED
  BY <1>1, <1>2, <1>5, <1>8, <1>10, <1>11 DEF Towers, TypeOK

LEMMA NoLists == [k \in {} |-> Empty] \in Lists /\ DOMAIN [k \in {} |-> Empty] = {}
<1>1. PICK list : list = [k \in {} |-> Empty]
  OBVIOUS
<1>2. DOMAIN list = {} /\ DOMAIN list \in SUBSET Keys /\ list \in [DOMAIN list -> Strings]
  BY ONLY <1>1
<1> QED
  BY ONLY <1>1, <1>2, ListType

LEMMA AddLinks ==
  ASSUME Towers, NEW key \in Keys, NEW s \in Strings, Add(key, s)
  PROVE  /\ ListsOK(levels') /\ Len(levels') <= MaxLevels /\ levels' # <<>>
         /\ Bottom' = Linked(Bottom, key, s) /\ key \notin DOMAIN Bottom
<1>1. /\ ListsOK(levels) /\ Len(levels) \in Nat /\ DOMAIN levels = 1 .. Len(levels)
      /\ \A i \in 1 .. Len(levels) : levels[i] \in Lists
  BY TowersAreLists
<1>2. MaxLevels \in Nat \ {0} /\ Len(levels) <= MaxLevels
  BY SkipListAssumption DEF Towers, TypeOK
<1>3. /\ \A i \in 1 .. Len(levels) : key \notin DOMAIN levels[i]
      /\ key \notin DOMAIN Bottom
  BY TowerOfKey DEF Add
<1> DEFINE Grow(height) == IF height > Len(levels) THEN <<[k \in {} |-> Empty]>> \o levels ELSE levels
<1>4. PICK height \in 1 .. Min({Len(levels) + 1, MaxLevels}) :
        levels' = [i \in DOMAIN Grow(height) |->
                     IF i > Len(Grow(height)) - height THEN Linked(Grow(height)[i], key, s) ELSE Grow(height)[i]]
  BY DEF Add
<1>5. height \in Nat /\ 1 <= height /\ height <= Len(levels) + 1 /\ height <= MaxLevels
  <2>1. Len(levels) + 1 \in Nat /\ MaxLevels \in Nat
    BY <1>1, <1>2
  <2>2. Min({Len(levels) + 1, MaxLevels}) \in Nat /\ Min({Len(levels) + 1, MaxLevels}) <= Len(levels) + 1
        /\ Min({Len(levels) + 1, MaxLevels}) <= MaxLevels
    BY ONLY <2>1, LeastOfTwo
  <2> QED
    BY ONLY <2>1, <2>2, height \in 1 .. Min({Len(levels) + 1, MaxLevels})
<1>6. PICK lists : lists = Grow(height)
  OBVIOUS
<1>7. /\ lists \in Seq(Lists) /\ Len(lists) \in Nat /\ height <= Len(lists) /\ Len(lists) <= MaxLevels
      /\ DOMAIN lists = 1 .. Len(lists)
      /\ \A i \in 1 .. Len(lists) :
           /\ key \notin DOMAIN lists[i]
           /\ i <= Len(lists) - height => DOMAIN lists[i] # {}
      /\ \A i \in 1 .. Len(lists) - 1 : \A k \in DOMAIN lists[i] :
           k \in DOMAIN lists[i + 1] /\ lists[i + 1][k] = lists[i][k]
      /\ lists[Len(lists)] = Bottom
  <2>1. CASE height > Len(levels)
    <3>1. height = Len(levels) + 1
      BY <1>1, <1>5, <2>1
    <3>2. PICK list : list = [k \in {} |-> Empty]
      OBVIOUS
    <3>3. list \in Lists /\ DOMAIN list = {}
      BY ONLY <3>2, NoLists
    <3>4. lists = <<list>> \o levels
      BY <1>6, <2>1, <3>2
    <3>5. levels \in Seq(Lists)
      BY <1>1 DEF ListsOK
    <3>6. /\ lists \in Seq(Lists) /\ Len(lists) = Len(levels) + 1 /\ lists[1] = list
          /\ \A i \in 2 .. Len(lists) : lists[i] = levels[i - 1]
      BY ONLY <3>3, <3>4, <3>5
    <3>7. \A i \in 1 .. Len(lists) : key \notin DOMAIN lists[i] /\ ~(i <= Len(lists) - height)
      <4> TAKE i \in 1 .. Len(lists)
      <4>1. i = 1 \/ (i \in 2 .. Len(lists) /\ i - 1 \in 1 .. Len(levels))
        BY <1>1, <3>6
      <4>2. key \notin DOMAIN lists[i]
        BY <1>3, <3>3, <3>6, <4>1
      <4> QED
        BY <1>1, <3>1, <3>6, <4>2
    <3>8. ASSUME NEW i \in 1 .. Len(lists) - 1, NEW k \in DOMAIN lists[i]
          PROVE  k \in DOMAIN lists[i + 1] /\ lists[i + 1][k] = lists[i][k]
      <4>1. i # 1 /\ i \in 2 .. Len(lists) /\ i + 1 \in 2 .. Len(lists) /\ (i + 1) - 1 = (i - 1) + 1
            /\ i - 1 \in 1 .. Len(levels) - 1
        BY <1>1, <3>3, <3>6, <3>8
      <4>2. lists[i] = levels[i - 1] /\ lists[i + 1] = levels[(i - 1) + 1]
        BY <3>6, <4>1
      <4> QED
        BY <1>1, <4>1, <4>2 DEF ListsOK
    <3>9. lists[Len(lists)] = Bottom
      <4>1. CASE levels = <<>>
        BY <3>2, <3>6, <4>1 DEF Bottom
      <4>2. CASE levels # <<>>
        <5>1. Len(levels) # 0 /\ Len(lists) \in 2 .. Len(lists) /\ Len(lists) - 1 = Len(levels)
          BY <1>1, <3>5, <3>6, <4>2
        <5> QED
          BY <3>6, <4>2, <5>1 DEF Bottom, Last
      <4> QED
        BY <4>1, <4>2
    <3> QED
      BY <1>1, <1>5, <3>1, <3>6, <3>7, <3>8, <3>9
  <2>2. CASE ~(height > Len(levels))
    <3>1. lists = levels /\ levels \in Seq(Lists) /\ levels # <<>> /\ height <= Len(levels)
      BY <1>1, <1>5, <1>6, <2>2 DEF ListsOK
    <3>2. lists[Len(lists)] = Bottom
      BY <3>1 DEF Bottom, Last
    <3> QED
      BY <1>1, <1>2, <1>3, <3>1, <3>2 DEF ListsOK
  <2> QED
    BY <2>1, <2>2
<1>8. PICK new : new = levels'
  OBVIOUS
<1> DEFINE T == {i \in 1 .. Len(lists) : i > Len(lists) - height}
<1>9. new = [i \in 1 .. Len(lists) |-> IF i \in T THEN Linked(lists[i], key, s) ELSE lists[i]]
  <2>1. new = [i \in DOMAIN lists |-> IF i > Len(lists) - height THEN Linked(lists[i], key, s) ELSE lists[i]]
    BY <1>4, <1>6, <1>8
  <2> QED
    BY ONLY <1>7, <2>1
<1>10. ListsOK(new) /\ Len(new) = Len(lists) /\ new[Len(new)] = Linked(lists[Len(lists)], key, s)
  <2>1. Linking(lists, T, key)
    BY ONLY <1>5, <1>7 DEF Linking
  <2> HIDE DEF T
  <2> QED
    BY ONLY <1>9, <2>1, LinkedLists, key \in Keys, s \in Strings
<1>11. new # <<>> /\ Bottom' = new[Len(new)]
  <2>1. Len(new) # 0 /\ new \in Seq(Lists)
    BY <1>5, <1>7, <1>10 DEF ListsOK
  <2> QED
    BY <1>8, <2>1 DEF Bottom, Last
<1> QED
  BY <1>3, <1>7, <1>8, <1>10, <1>11

-----------------------------------------------------------------------------
(* The invariant.                                                          *)
LEMMA BottomType == Towers => Bottom \in Lists
<1> SUFFICES ASSUME Towers PROVE Bottom \in Lists
  OBVIOUS
<1>1. CASE levels = <<>>
  BY <1>1, NoLists DEF Bottom
<1>2. CASE levels # <<>>
  <2>1. Len(levels) \in 1 .. Len(levels) /\ Bottom = levels[Len(levels)]
    BY <1>2, TowersAreLists DEF Bottom, Last, ListsOK
  <2> QED
    BY <2>1, TowersAreLists
<1> QED
  BY <1>1, <1>2

LEMMA ListsAreTyped ==
  ASSUME NEW lists
  PROVE  ListsOK(lists) => lists \in Seq(UNION {[S -> Strings] : S \in SUBSET Keys})
BY DEF ListsOK, Lists

LEMMA GrownType ==
  ASSUME Towers, NEW size \in Nat, NEW key \in Keys, NEW s \in Strings
  PROVE  Grown(size, key, s) \in 0 .. (Word - 1)
<1>1. /\ Word \in Nat /\ InitialSize < Word /\ InitialSize \in Nat /\ PairSize \in Nat
      /\ \A t \in Strings \cup {Empty} : Size[t] \in Nat
  BY SkipListAssumption, LayoutAssumption
<1>2. Get(key) \in Strings \cup {Empty}
  <2>1. Bottom \in Lists
    BY BottomType
  <2>2. Bottom \in [DOMAIN Bottom -> Strings]
    BY <2>1, ListType
  <2> QED
    BY <2>2, GetReadsBottom
<1>3. Growth(key, s) \in Int
  BY <1>1, <1>2 DEF Growth
<1> QED
  BY <1>1, <1>3 DEF Grown

LEMMA PutTowers ==
  ASSUME Towers, NEW key \in Keys, NEW s \in Strings, put(key, s),
         memory' \in 0 .. (Word - 1), timeStamp' \in 0 .. MaxFlushes, pending' = <<>>
  PROVE  Towers' /\ Bottom' = Linked(Bottom, key, s)
<1>1. Bottom \in Lists /\ IsFiniteSet(DOMAIN Bottom) /\ Cardinality(DOMAIN Bottom) \in Nat
  BY BottomType, ListsAreFinite
<1>2. /\ ListsOK(levels') /\ Len(levels') <= MaxLevels /\ levels' # <<>>
      /\ Bottom' = Linked(Bottom, key, s)
      /\ Replace(key, s) => key \in DOMAIN Bottom
      /\ Add(key, s) => key \notin DOMAIN Bottom
  BY ReplaceLinks, AddLinks DEF put
<1>3. DOMAIN Bottom' = DOMAIN Bottom \cup {key}
  BY <1>1, <1>2, LinkedType
<1>4. count' = Cardinality(DOMAIN Bottom')
  <2>1. count = Cardinality(DOMAIN Bottom)
    BY DEF Towers
  <2>2. CASE key \in DOMAIN Bottom
    <3>1. Tower(key) # {}
      BY <2>2, TowerOfKey
    <3>2. count' = count
      BY <3>1 DEF put, CountAfter
    <3>3. DOMAIN Bottom' = DOMAIN Bottom
      BY <1>3, <2>2
    <3> QED
      BY <2>1, <3>2, <3>3
  <2>3. CASE key \notin DOMAIN Bottom
    <3>1. Tower(key) = {}
      BY <2>3, TowerOfKey
    <3>2. count' = count + 1
      BY <3>1 DEF put, CountAfter
    <3>3. Cardinality(DOMAIN Bottom \cup {key}) = Cardinality(DOMAIN Bottom) + 1
      BY <1>1, <2>3, FS_AddElement
    <3> QED
      BY <1>3, <2>1, <3>2, <3>3
  <2> QED
    BY <2>2, <2>3
<1>5. count' \in Nat
  BY <1>1, <1>4 DEF put, CountAfter, Towers
<1>6. minKey' \in Nat /\ maxKey' \in Nat
  <2>1. minKey \in Nat /\ maxKey \in Nat /\ key \in Nat
    BY KeysAreNumbers DEF Towers, TypeOK
  <2> QED
    BY <2>1, LeastOfTwo DEF put
<1>7. TypeOK'
  <2>1. levels' \in Seq(UNION {[S -> Strings] : S \in SUBSET Keys})
    BY <1>2, ListsAreTyped
  <2> QED
    BY <1>2, <1>5, <1>6, <2>1 DEF TypeOK
<1>8. /\ DOMAIN levels' = 1 .. Len(levels')
      /\ \A i \in 1 .. Len(levels') : DOMAIN levels'[i] # {}
      /\ \A i \in 1 .. Len(levels') - 1 : \A k \in DOMAIN levels'[i] :
           k \in DOMAIN levels'[i + 1] /\ levels'[i + 1][k] = levels'[i][k]
  BY <1>2 DEF ListsOK
<1> QED
  BY <1>2, <1>4, <1>7, <1>8 DEF Towers

LEMMA InitTowers == Init => Towers
<1> SUFFICES ASSUME Init PROVE Towers
  OBVIOUS
<1>1. levels = <<>> /\ Len(levels) = 0 /\ DOMAIN levels = {}
  BY DEF Init
<1>2. Bottom = [k \in {} |-> Empty] /\ DOMAIN Bottom = {}
  BY <1>1 DEF Bottom
<1>3. count = Cardinality(DOMAIN Bottom)
  BY <1>2, FS_EmptySet DEF Init
<1>4. TypeOK
  <2>1. levels \in Seq(UNION {[S -> Strings] : S \in SUBSET Keys})
    BY <1>1
  <2>2. InitialSize \in 0 .. (Word - 1) /\ MaxLevels \in Nat /\ SignedMax \in Nat /\ MaxFlushes \in Nat
    BY SkipListAssumption, LayoutAssumption
  <2> QED
    BY <1>1, <2>1, <2>2 DEF Init, TypeOK
<1> QED
  BY <1>1, <1>3, <1>4 DEF Towers

LEMMA FlushTowers ==
  ASSUME Towers, NEW key \in Keys, NEW s \in Strings, Flush(key, s)
  PROVE  Towers' /\ Bottom' = [k \in {} |-> Empty]
<1>1. levels' = <<>> /\ Len(levels') = 0 /\ DOMAIN levels' = {} /\ count' = 0
  BY DEF Flush, clear
<1>2. Bottom' = [k \in {} |-> Empty] /\ DOMAIN Bottom' = {}
  BY <1>1 DEF Bottom
<1>3. count' = Cardinality(DOMAIN Bottom')
  BY <1>1, <1>2, FS_EmptySet
<1>4. TypeOK'
  <2>1. levels' \in Seq(UNION {[S -> Strings] : S \in SUBSET Keys})
    BY <1>1
  <2>2. MaxLevels \in Nat /\ SignedMax \in Nat /\ MaxFlushes \in Nat /\ ClearedSize \in Nat
    BY SkipListAssumption
  <2>3. memory' \in 0 .. (Word - 1)
    BY <2>2, GrownType DEF Flush
  <2>4. timeStamp' \in 0 .. MaxFlushes
    BY <2>2 DEF Flush, Towers, TypeOK
  <2> QED
    BY <1>1, <2>1, <2>2, <2>3, <2>4 DEF Flush, clear, TypeOK
<1> QED
  BY <1>1, <1>2, <1>3, <1>4 DEF Towers

LEMMA KeepTowers ==
  ASSUME Towers, NEW key \in Keys, NEW s \in Strings, Keep(key, s)
  PROVE  Towers' /\ Bottom' = Linked(Bottom, key, s)
<1>1. memory \in Nat /\ timeStamp \in 0 .. MaxFlushes
  BY SkipListAssumption DEF Towers, TypeOK
<1>2. memory' \in 0 .. (Word - 1)
  BY <1>1, GrownType DEF Keep
<1> QED
  BY <1>1, <1>2, PutTowers DEF Keep

LEMMA InsertTowers ==
  ASSUME Towers, InsertLate
  PROVE  /\ pending \in Keys \X Strings /\ pending = <<pending[1], pending[2]>>
         /\ pending[1] \in Keys /\ pending[2] \in Strings
         /\ Towers' /\ Bottom' = Linked(Bottom, pending[1], pending[2])
<1>1. pending \in Keys \X Strings
  BY DEF InsertLate, Towers, TypeOK
<1>2. PICK key \in Keys, s \in Strings : pending = <<key, s>>
  BY <1>1
<1>3. put(key, s)
  BY <1>2 DEF InsertLate
<1>4. memory' \in 0 .. (Word - 1) /\ timeStamp' \in 0 .. MaxFlushes /\ pending' = <<>>
  BY DEF InsertLate, Towers, TypeOK
<1>5. Towers' /\ Bottom' = Linked(Bottom, key, s)
  BY <1>3, <1>4, PutTowers
<1> QED
  BY <1>1, <1>2, <1>5

LEMMA NextTowers == Towers /\ [Next]_vars => Towers'
<1> SUFFICES ASSUME Towers, [Next]_vars PROVE Towers'
  OBVIOUS
<1>1. CASE UNCHANGED vars
  BY <1>1 DEF vars, Towers, TypeOK, Bottom
<1>2. CASE InsertLate
  BY <1>2, InsertTowers
<1>3. ASSUME NEW key \in Keys, NEW s \in Strings, Keep(key, s) \/ Flush(key, s)
      PROVE  Towers'
  BY <1>3, KeepTowers, FlushTowers
<1> QED
  BY <1>1, <1>2, <1>3 DEF Next

(* Every level below the top holds the nodes of the one above with the     *)
(* same strings, none is empty, and Size counts the nodes of the lowest:   *)
(* SkipList::put keeps this for every outcome of the tosses, and no search *)
(* for UINT64_MAX takes a head for a node.                                 *)
THEOREM ListsHoldTogether == Spec => []Towers
BY InitTowers, NextTowers, PTL DEF Spec

-----------------------------------------------------------------------------
(* The memtable of KVStore.                                                *)
MemOfBottom == Towers => [k \in DOMAIN Bottom |-> Get(k)] = Bottom

LEMMA MemIsBottom == MemOfBottom
<1> SUFFICES ASSUME Towers PROVE [k \in DOMAIN Bottom |-> Get(k)] = Bottom
  BY DEF MemOfBottom
<1>1. Bottom \in [DOMAIN Bottom -> Strings]
  BY BottomType, ListType
<1>2. \A k \in DOMAIN Bottom : Get(k) = Bottom[k]
  BY GetReadsBottom
<1> QED
  BY ONLY <1>1, <1>2

LEMMA MemIsBottomNext == MemOfBottom'
BY MemIsBottom, PTL

LEMMA SameGrowth ==
  ASSUME Towers, NEW key \in Keys, NEW s \in Strings, NEW size
  PROVE  Map!Grown(size, key, s) = Grown(size, key, s)
<1>1. [k \in DOMAIN Bottom |-> Get(k)] = Bottom
  BY MemIsBottom DEF MemOfBottom
<1>2. Bottom \in [DOMAIN Bottom -> Strings] /\ Empty \notin Strings
  BY BottomType, ListType, SkipListAssumption
<1>3. (key \in DOMAIN Bottom /\ Bottom[key] # Empty) <=> Get(key) # Empty
  BY <1>2, GetReadsBottom
<1>4. key \in DOMAIN Bottom => Bottom[key] = Get(key)
  BY GetReadsBottom
<1> QED
  BY <1>1, <1>3, <1>4 DEF Map!Grown, Map!Growth, Grown, Growth

LEMMA PutIsInsert ==
  ASSUME Towers, Towers', NEW key \in Keys, NEW s \in Strings, put(key, s), Bottom' = Linked(Bottom, key, s)
  PROVE  Map!Insert(key, s)
<1>1. [k \in DOMAIN Bottom |-> Get(k)] = Bottom
  BY MemIsBottom DEF MemOfBottom
<1>2. ([k \in DOMAIN Bottom |-> Get(k)])' = Bottom'
  BY MemIsBottomNext DEF MemOfBottom
<1>3. Map!Inserted(key, s) = Linked(Bottom, key, s)
  BY <1>1 DEF Map!Inserted, Linked
<1> QED
  BY <1>2, <1>3 DEF Map!Insert, Map!Min, Map!Max, Min, Max, put

LEMMA StepIsMemtable == Towers /\ Towers' /\ [Next]_vars => [Map!MemNext(Keys, Strings)]_(Map!skiplist)
<1> SUFFICES ASSUME Towers, Towers', [Next]_vars
             PROVE  [Map!MemNext(Keys, Strings)]_(Map!skiplist)
  OBVIOUS
<1>1. CASE UNCHANGED vars
  <2>1. UNCHANGED <<[k \in DOMAIN Bottom |-> Get(k)], memory, minKey, maxKey, timeStamp, pending>>
    BY <1>1 DEF vars, Bottom, Get
  <2> QED
    BY <2>1 DEF Map!skiplist
<1>2. CASE InsertLate
  <2>1. Map!Insert(pending[1], pending[2])
    BY <1>2, InsertTowers, PutIsInsert DEF InsertLate
  <2>2. Map!InsertLate
    BY <1>2, <2>1 DEF InsertLate, Map!InsertLate
  <2> QED
    BY <2>2 DEF Map!MemNext
<1>3. ASSUME NEW key \in Keys, NEW s \in Strings, Keep(key, s)
      PROVE  Map!MemNext(Keys, Strings)
  <2>1. Map!Insert(key, s)
    BY <1>3, KeepTowers, PutIsInsert DEF Keep
  <2>2. Map!Keep(key, s)
    BY <1>3, <2>1, SameGrowth DEF Keep, Overflows, Map!Keep, Map!Overflows
  <2> QED
    BY <2>2 DEF Map!MemNext
<1>4. ASSUME NEW key \in Keys, NEW s \in Strings, Flush(key, s)
      PROVE  Map!MemNext(Keys, Strings)
  <2>1. ([k \in DOMAIN Bottom |-> Get(k)])' = [k \in {} |-> Empty]
    BY <1>4, MemIsBottomNext, FlushTowers DEF MemOfBottom
  <2>2. Map!ClearMemTable
    BY <1>4, <2>1 DEF Flush, clear, Map!ClearMemTable, Map!NoPairs
  <2>3. Map!Flush(key, s)
    BY <1>4, <2>2, SameGrowth DEF Flush, Overflows, Map!Flush, Map!Overflows
  <2> QED
    BY <2>3 DEF Map!MemNext
<1> QED
  BY <1>1, <1>2, <1>3, <1>4 DEF Next

LEMMA InitIsMemtable == Init => Map!MemInit
<1> SUFFICES ASSUME Init PROVE Map!MemInit
  OBVIOUS
<1>1. Bottom = [k \in {} |-> Empty]
  BY DEF Init, Bottom
<1>2. [k \in DOMAIN Bottom |-> Get(k)] = [k \in {} |-> Empty]
  <2>1. DOMAIN Bottom = {}
    BY <1>1
  <2> QED
    BY <2>1
<1> QED
  BY <1>2 DEF Init, Map!MemInit, Map!NoPairs

(* Whatever the heights of its towers, the list is the memtable that       *)
(* KVStore's theorems rest on: get gives the string last put, put changes  *)
(* one key, and nothing is left after clear.                               *)
THEOREM ListImplementsMemtable == Spec => ImplementsMemtable
BY InitTowers, NextTowers, InitIsMemtable, StepIsMemtable, PTL DEF Spec, ImplementsMemtable

-----------------------------------------------------------------------------
(***************************************************************************)
(* The size that put keeps: the bytes of the pairs and what the list began *)
(* with, which a flush may leave short by the bytes of one pair.           *)
(***************************************************************************)
LEMMA SizesOfStrings ==
  /\ TableSize \in Nat \ {0} /\ {InitialSize, PairSize, EntrySize, ClearedSize, Word} \subseteq Nat
  /\ PairSize = EntrySize + 1
  /\ Size[Empty] \in Nat /\ Empty \notin Strings
  /\ \A s \in Strings :
       /\ Size[s] \in Nat /\ Bytes(s) \in Nat \ {0} /\ Bytes(s) = PairSize + Size[s]
       /\ TableSize + Bytes(s) < Word
       /\ InitialSize + Bytes(s) <= TableSize /\ ClearedSize + Bytes(s) <= TableSize
<1>1. /\ TableSize \in Nat \ {0} /\ InitialSize \in Nat /\ EntrySize \in Nat /\ PairSize = EntrySize + 1
      /\ ClearedSize \in Nat /\ Word \in Nat /\ Empty \notin Strings
      /\ Size \in [Strings \cup {Empty} -> Nat]
  BY SkipListAssumption, LayoutAssumption
<1>2. PairSize \in Nat /\ Size[Empty] \in Nat
  BY ONLY <1>1
<1>3. ASSUME NEW s \in Strings
      PROVE  /\ Size[s] \in Nat /\ Bytes(s) \in Nat \ {0} /\ Bytes(s) = PairSize + Size[s]
             /\ TableSize + Bytes(s) < Word
             /\ InitialSize + Bytes(s) <= TableSize /\ ClearedSize + Bytes(s) <= TableSize
  <2>1. PICK n : n = Size[s]
    OBVIOUS
  <2>2. n \in Nat
    BY ONLY <1>1, <2>1, s \in Strings
  <2>3. /\ Size[s] > 0 /\ TableSize + PairSize + Size[s] < Word
        /\ {InitialSize + PairSize + Size[s], ClearedSize + PairSize + Size[s]} \subseteq 0 .. TableSize
    BY SkipListAssumption
  <2>4. n > 0 /\ TableSize + PairSize + n < Word
    BY ONLY <2>1, <2>3
  <2>5. InitialSize + PairSize + n \in 0 .. TableSize /\ ClearedSize + PairSize + n \in 0 .. TableSize
    BY ONLY <2>1, <2>3
  <2>6. Bytes(s) = PairSize + n
    BY ONLY <2>1 DEF Bytes
  <2> QED
    BY ONLY <1>1, <1>2, <2>1, <2>2, <2>4, <2>5, <2>6
<1> QED
  BY ONLY <1>1, <1>2, <1>3

LEMMA WeightsOfList ==
  ASSUME NEW kv
  PROVE  DOMAIN Weights(kv) = DOMAIN kv /\ \A k \in DOMAIN kv : Weights(kv)[k] = Bytes(kv[k])
<1>1. Weights(kv) = [k \in DOMAIN kv |-> Bytes(kv[k])]
  BY DEF Weights
<1> QED
  BY ONLY <1>1

(* What a size_t holds that is to hold n.                                  *)
Wrapped(n) == IF n >= 0 THEN n ELSE n + Word

LEMMA WrapUnique ==
  ASSUME NEW a, NEW b \in Nat \ {0}, NEW q \in Int, NEW r \in 0 .. (b - 1), a = b * q + r
  PROVE  a % b = r
OBVIOUS

LEMMA Wraps ==
  ASSUME NEW n \in Int, NEW g \in Int,
         - Word <= n, n < Word, - Word <= n + g, n + g < Word
  PROVE  (Wrapped(n) + g) % Word = Wrapped(n + g)
<1>1. PICK w \in Nat \ {0} : w = Word
  BY SizesOfStrings
<1>2. PICK a \in Int : a = n + g /\ - w <= a /\ a < w
  BY ONLY <1>1, n \in Int, g \in Int, - Word <= n + g, n + g < Word
<1>3. a >= 0 => a % w = a
  <2>1. a >= 0 => a \in 0 .. (w - 1) /\ a = w * 0 + a
    BY ONLY <1>2, w \in Nat \ {0}
  <2> QED
    BY ONLY <2>1, WrapUnique, w \in Nat \ {0}, 0 \in Int
<1>4. a < 0 => a % w = a + w
  <2>1. a < 0 => a + w \in 0 .. (w - 1) /\ a = w * (-1) + (a + w)
    BY ONLY <1>2, w \in Nat \ {0}
  <2> QED
    BY ONLY <2>1, WrapUnique, w \in Nat \ {0}, -1 \in Int
<1>5. a >= 0 => (a + w) % w = a
  <2>1. a >= 0 => a \in 0 .. (w - 1) /\ a + w = w * 1 + a
    BY ONLY <1>2, w \in Nat \ {0}
  <2> QED
    BY ONLY <2>1, WrapUnique, w \in Nat \ {0}, 1 \in Int
<1>6. a < 0 => (a + w) % w = a + w
  <2>1. a < 0 => a + w \in 0 .. (w - 1) /\ a + w = w * 0 + (a + w)
    BY ONLY <1>2, w \in Nat \ {0}
  <2> QED
    BY ONLY <2>1, WrapUnique, w \in Nat \ {0}, 0 \in Int
<1>7. Wrapped(n) + g = IF n >= 0 THEN a ELSE a + w
  BY ONLY <1>1, <1>2, n \in Int, g \in Int DEF Wrapped
<1>8. Wrapped(n + g) = IF a >= 0 THEN a ELSE a + w
  BY ONLY <1>1, <1>2 DEF Wrapped
<1>9. a >= 0 \/ a < 0
  BY ONLY a \in Int
<1> QED
  BY ONLY <1>1, <1>3, <1>4, <1>5, <1>6, <1>7, <1>8, <1>9

Accounted(kv, size) ==
  \E f : \E base \in Int :
    /\ IsSum(f, Weights(kv))
    /\ base >= 0 \/ \E o \in Strings : base + Bytes(o) >= 0
    /\ f[DOMAIN kv] + base <= TableSize
    /\ size = Wrapped(f[DOMAIN kv] + base)

LEMMA GrowthOfPair ==
  ASSUME Towers, NEW key \in Keys, NEW s \in Strings
  PROVE  /\ Growth(key, s) \in Int /\ Growth(key, s) <= Bytes(s)
         /\ \/ key \notin DOMAIN Bottom /\ Growth(key, s) = Bytes(s)
            \/ /\ key \in DOMAIN Bottom /\ Bottom[key] \in Strings
               /\ Growth(key, s) = Bytes(s) - Bytes(Bottom[key])
<1>1. Bottom \in [DOMAIN Bottom -> Strings]
  BY BottomType, ListType
<1>2. CASE key \in DOMAIN Bottom
  <2>1. PICK o \in Strings : o = Bottom[key]
    BY <1>1, <1>2
  <2>2. Get(key) = o /\ o # Empty
    BY <1>2, <2>1, GetReadsBottom, SizesOfStrings
  <2>3. Growth(key, s) = Size[s] - Size[o]
    BY ONLY <2>2 DEF Growth
  <2>4. Size[s] \in Nat /\ Size[o] \in Nat /\ Bytes(s) = PairSize + Size[s] /\ Bytes(o) = PairSize + Size[o]
        /\ PairSize \in Nat
    BY ONLY SizesOfStrings, s \in Strings, o \in Strings
  <2>5. PICK m \in Nat, n \in Nat : m = Size[s] /\ n = Size[o]
    BY ONLY <2>4
  <2> QED
    BY ONLY <1>2, <2>1, <2>3, <2>4, <2>5
<1>3. CASE key \notin DOMAIN Bottom
  <2>1. Get(key) = Empty
    BY <1>3, GetReadsBottom
  <2>2. Growth(key, s) = PairSize + Size[s]
    BY ONLY <2>1 DEF Growth
  <2>3. Bytes(s) = PairSize + Size[s] /\ Bytes(s) \in Nat
    BY ONLY SizesOfStrings, s \in Strings
  <2> QED
    BY ONLY <1>3, <2>2, <2>3
<1> QED
  BY <1>2, <1>3

LEMMA KeepAccounts ==
  ASSUME Towers, NEW key \in Keys, NEW s \in Strings, Accounted(Bottom, memory),
         ~Overflows(key, s)
  PROVE  Accounted(Linked(Bottom, key, s), Grown(memory, key, s))
<1>1. PICK list \in Lists : list = Bottom
  BY BottomType
<1>2. PICK L : L = Linked(list, key, s)
  OBVIOUS
<1>3. /\ L \in Lists /\ DOMAIN L = DOMAIN list \cup {key} /\ L[key] = s
      /\ \A k \in DOMAIN list : k # key => L[k] = list[k]
  BY ONLY <1>2, list \in Lists, key \in Keys, s \in Strings, LinkedType
<1>4. PICK w, v : w = Weights(list) /\ v = Weights(L)
  OBVIOUS
<1>5. /\ DOMAIN w = DOMAIN list /\ \A k \in DOMAIN list : w[k] = Bytes(list[k])
      /\ DOMAIN v = DOMAIN L /\ \A k \in DOMAIN L : v[k] = Bytes(L[k])
  BY ONLY <1>4, WeightsOfList
<1>6. PICK f : \E base \in Int :
        /\ IsSum(f, w)
        /\ base >= 0 \/ \E o \in Strings : base + Bytes(o) >= 0
        /\ f[DOMAIN list] + base <= TableSize
        /\ memory = Wrapped(f[DOMAIN list] + base)
  BY ONLY Accounted(Bottom, memory), <1>1, <1>4 DEF Accounted
<1>7. PICK base \in Int :
        /\ IsSum(f, w)
        /\ base >= 0 \/ \E o \in Strings : base + Bytes(o) >= 0
        /\ f[DOMAIN list] + base <= TableSize
        /\ memory = Wrapped(f[DOMAIN list] + base)
  BY ONLY <1>6
<1>8. Bytes(s) \in Nat /\ TableSize + Bytes(s) < Word /\ TableSize \in Nat /\ Word \in Nat
  BY ONLY SizesOfStrings, s \in Strings
<1>9. PICK g : /\ IsSum(g, v)
               /\ g[DOMAIN v] = f[DOMAIN w \ {key}] + v[key]
               /\ key \notin DOMAIN w => f[DOMAIN w \ {key}] = f[DOMAIN w]
               /\ key \in DOMAIN w => f[DOMAIN w] = f[DOMAIN w \ {key}] + w[key]
               /\ f[DOMAIN w] \in Nat /\ f[DOMAIN w \ {key}] \in Nat
  <2>1. v[key] = Bytes(s)
    BY ONLY <1>3, <1>5
  <2>2. \A k \in DOMAIN w : k # key => v[k] = w[k]
    BY ONLY <1>3, <1>5
  <2>3. DOMAIN v = DOMAIN w \cup {key}
    BY ONLY <1>3, <1>5
  <2> QED
    BY ONLY <1>7, <1>8, <2>1, <2>2, <2>3, SumWith
<1>10. PICK all \in Nat, rest \in Nat, cost \in Nat, sum \in Nat :
         all = f[DOMAIN list] /\ rest = f[DOMAIN w \ {key}] /\ cost = Bytes(s) /\ sum = g[DOMAIN L] /\ sum = rest + cost
  BY ONLY <1>3, <1>5, <1>8, <1>9
<1>11. PICK growth \in Int : growth = Growth(key, s) /\ growth <= cost
  BY <1>10, GrowthOfPair
<1>12. sum = all + growth
  <2>1. CASE key \notin DOMAIN list
    <3>1. growth = cost
      BY <1>1, <1>10, <1>11, <2>1, GrowthOfPair
    <3> QED
      BY ONLY <1>5, <1>9, <1>10, <2>1, <3>1
  <2>2. CASE key \in DOMAIN list
    <3>1. list[key] \in Strings /\ growth = cost - Bytes(list[key])
      BY <1>1, <1>10, <1>11, <2>2, GrowthOfPair
    <3>2. PICK old \in Nat : old = Bytes(list[key])
      BY ONLY <3>1, SizesOfStrings
    <3>3. all = rest + old
      BY ONLY <1>5, <1>9, <1>10, <2>2, <3>2
    <3> QED
      BY ONLY <1>10, <3>1, <3>2, <3>3
  <2> QED
    BY <2>1, <2>2
<1>13. PICK most \in Nat : TableSize + most < Word /\ base + most >= 0
  <2>1. CASE base >= 0
    BY ONLY <1>7, <1>8, <2>1, 0 \in Nat
  <2>2. CASE ~(base >= 0)
    <3>1. PICK o \in Strings : base + Bytes(o) >= 0
      BY ONLY <1>7, <2>2
    <3> QED
      BY ONLY <3>1, SizesOfStrings
  <2> QED
    BY ONLY <2>1, <2>2
<1>14. PICK n \in Int : n = all + base /\ n <= TableSize /\ memory = Wrapped(n) /\ n + most >= 0
  BY ONLY <1>7, <1>10, <1>13, all \in Nat, base \in Int, most \in Nat
<1>15. n + growth = sum + base /\ n + growth + most >= 0 /\ n + growth <= TableSize + cost
  BY ONLY <1>8, <1>11, <1>12, <1>13, <1>14, all \in Nat, base \in Int, most \in Nat, sum \in Nat, cost \in Nat,
          growth \in Int, n \in Int
<1>16. Grown(memory, key, s) = Wrapped(n + growth)
  <2>1. - Word <= n /\ n < Word /\ - Word <= n + growth /\ n + growth < Word
    BY ONLY <1>8, <1>10, <1>13, <1>14, <1>15, most \in Nat, n \in Int, growth \in Int, cost \in Nat
  <2>2. (Wrapped(n) + growth) % Word = Wrapped(n + growth)
    BY ONLY <2>1, Wraps, n \in Int, growth \in Int
  <2> QED
    BY ONLY <1>11, <1>14, <2>2 DEF Grown
<1>17. n + growth <= TableSize
  <2>1. ~(Grown(memory, key, s) > TableSize)
    BY DEF Overflows
  <2>2. CASE n + growth >= 0
    <3>1. Grown(memory, key, s) = n + growth
      BY ONLY <1>16, <2>2 DEF Wrapped
    <3> QED
      BY ONLY <1>8, <2>1, <3>1, n \in Int, growth \in Int
  <2> QED
    BY ONLY <1>8, <2>2, n \in Int, growth \in Int
<1>18. /\ IsSum(g, Weights(L))
       /\ base >= 0 \/ \E o \in Strings : base + Bytes(o) >= 0
       /\ g[DOMAIN L] + base <= TableSize
       /\ Grown(memory, key, s) = Wrapped(g[DOMAIN L] + base)
  BY ONLY <1>4, <1>7, <1>9, <1>10, <1>15, <1>16, <1>17
<1> QED
  BY ONLY <1>1, <1>2, <1>18, base \in Int DEF Accounted

(* The list the flush leaves, once the pair at hand is in it.              *)
LEMMA FlushAccounts ==
  ASSUME Towers, NEW key \in Keys, NEW s \in Strings
  PROVE  Accounted([k \in {key} |-> s], Grown(ClearedSize, key, s))
<1>1. PICK L : L = [k \in {key} |-> s]
  OBVIOUS
<1>2. DOMAIN L = {key} /\ L[key] = s
  BY ONLY <1>1
<1>3. PICK v : v = Weights(L)
  OBVIOUS
<1>4. DOMAIN v = {key} /\ v[key] = Bytes(s)
  BY ONLY <1>2, <1>3, WeightsOfList
<1>5. /\ Bytes(s) \in Nat /\ TableSize + Bytes(s) < Word /\ TableSize \in Nat /\ Word \in Nat
      /\ ClearedSize \in Nat /\ ClearedSize + Bytes(s) <= TableSize
  BY ONLY SizesOfStrings, s \in Strings
<1>6. PICK g : IsSum(g, v) /\ g[DOMAIN L] = Bytes(s)
  <2>1. PICK w : w = [k \in {} |-> 0]
    OBVIOUS
  <2>2. DOMAIN w = {}
    BY ONLY <2>1
  <2>3. PICK f : IsSum(f, w) /\ f[DOMAIN w] = 0
    BY ONLY <2>2, NoSum
  <2>4. v[key] = Bytes(s)
    BY ONLY <1>4
  <2>5. \A k \in DOMAIN w : k # key => v[k] = w[k]
    BY ONLY <2>2
  <2>6. DOMAIN v = DOMAIN w \cup {key}
    BY ONLY <1>4, <2>2
  <2>7. key \notin DOMAIN w
    BY ONLY <2>2
  <2>8. PICK g : /\ IsSum(g, v)
                 /\ g[DOMAIN v] = f[DOMAIN w \ {key}] + v[key]
                 /\ key \notin DOMAIN w => f[DOMAIN w \ {key}] = f[DOMAIN w]
                 /\ key \in DOMAIN w => f[DOMAIN w] = f[DOMAIN w \ {key}] + w[key]
                 /\ f[DOMAIN w] \in Nat /\ f[DOMAIN w \ {key}] \in Nat
    BY ONLY <1>5, <2>3, <2>4, <2>5, <2>6, SumWith
  <2>9. g[DOMAIN v] = 0 + Bytes(s)
    BY ONLY <1>4, <2>3, <2>7, <2>8
  <2>10. 0 + Bytes(s) = Bytes(s)
    BY ONLY <1>5
  <2> QED
    BY ONLY <1>2, <1>4, <2>8, <2>9, <2>10
<1>7. PICK cost \in Nat, growth \in Int : cost = Bytes(s) /\ growth = Growth(key, s) /\ growth <= cost
  BY <1>5, GrowthOfPair
<1>8. PICK base \in Int : base = ClearedSize + growth - cost
  BY ONLY <1>5, growth \in Int, cost \in Nat
<1>9. /\ base >= 0 \/ \E o \in Strings : base + Bytes(o) >= 0
      /\ - Word <= ClearedSize + growth /\ ClearedSize + growth < Word
  <2>1. CASE growth = cost
    BY ONLY <1>5, <1>7, <1>8, <2>1, cost \in Nat
  <2>2. CASE growth # cost
    <3>1. Bottom[key] \in Strings /\ growth = cost - Bytes(Bottom[key])
      BY <1>7, <2>2, GrowthOfPair
    <3>2. PICK o \in Strings : o = Bottom[key]
      BY ONLY <3>1
    <3>3. PICK old \in Nat : old = Bytes(o) /\ TableSize + old < Word
      BY ONLY SizesOfStrings, o \in Strings
    <3>4. growth = cost - old
      BY ONLY <3>1, <3>2, <3>3
    <3>5. base + old >= 0 /\ - Word <= ClearedSize + growth /\ ClearedSize + growth < Word
      BY ONLY <1>5, <1>7, <1>8, <3>3, <3>4, cost \in Nat, old \in Nat
    <3> QED
      BY ONLY <3>3, <3>5
  <2> QED
    BY ONLY <2>1, <2>2
<1>10. Grown(ClearedSize, key, s) = Wrapped(ClearedSize + growth)
  <2>1. - Word <= ClearedSize /\ ClearedSize < Word /\ ClearedSize \in Int /\ ClearedSize >= 0
    BY ONLY <1>5
  <2>2. (Wrapped(ClearedSize) + growth) % Word = Wrapped(ClearedSize + growth)
    BY ONLY <1>9, <2>1, Wraps, growth \in Int
  <2>3. Wrapped(ClearedSize) = ClearedSize
    BY ONLY <2>1 DEF Wrapped
  <2> QED
    BY ONLY <1>7, <2>2, <2>3 DEF Grown
<1>11. /\ IsSum(g, Weights(L))
       /\ base >= 0 \/ \E o \in Strings : base + Bytes(o) >= 0
       /\ g[DOMAIN L] + base <= TableSize
       /\ Grown(ClearedSize, key, s) = Wrapped(g[DOMAIN L] + base)
  <2>1. cost + base = ClearedSize + growth /\ cost + base <= TableSize
    BY ONLY <1>5, <1>7, <1>8, cost \in Nat, growth \in Int
  <2> QED
    BY ONLY <1>3, <1>6, <1>7, <1>9, <1>10, <2>1
<1> QED
  BY ONLY <1>1, <1>11, base \in Int DEF Accounted

LEMMA NewAccounts ==
  ASSUME NEW kv, DOMAIN kv = {}, NEW s \in Strings
  PROVE  Accounted(kv, InitialSize)
<1>1. PICK v : v = Weights(kv) /\ DOMAIN v = {}
  BY WeightsOfList
<1>2. PICK f : IsSum(f, v) /\ f[DOMAIN v] = 0
  BY ONLY <1>1, NoSum
<1>3. InitialSize \in Nat /\ InitialSize <= TableSize
  <2>1. InitialSize \in Nat /\ TableSize \in Nat /\ Bytes(s) \in Nat /\ InitialSize + Bytes(s) <= TableSize
    BY ONLY SizesOfStrings, s \in Strings
  <2> QED
    BY ONLY <2>1
<1>4. f[DOMAIN kv] + InitialSize = InitialSize
  BY ONLY <1>1, <1>2, <1>3, DOMAIN kv = {}
<1>5. Wrapped(InitialSize) = InitialSize /\ InitialSize >= 0 /\ InitialSize \in Int
  BY ONLY <1>3 DEF Wrapped
<1> QED
  BY ONLY <1>1, <1>2, <1>3, <1>4, <1>5 DEF Accounted

-----------------------------------------------------------------------------
(* The pairs that memory counts: a pair that waits for the flush counts.   *)
Held == IF pending = <<>> THEN Bottom ELSE [k \in {pending[1]} |-> pending[2]]

MemoryOK ==
  /\ Towers
  /\ IF levels = <<>> /\ pending = <<>> THEN memory = InitialSize ELSE Accounted(Held, memory)
  /\ pending # <<>> => levels = <<>>

LEMMA BottomAccounted ==
  ASSUME MemoryOK, pending = <<>>, NEW s \in Strings
  PROVE  Accounted(Bottom, memory)
<1>1. CASE levels = <<>>
  <2>1. memory = InitialSize /\ DOMAIN Bottom = {}
    BY <1>1 DEF MemoryOK, Bottom
  <2> QED
    BY <2>1, NewAccounts
<1>2. CASE levels # <<>>
  BY <1>2 DEF MemoryOK, Held
<1> QED
  BY <1>1, <1>2

LEMMA PutFills ==
  ASSUME Towers', NEW key, NEW s, Bottom' = Linked(Bottom, key, s)
  PROVE  levels' # <<>>
<1>1. key \in DOMAIN Linked(Bottom, key, s)
  BY DEF Linked
<1>2. levels' = <<>> => DOMAIN Bottom' = {}
  BY DEF Bottom
<1> QED
  BY <1>1, <1>2

LEMMA NextMemory == MemoryOK /\ [Next]_vars => MemoryOK'
<1> SUFFICES ASSUME MemoryOK, [Next]_vars PROVE MemoryOK'
  OBVIOUS
<1>0. Towers /\ Towers'
  BY NextTowers DEF MemoryOK
<1>1. CASE UNCHANGED vars
  BY <1>0, <1>1 DEF vars, MemoryOK, Held, Bottom
<1>2. CASE InsertLate
  <2>1. /\ pending # <<>> /\ pending' = <<>> /\ memory' = memory /\ levels = <<>>
        /\ Bottom' = Linked(Bottom, pending[1], pending[2])
    BY <1>0, <1>2, InsertTowers DEF InsertLate, MemoryOK
  <2>2. Accounted([k \in {pending[1]} |-> pending[2]], memory)
    BY <2>1 DEF MemoryOK, Held
  <2>3. Linked(Bottom, pending[1], pending[2]) = [k \in {pending[1]} |-> pending[2]]
    <3>1. DOMAIN Bottom = {}
      BY <2>1 DEF Bottom
    <3> QED
      BY <3>1 DEF Linked
  <2>4. Accounted(Bottom', memory')
    BY ONLY <2>1, <2>2, <2>3
  <2>5. levels' # <<>>
    BY <1>0, <2>1, PutFills
  <2>6. Accounted(Held, memory)'
    BY <2>1, <2>4 DEF Held, Accounted
  <2> QED
    BY <1>0, <2>1, <2>5, <2>6 DEF MemoryOK
<1>3. ASSUME NEW key \in Keys, NEW s \in Strings, Keep(key, s)
      PROVE  MemoryOK'
  <2>1. pending = <<>> /\ pending' = <<>> /\ memory' = Grown(memory, key, s) /\ ~Overflows(key, s)
    BY <1>3 DEF Keep
  <2>2. Bottom' = Linked(Bottom, key, s)
    BY <1>0, <1>3, KeepTowers
  <2>3. Accounted(Bottom, memory)
    BY <2>1, BottomAccounted
  <2>4. Accounted(Linked(Bottom, key, s), Grown(memory, key, s))
    BY <1>0, <2>1, <2>3, KeepAccounts
  <2>5. Accounted(Bottom', memory')
    BY ONLY <2>1, <2>2, <2>4
  <2>6. levels' # <<>>
    BY <1>0, <2>2, PutFills
  <2>7. Accounted(Held, memory)'
    BY <2>1, <2>5 DEF Held, Accounted
  <2> QED
    BY <1>0, <2>1, <2>6, <2>7 DEF MemoryOK
<1>4. ASSUME NEW key \in Keys, NEW s \in Strings, Flush(key, s)
      PROVE  MemoryOK'
  <2>1. levels' = <<>> /\ pending' = <<key, s>> /\ pending' # <<>> /\ memory' = Grown(ClearedSize, key, s)
    BY <1>4 DEF Flush, clear
  <2>2. Accounted([k \in {key} |-> s], Grown(ClearedSize, key, s))
    BY <1>0, FlushAccounts
  <2>3. Held' = [k \in {key} |-> s]
    BY <2>1 DEF Held
  <2>4. Accounted(Held', memory')
    BY ONLY <2>1, <2>2, <2>3
  <2>5. Accounted(Held, memory)'
    BY <2>4 DEF Accounted
  <2> QED
    BY <1>0, <2>1, <2>5 DEF MemoryOK
<1> QED
  BY <1>1, <1>2, <1>3, <1>4 DEF Next

LEMMA InitMemory == Init => MemoryOK
<1> SUFFICES ASSUME Init PROVE MemoryOK
  OBVIOUS
<1>1. levels = <<>> /\ pending = <<>> /\ memory = InitialSize
  BY DEF Init
<1> QED
  BY <1>1, InitTowers DEF MemoryOK

(* An overflow is never that of an empty list.                             *)
LEMMA OverflowHasPairs ==
  ASSUME MemoryOK, Overflowing
  PROVE  levels # <<>> /\ DOMAIN Bottom # {} /\ Accounted(Bottom, memory)
<1>1. PICK key \in Keys, s \in Strings : Overflows(key, s)
  BY DEF Overflowing
<1>2. pending = <<>> /\ Towers
  BY DEF Overflowing, MemoryOK
<1>3. Accounted(Bottom, memory)
  BY <1>2, BottomAccounted
<1>4. ASSUME levels = <<>>
      PROVE  FALSE
  <2>1. memory = InitialSize /\ DOMAIN Bottom = {}
    BY <1>2, <1>4 DEF MemoryOK, Bottom
  <2>2. key \notin DOMAIN Bottom
    BY ONLY <2>1
  <2>3. Growth(key, s) = Bytes(s)
    BY <1>2, <2>2, GrowthOfPair
  <2>4. /\ InitialSize \in Nat /\ Bytes(s) \in Nat /\ TableSize \in Nat /\ Word \in Nat
        /\ InitialSize + Bytes(s) <= TableSize /\ TableSize + Bytes(s) < Word
    BY ONLY SizesOfStrings, s \in Strings
  <2>5. PICK a \in Nat, w \in Nat \ {0} : a = InitialSize + Bytes(s) /\ w = Word /\ a < w /\ a <= TableSize
    BY ONLY <2>4
  <2>6. a \in 0 .. (w - 1) /\ a = w * 0 + a
    BY ONLY <2>5, a \in Nat, w \in Nat \ {0}
  <2>7. a % w = a
    BY ONLY <2>6, WrapUnique, w \in Nat \ {0}, 0 \in Int
  <2>8. Grown(memory, key, s) = a
    BY ONLY <2>1, <2>3, <2>5, <2>7 DEF Grown
  <2> QED
    BY ONLY <1>1, <2>4, <2>5, <2>8, a \in Nat DEF Overflows
<1>5. DOMAIN Bottom # {}
  <2>1. Len(levels) \in 1 .. Len(levels) /\ Bottom = levels[Len(levels)] /\ DOMAIN levels[Len(levels)] # {}
    BY <1>2, <1>4, TowersAreLists DEF Bottom, Last, ListsOK
  <2> QED
    BY <2>1
<1> QED
  BY <1>3, <1>4, <1>5

(* The pairs that have room, when the list may miss the bytes of one pair: *)
(* the index of as many finds room.                                        *)
LEMMA PairsHaveRoom ==
  ASSUME NEW kv \in Lists, DOMAIN kv # {}, NEW size, Accounted(kv, size)
  PROVE  LET n == Cardinality(DOMAIN kv)
         IN n \in Nat \ {0} /\ DataArea(n) + n <= TableSize /\ DataArea(n) \in Nat /\ InitialSize <= DataArea(n)
<1>1. IsFiniteSet(DOMAIN kv) /\ Cardinality(DOMAIN kv) \in Nat /\ kv \in [DOMAIN kv -> Strings]
  BY ListsAreFinite, ListType
<1>2. PICK n \in Nat : n = Cardinality(DOMAIN kv) /\ n # 0
  BY <1>1, FS_EmptySet
<1> DEFINE Costs == {Bytes(kv[k]) : k \in DOMAIN kv}
<1>3. PICK m \in Costs : \A x \in Costs : m <= x
  <2>1. Costs \in SUBSET Nat /\ Costs # {}
    <3>1. \A k \in DOMAIN kv : kv[k] \in Strings /\ Bytes(kv[k]) \in Nat
      BY <1>1, SizesOfStrings
    <3> QED
      BY ONLY <3>1, DOMAIN kv # {}
  <2> HIDE DEF Costs
  <2> QED
    BY <2>1, LeastElement
<1>4. PICK s \in Strings : m = Bytes(s)
  BY <1>1
<1>5. m \in Nat \ {0} /\ m = PairSize + Size[s]
  BY ONLY <1>4, SizesOfStrings, s \in Strings
<1>6. PICK w : w = Weights(kv) /\ DOMAIN w = DOMAIN kv /\ \A k \in DOMAIN kv : w[k] = Bytes(kv[k])
  BY WeightsOfList
<1>7. PICK f : \E base \in Int :
        /\ IsSum(f, w)
        /\ base >= 0 \/ \E o \in Strings : base + Bytes(o) >= 0
        /\ f[DOMAIN kv] + base <= TableSize
        /\ size = Wrapped(f[DOMAIN kv] + base)
  BY ONLY <1>6, Accounted(kv, size) DEF Accounted
<1>8. PICK base \in Int :
        /\ IsSum(f, w)
        /\ base >= 0 \/ \E o \in Strings : base + Bytes(o) >= 0
        /\ f[DOMAIN kv] + base <= TableSize
  BY ONLY <1>7
<1>9. m * n <= f[DOMAIN kv] /\ f[DOMAIN kv] \in Nat
  <2>1. \A k \in DOMAIN w : w[k] \in Nat /\ m <= w[k]
    BY <1>3, <1>6, <1>8 DEF IsSum
  <2>2. IsFiniteSet(DOMAIN w) /\ IsSum(f, w) /\ m \in Nat
    BY <1>1, <1>5, <1>6, <1>8
  <2>3. m * Cardinality(DOMAIN w) <= f[DOMAIN w] /\ f[DOMAIN w] \in Nat
    BY ONLY <2>1, <2>2, SumAtLeast
  <2> QED
    BY ONLY <1>2, <1>6, <2>3
<1>10. PICK o \in Strings : base + Bytes(o) >= 0
  <2>1. CASE base >= 0
    <3>1. Bytes(s) \in Nat
      BY ONLY SizesOfStrings, s \in Strings
    <3> QED
      BY ONLY <1>8, <2>1, <3>1, s \in Strings
  <2> QED
    BY ONLY <1>8, <2>1
<1>11. PICK big \in Nat : big = Bytes(o) /\ big = PairSize + Size[o]
  BY ONLY SizesOfStrings, o \in Strings
<1>12. PICK top \in Nat : top = TableSize + big /\ m * n <= top
  <2>1. TableSize \in Nat
    BY ONLY SizesOfStrings
  <2>2. PICK sum \in Nat, product \in Nat : sum = f[DOMAIN kv] /\ product = m * n
    BY ONLY <1>5, <1>9, n \in Nat
  <2>3. TableSize + big \in Nat /\ product <= TableSize + big
    BY ONLY <1>8, <1>9, <1>10, <1>11, <2>1, <2>2, big \in Nat, base \in Int
  <2> QED
    BY ONLY <2>2, <2>3
<1>13. PICK most \in Nat : most = top \div m /\ n <= most
  <2>1. top \div m \in Nat /\ (top \div m < n <=> top < m * n)
    BY ONLY <1>5, QuotientBound, Division, top \in Nat, n \in Nat
  <2>2. m * n \in Nat
    BY ONLY <1>5, n \in Nat
  <2> QED
    BY ONLY <1>12, <2>1, <2>2, top \in Nat, n \in Nat
<1>14. DataArea(most) + most <= TableSize
  <2>1. \A x \in Strings :
          LET mo == (TableSize + PairSize + Size[x]) \div (PairSize + Size[s])
          IN DataArea(mo) + mo <= TableSize
    BY SkipListAssumption
  <2>2. DataArea((TableSize + PairSize + Size[o]) \div (PairSize + Size[s]))
          + (TableSize + PairSize + Size[o]) \div (PairSize + Size[s]) <= TableSize
    BY ONLY <2>1, o \in Strings
  <2>3. TableSize + PairSize + Size[o] = top
    <3>1. TableSize \in Nat /\ PairSize \in Nat /\ Size[o] \in Nat
      BY ONLY SizesOfStrings, o \in Strings
    <3> QED
      BY ONLY <1>11, <1>12, <3>1
  <2> QED
    BY ONLY <1>5, <1>13, <2>2, <2>3
<1>15. InitialSize \in Nat /\ EntrySize \in Nat /\ TableSize \in Nat
  BY ONLY SizesOfStrings
<1>16. n * EntrySize <= most * EntrySize /\ n * EntrySize \in Nat /\ most * EntrySize \in Nat
  BY ONLY <1>13, <1>15, n \in Nat, most \in Nat
<1> QED
  BY ONLY <1>2, <1>13, <1>14, <1>15, <1>16, n \in Nat, most \in Nat DEF DataArea

-----------------------------------------------------------------------------
(***************************************************************************)
(* Where a table's pairs lie.                                              *)
(***************************************************************************)
LEMMA CurLengths ==
  ASSUME NEW n \in Nat, NEW counted \in [1 .. n -> Nat], NEW before, before = curlength(counted)
  PROVE  /\ DOMAIN before = 1 .. (n + 1) /\ before[1] = 0
         /\ \A i \in 1 .. (n + 1) : before[i] \in Nat
         /\ \A i \in 1 .. n : before[i + 1] = before[i] + counted[i] + 1
<1> DEFINE step == [i \in 1 .. n |-> [x \in Nat |-> x + counted[i] + 1]]
           Course(f) == f = [i \in 1 .. (n + 1) |-> IF i = 1 THEN 0 ELSE f[i - 1] + counted[i - 1] + 1]
<1>1. Len(counted) = n
  OBVIOUS
<1>2. AreSteps(step, n, Nat)
  BY DEF AreSteps
<1>3. PICK g : IsCourse(g, 0, step, n, Nat)
  <2> HIDE DEF step
  <2> QED
    BY ONLY <1>2, n \in Nat, 0 \in Nat, LoopHasCourse
<1>4. g[0] = 0 /\ \A i \in 1 .. n : g[i - 1] \in Nat /\ g[i] = g[i - 1] + counted[i] + 1
  <2>1. g \in [0 .. n -> Nat] /\ g[0] = 0 /\ \A i \in 1 .. n : g[i] = step[i][g[i - 1]]
    BY ONLY <1>3 DEF IsCourse
  <2>2. \A i \in 1 .. n : i - 1 \in 0 .. n
    OBVIOUS
  <2> QED
    BY <2>1, <2>2
<1> HIDE DEF step
<1> DEFINE f == [i \in 1 .. (n + 1) |-> g[i - 1]]
<1>5. Course(f)
  <2>1. ASSUME NEW i \in 1 .. (n + 1)
        PROVE  g[i - 1] = IF i = 1 THEN 0 ELSE f[i - 1] + counted[i - 1] + 1
    <3>1. CASE i = 1
      BY <1>4, <3>1
    <3>2. CASE i # 1
      <4>1. i - 1 \in 1 .. n /\ i - 1 \in 1 .. (n + 1)
        BY <3>2
      <4> QED
        BY <1>4, <3>2, <4>1
    <3> QED
      BY <3>1, <3>2
  <2> QED
    BY <2>1
<1>6. PICK h : h = (CHOOSE x : Course(x)) /\ Course(h)
  <2> HIDE DEF Course, f
  <2> QED
    BY ONLY <1>5
<1>7. h = before
  BY <1>1, <1>6 DEF curlength
<1>8. DOMAIN h = 1 .. (n + 1) /\ h[1] = 0 /\ \A i \in 1 .. n : h[i + 1] = h[i] + counted[i] + 1
  <2>1. h = [i \in 1 .. (n + 1) |-> IF i = 1 THEN 0 ELSE h[i - 1] + counted[i - 1] + 1]
    BY <1>6
  <2>2. DOMAIN h = 1 .. (n + 1) /\ \A i \in 1 .. (n + 1) : h[i] = IF i = 1 THEN 0 ELSE h[i - 1] + counted[i - 1] + 1
    BY ONLY <2>1
  <2>3. \A i \in 1 .. n : i + 1 \in 1 .. (n + 1) /\ i + 1 # 1 /\ (i + 1) - 1 = i
    OBVIOUS
  <2> QED
    BY ONLY <2>2, <2>3, 1 \in 1 .. (n + 1)
<1> HIDE DEF Course
<1> DEFINE Bad == {i \in 1 .. (n + 1) : h[i] \notin Nat}
<1>9. Bad = {}
  <2> SUFFICES ASSUME Bad # {} PROVE FALSE
    OBVIOUS
  <2>1. PICK m \in Bad : \A j \in Bad : m <= j
    <3>1. Bad \in SUBSET Nat
      OBVIOUS
    <3> HIDE DEF Bad
    <3> QED
      BY <3>1, LeastElement
  <2>2. m # 1
    BY <1>8, <2>1
  <2>3. PICK i \in 1 .. n : i = m - 1 /\ m = i + 1 /\ i \notin Bad
    BY <2>1, <2>2
  <2>4. h[i] \in Nat /\ counted[i] \in Nat
    BY <2>3
  <2>5. h[m] \in Nat
    BY ONLY <1>8, <2>3, <2>4
  <2> QED
    BY <2>1, <2>5
<1> QED
  BY <1>7, <1>8, <1>9

IsKeys(keys, kv, n) ==
  /\ n \in Nat /\ n = Cardinality(DOMAIN kv)
  /\ keys \in [1 .. n -> DOMAIN kv] /\ Len(keys) = n /\ DOMAIN keys = 1 .. n
  /\ \A i, j \in 1 .. n : i < j => keys[i] < keys[j]
  /\ \A k \in DOMAIN kv : \E i \in 1 .. n : keys[i] = k

LEMMA KeysOfList ==
  ASSUME NEW kv \in Lists
  PROVE  \E n : IsKeys(KeysInOrder(kv), kv, n)
<1>1. DOMAIN kv \in SUBSET Nat /\ IsFiniteSet(DOMAIN kv)
  <2>1. DOMAIN kv \in SUBSET Keys
    BY ListType
  <2> QED
    BY <2>1, KeysAreNumbers, ListsAreFinite
<1>2. PICK row : row = InOrder(kv, DOMAIN kv) /\ IsRow(row, kv, DOMAIN kv)
  BY ONLY <1>1, Ordering
<1>3. PICK n \in Nat : n = Len(row) /\ n = Cardinality(DOMAIN kv) /\ DOMAIN row = 1 .. n
  BY ONLY <1>2 DEF IsRow
<1>4. PICK keys : keys = [i \in DOMAIN row |-> row[i][1]]
  OBVIOUS
<1>5. DOMAIN keys = 1 .. n /\ keys = [i \in 1 .. n |-> keys[i]] /\ \A i \in 1 .. n : keys[i] = row[i][1]
  BY ONLY <1>3, <1>4
<1>6. /\ \A i \in 1 .. n : keys[i] \in DOMAIN kv
      /\ \A i, j \in 1 .. n : i < j => keys[i] < keys[j]
      /\ \A k \in DOMAIN kv : \E i \in 1 .. n : keys[i] = k
  BY ONLY <1>2, <1>3, <1>5 DEF IsRow
<1>7. keys \in [1 .. n -> DOMAIN kv]
  BY ONLY <1>5, <1>6
<1>8. Len(keys) = n
  BY ONLY <1>7, n \in Nat
<1>9. KeysInOrder(kv) = keys
  BY ONLY <1>2, <1>4 DEF KeysInOrder
<1> QED
  BY ONLY <1>3, <1>5, <1>6, <1>7, <1>8, <1>9, n \in Nat DEF IsKeys

(* The end that traverse rounds up to stays in the slot.                   *)
LEMMA RoundsUp ==
  ASSUME NEW at \in Nat, at <= TableSize
  PROVE  RoundUp(at) <= TableSize /\ at <= RoundUp(at) /\ RoundUp(at) \in Nat
<1>1. /\ TableSize \in Nat \ {0} /\ PageSize \in Nat \ {0} /\ TableSize % PageSize = 0
  BY LayoutAssumption
<1>2. CASE at % TableSize = 0
  BY <1>1, <1>2 DEF RoundUp
<1>3. CASE at % TableSize # 0
  <2>1. at # TableSize
    <3>1. TableSize = TableSize * 1 + 0 /\ 0 \in 0 .. (TableSize - 1) /\ 1 \in Int
      BY ONLY <1>1
    <3>2. TableSize % TableSize = 0
      BY ONLY <1>1, <3>1, WrapUnique
    <3> QED
      BY ONLY <1>3, <3>2
  <2>2. PICK q \in Nat : TableSize = PageSize * q
    <3>1. TableSize \div PageSize \in Nat /\ TableSize = PageSize * (TableSize \div PageSize) + (TableSize % PageSize)
      BY ONLY <1>1, Division
    <3>2. PICK q \in Nat : q = TableSize \div PageSize
      BY ONLY <3>1
    <3>3. PageSize * q \in Nat
      BY ONLY <1>1, q \in Nat
    <3> QED
      BY ONLY <1>1, <3>1, <3>2, <3>3
  <2>3. PICK p \in Nat, r \in 0 .. (PageSize - 1) : p = at \div PageSize /\ at = PageSize * p + r
    BY ONLY <1>1, Division, at \in Nat
  <2>4. p < q
    <3>1. at < PageSize * q
      BY ONLY <1>1, <2>1, <2>2, at \in Nat, at <= TableSize
    <3> QED
      BY ONLY <1>1, <2>3, <3>1, QuotientBound, at \in Nat, q \in Nat
  <2>5. PageSize * p + PageSize <= PageSize * q /\ PageSize * p \in Nat /\ PageSize * q \in Nat
    BY ONLY <1>1, <2>4, ProductOrder, ProductType, p \in Nat, q \in Nat
  <2>6. (p + 1) * PageSize = PageSize * p + PageSize
    BY ONLY <1>1, p \in Nat
  <2>7. RoundUp(at) = (p + 1) * PageSize
    BY ONLY <1>3, <2>3 DEF RoundUp
  <2> QED
    BY ONLY <1>1, <2>2, <2>3, <2>5, <2>6, <2>7
<1> QED
  BY <1>2, <1>3

LEMMA LayoutOfKeys ==
  ASSUME NEW keys, NEW pairNum, NEW counted, NEW lo, NEW hi, NEW t, t = Layout(keys, pairNum, counted, lo, hi),
         NEW before, before = curlength(counted)
  PROVE  /\ t.lo = lo /\ t.hi = hi /\ t.key = keys /\ t.pairNum = pairNum
         /\ t.filter = UNION {Bits[keys[i]] : i \in DOMAIN keys}
         /\ \A i \in DOMAIN keys : t.offset[i] = DataArea(pairNum) + before[i]
         /\ t.dataLength = before[Len(keys) + 1]
BY DEF Layout

(* The moved values count a byte each.                                     *)
LEMMA MemtableLayout ==
  ASSUME NEW kv \in Lists, NEW lo, NEW hi, NEW n, NEW keys, keys = KeysInOrder(kv), IsKeys(keys, kv, n),
         NEW t, t = FromMemtable(kv, n, lo, hi)
  PROVE  /\ t.lo = lo /\ t.hi = hi /\ t.key = keys /\ t.pairNum = n /\ t.dataLength = n
         /\ t.filter = UNION {Bits[keys[i]] : i \in 1 .. n}
         /\ \A i \in 1 .. n : t.offset[i] = DataArea(n) + (i - 1)
<1>1. n \in Nat /\ DOMAIN keys = 1 .. n /\ Len(keys) = n
  BY DEF IsKeys
<1>2. PICK counted : counted = [i \in DOMAIN keys |-> SizeAfterMove(kv[keys[i]])]
  OBVIOUS
<1>3. counted \in [1 .. n -> Nat] /\ \A i \in 1 .. n : counted[i] = 0
  BY ONLY <1>1, <1>2 DEF SizeAfterMove
<1>4. PICK before : before = curlength(counted)
  OBVIOUS
<1>5. /\ DOMAIN before = 1 .. (n + 1) /\ before[1] = 0
      /\ \A i \in 1 .. (n + 1) : before[i] \in Nat
      /\ \A i \in 1 .. n : before[i + 1] = before[i] + counted[i] + 1
  <2>1. n \in Nat /\ counted \in [1 .. n -> Nat]
    BY ONLY <1>1, <1>3
  <2> QED
    BY ONLY <1>4, <2>1, CurLengths
<1> DEFINE Bad == {i \in 1 .. (n + 1) : before[i] # i - 1}
<1>6. Bad = {}
  <2> SUFFICES ASSUME Bad # {} PROVE FALSE
    OBVIOUS
  <2>1. PICK m \in Bad : \A j \in Bad : m <= j
    <3>1. Bad \in SUBSET Nat
      BY ONLY <1>1
    <3> HIDE DEF Bad
    <3> QED
      BY ONLY <3>1, LeastElement, Bad # {}
  <2>2. m # 1 /\ m \in 1 .. (n + 1)
    BY ONLY <1>1, <1>5, <2>1
  <2>3. PICK i \in 1 .. n : i = m - 1 /\ m = i + 1 /\ i \notin Bad
    BY ONLY <1>1, <2>1, <2>2
  <2>4. before[i] = i - 1 /\ counted[i] = 0
    BY ONLY <1>1, <1>3, <2>3
  <2>5. before[m] = m - 1
    BY ONLY <1>1, <1>5, <2>3, <2>4
  <2> QED
    BY ONLY <2>1, <2>5
<1>7. \A i \in 1 .. (n + 1) : before[i] = i - 1
  BY ONLY <1>6
<1>8. t = Layout(keys, n, counted, lo, hi)
  BY ONLY <1>2, t = FromMemtable(kv, n, lo, hi), keys = KeysInOrder(kv) DEF FromMemtable
<1>9. /\ t.lo = lo /\ t.hi = hi /\ t.key = keys /\ t.pairNum = n
      /\ t.filter = UNION {Bits[keys[i]] : i \in DOMAIN keys}
      /\ \A i \in DOMAIN keys : t.offset[i] = DataArea(n) + before[i]
      /\ t.dataLength = before[Len(keys) + 1]
  BY ONLY <1>4, <1>8, LayoutOfKeys
<1>10. n + 1 \in 1 .. (n + 1) /\ (n + 1) - 1 = n /\ \A i \in 1 .. n : i \in 1 .. (n + 1)
  BY ONLY <1>1
<1> QED
  BY ONLY <1>1, <1>7, <1>9, <1>10

LEMMA SlotFromInv == MemoryOK => InsideSlot
<1> SUFFICES ASSUME MemoryOK, Overflowing,
                    NEW t, t = FromMemtable(Bottom, count, minKey, maxKey)
             PROVE  /\ levels # <<>>
                    /\ \A i \in DOMAIN t.key : InitialSize <= ValueStart(t, i) /\ ValueEnd(t, i) <= TableSize
                    /\ ReadEnd(t) <= TableSize
  BY DEF InsideSlot
<1>1. levels # <<>> /\ DOMAIN Bottom # {} /\ Accounted(Bottom, memory) /\ Towers
  BY OverflowHasPairs DEF MemoryOK
<1>2. PICK kv \in Lists : kv = Bottom
  BY <1>1, BottomType
<1>3. PICK n, keys : keys = KeysInOrder(kv) /\ IsKeys(keys, kv, n)
  BY KeysOfList
<1>4. n \in Nat /\ DOMAIN keys = 1 .. n /\ Len(keys) = n /\ n = Cardinality(DOMAIN kv)
  BY ONLY <1>3 DEF IsKeys
<1>5. t = FromMemtable(kv, n, minKey, maxKey)
  BY <1>1, <1>2, <1>4 DEF Towers
<1>6. /\ t.key = keys /\ t.pairNum = n /\ t.dataLength = n
      /\ \A i \in 1 .. n : t.offset[i] = DataArea(n) + (i - 1)
  BY ONLY <1>3, <1>5, kv \in Lists, MemtableLayout
<1>7. n # 0 /\ DataArea(n) + n <= TableSize /\ DataArea(n) \in Nat /\ InitialSize <= DataArea(n)
  BY ONLY <1>1, <1>2, <1>4, kv \in Lists, PairsHaveRoom
<1>8. TableSize \in Nat /\ InitialSize \in Nat
  BY ONLY SizesOfStrings
<1>9. PICK area \in Nat : area = DataArea(n) /\ area + n <= TableSize /\ InitialSize <= area
  BY ONLY <1>7
<1>10. ASSUME NEW i \in 1 .. n
       PROVE  InitialSize <= ValueStart(t, i) /\ ValueEnd(t, i) <= TableSize
  <2>1. ValueStart(t, i) = area + (i - 1)
    BY ONLY <1>6, <1>9, i \in 1 .. n DEF ValueStart
  <2>2. CASE i = n
    <3>1. ValueEnd(t, i) = area + n
      BY ONLY <1>4, <1>6, <1>9, <2>2 DEF ValueEnd
    <3>2. InitialSize <= area + (i - 1)
      BY ONLY <1>4, <1>8, <1>9, area \in Nat, i \in 1 .. n
    <3> QED
      BY ONLY <1>9, <2>1, <3>1, <3>2
  <2>3. CASE i # n
    <3>1. i + 1 \in 1 .. n /\ (i + 1) - 1 = i
      BY ONLY <1>4, <2>3, i \in 1 .. n
    <3>2. ValueEnd(t, i) = area + i
      BY ONLY <1>4, <1>6, <1>9, <2>3, <3>1 DEF ValueEnd
    <3>3. PICK room \in Nat, start \in Nat, m \in Nat :
            room = TableSize /\ start = InitialSize /\ m = n /\ area + m <= room /\ start <= area
      BY ONLY <1>4, <1>8, <1>9
    <3>4. i \in Nat /\ 1 <= i /\ i <= m
      BY ONLY <1>4, <3>3, i \in 1 .. n
    <3>5. start <= area + (i - 1) /\ area + i <= room
      BY ONLY <3>3, <3>4, area \in Nat
    <3> QED
      BY ONLY <2>1, <3>2, <3>3, <3>5
  <2> QED
    BY ONLY <2>2, <2>3
<1>11. ReadEnd(t) <= TableSize
  <2>1. area + n \in Nat
    BY ONLY <1>4, area \in Nat
  <2>2. RoundUp(area + n) <= TableSize
    BY ONLY <1>9, <2>1, RoundsUp
  <2> QED
    BY ONLY <1>6, <1>9, <2>2 DEF ReadEnd
<1> QED
  BY <1>1, <1>4, <1>6, <1>10, <1>11

LEMMA MemoryInvariance == Spec => []MemoryOK
BY InitMemory, NextMemory, PTL DEF Spec

(* A memtable that is flushed has pairs, and its table fits its slot,      *)
(* index, values and what traverse reads: also when clear has left memory  *)
(* the bytes of a pair short, put has wrapped it around, and the values    *)
(* count one byte each because Table's constructor has moved them.         *)
THEOREM TablesFitTheirSlot == Spec => []InsideSlot
BY MemoryInvariance, SlotFromInv, PTL

-----------------------------------------------------------------------------
(***************************************************************************)
(* The binary search of the index.                                         *)
(***************************************************************************)
Sorted(keys, n) ==
  /\ n \in Nat /\ keys \in [1 .. n -> Nat]
  /\ \A i, j \in 1 .. n : i < j => keys[i] < keys[j]

(* x is what a search between low and high is to return.                   *)
Finds(x, keys, target, low, high) ==
  \/ x \in low .. high /\ keys[x] = target
  \/ x = 0 /\ \A j \in low .. high : keys[j] # target

Middle(low, high) == (high - low) \div 2 + low

LEMMA MiddleInside ==
  ASSUME NEW low \in Nat, NEW high \in Nat, low <= high
  PROVE  Middle(low, high) \in low .. high /\ Middle(low, high) \in Nat
<1>1. PICK d \in Nat : d = high - low
  OBVIOUS
<1>2. d \div 2 \in 0 .. d
  BY ONLY d \in Nat
<1> QED
  BY <1>1, <1>2 DEF Middle

LEMMA FindsOne ==
  ASSUME NEW n, NEW keys, Sorted(keys, n), NEW target, NEW low \in 1 .. (n + 1), NEW high \in 0 .. n,
         NEW x, Finds(x, keys, target, low, high), NEW y, Finds(y, keys, target, low, high)
  PROVE  x = y
<1>1. n \in Nat /\ keys \in [1 .. n -> Nat] /\ \A i, j \in 1 .. n : i < j => keys[i] < keys[j]
  BY DEF Sorted
<1>2. low .. high \in SUBSET (1 .. n)
  BY <1>1
<1>3. \A i, j \in 1 .. n : keys[i] = keys[j] => i = j
  <2> TAKE i, j \in 1 .. n
  <2>1. keys[i] \in Nat /\ keys[j] \in Nat /\ i \in Nat /\ j \in Nat
    BY <1>1
  <2>2. (i < j => keys[i] < keys[j]) /\ (j < i => keys[j] < keys[i])
    BY <1>1
  <2> QED
    BY ONLY <2>1, <2>2
<1> QED
  BY <1>2, <1>3 DEF Finds

(* A step of the search halves the window.                                 *)
LEMMA FindsHalf ==
  ASSUME NEW n, NEW keys, Sorted(keys, n), NEW target \in Nat,
         NEW low \in 1 .. (n + 1), NEW high \in 0 .. n, low <= high,
         NEW mid, mid = Middle(low, high)
  PROVE  /\ mid \in 1 .. n /\ mid \in low .. high /\ mid - 1 \in 0 .. n /\ mid + 1 \in 1 .. (n + 1)
         /\ keys[mid] = target => Finds(mid, keys, target, low, high)
         /\ keys[mid] > target => \A x : Finds(x, keys, target, low, mid - 1) => Finds(x, keys, target, low, high)
         /\ ~(keys[mid] > target) /\ keys[mid] # target
              => \A x : Finds(x, keys, target, mid + 1, high) => Finds(x, keys, target, low, high)
<1>1. n \in Nat /\ keys \in [1 .. n -> Nat] /\ \A i, j \in 1 .. n : i < j => keys[i] < keys[j]
  BY DEF Sorted
<1>2. low \in Nat /\ high \in Nat /\ 1 <= low /\ high <= n
  BY <1>1
<1>3. mid \in low .. high /\ mid \in Nat
  BY ONLY <1>2, low <= high, mid = Middle(low, high), MiddleInside
<1>4. mid \in 1 .. n /\ mid - 1 \in 0 .. n /\ mid + 1 \in 1 .. (n + 1)
  BY ONLY <1>1, <1>2, <1>3
<1>5. \A j \in low .. high : j \in 1 .. n /\ keys[j] \in Nat
  BY ONLY <1>1, <1>2
<1>6. ASSUME keys[mid] > target, NEW x, Finds(x, keys, target, low, mid - 1)
      PROVE  Finds(x, keys, target, low, high)
  <2>1. \A j \in low .. high : j \in low .. (mid - 1) \/ keys[j] # target
    <3> TAKE j \in low .. high
    <3>1. j = mid \/ mid < j \/ j \in low .. (mid - 1)
      BY ONLY <1>2, <1>3, j \in low .. high
    <3>2. mid < j => keys[mid] < keys[j]
      BY <1>1, <1>4, <1>5
    <3>3. keys[mid] \in Nat /\ keys[j] \in Nat
      BY <1>1, <1>4, <1>5
    <3> QED
      BY ONLY <1>6, <3>1, <3>2, <3>3, target \in Nat
  <2>2. low .. (mid - 1) \in SUBSET (low .. high)
    BY ONLY <1>2, <1>3
  <2> QED
    BY ONLY <1>6, <2>1, <2>2 DEF Finds
<1>7. ASSUME ~(keys[mid] > target), keys[mid] # target, NEW x, Finds(x, keys, target, mid + 1, high)
      PROVE  Finds(x, keys, target, low, high)
  <2>1. \A j \in low .. high : j \in (mid + 1) .. high \/ keys[j] # target
    <3> TAKE j \in low .. high
    <3>1. j = mid \/ j < mid \/ j \in (mid + 1) .. high
      BY ONLY <1>2, <1>3, j \in low .. high
    <3>2. j < mid => keys[j] < keys[mid]
      BY <1>1, <1>4, <1>5
    <3>3. keys[mid] \in Nat /\ keys[j] \in Nat
      BY <1>1, <1>4, <1>5
    <3> QED
      BY ONLY <1>7, <3>1, <3>2, <3>3, target \in Nat
  <2>2. (mid + 1) .. high \in SUBSET (low .. high)
    BY ONLY <1>2, <1>3
  <2> QED
    BY ONLY <1>7, <2>1, <2>2 DEF Finds
<1>8. keys[mid] = target => Finds(mid, keys, target, low, high)
  BY ONLY <1>3 DEF Finds
<1> QED
  BY ONLY <1>3, <1>4, <1>6, <1>7, <1>8

Windows(n) == (1 .. (n + 1)) \X (0 .. n)

SearchCourse(f, keys, target, n) ==
  f = [window \in Windows(n) |->
         LET low == window[1]
             high == window[2]
             mid == (high - low) \div 2 + low
         IN IF low > high THEN 0
            ELSE IF keys[mid] = target THEN mid
            ELSE IF keys[mid] > target THEN f[<<low, mid - 1>>]
            ELSE f[<<mid + 1, high>>]]

LEMMA SearchStep ==
  ASSUME NEW n \in Nat, NEW keys, NEW target, NEW f, SearchCourse(f, keys, target, n),
         NEW low \in 1 .. (n + 1), NEW high \in 0 .. n, NEW mid, mid = Middle(low, high)
  PROVE  f[<<low, high>>] = IF low > high THEN 0
                            ELSE IF keys[mid] = target THEN mid
                            ELSE IF keys[mid] > target THEN f[<<low, mid - 1>>]
                            ELSE f[<<mid + 1, high>>]
<1>1. PICK window : window = <<low, high>> /\ window \in Windows(n) /\ window[1] = low /\ window[2] = high
  <2>1. PICK window : window = <<low, high>>
    OBVIOUS
  <2>2. window \in Windows(n) /\ window[1] = low /\ window[2] = high
    BY <2>1 DEF Windows
  <2> QED
    BY ONLY <2>1, <2>2
<1>2. f[window] = LET lo == window[1]
                      hi == window[2]
                      mi == (hi - lo) \div 2 + lo
                  IN IF lo > hi THEN 0
                     ELSE IF keys[mi] = target THEN mi
                     ELSE IF keys[mi] > target THEN f[<<lo, mi - 1>>]
                     ELSE f[<<mi + 1, hi>>]
  BY ONLY <1>1, SearchCourse(f, keys, target, n) DEF SearchCourse
<1> QED
  BY ONLY <1>1, <1>2, mid = Middle(low, high) DEF Middle

Span(low, high) == IF low > high THEN 0 ELSE (high - low) + 1

(* Whatever function takes these steps finds the key.                      *)
LEMMA SearchCourseFinds ==
  ASSUME NEW n, NEW keys, Sorted(keys, n), NEW target \in Nat, NEW f, SearchCourse(f, keys, target, n)
  PROVE  \A low \in 1 .. (n + 1), high \in 0 .. n : Finds(f[<<low, high>>], keys, target, low, high)
<1>1. n \in Nat
  BY DEF Sorted
<1> DEFINE Bad == {d \in Nat : \E low \in 1 .. (n + 1), high \in 0 .. n :
                     Span(low, high) = d /\ ~Finds(f[<<low, high>>], keys, target, low, high)}
<1>2. \A low \in 1 .. (n + 1), high \in 0 .. n : Span(low, high) \in Nat
  BY <1>1 DEF Span
<1> TAKE first \in 1 .. (n + 1), last \in 0 .. n
<1> SUFFICES ASSUME ~Finds(f[<<first, last>>], keys, target, first, last)
             PROVE  FALSE
  OBVIOUS
<1>3. PICK d \in Bad : \A e \in Bad : d <= e
  <2>1. Bad \in SUBSET Nat /\ Span(first, last) \in Bad
    BY <1>2
  <2> HIDE DEF Bad
  <2> QED
    BY <2>1, LeastElement
<1>4. PICK low \in 1 .. (n + 1), high \in 0 .. n :
        Span(low, high) = d /\ ~Finds(f[<<low, high>>], keys, target, low, high)
  BY <1>3
<1>5. low \in Nat /\ high \in Nat /\ d \in Nat
  BY <1>1, <1>3
<1>6. PICK mid : mid = Middle(low, high)
  OBVIOUS
<1>7. f[<<low, high>>] = IF low > high THEN 0
                         ELSE IF keys[mid] = target THEN mid
                         ELSE IF keys[mid] > target THEN f[<<low, mid - 1>>]
                         ELSE f[<<mid + 1, high>>]
  BY <1>1, <1>6, SearchStep
<1>8. ~(low > high)
  <2> SUFFICES ASSUME low > high PROVE FALSE
    OBVIOUS
  <2>1. low .. high = {} /\ f[<<low, high>>] = 0
    BY ONLY <1>5, <1>7, low > high
  <2> QED
    BY ONLY <1>4, <2>1 DEF Finds
<1>9. low <= high
  BY ONLY <1>5, <1>8
<1>10. /\ mid \in 1 .. n /\ mid \in low .. high /\ mid - 1 \in 0 .. n /\ mid + 1 \in 1 .. (n + 1)
       /\ keys[mid] = target => Finds(mid, keys, target, low, high)
       /\ keys[mid] > target => \A x : Finds(x, keys, target, low, mid - 1) => Finds(x, keys, target, low, high)
       /\ ~(keys[mid] > target) /\ keys[mid] # target
            => \A x : Finds(x, keys, target, mid + 1, high) => Finds(x, keys, target, low, high)
  BY <1>6, <1>9, FindsHalf
<1>11. Finds(f[<<low, mid - 1>>], keys, target, low, mid - 1)
  <2>1. PICK e \in Nat : e = Span(low, mid - 1) /\ e < d
    <3>1. Span(low, mid - 1) \in Nat /\ Span(low, mid - 1) < Span(low, high)
      BY <1>5, <1>9, <1>10 DEF Span
    <3> QED
      BY <1>4, <3>1
  <2>2. e \notin Bad
    <3> HIDE DEF Bad
    <3> QED
      BY ONLY <1>3, <1>5, <2>1, e \in Nat
  <2> QED
    BY <1>10, <2>1, <2>2
<1>12. Finds(f[<<mid + 1, high>>], keys, target, mid + 1, high)
  <2>1. PICK e \in Nat : e = Span(mid + 1, high) /\ e < d
    <3>1. Span(mid + 1, high) \in Nat /\ Span(mid + 1, high) < Span(low, high)
      BY <1>5, <1>9, <1>10 DEF Span
    <3> QED
      BY <1>4, <3>1
  <2>2. e \notin Bad
    <3> HIDE DEF Bad
    <3> QED
      BY ONLY <1>3, <1>5, <2>1, e \in Nat
  <2> QED
    BY <1>10, <2>1, <2>2
<1> QED
  BY ONLY <1>4, <1>7, <1>8, <1>10, <1>11, <1>12

LEMMA SearchHasCourse ==
  ASSUME NEW n, NEW keys, Sorted(keys, n), NEW target \in Nat
  PROVE  \E f : SearchCourse(f, keys, target, n)
<1>1. n \in Nat /\ keys \in [1 .. n -> Nat]
  BY DEF Sorted
<1> DEFINE Found(low, high) == CHOOSE x : Finds(x, keys, target, low, high)
           f == [window \in Windows(n) |-> Found(window[1], window[2])]
<1>2. \A low \in 1 .. (n + 1), high \in 0 .. n : Finds(Found(low, high), keys, target, low, high)
  <2> TAKE low \in 1 .. (n + 1), high \in 0 .. n
  <2>1. \E x : Finds(x, keys, target, low, high)
    <3>1. CASE \E j \in low .. high : keys[j] = target
      BY ONLY <3>1 DEF Finds
    <3>2. CASE ~\E j \in low .. high : keys[j] = target
      BY ONLY <3>2 DEF Finds
    <3> QED
      BY ONLY <3>1, <3>2
  <2> QED
    BY <2>1
<1> HIDE DEF Found
<1>3. \A low \in 1 .. (n + 1), high \in 0 .. n : f[<<low, high>>] = Found(low, high)
  BY DEF Windows
<1> HIDE DEF f
<1>4. ASSUME NEW low \in 1 .. (n + 1), NEW high \in 0 .. n, NEW mid, mid = Middle(low, high)
      PROVE  f[<<low, high>>] = IF low > high THEN 0
                                ELSE IF keys[mid] = target THEN mid
                                ELSE IF keys[mid] > target THEN f[<<low, mid - 1>>]
                                ELSE f[<<mid + 1, high>>]
  <2>1. Finds(f[<<low, high>>], keys, target, low, high)
    BY <1>2, <1>3
  <2>2. \A x : Finds(x, keys, target, low, high) => f[<<low, high>>] = x
    BY <2>1, FindsOne
  <2>3. CASE low > high
    <3>1. low .. high = {}
      BY <1>1, <2>3
    <3> QED
      BY ONLY <2>1, <2>3, <3>1 DEF Finds
  <2>4. CASE ~(low > high)
    <3>1. low <= high
      BY <1>1, <2>4
    <3>2. /\ mid \in 1 .. n /\ mid \in low .. high /\ mid - 1 \in 0 .. n /\ mid + 1 \in 1 .. (n + 1)
          /\ keys[mid] = target => Finds(mid, keys, target, low, high)
          /\ keys[mid] > target => \A x : Finds(x, keys, target, low, mid - 1) => Finds(x, keys, target, low, high)
          /\ ~(keys[mid] > target) /\ keys[mid] # target
               => \A x : Finds(x, keys, target, mid + 1, high) => Finds(x, keys, target, low, high)
      BY <1>4, <3>1, FindsHalf
    <3>3. Finds(f[<<low, mid - 1>>], keys, target, low, mid - 1)
      BY <1>2, <1>3, <3>2
    <3>4. Finds(f[<<mid + 1, high>>], keys, target, mid + 1, high)
      BY <1>2, <1>3, <3>2
    <3> QED
      BY ONLY <2>2, <2>4, <3>2, <3>3, <3>4
  <2> QED
    BY <2>3, <2>4
<1>5. SearchCourse(f, keys, target, n)
  <2>1. f = [window \in Windows(n) |-> f[window]]
    BY DEF f
  <2>2. ASSUME NEW window \in Windows(n)
        PROVE  f[window] = LET low == window[1]
                               high == window[2]
                               mid == (high - low) \div 2 + low
                           IN IF low > high THEN 0
                              ELSE IF keys[mid] = target THEN mid
                              ELSE IF keys[mid] > target THEN f[<<low, mid - 1>>]
                              ELSE f[<<mid + 1, high>>]
    <3>1. PICK low \in 1 .. (n + 1), high \in 0 .. n : window = <<low, high>> /\ window[1] = low /\ window[2] = high
      BY DEF Windows
    <3>2. PICK mid : mid = Middle(low, high)
      OBVIOUS
    <3>3. mid = (high - low) \div 2 + low
      BY ONLY <3>2 DEF Middle
    <3>4. f[<<low, high>>] = IF low > high THEN 0
                             ELSE IF keys[mid] = target THEN mid
                             ELSE IF keys[mid] > target THEN f[<<low, mid - 1>>]
                             ELSE f[<<mid + 1, high>>]
      BY <1>4, <3>2
    <3> QED
      BY ONLY <3>1, <3>3, <3>4
  <2> QED
    BY ONLY <2>1, <2>2 DEF SearchCourse
<1> QED
  BY <1>5

LEMMA SearchFinds ==
  ASSUME NEW t, NEW n, NEW keys, t.key = keys, Len(keys) = n, Sorted(keys, n), NEW target \in Nat
  PROVE  Finds(Search(t, target), keys, target, 1, n)
<1>1. n \in Nat
  BY DEF Sorted
<1>2. PICK f : f = (CHOOSE g : SearchCourse(g, keys, target, n)) /\ SearchCourse(f, keys, target, n)
  <2>1. \E f : SearchCourse(f, keys, target, n)
    BY SearchHasCourse
  <2> QED
    BY ONLY <2>1
<1>3. Search(t, target) = f[<<1, n>>]
  BY <1>2 DEF Search, SearchCourse, Windows
<1>4. 1 \in 1 .. (n + 1) /\ n \in 0 .. n
  BY ONLY <1>1
<1>5. \A low \in 1 .. (n + 1), high \in 0 .. n : Finds(f[<<low, high>>], keys, target, low, high)
  <2>1. SearchCourse(f, keys, target, n)
    BY ONLY <1>2
  <2> QED
    BY ONLY <2>1, SearchCourseFinds, Sorted(keys, n), target \in Nat
<1> QED
  BY ONLY <1>3, <1>4, <1>5

(* The bounds and the filter leave no key of the table out.                *)
LEMMA ProbeFinds ==
  ASSUME NEW t, NEW n, NEW keys, t.key = keys, Len(keys) = n, DOMAIN keys = 1 .. n, Sorted(keys, n),
         \A i \in 1 .. n : Bits[keys[i]] \subseteq t.filter,
         \A i \in 1 .. n : t.lo <= keys[i] /\ keys[i] <= t.hi,
         n = 0 \/ (t.lo \in Nat /\ t.hi \in Nat),
         NEW target \in Nat
  PROVE  LET i == Probe(t, target)
         IN IF target \in Range(t.key) THEN i # 0 /\ t.key[i] = target ELSE i = 0
<1>1. PICK i : i = Search(t, target) /\ Finds(i, keys, target, 1, n)
  BY SearchFinds
<1>2. n \in Nat /\ keys \in [1 .. n -> Nat]
  BY DEF Sorted
<1>3. target \in Range(t.key) <=> \E j \in 1 .. n : keys[j] = target
  BY DEF Range
<1>4. CASE \E j \in 1 .. n : keys[j] = target
  <2>1. PICK j \in 1 .. n : keys[j] = target
    BY <1>4
  <2>2. t.lo <= target /\ target <= t.hi /\ t.lo \in Nat /\ t.hi \in Nat
    BY <1>2, <2>1
  <2>3. ~(target < t.lo) /\ ~(target > t.hi)
    BY ONLY <2>2, target \in Nat
  <2>4. Bits[target] \subseteq t.filter
    BY <2>1
  <2>5. Probe(t, target) = i
    BY ONLY <1>1, <2>3, <2>4 DEF Probe
  <2>6. i # 0 /\ keys[i] = target
    <3>1. i \in 1 .. n /\ keys[i] = target
      BY ONLY <1>1, <2>1 DEF Finds
    <3> QED
      BY ONLY <1>2, <3>1
  <2> QED
    BY <1>3, <2>1, <2>5, <2>6
<1>5. CASE ~\E j \in 1 .. n : keys[j] = target
  <2>1. i = 0
    BY ONLY <1>1, <1>5 DEF Finds
  <2>2. Probe(t, target) = 0
    BY ONLY <1>1, <2>1 DEF Probe
  <2> QED
    BY <1>3, <1>5, <2>2
<1> QED
  BY <1>4, <1>5

-----------------------------------------------------------------------------
(* The bounds the list keeps are those of its keys.                        *)
BoundsOK ==
  /\ Towers
  /\ \A k \in DOMAIN Bottom : minKey <= k /\ k <= maxKey

LEMMA PutBounds ==
  ASSUME BoundsOK, NEW key \in Keys, NEW s, put(key, s), Bottom' = Linked(Bottom, key, s)
  PROVE  \A k \in DOMAIN Bottom' : minKey' <= k /\ k <= maxKey'
<1>1. minKey \in Nat /\ maxKey \in Nat /\ key \in Nat
  BY KeysAreNumbers DEF BoundsOK, Towers, TypeOK
<1>2. /\ Min({minKey, key}) \in Nat /\ Min({minKey, key}) <= minKey /\ Min({minKey, key}) <= key
      /\ Max({maxKey, key}) \in Nat /\ Max({maxKey, key}) >= maxKey /\ Max({maxKey, key}) >= key
  BY ONLY <1>1, LeastOfTwo
<1>3. PICK lo \in Nat, hi \in Nat : lo = minKey' /\ hi = maxKey' /\ lo <= minKey /\ lo <= key /\ hi >= maxKey /\ hi >= key
  BY <1>2 DEF put
<1>4. DOMAIN Bottom' = DOMAIN Bottom \cup {key}
  BY DEF Linked
<1>5. DOMAIN Bottom \in SUBSET Nat
  <2>1. DOMAIN Bottom \in SUBSET Keys
    BY BottomType, ListType DEF BoundsOK
  <2> QED
    BY ONLY <2>1, KeysAreNumbers
<1>6. ASSUME NEW k \in DOMAIN Bottom'
      PROVE  lo <= k /\ k <= hi
  <2>1. CASE k = key
    BY ONLY <1>1, <1>3, <2>1
  <2>2. CASE k # key
    <3>1. k \in DOMAIN Bottom /\ k \in Nat
      BY <1>4, <1>5, <2>2
    <3>2. minKey <= k /\ k <= maxKey
      BY <3>1 DEF BoundsOK
    <3> QED
      BY ONLY <1>1, <1>3, <3>1, <3>2
  <2> QED
    BY ONLY <2>1, <2>2
<1> QED
  BY <1>3, <1>6

LEMMA NextBounds == BoundsOK /\ [Next]_vars => BoundsOK'
<1> SUFFICES ASSUME BoundsOK, [Next]_vars PROVE BoundsOK'
  OBVIOUS
<1>0. Towers /\ Towers'
  BY NextTowers DEF BoundsOK
<1>1. CASE UNCHANGED vars
  BY <1>0, <1>1 DEF vars, BoundsOK, Bottom
<1>2. CASE InsertLate
  <2>1. /\ pending[1] \in Keys /\ Bottom' = Linked(Bottom, pending[1], pending[2])
        /\ put(pending[1], pending[2])
    BY <1>0, <1>2, InsertTowers DEF InsertLate
  <2> QED
    BY <1>0, <2>1, PutBounds DEF BoundsOK
<1>3. ASSUME NEW key \in Keys, NEW s \in Strings, Keep(key, s)
      PROVE  BoundsOK'
  <2>1. put(key, s) /\ Bottom' = Linked(Bottom, key, s)
    BY <1>0, <1>3, KeepTowers DEF Keep
  <2> QED
    BY <1>0, <2>1, PutBounds DEF BoundsOK
<1>4. ASSUME NEW key \in Keys, NEW s \in Strings, Flush(key, s)
      PROVE  BoundsOK'
  <2>1. DOMAIN Bottom' = {}
    BY <1>0, <1>4, FlushTowers
  <2> QED
    BY <1>0, <2>1 DEF BoundsOK
<1> QED
  BY <1>1, <1>2, <1>3, <1>4 DEF Next

LEMMA InitBounds == Init => BoundsOK
<1> SUFFICES ASSUME Init PROVE BoundsOK
  OBVIOUS
<1>1. DOMAIN Bottom = {}
  BY DEF Init, Bottom
<1> QED
  BY <1>1, InitTowers DEF BoundsOK

-----------------------------------------------------------------------------
(***************************************************************************)
(* The tables that the pairs of the list are cut into.  The table of a key *)
(* is the number of openers up to it.                                      *)
(***************************************************************************)
UpTo(O, k) == {f \in O : f <= k}
Begins(O, k) == Cardinality(UpTo(O, k))

LEMMA BeginsGrow ==
  ASSUME NEW O \in SUBSET Nat, IsFiniteSet(O), NEW j \in Nat, NEW k \in Nat, j <= k
  PROVE  /\ Begins(O, j) \in Nat /\ Begins(O, k) \in Nat /\ Begins(O, j) <= Begins(O, k)
         /\ k \in O /\ j < k => Begins(O, j) # Begins(O, k)
<1>1. UpTo(O, j) \in SUBSET UpTo(O, k)
  <2> SUFFICES ASSUME NEW f \in O, f <= j PROVE f <= k
    BY DEF UpTo
  <2>1. f \in Nat
    OBVIOUS
  <2> QED
    BY ONLY <2>1, f <= j, j <= k, j \in Nat, k \in Nat
<1>2. IsFiniteSet(UpTo(O, j)) /\ IsFiniteSet(UpTo(O, k))
  <2>1. UpTo(O, j) \in SUBSET O /\ UpTo(O, k) \in SUBSET O
    BY DEF UpTo
  <2> QED
    BY ONLY <2>1, FS_Subset, IsFiniteSet(O)
<1>3. k \in O /\ j < k => UpTo(O, j) # UpTo(O, k)
  <2> SUFFICES ASSUME k \in O, j < k PROVE k \in UpTo(O, k) /\ k \notin UpTo(O, j)
    OBVIOUS
  <2> QED
    BY ONLY k \in O, j < k, k \in Nat, j \in Nat DEF UpTo
<1>4. /\ Cardinality(UpTo(O, j)) \in Nat /\ Cardinality(UpTo(O, k)) \in Nat
      /\ Cardinality(UpTo(O, j)) <= Cardinality(UpTo(O, k))
      /\ UpTo(O, j) # UpTo(O, k) => Cardinality(UpTo(O, j)) # Cardinality(UpTo(O, k))
  BY ONLY <1>1, <1>2, FS_Subset, FS_CardinalityType
<1> QED
  BY ONLY <1>3, <1>4 DEF Begins

(* The first key of a table has opened it.                                 *)
LEMMA FirstOpens ==
  ASSUME NEW D \in SUBSET Nat, IsFiniteSet(D), NEW O \in SUBSET D, NEW k \in D, Begins(O, k) # 0,
         \A j \in D : Begins(O, j) = Begins(O, k) => k <= j
  PROVE  k \in O
<1>1. UpTo(O, k) \in SUBSET Nat /\ IsFiniteSet(UpTo(O, k)) /\ UpTo(O, k) \in SUBSET O
  <2>1. UpTo(O, k) \in SUBSET O
    BY DEF UpTo
  <2>2. IsFiniteSet(O)
    BY FS_Subset
  <2> QED
    BY <2>1, <2>2, FS_Subset
<1>2. UpTo(O, k) # {}
  BY FS_EmptySet DEF Begins
<1>3. PICK g : g \in UpTo(O, k) /\ \A m \in UpTo(O, k) : m <= g
  BY ONLY <1>1, <1>2, GreatestNumber
<1>4. g \in O /\ g <= k /\ g \in Nat /\ k \in Nat /\ g \in D
  BY <1>1, <1>3 DEF UpTo
<1>5. UpTo(O, g) = UpTo(O, k)
  <2> SUFFICES ASSUME NEW f \in O PROVE f <= g <=> f <= k
    BY DEF UpTo
  <2>1. f \in Nat /\ (f <= k => f <= g)
    BY <1>3 DEF UpTo
  <2> QED
    BY ONLY <1>4, <2>1
<1>6. k <= g
  BY <1>4, <1>5 DEF Begins
<1> QED
  BY ONLY <1>4, <1>6

(* The keys of a table are neighbours, and the later ones have not opened  *)
(* it.                                                                     *)
LEMMA NextFollows ==
  ASSUME NEW w, NEW start, NEW room, Packs(w, start, room), NEW O \in SUBSET DOMAIN w,
         NEW j \in DOMAIN w, NEW k \in DOMAIN w, j < k, Begins(O, j) = Begins(O, k),
         \A d \in DOMAIN w : Begins(O, d) = Begins(O, k) => d <= j \/ k <= d
  PROVE  k \notin O /\ Before(w, k) # {} /\ Max(Before(w, k)) = j
<1>1. /\ DOMAIN w \in SUBSET Nat /\ IsFiniteSet(DOMAIN w) /\ j \in Nat /\ k \in Nat
      /\ O \in SUBSET Nat /\ IsFiniteSet(O)
  BY FS_Subset DEF Packs
<1>2. j <= k
  BY ONLY <1>1, j < k
<1>3. k \notin O
  BY ONLY <1>1, <1>2, BeginsGrow, j < k, Begins(O, j) = Begins(O, k)
<1>4. j \in Before(w, k)
  BY DEF Before
<1>5. PICK b : b = Max(Before(w, k)) /\ b \in DOMAIN w /\ b < k /\ \A d \in DOMAIN w : d < k => d <= b
  BY <1>4, KeyBefore
<1>6. b \in Nat /\ j <= b /\ b <= k
  BY <1>1, <1>5
<1>7. Begins(O, j) <= Begins(O, b) /\ Begins(O, b) <= Begins(O, k)
      /\ Begins(O, j) \in Nat /\ Begins(O, b) \in Nat /\ Begins(O, k) \in Nat
  BY ONLY <1>1, <1>6, BeginsGrow
<1>8. Begins(O, b) = Begins(O, k)
  BY ONLY <1>7, Begins(O, j) = Begins(O, k)
<1>9. b <= j
  <2>1. b <= j \/ k <= b
    BY <1>5, <1>8
  <2> QED
    BY ONLY <1>1, <1>5, <1>6, <2>1
<1>10. b = j
  BY ONLY <1>1, <1>6, <1>9
<1> QED
  BY ONLY <1>3, <1>4, <1>5, <1>10

(* No pair fills a table beyond its room.                                  *)
LEMMA FillsRoom ==
  ASSUME NEW w, NEW start, NEW room, Packs(w, start, room)
  PROVE  \A k \in DOMAIN w : Fill(w, start, room)[k] \in Nat /\ Fill(w, start, room)[k] <= room
<1>1. PICK fill : fill = Fill(w, start, room)
  OBVIOUS
<1> DEFINE Bad == {k \in DOMAIN w : ~(fill[k] \in Nat /\ fill[k] <= room)}
<1> SUFFICES ASSUME Bad # {} PROVE FALSE
  BY <1>1
<1>2. PICK k \in Bad : \A j \in Bad : k <= j
  <2>1. Bad \in SUBSET Nat
    BY DEF Packs
  <2> HIDE DEF Bad
  <2> QED
    BY <2>1, LeastElement
<1>3. /\ k \in DOMAIN w /\ k \in Nat /\ w[k] \in Nat /\ start + w[k] <= room /\ start \in Nat /\ room \in Nat
  BY <1>2 DEF Packs
<1>4. PICK bytes : bytes = IF Before(w, k) = {} THEN start ELSE fill[Max(Before(w, k))]
  OBVIOUS
<1>5. fill[k] = IF bytes + w[k] > room THEN start + w[k] ELSE bytes + w[k]
  BY <1>1, <1>3, <1>4, Filling
<1>6. bytes \in Nat
  <2>1. CASE Before(w, k) = {}
    BY ONLY <1>3, <1>4, <2>1
  <2>2. CASE Before(w, k) # {}
    <3>1. PICK b : b = Max(Before(w, k)) /\ b \in DOMAIN w /\ b < k
      BY <1>3, <2>2, KeyBefore
    <3>2. b \in Nat /\ b \notin Bad
      <4>1. b \in Nat
        BY <3>1 DEF Packs
      <4> HIDE DEF Bad
      <4> QED
        BY ONLY <1>2, <1>3, <3>1, <4>1
    <3> QED
      BY <1>4, <2>2, <3>1, <3>2
  <2> QED
    BY ONLY <2>1, <2>2
<1>7. fill[k] \in Nat /\ fill[k] <= room
  BY ONLY <1>3, <1>5, <1>6
<1> QED
  BY <1>2, <1>7

(* What the keys of a table fill.                                          *)
LEMMA PartFills ==
  ASSUME NEW w, NEW start, NEW room, Packs(w, start, room), NEW O, O = Opening(w, start, room),
         NEW n \in Nat, NEW keys \in [1 .. n -> DOMAIN w], NEW p \in Nat \ {0},
         \A i, j \in 1 .. n : i < j => keys[i] < keys[j],
         \A k \in DOMAIN w : Begins(O, k) = p <=> \E i \in 1 .. n : keys[i] = k
  PROVE  \A i \in 1 .. n :
           LET fill == Fill(w, start, room)
           IN fill[keys[i]] = (IF i = 1 THEN start ELSE fill[keys[i - 1]]) + w[keys[i]]
<1>1. PICK fill : fill = Fill(w, start, room)
  OBVIOUS
<1>2. /\ DOMAIN w \in SUBSET Nat /\ IsFiniteSet(DOMAIN w) /\ start \in Nat /\ room \in Nat
      /\ \A k \in DOMAIN w : w[k] \in Nat /\ start + w[k] <= room /\ fill[k] \in Nat
  BY <1>1, FillsRoom DEF Packs
<1>3. /\ O \in SUBSET DOMAIN w
      /\ \A k \in DOMAIN w : k \in O <=> Before(w, k) = {} \/ fill[Max(Before(w, k))] + w[k] > room
  BY <1>1 DEF Opening
<1>4. \A k \in DOMAIN w : fill[k] = LET bytes == IF Before(w, k) = {} THEN start ELSE fill[Max(Before(w, k))]
                                    IN IF bytes + w[k] > room THEN start + w[k] ELSE bytes + w[k]
  BY <1>1, Filling
<1> SUFFICES ASSUME NEW i \in 1 .. n
             PROVE  fill[keys[i]] = (IF i = 1 THEN start ELSE fill[keys[i - 1]]) + w[keys[i]]
  BY <1>1
<1>5. PICK k \in DOMAIN w : k = keys[i] /\ Begins(O, k) = p /\ k \in Nat /\ w[k] \in Nat /\ start + w[k] <= room
  BY <1>2
<1>6. CASE i = 1
  <2>1. \A j \in DOMAIN w : Begins(O, j) = Begins(O, k) => k <= j
    <3> SUFFICES ASSUME NEW j \in DOMAIN w, Begins(O, j) = p PROVE k <= j
      BY <1>5
    <3>1. PICK m \in 1 .. n : keys[m] = j
      OBVIOUS
    <3>2. j \in Nat
      BY <1>2
    <3>3. m = 1 \/ 1 < m
      OBVIOUS
    <3>4. 1 < m => k < j
      BY <1>5, <1>6, <3>1
    <3> QED
      BY <1>5, <1>6, <3>1, <3>2, <3>3, <3>4
  <2>2. k \in O
    BY ONLY <1>2, <1>3, <1>5, <2>1, FirstOpens, p \in Nat \ {0}
  <2>3. fill[k] = start + w[k]
    <3>1. CASE Before(w, k) = {}
      BY ONLY <1>2, <1>4, <1>5, <3>1
    <3>2. CASE Before(w, k) # {}
      BY ONLY <1>3, <1>4, <1>5, <2>2, <3>2
    <3> QED
      BY ONLY <3>1, <3>2
  <2> QED
    BY ONLY <1>5, <1>6, <2>3
<1>7. CASE i # 1
  <2>1. PICK m \in 1 .. n : m = i - 1 /\ m < i
    BY <1>7
  <2>2. PICK j \in DOMAIN w : j = keys[m] /\ j < k /\ Begins(O, j) = p /\ j \in Nat
    BY <1>2, <1>5, <2>1
  <2>3. \A d \in DOMAIN w : Begins(O, d) = Begins(O, k) => d <= j \/ k <= d
    <3> SUFFICES ASSUME NEW d \in DOMAIN w, Begins(O, d) = p PROVE d <= j \/ k <= d
      BY <1>5
    <3>1. PICK l \in 1 .. n : keys[l] = d
      OBVIOUS
    <3>2. l = m \/ l < m \/ l = i \/ i < l
      BY ONLY <2>1, n \in Nat, l \in 1 .. n, i \in 1 .. n, m \in 1 .. n
    <3>3. (l < m => d < j) /\ (i < l => k < d)
      BY <1>5, <2>2, <3>1
    <3>4. d \in Nat
      BY <1>2
    <3> QED
      BY <1>5, <2>2, <3>1, <3>2, <3>3, <3>4
  <2>4. k \notin O /\ Before(w, k) # {} /\ Max(Before(w, k)) = j
    <3>1. Begins(O, j) = Begins(O, k)
      BY ONLY <1>5, <2>2
    <3> QED
      BY ONLY <1>3, <1>5, <2>2, <2>3, <3>1, NextFollows, Packs(w, start, room)
  <2>5. fill[k] = fill[j] + w[k]
    <3>1. ~(fill[j] + w[k] > room)
      BY ONLY <1>3, <1>5, <2>4
    <3> QED
      BY ONLY <1>4, <1>5, <2>4, <3>1
  <2> QED
    BY ONLY <1>5, <1>7, <2>1, <2>2, <2>5
<1> QED
  BY <1>6, <1>7

LEMMA CurLengthsGrow ==
  ASSUME NEW n \in Nat, NEW before, \A i \in 1 .. (n + 1) : before[i] \in Nat,
         \A i \in 1 .. n : before[i] <= before[i + 1]
  PROVE  \A i \in 1 .. (n + 1) : before[i] <= before[n + 1]
<1> DEFINE Bad == {d \in 0 .. n : ~(before[(n + 1) - d] <= before[n + 1])}
<1>1. Bad = {}
  <2> SUFFICES ASSUME Bad # {} PROVE FALSE
    OBVIOUS
  <2>1. PICK d \in Bad : \A e \in Bad : d <= e
    <3>1. Bad \in SUBSET Nat
      OBVIOUS
    <3> HIDE DEF Bad
    <3> QED
      BY <3>1, LeastElement
  <2>2. before[n + 1] \in Nat /\ d \in Nat
    BY <2>1
  <2>3. d # 0
    BY <2>1, <2>2
  <2>4. PICK e \in 0 .. n : e = d - 1 /\ e \notin Bad
    BY <2>1, <2>3
  <2>5. PICK i \in 1 .. n : i = (n + 1) - d /\ i + 1 = (n + 1) - e
    BY <2>1, <2>3, <2>4
  <2>6. before[i + 1] <= before[n + 1]
    BY <2>4, <2>5
  <2>7. before[i] \in Nat /\ before[i + 1] \in Nat /\ before[i] <= before[i + 1]
    BY <2>5
  <2>8. before[i] <= before[n + 1]
    BY ONLY <2>2, <2>6, <2>7
  <2> QED
    BY <2>1, <2>5, <2>8
<1> TAKE i \in 1 .. (n + 1)
<1>2. (n + 1) - i \in 0 .. n /\ (n + 1) - ((n + 1) - i) = i
  OBVIOUS
<1> QED
  BY <1>1, <1>2

LEMMA ListPacks ==
  ASSUME NEW kv \in Lists
  PROVE  Packs(Weights(kv), InitialSize, TableSize)
<1>1. DOMAIN kv \in SUBSET Nat /\ IsFiniteSet(DOMAIN kv) /\ kv \in [DOMAIN kv -> Strings]
  <2>1. DOMAIN kv \in SUBSET Keys /\ kv \in [DOMAIN kv -> Strings]
    BY ListType
  <2> QED
    BY <2>1, KeysAreNumbers, ListsAreFinite
<1>2. PICK w : w = Weights(kv)
  OBVIOUS
<1>3. DOMAIN w = DOMAIN kv /\ \A k \in DOMAIN kv : w[k] = Bytes(kv[k])
  BY ONLY <1>2, WeightsOfList
<1>4. \A k \in DOMAIN kv : kv[k] \in Strings
  BY ONLY <1>1
<1>5. InitialSize \in Nat /\ TableSize \in Nat
  BY ONLY SizesOfStrings
<1>6. \A k \in DOMAIN w : w[k] \in Nat /\ InitialSize + w[k] <= TableSize
  <2> TAKE k \in DOMAIN w
  <2>1. PICK s \in Strings : w[k] = Bytes(s)
    BY ONLY <1>3, <1>4
  <2> QED
    BY ONLY <2>1, SizesOfStrings, s \in Strings
<1> QED
  BY ONLY <1>1, <1>2, <1>3, <1>5, <1>6 DEF Packs

(* A table of n pairs of kv with those keys, whose bytes in front of each  *)
(* are before.                                                             *)
IsTable(t, kv, n, keys, before) ==
  /\ kv \in Lists /\ IsKeys(keys, kv, n)
  /\ t.key = keys /\ t.pairNum = n /\ t.lo = keys[1] /\ t.hi = Last(keys)
  /\ t.filter = UNION {Bits[keys[i]] : i \in 1 .. n}
  /\ \A i \in 1 .. n : t.offset[i] = DataArea(n) + before[i]
  /\ t.dataLength = before[n + 1]
  /\ before[1] = 0 /\ \A i \in 1 .. (n + 1) : before[i] \in Nat
  /\ \A i \in 1 .. n : Size[kv[keys[i]]] \in Nat /\ before[i + 1] = before[i] + Size[kv[keys[i]]] + 1

LEMMA PairsLayout ==
  ASSUME NEW kv \in Lists, NEW t, t = FromPairs(kv)
  PROVE  \E n, keys, before : IsTable(t, kv, n, keys, before)
<1>1. PICK n, keys : keys = KeysInOrder(kv) /\ IsKeys(keys, kv, n)
  BY KeysOfList
<1>2. n \in Nat /\ keys \in [1 .. n -> DOMAIN kv] /\ DOMAIN keys = 1 .. n /\ Len(keys) = n
  BY ONLY <1>1 DEF IsKeys
<1>3. PICK counted : counted = [i \in DOMAIN keys |-> Size[kv[keys[i]]]]
  OBVIOUS
<1>4. ASSUME NEW i \in 1 .. n
      PROVE  Size[kv[keys[i]]] \in Nat
  <2>1. kv \in [DOMAIN kv -> Strings]
    BY ListType
  <2>2. PICK s \in Strings : s = kv[keys[i]]
    BY ONLY <1>2, <2>1, i \in 1 .. n
  <2>3. Size[s] \in Nat
    BY ONLY SizesOfStrings, s \in Strings
  <2> QED
    BY ONLY <2>2, <2>3
<1>5. n \in Nat /\ counted \in [1 .. n -> Nat] /\ \A i \in 1 .. n : counted[i] = Size[kv[keys[i]]]
  BY ONLY <1>2, <1>3, <1>4
<1>6. PICK before : before = curlength(counted)
  OBVIOUS
<1>7. /\ DOMAIN before = 1 .. (n + 1) /\ before[1] = 0
      /\ \A i \in 1 .. (n + 1) : before[i] \in Nat
      /\ \A i \in 1 .. n : before[i + 1] = before[i] + counted[i] + 1
  <2>1. n \in Nat /\ counted \in [1 .. n -> Nat]
    BY ONLY <1>5
  <2> QED
    BY ONLY <1>6, <2>1, CurLengths
<1>8. t = Layout(keys, n, counted, keys[1], Last(keys))
  BY ONLY <1>1, <1>2, <1>3, t = FromPairs(kv) DEF FromPairs
<1>9. /\ t.lo = keys[1] /\ t.hi = Last(keys) /\ t.key = keys /\ t.pairNum = n
      /\ t.filter = UNION {Bits[keys[i]] : i \in DOMAIN keys}
      /\ \A i \in DOMAIN keys : t.offset[i] = DataArea(n) + before[i]
      /\ t.dataLength = before[Len(keys) + 1]
  BY ONLY <1>6, <1>8, LayoutOfKeys
<1>10. \A i \in 1 .. n : Size[kv[keys[i]]] \in Nat /\ before[i + 1] = before[i] + Size[kv[keys[i]]] + 1
  BY ONLY <1>4, <1>5, <1>7
<1>11. IsTable(t, kv, n, keys, before)
  BY ONLY <1>1, <1>2, <1>7, <1>9, <1>10, kv \in Lists DEF IsTable
<1> QED
  BY ONLY <1>11

LEMMA PartIsList ==
  ASSUME NEW all \in Lists, NEW part \in Range(Split(all))
  PROVE  /\ [k \in part |-> all[k]] \in Lists
         /\ \E p \in Nat \ {0} : part = {k \in DOMAIN all : Begins(Opens(all), k) = p}
         /\ DOMAIN all # {}
<1>1. PICK O : O = Opens(all)
  OBVIOUS
<1>2. O \in SUBSET DOMAIN all /\ IsFiniteSet(O) /\ Cardinality(O) \in Nat
  <2>1. O \in SUBSET DOMAIN Weights(all)
    BY ONLY <1>1 DEF Opens, Opening
  <2>2. DOMAIN Weights(all) = DOMAIN all
    BY ONLY WeightsOfList
  <2>3. IsFiniteSet(DOMAIN all)
    BY ONLY ListsAreFinite, all \in Lists
  <2> QED
    BY ONLY <2>1, <2>2, <2>3, FS_Subset, FS_CardinalityType
<1>3. PICK split : split = Split(all)
  OBVIOUS
<1>4. split = [i \in 1 .. Cardinality(O) |-> {k \in DOMAIN all : Begins(O, k) = i}]
  BY ONLY <1>1, <1>3 DEF Split, Begins, UpTo
<1>5. PICK p \in 1 .. Cardinality(O) : part = {k \in DOMAIN all : Begins(O, k) = p}
  <2>1. part \in Range(split)
    BY ONLY <1>3, part \in Range(Split(all))
  <2>2. PICK p \in DOMAIN split : part = split[p]
    BY ONLY <2>1 DEF Range
  <2> QED
    BY ONLY <1>4, <2>2
<1>6. p \in Nat \ {0} /\ Cardinality(O) # 0
  BY ONLY <1>2, <1>5
<1>7. DOMAIN all # {}
  <2>1. O # {}
    BY ONLY <1>6, FS_EmptySet
  <2> QED
    BY ONLY <1>2, <2>1
<1>8. [k \in part |-> all[k]] \in Lists
  <2>1. DOMAIN all \in SUBSET Keys /\ all \in [DOMAIN all -> Strings]
    BY ONLY ListType, all \in Lists
  <2>2. part \in SUBSET DOMAIN all
    BY ONLY <1>5
  <2>3. part \in SUBSET Keys /\ [k \in part |-> all[k]] \in [part -> Strings]
    BY ONLY <2>1, <2>2
  <2> QED
    BY ONLY <2>3 DEF Lists
<1> QED
  BY ONLY <1>1, <1>5, <1>6, <1>7, <1>8

(* The index and the values of a table that pairs are cut into fit it.     *)
LEMMA PartFits ==
  ASSUME NEW all \in Lists, NEW part \in Range(Split(all)), NEW kv, kv = [k \in part |-> all[k]],
         NEW t, NEW n, NEW keys, NEW before, IsTable(t, kv, n, keys, before)
  PROVE  DataArea(n) + before[n + 1] <= TableSize
<1>1. PICK p \in Nat \ {0} : part = {k \in DOMAIN all : Begins(Opens(all), k) = p}
  <2>1. /\ [k \in part |-> all[k]] \in Lists
        /\ \E p \in Nat \ {0} : part = {k \in DOMAIN all : Begins(Opens(all), k) = p}
        /\ DOMAIN all # {}
    BY ONLY PartIsList, all \in Lists, part \in Range(Split(all))
  <2> QED
    BY ONLY <2>1
<1>2. PICK w, O, fill : /\ w = Weights(all) /\ O = Opening(w, InitialSize, TableSize)
                        /\ fill = Fill(w, InitialSize, TableSize)
  OBVIOUS
<1>3. /\ Packs(w, InitialSize, TableSize) /\ O = Opens(all)
      /\ DOMAIN w = DOMAIN all /\ \A k \in DOMAIN all : w[k] = Bytes(all[k])
  BY ONLY <1>2, ListPacks, WeightsOfList, all \in Lists DEF Opens
<1>4. /\ n \in Nat /\ keys \in [1 .. n -> DOMAIN kv]
      /\ \A i, j \in 1 .. n : i < j => keys[i] < keys[j]
      /\ \A k \in DOMAIN kv : \E i \in 1 .. n : keys[i] = k
  BY DEF IsTable, IsKeys
<1>5. DOMAIN kv = part /\ part \in SUBSET DOMAIN all /\ \A k \in part : kv[k] = all[k]
  BY ONLY <1>1, kv = [k \in part |-> all[k]]
<1>6. keys \in [1 .. n -> DOMAIN w]
  BY ONLY <1>3, <1>4, <1>5
<1>7. \A k \in DOMAIN w : Begins(O, k) = p <=> \E i \in 1 .. n : keys[i] = k
  BY ONLY <1>1, <1>3, <1>4, <1>5
<1>8. \A i \in 1 .. n : fill[keys[i]] = (IF i = 1 THEN InitialSize ELSE fill[keys[i - 1]]) + w[keys[i]]
  <2>1. Packs(w, InitialSize, TableSize) /\ O = Opening(w, InitialSize, TableSize) /\ n \in Nat
    BY ONLY <1>2, <1>3, <1>4
  <2>2. \A i, j \in 1 .. n : i < j => keys[i] < keys[j]
    BY ONLY <1>4
  <2>3. \A i \in 1 .. n :
          LET fi == Fill(w, InitialSize, TableSize)
          IN fi[keys[i]] = (IF i = 1 THEN InitialSize ELSE fi[keys[i - 1]]) + w[keys[i]]
    BY ONLY <1>6, <1>7, <2>1, <2>2, PartFills, p \in Nat \ {0}
  <2> QED
    BY ONLY <1>2, <2>3
<1>9. EntrySize \in Nat /\ InitialSize \in Nat /\ TableSize \in Nat /\ PairSize = EntrySize + 1
  BY ONLY LayoutAssumption
<1>10. /\ before[1] = 0 /\ \A i \in 1 .. (n + 1) : before[i] \in Nat
       /\ \A i \in 1 .. n : Size[kv[keys[i]]] \in Nat /\ before[i + 1] = before[i] + Size[kv[keys[i]]] + 1
  BY DEF IsTable
<1>11. \A i \in 1 .. n : w[keys[i]] = (EntrySize + 1) + Size[kv[keys[i]]]
  BY ONLY <1>3, <1>4, <1>5, <1>9 DEF Bytes
<1> DEFINE Bad == {i \in 1 .. n : fill[keys[i]] # InitialSize + i * EntrySize + before[i + 1]}
<1>12. Bad = {}
  <2> SUFFICES ASSUME Bad # {} PROVE FALSE
    OBVIOUS
  <2>1. PICK m \in Bad : \A j \in Bad : m <= j
    <3>1. Bad \in SUBSET Nat
      BY ONLY <1>4
    <3> HIDE DEF Bad
    <3> QED
      BY ONLY <3>1, LeastElement, Bad # {}
  <2>2. m \in 1 .. n /\ m \in Nat /\ m + 1 \in 1 .. (n + 1) /\ m \in 1 .. (n + 1)
    BY ONLY <1>4, <2>1
  <2>3. PICK size \in Nat, old \in Nat, new \in Nat :
          /\ size = Size[kv[keys[m]]] /\ old = before[m] /\ new = before[m + 1]
          /\ new = old + size + 1 /\ w[keys[m]] = (EntrySize + 1) + size
    BY ONLY <1>10, <1>11, <2>2
  <2>4. CASE m = 1
    <3>1. fill[keys[m]] = InitialSize + ((EntrySize + 1) + size)
      BY ONLY <1>8, <2>2, <2>3, <2>4
    <3>2. old = 0 /\ m * EntrySize = EntrySize
      BY ONLY <1>9, <1>10, <2>3, <2>4
    <3>3. fill[keys[m]] = InitialSize + m * EntrySize + new
      BY ONLY <1>9, <2>3, <3>1, <3>2
    <3> QED
      BY ONLY <2>1, <2>3, <3>3
  <2>5. CASE m # 1
    <3>1. PICK i \in 1 .. n : i = m - 1 /\ m = i + 1 /\ i \notin Bad /\ i \in Nat
      BY ONLY <1>4, <2>1, <2>2, <2>5
    <3>2. fill[keys[i]] = InitialSize + i * EntrySize + old
      BY ONLY <2>3, <3>1
    <3>3. fill[keys[m]] = fill[keys[i]] + ((EntrySize + 1) + size)
      BY ONLY <1>8, <2>2, <2>3, <2>5, <3>1
    <3>4. PICK area \in Nat : area = i * EntrySize /\ m * EntrySize = area + EntrySize
      BY ONLY <1>9, <3>1
    <3>5. fill[keys[m]] = InitialSize + m * EntrySize + new
      BY ONLY <1>9, <2>3, <3>2, <3>3, <3>4
    <3> QED
      BY ONLY <2>1, <2>3, <3>5
  <2> QED
    BY ONLY <2>4, <2>5
<1>13. CASE n = 0
  <2>1. DataArea(n) = InitialSize /\ before[n + 1] = 0
    BY ONLY <1>9, <1>10, <1>13 DEF DataArea
  <2>2. PICK k \in DOMAIN w : TRUE
    BY ONLY <1>3, PartIsList, all \in Lists, part \in Range(Split(all))
  <2>3. w[k] \in Nat /\ InitialSize + w[k] <= TableSize
    BY ONLY <1>3, <2>2 DEF Packs
  <2> QED
    BY ONLY <1>9, <2>1, <2>3
<1>14. CASE n # 0
  <2>1. n \in 1 .. n /\ n \notin Bad
    BY ONLY <1>4, <1>12, <1>14
  <2>2. fill[keys[n]] = InitialSize + n * EntrySize + before[n + 1]
    BY ONLY <2>1
  <2>3. fill[keys[n]] <= TableSize
    BY ONLY <1>2, <1>3, <1>6, <2>1, FillsRoom
  <2> QED
    BY ONLY <2>2, <2>3 DEF DataArea
<1> QED
  BY ONLY <1>13, <1>14

(* What getValue and traverse read of a table that fits.                   *)
LEMMA TableReads ==
  ASSUME NEW t, NEW kv, NEW n, NEW keys, NEW before, IsTable(t, kv, n, keys, before),
         DataArea(n) + before[n + 1] <= TableSize
  PROVE  /\ \A i \in DOMAIN t.key :
              /\ ValueEnd(t, i) - ValueStart(t, i) = Size[kv[t.key[i]]] + 1
              /\ ReadStart(t) <= ValueStart(t, i) /\ ValueEnd(t, i) <= ReadEnd(t)
         /\ ReadEnd(t) <= TableSize
<1>1. /\ n \in Nat /\ t.key = keys /\ t.pairNum = n /\ DOMAIN keys = 1 .. n /\ Len(keys) = n
      /\ t.dataLength = before[n + 1]
      /\ \A i \in 1 .. n : t.offset[i] = DataArea(n) + before[i]
      /\ \A i \in 1 .. (n + 1) : before[i] \in Nat
      /\ \A i \in 1 .. n : Size[kv[keys[i]]] \in Nat /\ before[i + 1] = before[i] + Size[kv[keys[i]]] + 1
  BY DEF IsTable, IsKeys
<1>2. PICK area \in Nat : area = DataArea(n)
  <2>1. EntrySize \in Nat /\ InitialSize \in Nat
    BY ONLY LayoutAssumption
  <2>2. n * EntrySize \in Nat
    BY ONLY <1>1, <2>1
  <2>3. DataArea(n) \in Nat
    BY ONLY <2>1, <2>2 DEF DataArea
  <2> QED
    BY ONLY <2>3
<1>3. \A i \in 1 .. n : i \in 1 .. (n + 1) /\ i + 1 \in 1 .. (n + 1)
  BY ONLY <1>1
<1>4. \A i \in 1 .. (n + 1) : before[i] <= before[n + 1]
  <2>1. \A i \in 1 .. n : before[i] <= before[i + 1]
    <3> TAKE i \in 1 .. n
    <3>1. PICK size \in Nat, old \in Nat : old = before[i] /\ before[i + 1] = old + size + 1
      BY ONLY <1>1, <1>3, i \in 1 .. n
    <3> QED
      BY ONLY <3>1
  <2>2. n \in Nat /\ \A i \in 1 .. (n + 1) : before[i] \in Nat
    BY ONLY <1>1
  <2> QED
    BY ONLY <2>1, <2>2, CurLengthsGrow
<1>5. PICK all \in Nat : all = before[n + 1] /\ area + all <= TableSize
  <2>1. n + 1 \in 1 .. (n + 1)
    BY ONLY <1>1
  <2>2. before[n + 1] \in Nat /\ area + before[n + 1] <= TableSize
    BY ONLY <1>1, <1>2, <2>1, DataArea(n) + before[n + 1] <= TableSize
  <2> QED
    BY ONLY <2>2
<1>6. /\ ReadEnd(t) = RoundUp(area + all) /\ RoundUp(area + all) <= TableSize
      /\ area + all <= RoundUp(area + all) /\ RoundUp(area + all) \in Nat
  <2>1. area + all \in Nat
    BY ONLY area \in Nat, all \in Nat
  <2> QED
    BY ONLY <1>1, <1>2, <1>5, <2>1, RoundsUp DEF ReadEnd
<1>7. ReadStart(t) \in Nat /\ ReadStart(t) <= area
  <2>1. PageSize \in Nat \ {0}
    BY ONLY LayoutAssumption
  <2>2. PICK q \in Nat, r \in 0 .. (PageSize - 1) : q = area \div PageSize /\ area = PageSize * q + r
    BY ONLY <2>1, Division, area \in Nat
  <2>3. PICK down \in Nat : down = q * PageSize /\ down = PageSize * q
    BY ONLY <2>1, q \in Nat
  <2>4. down <= area
    BY ONLY <2>1, <2>2, <2>3, area \in Nat
  <2>5. ReadStart(t) = down
    BY ONLY <1>1, <1>2, <2>2, <2>3 DEF ReadStart, RoundDown
  <2> QED
    BY ONLY <2>4, <2>5, down \in Nat
<1>8. ASSUME NEW i \in 1 .. n
      PROVE  /\ ValueEnd(t, i) - ValueStart(t, i) = Size[kv[keys[i]]] + 1
             /\ ReadStart(t) <= ValueStart(t, i) /\ ValueEnd(t, i) <= ReadEnd(t)
  <2>1. PICK size \in Nat, old \in Nat, new \in Nat :
          /\ size = Size[kv[keys[i]]] /\ old = before[i] /\ new = before[i + 1] /\ new = old + size + 1
    <3>1. before[i] \in Nat /\ before[i + 1] \in Nat
      BY ONLY <1>1, <1>3, i \in 1 .. n
    <3>2. Size[kv[keys[i]]] \in Nat /\ before[i + 1] = before[i] + Size[kv[keys[i]]] + 1
      BY ONLY <1>1, i \in 1 .. n
    <3> QED
      BY ONLY <3>1, <3>2
  <2>2. ValueStart(t, i) = area + old
    BY ONLY <1>1, <1>2, <2>1, i \in 1 .. n DEF ValueStart
  <2>3. ValueEnd(t, i) = area + new
    <3>1. CASE i = n
      BY ONLY <1>1, <1>2, <2>1, <3>1 DEF ValueEnd
    <3>2. CASE i # n
      <4>1. i + 1 \in 1 .. n
        BY ONLY <1>1, <3>2, i \in 1 .. n
      <4> QED
        BY ONLY <1>1, <1>2, <2>1, <3>2, <4>1 DEF ValueEnd
    <3> QED
      BY ONLY <3>1, <3>2
  <2>4. new <= all
    BY ONLY <1>3, <1>4, <1>5, <2>1, i \in 1 .. n
  <2>5. PICK end \in Nat, start \in Nat : end = ReadEnd(t) /\ start = ReadStart(t) /\ area + all <= end /\ start <= area
    BY ONLY <1>6, <1>7
  <2>6. (area + new) - (area + old) = size + 1
    BY ONLY <2>1, area \in Nat
  <2>7. start <= area + old /\ area + new <= end
    BY ONLY <2>1, <2>4, <2>5, area \in Nat, all \in Nat
  <2> QED
    BY ONLY <2>1, <2>2, <2>3, <2>5, <2>6, <2>7
<1> QED
  BY ONLY <1>1, <1>6, <1>8

LEMMA KeysAreSorted ==
  ASSUME NEW kv \in Lists, NEW n, NEW keys, IsKeys(keys, kv, n)
  PROVE  Sorted(keys, n)
<1>1. DOMAIN kv \in SUBSET Keys /\ Keys \in SUBSET Nat
  BY ONLY ListType, KeysAreNumbers, kv \in Lists
<1>2. /\ n \in Nat /\ keys \in [1 .. n -> DOMAIN kv]
      /\ \A i, j \in 1 .. n : i < j => keys[i] < keys[j]
  BY ONLY IsKeys(keys, kv, n) DEF IsKeys
<1> QED
  BY ONLY <1>1, <1>2 DEF Sorted

(* Each key of a table, and no other, is found in it.                      *)
LEMMA PartFound ==
  ASSUME NEW t, NEW kv, NEW n, NEW keys, NEW before, IsTable(t, kv, n, keys, before), NEW target \in Nat
  PROVE  LET i == Probe(t, target)
         IN IF target \in Range(t.key) THEN i # 0 /\ t.key[i] = target ELSE i = 0
<1>1. /\ kv \in Lists /\ IsKeys(keys, kv, n) /\ t.key = keys /\ t.lo = keys[1] /\ t.hi = Last(keys)
      /\ t.filter = UNION {Bits[keys[i]] : i \in 1 .. n}
  BY DEF IsTable
<1>2. Sorted(keys, n)
  BY ONLY <1>1, KeysAreSorted
<1>3. /\ n \in Nat /\ keys \in [1 .. n -> Nat] /\ Len(keys) = n /\ DOMAIN keys = 1 .. n
      /\ \A i, j \in 1 .. n : i < j => keys[i] < keys[j]
  BY ONLY <1>1, <1>2 DEF IsKeys, Sorted
<1>4. t.hi = keys[n]
  BY ONLY <1>1, <1>3 DEF Last
<1>5. n = 0 \/ (t.lo \in Nat /\ t.hi \in Nat)
  BY ONLY <1>1, <1>3, <1>4
<1>6. \A i \in 1 .. n : t.lo <= keys[i] /\ keys[i] <= t.hi
  <2> TAKE i \in 1 .. n
  <2>1. 1 \in 1 .. n /\ n \in 1 .. n /\ (i = 1 \/ 1 < i) /\ (i = n \/ i < n)
    BY ONLY <1>3, i \in 1 .. n
  <2>2. PICK a \in Nat, b \in Nat, c \in Nat : a = keys[1] /\ b = keys[i] /\ c = keys[n]
    BY ONLY <1>3, <2>1
  <2>3. (a = b \/ a < b) /\ (b = c \/ b < c)
    BY ONLY <1>3, <2>1, <2>2
  <2>4. a <= b /\ b <= c
    BY ONLY <2>2, <2>3
  <2> QED
    BY ONLY <1>1, <1>4, <2>2, <2>4
<1>7. t.key = keys
  BY ONLY <1>1
<1>8. \A i \in 1 .. n : Bits[keys[i]] \subseteq t.filter
  BY ONLY <1>1
<1>9. Len(keys) = n
  BY ONLY <1>3
<1>10. DOMAIN keys = 1 .. n
  BY ONLY <1>3
<1> QED
  BY <1>2, <1>5, <1>6, <1>7, <1>8, <1>9, <1>10, ProbeFinds

LEMMA CutTables ==
  ASSUME Towers, NEW t \in Cut
  PROVE  \E kv, n, keys, before :
           /\ IsTable(t, kv, n, keys, before) /\ DataArea(n) + before[n + 1] <= TableSize
           /\ \A i \in 1 .. n : kv[keys[i]] = Bottom[keys[i]]
<1>1. PICK all \in Lists : all = Bottom
  BY BottomType
<1>2. PICK part \in Range(Split(all)) : t = FromPairs([k \in part |-> all[k]])
  BY ONLY <1>1, t \in Cut DEF Cut
<1>3. PICK kv : kv = [k \in part |-> all[k]]
  OBVIOUS
<1>4. [k \in part |-> all[k]] \in Lists
  <2>1. /\ [k \in part |-> all[k]] \in Lists
        /\ \E p \in Nat \ {0} : part = {k \in DOMAIN all : Begins(Opens(all), k) = p}
        /\ DOMAIN all # {}
    BY ONLY PartIsList, all \in Lists, part \in Range(Split(all))
  <2> QED
    BY ONLY <2>1
<1>5. kv \in Lists /\ t = FromPairs(kv)
  BY ONLY <1>2, <1>3, <1>4
<1>6. PICK n, keys, before : IsTable(t, kv, n, keys, before)
  BY ONLY <1>5, PairsLayout
<1>7. DataArea(n) + before[n + 1] <= TableSize
  BY ONLY <1>3, <1>6, PartFits, all \in Lists, part \in Range(Split(all))
<1>8. \A i \in 1 .. n : kv[keys[i]] = Bottom[keys[i]]
  <2>1. keys \in [1 .. n -> DOMAIN kv]
    BY ONLY <1>6 DEF IsTable, IsKeys
  <2> QED
    BY ONLY <1>1, <1>3, <2>1
<1> QED
  BY ONLY <1>6, <1>7, <1>8

LEMMA ReadableFromInv == BoundsOK => PairsReadable
<1> SUFFICES ASSUME BoundsOK PROVE PairsReadable
  OBVIOUS
<1>1. Towers /\ Keys \in SUBSET Nat
  BY KeysAreNumbers DEF BoundsOK
<1>2. ASSUME NEW t \in Cut
      PROVE  /\ \A i \in DOMAIN t.key :
                  /\ ValueEnd(t, i) - ValueStart(t, i) = Size[Bottom[t.key[i]]] + 1
                  /\ ReadStart(t) <= ValueStart(t, i) /\ ValueEnd(t, i) <= ReadEnd(t)
             /\ ReadEnd(t) <= TableSize
  <2>1. PICK kv, n, keys, before :
          /\ IsTable(t, kv, n, keys, before) /\ DataArea(n) + before[n + 1] <= TableSize
          /\ \A i \in 1 .. n : kv[keys[i]] = Bottom[keys[i]]
    BY ONLY <1>1, CutTables, t \in Cut
  <2>2. t.key = keys /\ DOMAIN keys = 1 .. n
    BY ONLY <2>1 DEF IsTable, IsKeys
  <2>3. /\ \A i \in DOMAIN t.key :
             /\ ValueEnd(t, i) - ValueStart(t, i) = Size[kv[t.key[i]]] + 1
             /\ ReadStart(t) <= ValueStart(t, i) /\ ValueEnd(t, i) <= ReadEnd(t)
        /\ ReadEnd(t) <= TableSize
    BY ONLY <2>1, TableReads
  <2> QED
    BY ONLY <2>1, <2>2, <2>3
<1>3. ASSUME NEW t \in Cut, NEW k \in Keys
      PROVE  LET i == Probe(t, k) IN IF k \in Range(t.key) THEN i # 0 /\ t.key[i] = k ELSE i = 0
  <2>1. PICK kv, n, keys, before : IsTable(t, kv, n, keys, before)
    BY ONLY <1>1, CutTables, t \in Cut
  <2>2. k \in Nat
    BY ONLY <1>1, k \in Keys
  <2> QED
    BY ONLY <2>1, <2>2, PartFound
<1>4. ASSUME NEW t, t = FromMemtable(Bottom, count, minKey, maxKey), NEW k \in Keys
      PROVE  LET i == Probe(t, k) IN IF k \in Range(t.key) THEN i # 0 /\ t.key[i] = k ELSE i = 0
  <2>1. PICK kv \in Lists : kv = Bottom
    BY <1>1, BottomType
  <2>2. PICK n, keys : keys = KeysInOrder(kv) /\ IsKeys(keys, kv, n)
    BY ONLY KeysOfList, kv \in Lists
  <2>3. /\ n \in Nat /\ DOMAIN keys = 1 .. n /\ Len(keys) = n /\ n = Cardinality(DOMAIN kv)
        /\ keys \in [1 .. n -> DOMAIN kv]
    BY ONLY <2>2 DEF IsKeys
  <2>4. t = FromMemtable(kv, n, minKey, maxKey) /\ minKey \in Nat /\ maxKey \in Nat
    BY <1>1, <1>4, <2>1, <2>3 DEF Towers, TypeOK
  <2>5. t.key = keys /\ t.lo = minKey /\ t.hi = maxKey /\ \A i \in 1 .. n : Bits[keys[i]] \subseteq t.filter
    <3>1. keys = KeysInOrder(kv)
      BY ONLY <2>2
    <3>2. IsKeys(keys, kv, n)
      BY ONLY <2>2
    <3>3. t = FromMemtable(kv, n, minKey, maxKey)
      BY ONLY <2>4
    <3>4. /\ t.lo = minKey /\ t.hi = maxKey /\ t.key = keys /\ t.pairNum = n /\ t.dataLength = n
          /\ t.filter = UNION {Bits[keys[i]] : i \in 1 .. n}
          /\ \A i \in 1 .. n : t.offset[i] = DataArea(n) + (i - 1)
      BY ONLY <3>1, <3>2, <3>3, kv \in Lists, MemtableLayout
    <3> QED
      BY ONLY <3>4
  <2>6. Sorted(keys, n)
    BY ONLY <2>2, KeysAreSorted, kv \in Lists
  <2>7. \A i \in 1 .. n : t.lo <= keys[i] /\ keys[i] <= t.hi
    BY ONLY <2>1, <2>3, <2>5, BoundsOK DEF BoundsOK
  <2>8. n = 0 \/ (t.lo \in Nat /\ t.hi \in Nat)
    BY ONLY <2>4, <2>5
  <2>9. \A i \in 1 .. n : Bits[keys[i]] \subseteq t.filter
    BY ONLY <2>5
  <2>10. t.key = keys
    BY ONLY <2>5
  <2>11. Len(keys) = n
    BY ONLY <2>3
  <2>12. DOMAIN keys = 1 .. n
    BY ONLY <2>3
  <2>13. k \in Nat
    BY ONLY <1>1, k \in Keys
  <2> QED
    BY ONLY <2>6, <2>7, <2>8, <2>9, <2>10, <2>11, <2>12, <2>13, ProbeFinds
<1>5. PairsFound
  BY ONLY <1>3, <1>4 DEF PairsFound
<1> QED
  BY ONLY <1>2, <1>5 DEF PairsReadable

LEMMA BoundsInvariance == Spec => []BoundsOK
BY InitBounds, NextBounds, PTL DEF Spec

(* A pair of the memtable, or of a table that a compaction cuts its pairs  *)
(* into, is found by the bounds, the filter and the search of the index,   *)
(* and the bytes read for it are its own and in the slot.                  *)
THEOREM PairsAreReadable == Spec => []PairsReadable
BY BoundsInvariance, ReadableFromInv, PTL
=============================================================================
