--------------------------- MODULE PageCacheProofs ---------------------------
(***************************************************************************)
(* The page cache, proved for any number of zones, tables and pages: its   *)
(* list and its map agree, every cached page belongs to the table it was   *)
(* read for, and what getValue has visited stays cached if it fits.        *)
(***************************************************************************)
EXTENDS PageCache, Induction, FiniteSetTheorems, SequenceTheorems

(* LRUCache between two calls: the list holds each key of the map once.    *)
LruOK(list, keys) ==
  /\ list \in Seq(keys)
  /\ \A i, j \in 1 .. Len(list) : list[i] = list[j] => i = j
  /\ \A p \in keys : \E i \in 1 .. Len(list) : list[i] = p
  /\ Len(list) <= cap

(* A table has a slot of its own, below what is used of its zone.          *)
Slots == Zones \X (0 .. TablesPerZone - 1)

SpaceInv ==
  /\ place \in [Tables -> Slots \cup {NoAddr}]
  /\ used \in [Zones -> 0 .. TablesPerZone]
  /\ written \in [Zones -> 0 .. TablesPerZone]
  /\ \A t \in Tables : Stored(t) => place[t][2] < used[place[t][1]]
  /\ \A t, u \in Tables : Stored(t) /\ place[t] = place[u] => t = u

(* The inductive invariant.                                                *)
CacheInv ==
  /\ SpaceInv
  /\ LruOK(cache, map)
  /\ map \in SUBSET Pages
  /\ readFor \in [Pages -> Tables \cup {NoTable}]
  /\ PagesAccounted

(* What getValue looks up: the pages of the device, and the one after the  *)
(* last.                                                                   *)
Reach == 0 .. (Cardinality(Zones) * TablesPerZone * SlotPages)

-----------------------------------------------------------------------------
(* The parameters.                                                         *)
LEMMA CacheConstants ==
  /\ Cardinality(Zones) \in Nat
  /\ Zones \in SUBSET Nat
  /\ \A z \in Zones : z + 1 <= Cardinality(Zones)
  /\ cap \in Nat \ {0} /\ SlotPages \in Nat \ {0} /\ HeaderPages \in 1 .. (SlotPages - 1)
  /\ TablesPerZone \in Nat /\ NoTable \notin Tables /\ None \notin Nat
  /\ NoAddr \notin Slots
  /\ Reach \in SUBSET Nat
  /\ Pages \in SUBSET Reach
<1>1. Cardinality(Zones) \in Nat
  BY CacheAssumption, FS_CardinalityType
<1>2. PICK last : last = Cardinality(Zones) * TablesPerZone * SlotPages
  OBVIOUS
<1>3. last \in Int
  BY <1>1, <1>2, CacheAssumption
<1>4. Reach = 0 .. last /\ Pages = 0 .. (last - 1)
  BY <1>2 DEF Reach, Pages
<1>5. Reach \in SUBSET Nat /\ Pages \in SUBSET Reach
  BY <1>3, <1>4
<1> QED
  BY <1>1, <1>5, CacheAssumption DEF Slots

-----------------------------------------------------------------------------
(* The list of the cache: new is old without its node i; the first n nodes *)
(* of old follow the first one of new.                                     *)
Closed(new, old, i) == \A j \in 1 .. Len(old) - 1 : new[j] = old[IF j < i THEN j ELSE j + 1]
Behind(new, old, n) == \A j \in 1 .. n : new[j + 1] = old[j]

(* Erasing the node of a page moves the nodes behind it up by one.         *)
LEMMA WithoutPage ==
  ASSUME NEW keys, NEW list, NEW page, LruOK(list, keys), page \in keys
  PROVE  /\ Iterator(list, page) \in 1 .. Len(list) /\ list[Iterator(list, page)] = page
         /\ Without(list, page) \in Seq(keys)
         /\ Len(Without(list, page)) = Len(list) - 1
         /\ Closed(Without(list, page), list, Iterator(list, page))
<1> DEFINE i == Iterator(list, page)
           front == SubSeq(list, 1, i - 1)
           rest == SubSeq(list, i + 1, Len(list))
<1>1. list \in Seq(keys) /\ Len(list) \in Nat /\ DOMAIN list = 1 .. Len(list)
  BY DEF LruOK
<1>2. i \in 1 .. Len(list) /\ list[i] = page
  BY <1>1 DEF LruOK, Iterator
<1>3. \A j \in 1 .. Len(list) : list[j] \in keys /\ (j # i => list[j] # page)
  BY <1>1, <1>2 DEF LruOK
<1>4. Without(list, page) = front \o rest
  BY DEF Without, RemoveAt
<1> HIDE DEF i
<1>5. /\ front \in Seq(keys \ {page}) /\ Len(front) = i - 1
      /\ \A j \in 1 .. i - 1 : front[j] = list[j]
  <2>1. \A j \in 1 .. i - 1 : list[j] \in keys \ {page}
    BY <1>1, <1>2, <1>3
  <2> QED
    BY <1>1, <1>2, <2>1, SubSeqProperties
<1>6. /\ rest \in Seq(keys \ {page}) /\ Len(rest) = Len(list) - i
      /\ \A j \in 1 .. Len(list) - i : rest[j] = list[i + j]
  <2>1. \A j \in i + 1 .. Len(list) : list[j] \in keys \ {page}
    BY <1>1, <1>2, <1>3
  <2>2. /\ rest \in Seq(keys \ {page})
        /\ Len(rest) = IF i + 1 <= Len(list) THEN Len(list) - (i + 1) + 1 ELSE 0
        /\ \A j \in 1 .. Len(list) - (i + 1) + 1 : rest[j] = list[(i + 1) + j - 1]
    BY <1>1, <1>2, <2>1, SubSeqProperties
  <2> HIDE DEF front, rest
  <2>3. Len(rest) = Len(list) - i
    <3>1. i \in Nat /\ i <= Len(list) /\ Len(list) \in Nat
      BY <1>1, <1>2
    <3>2. CASE i + 1 <= Len(list)
      <4>1. Len(rest) = Len(list) - (i + 1) + 1
        BY <2>2, <3>2
      <4> QED
        BY <3>1, <4>1
    <3>3. CASE ~(i + 1 <= Len(list))
      <4>1. Len(rest) = 0
        BY <2>2, <3>3
      <4> QED
        BY <3>1, <3>3, <4>1
    <3> QED
      BY <3>2, <3>3
  <2>4. ASSUME NEW j \in 1 .. Len(list) - i
        PROVE  rest[j] = list[i + j]
    <3>1. j \in 1 .. Len(list) - (i + 1) + 1 /\ (i + 1) + j - 1 = i + j
      BY <1>1, <1>2
    <3> QED
      BY <2>2, <3>1
  <2> QED
    BY <2>2, <2>3, <2>4
<1> HIDE DEF front, rest
<1>7. /\ front \o rest \in Seq(keys \ {page})
      /\ Len(front \o rest) = Len(list) - 1
      /\ \A j \in 1 .. Len(list) - 1 : (front \o rest)[j] = list[IF j < i THEN j ELSE j + 1]
  <2>1. /\ front \o rest \in Seq(keys \ {page})
        /\ Len(front \o rest) = Len(front) + Len(rest)
        /\ \A j \in 1 .. Len(front) + Len(rest) :
             (front \o rest)[j] = IF j <= Len(front) THEN front[j] ELSE rest[j - Len(front)]
    BY <1>5, <1>6, ConcatProperties
  <2>2. ASSUME NEW j \in 1 .. Len(list) - 1
        PROVE  (front \o rest)[j] = list[IF j < i THEN j ELSE j + 1]
    <3>1. j \in 1 .. Len(front) + Len(rest)
      BY <1>1, <1>2, <1>5, <1>6
    <3>2. CASE j < i
      <4>1. j <= Len(front) /\ j \in 1 .. i - 1
        BY <1>1, <1>2, <1>5, <3>2
      <4> QED
        BY <1>5, <2>1, <3>1, <3>2, <4>1
    <3>3. CASE ~(j < i)
      <4>1. /\ ~(j <= Len(front)) /\ j - Len(front) \in 1 .. Len(list) - i
            /\ i + (j - Len(front)) = j + 1
        BY <1>1, <1>2, <1>5, <3>3
      <4> QED
        BY <1>6, <2>1, <3>1, <3>3, <4>1
    <3> QED
      BY <3>2, <3>3
  <2>3. Len(front \o rest) = Len(list) - 1
    BY <1>1, <1>2, <1>5, <1>6, <2>1
  <2> QED
    BY <2>1, <2>2, <2>3
<1>8. front \o rest \in Seq(keys)
  BY <1>7, SeqMonotonic
<1> QED
  BY <1>2, <1>4, <1>7, <1>8 DEF i, Closed

(* Putting a node in front of the list moves all others down by one.       *)
LEMMA InFront ==
  ASSUME NEW S, NEW list \in Seq(S), NEW page \in S
  PROVE  /\ Cons(page, list) \in Seq(S)
         /\ Len(Cons(page, list)) = Len(list) + 1
         /\ Cons(page, list)[1] = page
         /\ Behind(Cons(page, list), list, Len(list))
<1>1. <<page>> \in Seq(S) /\ Len(<<page>>) = 1 /\ <<page>>[1] = page /\ Len(list) \in Nat
  OBVIOUS
<1>2. /\ (<<page>> \o list) \in Seq(S)
      /\ Len(<<page>> \o list) = 1 + Len(list)
      /\ \A i \in 1 .. 1 + Len(list) :
           (<<page>> \o list)[i] = IF i <= 1 THEN <<page>>[i] ELSE list[i - 1]
  BY <1>1, ConcatProperties
<1>3. ASSUME NEW j \in 1 .. Len(list)
      PROVE  (<<page>> \o list)[j + 1] = list[j]
  <2>1. j + 1 \in 1 .. 1 + Len(list) /\ ~(j + 1 <= 1) /\ j + 1 - 1 = j
    BY <1>1
  <2> QED
    BY <1>2, <2>1
<1> QED
  BY <1>1, <1>2, <1>3 DEF Behind, Cons

(* A page that is cached moves to the front.                               *)
LEMMA Renewed ==
  ASSUME NEW keys, NEW list, NEW page, LruOK(list, keys), page \in keys
  PROVE  LET new == Cons(page, Without(list, page))
         IN  /\ LruOK(new, keys)
             /\ Len(new) = Len(list) /\ new[1] = page
             /\ Behind(new, list, Iterator(list, page) - 1)
<1>1. list \in Seq(keys) /\ Len(list) \in Nat /\ Len(list) <= cap
  BY DEF LruOK
<1> DEFINE i == Iterator(list, page)
           others == Without(list, page)
           new == Cons(page, others)
<1>2. i \in 1 .. Len(list) /\ list[i] = page
  BY WithoutPage
<1>3. /\ others \in Seq(keys)
      /\ Len(others) = Len(list) - 1
      /\ Closed(others, list, i)
  BY WithoutPage
<1> HIDE DEF others, i
<1>4. /\ new \in Seq(keys) /\ Len(new) = Len(others) + 1 /\ new[1] = page
      /\ Behind(new, others, Len(others))
  BY <1>3, InFront
<1> HIDE DEF new
<1>5. Len(new) = Len(list)
  BY <1>1, <1>3, <1>4
<1>6. ASSUME NEW j \in 2 .. Len(list)
      PROVE  (j - 1 < i /\ new[j] = list[j - 1]) \/ (j > i /\ new[j] = list[j])
  <2>1. j - 1 \in 1 .. Len(list) - 1 /\ j - 1 \in 1 .. Len(others) /\ (j - 1) + 1 = j
    BY <1>1, <1>3
  <2>2. new[j] = others[j - 1]
    BY <1>4, <2>1 DEF Behind
  <2>3. others[j - 1] = list[IF j - 1 < i THEN j - 1 ELSE j]
    BY <1>3, <2>1 DEF Closed
  <2>4. j - 1 < i \/ j > i
    BY <1>2
  <2>5. j > i => ~(j - 1 < i)
    BY <1>2
  <2> QED
    BY <2>2, <2>3, <2>4, <2>5
<1>7. \A a, b \in 1 .. Len(list) : list[a] = list[b] => a = b
  BY DEF LruOK
<1>8. ASSUME NEW a \in 1 .. Len(new), NEW b \in 1 .. Len(new), new[a] = new[b], a < b
      PROVE  FALSE
  <2>1. b \in 2 .. Len(list)
    BY <1>1, <1>5, <1>8
  <2>2. (b - 1 < i /\ new[b] = list[b - 1]) \/ (b > i /\ new[b] = list[b])
    BY <1>2, <1>6, <2>1
  <2>3. CASE a = 1
    <3>1. (b - 1 < i /\ list[i] = list[b - 1]) \/ (b > i /\ list[i] = list[b])
      BY <1>2, <1>4, <1>8, <2>2, <2>3
    <3> QED
      BY <1>2, <1>7, <2>1, <3>1
  <2>4. CASE a # 1
    <3>1. a \in 2 .. Len(list)
      BY <1>1, <1>5, <2>4
    <3>2. (a - 1 < i /\ new[a] = list[a - 1]) \/ (a > i /\ new[a] = list[a])
      BY <1>2, <1>6, <3>1
    <3>3. a \in 1 .. Len(list) /\ b \in 1 .. Len(list) /\ a - 1 \in 1 .. Len(list) /\ b - 1 \in 1 .. Len(list)
      BY <1>1, <2>1, <3>1
    <3>4. CASE b - 1 < i /\ new[b] = list[b - 1]
      <4>1. a - 1 = b - 1
        BY <1>2, <1>7, <1>8, <3>2, <3>3, <3>4
      <4> QED
        BY <1>8, <4>1
    <3>5. CASE b > i /\ new[b] = list[b]
      <4>1. a = b \/ (a - 1 < i /\ a - 1 = b)
        BY <1>2, <1>7, <1>8, <3>2, <3>3, <3>5
      <4> QED
        BY <1>2, <1>8, <3>5, <4>1
    <3> QED
      BY <2>2, <3>4, <3>5
  <2> QED
    BY <2>3, <2>4
<1>9. ASSUME NEW p \in keys
      PROVE  \E j \in 1 .. Len(new) : new[j] = p
  <2>1. PICK a \in 1 .. Len(list) : list[a] = p
    BY DEF LruOK
  <2>2. CASE a = i
    BY <1>1, <1>2, <1>4, <1>5, <2>1, <2>2
  <2>3. CASE a < i
    <3>1. a + 1 \in 2 .. Len(list) /\ ~(a + 1 > i) /\ (a + 1) - 1 = a
      BY <1>1, <1>2, <2>3
    <3> QED
      BY <1>5, <1>6, <2>1, <3>1
  <2>4. CASE a > i
    <3>1. a \in 2 .. Len(list) /\ ~(a - 1 < i)
      BY <1>1, <1>2, <2>4
    <3> QED
      BY <1>5, <1>6, <2>1, <2>4, <3>1
  <2> QED
    BY <1>2, <2>2, <2>3, <2>4
<1>10. \A a, b \in 1 .. Len(new) : new[a] = new[b] => a = b
  BY <1>1, <1>5, <1>8
<1>11. LruOK(new, keys)
  BY <1>1, <1>4, <1>5, <1>9, <1>10 DEF LruOK
<1>12. ASSUME NEW j \in 1 .. i - 1
       PROVE  new[j + 1] = list[j]
  <2>1. j + 1 \in 2 .. Len(list) /\ ~(j + 1 > i) /\ (j + 1) - 1 = j
    BY <1>1, <1>2
  <2> QED
    BY <1>6, <2>1
<1> QED
  BY <1>4, <1>5, <1>11, <1>12 DEF new, others, i, Behind

(* A page that is not cached is put in front, and if the list was full its *)
(* last page is given up.                                                  *)
LEMMA Fitted ==
  ASSUME NEW keys, NEW list, NEW page, LruOK(list, keys), page \notin keys, Len(list) # cap,
         NEW more, more = keys \cup {page}
  PROVE  LET new == Cons(page, list)
         IN  /\ LruOK(new, more)
             /\ Len(new) = Len(list) + 1 /\ new[1] = page
             /\ Behind(new, list, Len(list))
<1> DEFINE new == Cons(page, list)
<1>1. list \in Seq(keys) /\ Len(list) \in Nat /\ Len(list) <= cap /\ cap \in Nat
  BY CacheConstants DEF LruOK
<1>2. list \in Seq(keys \cup {page})
  BY <1>1, SeqMonotonic
<1>3. /\ new \in Seq(keys \cup {page}) /\ Len(new) = Len(list) + 1 /\ new[1] = page
      /\ Behind(new, list, Len(list))
  BY <1>2, InFront
<1> HIDE DEF new
<1>4. \A j \in 1 .. Len(list) : list[j] \in keys
  BY <1>1
<1>5. ASSUME NEW j \in 1 .. Len(new), j # 1
      PROVE  j - 1 \in 1 .. Len(list) /\ new[j] = list[j - 1]
  <2>1. j - 1 \in 1 .. Len(list) /\ (j - 1) + 1 = j
    BY <1>1, <1>3, <1>5
  <2> QED
    BY <1>3, <2>1 DEF Behind
<1>6. ASSUME NEW a \in 1 .. Len(new), NEW b \in 1 .. Len(new), new[a] = new[b]
      PROVE  a = b
  <2>1. CASE a # 1 /\ b # 1
    <3>1. list[a - 1] = list[b - 1] /\ a - 1 \in 1 .. Len(list) /\ b - 1 \in 1 .. Len(list)
      BY <1>5, <1>6, <2>1
    <3>2. a - 1 = b - 1
      BY <3>1 DEF LruOK
    <3> QED
      BY <3>2
  <2>2. CASE a = 1 \/ b = 1
    BY <1>3, <1>4, <1>5, <1>6, <2>2
  <2> QED
    BY <2>1, <2>2
<1>7. ASSUME NEW p \in keys \cup {page}
      PROVE  \E j \in 1 .. Len(new) : new[j] = p
  <2>1. CASE p = page
    BY <1>1, <1>3, <2>1
  <2>2. CASE p \in keys
    <3>1. PICK a \in 1 .. Len(list) : list[a] = p
      BY <2>2 DEF LruOK
    <3>2. a + 1 \in 1 .. Len(new) /\ new[a + 1] = p
      BY <1>1, <1>3, <3>1 DEF Behind
    <3> QED
      BY <3>2
  <2> QED
    BY <2>1, <2>2
<1>8. Len(new) <= cap
  BY <1>1, <1>3
<1> QED
  BY <1>3, <1>6, <1>7, <1>8 DEF LruOK, new

LEMMA FullList ==
  ASSUME NEW keys, NEW list, LruOK(list, keys), Len(list) = cap,
         NEW fewer, fewer = keys \ {Last(list)}
  PROVE  /\ Last(list) \in keys
         /\ LruOK(Front(list), fewer)
         /\ Len(Front(list)) = cap - 1
         /\ \A j \in 1 .. cap - 1 : Front(list)[j] = list[j]
<1>1. list \in Seq(keys) /\ Len(list) = cap /\ cap \in Nat \ {0}
  BY CacheConstants DEF LruOK
<1>2. Last(list) = list[cap] /\ cap \in 1 .. Len(list)
  BY <1>1 DEF Last
<1>3. \A a, b \in 1 .. cap : list[a] = list[b] => a = b
  BY <1>1 DEF LruOK
<1>4. \A j \in 1 .. cap - 1 : list[j] \in keys \ {Last(list)}
  BY <1>1, <1>2, <1>3
<1>5. /\ Front(list) \in Seq(keys \ {Last(list)})
      /\ Len(Front(list)) = IF 1 <= cap - 1 THEN (cap - 1) - 1 + 1 ELSE 0
      /\ \A j \in 1 .. (cap - 1) - 1 + 1 : Front(list)[j] = list[1 + j - 1]
  BY <1>1, <1>4, SubSeqProperties DEF Front
<1>6. Len(Front(list)) = cap - 1
  BY <1>1, <1>5
<1>7. ASSUME NEW j \in 1 .. cap - 1
      PROVE  Front(list)[j] = list[j]
  <2>1. j \in 1 .. (cap - 1) - 1 + 1 /\ 1 + j - 1 = j
    BY <1>1
  <2> QED
    BY <1>5, <2>1
<1>8. ASSUME NEW p \in keys \ {Last(list)}
      PROVE  \E j \in 1 .. cap - 1 : Front(list)[j] = p
  <2>1. PICK a \in 1 .. cap : list[a] = p
    BY <1>1 DEF LruOK
  <2>2. a \in 1 .. cap - 1
    BY <1>1, <1>2, <2>1
  <2> QED
    BY <1>7, <2>1, <2>2
<1>9. \A a, b \in 1 .. cap - 1 : Front(list)[a] = Front(list)[b] => a = b
  BY <1>1, <1>3, <1>7
<1>10. cap - 1 <= cap
  BY <1>1
<1> QED
  BY <1>1, <1>2, <1>5, <1>6, <1>7, <1>8, <1>9, <1>10 DEF LruOK

-----------------------------------------------------------------------------
(* getValue's loop: the cache, and the pages it is going to read.          *)
Visiting ==
  {c \in [list : Seq(Reach), map : SUBSET Reach, left : Reach \cup {None},
          right : Reach \cup {None}, interval : Seq(Reach \X Reach)] :
     LruOK(c.list, c.map) /\ (c.left # None => c.right \in Reach)}

(* After a page is visited it is cached, in front of all that were cached  *)
(* before it and have not been pushed out.                                 *)
LEMMA PageCached ==
  ASSUME NEW c \in Visiting, NEW page \in Reach
  PROVE  LET d == Visit(c, page)
         IN  /\ LruOK(d.list, d.map)
             /\ page \in d.map /\ d.map \in SUBSET (c.map \cup {page})
             /\ 1 <= Len(d.list) /\ d.list[1] = page
             /\ \A n \in Nat :
                  n < cap /\ n <= Len(c.list) /\ (\A j \in 1 .. n : c.list[j] # page)
                  => n + 1 <= Len(d.list) /\ Behind(d.list, c.list, n)
<1> DEFINE d == Visit(c, page)
<1>1. PICK list, keys, new : list = c.list /\ keys = c.map /\ new = d.list
  OBVIOUS
<1>2. /\ list \in Seq(Reach) /\ keys \in SUBSET Reach /\ LruOK(list, keys)
      /\ Len(list) \in Nat /\ Len(list) <= cap /\ cap \in Nat \ {0}
      /\ c = [list |-> list, map |-> keys, left |-> c.left, right |-> c.right, interval |-> c.interval]
  BY <1>1, CacheConstants DEF Visiting, LruOK
<1> SUFFICES /\ LruOK(new, d.map)
             /\ page \in d.map /\ d.map \in SUBSET (keys \cup {page})
             /\ 1 <= Len(new) /\ new[1] = page
             /\ \A n \in Nat :
                  n < cap /\ n <= Len(list) /\ (\A j \in 1 .. n : list[j] # page)
                  => n + 1 <= Len(new) /\ Behind(new, list, n)
  BY <1>1
<1>3. CASE page \in keys
  <2>1. new = Cons(page, Without(list, page)) /\ d.map = keys
    BY <1>1, <1>2, <1>3 DEF Visit, Get
  <2> HIDE DEF d
  <2>2. /\ LruOK(new, keys) /\ Len(new) = Len(list) /\ new[1] = page
        /\ Behind(new, list, Iterator(list, page) - 1)
    BY ONLY <1>2, <1>3, <2>1, Renewed
  <2>3. PICK i \in 1 .. Len(list) : list[i] = page /\ Behind(new, list, i - 1)
    <3>1. Iterator(list, page) \in 1 .. Len(list) /\ list[Iterator(list, page)] = page
      BY ONLY <1>2, <1>3, WithoutPage
    <3> QED
      BY <2>2, <3>1
  <2>4. ASSUME NEW n \in Nat, n <= Len(list), \A j \in 1 .. n : list[j] # page
        PROVE  n + 1 <= Len(new) /\ Behind(new, list, n)
    <3>1. n < i
      BY <1>2, <2>3, <2>4
    <3>2. \A j \in 1 .. n : j \in 1 .. i - 1
      BY <1>2, <2>3, <3>1
    <3> QED
      BY <1>2, <2>2, <2>3, <3>1, <3>2 DEF Behind
  <2>5. 1 <= Len(new)
    BY <1>2, <2>2, <2>3
  <2> QED
    BY <1>3, <2>1, <2>2, <2>4, <2>5
<1>4. CASE page \notin keys /\ Len(list) # cap
  <2>1. new = Cons(page, list) /\ d.map = keys \cup {page}
    BY <1>1, <1>2, <1>4 DEF Visit, Put, Push
  <2> HIDE DEF d
  <2>2. PICK more : more = d.map
    OBVIOUS
  <2>3. /\ LruOK(new, more) /\ Len(new) = Len(list) + 1 /\ new[1] = page
        /\ Behind(new, list, Len(list))
    BY ONLY <1>2, <1>4, <2>1, <2>2, Fitted
  <2>4. ASSUME NEW n \in Nat, n <= Len(list)
        PROVE  n + 1 <= Len(new) /\ Behind(new, list, n)
    BY <1>2, <2>3, <2>4 DEF Behind
  <2> QED
    BY <1>2, <2>1, <2>2, <2>3, <2>4
<1>5. CASE page \notin keys /\ Len(list) = cap
  <2>1. new = Cons(page, Front(list)) /\ d.map = (keys \ {Last(list)}) \cup {page}
    BY <1>1, <1>2, <1>5 DEF Visit, Put, Push
  <2> HIDE DEF d
  <2>2. PICK fewer, front, more : fewer = keys \ {Last(list)} /\ front = Front(list) /\ more = d.map
    OBVIOUS
  <2>3. LruOK(front, fewer) /\ Len(front) = cap - 1 /\ \A j \in 1 .. cap - 1 : front[j] = list[j]
    BY ONLY <1>2, <1>5, <2>2, FullList
  <2>4. page \notin fewer /\ Len(front) # cap /\ more = fewer \cup {page} /\ new = Cons(page, front)
    BY <1>2, <1>5, <2>1, <2>2, <2>3
  <2>5. /\ LruOK(new, more) /\ Len(new) = Len(front) + 1 /\ new[1] = page
        /\ Behind(new, front, Len(front))
    BY ONLY <2>3, <2>4, Fitted
  <2>6. ASSUME NEW n \in Nat, n < cap
        PROVE  n + 1 <= Len(new) /\ Behind(new, list, n)
    <3>1. \A j \in 1 .. n : j \in 1 .. cap - 1
      BY <1>2, <2>6
    <3>2. n + 1 <= Len(new)
      BY <1>2, <2>3, <2>5, <2>6
    <3> QED
      BY <2>3, <2>5, <3>1, <3>2 DEF Behind
  <2>7. 1 <= Len(new) /\ page \in more /\ more \in SUBSET (keys \cup {page})
    BY <1>2, <2>2, <2>3, <2>4, <2>5
  <2> QED
    BY <2>2, <2>5, <2>6, <2>7
<1> QED
  BY <1>3, <1>4, <1>5

(* A page that is cached ends the batch of pages to read, one that is not  *)
(* extends it.                                                             *)
LEMMA BatchStep ==
  ASSUME NEW c \in Visiting, NEW page \in Reach
  PROVE  /\ Visit(c, page) \in Visiting
         /\ page \in c.map => Visit(c, page).left = None /\ Visit(c, page).interval = Intervals(c)
         /\ page \notin c.map =>
              /\ Visit(c, page).left = (IF c.left = None THEN page ELSE c.left)
              /\ Visit(c, page).right = page
              /\ Visit(c, page).interval = c.interval
<1> DEFINE d == Visit(c, page)
<1>1. /\ c.list \in Seq(Reach) /\ c.map \in SUBSET Reach /\ LruOK(c.list, c.map)
      /\ c = [list |-> c.list, map |-> c.map, left |-> c.left, right |-> c.right, interval |-> c.interval]
      /\ c.left \in Reach \cup {None} /\ c.right \in Reach \cup {None}
      /\ c.interval \in Seq(Reach \X Reach) /\ (c.left # None => c.right \in Reach)
  BY DEF Visiting
<1>2. LruOK(d.list, d.map) /\ d.map \in SUBSET (c.map \cup {page})
  BY PageCached
<1>3. d.list \in Seq(Reach) /\ d.map \in SUBSET Reach
  <2>1. d.list \in Seq(d.map) /\ d.map \subseteq Reach
    BY <1>1, <1>2 DEF LruOK
  <2> HIDE DEF d
  <2> QED
    BY <2>1, SeqMonotonic
<1>4. ASSUME page \in c.map
      PROVE  /\ d.left = None /\ d.interval = Intervals(c) /\ d.right = c.right
             /\ d = [list |-> d.list, map |-> d.map, left |-> d.left, right |-> d.right, interval |-> d.interval]
  BY <1>1, <1>4 DEF Visit, Get, Intervals
<1>5. ASSUME page \notin c.map
      PROVE  /\ d.left = (IF c.left = None THEN page ELSE c.left) /\ d.right = page /\ d.interval = c.interval
             /\ d = [list |-> d.list, map |-> d.map, left |-> d.left, right |-> d.right, interval |-> d.interval]
  BY <1>1, <1>5 DEF Visit, Put, Push
<1> HIDE DEF d
<1>6. Intervals(c) \in Seq(Reach \X Reach)
  BY <1>1 DEF Intervals
<1>7. /\ d.left \in Reach \cup {None} /\ d.right \in Reach \cup {None}
      /\ d.interval \in Seq(Reach \X Reach) /\ (d.left # None => d.right \in Reach)
      /\ d = [list |-> d.list, map |-> d.map, left |-> d.left, right |-> d.right, interval |-> d.interval]
  BY <1>1, <1>4, <1>5, <1>6
<1>8. d \in Visiting
  BY <1>2, <1>3, <1>7 DEF Visiting
<1> QED
  BY <1>4, <1>5, <1>8 DEF d

(* The pages that will be read: those of the finished batches and of the   *)
(* one at work.                                                            *)
InBatch(c, p) ==
  \/ \E i \in 1 .. Len(c.interval) : c.interval[i][1] <= p /\ p <= c.interval[i][2]
  \/ c.left # None /\ c.left <= p /\ p <= c.right

LEMMA FetchedPages ==
  ASSUME NEW c \in Visiting
  PROVE  \A p \in Reach : p \in Fetched(c) <=> InBatch(c, p)
<1> DEFINE all == Intervals(c)
<1>1. /\ c.interval \in Seq(Reach \X Reach) /\ Len(c.interval) \in Nat /\ Reach \in SUBSET Nat
      /\ c.left # None => c.left \in Reach /\ c.right \in Reach
  BY CacheConstants DEF Visiting
<1>2. \A p \in Reach : p \in Fetched(c) <=> \E i \in DOMAIN all : all[i][1] <= p /\ p <= all[i][2]
  <2>1. all \in Seq(Reach \X Reach)
    BY <1>1 DEF Intervals
  <2> HIDE DEF all
  <2>2. ASSUME NEW i \in DOMAIN all
        PROVE  all[i][1] \in Int /\ all[i][2] \in Int
    <3>1. all[i] \in Reach \X Reach
      BY <2>1
    <3>2. PICK a \in Reach, b \in Reach : all[i] = <<a, b>>
      BY <3>1
    <3>3. a \in Int /\ b \in Int
      BY <1>1
    <3> QED
      BY <3>2, <3>3
  <2> QED
    BY <1>1, <2>2 DEF Fetched, ToSet, all
<1>3. CASE c.left = None
  BY <1>1, <1>2, <1>3 DEF Intervals, InBatch
<1>4. CASE c.left # None
  <2>1. /\ DOMAIN all = 1 .. Len(c.interval) + 1
        /\ all[Len(c.interval) + 1] = <<c.left, c.right>>
        /\ \A i \in 1 .. Len(c.interval) : all[i] = c.interval[i]
    BY <1>1, <1>4 DEF Intervals
  <2> HIDE DEF all
  <2>2. ASSUME NEW p \in Reach
        PROVE  (\E i \in DOMAIN all : all[i][1] <= p /\ p <= all[i][2]) <=> InBatch(c, p)
    <3>1. ASSUME NEW i \in DOMAIN all, all[i][1] <= p, p <= all[i][2]
          PROVE  InBatch(c, p)
      <4>1. CASE i \in 1 .. Len(c.interval)
        BY <2>1, <3>1, <4>1 DEF InBatch
      <4>2. CASE i = Len(c.interval) + 1
        BY <1>4, <2>1, <3>1, <4>2 DEF InBatch
      <4> QED
        BY <1>1, <2>1, <4>1, <4>2
    <3>2. ASSUME InBatch(c, p)
          PROVE  \E i \in DOMAIN all : all[i][1] <= p /\ p <= all[i][2]
      <4>1. CASE \E i \in 1 .. Len(c.interval) : c.interval[i][1] <= p /\ p <= c.interval[i][2]
        <5>1. PICK i \in 1 .. Len(c.interval) : c.interval[i][1] <= p /\ p <= c.interval[i][2]
          BY <4>1
        <5>2. i \in DOMAIN all /\ all[i] = c.interval[i]
          BY <1>1, <2>1
        <5> QED
          BY <5>1, <5>2
      <4>2. CASE c.left <= p /\ p <= c.right
        <5>1. Len(c.interval) + 1 \in DOMAIN all
          BY <1>1, <2>1
        <5>2. /\ all[Len(c.interval) + 1][1] = c.left
              /\ all[Len(c.interval) + 1][2] = c.right
          BY <2>1
        <5> QED
          BY <4>2, <5>1, <5>2
      <4> QED
        BY <3>2, <4>1, <4>2 DEF InBatch
    <3> QED
      BY <3>1, <3>2
  <2> QED
    BY <1>2, <2>2
<1> QED
  BY <1>3, <1>4

(* The loop over n pages from page first on, started with the pages keys   *)
(* in the cache: what it read or has cached lies among the pages visited,  *)
(* what was not cached before will be read, and the pages visited are in   *)
(* front of the list, if it can hold them.                                 *)
VisitInv(c, keys, first, n) ==
  /\ c \in Visiting
  /\ c.left # None => c.left \in first .. c.right /\ c.right = first + n - 1
  /\ \A i \in 1 .. Len(c.interval) : first <= c.interval[i][1] /\ c.interval[i][2] <= first + n - 1
  /\ \A p \in c.map \ keys : InBatch(c, p)
  /\ n <= cap => n <= Len(c.list) /\ \A j \in 1 .. n : c.list[j] = first + n - j

LEMMA VisitKeepsInv ==
  ASSUME NEW c, NEW keys, NEW first \in Nat, NEW n \in Nat, VisitInv(c, keys, first, n),
         first + n \in Reach
  PROVE  VisitInv(Visit(c, first + n), keys, first, n + 1)
<1>1. PICK d, page : d = Visit(c, page) /\ page = first + n
  OBVIOUS
<1>2. /\ c \in Visiting /\ page \in Reach /\ page \in Nat /\ Reach \in SUBSET Nat
      /\ c.interval \in Seq(Reach \X Reach) /\ Len(c.interval) \in Nat
      /\ c.left # None => c.left \in Reach /\ c.right \in Reach
      /\ c.list \in Seq(Reach) /\ Len(c.list) \in Nat /\ None \notin Nat
  BY <1>1, CacheConstants DEF VisitInv, Visiting
<1>3. /\ LruOK(d.list, d.map)
      /\ page \in d.map /\ d.map \in SUBSET (c.map \cup {page})
      /\ 1 <= Len(d.list) /\ d.list[1] = page
      /\ \A m \in Nat :
           m < cap /\ m <= Len(c.list) /\ (\A j \in 1 .. m : c.list[j] # page)
           => m + 1 <= Len(d.list) /\ Behind(d.list, c.list, m)
  BY <1>1, <1>2, PageCached
<1>4. /\ d \in Visiting
      /\ page \in c.map => d.left = None /\ d.interval = Intervals(c)
      /\ page \notin c.map => /\ d.left = (IF c.left = None THEN page ELSE c.left)
                              /\ d.right = page /\ d.interval = c.interval
  BY <1>1, <1>2, BatchStep
<1>5. d.left # None => d.left \in first .. d.right /\ d.right = first + (n + 1) - 1
  BY <1>1, <1>2, <1>4 DEF VisitInv
<1>6. \A i \in 1 .. Len(d.interval) :
        first <= d.interval[i][1] /\ d.interval[i][2] <= first + (n + 1) - 1
  <2>1. \A i \in 1 .. Len(c.interval) :
          first <= c.interval[i][1] /\ c.interval[i][2] <= first + (n + 1) - 1
    <3>1. \A i \in 1 .. Len(c.interval) :
            /\ first <= c.interval[i][1] /\ c.interval[i][2] <= first + n - 1
            /\ c.interval[i][2] \in Nat
      <4>1. \A i \in 1 .. Len(c.interval) : c.interval[i] \in Reach \X Reach
        BY <1>2
      <4>2. \A i \in 1 .. Len(c.interval) : c.interval[i][2] \in Reach
        BY <4>1
      <4> QED
        BY <1>2, <4>2 DEF VisitInv
    <3> QED
      BY <3>1
  <2>2. CASE d.interval = c.interval
    BY <2>1, <2>2
  <2>3. CASE d.interval = Append(c.interval, <<c.left, c.right>>) /\ c.left # None
    <3>1. ASSUME NEW i \in 1 .. Len(c.interval) + 1
          PROVE  first <= d.interval[i][1] /\ d.interval[i][2] <= first + (n + 1) - 1
      <4>1. CASE i = Len(c.interval) + 1
        <5>1. d.interval[i] = <<c.left, c.right>>
          BY <1>2, <2>3, <4>1
        <5>2. first <= c.left /\ c.right = first + n - 1
          BY <2>3 DEF VisitInv
        <5> QED
          BY <1>2, <2>3, <5>1, <5>2
      <4>2. CASE i # Len(c.interval) + 1
        <5>1. i \in 1 .. Len(c.interval) /\ d.interval[i] = c.interval[i]
          BY <1>2, <2>3, <4>2
        <5> QED
          BY <2>1, <5>1
      <4> QED
        BY <4>1, <4>2
    <3>2. Len(d.interval) = Len(c.interval) + 1
      BY <1>2, <2>3
    <3> QED
      BY <3>1, <3>2
  <2> QED
    BY <1>4, <2>2, <2>3 DEF Intervals
<1>7. \A p \in d.map \ keys : InBatch(d, p)
  <2>1. \A p \in Reach : InBatch(c, p) => InBatch(d, p)
    <3> SUFFICES ASSUME NEW p \in Reach, InBatch(c, p)
                 PROVE  InBatch(d, p)
      OBVIOUS
    <3>1. CASE page \in c.map
      <4>1. Intervals(d) = Intervals(c)
        BY <1>4, <3>1 DEF Intervals
      <4>2. p \in Fetched(c)
        BY <1>2, FetchedPages
      <4>3. p \in Fetched(d)
        BY <4>1, <4>2 DEF Fetched
      <4> QED
        BY <1>4, <4>3, FetchedPages
    <3>2. CASE page \notin c.map /\ c.left = None
      BY <1>4, <3>2 DEF InBatch
    <3>3. CASE page \notin c.map /\ c.left # None
      <4>1. d.left = c.left /\ d.right = page /\ c.right <= page
        BY <1>1, <1>2, <1>4, <3>3 DEF VisitInv
      <4>2. p \in Nat /\ c.right \in Nat
        BY <1>2, <3>3
      <4> QED
        BY <1>2, <1>4, <3>3, <4>1, <4>2 DEF InBatch
    <3> QED
      BY <3>1, <3>2, <3>3
  <2>2. page \notin c.map => InBatch(d, page)
    BY <1>1, <1>2, <1>4 DEF InBatch, VisitInv
  <2>3. d.map \in SUBSET Reach
    BY <1>4 DEF Visiting
  <2> QED
    BY <1>3, <2>1, <2>2, <2>3 DEF VisitInv
<1>8. ASSUME n + 1 <= cap
      PROVE  n + 1 <= Len(d.list) /\ \A j \in 1 .. n + 1 : d.list[j] = first + (n + 1) - j
  <2>1. cap \in Nat
    BY CacheConstants
  <2>2. n <= Len(c.list) /\ \A j \in 1 .. n : c.list[j] = first + n - j
    BY <1>8, <2>1 DEF VisitInv
  <2>3. n < cap /\ \A j \in 1 .. n : c.list[j] # page
    BY <1>1, <1>8, <2>1, <2>2
  <2>4. n + 1 <= Len(d.list) /\ Behind(d.list, c.list, n)
    BY <1>3, <2>2, <2>3
  <2>5. ASSUME NEW j \in 1 .. n + 1, j # 1
        PROVE  d.list[j] = first + (n + 1) - j
    <3>1. j - 1 \in 1 .. n /\ (j - 1) + 1 = j
      BY <2>5
    <3>2. d.list[j] = c.list[j - 1] /\ c.list[j - 1] = first + n - (j - 1)
      BY <2>2, <2>4, <3>1 DEF Behind
    <3> QED
      BY <3>2
  <2>6. d.list[1] = first + (n + 1) - 1
    BY <1>1, <1>3
  <2> QED
    BY <2>4, <2>5, <2>6
<1>9. VisitInv(d, keys, first, n + 1)
  BY <1>4, <1>5, <1>6, <1>7, <1>8 DEF VisitInv
<1> QED
  BY <1>1, <1>9

(* getValue's loop, all of it.                                             *)
LEMMA VisitsKeepInv ==
  ASSUME NEW start \in Visiting, NEW first \in Nat, NEW n \in Nat,
         start.left = None, start.interval = <<>>, first .. first + n - 1 \in SUBSET Reach
  PROVE  VisitInv(VisitAll(start, first, n), start.map, first, n)
<1> DEFINE Course(f) == f = [i \in 0 .. n |-> IF i = 0 THEN start ELSE Visit(f[i - 1], first + i - 1)]
           step == [i \in 1 .. n |-> [c \in Visiting |-> Visit(c, first + i - 1)]]
<1>1. \A i \in 1 .. n : first + i - 1 \in Reach
  <2>1. \A i \in 1 .. n : first + i - 1 \in first .. first + n - 1
    OBVIOUS
  <2> QED
    BY <2>1
<1>2. AreSteps(step, n, Visiting)
  <2>1. ASSUME NEW i \in 1 .. n, NEW c \in Visiting
        PROVE  Visit(c, first + i - 1) \in Visiting
    BY <1>1, BatchStep
  <2> QED
    BY <2>1 DEF AreSteps
<1>3. PICK g : IsCourse(g, start, step, n, Visiting)
  <2> HIDE DEF step
  <2> QED
    BY ONLY n \in Nat, start \in Visiting, <1>2, LoopHasCourse
<1>4. \A i \in 1 .. n : g[i] = Visit(g[i - 1], first + i - 1)
  <2> TAKE i \in 1 .. n
  <2>1. i - 1 \in 0 .. n
    OBVIOUS
  <2>2. g[i - 1] \in Visiting
    BY <1>3, <2>1 DEF IsCourse
  <2> QED
    BY <1>3, <2>2 DEF IsCourse
<1> HIDE DEF step
<1>5. Course(g)
  BY <1>3, <1>4 DEF IsCourse
<1>6. PICK f : f = (CHOOSE h : Course(h)) /\ Course(f)
  <2> HIDE DEF Course
  <2> QED
    BY <1>5
<1>7. VisitAll(start, first, n) = f[n]
  BY <1>6 DEF VisitAll
<1>8. f[0] = start /\ \A i \in 1 .. n : f[i] = Visit(f[i - 1], first + i - 1)
  <2>1. f = [i \in 0 .. n |-> IF i = 0 THEN start ELSE Visit(f[i - 1], first + i - 1)]
    BY <1>6
  <2>2. 0 \in 0 .. n /\ \A i \in 1 .. n : i \in 0 .. n /\ i # 0
    OBVIOUS
  <2> QED
    BY ONLY <2>1, <2>2
<1> DEFINE Bad == {i \in 0 .. n : ~VisitInv(f[i], start.map, first, i)}
<1> SUFFICES n \notin Bad
  BY <1>7
<1> SUFFICES ASSUME Bad # {} PROVE FALSE
  OBVIOUS
<1>9. PICK m \in Bad : \A j \in Bad : m <= j
  <2>1. Bad \in SUBSET Nat
    OBVIOUS
  <2> HIDE DEF Bad
  <2> QED
    BY <2>1, LeastElement
<1>10. CASE m = 0
  <2>1. VisitInv(start, start.map, first, 0)
    <3>1. Len(start.list) \in Nat /\ Len(start.interval) = 0
      BY DEF Visiting
    <3> QED
      BY <3>1 DEF VisitInv
  <2> QED
    BY <1>8, <1>9, <1>10, <2>1
<1>11. CASE m # 0
  <2>1. m \in 1 .. n /\ m - 1 \in 0 .. n /\ m - 1 \notin Bad /\ m - 1 \in Nat
    BY <1>9, <1>11
  <2>2. VisitInv(f[m - 1], start.map, first, m - 1)
    BY <2>1
  <2>3. /\ f[m] = Visit(f[m - 1], first + (m - 1)) /\ first + (m - 1) \in Reach
        /\ (m - 1) + 1 = m
    BY <1>1, <1>8, <2>1
  <2>4. VisitInv(Visit(f[m - 1], first + (m - 1)), start.map, first, (m - 1) + 1)
    BY <2>1, <2>2, <2>3, VisitKeepsInv
  <2> QED
    BY <1>9, <2>3, <2>4
<1> QED
  BY <1>10, <1>11

-----------------------------------------------------------------------------
(* deleteTable's loop.                                                     *)
(* A page that is deleted leaves the list and the map.                     *)
LEMMA PageDeleted ==
  ASSUME NEW keys, NEW list, NEW page, LruOK(list, keys), page \in keys,
         NEW fewer, fewer = keys \ {page}
  PROVE  LruOK(Without(list, page), fewer)
<1> DEFINE i == Iterator(list, page)
           others == Without(list, page)
<1>1. list \in Seq(keys) /\ Len(list) \in Nat /\ Len(list) <= cap /\ cap \in Nat
  BY CacheConstants DEF LruOK
<1>2. i \in 1 .. Len(list) /\ list[i] = page
  BY WithoutPage
<1>3. others \in Seq(keys) /\ Len(others) = Len(list) - 1 /\ Closed(others, list, i)
  BY WithoutPage
<1> HIDE DEF others, i
<1>4. ASSUME NEW j \in 1 .. Len(others)
      PROVE  \E a \in 1 .. Len(list) : /\ others[j] = list[a] /\ a # i
                                       /\ a = (IF j < i THEN j ELSE j + 1)
  <2>1. j \in 1 .. Len(list) - 1 /\ j \in 1 .. Len(list) /\ j + 1 \in 1 .. Len(list)
    BY <1>1, <1>3
  <2>2. others[j] = list[IF j < i THEN j ELSE j + 1]
    BY <1>3, <2>1 DEF Closed
  <2>3. CASE j < i
    BY <1>2, <2>1, <2>2, <2>3
  <2>4. CASE ~(j < i)
    <3>1. j + 1 # i
      BY <1>2, <2>1, <2>4
    <3> QED
      BY <2>1, <2>2, <2>4, <3>1
  <2> QED
    BY <2>3, <2>4
<1>5. \A a, b \in 1 .. Len(list) : list[a] = list[b] => a = b
  BY DEF LruOK
<1>6. ASSUME NEW j \in 1 .. Len(others)
      PROVE  others[j] \in fewer
  <2>1. PICK a \in 1 .. Len(list) : others[j] = list[a] /\ a # i
    BY <1>4
  <2>2. list[a] \in keys /\ list[a] # page
    BY <1>1, <1>2, <1>5, <2>1
  <2> QED
    BY <2>1, <2>2
<1>7. ASSUME NEW j \in 1 .. Len(others), NEW k \in 1 .. Len(others), others[j] = others[k]
      PROVE  j = k
  <2>1. PICK a \in 1 .. Len(list) : others[j] = list[a] /\ a = (IF j < i THEN j ELSE j + 1)
    BY <1>4
  <2>2. PICK b \in 1 .. Len(list) : others[k] = list[b] /\ b = (IF k < i THEN k ELSE k + 1)
    BY <1>4
  <2>3. a = b
    BY <1>5, <1>7, <2>1, <2>2
  <2>4. i \in Nat /\ j \in Nat /\ k \in Nat
    BY <1>1, <1>2, <1>3
  <2> QED
    BY <2>1, <2>2, <2>3, <2>4
<1>8. ASSUME NEW p \in fewer
      PROVE  \E j \in 1 .. Len(others) : others[j] = p
  <2>1. PICK a \in 1 .. Len(list) : list[a] = p
    BY DEF LruOK
  <2>2. CASE a < i
    <3>1. a \in 1 .. Len(list) - 1 /\ a \in 1 .. Len(others)
      BY <1>1, <1>2, <1>3, <2>2
    <3> QED
      BY <1>3, <2>1, <2>2, <3>1 DEF Closed
  <2>3. CASE a > i
    <3>1. /\ a - 1 \in 1 .. Len(list) - 1 /\ a - 1 \in 1 .. Len(others)
          /\ ~(a - 1 < i) /\ (a - 1) + 1 = a
      BY <1>1, <1>2, <1>3, <2>3
    <3> QED
      BY <1>3, <2>1, <3>1 DEF Closed
  <2> QED
    BY <1>2, <2>1, <2>2, <2>3
<1>9. others \in Seq(fewer) /\ Len(others) <= cap
  BY <1>1, <1>3, <1>6
<1> QED
  BY <1>7, <1>8, <1>9 DEF LruOK, others

(* The cache alone, as deleteTable sees it.                                *)
Cached == {c \in [list : Seq(Reach), map : SUBSET Reach] : LruOK(c.list, c.map)}

LEMMA DelStep ==
  ASSUME NEW c \in Cached, NEW page
  PROVE  Del(c, page) \in Cached /\ Del(c, page).map = c.map \ {page}
<1>1. CASE page \notin c.map
  BY <1>1 DEF Del
<1>2. CASE page \in c.map
  <2>1. PICK list, keys, fewer : list = c.list /\ keys = c.map /\ fewer = c.map \ {page}
    OBVIOUS
  <2>2. LruOK(list, keys) /\ page \in keys /\ fewer = keys \ {page} /\ keys \in SUBSET Reach
    BY <1>2, <2>1 DEF Cached
  <2>3. LruOK(Without(list, page), fewer)
    BY ONLY <2>2, PageDeleted
  <2>4. Without(list, page) \in Seq(fewer) /\ fewer \subseteq Reach
    BY <2>2, <2>3 DEF LruOK
  <2>5. Without(list, page) \in Seq(Reach)
    BY <2>4, SeqMonotonic
  <2>6. c = [list |-> list, map |-> keys]
    BY <2>1 DEF Cached
  <2>7. Del(c, page) = [list |-> Without(list, page), map |-> fewer]
    BY <1>2, <2>1, <2>6 DEF Del
  <2>8. PICK w : w = Without(list, page)
    OBVIOUS
  <2>9. [list |-> w, map |-> fewer] \in Cached
    BY <2>2, <2>3, <2>5, <2>8 DEF Cached
  <2> QED
    BY <2>1, <2>7, <2>8, <2>9
<1> QED
  BY <1>1, <1>2

LEMMA DeletionsLeave ==
  ASSUME NEW start \in Cached, NEW first \in Nat, NEW n \in Nat
  PROVE  /\ DelAll(start, first, n) \in Cached
         /\ DelAll(start, first, n).map = start.map \ (first .. first + n - 1)
<1> DEFINE Course(f) == f = [i \in 0 .. n |-> IF i = 0 THEN start ELSE Del(f[i - 1], first + i - 1)]
           step == [i \in 1 .. n |-> [c \in Cached |-> Del(c, first + i - 1)]]
<1>1. AreSteps(step, n, Cached)
  BY DelStep DEF AreSteps
<1>2. PICK g : IsCourse(g, start, step, n, Cached)
  <2> HIDE DEF step
  <2> QED
    BY ONLY n \in Nat, start \in Cached, <1>1, LoopHasCourse
<1>3. \A i \in 1 .. n : g[i] = Del(g[i - 1], first + i - 1)
  <2> TAKE i \in 1 .. n
  <2>1. i - 1 \in 0 .. n
    OBVIOUS
  <2>2. g[i - 1] \in Cached
    BY <1>2, <2>1 DEF IsCourse
  <2> QED
    BY <1>2, <2>2 DEF IsCourse
<1> HIDE DEF step
<1>4. Course(g)
  BY <1>2, <1>3 DEF IsCourse
<1>5. PICK f : f = (CHOOSE h : Course(h)) /\ Course(f)
  <2> HIDE DEF Course
  <2> QED
    BY <1>4
<1>6. DelAll(start, first, n) = f[n]
  BY <1>5 DEF DelAll
<1>7. f[0] = start /\ \A i \in 1 .. n : f[i] = Del(f[i - 1], first + i - 1)
  <2>1. f = [i \in 0 .. n |-> IF i = 0 THEN start ELSE Del(f[i - 1], first + i - 1)]
    BY <1>5
  <2>2. 0 \in 0 .. n /\ \A i \in 1 .. n : i \in 0 .. n /\ i # 0
    OBVIOUS
  <2> QED
    BY ONLY <2>1, <2>2
<1> DEFINE Bad == {i \in 0 .. n : ~(f[i] \in Cached /\ f[i].map = start.map \ (first .. first + i - 1))}
<1> SUFFICES n \notin Bad
  BY <1>6
<1> SUFFICES ASSUME Bad # {} PROVE FALSE
  OBVIOUS
<1>8. PICK m \in Bad : \A j \in Bad : m <= j
  <2>1. Bad \in SUBSET Nat
    OBVIOUS
  <2> HIDE DEF Bad
  <2> QED
    BY <2>1, LeastElement
<1>9. CASE m = 0
  BY <1>7, <1>8, <1>9
<1>10. CASE m # 0
  <2>1. m \in 1 .. n /\ m - 1 \in 0 .. n /\ m - 1 \notin Bad /\ m \in Nat
    BY <1>8, <1>10
  <2>2. f[m - 1] \in Cached /\ f[m - 1].map = start.map \ (first .. first + (m - 1) - 1)
    BY <2>1
  <2>3. f[m] = Del(f[m - 1], first + m - 1)
    BY <1>7, <2>1
  <2>4. f[m] \in Cached /\ f[m].map = f[m - 1].map \ {first + m - 1}
    BY <2>2, <2>3, DelStep
  <2>5. (first .. first + (m - 1) - 1) \cup {first + m - 1} = first .. first + m - 1
    BY <2>1
  <2>6. f[m].map = start.map \ (first .. first + m - 1)
    BY ONLY <2>2, <2>4, <2>5
  <2> QED
    BY <1>8, <2>4, <2>6
<1> QED
  BY <1>9, <1>10

-----------------------------------------------------------------------------
(* The slots of the tables.                                                *)
LEMMA NumbersApart ==
  ASSUME NEW a \in Nat, NEW b \in Nat, NEW w \in Nat, a < b
  PROVE  a * w \in Nat /\ b * w \in Nat /\ a * w + w <= b * w
<1>1. PICK k \in Nat : b = a + 1 + k
  <2>1. b - a - 1 \in Nat /\ b = a + 1 + (b - a - 1)
    OBVIOUS
  <2> QED
    BY <2>1
<1>2. a * w \in Nat /\ b * w \in Nat /\ k * w \in Nat
  OBVIOUS
<1>3. b * w = a * w + w + k * w
  BY <1>1
<1> QED
  BY <1>2, <1>3

(* The pages of a slot and the one after it are pages of the device, but   *)
(* for the one after the last; no two slots have a page in common.         *)
LEMMA SlotsApart ==
  ASSUME SpaceInv
  PROVE  /\ \A t \in Tables : Stored(t) =>
              First(t) \in Nat /\ First(t) .. First(t) + SlotPages \in SUBSET Reach
         /\ \A t, u \in Tables : Stored(t) /\ Stored(u) /\ t # u =>
              First(t) + SlotPages <= First(u) \/ First(u) + SlotPages <= First(t)
<1> DEFINE N == Cardinality(Zones)
           T == TablesPerZone
           Number(t) == place[t][1] * T + place[t][2]
<1>1. N \in Nat /\ T \in Nat /\ SlotPages \in Nat
  BY CacheConstants
<1>2. ASSUME NEW t \in Tables, Stored(t)
      PROVE  /\ place[t][1] \in Zones /\ place[t][1] \in Nat /\ place[t][2] \in 0 .. T - 1
             /\ place[t] = <<place[t][1], place[t][2]>>
  <2>1. place[t] \in Slots
    BY <1>2 DEF SpaceInv, Stored
  <2>2. PICK z \in Zones, i \in 0 .. T - 1 : place[t] = <<z, i>>
    BY <2>1 DEF Slots
  <2>3. z \in Nat
    BY CacheConstants
  <2> QED
    BY <2>2, <2>3
<1>3. ASSUME NEW t \in Tables, Stored(t)
      PROVE  Number(t) \in Nat /\ Number(t) < N * T /\ N * T \in Nat
  <2>1. place[t][1] \in Nat /\ place[t][1] < N
    BY <1>1, <1>2, <1>3, CacheConstants
  <2>2. place[t][1] * T \in Nat /\ N * T \in Nat /\ place[t][1] * T + T <= N * T
    BY <1>1, <2>1, NumbersApart
  <2> QED
    BY <1>1, <1>2, <1>3, <2>2
<1>4. ASSUME NEW t \in Tables, NEW u \in Tables, Stored(t), Stored(u), t # u
      PROVE  Number(t) # Number(u)
  <2>1. place[t] # place[u]
    BY <1>4 DEF SpaceInv
  <2>2. place[t][1] # place[u][1] \/ place[t][2] # place[u][2]
    BY <1>2, <1>4, <2>1
  <2>3. CASE place[t][1] = place[u][1]
    <3>1. PICK a \in Nat : a = place[t][1] * T /\ a = place[u][1] * T
      BY <1>1, <1>2, <1>4, <2>3
    <3>2. PICK i \in Nat, j \in Nat : i = place[t][2] /\ j = place[u][2] /\ i # j
      BY <1>1, <1>2, <1>4, <2>2, <2>3
    <3>3. Number(t) = a + i /\ Number(u) = a + j
      BY <3>1, <3>2
    <3> QED
      BY <3>2, <3>3
  <2>4. CASE place[t][1] < place[u][1]
    <3>1. place[t][1] * T \in Nat /\ place[u][1] * T \in Nat /\ place[t][1] * T + T <= place[u][1] * T
      BY <1>1, <1>2, <1>4, <2>4, NumbersApart
    <3> QED
      BY <1>1, <1>2, <1>4, <3>1
  <2>5. CASE place[u][1] < place[t][1]
    <3>1. place[t][1] * T \in Nat /\ place[u][1] * T \in Nat /\ place[u][1] * T + T <= place[t][1] * T
      BY <1>1, <1>2, <1>4, <2>5, NumbersApart
    <3> QED
      BY <1>1, <1>2, <1>4, <3>1
  <2> QED
    BY <1>2, <1>4, <2>3, <2>4, <2>5
<1>5. \A t : First(t) = Number(t) * SlotPages
  BY DEF First
<1> HIDE DEF Number
<1>6. ASSUME NEW t \in Tables, Stored(t)
      PROVE  First(t) \in Nat /\ First(t) .. First(t) + SlotPages \in SUBSET Reach
  <2>1. Number(t) * SlotPages \in Nat /\ (N * T) * SlotPages \in Nat
        /\ Number(t) * SlotPages + SlotPages <= (N * T) * SlotPages
    BY <1>1, <1>3, <1>6, NumbersApart
  <2>2. Reach = 0 .. (N * T) * SlotPages
    BY DEF Reach
  <2>3. First(t) = Number(t) * SlotPages
    BY <1>5
  <2> HIDE DEF N, T
  <2> QED
    BY <1>1, <2>1, <2>2, <2>3
<1>7. ASSUME NEW t \in Tables, NEW u \in Tables, Stored(t), Stored(u), t # u
      PROVE  First(t) + SlotPages <= First(u) \/ First(u) + SlotPages <= First(t)
  <2>1. Number(t) < Number(u) \/ Number(u) < Number(t)
    BY <1>3, <1>4, <1>7
  <2>2. CASE Number(t) < Number(u)
    BY <1>1, <1>3, <1>5, <1>7, <2>2, NumbersApart
  <2>3. CASE Number(u) < Number(t)
    BY <1>1, <1>3, <1>5, <1>7, <2>3, NumbersApart
  <2> QED
    BY <2>1, <2>2, <2>3
<1> QED
  BY <1>6, <1>7

(* Whatever the store does keeps tables in slots of their own, and moves   *)
(* no table but the one it is asked to.                                    *)
LEMMA SpaceStep ==
  ASSUME SpaceInv
  PROVE  /\ \A t \in Tables, z \in Zones : Place(t, z) =>
              SpaceInv' /\ ~Stored(t) /\ \A u \in Tables \ {t} : place'[u] = place[u]
         /\ \A z \in Zones : Finish(z) \/ Erase(z) => SpaceInv' /\ place' = place
         /\ \A t \in Tables, z \in Zones : Move(t, z) =>
              /\ SpaceInv' /\ Stored(t)' /\ \A u \in Tables \ {t} : place'[u] = place[u]
         /\ \A t \in Tables : Drop(t) =>
              /\ SpaceInv' /\ Stored(t) /\ ~Stored(t)' /\ \A u \in Tables \ {t} : place'[u] = place[u]
<1>1. /\ place \in [Tables -> Slots \cup {NoAddr}]
      /\ used \in [Zones -> 0 .. TablesPerZone] /\ written \in [Zones -> 0 .. TablesPerZone]
      /\ \A t \in Tables : Stored(t) => place[t][2] < used[place[t][1]]
      /\ \A t, u \in Tables : Stored(t) /\ place[t] = place[u] => t = u
      /\ TablesPerZone \in Nat /\ NoAddr \notin Slots
  BY CacheConstants DEF SpaceInv
<1>2. ASSUME NEW t \in Tables, Stored(t)
      PROVE  /\ place[t] \in Slots /\ place[t][1] \in Zones /\ place[t][2] \in 0 .. TablesPerZone - 1
             /\ place[t] = <<place[t][1], place[t][2]>>
  BY <1>1, <1>2 DEF Stored, Slots
<1>3. ASSUME NEW t \in Tables, NEW z \in Zones, used[z] < TablesPerZone,
             place' = [place EXCEPT ![t] = <<z, used[z]>>],
             used' = [used EXCEPT ![z] = @ + 1],
             written' \in [Zones -> 0 .. TablesPerZone]
      PROVE  SpaceInv' /\ Stored(t)' /\ \A u \in Tables \ {t} : place'[u] = place[u]
  <2>1. used[z] \in 0 .. TablesPerZone - 1 /\ used[z] \in Nat
    BY <1>1, <1>3
  <2>2. <<z, used[z]>> \in Slots /\ <<z, used[z]>> # NoAddr
    BY <1>1, <2>1 DEF Slots
  <2>3. place' \in [Tables -> Slots \cup {NoAddr}] /\ used' \in [Zones -> 0 .. TablesPerZone]
    BY <1>1, <1>3, <2>1, <2>2
  <2>4. place'[t] = <<z, used[z]>> /\ \A u \in Tables \ {t} : place'[u] = place[u]
    BY <1>1, <1>3
  <2>5. used'[z] = used[z] + 1 /\ \A y \in Zones \ {z} : used'[y] = used[y]
    BY <1>1, <1>3
  <2>6. ASSUME NEW u \in Tables \ {t}, Stored(u)
        PROVE  place[u][2] < used'[place[u][1]] /\ place[u] # <<z, used[z]>>
    <3>1. place[u][2] < used[place[u][1]] /\ place[u][1] \in Zones /\ place[u][2] \in Nat
      BY <1>1, <1>2, <2>6
    <3> QED
      BY <2>1, <2>5, <3>1
  <2>7. \A u \in Tables : Stored(u)' => place'[u][2] < used'[place'[u][1]]
    BY <2>1, <2>4, <2>5, <2>6 DEF Stored
  <2>8. \A u, v \in Tables : Stored(u)' /\ place'[u] = place'[v] => u = v
    BY <1>1, <2>2, <2>4, <2>6 DEF Stored
  <2> QED
    BY <1>3, <2>2, <2>3, <2>4, <2>7, <2>8 DEF SpaceInv, Stored
<1>4. ASSUME NEW t \in Tables, NEW z \in Zones, Place(t, z)
      PROVE  SpaceInv' /\ ~Stored(t) /\ \A u \in Tables \ {t} : place'[u] = place[u]
  BY <1>1, <1>3, <1>4 DEF Place
<1>5. ASSUME NEW t \in Tables, NEW z \in Zones, Move(t, z)
      PROVE  SpaceInv' /\ Stored(t)' /\ \A u \in Tables \ {t} : place'[u] = place[u]
  <2>1. written' \in [Zones -> 0 .. TablesPerZone]
    <3>1. written[z] \in 0 .. TablesPerZone /\ written[z] + 1 \in 0 .. TablesPerZone
      BY <1>1, <1>5 DEF Move
    <3> QED
      BY <1>1, <1>5, <3>1 DEF Move
  <2> QED
    BY <1>3, <1>5, <2>1 DEF Move
<1>6. ASSUME NEW t \in Tables, Drop(t)
      PROVE  /\ SpaceInv' /\ Stored(t) /\ ~Stored(t)'
             /\ \A u \in Tables \ {t} : place'[u] = place[u]
  BY <1>1, <1>6 DEF Drop, Durable, Stored, SpaceInv
<1>7. ASSUME NEW z \in Zones, Finish(z)
      PROVE  SpaceInv' /\ place' = place
  <2>1. written[z] \in 0 .. TablesPerZone /\ used[z] \in 0 .. TablesPerZone /\ written[z] < used[z]
    BY <1>1, <1>7 DEF Finish
  <2>2. written[z] + 1 \in 0 .. TablesPerZone
    BY <1>1, <2>1
  <2> QED
    BY <1>1, <1>7, <2>2 DEF Finish, SpaceInv, Stored
<1>8. ASSUME NEW z \in Zones, Erase(z)
      PROVE  SpaceInv' /\ place' = place
  <2>1. 0 \in 0 .. TablesPerZone
    BY <1>1
  <2>2. used' \in [Zones -> 0 .. TablesPerZone] /\ written' \in [Zones -> 0 .. TablesPerZone]
    BY <1>1, <1>8, <2>1 DEF Erase
  <2>3. place' = place /\ \A y \in Zones \ {z} : used'[y] = used[y]
    BY <1>1, <1>8 DEF Erase
  <2>4. \A t \in Tables : Stored(t) => place[t][1] # z
    BY <1>8 DEF Erase
  <2>5. \A t \in Tables : Stored(t) => place[t][2] < used'[place[t][1]]
    BY <1>1, <1>2, <2>3, <2>4
  <2> QED
    BY <1>1, <2>2, <2>3, <2>5 DEF SpaceInv, Stored
<1> QED
  BY <1>4, <1>5, <1>6, <1>7, <1>8

-----------------------------------------------------------------------------
(* The inductive invariant.                                                *)
LEMMA CacheInitInv == CacheInit => CacheInv
<1> SUFFICES ASSUME CacheInit
             PROVE  CacheInv
  OBVIOUS
<1>1. SpaceInv
  BY CacheConstants DEF CacheInit, Init, SpaceInv, Stored
<1>2. LruOK(cache, map)
  BY CacheConstants DEF CacheInit, LruOK
<1>3. map \in SUBSET Pages /\ readFor \in [Pages -> Tables \cup {NoTable}] /\ PagesAccounted
  BY DEF CacheInit, PagesAccounted
<1> QED
  BY <1>1, <1>2, <1>3 DEF CacheInv

(* What getValue's loop has done when it ends.                             *)
LEMMA GetValueVisits ==
  ASSUME CacheInv, NEW t \in Tables, NEW l \in HeaderPages .. (SlotPages - 1),
         NEW r \in l .. SlotPages, GetValue(t, l, r)
  PROVE  \E c \in Visiting :
           /\ VisitInv(c, map, First(t) + l, r - l + 1)
           /\ Fetched(c) \subseteq Pages
           /\ cache' = c.list /\ map' = c.map
           /\ readFor' = [p \in Pages |-> IF p \notin c.map THEN NoTable
                                          ELSE IF p \in Fetched(c) THEN t ELSE readFor[p]]
           /\ astray' = (astray \cap c.map) \ Fetched(c)
<1> DEFINE start == [list |-> cache, map |-> map, left |-> None, right |-> None, interval |-> <<>>]
           c == VisitAll(start, First(t) + l, r - l + 1)
<1>1. /\ Stored(t) /\ Fetched(c) \subseteq Pages /\ cache' = c.list /\ map' = c.map
      /\ readFor' = [p \in Pages |-> IF p \notin c.map THEN NoTable
                                     ELSE IF p \in Fetched(c) THEN t ELSE readFor[p]]
      /\ astray' = (astray \cap c.map) \ Fetched(c)
  BY DEF GetValue, Looked, Durable
<1>2. start \in Visiting
  <2>1. cache \in Seq(map) /\ map \subseteq Pages
    BY DEF CacheInv, LruOK
  <2>2. map \subseteq Reach /\ cache \in Seq(Reach)
    BY <2>1, SeqMonotonic, CacheConstants
  <2>3. LruOK(cache, map)
    BY DEF CacheInv
  <2> QED
    BY <2>1, <2>2, <2>3 DEF Visiting
<1>3. First(t) \in Nat /\ First(t) .. First(t) + SlotPages \in SUBSET Reach
  BY <1>1, SlotsApart DEF CacheInv
<1>4. /\ First(t) + l \in Nat /\ r - l + 1 \in Nat
      /\ (First(t) + l) .. (First(t) + l) + (r - l + 1) - 1 \in SUBSET Reach
  <2>1. HeaderPages \in Nat /\ SlotPages \in Nat /\ r \in Nat /\ l \in Nat /\ l <= r /\ r <= SlotPages
    BY CacheConstants
  <2>2. (First(t) + l) .. (First(t) + l) + (r - l + 1) - 1 \in SUBSET (First(t) .. First(t) + SlotPages)
    BY <1>3, <2>1
  <2> QED
    BY <1>3, <2>1, <2>2
<1>5. start.left = None /\ start.interval = <<>> /\ start.map = map
  OBVIOUS
<1> HIDE DEF start
<1>6. VisitInv(c, map, First(t) + l, r - l + 1)
  BY <1>2, <1>4, <1>5, VisitsKeepInv
<1>7. c \in Visiting
  BY <1>6 DEF VisitInv
<1> QED
  BY <1>1, <1>6, <1>7

LEMMA GetValueKeepsInv ==
  ASSUME CacheInv, NEW t \in Tables, NEW l \in HeaderPages .. (SlotPages - 1),
         NEW r \in l .. SlotPages, GetValue(t, l, r)
  PROVE  CacheInv'
<1>1. PICK c \in Visiting :
           /\ VisitInv(c, map, First(t) + l, r - l + 1)
           /\ Fetched(c) \subseteq Pages
           /\ cache' = c.list /\ map' = c.map
           /\ readFor' = [p \in Pages |-> IF p \notin c.map THEN NoTable
                                          ELSE IF p \in Fetched(c) THEN t ELSE readFor[p]]
           /\ astray' = (astray \cap c.map) \ Fetched(c)
  BY GetValueVisits
<1>2. Stored(t) /\ UNCHANGED <<place, used, written>>
  BY DEF GetValue, Durable, space
<1>3. SpaceInv' /\ (\A u : First(u)' = First(u)) /\ \A u : Stored(u)' = Stored(u)
  BY <1>2 DEF CacheInv, SpaceInv, First, Stored
<1>4. c.map \in SUBSET Pages /\ LruOK(c.list, c.map)
  <2>1. c.map \in SUBSET Reach /\ LruOK(c.list, c.map)
    BY DEF Visiting
  <2>2. \A p \in c.map : p \in map \/ p \in Fetched(c)
    BY <1>1, <2>1, FetchedPages DEF VisitInv
  <2>3. map \subseteq Pages
    BY DEF CacheInv
  <2> QED
    BY <1>1, <2>1, <2>2, <2>3
<1>5. LruOK(cache, map)' /\ map' \in SUBSET Pages
  BY <1>1, <1>4 DEF LruOK
<1>6. readFor \in [Pages -> Tables \cup {NoTable}] /\ PagesAccounted
  BY DEF CacheInv
<1>7. readFor' \in [Pages -> Tables \cup {NoTable}]
  BY <1>1, <1>6
<1>8. ASSUME NEW p \in Reach, p \in Fetched(c)
      PROVE  p \in First(t) .. First(t) + SlotPages
  <2>1. First(t) \in Nat /\ SlotPages \in Nat /\ r \in Nat /\ l \in Nat /\ l <= r /\ r <= SlotPages
    BY <1>2, SlotsApart, CacheConstants DEF CacheInv
  <2>2. PICK first, last : first = First(t) + l /\ last = first + (r - l + 1) - 1
    OBVIOUS
  <2>3. first <= p /\ p <= last
    <3>1. InBatch(c, p) /\ p \in Nat
      BY <1>8, FetchedPages, CacheConstants
    <3>2. first \in Nat /\ last \in Nat
      BY <2>1, <2>2
    <3>3. CASE \E i \in 1 .. Len(c.interval) : c.interval[i][1] <= p /\ p <= c.interval[i][2]
      <4>1. PICK i \in 1 .. Len(c.interval) : c.interval[i][1] <= p /\ p <= c.interval[i][2]
        BY <3>3
      <4>2. first <= c.interval[i][1] /\ c.interval[i][2] <= last
        BY <1>1, <2>2 DEF VisitInv
      <4>3. PICK a \in Reach, b \in Reach : c.interval[i] = <<a, b>>
        BY DEF Visiting
      <4>4. a \in Nat /\ b \in Nat
        BY CacheConstants
      <4> QED
        BY <3>1, <3>2, <4>1, <4>2, <4>3, <4>4
    <3>4. CASE c.left # None /\ c.left <= p /\ p <= c.right
      <4>1. c.left \in first .. c.right /\ c.right = last
        BY <1>1, <2>2, <3>4 DEF VisitInv
      <4> QED
        BY <3>1, <3>2, <3>4, <4>1
    <3> QED
      BY <3>1, <3>3, <3>4 DEF InBatch
  <2>4. p \in Nat
    BY CacheConstants
  <2> QED
    BY <2>1, <2>2, <2>3, <2>4
<1>9. ASSUME NEW p \in c.map, p \notin Fetched(c)
      PROVE  p \in map
  BY <1>1, <1>4, <1>9, FetchedPages, CacheConstants DEF VisitInv
<1>10. PagesAccounted'
  <2> SUFFICES ASSUME NEW p \in map'
               PROVE  /\ readFor'[p] # NoTable
                      /\ p \notin astray' => /\ Stored(readFor'[p])
                                             /\ p \in First(readFor'[p]) .. First(readFor'[p]) + SlotPages
    BY <1>3 DEF PagesAccounted
  <2>1. p \in c.map /\ p \in Pages
    BY <1>1, <1>4
  <2>2. CASE p \in Fetched(c)
    <3>1. readFor'[p] = t
      BY <1>1, <2>1, <2>2
    <3> QED
      BY <1>2, <1>8, <2>1, <2>2, <3>1, CacheConstants
  <2>3. CASE p \notin Fetched(c)
    <3>1. readFor'[p] = readFor[p]
      BY <1>1, <2>1, <2>3
    <3>2. p \in map /\ (p \notin astray' => p \notin astray)
      BY <1>1, <1>9, <2>1, <2>3
    <3> QED
      BY <1>6, <3>1, <3>2 DEF PagesAccounted
  <2> QED
    BY <2>2, <2>3
<1> QED
  BY <1>3, <1>5, <1>7, <1>10 DEF CacheInv

(* deleteTable forgets all the pages of the slot.                          *)
LEMMA DeleteTableKeepsInv ==
  ASSUME CacheInv, NEW t \in Tables, DeleteTable(t)
  PROVE  CacheInv'
<1> DEFINE start == [list |-> cache, map |-> map]
           all == DelAll(start, First(t), Cleared)
<1>1. /\ Drop(t) /\ cache' = all.list /\ map' = all.map
      /\ readFor' = [p \in Pages |-> IF p \in all.map THEN readFor[p] ELSE NoTable]
      /\ astray' = astray \cap all.map
  BY DEF DeleteTable
<1>2. /\ SpaceInv' /\ Stored(t) /\ \A u \in Tables \ {t} : place'[u] = place[u]
  BY <1>1, SpaceStep DEF CacheInv
<1>3. start \in Cached
  <2>1. cache \in Seq(map) /\ map \subseteq Pages /\ LruOK(cache, map)
    BY DEF CacheInv, LruOK
  <2>2. map \subseteq Reach /\ cache \in Seq(Reach)
    BY <2>1, SeqMonotonic, CacheConstants
  <2> QED
    BY <2>1, <2>2 DEF Cached
<1>4. First(t) \in Nat /\ Cleared \in Nat /\ SlotPages \in Nat
  BY <1>2, SlotsApart, CacheConstants DEF CacheInv, Cleared
<1>5. PICK c \in Cached : c = all /\ c.map = map \ (First(t) .. First(t) + Cleared - 1)
  <2>1. start.map = map
    OBVIOUS
  <2> HIDE DEF start
  <2> QED
    BY <1>3, <1>4, <2>1, DeletionsLeave
<1> HIDE DEF all
<1>6. LruOK(cache, map)' /\ map' \in SUBSET Pages
  <2>1. LruOK(cache, map)' /\ map' \subseteq map
    BY <1>1, <1>5 DEF Cached, LruOK
  <2>2. map \subseteq Pages
    BY DEF CacheInv
  <2> QED
    BY <2>1, <2>2
<1>7. readFor \in [Pages -> Tables \cup {NoTable}] /\ map \in SUBSET Pages /\ PagesAccounted
  BY DEF CacheInv
<1>8. readFor' \in [Pages -> Tables \cup {NoTable}]
  BY <1>1, <1>7
<1>9. PagesAccounted'
  <2> SUFFICES ASSUME NEW p \in map'
               PROVE  /\ readFor'[p] = readFor[p] /\ readFor[p] # NoTable
                      /\ p \notin astray' =>
                           /\ place'[readFor[p]] = place[readFor[p]] /\ Stored(readFor[p])
                           /\ p \in First(readFor[p]) .. First(readFor[p]) + SlotPages
    BY DEF PagesAccounted, First, Stored
  <2>1. PICK u : u = readFor[p]
    OBVIOUS
  <2>2. p \in map /\ p \in Pages /\ p \notin First(t) .. First(t) + SlotPages
    BY <1>1, <1>4, <1>5, <1>7 DEF Cleared
  <2>3. readFor'[p] = u /\ u \in Tables /\ (p \notin astray' => p \notin astray)
    BY <1>1, <1>5, <1>7, <2>1, <2>2 DEF PagesAccounted
  <2>4. p \notin astray => Stored(u) /\ p \in First(u) .. First(u) + SlotPages
    BY <1>7, <2>1, <2>2 DEF PagesAccounted
  <2>5. CASE p \notin astray
    <3>1. u # t
      BY <2>2, <2>4, <2>5
    <3>2. place'[u] = place[u]
      BY <1>2, <2>3, <3>1
    <3> QED
      BY <2>1, <2>3, <2>4, <2>5, <3>2, CacheConstants
  <2>6. CASE p \in astray
    BY <2>1, <2>3, <2>6, CacheConstants
  <2> QED
    BY <2>5, <2>6
<1> QED
  BY <1>2, <1>6, <1>8, <1>9 DEF CacheInv

(* The other calls leave the cache alone; a table that is moved leaves its *)
(* pages behind, and they are astray.                                      *)
LEMMA SpaceKeepsCacheInv ==
  ASSUME CacheInv, SpaceInv', UNCHANGED <<lru, readFor>>, NEW moved \in SUBSET Tables,
         \A u \in Tables \ moved : place'[u] = place[u],
         \A p \in map : readFor[p] \in moved => p \in astray \/ p \in astray',
         astray \subseteq astray'
  PROVE  CacheInv'
<1>1. cache' = cache /\ map' = map /\ readFor' = readFor
  BY DEF lru
<1>2. readFor \in [Pages -> Tables \cup {NoTable}] /\ map \in SUBSET Pages /\ PagesAccounted /\ LruOK(cache, map)
  BY DEF CacheInv
<1>3. ASSUME NEW p \in map
      PROVE  /\ readFor[p] # NoTable
             /\ p \notin astray' => /\ place'[readFor[p]] = place[readFor[p]]
                                    /\ Stored(readFor[p])
                                    /\ p \in First(readFor[p]) .. First(readFor[p]) + SlotPages
  <2>1. readFor[p] \in Tables
    BY <1>2 DEF PagesAccounted
  <2>2. p \notin astray' => readFor[p] \notin moved /\ p \notin astray
    OBVIOUS
  <2> QED
    BY <1>2, <2>1, <2>2, CacheConstants DEF PagesAccounted
<1>4. PagesAccounted'
  BY <1>1, <1>3 DEF PagesAccounted, Stored, First
<1>5. LruOK(cache, map)'
  BY <1>1, <1>2 DEF LruOK
<1> QED
  BY <1>1, <1>2, <1>4, <1>5 DEF CacheInv

LEMMA CacheStepInv ==
  ASSUME CacheInv, [CacheNext]_vars
  PROVE  CacheInv'
<1>1. ASSUME NEW t \in Tables, WriteTable(t)
      PROVE  CacheInv'
  <2>1. PICK z \in Zones : Place(t, z) /\ UNCHANGED <<lru, readFor, astray>>
    BY <1>1 DEF WriteTable, history
  <2>2. SpaceInv' /\ ~Stored(t) /\ \A u \in Tables \ {t} : place'[u] = place[u]
    BY <2>1, SpaceStep DEF CacheInv
  <2>3. \A p \in map : readFor[p] = t => p \in astray
    BY <2>2 DEF CacheInv, PagesAccounted
  <2>4. UNCHANGED <<lru, readFor>> /\ astray' = astray /\ {t} \in SUBSET Tables
    BY <2>1
  <2> QED
    BY <2>2, <2>3, <2>4, SpaceKeepsCacheInv
<1>2. ASSUME NEW t \in Tables, Relocate(t)
      PROVE  CacheInv'
  <2>1. PICK z \in Zones : Move(t, z)
    BY <1>2 DEF Relocate
  <2>2. SpaceInv' /\ \A u \in Tables \ {t} : place'[u] = place[u]
    BY <2>1, SpaceStep DEF CacheInv
  <2>3. /\ UNCHANGED <<lru, readFor>> /\ astray' = astray \cup {p \in map : readFor[p] = t}
        /\ {t} \in SUBSET Tables
    BY <1>2 DEF Relocate
  <2>4. (\A p \in map : readFor[p] \in {t} => p \in astray') /\ astray \subseteq astray'
    BY <2>3
  <2> QED
    BY <2>2, <2>3, <2>4, SpaceKeepsCacheInv
<1>3. ASSUME NEW z \in Zones, EndWrite(z) \/ EraseZone(z)
      PROVE  CacheInv'
  <2>1. SpaceInv' /\ place' = place
    BY <1>3, SpaceStep DEF CacheInv, EndWrite, EraseZone
  <2>2. UNCHANGED <<lru, readFor>> /\ astray' = astray /\ {} \in SUBSET Tables
    BY <1>3 DEF EndWrite, EraseZone, history
  <2> QED
    BY <2>1, <2>2, SpaceKeepsCacheInv
<1>4. ASSUME UNCHANGED <<space, lru, history>>
      PROVE  CacheInv'
  <2>1. UNCHANGED <<lru, readFor>> /\ astray' = astray /\ UNCHANGED <<place, used, written>>
    BY <1>4 DEF space, history
  <2>2. SpaceInv'
    BY <2>1 DEF CacheInv, SpaceInv, Stored
  <2>3. {} \in SUBSET Tables /\ place' = place
    BY <2>1
  <2> QED
    BY <2>1, <2>2, <2>3, SpaceKeepsCacheInv
<1>5. ASSUME NEW t \in Tables, Read(t)
      PROVE  CacheInv'
  <2> PICK l \in HeaderPages .. (SlotPages - 1) :
        \E r \in l .. SlotPages : GetValue(t, l, r) \/ GetValueAborts(t, l, r)
    BY <1>5 DEF Read
  <2>1. PICK r \in l .. SlotPages : GetValue(t, l, r) \/ GetValueAborts(t, l, r)
    OBVIOUS
  <2>2. CASE GetValue(t, l, r)
    BY <2>2, GetValueKeepsInv
  <2>3. CASE GetValueAborts(t, l, r)
    BY <1>4, <2>3 DEF GetValueAborts
  <2> QED
    BY <2>1, <2>2, <2>3
<1>6. ASSUME UNCHANGED vars
      PROVE  CacheInv'
  BY <1>4, <1>6 DEF vars
<1>7. CASE Aborted
  BY <1>6, <1>7 DEF Aborted
<1> QED
  BY <1>1, <1>2, <1>3, <1>5, <1>6, <1>7, DeleteTableKeepsInv DEF CacheNext

(* CacheInv holds in every state.                                          *)
THEOREM CacheInvariance == CacheSpec => []CacheInv
<1>1. CacheInit => CacheInv
  BY CacheInitInv
<1>2. CacheInv /\ [CacheNext]_vars => CacheInv'
  BY CacheStepInv
<1> QED
  BY <1>1, <1>2, PTL DEF CacheSpec

-----------------------------------------------------------------------------
(* The list and the map of LRUCache hold the same pages, each once, and no *)
(* more than cap.                                                          *)
THEOREM CacheIsConsistent == CacheSpec => []CacheConsistent
<1>1. CacheInv => CacheConsistent
  <2> SUFFICES ASSUME CacheInv
               PROVE  CacheConsistent
    OBVIOUS
  <2>1. LruOK(cache, map) /\ cache \in Seq(map) /\ Len(cache) \in Nat /\ DOMAIN cache = 1 .. Len(cache)
    BY DEF CacheInv, LruOK
  <2>2. \A i \in 1 .. Len(cache) : cache[i] \in map
    BY <2>1
  <2>3. ToSet(cache) = map
    BY <2>1, <2>2 DEF ToSet, LruOK
  <2>4. cache \in Bijection(1 .. Len(cache), map)
    <3>1. cache \in [1 .. Len(cache) -> map]
      BY <2>1
    <3>2. \A i, j \in 1 .. Len(cache) : cache[i] = cache[j] => i = j
      BY <2>1 DEF LruOK
    <3>3. \A p \in map : \E i \in 1 .. Len(cache) : cache[i] = p
      BY <2>1 DEF LruOK
    <3> QED
      BY ONLY <3>1, <3>2, <3>3 DEF Bijection, Injection, IsInjective, Surjection
  <2>5. ExistsBijection(1 .. Len(cache), map)
    BY <2>4 DEF ExistsBijection
  <2>6. Cardinality(map) = Len(cache)
    BY <2>1, <2>5, FS_CountingElements
  <2> QED
    BY <2>1, <2>3, <2>6 DEF CacheConsistent, LruOK
<1> QED
  BY <1>1, CacheInvariance, PTL

(* Whatever is cached was read for a table that still has the page, unless *)
(* relocation has moved the table away.                                    *)
THEOREM PagesAreAccounted == CacheSpec => []PagesAccounted
<1>1. CacheInv => PagesAccounted
  BY DEF CacheInv
<1> QED
  BY <1>1, CacheInvariance, PTL

(* Relocation apart, a hit of getValue on a page with values is a page of  *)
(* its own table.                                                          *)
THEOREM HitsBelongToTable == CacheSpec => []HitsAreOwn
<1>1. CacheInv => HitsAreOwn
  <2> SUFFICES ASSUME CacheInv, NEW t \in Tables, Stored(t),
                      NEW p \in (First(t) + HeaderPages .. First(t) + SlotPages - 1) \cap (map \ astray),
                      readFor[p] # t
               PROVE  FALSE
    BY DEF HitsAreOwn
  <2>1. PICK u : u = readFor[p]
    OBVIOUS
  <2>2. u \in Tables /\ Stored(u) /\ p \in First(u) .. First(u) + SlotPages
    BY <2>1 DEF CacheInv, PagesAccounted
  <2>3. First(t) \in Nat /\ First(u) \in Nat
    BY <2>2, SlotsApart DEF CacheInv
  <2>4. First(t) + SlotPages <= First(u) \/ First(u) + SlotPages <= First(t)
    BY <2>1, <2>2, SlotsApart DEF CacheInv
  <2>5. HeaderPages \in Nat /\ 1 <= HeaderPages /\ SlotPages \in Nat
    BY CacheConstants
  <2>6. /\ p \in Int /\ First(t) + HeaderPages <= p /\ p <= First(t) + SlotPages - 1
        /\ First(u) <= p /\ p <= First(u) + SlotPages
    BY <2>2, <2>3, <2>5
  <2> QED
    BY <2>3, <2>4, <2>5, <2>6
<1> QED
  BY <1>1, CacheInvariance, PTL

(* After getValue its pages are cached, if the cache can hold that many.   *)
THEOREM VisitedPagesStay == CacheSpec => RangeStays
<1>1. CacheInv /\ [CacheNext]_vars =>
        [\A t \in Tables : Durable(t) => \A l \in HeaderPages .. (SlotPages - 1) : \A r \in l .. SlotPages :
           r - l < cap /\ ~(First(t) + l .. First(t) + r \subseteq map') => ~GetValue(t, l, r)]_vars
  <2> SUFFICES ASSUME CacheInv, NEW t \in Tables, NEW l \in HeaderPages .. (SlotPages - 1),
                      NEW r \in l .. SlotPages, r - l < cap, GetValue(t, l, r),
                      NEW p \in First(t) + l .. First(t) + r
               PROVE  p \in map'
    OBVIOUS
  <2>1. PICK c \in Visiting : VisitInv(c, map, First(t) + l, r - l + 1) /\ map' = c.map
    BY GetValueVisits
  <2>2. First(t) \in Nat /\ r \in Nat /\ l \in Nat /\ l <= r /\ cap \in Nat
    BY SlotsApart, CacheConstants DEF CacheInv, GetValue, Durable
  <2>3. PICK j : j = First(t) + l + (r - l + 1) - p
    OBVIOUS
  <2>4. j \in 1 .. r - l + 1 /\ r - l + 1 <= cap /\ (First(t) + l) + (r - l + 1) - j = p
    BY <2>2, <2>3
  <2>5. r - l + 1 <= Len(c.list) /\ c.list[j] = (First(t) + l) + (r - l + 1) - j
    BY <2>1, <2>4 DEF VisitInv
  <2>6. c.list \in Seq(c.map) /\ Len(c.list) \in Nat /\ j \in 1 .. Len(c.list)
    BY <2>2, <2>4, <2>5 DEF Visiting, LruOK
  <2> QED
    BY <2>1, <2>4, <2>5, <2>6
<1> QED
  BY <1>1, CacheInvariance, PTL DEF CacheSpec, RangeStays

=============================================================================
