------------------------------ MODULE FtlProofs ------------------------------
(***************************************************************************)
(* The layout of Ftl, proved for every geometry of the device: the write   *)
(* pointer, locate_page and the walk of a read agree on where a page lies, *)
(* no two zones share one, and a reset erases all of its zone and no more. *)
(***************************************************************************)
EXTENDS Ftl, Induction

(* Zones a lun holds on each group of channels.                            *)
Depth == blks_per_pl \div End

(* The place of page n of zone z, whatever wpp is.                         *)
Place(z, n) ==
  [ch  |-> (n % ChsPerFcg) + FCGid(z) * ChsPerFcg,
   lun |-> z \div ZonesPerLun,
   blk |-> ((n \div ChsPerFcg) % End) + FirstBlk(z),
   pg  |-> (n \div ChsPerFcg) \div End]

-----------------------------------------------------------------------------
(* Division with remainder.                                                *)
LEMMA DigitsUnique ==
  ASSUME NEW b \in Nat \ {0}, NEW q \in Nat, NEW p \in Nat,
         NEW r \in 0 .. (b - 1), NEW s \in 0 .. (b - 1), b * q + r = b * p + s
  PROVE  q = p /\ r = s
OBVIOUS

LEMMA DivisionExact ==
  ASSUME NEW a \in Nat \ {0}, NEW b \in Nat \ {0}, a % b = 0
  PROVE  a = b * (a \div b) /\ a \div b \in Nat \ {0}
<1>1. a \div b \in Nat /\ a = b * (a \div b)
  BY Division
<1> QED
  BY <1>1

(* The quotient and the remainder of the next number.                      *)
LEMMA NextDivision ==
  ASSUME NEW n \in Nat, NEW b \in Nat \ {0}
  PROVE  \/ /\ (n % b) + 1 # b
            /\ (n + 1) % b = (n % b) + 1 /\ (n + 1) \div b = n \div b
         \/ /\ (n % b) + 1 = b
            /\ (n + 1) % b = 0 /\ (n + 1) \div b = (n \div b) + 1
<1>1. PICK q \in Nat, r \in 0 .. (b - 1) : n \div b = q /\ n % b = r /\ n = b * q + r
  BY Division
<1>2. CASE r + 1 # b
  <2>1. r + 1 \in 0 .. (b - 1) /\ n + 1 = b * q + (r + 1)
    BY <1>1, <1>2
  <2>2. (n + 1) \div b = q /\ (n + 1) % b = r + 1
    BY ONLY q \in Nat, <2>1, b \in Nat \ {0}, DivisionUnique
  <2> QED
    BY <1>1, <1>2, <2>2
<1>3. CASE r + 1 = b
  <2>1. 0 \in 0 .. (b - 1) /\ q + 1 \in Nat /\ n + 1 = b * (q + 1) + 0
    BY <1>1, <1>3
  <2>2. (n + 1) \div b = q + 1 /\ (n + 1) % b = 0
    BY ONLY <2>1, b \in Nat \ {0}, DivisionUnique
  <2> QED
    BY <1>1, <1>3, <2>2
<1> QED
  BY <1>2, <1>3

(* The test whether a number of the form c * k + r is the last before a    *)
(* multiple of c.                                                          *)
LEMMA LastTest ==
  ASSUME NEW b \in Nat \ {0}, NEW r \in 0 .. (b - 1), NEW k \in Nat
  PROVE  (r + b * k + 1) % b # 0 <=> r + 1 # b
<1>1. CASE r + 1 # b
  <2>1. r + 1 \in 0 .. (b - 1) /\ r + b * k + 1 = b * k + (r + 1)
    BY <1>1
  <2> QED
    BY ONLY <1>1, <2>1, b \in Nat \ {0}, k \in Nat, DivisionUnique, r \in 0 .. (b - 1)
<1>2. CASE r + 1 = b
  <2>1. 0 \in 0 .. (b - 1) /\ k + 1 \in Nat /\ r + b * k + 1 = b * (k + 1) + 0
    BY <1>2
  <2> QED
    BY ONLY <1>2, <2>1, b \in Nat \ {0}, DivisionUnique
<1> QED
  BY <1>1, <1>2

-----------------------------------------------------------------------------
(* The geometry: a group has ChsPerFcg channels, a zone End blocks on each *)
(* of them, a lun Depth zones on each group.                               *)
LEMMA Geometry ==
  /\ {num_fcg, luns_per_ch, pgs_per_blk, ChsPerFcg, End, Depth, ZonesPerLun, ZonePages} \subseteq Nat \ {0}
  /\ nchs = num_fcg * ChsPerFcg
  /\ blks_per_pl = End * Depth
  /\ ZonesPerLun = Depth * num_fcg
  /\ ZonePages = ChsPerFcg * (End * pgs_per_blk)
<1>1. {num_fcg, nchs, luns_per_ch, blks_per_pl, pgs_per_blk, zone_blks} \subseteq Nat \ {0}
  BY GeometryAssumption
<1>2. nchs = num_fcg * ChsPerFcg /\ ChsPerFcg \in Nat \ {0}
  <2>1. nchs % num_fcg = 0
    BY GeometryAssumption
  <2> QED
    BY ONLY <1>1, <2>1, DivisionExact DEF ChsPerFcg
<1>3. zone_blks = ChsPerFcg * End /\ End \in Nat \ {0}
  <2>1. zone_blks % ChsPerFcg = 0
    BY GeometryAssumption
  <2> QED
    BY ONLY <1>1, <1>2, <2>1, DivisionExact DEF End
<1>4. blks_per_pl = End * Depth /\ Depth \in Nat \ {0}
  <2>1. blks_per_pl % End = 0
    BY GeometryAssumption
  <2> QED
    BY ONLY <1>1, <1>3, <2>1, DivisionExact DEF Depth
<1>5. ZonesPerLun = Depth * num_fcg
  <2>1. blks_per_pl * nchs = zone_blks * (Depth * num_fcg) + 0
    BY <1>1, <1>2, <1>3, <1>4
  <2>2. Depth * num_fcg \in Nat
    BY <1>1, <1>4
  <2> QED
    BY ONLY <1>1, <2>1, <2>2, DivisionUnique, 0 \in 0 .. (zone_blks - 1) DEF ZonesPerLun
<1>6. ZonePages = ChsPerFcg * (End * pgs_per_blk)
  BY <1>1, <1>2, <1>3 DEF ZonePages
<1>7. ZonesPerLun \in Nat \ {0} /\ ZonePages \in Nat \ {0}
  BY <1>1, <1>2, <1>3, <1>4, <1>5, ProductType DEF ZonePages
<1> QED
  BY <1>1, <1>2, <1>3, <1>4, <1>5, <1>6, <1>7

(* Row(z) counts the zones before z on its group of channels and its lun.  *)
Row(z) == (z \div num_fcg) % Depth

LEMMA ZoneNumber ==
  ASSUME NEW z \in Zones
  PROVE  /\ z \in Nat
         /\ FCGid(z) \in 0 .. (num_fcg - 1)
         /\ Row(z) \in 0 .. (Depth - 1) /\ FirstBlk(z) = End * Row(z)
         /\ z \div ZonesPerLun \in 0 .. (luns_per_ch - 1)
         /\ z = num_fcg * (Depth * (z \div ZonesPerLun) + Row(z)) + FCGid(z)
<1> DEFINE F == num_fcg
           q == z \div F
           l == q \div Depth
<1>1. /\ {F, luns_per_ch, End, Depth, ZonesPerLun} \subseteq Nat \ {0}
      /\ ZonesPerLun = Depth * F /\ blks_per_pl = End * Depth
  BY Geometry
<1>2. z \in Nat /\ z < luns_per_ch * ZonesPerLun
  BY <1>1, ProductType DEF Zones
<1>3. q \in Nat /\ FCGid(z) \in 0 .. (F - 1) /\ z = F * q + FCGid(z)
  BY <1>1, <1>2, Division DEF FCGid
<1>4. l \in Nat /\ Row(z) \in 0 .. (Depth - 1) /\ q = Depth * l + Row(z)
  BY <1>1, <1>3, Division DEF Row
<1>5. FirstBlk(z) = End * Row(z)
  <2>1. End * q = blks_per_pl * l + End * Row(z)
    <3>1. End * (Depth * l + Row(z)) = (End * Depth) * l + End * Row(z)
      BY ONLY <1>1, <1>4
    <3> QED
      BY <1>1, <1>4, <3>1
  <2>2. End * Row(z) \in 0 .. (blks_per_pl - 1)
    <3>1. End * Row(z) \in Nat /\ End * Row(z) + End <= End * Depth
      BY <1>1, <1>4, ProductType, ProductOrder
    <3> QED
      BY <1>1, <3>1
  <2>3. blks_per_pl \in Nat \ {0}
    BY GeometryAssumption
  <2>4. (End * q) % blks_per_pl = End * Row(z)
    BY ONLY <2>1, <2>2, <2>3, <1>4, DivisionUnique
  <2> QED
    BY <2>4 DEF FirstBlk
<1>6. z \div ZonesPerLun = l
  <2>1. z = ZonesPerLun * l + (F * Row(z) + FCGid(z))
    <3>1. F * (Depth * l + Row(z)) = (Depth * F) * l + F * Row(z)
      BY ONLY <1>1, <1>4
    <3> QED
      BY ONLY <1>1, <1>3, <1>4, <3>1
  <2>2. F * Row(z) + FCGid(z) \in 0 .. (ZonesPerLun - 1)
    <3>1. F * Row(z) \in Nat /\ F * Row(z) + F <= F * Depth /\ F * Depth = Depth * F
      BY <1>1, <1>4, ProductType, ProductOrder
    <3> QED
      BY <1>1, <1>3, <3>1
  <2>3. ZonesPerLun \in Nat \ {0} /\ l \in Nat
    BY <1>1, <1>4
  <2> HIDE DEF l, F
  <2> QED
    BY ONLY <2>1, <2>2, <2>3, DivisionUnique
<1>7. l < luns_per_ch
  <2>1. SUFFICES ASSUME luns_per_ch <= l PROVE FALSE
    BY <1>1, <1>4
  <2>2. ZonesPerLun * luns_per_ch <= ZonesPerLun * l
    BY ONLY <1>1, <1>4, <2>1
  <2>3. luns_per_ch * ZonesPerLun = ZonesPerLun * luns_per_ch
    BY <1>1, ProductType
  <2>4. z >= ZonesPerLun * l
    <3>1. F * (Depth * l) = (Depth * F) * l
      BY ONLY <1>1, <1>4
    <3>2. F * (Depth * l + Row(z)) = F * (Depth * l) + F * Row(z) /\ F * Row(z) \in Nat
      BY ONLY <1>1, <1>4
    <3> QED
      BY <1>1, <1>3, <1>4, <3>1, <3>2
  <2>5. ZonesPerLun * l \in Nat /\ ZonesPerLun * luns_per_ch \in Nat
    BY <1>1, <1>4, ProductType
  <2> QED
    BY ONLY <1>2, <2>2, <2>3, <2>4, <2>5
<1> QED
  BY <1>2, <1>3, <1>4, <1>5, <1>6, <1>7, <1>1

-----------------------------------------------------------------------------
(* A page of a zone is on the flash, and the number of the page is the     *)
(* three coordinates it has there.                                         *)
LEMMA PageNumber ==
  ASSUME NEW n \in Nat
  PROVE  \E r \in 0 .. (ChsPerFcg - 1), s \in 0 .. (End - 1), t \in Nat :
           /\ n % ChsPerFcg = r /\ (n \div ChsPerFcg) % End = s /\ (n \div ChsPerFcg) \div End = t
           /\ n \div ChsPerFcg = End * t + s
           /\ n = ChsPerFcg * (End * t + s) + r
<1>1. ChsPerFcg \in Nat \ {0} /\ End \in Nat \ {0}
  BY Geometry
<1>2. PICK q \in Nat, r \in 0 .. (ChsPerFcg - 1) : n \div ChsPerFcg = q /\ n % ChsPerFcg = r /\ n = ChsPerFcg * q + r
  BY <1>1, Division
<1>3. PICK t \in Nat, s \in 0 .. (End - 1) : q \div End = t /\ q % End = s /\ q = End * t + s
  BY <1>1, Division
<1> QED
  BY <1>2, <1>3

LEMMA PageBound ==
  ASSUME NEW n \in 0 .. ZonePages
  PROVE  /\ (n \div ChsPerFcg) \div End \in 0 .. pgs_per_blk
         /\ (n \div ChsPerFcg) \div End = pgs_per_blk <=> n = ZonePages
<1>1. {pgs_per_blk, ChsPerFcg, End, ZonePages} \subseteq Nat \ {0} /\ ZonePages = ChsPerFcg * (End * pgs_per_blk)
  BY Geometry
<1>2. End * pgs_per_blk \in Nat /\ n \in Nat
  BY <1>1, ProductType
<1>3. PICK q \in Nat : q = n \div ChsPerFcg
  BY <1>1, <1>2, Division
<1>4. q < End * pgs_per_blk <=> n < ZonePages
  BY ONLY <1>1, <1>2, <1>3, QuotientBound
<1>5. PICK t \in Nat : t = q \div End
  BY <1>1, Division
<1>6. t < pgs_per_blk <=> q < End * pgs_per_blk
  BY ONLY <1>1, <1>5, q \in Nat, QuotientBound
<1>7. CASE n = ZonePages
  <2>1. n = ChsPerFcg * (End * pgs_per_blk) + 0 /\ End * pgs_per_blk = End * pgs_per_blk + 0
    BY <1>1, <1>2, <1>7
  <2>2. 0 \in 0 .. (ChsPerFcg - 1) /\ 0 \in 0 .. (End - 1) /\ pgs_per_blk \in Nat
    BY <1>1
  <2>3. q = End * pgs_per_blk
    BY ONLY <1>1, <1>2, <1>3, <2>1, <2>2, DivisionUnique
  <2>4. t = pgs_per_blk
    BY ONLY <1>1, <1>5, <2>1, <2>2, <2>3, DivisionUnique
  <2> QED
    BY <1>1, <1>3, <1>5, <1>7, <2>4
<1> QED
  BY <1>1, <1>3, <1>4, <1>5, <1>6, <1>7

LEMMA PlaceType ==
  ASSUME NEW z \in Zones, NEW n \in 0 .. ZonePages
  PROVE  /\ Place(z, n) \in [ch : 0 .. (nchs - 1), lun : 0 .. (luns_per_ch - 1),
                             blk : 0 .. (blks_per_pl - 1), pg : 0 .. pgs_per_blk]
         /\ Place(z, n) \in Pages <=> n < ZonePages
         /\ PastEnd(Place(z, n)) <=> n = ZonePages
<1> DEFINE C == ChsPerFcg
<1>1. /\ {num_fcg, C, End, Depth, luns_per_ch, pgs_per_blk, ZonePages} \subseteq Nat \ {0}
      /\ nchs = num_fcg * C /\ blks_per_pl = End * Depth
  BY Geometry
<1>2. n \in Nat
  BY <1>1
<1>3. PICK r \in 0 .. (C - 1), s \in 0 .. (End - 1) : n % C = r /\ (n \div C) % End = s
  BY <1>2, PageNumber
<1>4. r + FCGid(z) * C \in 0 .. (nchs - 1)
  <2>1. FCGid(z) \in Nat /\ FCGid(z) < num_fcg
    BY <1>1, ZoneNumber
  <2>2. FCGid(z) * C \in Nat /\ C * FCGid(z) + C <= C * num_fcg
    BY <1>1, <2>1, ProductType, ProductOrder
  <2>3. FCGid(z) * C = C * FCGid(z) /\ num_fcg * C = C * num_fcg
    BY <1>1, <2>1, ProductType
  <2> QED
    BY <1>1, <2>2, <2>3
<1>5. s + FirstBlk(z) \in 0 .. (blks_per_pl - 1)
  <2>1. Row(z) \in Nat /\ Row(z) < Depth /\ FirstBlk(z) = End * Row(z)
    BY <1>1, ZoneNumber
  <2>2. End * Row(z) \in Nat /\ End * Row(z) + End <= End * Depth
    BY <1>1, <2>1, ProductType, ProductOrder
  <2> QED
    BY <1>1, <2>1, <2>2
<1>6. z \div ZonesPerLun \in 0 .. (luns_per_ch - 1)
  BY ZoneNumber
<1>7. PICK t \in 0 .. pgs_per_blk : t = (n \div C) \div End /\ (t = pgs_per_blk <=> n = ZonePages)
  BY PageBound
<1>8. Place(z, n) = [ch |-> r + FCGid(z) * C, lun |-> z \div ZonesPerLun, blk |-> s + FirstBlk(z), pg |-> t]
  BY <1>3, <1>7 DEF Place
<1>9. t \in 0 .. (pgs_per_blk - 1) <=> n < ZonePages
  BY <1>1, <1>7
<1> QED
  BY <1>4, <1>5, <1>6, <1>7, <1>8, <1>9 DEF Pages, PastEnd

(* No two pages of the zones are in one place.                             *)
LEMMA PlaceInjective ==
  ASSUME NEW y \in Zones, NEW z \in Zones, NEW m \in Nat, NEW n \in Nat, Place(y, m) = Place(z, n)
  PROVE  y = z /\ m = n
<1> DEFINE C == ChsPerFcg
<1>1. {num_fcg, C, End, Depth} \subseteq Nat \ {0}
  BY Geometry
<1>2. PICK r \in 0 .. (C - 1), s \in 0 .. (End - 1), t \in Nat :
        /\ m % C = r /\ (m \div C) % End = s /\ (m \div C) \div End = t
        /\ m = C * (End * t + s) + r
  BY PageNumber
<1>3. PICK u \in 0 .. (C - 1), v \in 0 .. (End - 1), w \in Nat :
        /\ n % C = u /\ (n \div C) % End = v /\ (n \div C) \div End = w
        /\ n = C * (End * w + v) + u
  BY PageNumber
<1>4. /\ r + FCGid(y) * C = u + FCGid(z) * C
      /\ y \div ZonesPerLun = z \div ZonesPerLun
      /\ s + FirstBlk(y) = v + FirstBlk(z)
      /\ t = w
  BY <1>2, <1>3 DEF Place
<1>5. r = u /\ FCGid(y) = FCGid(z)
  <2>1. PICK f \in Nat, g \in Nat : f = FCGid(y) /\ g = FCGid(z)
    BY <1>1, ZoneNumber
  <2>2. C * f + r = C * g + u
    BY <1>1, <1>4, <2>1, ProductType
  <2>3. C \in Nat \ {0}
    BY <1>1
  <2>4. f = g /\ r = u
    BY ONLY <2>2, <2>3, f \in Nat, g \in Nat, r \in 0 .. (C - 1), u \in 0 .. (C - 1), DigitsUnique
  <2> QED
    BY <2>1, <2>4
<1>6. s = v /\ Row(y) = Row(z)
  <2>1. PICK f \in Nat, g \in Nat : f = Row(y) /\ g = Row(z) /\ FirstBlk(y) = End * f /\ FirstBlk(z) = End * g
    BY <1>1, ZoneNumber
  <2>2. End * f + s = End * g + v
    BY <1>1, <1>4, <2>1, ProductType
  <2> QED
    BY <1>1, <2>1, <2>2, DigitsUnique
<1> QED
  BY <1>2, <1>3, <1>4, <1>5, <1>6, ZoneNumber

-----------------------------------------------------------------------------
(* NextPage is the place of the next page.                                 *)
LEMMA NextIsPlace ==
  ASSUME NEW z \in Zones, NEW n \in Nat
  PROVE  NextPage(z, Place(z, n)) = Place(z, n + 1)
<1> DEFINE C == ChsPerFcg
           l == z \div ZonesPerLun
<1>1. {num_fcg, C, End, Depth} \subseteq Nat \ {0}
  BY Geometry
<1>2. PICK q \in Nat, r \in 0 .. (C - 1) : q = n \div C /\ r = n % C
  BY <1>1, Division
<1>3. PICK t \in Nat, s \in 0 .. (End - 1) : t = q \div End /\ s = q % End
  BY <1>1, Division
<1>4. PICK f \in Nat : f = FCGid(z) /\ FCGid(z) * C = C * f /\ C * f \in Nat
  BY <1>1, ZoneNumber, ProductType
<1>5. PICK k \in Nat : FirstBlk(z) = End * k /\ End * k \in Nat
  BY <1>1, ZoneNumber, ProductType
<1>6. PICK p : p = Place(z, n) /\ p = [ch |-> r + C * f, lun |-> l, blk |-> s + End * k, pg |-> t]
  BY <1>2, <1>3, <1>4, <1>5 DEF Place
<1>7. (p.ch + 1) % C # 0 <=> r + 1 # C
  <2>1. (r + C * f + 1) % C # 0 <=> r + 1 # C
    BY <1>1, LastTest
  <2> QED
    BY <1>6, <2>1
<1>8. (p.blk + 1) % End # 0 <=> s + 1 # End
  <2>1. (s + End * k + 1) % End # 0 <=> s + 1 # End
    BY <1>1, LastTest
  <2> QED
    BY <1>6, <2>1
<1>9. NextPage(z, p) = IF r + 1 # C THEN [ch |-> r + C * f + 1, lun |-> l, blk |-> s + End * k, pg |-> t]
                       ELSE IF s + 1 # End THEN [ch |-> C * f, lun |-> l, blk |-> s + End * k + 1, pg |-> t]
                       ELSE [ch |-> C * f, lun |-> l, blk |-> End * k, pg |-> t + 1]
  <2>1. [p EXCEPT !.ch = @ + 1] = [ch |-> r + C * f + 1, lun |-> l, blk |-> s + End * k, pg |-> t]
    BY <1>6
  <2>2. NextPage(z, p) = IF (p.ch + 1) % C # 0 THEN [p EXCEPT !.ch = @ + 1]
                         ELSE IF (p.blk + 1) % End # 0
                         THEN [ch |-> C * f, lun |-> p.lun, blk |-> p.blk + 1, pg |-> p.pg]
                         ELSE [ch |-> C * f, lun |-> p.lun, blk |-> End * k, pg |-> p.pg + 1]
    <3>1. C * FCGid(z) = C * f
      BY <1>4
    <3> QED
      BY <1>5, <3>1 DEF NextPage
  <2>3. p.lun = l /\ p.blk = s + End * k /\ p.pg = t
    BY <1>6
  <2> QED
    BY <1>7, <1>8, <2>1, <2>2, <2>3
<1> DEFINE Next1 == [ch |-> ((n + 1) % C) + C * f, lun |-> l,
                     blk |-> (((n + 1) \div C) % End) + End * k, pg |-> ((n + 1) \div C) \div End]
<1>10. Place(z, n + 1) = Next1
  BY <1>4, <1>5 DEF Place
<1>11. CASE r + 1 # C
  <2>1. (n + 1) % C = r + 1 /\ (n + 1) \div C = q
    BY <1>1, <1>2, <1>11, NextDivision
  <2>2. Next1 = [ch |-> r + C * f + 1, lun |-> l, blk |-> s + End * k, pg |-> t]
    BY <1>3, <1>4, <2>1
  <2> QED
    BY <1>6, <1>9, <1>10, <1>11, <2>2
<1>12. CASE r + 1 = C
  <2>1. (n + 1) % C = 0 /\ (n + 1) \div C = q + 1
    BY <1>1, <1>2, <1>12, NextDivision
  <2>2. CASE s + 1 # End
    <3>1. (q + 1) % End = s + 1 /\ (q + 1) \div End = t
      BY <1>1, <1>3, <2>2, NextDivision
    <3>2. Next1 = [ch |-> C * f, lun |-> l, blk |-> s + End * k + 1, pg |-> t]
      BY <1>4, <1>5, <2>1, <3>1
    <3> QED
      BY <1>6, <1>9, <1>10, <1>12, <2>2, <3>2
  <2>3. CASE s + 1 = End
    <3>1. (q + 1) % End = 0 /\ (q + 1) \div End = t + 1
      BY <1>1, <1>3, <2>3, NextDivision
    <3>2. Next1 = [ch |-> C * f, lun |-> l, blk |-> End * k, pg |-> t + 1]
      BY <1>4, <1>5, <2>1, <3>1
    <3> QED
      BY <1>6, <1>9, <1>10, <1>12, <2>3, <3>2
  <2> QED
    BY <2>2, <2>3
<1> QED
  BY <1>11, <1>12

(* The pages zns_write visits, from the write pointer on.                  *)
Walk(z, first, n) ==
  LET at[i \in 0 .. n] == IF i = 0 THEN first ELSE NextPage(z, at[i - 1])
  IN at

LEMMA WalkIsPlaces ==
  ASSUME NEW z \in Zones, NEW start \in Nat, NEW n \in Nat, NEW first, first = Place(z, start)
  PROVE  \A i \in 0 .. n : Walk(z, first, n)[i] = Place(z, start + i)
<1> DEFINE Course(f) == f = [i \in 0 .. n |-> IF i = 0 THEN first ELSE NextPage(z, f[i - 1])]
           g == [i \in 0 .. n |-> Place(z, start + i)]
<1>1. Course(g)
  <2>1. start + 0 = start
    OBVIOUS
  <2>2. ASSUME NEW i \in 1 .. n
        PROVE  g[i] = NextPage(z, g[i - 1])
    <3>1. i - 1 \in 0 .. n /\ start + (i - 1) \in Nat /\ (start + (i - 1)) + 1 = start + i
      OBVIOUS
    <3> QED
      BY <3>1, NextIsPlace
  <2>3. \A i \in 0 .. n : i = 0 \/ i \in 1 .. n
    OBVIOUS
  <2> QED
    BY <2>1, <2>2, <2>3
<1>2. PICK f : f = (CHOOSE h : Course(h)) /\ Course(f)
  <2> HIDE DEF Course
  <2> QED
    BY ONLY <1>1
<1>3. f[0] = first /\ \A i \in 1 .. n : f[i] = NextPage(z, f[i - 1])
  <2>1. 0 \in 0 .. n /\ \A i \in 1 .. n : i \in 0 .. n /\ i # 0
    OBVIOUS
  <2> QED
    BY ONLY <1>2, <2>1
<1>4. Walk(z, first, n) = f
  BY <1>2 DEF Walk
<1> HIDE DEF Course
<1> DEFINE Bad == {i \in 0 .. n : f[i] # Place(z, start + i)}
<1> SUFFICES ASSUME Bad # {} PROVE FALSE
  BY <1>4
<1>5. PICK m \in Bad : \A j \in Bad : m <= j
  <2>1. Bad \in SUBSET Nat
    OBVIOUS
  <2> HIDE DEF Bad
  <2> QED
    BY <2>1, LeastElement
<1>6. CASE m = 0
  BY <1>3, <1>5, <1>6
<1>7. CASE m # 0
  <2>1. m \in 1 .. n /\ m - 1 \in 0 .. n /\ m - 1 \notin Bad /\ start + (m - 1) \in Nat /\ (start + (m - 1)) + 1 = start + m
    BY <1>5, <1>7
  <2>2. f[m - 1] = Place(z, start + (m - 1))
    BY <2>1
  <2>3. f[m] = Place(z, start + m)
    BY <1>3, <2>1, <2>2, NextIsPlace
  <2> QED
    BY <1>5, <2>3
<1> QED
  BY <1>6, <1>7

-----------------------------------------------------------------------------
(* The inductive invariant: wpp is the place of the page write_ptr points  *)
(* at, a written page is in its place, and every other page is erased.     *)
PointersAgree == \A z \in Zones : wpp[z] = Place(z, write_ptr[z])

FullStates == \A z \in Zones : state[z] = "full" <=> write_ptr[z] = ZonePages

WrittenInPlace == \A z \in Zones : \A n \in 0 .. (write_ptr[z] - 1) : flash[Place(z, n)] = <<z, n>>

RestErased ==
  \A p \in Pages : flash[p] = Erased \/ \E z \in Zones : \E n \in 0 .. (write_ptr[z] - 1) : p = Place(z, n)

FtlInv == TypeOK /\ PointersAgree /\ FullStates /\ WrittenInPlace /\ RestErased

LEMMA StartIsPlace ==
  ASSUME NEW z \in Zones
  PROVE  StartOf(z) = Place(z, 0)
<1>1. ChsPerFcg \in Nat \ {0} /\ End \in Nat \ {0} /\ FCGid(z) \in Nat /\ Row(z) \in Nat /\ FirstBlk(z) = End * Row(z)
  BY Geometry, ZoneNumber
<1>2. 0 \div ChsPerFcg = 0 /\ 0 % ChsPerFcg = 0 /\ 0 \div End = 0 /\ 0 % End = 0
  <2>1. 0 = ChsPerFcg * 0 + 0 /\ 0 = End * 0 + 0 /\ 0 \in 0 .. (ChsPerFcg - 1) /\ 0 \in 0 .. (End - 1)
    BY <1>1
  <2> QED
    BY ONLY <1>1, <2>1, 0 \in Nat, DivisionUnique
<1>3. ChsPerFcg * FCGid(z) = FCGid(z) * ChsPerFcg /\ FCGid(z) * ChsPerFcg \in Nat /\ FirstBlk(z) \in Nat
  BY <1>1, ProductType
<1> QED
  BY <1>2, <1>3 DEF StartOf, Place

LEMMA InitFtl == Init => FtlInv
<1> SUFFICES ASSUME Init PROVE FtlInv
  OBVIOUS
<1>1. ZonePages \in Nat
  BY Geometry
<1>2. \A z \in Zones : write_ptr[z] = 0 /\ wpp[z] = Place(z, 0) /\ state[z] = "empty"
  BY StartIsPlace DEF Init
<1>3. \A z \in Zones : wpp[z] \in [ch : 0 .. (nchs - 1), lun : 0 .. (luns_per_ch - 1),
                                   blk : 0 .. (blks_per_pl - 1), pg : 0 .. pgs_per_blk]
  BY <1>1, <1>2, PlaceType
<1>4. TypeOK
  BY <1>1, <1>3 DEF Init, TypeOK
<1>5. FullStates
  BY <1>2, Geometry DEF FullStates
<1> QED
  BY <1>2, <1>4, <1>5 DEF Init, FtlInv, PointersAgree, WrittenInPlace, RestErased

LEMMA WriteFtl ==
  ASSUME FtlInv, NEW z \in Zones, NEW n \in WriteSizes, Write(z, n)
  PROVE  FtlInv'
<1> DEFINE w == write_ptr[z]
           at == Walk(z, wpp[z], n)
<1>1. n \in Nat \ {0} /\ w \in Nat /\ ZonePages \in Nat \ {0} /\ w + n <= ZonePages /\ wpp[z] = Place(z, w)
  BY GeometryAssumption, Geometry DEF FtlInv, TypeOK, PointersAgree, Write
<1>2. /\ write_ptr' = [write_ptr EXCEPT ![z] = @ + n]
      /\ wpp' = [wpp EXCEPT ![z] = at[n]]
      /\ state' = [state EXCEPT ![z] = IF \E i \in 1 .. n : PastEnd(at[i]) THEN "full" ELSE @]
      /\ flash' = [p \in Pages |->
                     IF \E i \in 0 .. (n - 1) : p = at[i]
                     THEN <<z, w + (CHOOSE i \in 0 .. (n - 1) : p = at[i])>>
                     ELSE flash[p]]
  BY DEF Write, Walk
<1>3. \A i \in 0 .. n : at[i] = Place(z, w + i)
  BY <1>1, WalkIsPlaces
<1> HIDE DEF at
<1>4. PointersAgree'
  <2>1. wpp'[z] = Place(z, w + n) /\ write_ptr'[z] = w + n
    BY <1>1, <1>2, <1>3 DEF FtlInv, TypeOK
  <2>2. \A y \in Zones : y # z => wpp'[y] = wpp[y] /\ write_ptr'[y] = write_ptr[y]
    BY <1>2 DEF FtlInv, TypeOK
  <2> QED
    BY <2>1, <2>2 DEF FtlInv, PointersAgree
<1>5. (\E i \in 1 .. n : PastEnd(at[i])) <=> w + n = ZonePages
  <2>1. \A i \in 1 .. n : w + i \in 0 .. ZonePages /\ i \in 0 .. n
    BY <1>1
  <2>2. \A i \in 1 .. n : PastEnd(at[i]) <=> w + i = ZonePages
    BY <1>3, <2>1, PlaceType
  <2> QED
    BY <1>1, <2>2
<1>6. FullStates'
  <2>1. w + n # ZonePages => state[z] # "full"
    BY <1>1 DEF FtlInv, FullStates
  <2> QED
    BY <1>1, <1>2, <1>5, <2>1 DEF FtlInv, TypeOK, FullStates
<1>7. \A i \in 0 .. (n - 1) : Place(z, w + i) \in Pages /\ flash'[Place(z, w + i)] = <<z, w + i>>
  <2> TAKE i \in 0 .. (n - 1)
  <2>1. i \in 0 .. n /\ w + i \in 0 .. ZonePages /\ w + i < ZonePages /\ at[i] = Place(z, w + i)
    BY <1>1, <1>3
  <2>2. at[i] \in Pages
    BY <2>1, PlaceType
  <2>3. \A j \in 0 .. (n - 1) : at[i] = at[j] => i = j
    <3> TAKE j \in 0 .. (n - 1)
    <3>1. j \in 0 .. n /\ w + i \in Nat /\ w + j \in Nat /\ at[j] = Place(z, w + j)
      BY <1>1, <1>3
    <3>2. Place(z, w + i) = Place(z, w + j) => w + i = w + j
      BY ONLY <3>1, z \in Zones, PlaceInjective
    <3> QED
      BY <1>1, <2>1, <3>1, <3>2
  <2>4. (CHOOSE j \in 0 .. (n - 1) : at[i] = at[j]) = i
    BY <2>3
  <2>5. flash'[at[i]] = <<z, w + i>>
    BY <1>2, <2>2, <2>4
  <2> QED
    BY <2>1, <2>2, <2>5
<1>8. \A p \in Pages : flash'[p] = flash[p] \/ \E i \in 0 .. (n - 1) : p = Place(z, w + i)
  BY <1>1, <1>2, <1>3
<1>9. \A y \in Zones : y # z => write_ptr'[y] = write_ptr[y]
  BY <1>2 DEF FtlInv, TypeOK
<1>10. write_ptr'[z] = w + n
  BY <1>2 DEF FtlInv, TypeOK
<1>11. \A y \in Zones : write_ptr[y] \in 0 .. ZonePages
  BY DEF FtlInv, TypeOK
<1>12. WrittenInPlace'
  <2> SUFFICES ASSUME NEW y \in Zones, NEW m \in 0 .. (write_ptr'[y] - 1)
               PROVE  flash'[Place(y, m)] = <<y, m>>
    BY DEF WrittenInPlace
  <2>1. CASE y = z /\ m >= w
    <3>1. m - w \in 0 .. (n - 1) /\ w + (m - w) = m
      BY <1>1, <1>10, <2>1
    <3> QED
      BY <1>7, <2>1, <3>1
  <2>2. CASE ~(y = z /\ m >= w)
    <3>1. m \in 0 .. (write_ptr[y] - 1) /\ m \in 0 .. ZonePages /\ m < ZonePages
      BY <1>1, <1>9, <1>10, <1>11, <2>2
    <3>2. flash[Place(y, m)] = <<y, m>> /\ Place(y, m) \in Pages
      BY <3>1, PlaceType DEF FtlInv, WrittenInPlace
    <3>3. ASSUME NEW i \in 0 .. (n - 1)
          PROVE  Place(y, m) # Place(z, w + i)
      <4>1. m \in Nat /\ w + i \in Nat
        BY <1>1
      <4>2. Place(y, m) = Place(z, w + i) => y = z /\ m = w + i
        BY ONLY <4>1, y \in Zones, z \in Zones, PlaceInjective
      <4> QED
        BY <1>1, <2>2, <4>2
    <3> QED
      BY <1>8, <3>2, <3>3
  <2> QED
    BY <2>1, <2>2
<1>13. RestErased'
  <2> SUFFICES ASSUME NEW p \in Pages
               PROVE  flash'[p] = Erased \/ \E y \in Zones : \E m \in 0 .. (write_ptr'[y] - 1) : p = Place(y, m)
    BY DEF RestErased
  <2>1. CASE \E i \in 0 .. (n - 1) : p = Place(z, w + i)
    <3>1. PICK i \in 0 .. (n - 1) : p = Place(z, w + i)
      BY <2>1
    <3>2. w + i \in 0 .. (write_ptr'[z] - 1)
      BY <1>1, <1>10
    <3> QED
      BY <3>1, <3>2
  <2>2. CASE flash'[p] = flash[p] /\ \E y \in Zones : \E m \in 0 .. (write_ptr[y] - 1) : p = Place(y, m)
    <3>1. PICK y \in Zones : \E m \in 0 .. (write_ptr[y] - 1) : p = Place(y, m)
      BY <2>2
    <3>2. PICK m \in 0 .. (write_ptr[y] - 1) : p = Place(y, m)
      BY <3>1
    <3>3. m \in 0 .. (write_ptr'[y] - 1)
      BY <1>1, <1>9, <1>10, <1>11
    <3> QED
      BY <3>2, <3>3
  <2> QED
    BY <1>8, <2>1, <2>2 DEF FtlInv, RestErased
<1>14. TypeOK'
  <2>1. write_ptr' \in [Zones -> 0 .. ZonePages]
    BY <1>1, <1>2 DEF FtlInv, TypeOK
  <2>2. state' \in [Zones -> {"empty", "full"}]
    BY <1>2 DEF FtlInv, TypeOK
  <2>3. wpp' \in [Zones -> [ch : 0 .. (nchs - 1), lun : 0 .. (luns_per_ch - 1),
                           blk : 0 .. (blks_per_pl - 1), pg : 0 .. pgs_per_blk]]
    <3>1. wpp' = [y \in Zones |-> wpp'[y]]
      BY <1>2 DEF FtlInv, TypeOK
    <3>2. \A y \in Zones : wpp'[y] \in [ch : 0 .. (nchs - 1), lun : 0 .. (luns_per_ch - 1),
                                       blk : 0 .. (blks_per_pl - 1), pg : 0 .. pgs_per_blk]
      BY <1>4, <2>1, PlaceType DEF PointersAgree
    <3> QED
      BY <3>1, <3>2
  <2>4. flash' \in [Pages -> {Erased} \cup (Zones \X (0 .. (ZonePages - 1)))]
    <3>1. ASSUME NEW p \in Pages
          PROVE  flash'[p] \in {Erased} \cup (Zones \X (0 .. (ZonePages - 1)))
      <4>1. CASE \E i \in 0 .. (n - 1) : p = Place(z, w + i)
        <5>1. PICK i \in 0 .. (n - 1) : p = Place(z, w + i)
          BY <4>1
        <5>2. flash'[p] = <<z, w + i>>
          BY <1>7, <5>1
        <5>3. w + i \in 0 .. (ZonePages - 1)
          BY <1>1
        <5> QED
          BY <5>2, <5>3
      <4>2. CASE flash'[p] = flash[p]
        BY <4>2 DEF FtlInv, TypeOK
      <4> QED
        BY <1>8, <4>1, <4>2
    <3>2. flash' = [p \in Pages |-> flash'[p]]
      BY <1>2
    <3> QED
      BY <3>1, <3>2
  <2> QED
    BY <2>1, <2>2, <2>3, <2>4 DEF TypeOK
<1> QED
  BY <1>4, <1>6, <1>12, <1>13, <1>14 DEF FtlInv

-----------------------------------------------------------------------------
(* What zns_reset erases is exactly where the pages of the zone lie.       *)
LEMMA ErasedBlocks ==
  ASSUME NEW z \in Zones
  PROVE  ErasedBlks(z) = {b \in 0 .. (blks_per_pl - 1) : FirstBlk(z) <= b /\ b < FirstBlk(z) + End}
<1>1. End \in Nat \ {0}
  BY Geometry
<1>2. PICK k \in Nat : k = Row(z) /\ FirstBlk(z) = End * k /\ End * k \in Nat
  BY <1>1, Geometry, ZoneNumber, ProductType
<1> SUFFICES ASSUME NEW b \in Nat, End * k <= b
             PROVE  (\A c \in (End * k + 1) .. b : c % End # 0) <=> b < End * k + End
  BY <1>2, GeometryAssumption DEF ErasedBlks
<1>3. CASE b < End * k + End
  <2> SUFFICES ASSUME NEW c \in (End * k + 1) .. b
               PROVE  c % End # 0
    BY <1>3
  <2>1. PICK s \in 0 .. (End - 1) : s # 0 /\ c = End * k + s
    <3>1. c - End * k \in 0 .. (End - 1) /\ c - End * k # 0 /\ c = End * k + (c - End * k)
      BY <1>1, <1>2, <1>3
    <3> QED
      BY <3>1
  <2> QED
    BY ONLY <1>1, <2>1, k \in Nat, DivisionUnique
<1>4. CASE ~(b < End * k + End)
  <2>1. End * (k + 1) = End * k + End
    BY <1>1
  <2>2. End * k + End \in (End * k + 1) .. b /\ End * k + End = End * (k + 1) + 0 /\ k + 1 \in Nat /\ 0 \in 0 .. (End - 1)
    BY <1>1, <1>2, <1>4, <2>1
  <2>3. (End * k + End) % End = 0
    BY ONLY <1>1, <2>2, DivisionUnique
  <2> QED
    BY <1>4, <2>2, <2>3
<1> QED
  BY <1>3, <1>4

InZone(p, z) ==
  p.lun = StartOf(z).lun /\ p.ch \in ErasedChs(z) /\ p.blk \in ErasedBlks(z)

LEMMA ErasedIsZone ==
  ASSUME NEW y \in Zones, NEW z \in Zones, NEW m \in 0 .. (ZonePages - 1)
  PROVE  InZone(Place(y, m), z) <=> y = z
<1> DEFINE C == ChsPerFcg
           p == Place(y, m)
<1>1. {num_fcg, C, End, Depth, ZonePages} \subseteq Nat \ {0}
  BY Geometry
<1>2. m \in Nat /\ m \in 0 .. ZonePages /\ m < ZonePages
  BY <1>1
<1>3. PICK r \in 0 .. (C - 1), s \in 0 .. (End - 1) : m % C = r /\ (m \div C) % End = s
  BY <1>2, PageNumber
<1>4. PICK f \in Nat, g \in Nat : f = FCGid(y) /\ g = FCGid(z)
  BY <1>1, ZoneNumber
<1>5. PICK j \in Nat, k \in Nat : j = Row(y) /\ k = Row(z) /\ FirstBlk(y) = End * j /\ FirstBlk(z) = End * k
  BY <1>1, ZoneNumber
<1>6. /\ f * C = C * f /\ C * f \in Nat /\ C * g \in Nat /\ C * (g + 1) = C * g + C
      /\ End * j \in Nat /\ End * k \in Nat
  BY <1>1, ProductType
<1>7. p.ch = C * f + r /\ p.blk = End * j + s /\ p.lun = y \div ZonesPerLun /\ p.blk \in 0 .. (blks_per_pl - 1)
  <2>1. p \in Pages
    BY <1>2, PlaceType
  <2>2. p.blk \in 0 .. (blks_per_pl - 1)
    BY <2>1 DEF Pages
  <2>3. p.ch = r + f * C /\ p.blk = s + FirstBlk(y) /\ p.lun = y \div ZonesPerLun
    BY <1>3, <1>4 DEF Place
  <2> QED
    BY <1>1, <1>5, <1>6, <2>2, <2>3
<1>8. p.ch \in ErasedChs(z) <=> f = g
  <2>1. ErasedChs(z) = (C * g) .. (C * (g + 1) - 1)
    BY <1>4 DEF ErasedChs
  <2>2. f < g => C * f + C <= C * g
    BY <1>1, ProductOrder
  <2>3. g < f => C * g + C <= C * f
    BY <1>1, ProductOrder
  <2> QED
    <3>1. PICK x \in Nat, u \in Nat, v \in Nat : u = C * f /\ v = C * g /\ x = u + r /\ x = p.ch
      BY <1>1, <1>6, <1>7
    <3>2. C \in Nat \ {0}
      BY <1>1
    <3>3. x \in ErasedChs(z) <=> v <= u + r /\ u + r < v + C
      <4>1. C * (g + 1) = v + C
        BY <1>6, <3>1
      <4>2. ErasedChs(z) = v .. ((v + C) - 1)
        BY ONLY <2>1, <3>1, <4>1
      <4> QED
        BY ONLY <3>1, <3>2, <4>2
    <3>4. (f < g => u + C <= v) /\ (g < f => v + C <= u) /\ (f = g => u = v)
      BY ONLY <2>2, <2>3, <3>1
    <3> QED
      BY ONLY <1>1, <3>1, <3>3, <3>4, f \in Nat, g \in Nat, r \in 0 .. (C - 1)
<1>9. p.blk \in ErasedBlks(z) <=> j = k
  <2>1. p.blk \in ErasedBlks(z) <=> End * k <= p.blk /\ p.blk < End * k + End
    BY <1>5, <1>7, ErasedBlocks
  <2>2. j < k => End * j + End <= End * k
    BY <1>1, ProductOrder
  <2>3. k < j => End * k + End <= End * j
    BY <1>1, ProductOrder
  <2> QED
    BY ONLY <1>1, <1>6, <1>7, <2>1, <2>2, <2>3, j \in Nat, k \in Nat, s \in 0 .. (End - 1)
<1>10. p.lun = StartOf(z).lun <=> y \div ZonesPerLun = z \div ZonesPerLun
  BY <1>7 DEF StartOf
<1>11. f = g /\ j = k /\ y \div ZonesPerLun = z \div ZonesPerLun => y = z
  BY <1>4, <1>5, ZoneNumber
<1> QED
  BY <1>4, <1>5, <1>8, <1>9, <1>10, <1>11 DEF InZone

LEMMA ResetFtl ==
  ASSUME FtlInv, NEW z \in Zones, Reset(z)
  PROVE  FtlInv'
<1>1. ZonePages \in Nat \ {0} /\ \A y \in Zones : write_ptr[y] \in 0 .. ZonePages
  BY Geometry DEF FtlInv, TypeOK
<1>2. /\ write_ptr' = [write_ptr EXCEPT ![z] = 0]
      /\ wpp' = [wpp EXCEPT ![z] = Place(z, 0)]
      /\ state' = [state EXCEPT ![z] = "empty"]
      /\ flash' = [p \in Pages |-> IF InZone(p, z) THEN Erased ELSE flash[p]]
  BY StartIsPlace DEF Reset, InZone
<1>3. write_ptr'[z] = 0 /\ \A y \in Zones : y # z => write_ptr'[y] = write_ptr[y]
  BY <1>2 DEF FtlInv, TypeOK
<1>4. PointersAgree'
  <2>1. wpp'[z] = Place(z, 0)
    BY <1>2 DEF FtlInv, TypeOK
  <2>2. \A y \in Zones : y # z => wpp'[y] = wpp[y]
    BY <1>2 DEF FtlInv, TypeOK
  <2> QED
    BY <1>3, <2>1, <2>2 DEF FtlInv, PointersAgree
<1>5. FullStates'
  BY <1>1, <1>2, <1>3 DEF FtlInv, TypeOK, FullStates
<1>6. WrittenInPlace'
  <2> SUFFICES ASSUME NEW y \in Zones, NEW m \in 0 .. (write_ptr'[y] - 1)
               PROVE  flash'[Place(y, m)] = <<y, m>>
    BY DEF WrittenInPlace
  <2>1. y # z /\ m \in 0 .. (write_ptr[y] - 1)
    BY <1>3
  <2>2. m \in 0 .. (ZonePages - 1) /\ m \in 0 .. ZonePages /\ m < ZonePages
    BY <1>1, <2>1
  <2>3. flash[Place(y, m)] = <<y, m>> /\ Place(y, m) \in Pages /\ ~InZone(Place(y, m), z)
    BY <2>1, <2>2, PlaceType, ErasedIsZone DEF FtlInv, WrittenInPlace
  <2> QED
    BY <1>2, <2>3
<1>7. RestErased'
  <2> SUFFICES ASSUME NEW p \in Pages, flash'[p] # Erased
               PROVE  \E y \in Zones : \E m \in 0 .. (write_ptr'[y] - 1) : p = Place(y, m)
    BY DEF RestErased
  <2>1. flash[p] # Erased /\ ~InZone(p, z)
    BY <1>2
  <2>2. PICK y \in Zones : \E m \in 0 .. (write_ptr[y] - 1) : p = Place(y, m)
    BY <2>1 DEF FtlInv, RestErased
  <2>3. PICK m \in 0 .. (write_ptr[y] - 1) : p = Place(y, m)
    BY <2>2
  <2>4. m \in 0 .. (ZonePages - 1)
    BY <1>1
  <2>5. y # z
    BY <2>1, <2>3, <2>4, ErasedIsZone
  <2> QED
    BY <1>3, <2>3, <2>5
<1>8. TypeOK'
  <2>1. Place(z, 0) \in [ch : 0 .. (nchs - 1), lun : 0 .. (luns_per_ch - 1),
                         blk : 0 .. (blks_per_pl - 1), pg : 0 .. pgs_per_blk]
    BY <1>1, PlaceType
  <2>2. 0 \in 0 .. ZonePages
    BY <1>1
  <2> QED
    BY <1>2, <2>1, <2>2 DEF FtlInv, TypeOK
<1> QED
  BY <1>4, <1>5, <1>6, <1>7, <1>8 DEF FtlInv

LEMMA NextFtl == FtlInv /\ [Next]_vars => FtlInv'
<1> SUFFICES ASSUME FtlInv, [Next]_vars PROVE FtlInv'
  OBVIOUS
<1>1. CASE UNCHANGED vars
  BY <1>1 DEF FtlInv, TypeOK, PointersAgree, FullStates, WrittenInPlace, RestErased, vars
<1>2. CASE Next
  BY <1>2, BoundAssumption, WriteFtl, ResetFtl DEF Next
<1> QED
  BY <1>1, <1>2

LEMMA FtlInvariance == Spec => []FtlInv
BY InitFtl, NextFtl, PTL DEF Spec

-----------------------------------------------------------------------------
(* A zone is full exactly when it holds all its pages, for every geometry  *)
(* and however the writes were cut: wpp passes the last page with the      *)
(* write that fills the zone.                                              *)
THEOREM ZonesFillUp == Spec => []FullWhenWritten
<1>1. FtlInv => FullWhenWritten
  BY DEF FtlInv, FullStates, FullWhenWritten
<1> QED
  BY <1>1, FtlInvariance, PTL

LEMMA LocateIsPlace ==
  ASSUME FtlInv, NEW z \in Zones, NEW n
  PROVE  LocatePage(z, n) = Place(z, n)
<1>1. wpp[z].lun = z \div ZonesPerLun
  <2>1. wpp[z] = Place(z, write_ptr[z])
    BY DEF FtlInv, PointersAgree
  <2> QED
    BY ONLY <2>1 DEF Place
<1> QED
  BY <1>1 DEF LocatePage, Place

LEMMA FlashFromInv == FtlInv => FlashHoldsZones
<1> SUFFICES ASSUME FtlInv, NEW p \in Pages
             PROVE  LET here == {h \in Zones \X (0 .. (ZonePages - 1)) :
                                   h[2] < write_ptr[h[1]] /\ LocatePage(h[1], h[2]) = p}
                    IN flash[p] = IF here = {} THEN Erased ELSE CHOOSE h \in here : here = {h}
  BY DEF FlashHoldsZones
<1> DEFINE here == {h \in Zones \X (0 .. (ZonePages - 1)) :
                      h[2] < write_ptr[h[1]] /\ LocatePage(h[1], h[2]) = p}
<1>1. ZonePages \in Nat /\ \A y \in Zones : write_ptr[y] \in 0 .. ZonePages
  BY Geometry DEF FtlInv, TypeOK
<1>2. ASSUME NEW h \in here
      PROVE  /\ h[1] \in Zones /\ h[2] \in 0 .. (write_ptr[h[1]] - 1)
             /\ Place(h[1], h[2]) = p /\ h = <<h[1], h[2]>>
  BY <1>1, LocateIsPlace
<1>3. ASSUME NEW y \in Zones, NEW m \in 0 .. (write_ptr[y] - 1), p = Place(y, m)
      PROVE  <<y, m>> \in here
  BY <1>1, <1>3, LocateIsPlace
<1> HIDE DEF here
<1>4. CASE here = {}
  <2>1. flash[p] = Erased
    BY <1>3, <1>4 DEF FtlInv, RestErased
  <2> QED
    BY <1>4, <2>1 DEF here
<1>5. CASE here # {}
  <2>1. PICK h \in here : TRUE
    BY <1>5
  <2>2. \A g \in here : g = h
    <3> TAKE g \in here
    <3>1. /\ g[1] \in Zones /\ g[2] \in Nat /\ Place(g[1], g[2]) = p /\ g = <<g[1], g[2]>>
          /\ h[1] \in Zones /\ h[2] \in Nat /\ Place(h[1], h[2]) = p /\ h = <<h[1], h[2]>>
      BY <1>1, <1>2, <2>1
    <3>2. g[1] = h[1] /\ g[2] = h[2]
      BY ONLY <3>1, PlaceInjective
    <3> QED
      BY <3>1, <3>2
  <2>3. here = {h}
    BY <2>1, <2>2
  <2>4. (CHOOSE g \in here : here = {g}) = h
    BY <2>1, <2>3
  <2>5. flash[p] = h
    BY <1>2, <2>1 DEF FtlInv, WrittenInPlace
  <2> QED
    BY <1>5, <2>4, <2>5 DEF here
<1> QED
  BY <1>4, <1>5

(* The flash holds exactly the pages written since each zone's last reset, *)
(* each where locate_page looks for it: a write programs only erased pages *)
(* and a reset erases its zone and nothing of another.                     *)
THEOREM FlashIsRight == Spec => []FlashHoldsZones
BY FlashFromInv, FtlInvariance, PTL

-----------------------------------------------------------------------------
(* A read: the n-th page from page first of zone z is page ReadPage of     *)
(* zone ReadZone.                                                          *)
ReadZone(z, first, i) == z + ((first + i - 1) \div ZonePages)
ReadPage(first, i) == (first + i - 1) % ZonePages

ReadPlace(z, first, i) ==
  [zone |-> ReadZone(z, first, i), page |-> Place(ReadZone(z, first, i), ReadPage(first, i))]

LEMMA ReadStepIsNext ==
  ASSUME FtlInv, NEW z \in Zones, NEW first \in Nat, NEW n \in Nat, NEW i \in Nat, 1 <= i, i + 1 <= n,
         ReadZone(z, first, i) \in Zones, ReadZone(z, first, i + 1) \in Zones
  PROVE  ReadStep(ReadZone(z, first, n), ReadPlace(z, first, i)) = ReadPlace(z, first, i + 1)
<1>1. PICK x \in Nat : x = first + i - 1 /\ x + 1 = first + (i + 1) - 1
  <2>1. first + i - 1 \in Nat /\ (first + i - 1) + 1 = first + (i + 1) - 1
    OBVIOUS
  <2> QED
    BY <2>1
<1>2. ZonePages \in Nat \ {0}
  BY Geometry
<1>3. PICK q \in Nat, m \in 0 .. (ZonePages - 1) : x \div ZonePages = q /\ x % ZonePages = m
  BY <1>2, Division
<1>4. PICK y \in Zones : y = z + q /\ ReadZone(z, first, i) = y /\ ReadPage(first, i) = m
  BY <1>1, <1>3 DEF ReadZone, ReadPage
<1>5. m \in Nat /\ m + 1 \in 0 .. ZonePages /\ y \in Nat /\ z \in Nat
  BY <1>2, ZoneNumber
<1> DEFINE last == ReadZone(z, first, n)
           r == [zone |-> y, page |-> Place(y, m)]
<1>6. ReadPlace(z, first, i) = r
  BY <1>4 DEF ReadPlace
<1>7. PICK p : p = Place(y, m + 1) /\ NextPage(y, Place(y, m)) = p /\ (PastEnd(p) <=> m + 1 = ZonePages)
  BY <1>5, NextIsPlace, PlaceType
<1>8. ReadStep(last, r) = IF PastEnd(p) /\ y # last
                          THEN [zone |-> y + 1, page |-> LocatePage(y + 1, 0)]
                          ELSE [zone |-> y, page |-> p]
  <2>1. r.zone = y /\ r.page = Place(y, m) /\ [r EXCEPT !.page = p] = [zone |-> y, page |-> p]
    OBVIOUS
  <2> HIDE DEF last, r
  <2> QED
    BY <1>7, <2>1 DEF ReadStep
<1>9. CASE m + 1 # ZonePages
  <2>1. (x + 1) % ZonePages = m + 1 /\ (x + 1) \div ZonePages = q
    BY <1>2, <1>3, <1>9, NextDivision
  <2>2. ReadZone(z, first, i + 1) = y /\ ReadPage(first, i + 1) = m + 1
    BY <1>1, <1>4, <2>1 DEF ReadZone, ReadPage
  <2> QED
    BY <1>6, <1>7, <1>8, <1>9, <2>2 DEF ReadPlace
<1>10. CASE m + 1 = ZonePages
  <2>1. (x + 1) % ZonePages = 0 /\ (x + 1) \div ZonePages = q + 1
    BY <1>2, <1>3, <1>10, NextDivision
  <2>2. ReadZone(z, first, i + 1) = y + 1 /\ ReadPage(first, i + 1) = 0 /\ y + 1 \in Zones
    <3>1. ReadZone(z, first, i + 1) = z + (q + 1) /\ z + (q + 1) = y + 1 /\ ReadPage(first, i + 1) = 0
      BY <1>1, <1>4, <1>5, <2>1 DEF ReadZone, ReadPage
    <3> QED
      BY <3>1
  <2>3. y # last
    <3>1. PICK v \in Nat : v = first + n - 1 /\ x + 1 <= v
      <4>1. first + n - 1 \in Nat /\ x + 1 <= first + n - 1
        BY <1>1
      <4> QED
        BY <4>1
    <3>2. (x + 1) \div ZonePages <= v \div ZonePages /\ v \div ZonePages \in Nat
      <4>1. PICK a \in Nat : a = x + 1
        OBVIOUS
      <4>2. a \div ZonePages <= v \div ZonePages
        BY ONLY <1>2, <3>1, <4>1, v \in Nat, QuotientOrder
      <4> QED
        BY <1>2, <4>1, <4>2, Division
    <3>3. last = z + (v \div ZonePages)
      BY <3>1 DEF ReadZone
    <3> HIDE DEF last
    <3> QED
      BY ONLY <1>4, <1>5, <2>1, <3>2, <3>3, q \in Nat
  <2>4. LocatePage(y + 1, 0) = Place(y + 1, 0)
    BY <2>2, LocateIsPlace
  <2> QED
    BY <1>6, <1>7, <1>8, <1>10, <2>2, <2>3, <2>4 DEF ReadPlace
<1> QED
  BY <1>9, <1>10

LEMMA ReadIsPlaces ==
  ASSUME FtlInv, NEW z \in Zones, NEW first \in 0 .. (ZonePages - 1), NEW n \in Nat \ {0},
         \A i \in 1 .. n : ReadZone(z, first, i) \in Zones
  PROVE  \A i \in 1 .. n : ReadPages(z, first, n)[i] = ReadPlace(z, first, i).page
<1> DEFINE last == ReadZone(z, first, n)
           Course(f) == f = [i \in 1 .. n |-> IF i = 1 THEN [zone |-> z, page |-> LocatePage(z, first)]
                                              ELSE ReadStep(last, f[i - 1])]
           g == [i \in 1 .. n |-> ReadPlace(z, first, i)]
<1>1. ReadPlace(z, first, 1) = [zone |-> z, page |-> LocatePage(z, first)]
  <2>1. PICK x \in 0 .. (ZonePages - 1) : x = first + 1 - 1 /\ x = first
    BY Geometry
  <2>2. x \div ZonePages = 0 /\ x % ZonePages = x
    <3>1. ZonePages \in Nat \ {0} /\ x = ZonePages * 0 + x
      BY Geometry
    <3> QED
      BY ONLY <3>1, 0 \in Nat, x \in 0 .. (ZonePages - 1), DivisionUnique
  <2>3. ReadZone(z, first, 1) = z /\ ReadPage(first, 1) = first
    BY <2>1, <2>2, ZoneNumber DEF ReadZone, ReadPage
  <2> QED
    BY <2>3, LocateIsPlace DEF ReadPlace
<1>2. \A i \in 2 .. n : ReadStep(last, ReadPlace(z, first, i - 1)) = ReadPlace(z, first, i)
  <2> TAKE i \in 2 .. n
  <2>1. PICK j \in Nat : j = i - 1 /\ 1 <= j /\ j + 1 = i /\ j + 1 <= n /\ j \in 1 .. n /\ i \in 1 .. n /\ first \in Nat
    <3>1. i - 1 \in Nat
      OBVIOUS
    <3> QED
      BY <3>1, Geometry
  <2>2. ReadZone(z, first, j) \in Zones /\ ReadZone(z, first, j + 1) \in Zones
    BY <2>1
  <2> QED
    BY <2>1, <2>2, ReadStepIsNext
<1> HIDE DEF last
<1>3. \A i \in 1 .. n : i = 1 \/ (i \in 2 .. n /\ i - 1 \in 1 .. n)
  OBVIOUS
<1>4. Course(g)
  BY <1>1, <1>2, <1>3
<1>5. PICK f : f = (CHOOSE h : Course(h)) /\ Course(f)
  <2> HIDE DEF Course
  <2> QED
    BY ONLY <1>4
<1>6. f[1] = ReadPlace(z, first, 1) /\ \A i \in 2 .. n : f[i] = ReadStep(last, f[i - 1])
  <2>1. 1 \in 1 .. n /\ \A i \in 2 .. n : i \in 1 .. n /\ i # 1
    OBVIOUS
  <2> QED
    BY ONLY <1>1, <1>5, <2>1
<1>7. \A i \in 1 .. n : ReadPages(z, first, n)[i] = f[i].page
  BY <1>5 DEF ReadPages, last, ReadZone
<1> HIDE DEF Course
<1> DEFINE Bad == {i \in 1 .. n : f[i] # ReadPlace(z, first, i)}
<1> SUFFICES ASSUME Bad # {} PROVE FALSE
  BY <1>7
<1>8. PICK m \in Bad : \A j \in Bad : m <= j
  <2>1. Bad \in SUBSET Nat
    OBVIOUS
  <2> HIDE DEF Bad
  <2> QED
    BY <2>1, LeastElement
<1>9. m # 1
  BY <1>6, <1>8
<1>10. m \in 2 .. n /\ m - 1 \in 1 .. n /\ m - 1 \notin Bad
  BY <1>3, <1>8, <1>9
<1>11. f[m] = ReadPlace(z, first, m)
  BY <1>2, <1>6, <1>10
<1> QED
  BY <1>8, <1>11

LEMMA ReadsFromInv == FtlInv => ReadsFindPages
<1> SUFFICES ASSUME FtlInv, NEW z \in Zones, NEW first \in 0 .. (write_ptr[z] - 1), NEW n \in 1 .. (ZonePages + 1),
                    \A i \in 1 .. n : /\ ReadZone(z, first, i) \in Zones
                                      /\ ReadPage(first, i) < write_ptr[ReadZone(z, first, i)],
                    NEW i \in 1 .. n
             PROVE  flash[ReadPages(z, first, n)[i]] = <<ReadZone(z, first, i), ReadPage(first, i)>>
  BY DEF ReadsFindPages, ReadZone, ReadPage
<1>1. ZonePages \in Nat \ {0} /\ \A y \in Zones : write_ptr[y] \in 0 .. ZonePages
  BY Geometry DEF FtlInv, TypeOK
<1>2. first \in 0 .. (ZonePages - 1) /\ n \in Nat \ {0}
  BY <1>1
<1>3. ReadPages(z, first, n)[i] = Place(ReadZone(z, first, i), ReadPage(first, i))
  BY <1>2, ReadIsPlaces DEF ReadPlace
<1>4. ReadPage(first, i) \in Nat
  <2>1. PICK x \in Nat : x = first + i - 1
    BY <1>2
  <2> QED
    BY <1>1, <2>1, Division DEF ReadPage
<1>5. ReadPage(first, i) \in 0 .. (write_ptr[ReadZone(z, first, i)] - 1)
  BY <1>1, <1>4
<1> QED
  BY <1>3, <1>5 DEF FtlInv, WrittenInPlace

(* A read of written pages, also one that runs over the end of a zone,     *)
(* visits the pages that hold them, in their order.                        *)
THEOREM ReadsAreRight == Spec => []ReadsFindPages
BY ReadsFromInv, FtlInvariance, PTL
=============================================================================
