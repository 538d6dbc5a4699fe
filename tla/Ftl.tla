--------------------------------- MODULE Ftl ---------------------------------
(***************************************************************************)
(* The flash translation layer of the simulated zoned SSD, femu/ftl.c:     *)
(* where the pages of a zone lie on the flash.  A write follows the write  *)
(* pointer wpp of the zone, which zns_advance_write_pointer moves page by  *)
(* page; a read computes its first page with locate_page and walks on with *)
(* get_next_page; a reset erases a range of blocks.  Three pieces of code  *)
(* have to agree on one layout.                                            *)
(*                                                                         *)
(* The simulator stores no data and only charges a lun for each page and   *)
(* block it touches: flash is what a device would hold that programs and   *)
(* erases exactly those; the time it takes is left out.                    *)
(* Positions count pages.  The caller writes where the zone's write        *)
(* pointer is: that it does is MemoryManager's NoZnsError.                 *)
(***************************************************************************)
EXTENDS Naturals, Sequences

CONSTANTS
  num_fcg,      \* NUM_FCGS, the groups the channels are divided into (1)
  nchs,         \* SSD_NCHS (8)
  luns_per_ch,  \* SSD_LUNS_PER_CH (8)
  blks_per_pl,  \* SSD_BLKS_PER_PL (512)
  pgs_per_blk,  \* SSD_PGS_PER_BLK (1024)
  zone_blks,    \* ZONE_SIZE / block_size, the blocks of a zone (32)
  WriteSizes,   \* the lengths of writes, in pages
  WrittenZones, \* bound of the model: the zones that are written
  Erased        \* the content of an erased page

ChsPerFcg == nchs \div num_fcg
End       == zone_blks \div ChsPerFcg       \* the blocks a zone has on each of its channels

ASSUME GeometryAssumption ==
  /\ {num_fcg, nchs, luns_per_ch, blks_per_pl, pgs_per_blk, zone_blks} \subseteq Nat \ {0}
  /\ nchs % num_fcg = 0
  /\ zone_blks % ChsPerFcg = 0
  /\ blks_per_pl % End = 0
  /\ WriteSizes \subseteq Nat \ {0}

ZonesPerLun == (blks_per_pl * nchs) \div zone_blks
Zones       == 0 .. (luns_per_ch * ZonesPerLun - 1)
ZonePages   == zone_blks * pgs_per_blk
Pages       == [ch : 0 .. (nchs - 1), lun : 0 .. (luns_per_ch - 1),
                blk : 0 .. (blks_per_pl - 1), pg : 0 .. (pgs_per_blk - 1)]

ASSUME BoundAssumption == WrittenZones \subseteq Zones

VARIABLES
  write_ptr, state, wpp,   \* NvmeZone, field by field
  flash                    \* what each physical page holds: Erased, or <<zone, page of the zone>>

vars == <<write_ptr, state, wpp, flash>>

-----------------------------------------------------------------------------
FCGid(z) == z % num_fcg
FirstBlk(z) == (End * (z \div num_fcg)) % blks_per_pl

(* zns_init, and zns_reset_wpp.                                            *)
StartOf(z) ==
  [ch |-> ChsPerFcg * FCGid(z), lun |-> z \div ZonesPerLun, blk |-> FirstBlk(z), pg |-> 0]

Init ==
  /\ write_ptr = [z \in Zones |-> 0]
  /\ state = [z \in Zones |-> "empty"]
  /\ wpp = [z \in Zones |-> StartOf(z)]
  /\ flash = [p \in Pages |-> Erased]

(* The page after p in zone z, channel by channel, block by block, page by *)
(* page: the code of zns_advance_write_pointer and of get_next_page.       *)
NextPage(z, p) ==
  LET ch == ChsPerFcg * FCGid(z)
  IN IF (p.ch + 1) % ChsPerFcg # 0 THEN [p EXCEPT !.ch = @ + 1]
     ELSE IF (p.blk + 1) % End # 0 THEN [ch |-> ch, lun |-> p.lun, blk |-> p.blk + 1, pg |-> p.pg]
     ELSE [ch |-> ch, lun |-> p.lun, blk |-> FirstBlk(z), pg |-> p.pg + 1]

(* Mutation of PastEnd: one page number early.                             *)
PastEndEarly(p) == p.pg + 1 = pgs_per_blk

PastEnd(p) == p.pg = pgs_per_blk

(* locate_page: the place of the n-th page of zone z.                      *)
LocatePage(z, n) ==
  [ch  |-> (n % ChsPerFcg) + FCGid(z) * ChsPerFcg,
   lun |-> wpp[z].lun,
   blk |-> ((n \div ChsPerFcg) % End) + FirstBlk(z),
   pg  |-> (n \div ChsPerFcg) \div End]

-----------------------------------------------------------------------------
(* zns_write of n pages at the write pointer of zone z.                    *)
Write(z, n) ==
  LET at[i \in 0 .. n] == IF i = 0 THEN wpp[z] ELSE NextPage(z, at[i - 1])
  IN /\ write_ptr[z] + n <= ZonePages
     /\ write_ptr' = [write_ptr EXCEPT ![z] = @ + n]
     /\ wpp' = [wpp EXCEPT ![z] = at[n]]
     /\ state' = [state EXCEPT ![z] = IF \E i \in 1 .. n : PastEnd(at[i]) THEN "full" ELSE @]
     /\ flash' = [p \in Pages |->
                    IF \E i \in 0 .. (n - 1) : p = at[i]
                    THEN <<z, write_ptr[z] + (CHOOSE i \in 0 .. (n - 1) : p = at[i])>>
                    ELSE flash[p]]

(* Mutation of ReadStep: the page is located before the zone is advanced.  *)
ReadStepOldZone(last, r) ==
  LET p == NextPage(r.zone, r.page)
  IN IF PastEnd(p) /\ r.zone # last
     THEN [zone |-> r.zone + 1, page |-> LocatePage(r.zone, 0)]
     ELSE [r EXCEPT !.page = p]

(* The step from one page of a read to the next: past the end of a zone    *)
(* that is not the last of the read it enters the next zone.               *)
ReadStep(last, r) ==
  LET p == NextPage(r.zone, r.page)
  IN IF PastEnd(p) /\ r.zone # last
     THEN [zone |-> r.zone + 1, page |-> LocatePage(r.zone + 1, 0)]
     ELSE [r EXCEPT !.page = p]

(* zns_read of n pages from page first of zone z: the physical pages in    *)
(* the order it visits them.                                               *)
ReadPages(z, first, n) ==
  LET last == z + ((first + n - 1) \div ZonePages)
      at[i \in 1 .. n] == IF i = 1 THEN [zone |-> z, page |-> LocatePage(z, first)]
                          ELSE ReadStep(last, at[i - 1])
  IN [i \in 1 .. n |-> at[i].page]

(* Mutation of ErasedBlks: the loop stops at a multiple of End, also at its*)
(* first block.                                                            *)
ErasedBlksNoFirst(z) ==
  {b \in 0 .. (blks_per_pl - 1) :
     FirstBlk(z) <= b /\ \A c \in FirstBlk(z) .. b : c % End # 0}

(* zns_reset: a zone that is not full is left as it is.  The erase loop    *)
(* starts at the write pointer that was just reset.                        *)
ErasedBlks(z) ==
  {b \in 0 .. (blks_per_pl - 1) :
     /\ FirstBlk(z) <= b
     /\ \A c \in (FirstBlk(z) + 1) .. b : c % End # 0}

ErasedChs(z) == ChsPerFcg * FCGid(z) .. (ChsPerFcg * (FCGid(z) + 1) - 1)

Reset(z) ==
  /\ state[z] = "full"
  /\ write_ptr' = [write_ptr EXCEPT ![z] = 0]
  /\ wpp' = [wpp EXCEPT ![z] = StartOf(z)]
  /\ state' = [state EXCEPT ![z] = "empty"]
  /\ flash' = [p \in Pages |->
                 IF p.lun = StartOf(z).lun /\ p.ch \in ErasedChs(z) /\ p.blk \in ErasedBlks(z)
                 THEN Erased ELSE flash[p]]

Next == \E z \in WrittenZones : Reset(z) \/ \E n \in WriteSizes : Write(z, n)

Spec == Init /\ [][Next]_vars
-----------------------------------------------------------------------------
(***************************************************************************)
(* Properties.                                                             *)
(***************************************************************************)
TypeOK ==
  /\ write_ptr \in [Zones -> 0 .. ZonePages]
  /\ state \in [Zones -> {"empty", "full"}]
  /\ wpp \in [Zones -> [ch : 0 .. (nchs - 1), lun : 0 .. (luns_per_ch - 1),
                       blk : 0 .. (blks_per_pl - 1), pg : 0 .. pgs_per_blk]]
  /\ flash \in [Pages -> {Erased} \cup (Zones \X (0 .. (ZonePages - 1)))]

(* zns_reset decides by the state whether there is anything to erase, and  *)
(* zns_write sets it when the write pointer wpp passes the last page: that *)
(* is when the zone holds all its pages, however the writes were cut; and  *)
(* wpp is a page of the device until then.                                 *)
FullWhenWritten ==
  /\ TypeOK
  /\ \A z \in Zones : state[z] = "full" <=> write_ptr[z] = ZonePages

(* The flash holds exactly the pages written since each zone's last reset, *)
(* each where locate_page looks for it: no two zones share a page, a reset *)
(* erases all of its zone and nothing of another, and so a write programs  *)
(* only pages that are erased.                                             *)
FlashHoldsZones ==
  \A p \in Pages :
    LET here == {h \in Zones \X (0 .. (ZonePages - 1)) :
                   h[2] < write_ptr[h[1]] /\ LocatePage(h[1], h[2]) = p}
    IN flash[p] = IF here = {} THEN Erased ELSE CHOOSE h \in here : here = {h}

(* A read of pages that were written, also one that runs over the end of a *)
(* zone, visits the pages that hold them, in their order.                  *)
ReadsFindPages ==
  \A z \in Zones : \A first \in 0 .. (write_ptr[z] - 1) : \A n \in 1 .. (ZonePages + 1) :
    LET wanted == [i \in 1 .. n |-> <<z + ((first + i - 1) \div ZonePages), (first + i - 1) % ZonePages>>]
    IN (\A i \in 1 .. n : wanted[i][1] \in Zones /\ wanted[i][2] < write_ptr[wanted[i][1]])
       => \A i \in 1 .. n : flash[ReadPages(z, first, n)[i]] = wanted[i]
=============================================================================
