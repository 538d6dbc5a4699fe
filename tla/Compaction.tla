----------------------------- MODULE Compaction -----------------------------
(***************************************************************************)
(* What a compaction of LSM-Tree/kvstore.cc computes from the tables it    *)
(* takes: which table is newer, what remains of a key that several hold,   *)
(* and how the result is cut into tables.  A table is a record with, among *)
(* others, its timestamp ts, its least key lo and its pairs kv.            *)
(***************************************************************************)
EXTENDS TableSizes, Packing, Integers, FiniteSets, Sequences, FiniteSetsExt, SequencesExt, TLC

CONSTANT DEL      \* "~DELETED~"

(* Table::operator<, the order of a level's set of tables.                 *)
Older(a, b) == a.ts < b.ts \/ (a.ts = b.ts /\ a.lo < b.lo)
SameAge(a, b) == ~Older(a, b) /\ ~Older(b, a)

(* Mutation: of equal keys the pair of the older table is kept.            *)
MergeKeepsOlder(tables, old, late) ==
  LET holders(k) == {t \in tables : k \in DOMAIN t.kv}
  IN [k \in UNION {DOMAIN t.kv : t \in tables} |->
        (CHOOSE t \in holders(k) : \A u \in holders(k) : ~Older(u, t)).kv[k]]

(* The priority queue hands the tables over oldest first and update keeps, *)
(* of equal keys, the pair of the later table; which of two tables of the  *)
(* same age comes later is the heap's affair: late are those of the target *)
(* level that do.                                                          *)
Merge(tables, old, late) ==
  LET Later(a, b) == Older(b, a) \/ (SameAge(a, b) /\ (a \in late \/ (a \notin old /\ b \notin late)))
      holders(k) == {t \in tables : k \in DOMAIN t.kv}
  IN [k \in UNION {DOMAIN t.kv : t \in tables} |->
        (CHOOSE t \in holders(k) : \A u \in holders(k) \ {t} : Later(t, u)).kv[k]]

DropDeleted(kv) == [k \in {x \in DOMAIN kv : kv[x] # DEL} |-> kv[k]]

(* The bytes of the pairs, and the keys that open a table when the pairs   *)
(* are written in key order.                                               *)
Bytes(s) == PairSize + Size[s]
Weights(kv) == [k \in DOMAIN kv |-> Bytes(kv[k])]

Opens(kv) == Opening(Weights(kv), InitialSize, TableSize)

(* The merged pairs, cut where the next one would not fit.                 *)
Split(kv) ==
  LET opens == Opens(kv)
  IN [i \in 1 .. Cardinality(opens) |->
        {k \in DOMAIN kv : Cardinality({f \in opens : f <= k}) = i}]
=============================================================================
