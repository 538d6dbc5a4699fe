------------------------- MODULE MCCompactionMerge --------------------------
(***************************************************************************)
(* Instances of CompactionMerge for TLC.                                   *)
(***************************************************************************)
EXTENDS CompactionMerge

CONSTANTS v1, v2, v3, Keys

(* One pair of v2 fills a table exactly, and so do two of the others.      *)
MixedSize == [s \in {v1, v2, v3, DEL} |-> IF s = v2 THEN 3 ELSE 1]

(* The tables of age ts that hold at least one key, each with a string of S. *)
TablesOfAge(ts, S) ==
  {[ts |-> ts, lo |-> Min(DOMAIN kv), hi |-> Max(DOMAIN kv), kv |-> kv] :
     kv \in UNION {[D -> S] : D \in SUBSET Keys \ {{}}}}

Meet(a, b) == a.lo <= b.hi /\ b.lo <= a.hi

(* Two tables of level 0 and at most one of level 1 that meets their range. *)
FromLevel0 ==
  {[moved |-> {a, b}, old |-> o] : a \in TablesOfAge(3, {v3, DEL}), b \in TablesOfAge(2, {v2}),
                                   o \in {{}} \cup {{t} : t \in TablesOfAge(1, {v1})}}

(* One table of a deeper level and two disjoint ones of the next, one of   *)
(* which may be equally old.                                               *)
FromDeeper ==
  {i \in {[moved |-> {a}, old |-> {b, c}] : a \in TablesOfAge(2, {v3, DEL}),
            b \in TablesOfAge(2, {v2}), c \in TablesOfAge(1, {v1})} :
     LET o == SetToSeq(i.old) IN ~Meet(o[1], o[2])}

Met(i) ==
  LET tempMin == Min({t.lo : t \in i.moved})
      tempMax == Max({t.hi : t \in i.moved})
  IN \A t \in i.old : t.hi >= tempMin /\ t.lo <= tempMax

AllInputs == {i \in FromLevel0 \cup FromDeeper : Met(i)}
=============================================================================
