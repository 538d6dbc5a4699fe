--------------------------- MODULE CompactionMerge --------------------------
(***************************************************************************)
(* The k-way merge inside compactionForLevel (LSM-Tree/kvstore.cc), loop   *)
(* by loop: the tables are read oldest first, each gets an iterator, and   *)
(* minKey holds for the key under each iterator the number of the newest   *)
(* table that has it there.  The least entry of minKey goes to the output, *)
(* and update, recursive in the code, finds that table's next entry.       *)
(*                                                                         *)
(* KVStore takes the whole compaction as one step that uses Merge,         *)
(* DropDeleted and Split of Compaction; this module shows that the loops   *)
(* compute them.                                                           *)
(***************************************************************************)
EXTENDS Compaction

CONSTANT Inputs   \* the [moved, old] a compaction may be given: tables of the level above, and of the target

(* A level is a std::set of tables, ordered by Table::operator<, and a     *)
(* table holds finitely many pairs, each of which fits a table.            *)
ASSUME MergeAssumption ==
  /\ TableSize \in Nat /\ InitialSize \in Nat /\ PairSize \in Nat
  /\ \A i \in Inputs :
       /\ IsFiniteSet(i.moved \cup i.old) /\ i.moved \cup i.old # {} /\ i.moved \cap i.old = {}
       /\ \A level \in {i.moved, i.old} : \A t, u \in level : SameAge(t, u) => t = u
       /\ \A t \in i.moved \cup i.old :
            /\ t.ts \in Nat /\ t.lo \in Nat
            /\ IsFiniteSet(DOMAIN t.kv) /\ DOMAIN t.kv \subseteq Nat
            /\ \A k \in DOMAIN t.kv :
                 Size[t.kv[k]] \in Nat /\ InitialSize + PairSize + Size[t.kv[k]] <= TableSize

VARIABLES
  input, lastLevel,  \* the arguments: an element of Inputs, is the target the last level
  unread,            \* sortTable
  pairs, iter,       \* KVToCompact and KVToCompactIter; iter[i] = 0 is an iterator that was never assigned
  minKey,            \* key -> number of a table
  newTable, size,
  index,             \* the table the heads loop or update is at
  written,           \* what writeToFile was given
  pc

vars == <<input, lastLevel, unread, pairs, iter, minKey, newTable, size, index, written, pc>>

Init ==
  /\ input \in Inputs
  /\ lastLevel \in BOOLEAN
  /\ unread = input.moved \cup input.old
  /\ pairs = <<>> /\ iter = <<>>
  /\ minKey = [k \in {} |-> 0]
  /\ newTable = <<>> /\ size = InitialSize
  /\ index = 0
  /\ written = <<>>
  /\ pc = "read"

KeyAt(i)   == pairs[i][iter[i]][1]
ValueAt(i) == pairs[i][iter[i]][2]
AtEnd(i)   == iter[i] = Len(pairs[i]) + 1

Without(key) == [k \in DOMAIN minKey \ {key} |-> minKey[k]]
WithEntry(key, i) == [k \in DOMAIN minKey \cup {key} |-> IF k = key THEN i ELSE minKey[k]]

-----------------------------------------------------------------------------
(* The top of the priority queue is an oldest table; which of two that are *)
(* equally old is the heap's affair.                                       *)
Read ==
  /\ pc = "read"
  /\ \E t \in unread :
       /\ \A u \in unread : ~Older(u, t)
       /\ unread' = unread \ {t}
       /\ pairs' = Append(pairs, InOrder(t.kv, DOMAIN t.kv))
  /\ iter' = Append(iter, 0)
  /\ pc' = IF unread' = {} THEN "heads" ELSE "read"
  /\ index' = IF unread' = {} THEN Len(pairs') ELSE 0
  /\ UNCHANGED <<input, lastLevel, minKey, newTable, size, written>>

(* The first iterators, newest table first: a table starts at its first    *)
(* key that no newer table starts at.                                      *)
(* Mutation: the first key is taken whoever has it.                        *)
FreshOrNot(i) == DOMAIN pairs[i]
Fresh(i) == {n \in DOMAIN pairs[i] : pairs[i][n][1] \notin DOMAIN minKey}

Heads ==
  /\ pc = "heads"
  /\ IF Fresh(index) = {} THEN UNCHANGED <<iter, minKey>>
     ELSE LET n == Min(Fresh(index))
          IN /\ iter' = [iter EXCEPT ![index] = n]
             /\ minKey' = WithEntry(pairs[index][n][1], index)
  /\ index' = index - 1
  /\ pc' = IF index = 1 THEN "merge" ELSE "heads"
  /\ UNCHANGED <<input, lastLevel, unread, pairs, newTable, size, written>>

Overflows(bytes) == bytes > TableSize

Emit ==
  /\ pc = "merge"
  /\ minKey # [k \in {} |-> 0]
  /\ LET key == Min(DOMAIN minKey)
         i   == minKey[key]
         s   == ValueAt(i)
         more == Bytes(s)
     IN /\ \/ lastLevel /\ s = DEL /\ UNCHANGED <<newTable, size, written>>
           \/ /\ ~(lastLevel /\ s = DEL)
              /\ IF Overflows(size + more)
                 THEN /\ written' = Append(written, newTable)
                      /\ newTable' = <<<<key, s>>>>
                      /\ size' = InitialSize + more
                 ELSE /\ newTable' = Append(newTable, <<key, s>>)
                      /\ size' = size + more
                      /\ UNCHANGED written
        /\ minKey' = Without(key)
        /\ iter' = [iter EXCEPT ![i] = @ + 1]
        /\ index' = i
  /\ pc' = "update"
  /\ UNCHANGED <<input, lastLevel, unread, pairs>>

-----------------------------------------------------------------------------
(* update: the next key of table index becomes its entry, unless a newer   *)
(* table has it already; an older table that loses the key goes on to its  *)
(* own next.                                                               *)
UpdateTake ==
  /\ ~AtEnd(index)
  /\ KeyAt(index) \notin DOMAIN minKey
  /\ minKey' = WithEntry(KeyAt(index), index)
  /\ pc' = "merge"
  /\ UNCHANGED <<iter, index>>

(* Mutation: the table that loses the key is not looked at again.          *)
UpdateDisplaceOnly ==
  /\ ~AtEnd(index)
  /\ KeyAt(index) \in DOMAIN minKey
  /\ index > minKey[KeyAt(index)]
  /\ minKey' = [minKey EXCEPT ![KeyAt(index)] = index]
  /\ pc' = "merge"
  /\ UNCHANGED <<iter, index>>
UpdateDisplace ==
  /\ ~AtEnd(index)
  /\ KeyAt(index) \in DOMAIN minKey
  /\ index > minKey[KeyAt(index)]
  /\ minKey' = [minKey EXCEPT ![KeyAt(index)] = index]
  /\ index' = minKey[KeyAt(index)]
  /\ UNCHANGED <<iter, pc>>

(* Mutation: the iterator is not moved.                                    *)
UpdateSkipStays ==
  /\ ~AtEnd(index)
  /\ KeyAt(index) \in DOMAIN minKey
  /\ index <= minKey[KeyAt(index)]
  /\ UNCHANGED <<minKey, index, iter, pc>>
UpdateSkip ==
  /\ ~AtEnd(index)
  /\ KeyAt(index) \in DOMAIN minKey
  /\ index <= minKey[KeyAt(index)]
  /\ iter' = [iter EXCEPT ![index] = @ + 1]
  /\ UNCHANGED <<minKey, index, pc>>

UpdateEnd ==
  /\ AtEnd(index)
  /\ pc' = "merge"
  /\ UNCHANGED <<minKey, iter, index>>

Update ==
  /\ pc = "update"
  /\ UpdateTake \/ UpdateDisplace \/ UpdateSkip \/ UpdateEnd
  /\ UNCHANGED <<input, lastLevel, unread, pairs, newTable, size, written>>

(* What is left in newTable is written too.                                *)
Finish ==
  /\ pc = "merge"
  /\ minKey = [k \in {} |-> 0]
  /\ written' = IF newTable = <<>> THEN written ELSE Append(written, newTable)
  /\ newTable' = <<>>
  /\ pc' = "done"
  /\ UNCHANGED <<input, lastLevel, unread, pairs, iter, minKey, size, index>>

Done == pc = "done" /\ UNCHANGED vars

Next == Read \/ Heads \/ Emit \/ Update \/ Finish \/ Done

Spec == Init /\ [][Next]_vars /\ WF_vars(Next)
-----------------------------------------------------------------------------
(***************************************************************************)
(* Properties.                                                             *)
(***************************************************************************)
Tables == DOMAIN pairs

(* Whenever the least key is taken, minKey has one entry for every table   *)
(* whose iterator was assigned and is not exhausted, at the key under it,  *)
(* and none for another table.  (That a table whose iterator never was     *)
(* assigned has nothing left to write is part of MergeIsRight.)            *)
HeadsTracked ==
  pc = "merge" =>
    /\ \A k \in DOMAIN minKey :
         iter[minKey[k]] # 0 /\ ~AtEnd(minKey[k]) /\ KeyAt(minKey[k]) = k
    /\ \A i \in Tables : iter[i] # 0 /\ ~AtEnd(i) =>
         KeyAt(i) \in DOMAIN minKey /\ minKey[KeyAt(i)] = i

(* The tables written are those that KVStore's compaction step writes: the *)
(* newest pair of every key, without the deletion marks if the target is   *)
(* the last level, cut where the next pair would not fit.  And writeToFile *)
(* never gets an empty table, whose constructor would read the key of a    *)
(* pair that is not there, provided that every pair fits a table.          *)
Expected(late) ==
  LET merged == Merge(input.moved \cup input.old, input.old, late)
      kept   == IF lastLevel THEN DropDeleted(merged) ELSE merged
      parts  == Split(kept)
  IN [n \in DOMAIN parts |-> InOrder(kept, parts[n])]

MergeIsRight ==
  /\ \A n \in DOMAIN written : written[n] # <<>>
  /\ pc = "done" => \E late \in SUBSET input.old : written = Expected(late)

(* The loops end.                                                          *)
MergeEnds == <>(pc = "done")
=============================================================================
