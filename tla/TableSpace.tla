----------------------------- MODULE TableSpace -----------------------------
(***************************************************************************)
(* What the table store (include/utils.h, class MemoryManager) promises    *)
(* its users: a table has a slot of its own in some zone until it is       *)
(* deleted; it may be moved, but only once it is on the device, and only   *)
(* out of a full zone; a zone is erased when it is full, written to its    *)
(* end, and holds no table; and zones are written from slot 0 upwards.     *)
(***************************************************************************)
EXTENDS Integers

CONSTANTS Zones, Tables, TablesPerZone, NoAddr

VARIABLES
  place,    \* where each table is: a pair <<zone, slot>>, or NoAddr
  used,     \* per zone, the slots given to tables since it was erased
  written   \* per zone, how many of them the device has written

space == <<place, used, written>>

Init ==
  /\ place = [t \in Tables |-> NoAddr]
  /\ used = [z \in Zones |-> 0]
  /\ written = [z \in Zones |-> 0]

Stored(t)  == place[t] # NoAddr
Durable(t) == Stored(t) /\ place[t][2] < written[place[t][1]]

Place(t, z) ==
  /\ ~Stored(t)
  /\ used[z] < TablesPerZone
  /\ place' = [place EXCEPT ![t] = <<z, used[z]>>]
  /\ used' = [used EXCEPT ![z] = @ + 1]
  /\ UNCHANGED written

Finish(z) ==
  /\ written[z] < used[z]
  /\ written' = [written EXCEPT ![z] = @ + 1]
  /\ UNCHANGED <<place, used>>

Move(t, z) ==
  /\ Durable(t)
  /\ used[place[t][1]] = TablesPerZone
  /\ z # place[t][1]
  /\ used[z] < TablesPerZone
  /\ written[z] = used[z]
  /\ place' = [place EXCEPT ![t] = <<z, used[z]>>]
  /\ used' = [used EXCEPT ![z] = @ + 1]
  /\ written' = [written EXCEPT ![z] = @ + 1]

Drop(t) ==
  /\ Durable(t)
  /\ place' = [place EXCEPT ![t] = NoAddr]
  /\ UNCHANGED <<used, written>>

Erase(z) ==
  /\ written[z] = TablesPerZone
  /\ \A t \in Tables : Stored(t) => place[t][1] # z
  /\ used' = [used EXCEPT ![z] = 0]
  /\ written' = [written EXCEPT ![z] = 0]
  /\ UNCHANGED place

Next ==
  \/ \E t \in Tables : Drop(t) \/ \E z \in Zones : Place(t, z) \/ Move(t, z)
  \/ \E z \in Zones : Finish(z) \/ Erase(z)

Spec == Init /\ [][Next]_space
=============================================================================
