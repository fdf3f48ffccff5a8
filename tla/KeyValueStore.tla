--------------------------- MODULE KeyValueStore ---------------------------
(***************************************************************************)
(* What a BPlusTree promises to its clients (b_plus_tree.h): a map and the *)
(* result of the last call.  There are no pages here, and the order of the *)
(* keys matters only to RemoveAll, which takes all with the same first     *)
(* half.                                                                   *)
(***************************************************************************)
EXTENDS Naturals
Map == INSTANCE OrderedMap

CONSTANTS Keys, Stores, Seconds, NoValue

VARIABLES map, answer

Reply(ok) == answer' = [ok |-> ok, value |-> NoValue]

Init == map = Map!EmptyMap /\ answer = [ok |-> FALSE, value |-> NoValue]

(* Insert does not overwrite.                                              *)
InsertCall(key, value) ==
  /\ map' = Map!Insert(map, key, value)
  /\ Reply(~Map!Found(map, key))

(* GetOrEmplace hands out what is there.                                   *)
EmplaceCall(key, value) ==
  /\ map' = Map!Insert(map, key, value)
  /\ IF Map!Found(map, key) THEN answer' = [ok |-> FALSE, value |-> map[key]]
     ELSE Reply(TRUE)

(* SetValue overwrites, whatever the hint.                                 *)
SetCall(key, value) ==
  /\ map' = Map!SetValue(map, key, value)
  /\ Reply(~Map!Found(map, key))

RemoveCall(key) ==
  /\ map' = Map!Remove(map, {key})
  /\ Reply(Map!Found(map, key))

RemoveAllCall(first) ==
  /\ map' = Map!Remove(map, {k \in Keys : k \div Seconds = first})
  /\ Reply(TRUE)

Next ==
  \/ \E store \in Stores : \/ InsertCall(store[1], store[2])
                           \/ EmplaceCall(store[1], store[2])
                           \/ SetCall(store[1], store[2])
  \/ \E key \in Keys : RemoveCall(key) \/ RemoveAllCall(key \div Seconds)

Spec == Init /\ [][Next]_<<map, answer>>

=============================================================================
