--------------------------- MODULE BPlusTreeStore ---------------------------
(***************************************************************************)
(* The tree side by side with the abstract store: every call is made to    *)
(* both, and they may never be told apart by what a search finds or a call *)
(* returns.  It is the refinement of KeyValueStore by BPlusTree, with      *)
(* stored and expected as its map and answer.                              *)
(***************************************************************************)
EXTENDS BPlusTree

VARIABLES stored, expected

Store == INSTANCE KeyValueStore WITH map <- stored, answer <- expected

BothInit == Init /\ Store!Init

BothNext ==
  \/ \E store \in Stores :
       \/ Insert(store[1], store[2]) /\ Store!InsertCall(store[1], store[2])
       \/ GetOrEmplace(store[1], store[2]) /\ Store!EmplaceCall(store[1], store[2])
       \/ \E hint \in Hints : /\ SetValue(store[1], store[2], hint)
                              /\ Store!SetCall(store[1], store[2])
  \/ \E key \in Keys : Remove(key) /\ Store!RemoveCall(key)
  \/ \E key \in Keys : RemoveAll(First(key)) /\ Store!RemoveAllCall(First(key))

BothSpec == BothInit /\ [][BothNext]_<<tree, answer, stored, expected>>

(* Pages, splits, merges and stale hints are invisible: after any calls a  *)
(* search finds what the clients stored (OrderedMap) and every call has    *)
(* returned what the map would have returned.                              *)
ImplementsStore == View = stored /\ answer = expected

=============================================================================
