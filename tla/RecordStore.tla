----------------------------- MODULE RecordStore -----------------------------
(***************************************************************************)
(* What the managers rely on of the variable-length store: a new record    *)
(* has an id nobody has, keeps its size, begins as zeros and holds what    *)
(* its owner writes to it, whatever happens to other records and to the    *)
(* trees.  There are no pages here.                                        *)
(***************************************************************************)
EXTENDS Naturals

CONSTANTS Ids, Sizes, Bytes

VARIABLE records   \* map: record id -> its bytes

Init == records = [id \in {} |-> << >>]

New(id, size) ==
  /\ id \notin DOMAIN records
  /\ records' = [i \in DOMAIN records \cup {id} |->
                   IF i = id THEN [k \in 0 .. size - 1 |-> 0] ELSE records[i]]

(* The owner writes a byte of it.                                          *)
Write(id, k, byte) ==
  /\ id \in DOMAIN records
  /\ records' = [records EXCEPT ![id][k] = byte]

Clear == records' = [id \in {} |-> << >>]

Next ==
  \/ \E id \in Ids, size \in Sizes : New(id, size)
  \/ \E id \in DOMAIN records, byte \in Bytes :
       \E k \in DOMAIN records[id] : Write(id, k, byte)
  \/ Clear

Spec == Init /\ [][Next]_records

=============================================================================
