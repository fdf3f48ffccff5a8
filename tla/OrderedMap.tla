----------------------------- MODULE OrderedMap -----------------------------
(***************************************************************************)
(* What the managers rely on of a BPlusTree<Key, Value> (b_plus_tree.h):   *)
(* a map with ordered keys, here a function whose domain is the set of     *)
(* keys stored.  The pages of the tree, its splits and its merges are      *)
(* below this module; the managers call nothing but these operations and   *)
(* iterate in key order from a lower bound.                                *)
(***************************************************************************)

EmptyMap == [k \in {} |-> k]

Found(m, k) == k \in DOMAIN m

(* Insert never overwrites: a key already present leaves the tree as it is *)
(* and the call returns false, a result the release build ignores.         *)
Insert(m, k, v) ==
  IF Found(m, k) THEN m
  ELSE [x \in DOMAIN m \cup {k} |-> IF x = k THEN v ELSE m[x]]

(* SetValue overwrites, and inserts a key it does not find.                *)
SetValue(m, k, v) ==
  [x \in DOMAIN m \cup {k} |-> IF x = k THEN v ELSE m[x]]

(* Remove of a set of keys; keys that are not stored are ignored.          *)
Remove(m, K) == [x \in DOMAIN m \ K |-> m[x]]

=============================================================================
