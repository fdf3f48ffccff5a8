----------------------------- MODULE MCBPlusTree -----------------------------
(* Leaves of at most two entries (one at least) and internal frames of at   *)
(* most three keys (one at least): frames are split unevenly, borrow from   *)
(* and merge with siblings on either side, on both levels above and in the  *)
(* leaves.  One key can be written with two values.                         *)
EXTENDS BPlusTreeStore

MCKeys == 0 .. 6
MCValues == 100 .. 108
MCStores == {<<k, 100 + k>> : k \in MCKeys} \cup {<<3, 108>>}
MCPageIds == 1 .. 12

(* Page ids are only names: trees of the same shape behave alike, whatever  *)
(* pages they are on.  A leaf's next page is named by the keys on it.       *)
RECURSIVE Shape(_, _)
Shape(t, page) ==
  LET frame == t.pages[page] IN
  CASE frame.leaf ->
         <<frame.keys, frame.values,
           IF frame.next = INVALID_PAGE_ID THEN <<>> ELSE t.pages[frame.next].keys>>
    [] ~frame.leaf ->
         <<frame.keys, [i \in DOMAIN frame.values |-> Shape(t, frame.values[i])]>>

MCView ==
  <<IF tree.root = INVALID_PAGE_ID THEN <<>> ELSE Shape(tree, tree.root),
    Cardinality(PagesInUse(tree)), answer, stored, expected>>

=============================================================================
