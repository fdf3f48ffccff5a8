------------------------------ MODULE BPlusTree ------------------------------
(***************************************************************************)
(* The B+-tree of b_plus_tree.cpp over pages that the buffer pool keeps.    *)
(* A tree is a root page and the pages in use; each page holds one frame.   *)
(* KEY(1..n) is the sequence keys; VALUE(1..n) of a leaf is the sequence    *)
(* values, and PAGE_ID(0..n) of an internal frame is values shifted by one. *)
(* The operations are operators from trees to trees, in the recursive form  *)
(* of the code; an action applies one of them.                              *)
(***************************************************************************)
EXTENDS Integers, Sequences, FiniteSets
Seqs == INSTANCE SequencesExt
Sets == INSTANCE FiniteSetsExt
Util == INSTANCE Utility

CONSTANTS
  Keys,         \* the keys clients use, a finite set of integers
  Values,       \* the values of a leaf
  Stores,       \* the pairs of a key and a value that clients write
  PageIds,      \* bound: the pages of the file, a finite set of naturals
  LeafMax,      \* BPlusTreeLeafFrame::kMaxSize
  InternalMax,  \* BPlusTreeInternalFrame::kMaxSize
  HintIndexes,  \* bound: the indexes of the hints given to SetValue
  Seconds,      \* how many values the second half of a composite key has
  NoValue       \* a *value that was not assigned

ASSUME BPlusTreeAssumption ==
  /\ Keys \subseteq Nat /\ PageIds \subseteq Nat
  /\ Stores \subseteq Keys \X Values
  /\ {LeafMax, InternalMax, Seconds} \subseteq Nat \ {0, 1}
  /\ HintIndexes \subseteq 1 .. LeafMax
  /\ NoValue \notin Values

VARIABLES
  tree,    \* [root, pages]: root_page_id_ and the frames of the pages in use
  answer   \* what the last operation returned

vars == <<tree, answer>>

INVALID_PAGE_ID == -1

-----------------------------------------------------------------------------
(* Frames and pages.                                                       *)

LeafFrame(keys, values, next) ==
  [leaf |-> TRUE, keys |-> keys, values |-> values, next |-> next]

InternalFrame(keys, values) ==
  [leaf |-> FALSE, keys |-> keys, values |-> values, next |-> INVALID_PAGE_ID]

LeafMin == LeafMax \div 2
InternalMin == InternalMax \div 2

Size(frame) == Len(frame.keys)

(* Where VALUE(i) or PAGE_ID(i) is in the sequence values.                 *)
Slot(frame, i) == IF frame.leaf THEN i ELSE i + 1

Unused == [leaf |-> FALSE, keys |-> <<>>, values |-> <<>>, next |-> INVALID_PAGE_ID]

PagesInUse(t) == {p \in PageIds : t.pages[p] # Unused}

NewPage(t) == Sets!Min(PageIds \ PagesInUse(t))

WithFrame(t, page, frame) == [t EXCEPT !.pages[page] = frame]

WithoutPage(t, page) == [t EXCEPT !.pages[page] = Unused]

WithKey(frame, i, key) == [frame EXCEPT !.keys[i] = key]

(* The entries from to .. up to of a leaf, and the keys of an internal     *)
(* frame with the children on both sides of each of them.                  *)
LeafPart(frame, from, to, next) ==
  LeafFrame(SubSeq(frame.keys, from, to), SubSeq(frame.values, from, to), next)

InternalPart(frame, from, to) ==
  InternalFrame(SubSeq(frame.keys, from, to), SubSeq(frame.values, from, to + 1))

InsertInFrame(frame, index, key, value) ==
  [frame EXCEPT !.keys = Seqs!InsertAt(@, index + 1, key),
                !.values = Seqs!InsertAt(@, Slot(frame, index + 1), value)]

RemoveInFrame(frame, index) ==
  [frame EXCEPT !.keys = Seqs!RemoveAt(@, index),
                !.values = Seqs!RemoveAt(@, Slot(frame, index))]

-----------------------------------------------------------------------------
(* Search.                                                                 *)

(* The first index whose key is greater, one past the end if there is none.*)
KeyIndex(key, frame) == Util!UpperBound(frame.keys, key)

RECURSIVE Descend(_, _, _)
Descend(t, page, key) ==
  LET frame == t.pages[page]
      index == KeyIndex(key, frame) - 1
      here == <<[page |-> page, index |-> index]>>
  IN  IF frame.leaf THEN here
      ELSE here \o Descend(t, frame.values[Slot(frame, index)], key)

(* The stack of the Context: positions from the root down to a leaf.       *)
FindLeafFrame(t, key) ==
  IF t.root = INVALID_PAGE_ID THEN <<>> ELSE Descend(t, t.root, key)

(* Insert, GetOrEmplace and Remove compare KeyAt(Index()), even at index 0,*)
(* where the bytes before the keys are no key of a client.                 *)
KeyIsAt(t, pos, key) ==
  /\ pos.index \in 1 .. Size(t.pages[pos.page])
  /\ t.pages[pos.page].keys[pos.index] = key

HasKey(t, key) ==
  LET stack == FindLeafFrame(t, key)
  IN  stack # <<>> /\ KeyIsAt(t, Seqs!Last(stack), key)

(* GetValue: the position of a key, and what is stored there.              *)
GetValue(t, key) ==
  LET pos == Seqs!Last(FindLeafFrame(t, key))
  IN  t.pages[pos.page].values[pos.index]

End == [page |-> INVALID_PAGE_ID, index |-> 0]

LowerBound(t, key) ==
  LET stack == FindLeafFrame(t, key)
      pos == Seqs!Last(stack)
      leaf == t.pages[pos.page]
  IN  CASE stack = <<>> -> End
        [] stack # <<>> /\ KeyIsAt(t, pos, key) -> pos
        [] stack # <<>> /\ ~KeyIsAt(t, pos, key) /\ pos.index < Size(leaf) ->
             [pos EXCEPT !.index = @ + 1]
        [] OTHER -> IF leaf.next = INVALID_PAGE_ID THEN End
                    ELSE [page |-> leaf.next, index |-> 1]

(* Iterator::operator++.                                                   *)
Advance(t, pos) ==
  LET leaf == t.pages[pos.page]
  IN  IF pos.index < Size(leaf) THEN [pos EXCEPT !.index = @ + 1]
      ELSE IF leaf.next = INVALID_PAGE_ID THEN End
      ELSE [page |-> leaf.next, index |-> 1]

(* The positions an iterator visits from pos, at most n of them.           *)
RECURSIVE Visited(_, _, _)
Visited(t, pos, n) ==
  IF n = 0 \/ pos = End THEN <<>>
  ELSE <<pos>> \o Visited(t, Advance(t, pos), n - 1)

(* A loop over an iterator from a lower bound.  More steps than there are  *)
(* keys are never needed; one more shows a loop that does not end.         *)
Iterate(t, key) ==
  LET seen == Visited(t, LowerBound(t, key), Cardinality(Keys) + 1)
  IN  [i \in DOMAIN seen |-> t.pages[seen[i].page].keys[seen[i].index]]

(* A composite key <<first, second>> is the integer first * n + second.    *)
First(key) == key \div Seconds

PartialSearch(t, first) ==
  LET seen == Iterate(t, first * Seconds)
      stop == Sets!Min({i \in 1 .. Len(seen) + 1 :
                          i <= Len(seen) => First(seen[i]) # first})
  IN  SubSeq(seen, 1, stop - 1)

-----------------------------------------------------------------------------
(* Insertion.                                                              *)

(* Where a full internal frame is cut, and whether the new key belongs to  *)
(* the lower half.                                                         *)
Cut(parent, key) ==
  LET middle == (Size(parent) + 1) \div 2 + 1
      left == key < parent.keys[middle]
  IN  [left |-> left, at |-> IF left THEN middle - 1 ELSE middle]

(* The new key fell between the halves: it goes up itself, and the new     *)
(* page becomes the first child of the upper half.                         *)
SplitBetween(parent, at, key, new) ==
  [lower |-> InternalPart(parent, 1, at),
   upper |-> [InternalPart(parent, at + 1, Size(parent)) EXCEPT !.values[1] = new],
   key   |-> key]

(* Otherwise the key at the cut goes up.                                   *)
SplitBeside(parent, cut, index, key, new) ==
  LET lower == InternalPart(parent, 1, cut.at - 1)
      upper == InternalPart(parent, cut.at + 1, Size(parent))
  IN  [lower |-> IF cut.left THEN InsertInFrame(lower, index, key, new) ELSE lower,
       upper |-> IF cut.left THEN upper
                 ELSE InsertInFrame(upper, index - cut.at, key, new),
       key   |-> parent.keys[cut.at]]

SplitInternal(parent, index, key, new) ==
  LET cut == Cut(parent, key)
  IN  IF cut.left /\ parent.keys[cut.at] < key
      THEN SplitBetween(parent, cut.at, key, new)
      ELSE SplitBeside(parent, cut, index, key, new)

(* The separator key and the new page on its right go into the parent of   *)
(* the page old, which splits in turn when it is full; above the root a    *)
(* new root is made.                                                       *)
RECURSIVE InsertInParent(_, _, _, _, _)
InsertInParent(t, stack, old, key, new) ==
  LET pos == Seqs!Last(stack)
      parent == t.pages[pos.page]
      other == NewPage(t)
      halves == SplitInternal(parent, pos.index, key, new)
  IN  CASE old = t.root ->
             [WithFrame(t, other, InternalFrame(<<key>>, <<old, new>>))
                EXCEPT !.root = other]
        [] old # t.root /\ Size(parent) < InternalMax ->
             WithFrame(t, pos.page, InsertInFrame(parent, pos.index, key, new))
        [] OTHER ->
             InsertInParent(
               WithFrame(WithFrame(t, pos.page, halves.lower), other, halves.upper),
               Seqs!Front(stack), pos.page, halves.key, other)

(* The halves of a full leaf, linked to each other and to the next leaf.   *)
(* Mutant: the upper half forgets the next leaf.                           *)
LeafHalvesUnlinked(leaf, split, new) ==
  [lower |-> LeafPart(leaf, 1, split, new),
   upper |-> LeafPart(leaf, split + 1, Size(leaf), INVALID_PAGE_ID)]

LeafHalves(leaf, split, new) ==
  [lower |-> LeafPart(leaf, 1, split, new),
   upper |-> LeafPart(leaf, split + 1, Size(leaf), leaf.next)]

SplitLeaf(t, stack, key, value) ==
  LET pos == Seqs!Last(stack)
      leaf == t.pages[pos.page]
      new == NewPage(t)
      middle == (Size(leaf) + 1) \div 2
      left == key < leaf.keys[middle]
      split == IF left THEN middle - 1 ELSE middle
      halves == LeafHalves(leaf, split, new)
      lower == IF left THEN InsertInFrame(halves.lower, pos.index, key, value)
               ELSE halves.lower
      upper == IF left THEN halves.upper
               ELSE InsertInFrame(halves.upper, pos.index - split, key, value)
  IN  InsertInParent(WithFrame(WithFrame(t, pos.page, lower), new, upper),
                     Seqs!Front(stack), pos.page, upper.keys[1], new)

InsertInLeaf(t, stack, key, value) ==
  LET pos == Seqs!Last(stack)
      leaf == t.pages[pos.page]
  IN  IF Size(leaf) < LeafMax
      THEN WithFrame(t, pos.page, InsertInFrame(leaf, pos.index, key, value))
      ELSE SplitLeaf(t, stack, key, value)

CreateRootFrame(t) ==
  [WithFrame(t, NewPage(t), LeafFrame(<<>>, <<>>, INVALID_PAGE_ID))
     EXCEPT !.root = NewPage(t)]

(* A key that is not there is put where FindLeafFrame looked for it, in a  *)
(* root created for it if the tree is empty.                               *)
Inserted(t, key, value) ==
  LET u == IF t.root = INVALID_PAGE_ID THEN CreateRootFrame(t) ELSE t
  IN  InsertInLeaf(u, FindLeafFrame(u, key), key, value)

-----------------------------------------------------------------------------
(* Removal.                                                                *)

(* Mutant: one less than the minimum is let pass.                          *)
TooSmallLate(frame) ==
  Size(frame) + 1 < (IF frame.leaf THEN LeafMin ELSE InternalMin)

TooSmall(frame) == Size(frame) < (IF frame.leaf THEN LeafMin ELSE InternalMin)

(* The neighbour a frame that became too small turns to, the right one     *)
(* only for the first child, and the separator between the two.            *)
FindSibling(t, stack) ==
  LET above == stack[Len(stack) - 1]
      parent == t.pages[above.page]
  IN  IF above.index = 0
      THEN [page |-> parent.values[2], isRight |-> TRUE, separator |-> 1]
      ELSE [page |-> parent.values[above.index], isRight |-> FALSE,
            separator |-> above.index]

(* One entry moves from the sibling to the frame, and the separator in the *)
(* parent becomes the first key on its right.                              *)
BorrowLeaf(t, stack, sibling) ==
  LET page == Seqs!Last(stack).page
      parent == stack[Len(stack) - 1].page
      leaf == t.pages[page]
      from == t.pages[sibling.page]
      index == IF sibling.isRight THEN 1 ELSE Size(from)
      grown == InsertInFrame(leaf, IF sibling.isRight THEN Size(leaf) ELSE 0,
                             from.keys[index], from.values[index])
      shrunk == RemoveInFrame(from, index)
      right == IF sibling.isRight THEN shrunk ELSE grown
  IN  WithFrame(WithFrame(WithFrame(t, page, grown), sibling.page, shrunk),
                parent, WithKey(t.pages[parent], sibling.separator, right.keys[1]))

(* One child moves from the sibling to the frame through the parent: the   *)
(* separator comes down and a key of the sibling goes up.                  *)
BorrowInternal(t, stack, sibling) ==
  LET page == Seqs!Last(stack).page
      parent == stack[Len(stack) - 1].page
      down == t.pages[parent].keys[sibling.separator]
      internal == t.pages[page]
      from == t.pages[sibling.page]
      n == Size(from)
      up == IF sibling.isRight THEN from.keys[1] ELSE from.keys[n]
      grown ==
        IF sibling.isRight
        THEN InternalFrame(Append(internal.keys, down),
                           Append(internal.values, from.values[1]))
        ELSE InternalFrame(<<down>> \o internal.keys,
                           <<from.values[n + 1]>> \o internal.values)
      shrunk == IF sibling.isRight THEN InternalPart(from, 2, n)
                ELSE InternalPart(from, 1, n - 1)
  IN  WithFrame(WithFrame(WithFrame(t, page, grown), sibling.page, shrunk),
                parent, WithKey(t.pages[parent], sibling.separator, up))

LeftPage(stack, sibling) ==
  IF sibling.isRight THEN Seqs!Last(stack).page ELSE sibling.page

RightPage(stack, sibling) ==
  IF sibling.isRight THEN sibling.page ELSE Seqs!Last(stack).page

(* Mutant: the left leaf keeps its link to the page that is deleted.       *)
MergedKeepingLink(left, right, separator) ==
  IF left.leaf
  THEN LeafFrame(left.keys \o right.keys, left.values \o right.values, left.next)
  ELSE InternalFrame(left.keys \o <<separator>> \o right.keys,
                     left.values \o right.values)

(* The contents of both, with the separator between the keys of internal   *)
(* frames.                                                                 *)
Merged(left, right, separator) ==
  IF left.leaf
  THEN LeafFrame(left.keys \o right.keys, left.values \o right.values, right.next)
  ELSE InternalFrame(left.keys \o <<separator>> \o right.keys,
                     left.values \o right.values)

(* The right one of the two moves into the left one and its page is        *)
(* deleted; the separator is removed from the parent by the caller.        *)
Merge(t, stack, sibling) ==
  LET left == LeftPage(stack, sibling)
      right == RightPage(stack, sibling)
      separator == t.pages[stack[Len(stack) - 1].page].keys[sibling.separator]
  IN  WithoutPage(WithFrame(t, left, Merged(t.pages[left], t.pages[right], separator)),
                  right)

(* The stack with the position of the separator on top.                    *)
Above(stack, sibling) ==
  Append(SubSeq(stack, 1, Len(stack) - 2),
         [stack[Len(stack) - 1] EXCEPT !.index = sibling.separator])

(* Mutant: the page of the old root is not deleted.                        *)
CollapsedKeepingPage(t) == [t EXCEPT !.root = t.pages[t.root].values[1]]

(* A root with one child left gives way to it.                             *)
Collapsed(t) ==
  [WithoutPage(t, t.root) EXCEPT !.root = t.pages[t.root].values[1]]

RECURSIVE RemoveInInternal(_, _)
RemoveInInternal(t, stack) ==
  LET pos == Seqs!Last(stack)
      u == WithFrame(t, pos.page, RemoveInFrame(t.pages[pos.page], pos.index))
      size == Size(u.pages[pos.page])
      sibling == FindSibling(u, stack)
  IN  CASE pos.page = t.root -> IF size = 0 THEN Collapsed(u) ELSE u
        [] pos.page # t.root /\ ~TooSmall(u.pages[pos.page]) -> u
        [] pos.page # t.root /\ TooSmall(u.pages[pos.page])
           /\ Size(u.pages[sibling.page]) > InternalMin ->
             BorrowInternal(u, stack, sibling)
        [] OTHER ->
             RemoveInInternal(Merge(u, stack, sibling), Above(stack, sibling))

RemoveInLeaf(t, stack) ==
  LET pos == Seqs!Last(stack)
      u == WithFrame(t, pos.page, RemoveInFrame(t.pages[pos.page], pos.index))
      size == Size(u.pages[pos.page])
      sibling == FindSibling(u, stack)
  IN  CASE pos.page = t.root ->
             IF size = 0
             THEN [WithoutPage(u, pos.page) EXCEPT !.root = INVALID_PAGE_ID]
             ELSE u
        [] pos.page # t.root /\ ~TooSmall(u.pages[pos.page]) -> u
        [] pos.page # t.root /\ TooSmall(u.pages[pos.page])
           /\ Size(u.pages[sibling.page]) > LeafMin ->
             BorrowLeaf(u, stack, sibling)
        [] OTHER ->
             RemoveInInternal(Merge(u, stack, sibling), Above(stack, sibling))

Removed(t, key) ==
  IF HasKey(t, key) THEN RemoveInLeaf(t, FindLeafFrame(t, key)) ELSE t

-----------------------------------------------------------------------------
(* The operations.  Enough pages are left for one insertion.               *)

Returns(ok) == [ok |-> ok, value |-> NoValue]

Init ==
  /\ tree = [root |-> INVALID_PAGE_ID, pages |-> [p \in PageIds |-> Unused]]
  /\ answer = Returns(FALSE)

(* Insert returns false and changes nothing for a key that is there.       *)
Insert(key, value) ==
  /\ tree' = IF HasKey(tree, key) THEN tree ELSE Inserted(tree, key, value)
  /\ answer' = Returns(~HasKey(tree, key))

(* GetOrEmplace hands out the value it finds and else stores a new one.    *)
GetOrEmplace(key, value) ==
  /\ tree' = IF HasKey(tree, key) THEN tree ELSE Inserted(tree, key, value)
  /\ answer' = IF HasKey(tree, key)
               THEN [ok |-> FALSE, value |-> GetValue(tree, key)]
               ELSE Returns(TRUE)

Remove(key) ==
  /\ tree' = Removed(tree, key)
  /\ answer' = Returns(HasKey(tree, key))

(* SetValue(key, value, hint): a hint comes from an earlier GetValue, and  *)
(* since then its page may have got other contents or another use.  It is  *)
(* used if it still names a leaf and the key (but never the last entry of  *)
(* the leaf); otherwise the key is searched, and inserted if not found.    *)
SetValue(key, value, hint) ==
  LET direct == /\ hint # End
                /\ tree.pages[hint.page].leaf
                /\ hint.index < Size(tree.pages[hint.page])
                /\ KeyIsAt(tree, hint, key)
      pos == IF direct THEN hint ELSE Seqs!Last(FindLeafFrame(tree, key))
  IN  /\ tree' = IF direct \/ HasKey(tree, key)
                 THEN [tree EXCEPT !.pages[pos.page].values[pos.index] = value]
                 ELSE Inserted(tree, key, value)
      /\ answer' = Returns(~direct /\ ~HasKey(tree, key))

(* RemoveAll collects the keys of a first half and removes them in turn.   *)
RemoveAll(first) ==
  /\ tree' = Seqs!FoldLeft(Removed, tree, PartialSearch(tree, first))
  /\ answer' = Returns(TRUE)

(* The trees whose positions are used as hints never delete a page, so a   *)
(* hint is on a page in use, and perhaps not where the key is any more.    *)
Hints == {End} \cup [page : PagesInUse(tree), index : HintIndexes]

Next ==
  \/ \E store \in Stores :
       \/ Insert(store[1], store[2])
       \/ GetOrEmplace(store[1], store[2])
       \/ \E hint \in Hints : SetValue(store[1], store[2], hint)
  \/ \E key \in Keys : Remove(key)
  \/ \E key \in Keys : RemoveAll(First(key))

Spec == Init /\ [][Next]_vars

-----------------------------------------------------------------------------
(* Validate, the check of the tree that the code itself offers: sizes,     *)
(* order and bounds of the keys, and equal depth.  Depth is 0 where the    *)
(* code throws.                                                            *)

InOrder(frame) == \A i \in 2 .. Size(frame) : frame.keys[i - 1] < frame.keys[i]

Child(frame, i) == frame.values[Slot(frame, i)]

RECURSIVE Depth(_, _, _, _)
Depth(t, page, low, high) ==
  LET frame == t.pages[page]
      least == IF page = t.root THEN 1
               ELSE IF frame.leaf THEN LeafMin ELSE InternalMin
      most == IF frame.leaf THEN LeafMax ELSE InternalMax
      sound == /\ page \in PagesInUse(t)
               /\ Size(frame) \in least .. most
               /\ low <= frame.keys[1] /\ frame.keys[Size(frame)] < high
               /\ InOrder(frame)
      below == {Depth(t, Child(frame, i),
                      IF i = 0 THEN low ELSE frame.keys[i],
                      IF i = Size(frame) THEN high ELSE frame.keys[i + 1])
                  : i \in 0 .. Size(frame)}
  IN  CASE ~sound -> 0
        [] sound /\ frame.leaf -> 1
        [] sound /\ ~frame.leaf /\ Cardinality(below) = 1 /\ 0 \notin below ->
             1 + Sets!Max(below)
        [] OTHER -> 0

Validate(t) ==
  t.root # INVALID_PAGE_ID =>
    Depth(t, t.root, 0, 1 + Sets!Max(Keys)) > 0

-----------------------------------------------------------------------------
(* Properties.                                                             *)

Frames ==
  [leaf : BOOLEAN, keys : Seq(Keys), values : Seq(Values \cup PageIds),
   next : PageIds \cup {INVALID_PAGE_ID}]

(* Every page holds a frame with one value per key of a leaf and one child *)
(* more than keys in an internal frame, and children and next pages are    *)
(* pages in use: what the accessors of b_plus_tree_frame.h take for        *)
(* granted after each split, merge and deletion of a page.                 *)
TreeTypeOK ==
  /\ DOMAIN tree.pages = PageIds
  /\ tree.root \in PagesInUse(tree) \cup {INVALID_PAGE_ID}
  /\ answer \in [ok : BOOLEAN, value : Values \cup {NoValue}]
  /\ \A p \in PagesInUse(tree) : LET frame == tree.pages[p] IN
       /\ frame \in Frames
       /\ Len(frame.values) = Slot(frame, Size(frame))
       /\ frame.next \in PagesInUse(tree) \cup {INVALID_PAGE_ID}
       /\ frame.leaf => \A i \in 1 .. Size(frame) : frame.values[i] \in Values
       /\ ~frame.leaf =>
            \A i \in 0 .. Size(frame) : Child(frame, i) \in PagesInUse(tree)

(* After any sequence of operations the tree passes the code's own         *)
(* Validate: no frame is too small or too large, keys are in order and     *)
(* within the separators above them, and all leaves are equally deep.      *)
TreeValid == Validate(tree)

(* A loop from LowerBound visits exactly the keys stored from there on, in *)
(* ascending order: the links between the leaves, which splits and merges  *)
(* maintain apart from the tree itself, agree with the search.             *)
IterationInOrder ==
  \A key \in Keys :
    LET seen == Iterate(tree, key) IN
    /\ {seen[i] : i \in DOMAIN seen} = {k \in Keys : k >= key /\ HasKey(tree, k)}
    /\ \A i \in 2 .. Len(seen) : seen[i - 1] < seen[i]

(* A page in use is the root or the child of exactly one place in one      *)
(* frame: merging, collapsing and emptying neither leak a page nor leave a *)
(* pointer to a deleted one.                                               *)
EveryPageHasOneParent ==
  \A p \in PagesInUse(tree) :
    LET places == {<<q, i>> \in PagesInUse(tree) \X (0 .. InternalMax) :
                     LET frame == tree.pages[q] IN
                     ~frame.leaf /\ i <= Size(frame) /\ Child(frame, i) = p}
    IN  IF p = tree.root THEN places = {} ELSE Cardinality(places) = 1

(* The map that clients see through the tree's search.                     *)
View == [k \in {k \in Keys : HasKey(tree, k)} |-> GetValue(tree, k)]

=============================================================================
