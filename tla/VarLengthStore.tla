--------------------------- MODULE VarLengthStore ---------------------------
(***************************************************************************)
(* class VarLengthStore: records of any size, one after another in pages   *)
(* of the buffer pool.  The position of the next record is in the info     *)
(* page, and a record id is the position of its first byte in the file.    *)
(* The pool is module PageStore: pages hold what is written to them, and a *)
(* new page is one that nobody has.  The trees take pages of it as well,   *)
(* so that the store's pages are not next to each other.                   *)
(***************************************************************************)
EXTENDS Integers

CONSTANTS
  kFrameSize,   \* bytes in a frame
  Sizes,        \* the sizes of the objects, GetObjectSize
  Bytes,        \* what their owners write
  PageIds       \* bound: the pages of the file

ASSUME StoreAssumption ==
  /\ kFrameSize \in Nat \ {0}
  /\ Sizes \subseteq 1 .. kFrameSize    \* ASSERT(object_size <= kFrameSize)
  /\ Bytes \subseteq Nat
  /\ PageIds \subseteq Nat

VARIABLES
  top_pos,   \* the position after the last record
  latest,    \* the pages in use, of the store and of the trees
  trees,     \* those that belong to the trees
  sizes      \* map: the record ids handed out -> what their owners know of
             \* the size

vars == <<top_pos, latest, trees, sizes>>

Offsets == 0 .. kFrameSize - 1
Zeros == [o \in Offsets |-> 0]
Frames == [Offsets -> Bytes \cup {0}]

Pages == INSTANCE PageStore WITH InitialData <- {Zeros}, WrittenData <- Frames

GetPageId(pos) == pos \div kFrameSize

(* Mutant: a full frame has room for as much again.                        *)
GetRemainingSizeAtBoundary(pos) == kFrameSize - (pos % kFrameSize)

(* Nothing at the end of a frame, and nothing before the first one.        *)
GetRemainingSize(pos) == (kFrameSize - (pos % kFrameSize)) % kFrameSize

RecordID(page, pos) == page * kFrameSize + (pos % kFrameSize)

-----------------------------------------------------------------------------
Init ==
  /\ top_pos = 0
  /\ Pages!Init
  /\ trees = {}
  /\ sizes = [id \in {} |-> 0]

(* Mutant: the position is moved on by one byte less.                      *)
HandOutShort(page, pos, size) ==
  /\ sizes' = [id \in DOMAIN sizes \cup {RecordID(page, pos)} |->
                 IF id = RecordID(page, pos) THEN size ELSE sizes[id]]
  /\ top_pos' = pos + size - 1

HandOut(page, pos, size) ==
  /\ sizes' = [id \in DOMAIN sizes \cup {RecordID(page, pos)} |->
                 IF id = RecordID(page, pos) THEN size ELSE sizes[id]]
  /\ top_pos' = pos + size

(* The object does not fit in the frame: it begins a new one.              *)
AllocateInNewFrame(page, size) ==
  /\ GetRemainingSize(top_pos) < size
  /\ Pages!New(page, Zeros)
  /\ HandOut(page, page * kFrameSize, size)
  /\ UNCHANGED trees

AllocateInFrame(size) ==
  /\ GetRemainingSize(top_pos) >= size
  /\ HandOut(GetPageId(top_pos), top_pos, size)
  /\ UNCHANGED <<latest, trees>>

(* An owner writes byte k of its record, through a handle from Allocate or *)
(* Get: the frame of the id, and the place of the id in it.                *)
Write(id, k, byte) ==
  LET page == GetPageId(id)
  IN  /\ Pages!Write(page, [latest[page] EXCEPT ![(id % kFrameSize) + k] = byte])
      /\ UNCHANGED <<top_pos, trees, sizes>>

(* The trees take pages, write to their own, and give them back.           *)
TreeNew(page) ==
  /\ Pages!New(page, Zeros)
  /\ trees' = trees \cup {page}
  /\ UNCHANGED <<top_pos, sizes>>

TreeWrite(page, byte) ==
  /\ page \in trees
  /\ Pages!Write(page, [o \in Offsets |-> byte])
  /\ UNCHANGED <<top_pos, trees, sizes>>

TreeDelete(page) ==
  /\ page \in trees
  /\ Pages!Delete(page)
  /\ trees' = trees \ {page}
  /\ UNCHANGED <<top_pos, sizes>>

(* clean: a new store, with reset.  A restart without it finds top_pos in  *)
(* the info page and changes nothing here.                                 *)
Clean ==
  /\ top_pos' = 0
  /\ Pages!Clear
  /\ trees' = {}
  /\ sizes' = [id \in {} |-> 0]

Next ==
  \/ \E page \in PageIds, size \in Sizes : AllocateInNewFrame(page, size)
  \/ \E size \in Sizes : AllocateInFrame(size)
  \/ \E id \in DOMAIN sizes, byte \in Bytes :
       \E k \in 0 .. sizes[id] - 1 : Write(id, k, byte)
  \/ \E page \in PageIds : TreeNew(page)
  \/ \E page \in PageIds, byte \in Bytes : TreeWrite(page, byte)
  \/ \E page \in PageIds : TreeDelete(page)
  \/ Clean

Spec == Init /\ [][Next]_vars

-----------------------------------------------------------------------------
(* The positions a record takes.                                           *)
Extent(id) == id .. id + sizes[id] - 1

(* Every record lies in one frame, which is in use and not a tree's, and   *)
(* no two records share a byte: the position is moved on by each size, and *)
(* a frame that is full or too short is left for a new one, wherever in    *)
(* the file that is.                                                       *)
RecordsApart ==
  \A id \in DOMAIN sizes :
    /\ \A pos \in Extent(id) : GetPageId(pos) = GetPageId(id)
    /\ GetPageId(id) \in DOMAIN latest \ trees
    /\ \A other \in DOMAIN sizes \ {id} : Extent(id) \cap Extent(other) = {}

(* What the owner of a record reads.                                       *)
Get(id) == [k \in 0 .. sizes[id] - 1 |->
              latest[GetPageId(id)][(id % kFrameSize) + k]]

Records ==
  INSTANCE RecordStore WITH
    records <- [id \in DOMAIN sizes |-> Get(id)],
    Ids <- {page * kFrameSize + o : page \in PageIds, o \in Offsets}

(* The store implements the map of records the managers use: a write       *)
(* reaches its own record and no other, nor does a tree's, and a new       *)
(* record begins as zeros although its frame may have been a tree's.       *)
ImplementsRecordStore == Records!Spec
=============================================================================
