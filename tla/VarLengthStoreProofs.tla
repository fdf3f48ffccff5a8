------------------------ MODULE VarLengthStoreProofs ------------------------
(***************************************************************************)
(* For every size of frames and objects: the records of the variable-      *)
(* length store never share a byte, and the store implements the map of    *)
(* records.                                                                *)
(***************************************************************************)
EXTENDS VarLengthStore, TLAPS

F == kFrameSize

USE DEF F

(* A position is its frame's first one and the place in the frame.         *)
LEMMA Position ==
  ASSUME NEW pos \in Nat
  PROVE  /\ GetPageId(pos) \in Nat /\ pos % F \in Offsets
         /\ pos = GetPageId(pos) * F + (pos % F)
  BY StoreAssumption, Z3 DEF GetPageId, Offsets

LEMMA FramesOrdered ==
  ASSUME NEW p \in Nat, NEW q \in Nat, p < q
  PROVE  p * F + F <= q * F
<1>1. PICK d \in Nat : q = p + 1 + d
  <2>1. q - p - 1 \in Nat
    OBVIOUS
  <2> QED
    BY <2>1
<1>2. q * F = p * F + F + d * F /\ d * F \in Nat
  BY <1>1, StoreAssumption, Z3
<1> QED
  BY <1>2, StoreAssumption

LEMMA PlaceInFrame ==
  ASSUME NEW p \in Nat, NEW o \in Offsets
  PROVE  /\ p * F + o \in Nat
         /\ GetPageId(p * F + o) = p
         /\ (p * F + o) % F = o
<1> DEFINE x == p * F + o
<1>1. x \in Nat /\ p * F \in Nat
  BY StoreAssumption DEF Offsets
<1>2. /\ GetPageId(x) \in Nat /\ x % F \in Offsets
      /\ x = GetPageId(x) * F + (x % F)
  BY <1>1, Position
<1> HIDE DEF x
<1>3. x = p * F + o
  BY DEF x
<1>4. ~(p < GetPageId(x))
  <2>1. SUFFICES ASSUME p < GetPageId(x) PROVE FALSE
    OBVIOUS
  <2>2. p * F + F <= GetPageId(x) * F
    BY <1>2, <2>1, FramesOrdered
  <2>3. GetPageId(x) * F \in Nat
    BY <1>2, StoreAssumption
  <2> QED
    BY <1>1, <1>2, <1>3, <2>2, <2>3, StoreAssumption DEF Offsets
<1>5. ~(GetPageId(x) < p)
  <2>1. SUFFICES ASSUME GetPageId(x) < p PROVE FALSE
    OBVIOUS
  <2>2. GetPageId(x) * F + F <= p * F
    BY <1>2, <2>1, FramesOrdered
  <2>3. GetPageId(x) * F \in Nat
    BY <1>2, StoreAssumption
  <2> QED
    BY <1>1, <1>2, <1>3, <2>2, <2>3, StoreAssumption DEF Offsets
<1>6. GetPageId(x) = p
  BY <1>2, <1>4, <1>5
<1>7. x % F = o
  BY <1>1, <1>2, <1>3, <1>6 DEF Offsets
<1> QED
  BY <1>1, <1>6, <1>7 DEF x

-----------------------------------------------------------------------------
(* The strengthening that is inductive: besides, the position is behind    *)
(* the records of its frame, and the rest of that frame is still zeros.  A *)
(* position at a multiple of the frame size is in no frame of the store.   *)
StoreTypeOK ==
  /\ latest \in [DOMAIN latest -> Frames] /\ DOMAIN latest \subseteq PageIds
  /\ trees \subseteq DOMAIN latest
  /\ sizes \in [DOMAIN sizes -> Sizes] /\ DOMAIN sizes \subseteq Nat
  /\ top_pos \in Nat

RecordsInFrames ==
  \A id \in DOMAIN sizes :
    /\ (id % kFrameSize) + sizes[id] <= kFrameSize
    /\ GetPageId(id) \in DOMAIN latest \ trees

RecordsDisjoint ==
  \A id, other \in DOMAIN sizes :
    id # other => \/ id + sizes[id] <= other
                  \/ other + sizes[other] <= id

TopIsFree ==
  top_pos % kFrameSize # 0 =>
    /\ GetPageId(top_pos) \in DOMAIN latest \ trees
    /\ \A id \in DOMAIN sizes :
         GetPageId(id) = GetPageId(top_pos) => id + sizes[id] <= top_pos
    /\ \A o \in Offsets : o >= top_pos % kFrameSize =>
         latest[GetPageId(top_pos)][o] = 0

StoreInv == StoreTypeOK /\ RecordsInFrames /\ RecordsDisjoint /\ TopIsFree

(* Records of different frames do not meet.                                *)
LEMMA FramesApart ==
  ASSUME NEW x \in Nat, NEW y \in Nat, NEW n \in Nat,
         (x % F) + n <= F, GetPageId(x) < GetPageId(y)
  PROVE  x + n <= y
<1>1. /\ GetPageId(x) \in Nat /\ GetPageId(y) \in Nat
      /\ x % F \in Offsets /\ y % F \in Offsets
      /\ x = GetPageId(x) * F + (x % F) /\ y = GetPageId(y) * F + (y % F)
  BY Position
<1>2. GetPageId(x) * F + F <= GetPageId(y) * F
  BY <1>1, FramesOrdered
<1>3. GetPageId(x) * F \in Nat /\ GetPageId(y) * F \in Nat
  BY <1>1, StoreAssumption
<1> DEFINE a == GetPageId(x) * F
           b == GetPageId(y) * F
<1>4. /\ a \in Nat /\ b \in Nat /\ a + F <= b
      /\ x = a + (x % F) /\ y = b + (y % F)
  BY <1>1, <1>2, <1>3
<1> HIDE DEF a, b
<1> QED
  BY <1>1, <1>4, StoreAssumption DEF Offsets

(* A frame with room has a record's worth of bytes behind the position.    *)
LEMMA RoomBehindTop ==
  ASSUME NEW top \in Nat, NEW size \in Sizes, GetRemainingSize(top) >= size
  PROVE  top % F # 0 /\ (top % F) + size <= F
<1>1. top % F \in Offsets
  BY Position
<1>2. size \in Nat \ {0}
  BY StoreAssumption
<1>3. CASE top % F = 0
  <2>1. F % F = 0
    BY StoreAssumption, Z3
  <2> QED
    BY <1>2, <1>3, <2>1, StoreAssumption DEF GetRemainingSize
<1>4. CASE top % F # 0
  <2>1. F - (top % F) \in 1 .. F - 1
    BY <1>1, <1>4, StoreAssumption DEF Offsets
  <2>2. (F - (top % F)) % F = F - (top % F)
    BY <2>1, StoreAssumption, Z3
  <2> QED
    BY <1>1, <1>2, <1>4, <2>2, StoreAssumption DEF GetRemainingSize, Offsets
<1> QED
  BY <1>3, <1>4

(* Both ways to allocate end alike: the record begins at pos, in a frame   *)
(* of the store, behind all records there.                                 *)
LEMMA HandOutKeeps ==
  ASSUME StoreInv, StoreTypeOK', NEW pos \in Nat, NEW size \in Sizes,
         NEW page, page = GetPageId(pos), HandOut(page, pos, size),
         (pos % F) + size <= F, UNCHANGED trees,
         DOMAIN latest \subseteq DOMAIN latest', page \in DOMAIN latest' \ trees,
         \A id \in DOMAIN sizes : GetPageId(id) = page => id + sizes[id] <= pos,
         \A o \in Offsets : o >= pos % F => latest'[page][o] = 0
  PROVE  StoreInv'
<1> USE DEF StoreInv, StoreTypeOK
<1>1. size \in 1 .. F /\ F \in Nat \ {0}
  BY StoreAssumption
<1>2. /\ page \in Nat /\ pos % F \in Offsets /\ page * F \in Nat
      /\ pos = page * F + (pos % F)
  BY Position, StoreAssumption
<1>3. RecordID(page, pos) = pos
  BY <1>2 DEF RecordID
<1>4. /\ DOMAIN sizes' = DOMAIN sizes \cup {pos} /\ sizes'[pos] = size
      /\ \A id \in DOMAIN sizes : id # pos => sizes'[id] = sizes[id]
      /\ top_pos' = pos + size
  BY <1>3 DEF HandOut
<1>5. \A id \in DOMAIN sizes :
        /\ id \in Nat /\ sizes[id] \in 1 .. F
        /\ (id % F) + sizes[id] <= F /\ GetPageId(id) \in DOMAIN latest \ trees
        /\ GetPageId(id) \in Nat
  BY Position, StoreAssumption DEF RecordsInFrames
<1>6. pos \notin DOMAIN sizes
  BY <1>1, <1>5
<1>7. RecordsInFrames'
  BY <1>4, <1>5, <1>6 DEF RecordsInFrames, GetPageId
<1>8. ASSUME NEW id \in DOMAIN sizes
      PROVE  id + sizes[id] <= pos \/ pos + size <= id
  <2>1. CASE GetPageId(id) = page
    BY <2>1
  <2>2. CASE GetPageId(id) < page
    BY <1>2, <1>5, <2>2, FramesApart
  <2>3. CASE page < GetPageId(id)
    BY <1>1, <1>5, <2>3, FramesApart
  <2> QED
    BY <1>2, <1>5, <2>1, <2>2, <2>3
<1>9. RecordsDisjoint'
  BY <1>4, <1>6, <1>8 DEF RecordsDisjoint
<1>10. TopIsFree'
  <2>1. SUFFICES ASSUME (pos + size) % F # 0 PROVE TopIsFree'
    BY <1>4 DEF TopIsFree
  <2>2. CASE (pos % F) + size < F
    <3>1. (pos % F) + size \in Offsets
      BY <1>1, <1>2, <2>2 DEF Offsets
    <3>2. pos + size = page * F + ((pos % F) + size)
      BY <1>1, <1>2 DEF Offsets
    <3>3. /\ GetPageId(pos + size) = page
          /\ (pos + size) % F = (pos % F) + size
      BY <1>2, <3>1, <3>2, PlaceInFrame
    <3>4. \A id \in DOMAIN sizes' :
            GetPageId(id) = page => id + sizes'[id] <= pos + size
      BY <1>1, <1>4, <1>5, <1>6
    <3>5. \A o \in Offsets : o >= (pos % F) + size => latest'[page][o] = 0
      BY <1>1, <1>2 DEF Offsets
    <3> QED
      BY <1>4, <3>3, <3>4, <3>5 DEF TopIsFree, GetPageId, Offsets
  <2>3. CASE (pos % F) + size = F
    <3>1. pos + size = (page + 1) * F + 0
      BY <1>1, <1>2, <2>3 DEF Offsets
    <3>2. 0 \in Offsets /\ page + 1 \in Nat
      BY <1>1, <1>2 DEF Offsets
    <3>3. (pos + size) % F = 0
      BY <3>1, <3>2, PlaceInFrame
    <3> QED
      BY <2>1, <3>3
  <2>4. (pos % F) + size < F \/ (pos % F) + size = F
    <3> HIDE DEF StoreInv, StoreTypeOK
    <3> QED
      BY <1>1, <1>2 DEF Offsets
  <2> QED
    BY <2>2, <2>3, <2>4
<1> QED
  BY <1>7, <1>9, <1>10

LEMMA TypeHolds == ASSUME StoreTypeOK, [Next]_vars PROVE StoreTypeOK'
<1> USE DEF StoreTypeOK
<1>1. Zeros \in Frames
  BY DEF Zeros, Frames
<1>2. ASSUME NEW page \in PageIds, NEW size \in Sizes,
             AllocateInNewFrame(page, size)
      PROVE  StoreTypeOK'
  <2>1. RecordID(page, page * F) \in Nat /\ page * F + size \in Nat
    BY StoreAssumption DEF RecordID
  <2> QED
    BY <1>1, <1>2, <2>1, StoreAssumption
       DEF AllocateInNewFrame, HandOut, Pages!New
<1>3. ASSUME NEW size \in Sizes, AllocateInFrame(size)
      PROVE  StoreTypeOK'
  <2>1. RecordID(GetPageId(top_pos), top_pos) \in Nat /\ top_pos + size \in Nat
    BY Position, StoreAssumption DEF RecordID
  <2> QED
    BY <1>3, <2>1, StoreAssumption DEF AllocateInFrame, HandOut
<1>4. ASSUME NEW id \in DOMAIN sizes, NEW byte \in Bytes,
             NEW k \in 0 .. sizes[id] - 1, Write(id, k, byte)
      PROVE  StoreTypeOK'
  <2>1. latest[GetPageId(id)] \in Frames /\ latest'[GetPageId(id)] \in Frames
    BY <1>4 DEF Write, Pages!Write, Frames
  <2> QED
    BY <1>4, <2>1 DEF Write, Pages!Write
<1>5. ASSUME NEW page \in PageIds, TreeNew(page)
      PROVE  StoreTypeOK'
  BY <1>1, <1>5 DEF TreeNew, Pages!New
<1>6. ASSUME NEW page \in PageIds, NEW byte \in Bytes, TreeWrite(page, byte)
      PROVE  StoreTypeOK'
  <2>1. [o \in Offsets |-> byte] \in Frames
    BY DEF Frames
  <2> QED
    BY <1>6, <2>1 DEF TreeWrite, Pages!Write
<1>7. ASSUME NEW page \in PageIds, TreeDelete(page)
      PROVE  StoreTypeOK'
  BY <1>7 DEF TreeDelete, Pages!Delete
<1>8. CASE Clean
  BY <1>8 DEF Clean, Pages!Clear
<1>9. CASE UNCHANGED vars
  BY <1>9 DEF vars
<1> QED
  BY <1>2, <1>3, <1>4, <1>5, <1>6, <1>7, <1>8, <1>9 DEF Next

LEMMA NewFrameKeeps ==
  ASSUME StoreInv, StoreTypeOK', NEW page \in PageIds, NEW size \in Sizes,
         AllocateInNewFrame(page, size)
  PROVE  StoreInv'
<1>1. /\ page \in Nat /\ page * F \in Nat /\ 0 \in Offsets
      /\ size \in 1 .. F
  BY StoreAssumption DEF Offsets
<1>2. page * F = page * F + 0
  BY <1>1
<1>3. GetPageId(page * F) = page /\ (page * F) % F = 0
  BY <1>1, <1>2, PlaceInFrame
<1>4. /\ DOMAIN latest' = DOMAIN latest \cup {page} /\ page \notin DOMAIN latest
      /\ latest'[page] = Zeros
  BY DEF AllocateInNewFrame, Pages!New
<1>5. page \notin trees
  BY <1>4 DEF StoreInv, StoreTypeOK
<1>6. \A id \in DOMAIN sizes : GetPageId(id) # page
  BY <1>4 DEF StoreInv, RecordsInFrames
<1>7. \A o \in Offsets : latest'[page][o] = 0
  BY <1>4 DEF Zeros
<1> QED
  BY <1>1, <1>3, <1>4, <1>5, <1>6, <1>7, HandOutKeeps DEF AllocateInNewFrame

LEMMA InFrameKeeps ==
  ASSUME StoreInv, StoreTypeOK', NEW size \in Sizes, AllocateInFrame(size)
  PROVE  StoreInv'
<1>1. top_pos \in Nat
  BY DEF StoreInv, StoreTypeOK
<1>2. top_pos % F # 0 /\ (top_pos % F) + size <= F
  BY <1>1, RoomBehindTop DEF AllocateInFrame
<1>3. /\ GetPageId(top_pos) \in DOMAIN latest \ trees
      /\ \A id \in DOMAIN sizes :
           GetPageId(id) = GetPageId(top_pos) => id + sizes[id] <= top_pos
      /\ \A o \in Offsets : o >= top_pos % F => latest[GetPageId(top_pos)][o] = 0
  BY <1>2 DEF StoreInv, TopIsFree
<1>4. latest' = latest /\ trees' = trees
  BY DEF AllocateInFrame
<1> QED
  BY <1>1, <1>2, <1>3, <1>4, HandOutKeeps DEF AllocateInFrame

(* Where a byte of a record is.                                            *)
LEMMA ByteOfRecord ==
  ASSUME StoreInv, NEW id \in DOMAIN sizes, NEW k \in 0 .. sizes[id] - 1
  PROVE  /\ id + k \in Nat /\ (id % F) + k \in Offsets
         /\ GetPageId(id + k) = GetPageId(id)
         /\ (id + k) % F = (id % F) + k
<1>1. /\ id \in Nat /\ sizes[id] \in 1 .. F /\ (id % F) + sizes[id] <= F
  BY StoreAssumption DEF StoreInv, StoreTypeOK, RecordsInFrames
<1>2. /\ GetPageId(id) \in Nat /\ id % F \in Offsets
      /\ id = GetPageId(id) * F + (id % F)
  BY <1>1, Position
<1>3. (id % F) + k \in Offsets
  BY <1>1, <1>2, StoreAssumption DEF Offsets
<1>4. GetPageId(id) * F \in Nat
  BY <1>2, StoreAssumption
<1>5. id + k = GetPageId(id) * F + ((id % F) + k)
  BY <1>1, <1>2, <1>4 DEF Offsets
<1> QED
  BY <1>1, <1>2, <1>3, <1>5, PlaceInFrame

(* A record ends before the position of its frame, if that has one.        *)
LEMMA WriteKeeps ==
  ASSUME StoreInv, StoreTypeOK', NEW id \in DOMAIN sizes, NEW byte \in Bytes,
         NEW k \in 0 .. sizes[id] - 1, Write(id, k, byte)
  PROVE  StoreInv'
<1> DEFINE page == GetPageId(id)
<1>1. /\ top_pos' = top_pos /\ trees' = trees /\ sizes' = sizes
      /\ latest' = [latest EXCEPT ![page] = [latest[page] EXCEPT ![(id % F) + k] = byte]]
      /\ DOMAIN latest' = DOMAIN latest
  BY DEF Write, Pages!Write
<1>2. RecordsInFrames' /\ RecordsDisjoint'
  BY <1>1 DEF StoreInv, RecordsInFrames, RecordsDisjoint, GetPageId
<1>3. TopIsFree'
  <2>1. SUFFICES ASSUME top_pos % F # 0,
                        NEW o \in Offsets, o >= top_pos % F
                 PROVE  latest'[GetPageId(top_pos)][o] = 0
    BY <1>1 DEF StoreInv, TopIsFree, GetPageId
  <2>2. latest[GetPageId(top_pos)][o] = 0 /\ GetPageId(top_pos) \in DOMAIN latest
    BY <2>1 DEF StoreInv, TopIsFree
  <2>3. CASE GetPageId(top_pos) # page
    BY <1>1, <2>2, <2>3
  <2>4. CASE GetPageId(top_pos) = page
    <3>1. id + sizes[id] <= top_pos /\ id \in Nat /\ top_pos \in Nat
          /\ sizes[id] \in 1 .. F
      BY <2>1, <2>4, StoreAssumption DEF StoreInv, TopIsFree, StoreTypeOK
    <3>2. /\ page \in Nat /\ id % F \in Offsets /\ top_pos % F \in Offsets
          /\ id = page * F + (id % F) /\ top_pos = page * F + (top_pos % F)
      BY <2>4, <3>1, Position
    <3> HIDE DEF page
    <3>3. page * F \in Nat
      BY <3>2, StoreAssumption
    <3>4. (id % F) + k < top_pos % F
      BY <3>1, <3>2, <3>3 DEF Offsets
    <3>5. (id % F) + k # o
      BY <2>1, <3>2, <3>4 DEF Offsets
    <3>6. latest[page] \in [Offsets -> Bytes \cup {0}]
      BY <2>2, <2>4 DEF StoreInv, StoreTypeOK, Frames
    <3> QED
      BY <1>1, <2>2, <2>4, <3>5, <3>6
  <2> QED
    BY <2>3, <2>4
<1> QED
  BY <1>2, <1>3 DEF StoreInv

(* What the trees do leaves the frames of the store alone.                 *)
LEMMA TreesKeep ==
  ASSUME StoreInv, StoreTypeOK', UNCHANGED <<top_pos, sizes>>,
         DOMAIN latest \ trees \subseteq DOMAIN latest' \ trees',
         \A page \in DOMAIN latest \ trees : latest'[page] = latest[page]
  PROVE  StoreInv'
  BY DEF StoreInv, RecordsInFrames, RecordsDisjoint, TopIsFree, GetPageId

LEMMA StoreStep == ASSUME StoreInv, [Next]_vars PROVE StoreInv'
<1>1. StoreTypeOK'
  BY TypeHolds DEF StoreInv
<1>2. ASSUME NEW page \in PageIds, NEW size \in Sizes,
             AllocateInNewFrame(page, size)
      PROVE  StoreInv'
  BY <1>1, <1>2, NewFrameKeeps
<1>3. ASSUME NEW size \in Sizes, AllocateInFrame(size)
      PROVE  StoreInv'
  BY <1>1, <1>3, InFrameKeeps
<1>4. ASSUME NEW id \in DOMAIN sizes, NEW byte \in Bytes,
             NEW k \in 0 .. sizes[id] - 1, Write(id, k, byte)
      PROVE  StoreInv'
  BY <1>1, <1>4, WriteKeeps
<1>5. ASSUME NEW page \in PageIds, TreeNew(page)
      PROVE  StoreInv'
  BY <1>1, <1>5, TreesKeep DEF TreeNew, Pages!New
<1>6. ASSUME NEW page \in PageIds, NEW byte \in Bytes, TreeWrite(page, byte)
      PROVE  StoreInv'
  BY <1>1, <1>6, TreesKeep DEF TreeWrite, Pages!Write
<1>7. ASSUME NEW page \in PageIds, TreeDelete(page)
      PROVE  StoreInv'
  BY <1>1, <1>7, TreesKeep DEF TreeDelete, Pages!Delete
<1>8. CASE Clean
  <2>1. 0 % F = 0
    BY StoreAssumption, Z3
  <2> QED
    BY <1>1, <1>8, <2>1
       DEF Clean, StoreInv, RecordsInFrames, RecordsDisjoint, TopIsFree
<1>9. CASE UNCHANGED vars
  BY <1>1, <1>9, TreesKeep DEF vars
<1> QED
  BY <1>2, <1>3, <1>4, <1>5, <1>6, <1>7, <1>8, <1>9 DEF Next

THEOREM StoreInvHolds == Spec => []StoreInv
<1>1. ASSUME Init PROVE StoreInv
  <2>1. 0 % F = 0
    BY StoreAssumption, Z3
  <2> QED
    BY <1>1, <2>1
       DEF Init, Pages!Init, StoreInv, StoreTypeOK, RecordsInFrames,
           RecordsDisjoint, TopIsFree
<1> QED
  BY <1>1, StoreStep, PTL DEF Spec

(* Every record lies in one frame of the store, and no two share a byte.   *)
THEOREM RecordsStayApart == Spec => []RecordsApart
<1>1. ASSUME StoreInv PROVE RecordsApart
  <2>1. SUFFICES ASSUME NEW id \in DOMAIN sizes
                 PROVE  /\ \A pos \in Extent(id) : GetPageId(pos) = GetPageId(id)
                        /\ GetPageId(id) \in DOMAIN latest \ trees
                        /\ \A other \in DOMAIN sizes \ {id} :
                             Extent(id) \cap Extent(other) = {}
    BY DEF RecordsApart
  <2>2. \A i \in DOMAIN sizes : i \in Nat /\ sizes[i] \in 1 .. F
    BY <1>1, StoreAssumption DEF StoreInv, StoreTypeOK
  <2>3. ASSUME NEW pos \in Extent(id) PROVE GetPageId(pos) = GetPageId(id)
    <3>1. pos - id \in 0 .. sizes[id] - 1 /\ pos = id + (pos - id)
      BY <2>2 DEF Extent
    <3> QED
      BY <1>1, <3>1, ByteOfRecord
  <2>4. GetPageId(id) \in DOMAIN latest \ trees
    BY <1>1 DEF StoreInv, RecordsInFrames
  <2>5. ASSUME NEW other \in DOMAIN sizes \ {id}
        PROVE  Extent(id) \cap Extent(other) = {}
    BY <1>1, <2>2 DEF StoreInv, RecordsDisjoint, Extent
  <2> QED
    BY <2>3, <2>4, <2>5
<1> QED
  BY <1>1, StoreInvHolds, PTL

-----------------------------------------------------------------------------
(* The store implements the map of records.                                *)
RecordMap == [id \in DOMAIN sizes |-> Get(id)]

(* A step that leaves the frames of the records alone leaves the map.      *)
LEMMA SameFramesSameRecords ==
  ASSUME StoreInv, UNCHANGED sizes,
         \A page \in DOMAIN latest \ trees : latest'[page] = latest[page]
  PROVE  UNCHANGED RecordMap
<1>1. ASSUME NEW id \in DOMAIN sizes PROVE Get(id)' = Get(id)
  <2>1. GetPageId(id) \in DOMAIN latest \ trees
    BY DEF StoreInv, RecordsInFrames
  <2> QED
    BY <2>1 DEF Get, GetPageId
<1> QED
  BY <1>1 DEF RecordMap

LEMMA HandOutRefines ==
  ASSUME StoreInv, NEW pos \in Nat, NEW size \in Sizes,
         NEW page \in PageIds, page = GetPageId(pos), HandOut(page, pos, size),
         (pos % F) + size <= F, pos \notin DOMAIN sizes,
         \A p \in DOMAIN latest \ trees : latest'[p] = latest[p],
         \A o \in Offsets : o >= pos % F => latest'[page][o] = 0
  PROVE  Records!Next
<1>1. /\ page \in Nat /\ pos % F \in Offsets /\ size \in 1 .. F
      /\ pos = page * F + (pos % F)
  BY Position, StoreAssumption
<1>2. RecordID(page, pos) = pos
  BY <1>1 DEF RecordID
<1>3. /\ DOMAIN sizes' = DOMAIN sizes \cup {pos} /\ sizes'[pos] = size
      /\ \A id \in DOMAIN sizes : sizes'[id] = sizes[id]
  BY <1>2 DEF HandOut
<1>4. ASSUME NEW id \in DOMAIN sizes PROVE Get(id)' = Get(id)
  <2>1. GetPageId(id) \in DOMAIN latest \ trees
    BY DEF StoreInv, RecordsInFrames
  <2> QED
    BY <1>3, <2>1 DEF Get, GetPageId
<1>5. Get(pos)' = [k \in 0 .. size - 1 |-> 0]
  <2>1. Get(pos)' = [k \in 0 .. size - 1 |-> latest'[page][(pos % F) + k]]
    BY <1>3 DEF Get, GetPageId
  <2>2. ASSUME NEW k \in 0 .. size - 1 PROVE latest'[page][(pos % F) + k] = 0
    <3>1. (pos % F) + k \in Offsets /\ (pos % F) + k >= pos % F
      BY <1>1, StoreAssumption DEF Offsets
    <3> QED
      BY <3>1
  <2> QED
    BY <2>1, <2>2
<1>6. Records!New(pos, size)
  BY <1>3, <1>4, <1>5 DEF Records!New
<1>7. pos \in {p * F + o : p \in PageIds, o \in Offsets}
  BY <1>1
<1> QED
  BY <1>6, <1>7 DEF Records!Next

LEMMA WriteRefines ==
  ASSUME StoreInv, NEW id \in DOMAIN sizes, NEW byte \in Bytes,
         NEW k \in 0 .. sizes[id] - 1, Write(id, k, byte)
  PROVE  Records!Next
<1> DEFINE page == GetPageId(id)
           place == (id % F) + k
<1>1. /\ sizes' = sizes
      /\ latest' = [latest EXCEPT ![page] = [latest[page] EXCEPT ![place] = byte]]
  BY DEF Write, Pages!Write
<1>2. /\ page \in DOMAIN latest /\ place \in Offsets
      /\ latest[page] \in [Offsets -> Bytes \cup {0}]
  BY ByteOfRecord DEF StoreInv, StoreTypeOK, RecordsInFrames, Frames
<1>3. ASSUME NEW other \in DOMAIN sizes, NEW j \in 0 .. sizes[other] - 1,
             GetPageId(other) = page, (other % F) + j = place
      PROVE  other = id /\ j = k
  <2>1. /\ other \in Nat /\ id \in Nat
        /\ sizes[other] \in 1 .. F /\ sizes[id] \in 1 .. F
    BY StoreAssumption DEF StoreInv, StoreTypeOK
  <2>2. other + j = page * F + place /\ id + k = page * F + place
    <3>1. /\ other + j = GetPageId(other + j) * F + ((other + j) % F)
          /\ id + k = GetPageId(id + k) * F + ((id + k) % F)
      BY ByteOfRecord, Position
    <3> QED
      BY <1>3, <3>1, ByteOfRecord
  <2>3. other + j = id + k
    BY <2>2
  <2> HIDE DEF place, page
  <2>4. other = id
    BY <2>1, <2>3 DEF StoreInv, RecordsDisjoint
  <2> QED
    BY <2>1, <2>3, <2>4
<1>4. ASSUME NEW other \in DOMAIN sizes, NEW j \in 0 .. sizes[other] - 1
      PROVE  latest'[GetPageId(other)][(other % F) + j] =
               IF other = id /\ j = k THEN byte
               ELSE latest[GetPageId(other)][(other % F) + j]
  <2>1. GetPageId(other) \in DOMAIN latest /\ (other % F) + j \in Offsets
    BY ByteOfRecord DEF StoreInv, RecordsInFrames
  <2>2. CASE other = id /\ j = k
    BY <1>1, <1>2, <2>2
  <2>3. CASE ~(other = id /\ j = k)
    <3>1. GetPageId(other) # page \/ (other % F) + j # place
      BY <1>3, <2>3
    <3> HIDE DEF page, place
    <3> QED
      BY <1>1, <1>2, <2>1, <2>3, <3>1
  <2> QED
    BY <2>2, <2>3
<1>5. Records!Write(id, k, byte)
  <2>1. RecordMap' = [RecordMap EXCEPT ![id][k] = byte]
    <3>1. ASSUME NEW other \in DOMAIN sizes
          PROVE  Get(other)' = IF other = id THEN [Get(id) EXCEPT ![k] = byte]
                               ELSE Get(other)
      <4>1. /\ Get(other)' = [j \in 0 .. sizes[other] - 1 |->
                                latest'[GetPageId(other)][(other % F) + j]]
            /\ Get(other) = [j \in 0 .. sizes[other] - 1 |->
                                latest[GetPageId(other)][(other % F) + j]]
        BY <1>1 DEF Get, GetPageId
      <4> HIDE DEF page, place
      <4>2. CASE other = id
        <5>1. Get(id)' = [j \in 0 .. sizes[id] - 1 |->
                            IF j = k THEN byte
                            ELSE latest[GetPageId(id)][(id % F) + j]]
          <6>1. ASSUME NEW j \in 0 .. sizes[id] - 1
                PROVE  latest'[GetPageId(id)][(id % F) + j] =
                         IF j = k THEN byte
                         ELSE latest[GetPageId(id)][(id % F) + j]
            BY <1>4
          <6> QED
            BY <4>1, <4>2, <6>1
        <5>2. [Get(id) EXCEPT ![k] = byte] =
                [j \in 0 .. sizes[id] - 1 |->
                   IF j = k THEN byte ELSE latest[GetPageId(id)][(id % F) + j]]
          BY <4>1, <4>2
        <5> QED
          BY <4>2, <5>1, <5>2
      <4>3. CASE other # id
        BY <1>4, <4>1, <4>3
      <4> QED
        BY <4>2, <4>3
    <3>2. RecordMap' = [other \in DOMAIN sizes |-> Get(other)']
      BY <1>1 DEF RecordMap
    <3> QED
      BY <3>1, <3>2 DEF RecordMap
  <2> QED
    BY <2>1 DEF Records!Write, RecordMap
<1>6. k \in DOMAIN Get(id)
  BY DEF Get
<1> QED
  BY <1>5, <1>6 DEF Records!Next

(* Every step of the store is a step of the map of records, or changes no  *)
(* record.                                                                 *)
LEMMA NewFrameRefines ==
  ASSUME StoreInv, NEW page \in PageIds, NEW size \in Sizes,
         AllocateInNewFrame(page, size)
  PROVE  Records!Next
<1> DEFINE pos == page * F
<1>1. page \in Nat /\ pos \in Nat /\ 0 \in Offsets /\ size \in 1 .. F
  BY StoreAssumption DEF Offsets
<1>2. pos = page * F + 0
  BY <1>1
<1>3. GetPageId(pos) = page /\ pos % F = 0
  BY <1>1, <1>2, PlaceInFrame
<1>4. /\ page \notin DOMAIN latest
      /\ \A p \in DOMAIN latest : latest'[p] = latest[p]
      /\ latest'[page] = Zeros
      /\ HandOut(page, pos, size)
  BY DEF AllocateInNewFrame, Pages!New, StoreInv, StoreTypeOK
<1>5. \A o \in Offsets : latest'[page][o] = 0
  BY <1>4 DEF Zeros
<1> HIDE DEF pos
<1>6. pos \notin DOMAIN sizes
  BY <1>3, <1>4 DEF StoreInv, RecordsInFrames
<1>7. (pos % F) + size <= F
  BY <1>1, <1>3, StoreAssumption
<1> QED
  BY <1>1, <1>3, <1>4, <1>5, <1>6, <1>7, HandOutRefines

LEMMA InFrameRefines ==
  ASSUME StoreInv, NEW size \in Sizes, AllocateInFrame(size)
  PROVE  Records!Next
<1>1. top_pos \in Nat
  BY DEF StoreInv, StoreTypeOK
<1>2. top_pos % F # 0 /\ (top_pos % F) + size <= F
  BY <1>1, RoomBehindTop DEF AllocateInFrame
<1>3. /\ GetPageId(top_pos) \in DOMAIN latest \ trees
      /\ \A id \in DOMAIN sizes :
           GetPageId(id) = GetPageId(top_pos) => id + sizes[id] <= top_pos
      /\ \A o \in Offsets : o >= top_pos % F => latest[GetPageId(top_pos)][o] = 0
  BY <1>2 DEF StoreInv, TopIsFree
<1>4. latest' = latest /\ HandOut(GetPageId(top_pos), top_pos, size)
  BY DEF AllocateInFrame
<1>5. top_pos \notin DOMAIN sizes
  <2>1. SUFFICES ASSUME top_pos \in DOMAIN sizes PROVE FALSE
    OBVIOUS
  <2>2. top_pos + sizes[top_pos] <= top_pos /\ sizes[top_pos] \in 1 .. F
    BY <1>3, <2>1, StoreAssumption DEF StoreInv, StoreTypeOK
  <2> QED
    BY <1>1, <2>2, StoreAssumption
<1>6. GetPageId(top_pos) \in PageIds
  BY <1>3 DEF StoreInv, StoreTypeOK
<1> QED
  BY <1>1, <1>2, <1>3, <1>4, <1>5, <1>6, HandOutRefines

LEMMA StoreRefines ==
  ASSUME StoreInv, [Next]_vars
  PROVE  [Records!Next]_RecordMap
<1>1. ASSUME NEW page \in PageIds, TreeNew(page)
      PROVE  UNCHANGED RecordMap
  BY <1>1, SameFramesSameRecords DEF TreeNew, Pages!New, StoreInv, StoreTypeOK
<1>2. ASSUME NEW page \in PageIds, NEW byte \in Bytes, TreeWrite(page, byte)
      PROVE  UNCHANGED RecordMap
  BY <1>2, SameFramesSameRecords DEF TreeWrite, Pages!Write
<1>3. ASSUME NEW page \in PageIds, TreeDelete(page)
      PROVE  UNCHANGED RecordMap
  BY <1>3, SameFramesSameRecords DEF TreeDelete, Pages!Delete
<1>4. CASE Clean
  <2>1. RecordMap' = [id \in {} |-> << >>]
    BY <1>4 DEF Clean, RecordMap
  <2> QED
    BY <2>1 DEF Records!Next, Records!Clear, RecordMap
<1>5. CASE UNCHANGED vars
  BY <1>5, SameFramesSameRecords DEF vars
<1> QED
  BY <1>1, <1>2, <1>3, <1>4, <1>5, NewFrameRefines, InFrameRefines, WriteRefines
     DEF Next

(* The store is a map of records for whoever uses it, whatever the trees   *)
(* do between: every write reaches its record and no other.                *)
THEOREM StoreImplementsRecords == Spec => ImplementsRecordStore
<1>1. ASSUME Init PROVE Records!Init
  BY <1>1 DEF Init, Records!Init
<1>2. ASSUME StoreInv, [Next]_vars
      PROVE  [Records!Next]_([id \in DOMAIN sizes |-> Get(id)])
  BY <1>2, StoreRefines DEF RecordMap
<1> QED
  BY <1>1, <1>2, StoreInvHolds, PTL DEF Spec, ImplementsRecordStore, Records!Spec
=============================================================================
